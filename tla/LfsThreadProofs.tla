--------------------------- MODULE LfsThreadProofs --------------------------
(***************************************************************************)
(* Proofs about what littlefs reads of its thread: for a thread given as     *)
(* its pairs P[1] .. P[n], what the walk over the disk finds, which pair is  *)
(* found to lead to another, what the global state adds up to, and how       *)
(* these change when a pair is changed, dropped, put in, split or moved.     *)
(* Then what the directories on it list, and the nodes that a path leads to   *)
(* as the least set grown from these lists.                                  *)
(***************************************************************************)
EXTENDS LfsThread, WellFoundedInduction, FiniteSetTheorems, SequenceTheorems, TLAPS

Less == {ss \in Nat \X Nat : ss[1] < ss[2]}

(* A set of numbers that is not empty has a least element.                    *)
LEMMA LeastOne == ASSUME NEW T, T \subseteq Nat, T # {} PROVE \E x \in T : \A y \in T : ~(y < x)
<1>1. IsWellFoundedOn(Less, Nat)
  BY NatLessThanWellFounded DEF OpToRel, Less
<1>2. \E x \in T : \A y \in T : <<y, x>> \notin Less
  BY <1>1, WFMin
<1>3. ASSUME NEW x \in Nat, NEW y \in Nat, y < x PROVE <<y, x>> \in Less
  BY <1>3 DEF Less
<1> QED
  BY <1>2, <1>3

(* Induction up to a number. *)
LEMMA UpTo ==
    ASSUME NEW S, NEW N \in Nat, 0 \in S, \A k \in 0 .. N - 1 : k \in S => k + 1 \in S
    PROVE  \A k \in 0 .. N : k \in S
<1> DEFINE T == (0 .. N) \ S
<1> SUFFICES ASSUME T # {} PROVE FALSE
  OBVIOUS
<1>1. T \subseteq Nat
  OBVIOUS
<1>2. PICK k \in T : \A y \in T : ~(y < k)
  BY <1>1, LeastOne
<1>3. k # 0
  OBVIOUS
<1>4. k - 1 \in 0 .. N - 1 /\ k - 1 \in 0 .. N
  BY <1>3
<1>5. k - 1 \in S
  BY <1>2, <1>4
<1>6. (k - 1) + 1 \in S
  BY <1>4, <1>5
<1> QED
  BY <1>6
-----------------------------------------------------------------------------
(* What Append does to a sequence given element by element.                   *)
LEMMA AppendIs ==
    ASSUME NEW u \in Nat, NEW s, s = [j \in 1 .. u |-> s[j]]
    PROVE  /\ Len(s) = u
           /\ \A x : Append(s, x) = [j \in 1 .. u + 1 |-> IF j <= u THEN s[j] ELSE x]
<1> DEFINE W == {s[j] : j \in 1 .. u}
<1>1. s \in [1 .. u -> W]
  OBVIOUS
<1> HIDE DEF W
<1>2. s \in Seq(W) /\ Len(s) = u
  BY <1>1
<1>3. ASSUME NEW x PROVE Append(s, x) = [j \in 1 .. u + 1 |-> IF j <= u THEN s[j] ELSE x]
  <2> DEFINE a == Append(s, x)
             V == W \cup {x}
  <2>1. s \in Seq(V) /\ x \in V
    BY <1>2
  <2>2. a \in Seq(V) /\ Len(a) = u + 1 /\ (\A j \in 1 .. u : a[j] = s[j]) /\ a[u + 1] = x
    BY <1>2, <2>1, AppendProperties
  <2> HIDE DEF a, V
  <2>3. a \in [1 .. u + 1 -> V]
    BY <2>2, LenProperties
  <2>4. \A j \in 1 .. u + 1 : a[j] = IF j <= u THEN s[j] ELSE x
    BY <2>2
  <2> QED
    BY <2>3, <2>4 DEF a
<1> QED
  BY <1>2, <1>3

-----------------------------------------------------------------------------
(* What is on a disk. *)
Kinds    == Files \cup {"none", "dir"}
Ents     == [type : Kinds, pair : SUBSET Blocks]
Moves    == [pair : SUBSET Blocks, name : Names]
Gs       == [orphan : BOOLEAN, moves : SUBSET Moves]
Contents == [rev : Nat, ents : [Names -> Ents], tail : SUBSET Blocks, split : BOOLEAN, g : Gs]
Disks    == [Blocks -> Contents]
Pairs    == {p \in SUBSET Blocks : \E a, b : a # b /\ p = {a, b}}

(* Block c is the half in use of pair p. *)
InForce(b, p, c) == c \in p /\ \A d \in p : d # c => b[d].rev < b[c].rev
Settled(b, p)    == p \in Pairs /\ \E c \in p : InForce(b, p, c)

(* lfs_dir_fetch takes the half of a pair that is in force.                   *)
LEMMA FetchIs ==
    ASSUME NEW b \in Disks, NEW p \in Pairs, NEW c, InForce(b, p, c)
    PROVE  Fetch(b, p) = [pair |-> p, cur |-> c, m |-> b[c]]
<1>1. c \in Blocks /\ \A d \in p : d \in Blocks /\ b[d].rev \in Nat
  BY DEF InForce, Pairs, Disks, Contents
<1>2. \A d \in p : b[c].rev >= b[d].rev
  BY <1>1 DEF InForce
<1>3. \A a \in p : (\A d \in p : b[a].rev >= b[d].rev) => a = c
  BY <1>1 DEF InForce
<1>4. (CHOOSE a \in p : \A d \in p : b[a].rev >= b[d].rev) = c
  BY <1>2, <1>3 DEF InForce
<1> QED
  BY <1>4 DEF Fetch

(* ... so that a pair with a half in force is read as that half.              *)
LEMMA FetchSettled ==
    ASSUME NEW b \in Disks, NEW p, Settled(b, p)
    PROVE  /\ p \in Pairs /\ Fetch(b, p).pair = p /\ InForce(b, p, Fetch(b, p).cur)
           /\ Fetch(b, p).cur \in p /\ Fetch(b, p).cur \in Blocks
           /\ Fetch(b, p).m = b[Fetch(b, p).cur]
           /\ Fetch(b, p).m \in Contents
           /\ Fetch(b, p) = [pair |-> p, cur |-> Fetch(b, p).cur, m |-> b[Fetch(b, p).cur]]
<1>1. PICK c \in p : InForce(b, p, c)
  BY DEF Settled
<1>2. Fetch(b, p) = [pair |-> p, cur |-> c, m |-> b[c]]
  BY <1>1, FetchIs DEF Settled
<1> QED
  BY <1>1, <1>2 DEF Settled, Pairs, Disks
-----------------------------------------------------------------------------
(* A thread: its n pairs P, and what they hold, M. *)
Line(n, P, M) ==
    /\ n \in Nat \ {0} /\ P \in [1 .. n -> Pairs] /\ M \in [1 .. n -> Contents]
    /\ P[1] = Root
    /\ \A i, j \in 1 .. n : i # j => P[i] \cap P[j] = {}
    /\ \A i \in 1 .. n - 1 : M[i].tail = P[i + 1]
    /\ M[n].tail = NoPair /\ M[n].split = FALSE

Ms(b, n, P)     == [i \in 1 .. n |-> Fetch(b, P[i]).m]
Threaded(b, n, P) == Line(n, P, Ms(b, n, P)) /\ \A i \in 1 .. n : Settled(b, P[i])

(* No two places of a thread have the same pair.                              *)
LEMMA PairsDiffer ==
    ASSUME NEW n, NEW P, NEW M, Line(n, P, M), NEW i \in 1 .. n, NEW j \in 1 .. n, P[i] = P[j]
    PROVE  i = j
<1>1. P[i] \in Pairs /\ P[i] # {}
  BY DEF Line, Pairs
<1> QED
  BY <1>1 DEF Line

(* A thread has no more pairs than there are blocks.                          *)
LEMMA LineShort ==
    ASSUME NEW n, NEW P, NEW M, Line(n, P, M)
    PROVE  Cardinality(Blocks) \in Nat /\ n <= Cardinality(Blocks)
<1> DEFINE f == [i \in 1 .. n |-> CHOOSE x \in P[i] : TRUE]
<1>1. n \in Nat /\ \A i \in 1 .. n : P[i] # {} /\ P[i] \subseteq Blocks
  BY DEF Line, Pairs
<1>2. \A i \in 1 .. n : f[i] \in P[i]
  BY <1>1
<1> HIDE DEF f
<1>3. f \in [1 .. n -> Blocks]
  BY <1>1, <1>2 DEF f
<1>4. \A i, j \in 1 .. n : f[i] = f[j] => i = j
  BY <1>2 DEF Line
<1>5. f \in Injection(1 .. n, Blocks)
  BY <1>3, <1>4 DEF Injection, IsInjective
<1>6. IsFiniteSet(Blocks)
  BY ThreadAssumption
<1>7. Cardinality(Blocks) \in Nat /\ Cardinality(1 .. n) <= Cardinality(Blocks)
  BY <1>5, <1>6, FS_Injection, FS_CardinalityType
<1>8. Cardinality(1 .. n) = n
  BY <1>1, FS_Interval
<1> QED
  BY <1>7, <1>8

(* The walk over the tails reads the pairs of the thread, all and in order.   *)
LEMMA ThreadIs ==
    ASSUME NEW b \in Disks, NEW n, NEW P, Threaded(b, n, P)
    PROVE  Thread(b) = [i \in 1 .. n |-> Fetch(b, P[i])]
<1> DEFINE N == Cardinality(Blocks)
           Grown(done) ==
              LET next == Last(done).m.tail
              IN IF next = NoPair \/ next \in {done[i].pair : i \in 1 .. Len(done)}
                 THEN done ELSE Append(done, Fetch(b, next))
           Rule(w) == [k \in 0 .. N |->
                         IF k = 0 THEN <<Fetch(b, Root)>>
                         ELSE LET done == w[k - 1]
                                  next == Last(done).m.tail
                              IN IF next = NoPair \/ next \in {done[i].pair : i \in 1 .. Len(done)}
                                 THEN done ELSE Append(done, Fetch(b, next))]
           walk == CHOOSE w : w = Rule(w)
           upto(k) == IF k < n THEN k + 1 ELSE n
           first(k) == [i \in 1 .. k |-> Fetch(b, P[i])]
           sol == [k \in 0 .. N |-> first(upto(k))]
<1>1. Thread(b) = walk[N]
  BY DEF Thread
<1>2. n \in Nat \ {0} /\ N \in Nat /\ n <= N
  BY LineShort DEF Threaded, Line
<1>3. ASSUME NEW w, NEW k \in 0 .. N
      PROVE  Rule(w)[k] = IF k = 0 THEN <<Fetch(b, Root)>> ELSE Grown(w[k - 1])
  OBVIOUS
<1>4. first(upto(0)) = <<Fetch(b, Root)>>
  <2>1. P[1] = Root /\ upto(0) = 1
    BY <1>2 DEF Threaded, Line
  <2> QED
    BY <2>1
<1>5. ASSUME NEW k \in 0 .. N - 1 PROVE Grown(first(upto(k))) = first(upto(k + 1))
  <2> DEFINE u == upto(k)
             done == first(u)
             next == Last(done).m.tail
  <2>1. u \in 1 .. n
    BY <1>2
  <2>2. Len(done) = u /\ Last(done) = Fetch(b, P[u]) /\ done \in Seq({Fetch(b, P[i]) : i \in 1 .. n})
    BY <1>2, <2>1 DEF Last
  <2>3. \A i \in 1 .. u : done[i].pair = P[i]
    <3>1. ASSUME NEW i \in 1 .. n PROVE Fetch(b, P[i]).pair = P[i]
      BY FetchSettled DEF Threaded
    <3> QED
      BY <1>2, <2>1, <3>1
  <2>4. next = Ms(b, n, P)[u].tail
    BY <2>1, <2>2 DEF Ms
  <2>5. CASE k < n - 1
    <3>1. u = k + 1 /\ u \in 1 .. n - 1 /\ u + 1 \in 1 .. n /\ upto(k + 1) = u + 1
      BY <1>2, <2>5
    <3> HIDE DEF done, next, first, upto
    <3>2. next = P[u + 1]
      BY <2>4, <3>1 DEF Threaded, Line
    <3>3. next # NoPair
      BY <3>1, <3>2 DEF Threaded, Line, Pairs, NoPair
    <3>4. \A i \in 1 .. u : done[i].pair # next
      <4>1. \A i \in 1 .. n : P[i] = P[u + 1] => i = u + 1
        BY <3>1, PairsDiffer DEF Threaded
      <4> QED
        BY <1>2, <2>3, <3>1, <3>2, <4>1
    <3>5. Grown(done) = Append(done, Fetch(b, next))
      BY <2>2, <3>3, <3>4 DEF next
    <3>6. Append(done, Fetch(b, next)) = first(u + 1)
      BY <2>1, <2>2, <3>2 DEF done, first
    <3> QED
      BY <3>1, <3>5, <3>6 DEF done
  <2>6. CASE ~(k < n - 1)
    <3>1. u = n /\ upto(k + 1) = n
      BY <1>2, <2>6
    <3> HIDE DEF done, next, first, upto
    <3>2. next = NoPair
      BY <2>4, <3>1 DEF Threaded, Line
    <3>3. Grown(done) = done
      BY <3>2 DEF next
    <3> QED
      BY <3>1, <3>3 DEF done
  <2> QED
    BY <2>5, <2>6
<1> HIDE DEF Grown, first, upto
<1>6. ASSUME NEW w, w = Rule(w) PROVE w[N] = first(upto(N))
  <2> DEFINE S == {k \in 0 .. N : w[k] = first(upto(k))}
  <2>1. 0 \in S
    <3> HIDE DEF Rule
    <3>1. w[0] = Rule(w)[0]
      BY <1>6
    <3>2. 0 \in 0 .. N
      BY <1>2
    <3> QED
      BY <1>3, <1>4, <3>1, <3>2
  <2>2. ASSUME NEW k \in 0 .. N - 1, k \in S PROVE k + 1 \in S
    <3>1. k + 1 \in 0 .. N /\ k + 1 # 0 /\ (k + 1) - 1 = k
      BY <1>2
    <3> HIDE DEF Rule
    <3>2. w[k + 1] = Rule(w)[k + 1]
      BY <1>6
    <3>3. Rule(w)[k + 1] = Grown(w[k])
      BY <1>3, <3>1
    <3> QED
      BY <1>5, <2>2, <3>1, <3>2, <3>3
  <2> HIDE DEF S, Rule
  <2>3. \A k \in 0 .. N : k \in S
    BY <1>2, <2>1, <2>2, UpTo
  <2>4. N \in 0 .. N
    BY <1>2
  <2> QED
    BY <2>3, <2>4 DEF S
<1>7. sol = Rule(sol)
  <2>1. ASSUME NEW k \in 0 .. N PROVE sol[k] = Rule(sol)[k]
    <3>1. Rule(sol)[k] = IF k = 0 THEN <<Fetch(b, Root)>> ELSE Grown(sol[k - 1])
      BY <1>3
    <3> HIDE DEF Rule
    <3>2. CASE k = 0
      BY <1>4, <3>1, <3>2
    <3>3. CASE k # 0
      <4>1. k - 1 \in 0 .. N - 1 /\ k - 1 \in 0 .. N /\ (k - 1) + 1 = k
        BY <1>2, <3>3
      <4>2. sol[k - 1] = first(upto(k - 1)) /\ sol[k] = first(upto(k))
        BY <4>1
      <4>3. Grown(first(upto(k - 1))) = first(upto((k - 1) + 1))
        BY <1>5, <4>1
      <4> QED
        BY <3>1, <3>3, <4>1, <4>2, <4>3
    <3> QED
      BY <3>2, <3>3
  <2>2. sol = [k \in 0 .. N |-> sol[k]]
    OBVIOUS
  <2>3. Rule(sol) = [k \in 0 .. N |-> Rule(sol)[k]]
    OBVIOUS
  <2> HIDE DEF sol, Rule
  <2> QED
    BY <2>1, <2>2, <2>3
<1>8. walk = Rule(walk)
  <2> HIDE DEF sol, Rule
  <2> QED
    BY <1>7
<1>9. walk[N] = first(upto(N))
  <2> HIDE DEF walk, Rule
  <2> QED
    BY <1>6, <1>8
<1>10. upto(N) = n
  BY <1>2 DEF upto
<1> QED
  BY <1>1, <1>9, <1>10 DEF first
-----------------------------------------------------------------------------
(* The searches along a thread. *)
LEMMA PredsIs ==
    ASSUME NEW b \in Disks, NEW n, NEW P, Threaded(b, n, P),
           NEW q, NEW k \in 2 .. n, \A j \in 2 .. n : Overlap(P[j], q) <=> j = k
    PROVE  Preds(b, q) = {Fetch(b, P[k - 1])}
<1> DEFINE t == [i \in 1 .. n |-> Fetch(b, P[i])]
           Hit(i) == Overlap(t[i].m.tail, q)
<1>1. n \in Nat \ {0}
  BY DEF Threaded, Line
<1>2. ASSUME NEW i \in 1 .. n PROVE Hit(i) <=> i = k - 1
  <2>1. t[i].m.tail = Ms(b, n, P)[i].tail
    BY DEF Ms
  <2>2. CASE i = n
    <3>1. t[i].m.tail = {}
      BY <1>1, <2>1, <2>2 DEF Threaded, Line, NoPair
    <3> QED
      BY <1>1, <2>2, <3>1 DEF Overlap
  <2>3. CASE i # n
    <3>1. i \in 1 .. n - 1 /\ i + 1 \in 2 .. n
      BY <1>1, <2>3
    <3>2. t[i].m.tail = P[i + 1]
      BY <2>1, <3>1 DEF Threaded, Line
    <3> QED
      BY <1>1, <3>1, <3>2
  <2> QED
    BY <2>2, <2>3
<1>3. Preds(b, q) = {t[i] : i \in {j \in DOMAIN t : Hit(j) /\ \A l \in 1 .. j - 1 : ~Hit(l)}}
  <2>1. Thread(b) = t
    BY ThreadIs
  <2> HIDE DEF t
  <2> QED
    BY <2>1 DEF Preds, FirstOf
<1> HIDE DEF Hit
<1>4. {j \in DOMAIN t : Hit(j) /\ \A l \in 1 .. j - 1 : ~Hit(l)} = {k - 1}
  BY <1>1, <1>2
<1> QED
  BY <1>1, <1>3, <1>4

(* lfs_fs_pred finds nothing where no pair but the first is the one looked    *)
(* for.                                                                       *)
LEMMA NoPreds ==
    ASSUME NEW b \in Disks, NEW n, NEW P, Threaded(b, n, P),
           NEW q, \A j \in 2 .. n : ~Overlap(P[j], q)
    PROVE  Preds(b, q) = {}
<1> DEFINE t == [i \in 1 .. n |-> Fetch(b, P[i])]
           Hit(i) == Overlap(t[i].m.tail, q)
<1>1. n \in Nat \ {0}
  BY DEF Threaded, Line
<1>2. ASSUME NEW i \in 1 .. n PROVE ~Hit(i)
  <2>1. t[i].m.tail = Ms(b, n, P)[i].tail
    BY DEF Ms
  <2>2. CASE i = n
    <3>1. t[i].m.tail = {}
      BY <1>1, <2>1, <2>2 DEF Threaded, Line, NoPair
    <3> QED
      BY <3>1 DEF Overlap
  <2>3. CASE i # n
    <3>1. i \in 1 .. n - 1 /\ i + 1 \in 2 .. n
      BY <1>1, <2>3
    <3>2. t[i].m.tail = P[i + 1]
      BY <2>1, <3>1 DEF Threaded, Line
    <3> QED
      BY <3>1, <3>2
  <2> QED
    BY <2>2, <2>3
<1>3. Preds(b, q) = {t[i] : i \in {j \in DOMAIN t : Hit(j) /\ \A l \in 1 .. j - 1 : ~Hit(l)}}
  <2>1. Thread(b) = t
    BY ThreadIs
  <2> HIDE DEF t
  <2> QED
    BY <2>1 DEF Preds, FirstOf
<1> HIDE DEF Hit
<1> QED
  BY <1>2, <1>3

(* lfs_fs_parent finds the one pair that has an entry for the pair looked     *)
(* for.                                                                       *)
LEMMA ParentsIs ==
    ASSUME NEW b \in Disks, NEW n, NEW P, Threaded(b, n, P), NEW mv, NEW q, NEW k \in 1 .. n,
           \A j \in 1 .. n : Entries(Fetch(b, P[j]), mv, q) # {} <=> j = k
    PROVE  Parents(b, mv, q) = {Fetch(b, P[k])}
<1> DEFINE t == [i \in 1 .. n |-> Fetch(b, P[i])]
           Hit(i) == Entries(t[i], mv, q) # {}
<1>1. n \in Nat \ {0}
  BY DEF Threaded, Line
<1>2. \A i \in 1 .. n : Hit(i) <=> i = k
  OBVIOUS
<1>3. Parents(b, mv, q) = {t[i] : i \in {j \in DOMAIN t : Hit(j) /\ \A l \in 1 .. j - 1 : ~Hit(l)}}
  <2>1. Thread(b) = t
    BY ThreadIs
  <2> HIDE DEF t
  <2> QED
    BY <2>1 DEF Parents, FirstOf
<1> HIDE DEF Hit
<1>4. {j \in DOMAIN t : Hit(j) /\ \A l \in 1 .. j - 1 : ~Hit(l)} = {k}
  BY <1>1, <1>2
<1> QED
  BY <1>1, <1>3, <1>4

(* One of the pairs found, whichever comes first. *)
LEMMA SomeParent ==
    ASSUME NEW b \in Disks, NEW n, NEW P, Threaded(b, n, P), NEW mv, NEW q
    PROVE  /\ \A h \in Parents(b, mv, q) :
                 \E k \in 1 .. n : h = Fetch(b, P[k]) /\ Entries(h, mv, q) # {}
           /\ \A h \in Preds(b, q) : \E k \in 1 .. n : h = Fetch(b, P[k])
<1>1. n \in Nat \ {0} /\ Thread(b) = [i \in 1 .. n |-> Fetch(b, P[i])]
  BY ThreadIs DEF Threaded, Line
<1>2. DOMAIN Thread(b) = 1 .. n
  BY <1>1
<1> QED
  BY <1>1, <1>2 DEF Parents, Preds, FirstOf

(* What the pairs of a thread add up to. *)
Adds(n, M, g) ==
    \E s \in [0 .. n -> Gs] :
        s[0] = NoG /\ s[n] = g /\ \A i \in 1 .. n : s[i] = Xor(s[i - 1], M[i].g)

(* What a mount adds up is what the deltas of the pairs come to.              *)
LEMMA GStateIs ==
    ASSUME NEW b \in Disks, NEW n, NEW P, Threaded(b, n, P), NEW g, Adds(n, Ms(b, n, P), g)
    PROVE  GState(b) = g
<1> DEFINE t == [i \in 1 .. n |-> Fetch(b, P[i])]
           M == Ms(b, n, P)
           Rule(f) == [k \in 0 .. n |-> IF k = 0 THEN NoG ELSE Xor(f[k - 1], t[k].m.g)]
           sum == CHOOSE f : f = Rule(f)
<1>1. n \in Nat \ {0}
  BY DEF Threaded, Line
<1>2. n \in Nat \ {0} /\ Thread(b) = t /\ Len(t) = n
  BY <1>1, ThreadIs
<1>3. GState(b) = sum[n]
  <2>1. GState(b) = LET sum1 == CHOOSE f : f = [k \in 0 .. Len(t) |-> IF k = 0 THEN NoG ELSE Xor(f[k - 1], t[k].m.g)]
                    IN sum1[Len(t)]
    BY <1>2 DEF GState
  <2> HIDE DEF t
  <2> QED
    BY <1>2, <2>1
<1>4. PICK s \in [0 .. n -> Gs] :
         s[0] = NoG /\ s[n] = g /\ \A i \in 1 .. n : s[i] = Xor(s[i - 1], M[i].g)
  BY DEF Adds
<1>5. \A i \in 1 .. n : t[i].m.g = M[i].g
  BY DEF Ms
<1> HIDE DEF t, M
<1>6. s = Rule(s)
  <2>1. ASSUME NEW k \in 0 .. n PROVE s[k] = Rule(s)[k]
    BY <1>2, <1>4, <1>5
  <2> HIDE DEF Rule
  <2>2. DOMAIN Rule(s) = 0 .. n /\ Rule(s) = [k \in 0 .. n |-> Rule(s)[k]]
    BY DEF Rule
  <2> QED
    BY <1>4, <2>1, <2>2
<1>7. ASSUME NEW f, f = Rule(f) PROVE f[n] = g
  <2> DEFINE S == {k \in 0 .. n : f[k] = s[k]}
  <2>1. \A k \in 0 .. n : f[k] = Rule(f)[k] /\ s[k] = Rule(s)[k]
    <3> HIDE DEF Rule
    <3> QED
      BY <1>6, <1>7
  <2>2. 0 \in S
    BY <1>2, <2>1
  <2>3. ASSUME NEW k \in 0 .. n - 1, k \in S PROVE k + 1 \in S
    BY <1>2, <2>1, <2>3
  <2> HIDE DEF S
  <2>4. \A k \in 0 .. n : k \in S
    BY <1>2, <2>2, <2>3, UpTo
  <2>5. n \in S
    BY <1>2, <2>4
  <2> QED
    BY <1>4, <2>5 DEF S
<1>8. sum = Rule(sum)
  <2> HIDE DEF Rule
  <2> QED
    BY <1>6
<1> HIDE DEF sum, Rule
<1> QED
  BY <1>3, <1>7, <1>8
-----------------------------------------------------------------------------
(* Directories: a pair and those split off it. *)
Hard(b, n, P) ==
    /\ n \in Nat \ {0} /\ Cardinality(Blocks) \in Nat /\ n <= Cardinality(Blocks)
    /\ \A j \in 1 .. n - 1 : Fetch(b, P[j]).m.split => Fetch(b, P[j]).m.tail = P[j + 1]
    /\ ~Fetch(b, P[n]).m.split

(* From any pair on, some pair ends its directory.                            *)
LEMMA ChainEnds ==
    ASSUME NEW b, NEW n, NEW P, Hard(b, n, P), NEW i \in 1 .. n
    PROVE  \E e \in i .. n : ~Fetch(b, P[e]).m.split /\ \A j \in i .. e - 1 : Fetch(b, P[j]).m.split
<1> DEFINE T == {e \in i .. n : ~Fetch(b, P[e]).m.split}
<1>1. T \subseteq Nat /\ n \in T
  BY DEF Hard
<1>2. PICK e \in T : \A y \in T : ~(y < e)
  BY <1>1, LeastOne
<1>3. e \in i .. n /\ ~Fetch(b, P[e]).m.split
  BY <1>2
<1>4. ASSUME NEW j \in i .. e - 1 PROVE Fetch(b, P[j]).m.split
  <2>1. j \in i .. n /\ j < e
    BY <1>3 DEF Hard
  <2> QED
    BY <1>2, <2>1
<1> QED
  BY <1>3, <1>4

(* A directory is read from its first pair to the one that ends it.           *)
LEMMA ChainIs ==
    ASSUME NEW b, NEW n, NEW P, Hard(b, n, P), NEW i \in 1 .. n, NEW e \in i .. n,
           ~Fetch(b, P[e]).m.split, \A j \in i .. e - 1 : Fetch(b, P[j]).m.split
    PROVE  Chain(b, P[i]) = [j \in 1 .. e - i + 1 |-> Fetch(b, P[i + j - 1])]
<1> DEFINE N == Cardinality(Blocks)
           Grown(done, k) == IF Last(done).m.split /\ Len(done) = k
                             THEN Append(done, Fetch(b, Last(done).m.tail)) ELSE done
           Rule(w) == [k \in 0 .. N |->
                         IF k = 0 THEN <<Fetch(b, P[i])>>
                         ELSE LET done == w[k - 1] IN
                              IF Last(done).m.split /\ Len(done) = k
                              THEN Append(done, Fetch(b, Last(done).m.tail)) ELSE done]
           walk == CHOOSE w : w = Rule(w)
           upto(k) == IF k < e - i THEN k + 1 ELSE e - i + 1
           first(k) == [j \in 1 .. k |-> Fetch(b, P[i + j - 1])]
           sol == [k \in 0 .. N |-> first(upto(k))]
<1>1. Chain(b, P[i]) = walk[N]
  BY DEF Chain
<1>2. n \in Nat \ {0} /\ N \in Nat /\ n <= N /\ i \in Nat /\ e \in Nat /\ i <= e /\ e <= n /\ i >= 1
  BY DEF Hard
<1>3. ASSUME NEW w, NEW k \in 0 .. N
      PROVE  Rule(w)[k] = IF k = 0 THEN <<Fetch(b, P[i])>> ELSE Grown(w[k - 1], k)
  OBVIOUS
<1>4. first(upto(0)) = <<Fetch(b, P[i])>>
  <2>1. upto(0) = 1 /\ i + 1 - 1 = i
    BY <1>2
  <2> QED
    BY <2>1
<1>5. ASSUME NEW k \in 0 .. N - 1 PROVE Grown(first(upto(k)), k + 1) = first(upto(k + 1))
  <2> DEFINE u == upto(k)
             done == first(u)
  <2>1. u \in Nat /\ u >= 1 /\ u <= e - i + 1
    BY <1>2
  <2> DEFINE W == {Fetch(b, P[i + j - 1]) : j \in 1 .. u}
  <2>2. /\ Len(done) = u /\ Last(done) = Fetch(b, P[i + u - 1])
        /\ done \in Seq(W) /\ done \in [1 .. u -> W]
    <3> HIDE DEF upto
    <3>1. done \in [1 .. u -> W] /\ u \in 1 .. u
      BY <2>1
    <3>2. done[u] = Fetch(b, P[i + u - 1])
      BY <3>1
    <3> HIDE DEF first, W
    <3>3. Len(done) = u /\ done \in Seq(W)
      BY <2>1, <3>1
    <3> QED
      BY <3>1, <3>2, <3>3 DEF Last
  <2>3. CASE k < e - i
    <3>1. u = k + 1 /\ i + u - 1 \in i .. e - 1 /\ i + u - 1 \in 1 .. n - 1 /\ (i + u - 1) + 1 = i + u
      BY <1>2, <2>3
    <3>2. upto(k + 1) = u + 1
      BY <1>2, <2>3, <3>1
    <3> HIDE DEF done, first, upto
    <3>3. Last(done).m.split /\ Last(done).m.tail = P[i + u]
      BY <2>2, <3>1 DEF Hard
    <3>4. Grown(done, k + 1) = Append(done, Fetch(b, P[i + u]))
      BY <2>2, <3>1, <3>3
    <3>5. Append(done, Fetch(b, P[i + u])) = first(u + 1)
      <4> DEFINE h == Fetch(b, P[i + u])
      <4>1. \A j \in 1 .. u : done[j] = first(u + 1)[j]
        BY <2>1 DEF done, first
      <4>2. first(u + 1)[u + 1] = h
        <5>1. u + 1 \in 1 .. u + 1 /\ i + (u + 1) - 1 = i + u
          BY <1>2, <2>1
        <5> QED
          BY <5>1 DEF first
      <4>3. first(u + 1) = [j \in 1 .. u + 1 |-> first(u + 1)[j]]
        BY DEF first
      <4> HIDE DEF h
      <4>4. Append(done, h) = [j \in 1 .. u + 1 |-> IF j <= u THEN done[j] ELSE h]
        <5>1. done = [j \in 1 .. u |-> done[j]]
          BY <2>2
        <5> HIDE DEF u
        <5> QED
          BY <2>1, <5>1, AppendIs
      <4>5. \A j \in 1 .. u + 1 : first(u + 1)[j] = IF j <= u THEN done[j] ELSE h
        BY <2>1, <4>1, <4>2
      <4> QED
        BY <4>3, <4>4, <4>5 DEF h
    <3> QED
      BY <3>2, <3>4, <3>5 DEF done
  <2>4. CASE ~(k < e - i)
    <3>1. u = e - i + 1 /\ upto(k + 1) = u /\ i + u - 1 = e
      BY <1>2, <2>4
    <3> HIDE DEF done, first, upto
    <3>2. ~Last(done).m.split
      BY <2>2, <3>1
    <3> QED
      BY <3>1, <3>2 DEF done
  <2> QED
    BY <2>3, <2>4
<1> HIDE DEF Grown, first, upto
<1>6. ASSUME NEW w, w = Rule(w) PROVE w[N] = first(upto(N))
  <2> DEFINE S == {k \in 0 .. N : w[k] = first(upto(k))}
  <2>1. 0 \in S
    <3> HIDE DEF Rule
    <3>1. w[0] = Rule(w)[0]
      BY <1>6
    <3>2. 0 \in 0 .. N
      BY <1>2
    <3> QED
      BY <1>3, <1>4, <3>1, <3>2
  <2>2. ASSUME NEW k \in 0 .. N - 1, k \in S PROVE k + 1 \in S
    <3>1. k + 1 \in 0 .. N /\ k + 1 # 0 /\ (k + 1) - 1 = k
      BY <1>2
    <3> HIDE DEF Rule
    <3>2. w[k + 1] = Rule(w)[k + 1]
      BY <1>6
    <3>3. Rule(w)[k + 1] = Grown(w[k], k + 1)
      BY <1>3, <3>1
    <3> QED
      BY <1>5, <2>2, <3>1, <3>2, <3>3
  <2> HIDE DEF S, Rule
  <2>3. \A k \in 0 .. N : k \in S
    BY <1>2, <2>1, <2>2, UpTo
  <2>4. N \in 0 .. N
    BY <1>2
  <2> QED
    BY <2>3, <2>4 DEF S
<1>7. sol = Rule(sol)
  <2>1. ASSUME NEW k \in 0 .. N PROVE sol[k] = Rule(sol)[k]
    <3>1. Rule(sol)[k] = IF k = 0 THEN <<Fetch(b, P[i])>> ELSE Grown(sol[k - 1], k)
      BY <1>3
    <3> HIDE DEF Rule
    <3>2. CASE k = 0
      BY <1>4, <3>1, <3>2
    <3>3. CASE k # 0
      <4>1. k - 1 \in 0 .. N - 1 /\ k - 1 \in 0 .. N /\ (k - 1) + 1 = k
        BY <1>2, <3>3
      <4>2. sol[k - 1] = first(upto(k - 1)) /\ sol[k] = first(upto(k))
        BY <4>1
      <4>3. Grown(first(upto(k - 1)), (k - 1) + 1) = first(upto((k - 1) + 1))
        BY <1>5, <4>1
      <4> QED
        BY <3>1, <3>3, <4>1, <4>2, <4>3
    <3> QED
      BY <3>2, <3>3
  <2>2. sol = [k \in 0 .. N |-> sol[k]]
    OBVIOUS
  <2>3. Rule(sol) = [k \in 0 .. N |-> Rule(sol)[k]]
    OBVIOUS
  <2> HIDE DEF sol, Rule
  <2> QED
    BY <2>1, <2>2, <2>3
<1>8. walk = Rule(walk)
  <2> HIDE DEF sol, Rule
  <2> QED
    BY <1>7
<1>9. walk[N] = first(upto(N))
  <2> HIDE DEF walk, Rule
  <2> QED
    BY <1>6, <1>8
<1>10. upto(N) = e - i + 1
  BY <1>2 DEF upto
<1> QED
  BY <1>1, <1>9, <1>10 DEF first

(* What is read of a directory, and the pair found to hold a name, are its    *)
(* pairs.                                                                     *)
LEMMA ChainFound ==
    ASSUME NEW b, NEW n, NEW P, Hard(b, n, P), NEW i \in 1 .. n
    PROVE  /\ \A h \in Range(Chain(b, P[i])) :
                 \E j \in i .. n : h = Fetch(b, P[j]) /\ \A l \in i .. j - 1 : Fetch(b, P[l]).m.split
           /\ \E e \in i .. n : /\ Last(Chain(b, P[i])) = Fetch(b, P[e]) /\ ~Fetch(b, P[e]).m.split
                                /\ \A l \in i .. e - 1 : Fetch(b, P[l]).m.split
           /\ \A mv, nm : Find(Chain(b, P[i]), mv, nm) \in Range(Chain(b, P[i]))
<1>1. PICK e \in i .. n : ~Fetch(b, P[e]).m.split /\ \A j \in i .. e - 1 : Fetch(b, P[j]).m.split
  BY ChainEnds
<1> DEFINE c == [j \in 1 .. e - i + 1 |-> Fetch(b, P[i + j - 1])]
<1>2. Chain(b, P[i]) = c
  BY <1>1, ChainIs
<1>3. e - i + 1 \in Nat /\ e - i + 1 >= 1 /\ i \in Nat /\ e \in Nat /\ n \in Nat
  BY DEF Hard
<1>4. \A h \in Range(c) : \E j \in i .. n : h = Fetch(b, P[j]) /\ \A l \in i .. j - 1 : Fetch(b, P[l]).m.split
  <2>1. ASSUME NEW j \in 1 .. e - i + 1
        PROVE  c[j] = Fetch(b, P[i + j - 1]) /\ i + j - 1 \in i .. n /\ i + j - 1 <= e
    BY <1>3
  <2>2. \A k \in i .. n : \A l \in i .. k - 1 : k <= e => l \in i .. e - 1
    BY <1>3
  <2> HIDE DEF c
  <2>3. DOMAIN c = 1 .. e - i + 1
    BY DEF c
  <2>4. ASSUME NEW h \in Range(c)
        PROVE  \E j \in i .. n : h = Fetch(b, P[j]) /\ \A l \in i .. j - 1 : Fetch(b, P[l]).m.split
    <3>1. PICK j \in 1 .. e - i + 1 : h = c[j]
      BY <2>3, <2>4 DEF Range
    <3>2. \A l \in i .. (i + j - 1) - 1 : Fetch(b, P[l]).m.split
      BY <1>1, <2>1, <2>2
    <3> QED
      BY <2>1, <3>1, <3>2
  <2> QED
    BY <2>4
<1>5. Len(c) = e - i + 1 /\ c[Len(c)] = Fetch(b, P[e]) /\ DOMAIN c = 1 .. e - i + 1
  <2>1. Len(c) = e - i + 1
    BY <1>3, AppendIs
  <2>2. i + (e - i + 1) - 1 = e /\ e - i + 1 \in 1 .. e - i + 1
    BY <1>3
  <2> QED
    BY <2>1, <2>2
<1> HIDE DEF c
<1>6. Last(c) = Fetch(b, P[e]) /\ Last(c) \in Range(c)
  BY <1>3, <1>5 DEF Last, Range
<1>7. ASSUME NEW mv, NEW nm PROVE Find(c, mv, nm) \in Range(c)
  <2> DEFINE fits == {c[k] : k \in {j \in DOMAIN c : /\ Holds(c[j], mv, nm)
                                                     /\ \A l \in 1 .. j - 1 : ~Holds(c[l], mv, nm)}}
  <2>1. fits \subseteq Range(c)
    BY DEF Range
  <2>2. Find(c, mv, nm) = IF fits = {} THEN Last(c) ELSE The(fits)
    BY DEF Find, FirstOf
  <2> HIDE DEF fits
  <2>3. fits # {} => The(fits) \in Range(c)
    BY <2>1 DEF The
  <2> QED
    BY <1>6, <2>2, <2>3
<1> QED
  BY <1>1, <1>2, <1>4, <1>6, <1>7

(* The tree is what is found by going down it once more, as deep as it is. *)
Deeper(b, mv, f, D) ==
    [k \in 0 .. D |-> IF k = 0 THEN {[path |-> << >>, ent |-> Dir(Root)]}
                      ELSE LET done == f[k - 1] IN done \cup Level(b, mv, done)]

(* The function that walks a tree level by level exists.                      *)
LEMMA DeeperExists ==
    ASSUME NEW b, NEW mv, NEW D \in Nat
    PROVE  \E f : f = Deeper(b, mv, f, D)
<1> DEFINE Down(X) == X \cup Level(b, mv, X)
           base == {[path |-> << >>, ent |-> Dir(Root)]}
           Part(f, k) == f = [j \in 0 .. k |-> IF j = 0 THEN base ELSE Down(f[j - 1])]
           S == {k \in 0 .. D : \E f : Part(f, k)}
<1>1. 0 \in S
  <2> DEFINE f == [j \in 0 .. 0 |-> base]
  <2> HIDE DEF Down, base
  <2>1. Part(f, 0)
    OBVIOUS
  <2> HIDE DEF f, Part
  <2>2. 0 \in 0 .. D
    OBVIOUS
  <2> QED
    BY <2>1, <2>2
<1>2. ASSUME NEW k \in 0 .. D - 1, k \in S PROVE k + 1 \in S
  <2>1. PICK f : Part(f, k)
    BY <1>2
  <2> HIDE DEF Down, base
  <2> DEFINE g == [j \in 0 .. k + 1 |-> IF j <= k THEN f[j] ELSE Down(f[k])]
  <2>2. ASSUME NEW j \in 0 .. k + 1 PROVE g[j] = IF j = 0 THEN base ELSE Down(g[j - 1])
    <3>1. CASE j <= k
      <4>1. j \in 0 .. k /\ g[j] = f[j]
        BY <3>1
      <4>2. f[j] = IF j = 0 THEN base ELSE Down(f[j - 1])
        BY <2>1, <4>1
      <4>3. j # 0 => j - 1 \in 0 .. k + 1 /\ j - 1 <= k
        BY <3>1
      <4>4. j # 0 => g[j - 1] = f[j - 1]
        BY <4>3
      <4> QED
        BY <4>1, <4>2, <4>4
    <3>2. CASE ~(j <= k)
      <4>1. j = k + 1 /\ j # 0 /\ j - 1 = k /\ k \in 0 .. k + 1
        BY <3>2
      <4> QED
        BY <4>1
    <3> QED
      BY <3>1, <3>2
  <2>3. Part(g, k + 1)
    <3>1. DOMAIN g = 0 .. k + 1 /\ g = [j \in 0 .. k + 1 |-> g[j]]
      OBVIOUS
    <3> HIDE DEF g
    <3> QED
      BY <2>2, <3>1
  <2> HIDE DEF Part
  <2> QED
    BY <2>3
<1> HIDE DEF S
<1>3. D \in S
  <2>1. \A k \in 0 .. D : k \in S
    BY <1>1, <1>2, UpTo
  <2> QED
    BY <2>1
<1>4. PICK f : Part(f, D)
  BY <1>3 DEF S
<1> QED
  BY <1>4 DEF Deeper

(* ... and is what the tree is read by.                                       *)
LEMMA NodesIs ==
    ASSUME NEW b, NEW mv, Cardinality(Blocks) \in Nat
    PROVE  LET D == Cardinality(Blocks) \div 2
           IN  D \in Nat /\ \E f : f = Deeper(b, mv, f, D) /\ Nodes(b, mv) = f[D]
<1> DEFINE D == Cardinality(Blocks) \div 2
           to == CHOOSE f : f = Deeper(b, mv, f, D)
<1>1. D \in Nat
  OBVIOUS
<1>2. Nodes(b, mv) = to[D]
  BY DEF Nodes, Deeper, Depths
<1> HIDE DEF D
<1>3. to = Deeper(b, mv, to, D)
  BY <1>1, DeeperExists
<1> QED
  BY <1>1, <1>2, <1>3 DEF D

(* Every directory on a path is the root, or an entry that is not hidden leads to it. *)
DirsOnLine(b, n, P) ==
    \A i \in 1 .. n, nm \in Names : Fetch(b, P[i]).m.ents[nm].type = "dir" =>
        \E k \in 1 .. n : Fetch(b, P[i]).m.ents[nm].pair = P[k]

OnPath(b, n, P, mv, p) ==
    \/ p = Root
    \/ \E i \in 1 .. n : \E nm \in DirsOf(Fetch(b, P[i]), mv) : Fetch(b, P[i]).m.ents[nm].pair = p

(* Every directory a path leads to is on the thread, as the root or by an     *)
(* entry.                                                                     *)
LEMMA NodesFound ==
    ASSUME NEW b, NEW n, NEW P, Hard(b, n, P), P[1] = Root, NEW mv, DirsOnLine(b, n, P)
    PROVE  \A x \in Nodes(b, mv) : x.ent.type = "dir" => OnPath(b, n, P, mv, x.ent.pair)
<1> USE DEF DirsOnLine, OnPath
<1> DEFINE D == Cardinality(Blocks) \div 2
           Led(p) == \/ p = Root
                     \/ \E i \in 1 .. n : \E nm \in DirsOf(Fetch(b, P[i]), mv) :
                           Fetch(b, P[i]).m.ents[nm].pair = p
           Fine(X) == \A x \in X : x.ent.type = "dir" => Led(x.ent.pair)
<1>1. Cardinality(Blocks) \in Nat /\ n \in Nat \ {0}
  BY DEF Hard
<1>2. D \in Nat
  BY <1>1
<1> HIDE DEF D
<1>3. PICK f : f = Deeper(b, mv, f, D) /\ Nodes(b, mv) = f[D]
  BY <1>1, NodesIs DEF D
<1>4. Fine({[path |-> << >>, ent |-> Dir(Root)]})
  BY <1>1 DEF Dir
<1>5. ASSUME NEW X, Fine(X) PROVE Fine(Level(b, mv, X))
  <2> SUFFICES ASSUME NEW x \in Level(b, mv, X), x.ent.type = "dir" PROVE Led(x.ent.pair)
    OBVIOUS
  <2>1. PICK d \in {y \in X : y.ent.type = "dir"} :
               x \in {[path |-> Append(d.path, z[1]), ent |-> z[2]] : z \in Content(b, mv, d.ent.pair)}
    BY DEF Level
  <2>2. PICK e \in Content(b, mv, d.ent.pair) : x.ent = e[2]
    BY <2>1
  <2>3. PICK i \in 1 .. n : d.ent.pair = P[i]
    <3>1. Led(d.ent.pair)
      BY <1>5, <2>1
    <3>2. CASE d.ent.pair = Root
      BY <1>1, <3>2
    <3>3. ASSUME NEW j \in 1 .. n, NEW nm \in DirsOf(Fetch(b, P[j]), mv),
                 Fetch(b, P[j]).m.ents[nm].pair = d.ent.pair
          PROVE  \E k \in 1 .. n : d.ent.pair = P[k]
      BY <3>3 DEF DirsOf, Has
    <3> QED
      BY <3>1, <3>2, <3>3
  <2>4. PICK h \in Range(Chain(b, P[i])) : \E nm \in Has(h, mv) : e = <<nm, h.m.ents[nm]>>
    BY <2>3 DEF Content
  <2>5. PICK nm \in Has(h, mv) : e = <<nm, h.m.ents[nm]>>
    BY <2>4
  <2>6. PICK j \in i .. n : h = Fetch(b, P[j])
    BY <2>4, ChainFound
  <2>7. j \in 1 .. n
    BY <1>1, <2>6
  <2>8. nm \in DirsOf(h, mv) /\ h.m.ents[nm].pair = e[2].pair
    BY <2>2, <2>5 DEF DirsOf, Has
  <2> QED
    BY <2>2, <2>6, <2>7, <2>8
<1> HIDE DEF Fine
<1>6. \A X, Y : Fine(X) /\ Fine(Y) => Fine(X \cup Y)
  BY DEF Fine
<1> DEFINE S == {k \in 0 .. D : Fine(f[k])}
<1>7. 0 \in S
  <2>1. f[0] = {[path |-> << >>, ent |-> Dir(Root)]}
    BY <1>2, <1>3 DEF Deeper
  <2>2. Fine(f[0])
    BY <1>4, <2>1, Zenon
  <2> QED
    BY <1>2, <2>2
<1>8. ASSUME NEW k \in 0 .. D - 1, k \in S PROVE k + 1 \in S
  <2>1. k + 1 \in 0 .. D /\ k + 1 # 0 /\ (k + 1) - 1 = k
    BY <1>2
  <2>2. f[k + 1] = Deeper(b, mv, f, D)[k + 1]
    BY <1>3
  <2>3. f[k + 1] = f[k] \cup Level(b, mv, f[k])
    BY <2>1, <2>2 DEF Deeper
  <2> QED
    BY <1>5, <1>6, <1>8, <2>1, <2>3
<1> HIDE DEF S
<1>9. \A k \in 0 .. D : k \in S
  BY <1>2, <1>7, <1>8, UpTo
<1>10. Fine(f[D])
  BY <1>2, <1>9 DEF S
<1> QED
  BY <1>3, <1>10 DEF Fine
-----------------------------------------------------------------------------
(* The exclusive or of global states. *)
LEMMA XorTyped == ASSUME NEW a \in Gs, NEW b \in Gs PROVE Xor(a, b) \in Gs
  BY DEF Gs, Xor

(* Global states: nothing added, or the same twice, changes nothing.          *)
LEMMA XorWith == ASSUME NEW a \in Gs PROVE Xor(a, NoG) = a /\ Xor(NoG, a) = a /\ Xor(a, a) = NoG /\ NoG \in Gs
<1>1. a.moves \subseteq Moves /\ a.orphan \in BOOLEAN /\ a = [orphan |-> a.orphan, moves |-> a.moves]
  BY DEF Gs
<1>2. (a.moves \ {}) \cup ({} \ a.moves) = a.moves /\ ({} \ a.moves) \cup (a.moves \ {}) = a.moves
      /\ (a.moves \ a.moves) \cup (a.moves \ a.moves) = {}
  OBVIOUS
<1>3. (a.orphan # FALSE) = a.orphan /\ (FALSE # a.orphan) = a.orphan /\ (a.orphan # a.orphan) = FALSE
  BY <1>1
<1>4. NoG \in Gs
  BY DEF NoG, Gs
<1> QED
  BY <1>1, <1>2, <1>3, <1>4 DEF Xor, NoG

(* The order of two deltas does not matter,                                   *)
LEMMA XorSwaps == ASSUME NEW a \in Gs, NEW b \in Gs PROVE Xor(a, b) = Xor(b, a)
<1>1. (a.orphan # b.orphan) = (b.orphan # a.orphan)
  OBVIOUS
<1>2. (a.moves \ b.moves) \cup (b.moves \ a.moves) = (b.moves \ a.moves) \cup (a.moves \ b.moves)
  OBVIOUS
<1> QED
  BY <1>1, <1>2 DEF Xor

(* ... nor how they are grouped,                                              *)
LEMMA XorGroups ==
    ASSUME NEW a \in Gs, NEW b \in Gs, NEW c \in Gs
    PROVE  Xor(Xor(a, b), c) = Xor(a, Xor(b, c))
<1> DEFINE x == a.moves
           y == b.moves
           z == c.moves
           d(u, v) == (u \ v) \cup (v \ u)
<1>1. a.orphan \in BOOLEAN /\ b.orphan \in BOOLEAN /\ c.orphan \in BOOLEAN
  BY DEF Gs
<1>2. ((a.orphan # b.orphan) # c.orphan) = (a.orphan # (b.orphan # c.orphan))
  BY <1>1
<1>3. d(d(x, y), z) = d(x, d(y, z))
  OBVIOUS
<1>4. /\ Xor(Xor(a, b), c) = [orphan |-> ((a.orphan # b.orphan) # c.orphan), moves |-> d(d(x, y), z)]
      /\ Xor(a, Xor(b, c)) = [orphan |-> (a.orphan # (b.orphan # c.orphan)), moves |-> d(x, d(y, z))]
  BY DEF Xor
<1> HIDE DEF d
<1> QED
  BY <1>2, <1>3, <1>4

(* ... and one can be taken away again.                                       *)
LEMMA XorMoves ==
    ASSUME NEW a \in Gs, NEW b \in Gs, NEW c \in Gs
    PROVE  /\ Xor(Xor(a, c), b) = Xor(Xor(a, b), c)
           /\ Xor(Xor(a, b), b) = a
           /\ Xor(a, Xor(a, b)) = b
<1>1. Xor(Xor(a, c), b) = Xor(a, Xor(c, b)) /\ Xor(c, b) = Xor(b, c) /\ Xor(a, Xor(b, c)) = Xor(Xor(a, b), c)
  BY XorGroups, XorSwaps
<1>2. Xor(Xor(a, b), b) = Xor(a, Xor(b, b)) /\ Xor(b, b) = NoG /\ Xor(a, NoG) = a
  BY XorGroups, XorWith
<1>3. Xor(a, Xor(a, b)) = Xor(Xor(a, a), b) /\ Xor(a, a) = NoG /\ Xor(NoG, b) = b
  BY XorGroups, XorWith
<1> QED
  BY <1>1, <1>2, <1>3

(* What is added to one pair is added to the sum. *)
LEMMA AddsKeep ==
    ASSUME NEW n \in Nat, NEW M, NEW g, Adds(n, M, g), NEW i \in 1 .. n, NEW M1, NEW d \in Gs,
           \A j \in 1 .. n : M[j].g \in Gs,
           \A j \in 1 .. n : j # i => M1[j].g = M[j].g, M1[i].g = Xor(M[i].g, d)
    PROVE  Adds(n, M1, Xor(g, d))
<1>1. PICK s \in [0 .. n -> Gs] : s[0] = NoG /\ s[n] = g /\ \A j \in 1 .. n : s[j] = Xor(s[j - 1], M[j].g)
  BY DEF Adds
<1> DEFINE z == [k \in 0 .. n |-> IF k < i THEN s[k] ELSE Xor(s[k], d)]
<1>2. \A k \in 0 .. n : s[k] \in Gs
  BY <1>1
<1>3. z \in [0 .. n -> Gs]
  BY <1>2, XorTyped
<1>4. z[0] = NoG /\ z[n] = Xor(g, d)
  BY <1>1
<1>5. ASSUME NEW j \in 1 .. n PROVE z[j] = Xor(z[j - 1], M1[j].g)
  <2>1. j - 1 \in 0 .. n /\ j \in 0 .. n /\ s[j] = Xor(s[j - 1], M[j].g)
    BY <1>1
  <2>2. s[j - 1] \in Gs /\ M[j].g \in Gs
    BY <1>2, <2>1
  <2>3. CASE j < i
    <3>1. z[j] = s[j] /\ z[j - 1] = s[j - 1] /\ M1[j].g = M[j].g
      BY <2>1, <2>3
    <3> QED
      BY <2>1, <3>1
  <2>4. CASE j = i
    <3>1. z[j] = Xor(s[j], d) /\ z[j - 1] = s[j - 1] /\ M1[j].g = Xor(M[j].g, d)
      BY <2>1, <2>4
    <3> HIDE DEF z
    <3> QED
      BY <2>1, <2>2, <3>1, XorGroups
  <2>5. CASE j > i
    <3>1. z[j] = Xor(s[j], d) /\ z[j - 1] = Xor(s[j - 1], d) /\ M1[j].g = M[j].g
      BY <2>1, <2>5
    <3> HIDE DEF z
    <3> QED
      BY <2>1, <2>2, <3>1, XorMoves
  <2> QED
    BY <2>3, <2>4, <2>5
<1> HIDE DEF z
<1> QED
  BY <1>3, <1>4, <1>5 DEF Adds

(* A pair taken out hands what it had to the one before it. *)
LEMMA AddsCut ==
    ASSUME NEW n \in Nat, NEW M, NEW g, Adds(n, M, g), NEW i \in 1 .. n - 1, NEW M1, NEW d \in Gs,
           \A j \in 1 .. n : M[j].g \in Gs,
           \A j \in 1 .. i - 1 : M1[j].g = M[j].g, \A j \in i + 1 .. n - 1 : M1[j].g = M[j + 1].g,
           M1[i].g = Xor(M[i].g, Xor(d, M[i + 1].g))
    PROVE  Adds(n - 1, M1, Xor(g, d))
<1>1. PICK s \in [0 .. n -> Gs] : s[0] = NoG /\ s[n] = g /\ \A j \in 1 .. n : s[j] = Xor(s[j - 1], M[j].g)
  BY DEF Adds
<1> DEFINE z == [k \in 0 .. n - 1 |-> IF k < i THEN s[k] ELSE Xor(s[k + 1], d)]
<1>2. \A k \in 0 .. n : s[k] \in Gs
  BY <1>1
<1>3. z \in [0 .. n - 1 -> Gs]
  <2>1. ASSUME NEW k \in 0 .. n - 1 PROVE k \in 0 .. n /\ k + 1 \in 0 .. n
    OBVIOUS
  <2> QED
    BY <1>2, <2>1, XorTyped
<1>4. z[0] = NoG /\ z[n - 1] = Xor(g, d)
  <2>1. 0 \in 0 .. n - 1 /\ n - 1 \in 0 .. n - 1 /\ (n - 1) + 1 = n /\ 0 < i /\ ~(n - 1 < i)
    OBVIOUS
  <2> QED
    BY <1>1, <2>1
<1>5. ASSUME NEW j \in 1 .. n - 1 PROVE z[j] = Xor(z[j - 1], M1[j].g)
  <2>1. j - 1 \in 0 .. n - 1 /\ j \in 0 .. n - 1 /\ j \in 1 .. n /\ j + 1 \in 1 .. n /\ j \in 0 .. n
        /\ j - 1 \in 0 .. n /\ (j - 1) + 1 = j /\ (j + 1) - 1 = j
    OBVIOUS
  <2>2. s[j] = Xor(s[j - 1], M[j].g) /\ s[j + 1] = Xor(s[j], M[j + 1].g)
    BY <1>1, <2>1
  <2>3. s[j - 1] \in Gs /\ s[j] \in Gs /\ M[j].g \in Gs /\ M[j + 1].g \in Gs
    BY <1>2, <2>1
  <2>4. CASE j < i
    <3>1. z[j] = s[j] /\ z[j - 1] = s[j - 1] /\ M1[j].g = M[j].g
      BY <2>1, <2>4
    <3> QED
      BY <2>2, <3>1
  <2>5. CASE j = i
    <3>1. z[j] = Xor(s[j + 1], d) /\ z[j - 1] = s[j - 1] /\ M1[j].g = Xor(M[j].g, Xor(d, M[j + 1].g))
      BY <2>1, <2>5
    <3> HIDE DEF z
    <3> DEFINE a == s[j - 1]
               u == M[j].g
               v == M[j + 1].g
    <3>2. a \in Gs /\ u \in Gs /\ v \in Gs
      BY <2>3
    <3>3. s[j + 1] = Xor(Xor(a, u), v) /\ z[j] = Xor(s[j + 1], d) /\ z[j - 1] = a
          /\ M1[j].g = Xor(u, Xor(d, v))
      BY <2>2, <3>1
    <3> HIDE DEF a, u, v
    <3>4. Xor(a, u) \in Gs /\ Xor(d, v) \in Gs
      BY <3>2, XorTyped
    <3>5. Xor(Xor(Xor(a, u), v), d) = Xor(Xor(Xor(a, u), d), v)
      BY <3>2, <3>4, XorMoves
    <3>6. Xor(Xor(Xor(a, u), d), v) = Xor(Xor(a, u), Xor(d, v))
      BY <3>2, <3>4, XorGroups
    <3>7. Xor(Xor(a, u), Xor(d, v)) = Xor(a, Xor(u, Xor(d, v)))
      BY <3>2, <3>4, XorGroups
    <3> QED
      BY <3>3, <3>5, <3>6, <3>7
  <2>6. CASE j > i
    <3>1. z[j] = Xor(s[j + 1], d) /\ z[j - 1] = Xor(s[j], d) /\ M1[j].g = M[j + 1].g
      <4>1. ~(j < i) /\ ~(j - 1 < i) /\ j \in i + 1 .. n - 1
        BY <2>6
      <4> QED
        BY <2>1, <4>1
    <3> HIDE DEF z
    <3> QED
      BY <2>2, <2>3, <3>1, XorMoves
  <2> QED
    BY <2>4, <2>5, <2>6
<1> HIDE DEF z
<1> QED
  BY <1>3, <1>4, <1>5 DEF Adds

(* A pair put in after another. *)
LEMMA AddsIns ==
    ASSUME NEW n \in Nat, NEW M, NEW g, Adds(n, M, g), NEW i \in 1 .. n, NEW M1,
           NEW d \in Gs, NEW e \in Gs, \A j \in 1 .. n : M[j].g \in Gs,
           \A j \in 1 .. i - 1 : M1[j].g = M[j].g, \A j \in i + 2 .. n + 1 : M1[j].g = M[j - 1].g,
           M1[i].g = Xor(M[i].g, d), M1[i + 1].g = e
    PROVE  Adds(n + 1, M1, Xor(Xor(g, d), e))
<1>1. PICK s \in [0 .. n -> Gs] : s[0] = NoG /\ s[n] = g /\ \A j \in 1 .. n : s[j] = Xor(s[j - 1], M[j].g)
  BY DEF Adds
<1> DEFINE z == [k \in 0 .. n + 1 |-> IF k < i THEN s[k] ELSE IF k = i THEN Xor(s[k], d)
                                       ELSE Xor(Xor(s[k - 1], d), e)]
<1>2. \A k \in 0 .. n : s[k] \in Gs
  BY <1>1
<1>3. z \in [0 .. n + 1 -> Gs]
  <2>1. ASSUME NEW k \in 0 .. n + 1
        PROVE  (k < i => k \in 0 .. n) /\ (k = i => k \in 0 .. n) /\ (~(k < i) /\ k # i => k - 1 \in 0 .. n)
    OBVIOUS
  <2> QED
    BY <1>2, <2>1, XorTyped
<1>4. z[0] = NoG /\ z[n + 1] = Xor(Xor(g, d), e)
  <2>1. 0 \in 0 .. n + 1 /\ n + 1 \in 0 .. n + 1 /\ (n + 1) - 1 = n /\ 0 < i /\ ~(n + 1 < i) /\ n + 1 # i
    OBVIOUS
  <2> QED
    BY <1>1, <2>1
<1>5. ASSUME NEW j \in 1 .. n + 1 PROVE z[j] = Xor(z[j - 1], M1[j].g)
  <2>1. j - 1 \in 0 .. n + 1 /\ j \in 0 .. n + 1
    OBVIOUS
  <2>2. CASE j < i
    <3>1. z[j] = s[j] /\ z[j - 1] = s[j - 1] /\ M1[j].g = M[j].g /\ j \in 1 .. n
      BY <2>1, <2>2
    <3> QED
      BY <1>1, <3>1
  <2>3. CASE j = i
    <3>1. z[j] = Xor(s[j], d) /\ z[j - 1] = s[j - 1] /\ M1[j].g = Xor(M[j].g, d) /\ j \in 1 .. n
      BY <2>1, <2>3
    <3>2. j - 1 \in 0 .. n /\ s[j] = Xor(s[j - 1], M[j].g)
      BY <1>1, <3>1
    <3> HIDE DEF z
    <3> QED
      BY <1>2, <3>1, <3>2, XorGroups
  <2>4. CASE j = i + 1
    <3>1. z[j] = Xor(Xor(s[j - 1], d), e) /\ z[j - 1] = Xor(s[j - 1], d) /\ M1[j].g = e
      BY <2>1, <2>4
    <3> HIDE DEF z
    <3> QED
      BY <3>1
  <2>5. CASE j > i + 1
    <3>1. j \in i + 2 .. n + 1 /\ j - 1 \in 1 .. n /\ ~(j - 1 < i) /\ j - 1 # i /\ (j - 1) - 1 \in 0 .. n
          /\ ~(j < i) /\ j # i
      BY <2>5
    <3>2. /\ z[j] = Xor(Xor(s[j - 1], d), e) /\ z[j - 1] = Xor(Xor(s[(j - 1) - 1], d), e)
          /\ M1[j].g = M[j - 1].g
      BY <2>1, <3>1
    <3>3. s[j - 1] = Xor(s[(j - 1) - 1], M[j - 1].g) /\ s[(j - 1) - 1] \in Gs /\ M[j - 1].g \in Gs
      BY <1>1, <1>2, <3>1
    <3> HIDE DEF z
    <3> DEFINE a == s[(j - 1) - 1]
               u == M[j - 1].g
    <3>4. a \in Gs /\ u \in Gs /\ z[j] = Xor(Xor(Xor(a, u), d), e) /\ z[j - 1] = Xor(Xor(a, d), e)
          /\ M1[j].g = u
      BY <3>2, <3>3
    <3> HIDE DEF a, u
    <3>5. Xor(Xor(a, u), d) = Xor(Xor(a, d), u) /\ Xor(a, d) \in Gs
      BY <3>4, XorMoves, XorTyped
    <3>6. Xor(Xor(Xor(a, d), u), e) = Xor(Xor(Xor(a, d), e), u)
      BY <3>4, <3>5, XorMoves
    <3> QED
      BY <3>4, <3>5, <3>6
  <2> QED
    BY <2>2, <2>3, <2>4, <2>5
<1> HIDE DEF z
<1> QED
  BY <1>3, <1>4, <1>5 DEF Adds
-----------------------------------------------------------------------------
(* A thread by its pairs, C says what each of them holds. *)
Along(n, P, C)   == [k \in 1 .. n |-> C[P[k]]]
PairsOf(n, P)    == {P[i] : i \in 1 .. n}
Hards(n, P, C)   == {P[i + 1] : i \in {j \in 1 .. n - 1 : C[P[j]].split}}
Reads(b, n, P, C) == \A i \in 1 .. n : Settled(b, P[i]) /\ Fetch(b, P[i]).m = C[P[i]]

(* A disk that holds what C says has the thread of its pairs.                 *)
LEMMA ReadsThread ==
    ASSUME NEW b, NEW n, NEW P, NEW C, Reads(b, n, P, C), Line(n, P, Along(n, P, C))
    PROVE  Threaded(b, n, P) /\ Ms(b, n, P) = Along(n, P, C)
  BY DEF Reads, Threaded, Ms, Along

(* The pairs of a thread, by what C says of them.                             *)
LEMMA LineAlong ==
    ASSUME NEW n, NEW P, NEW C, Line(n, P, Along(n, P, C))
    PROVE  /\ n \in Nat \ {0} /\ P \in [1 .. n -> Pairs]
           /\ \A k \in 1 .. n : C[P[k]] \in Contents
           /\ C[P[n]].tail = NoPair /\ C[P[n]].split = FALSE /\ P[1] = Root
           /\ \A j, k \in 1 .. n : j # k => P[j] \cap P[k] = {}
           /\ \A j, k \in 1 .. n : P[j] = P[k] => j = k
<1> DEFINE M == Along(n, P, C)
<1>1. \A k \in 1 .. n : M[k] = C[P[k]]
  BY DEF Along
<1> HIDE DEF M
<1>2. Line(n, P, M)
  BY DEF M
<1>3. n \in Nat \ {0} /\ n \in 1 .. n /\ \A k \in 1 .. n - 1 : k \in 1 .. n
  BY <1>2 DEF Line
<1>4. \A j, k \in 1 .. n : P[j] = P[k] => j = k
  BY <1>2, PairsDiffer
<1> QED
  BY <1>1, <1>2, <1>3, <1>4 DEF Line

(* The last pair of a thread has no tail.                                     *)
EndsIn(m) == m.tail = NoPair /\ m.split = FALSE

(* ... and the first is the root.                                             *)
LEMMA LineEnds ==
    ASSUME NEW n, NEW P, NEW C, Line(n, P, Along(n, P, C))
    PROVE  EndsIn(C[P[n]]) /\ P[1] = Root
  BY LineAlong DEF EndsIn

(* The tails, by what C says of the pairs.                                    *)
LEMMA LineTails ==
    ASSUME NEW n, NEW P, NEW C, Line(n, P, Along(n, P, C)), NEW k \in 1 .. n - 1
    PROVE  C[P[k]].tail = P[k + 1]
<1>1. n \in Nat \ {0} /\ Along(n, P, C)[k].tail = P[k + 1]
  BY DEF Line
<1>2. Along(n, P, C)[k] = C[P[k]]
  BY <1>1 DEF Along
<1> QED
  BY <1>1, <1>2

(* A pair is written, its tail stays. *)
LEMMA LineKeep ==
    ASSUME NEW n, NEW P, NEW C, Line(n, P, Along(n, P, C)), NEW i \in 1 .. n, NEW C1,
           \A k \in 1 .. n : k # i => C1[P[k]] = C[P[k]], C1[P[i]] \in Contents,
           C1[P[i]].tail = C[P[i]].tail, C1[P[i]].split = C[P[i]].split
    PROVE  Line(n, P, Along(n, P, C1)) /\ Hards(n, P, C1) = Hards(n, P, C)
<1> DEFINE M == Along(n, P, C)
           M1 == Along(n, P, C1)
<1>1. \A k \in 1 .. n : M[k] = C[P[k]] /\ M1[k] = C1[P[k]]
  BY DEF Along
<1>2. /\ n \in Nat \ {0} /\ P \in [1 .. n -> Pairs] /\ \A k \in 1 .. n : M[k] \in Contents
      /\ \A k \in 1 .. n - 1 : M[k].tail = P[k + 1]
      /\ M[n].tail = NoPair /\ M[n].split = FALSE
  BY DEF Line
<1>3. \A k \in 1 .. n : C1[P[k]] \in Contents
  BY <1>1, <1>2
<1>4. M1 \in [1 .. n -> Contents]
  BY <1>3 DEF Along
<1>5. \A k \in 1 .. n : M1[k].tail = M[k].tail /\ M1[k].split = M[k].split
  BY <1>1
<1>6. Hards(n, P, C1) = Hards(n, P, C)
  BY <1>1, <1>2, <1>5 DEF Hards
<1> HIDE DEF M1
<1>7. Line(n, P, M1)
  BY <1>2, <1>4, <1>5 DEF Line
<1> QED
  BY <1>6, <1>7 DEF M1

(* The pair after P[i] is taken out. *)
Cut(n, P, i) == [j \in 1 .. n - 1 |-> IF j <= i THEN P[j] ELSE P[j + 1]]

(* A thread without the pair behind the i-th, whose tail the i-th takes       *)
(* over.                                                                      *)
LEMMA LineCut ==
    ASSUME NEW n, NEW P, NEW C, Line(n, P, Along(n, P, C)), NEW i \in 1 .. n - 1, NEW C1,
           \A k \in 1 .. n : k # i /\ k # i + 1 => C1[P[k]] = C[P[k]], C1[P[i]] \in Contents,
           C1[P[i]].tail = C[P[i + 1]].tail, C1[P[i]].split = C[P[i + 1]].split
    PROVE  /\ Line(n - 1, Cut(n, P, i), Along(n - 1, Cut(n, P, i), C1))
           /\ PairsOf(n - 1, Cut(n, P, i)) = PairsOf(n, P) \ {P[i + 1]}
           /\ Hards(n - 1, Cut(n, P, i), C1) = Hards(n, P, C) \ {P[i + 1]}
<1> DEFINE m == n - 1
           Q == Cut(n, P, i)
           M == Along(n, P, C)
           M1 == Along(m, Q, C1)
           at(j) == IF j <= i THEN j ELSE j + 1
<1>t. \A k \in 1 .. n - 1 : C[P[k]].tail = P[k + 1]
  BY LineTails
<1>1. /\ n \in Nat \ {0} /\ P \in [1 .. n -> Pairs]
      /\ \A k \in 1 .. n : C[P[k]] \in Contents
      /\ C[P[n]].tail = NoPair /\ C[P[n]].split = FALSE /\ P[1] = Root
      /\ \A j, k \in 1 .. n : j # k => P[j] \cap P[k] = {}
  <2>1. n \in Nat \ {0} /\ P \in [1 .. n -> Pairs] /\ \A k \in 1 .. n : C[P[k]] \in Contents
    BY LineAlong, Zenon
  <2>2. EndsIn(C[P[n]]) /\ P[1] = Root
    BY LineEnds, Zenon
  <2>3. \A j, k \in 1 .. n : j # k => P[j] \cap P[k] = {}
    BY LineAlong
  <2> QED
    BY <2>1, <2>2, <2>3 DEF EndsIn
<1>2. /\ n \in Nat /\ m \in Nat \ {0} /\ n = m + 1 /\ P \in [1 .. n -> Pairs]
      /\ \A k \in 1 .. n : C[P[k]] \in Contents
      /\ \A k \in 1 .. n : k < n => C[P[k]].tail = P[k + 1]
      /\ C[P[n]].tail = NoPair /\ C[P[n]].split = FALSE /\ P[1] = Root
      /\ \A j, k \in 1 .. n : j # k => P[j] \cap P[k] = {}
  BY <1>1, <1>t
<1>3. ASSUME NEW j \in 1 .. m
      PROVE  at(j) \in 1 .. n /\ Q[j] = P[at(j)] /\ at(j) # i + 1 /\ (at(j) = i <=> j = i)
  BY <1>2 DEF Cut
<1>4. ASSUME NEW j \in 1 .. m PROVE M1[j] = C1[Q[j]]
  BY <1>4 DEF Along
<1>5. ASSUME NEW j \in 1 .. m, j # i PROVE C1[Q[j]] = C[P[at(j)]]
  BY <1>3, <1>5
<1>6. Q \in [1 .. m -> Pairs]
  <2>1. ASSUME NEW j \in 1 .. m PROVE P[at(j)] \in Pairs
    BY <1>2, <1>3
  <2>2. Q = [j \in 1 .. m |-> P[at(j)]]
    BY DEF Cut
  <2> HIDE DEF at, Q
  <2> QED
    BY <2>1, <2>2
<1>7. \A j \in 1 .. m : C1[Q[j]] \in Contents
  <2>1. ASSUME NEW j \in 1 .. m PROVE C1[Q[j]] \in Contents
    <3>1. CASE j = i
      BY <1>3, <3>1
    <3>2. CASE j # i
      BY <1>2, <1>3, <1>5, <3>2
    <3> QED
      BY <3>1, <3>2
  <2> QED
    BY <2>1
<1>8. M1 \in [1 .. m -> Contents]
  BY <1>7 DEF Along
<1>9. \A j, k \in 1 .. m : j # k => Q[j] \cap Q[k] = {}
  <2>1. ASSUME NEW j \in 1 .. m, NEW k \in 1 .. m, j # k PROVE at(j) # at(k)
    BY <1>2, <2>1
  <2>2. ASSUME NEW j \in 1 .. m, NEW k \in 1 .. m, j # k PROVE Q[j] \cap Q[k] = {}
    <3>1. at(j) # at(k)
      BY <2>1, <2>2
    <3>2. at(j) \in 1 .. n /\ Q[j] = P[at(j)] /\ at(k) \in 1 .. n /\ Q[k] = P[at(k)]
      BY <1>3
    <3> HIDE DEF at, Q
    <3> QED
      BY <1>2, <3>1, <3>2
  <2> QED
    BY <2>2
<1>10. ASSUME NEW j \in 1 .. m - 1 PROVE M1[j].tail = Q[j + 1]
  <2>1. j \in 1 .. m /\ j + 1 \in 1 .. m
    BY <1>2
  <2>2. CASE j = i
    <3>1. M1[j] = C1[P[i]] /\ at(j + 1) = i + 2 /\ Q[j + 1] = P[i + 2] /\ i + 1 \in 1 .. n - 1
      BY <1>2, <1>3, <1>4, <2>1, <2>2
    <3>2. C[P[i + 1]].tail = P[i + 2]
      BY <1>2, <3>1
    <3> QED
      BY <3>1, <3>2
  <2>3. CASE j # i
    <3>1. M1[j] = C[P[at(j)]] /\ at(j) \in 1 .. n - 1 /\ at(j) + 1 = at(j + 1) /\ Q[j + 1] = P[at(j + 1)]
      BY <1>2, <1>3, <1>4, <1>5, <2>1, <2>3
    <3> QED
      BY <1>2, <3>1
  <2> QED
    BY <2>2, <2>3
<1>11. M1[m].tail = NoPair /\ M1[m].split = FALSE
  <2>1. m \in 1 .. m
    BY <1>2
  <2>2. CASE m = i
    <3>1. M1[m] = C1[P[i]] /\ i + 1 = n
      BY <1>2, <1>3, <1>4, <2>1, <2>2
    <3> QED
      BY <1>2, <3>1
  <2>3. CASE m # i
    <3>1. M1[m] = C[P[at(m)]] /\ at(m) = n
      BY <1>2, <1>4, <1>5, <2>1, <2>3
    <3> QED
      BY <1>2, <3>1
  <2> QED
    BY <2>2, <2>3
<1>12. Q[1] = Root
  <2>1. 1 \in 1 .. m /\ at(1) = 1
    BY <1>2
  <2> QED
    BY <1>2, <1>3, <2>1
<1>13. \A j, k \in 1 .. n : P[j] = P[k] => j = k
  BY LineAlong, Zenon
<1>14. PairsOf(m, Q) = PairsOf(n, P) \ {P[i + 1]}
  <2>1. ASSUME NEW j \in 1 .. m PROVE Q[j] \in PairsOf(n, P) \ {P[i + 1]}
    <3>1. i + 1 \in 1 .. n /\ P[at(j)] # P[i + 1]
      BY <1>2, <1>3, <1>13
    <3> QED
      BY <1>3, <3>1 DEF PairsOf
  <2>2. ASSUME NEW k \in 1 .. n, k # i + 1 PROVE \E j \in 1 .. m : at(j) = k
    <3>1. CASE k <= i
      BY <1>2, <3>1
    <3>2. CASE ~(k <= i)
      <4>1. k - 1 \in 1 .. m /\ at(k - 1) = k
        BY <1>2, <2>2, <3>2
      <4> QED
        BY <4>1
    <3> QED
      BY <3>1, <3>2
  <2>3. ASSUME NEW p \in PairsOf(n, P) \ {P[i + 1]} PROVE p \in PairsOf(m, Q)
    <3>1. PICK k \in 1 .. n : p = P[k]
      BY DEF PairsOf
    <3>2. PICK j \in 1 .. m : at(j) = k
      BY <2>2, <3>1
    <3> QED
      BY <1>3, <3>1, <3>2 DEF PairsOf
  <2> HIDE DEF Q, at
  <2>4. PairsOf(m, Q) \subseteq PairsOf(n, P) \ {P[i + 1]}
    BY <2>1 DEF PairsOf
  <2> QED
    BY <2>3, <2>4
<1>15. Hards(m, Q, C1) = Hards(n, P, C) \ {P[i + 1]}
  <2>1. ASSUME NEW j \in 1 .. m - 1, C1[Q[j]].split PROVE Q[j + 1] \in Hards(n, P, C) \ {P[i + 1]}
    <3>1. j \in 1 .. m /\ j + 1 \in 1 .. m
      BY <1>2
    <3>2. Q[j + 1] \in PairsOf(m, Q)
      BY <3>1 DEF PairsOf
    <3>3. Q[j + 1] # P[i + 1]
      BY <1>14, <3>2
    <3>4. CASE j = i
      <4>1. Q[j + 1] = P[(i + 1) + 1] /\ i + 1 \in 1 .. n - 1 /\ C[P[i + 1]].split
        BY <1>2, <1>3, <2>1, <3>1, <3>4
      <4> QED
        BY <3>3, <4>1 DEF Hards
    <3>5. CASE j # i
      <4>1. at(j) \in 1 .. n - 1 /\ at(j + 1) = at(j) + 1
        BY <1>2, <3>1, <3>5
      <4>2. Q[j + 1] = P[at(j) + 1] /\ C[P[at(j)]].split
        BY <1>3, <1>5, <2>1, <3>1, <3>5, <4>1
      <4> HIDE DEF at
      <4> QED
        BY <3>3, <4>1, <4>2 DEF Hards
    <3> QED
      BY <3>4, <3>5
  <2>2. ASSUME NEW k \in 1 .. n - 1, C[P[k]].split, k # i PROVE P[k + 1] \in Hards(m, Q, C1)
    <3>1. CASE k < i
      <4>1. k \in 1 .. m - 1 /\ k \in 1 .. m /\ k + 1 \in 1 .. m /\ at(k) = k /\ at(k + 1) = k + 1
        BY <1>2, <3>1
      <4>2. C1[Q[k]].split /\ Q[k + 1] = P[k + 1]
        BY <1>3, <1>5, <2>2, <4>1
      <4> QED
        BY <4>1, <4>2 DEF Hards
    <3>2. CASE k = i + 1
      <4>1. i \in 1 .. m - 1 /\ i + 1 \in 1 .. m /\ at(i + 1) = k + 1 /\ Q[i] = P[i]
        BY <1>2, <1>3, <3>2
      <4>2. C1[Q[i]].split /\ Q[i + 1] = P[k + 1]
        BY <1>3, <2>2, <3>2, <4>1
      <4> QED
        BY <4>1, <4>2 DEF Hards
    <3>3. CASE k > i + 1
      <4>1. k - 1 \in 1 .. m - 1 /\ k - 1 \in 1 .. m /\ (k - 1) + 1 \in 1 .. m /\ at(k - 1) = k
            /\ at((k - 1) + 1) = k + 1 /\ k - 1 # i
        BY <1>2, <3>3
      <4>2. C1[Q[k - 1]].split /\ Q[(k - 1) + 1] = P[k + 1]
        BY <1>3, <1>5, <2>2, <4>1
      <4> QED
        BY <4>1, <4>2 DEF Hards
    <3> QED
      BY <2>2, <3>1, <3>2, <3>3
  <2> HIDE DEF Q, at
  <2>3. Hards(m, Q, C1) \subseteq Hards(n, P, C) \ {P[i + 1]}
    BY <2>1 DEF Hards
  <2>4. ASSUME NEW p \in Hards(n, P, C) \ {P[i + 1]} PROVE p \in Hards(m, Q, C1)
    <3>1. PICK k \in 1 .. n - 1 : C[P[k]].split /\ p = P[k + 1]
      BY DEF Hards
    <3>2. k # i
      BY <3>1
    <3> QED
      BY <2>2, <3>1, <3>2
  <2> QED
    BY <2>3, <2>4
<1> HIDE DEF M1, Q
<1>16. Line(m, Q, M1)
  BY <1>2, <1>6, <1>8, <1>9, <1>10, <1>11, <1>12 DEF Line
<1> QED
  BY <1>14, <1>15, <1>16 DEF M1, Q

(* A pair x is put in after P[i]. *)
Ins(n, P, i, x) == [j \in 1 .. n + 1 |-> IF j <= i THEN P[j] ELSE IF j = i + 1 THEN x ELSE P[j - 1]]

(* A thread with a pair x put in behind the i-th, whose tail it takes over.   *)
LEMMA LineIns ==
    ASSUME NEW n, NEW P, NEW C, Line(n, P, Along(n, P, C)), NEW i \in 1 .. n, NEW C1,
           NEW x \in Pairs, \A k \in 1 .. n : P[k] \cap x = {},
           \A k \in 1 .. n : k # i => C1[P[k]] = C[P[k]],
           C1[P[i]] \in Contents, C1[x] \in Contents, C1[P[i]].tail = x,
           C1[x].tail = C[P[i]].tail, C1[x].split = C[P[i]].split
    PROVE  /\ Line(n + 1, Ins(n, P, i, x), Along(n + 1, Ins(n, P, i, x), C1))
           /\ PairsOf(n + 1, Ins(n, P, i, x)) = PairsOf(n, P) \cup {x}
           /\ C1[P[i]].split => Hards(n + 1, Ins(n, P, i, x), C1) = Hards(n, P, C) \cup {x}
           /\ ~C1[P[i]].split /\ ~C1[x].split => Hards(n + 1, Ins(n, P, i, x), C1) = Hards(n, P, C)
<1> DEFINE m == n + 1
           Q == Ins(n, P, i, x)
           M1 == Along(m, Q, C1)
           at(j) == IF j <= i THEN j ELSE j - 1
<1>t. \A k \in 1 .. n - 1 : C[P[k]].tail = P[k + 1]
  BY LineTails
<1>1. /\ n \in Nat \ {0} /\ P \in [1 .. n -> Pairs]
      /\ \A k \in 1 .. n : C[P[k]] \in Contents
      /\ C[P[n]].tail = NoPair /\ C[P[n]].split = FALSE /\ P[1] = Root
      /\ \A j, k \in 1 .. n : j # k => P[j] \cap P[k] = {}
  <2>1. n \in Nat \ {0} /\ P \in [1 .. n -> Pairs] /\ \A k \in 1 .. n : C[P[k]] \in Contents
    BY LineAlong, Zenon
  <2>2. EndsIn(C[P[n]]) /\ P[1] = Root
    BY LineEnds, Zenon
  <2>3. \A j, k \in 1 .. n : j # k => P[j] \cap P[k] = {}
    BY LineAlong
  <2> QED
    BY <2>1, <2>2, <2>3 DEF EndsIn
<1>2. ASSUME NEW j \in 1 .. m, j # i + 1
      PROVE  at(j) \in 1 .. n /\ Q[j] = P[at(j)] /\ (at(j) = i <=> j = i)
  BY <1>1, <1>2 DEF Ins
<1>3. Q[i + 1] = x /\ i + 1 \in 1 .. m /\ Q[i] = P[i] /\ i \in 1 .. m
  BY <1>1 DEF Ins
<1>4. ASSUME NEW j \in 1 .. m PROVE M1[j] = C1[Q[j]]
  BY <1>4 DEF Along
<1>5. ASSUME NEW j \in 1 .. m, j # i + 1, j # i PROVE C1[Q[j]] = C[P[at(j)]]
  BY <1>2, <1>5
<1>6. Q \in [1 .. m -> Pairs]
  <2>1. ASSUME NEW j \in 1 .. m PROVE Q[j] \in Pairs
    BY <1>1, <1>2, <1>3
  <2>2. Q = [j \in 1 .. m |-> Q[j]]
    BY DEF Ins
  <2> HIDE DEF Q
  <2> QED
    BY <2>1, <2>2
<1>7. \A j \in 1 .. m : C1[Q[j]] \in Contents
  <2>1. ASSUME NEW j \in 1 .. m PROVE C1[Q[j]] \in Contents
    <3>1. CASE j = i \/ j = i + 1
      BY <1>3, <3>1
    <3>2. CASE j # i /\ j # i + 1
      BY <1>1, <1>2, <1>5, <3>2
    <3> QED
      BY <3>1, <3>2
  <2> QED
    BY <2>1
<1>8. M1 \in [1 .. m -> Contents]
  BY <1>7 DEF Along
<1>9. \A j, k \in 1 .. m : j # k => Q[j] \cap Q[k] = {}
  <2>1. ASSUME NEW j \in 1 .. m, NEW k \in 1 .. m, j # k PROVE Q[j] \cap Q[k] = {}
    <3>1. CASE j = i + 1
      <4>1. k # i + 1 /\ at(k) \in 1 .. n /\ Q[k] = P[at(k)]
        BY <1>2, <2>1, <3>1
      <4> QED
        BY <1>3, <3>1, <4>1
    <3>2. CASE k = i + 1
      <4>1. j # i + 1 /\ at(j) \in 1 .. n /\ Q[j] = P[at(j)]
        BY <1>2, <2>1, <3>2
      <4> QED
        BY <1>3, <3>2, <4>1
    <3>3. CASE j # i + 1 /\ k # i + 1
      <4>1. at(j) # at(k)
        BY <1>1, <2>1, <3>3
      <4>2. at(j) \in 1 .. n /\ Q[j] = P[at(j)] /\ at(k) \in 1 .. n /\ Q[k] = P[at(k)]
        BY <1>2, <3>3
      <4> HIDE DEF at, Q
      <4> QED
        BY <1>1, <4>1, <4>2
    <3> QED
      BY <3>1, <3>2, <3>3
  <2> QED
    BY <2>1
<1>10. ASSUME NEW j \in 1 .. m - 1 PROVE M1[j].tail = Q[j + 1]
  <2>1. j \in 1 .. m /\ j + 1 \in 1 .. m
    BY <1>1
  <2>2. CASE j = i
    BY <1>3, <1>4, <2>1, <2>2
  <2>3. CASE j = i + 1
    <3>1. M1[j] = C1[x] /\ Q[j + 1] = P[at(j + 1)] /\ at(j + 1) = i + 1 /\ i \in 1 .. n - 1
      BY <1>1, <1>2, <1>3, <1>4, <2>1, <2>3
    <3> QED
      BY <1>1, <1>t, <3>1
  <2>4. CASE j # i /\ j # i + 1
    <3>1. at(j) \in 1 .. n - 1 /\ at(j) + 1 = at(j + 1) /\ j + 1 # i + 1
      BY <1>1, <2>1, <2>4
    <3> HIDE DEF at
    <3>2. M1[j] = C[P[at(j)]] /\ Q[j + 1] = P[at(j + 1)]
      BY <1>2, <1>4, <1>5, <2>1, <2>4, <3>1
    <3> HIDE DEF M1, Q
    <3> QED
      BY <1>t, <3>1, <3>2
  <2> QED
    BY <2>2, <2>3, <2>4
<1>11. M1[m].tail = NoPair /\ M1[m].split = FALSE
  <2>1. m \in 1 .. m
    BY <1>1
  <2>2. CASE m = i + 1
    <3>1. M1[m] = C1[x] /\ i = n
      BY <1>1, <1>3, <1>4, <2>1, <2>2
    <3> QED
      BY <1>1, <3>1
  <2>3. CASE m # i + 1
    <3>1. M1[m] = C[P[at(m)]] /\ at(m) = n
      BY <1>1, <1>4, <1>5, <2>1, <2>3
    <3> QED
      BY <1>1, <3>1
  <2> QED
    BY <2>2, <2>3
<1>12. Q[1] = Root
  BY <1>1 DEF Ins
<1>13. PairsOf(m, Q) = PairsOf(n, P) \cup {x}
  <2>1. ASSUME NEW j \in 1 .. m PROVE Q[j] \in PairsOf(n, P) \cup {x}
    BY <1>2, <1>3 DEF PairsOf
  <2>2. ASSUME NEW k \in 1 .. n PROVE \E j \in 1 .. m : j # i + 1 /\ at(j) = k
    <3>1. CASE k <= i
      <4>1. k \in 1 .. m /\ k # i + 1 /\ at(k) = k
        BY <1>1, <3>1
      <4> QED
        BY <4>1
    <3>2. CASE ~(k <= i)
      <4>1. k + 1 \in 1 .. m /\ k + 1 # i + 1 /\ at(k + 1) = k
        BY <1>1, <3>2
      <4> QED
        BY <4>1
    <3> QED
      BY <3>1, <3>2
  <2>3. ASSUME NEW p \in PairsOf(n, P) PROVE p \in PairsOf(m, Q)
    <3>1. PICK k \in 1 .. n : p = P[k]
      BY DEF PairsOf
    <3>2. PICK j \in 1 .. m : j # i + 1 /\ at(j) = k
      BY <2>2
    <3> QED
      BY <1>2, <3>1, <3>2 DEF PairsOf
  <2>4. x \in PairsOf(m, Q)
    BY <1>3 DEF PairsOf
  <2> HIDE DEF Q, at
  <2>5. PairsOf(m, Q) \subseteq PairsOf(n, P) \cup {x}
    BY <2>1 DEF PairsOf
  <2> QED
    BY <2>3, <2>4, <2>5
<1>14. ASSUME NEW k \in 1 .. n - 1, C[P[k]].split, k # i PROVE P[k + 1] \in Hards(m, Q, C1)
  <2>1. CASE k < i
    <3>1. k \in 1 .. m - 1 /\ k \in 1 .. m /\ k + 1 \in 1 .. m /\ at(k) = k /\ at(k + 1) = k + 1 /\ k # i + 1
          /\ k + 1 # i + 1
      BY <1>1, <2>1
    <3>2. C1[Q[k]].split /\ Q[k + 1] = P[k + 1]
      BY <1>2, <1>5, <1>14, <3>1
    <3> QED
      BY <3>1, <3>2 DEF Hards
  <2>2. CASE k > i
    <3>1. k + 1 \in 1 .. m - 1 /\ k + 1 \in 1 .. m /\ (k + 1) + 1 \in 1 .. m /\ at(k + 1) = k
          /\ at((k + 1) + 1) = k + 1 /\ k + 1 # i + 1 /\ (k + 1) + 1 # i + 1 /\ k + 1 # i
      BY <1>1, <2>2
    <3>2. C1[Q[k + 1]].split /\ Q[(k + 1) + 1] = P[k + 1]
      BY <1>2, <1>5, <1>14, <3>1
    <3> QED
      BY <3>1, <3>2 DEF Hards
  <2> QED
    BY <1>1, <1>14, <2>1, <2>2
<1>15. ASSUME NEW j \in 1 .. m - 1, C1[Q[j]].split, j # i, j # i + 1 PROVE Q[j + 1] \in Hards(n, P, C)
  <2>1. j \in 1 .. m /\ j + 1 \in 1 .. m /\ at(j) \in 1 .. n - 1 /\ at(j + 1) = at(j) + 1 /\ j + 1 # i + 1
    BY <1>1, <1>15
  <2>2. Q[j + 1] = P[at(j) + 1] /\ C[P[at(j)]].split
    BY <1>2, <1>5, <1>15, <2>1
  <2> HIDE DEF at
  <2> QED
    BY <2>1, <2>2 DEF Hards
<1>16. ASSUME i \in 1 .. n - 1 PROVE i + 1 \in 1 .. m - 1 /\ Q[(i + 1) + 1] = P[i + 1]
  <2>1. (i + 1) + 1 \in 1 .. m /\ (i + 1) + 1 # i + 1 /\ at((i + 1) + 1) = i + 1 /\ i + 1 \in 1 .. m - 1
    BY <1>1, <1>16
  <2> QED
    BY <1>2, <2>1
<1>17. \A j \in 1 .. m - 1 : j = i + 1 => i \in 1 .. n - 1
  BY <1>1
<1>18. i \in 1 .. m - 1 /\ m - 1 = n
  BY <1>1
<1>19. C1[x].split = C[P[i]].split /\ ((i \notin 1 .. n - 1) => ~C[P[i]].split)
  BY <1>1
<1> HIDE DEF Q, at
<1>20. ASSUME C1[P[i]].split PROVE Hards(m, Q, C1) = Hards(n, P, C) \cup {x}
  <2>1. x \in Hards(m, Q, C1)
    BY <1>3, <1>18, <1>20 DEF Hards
  <2>2. ASSUME NEW p \in Hards(n, P, C) PROVE p \in Hards(m, Q, C1)
    <3>1. PICK k \in 1 .. n - 1 : C[P[k]].split /\ p = P[k + 1]
      BY DEF Hards
    <3>2. CASE k = i
      BY <1>3, <1>16, <1>19, <3>1, <3>2 DEF Hards
    <3> QED
      BY <1>14, <3>1, <3>2
  <2>3. ASSUME NEW p \in Hards(m, Q, C1) PROVE p \in Hards(n, P, C) \cup {x}
    <3>1. PICK j \in 1 .. m - 1 : C1[Q[j]].split /\ p = Q[j + 1]
      BY DEF Hards
    <3>2. CASE j = i
      BY <1>3, <3>1, <3>2
    <3>3. CASE j = i + 1
      BY <1>3, <1>16, <1>17, <1>19, <3>1, <3>3 DEF Hards
    <3> QED
      BY <1>15, <3>1, <3>2, <3>3
  <2> QED
    BY <2>1, <2>2, <2>3
<1>21. ASSUME ~C1[P[i]].split, ~C1[x].split PROVE Hards(m, Q, C1) = Hards(n, P, C)
  <2>1. ASSUME NEW p \in Hards(n, P, C) PROVE p \in Hards(m, Q, C1)
    <3>1. PICK k \in 1 .. n - 1 : C[P[k]].split /\ p = P[k + 1]
      BY DEF Hards
    <3>2. k # i
      BY <1>19, <1>21, <3>1
    <3> QED
      BY <1>14, <3>1, <3>2
  <2>2. ASSUME NEW p \in Hards(m, Q, C1) PROVE p \in Hards(n, P, C)
    <3>1. PICK j \in 1 .. m - 1 : C1[Q[j]].split /\ p = Q[j + 1]
      BY DEF Hards
    <3>2. j # i /\ j # i + 1
      BY <1>3, <1>21, <3>1
    <3> QED
      BY <1>15, <3>1, <3>2
  <2> QED
    BY <2>1, <2>2
<1> HIDE DEF M1
<1>22. Line(m, Q, M1)
  BY <1>1, <1>6, <1>8, <1>9, <1>10, <1>11, <1>12 DEF Line
<1> QED
  BY <1>13, <1>20, <1>21, <1>22 DEF M1, Q
-----------------------------------------------------------------------------
(* What the entries of a set S of pairs lead to: C says what the pairs hold, *)
(* Z which of them were split off another, mv which entries are being moved. *)
Leads(C, p, a, x)     == C[p].ents[a].type = "dir" /\ C[p].ents[a].pair = x
Shown(C, mv, p, a, x) == Leads(C, p, a, x) /\ [pair |-> p, name |-> a] \notin mv
Led(S, C, mv, x)      == \E p \in S, a \in Names : Shown(C, mv, p, a, x)
Unled(S, C, x)        == \A p \in S, a \in Names : ~Leads(C, p, a, x)
Blank(m)              == ~m.split /\ \A a \in Names : m.ents[a] = NoEnt

Aims(S, Z, C) == \A p \in S, a \in Names :
    C[p].ents[a].type = "dir" => C[p].ents[a].pair \in S \ ({Root} \cup Z)
Once(S, C, mv) == \A x \in S, p \in S, q \in S, a \in Names, b \in Names :
    Shown(C, mv, p, a, x) /\ Shown(C, mv, q, b, x) => p = q /\ a = b
Orphans(S, Z, C, mv) == \A x \in S \ ({Root} \cup Z) : Blank(C[x]) \/ Led(S, C, mv, x)

Fits(S, Z, C, mv) ==
    /\ Aims(S, Z, C) /\ Once(S, C, mv) /\ Orphans(S, Z, C, mv)
    /\ \A v \in mv : v.pair \in S

(* How the pairs of S may change: all but p stay; so do all but p and x; what *)
(* m held is shared out between m1 and m2.                                   *)
AllBut(S, p, C, C1)     == \A q \in S : q # p => C1[q] = C[q]
AllButTwo(S, p, x, C, C1) == \A q \in S : q # p /\ q # x => C1[q] = C[q]
Shares(m, m1, m2) == \A a \in Names : \/ m1.ents[a] = m.ents[a] /\ m2.ents[a] = NoEnt
                                      \/ m1.ents[a] = NoEnt /\ m2.ents[a] = m.ents[a]
Bare(m)      == \A a \in Names : m.ents[a] = NoEnt
Still(mv, p) == \A v \in mv : v.pair # p

(* What a pair held is shared out between it and a pair t. *)
LEMMA FitsSplit ==
    ASSUME NEW S, NEW Z, NEW C, NEW mv, Fits(S, Z, C, mv), NEW p \in S, NEW t, t \notin S,
           NEW C1, AllBut(S, p, C, C1),
           Shares(C[p], C1[p], C1[t]), Still(mv, p), ~Blank(C[p])
    PROVE  Fits(S \cup {t}, Z \cup {t}, C1, mv)
           /\ \A x : Unled(S, C, x) => Unled(S \cup {t}, C1, x)
<1> DEFINE T == S \cup {t}
           Y == Z \cup {t}
<1> USE DEF AllBut, Shares, Still
<1>1. NoEnt.type # "dir"
  BY DEF NoEnt
<1>2. ASSUME NEW q \in T, NEW a \in Names, NEW x, Leads(C1, q, a, x)
      PROVE  \E r \in S : /\ Leads(C, r, a, x) /\ (q # t => r = q) /\ (q = t => r = p)
                          /\ (Shown(C1, mv, q, a, x) => Shown(C, mv, r, a, x))
  <2>1. CASE q = t \/ q = p
    <3>1. Leads(C, p, a, x)
      BY <1>1, <1>2, <2>1 DEF Leads
    <3>2. Shown(C, mv, p, a, x)
      <4>1. [pair |-> p, name |-> a].pair = p
        OBVIOUS
      <4> QED
        BY <3>1, <4>1 DEF Shown
    <3> QED
      BY <2>1, <3>1, <3>2
  <2>2. CASE q # t /\ q # p
    <3>1. q \in S /\ C1[q] = C[q]
      BY <2>2
    <3> QED
      BY <1>2, <2>2, <3>1 DEF Leads, Shown
  <2> QED
    BY <2>1, <2>2
<1>3. ASSUME NEW q \in S, NEW a \in Names, NEW x, Shown(C, mv, q, a, x)
      PROVE  \E r \in T : Shown(C1, mv, r, a, x)
  <2>1. CASE q # p
    BY <1>3, <2>1 DEF Shown, Leads
  <2>2. CASE q = p
    <3>1. PICK r \in {p, t} : C1[r].ents[a] = C[p].ents[a]
      OBVIOUS
    <3>2. Leads(C1, r, a, x)
      BY <1>3, <2>2, <3>1 DEF Shown, Leads
    <3>3. \A v \in mv : v.pair # r
      BY <3>1 DEF Fits
    <3>4. [pair |-> r, name |-> a].pair = r
      OBVIOUS
    <3>5. [pair |-> r, name |-> a] \notin mv
      BY <3>3, <3>4
    <3>6. r \in T
      BY <3>1
    <3> QED
      BY <3>2, <3>5, <3>6 DEF Shown
  <2> QED
    BY <2>1, <2>2
<1>4. Aims(T, Y, C1)
  <2>1. ASSUME NEW q \in T, NEW a \in Names, C1[q].ents[a].type = "dir"
        PROVE  C1[q].ents[a].pair \in T \ ({Root} \cup Y)
    <3>1. PICK r \in S : Leads(C, r, a, C1[q].ents[a].pair)
      BY <1>2, <2>1 DEF Leads
    <3>2. C1[q].ents[a].pair \in S \ ({Root} \cup Z)
      BY <3>1 DEF Fits, Aims, Leads
    <3> QED
      BY <3>2
  <2> QED
    BY <2>1 DEF Aims
<1>5. Once(T, C1, mv)
  <2>1. ASSUME NEW x \in T, NEW q \in T, NEW r \in T, NEW a \in Names, NEW b \in Names,
               Shown(C1, mv, q, a, x), Shown(C1, mv, r, b, x)
        PROVE  q = r /\ a = b
    <3>1. Leads(C1, q, a, x) /\ Leads(C1, r, b, x)
      BY <2>1 DEF Shown
    <3>2. PICK q0 \in S : Leads(C, q0, a, x) /\ (q # t => q0 = q) /\ (q = t => q0 = p) /\ Shown(C, mv, q0, a, x)
      BY <1>2, <2>1, <3>1
    <3>3. PICK r0 \in S : Leads(C, r0, b, x) /\ (r # t => r0 = r) /\ (r = t => r0 = p) /\ Shown(C, mv, r0, b, x)
      BY <1>2, <2>1, <3>1
    <3>4. x \in S
      BY <3>2 DEF Fits, Aims, Leads
    <3>5. q0 = r0 /\ a = b
      BY <3>2, <3>3, <3>4 DEF Fits, Once
    <3>6. ~(q = t /\ r = p) /\ ~(q = p /\ r = t)
      <4>1. C1[p].ents[a].type # "dir" \/ C1[t].ents[a].type # "dir"
        BY <1>1
      <4> QED
        BY <3>1, <3>5, <4>1 DEF Leads
    <3> QED
      BY <3>2, <3>3, <3>5, <3>6
  <2> QED
    BY <2>1 DEF Once
<1>6. Orphans(T, Y, C1, mv)
  <2>1. ASSUME NEW x \in T \ ({Root} \cup Y) PROVE Blank(C1[x]) \/ Led(T, C1, mv, x)
    <3>1. x \in S \ ({Root} \cup Z)
      OBVIOUS
    <3>2. Blank(C[x]) \/ Led(S, C, mv, x)
      BY <3>1 DEF Fits, Orphans
    <3>3. Led(S, C, mv, x) => Led(T, C1, mv, x)
      BY <1>3 DEF Led
    <3>4. Blank(C[x]) => x # p /\ Blank(C1[x])
      BY <3>1
    <3> QED
      BY <3>2, <3>3, <3>4
  <2> QED
    BY <2>1 DEF Orphans
<1>7. \A x : Unled(S, C, x) => Unled(T, C1, x)
  BY <1>2 DEF Unled
<1> QED
  BY <1>4, <1>5, <1>6, <1>7 DEF Fits

(* A pair x that is empty and to which nothing leads is taken out, after p. *)
LEMMA FitsCut ==
    ASSUME NEW S, NEW Z, NEW C, NEW mv, Fits(S, Z, C, mv), NEW x \in S, x # Root, NEW p \in S, p # x,
           Bare(C[x]), Unled(S, C, x), Still(mv, x), NEW C1, AllButTwo(S, p, x, C, C1),
           C1[p].ents = C[p].ents, C1[p].split = C[x].split, C[p].split \/ ~C[x].split
    PROVE  Fits(S \ {x}, Z \ {x}, C1, mv)
           /\ \A y : Unled(S, C, y) => Unled(S \ {x}, C1, y)
<1> DEFINE T == S \ {x}
           Y == Z \ {x}
<1> USE DEF AllButTwo, Bare, Still
<1>1. NoEnt.type # "dir"
  BY DEF NoEnt
<1>2. ASSUME NEW q \in T PROVE C1[q].ents = C[q].ents
  BY <1>2
<1>3. ASSUME NEW q \in T, NEW a \in Names, NEW y
      PROVE  (Leads(C1, q, a, y) <=> Leads(C, q, a, y)) /\ (Shown(C1, mv, q, a, y) <=> Shown(C, mv, q, a, y))
  BY <1>2 DEF Leads, Shown
<1>4. Aims(T, Y, C1)
  <2>1. ASSUME NEW q \in T, NEW a \in Names, C1[q].ents[a].type = "dir"
        PROVE  C1[q].ents[a].pair \in T \ ({Root} \cup Y)
    <3>1. C1[q].ents[a] = C[q].ents[a]
      BY <1>2
    <3>2. C[q].ents[a].pair \in S \ ({Root} \cup Z) /\ C[q].ents[a].pair # x
      BY <2>1, <3>1 DEF Fits, Aims, Unled, Leads
    <3> QED
      BY <3>1, <3>2
  <2> QED
    BY <2>1 DEF Aims
<1>5. Once(T, C1, mv)
  BY <1>3 DEF Once, Fits
<1>6. ASSUME NEW y \in S, Led(S, C, mv, y) PROVE Led(T, C1, mv, y)
  <2>1. PICK q \in S, a \in Names : Shown(C, mv, q, a, y)
    BY <1>6 DEF Led
  <2>2. q # x
    BY <1>1, <2>1 DEF Shown, Leads
  <2> QED
    BY <1>3, <2>1, <2>2 DEF Led
<1>7. Orphans(T, Y, C1, mv)
  <2>1. ASSUME NEW y \in T \ ({Root} \cup Y) PROVE Blank(C1[y]) \/ Led(T, C1, mv, y)
    <3>1. Blank(C[y]) \/ Led(S, C, mv, y)
      BY DEF Fits, Orphans
    <3>2. Blank(C[y]) => Blank(C1[y])
      BY <1>2 DEF Blank
    <3> QED
      BY <1>6, <3>1, <3>2
  <2> QED
    BY <2>1 DEF Orphans
<1>8. \A v \in mv : v.pair \in T
  BY DEF Fits
<1>9. \A y : Unled(S, C, y) => Unled(T, C1, y)
  BY <1>3 DEF Unled
<1> QED
  BY <1>4, <1>5, <1>7, <1>8, <1>9 DEF Fits

(* Only what the pairs hold of the global state, and their revisions, change. *)
LEMMA FitsSame ==
    ASSUME NEW S, NEW Z, NEW C, NEW C1, \A q \in S : C1[q].ents = C[q].ents /\ C1[q].split = C[q].split
    PROVE  /\ \A mv : Fits(S, Z, C, mv) => Fits(S, Z, C1, mv)
           /\ \A y : Unled(S, C, y) => Unled(S, C1, y)
<1>1. ASSUME NEW q \in S, NEW a \in Names, NEW y
      PROVE  (Leads(C1, q, a, y) <=> Leads(C, q, a, y))
             /\ \A mv : Shown(C1, mv, q, a, y) <=> Shown(C, mv, q, a, y)
  BY DEF Leads, Shown
<1>2. ASSUME Aims(S, Z, C) PROVE Aims(S, Z, C1)
  BY <1>2 DEF Aims
<1>3. ASSUME NEW mv, Once(S, C, mv) PROVE Once(S, C1, mv)
  BY <1>1, <1>3 DEF Once
<1>4. ASSUME NEW mv, Orphans(S, Z, C, mv) PROVE Orphans(S, Z, C1, mv)
  <2>1. ASSUME NEW y \in S \ ({Root} \cup Z) PROVE Blank(C1[y]) \/ Led(S, C1, mv, y)
    <3>1. Blank(C[y]) \/ Led(S, C, mv, y)
      BY <1>4 DEF Orphans
    <3>2. Blank(C[y]) => Blank(C1[y])
      BY DEF Blank
    <3>3. Led(S, C, mv, y) => Led(S, C1, mv, y)
      BY <1>1 DEF Led
    <3> QED
      BY <3>1, <3>2, <3>3
  <2> QED
    BY <2>1 DEF Orphans
<1>5. ASSUME NEW mv, Fits(S, Z, C, mv) PROVE Fits(S, Z, C1, mv)
  BY <1>2, <1>3, <1>4, <1>5 DEF Fits
<1>6. ASSUME NEW y, Unled(S, C, y) PROVE Unled(S, C1, y)
  BY <1>1, <1>6 DEF Unled
<1> QED
  BY <1>5, <1>6

(* A pair x that is empty is put in. *)
LEMMA FitsIns ==
    ASSUME NEW S, NEW Z, NEW C, NEW mv, Fits(S, Z, C, mv), NEW x, x \notin S, x \notin Z,
           NEW C1, Blank(C1[x]), \A q \in S : C1[q].ents = C[q].ents /\ C1[q].split = C[q].split
    PROVE  Fits(S \cup {x}, Z, C1, mv) /\ Unled(S \cup {x}, C1, x)
<1> DEFINE T == S \cup {x}
<1>1. \A a \in Names : C1[x].ents[a].type # "dir"
  BY DEF NoEnt, Blank
<1>2. ASSUME NEW q \in S, NEW a \in Names, NEW y
      PROVE  (Leads(C1, q, a, y) <=> Leads(C, q, a, y)) /\ (Shown(C1, mv, q, a, y) <=> Shown(C, mv, q, a, y))
  BY DEF Leads, Shown
<1>3. ASSUME NEW a \in Names, NEW y PROVE ~Leads(C1, x, a, y) /\ ~Shown(C1, mv, x, a, y)
  BY <1>1 DEF Leads, Shown
<1>4. Aims(T, Z, C1)
  BY <1>1 DEF Aims, Fits
<1>5. Once(T, C1, mv)
  <2>1. ASSUME NEW y \in T, NEW q \in T, NEW r \in T, NEW a \in Names, NEW b \in Names,
               Shown(C1, mv, q, a, y), Shown(C1, mv, r, b, y)
        PROVE  q = r /\ a = b
    <3>1. q \in S /\ r \in S /\ Shown(C, mv, q, a, y) /\ Shown(C, mv, r, b, y)
      BY <1>2, <1>3, <2>1
    <3>2. y \in S
      BY <3>1 DEF Fits, Aims, Shown, Leads
    <3> QED
      BY <3>1, <3>2 DEF Fits, Once
  <2> QED
    BY <2>1 DEF Once
<1>6. Orphans(T, Z, C1, mv)
  <2>1. ASSUME NEW y \in S \ ({Root} \cup Z) PROVE Blank(C1[y]) \/ Led(T, C1, mv, y)
    <3>1. Blank(C[y]) \/ Led(S, C, mv, y)
      BY DEF Fits, Orphans
    <3>2. Blank(C[y]) => Blank(C1[y])
      BY DEF Blank
    <3>3. Led(S, C, mv, y) => Led(T, C1, mv, y)
      BY <1>2 DEF Led
    <3> QED
      BY <3>1, <3>2, <3>3
  <2> QED
    BY <2>1 DEF Orphans
<1>7. Unled(T, C1, x)
  <2>1. ASSUME NEW q \in T, NEW a \in Names, Leads(C1, q, a, x) PROVE FALSE
    <3>1. q \in S /\ Leads(C, q, a, x)
      BY <1>2, <1>3, <2>1
    <3> QED
      BY <3>1 DEF Fits, Aims, Leads
  <2> QED
    BY <2>1 DEF Unled
<1>8. \A v \in mv : v.pair \in T
  BY DEF Fits
<1> QED
  BY <1>4, <1>5, <1>6, <1>7, <1>8 DEF Fits

(* The entries of a pair p, and the move that is pending, are changed. *)
LEMMA FitsEdit ==
    ASSUME NEW S, NEW Z, NEW C, NEW mv, Fits(S, Z, C, mv), NEW p \in S, NEW mv1,
           NEW C1, \A q \in S : q # p => C1[q] = C[q], C1[p].split = C[p].split,
           \A a \in Names : C1[p].ents[a].type = "dir" => C1[p].ents[a].pair \in S \ ({Root} \cup Z),
           \A q \in S, a \in Names : \A x : q # p /\ Shown(C1, mv1, q, a, x) => Shown(C, mv, q, a, x),
           \A a \in Names, q \in S, b \in Names, x \in S :
              Shown(C1, mv1, p, a, x) /\ Shown(C1, mv1, q, b, x) => q = p /\ a = b,
           \A x \in S \ ({Root} \cup Z) : Led(S, C, mv, x) => Led(S, C1, mv1, x) \/ Blank(C1[x]),
           p \in {Root} \cup Z \/ Led(S, C, mv, p) \/ Blank(C1[p]),
           \A v \in mv1 : v.pair \in S
    PROVE  Fits(S, Z, C1, mv1)
<1>1. Aims(S, Z, C1)
  BY DEF Fits, Aims
<1>2. Once(S, C1, mv1)
  <2>1. ASSUME NEW x \in S, NEW q \in S, NEW r \in S, NEW a \in Names, NEW b \in Names,
               Shown(C1, mv1, q, a, x), Shown(C1, mv1, r, b, x)
        PROVE  q = r /\ a = b
    <3>1. CASE q # p /\ r # p
      <4>1. Shown(C, mv, q, a, x) /\ Shown(C, mv, r, b, x)
        BY <2>1, <3>1
      <4> QED
        BY <4>1 DEF Fits, Once
    <3>2. CASE q = p \/ r = p
      BY <2>1, <3>2
    <3> QED
      BY <3>1, <3>2
  <2> QED
    BY <2>1 DEF Once
<1>3. Orphans(S, Z, C1, mv1)
  <2>1. ASSUME NEW x \in S \ ({Root} \cup Z) PROVE Blank(C1[x]) \/ Led(S, C1, mv1, x)
    <3>1. Blank(C[x]) \/ Led(S, C, mv, x)
      BY DEF Fits, Orphans
    <3>2. CASE x # p
      BY <3>1, <3>2
    <3>3. CASE x = p
      BY <3>1, <3>3
    <3> QED
      BY <3>2, <3>3
  <2> QED
    BY <2>1 DEF Orphans
<1> QED
  BY <1>1, <1>2, <1>3 DEF Fits
-----------------------------------------------------------------------------
(* A set of pairs that holds the root and what its pairs lead to.             *)
Closed(S, C, mv, D) ==
    /\ Root \in D
    /\ \A q \in S : q \in D /\ C[q].split => C[q].tail \in D
    /\ \A q \in S, a \in Names : \A x : q \in D /\ Shown(C, mv, q, a, x) => x \in D

(* Every pair but those of K is on a path from the root; these are empty, and  *)
(* nothing leads to them.                                                     *)
Tied(S, Z, C, mv, K) ==
    /\ \A D : Closed(S, C, mv, D) => S \subseteq D \cup K
    /\ K \subseteq S \ ({Root} \cup Z)
    /\ \A x \in K : Unled(S, C, x) /\ Blank(C[x])

(* What is tied to the root stays so when only deltas and revisions change;   *)
LEMMA TiedSame ==
    ASSUME NEW S, NEW Z, NEW C, NEW C1, NEW mv, NEW K, Tied(S, Z, C, mv, K),
           \A q \in S : C1[q].ents = C[q].ents /\ C1[q].split = C[q].split,
           \A q \in S : C[q].split => C1[q].tail = C[q].tail
    PROVE  Tied(S, Z, C1, mv, K)
<1>1. ASSUME NEW q \in S, NEW a \in Names, NEW y
      PROVE  (Leads(C1, q, a, y) <=> Leads(C, q, a, y)) /\ (Shown(C1, mv, q, a, y) <=> Shown(C, mv, q, a, y))
  BY DEF Leads, Shown
<1>2. ASSUME NEW D, Closed(S, C1, mv, D) PROVE S \subseteq D \cup K
  <2>1. Closed(S, C, mv, D)
    BY <1>1, <1>2 DEF Closed
  <2> QED
    BY <2>1 DEF Tied
<1>3. \A x \in K : Unled(S, C1, x) /\ Blank(C1[x])
  BY <1>1 DEF Tied, Unled, Blank
<1> QED
  BY <1>2, <1>3 DEF Tied

(* when a pair's entries are shared out between it and a new pair t;          *)
LEMMA TiedSplit ==
    ASSUME NEW S, NEW Z, NEW C, NEW mv, NEW K, Tied(S, Z, C, mv, K), NEW p \in S, NEW t, t \notin S,
           \A v \in mv : v.pair \in S, NEW C1, AllBut(S, p, C, C1),
           Shares(C[p], C1[p], C1[t]), ~Blank(C[p]), C1[p].split, C1[p].tail = t,
           C1[t].split = C[p].split, C1[t].tail = C[p].tail
    PROVE  Tied(S \cup {t}, Z \cup {t}, C1, mv, K)
<1> DEFINE T == S \cup {t}
<1> USE DEF AllBut, Shares
<1>1. NoEnt.type # "dir"
  BY DEF NoEnt
<1>2. p \notin K
  BY DEF Tied
<1>3. ASSUME NEW D, Closed(T, C1, mv, D) PROVE T \subseteq D \cup K
  <2>1. p \in D => t \in D
    BY <1>3 DEF Closed
  <2>2. ASSUME NEW q \in S, q \in D, C[q].split PROVE C[q].tail \in D
    <3>1. CASE q = p
      BY <1>3, <2>1, <2>2, <3>1 DEF Closed
    <3>2. CASE q # p
      BY <1>3, <2>2, <3>2 DEF Closed
    <3> QED
      BY <3>1, <3>2
  <2>3. ASSUME NEW q \in S, NEW a \in Names, NEW x, q \in D, Shown(C, mv, q, a, x) PROVE x \in D
    <3>1. CASE q = p /\ C1[t].ents[a] = C[p].ents[a]
      <4>1. Shown(C1, mv, t, a, x)
        BY <2>3, <3>1 DEF Shown, Leads
      <4> QED
        BY <1>3, <2>1, <2>3, <3>1, <4>1 DEF Closed
    <3>2. CASE q = p /\ C1[p].ents[a] = C[p].ents[a]
      <4>1. Shown(C1, mv, p, a, x)
        BY <2>3, <3>2 DEF Shown, Leads
      <4> QED
        BY <1>3, <2>3, <3>2, <4>1 DEF Closed
    <3>3. CASE q # p
      <4>1. Shown(C1, mv, q, a, x)
        BY <2>3, <3>3 DEF Shown, Leads
      <4> QED
        BY <1>3, <2>3, <4>1 DEF Closed
    <3> QED
      BY <3>1, <3>2, <3>3
  <2>4. Root \in D
    BY <1>3 DEF Closed
  <2>5. Closed(S, C, mv, D)
    BY <2>2, <2>3, <2>4 DEF Closed
  <2> QED
    BY <1>2, <2>1, <2>5 DEF Tied
<1>4. ASSUME NEW x \in K PROVE Unled(T, C1, x) /\ Blank(C1[x])
  <2>1. Unled(S, C, x) /\ Blank(C[x]) /\ x \in S /\ x # p
    BY <1>2, <1>4 DEF Tied
  <2>2. ASSUME NEW q \in T, NEW a \in Names, Leads(C1, q, a, x) PROVE FALSE
    <3>1. (Leads(C, q, a, x) /\ q \in S) \/ Leads(C, p, a, x)
      BY <1>1, <2>2 DEF Leads
    <3> QED
      BY <2>1, <3>1 DEF Unled
  <2> QED
    BY <2>1, <2>2 DEF Unled
<1>5. K \subseteq T \ ({Root} \cup (Z \cup {t}))
  BY DEF Tied
<1> QED
  BY <1>3, <1>4, <1>5 DEF Tied

(* when an empty pair x that nothing leads to is taken out, after p;          *)
LEMMA TiedCut ==
    ASSUME NEW S, NEW Z, NEW C, NEW mv, NEW K, Tied(S, Z, C, mv, K), NEW x \in S, x # Root,
           NEW p \in S, p # x, Bare(C[x]), Unled(S, C, x), NEW C1, AllButTwo(S, p, x, C, C1),
           C1[p].ents = C[p].ents, C1[p].split = C[x].split, C1[p].tail = C[x].tail,
           C[p].split \/ ~C[x].split, \A q \in S : C[q].split => (q = p <=> C[q].tail = x)
    PROVE  Tied(S \ {x}, Z \ {x}, C1, mv, K \ {x})
<1> DEFINE T == S \ {x}
<1> USE DEF AllButTwo, Bare
<1>1. NoEnt.type # "dir"
  BY DEF NoEnt
<1>2. ASSUME NEW q \in T PROVE C1[q].ents = C[q].ents
  BY <1>2
<1>3. ASSUME NEW q \in T, NEW a \in Names, NEW y
      PROVE  (Leads(C1, q, a, y) <=> Leads(C, q, a, y)) /\ (Shown(C1, mv, q, a, y) <=> Shown(C, mv, q, a, y))
  BY <1>2 DEF Leads, Shown
<1>4. ASSUME NEW a \in Names, NEW y PROVE ~Shown(C, mv, x, a, y)
  BY <1>1 DEF Shown, Leads
<1>5. ASSUME NEW D, Closed(T, C1, mv, D) PROVE T \subseteq D \cup K
  <2> DEFINE E == IF p \in D \/ ~C[p].split THEN D \cup {x} ELSE D \ {x}
  <2>1. \A y : y # x => (y \in E <=> y \in D)
    OBVIOUS
  <2>2. Root \in E
    BY <1>5, <2>1 DEF Closed
  <2>3. x \in E <=> p \in D \/ ~C[p].split
    OBVIOUS
  <2> HIDE DEF E
  <2>4. ASSUME NEW q \in S, q \in E, C[q].split PROVE C[q].tail \in E
    <3>1. CASE q = x
      <4>1. p \in D /\ C1[p].split /\ C1[p].tail = C[x].tail
        BY <2>3, <2>4, <3>1
      <4>2. C[x].tail \in D
        BY <1>5, <4>1 DEF Closed
      <4> QED
        BY <2>1, <2>4, <3>1, <4>2
    <3>2. CASE q = p
      BY <2>1, <2>3, <2>4, <3>2
    <3>3. CASE q # x /\ q # p
      BY <1>5, <2>1, <2>4, <3>3 DEF Closed
    <3> QED
      BY <3>1, <3>2, <3>3
  <2>5. ASSUME NEW q \in S, NEW a \in Names, NEW y, q \in E, Shown(C, mv, q, a, y) PROVE y \in E
    <3>1. q # x
      BY <1>4, <2>5
    <3>2. y # x
      BY <2>5 DEF Shown, Unled
    <3>3. Shown(C1, mv, q, a, y) /\ q \in D
      BY <1>3, <2>1, <2>5, <3>1
    <3>4. y \in D
      BY <1>5, <3>1, <3>3 DEF Closed
    <3> QED
      BY <2>1, <3>2, <3>4
  <2>6. Closed(S, C, mv, E)
    BY <2>2, <2>4, <2>5 DEF Closed
  <2>7. S \subseteq E \cup K
    BY <2>6 DEF Tied
  <2> QED
    BY <2>1, <2>7
<1>6. ASSUME NEW y \in K \ {x} PROVE Unled(T, C1, y) /\ Blank(C1[y])
  <2>1. Unled(S, C, y) /\ Blank(C[y]) /\ y \in T
    BY <1>6 DEF Tied
  <2>2. Unled(T, C1, y)
    BY <1>3, <2>1 DEF Unled
  <2>3. C1[y].split = C[y].split \/ y = p
    BY <2>1
  <2>4. y = p => ~C1[y].split
    BY <2>1 DEF Blank
  <2> QED
    BY <1>2, <2>1, <2>2, <2>3, <2>4 DEF Blank
<1>7. K \ {x} \subseteq T \ ({Root} \cup (Z \ {x}))
  BY DEF Tied
<1> QED
  BY <1>5, <1>6, <1>7 DEF Tied

(* when an empty pair x is put in, which is not tied then;                    *)
LEMMA TiedIns ==
    ASSUME NEW S, NEW Z, NEW C, NEW mv, NEW K, Tied(S, Z, C, mv, K), NEW x, x \notin S, x \notin Z,
           x # Root, NEW C1, Blank(C1[x]), Unled(S \cup {x}, C1, x),
           \A q \in S : C1[q].ents = C[q].ents /\ C1[q].split = C[q].split,
           \A q \in S : C[q].split => C1[q].tail = C[q].tail
    PROVE  Tied(S \cup {x}, Z, C1, mv, K \cup {x})
<1> DEFINE T == S \cup {x}
<1>1. \A a \in Names : C1[x].ents[a].type # "dir"
  BY DEF NoEnt, Blank
<1>2. ASSUME NEW q \in S, NEW a \in Names, NEW y
      PROVE  (Leads(C1, q, a, y) <=> Leads(C, q, a, y)) /\ (Shown(C1, mv, q, a, y) <=> Shown(C, mv, q, a, y))
  BY DEF Leads, Shown
<1>3. ASSUME NEW D, Closed(T, C1, mv, D) PROVE T \subseteq D \cup (K \cup {x})
  <2>1. Closed(S, C, mv, D)
    BY <1>2, <1>3 DEF Closed
  <2> QED
    BY <2>1 DEF Tied
<1>4. ASSUME NEW y \in K PROVE Unled(T, C1, y) /\ Blank(C1[y])
  <2>1. Unled(S, C, y) /\ Blank(C[y]) /\ y \in S
    BY <1>4 DEF Tied
  <2>2. ASSUME NEW q \in T, NEW a \in Names, Leads(C1, q, a, y) PROVE FALSE
    BY <1>1, <1>2, <2>1, <2>2 DEF Leads, Unled
  <2> QED
    BY <2>1, <2>2 DEF Unled, Blank
<1>5. K \cup {x} \subseteq T \ ({Root} \cup Z)
  BY DEF Tied
<1> QED
  BY <1>3, <1>4, <1>5 DEF Tied

(* How the entry of a pair p is changed, all else kept. *)
OneEnt(S, C, C1, p, a0) ==
    /\ \A q \in S : q # p => C1[q] = C[q]
    /\ C1[p].split = C[p].split /\ C1[p].tail = C[p].tail
    /\ \A a \in Names : a # a0 => C1[p].ents[a] = C[p].ents[a]

(* when the entry that a move has left behind is taken out;                   *)
LEMMA TiedPick ==
    ASSUME NEW S, NEW Z, NEW C, NEW K, NEW p \in S, NEW a0 \in Names,
           Tied(S, Z, C, {[pair |-> p, name |-> a0]}, K),
           NEW C1, OneEnt(S, C, C1, p, a0), C1[p].ents[a0] = NoEnt
    PROVE  Tied(S, Z, C1, {}, K)
<1> USE DEF OneEnt
<1> DEFINE mv == {[pair |-> p, name |-> a0]}
<1>1. NoEnt.type # "dir"
  BY DEF NoEnt
<1>2. ASSUME NEW q \in S, NEW a \in Names, NEW y PROVE Leads(C1, q, a, y) => Leads(C, q, a, y)
  BY <1>1 DEF Leads
<1>3. ASSUME NEW q \in S, NEW a \in Names, NEW y, Shown(C, mv, q, a, y) PROVE Shown(C1, {}, q, a, y)
  <2>1. q # p \/ a # a0
    BY <1>3 DEF Shown
  <2> QED
    BY <1>3, <2>1 DEF Shown, Leads
<1>4. ASSUME NEW D, Closed(S, C1, {}, D) PROVE S \subseteq D \cup K
  <2>1. Root \in D /\ \A q \in S : q \in D /\ C[q].split => C[q].tail \in D
    BY <1>4 DEF Closed
  <2>2. \A q \in S, a \in Names : \A x : q \in D /\ Shown(C, mv, q, a, x) => x \in D
    BY <1>3, <1>4 DEF Closed
  <2>3. Closed(S, C, mv, D)
    BY <2>1, <2>2 DEF Closed
  <2> QED
    BY <2>3 DEF Tied
<1>5. ASSUME NEW x \in K PROVE Unled(S, C1, x) /\ Blank(C1[x])
  <2>1. Unled(S, C, x) /\ Blank(C[x]) /\ x \in S
    BY <1>5 DEF Tied
  <2>2. \A a \in Names : C1[x].ents[a] = C[x].ents[a] \/ C1[x].ents[a] = NoEnt
    BY <2>1
  <2>3. C1[x].split = C[x].split
    BY <2>1
  <2> QED
    BY <1>2, <2>1, <2>2, <2>3 DEF Unled, Blank
<1>6. K \subseteq S \ ({Root} \cup Z)
  BY DEF Tied
<1> QED
  BY <1>4, <1>5, <1>6 DEF Tied

(* The directories X that an entry of p led to, and no entry does now.         *)
Frees(S, Z, C, C1, p, a0, X) ==
    /\ C[p].ents[a0].type # "dir" => X = {}
    /\ C[p].ents[a0].type = "dir" =>
          \E x \in S \ ({Root} \cup Z) : /\ X = {x} /\ x = C[p].ents[a0].pair
                                       /\ Blank(C[x]) /\ Unled(S, C1, x)

(* when an entry is taken out, but for the empty directory that it led to;    *)
LEMMA TiedRemove ==
    ASSUME NEW S, NEW Z, NEW C, NEW K, NEW p \in S, NEW a0 \in Names, Tied(S, Z, C, {}, K),
           NEW C1, OneEnt(S, C, C1, p, a0), C1[p].ents[a0] = NoEnt, NEW X,
           Frees(S, Z, C, C1, p, a0, X)
    PROVE  Tied(S, Z, C1, {}, K \cup X)
<1> USE DEF OneEnt, Frees
<1>1. NoEnt.type # "dir"
  BY DEF NoEnt
<1>2. ASSUME NEW q \in S, NEW a \in Names, NEW y PROVE Leads(C1, q, a, y) => Leads(C, q, a, y)
  BY <1>1 DEF Leads
<1>3. ASSUME NEW q \in S, NEW a \in Names, NEW y, Shown(C, {}, q, a, y)
      PROVE  Shown(C1, {}, q, a, y) \/ y \in X
  <2>1. CASE q = p /\ a = a0
    BY <1>3, <2>1 DEF Shown, Leads
  <2>2. CASE q # p \/ a # a0
    BY <1>3, <2>2 DEF Shown, Leads
  <2> QED
    BY <2>1, <2>2
<1>4. ASSUME NEW x \in X PROVE x \in S \ ({Root} \cup Z) /\ Blank(C[x]) /\ Unled(S, C1, x)
  BY <1>4
<1>5. ASSUME NEW D, Closed(S, C1, {}, D) PROVE S \subseteq D \cup (K \cup X)
  <2> DEFINE E == D \cup X
  <2>1. Root \in E
    BY <1>5 DEF Closed
  <2>2. ASSUME NEW q \in S, q \in E, C[q].split PROVE C[q].tail \in E
    <3>1. q \in D
      BY <1>4, <2>2 DEF Blank
    <3>2. C1[q].split /\ C1[q].tail = C[q].tail
      BY <2>2
    <3> QED
      BY <1>5, <3>1, <3>2 DEF Closed
  <2>3. ASSUME NEW q \in S, NEW a \in Names, NEW y, q \in E, Shown(C, {}, q, a, y) PROVE y \in E
    <3>1. q \in D
      BY <1>1, <1>4, <2>3 DEF Blank, Shown, Leads
    <3> QED
      BY <1>3, <1>5, <2>3, <3>1 DEF Closed
  <2>4. Closed(S, C, {}, E)
    BY <2>1, <2>2, <2>3 DEF Closed
  <2> HIDE DEF E
  <2>5. S \subseteq E \cup K
    BY <2>4 DEF Tied
  <2> QED
    BY <2>5 DEF E
<1>6. ASSUME NEW x \in K \cup X PROVE Unled(S, C1, x) /\ Blank(C1[x]) /\ x \in S \ ({Root} \cup Z)
  <2>1. Unled(S, C1, x) /\ Blank(C[x]) /\ x \in S \ ({Root} \cup Z)
    BY <1>2, <1>4 DEF Tied, Unled
  <2>2. \A a \in Names : C1[x].ents[a] = C[x].ents[a] \/ C1[x].ents[a] = NoEnt
    BY <2>1
  <2>3. C1[x].split = C[x].split
    BY <2>1
  <2> QED
    BY <2>1, <2>2, <2>3 DEF Blank
<1> QED
  BY <1>5, <1>6 DEF Tied

(* when an entry is put in, with the pair that it leads to;                   *)
LEMMA TiedAdd ==
    ASSUME NEW S, NEW Z, NEW C, NEW K, NEW p \in S, NEW a0 \in Names, Tied(S, Z, C, {}, K), p \notin K,
           NEW C1, OneEnt(S, C, C1, p, a0), C[p].ents[a0] = NoEnt, NEW x0,
           C1[p].ents[a0].type = "dir" => C1[p].ents[a0].pair = x0,
           C1[p].ents[a0].type # "dir" => x0 \notin K
    PROVE  Tied(S, Z, C1, {}, K \ {x0})
<1> USE DEF OneEnt
<1>1. NoEnt.type # "dir"
  BY DEF NoEnt
<1>2. ASSUME NEW q \in S, NEW a \in Names, NEW y, Leads(C1, q, a, y), y # x0 PROVE Leads(C, q, a, y)
  BY <1>1, <1>2 DEF Leads
<1>3. ASSUME NEW q \in S, NEW a \in Names, NEW y, Shown(C, {}, q, a, y) PROVE Shown(C1, {}, q, a, y)
  BY <1>1, <1>3 DEF Shown, Leads
<1>4. ASSUME NEW D, Closed(S, C1, {}, D) PROVE S \subseteq D \cup (K \ {x0})
  <2>1. Root \in D /\ \A q \in S : q \in D /\ C[q].split => C[q].tail \in D
    BY <1>4 DEF Closed
  <2>2. \A q \in S, a \in Names : \A x : q \in D /\ Shown(C, {}, q, a, x) => x \in D
    BY <1>3, <1>4 DEF Closed
  <2>3. Closed(S, C, {}, D)
    BY <2>1, <2>2 DEF Closed
  <2>4. S \subseteq D \cup K
    BY <2>3 DEF Tied
  <2>5. C1[p].ents[a0].type = "dir" => x0 \in D
    <3>1. C1[p].ents[a0].type = "dir" => Shown(C1, {}, p, a0, x0)
      BY DEF Shown, Leads
    <3> QED
      BY <1>4, <2>4, <3>1 DEF Closed
  <2> QED
    BY <2>4, <2>5
<1>5. ASSUME NEW x \in K \ {x0} PROVE Unled(S, C1, x) /\ Blank(C1[x])
  <2>1. Unled(S, C, x) /\ Blank(C[x]) /\ x # p /\ x \in S
    BY <1>5 DEF Tied
  <2>2. C1[x] = C[x]
    BY <2>1
  <2> QED
    BY <1>2, <1>5, <2>1, <2>2 DEF Unled
<1>6. K \ {x0} \subseteq S \ ({Root} \cup Z)
  BY DEF Tied
<1> QED
  BY <1>4, <1>5, <1>6 DEF Tied

(* An entry takes the place of another: from elsewhere, where it is left       *)
(* behind as moved, or from the same pair.                                     *)
Replaced(S, C, C1, mv, p, a0, h, a1) ==
    /\ h # p \/ a1 # a0
    /\ \A q \in S : q # p => C1[q] = C[q]
    /\ C1[p].split = C[p].split /\ C1[p].ents[a0] = C[h].ents[a1]
    /\ \A a \in Names : a # a0 /\ (h = p => a # a1) => C1[p].ents[a] = C[p].ents[a]
    /\ h = p => C1[p].ents[a1] = NoEnt /\ mv = {}
    /\ h # p => mv = {[pair |-> h, name |-> a1]}

(* when an entry is put under another name, if its place is on a path that    *)
(* does not go through it.                                                    *)
LEMMA TiedMove ==
    ASSUME NEW S, NEW Z, NEW C, Tied(S, Z, C, {}, {}), NEW p \in S, NEW a0 \in Names,
           NEW h \in S, NEW a1 \in Names, NEW C1, NEW mv, Replaced(S, C, C1, mv, p, a0, h, a1),
           C1[p].tail = C[p].tail, NEW X, Frees(S, Z, C, C1, p, a0, X),
           C[h].ents[a1].type = "dir" =>
               \A D : Closed(S, C, {[pair |-> h, name |-> a1]}, D) => p \in D
    PROVE  Tied(S, Z, C1, mv, X)
<1> USE DEF Replaced, Frees
<1> DEFINE hid == {[pair |-> h, name |-> a1]}
<1>1. NoEnt.type # "dir"
  BY DEF NoEnt
<1>2. ASSUME NEW x \in X PROVE x \in S \ ({Root} \cup Z) /\ Blank(C[x]) /\ Unled(S, C1, x)
  BY <1>2
<1>3. p \notin X
  BY <1>1, <1>2 DEF Blank
<1>4. ASSUME NEW q \in S, NEW a \in Names, NEW y, Shown(C, hid, q, a, y)
      PROVE  Shown(C1, mv, q, a, y) \/ y \in X
  <2>1. q # h \/ a # a1
    BY <1>4 DEF Shown
  <2>2. CASE q = p /\ a = a0
    BY <1>4, <2>2 DEF Shown, Leads
  <2>3. CASE q # p \/ a # a0
    <3>1. C1[q].ents[a] = C[q].ents[a] /\ [pair |-> q, name |-> a] \notin mv
      BY <2>1, <2>3
    <3> QED
      BY <1>4, <3>1 DEF Shown, Leads
  <2> QED
    BY <2>2, <2>3
<1>5. ASSUME NEW D, Closed(S, C1, mv, D) PROVE S \subseteq D \cup X
  <2> DEFINE E == D \cup X
  <2>1. Root \in E
    BY <1>5 DEF Closed
  <2>2. ASSUME NEW q \in S, q \in E, C[q].split PROVE C[q].tail \in E
    <3>1. q \in D
      BY <1>2, <2>2 DEF Blank
    <3>2. C1[q].split /\ C1[q].tail = C[q].tail
      BY <2>2
    <3> QED
      BY <1>5, <3>1, <3>2 DEF Closed
  <2>3. ASSUME NEW q \in S, NEW a \in Names, NEW y, q \in E, Shown(C, hid, q, a, y) PROVE y \in E
    <3>1. q \in D
      BY <1>1, <1>2, <2>3 DEF Blank, Shown, Leads
    <3> QED
      BY <1>4, <1>5, <2>3, <3>1 DEF Closed
  <2>4. Closed(S, C, hid, E)
    BY <2>1, <2>2, <2>3 DEF Closed
  <2>5. CASE C[h].ents[a1].type = "dir"
    <3>1. p \in D
      BY <1>3, <2>4, <2>5
    <3> DEFINE e == C[h].ents[a1].pair
    <3>2. Shown(C1, mv, p, a0, e)
      BY <2>5 DEF Shown, Leads
    <3>3. e \in D
      BY <1>5, <3>1, <3>2 DEF Closed
    <3>4. ASSUME NEW q \in S, NEW a \in Names, NEW y, q \in E, Shown(C, {}, q, a, y) PROVE y \in E
      <4>1. CASE q = h /\ a = a1
        BY <3>3, <3>4, <4>1 DEF Shown, Leads
      <4>2. CASE q # h \/ a # a1
        <5>1. Shown(C, hid, q, a, y)
          BY <3>4, <4>2 DEF Shown
        <5> QED
          BY <2>3, <3>4, <5>1
      <4> QED
        BY <4>1, <4>2
    <3>5. Closed(S, C, {}, E)
      BY <2>1, <2>2, <3>4 DEF Closed
    <3> HIDE DEF E
    <3>6. S \subseteq E
      BY <3>5 DEF Tied
    <3> QED
      BY <3>6 DEF E
  <2>6. CASE C[h].ents[a1].type # "dir"
    <3>1. ASSUME NEW q \in S, NEW a \in Names, NEW y, Shown(C, {}, q, a, y) PROVE Shown(C, hid, q, a, y)
      BY <2>6, <3>1 DEF Shown, Leads
    <3>2. Closed(S, C, {}, E)
      BY <2>1, <2>2, <2>3, <3>1 DEF Closed
    <3> HIDE DEF E
    <3>3. S \subseteq E
      BY <3>2 DEF Tied
    <3> QED
      BY <3>3 DEF E
  <2> QED
    BY <2>5, <2>6
<1>6. ASSUME NEW x \in X PROVE Blank(C1[x])
  BY <1>2, <1>3, <1>6
<1> QED
  BY <1>2, <1>5, <1>6 DEF Tied

(* What is tied to the root before a step, while no entry of the pairs off T is *)
(* hidden, is so after it, but for the pairs of X.                            *)
Follows(S, Z, C, S2, Z2, C2, T, X) ==
    \A mv, K : (\A v \in mv : v.pair \in T) /\ Tied(S, Z, C, mv, K) => Tied(S2, Z2, C2, mv, K \ X)

(* One step follows another.                                                  *)
LEMMA FollowsThen ==
    ASSUME NEW S, NEW Z, NEW C, NEW S1, NEW Z1, NEW C1, NEW S2, NEW Z2, NEW C2, NEW T, NEW T1, NEW X,
           Follows(S, Z, C, S1, Z1, C1, T, X), Follows(S1, Z1, C1, S2, Z2, C2, T1, {}), T \subseteq T1
    PROVE  Follows(S, Z, C, S2, Z2, C2, T, X)
<1> SUFFICES ASSUME NEW mv, NEW K, \A v \in mv : v.pair \in T, Tied(S, Z, C, mv, K)
             PROVE  Tied(S2, Z2, C2, mv, K \ X)
  BY DEF Follows
<1>1. Tied(S1, Z1, C1, mv, K \ X)
  BY DEF Follows
<1>2. \A v \in mv : v.pair \in T1
  OBVIOUS
<1>3. Tied(S2, Z2, C2, mv, (K \ X) \ {})
  BY <1>1, <1>2 DEF Follows
<1>4. (K \ X) \ {} = K \ X
  OBVIOUS
<1> QED
  BY <1>3, <1>4

-----------------------------------------------------------------------------
(* A thread that is in order: every entry leads to the first pair of a       *)
(* directory, no two of those that are not hidden to the same; where none    *)
(* leads there is nothing; and the global state adds up to g.                *)
Plan(n, P, C, mv, g) ==
    /\ Line(n, P, Along(n, P, C))
    /\ Fits(PairsOf(n, P), Hards(n, P, C), C, mv)
    /\ Adds(n, Along(n, P, C), g) /\ g \in Gs

(* The deltas along a thread are global states.                               *)
LEMMA AlongGs ==
    ASSUME NEW n, NEW P, NEW C, Line(n, P, Along(n, P, C))
    PROVE  \A j \in 1 .. n : Along(n, P, C)[j] = C[P[j]] /\ Along(n, P, C)[j].g \in Gs
<1>1. \A k \in 1 .. n : C[P[k]] \in Contents
  BY LineAlong, Zenon
<1> QED
  BY <1>1 DEF Along, Contents

(* A thread in order stays so when a pair keeps its tail, its entries fit,    *)
(* and its delta goes into the sum.                                           *)
LEMMA PlanKeep ==
    ASSUME NEW n, NEW P, NEW C, NEW mv, NEW g, Plan(n, P, C, mv, g), NEW i \in 1 .. n, NEW C1, NEW mv1,
           NEW d \in Gs, \A k \in 1 .. n : k # i => C1[P[k]] = C[P[k]], C1[P[i]] \in Contents,
           C1[P[i]].tail = C[P[i]].tail, C1[P[i]].split = C[P[i]].split,
           C1[P[i]].g = Xor(C[P[i]].g, d),
           Fits(PairsOf(n, P), Hards(n, P, C), C1, mv1)
    PROVE  Plan(n, P, C1, mv1, Xor(g, d)) /\ Hards(n, P, C1) = Hards(n, P, C)
<1>1. Line(n, P, Along(n, P, C1)) /\ Hards(n, P, C1) = Hards(n, P, C)
  BY LineKeep DEF Plan
<1>2. n \in Nat
  BY DEF Plan, Line
<1>3. \A j \in 1 .. n : Along(n, P, C)[j] = C[P[j]] /\ Along(n, P, C)[j].g \in Gs
  BY AlongGs DEF Plan
<1>4. \A j \in 1 .. n : Along(n, P, C1)[j] = C1[P[j]]
  BY DEF Along
<1> DEFINE M == Along(n, P, C)
           M1 == Along(n, P, C1)
<1>5. \A j \in 1 .. n : j # i => M1[j].g = M[j].g
  BY <1>3, <1>4
<1>6. M1[i].g = Xor(M[i].g, d) /\ Adds(n, M, g) /\ \A j \in 1 .. n : M[j].g \in Gs
  BY <1>3, <1>4 DEF Plan
<1> HIDE DEF M, M1
<1>7. Adds(n, M1, Xor(g, d))
  BY <1>2, <1>5, <1>6, AddsKeep
<1>8. Xor(g, d) \in Gs
  BY XorTyped DEF Plan
<1> QED
  BY <1>1, <1>7, <1>8 DEF Plan, M1

(* ... when a pair that nothing leads to is taken out, its delta kept in      *)
(* another;                                                                   *)
LEMMA PlanCut ==
    ASSUME NEW n, NEW P, NEW C, NEW mv, NEW g, Plan(n, P, C, mv, g), NEW i \in 1 .. n - 1, NEW C1,
           NEW d \in Gs, \A k \in 1 .. n : k # i /\ k # i + 1 => C1[P[k]] = C[P[k]], C1[P[i]] \in Contents,
           C1[P[i]].tail = C[P[i + 1]].tail, C1[P[i]].split = C[P[i + 1]].split,
           C1[P[i]].g = Xor(C[P[i]].g, Xor(d, C[P[i + 1]].g)), C1[P[i]].ents = C[P[i]].ents,
           Bare(C[P[i + 1]]), Unled(PairsOf(n, P), C, P[i + 1]), Still(mv, P[i + 1]),
               C[P[i]].split \/ ~C[P[i + 1]].split
    PROVE  /\ Plan(n - 1, Cut(n, P, i), C1, mv, Xor(g, d))
           /\ PairsOf(n - 1, Cut(n, P, i)) = PairsOf(n, P) \ {P[i + 1]}
           /\ Hards(n - 1, Cut(n, P, i), C1) = Hards(n, P, C) \ {P[i + 1]}
           /\ \A y : Unled(PairsOf(n, P), C, y) => Unled(PairsOf(n - 1, Cut(n, P, i)), C1, y)
<1> DEFINE Q == Cut(n, P, i)
           S == PairsOf(n, P)
           M == Along(n, P, C)
           M1 == Along(n - 1, Q, C1)
<1>1. /\ Line(n - 1, Q, M1) /\ PairsOf(n - 1, Q) = S \ {P[i + 1]}
      /\ Hards(n - 1, Q, C1) = Hards(n, P, C) \ {P[i + 1]}
  BY LineCut DEF Plan
<1>2. n \in Nat /\ i \in 1 .. n /\ i + 1 \in 1 .. n /\ 1 \in 1 .. n
  BY DEF Plan, Line
<1>3. P[1] = Root /\ \A j, k \in 1 .. n : P[j] = P[k] => j = k
  BY LineAlong, Zenon DEF Plan
<1>4. P[i] \in S /\ P[i + 1] \in S /\ P[i] # P[i + 1] /\ P[i + 1] # Root
  BY <1>2, <1>3 DEF PairsOf
<1>5. ASSUME NEW q \in S, q # P[i], q # P[i + 1] PROVE C1[q] = C[q]
  BY <1>5 DEF PairsOf
<1>6. Fits(S, Hards(n, P, C), C, mv)
  BY DEF Plan
<1>7. /\ Fits(S \ {P[i + 1]}, Hards(n, P, C) \ {P[i + 1]}, C1, mv)
      /\ \A y : Unled(S, C, y) => Unled(S \ {P[i + 1]}, C1, y)
  <2> HIDE DEF S
  <2> DEFINE X == P[i + 1]
             p == P[i]
             Z == Hards(n, P, C)
  <2>1. /\ X \in S /\ X # Root /\ p \in S /\ p # X /\ Fits(S, Z, C, mv)
        /\ Bare(C[X]) /\ Unled(S, C, X) /\ Still(mv, X)
    BY <1>4, <1>6 DEF S
  <2>2. /\ AllButTwo(S, p, X, C, C1)
        /\ C1[p].ents = C[p].ents /\ C1[p].split = C[X].split /\ (C[p].split \/ ~C[X].split)
    BY <1>5 DEF AllButTwo
  <2> HIDE DEF X, p, Z
  <2>3. Fits(S \ {X}, Z \ {X}, C1, mv) /\ \A y : Unled(S, C, y) => Unled(S \ {X}, C1, y)
    BY <2>1, <2>2, FitsCut
  <2> QED
    BY <2>3 DEF X, Z
<1>8. \A j \in 1 .. n : M[j] = C[P[j]] /\ M[j].g \in Gs
  BY AlongGs DEF Plan
<1>9. \A j \in 1 .. n - 1 : M1[j] = C1[Q[j]] /\ Q[j] = IF j <= i THEN P[j] ELSE P[j + 1]
  BY DEF Along, Cut
<1>10. \A j \in 1 .. i - 1 : M1[j].g = M[j].g
  <2>1. ASSUME NEW j \in 1 .. i - 1 PROVE M1[j].g = M[j].g
    <3>1. j \in 1 .. n - 1 /\ j \in 1 .. n /\ j <= i /\ j # i /\ j # i + 1
      BY <1>2
    <3>2. M1[j] = C1[P[j]] /\ C1[P[j]] = C[P[j]]
      BY <1>9, <3>1
    <3> QED
      BY <1>8, <3>1, <3>2
  <2> QED
    BY <2>1
<1>11. \A j \in i + 1 .. n - 1 : M1[j].g = M[j + 1].g
  <2>1. ASSUME NEW j \in i + 1 .. n - 1 PROVE M1[j].g = M[j + 1].g
    <3>1. j \in 1 .. n - 1 /\ j + 1 \in 1 .. n /\ ~(j <= i) /\ j + 1 # i /\ j + 1 # i + 1
      BY <1>2
    <3>2. M1[j] = C1[P[j + 1]] /\ C1[P[j + 1]] = C[P[j + 1]]
      BY <1>9, <3>1
    <3> QED
      BY <1>8, <3>1, <3>2
  <2> QED
    BY <2>1
<1>12. M1[i].g = Xor(M[i].g, Xor(d, M[i + 1].g))
  BY <1>2, <1>8, <1>9
<1> HIDE DEF M, M1
<1>13. Adds(n - 1, M1, Xor(g, d))
  <2>1. Adds(n, M, g)
    BY DEF Plan, M
  <2> QED
    BY <1>2, <1>8, <1>10, <1>11, <1>12, <2>1, AddsCut
<1>14. Xor(g, d) \in Gs
  BY XorTyped DEF Plan
<1> QED
  BY <1>1, <1>7, <1>13, <1>14 DEF Plan, M1

(* A pair is put in: an empty one by itself, or one that takes its share of   *)
(* what another held.                                                        *)
LEMMA PlanIns ==
    ASSUME NEW n, NEW P, NEW C, NEW mv, NEW g, Plan(n, P, C, mv, g), NEW i \in 1 .. n, NEW C1,
           NEW x \in Pairs, \A k \in 1 .. n : P[k] \cap x = {},
           NEW d \in Gs, \A k \in 1 .. n : k # i => C1[P[k]] = C[P[k]],
           C1[P[i]] \in Contents, C1[x] \in Contents, C1[P[i]].tail = x,
           C1[x].tail = C[P[i]].tail, C1[x].split = C[P[i]].split,
           C1[P[i]].g = Xor(C[P[i]].g, d)
    PROVE  /\ Line(n + 1, Ins(n, P, i, x), Along(n + 1, Ins(n, P, i, x), C1))
           /\ PairsOf(n + 1, Ins(n, P, i, x)) = PairsOf(n, P) \cup {x}
           /\ C1[P[i]].split => Hards(n + 1, Ins(n, P, i, x), C1) = Hards(n, P, C) \cup {x}
           /\ ~C1[P[i]].split /\ ~C1[x].split => Hards(n + 1, Ins(n, P, i, x), C1) = Hards(n, P, C)
           /\ Adds(n + 1, Along(n + 1, Ins(n, P, i, x), C1), Xor(Xor(g, d), C1[x].g))
           /\ Xor(Xor(g, d), C1[x].g) \in Gs
           /\ x \notin PairsOf(n, P) /\ x \notin Hards(n, P, C)
<1> DEFINE Q == Ins(n, P, i, x)
           M == Along(n, P, C)
           M1 == Along(n + 1, Q, C1)
<1>1. /\ Line(n + 1, Q, M1) /\ PairsOf(n + 1, Q) = PairsOf(n, P) \cup {x}
      /\ C1[P[i]].split => Hards(n + 1, Q, C1) = Hards(n, P, C) \cup {x}
      /\ ~C1[P[i]].split /\ ~C1[x].split => Hards(n + 1, Q, C1) = Hards(n, P, C)
  BY LineIns DEF Plan
<1>2. n \in Nat \ {0} /\ \A k \in 1 .. n - 1 : k + 1 \in 1 .. n
  BY DEF Plan, Line
<1>3. x \notin PairsOf(n, P) /\ x \notin Hards(n, P, C)
  <2>1. \A k \in 1 .. n : P[k] # x
    BY DEF Pairs
  <2> QED
    BY <1>2, <2>1 DEF PairsOf, Hards
<1>4. \A j \in 1 .. n : M[j] = C[P[j]] /\ M[j].g \in Gs
  BY AlongGs DEF Plan
<1>5. \A j \in 1 .. n + 1 : /\ M1[j] = C1[Q[j]]
                            /\ Q[j] = IF j <= i THEN P[j] ELSE IF j = i + 1 THEN x ELSE P[j - 1]
  BY DEF Along, Ins
<1>6. \A j \in 1 .. i - 1 : M1[j].g = M[j].g
  <2>1. ASSUME NEW j \in 1 .. i - 1 PROVE M1[j].g = M[j].g
    <3>1. j \in 1 .. n + 1 /\ j \in 1 .. n /\ j <= i /\ j # i
      BY <1>2
    <3>2. M1[j] = C1[P[j]] /\ C1[P[j]] = C[P[j]]
      BY <1>5, <3>1
    <3> QED
      BY <1>4, <3>1, <3>2
  <2> QED
    BY <2>1
<1>7. \A j \in i + 2 .. n + 1 : M1[j].g = M[j - 1].g
  <2>1. ASSUME NEW j \in i + 2 .. n + 1 PROVE M1[j].g = M[j - 1].g
    <3>1. j \in 1 .. n + 1 /\ j - 1 \in 1 .. n /\ ~(j <= i) /\ j # i + 1 /\ j - 1 # i
      BY <1>2
    <3>2. M1[j] = C1[P[j - 1]] /\ C1[P[j - 1]] = C[P[j - 1]]
      BY <1>5, <3>1
    <3> QED
      BY <1>4, <3>1, <3>2
  <2> QED
    BY <2>1
<1>8. M1[i].g = Xor(M[i].g, d) /\ M1[i + 1].g = C1[x].g
  <2>1. i \in 1 .. n + 1 /\ i + 1 \in 1 .. n + 1 /\ ~(i + 1 <= i)
    BY <1>2
  <2> QED
    BY <1>4, <1>5, <2>1
<1>9. C1[x].g \in Gs
  BY DEF Contents
<1> HIDE DEF M, M1
<1>10. Adds(n + 1, M1, Xor(Xor(g, d), C1[x].g))
  <2>1. Adds(n, M, g)
    BY DEF Plan, M
  <2> DEFINE e == C1[x].g
  <2>2. e \in Gs /\ M1[i + 1].g = e
    BY <1>8, <1>9
  <2> HIDE DEF e
  <2>3. Adds(n + 1, M1, Xor(Xor(g, d), e))
    BY <1>2, <1>4, <1>6, <1>7, <1>8, <2>1, <2>2, AddsIns
  <2> QED
    BY <2>3 DEF e
<1>11. Xor(Xor(g, d), C1[x].g) \in Gs
  BY <1>9, XorTyped DEF Plan
<1> QED
  BY <1>1, <1>3, <1>10, <1>11 DEF M1

(* ... when a pair is split, with the deltas shared out;                      *)
LEMMA PlanSplit ==
    ASSUME NEW n, NEW P, NEW C, NEW mv, NEW g, Plan(n, P, C, mv, g), NEW i \in 1 .. n, NEW C1,
           NEW x \in Pairs, \A k \in 1 .. n : P[k] \cap x = {},
           NEW d \in Gs, \A k \in 1 .. n : k # i => C1[P[k]] = C[P[k]],
           C1[P[i]] \in Contents, C1[x] \in Contents, C1[P[i]].tail = x, C1[P[i]].split,
           C1[x].tail = C[P[i]].tail, C1[x].split = C[P[i]].split,
           C1[P[i]].g = Xor(C[P[i]].g, d), C1[x].g = d,
           Shares(C[P[i]], C1[P[i]], C1[x]), Still(mv, P[i]), ~Blank(C[P[i]])
    PROVE  /\ Plan(n + 1, Ins(n, P, i, x), C1, mv, g)
           /\ PairsOf(n + 1, Ins(n, P, i, x)) = PairsOf(n, P) \cup {x}
           /\ Hards(n + 1, Ins(n, P, i, x), C1) = Hards(n, P, C) \cup {x}
           /\ \A y : Unled(PairsOf(n, P), C, y) => Unled(PairsOf(n + 1, Ins(n, P, i, x)), C1, y)
<1> DEFINE Q == Ins(n, P, i, x)
           S == PairsOf(n, P)
           Z == Hards(n, P, C)
<1>1. /\ Line(n + 1, Q, Along(n + 1, Q, C1)) /\ PairsOf(n + 1, Q) = S \cup {x}
      /\ Hards(n + 1, Q, C1) = Z \cup {x}
      /\ Adds(n + 1, Along(n + 1, Q, C1), Xor(Xor(g, d), C1[x].g))
      /\ x \notin S
  BY PlanIns
<1>2. Xor(Xor(g, d), C1[x].g) = g /\ g \in Gs
  BY XorMoves DEF Plan
<1>3. Fits(S \cup {x}, Z \cup {x}, C1, mv) /\ \A y : Unled(S, C, y) => Unled(S \cup {x}, C1, y)
  <2> DEFINE p == P[i]
  <2>1. p \in S /\ Fits(S, Z, C, mv)
    BY DEF PairsOf, Plan
  <2>2. AllBut(S, p, C, C1)
    BY DEF PairsOf, AllBut
  <2>3. Shares(C[p], C1[p], C1[x]) /\ Still(mv, p) /\ ~Blank(C[p]) /\ x \notin S
    BY <1>1
  <2> HIDE DEF p, S, Z
  <2> QED
    BY <2>1, <2>2, <2>3, FitsSplit
<1> HIDE DEF Q, S, Z
<1> QED
  BY <1>1, <1>2, <1>3 DEF Plan, Q, S, Z

(* ... when a new pair without entries is put in.                             *)
LEMMA PlanLink ==
    ASSUME NEW n, NEW P, NEW C, NEW mv, NEW g, Plan(n, P, C, mv, g), NEW i \in 1 .. n, NEW C1,
           NEW x \in Pairs, \A k \in 1 .. n : P[k] \cap x = {},
           NEW d \in Gs, \A k \in 1 .. n : k # i => C1[P[k]] = C[P[k]],
           C1[P[i]] \in Contents, C1[x] \in Contents, C1[P[i]].tail = x, ~C1[P[i]].split,
           C1[x].tail = C[P[i]].tail, ~C[P[i]].split, Blank(C1[x]),
           C1[P[i]].g = Xor(C[P[i]].g, d), C1[P[i]].ents = C[P[i]].ents
    PROVE  /\ Plan(n + 1, Ins(n, P, i, x), C1, mv, Xor(Xor(g, d), C1[x].g))
           /\ PairsOf(n + 1, Ins(n, P, i, x)) = PairsOf(n, P) \cup {x}
           /\ Hards(n + 1, Ins(n, P, i, x), C1) = Hards(n, P, C)
           /\ Unled(PairsOf(n + 1, Ins(n, P, i, x)), C1, x)
           /\ x \notin PairsOf(n, P) /\ x \notin Hards(n, P, C)
<1> DEFINE Q == Ins(n, P, i, x)
           S == PairsOf(n, P)
           Z == Hards(n, P, C)
<1>1. C1[x].split = C[P[i]].split /\ C[P[i]].split = FALSE /\ C1[P[i]].split = FALSE
  <2>1. C1[x].split \in BOOLEAN /\ C1[P[i]].split \in BOOLEAN
    BY DEF Contents
  <2>2. C[P[i]].split \in BOOLEAN
    <3>1. \A k \in 1 .. n : C[P[k]] \in Contents
      BY LineAlong, Zenon DEF Plan
    <3> QED
      BY <3>1 DEF Contents
  <2> QED
    BY <2>1, <2>2 DEF Blank
<1>2. /\ Line(n + 1, Q, Along(n + 1, Q, C1)) /\ PairsOf(n + 1, Q) = S \cup {x}
      /\ Hards(n + 1, Q, C1) = Z
      /\ Adds(n + 1, Along(n + 1, Q, C1), Xor(Xor(g, d), C1[x].g))
      /\ Xor(Xor(g, d), C1[x].g) \in Gs
      /\ x \notin S /\ x \notin Z
  BY <1>1, PlanIns
<1>3. Fits(S \cup {x}, Z, C1, mv) /\ Unled(S \cup {x}, C1, x)
  <2>1. Fits(S, Z, C, mv)
    BY DEF Plan
  <2>2. \A q \in S : C1[q].ents = C[q].ents /\ C1[q].split = C[q].split
    BY <1>1 DEF PairsOf
  <2> HIDE DEF S, Z
  <2> QED
    BY <1>2, <2>1, <2>2, FitsIns
<1> HIDE DEF Q, S, Z
<1> QED
  BY <1>2, <1>3 DEF Plan, Q, S, Z

-----------------------------------------------------------------------------
(* Pairs that are split one off another are all read with the first.          *)
LEMMA ChainAll ==
    ASSUME NEW b, NEW n, NEW P, Hard(b, n, P), NEW i \in 1 .. n, NEW j \in i .. n,
           \A l \in i .. j - 1 : Fetch(b, P[l]).m.split
    PROVE  Fetch(b, P[j]) \in Range(Chain(b, P[i]))
<1>1. PICK e \in i .. n : ~Fetch(b, P[e]).m.split /\ \A k \in i .. e - 1 : Fetch(b, P[k]).m.split
  BY ChainEnds
<1> DEFINE c == [k \in 1 .. e - i + 1 |-> Fetch(b, P[i + k - 1])]
<1>2. Chain(b, P[i]) = c
  BY <1>1, ChainIs
<1>3. n \in Nat /\ i \in Nat /\ e \in Nat /\ j \in Nat
  BY DEF Hard
<1>4. j <= e
  BY <1>1, <1>3
<1>5. j - i + 1 \in 1 .. e - i + 1 /\ i + (j - i + 1) - 1 = j
  BY <1>3, <1>4
<1>6. c[j - i + 1] = Fetch(b, P[j]) /\ j - i + 1 \in DOMAIN c
  BY <1>5
<1> QED
  BY <1>2, <1>6 DEF Range

-----------------------------------------------------------------------------
(* How a path goes on from node y to node x. *)
RootNode == [path |-> << >>, ent |-> Dir(Root)]
Extends(b, mv, y, x) ==
    /\ y.ent.type = "dir"
    /\ \E e \in Content(b, mv, y.ent.pair) : x = [path |-> Append(y.path, e[1]), ent |-> e[2]]

(* A level is what the paths of the one before go on to.                      *)
LEMMA LevelIs ==
    ASSUME NEW b, NEW mv, NEW X, NEW x
    PROVE  x \in Level(b, mv, X) <=> \E y \in X : Extends(b, mv, y, x)
  BY DEF Level, Extends

(* The tree, level by level. *)
Levels(b, mv, f, D) ==
    /\ f[0] = {RootNode}
    /\ \A k \in 0 .. D - 1 : f[k + 1] = f[k] \cup Level(b, mv, f[k])
    /\ \A k \in 0 .. D : f[k] \subseteq f[D]

(* Levels only add.                                                           *)
LEMMA NodesLevels ==
    ASSUME NEW b, NEW mv, Cardinality(Blocks) \in Nat
    PROVE  \E f : Levels(b, mv, f, Cardinality(Blocks) \div 2) /\ Nodes(b, mv) = f[Cardinality(Blocks) \div 2]
<1> DEFINE D == Cardinality(Blocks) \div 2
<1>1. D \in Nat
  OBVIOUS
<1> HIDE DEF D
<1>2. PICK f : f = Deeper(b, mv, f, D) /\ Nodes(b, mv) = f[D]
  BY NodesIs DEF D
<1>3. f[0] = {RootNode}
  BY <1>1, <1>2 DEF Deeper, RootNode
<1>4. ASSUME NEW k \in 0 .. D - 1 PROVE f[k + 1] = f[k] \cup Level(b, mv, f[k])
  <2>1. k + 1 \in 0 .. D /\ k + 1 # 0 /\ (k + 1) - 1 = k
    BY <1>1
  <2> QED
    BY <1>2, <2>1 DEF Deeper
<1>5. ASSUME NEW k \in 0 .. D PROVE f[k] \subseteq f[D]
  <2> DEFINE Up == {l \in 0 .. D : k + l <= D => f[k] \subseteq f[k + l]}
  <2>1. 0 \in Up
    BY <1>1
  <2>2. ASSUME NEW l \in 0 .. D - 1, l \in Up PROVE l + 1 \in Up
    <3>1. CASE k + (l + 1) <= D
      <4>1. k + l \in 0 .. D - 1 /\ k + l <= D /\ k + (l + 1) = (k + l) + 1
        BY <1>1, <3>1
      <4>2. f[k] \subseteq f[k + l]
        BY <2>2, <4>1
      <4>3. f[k + l] \subseteq f[(k + l) + 1]
        BY <1>4, <4>1
      <4> QED
        BY <1>1, <4>1, <4>2, <4>3
    <3>2. CASE ~(k + (l + 1) <= D)
      BY <1>1, <3>2
    <3> QED
      BY <3>1, <3>2
  <2>3. \A l \in 0 .. D : l \in Up
    <3> HIDE DEF Up
    <3> QED
      BY <1>1, <2>1, <2>2, UpTo
  <2>4. D - k \in 0 .. D /\ k + (D - k) = D
    BY <1>1
  <2> QED
    BY <2>3, <2>4
<1> QED
  BY <1>2, <1>3, <1>4, <1>5 DEF Levels, D

(* Every path but that of the root goes on from another.                      *)
LEMMA NodesDown ==
    ASSUME NEW b, NEW mv, Cardinality(Blocks) \in Nat
    PROVE  /\ RootNode \in Nodes(b, mv)
           /\ \A x \in Nodes(b, mv) : x = RootNode \/ \E y \in Nodes(b, mv) : Extends(b, mv, y, x)
<1> DEFINE D == Cardinality(Blocks) \div 2
<1>1. D \in Nat
  OBVIOUS
<1> HIDE DEF D
<1>2. PICK f : Levels(b, mv, f, D) /\ Nodes(b, mv) = f[D]
  BY NodesLevels DEF D
<1> DEFINE Good == {k \in 0 .. D : /\ RootNode \in f[k]
                                   /\ \A x \in f[k] : x = RootNode \/ \E y \in f[k] : Extends(b, mv, y, x)}
<1>3. 0 \in Good
  BY <1>1, <1>2 DEF Levels
<1>4. ASSUME NEW k \in 0 .. D - 1, k \in Good PROVE k + 1 \in Good
  <2>1. k + 1 \in 0 .. D
    BY <1>1
  <2>2. \A x \in Level(b, mv, f[k]) : \E y \in f[k] : Extends(b, mv, y, x)
    BY LevelIs
  <2> QED
    BY <1>2, <1>4, <2>1, <2>2 DEF Levels
<1>5. D \in Good
  <2> HIDE DEF Good
  <2>1. \A k \in 0 .. D : k \in Good
    BY <1>1, <1>3, <1>4, UpTo
  <2> QED
    BY <1>1, <2>1
<1> QED
  BY <1>2, <1>5

(* What is so of the root, and goes on along every path, is so of all nodes.  *)
LEMMA NodesInduct ==
    ASSUME NEW b, NEW mv, Cardinality(Blocks) \in Nat, NEW T, RootNode \in T,
           \A y \in T \cap Nodes(b, mv) : \A x \in Nodes(b, mv) : Extends(b, mv, y, x) => x \in T
    PROVE  Nodes(b, mv) \subseteq T
<1> DEFINE D == Cardinality(Blocks) \div 2
<1>1. D \in Nat
  OBVIOUS
<1> HIDE DEF D
<1>2. PICK f : Levels(b, mv, f, D) /\ Nodes(b, mv) = f[D]
  BY NodesLevels DEF D
<1> DEFINE Good == {k \in 0 .. D : f[k] \subseteq T}
<1>3. 0 \in Good
  BY <1>1, <1>2 DEF Levels
<1>4. ASSUME NEW k \in 0 .. D - 1, k \in Good PROVE k + 1 \in Good
  <2>1. k + 1 \in 0 .. D /\ k \in 0 .. D
    BY <1>1
  <2>2. f[k] \subseteq f[D] /\ f[k + 1] \subseteq f[D]
    BY <1>2, <2>1 DEF Levels
  <2>3. ASSUME NEW x \in Level(b, mv, f[k]) PROVE x \in T
    <3>1. PICK y \in f[k] : Extends(b, mv, y, x)
      BY LevelIs, <2>3
    <3>2. x \in f[k + 1]
      BY <1>2, <2>3 DEF Levels
    <3> QED
      BY <1>2, <1>4, <2>2, <3>1, <3>2
  <2> QED
    BY <1>2, <1>4, <2>1, <2>3 DEF Levels
<1>5. D \in Good
  <2> HIDE DEF Good
  <2>1. \A k \in 0 .. D : k \in Good
    BY <1>1, <1>3, <1>4, UpTo
  <2> QED
    BY <1>1, <2>1
<1> QED
  BY <1>2, <1>5

(* The directories of some nodes. *)
DirPairs(X) == {x.ent.pair : x \in {y \in X : y.ent.type = "dir"}}
Shut(b, mv, X) == \A y \in X : \A x : Extends(b, mv, y, x) /\ x.ent.type = "dir" => x.ent.pair \in DirPairs(X)

(* Every directory is found where what it holds is found too.                 *)
Deep(b, mv, X) == \A y \in X : y.ent.type = "dir" =>
    \E z \in X : /\ z.ent.type = "dir" /\ z.ent.pair = y.ent.pair
                 /\ \A x : Extends(b, mv, z, x) => x \in X

(* With no more directories than levels, a level adds none, nor do those     *)
(* below it: the walk down the tree is deep enough.                          *)
LEMMA NodesFull ==
    ASSUME NEW b, NEW mv, Cardinality(Blocks) \in Nat, NEW Q, IsFiniteSet(Q),
           DirPairs(Nodes(b, mv)) \subseteq Q, Cardinality(Q) <= Cardinality(Blocks) \div 2
    PROVE  Shut(b, mv, Nodes(b, mv)) /\ Deep(b, mv, Nodes(b, mv))
<1> DEFINE D == Cardinality(Blocks) \div 2
<1>1. D \in Nat
  OBVIOUS
<1> HIDE DEF D
<1>2. PICK f : Levels(b, mv, f, D) /\ Nodes(b, mv) = f[D]
  BY NodesLevels DEF D
<1> DEFINE R(k) == DirPairs(f[k])
<1>3. \A k \in 0 .. D : R(k) \subseteq Q
  BY <1>2 DEF Levels, DirPairs
<1>4. ASSUME NEW k \in 0 .. D - 1, Shut(b, mv, f[k]) PROVE Shut(b, mv, f[k + 1])
  <2>1. f[k + 1] = f[k] \cup Level(b, mv, f[k])
    BY <1>2 DEF Levels
  <2>2. \A y \in f[k + 1] : y.ent.type = "dir" => y.ent.pair \in R(k)
    <3>1. ASSUME NEW y \in Level(b, mv, f[k]), y.ent.type = "dir" PROVE y.ent.pair \in R(k)
      BY <1>4, <3>1, LevelIs DEF Shut
    <3> QED
      BY <2>1, <3>1 DEF DirPairs
  <2>3. ASSUME NEW y \in f[k + 1], NEW x, Extends(b, mv, y, x), x.ent.type = "dir" PROVE x.ent.pair \in R(k)
    <3>1. PICK z \in f[k] : z.ent.type = "dir" /\ z.ent.pair = y.ent.pair
      BY <2>2, <2>3 DEF Extends, DirPairs
    <3>2. PICK e \in Content(b, mv, y.ent.pair) : x = [path |-> Append(y.path, e[1]), ent |-> e[2]]
      BY <2>3 DEF Extends
    <3> DEFINE x1 == [path |-> Append(z.path, e[1]), ent |-> e[2]]
    <3>3. Extends(b, mv, z, x1) /\ x1.ent = x.ent
      BY <3>1, <3>2 DEF Extends
    <3> HIDE DEF x1
    <3> QED
      BY <1>4, <2>3, <3>3 DEF Shut
  <2>4. R(k) \subseteq R(k + 1)
    BY <2>1 DEF DirPairs
  <2> QED
    BY <2>3, <2>4 DEF Shut
<1>5. D - 1 \in 0 .. D - 1 /\ (D - 1) + 1 = D
  <2>1. f[0] = {RootNode} /\ RootNode.ent.type = "dir" /\ f[0] \subseteq f[D]
    BY <1>1, <1>2 DEF Levels, RootNode, Dir
  <2>2. RootNode.ent.pair \in R(D)
    BY <2>1 DEF DirPairs
  <2>3. Q # {}
    BY <1>1, <1>3, <2>2
  <2>4. Cardinality(Q) \in Nat /\ Cardinality(Q) # 0 /\ Cardinality(Q) <= D
    BY <2>3, FS_EmptySet, FS_CardinalityType DEF D
  <2> QED
    BY <1>1, <2>4
<1>6. SUFFICES ASSUME ~Shut(b, mv, f[D - 1]) PROVE FALSE
  <2> SUFFICES ASSUME Shut(b, mv, f[D - 1]) PROVE Shut(b, mv, f[D]) /\ Deep(b, mv, f[D])
    BY <1>2
  <2>1. f[D] = f[D - 1] \cup Level(b, mv, f[D - 1])
    BY <1>2, <1>5 DEF Levels
  <2>2. Shut(b, mv, f[D])
    BY <1>4, <1>5
  <2>3. \A z \in f[D - 1] : \A x : Extends(b, mv, z, x) => x \in f[D]
    BY <2>1, LevelIs
  <2>4. ASSUME NEW y \in f[D], y.ent.type = "dir"
        PROVE  \E z \in f[D - 1] : z.ent.type = "dir" /\ z.ent.pair = y.ent.pair
    <3>1. CASE y \in Level(b, mv, f[D - 1])
      <4>1. y.ent.pair \in DirPairs(f[D - 1])
        BY <2>4, <3>1, LevelIs DEF Shut
      <4> QED
        BY <4>1 DEF DirPairs
    <3> QED
      BY <2>1, <2>4, <3>1
  <2> QED
    BY <2>1, <2>2, <2>3, <2>4 DEF Deep
<1>7. ASSUME NEW k \in 0 .. D - 1 PROVE ~Shut(b, mv, f[k])
  <2> DEFINE Rest == {l \in 0 .. D - 1 : k + l <= D - 1 => Shut(b, mv, f[k + l])}
  <2> SUFFICES ASSUME Shut(b, mv, f[k]) PROVE FALSE
    OBVIOUS
  <2>1. 0 \in Rest
    BY <1>1, <1>5
  <2>2. ASSUME NEW l \in 0 .. (D - 1) - 1, l \in Rest PROVE l + 1 \in Rest
    <3>1. CASE k + (l + 1) <= D - 1
      <4>1. k + l \in 0 .. D - 1 /\ k + l <= D - 1 /\ k + (l + 1) = (k + l) + 1
        BY <1>1, <3>1
      <4>2. Shut(b, mv, f[k + l])
        BY <2>2, <4>1
      <4>3. Shut(b, mv, f[(k + l) + 1])
        BY <1>4, <4>1, <4>2
      <4> QED
        BY <1>1, <4>1, <4>3
    <3>2. CASE ~(k + (l + 1) <= D - 1)
      BY <1>1, <3>2
    <3> QED
      BY <3>1, <3>2
  <2>3. \A l \in 0 .. D - 1 : l \in Rest
    <3>1. D - 1 \in Nat
      BY <1>1, <1>5
    <3> HIDE DEF Rest
    <3> QED
      BY <2>1, <2>2, <3>1, UpTo
  <2>4. (D - 1) - k \in 0 .. D - 1 /\ k + ((D - 1) - k) = D - 1
    BY <1>1
  <2> QED
    BY <1>6, <2>3, <2>4
<1> DEFINE Many == {k \in 0 .. D : IsFiniteSet(R(k)) /\ Cardinality(R(k)) >= k + 1}
<1>8. 0 \in Many
  <2>1. f[0] = {RootNode}
    BY <1>2 DEF Levels
  <2>2. RootNode.ent.type = "dir" /\ RootNode.ent.pair = Root
    BY DEF RootNode, Dir
  <2>3. R(0) = {Root}
    BY <2>1, <2>2 DEF DirPairs
  <2>4. IsFiniteSet({Root}) /\ Cardinality({Root}) = 1
    BY FS_Singleton
  <2>5. 0 \in 0 .. D
    BY <1>1
  <2>6. IsFiniteSet(DirPairs(f[0])) /\ Cardinality(DirPairs(f[0])) = 1
    BY <2>3, <2>4
  <2> QED
    BY <2>5, <2>6
<1>9. ASSUME NEW k \in 0 .. D - 1, k \in Many PROVE k + 1 \in Many
  <2>1. k \in 0 .. D /\ k + 1 \in 0 .. D /\ k \in Nat
    BY <1>1
  <2>2. f[k + 1] = f[k] \cup Level(b, mv, f[k])
    BY <1>2 DEF Levels
  <2> DEFINE Adds1(y, x) == Extends(b, mv, y, x) /\ x.ent.type = "dir" /\ x.ent.pair \notin R(k)
  <2>3. PICK y \in f[k] : \E x : Adds1(y, x)
    BY <1>7, <2>1 DEF Shut
  <2>4. PICK x : Adds1(y, x)
    BY <2>3
  <2>5. R(k) \cup {x.ent.pair} \subseteq R(k + 1)
    <3>1. x \in f[k + 1]
      BY <2>2, <2>4, LevelIs
    <3> QED
      BY <2>2, <2>4, <3>1 DEF DirPairs
  <2>6. IsFiniteSet(R(k + 1))
    BY <1>3, <2>1, FS_Subset
  <2> HIDE DEF R
  <2>7. /\ IsFiniteSet(R(k) \cup {x.ent.pair})
        /\ Cardinality(R(k) \cup {x.ent.pair}) = Cardinality(R(k)) + 1
    BY <1>9, <2>4, FS_AddElement
  <2>8. Cardinality(R(k) \cup {x.ent.pair}) <= Cardinality(R(k + 1))
    BY <2>5, <2>6, FS_Subset
  <2>9. Cardinality(R(k)) \in Nat /\ Cardinality(R(k + 1)) \in Nat
    BY <1>9, <2>6, FS_CardinalityType
  <2> QED
    BY <1>9, <2>1, <2>6, <2>7, <2>8, <2>9
<1>10. D \in Many
  <2> HIDE DEF Many
  <2>1. \A k \in 0 .. D : k \in Many
    BY <1>1, <1>8, <1>9, UpTo
  <2> QED
    BY <1>1, <2>1
<1>11. R(D) \subseteq Q /\ IsFiniteSet(R(D)) /\ Cardinality(R(D)) >= D + 1
  BY <1>1, <1>3, <1>10
<1> HIDE DEF R
<1>12. Cardinality(R(D)) <= Cardinality(Q) /\ Cardinality(R(D)) \in Nat /\ Cardinality(Q) \in Nat
  BY <1>11, FS_Subset, FS_CardinalityType
<1>13. Cardinality(Q) <= D
  BY DEF D
<1> QED
  BY <1>1, <1>11, <1>12, <1>13

(* A thread has at most half as many pairs as there are blocks.               *)
LEMMA LineHalf ==
    ASSUME NEW n, NEW P, NEW M, Line(n, P, M)
    PROVE  /\ IsFiniteSet(PairsOf(n, P)) /\ Cardinality(PairsOf(n, P)) <= Cardinality(Blocks) \div 2
           /\ Cardinality(Blocks) \in Nat
<1>1. n \in Nat /\ n >= 1 /\ Cardinality(Blocks) \in Nat /\ IsFiniteSet(Blocks)
  <2>1. n \in Nat /\ n >= 1
    BY DEF Line
  <2> QED
    BY <2>1, LineShort, ThreadAssumption
<1> DEFINE U(k) == UNION {P[i] : i \in 1 .. k}
           V(k) == {P[i] : i \in 1 .. k}
           Good == {k \in 0 .. n : /\ IsFiniteSet(U(k)) /\ Cardinality(U(k)) = 2 * k
                                   /\ IsFiniteSet(V(k)) /\ Cardinality(V(k)) <= k}
<1>2. 0 \in Good
  <2>1. U(0) = {} /\ V(0) = {}
    OBVIOUS
  <2> QED
    BY <1>1, <2>1, FS_EmptySet
<1>3. ASSUME NEW k \in 0 .. n - 1, k \in Good PROVE k + 1 \in Good
  <2>1. k + 1 \in 0 .. n /\ k \in Nat /\ k + 1 \in 1 .. n /\ 1 .. k + 1 = (1 .. k) \cup {k + 1}
    BY <1>1
  <2>2. PICK a, c : a # c /\ P[k + 1] = {a, c}
    BY <2>1 DEF Line, Pairs
  <2>3. U(k + 1) = U(k) \cup {a} \cup {c} /\ V(k + 1) = V(k) \cup {P[k + 1]}
    BY <2>1, <2>2
  <2>4. \A i \in 1 .. k : P[i] \cap P[k + 1] = {}
    BY <1>1, <2>1 DEF Line
  <2>5. a \notin U(k) /\ c \notin U(k) \cup {a}
    BY <2>2, <2>4
  <2>6. IsFiniteSet(U(k)) /\ Cardinality(U(k)) = 2 * k /\ IsFiniteSet(V(k)) /\ Cardinality(V(k)) <= k
    BY <1>3
  <2>7. Cardinality(V(k)) \in Nat
    BY <2>6, FS_CardinalityType
  <2> HIDE DEF U, V
  <2>8. IsFiniteSet(U(k) \cup {a}) /\ Cardinality(U(k) \cup {a}) = 2 * k + 1
    BY <2>5, <2>6, FS_AddElement
  <2>9. IsFiniteSet(U(k + 1)) /\ Cardinality(U(k + 1)) = 2 * (k + 1)
    <3>1. IsFiniteSet(U(k) \cup {a} \cup {c}) /\ Cardinality(U(k) \cup {a} \cup {c}) = (2 * k + 1) + 1
      BY <2>5, <2>8, FS_AddElement
    <3>2. (2 * k + 1) + 1 = 2 * (k + 1)
      BY <2>1
    <3> QED
      BY <2>3, <3>1, <3>2
  <2>10. IsFiniteSet(V(k + 1)) /\ Cardinality(V(k + 1)) <= k + 1
    BY <2>1, <2>3, <2>6, <2>7, FS_AddElement
  <2> QED
    BY <2>1, <2>9, <2>10
<1>4. n \in Good
  <2> HIDE DEF Good
  <2>1. \A k \in 0 .. n : k \in Good
    BY <1>1, <1>2, <1>3, UpTo
  <2> QED
    BY <1>1, <2>1
<1>5. U(n) \subseteq Blocks
  BY DEF Line, Pairs
<1>6. IsFiniteSet(U(n)) /\ Cardinality(U(n)) = 2 * n /\ IsFiniteSet(V(n)) /\ Cardinality(V(n)) <= n
  BY <1>4
<1>7. V(n) = PairsOf(n, P)
  BY DEF PairsOf
<1> HIDE DEF U, V
<1>8. 2 * n <= Cardinality(Blocks)
  BY <1>1, <1>5, <1>6, FS_Subset
<1>9. Cardinality(V(n)) \in Nat
  BY <1>6, FS_CardinalityType
<1>10. n <= Cardinality(Blocks) \div 2
  BY <1>1, <1>8
<1> QED
  BY <1>1, <1>6, <1>7, <1>9, <1>10

-----------------------------------------------------------------------------
(* A tree of which no entry is hidden, on a thread in order. *)
InOrder(b, n, P, C) == /\ b \in Disks /\ Reads(b, n, P, C) /\ Line(n, P, Along(n, P, C))
                       /\ Fits(PairsOf(n, P), Hards(n, P, C), C, {})

(* Where a path ends in a directory whose names the chain of its pairs has; and *)
(* the places where a directory starts.                                       *)
InChain(n, P, C, i, j) == i \in 1 .. n /\ j \in i .. n /\ \A l \in i .. j - 1 : C[P[l]].split
Starts(n, P, C, i) == i \in 1 .. n /\ (i = 1 \/ ~C[P[i - 1]].split)

(* A thread in order is one.                                                  *)
LEMMA InOrderIs ==
    ASSUME NEW b, NEW n, NEW P, NEW C, InOrder(b, n, P, C)
    PROVE  /\ Hard(b, n, P) /\ P[1] = Root /\ n \in Nat \ {0} /\ DirsOnLine(b, n, P)
           /\ Cardinality(Blocks) \in Nat /\ Threaded(b, n, P)
           /\ \A k \in 1 .. n : Fetch(b, P[k]).m = C[P[k]] /\ Fetch(b, P[k]).pair = P[k]
<1>1. Threaded(b, n, P) /\ Line(n, P, Along(n, P, C)) /\ n \in Nat \ {0} /\ P[1] = Root
  BY ReadsThread, LineAlong DEF InOrder
<1>2. \A k \in 1 .. n : Fetch(b, P[k]).m = C[P[k]] /\ Fetch(b, P[k]).pair = P[k]
  BY FetchSettled DEF InOrder, Reads
<1>3. Cardinality(Blocks) \in Nat /\ n <= Cardinality(Blocks)
  BY <1>1, LineShort
<1>4. \A k \in 1 .. n - 1 : k \in 1 .. n /\ C[P[k]].tail = P[k + 1]
  BY <1>1, LineTails
<1>5. n \in 1 .. n /\ ~C[P[n]].split
  <2>1. C[P[n]].split = FALSE
    BY <1>1, LineAlong
  <2>2. n \in 1 .. n
    BY <1>1
  <2> QED
    BY <2>1, <2>2
<1>6. Hard(b, n, P)
  BY <1>1, <1>2, <1>3, <1>4, <1>5 DEF Hard
<1>7. DirsOnLine(b, n, P)
  BY <1>2 DEF DirsOnLine, InOrder, Fits, Aims, PairsOf
<1> QED
  BY <1>1, <1>2, <1>3, <1>6, <1>7

(* No two directories share a pair.                                           *)
LEMMA HeadOnce ==
    ASSUME NEW n \in Nat, NEW P, NEW C, NEW i, NEW k, NEW j, Starts(n, P, C, i), Starts(n, P, C, k),
           InChain(n, P, C, i, j), InChain(n, P, C, k, j)
    PROVE  i = k
<1>1. i \in 1 .. n /\ k \in 1 .. n /\ i <= j /\ k <= j /\ j \in Nat
  BY DEF InChain
<1>2. CASE i < k
  <2>1. k # 1 /\ k - 1 \in i .. j - 1
    BY <1>1, <1>2
  <2> QED
    BY <2>1 DEF Starts, InChain
<1>3. CASE k < i
  <2>1. i # 1 /\ i - 1 \in k .. j - 1
    BY <1>1, <1>3
  <2> QED
    BY <2>1 DEF Starts, InChain
<1> QED
  BY <1>1, <1>2, <1>3

(* Every directory on a path is where one starts on the thread.               *)
LEMMA NodeOn ==
    ASSUME NEW b, NEW n, NEW P, NEW C, InOrder(b, n, P, C), NEW x \in Nodes(b, {}), x.ent.type = "dir"
    PROVE  \E i : Starts(n, P, C, i) /\ P[i] = x.ent.pair
<1>1. Hard(b, n, P) /\ P[1] = Root /\ n \in Nat \ {0} /\ DirsOnLine(b, n, P)
  BY InOrderIs
<1>2. OnPath(b, n, P, {}, x.ent.pair)
  BY <1>1, NodesFound
<1>3. \A k \in 1 .. n : Fetch(b, P[k]).m = C[P[k]]
  BY InOrderIs
<1>4. CASE x.ent.pair = Root
  BY <1>1, <1>4 DEF Starts
<1>5. ASSUME NEW k \in 1 .. n, NEW a \in DirsOf(Fetch(b, P[k]), {}), Fetch(b, P[k]).m.ents[a].pair = x.ent.pair
      PROVE  \E i : Starts(n, P, C, i) /\ P[i] = x.ent.pair
  <2>1. a \in Names /\ C[P[k]].ents[a].type = "dir" /\ C[P[k]].ents[a].pair = x.ent.pair
    BY <1>3, <1>5 DEF DirsOf, Has
  <2>2. x.ent.pair \in PairsOf(n, P) /\ x.ent.pair \notin Hards(n, P, C)
    BY <2>1 DEF InOrder, Fits, Aims, PairsOf
  <2>3. PICK i \in 1 .. n : P[i] = x.ent.pair
    BY <2>2 DEF PairsOf
  <2>4. ASSUME i # 1, C[P[i - 1]].split PROVE FALSE
    <3>1. i - 1 \in 1 .. n - 1 /\ (i - 1) + 1 = i
      BY <1>1, <2>4
    <3>2. P[(i - 1) + 1] \in Hards(n, P, C)
      BY <2>4, <3>1 DEF Hards
    <3> QED
      BY <2>2, <2>3, <3>1, <3>2
  <2> QED
    BY <2>3, <2>4 DEF Starts
<1> QED
  BY <1>2, <1>4, <1>5 DEF OnPath

(* A path goes on by an entry of one of the directory's pairs,                *)
LEMMA ExtendsIs ==
    ASSUME NEW b, NEW n, NEW P, NEW C, InOrder(b, n, P, C), NEW y, NEW i \in 1 .. n, y.ent.pair = P[i],
           NEW x, Extends(b, {}, y, x)
    PROVE  \E j \in 1 .. n : \E a \in Names :
              /\ InChain(n, P, C, i, j) /\ x.path = Append(y.path, a) /\ x.ent = C[P[j]].ents[a]
              /\ x.ent # NoEnt
<1>1. Hard(b, n, P) /\ n \in Nat \ {0} /\ \A k \in 1 .. n : Fetch(b, P[k]).m = C[P[k]]
  BY InOrderIs
<1>2. PICK e \in Content(b, {}, P[i]) : x = [path |-> Append(y.path, e[1]), ent |-> e[2]]
  BY DEF Extends
<1>3. PICK h \in Range(Chain(b, P[i])) : e \in {<<nm, h.m.ents[nm]>> : nm \in Has(h, {})}
  BY <1>2 DEF Content
<1>4. PICK nm \in Has(h, {}) : e = <<nm, h.m.ents[nm]>>
  BY <1>3
<1>5. PICK j \in i .. n : h = Fetch(b, P[j]) /\ \A l \in i .. j - 1 : Fetch(b, P[l]).m.split
  BY <1>1, <1>3, ChainFound
<1>6. j \in 1 .. n /\ \A l \in i .. j - 1 : l \in 1 .. n
  BY <1>1
<1>7. InChain(n, P, C, i, j)
  BY <1>1, <1>5, <1>6 DEF InChain
<1>8. nm \in Names /\ h.m.ents[nm] # NoEnt /\ h.m.ents[nm] = C[P[j]].ents[nm]
  BY <1>1, <1>4, <1>5, <1>6 DEF Has
<1>9. x.path = Append(y.path, nm) /\ x.ent = C[P[j]].ents[nm]
  BY <1>2, <1>4, <1>8
<1> QED
  BY <1>6, <1>7, <1>8, <1>9

(* and by any such entry.                                                     *)
LEMMA ExtendsBy ==
    ASSUME NEW b, NEW n, NEW P, NEW C, InOrder(b, n, P, C), NEW y, y.ent.type = "dir", NEW i, y.ent.pair = P[i],
           NEW j, InChain(n, P, C, i, j), NEW a \in Names, C[P[j]].ents[a] # NoEnt
    PROVE  Extends(b, {}, y, [path |-> Append(y.path, a), ent |-> C[P[j]].ents[a]])
<1>1. Hard(b, n, P) /\ n \in Nat \ {0} /\ \A k \in 1 .. n : Fetch(b, P[k]).m = C[P[k]]
  BY InOrderIs
<1>2. i \in 1 .. n /\ j \in i .. n /\ j \in 1 .. n /\ \A l \in i .. j - 1 : l \in 1 .. n
  BY <1>1 DEF InChain
<1>3. \A l \in i .. j - 1 : Fetch(b, P[l]).m.split
  BY <1>1, <1>2 DEF InChain
<1>4. Fetch(b, P[j]) \in Range(Chain(b, P[i]))
  BY <1>1, <1>2, <1>3, ChainAll
<1>5. a \in Has(Fetch(b, P[j]), {})
  BY <1>1, <1>2 DEF Has, MoveHere
<1>6. <<a, C[P[j]].ents[a]>> \in Content(b, {}, P[i])
  BY <1>1, <1>2, <1>4, <1>5 DEF Content
<1> DEFINE e == <<a, C[P[j]].ents[a]>>
<1>7. e[1] = a /\ e[2] = C[P[j]].ents[a]
  OBVIOUS
<1> QED
  BY <1>6, <1>7 DEF Extends

(* A directory has one path.                                                  *)
LEMMA OnePath ==
    ASSUME NEW b, NEW n, NEW P, NEW C, InOrder(b, n, P, C),
           NEW x \in Nodes(b, {}), NEW y \in Nodes(b, {}), x.ent.type = "dir", y.ent.type = "dir",
           x.ent.pair = y.ent.pair
    PROVE  x.path = y.path
<1>1. Hard(b, n, P) /\ P[1] = Root /\ n \in Nat \ {0} /\ Cardinality(Blocks) \in Nat
  BY InOrderIs
<1> DEFINE N == Nodes(b, {})
           T == {u \in N : u.ent.type = "dir" =>
                    \A v \in N : v.ent.type = "dir" /\ v.ent.pair = u.ent.pair => u.path = v.path}
<1>2. RootNode.ent.type = "dir" /\ RootNode.ent.pair = Root
  BY DEF RootNode, Dir
<1>3. RootNode \in N /\ \A u \in N : u = RootNode \/ \E v \in N : Extends(b, {}, v, u)
  BY <1>1, NodesDown
<1>4. ASSUME NEW u \in N, NEW v \in N, Extends(b, {}, v, u), u.ent.type = "dir"
      PROVE  \E i, j \in 1 .. n : \E a \in Names :
                /\ v.ent.type = "dir" /\ Starts(n, P, C, i) /\ P[i] = v.ent.pair /\ InChain(n, P, C, i, j)
                /\ u.path = Append(v.path, a) /\ Shown(C, {}, P[j], a, u.ent.pair)
                /\ u.ent.pair \in PairsOf(n, P) \ {Root}
  <2>1. v.ent.type = "dir"
    BY <1>4 DEF Extends
  <2>2. PICK i : Starts(n, P, C, i) /\ P[i] = v.ent.pair
    BY <2>1, NodeOn
  <2>3. i \in 1 .. n
    BY <2>2 DEF Starts
  <2>4. PICK j \in 1 .. n, a \in Names : /\ InChain(n, P, C, i, j) /\ u.path = Append(v.path, a)
                                         /\ u.ent = C[P[j]].ents[a]
    BY <1>4, <2>2, <2>3, ExtendsIs
  <2>5. Shown(C, {}, P[j], a, u.ent.pair)
    BY <1>4, <2>4 DEF Shown, Leads
  <2>6. u.ent.pair \in PairsOf(n, P) \ {Root}
    BY <1>4, <2>4 DEF InOrder, Fits, Aims, PairsOf
  <2> QED
    BY <2>1, <2>2, <2>3, <2>4, <2>5, <2>6
<1> HIDE DEF N
<1>5. RootNode \in T
  BY <1>2, <1>3, <1>4
<1>6. ASSUME NEW v \in T \cap N, NEW u \in N, Extends(b, {}, v, u) PROVE u \in T
  <2> SUFFICES ASSUME u.ent.type = "dir", NEW w \in N, w.ent.type = "dir", w.ent.pair = u.ent.pair
               PROVE  u.path = w.path
    OBVIOUS
  <2>1. PICK i \in 1 .. n, j \in 1 .. n, a \in Names :
            /\ v.ent.type = "dir" /\ Starts(n, P, C, i) /\ P[i] = v.ent.pair /\ InChain(n, P, C, i, j)
            /\ u.path = Append(v.path, a) /\ Shown(C, {}, P[j], a, u.ent.pair)
            /\ u.ent.pair \in PairsOf(n, P) \ {Root}
    BY <1>4, <1>6
  <2>2. w # RootNode
    BY <1>2, <2>1
  <2>3. PICK z \in N : Extends(b, {}, z, w)
    BY <1>3, <2>2
  <2>4. PICK k \in 1 .. n, l \in 1 .. n, c \in Names :
            /\ z.ent.type = "dir" /\ Starts(n, P, C, k) /\ P[k] = z.ent.pair /\ InChain(n, P, C, k, l)
            /\ w.path = Append(z.path, c) /\ Shown(C, {}, P[l], c, w.ent.pair)
            /\ w.ent.pair \in PairsOf(n, P) \ {Root}
    BY <1>4, <2>3
  <2>5. P[j] = P[l] /\ a = c
    BY <2>1, <2>4 DEF InOrder, Fits, Once, PairsOf
  <2>6. j = l
    <3>1. Line(n, P, Along(n, P, C))
      BY DEF InOrder
    <3>2. \A p, q \in 1 .. n : P[p] = P[q] => p = q
      BY <3>1, LineAlong
    <3> QED
      BY <2>5, <3>2
  <2>7. i = k
    BY <1>1, <2>1, <2>4, <2>6, HeadOnce
  <2>8. v.path = z.path
    BY <1>6, <2>1, <2>4, <2>7
  <2> QED
    BY <2>1, <2>4, <2>5, <2>8
<1>7. N \subseteq T
  <2> HIDE DEF T
  <2> QED
    BY <1>1, <1>5, <1>6, NodesInduct DEF N
<1> QED
  BY <1>7 DEF N

(* A path stays on the way to what it goes on to.                             *)
LEMMA PrefixAppend ==
    ASSUME NEW X, NEW s \in Seq(X), NEW t \in Seq(X), NEW a \in X, IsPrefix(s, t)
    PROVE  IsPrefix(s, Append(t, a))
<1>1. Len(s) \in Nat /\ Len(t) \in Nat /\ Len(s) <= Len(t)
  BY DEF IsPrefix
<1>2. Append(t, a) \in Seq(X) /\ Len(Append(t, a)) = Len(t) + 1 /\ \A i \in 1 .. Len(t) : Append(t, a)[i] = t[i]
  BY AppendProperties
<1> DEFINE u == Append(t, a)
<1> HIDE DEF u
<1>3. 1 \in 1 .. Len(t) + 1 /\ Len(s) \in 0 .. Len(t) /\ 1 \in 1 .. Len(u) + 1 /\ Len(s) \in 0 .. Len(u)
  BY <1>1, <1>2 DEF u
<1>4. /\ SubSeq(t, 1, Len(s)) \in Seq(X) /\ Len(SubSeq(t, 1, Len(s))) = Len(s)
      /\ \A i \in 1 .. Len(s) : SubSeq(t, 1, Len(s))[i] = t[i]
  BY <1>1, <1>3, SubSeqProperties
<1>5. /\ SubSeq(u, 1, Len(s)) \in Seq(X) /\ Len(SubSeq(u, 1, Len(s))) = Len(s)
      /\ \A i \in 1 .. Len(s) : SubSeq(u, 1, Len(s))[i] = u[i]
  BY <1>1, <1>2, <1>3, SubSeqProperties DEF u
<1>6. SubSeq(t, 1, Len(s)) = SubSeq(u, 1, Len(s))
  BY <1>1, <1>2, <1>4, <1>5, SeqEqual DEF u
<1>7. Len(s) <= Len(u) /\ SubSeq(s, 1, Len(s)) = SubSeq(u, 1, Len(s))
  BY <1>1, <1>2, <1>6 DEF IsPrefix, u
<1> QED
  BY <1>7 DEF IsPrefix, u

(* The pairs of a directory whose path does not go through name a0 of the     *)
(* directory d are tied to the root without that entry.                       *)
LEMMA AsideTied ==
    ASSUME NEW b, NEW n, NEW P, NEW C, InOrder(b, n, P, C),
           NEW d \in Nodes(b, {}), NEW x \in Nodes(b, {}), d.ent.type = "dir", x.ent.type = "dir",
           NEW a0 \in Names, ~IsPrefix(Append(d.path, a0), x.path),
           NEW i, P[i] = d.ent.pair, NEW j \in 1 .. n, InChain(n, P, C, i, j),
           NEW k, P[k] = x.ent.pair, NEW l, InChain(n, P, C, k, l),
           NEW D, Closed(PairsOf(n, P), C, {[pair |-> P[j], name |-> a0]}, D)
    PROVE  P[l] \in D
<1>1. Hard(b, n, P) /\ P[1] = Root /\ n \in Nat \ {0} /\ Cardinality(Blocks) \in Nat
  BY InOrderIs
<1>2. \A p, q \in 1 .. n : P[p] = P[q] => p = q
  <2>1. Line(n, P, Along(n, P, C))
    BY DEF InOrder
  <2> QED
    BY <2>1, LineAlong
<1> DEFINE N == Nodes(b, {})
           T == {u \in N : /\ u.path \in Seq(Names)
                           /\ u.ent.type = "dir" => u.ent.pair \in D \/ IsPrefix(Append(d.path, a0), u.path)}
<1>3. RootNode \in N
  BY <1>1, NodesDown
<1>4. RootNode \in T
  <2>1. RootNode.ent.pair = Root /\ RootNode.path = << >>
    BY DEF RootNode, Dir
  <2>2. << >> \in Seq(Names) /\ Root \in D
    BY DEF Closed
  <2> QED
    BY <1>3, <2>1, <2>2
<1>5. ASSUME NEW p \in 1 .. n, NEW q, InChain(n, P, C, p, q), P[p] \in D PROVE P[q] \in D
  <2> DEFINE G == {r \in 0 .. q - p : P[p + r] \in D}
  <2>1. p \in Nat /\ q \in p .. n /\ q - p \in Nat
    BY <1>1, <1>5 DEF InChain
  <2>2. 0 \in G
    BY <1>5, <2>1
  <2>3. ASSUME NEW r \in 0 .. (q - p) - 1, r \in G PROVE r + 1 \in G
    <3>1. r + 1 \in 0 .. q - p /\ p + r \in p .. q - 1 /\ p + r \in 1 .. n - 1 /\ p + r \in 1 .. n /\ p + (r + 1) = (p + r) + 1
      BY <1>1, <2>1
    <3>2. C[P[p + r]].split
      BY <1>5, <3>1 DEF InChain
    <3>3. C[P[p + r]].tail = P[(p + r) + 1]
      BY <3>1, LineTails DEF InOrder
    <3>4. P[p + r] \in PairsOf(n, P) /\ P[p + r] \in D
      BY <2>3, <3>1 DEF PairsOf
    <3>5. P[(p + r) + 1] \in D
      BY <3>2, <3>3, <3>4 DEF Closed
    <3> QED
      BY <3>1, <3>5
  <2>4. q - p \in G
    <3> HIDE DEF G
    <3>1. \A r \in 0 .. q - p : r \in G
      BY <2>1, <2>2, <2>3, UpTo
    <3> QED
      BY <2>1, <3>1
  <2>5. p + (q - p) = q
    BY <2>1
  <2> QED
    BY <2>4, <2>5
<1>6. d.path \in Seq(Names)
  <2> DEFINE W == {u \in N : u.path \in Seq(Names)}
  <2>1. RootNode \in W
    <3>1. RootNode.path = << >> /\ << >> \in Seq(Names)
      BY DEF RootNode
    <3> QED
      BY <1>3, <3>1
  <2>2. ASSUME NEW y \in W \cap N, NEW u \in N, Extends(b, {}, y, u) PROVE u \in W
    <3>1. y.ent.type = "dir"
      BY <2>2 DEF Extends
    <3>2. PICK p : Starts(n, P, C, p) /\ P[p] = y.ent.pair
      BY <2>2, <3>1, NodeOn
    <3>3. p \in 1 .. n
      BY <3>2 DEF Starts
    <3>4. PICK q \in 1 .. n, a \in Names :
              /\ InChain(n, P, C, p, q) /\ u.path = Append(y.path, a) /\ u.ent = C[P[q]].ents[a]
              /\ u.ent # NoEnt
      BY <2>2, <3>2, <3>3, ExtendsIs
    <3>5. y.path \in Seq(Names)
      BY <2>2
    <3>6. u.path \in Seq(Names)
      BY <3>4, <3>5, AppendProperties
    <3> QED
      BY <3>6
  <2>3. N \subseteq W
    <3> HIDE DEF W
    <3> QED
      BY <1>1, <2>1, <2>2, NodesInduct
  <2> QED
    BY <2>3
<1>7. ASSUME NEW y \in T \cap N, NEW u \in N, Extends(b, {}, y, u) PROVE u \in T
  <2>1. y.ent.type = "dir" /\ y.path \in Seq(Names)
    BY <1>7 DEF Extends
  <2>2. PICK p : Starts(n, P, C, p) /\ P[p] = y.ent.pair
    BY <1>7, <2>1, NodeOn
  <2>3. PICK q \in 1 .. n, a \in Names : /\ InChain(n, P, C, p, q) /\ u.path = Append(y.path, a)
                                         /\ u.ent = C[P[q]].ents[a]
    BY <1>7, <2>2, ExtendsIs DEF Starts
  <2>4. u.path \in Seq(Names)
    BY <2>1, <2>3
  <2> SUFFICES ASSUME u.ent.type = "dir" PROVE u.ent.pair \in D \/ IsPrefix(Append(d.path, a0), u.path)
    BY <2>4
  <2>5. Append(d.path, a0) \in Seq(Names)
    BY <1>6
  <2>6. CASE IsPrefix(Append(d.path, a0), y.path)
    BY <2>1, <2>3, <2>5, <2>6, PrefixAppend
  <2>7. CASE y.ent.pair \in D
    <3>1. P[q] \in D
      BY <1>5, <2>2, <2>3, <2>7 DEF Starts
    <3>2. CASE q = j /\ a = a0
      <4>1. PICK h : Starts(n, P, C, h) /\ P[h] = d.ent.pair
        BY NodeOn
      <4>2. h = i
        BY <1>2, <4>1 DEF Starts, InChain
      <4>3. p = i
        BY <1>1, <2>2, <2>3, <3>2, <4>1, <4>2, HeadOnce
      <4>4. y.path = d.path
        BY <2>1, <2>2, <4>3, OnePath
      <4>5. u.path = Append(d.path, a0) /\ Len(u.path) \in Nat
        BY <2>3, <2>4, <3>2, <4>4
      <4>6. IsPrefix(u.path, u.path)
        BY <4>5 DEF IsPrefix
      <4> QED
        BY <4>5, <4>6
    <3>3. CASE q # j \/ a # a0
      <4>1. P[q] # P[j] \/ a # a0
        BY <1>2, <3>3
      <4>2. [pair |-> P[q], name |-> a] # [pair |-> P[j], name |-> a0]
        BY <4>1
      <4>3. Shown(C, {[pair |-> P[j], name |-> a0]}, P[q], a, u.ent.pair)
        BY <2>3, <4>2 DEF Shown, Leads
      <4>4. P[q] \in PairsOf(n, P)
        BY DEF PairsOf
      <4> QED
        BY <3>1, <4>3, <4>4 DEF Closed
    <3> QED
      BY <3>2, <3>3
  <2> QED
    BY <1>7, <2>1, <2>6, <2>7
<1>8. N \subseteq T
  <2> HIDE DEF T
  <2> QED
    BY <1>1, <1>4, <1>7, NodesInduct
<1>9. P[k] \in D
  BY <1>8
<1> QED
  BY <1>5, <1>9 DEF InChain

(* When every pair is tied to the root, the directories on the thread are     *)
(* those of the tree.                                                         *)
LEMMA HeadsReached ==
    ASSUME NEW b, NEW n, NEW P, NEW C, InOrder(b, n, P, C), Tied(PairsOf(n, P), Hards(n, P, C), C, {}, {})
    PROVE  /\ \A x \in DirPairs(Nodes(b, {})) : \E i : Starts(n, P, C, i) /\ x = P[i]
           /\ \A i : Starts(n, P, C, i) => P[i] \in DirPairs(Nodes(b, {}))
<1>1. Hard(b, n, P) /\ P[1] = Root /\ n \in Nat \ {0} /\ Cardinality(Blocks) \in Nat
  BY InOrderIs
<1>2. \A p, q \in 1 .. n : P[p] = P[q] => p = q
  <2>1. Line(n, P, Along(n, P, C))
    BY DEF InOrder
  <2> QED
    BY <2>1, LineAlong
<1> DEFINE N == Nodes(b, {})
           R == DirPairs(N)
           D == {x \in PairsOf(n, P) : \E i \in 1 .. n : P[i] \in R /\ \E j \in 1 .. n : InChain(n, P, C, i, j) /\ P[j] = x}
<1>3. \A x \in R : \E i : Starts(n, P, C, i) /\ x = P[i]
  BY NodeOn DEF DirPairs
<1>4. Shut(b, {}, N)
  <2>1. R \subseteq PairsOf(n, P)
    BY <1>3 DEF Starts, PairsOf
  <2>2. IsFiniteSet(PairsOf(n, P)) /\ Cardinality(PairsOf(n, P)) <= Cardinality(Blocks) \div 2
    BY LineHalf DEF InOrder
  <2> QED
    BY <1>1, <2>1, <2>2, NodesFull
<1> HIDE DEF N
<1>5. Closed(PairsOf(n, P), C, {}, D)
  <2>1. Root \in D
    <3>1. RootNode \in N /\ RootNode.ent.type = "dir" /\ RootNode.ent.pair = Root
      BY <1>1, NodesDown DEF RootNode, Dir, N
    <3>2. P[1] \in R
      BY <1>1, <3>1 DEF DirPairs
    <3>3. 1 \in 1 .. n /\ InChain(n, P, C, 1, 1)
      BY <1>1 DEF InChain
    <3> QED
      BY <1>1, <3>2, <3>3 DEF PairsOf
  <2>2. ASSUME NEW q \in PairsOf(n, P), q \in D, C[q].split PROVE C[q].tail \in D
    <3>1. PICK i \in 1 .. n, j \in 1 .. n : P[i] \in R /\ InChain(n, P, C, i, j) /\ P[j] = q
      BY <2>2
    <3>2. j # n
      <4>1. C[P[n]].split = FALSE
        BY LineAlong DEF InOrder
      <4> QED
        BY <2>2, <3>1, <4>1
    <3>3. j \in 1 .. n - 1 /\ j + 1 \in 1 .. n /\ i \in Nat /\ j \in Nat
      BY <1>1, <3>2
    <3>4. C[q].tail = P[j + 1]
      BY <3>1, <3>3, LineTails DEF InOrder
    <3>5. InChain(n, P, C, i, j + 1)
      <4>1. j + 1 \in i .. n /\ \A l \in i .. (j + 1) - 1 : l \in i .. j - 1 \/ l = j
        BY <1>1, <3>1, <3>3 DEF InChain
      <4> QED
        BY <2>2, <3>1, <4>1 DEF InChain
    <3> QED
      BY <3>1, <3>3, <3>4, <3>5 DEF PairsOf
  <2>3. ASSUME NEW q \in PairsOf(n, P), NEW a \in Names, NEW x, q \in D, Shown(C, {}, q, a, x) PROVE x \in D
    <3>1. PICK i \in 1 .. n, j \in 1 .. n : P[i] \in R /\ InChain(n, P, C, i, j) /\ P[j] = q
      BY <2>3
    <3>2. PICK y \in N : y.ent.type = "dir" /\ y.ent.pair = P[i]
      BY <3>1 DEF DirPairs
    <3> DEFINE z == [path |-> Append(y.path, a), ent |-> C[P[j]].ents[a]]
    <3>3. C[P[j]].ents[a].type = "dir" /\ C[P[j]].ents[a].pair = x /\ C[P[j]].ents[a] # NoEnt
      BY <2>3, <3>1 DEF Shown, Leads, NoEnt
    <3>4. Extends(b, {}, y, z)
      BY <3>1, <3>2, <3>3, ExtendsBy
    <3>5. z.ent.type = "dir" /\ z.ent.pair = x
      BY <3>3
    <3> HIDE DEF z
    <3>6. x \in R
      BY <1>4, <3>4, <3>5 DEF Shut
    <3>7. PICK k : Starts(n, P, C, k) /\ x = P[k]
      BY <1>3, <3>6
    <3>8. k \in 1 .. n /\ InChain(n, P, C, k, k)
      BY <1>1, <3>7 DEF Starts, InChain
    <3> QED
      BY <3>6, <3>7, <3>8 DEF PairsOf
  <2> QED
    BY <2>1, <2>2, <2>3 DEF Closed
<1>6. PairsOf(n, P) \subseteq D
  <2> HIDE DEF D
  <2> QED
    BY <1>5 DEF Tied
<1>7. ASSUME NEW k, Starts(n, P, C, k) PROVE P[k] \in R
  <2>1. k \in 1 .. n /\ P[k] \in PairsOf(n, P) /\ InChain(n, P, C, k, k)
    BY <1>1, <1>7 DEF Starts, PairsOf, InChain
  <2>2. PICK i \in 1 .. n, j \in 1 .. n : P[i] \in R /\ InChain(n, P, C, i, j) /\ P[j] = P[k]
    BY <1>6, <2>1
  <2>3. j = k
    BY <1>2, <2>1, <2>2
  <2>4. PICK h : Starts(n, P, C, h) /\ P[i] = P[h]
    BY <1>3, <2>2
  <2>5. h = i
    BY <1>2, <2>4 DEF Starts
  <2>6. i = k
    BY <1>1, <1>7, <2>1, <2>2, <2>3, <2>4, <2>5, HeadOnce
  <2> QED
    BY <2>2, <2>6
<1> QED
  BY <1>3, <1>7 DEF N
-----------------------------------------------------------------------------
(* The directory that starts with pair x: the pairs split off it, one from    *)
(* the other.                                                                 *)
Hung(S, C, D)    == \A q \in S : q \in D /\ C[q].split => C[q].tail \in D
Part(S, C, x, q) == \A D : x \in D /\ Hung(S, C, D) => q \in D

(* Its list of names: entry e by the name a, but for those of mv.             *)
Entry(C, mv, q, a, e) == a \in Names /\ C[q].ents[a] = e /\ e # NoEnt /\ [pair |-> q, name |-> a] \notin mv
Lists(S, C, mv, x, a, e) == \E q \in S : Part(S, C, x, q) /\ Entry(C, mv, q, a, e)

(* The same names in every directory, with no entry hidden but of T;          *)
Alike(S, C, S2, C2, T) ==
    \A x \in S \cap S2 : \A mv : (\A v \in mv : v.pair \in T) =>
        \A a, e : Lists(S, C, mv, x, a, e) <=> Lists(S2, C2, mv, x, a, e)

(* and in order: of two pairs of a directory the first has the lower names.   *)
Below(m1, m2) == \A a, c \in Names : m1.ents[a] # NoEnt /\ m2.ents[c] # NoEnt => a < c
Sorted(S, C) == \A p, q \in S : C[p].split /\ Part(S, C, C[p].tail, q) => Below(C[p], C[q])

(* Name a has room in pair p when the order stands with it.                   *)
Marked(S, C, p, a) ==
    [q \in S |-> [ents  |-> [c \in Names |-> IF q = p /\ c = a THEN Dir(Root) ELSE C[q].ents[c]],
                  split |-> C[q].split, tail |-> C[q].tail]]
Room(S, C, p, a) == Sorted(S, Marked(S, C, p, a))

(* What a change of the pairs but those of T leaves.                          *)
Lasts(S, C, S2, C2, T) == Alike(S, C, S2, C2, T) /\ (Sorted(S, C) => Sorted(S2, C2))
Joined(S, C, S2, C2) == \A x \in S \cap S2, q \in S \cap S2 : Part(S, C, x, q) => Part(S2, C2, x, q)
Keeps(S, C, S2, C2, T) ==
    /\ Lasts(S, C, S2, C2, T) /\ Joined(S, C, S2, C2)
    /\ \A p \in T \cap S \cap S2 : \A a \in Names : Room(S, C, p, a) => Room(S2, C2, p, a)
Tails(S, C) == \A q \in S : C[q].split => C[q].tail \in S

(* A directory has its first pair, and with a pair what is split off that.    *)
LEMMA PartOn ==
    ASSUME NEW S, NEW C
    PROVE  /\ \A x : Part(S, C, x, x)
           /\ \A x, p, q : Part(S, C, x, p) /\ Part(S, C, p, q) => Part(S, C, x, q)
           /\ \A p \in S : C[p].split => Part(S, C, p, C[p].tail)
<1>1. ASSUME NEW x, NEW p, NEW q, Part(S, C, x, p), Part(S, C, p, q) PROVE Part(S, C, x, q)
  BY <1>1 DEF Part
<1>2. ASSUME NEW p \in S, C[p].split PROVE Part(S, C, p, C[p].tail)
  BY <1>2 DEF Part, Hung
<1>3. \A x : Part(S, C, x, x)
  BY DEF Part
<1> QED
  BY <1>1, <1>2, <1>3

(* What a directory consists of stays when a pair is split: t is put in after *)
(* p, in the directories that p is in.                                        *)
LEMMA PartSplit ==
    ASSUME NEW S, NEW C, Tails(S, C), NEW p \in S, NEW t, t \notin S, NEW C1, AllBut(S, p, C, C1),
           C1[p].split, C1[p].tail = t, C1[t].split = C[p].split, C1[t].tail = C[p].tail
    PROVE  /\ \A x \in S, q \in S : Part(S, C, x, q) <=> Part(S \cup {t}, C1, x, q)
           /\ \A x \in S : Part(S, C, x, p) <=> Part(S \cup {t}, C1, x, t)
           /\ \A q \in S : Part(S \cup {t}, C1, t, q) <=> C[p].split /\ Part(S, C, C[p].tail, q)
<1> DEFINE S2 == S \cup {t}
<1> USE DEF AllBut, Tails
<1>1. ASSUME NEW D, Hung(S2, C1, D) PROVE Hung(S, C, D)
  <2> SUFFICES ASSUME NEW q \in S, q \in D, C[q].split PROVE C[q].tail \in D
    BY DEF Hung
  <2>1. CASE q = p
    <3>1. t \in D
      BY <1>1, <2>1 DEF Hung
    <3> QED
      BY <1>1, <2>1, <3>1 DEF Hung
  <2>2. CASE q # p
    BY <1>1, <2>2 DEF Hung
  <2> QED
    BY <2>1, <2>2
<1>2. ASSUME NEW D, Hung(S, C, D) PROVE Hung(S2, C1, IF p \in D THEN D \cup {t} ELSE D \ {t})
  <2> DEFINE E == IF p \in D THEN D \cup {t} ELSE D \ {t}
  <2>1. \A q \in S : q \in E <=> q \in D
    OBVIOUS
  <2>2. t \in E <=> p \in D
    OBVIOUS
  <2> HIDE DEF E
  <2>3. ASSUME NEW q \in S2, q \in E, C1[q].split PROVE C1[q].tail \in E
    <3>1. CASE q = p
      BY <2>1, <2>2, <2>3, <3>1
    <3>2. CASE q = t
      <4>1. C[p].tail \in D /\ C[p].tail \in S
        BY <1>2, <2>2, <2>3, <3>2 DEF Hung
      <4> QED
        BY <2>1, <3>2, <4>1
    <3>3. CASE q # p /\ q # t
      <4>1. C[q].tail \in D /\ C[q].tail \in S /\ C1[q] = C[q]
        BY <1>2, <2>1, <2>3, <3>3 DEF Hung
      <4> QED
        BY <2>1, <4>1
    <3> QED
      BY <3>1, <3>2, <3>3
  <2> QED
    BY <2>3 DEF Hung, E
<1>3. ASSUME NEW x \in S, NEW q \in S PROVE Part(S, C, x, q) <=> Part(S2, C1, x, q)
  <2>1. ASSUME Part(S, C, x, q) PROVE Part(S2, C1, x, q)
    BY <1>1, <2>1 DEF Part
  <2>2. ASSUME Part(S2, C1, x, q), NEW D, x \in D, Hung(S, C, D) PROVE q \in D
    <3> DEFINE E == IF p \in D THEN D \cup {t} ELSE D \ {t}
    <3>1. \A y \in S : y \in E <=> y \in D
      OBVIOUS
    <3>2. Hung(S2, C1, E)
      BY <1>2, <2>2
    <3> HIDE DEF E
    <3> QED
      BY <2>2, <3>1, <3>2 DEF Part
  <2> QED
    BY <2>1, <2>2 DEF Part
<1>4. ASSUME NEW x \in S PROVE Part(S, C, x, p) <=> Part(S2, C1, x, t)
  <2>1. ASSUME Part(S, C, x, p) PROVE Part(S2, C1, x, t)
    <3>1. Part(S2, C1, x, p)
      BY <1>3, <2>1
    <3>2. Part(S2, C1, p, t)
      BY PartOn
    <3> QED
      BY <3>1, <3>2, PartOn
  <2>2. ASSUME Part(S2, C1, x, t), NEW D, x \in D, Hung(S, C, D) PROVE p \in D
    <3> DEFINE E == IF p \in D THEN D \cup {t} ELSE D \ {t}
    <3>1. x \in E /\ (t \in E <=> p \in D)
      BY <2>2
    <3>2. Hung(S2, C1, E)
      BY <1>2, <2>2
    <3> HIDE DEF E
    <3> QED
      BY <2>2, <3>1, <3>2 DEF Part
  <2> QED
    BY <2>1, <2>2 DEF Part
<1>5. ASSUME NEW q \in S PROVE Part(S2, C1, t, q) <=> C[p].split /\ Part(S, C, C[p].tail, q)
  <2>1. ASSUME C[p].split, Part(S, C, C[p].tail, q) PROVE Part(S2, C1, t, q)
    <3>1. Part(S2, C1, C[p].tail, q)
      BY <1>3, <2>1
    <3>2. Part(S2, C1, t, C1[t].tail)
      BY <2>1, PartOn
    <3> QED
      BY <3>1, <3>2, PartOn
  <2>2. ASSUME Part(S2, C1, t, q), ~C[p].split PROVE FALSE
    <3>1. Hung(S2, C1, {t})
      BY <2>2 DEF Hung
    <3> QED
      BY <2>2, <3>1 DEF Part
  <2>3. ASSUME Part(S2, C1, t, q), C[p].split, NEW D, C[p].tail \in D, Hung(S, C, D) PROVE q \in D
    <3> DEFINE E == D \cup {t}
    <3>1. Hung(S2, C1, E)
      <4>1. ASSUME NEW y \in S2, y \in E, C1[y].split PROVE C1[y].tail \in E
        <5>1. CASE y = p \/ y = t
          BY <2>3, <5>1
        <5>2. CASE y # p /\ y # t
          BY <2>3, <4>1, <5>2 DEF Hung
        <5> QED
          BY <5>1, <5>2
      <4> QED
        BY <4>1 DEF Hung
    <3>2. t \in E /\ (q \in E => q \in D)
      OBVIOUS
    <3> HIDE DEF E
    <3> QED
      BY <2>3, <3>1, <3>2 DEF Part
  <2> QED
    BY <2>1, <2>2, <2>3 DEF Part
<1> QED
  BY <1>3, <1>4, <1>5

(* No directory lists other names when a pair's entries are shared out        *)
(* between it and a pair t, the lower ones and the higher;                    *)
LEMMA LastsSplit ==
    ASSUME NEW S, NEW C, Tails(S, C), NEW p \in S, NEW t, t \notin S, NEW C1, AllBut(S, p, C, C1),
           C1[p].split, C1[p].tail = t, C1[t].split = C[p].split, C1[t].tail = C[p].tail,
           Shares(C[p], C1[p], C1[t]), Below(C1[p], C1[t])
    PROVE  Lasts(S, C, S \cup {t}, C1, S \ {p})
<1> DEFINE S2 == S \cup {t}
<1> USE DEF AllBut
<1>1. /\ \A x \in S, q \in S : Part(S, C, x, q) <=> Part(S2, C1, x, q)
      /\ \A x \in S : Part(S, C, x, p) <=> Part(S2, C1, x, t)
      /\ \A q \in S : Part(S2, C1, t, q) <=> C[p].split /\ Part(S, C, C[p].tail, q)
  BY PartSplit
<1>2. \A q \in S : q # p => C1[q] = C[q]
  OBVIOUS
<1>3. ASSUME NEW a \in Names, C1[p].ents[a] # NoEnt \/ C1[t].ents[a] # NoEnt PROVE C[p].ents[a] # NoEnt
  BY <1>3 DEF Shares
<1>4. ASSUME NEW x \in S, NEW mv, \A v \in mv : v.pair \in S \ {p}, NEW a, NEW e
      PROVE  Lists(S, C, mv, x, a, e) <=> Lists(S2, C1, mv, x, a, e)
  <2>1. ASSUME Lists(S, C, mv, x, a, e) PROVE Lists(S2, C1, mv, x, a, e)
    <3>1. PICK q \in S : Part(S, C, x, q) /\ Entry(C, mv, q, a, e)
      BY <2>1 DEF Lists
    <3>2. CASE q # p
      <4>1. Part(S2, C1, x, q) /\ Entry(C1, mv, q, a, e)
        BY <1>1, <1>2, <3>1, <3>2 DEF Entry
      <4> QED
        BY <4>1 DEF Lists
    <3>3. CASE q = p /\ C1[p].ents[a] = C[p].ents[a]
      <4>1. Part(S2, C1, x, p) /\ Entry(C1, mv, p, a, e)
        BY <1>1, <1>4, <3>1, <3>3 DEF Entry
      <4> QED
        BY <4>1 DEF Lists
    <3>4. CASE q = p /\ C1[t].ents[a] = C[p].ents[a]
      <4>1. Part(S2, C1, x, t) /\ Entry(C1, mv, t, a, e)
        BY <1>1, <1>4, <3>1, <3>4 DEF Entry
      <4> QED
        BY <4>1 DEF Lists
    <3> QED
      BY <3>1, <3>2, <3>3, <3>4 DEF Entry, Shares
  <2>2. ASSUME Lists(S2, C1, mv, x, a, e) PROVE Lists(S, C, mv, x, a, e)
    <3>1. PICK q \in S2 : Part(S2, C1, x, q) /\ Entry(C1, mv, q, a, e)
      BY <2>2 DEF Lists
    <3>2. CASE q # p /\ q # t
      <4>1. q \in S /\ Part(S, C, x, q) /\ Entry(C, mv, q, a, e)
        BY <1>1, <1>2, <3>1, <3>2 DEF Entry
      <4> QED
        BY <4>1 DEF Lists
    <3>3. CASE q = p \/ q = t
      <4>1. C[p].ents[a] = e
        BY <3>1, <3>3 DEF Entry, Shares
      <4>2. Entry(C, mv, p, a, e)
        BY <1>4, <3>1, <4>1 DEF Entry
      <4>3. Part(S, C, x, p)
        BY <1>1, <3>1, <3>3
      <4> QED
        BY <4>2, <4>3 DEF Lists
    <3> QED
      BY <3>2, <3>3
  <2> QED
    BY <2>1, <2>2
<1>5. ASSUME Sorted(S, C), NEW y \in S2, NEW q \in S2, C1[y].split, Part(S2, C1, C1[y].tail, q)
      PROVE  Below(C1[y], C1[q])
  <2>1. ASSUME NEW z \in S, C[z].split PROVE C[z].tail \in S
    BY <2>1 DEF Tails
  <2>2. CASE y # p /\ y # t /\ q # p /\ q # t
    <3>1. y \in S /\ q \in S /\ C[y].split /\ Part(S, C, C[y].tail, q)
      BY <1>1, <1>2, <1>5, <2>1, <2>2
    <3>2. Below(C[y], C[q])
      BY <1>5, <3>1 DEF Sorted
    <3> QED
      BY <1>2, <2>2, <3>1, <3>2
  <2>3. CASE y # p /\ y # t /\ (q = p \/ q = t)
    <3>1. y \in S /\ C[y].split /\ Part(S, C, C[y].tail, p) /\ C1[y] = C[y]
      BY <1>1, <1>2, <1>5, <2>1, <2>3
    <3>2. Below(C[y], C[p])
      BY <1>5, <3>1 DEF Sorted
    <3> QED
      BY <1>3, <2>3, <3>1, <3>2 DEF Below
  <2>4. CASE (y = p \/ y = t) /\ q # p /\ q # t
    <3>1. q \in S /\ C1[q] = C[q]
      BY <1>2, <2>4
    <3>2. C[p].split /\ Part(S, C, C[p].tail, q)
      BY <1>1, <1>5, <2>1, <2>4, <3>1
    <3>3. Below(C[p], C[q])
      BY <1>5, <3>1, <3>2 DEF Sorted
    <3> QED
      BY <1>3, <2>4, <3>1, <3>3 DEF Below
  <2>5. CASE y = p /\ q = t
    BY <2>5
  <2>6. ASSUME C[p].split, Part(S, C, C[p].tail, p) PROVE Below(C1[y], C1[q]) \/ (q # p /\ q # t) \/ (y # p /\ y # t)
    <3>1. Below(C[p], C[p])
      BY <1>5, <2>6 DEF Sorted
    <3>2. ASSUME NEW a \in Names, NEW c \in Names, C[p].ents[a] # NoEnt, C[p].ents[c] # NoEnt PROVE a < c
      BY <3>1, <3>2 DEF Below
    <3> QED
      BY <1>3, <3>2 DEF Below
  <2>7. CASE y = p /\ q = p
    <3>1. C[p].split /\ Part(S, C, C[p].tail, p)
      BY <1>1, <1>5, <2>7
    <3> QED
      BY <2>6, <2>7, <3>1
  <2>8. CASE y = t
    <3>1. C[p].split /\ C[p].tail \in S /\ (q = p \/ q = t => Part(S, C, C[p].tail, p))
      BY <1>1, <1>5, <2>1, <2>8
    <3> QED
      BY <2>4, <2>6, <2>8, <3>1
  <2> QED
    BY <2>2, <2>3, <2>4, <2>5, <2>7, <2>8
<1> QED
  BY <1>4, <1>5 DEF Lasts, Alike, Sorted

(* when only deltas and revisions change: no pair goes to another directory,  *)
LEMMA PartSame ==
    ASSUME NEW S, NEW C, NEW C1, \A q \in S : C1[q].split = C[q].split,
           \A q \in S : C[q].split => C1[q].tail = C[q].tail
    PROVE  \A x, q : Part(S, C, x, q) <=> Part(S, C1, x, q)
<1>1. \A D : Hung(S, C, D) <=> Hung(S, C1, D)
  BY DEF Hung
<1> QED
  BY <1>1 DEF Part

(* and none lists other names;                                                *)
LEMMA LastsSame ==
    ASSUME NEW S, NEW C, NEW C1, \A q \in S : C1[q].ents = C[q].ents /\ C1[q].split = C[q].split,
           \A q \in S : C[q].split => C1[q].tail = C[q].tail, NEW T
    PROVE  Lasts(S, C, S, C1, T)
<1>1. \A x, q : Part(S, C, x, q) <=> Part(S, C1, x, q)
  BY PartSame
<1>2. \A q \in S : \A mv, a, e : Entry(C, mv, q, a, e) <=> Entry(C1, mv, q, a, e)
  BY DEF Entry
<1>3. \A x, mv, a, e : Lists(S, C, mv, x, a, e) <=> Lists(S, C1, mv, x, a, e)
  BY <1>1, <1>2 DEF Lists
<1>4. ASSUME Sorted(S, C), NEW p \in S, NEW q \in S, C1[p].split, Part(S, C1, C1[p].tail, q)
      PROVE  Below(C1[p], C1[q])
  <2>1. C[p].split /\ Part(S, C, C[p].tail, q)
    BY <1>1, <1>4
  <2>2. Below(C[p], C[q])
    BY <1>4, <2>1 DEF Sorted
  <2> QED
    BY <2>2 DEF Below
<1> QED
  BY <1>3, <1>4 DEF Lasts, Alike, Sorted

(* A pair that is put in has no part in what was there.                       *)
LEMMA PartIns ==
    ASSUME NEW S, NEW C, NEW x, x \notin S, NEW C1, ~C1[x].split, \A q \in S : C1[q].split = C[q].split,
           \A q \in S : C[q].split => C1[q].tail = C[q].tail
    PROVE  \A y, q : Part(S, C, y, q) <=> Part(S \cup {x}, C1, y, q)
<1>1. \A D : Hung(S \cup {x}, C1, D) <=> Hung(S, C1, D)
  BY DEF Hung
<1>2. \A y, q : Part(S \cup {x}, C1, y, q) <=> Part(S, C1, y, q)
  BY <1>1 DEF Part
<1> QED
  BY <1>2, PartSame

(* when an empty pair x that starts no directory's tail is put in;            *)
LEMMA LastsIns ==
    ASSUME NEW S, NEW C, Tails(S, C), NEW x, x \notin S, NEW C1, ~C1[x].split, Bare(C1[x]),
           \A q \in S : C1[q].ents = C[q].ents /\ C1[q].split = C[q].split,
           \A q \in S : C[q].split => C1[q].tail = C[q].tail, NEW T
    PROVE  Lasts(S, C, S \cup {x}, C1, T)
<1> DEFINE S2 == S \cup {x}
<1>1. \A y, q : Part(S2, C1, y, q) <=> Part(S, C, y, q)
  BY PartIns
<1>2. \A q \in S : \A mv, a, e : Entry(C, mv, q, a, e) <=> Entry(C1, mv, q, a, e)
  BY DEF Entry
<1>3. \A mv, a, e : ~Entry(C1, mv, x, a, e)
  BY DEF Entry, Bare
<1>4. \A y, mv, a, e : Lists(S, C, mv, y, a, e) <=> Lists(S2, C1, mv, y, a, e)
  BY <1>1, <1>2, <1>3 DEF Lists
<1>5. ASSUME Sorted(S, C), NEW p \in S2, NEW q \in S2, C1[p].split, Part(S2, C1, C1[p].tail, q)
      PROVE  Below(C1[p], C1[q])
  <2>1. p \in S /\ C[p].split /\ Part(S, C, C[p].tail, q)
    BY <1>1, <1>5
  <2>2. CASE q = x
    BY <2>2 DEF Below, Bare
  <2>3. CASE q # x
    <3>1. Below(C[p], C[q])
      BY <1>5, <2>1, <2>3 DEF Sorted
    <3> QED
      BY <2>1, <2>3, <3>1 DEF Below
  <2> QED
    BY <2>2, <2>3
<1> QED
  BY <1>4, <1>5 DEF Lasts, Alike, Sorted

(* What a directory consists of stays when pair x is taken out, after p.      *)
LEMMA PartCut ==
    ASSUME NEW S, NEW C, NEW x \in S, NEW p \in S, p # x, NEW C1, AllButTwo(S, p, x, C, C1),
           C1[p].split = C[x].split, C1[p].tail = C[x].tail,
           C[p].split \/ ~C[x].split, \A q \in S : C[q].split => (q = p <=> C[q].tail = x), C[x].tail # x
    PROVE  \A y \in S \ {x}, q \in S \ {x} : Part(S, C, y, q) <=> Part(S \ {x}, C1, y, q)
<1> DEFINE S2 == S \ {x}
<1> USE DEF AllButTwo
<1>1. ASSUME NEW D, Hung(S, C, D) PROVE Hung(S2, C1, D \ {x})
  <2> SUFFICES ASSUME NEW q \in S2, q \in D, C1[q].split PROVE C1[q].tail \in D \ {x}
    BY DEF Hung
  <2>1. CASE q = p
    <3>1. C[p].split /\ C[p].tail = x /\ C[x].split
      BY <2>1
    <3>2. x \in D
      BY <1>1, <2>1, <3>1 DEF Hung
    <3> QED
      BY <1>1, <2>1, <3>1, <3>2 DEF Hung
  <2>2. CASE q # p
    <3>1. C1[q] = C[q]
      BY <2>2
    <3> QED
      BY <1>1, <2>2, <3>1 DEF Hung
  <2> QED
    BY <2>1, <2>2
<1>2. ASSUME NEW D, Hung(S2, C1, D)
      PROVE  Hung(S, C, IF p \in D \/ ~C[p].split THEN D \cup {x} ELSE D \ {x})
  <2> DEFINE E == IF p \in D \/ ~C[p].split THEN D \cup {x} ELSE D \ {x}
  <2>1. \A y : y # x => (y \in E <=> y \in D)
    OBVIOUS
  <2>2. x \in E <=> p \in D \/ ~C[p].split
    OBVIOUS
  <2> HIDE DEF E
  <2> SUFFICES ASSUME NEW q \in S, q \in E, C[q].split PROVE C[q].tail \in E
    BY DEF Hung, E
  <2>3. CASE q = x
    <3>1. p \in D /\ C1[p].split /\ C1[p].tail = C[x].tail
      BY <2>2, <2>3
    <3>2. C[x].tail \in D
      BY <1>2, <3>1 DEF Hung
    <3> QED
      BY <2>1, <2>3, <3>2
  <2>4. CASE q = p
    <3>1. C[p].tail = x
      BY <2>4
    <3> QED
      BY <2>1, <2>2, <2>4, <3>1
  <2>5. CASE q # x /\ q # p
    <3>1. C1[q] = C[q] /\ C[q].tail # x
      BY <2>5
    <3>2. C[q].tail \in D
      BY <1>2, <2>1, <2>5, <3>1 DEF Hung
    <3> QED
      BY <2>1, <3>1, <3>2
  <2> QED
    BY <2>3, <2>4, <2>5
<1>3. ASSUME NEW y \in S2, NEW q \in S2 PROVE Part(S, C, y, q) <=> Part(S2, C1, y, q)
  <2>1. ASSUME Part(S, C, y, q), NEW D, y \in D, Hung(S2, C1, D) PROVE q \in D
    <3> DEFINE E == IF p \in D \/ ~C[p].split THEN D \cup {x} ELSE D \ {x}
    <3>1. y \in E /\ (q \in E => q \in D)
      BY <2>1
    <3>2. Hung(S, C, E)
      BY <1>2, <2>1
    <3> HIDE DEF E
    <3> QED
      BY <2>1, <3>1, <3>2 DEF Part
  <2>2. ASSUME Part(S2, C1, y, q), NEW D, y \in D, Hung(S, C, D) PROVE q \in D
    <3>1. Hung(S2, C1, D \ {x}) /\ y \in D \ {x}
      BY <1>1, <2>2
    <3>2. q \in D \ {x}
      BY <2>2, <3>1 DEF Part
    <3> QED
      BY <3>2
  <2> QED
    BY <2>1, <2>2 DEF Part
<1> QED
  BY <1>3

(* when an empty pair x is taken out, after p;                                *)
LEMMA LastsCut ==
    ASSUME NEW S, NEW C, Tails(S, C), NEW x \in S, NEW p \in S, p # x, Bare(C[x]),
           NEW C1, AllButTwo(S, p, x, C, C1),
           C1[p].ents = C[p].ents, C1[p].split = C[x].split, C1[p].tail = C[x].tail,
           C[p].split \/ ~C[x].split, \A q \in S : C[q].split => (q = p <=> C[q].tail = x), C[x].tail # x, NEW T
    PROVE  Lasts(S, C, S \ {x}, C1, T)
<1> DEFINE S2 == S \ {x}
<1> USE DEF AllButTwo
<1>1. \A q \in S2 : C1[q].ents = C[q].ents
  OBVIOUS
<1>2. \A y \in S2, q \in S2 : Part(S, C, y, q) <=> Part(S2, C1, y, q)
  BY PartCut
<1>3. \A mv, a, e : ~Entry(C, mv, x, a, e)
  BY DEF Entry, Bare
<1>4. \A q \in S2 : \A mv, a, e : Entry(C, mv, q, a, e) <=> Entry(C1, mv, q, a, e)
  BY <1>1 DEF Entry
<1>5. \A y \in S2 : \A mv, a, e : Lists(S, C, mv, y, a, e) <=> Lists(S2, C1, mv, y, a, e)
  BY <1>2, <1>3, <1>4 DEF Lists
<1>6. ASSUME Sorted(S, C), NEW y \in S2, NEW q \in S2, C1[y].split, Part(S2, C1, C1[y].tail, q)
      PROVE  Below(C1[y], C1[q])
  <2>1. C[y].split /\ Part(S, C, C[y].tail, q)
    <3>1. CASE y = p
      <4>1. C[p].split /\ C[p].tail = x /\ C[x].split /\ C[x].tail \in S2
        BY <1>6, <3>1 DEF Tails
      <4>2. Part(S, C, C[x].tail, q)
        BY <1>2, <1>6, <3>1, <4>1
      <4>3. Part(S, C, x, C[x].tail)
        BY <4>1, PartOn
      <4> QED
        BY <3>1, <4>1, <4>2, <4>3, PartOn
    <3>2. CASE y # p
      <4>1. C1[y] = C[y] /\ C[y].tail \in S2
        BY <1>6, <3>2 DEF Tails
      <4> QED
        BY <1>2, <1>6, <4>1
    <3> QED
      BY <3>1, <3>2
  <2>2. Below(C[y], C[q])
    BY <1>6, <2>1 DEF Sorted
  <2> QED
    BY <1>1, <2>2 DEF Below
<1>7. Alike(S, C, S2, C1, T)
  BY <1>5 DEF Alike
<1>8. Sorted(S, C) => Sorted(S2, C1)
  BY <1>6 DEF Sorted
<1> QED
  BY <1>7, <1>8 DEF Lasts

(* With a name that has room in a pair it is the same.                         *)
LEMMA MarkedIs ==
    ASSUME NEW S, NEW C, NEW p, NEW a
    PROVE  /\ \A q \in S : Marked(S, C, p, a)[q].split = C[q].split /\ Marked(S, C, p, a)[q].tail = C[q].tail
           /\ \A q \in S : \A c \in Names :
                 /\ (q = p /\ c = a) => Marked(S, C, p, a)[q].ents[c] = Dir(Root)
                 /\ ~(q = p /\ c = a) => Marked(S, C, p, a)[q].ents[c] = C[q].ents[c]
           /\ NoEnt # Dir(Root)
<1>1. NoEnt # Dir(Root)
  BY DEF NoEnt, Dir
<1> QED
  BY <1>1 DEF Marked

(* Where what a pair holds is the same, it is the same with the name put in.  *)
LEMMA MarkedSame ==
    ASSUME NEW S, NEW C, NEW p, NEW a, NEW S2, NEW C2, NEW q, q \in S, q \in S2
    PROVE  /\ C2[q] = C[q] => Marked(S2, C2, p, a)[q] = Marked(S, C, p, a)[q]
           /\ C2[q].ents = C[q].ents => Marked(S2, C2, p, a)[q].ents = Marked(S, C, p, a)[q].ents
  BY DEF Marked

(* So that the order, the lists and the room for a name last when a pair is    *)
(* split;                                                                     *)
LEMMA KeepsSplit ==
    ASSUME NEW S, NEW C, Tails(S, C), NEW p \in S, NEW t, t \notin S, NEW C1, AllBut(S, p, C, C1),
           C1[p].split, C1[p].tail = t, C1[t].split = C[p].split, C1[t].tail = C[p].tail,
           Shares(C[p], C1[p], C1[t]), Below(C1[p], C1[t])
    PROVE  Keeps(S, C, S \cup {t}, C1, S \ {p})
<1>1. Lasts(S, C, S \cup {t}, C1, S \ {p})
  BY LastsSplit
<1>2. ASSUME NEW q \in S, q # p, NEW a \in Names, Room(S, C, q, a) PROVE Room(S \cup {t}, C1, q, a)
  <2> DEFINE M  == Marked(S, C, q, a)
             M1 == Marked(S \cup {t}, C1, q, a)
  <2>1. Tails(S, M)
    BY MarkedIs DEF Tails
  <2>2. AllBut(S, p, M, M1)
    BY MarkedSame DEF AllBut
  <2>3. M1[p].split /\ M1[p].tail = t /\ M1[t].split = M[p].split /\ M1[t].tail = M[p].tail
    BY MarkedIs
  <2>4. /\ \A c \in Names : M[p].ents[c] = C[p].ents[c]
        /\ \A c \in Names : M1[p].ents[c] = C1[p].ents[c]
        /\ \A c \in Names : M1[t].ents[c] = C1[t].ents[c]
    BY <1>2, MarkedIs
  <2> HIDE DEF M, M1
  <2>5. Shares(M[p], M1[p], M1[t]) /\ Below(M1[p], M1[t])
    <3>1. Shares(M[p], M1[p], M1[t])
      BY <2>4 DEF Shares
    <3>2. Below(M1[p], M1[t])
      BY <2>4 DEF Below
    <3> QED
      BY <3>1, <3>2
  <2>6. Lasts(S, M, S \cup {t}, M1, S \ {p})
    BY <2>1, <2>2, <2>3, <2>5, LastsSplit
  <2> QED
    BY <1>2, <2>6 DEF Room, Lasts, M, M1
<1>3. Joined(S, C, S \cup {t}, C1)
  <2>1. \A x \in S, q \in S : Part(S, C, x, q) <=> Part(S \cup {t}, C1, x, q)
    BY PartSplit
  <2> QED
    BY <2>1 DEF Joined
<1> QED
  BY <1>1, <1>2, <1>3 DEF Keeps

(* when only deltas and revisions change;                                     *)
LEMMA KeepsSame ==
    ASSUME NEW S, NEW C, NEW C1, \A q \in S : C1[q].ents = C[q].ents /\ C1[q].split = C[q].split,
           \A q \in S : C[q].split => C1[q].tail = C[q].tail, NEW T
    PROVE  Keeps(S, C, S, C1, T)
<1>1. Lasts(S, C, S, C1, T)
  BY LastsSame
<1>2. ASSUME NEW q \in S, NEW a \in Names, Room(S, C, q, a) PROVE Room(S, C1, q, a)
  <2> DEFINE M  == Marked(S, C, q, a)
             M1 == Marked(S, C1, q, a)
  <2>1. \A r \in S : M1[r].ents = M[r].ents /\ M1[r].split = M[r].split
    <3>1. \A r \in S : M1[r].ents = M[r].ents
      BY MarkedSame
    <3>2. \A r \in S : M1[r].split = M[r].split
      BY MarkedIs
    <3> QED
      BY <3>1, <3>2
  <2>2. \A r \in S : M[r].split => M1[r].tail = M[r].tail
    BY MarkedIs
  <2> HIDE DEF M, M1
  <2>3. Lasts(S, M, S, M1, T)
    BY <2>1, <2>2, LastsSame
  <2> QED
    BY <1>2, <2>3 DEF Room, Lasts, M, M1
<1>3. Joined(S, C, S, C1)
  BY PartSame DEF Joined
<1> QED
  BY <1>1, <1>2, <1>3 DEF Keeps

(* when an empty pair is put in;                                              *)
LEMMA KeepsIns ==
    ASSUME NEW S, NEW C, Tails(S, C), NEW x, x \notin S, NEW C1, ~C1[x].split, Bare(C1[x]),
           \A q \in S : C1[q].ents = C[q].ents /\ C1[q].split = C[q].split,
           \A q \in S : C[q].split => C1[q].tail = C[q].tail, NEW T
    PROVE  Keeps(S, C, S \cup {x}, C1, T)
<1>1. Lasts(S, C, S \cup {x}, C1, T)
  BY LastsIns
<1>2. ASSUME NEW q \in S, NEW a \in Names, Room(S, C, q, a) PROVE Room(S \cup {x}, C1, q, a)
  <2> DEFINE M  == Marked(S, C, q, a)
             M1 == Marked(S \cup {x}, C1, q, a)
  <2>1. \A r \in S : M1[r].ents = M[r].ents /\ M1[r].split = M[r].split
    <3>1. \A r \in S : M1[r].ents = M[r].ents
      BY MarkedSame
    <3>2. \A r \in S : M1[r].split = M[r].split
      BY MarkedIs
    <3> QED
      BY <3>1, <3>2
  <2>2. \A r \in S : M[r].split => M1[r].tail = M[r].tail
    BY MarkedIs
  <2>3. Tails(S, M) /\ ~M1[x].split /\ Bare(M1[x])
    BY MarkedIs DEF Tails, Bare
  <2> HIDE DEF M, M1
  <2>4. Lasts(S, M, S \cup {x}, M1, T)
    BY <2>1, <2>2, <2>3, LastsIns
  <2> QED
    BY <1>2, <2>4 DEF Room, Lasts, M, M1
<1>3. Joined(S, C, S \cup {x}, C1)
  BY PartIns DEF Joined
<1> QED
  BY <1>1, <1>2, <1>3 DEF Keeps

(* when an empty pair is taken out;                                           *)
LEMMA KeepsCut ==
    ASSUME NEW S, NEW C, Tails(S, C), NEW x \in S, NEW p \in S, p # x, Bare(C[x]),
           NEW C1, AllButTwo(S, p, x, C, C1),
           C1[p].ents = C[p].ents, C1[p].split = C[x].split, C1[p].tail = C[x].tail,
           C[p].split \/ ~C[x].split, \A q \in S : C[q].split => (q = p <=> C[q].tail = x), C[x].tail # x, NEW T
    PROVE  Keeps(S, C, S \ {x}, C1, T)
<1>1. Lasts(S, C, S \ {x}, C1, T)
  BY LastsCut
<1>2. ASSUME NEW q \in S \ {x}, NEW a \in Names, Room(S, C, q, a) PROVE Room(S \ {x}, C1, q, a)
  <2> DEFINE M  == Marked(S, C, q, a)
             M1 == Marked(S \ {x}, C1, q, a)
  <2>1. AllButTwo(S, p, x, M, M1)
    <3> SUFFICES ASSUME NEW r \in S, r # p, r # x PROVE M1[r] = M[r]
      BY DEF AllButTwo
    <3>1. C1[r] = C[r] /\ r \in S \ {x}
      BY DEF AllButTwo
    <3> QED
      BY <3>1, MarkedSame
  <2>2. M1[p].ents = M[p].ents
    BY MarkedSame
  <2>3. Tails(S, M) /\ Bare(M[x])
    BY MarkedIs DEF Tails, Bare
  <2>4. /\ M1[p].split = M[x].split /\ M1[p].tail = M[x].tail /\ (M[p].split \/ ~M[x].split)
        /\ M[x].tail # x
    BY MarkedIs
  <2>5. \A r \in S : M[r].split => (r = p <=> M[r].tail = x)
    BY MarkedIs
  <2> HIDE DEF M, M1
  <2>6. Lasts(S, M, S \ {x}, M1, T)
    BY <2>1, <2>2, <2>3, <2>4, <2>5, LastsCut
  <2> QED
    BY <1>2, <2>6 DEF Room, Lasts, M, M1
<1>3. Joined(S, C, S \ {x}, C1)
  BY PartCut DEF Joined
<1> QED
  BY <1>1, <1>2, <1>3 DEF Keeps

(* and by one step after another.                                             *)
LEMMA KeepsThen ==
    ASSUME NEW S, NEW C, NEW S1, NEW C1, NEW S2, NEW C2, NEW T, NEW T1,
           Keeps(S, C, S1, C1, T), Keeps(S1, C1, S2, C2, T1), T \subseteq T1, S \cap S2 \subseteq S1
    PROVE  Keeps(S, C, S2, C2, T)
<1>1. ASSUME NEW x \in S \cap S2, NEW mv, \A v \in mv : v.pair \in T, NEW a, NEW e
      PROVE  Lists(S, C, mv, x, a, e) <=> Lists(S2, C2, mv, x, a, e)
  <2>1. x \in S \cap S1 /\ x \in S1 \cap S2 /\ \A v \in mv : v.pair \in T1
    BY <1>1
  <2>2. Lists(S, C, mv, x, a, e) <=> Lists(S1, C1, mv, x, a, e)
    BY <1>1, <2>1 DEF Keeps, Lasts, Alike
  <2>3. Lists(S1, C1, mv, x, a, e) <=> Lists(S2, C2, mv, x, a, e)
    BY <2>1 DEF Keeps, Lasts, Alike
  <2> QED
    BY <2>2, <2>3
<1>2. Alike(S, C, S2, C2, T)
  BY <1>1 DEF Alike
<1>3. ASSUME NEW p \in T \cap S \cap S2, NEW a \in Names, Room(S, C, p, a) PROVE Room(S2, C2, p, a)
  <2>1. p \in T \cap S \cap S1 /\ p \in T1 \cap S1 \cap S2
    OBVIOUS
  <2> QED
    BY <1>3, <2>1 DEF Keeps
<1>4. Lasts(S, C, S2, C2, T)
  BY <1>2 DEF Keeps, Lasts
<1>5. Joined(S, C, S2, C2)
  BY DEF Keeps, Joined
<1> QED
  BY <1>3, <1>4, <1>5 DEF Keeps
-----------------------------------------------------------------------------
(* A thread whose entries lead to pairs of it.                                *)
Stands(b, n, P, C) == /\ b \in Disks /\ Reads(b, n, P, C) /\ Line(n, P, Along(n, P, C))
                      /\ Aims(PairsOf(n, P), Hards(n, P, C), C)

Moving(n, P, mv) == mv \subseteq Moves /\ \A v \in mv : v.pair \in PairsOf(n, P)

(* What holds of a thread, with its pairs read as they are.                   *)
LEMMA StandsIs ==
    ASSUME NEW b, NEW n, NEW P, NEW C, Stands(b, n, P, C)
    PROVE  /\ Hard(b, n, P) /\ P[1] = Root /\ n \in Nat \ {0} /\ DirsOnLine(b, n, P)
           /\ Cardinality(Blocks) \in Nat /\ Threaded(b, n, P)
           /\ \A k \in 1 .. n : Fetch(b, P[k]).m = C[P[k]] /\ Fetch(b, P[k]).pair = P[k]
<1>1. Threaded(b, n, P) /\ Line(n, P, Along(n, P, C)) /\ n \in Nat \ {0} /\ P[1] = Root
  BY ReadsThread, LineAlong DEF Stands
<1>2. \A k \in 1 .. n : Fetch(b, P[k]).m = C[P[k]] /\ Fetch(b, P[k]).pair = P[k]
  BY FetchSettled DEF Stands, Reads
<1>3. Cardinality(Blocks) \in Nat /\ n <= Cardinality(Blocks)
  BY <1>1, LineShort
<1>4. \A k \in 1 .. n - 1 : k \in 1 .. n /\ C[P[k]].tail = P[k + 1]
  BY <1>1, LineTails
<1>5. n \in 1 .. n /\ ~C[P[n]].split
  <2>1. C[P[n]].split = FALSE
    BY <1>1, LineAlong
  <2>2. n \in 1 .. n
    BY <1>1
  <2> QED
    BY <2>1, <2>2
<1>6. Hard(b, n, P)
  BY <1>1, <1>2, <1>3, <1>4, <1>5 DEF Hard
<1>7. DirsOnLine(b, n, P)
  BY <1>2 DEF DirsOnLine, Stands, Aims, PairsOf
<1> QED
  BY <1>1, <1>2, <1>3, <1>6, <1>7

(* The pairs of a directory are those of a chain of hard tails.               *)
LEMMA PartIs ==
    ASSUME NEW n, NEW P, NEW C, Line(n, P, Along(n, P, C)), NEW i \in 1 .. n
    PROVE  /\ \A j \in 1 .. n : Part(PairsOf(n, P), C, P[i], P[j]) <=> InChain(n, P, C, i, j)
           /\ \A q : Part(PairsOf(n, P), C, P[i], q) => q \in PairsOf(n, P)
<1> DEFINE S == PairsOf(n, P)
           D == {x \in S : \E j \in 1 .. n : InChain(n, P, C, i, j) /\ P[j] = x}
<1>1. n \in Nat \ {0} /\ C[P[n]].split = FALSE /\ \A j, k \in 1 .. n : P[j] = P[k] => j = k
  BY LineAlong
<1>2. P[i] \in D
  <2>1. InChain(n, P, C, i, i)
    BY <1>1 DEF InChain
  <2> QED
    BY <2>1 DEF PairsOf
<1>3. Hung(S, C, D)
  <2> SUFFICES ASSUME NEW q \in S, q \in D, C[q].split PROVE C[q].tail \in D
    BY DEF Hung
  <2>1. PICK j \in 1 .. n : InChain(n, P, C, i, j) /\ P[j] = q
    OBVIOUS
  <2>2. j # n
    BY <1>1, <2>1
  <2>3. j \in 1 .. n - 1 /\ j + 1 \in 1 .. n /\ j \in Nat /\ i \in Nat
    BY <1>1, <2>2
  <2>4. C[q].tail = P[j + 1]
    BY <2>1, <2>3, LineTails
  <2>5. InChain(n, P, C, i, j + 1)
    <3>1. j + 1 \in i .. n /\ \A l \in i .. (j + 1) - 1 : l \in i .. j - 1 \/ l = j
      BY <1>1, <2>1, <2>3 DEF InChain
    <3> QED
      BY <2>1, <3>1 DEF InChain
  <2> QED
    BY <2>3, <2>4, <2>5 DEF PairsOf
<1>4. ASSUME NEW q, Part(S, C, P[i], q) PROVE q \in D
  <2> HIDE DEF D
  <2> QED
    BY <1>2, <1>3, <1>4 DEF Part
<1>5. ASSUME NEW j \in 1 .. n, InChain(n, P, C, i, j), NEW E, P[i] \in E, Hung(S, C, E) PROVE P[j] \in E
  <2> DEFINE G == {r \in 0 .. j - i : P[i + r] \in E}
  <2>1. i \in Nat /\ j \in i .. n /\ j - i \in Nat
    BY <1>1, <1>5 DEF InChain
  <2>2. 0 \in G
    BY <1>5, <2>1
  <2>3. ASSUME NEW r \in 0 .. (j - i) - 1, r \in G PROVE r + 1 \in G
    <3>1. r + 1 \in 0 .. j - i /\ i + r \in i .. j - 1 /\ i + r \in 1 .. n - 1 /\ i + r \in 1 .. n /\ i + (r + 1) = (i + r) + 1
      BY <1>1, <2>1
    <3>2. C[P[i + r]].split
      BY <1>5, <3>1 DEF InChain
    <3>3. C[P[i + r]].tail = P[(i + r) + 1]
      BY <3>1, LineTails
    <3>4. P[i + r] \in S /\ P[i + r] \in E
      BY <2>3, <3>1 DEF PairsOf
    <3>5. P[(i + r) + 1] \in E
      BY <1>5, <3>2, <3>3, <3>4 DEF Hung
    <3> QED
      BY <3>1, <3>5
  <2>4. j - i \in G
    <3> HIDE DEF G
    <3>1. \A r \in 0 .. j - i : r \in G
      BY <2>1, <2>2, <2>3, UpTo
    <3> QED
      BY <2>1, <3>1
  <2>5. i + (j - i) = j
    BY <2>1
  <2> QED
    BY <2>4, <2>5
<1>6. ASSUME NEW j \in 1 .. n PROVE Part(S, C, P[i], P[j]) <=> InChain(n, P, C, i, j)
  <2>1. ASSUME Part(S, C, P[i], P[j]) PROVE InChain(n, P, C, i, j)
    <3>1. P[j] \in D
      BY <1>4, <2>1
    <3> QED
      BY <1>1, <3>1
  <2> QED
    BY <1>5, <2>1 DEF Part
<1> QED
  BY <1>4, <1>6

(* What is read of a directory is what its pairs list.                        *)
LEMMA ContentIs ==
    ASSUME NEW b, NEW n, NEW P, NEW C, Stands(b, n, P, C), NEW i \in 1 .. n, NEW mv, Moving(n, P, mv)
    PROVE  \A w : w \in Content(b, mv, P[i]) <=>
               \E a, e : w = <<a, e>> /\ Lists(PairsOf(n, P), C, mv, P[i], a, e)
<1> DEFINE S == PairsOf(n, P)
<1>1. Hard(b, n, P) /\ n \in Nat \ {0} /\ \A k \in 1 .. n : Fetch(b, P[k]).m = C[P[k]] /\ Fetch(b, P[k]).pair = P[k]
  BY StandsIs
<1>2. \A j, k \in 1 .. n : j # k => P[j] \cap P[k] = {}
  BY LineAlong DEF Stands
<1>3. \A j \in 1 .. n : Part(S, C, P[i], P[j]) <=> InChain(n, P, C, i, j)
  BY PartIs DEF Stands
<1>4. \A j \in 1 .. n : P[j] \in Pairs /\ P[j] # {}
  <2>1. P \in [1 .. n -> Pairs]
    BY LineAlong DEF Stands
  <2> QED
    BY <2>1 DEF Pairs
<1>5. ASSUME NEW j \in 1 .. n, NEW a
      PROVE  a \in Has(Fetch(b, P[j]), mv) <=>
                 a \in Names /\ C[P[j]].ents[a] # NoEnt /\ [pair |-> P[j], name |-> a] \notin mv
  <2>1. ASSUME a \in MoveHere(mv, P[j]) PROVE \E v \in mv : v.pair = P[j] /\ v.name = a
    <3>1. PICK v \in mv : v.pair \cap P[j] # {} /\ v.name = a
      BY <2>1 DEF MoveHere, Overlap
    <3>2. PICK k \in 1 .. n : v.pair = P[k]
      BY DEF Moving, PairsOf
    <3> QED
      BY <1>2, <3>1, <3>2
  <2>2. ASSUME NEW v \in mv, v.pair = P[j], v.name = a PROVE a \in MoveHere(mv, P[j])
    BY <1>4, <2>2 DEF MoveHere, Overlap
  <2>3. \A v \in mv : v = [pair |-> v.pair, name |-> v.name]
    BY DEF Moving, Moves
  <2> QED
    BY <1>1, <2>1, <2>2, <2>3 DEF Has
<1>6. ASSUME NEW w \in Content(b, mv, P[i])
      PROVE  \E a, e : w = <<a, e>> /\ Lists(S, C, mv, P[i], a, e)
  <2>1. PICK h \in Range(Chain(b, P[i])) : w \in {<<nm, h.m.ents[nm]>> : nm \in Has(h, mv)}
    BY <1>6 DEF Content
  <2>2. PICK nm \in Has(h, mv) : w = <<nm, h.m.ents[nm]>>
    BY <2>1
  <2>3. PICK j \in i .. n : h = Fetch(b, P[j]) /\ \A l \in i .. j - 1 : Fetch(b, P[l]).m.split
    BY <1>1, <2>1, ChainFound
  <2>4. j \in 1 .. n /\ \A l \in i .. j - 1 : l \in 1 .. n
    BY <1>1
  <2>5. InChain(n, P, C, i, j)
    BY <1>1, <2>3, <2>4 DEF InChain
  <2>6. nm \in Names /\ C[P[j]].ents[nm] # NoEnt /\ [pair |-> P[j], name |-> nm] \notin mv
    BY <1>5, <2>2, <2>3, <2>4
  <2>7. h.m.ents[nm] = C[P[j]].ents[nm] /\ P[j] \in S
    BY <1>1, <2>3, <2>4 DEF PairsOf
  <2>8. Lists(S, C, mv, P[i], nm, C[P[j]].ents[nm])
    BY <1>3, <2>4, <2>5, <2>6, <2>7 DEF Lists, Entry
  <2> QED
    BY <2>2, <2>7, <2>8
<1>7. ASSUME NEW a, NEW e, Lists(S, C, mv, P[i], a, e) PROVE <<a, e>> \in Content(b, mv, P[i])
  <2>1. PICK q \in S : Part(S, C, P[i], q) /\ Entry(C, mv, q, a, e)
    BY <1>7 DEF Lists
  <2>2. PICK j \in 1 .. n : q = P[j]
    BY DEF PairsOf
  <2>3. InChain(n, P, C, i, j)
    BY <1>3, <2>1, <2>2
  <2>4. j \in i .. n /\ \A l \in i .. j - 1 : l \in 1 .. n /\ C[P[l]].split
    BY <1>1, <2>3 DEF InChain
  <2>5. Fetch(b, P[j]) \in Range(Chain(b, P[i]))
    BY <1>1, <2>4, ChainAll
  <2>6. a \in Has(Fetch(b, P[j]), mv) /\ Fetch(b, P[j]).m.ents[a] = e
    BY <1>1, <1>5, <2>1, <2>2 DEF Entry
  <2> QED
    BY <2>5, <2>6 DEF Content
<1> QED
  BY <1>6, <1>7

(* How a path goes on by what the directories list. *)
Onward(S, C, mv, y, x) ==
    /\ y.ent.type = "dir"
    /\ \E a, e : Lists(S, C, mv, y.ent.pair, a, e) /\ x = [path |-> Append(y.path, a), ent |-> e]

(* A path goes on by what the directory at its end lists.                     *)
LEMMA OnwardIs ==
    ASSUME NEW b, NEW n, NEW P, NEW C, Stands(b, n, P, C), NEW mv, Moving(n, P, mv),
           NEW y, y.ent.pair \in PairsOf(n, P)
    PROVE  \A x : Extends(b, mv, y, x) <=> Onward(PairsOf(n, P), C, mv, y, x)
<1>1. PICK i \in 1 .. n : y.ent.pair = P[i]
  BY DEF PairsOf
<1>2. \A w : w \in Content(b, mv, y.ent.pair) <=>
          \E a, e : w = <<a, e>> /\ Lists(PairsOf(n, P), C, mv, y.ent.pair, a, e)
  BY <1>1, ContentIs
<1>3. ASSUME NEW x, Extends(b, mv, y, x) PROVE Onward(PairsOf(n, P), C, mv, y, x)
  <2>1. PICK w \in Content(b, mv, y.ent.pair) : x = [path |-> Append(y.path, w[1]), ent |-> w[2]]
    BY <1>3 DEF Extends
  <2>2. PICK a, e : w = <<a, e>> /\ Lists(PairsOf(n, P), C, mv, y.ent.pair, a, e)
    BY <1>2
  <2>3. x = [path |-> Append(y.path, a), ent |-> e]
    BY <2>1, <2>2
  <2> QED
    BY <1>3, <2>2, <2>3 DEF Extends, Onward
<1>4. ASSUME NEW x, Onward(PairsOf(n, P), C, mv, y, x) PROVE Extends(b, mv, y, x)
  <2>1. PICK a, e : Lists(PairsOf(n, P), C, mv, y.ent.pair, a, e) /\ x = [path |-> Append(y.path, a), ent |-> e]
    BY <1>4 DEF Onward
  <2> DEFINE w == <<a, e>>
  <2>2. w \in Content(b, mv, y.ent.pair) /\ w[1] = a /\ w[2] = e
    BY <1>2, <2>1
  <2> HIDE DEF w
  <2> QED
    BY <1>4, <2>1, <2>2 DEF Extends, Onward
<1> QED
  BY <1>3, <1>4

(* Threads that list the same. *)
SameLists(S, C, mv, S2, C2, mv2) ==
    \A x \in S \cap S2 : \A a, e : Lists(S, C, mv, x, a, e) <=> Lists(S2, C2, mv2, x, a, e)

(* An entry listed leads to a pair of the thread.                             *)
LEMMA ListsAim ==
    ASSUME NEW S, NEW Z, NEW C, Aims(S, Z, C), NEW mv, NEW x, NEW a, NEW e, Lists(S, C, mv, x, a, e), e.type = "dir"
    PROVE  e.pair \in S \ ({Root} \cup Z)
<1>1. PICK q \in S : Entry(C, mv, q, a, e)
  BY DEF Lists
<1> QED
  BY <1>1 DEF Entry, Aims

(* The tree is what the directories list: threads that list the same, hidden  *)
(* entries left out, have the same tree.                                      *)
LEMMA NodesAgree ==
    ASSUME NEW b, NEW n, NEW P, NEW C, Stands(b, n, P, C), NEW mv, Moving(n, P, mv),
           NEW b2, NEW n2, NEW P2, NEW C2, Stands(b2, n2, P2, C2), NEW mv2, Moving(n2, P2, mv2),
           SameLists(PairsOf(n, P), C, mv, PairsOf(n2, P2), C2, mv2)
    PROVE  Nodes(b, mv) = Nodes(b2, mv2)
<1> DEFINE D == Cardinality(Blocks) \div 2
           Both == PairsOf(n, P) \cap PairsOf(n2, P2)
           Inside(X) == \A y \in X : y.ent.type = "dir" => y.ent.pair \in Both
<1>1. Cardinality(Blocks) \in Nat /\ D \in Nat
  BY StandsIs
<1> HIDE DEF D
<1>2. PICK f : Levels(b, mv, f, D) /\ Nodes(b, mv) = f[D]
  BY <1>1, NodesLevels DEF D
<1>3. PICK g : Levels(b2, mv2, g, D) /\ Nodes(b2, mv2) = g[D]
  BY <1>1, NodesLevels DEF D
<1>4. ASSUME NEW y, y.ent.type = "dir" => y.ent.pair \in Both, NEW x
      PROVE  /\ Extends(b, mv, y, x) <=> Extends(b2, mv2, y, x)
             /\ Extends(b, mv, y, x) /\ x.ent.type = "dir" => x.ent.pair \in Both
  <2>1. CASE y.ent.type # "dir"
    BY <2>1 DEF Extends
  <2>2. CASE y.ent.type = "dir"
    <3>1. y.ent.pair \in PairsOf(n, P) /\ y.ent.pair \in PairsOf(n2, P2) /\ y.ent.pair \in Both
      BY <1>4, <2>2
    <3>2. Extends(b, mv, y, x) <=> Onward(PairsOf(n, P), C, mv, y, x)
      BY <3>1, OnwardIs
    <3>3. Extends(b2, mv2, y, x) <=> Onward(PairsOf(n2, P2), C2, mv2, y, x)
      BY <3>1, OnwardIs
    <3>4. \A a, e : Lists(PairsOf(n, P), C, mv, y.ent.pair, a, e) <=> Lists(PairsOf(n2, P2), C2, mv2, y.ent.pair, a, e)
      BY <3>1 DEF SameLists
    <3>5. Onward(PairsOf(n, P), C, mv, y, x) <=> Onward(PairsOf(n2, P2), C2, mv2, y, x)
      BY <3>4 DEF Onward
    <3>6. ASSUME Onward(PairsOf(n, P), C, mv, y, x), x.ent.type = "dir" PROVE x.ent.pair \in Both
      <4>1. PICK a, e : Lists(PairsOf(n, P), C, mv, y.ent.pair, a, e) /\ x.ent = e
        BY <3>6 DEF Onward
      <4>2. e.pair \in PairsOf(n, P)
        BY <3>6, <4>1, ListsAim DEF Stands
      <4>3. e.pair \in PairsOf(n2, P2)
        BY <3>4, <3>6, <4>1, ListsAim DEF Stands
      <4> QED
        BY <4>1, <4>2, <4>3
    <3> QED
      BY <3>2, <3>3, <3>5, <3>6
  <2> QED
    BY <2>1, <2>2
<1> DEFINE G == {k \in 0 .. D : f[k] = g[k] /\ Inside(f[k])}
<1>5. 0 \in G
  <2>1. RootNode.ent.type = "dir" /\ RootNode.ent.pair = Root
    BY DEF RootNode, Dir
  <2>2. Root \in PairsOf(n, P) /\ Root \in PairsOf(n2, P2)
    <3>1. P[1] = Root /\ n \in Nat \ {0} /\ P2[1] = Root /\ n2 \in Nat \ {0}
      BY StandsIs
    <3>2. 1 \in 1 .. n /\ 1 \in 1 .. n2
      BY <3>1
    <3> QED
      BY <3>1, <3>2 DEF PairsOf
  <2>3. f[0] = {RootNode} /\ g[0] = {RootNode}
    BY <1>2, <1>3 DEF Levels
  <2>4. 0 \in 0 .. D
    BY <1>1
  <2> QED
    BY <2>1, <2>2, <2>3, <2>4
<1>6. ASSUME NEW k \in 0 .. D - 1, k \in G PROVE k + 1 \in G
  <2>1. f[k + 1] = f[k] \cup Level(b, mv, f[k]) /\ g[k + 1] = g[k] \cup Level(b2, mv2, g[k])
    BY <1>2, <1>3 DEF Levels
  <2>2. \A y \in f[k] : \A x : Extends(b, mv, y, x) <=> Extends(b2, mv2, y, x)
    BY <1>4, <1>6
  <2>3. \A x : x \in Level(b, mv, f[k]) <=> x \in Level(b2, mv2, g[k])
    BY <1>6, <2>2, LevelIs
  <2>4. \A x \in Level(b, mv, f[k]) : x.ent.type = "dir" => x.ent.pair \in Both
    BY <1>4, <1>6, LevelIs
  <2>5. k + 1 \in 0 .. D
    BY <1>1
  <2> QED
    BY <1>6, <2>1, <2>3, <2>4, <2>5
<1>7. D \in G
  <2> HIDE DEF G
  <2>1. \A k \in 0 .. D : k \in G
    BY <1>1, <1>5, <1>6, UpTo
  <2> QED
    BY <1>1, <2>1
<1> QED
  BY <1>2, <1>3, <1>7

(* A pair that is split goes on in one of the thread,                         *)
LEMMA TailsIs ==
    ASSUME NEW n, NEW P, NEW C, Line(n, P, Along(n, P, C))
    PROVE  Tails(PairsOf(n, P), C)
<1> SUFFICES ASSUME NEW k \in 1 .. n, C[P[k]].split PROVE C[P[k]].tail \in PairsOf(n, P)
  BY DEF Tails, PairsOf
<1>1. n \in Nat \ {0} /\ C[P[n]].split = FALSE
  BY LineAlong
<1>2. k # n
  BY <1>1
<1>3. k \in 1 .. n - 1 /\ k + 1 \in 1 .. n
  BY <1>1, <1>2
<1> QED
  BY <1>3, LineTails DEF PairsOf

(* and no pair in itself.                                                     *)
LEMMA TailElse ==
    ASSUME NEW n, NEW P, NEW C, Line(n, P, Along(n, P, C)), NEW k \in 1 .. n
    PROVE  C[P[k]].tail # P[k]
<1>1. /\ n \in Nat \ {0} /\ C[P[n]].tail = NoPair /\ P \in [1 .. n -> Pairs]
      /\ \A j, l \in 1 .. n : P[j] = P[l] => j = l
  BY LineAlong
<1>2. P[k] # {}
  <2>1. P[k] \in Pairs
    BY <1>1
  <2> QED
    BY <2>1 DEF Pairs
<1>3. CASE k = n
  BY <1>1, <1>2, <1>3 DEF NoPair
<1>4. CASE k # n
  <2>1. k \in 1 .. n - 1 /\ k + 1 \in 1 .. n /\ k + 1 # k
    BY <1>1, <1>4
  <2> QED
    BY <1>1, <2>1, LineTails
<1> QED
  BY <1>3, <1>4

-----------------------------------------------------------------------------
(* What the directories of H list: an entry of a directory leads to one of H, *)
(* by no two entries to the same; a name is listed once.                      *)
Listing(H, S, C, mv) ==
    /\ Root \in H
    /\ \A x \in H : \A a, e : Lists(S, C, mv, x, a, e) => a \in Names /\ (e.type = "dir" => e.pair \in H \ {Root})
    /\ \A x, y \in H : \A a, c, e, f :
          Lists(S, C, mv, x, a, e) /\ Lists(S, C, mv, y, c, f) /\ e.type = "dir" /\ f.type = "dir" /\ e.pair = f.pair
             => x = y /\ a = c
    /\ \A x \in H : \A a, e, f : Lists(S, C, mv, x, a, e) /\ Lists(S, C, mv, x, a, f) => e = f

(* The nodes of such a tree: the least that has the root and goes on.         *)
Least(N, S, C, mv) ==
    /\ RootNode \in N
    /\ \A x \in N : x = RootNode \/ \E y \in N : Onward(S, C, mv, y, x)
    /\ \A T : RootNode \in T /\ (\A y \in T \cap N : \A x \in N : Onward(S, C, mv, y, x) => x \in T) => N \subseteq T
Grown(N, H, S, C, mv) ==
    /\ Listing(H, S, C, mv) /\ Least(N, S, C, mv)
    /\ \A y \in N : \A x : Onward(S, C, mv, y, x) => x \in N

(* A node is a path of names to an entry.                                     *)
LEMMA LeastTyped ==
    ASSUME NEW N, NEW H, NEW S, NEW C, NEW mv, Listing(H, S, C, mv), Least(N, S, C, mv)
    PROVE  \A x \in N : x = [path |-> x.path, ent |-> x.ent] /\ x.path \in Seq(Names)
                        /\ (x.ent.type = "dir" => x.ent.pair \in H)
<1> DEFINE T == {x \in N : /\ x = [path |-> x.path, ent |-> x.ent] /\ x.path \in Seq(Names)
                           /\ (x.ent.type = "dir" => x.ent.pair \in H)}
<1>1. RootNode \in T
  <2>1. RootNode \in N /\ Root \in H
    BY DEF Least, Listing
  <2>2. RootNode = [path |-> RootNode.path, ent |-> RootNode.ent] /\ RootNode.path = << >> /\ RootNode.ent.pair = Root
    BY DEF RootNode, Dir
  <2>3. RootNode.path \in Seq(Names)
    BY <2>2
  <2> HIDE DEF RootNode
  <2> QED
    BY <2>1, <2>2, <2>3, Zenon
<1>2. ASSUME NEW y \in T \cap N, NEW x \in N, Onward(S, C, mv, y, x) PROVE x \in T
  <2>1. PICK a, e : Lists(S, C, mv, y.ent.pair, a, e) /\ x = [path |-> Append(y.path, a), ent |-> e]
    BY <1>2 DEF Onward
  <2>2. y.ent.pair \in H
    BY <1>2 DEF Onward
  <2>3. a \in Names /\ (e.type = "dir" => e.pair \in H)
    BY <2>1, <2>2 DEF Listing
  <2>4. Append(y.path, a) \in Seq(Names)
    BY <2>3
  <2> QED
    BY <2>1, <2>3, <2>4
<1>3. N \subseteq T
  <2> HIDE DEF T
  <2> QED
    BY <1>1, <1>2 DEF Least
<1> QED
  BY <1>3 DEF T

(* Of two steps to the same path or directory, the last entry is the same.    *)
LEMMA OnwardOnce ==
    ASSUME NEW H, NEW S, NEW C, NEW mv, Listing(H, S, C, mv), NEW y, NEW z, NEW x, NEW w,
           y.path \in Seq(Names), z.path \in Seq(Names), y.ent.pair \in H, z.ent.pair \in H,
           Onward(S, C, mv, y, x), Onward(S, C, mv, z, w)
    PROVE  /\ x.path = w.path => y.path = z.path
           /\ x.path = w.path /\ y.ent.pair = z.ent.pair => x = w
           /\ x.ent.type = "dir" /\ w.ent.type = "dir" /\ x.ent.pair = w.ent.pair => y.ent.pair = z.ent.pair
           /\ x.ent.type = "dir" /\ w.ent.type = "dir" /\ x.ent.pair = w.ent.pair /\ y.path = z.path => x = w
<1>1. PICK a, e : Lists(S, C, mv, y.ent.pair, a, e) /\ x = [path |-> Append(y.path, a), ent |-> e]
  BY DEF Onward
<1>2. PICK c, f : Lists(S, C, mv, z.ent.pair, c, f) /\ w = [path |-> Append(z.path, c), ent |-> f]
  BY DEF Onward
<1>3. a \in Names /\ c \in Names
  BY <1>1, <1>2 DEF Listing
<1>4. Append(y.path, a) = Append(z.path, c) => y.path = z.path /\ a = c
  BY <1>3
<1>5. y.ent.pair = z.ent.pair /\ a = c => e = f
  BY <1>1, <1>2 DEF Listing
<1>6. e.type = "dir" /\ f.type = "dir" /\ e.pair = f.pair => y.ent.pair = z.ent.pair /\ a = c
  BY <1>1, <1>2 DEF Listing
<1> QED
  BY <1>1, <1>2, <1>4, <1>5, <1>6

(* A path leads to one node, a directory has one path.                        *)
LEMMA NodeOnce ==
    ASSUME NEW N, NEW H, NEW S, NEW C, NEW mv, Listing(H, S, C, mv), Least(N, S, C, mv)
    PROVE  /\ \A x, y \in N : x.path = y.path => x = y
           /\ \A x, y \in N : x.ent.type = "dir" /\ y.ent.type = "dir" /\ x.ent.pair = y.ent.pair => x = y
<1>1. \A x \in N : x.path \in Seq(Names) /\ (x.ent.type = "dir" => x.ent.pair \in H)
  BY LeastTyped
<1>2. RootNode.path = << >> /\ RootNode.ent.type = "dir" /\ RootNode.ent.pair = Root
  BY DEF RootNode, Dir
<1>3. ASSUME NEW y \in N, NEW x, Onward(S, C, mv, y, x)
      PROVE  y.ent.type = "dir" /\ x.path # << >> /\ (x.ent.type = "dir" => x.ent.pair # Root)
  <2>1. PICK a, e : Lists(S, C, mv, y.ent.pair, a, e) /\ x = [path |-> Append(y.path, a), ent |-> e]
    BY <1>3 DEF Onward
  <2>2. y.ent.type = "dir" /\ y.ent.pair \in H
    BY <1>1, <1>3 DEF Onward
  <2>3. a \in Names /\ (e.type = "dir" => e.pair # Root)
    BY <2>1, <2>2 DEF Listing
  <2>4. Append(y.path, a) # << >>
    BY <1>1, <2>3
  <2> QED
    BY <2>1, <2>2, <2>3, <2>4
<1> DEFINE Alone(x) == \A y \in N : \/ x.path = y.path
                                    \/ x.ent.type = "dir" /\ y.ent.type = "dir" /\ x.ent.pair = y.ent.pair
                                    => x = y
           T == {x \in N : Alone(x)}
<1>4. RootNode \in T
  <2>1. RootNode \in N
    BY DEF Least
  <2>2. ASSUME NEW y \in N, y # RootNode PROVE y.path # << >> /\ (y.ent.type = "dir" => y.ent.pair # Root)
    BY <1>3, <2>2 DEF Least
  <2> QED
    BY <1>2, <2>1, <2>2
<1>5. ASSUME NEW y \in T \cap N, NEW x \in N, Onward(S, C, mv, y, x) PROVE x \in T
  <2> SUFFICES ASSUME NEW w \in N, \/ x.path = w.path
                                   \/ x.ent.type = "dir" /\ w.ent.type = "dir" /\ x.ent.pair = w.ent.pair
               PROVE  x = w
    OBVIOUS
  <2>1. w # RootNode
    BY <1>2, <1>3, <1>5
  <2>2. PICK z \in N : Onward(S, C, mv, z, w)
    BY <2>1 DEF Least
  <2>3. /\ y.ent.type = "dir" /\ z.ent.type = "dir" /\ y.path \in Seq(Names) /\ z.path \in Seq(Names)
        /\ y.ent.pair \in H /\ z.ent.pair \in H
    BY <1>1, <1>3, <1>5, <2>2
  <2>4. Alone(y)
    BY <1>5
  <2> HIDE DEF T
  <2>5. CASE x.path = w.path
    <3>1. y.path = z.path
      BY <1>5, <2>2, <2>3, <2>5, OnwardOnce
    <3>2. y = z
      BY <2>4, <3>1
    <3> QED
      BY <1>5, <2>2, <2>3, <2>5, <3>2, OnwardOnce
  <2>6. CASE x.ent.type = "dir" /\ w.ent.type = "dir" /\ x.ent.pair = w.ent.pair
    <3>1. y.ent.pair = z.ent.pair
      BY <1>5, <2>2, <2>3, <2>6, OnwardOnce
    <3>2. y = z
      BY <2>3, <2>4, <3>1
    <3> QED
      BY <1>5, <2>2, <2>3, <2>6, <3>2, OnwardOnce
  <2> QED
    BY <2>5, <2>6
<1>6. N \subseteq T
  <2> HIDE DEF T
  <2> QED
    BY <1>4, <1>5 DEF Least
<1> QED
  BY <1>6

(* The nodes read of a disk.                                                  *)
LEMMA NodesGrown ==
    ASSUME NEW b, NEW n, NEW P, NEW C, Stands(b, n, P, C), NEW mv, Moving(n, P, mv),
           NEW H, H \subseteq PairsOf(n, P), Listing(H, PairsOf(n, P), C, mv)
    PROVE  Grown(Nodes(b, mv), H, PairsOf(n, P), C, mv)
<1> DEFINE S == PairsOf(n, P)
           N == Nodes(b, mv)
           In(x) == x.ent.type = "dir" => x.ent.pair \in H
<1>1. Cardinality(Blocks) \in Nat
  BY StandsIs
<1>2. ASSUME NEW y, In(y), NEW x
      PROVE  (Extends(b, mv, y, x) <=> Onward(S, C, mv, y, x)) /\ (Onward(S, C, mv, y, x) => In(x))
  <2>1. CASE y.ent.type # "dir"
    BY <2>1 DEF Extends, Onward
  <2>2. CASE y.ent.type = "dir"
    <3>1. y.ent.pair \in H /\ y.ent.pair \in S
      BY <1>2, <2>2
    <3>2. Extends(b, mv, y, x) <=> Onward(S, C, mv, y, x)
      BY <3>1, OnwardIs
    <3>3. Onward(S, C, mv, y, x) => In(x)
      BY <3>1 DEF Onward, Listing
    <3> QED
      BY <3>2, <3>3
  <2> QED
    BY <2>1, <2>2
<1>3. In(RootNode) /\ RootNode \in N
  BY <1>1, NodesDown DEF RootNode, Dir, Listing
<1> HIDE DEF S, N
<1>4. \A x \in N : In(x)
  <2> DEFINE T == {x \in N : In(x)}
  <2>1. RootNode \in T
    BY <1>3
  <2>2. \A y \in T \cap N : \A x \in N : Extends(b, mv, y, x) => x \in T
    BY <1>2
  <2> HIDE DEF T
  <2>3. N \subseteq T
    BY <1>1, <2>1, <2>2, NodesInduct DEF N
  <2> QED
    BY <2>3 DEF T
<1> HIDE DEF In
<1>5. Least(N, S, C, mv)
  <2>1. \A x \in N : x = RootNode \/ \E y \in N : Onward(S, C, mv, y, x)
    BY <1>1, <1>2, <1>4, NodesDown DEF N
  <2>2. ASSUME NEW T, RootNode \in T, \A y \in T \cap N : \A x \in N : Onward(S, C, mv, y, x) => x \in T
        PROVE  N \subseteq T
    <3>1. \A y \in T \cap N : \A x \in N : Extends(b, mv, y, x) => x \in T
      BY <1>2, <1>4, <2>2
    <3> QED
      BY <1>1, <2>2, <3>1, NodesInduct DEF N
  <2> QED
    BY <1>3, <2>1, <2>2 DEF Least
<1>6. Listing(H, S, C, mv)
  BY DEF S
<1>7. Deep(b, mv, N)
  <2>1. Line(n, P, Along(n, P, C))
    BY DEF Stands
  <2>2. IsFiniteSet(S) /\ Cardinality(S) <= Cardinality(Blocks) \div 2
    BY <2>1, LineHalf DEF S
  <2>3. DirPairs(N) \subseteq S
    BY <1>4 DEF DirPairs, In, S
  <2> QED
    BY <1>1, <2>2, <2>3, NodesFull DEF N
<1>8. ASSUME NEW y \in N, NEW x, Onward(S, C, mv, y, x) PROVE x \in N
  <2>1. y.ent.type = "dir"
    BY <1>8 DEF Onward
  <2>2. PICK z \in N : /\ z.ent.type = "dir" /\ z.ent.pair = y.ent.pair
                       /\ \A w : Extends(b, mv, z, w) => w \in N
    BY <1>7, <2>1 DEF Deep
  <2>3. z = y
    BY <1>5, <1>6, <2>1, <2>2, NodeOnce
  <2>4. Extends(b, mv, y, x)
    BY <1>2, <1>4, <1>8
  <2> QED
    BY <2>2, <2>3, <2>4
<1> QED
  BY <1>5, <1>6, <1>8 DEF Grown, S, N
(* A path that starts with another, element by element.                       *)
LEMMA PrefixIs ==
    ASSUME NEW X, NEW s \in Seq(X), NEW t \in Seq(X)
    PROVE  IsPrefix(s, t) <=> Len(s) <= Len(t) /\ \A i \in 1 .. Len(s) : s[i] = t[i]
<1>1. Len(s) \in Nat /\ Len(t) \in Nat
  OBVIOUS
<1> SUFFICES ASSUME Len(s) <= Len(t)
             PROVE  SubSeq(s, 1, Len(s)) = SubSeq(t, 1, Len(s)) <=> \A i \in 1 .. Len(s) : s[i] = t[i]
  BY DEF IsPrefix
<1>2. (\A i \in 1 .. Len(s) : s[i] \in X) /\ \A i \in 1 .. Len(s) : t[i] \in X
  BY <1>1
<1>3. /\ SubSeq(s, 1, Len(s)) \in Seq(X) /\ Len(SubSeq(s, 1, Len(s))) = Len(s)
      /\ \A i \in 1 .. Len(s) : SubSeq(s, 1, Len(s))[i] = s[i]
  BY <1>1, <1>2, SubSeqProperties
<1>4. /\ SubSeq(t, 1, Len(s)) \in Seq(X) /\ Len(SubSeq(t, 1, Len(s))) = Len(s)
      /\ \A i \in 1 .. Len(s) : SubSeq(t, 1, Len(s))[i] = t[i]
  BY <1>1, <1>2, SubSeqProperties
<1>5. ASSUME \A i \in 1 .. Len(s) : s[i] = t[i] PROVE SubSeq(s, 1, Len(s)) = SubSeq(t, 1, Len(s))
  BY <1>3, <1>4, <1>5, SeqEqual
<1> QED
  BY <1>3, <1>4, <1>5

(* Every path starts with itself.                                             *)
LEMMA PrefixSelf == ASSUME NEW X, NEW s \in Seq(X) PROVE IsPrefix(s, s)
<1>1. Len(s) \in Nat
  OBVIOUS
<1> QED
  BY <1>1 DEF IsPrefix

(* What a path one longer starts with.                                        *)
LEMMA PrefixStep ==
    ASSUME NEW X, NEW s \in Seq(X), NEW t \in Seq(X), NEW a \in X
    PROVE  /\ IsPrefix(s, Append(t, a)) <=> IsPrefix(s, t) \/ s = Append(t, a)
           /\ IsPrefix(s, s) /\ ~IsPrefix(Append(t, a), t) /\ ~IsPrefix(Append(t, a), << >>)
<1> DEFINE u == Append(t, a)
<1>1. /\ Len(s) \in Nat /\ Len(t) \in Nat /\ u \in Seq(X) /\ Len(u) = Len(t) + 1
      /\ \A i \in 1 .. Len(t) : u[i] = t[i]
  BY AppendProperties
<1> HIDE DEF u
<1>2. IsPrefix(s, u) <=> Len(s) <= Len(u) /\ \A i \in 1 .. Len(s) : s[i] = u[i]
  BY <1>1, PrefixIs
<1>3. IsPrefix(s, t) <=> Len(s) <= Len(t) /\ \A i \in 1 .. Len(s) : s[i] = t[i]
  BY PrefixIs
<1>4. IsPrefix(s, t) => IsPrefix(s, u)
  BY <1>1, <1>2, <1>3
<1>5. s = u => IsPrefix(s, u)
  BY <1>1, <1>2
<1>6. ASSUME IsPrefix(s, u), ~IsPrefix(s, t) PROVE s = u
  <2>1. Len(s) = Len(u)
    BY <1>1, <1>2, <1>3, <1>6
  <2> QED
    BY <1>1, <1>2, <1>6, <2>1, SeqEqual
<1>7. IsPrefix(s, s)
  BY PrefixIs
<1>8. ~IsPrefix(u, t)
  BY <1>1, PrefixIs
<1>9. ~IsPrefix(u, << >>)
  <2>1. Len(<< >>) = 0 /\ ~(Len(u) <= 0)
    BY <1>1
  <2> QED
    BY <2>1, Zenon DEF IsPrefix
<1> QED
  BY <1>4, <1>5, <1>6, <1>7, <1>8, <1>9 DEF u

(* What is under p goes under q.                                              *)
Carried(p, q, t) == q \o SubSeq(t, Len(p) + 1, Len(t))

(* ... the path p itself to q, a longer one by the same names.                *)
LEMMA CarriedIs ==
    ASSUME NEW X, NEW p \in Seq(X), NEW q \in Seq(X), NEW t \in Seq(X), NEW a \in X, IsPrefix(p, t)
    PROVE  /\ Carried(p, q, p) = q /\ Carried(p, q, t) \in Seq(X)
           /\ Carried(p, q, Append(t, a)) = Append(Carried(p, q, t), a)
<1> DEFINE u == Append(t, a)
           v == SubSeq(t, Len(p) + 1, Len(t))
           w == SubSeq(u, Len(p) + 1, Len(u))
           m == Len(t) - Len(p)
<1>1. Len(p) \in Nat /\ Len(q) \in Nat /\ Len(t) \in Nat /\ Len(p) <= Len(t) /\ m \in Nat
  BY DEF IsPrefix
<1>2. /\ u \in Seq(X) /\ Len(u) = Len(t) + 1 /\ u[Len(t) + 1] = a
      /\ \A i \in 1 .. Len(t) : u[i] = t[i]
  BY AppendProperties
<1> HIDE DEF u
<1>3. Carried(p, q, p) = q
  <2>1. SubSeq(p, Len(p) + 1, Len(p)) = << >>
    BY <1>1, SubSeqEmpty
  <2> QED
    BY <2>1, ConcatEmptySeq DEF Carried
<1>4. /\ v \in Seq(X) /\ Len(v) = m /\ \A i \in 1 .. m : v[i] = t[Len(p) + i]
  <2>1. \A i \in Len(p) + 1 .. Len(t) : t[i] \in X
    BY <1>1
  <2>2. /\ v \in Seq(X) /\ Len(v) = IF Len(p) + 1 <= Len(t) THEN Len(t) - (Len(p) + 1) + 1 ELSE 0
        /\ \A i \in 1 .. Len(t) - (Len(p) + 1) + 1 : v[i] = t[Len(p) + 1 + i - 1]
    BY <1>1, <2>1, SubSeqProperties
  <2> HIDE DEF v
  <2> QED
    BY <1>1, <2>2
<1>5. /\ w \in Seq(X) /\ Len(w) = m + 1 /\ \A i \in 1 .. m + 1 : w[i] = u[Len(p) + i]
  <2>1. \A i \in Len(p) + 1 .. Len(u) : u[i] \in X
    BY <1>1, <1>2
  <2>2. /\ w \in Seq(X) /\ Len(w) = IF Len(p) + 1 <= Len(u) THEN Len(u) - (Len(p) + 1) + 1 ELSE 0
        /\ \A i \in 1 .. Len(u) - (Len(p) + 1) + 1 : w[i] = u[Len(p) + 1 + i - 1]
    BY <1>1, <1>2, <2>1, SubSeqProperties
  <2>3. Len(p) + 1 <= Len(u) /\ Len(u) - (Len(p) + 1) + 1 = m + 1
    BY <1>1, <1>2
  <2>4. ASSUME NEW i \in 1 .. m + 1 PROVE Len(p) + 1 + i - 1 = Len(p) + i
    BY <1>1
  <2> HIDE DEF w, m
  <2> QED
    BY <2>2, <2>3, <2>4
<1> HIDE DEF v, w, m
<1>6. w = Append(v, a)
  <2>1. /\ Append(v, a) \in Seq(X) /\ Len(Append(v, a)) = m + 1 /\ Append(v, a)[m + 1] = a
        /\ \A i \in 1 .. m : Append(v, a)[i] = v[i]
    BY <1>4, AppendProperties
  <2>2. ASSUME NEW i \in 1 .. m + 1 PROVE w[i] = Append(v, a)[i]
    <3>1. CASE i = m + 1
      <4>1. Len(p) + (m + 1) = Len(t) + 1
        BY <1>1 DEF m
      <4> QED
        BY <1>1, <1>2, <1>5, <2>1, <3>1, <4>1
    <3>2. CASE i # m + 1
      <4>1. i \in 1 .. m /\ Len(p) + i \in 1 .. Len(t)
        BY <1>1, <3>2 DEF m
      <4> QED
        BY <1>1, <1>2, <1>4, <1>5, <2>1, <4>1
    <3> QED
      BY <3>1, <3>2
  <2> QED
    BY <1>1, <1>5, <2>1, <2>2, SeqEqual
<1>7. q \o v \in Seq(X)
  BY <1>4, ConcatProperties
<1>8. Append(q \o v, a) = q \o Append(v, a)
  <2>1. <<a>> \in Seq(X)
    OBVIOUS
  <2>2. Append(q \o v, a) = (q \o v) \o <<a>> /\ Append(v, a) = v \o <<a>>
    BY <1>4, <1>7, AppendIsConcat
  <2>3. (q \o v) \o <<a>> = q \o (v \o <<a>>)
    BY <1>4, <2>1, ConcatAssociative
  <2> QED
    BY <2>2, <2>3
<1> QED
  BY <1>3, <1>6, <1>7, <1>8 DEF Carried, u, v, w
-----------------------------------------------------------------------------
(* Entry e by name a of the directory at node d.                              *)
Node(d, a, e) == [path |-> Append(d.path, a), ent |-> e]

(* What the nodes have in common with what directories list.                  *)
LEMMA GrownIs ==
    ASSUME NEW N, NEW H, NEW S, NEW C, NEW mv, Grown(N, H, S, C, mv)
    PROVE  /\ \A x \in N : x.path \in Seq(Names) /\ (x.ent.type = "dir" => x.ent.pair \in H)
           /\ \A x \in N : x = [path |-> x.path, ent |-> x.ent]
           /\ \A x, y \in N : x.path = y.path => x = y
           /\ \A x, y \in N : x.ent.type = "dir" /\ y.ent.type = "dir" /\ x.ent.pair = y.ent.pair => x = y
           /\ \A y \in N : \A a, e : y.ent.type = "dir" /\ Lists(S, C, mv, y.ent.pair, a, e)
                  => a \in Names /\ Node(y, a, e) \in N
           /\ RootNode \in N
<1>1. Listing(H, S, C, mv) /\ Least(N, S, C, mv)
  BY DEF Grown
<1>2. ASSUME NEW y \in N, NEW a, NEW e, y.ent.type = "dir", Lists(S, C, mv, y.ent.pair, a, e)
      PROVE  a \in Names /\ Node(y, a, e) \in N
  <2>1. Onward(S, C, mv, y, Node(y, a, e))
    BY <1>2 DEF Onward, Node
  <2>2. y.ent.pair \in H
    BY <1>1, <1>2, LeastTyped
  <2> QED
    BY <1>2, <2>1, <2>2 DEF Grown, Listing
<1>3. RootNode \in N
  BY DEF Grown, Least
<1> QED
  BY <1>1, <1>2, <1>3, LeastTyped, NodeOnce

(* What the root has, and is handed on, all nodes have.                       *)
LEMMA GrownInduct ==
    ASSUME NEW N, NEW H, NEW S, NEW C, NEW mv, Grown(N, H, S, C, mv), NEW T, RootNode \in T,
           \A y \in N : \A a, e : y \in T /\ y.ent.type = "dir" /\ Lists(S, C, mv, y.ent.pair, a, e)
               => Node(y, a, e) \in T
    PROVE  N \subseteq T
<1>1. ASSUME NEW y \in T \cap N, NEW x \in N, Onward(S, C, mv, y, x) PROVE x \in T
  BY <1>1 DEF Onward, Node
<1> QED
  BY <1>1 DEF Grown, Least

(* The root is not below any directory.                                       *)
LEMMA RootIs == RootNode.path = << >> /\ RootNode.ent.type = "dir" /\ RootNode.ent.pair = Root
  BY DEF RootNode, Dir

(* The nodes stay when the directories list the same.                         *)
LEMMA GrownSame ==
    ASSUME NEW N, NEW H, NEW S, NEW C, NEW mv, Grown(N, H, S, C, mv),
           NEW H1, NEW S1, NEW C1, NEW mv1, Listing(H1, S1, C1, mv1), H \subseteq H1,
           \A x \in H : \A a, e : Lists(S, C, mv, x, a, e) <=> Lists(S1, C1, mv1, x, a, e)
    PROVE  Grown(N, H1, S1, C1, mv1)
<1>1. ASSUME NEW y \in N, NEW x PROVE Onward(S, C, mv, y, x) <=> Onward(S1, C1, mv1, y, x)
  <2>1. y.ent.type = "dir" => y.ent.pair \in H
    BY GrownIs
  <2> QED
    BY <2>1 DEF Onward
<1>2. Least(N, S, C, mv) /\ \A y \in N : \A x : Onward(S, C, mv, y, x) => x \in N
  BY DEF Grown
<1>3. Least(N, S1, C1, mv1)
  <2>1. ASSUME NEW T, RootNode \in T, \A y \in T \cap N : \A x \in N : Onward(S1, C1, mv1, y, x) => x \in T
        PROVE  N \subseteq T
    <3>1. \A y \in T \cap N : \A x \in N : Onward(S, C, mv, y, x) => x \in T
      BY <1>1, <2>1
    <3> QED
      BY <1>2, <2>1, <3>1 DEF Least
  <2>2. RootNode \in N /\ \A x \in N : x = RootNode \/ \E y \in N : Onward(S1, C1, mv1, y, x)
    BY <1>1, <1>2 DEF Least
  <2> QED
    BY <2>1, <2>2 DEF Least
<1> QED
  BY <1>1, <1>2, <1>3 DEF Grown

(* A node is an entry of the directory that its path goes through last.       *)
LEMMA NodeBy ==
    ASSUME NEW N, NEW H, NEW S, NEW C, NEW mv, Grown(N, H, S, C, mv), NEW d \in N, NEW a0 \in Names,
           NEW x \in N, x.path = Append(d.path, a0)
    PROVE  d.ent.type = "dir" /\ Lists(S, C, mv, d.ent.pair, a0, x.ent) /\ x = Node(d, a0, x.ent)
<1>1. \A y \in N : y.path \in Seq(Names)
  BY GrownIs
<1>2. \A y, z \in N : y.path = z.path => y = z
  BY GrownIs
<1>3. x # RootNode
  BY <1>1, RootIs
<1>4. PICK y \in N : Onward(S, C, mv, y, x)
  BY <1>3 DEF Grown, Least
<1>5. PICK a, e : y.ent.type = "dir" /\ Lists(S, C, mv, y.ent.pair, a, e) /\ x = Node(y, a, e)
  BY <1>4 DEF Onward, Node
<1>6. a \in Names /\ Append(y.path, a) = Append(d.path, a0) /\ x.ent = e
  BY <1>5, GrownIs DEF Node
<1>7. y.path = d.path /\ a = a0
  <2>1. y.path \in Seq(Names) /\ d.path \in Seq(Names) /\ a \in Names
    BY <1>1, <1>6
  <2> QED
    BY <1>6, <2>1, AppendInjective
<1>8. y = d
  BY <1>2, <1>7
<1> QED
  BY <1>5, <1>6, <1>7, <1>8

(* How what directory x0 lists by name a0 may change: it gains the name, or   *)
(* loses it.                                                                  *)
Gains(H, S, C, mv, C1, mv1, x0, a0, e0) == \A x \in H : \A a, e :
    Lists(S, C1, mv1, x, a, e) <=> Lists(S, C, mv, x, a, e) \/ (x = x0 /\ a = a0 /\ e = e0)
Loses(H, S, C, mv, C1, mv1, x0, a0) == \A x \in H : \A a, e :
    Lists(S, C1, mv1, x, a, e) <=> Lists(S, C, mv, x, a, e) /\ ~(x = x0 /\ a = a0)
Barren(S, C, mv, e) == e.type = "dir" => \A a, f : ~Lists(S, C, mv, e.pair, a, f)

(* A name that a directory gains is one node more.                            *)
LEMMA NodesAdd ==
    ASSUME NEW N, NEW N1, NEW H, NEW S, NEW C, NEW mv, NEW C1, NEW mv1,
           Grown(N, H, S, C, mv), Grown(N1, H, S, C1, mv1), NEW d \in N, d.ent.type = "dir",
           NEW a0 \in Names, NEW e0, Gains(H, S, C, mv, C1, mv1, d.ent.pair, a0, e0), Barren(S, C1, mv1, e0),
           \A e : ~Lists(S, C, mv, d.ent.pair, a0, e)
    PROVE  N1 = N \cup {Node(d, a0, e0)} /\ \A x \in N : x.path # Append(d.path, a0)
<1> DEFINE new == Node(d, a0, e0)
<1>1. \A x \in N : x.path \in Seq(Names) /\ (x.ent.type = "dir" => x.ent.pair \in H)
  BY GrownIs
<1>2. \A x, y \in N : x.path = y.path => x = y
  BY GrownIs
<1>3. \A x, y \in N : x.ent.type = "dir" /\ y.ent.type = "dir" /\ x.ent.pair = y.ent.pair => x = y
  BY GrownIs
<1>4. \A y \in N : \A a, e : y.ent.type = "dir" /\ Lists(S, C, mv, y.ent.pair, a, e)
          => a \in Names /\ Node(y, a, e) \in N
  BY GrownIs
<1>5. /\ RootNode \in N1
      /\ \A y \in N1 : \A a, e : y.ent.type = "dir" /\ Lists(S, C1, mv1, y.ent.pair, a, e) => Node(y, a, e) \in N1
  BY GrownIs
<1>6. RootNode \in N
  BY GrownIs
<1>7. N \subseteq N1
  <2>1. ASSUME NEW y \in N, NEW a, NEW e, y \in N1, y.ent.type = "dir", Lists(S, C, mv, y.ent.pair, a, e)
        PROVE  Node(y, a, e) \in N1
    BY <1>1, <1>5, <2>1 DEF Gains
  <2> QED
    BY <1>5, <2>1, GrownInduct
<1>8. new \in N1
  <2>1. Lists(S, C1, mv1, d.ent.pair, a0, e0)
    BY <1>1 DEF Gains
  <2> QED
    BY <1>5, <1>7, <2>1
<1>9. N1 \subseteq N \cup {new}
  <2>1. ASSUME NEW y \in N1, NEW a, NEW e, y \in N \cup {new}, y.ent.type = "dir", Lists(S, C1, mv1, y.ent.pair, a, e)
        PROVE  Node(y, a, e) \in N \cup {new}
    <3>1. CASE y = new
      BY <2>1, <3>1 DEF Node, Barren
    <3>2. CASE y \in N
      <4>1. CASE Lists(S, C, mv, y.ent.pair, a, e)
        BY <1>4, <2>1, <3>2, <4>1
      <4>2. CASE y.ent.pair = d.ent.pair /\ a = a0 /\ e = e0
        BY <1>3, <2>1, <3>2, <4>2
      <4> QED
        BY <1>1, <2>1, <3>2, <4>1, <4>2 DEF Gains
    <3> QED
      BY <2>1, <3>1, <3>2
  <2> HIDE DEF new
  <2>2. RootNode \in N \cup {new}
    BY <1>6
  <2> DEFINE T == N \cup {new}
  <2>3. \A y \in N1 : \A a, e : y \in T /\ y.ent.type = "dir" /\ Lists(S, C1, mv1, y.ent.pair, a, e)
            => Node(y, a, e) \in T
    BY <2>1
  <2>4. RootNode \in T
    BY <2>2
  <2> HIDE DEF T
  <2>5. N1 \subseteq T
    BY <2>3, <2>4, GrownInduct
  <2> QED
    BY <2>5 DEF T
<1>10. \A x \in N : x.path # Append(d.path, a0)
  BY NodeBy
<1> QED
  BY <1>7, <1>8, <1>9, <1>10
(* With nothing in a directory no path goes through it.                       *)
LEMMA NodeEmpty ==
    ASSUME NEW N, NEW H, NEW S, NEW C, NEW mv, Grown(N, H, S, C, mv), NEW x \in N, Barren(S, C, mv, x.ent)
    PROVE  \A y \in N : IsPrefix(x.path, y.path) => y = x
<1>1. /\ \A y \in N : y.path \in Seq(Names)
      /\ \A y, z \in N : y.path = z.path => y = z
  BY GrownIs
<1>2. \A y \in N : \A a, e : y.ent.type = "dir" /\ Lists(S, C, mv, y.ent.pair, a, e)
          => a \in Names /\ Node(y, a, e) \in N
  BY GrownIs
<1>3. RootNode \in N
  BY GrownIs
<1> DEFINE T == {y \in N : IsPrefix(x.path, y.path) => y = x}
<1>4. RootNode \in T
  <2>1. ASSUME IsPrefix(x.path, << >>) PROVE x.path = << >>
    <3>1. Len(x.path) <= 0 /\ x.path \in Seq(Names)
      BY <1>1, <2>1 DEF IsPrefix
    <3> QED
      BY <3>1
  <2> QED
    BY <1>1, <1>3, <2>1, RootIs
<1>5. ASSUME NEW y \in N, NEW a, NEW e, y \in T, y.ent.type = "dir", Lists(S, C, mv, y.ent.pair, a, e)
      PROVE  Node(y, a, e) \in T
  <2>1. a \in Names /\ Node(y, a, e) \in N
    BY <1>2, <1>5
  <2>2. y # x
    BY <1>5 DEF Barren
  <2>3. ~IsPrefix(x.path, y.path)
    BY <1>5, <2>2
  <2>4. IsPrefix(x.path, Append(y.path, a)) => x.path = Append(y.path, a)
    BY <1>1, <2>1, <2>3, PrefixStep
  <2>5. Node(y, a, e).path = Append(y.path, a)
    BY DEF Node
  <2> QED
    BY <1>1, <2>1, <2>4, <2>5
<1> HIDE DEF T
<1>6. N \subseteq T
  BY <1>4, <1>5, GrownInduct
<1> QED
  BY <1>6 DEF T

(* A name that a directory loses is one node less, if there is none below.    *)
LEMMA NodesRemove ==
    ASSUME NEW N, NEW N1, NEW H, NEW S, NEW C, NEW mv, NEW C1, NEW mv1,
           Grown(N, H, S, C, mv), Grown(N1, H, S, C1, mv1), NEW d \in N, d.ent.type = "dir",
           NEW a0 \in Names, NEW e0, Loses(H, S, C, mv, C1, mv1, d.ent.pair, a0), Barren(S, C, mv, e0),
           Lists(S, C, mv, d.ent.pair, a0, e0)
    PROVE  /\ Node(d, a0, e0) \in N /\ N1 = N \ {Node(d, a0, e0)}
           /\ \A x \in N : IsPrefix(Append(d.path, a0), x.path) => x = Node(d, a0, e0)
<1> DEFINE old == Node(d, a0, e0)
<1>1. \A x \in N : x.path \in Seq(Names) /\ (x.ent.type = "dir" => x.ent.pair \in H)
  BY GrownIs
<1>2. \A y \in N : \A a, e : y.ent.type = "dir" /\ Lists(S, C, mv, y.ent.pair, a, e)
          => a \in Names /\ Node(y, a, e) \in N
  BY GrownIs
<1>3. /\ RootNode \in N1
      /\ \A y \in N1 : \A a, e : y.ent.type = "dir" /\ Lists(S, C1, mv1, y.ent.pair, a, e) => Node(y, a, e) \in N1
  BY GrownIs
<1>4. RootNode \in N /\ old \in N
  BY <1>2, GrownIs
<1>5. old.path = Append(d.path, a0) /\ old.ent = e0
  BY DEF Node
<1> HIDE DEF old
<1>6. \A x \in N : IsPrefix(Append(d.path, a0), x.path) => x = old
  <2>1. Barren(S, C, mv, old.ent)
    BY <1>5
  <2>2. \A x \in N : IsPrefix(old.path, x.path) => x = old
    BY <1>4, <2>1, NodeEmpty
  <2> QED
    BY <1>5, <2>2
<1>7. N1 \subseteq N
  <2>1. ASSUME NEW y \in N1, NEW a, NEW e, y \in N, y.ent.type = "dir", Lists(S, C1, mv1, y.ent.pair, a, e)
        PROVE  Node(y, a, e) \in N
    BY <1>1, <1>2, <2>1 DEF Loses
  <2> QED
    BY <1>4, <2>1, GrownInduct
<1>8. old \notin N1
  <2> SUFFICES ASSUME old \in N1 PROVE FALSE
    OBVIOUS
  <2>1. old # RootNode
    BY <1>1, <1>5, RootIs
  <2>2. PICK y \in N1 : Onward(S, C1, mv1, y, old)
    BY <2>1 DEF Grown, Least
  <2>3. PICK a, e : y.ent.type = "dir" /\ Lists(S, C1, mv1, y.ent.pair, a, e) /\ old = Node(y, a, e)
    BY <2>2 DEF Onward, Node
  <2>4. y \in N /\ y.ent.pair \in H
    BY <1>1, <1>7, <2>3
  <2>5. a \in Names /\ Append(y.path, a) = Append(d.path, a0)
    <3>1. Lists(S, C, mv, y.ent.pair, a, e)
      BY <2>3, <2>4 DEF Loses
    <3> QED
      BY <1>2, <1>5, <2>3, <2>4, <3>1 DEF Node
  <2>6. y.path = d.path /\ a = a0
    BY <1>1, <2>4, <2>5
  <2>7. y = d
    BY <2>4, <2>6, GrownIs
  <2> QED
    BY <2>3, <2>4, <2>6, <2>7 DEF Loses
<1>9. N \subseteq N1 \cup {old}
  <2> DEFINE T == N1 \cup {old}
  <2>1. ASSUME NEW y \in N, NEW a, NEW e, y \in T, y.ent.type = "dir", Lists(S, C, mv, y.ent.pair, a, e)
        PROVE  Node(y, a, e) \in T
    <3>1. CASE y = old
      BY <1>5, <2>1, <3>1 DEF Barren
    <3>2. CASE y \in N1
      <4>1. CASE y.ent.pair = d.ent.pair /\ a = a0
        <5>1. y = d
          BY <2>1, <4>1, GrownIs
        <5>2. Node(d, a0, e) \in N /\ IsPrefix(Append(d.path, a0), Node(d, a0, e).path)
          <6>1. Node(d, a0, e) \in N /\ Node(d, a0, e).path = Append(d.path, a0)
            BY <1>2, <2>1, <4>1, <5>1 DEF Node
          <6>2. Append(d.path, a0) \in Seq(Names)
            BY <1>1
          <6>3. IsPrefix(Append(d.path, a0), Append(d.path, a0))
            BY <6>2, PrefixSelf
          <6> QED
            BY <6>1, <6>3
        <5> QED
          BY <1>6, <4>1, <5>1, <5>2
      <4>2. CASE ~(y.ent.pair = d.ent.pair /\ a = a0)
        <5>1. Lists(S, C1, mv1, y.ent.pair, a, e)
          BY <1>1, <2>1, <4>2 DEF Loses
        <5> QED
          BY <1>3, <2>1, <3>2, <5>1
      <4> QED
        BY <4>1, <4>2
    <3> QED
      BY <2>1, <3>1, <3>2
  <2>2. RootNode \in T
    BY <1>3
  <2> HIDE DEF T
  <2>3. N \subseteq T
    BY <2>1, <2>2, GrownInduct
  <2> QED
    BY <2>3 DEF T
<1> QED
  BY <1>4, <1>6, <1>7, <1>8, <1>9 DEF old
(* Directory y0 gets entry e as a0 in place of what it has of that name, x0   *)
(* gives away a1.                                                             *)
Shifts(H, S, C, mv, C1, mv1, x0, a1, y0, a0, e) == \A x \in H : \A c, f :
    Lists(S, C1, mv1, x, c, f) <=>
        \/ x = y0 /\ c = a0 /\ f = e
        \/ Lists(S, C, mv, x, c, f) /\ ~(x = x0 /\ c = a1) /\ ~(x = y0 /\ c = a0)

Aside2(p, q, t) == ~IsPrefix(p, t) /\ ~IsPrefix(q, t)
Carry(p, q, y) == [path |-> Carried(p, q, y.path), ent |-> y.ent]
Carriage(N, p, q) ==
    {y \in N : Aside2(p, q, y.path)} \cup {Carry(p, q, y) : y \in {z \in N : IsPrefix(p, z.path)}}

(* What is renamed: name a1 of directory d to name a0 of directory k.          *)
Journey(N, d, a1, k, a0) ==
    /\ d \in N /\ d.ent.type = "dir" /\ k \in N /\ k.ent.type = "dir" /\ a1 \in Names /\ a0 \in Names
    /\ ~IsPrefix(Append(d.path, a1), k.path) /\ (d # k \/ a1 # a0)

(* What is under the old name is under the new one then.                      *)
LEMMA NodesMove ==
    ASSUME NEW N, NEW N1, NEW H, NEW S, NEW C, NEW mv, NEW C1, NEW mv1,
           Grown(N, H, S, C, mv), Grown(N1, H, S, C1, mv1),
           NEW d, NEW a1, NEW k, NEW a0, Journey(N, d, a1, k, a0), NEW e1,
           Lists(S, C, mv, d.ent.pair, a1, e1),
           Shifts(H, S, C, mv, C1, mv1, d.ent.pair, a1, k.ent.pair, a0, e1)
    PROVE  N1 = Carriage(N, Append(d.path, a1), Append(k.path, a0))
<1>1. /\ d \in N /\ k \in N /\ a1 \in Names /\ a0 \in Names /\ d.ent.type = "dir" /\ k.ent.type = "dir"
      /\ ~IsPrefix(Append(d.path, a1), k.path) /\ (d # k \/ a1 # a0)
  BY DEF Journey
<1> USE <1>1
<1> DEFINE p == Append(d.path, a1)
           q == Append(k.path, a0)
           R == Carriage(N, p, q)
           Off(y) == Aside2(p, q, y.path)
<1>2. /\ \A x \in N : x.path \in Seq(Names) /\ (x.ent.type = "dir" => x.ent.pair \in H)
      /\ \A x \in N : x = [path |-> x.path, ent |-> x.ent]
  BY GrownIs
<1>3. \A x, y \in N : x.ent.type = "dir" /\ y.ent.type = "dir" /\ x.ent.pair = y.ent.pair => x = y
  BY GrownIs
<1>4. \A y \in N : \A a, e : y.ent.type = "dir" /\ Lists(S, C, mv, y.ent.pair, a, e)
          => a \in Names /\ Node(y, a, e) \in N
  BY GrownIs
<1>5. /\ RootNode \in N1 /\ RootNode \in N
      /\ \A y \in N1 : \A a, e : y.ent.type = "dir" /\ Lists(S, C1, mv1, y.ent.pair, a, e) => Node(y, a, e) \in N1
  BY GrownIs
<1>6. p \in Seq(Names) /\ q \in Seq(Names) /\ d.path \in Seq(Names) /\ k.path \in Seq(Names)
  BY <1>2
<1>7. ~IsPrefix(p, << >>) /\ ~IsPrefix(q, << >>) /\ ~IsPrefix(q, k.path) /\ ~IsPrefix(p, d.path) /\ ~IsPrefix(p, k.path)
  BY <1>6, PrefixStep
<1>8. Off(k) /\ Off(RootNode)
  BY <1>7, RootIs DEF Aside2
<1>9. /\ \A x \in N : \A a \in Names : Append(x.path, a) = p => x = d /\ a = a1
      /\ \A x \in N : \A a \in Names : Append(x.path, a) = q => x = k /\ a = a0
  <2>1. ASSUME NEW x \in N, NEW a \in Names, NEW y \in N, NEW c \in Names, Append(x.path, a) = Append(y.path, c)
        PROVE  x = y /\ a = c
    <3>1. x.path \in Seq(Names) /\ y.path \in Seq(Names)
      BY <1>2
    <3>2. x.path = y.path /\ a = c
      BY <2>1, <3>1, AppendInjective
    <3> QED
      BY <3>2, GrownIs
  <2> QED
    BY <2>1
<1> HIDE DEF p, q
<1>10. ASSUME NEW y \in N, NEW a \in Names
      PROVE  /\ IsPrefix(p, Append(y.path, a)) <=> IsPrefix(p, y.path) \/ (y = d /\ a = a1)
             /\ IsPrefix(q, Append(y.path, a)) <=> IsPrefix(q, y.path) \/ (y = k /\ a = a0)
  <2>1. y.path \in Seq(Names)
    BY <1>2
  <2>2. IsPrefix(p, Append(y.path, a)) <=> IsPrefix(p, y.path) \/ p = Append(y.path, a)
    BY <1>6, <2>1, PrefixStep
  <2>3. IsPrefix(q, Append(y.path, a)) <=> IsPrefix(q, y.path) \/ q = Append(y.path, a)
    BY <1>6, <2>1, PrefixStep
  <2> QED
    BY <1>9, <2>2, <2>3 DEF p, q
<1>11. ASSUME NEW y \in N, y.ent.type = "dir", NEW a \in Names, NEW e
       PROVE  Lists(S, C1, mv1, y.ent.pair, a, e) <=>
                 \/ y = k /\ a = a0 /\ e = e1
                 \/ Lists(S, C, mv, y.ent.pair, a, e) /\ ~(y = d /\ a = a1) /\ ~(y = k /\ a = a0)
  <2>1. (y.ent.pair = k.ent.pair <=> y = k) /\ (y.ent.pair = d.ent.pair <=> y = d) /\ y.ent.pair \in H
    BY <1>2, <1>3, <1>11
  <2> QED
    BY <2>1 DEF Shifts
<1>12. ASSUME NEW y \in N, NEW a, NEW e, y.ent.type = "dir", Lists(S, C1, mv1, y.ent.pair, a, e)
       PROVE  a \in Names
  <2>1. y.ent.pair \in H
    BY <1>2, <1>12
  <2>2. Lists(S, C, mv, y.ent.pair, a, e) \/ a = a0
    BY <1>12, <2>1 DEF Shifts
  <2> QED
    BY <1>4, <1>12, <2>2
<1>13. ASSUME NEW y \in N, NEW a \in Names, IsPrefix(p, y.path)
       PROVE  Carried(p, q, Append(y.path, a)) = Append(Carried(p, q, y.path), a)
  BY <1>2, <1>6, <1>13, CarriedIs
<1>14. Carried(p, q, p) = q
  <2>1. IsPrefix(p, p)
    BY <1>6, PrefixSelf
  <2> QED
    BY <1>6, <2>1, CarriedIs
<1>15. Node(d, a1, e1) \in N /\ Node(d, a1, e1).path = p /\ Node(d, a1, e1).ent = e1 /\ IsPrefix(p, p)
  BY <1>4, <1>6, PrefixSelf DEF Node, p
<1> HIDE DEF Off
<1>16. ASSUME NEW y \in N1, NEW a, NEW e, y \in R, y.ent.type = "dir", Lists(S, C1, mv1, y.ent.pair, a, e)
       PROVE  Node(y, a, e) \in R
  <2>1. CASE y \in N /\ Off(y)
    <3>1. a \in Names
      BY <1>12, <1>16, <2>1
    <3>2. CASE y = k /\ a = a0 /\ e = e1
      <4>1. Carry(p, q, Node(d, a1, e1)) = Node(y, a, e)
        BY <1>14, <1>15, <3>2 DEF Carry, Node, q
      <4> QED
        BY <1>15, <4>1 DEF Carriage
    <3>3. CASE Lists(S, C, mv, y.ent.pair, a, e) /\ ~(y = d /\ a = a1) /\ ~(y = k /\ a = a0)
      <4>1. Node(y, a, e) \in N /\ Node(y, a, e).path = Append(y.path, a)
        BY <1>4, <1>16, <2>1, <3>3 DEF Node
      <4>2. Aside2(p, q, Append(y.path, a))
        BY <1>10, <2>1, <3>1, <3>3 DEF Aside2, Off
      <4> QED
        BY <4>1, <4>2 DEF Carriage
    <3> QED
      BY <1>11, <1>16, <2>1, <3>1, <3>2, <3>3
  <2>2. CASE \E z \in N : IsPrefix(p, z.path) /\ y = Carry(p, q, z)
    <3>1. PICK z \in N : IsPrefix(p, z.path) /\ y = Carry(p, q, z)
      BY <2>2
    <3>2. y.path = Carried(p, q, z.path) /\ y.ent = z.ent
      BY <3>1 DEF Carry
    <3>3. a \in Names
      BY <1>12, <1>16, <3>2
    <3>4. z # k
      BY <1>7, <3>1
    <3>5. Lists(S, C, mv, z.ent.pair, a, e)
      BY <1>11, <1>16, <3>2, <3>3, <3>4
    <3>6. Node(z, a, e) \in N /\ Node(z, a, e).path = Append(z.path, a) /\ Node(z, a, e).ent = e
      BY <1>4, <1>16, <3>2, <3>5 DEF Node
    <3>7. IsPrefix(p, Append(z.path, a))
      BY <1>10, <3>1, <3>3
    <3>8. Carry(p, q, Node(z, a, e)) = Node(y, a, e)
      BY <1>13, <3>1, <3>2, <3>3, <3>6 DEF Carry, Node
    <3> QED
      BY <3>6, <3>7, <3>8 DEF Carriage
  <2> QED
    BY <1>16, <2>1, <2>2 DEF Carriage, Off
<1>17. N1 \subseteq R
  <2>1. RootNode \in R
    BY <1>5, <1>8 DEF Carriage, Off
  <2> HIDE DEF R
  <2> QED
    BY <1>16, <2>1, GrownInduct
<1>18. \A y \in N : Off(y) => y \in N1
  <2> DEFINE T == {y \in N : Off(y) => y \in N1}
  <2>1. ASSUME NEW y \in N, NEW a, NEW e, y \in T, y.ent.type = "dir", Lists(S, C, mv, y.ent.pair, a, e)
        PROVE  Node(y, a, e) \in T
    <3>1. a \in Names /\ Node(y, a, e) \in N /\ Node(y, a, e).path = Append(y.path, a)
      BY <1>4, <2>1 DEF Node
    <3>2. ASSUME Off(Node(y, a, e)) PROVE Node(y, a, e) \in N1
      <4>1. Off(y) /\ ~(y = d /\ a = a1) /\ ~(y = k /\ a = a0)
        BY <1>10, <3>1, <3>2 DEF Aside2, Off
      <4>2. Lists(S, C1, mv1, y.ent.pair, a, e)
        BY <1>11, <2>1, <3>1, <4>1
      <4> QED
        BY <1>5, <2>1, <4>1, <4>2
    <3> QED
      BY <3>1, <3>2
  <2>2. RootNode \in T
    BY <1>5
  <2> HIDE DEF T
  <2>3. N \subseteq T
    BY <2>1, <2>2, GrownInduct
  <2> QED
    BY <2>3 DEF T
<1>19. \A y \in N : IsPrefix(p, y.path) => Carry(p, q, y) \in N1
  <2> DEFINE T == {y \in N : IsPrefix(p, y.path) => Carry(p, q, y) \in N1}
  <2>1. ASSUME NEW y \in N, NEW a, NEW e, y \in T, y.ent.type = "dir", Lists(S, C, mv, y.ent.pair, a, e)
        PROVE  Node(y, a, e) \in T
    <3>1. /\ a \in Names /\ Node(y, a, e) \in N
          /\ Node(y, a, e).path = Append(y.path, a) /\ Node(y, a, e).ent = e
      BY <1>4, <2>1 DEF Node
    <3>2. ASSUME IsPrefix(p, Append(y.path, a)) PROVE Carry(p, q, Node(y, a, e)) \in N1
      <4>1. CASE IsPrefix(p, y.path)
        <5>1. y # d /\ y # k
          BY <1>7, <4>1
        <5>2. Lists(S, C1, mv1, y.ent.pair, a, e)
          BY <1>11, <2>1, <3>1, <5>1
        <5>3. Carry(p, q, y) \in N1 /\ Carry(p, q, y).ent = y.ent
          BY <2>1, <4>1 DEF Carry
        <5>4. Node(Carry(p, q, y), a, e) \in N1
          BY <1>5, <2>1, <5>2, <5>3
        <5>5. Carry(p, q, Node(y, a, e)) = Node(Carry(p, q, y), a, e)
          BY <1>13, <3>1, <4>1 DEF Carry, Node
        <5> QED
          BY <5>4, <5>5
      <4>2. CASE y = d /\ a = a1
        <5>1. Lists(S, C1, mv1, k.ent.pair, a0, e1)
          BY <1>11
        <5>2. Node(k, a0, e1) \in N1
          BY <1>5, <1>8, <1>18, <5>1
        <5>3. e = e1
          <6>1. Listing(H, S, C, mv) /\ d.ent.pair \in H
            BY <1>2 DEF Grown
          <6> QED
            BY <2>1, <4>2, <6>1 DEF Listing
        <5>4. Carry(p, q, Node(y, a, e)) = Node(k, a0, e1)
          BY <1>14, <1>15, <4>2, <5>3 DEF Carry, Node, q
        <5> QED
          BY <5>2, <5>4
      <4> QED
        BY <1>10, <3>1, <3>2, <4>1, <4>2
    <3> QED
      BY <3>1, <3>2
  <2>2. RootNode \in T
    BY <1>5, <1>7, RootIs
  <2> HIDE DEF T
  <2>3. N \subseteq T
    BY <2>1, <2>2, GrownInduct
  <2> QED
    BY <2>3 DEF T
<1>20. R \subseteq N1
  BY <1>18, <1>19 DEF Carriage, Off
<1> QED
  BY <1>17, <1>20 DEF p, q
-----------------------------------------------------------------------------
(* A name is in one pair of a directory.                                      *)
Single(H, S, C) == \A x \in H : \A q, r \in S : \A a \in Names :
    Part(S, C, x, q) /\ Part(S, C, x, r) /\ C[q].ents[a] # NoEnt /\ C[r].ents[a] # NoEnt => q = r

(* ... as the pairs of a directory are in the order of the names.             *)
LEMMA SortedSingle ==
    ASSUME NEW n, NEW P, NEW C, Line(n, P, Along(n, P, C)), Sorted(PairsOf(n, P), C),
           NEW H, H \subseteq PairsOf(n, P)
    PROVE  Single(H, PairsOf(n, P), C)
<1> DEFINE S == PairsOf(n, P)
<1>1. n \in Nat \ {0} /\ Names \subseteq Nat
  BY LineAlong, ThreadAssumption
<1>2. ASSUME NEW i \in 1 .. n, NEW j \in 1 .. n, NEW k \in 1 .. n, NEW a \in Names, j < k,
             Part(S, C, P[i], P[j]), Part(S, C, P[i], P[k]), C[P[j]].ents[a] # NoEnt, C[P[k]].ents[a] # NoEnt
      PROVE  FALSE
  <2>1. InChain(n, P, C, i, j) /\ InChain(n, P, C, i, k)
    BY <1>2, PartIs
  <2>2. j \in i .. k - 1 /\ j \in 1 .. n - 1 /\ j + 1 \in 1 .. n
    BY <1>1, <1>2, <2>1 DEF InChain
  <2>3. C[P[j]].split /\ InChain(n, P, C, j + 1, k)
    BY <1>1, <1>2, <2>1, <2>2 DEF InChain
  <2>4. C[P[j]].tail = P[j + 1]
    BY <2>2, LineTails
  <2>5. Part(S, C, P[j + 1], P[k])
    BY <2>2, <2>3, PartIs
  <2>6. P[j] \in S /\ P[k] \in S
    BY DEF PairsOf
  <2>7. Below(C[P[j]], C[P[k]])
    BY <2>3, <2>4, <2>5, <2>6 DEF Sorted
  <2> QED
    BY <1>1, <1>2, <2>7 DEF Below
<1>3. ASSUME NEW x \in H, NEW q \in S, NEW r \in S, NEW a \in Names, Part(S, C, x, q), Part(S, C, x, r),
             C[q].ents[a] # NoEnt, C[r].ents[a] # NoEnt
      PROVE  q = r
  <2>1. PICK i \in 1 .. n, j \in 1 .. n, k \in 1 .. n : x = P[i] /\ q = P[j] /\ r = P[k]
    BY DEF PairsOf
  <2>2. ~(j < k) /\ ~(k < j)
    BY <1>2, <1>3, <2>1
  <2>3. j = k
    BY <1>1, <2>2
  <2> QED
    BY <2>1, <2>3
<1> HIDE DEF S
<1> QED
  BY <1>3 DEF Single, S

(* A pair is in one directory.                                                *)
AloneIn(H, S, C, x0, p) == x0 \in H /\ p \in S /\ \A x \in H : Part(S, C, x, p) <=> x = x0

(* ... the one whose first pair its chain leads back to.                      *)
LEMMA PartAlone ==
    ASSUME NEW n, NEW P, NEW C, Line(n, P, Along(n, P, C)), NEW x \in PairsOf(n, P) \ Hards(n, P, C),
           NEW p, Part(PairsOf(n, P), C, x, p)
    PROVE  AloneIn(PairsOf(n, P) \ Hards(n, P, C), PairsOf(n, P), C, x, p)
<1> DEFINE S == PairsOf(n, P)
           H == S \ Hards(n, P, C)
<1>1. n \in Nat \ {0}
  BY LineAlong
<1>2. ASSUME NEW y \in H PROVE \E i : Starts(n, P, C, i) /\ y = P[i]
  <2>1. PICK i \in 1 .. n : y = P[i]
    BY DEF PairsOf
  <2>2. i # 1 => i - 1 \in 1 .. n - 1 /\ (i - 1) + 1 = i
    BY <1>1
  <2>3. i # 1 => ~C[P[i - 1]].split
    BY <2>1, <2>2 DEF Hards
  <2> QED
    BY <2>1, <2>3 DEF Starts
<1>3. PICK i : Starts(n, P, C, i) /\ x = P[i]
  BY <1>2
<1>4. i \in 1 .. n
  BY <1>3 DEF Starts
<1>5. p \in S
  BY <1>3, <1>4, PartIs
<1>6. PICK j \in 1 .. n : p = P[j]
  BY <1>5 DEF PairsOf
<1>7. InChain(n, P, C, i, j)
  BY <1>3, <1>4, <1>6, PartIs
<1>8. ASSUME NEW y \in H, Part(S, C, y, p) PROVE y = x
  <2>1. PICK k : Starts(n, P, C, k) /\ y = P[k]
    BY <1>2
  <2>2. k \in 1 .. n
    BY <2>1 DEF Starts
  <2>3. InChain(n, P, C, k, j)
    BY <1>6, <1>8, <2>1, <2>2, PartIs
  <2>4. i = k
    BY <1>1, <1>3, <1>7, <2>1, <2>3, HeadOnce
  <2> QED
    BY <1>3, <2>1, <2>4
<1> QED
  BY <1>5, <1>8 DEF AloneIn

(* What the directories of a thread in order list.                            *)
LEMMA PlanListing ==
    ASSUME NEW n, NEW P, NEW C, Line(n, P, Along(n, P, C)), NEW mv,
           Fits(PairsOf(n, P), Hards(n, P, C), C, mv), Sorted(PairsOf(n, P), C)
    PROVE  Listing(PairsOf(n, P) \ Hards(n, P, C), PairsOf(n, P), C, mv)
<1> DEFINE S == PairsOf(n, P)
           Z == Hards(n, P, C)
           H == S \ Z
<1>1. Aims(S, Z, C) /\ Once(S, C, mv)
  BY DEF Fits
<1>2. Root \in H
  <2>1. n \in Nat \ {0} /\ P[1] = Root /\ \A j, k \in 1 .. n : P[j] = P[k] => j = k
    BY LineAlong
  <2>2. ASSUME NEW i \in 1 .. n - 1 PROVE P[i + 1] # Root
    BY <2>1
  <2> QED
    BY <2>1, <2>2 DEF PairsOf, Hards
<1>3. Single(H, S, C)
  BY SortedSingle
<1>4. ASSUME NEW x, NEW a, NEW e, Lists(S, C, mv, x, a, e)
      PROVE  a \in Names /\ (e.type = "dir" => e.pair \in H \ {Root})
  <2>1. a \in Names
    BY <1>4 DEF Lists, Entry
  <2>2. e.type = "dir" => e.pair \in S \ ({Root} \cup Z)
    BY <1>1, <1>4, ListsAim
  <2> QED
    BY <2>1, <2>2
<1>5. ASSUME NEW x \in H, NEW y \in H, NEW a, NEW c, NEW e, NEW f, Lists(S, C, mv, x, a, e), Lists(S, C, mv, y, c, f),
             e.type = "dir", f.type = "dir", e.pair = f.pair
      PROVE  x = y /\ a = c
  <2>1. PICK q \in S : Part(S, C, x, q) /\ Entry(C, mv, q, a, e)
    BY <1>5 DEF Lists
  <2>2. PICK r \in S : Part(S, C, y, r) /\ Entry(C, mv, r, c, f)
    BY <1>5 DEF Lists
  <2>3. /\ a \in Names /\ c \in Names /\ e.pair \in S
        /\ Shown(C, mv, q, a, e.pair) /\ Shown(C, mv, r, c, e.pair)
    BY <1>4, <1>5, <2>1, <2>2 DEF Entry, Shown, Leads
  <2>4. q = r /\ a = c
    BY <1>1, <2>3 DEF Once
  <2>5. AloneIn(H, S, C, x, q) /\ AloneIn(H, S, C, y, q)
    BY <2>1, <2>2, <2>4, PartAlone
  <2> QED
    BY <2>1, <2>4, <2>5 DEF AloneIn
<1>6. ASSUME NEW x \in H, NEW a, NEW e, NEW f, Lists(S, C, mv, x, a, e), Lists(S, C, mv, x, a, f) PROVE e = f
  <2>1. PICK q \in S : Part(S, C, x, q) /\ Entry(C, mv, q, a, e)
    BY <1>6 DEF Lists
  <2>2. PICK r \in S : Part(S, C, x, r) /\ Entry(C, mv, r, a, f)
    BY <1>6 DEF Lists
  <2>3. q = r
    BY <1>3, <2>1, <2>2 DEF Single, Entry
  <2> QED
    BY <2>1, <2>2, <2>3 DEF Entry
<1> HIDE DEF S, H
<1> QED
  BY <1>2, <1>4, <1>5, <1>6 DEF Listing, S, H
(* lfs_dir_find ends at the first pair with a name not lower, or at the last. *)
LEMMA FindPlace ==
    ASSUME NEW b, NEW n, NEW P, Hard(b, n, P), NEW i \in 1 .. n, NEW mv, NEW nm
    PROVE  \E j \in i .. n :
              /\ Find(Chain(b, P[i]), mv, nm) = Fetch(b, P[j])
              /\ \A l \in i .. j - 1 : Fetch(b, P[l]).m.split /\ ~Holds(Fetch(b, P[l]), mv, nm)
              /\ Holds(Fetch(b, P[j]), mv, nm) \/ (~Fetch(b, P[j]).m.split /\ ~Holds(Fetch(b, P[j]), mv, nm))
<1>1. PICK e \in i .. n : ~Fetch(b, P[e]).m.split /\ \A j \in i .. e - 1 : Fetch(b, P[j]).m.split
  BY ChainEnds
<1> DEFINE c == [j \in 1 .. e - i + 1 |-> Fetch(b, P[i + j - 1])]
<1>2. Chain(b, P[i]) = c
  BY <1>1, ChainIs
<1>3. e - i + 1 \in Nat /\ e - i + 1 >= 1 /\ i \in Nat /\ e \in Nat /\ n \in Nat
  BY DEF Hard
<1>4. /\ \A l \in i .. e : l - i + 1 \in 1 .. e - i + 1 /\ c[l - i + 1] = Fetch(b, P[l])
      /\ \A j \in 1 .. e - i + 1 : c[j] = Fetch(b, P[i + j - 1]) /\ i + j - 1 \in i .. e
  <2>1. ASSUME NEW l \in i .. e PROVE l - i + 1 \in 1 .. e - i + 1 /\ i + (l - i + 1) - 1 = l
    BY <1>3
  <2>2. ASSUME NEW j \in 1 .. e - i + 1 PROVE i + j - 1 \in i .. e
    BY <1>3
  <2> QED
    BY <2>1, <2>2
<1>5. Len(c) = e - i + 1 /\ c[Len(c)] = Fetch(b, P[e]) /\ DOMAIN c = 1 .. e - i + 1
  <2>1. Len(c) = e - i + 1
    BY <1>3, AppendIs
  <2>2. i + (e - i + 1) - 1 = e /\ e - i + 1 \in 1 .. e - i + 1
    BY <1>3
  <2> QED
    BY <2>1, <2>2
<1> HIDE DEF c
<1>6. Last(c) = Fetch(b, P[e])
  BY <1>5 DEF Last
<1> DEFINE fits == {c[k] : k \in {j \in DOMAIN c : /\ Holds(c[j], mv, nm)
                                                   /\ \A l \in 1 .. j - 1 : ~Holds(c[l], mv, nm)}}
<1>7. Find(c, mv, nm) = IF fits = {} THEN Last(c) ELSE The(fits)
  BY DEF Find, FirstOf
<1>8. CASE \E j \in i .. e : Holds(Fetch(b, P[j]), mv, nm)
  <2> DEFINE T == {j \in i .. e : Holds(Fetch(b, P[j]), mv, nm)}
  <2>1. T # {} /\ T \subseteq Nat
    BY <1>3, <1>8
  <2>2. PICK j \in T : \A y \in T : ~(y < j)
    BY <2>1, LeastOne
  <2>3. \A l \in i .. j - 1 : l \in i .. e /\ l < j
    BY <1>3, <2>2
  <2>4. j \in i .. e /\ j \in i .. n /\ Holds(Fetch(b, P[j]), mv, nm) /\ \A l \in i .. j - 1 : ~Holds(Fetch(b, P[l]), mv, nm)
    BY <1>3, <2>2, <2>3
  <2> HIDE DEF T
  <2>5. c[j - i + 1] \in fits
    <3>1. j - i + 1 \in DOMAIN c /\ Holds(c[j - i + 1], mv, nm)
      BY <1>4, <1>5, <2>4
    <3>2. ASSUME NEW l \in 1 .. (j - i + 1) - 1 PROVE ~Holds(c[l], mv, nm)
      <4>1. l \in 1 .. e - i + 1 /\ i + l - 1 \in i .. j - 1
        BY <1>3, <2>4
      <4> QED
        BY <1>4, <2>4, <4>1
    <3> QED
      BY <3>1, <3>2
  <2>6. ASSUME NEW k \in DOMAIN c, Holds(c[k], mv, nm), \A l \in 1 .. k - 1 : ~Holds(c[l], mv, nm)
        PROVE  k = j - i + 1
    <3>1. k \in 1 .. e - i + 1 /\ i + k - 1 \in i .. e /\ Holds(Fetch(b, P[i + k - 1]), mv, nm)
      BY <1>4, <1>5, <2>6
    <3>2. ~(i + k - 1 < j)
      BY <2>2, <3>1 DEF T
    <3>3. ~(j - i + 1 < k)
      <4>1. j - i + 1 < k => j - i + 1 \in 1 .. k - 1
        BY <1>3, <2>4, <3>1
      <4>2. Holds(c[j - i + 1], mv, nm)
        BY <1>4, <2>4
      <4> QED
        BY <2>6, <4>1, <4>2
    <3> QED
      BY <1>3, <2>4, <3>1, <3>2, <3>3
  <2>7. fits = {c[j - i + 1]}
    BY <2>5, <2>6
  <2>8. Find(c, mv, nm) = Fetch(b, P[j])
    <3>1. c[j - i + 1] = Fetch(b, P[j])
      BY <1>4, <2>4
    <3> HIDE DEF fits
    <3> QED
      BY <1>7, <2>7, <3>1 DEF The
  <2> QED
    BY <1>1, <1>2, <2>3, <2>4, <2>8
<1>9. CASE ~\E j \in i .. e : Holds(Fetch(b, P[j]), mv, nm)
  <2>1. fits = {}
    BY <1>4, <1>5, <1>9
  <2> HIDE DEF fits
  <2>2. Find(c, mv, nm) = Fetch(b, P[e])
    BY <1>6, <1>7, <2>1
  <2>3. e \in i .. e /\ \A l \in i .. e - 1 : l \in i .. e
    BY <1>3
  <2> QED
    BY <1>1, <1>2, <1>9, <2>2, <2>3
<1> QED
  BY <1>8, <1>9

(* Entries that go leave the order.                                           *)
LEMMA SortedLess ==
    ASSUME NEW S, NEW C, Sorted(S, C), NEW C1,
           \A q \in S : C1[q].split = C[q].split /\ (C[q].split => C1[q].tail = C[q].tail),
           \A q \in S : \A a \in Names : C1[q].ents[a] # NoEnt => C[q].ents[a] # NoEnt
    PROVE  Sorted(S, C1)
<1>1. \A x, q : Part(S, C, x, q) <=> Part(S, C1, x, q)
  BY PartSame
<1>2. ASSUME NEW p \in S, NEW q \in S, C1[p].split, Part(S, C1, C1[p].tail, q) PROVE Below(C1[p], C1[q])
  <2>1. C[p].split /\ Part(S, C, C[p].tail, q)
    BY <1>1, <1>2
  <2>2. Below(C[p], C[q])
    BY <2>1 DEF Sorted
  <2> QED
    BY <2>2 DEF Below
<1> QED
  BY <1>2 DEF Sorted

(* ... and so does one that comes where it has room.                          *)
LEMMA SortedRoom ==
    ASSUME NEW S, NEW C, NEW p, NEW a0, Room(S, C, p, a0), NEW C1,
           \A q \in S : C1[q].split = C[q].split /\ (C[q].split => C1[q].tail = C[q].tail),
           \A q \in S : \A a \in Names : C1[q].ents[a] # NoEnt => C[q].ents[a] # NoEnt \/ (q = p /\ a = a0)
    PROVE  Sorted(S, C1)
<1> DEFINE M == Marked(S, C, p, a0)
<1>1. \A q \in S : C1[q].split = M[q].split /\ (M[q].split => C1[q].tail = M[q].tail)
  BY MarkedIs
<1>2. \A q \in S : \A a \in Names : C1[q].ents[a] # NoEnt => M[q].ents[a] # NoEnt
  BY MarkedIs
<1>3. Sorted(S, M)
  BY DEF Room
<1> HIDE DEF M
<1> QED
  BY <1>1, <1>2, <1>3, SortedLess

(* The pair that lfs_dir_find finds for a name has room for it.               *)
LEMMA RoomFound ==
    ASSUME NEW b, NEW n, NEW P, NEW C, Stands(b, n, P, C), Sorted(PairsOf(n, P), C),
           NEW i, Starts(n, P, C, i), NEW nm \in Names
    PROVE  \E j : /\ InChain(n, P, C, i, j) /\ Find(Chain(b, P[i]), {}, nm) = Fetch(b, P[j])
                  /\ Room(PairsOf(n, P), C, P[j], nm)
<1> DEFINE S == PairsOf(n, P)
<1>1. /\ Hard(b, n, P) /\ n \in Nat \ {0} /\ \A k \in 1 .. n : Fetch(b, P[k]).m = C[P[k]] /\ Fetch(b, P[k]).pair = P[k]
      /\ Line(n, P, Along(n, P, C)) /\ Names \subseteq Nat /\ i \in 1 .. n
  BY StandsIs, ThreadAssumption DEF Stands, Starts
<1>2. PICK j \in i .. n :
              /\ Find(Chain(b, P[i]), {}, nm) = Fetch(b, P[j])
              /\ \A l \in i .. j - 1 : Fetch(b, P[l]).m.split /\ ~Holds(Fetch(b, P[l]), {}, nm)
              /\ Holds(Fetch(b, P[j]), {}, nm) \/ (~Fetch(b, P[j]).m.split /\ ~Holds(Fetch(b, P[j]), {}, nm))
  BY <1>1, FindPlace
<1>3. ASSUME NEW k \in 1 .. n
      PROVE  Holds(Fetch(b, P[k]), {}, nm) <=> \E a \in Names : C[P[k]].ents[a] # NoEnt /\ a >= nm
  BY <1>1 DEF Holds, Has, MoveHere
<1>4. j \in 1 .. n /\ \A l \in i .. j - 1 : l \in 1 .. n
  BY <1>1
<1>5. InChain(n, P, C, i, j)
  BY <1>1, <1>2, <1>4 DEF InChain
<1> DEFINE M == Marked(S, C, P[j], nm)
<1>6. ASSUME NEW l \in 1 .. n, NEW k \in 1 .. n, C[P[l]].split, Part(S, C, C[P[l]].tail, P[k])
      PROVE  Below(M[P[l]], M[P[k]])
  <2>1. l \in 1 .. n - 1 /\ l + 1 \in 1 .. n
    <3>1. l # n
      BY <1>1, <1>6, LineAlong
    <3> QED
      BY <1>1, <3>1
  <2>2. InChain(n, P, C, l + 1, k)
    <3>1. Part(S, C, P[l + 1], P[k])
      BY <1>1, <1>6, <2>1, LineTails
    <3> QED
      BY <1>1, <2>1, <3>1, PartIs
  <2>3. l < k /\ P[l] \in S /\ P[k] \in S
    BY <1>1, <2>2 DEF InChain, PairsOf
  <2>4. Below(C[P[l]], C[P[k]])
    BY <1>6, <2>3 DEF Sorted
  <2>5. \A x \in 1 .. n : P[x] = P[j] => x = j
    <3>1. \A x, y \in 1 .. n : P[x] = P[y] => x = y
      BY <1>1, LineAlong
    <3> QED
      BY <1>4, <3>1
  <2>6. CASE l # j /\ k # j
    <3>1. \A a \in Names : M[P[l]].ents[a] = C[P[l]].ents[a] /\ M[P[k]].ents[a] = C[P[k]].ents[a]
      BY <2>3, <2>5, <2>6, MarkedIs
    <3> HIDE DEF M
    <3> QED
      BY <2>4, <3>1 DEF Below
  <2>7. CASE k = j
    <3>1. l # j /\ \A a \in Names : M[P[l]].ents[a] = C[P[l]].ents[a]
                                 /\ (a # nm => M[P[k]].ents[a] = C[P[k]].ents[a])
      BY <1>1, <2>3, <2>5, <2>7, MarkedIs
    <3>2. l \in i .. j - 1
      <4>1. ASSUME l < i PROVE FALSE
        <5>1. i # 1 /\ i - 1 \in l .. j - 1 /\ ~C[P[i - 1]].split
          BY <1>1, <1>2, <2>1, <4>1 DEF Starts
        <5>2. i - 1 = l \/ i - 1 \in l + 1 .. k - 1
          BY <1>1, <2>1, <2>7, <5>1
        <5> QED
          BY <1>6, <2>2, <5>1, <5>2 DEF InChain
      <4> QED
        BY <1>1, <2>3, <2>7, <4>1
    <3>3. \A a \in Names : C[P[l]].ents[a] # NoEnt => a < nm
      BY <1>1, <1>2, <1>3, <3>2
    <3> HIDE DEF M
    <3> QED
      BY <2>4, <3>1, <3>3 DEF Below
  <2>8. CASE l = j
    <3>1. k # j /\ \A a \in Names : M[P[k]].ents[a] = C[P[k]].ents[a]
                                 /\ (a # nm => M[P[l]].ents[a] = C[P[l]].ents[a])
      BY <1>1, <2>3, <2>5, <2>8, MarkedIs
    <3>2. PICK c \in Names : C[P[j]].ents[c] # NoEnt /\ c >= nm
      BY <1>1, <1>2, <1>3, <1>4, <1>6, <2>8
    <3>3. \A a \in Names : C[P[k]].ents[a] # NoEnt => nm < a
      BY <1>1, <2>4, <2>8, <3>2 DEF Below
    <3> HIDE DEF M
    <3> QED
      BY <2>4, <3>1, <3>3 DEF Below
  <2> QED
    BY <2>6, <2>7, <2>8
<1>7. Room(S, C, P[j], nm)
  <2>1. ASSUME NEW p \in S, NEW q \in S, M[p].split, Part(S, M, M[p].tail, q) PROVE Below(M[p], M[q])
    <3>1. PICK l \in 1 .. n, k \in 1 .. n : p = P[l] /\ q = P[k]
      BY DEF PairsOf
    <3>2. \A x, y : Part(S, C, x, y) <=> Part(S, M, x, y)
      BY MarkedIs, PartSame
    <3>3. C[P[l]].split /\ Part(S, C, C[P[l]].tail, P[k])
      BY <2>1, <3>1, <3>2, MarkedIs
    <3> QED
      BY <1>6, <3>1, <3>3
  <2> HIDE DEF M
  <2>2. Sorted(S, M)
    BY <2>1 DEF Sorted
  <2> QED
    BY <2>2 DEF Room, M
<1> QED
  BY <1>2, <1>5, <1>7
(* An entry of a pair is one of a directory's list.                           *)
LEMMA ListsBy ==
    ASSUME NEW H, NEW S, NEW C, NEW x0, NEW p, AloneIn(H, S, C, x0, p), NEW a0 \in Names, C[p].ents[a0] # NoEnt
    PROVE  Lists(S, C, {}, x0, a0, C[p].ents[a0])
<1>1. Part(S, C, x0, p) /\ p \in S
  BY DEF AloneIn
<1>2. Entry(C, {}, p, a0, C[p].ents[a0])
  BY DEF Entry
<1> QED
  BY <1>1, <1>2 DEF Lists

(* A name put in pair p is one its directory gains.                           *)
LEMMA ListsAdd ==
    ASSUME NEW H, NEW S, NEW C, NEW x0, NEW p, AloneIn(H, S, C, x0, p), NEW a0 \in Names,
           NEW C1, OneEnt(S, C, C1, p, a0), C[p].ents[a0] = NoEnt, C1[p].ents[a0] # NoEnt, Single(H, S, C1)
    PROVE  /\ Gains(H, S, C, {}, C1, {}, x0, a0, C1[p].ents[a0])
           /\ \A e : ~Lists(S, C, {}, x0, a0, e)
<1> DEFINE e0 == C1[p].ents[a0]
<1>1. \A x, q : Part(S, C, x, q) <=> Part(S, C1, x, q)
  BY PartSame DEF OneEnt
<1>2. /\ p \in S /\ x0 \in H /\ \A x \in H : Part(S, C, x, p) <=> x = x0
      /\ \A q \in S : \A a \in Names : ~(q = p /\ a = a0) => C1[q].ents[a] = C[q].ents[a]
  BY DEF AloneIn, OneEnt
<1>3. \A q \in S : \A a, e : ~(q = p /\ a = a0) => (Entry(C, {}, q, a, e) <=> Entry(C1, {}, q, a, e))
  BY <1>2 DEF Entry
<1>4. \A e : ~Entry(C, {}, p, a0, e) /\ (Entry(C1, {}, p, a0, e) <=> e = e0)
  BY DEF Entry
<1>5. ASSUME NEW x \in H, NEW a, NEW e PROVE Lists(S, C1, {}, x, a, e)
          <=> Lists(S, C, {}, x, a, e) \/ (x = x0 /\ a = a0 /\ e = e0)
  <2>1. ASSUME Lists(S, C1, {}, x, a, e) PROVE Lists(S, C, {}, x, a, e) \/ (x = x0 /\ a = a0 /\ e = e0)
    <3>1. PICK q \in S : Part(S, C1, x, q) /\ Entry(C1, {}, q, a, e)
      BY <2>1 DEF Lists
    <3> QED
      BY <1>1, <1>2, <1>3, <1>4, <3>1 DEF Lists
  <2>2. ASSUME Lists(S, C, {}, x, a, e) PROVE Lists(S, C1, {}, x, a, e)
    <3>1. PICK q \in S : Part(S, C, x, q) /\ Entry(C, {}, q, a, e)
      BY <2>2 DEF Lists
    <3> QED
      BY <1>1, <1>3, <1>4, <3>1 DEF Lists
  <2>3. Lists(S, C1, {}, x0, a0, e0)
    BY <1>1, <1>2, <1>4 DEF Lists
  <2> QED
    BY <2>1, <2>2, <2>3
<1>6. ASSUME NEW e, Lists(S, C, {}, x0, a0, e) PROVE FALSE
  <2>1. PICK q \in S : Part(S, C, x0, q) /\ Entry(C, {}, q, a0, e)
    BY <1>6 DEF Lists
  <2>2. q # p /\ Entry(C1, {}, q, a0, e)
    BY <1>3, <1>4, <2>1
  <2>3. C1[q].ents[a0] # NoEnt /\ C1[p].ents[a0] # NoEnt /\ Part(S, C1, x0, q) /\ Part(S, C1, x0, p)
    BY <1>1, <1>2, <2>1, <2>2 DEF Entry
  <2> QED
    BY <1>2, <2>2, <2>3 DEF Single
<1> QED
  BY <1>5, <1>6 DEF Gains

(* A name taken out of it is one the directory loses.                         *)
LEMMA ListsRemove ==
    ASSUME NEW H, NEW S, NEW C, NEW x0, NEW p, AloneIn(H, S, C, x0, p), NEW a0 \in Names,
           NEW C1, OneEnt(S, C, C1, p, a0), C[p].ents[a0] # NoEnt, C1[p].ents[a0] = NoEnt, Single(H, S, C)
    PROVE  Loses(H, S, C, {}, C1, {}, x0, a0)
<1>1. \A x, q : Part(S, C, x, q) <=> Part(S, C1, x, q)
  BY PartSame DEF OneEnt
<1>2. /\ p \in S /\ x0 \in H /\ \A x \in H : Part(S, C, x, p) <=> x = x0
      /\ \A q \in S : \A a \in Names : ~(q = p /\ a = a0) => C1[q].ents[a] = C[q].ents[a]
  BY DEF AloneIn, OneEnt
<1>3. \A q \in S : \A a, e : ~(q = p /\ a = a0) => (Entry(C, {}, q, a, e) <=> Entry(C1, {}, q, a, e))
  BY <1>2 DEF Entry
<1>4. \A e : ~Entry(C1, {}, p, a0, e)
  BY DEF Entry
<1>5. ASSUME NEW x \in H, NEW a, NEW e PROVE Lists(S, C1, {}, x, a, e)
          <=> Lists(S, C, {}, x, a, e) /\ ~(x = x0 /\ a = a0)
  <2>1. ASSUME Lists(S, C1, {}, x, a, e) PROVE Lists(S, C, {}, x, a, e) /\ ~(x = x0 /\ a = a0)
    <3>1. PICK q \in S : Part(S, C1, x, q) /\ Entry(C1, {}, q, a, e)
      BY <2>1 DEF Lists
    <3>2. ~(q = p /\ a = a0) /\ Entry(C, {}, q, a, e) /\ Part(S, C, x, q)
      BY <1>1, <1>3, <1>4, <3>1
    <3>3. ASSUME x = x0, a = a0 PROVE FALSE
      <4>1. q # p /\ C[q].ents[a0] # NoEnt /\ Part(S, C, x0, q) /\ Part(S, C, x0, p)
        BY <1>2, <3>2, <3>3 DEF Entry
      <4> QED
        BY <1>2, <4>1 DEF Single
    <3> QED
      BY <3>2, <3>3 DEF Lists
  <2>2. ASSUME Lists(S, C, {}, x, a, e), ~(x = x0 /\ a = a0) PROVE Lists(S, C1, {}, x, a, e)
    <3>1. PICK q \in S : Part(S, C, x, q) /\ Entry(C, {}, q, a, e)
      BY <2>2 DEF Lists
    <3> QED
      BY <1>1, <1>2, <1>3, <2>2, <3>1 DEF Lists
  <2> QED
    BY <2>1, <2>2
<1> QED
  BY <1>5 DEF Loses

(* To take out an entry that is hidden changes no list.                       *)
LEMMA ListsPick ==
    ASSUME NEW S, NEW C, NEW p, NEW a0, NEW C1, OneEnt(S, C, C1, p, a0), C1[p].ents[a0] = NoEnt
    PROVE  \A x, a, e : Lists(S, C, {[pair |-> p, name |-> a0]}, x, a, e) <=> Lists(S, C1, {}, x, a, e)
<1> DEFINE mv == {[pair |-> p, name |-> a0]}
<1>1. \A x, q : Part(S, C, x, q) <=> Part(S, C1, x, q)
  BY PartSame DEF OneEnt
<1>2. \A q \in S : \A a, e : Entry(C, mv, q, a, e) <=> Entry(C1, {}, q, a, e)
  <2> SUFFICES ASSUME NEW q \in S, NEW a, NEW e PROVE Entry(C, mv, q, a, e) <=> Entry(C1, {}, q, a, e)
    OBVIOUS
  <2>1. [pair |-> q, name |-> a] \in mv <=> q = p /\ a = a0
    OBVIOUS
  <2> HIDE DEF mv
  <2>2. a \in Names /\ ~(q = p /\ a = a0) => C1[q].ents[a] = C[q].ents[a]
    BY DEF OneEnt
  <2> QED
    BY <2>1, <2>2 DEF Entry
<1> HIDE DEF mv
<1>3. \A x, a, e : Lists(S, C, mv, x, a, e) <=> Lists(S, C1, {}, x, a, e)
  BY <1>1, <1>2 DEF Lists
<1> QED
  BY <1>3 DEF mv

(* An entry put under another name, the old one gone or hidden.               *)
LEMMA ListsMove ==
    ASSUME NEW H, NEW S, NEW C, NEW C1, NEW mv, NEW p, NEW a0 \in Names, NEW h, NEW a1 \in Names,
           Replaced(S, C, C1, mv, p, a0, h, a1), C1[p].tail = C[p].tail, C[h].ents[a1] # NoEnt,
           NEW x0, AloneIn(H, S, C, x0, h), NEW y0, AloneIn(H, S, C, y0, p),
           Single(H, S, C), Single(H, S, C1)
    PROVE  Shifts(H, S, C, {}, C1, mv, x0, a1, y0, a0, C[h].ents[a1])
<1> DEFINE e1 == C[h].ents[a1]
<1>1. \A x, q : Part(S, C, x, q) <=> Part(S, C1, x, q)
  BY PartSame DEF Replaced
<1>2. /\ p \in S /\ y0 \in H /\ h \in S /\ x0 \in H
      /\ \A x \in H : Part(S, C, x, p) <=> x = y0
      /\ \A x \in H : Part(S, C, x, h) <=> x = x0
  BY DEF AloneIn
<1>3. /\ h # p \/ a1 # a0
      /\ \A q \in S : q # p => C1[q] = C[q]
      /\ C1[p].ents[a0] = e1
      /\ \A a \in Names : a # a0 /\ (h = p => a # a1) => C1[p].ents[a] = C[p].ents[a]
      /\ h = p => C1[p].ents[a1] = NoEnt /\ mv = {}
      /\ h # p => mv = {[pair |-> h, name |-> a1]}
  BY DEF Replaced
<1>4. \A q, a : [pair |-> q, name |-> a] \in mv <=> h # p /\ q = h /\ a = a1
  BY <1>3
<1>5. \A e : Entry(C1, mv, p, a0, e) <=> e = e1
  BY <1>3, <1>4 DEF Entry
<1>6. ASSUME NEW q \in S, NEW a, NEW e, ~(q = p /\ a = a0)
      PROVE  Entry(C1, mv, q, a, e) <=> Entry(C, {}, q, a, e) /\ ~(q = h /\ a = a1)
  <2>1. CASE q # p
    BY <1>3, <1>4, <2>1 DEF Entry
  <2>2. CASE q = p
    BY <1>3, <1>4, <1>6, <2>2 DEF Entry
  <2> QED
    BY <2>1, <2>2
<1> HIDE DEF e1
<1>7. ASSUME NEW x \in H, NEW c, NEW f, Lists(S, C1, mv, x, c, f)
      PROVE  \/ x = y0 /\ c = a0 /\ f = e1
             \/ Lists(S, C, {}, x, c, f) /\ ~(x = x0 /\ c = a1) /\ ~(x = y0 /\ c = a0)
  <2>1. PICK q \in S : Part(S, C, x, q) /\ Entry(C1, mv, q, c, f)
    BY <1>1, <1>7 DEF Lists
  <2>2. CASE q = p /\ c = a0
    BY <1>2, <1>5, <2>1, <2>2
  <2>3. CASE ~(q = p /\ c = a0)
    <3>1. Entry(C, {}, q, c, f) /\ ~(q = h /\ c = a1)
      BY <1>6, <2>1, <2>3
    <3>2. Lists(S, C, {}, x, c, f)
      BY <2>1, <3>1 DEF Lists
    <3>3. ASSUME x = x0, c = a1 PROVE FALSE
      <4>1. C[q].ents[a1] # NoEnt /\ Part(S, C, x, h)
        BY <1>2, <3>1, <3>3 DEF Entry
      <4>2. q = h
        BY <1>2, <2>1, <4>1 DEF Single
      <4> QED
        BY <3>1, <3>3, <4>2
    <3>4. ASSUME x = y0, c = a0 PROVE FALSE
      <4>1. C1[q].ents[a0] # NoEnt /\ Part(S, C1, x, p) /\ Part(S, C1, x, q)
        BY <1>1, <1>2, <2>1, <3>4 DEF Entry
      <4>2. C1[p].ents[a0] # NoEnt
        BY <1>3 DEF e1
      <4>3. q = p
        BY <1>2, <4>1, <4>2 DEF Single
      <4> QED
        BY <2>3, <3>4, <4>3
    <3> QED
      BY <3>2, <3>3, <3>4
  <2> QED
    BY <2>2, <2>3
<1>8. Lists(S, C1, mv, y0, a0, e1)
  BY <1>1, <1>2, <1>5 DEF Lists
<1>9. ASSUME NEW x \in H, NEW c, NEW f, Lists(S, C, {}, x, c, f), ~(x = x0 /\ c = a1), ~(x = y0 /\ c = a0)
      PROVE  Lists(S, C1, mv, x, c, f)
  <2>1. PICK q \in S : Part(S, C, x, q) /\ Entry(C, {}, q, c, f)
    BY <1>9 DEF Lists
  <2>2. ~(q = p /\ c = a0) /\ ~(q = h /\ c = a1)
    BY <1>2, <1>9, <2>1
  <2>3. Entry(C1, mv, q, c, f)
    BY <1>6, <2>1, <2>2
  <2> QED
    BY <1>1, <2>1, <2>3 DEF Lists
<1> QED
  BY <1>7, <1>8, <1>9 DEF Shifts, e1
-----------------------------------------------------------------------------
(* Blocks are written. *)
LEMMA FetchAgrees ==
    ASSUME NEW b \in Disks, NEW b1 \in Disks, NEW p, Settled(b, p), \A c \in p : b1[c] = b[c]
    PROVE  Settled(b1, p) /\ Fetch(b1, p) = Fetch(b, p)
<1>1. PICK c \in p : InForce(b, p, c)
  BY DEF Settled
<1>2. InForce(b1, p, c)
  BY <1>1 DEF InForce
<1>3. p \in Pairs
  BY DEF Settled
<1> QED
  BY <1>1, <1>2, <1>3, FetchIs DEF Settled

(* The half of a pair that is not in force is written, with a newer           *)
(* revision, or the one in force again.                                       *)
LEMMA WriteHalf ==
    ASSUME NEW b \in Disks, NEW p, Settled(b, p), NEW c \in p, NEW m \in Contents,
           NEW b1 \in Disks, b1[c] = m, \A d \in p : d # c => b1[d] = b[d],
           \/ c = Fetch(b, p).cur /\ m.rev = b[c].rev
           \/ c # Fetch(b, p).cur /\ m.rev = b[Fetch(b, p).cur].rev + 1
    PROVE  Settled(b1, p) /\ Fetch(b1, p) = [pair |-> p, cur |-> c, m |-> m]
<1> DEFINE u == Fetch(b, p).cur
<1>1. u \in p /\ InForce(b, p, u) /\ p \in Pairs
  BY FetchSettled
<1>2. PICK x, y : x # y /\ p = {x, y}
  BY <1>1 DEF Pairs
<1>3. \A d \in p : d \in Blocks /\ b[d].rev \in Nat
  BY <1>1 DEF Pairs, Disks, Contents
<1>4. \A d \in p : d # u => b[d].rev < b[u].rev
  BY <1>1 DEF InForce
<1> HIDE DEF u
<1>5. InForce(b1, p, c)
  <2>1. ASSUME NEW d \in p, d # c PROVE b1[d].rev < b1[c].rev
    <3>1. b1[d] = b[d] /\ b1[c] = m
      BY <2>1
    <3>2. CASE c = u
      <4>1. m.rev = b[c].rev
        BY <3>2 DEF u
      <4> QED
        BY <1>3, <1>4, <2>1, <3>1, <3>2, <4>1
    <3>3. CASE c # u
      <4>1. m.rev = b[u].rev + 1 /\ d = u
        BY <1>1, <1>2, <2>1, <3>3 DEF u
      <4> QED
        BY <1>1, <1>3, <3>1, <4>1
    <3> QED
      BY <3>2, <3>3
  <2> QED
    BY <2>1 DEF InForce
<1>6. Fetch(b1, p) = [pair |-> p, cur |-> c, m |-> b1[c]]
  BY <1>1, <1>5, FetchIs
<1> QED
  BY <1>1, <1>5, <1>6 DEF Settled

(* Both blocks of a new pair are written.                                     *)
LEMMA WritePair ==
    ASSUME NEW b1 \in Disks, NEW p \in Pairs, NEW c \in p, b1[c].rev = 1,
           \A d \in p : d # c => b1[d].rev = 0
    PROVE  Settled(b1, p) /\ Fetch(b1, p).m = b1[c]
<1>1. InForce(b1, p, c)
  BY DEF InForce
<1> QED
  BY <1>1, FetchIs DEF Settled

(* The allocator avoids the thread. *)
LEMMA ThreadInUse ==
    ASSUME NEW b \in Disks, NEW n, NEW P, Threaded(b, n, P), NEW i \in 1 .. n, NEW mv
    PROVE  P[i] \subseteq InUse(b, mv)
<1> DEFINE t == [j \in 1 .. n |-> Fetch(b, P[j])]
<1>1. Thread(b) = t
  BY ThreadIs
<1>2. t[i].pair = P[i] /\ t[i] \in Range(t)
  BY FetchSettled DEF Threaded, Range
<1> HIDE DEF t
<1> QED
  BY <1>1, <1>2 DEF InUse

(* The places of a thread without its pair i + 1.                             *)
LEMMA CutPlace ==
    ASSUME NEW n \in Nat, NEW P, NEW i \in 1 .. n - 1
    PROVE  /\ i \in 1 .. n /\ i + 1 \in 1 .. n /\ i + 1 # i /\ Cut(n, P, i)[i] = P[i]
           /\ \A k \in 1 .. n - 1 : k # i => \E l \in 1 .. n : l # i /\ l # i + 1 /\ Cut(n, P, i)[k] = P[l]
           /\ \A k \in 1 .. n : k # i /\ k # i + 1 => \E l \in 1 .. n - 1 : l # i /\ Cut(n, P, i)[l] = P[k]
<1>1. \A k \in 1 .. n - 1 : Cut(n, P, i)[k] = IF k <= i THEN P[k] ELSE P[k + 1]
  BY DEF Cut
<1> HIDE DEF Cut
<1>2. i \in 1 .. n /\ i + 1 \in 1 .. n /\ i + 1 # i /\ i \in 1 .. n - 1 /\ i <= i
  OBVIOUS
<1>3. Cut(n, P, i)[i] = P[i]
  BY <1>1, <1>2
<1>4. ASSUME NEW k \in 1 .. n - 1, k # i
      PROVE  \E l \in 1 .. n : l # i /\ l # i + 1 /\ Cut(n, P, i)[k] = P[l]
  <2>1. CASE k <= i
    <3>1. k \in 1 .. n /\ k # i + 1 /\ Cut(n, P, i)[k] = P[k]
      BY <1>1, <2>1
    <3> QED
      BY <1>4, <3>1
  <2>2. CASE ~(k <= i)
    <3>1. k + 1 \in 1 .. n /\ k + 1 # i /\ k + 1 # i + 1 /\ Cut(n, P, i)[k] = P[k + 1]
      BY <1>1, <2>2
    <3> QED
      BY <3>1
  <2> QED
    BY <2>1, <2>2
<1>5. ASSUME NEW k \in 1 .. n, k # i, k # i + 1
      PROVE  \E l \in 1 .. n - 1 : l # i /\ Cut(n, P, i)[l] = P[k]
  <2>1. CASE k <= i
    <3>1. k \in 1 .. n - 1 /\ Cut(n, P, i)[k] = P[k]
      BY <1>1, <2>1
    <3> QED
      BY <1>5, <3>1
  <2>2. CASE ~(k <= i)
    <3>1. k - 1 \in 1 .. n - 1 /\ k - 1 # i /\ ~(k - 1 <= i) /\ (k - 1) + 1 = k
      BY <1>5, <2>2
    <3>2. Cut(n, P, i)[k - 1] = P[k]
      BY <1>1, <3>1
    <3> QED
      BY <3>1, <3>2
  <2> QED
    BY <2>1, <2>2
<1> QED
  BY <1>2, <1>3, <1>4, <1>5

(* A pair whose predecessor is split is on the thread behind it.               *)
LEMMA HardPred ==
    ASSUME NEW b \in Disks, NEW n, NEW P, NEW C, Reads(b, n, P, C), Line(n, P, Along(n, P, C)),
           NEW i \in 1 .. n
    PROVE  /\ i = 1 => Preds(b, P[i]) = {}
           /\ i # 1 => i - 1 \in 1 .. n - 1 /\ Preds(b, P[i]) = {Fetch(b, P[i - 1])}
                      /\ The(Preds(b, P[i])) = Fetch(b, P[i - 1])
<1>1. Threaded(b, n, P)
  BY ReadsThread
<1>2. /\ n \in Nat \ {0} /\ P \in [1 .. n -> Pairs]
      /\ \A j, k \in 1 .. n : j # k => P[j] \cap P[k] = {}
  BY LineAlong
<1>3. \A j \in 2 .. n : Overlap(P[j], P[i]) <=> j = i
  <2> SUFFICES ASSUME NEW j \in 2 .. n PROVE Overlap(P[j], P[i]) <=> j = i
    OBVIOUS
  <2>1. j \in 1 .. n /\ P[i] # {} /\ P[i] \cap P[i] = P[i]
    BY <1>2 DEF Pairs
  <2> QED
    BY <1>2, <2>1 DEF Overlap
<1>4. CASE i = 1
  <2>1. \A j \in 2 .. n : ~Overlap(P[j], P[i])
    BY <1>2, <1>3, <1>4
  <2>2. Preds(b, P[i]) = {}
    BY <1>1, <2>1, NoPreds
  <2> QED
    BY <1>4, <2>2
<1>5. CASE i # 1
  <2>1. i \in 2 .. n /\ i - 1 \in 1 .. n - 1
    BY <1>2, <1>5
  <2>2. Preds(b, P[i]) = {Fetch(b, P[i - 1])}
    BY <1>1, <1>3, <2>1, PredsIs
  <2> QED
    BY <1>5, <2>1, <2>2 DEF The
<1> QED
  BY <1>4, <1>5

(* An entry is removed: one a move has left behind, one that leads nowhere,    *)
(* or one that leads to a directory without entries, which becomes an orphan.  *)
LEMMA FitsRemove ==
    ASSUME NEW S, NEW Z, NEW C, NEW mv, Fits(S, Z, C, mv), NEW p \in S, NEW a0 \in Names,
           NEW C1, \A q \in S : q # p => C1[q] = C[q], C1[p].split = C[p].split,
           \A a \in Names : a # a0 => C1[p].ents[a] = C[p].ents[a], C1[p].ents[a0] = NoEnt,
           \A v \in mv : v = [pair |-> p, name |-> a0],
           mv = {} /\ C[p].ents[a0].type = "dir" => Blank(C[C[p].ents[a0].pair])
    PROVE  /\ Fits(S, Z, C1, {})
           /\ \A y : Unled(S, C, y) => Unled(S, C1, y)
           /\ mv = {} /\ C[p].ents[a0].type = "dir" => Unled(S, C1, C[p].ents[a0].pair)
<1>1. NoEnt.type # "dir"
  BY DEF NoEnt
<1>2. \A q \in S, a \in Names : \A x : Leads(C1, q, a, x) =>
          Leads(C, q, a, x) /\ [pair |-> q, name |-> a] # [pair |-> p, name |-> a0]
  <2> SUFFICES ASSUME NEW q \in S, NEW a \in Names, NEW x, Leads(C1, q, a, x)
               PROVE  Leads(C, q, a, x) /\ (q # p \/ a # a0)
    OBVIOUS
  <2>1. q # p \/ a # a0
    BY <1>1 DEF Leads
  <2>2. C1[q].ents[a] = C[q].ents[a]
    BY <2>1
  <2> QED
    BY <2>1, <2>2 DEF Leads
<1>3. \A q \in S, a \in Names : \A x : Shown(C1, {}, q, a, x) => Shown(C, mv, q, a, x)
  BY <1>2 DEF Shown
<1>4. \A x \in S \ ({Root} \cup Z) : Led(S, C, mv, x) => Led(S, C1, {}, x) \/ Blank(C1[x])
  <2> SUFFICES ASSUME NEW x \in S \ ({Root} \cup Z), NEW q \in S, NEW a \in Names, Shown(C, mv, q, a, x)
               PROVE  Led(S, C1, {}, x) \/ Blank(C1[x])
    BY DEF Led
  <2>1. CASE q # p \/ a # a0
    <3>1. C1[q].ents[a] = C[q].ents[a]
      BY <2>1
    <3>2. Shown(C1, {}, q, a, x)
      BY <3>1 DEF Shown, Leads
    <3> QED
      BY <3>2 DEF Led
  <2>2. CASE q = p /\ a = a0
    <3>1. mv = {} /\ C[p].ents[a0].type = "dir" /\ x = C[p].ents[a0].pair
      BY <2>2 DEF Shown, Leads
    <3>2. Blank(C[x])
      BY <3>1
    <3>3. x # p
      BY <1>1, <3>1, <3>2 DEF Blank
    <3> QED
      BY <3>2, <3>3
  <2> QED
    BY <2>1, <2>2
<1>5. p \in {Root} \cup Z \/ Led(S, C, mv, p) \/ Blank(C1[p])
  <2>1. Blank(C[p]) => Blank(C1[p])
    <3> SUFFICES ASSUME Blank(C[p]), NEW a \in Names PROVE C1[p].ents[a] = NoEnt
      BY DEF Blank
    <3> QED
      BY DEF Blank
  <2> QED
    BY <2>1 DEF Fits, Orphans
<1>6. \A a \in Names : C1[p].ents[a].type = "dir" => C1[p].ents[a].pair \in S \ ({Root} \cup Z)
  BY <1>1 DEF Fits, Aims
<1>7. \A a \in Names, q \in S, b \in Names, x \in S :
          Shown(C1, {}, p, a, x) /\ Shown(C1, {}, q, b, x) => q = p /\ a = b
  BY <1>3 DEF Fits, Once
<1>8. Fits(S, Z, C1, {})
  BY <1>3, <1>4, <1>5, <1>6, <1>7, FitsEdit
<1>9. \A y : Unled(S, C, y) => Unled(S, C1, y)
  BY <1>2 DEF Unled
<1>10. mv = {} /\ C[p].ents[a0].type = "dir" => Unled(S, C1, C[p].ents[a0].pair)
  <2> SUFFICES ASSUME mv = {}, C[p].ents[a0].type = "dir", NEW q \in S, NEW a \in Names,
                      Leads(C1, q, a, C[p].ents[a0].pair)
               PROVE  FALSE
    BY DEF Unled
  <2>1. Shown(C, mv, q, a, C[p].ents[a0].pair) /\ Shown(C, mv, p, a0, C[p].ents[a0].pair)
    BY <1>2 DEF Shown, Leads
  <2>2. C[p].ents[a0].pair \in S
    BY DEF Fits, Aims
  <2> QED
    BY <1>2, <2>1, <2>2 DEF Fits, Once
<1> QED
  BY <1>8, <1>9, <1>10

(* A name no entry has is given to a file, or to a directory nothing leads to. *)
LEMMA FitsAdd ==
    ASSUME NEW S, NEW Z, NEW C, Fits(S, Z, C, {}), NEW p \in S, NEW a0 \in Names,
           NEW C1, \A q \in S : q # p => C1[q] = C[q], C1[p].split = C[p].split,
           \A a \in Names : a # a0 => C1[p].ents[a] = C[p].ents[a], C[p].ents[a0] = NoEnt,
           C1[p].ents[a0].type = "dir" =>
               /\ C1[p].ents[a0].pair \in S \ ({Root} \cup Z)
               /\ Unled(S, C, C1[p].ents[a0].pair),
           p \in {Root} \cup Z \/ Led(S, C, {}, p)
    PROVE  Fits(S, Z, C1, {})
<1>1. NoEnt.type # "dir"
  BY DEF NoEnt
<1>2. ASSUME NEW q \in S, NEW a \in Names, q # p \/ a # a0
      PROVE  C1[q].ents[a] = C[q].ents[a] /\ \A x : Shown(C1, {}, q, a, x) <=> Shown(C, {}, q, a, x)
  <2>1. C1[q].ents[a] = C[q].ents[a]
    BY <1>2
  <2> QED
    BY <2>1 DEF Shown, Leads
<1>3. ASSUME NEW x \in S, Shown(C1, {}, p, a0, x), NEW q \in S, NEW b \in Names, Shown(C1, {}, q, b, x)
      PROVE  q = p /\ a0 = b
  <2>1. Unled(S, C, x)
    BY <1>3 DEF Shown, Leads
  <2> QED
    BY <1>2, <1>3, <2>1 DEF Unled, Shown
<1>4. \A a \in Names : C1[p].ents[a].type = "dir" => C1[p].ents[a].pair \in S \ ({Root} \cup Z)
  BY DEF Fits, Aims
<1>5. \A a \in Names, q \in S, b \in Names, x \in S :
          Shown(C1, {}, p, a, x) /\ Shown(C1, {}, q, b, x) => q = p /\ a = b
  <2> SUFFICES ASSUME NEW a \in Names, NEW q \in S, NEW b \in Names, NEW x \in S,
                      Shown(C1, {}, p, a, x), Shown(C1, {}, q, b, x)
               PROVE  q = p /\ a = b
    OBVIOUS
  <2>1. CASE a = a0
    BY <1>3, <2>1
  <2>2. CASE q = p /\ b = a0
    BY <1>3, <2>2
  <2>3. CASE a # a0 /\ (q # p \/ b # a0)
    BY <1>2, <2>3 DEF Fits, Once
  <2> QED
    BY <2>1, <2>2, <2>3
<1>6. \A q \in S, a \in Names : \A x : q # p /\ Shown(C1, {}, q, a, x) => Shown(C, {}, q, a, x)
  BY <1>2
<1>7. \A x \in S \ ({Root} \cup Z) : Led(S, C, {}, x) => Led(S, C1, {}, x) \/ Blank(C1[x])
  <2> SUFFICES ASSUME NEW x \in S, NEW q \in S, NEW a \in Names, Shown(C, {}, q, a, x)
               PROVE  Led(S, C1, {}, x)
    BY DEF Led
  <2>1. q # p \/ a # a0
    BY <1>1 DEF Shown, Leads
  <2> QED
    BY <1>2, <2>1 DEF Led
<1> QED
  BY <1>4, <1>5, <1>6, <1>7, FitsEdit

(* An entry is put under another name, in the same pair or with a move to     *)
(* pick up; a directory it replaces becomes an orphan.                        *)
LEMMA FitsMove ==
    ASSUME NEW S, NEW Z, NEW C, Fits(S, Z, C, {}), NEW p \in S, NEW a0 \in Names,
           NEW h \in S, NEW a1 \in Names, NEW C1, NEW mv, Replaced(S, C, C1, mv, p, a0, h, a1),
           C[p].ents[a0].type = "dir" => Blank(C[C[p].ents[a0].pair]),
           p \in {Root} \cup Z \/ Led(S, C, {}, p)
    PROVE  /\ Fits(S, Z, C1, mv)
           /\ C[p].ents[a0].type = "dir" => Unled(S, C1, C[p].ents[a0].pair)
<1> USE DEF Replaced
<1>1. NoEnt.type # "dir"
  BY DEF NoEnt
<1>2. ASSUME NEW q \in S, NEW a \in Names, q # p \/ a # a0, q # h \/ a # a1
      PROVE  C1[q].ents[a] = C[q].ents[a] /\ \A x : Shown(C1, mv, q, a, x) <=> Shown(C, {}, q, a, x)
  <2>1. C1[q].ents[a] = C[q].ents[a]
    BY <1>2
  <2>2. [pair |-> q, name |-> a] \notin mv
    BY <1>2
  <2> QED
    BY <2>1, <2>2 DEF Shown, Leads
<1>3. \A x : ~Shown(C1, mv, h, a1, x)
  BY <1>1 DEF Shown, Leads
<1>4. \A x : Shown(C1, mv, p, a0, x) <=> Shown(C, {}, h, a1, x)
  BY DEF Shown, Leads
<1>5. ASSUME NEW q \in S, NEW a \in Names, NEW x, Shown(C1, mv, q, a, x)
      PROVE  \/ q = p /\ a = a0 /\ Shown(C, {}, h, a1, x)
             \/ (q # p \/ a # a0) /\ (q # h \/ a # a1) /\ Shown(C, {}, q, a, x)
  BY <1>2, <1>3, <1>4, <1>5
<1>6. \A x \in S, q \in S, q2 \in S, a \in Names, b \in Names :
          Shown(C1, mv, q, a, x) /\ Shown(C1, mv, q2, b, x) => q = q2 /\ a = b
  <2> SUFFICES ASSUME NEW x \in S, NEW q \in S, NEW q2 \in S, NEW a \in Names, NEW b \in Names,
                      Shown(C1, mv, q, a, x), Shown(C1, mv, q2, b, x)
               PROVE  q = q2 /\ a = b
    OBVIOUS
  <2>1. \A k, l \in S : \A e, f \in Names : Shown(C, {}, k, e, x) /\ Shown(C, {}, l, f, x) => k = l /\ e = f
    BY DEF Fits, Once
  <2>2. \/ q = p /\ a = a0 /\ Shown(C, {}, h, a1, x)
        \/ (q # h \/ a # a1) /\ Shown(C, {}, q, a, x)
    BY <1>5
  <2>3. \/ q2 = p /\ b = a0 /\ Shown(C, {}, h, a1, x)
        \/ (q2 # h \/ b # a1) /\ Shown(C, {}, q2, b, x)
    BY <1>5
  <2> QED
    BY <2>1, <2>2, <2>3
<1>7. \A a \in Names : C1[p].ents[a].type = "dir" => C1[p].ents[a].pair \in S \ ({Root} \cup Z)
  <2> SUFFICES ASSUME NEW a \in Names, C1[p].ents[a].type = "dir"
               PROVE  C1[p].ents[a].pair \in S \ ({Root} \cup Z)
    OBVIOUS
  <2>1. CASE a = a0
    BY <2>1 DEF Fits, Aims
  <2>2. CASE a # a0 /\ h = p /\ a = a1
    BY <1>1, <2>2
  <2>3. CASE a # a0 /\ ~(h = p /\ a = a1)
    BY <2>3 DEF Fits, Aims
  <2> QED
    BY <2>1, <2>2, <2>3
<1>8. \A q \in S, a \in Names : \A x : q # p /\ Shown(C1, mv, q, a, x) => Shown(C, {}, q, a, x)
  BY <1>5
<1>9. \A x \in S \ ({Root} \cup Z) : Led(S, C, {}, x) => Led(S, C1, mv, x) \/ Blank(C1[x])
  <2> SUFFICES ASSUME NEW x \in S \ ({Root} \cup Z), NEW q \in S, NEW a \in Names, Shown(C, {}, q, a, x)
               PROVE  Led(S, C1, mv, x) \/ Blank(C1[x])
    BY DEF Led
  <2>1. CASE q = h /\ a = a1
    BY <1>4, <2>1 DEF Led
  <2>2. CASE (q # h \/ a # a1) /\ (q # p \/ a # a0)
    BY <1>2, <2>2 DEF Led
  <2>3. CASE q = p /\ a = a0
    <3>1. C[p].ents[a0].type = "dir" /\ x = C[p].ents[a0].pair
      BY <2>3 DEF Shown, Leads
    <3>2. Blank(C[x])
      BY <3>1
    <3>3. x # p
      BY <1>1, <3>1, <3>2 DEF Blank
    <3> QED
      BY <3>2, <3>3
  <2> QED
    BY <2>1, <2>2, <2>3
<1>10. \A v \in mv : v.pair \in S
  OBVIOUS
<1>11. \A a \in Names, q \in S, b \in Names, x \in S :
          Shown(C1, mv, p, a, x) /\ Shown(C1, mv, q, b, x) => q = p /\ a = b
  BY <1>6
<1>12. Fits(S, Z, C1, mv)
  <2>1. p \in {Root} \cup Z \/ Led(S, C, {}, p) \/ Blank(C1[p])
    OBVIOUS
  <2> QED
    BY <1>7, <1>8, <1>9, <1>10, <1>11, <2>1, FitsEdit
<1>13. ASSUME C[p].ents[a0].type = "dir" PROVE Unled(S, C1, C[p].ents[a0].pair)
  <2> DEFINE x == C[p].ents[a0].pair
  <2>1. x \in S /\ Shown(C, {}, p, a0, x)
    BY <1>13 DEF Fits, Aims, Shown, Leads
  <2>2. \A q \in S, a \in Names : Shown(C, {}, q, a, x) => q = p /\ a = a0
    BY <2>1 DEF Fits, Once
  <2> HIDE DEF x
  <2>3. ASSUME NEW q \in S, NEW a \in Names, Leads(C1, q, a, x) PROVE FALSE
    <3>1. CASE q = p /\ a = a0
      <4>1. Shown(C, {}, h, a1, x)
        BY <2>3, <3>1 DEF Shown, Leads
      <4> QED
        BY <2>2, <4>1
    <3>2. CASE q = h /\ a = a1
      <4>1. CASE h = p
        BY <1>1, <2>3, <3>2, <4>1 DEF Leads
      <4>2. CASE h # p
        <5>1. Shown(C, {}, h, a1, x)
          BY <2>3, <3>2, <4>2 DEF Shown, Leads
        <5> QED
          BY <2>2, <4>2, <5>1
      <4> QED
        BY <4>1, <4>2
    <3>3. CASE (q # p \/ a # a0) /\ (q # h \/ a # a1)
      <4>1. C1[q].ents[a] = C[q].ents[a]
        BY <1>2, <3>3
      <4>2. Shown(C, {}, q, a, x)
        BY <2>3, <4>1 DEF Shown, Leads
      <4> QED
        BY <2>2, <3>3, <4>2
    <3> QED
      BY <3>1, <3>2, <3>3
  <2> QED
    BY <2>3 DEF Unled, x
<1> QED
  BY <1>12, <1>13

(* The pairs that are not to be led to, those that are on a path.             *)
Fixed(n, P, C) == {Root} \cup Hards(n, P, C)
Rooted(n, P, C, p) == p \in Fixed(n, P, C) \/ Led(PairsOf(n, P), C, {}, p)

(* The first pair, and where a directory ends.                                *)
LEMMA PlanHard ==
    ASSUME NEW b, NEW n, NEW P, NEW C, Reads(b, n, P, C), Line(n, P, Along(n, P, C))
    PROVE  Hard(b, n, P) /\ P[1] = Root /\ n \in Nat \ {0} /\ Root \in PairsOf(n, P)
<1>1. n \in Nat \ {0} /\ P[1] = Root /\ C[P[n]].split = FALSE
  BY LineAlong
<1>2. Cardinality(Blocks) \in Nat /\ n <= Cardinality(Blocks)
  BY LineShort
<1>3. \A k \in 1 .. n : Fetch(b, P[k]).m = C[P[k]]
  BY DEF Reads
<1>4. \A j \in 1 .. n - 1 : C[P[j]].tail = P[j + 1]
  BY LineTails
<1>5. Root \in PairsOf(n, P)
  BY <1>1 DEF PairsOf
<1>6. \A j \in 1 .. n - 1 : Fetch(b, P[j]).m.split => Fetch(b, P[j]).m.tail = P[j + 1]
  BY <1>1, <1>3, <1>4
<1>7. ~Fetch(b, P[n]).m.split
  BY <1>1, <1>3
<1> QED
  BY <1>1, <1>2, <1>5, <1>6, <1>7 DEF Hard

(* Every pair of a directory that is led to is fixed on the thread or led     *)
(* to.                                                                        *)
LEMMA ChainRooted ==
    ASSUME NEW n, NEW P, NEW C, NEW mv, NEW g, Plan(n, P, C, mv, g), NEW i, NEW j, InChain(n, P, C, i, j),
           Rooted(n, P, C, P[i])
    PROVE  j \in 1 .. n /\ Rooted(n, P, C, P[j])
<1>1. n \in Nat \ {0}
  BY LineAlong DEF Plan
<1>2. j \in 1 .. n
  BY <1>1 DEF InChain
<1>3. CASE j # i
  <2>1. j - 1 \in i .. j - 1 /\ j - 1 \in 1 .. n - 1 /\ (j - 1) + 1 = j
    BY <1>1, <1>3 DEF InChain
  <2>2. C[P[j - 1]].split
    BY <2>1 DEF InChain
  <2>3. P[j] \in Hards(n, P, C)
    BY <2>1, <2>2 DEF Hards
  <2> QED
    BY <1>2, <2>3 DEF Rooted, Fixed
<1> QED
  BY <1>2, <1>3

(* A directory has one last pair.                                             *)
LEMMA ChainEndsOnce ==
    ASSUME NEW n \in Nat, NEW P, NEW C, NEW i, NEW j, NEW e, InChain(n, P, C, i, j), InChain(n, P, C, i, e),
           ~C[P[j]].split, ~C[P[e]].split
    PROVE  j = e
<1>1. i \in 1 .. n /\ j \in i .. n /\ e \in i .. n
  BY DEF InChain
<1>2. CASE j < e
  <2>1. j \in i .. e - 1
    BY <1>1, <1>2
  <2> QED
    BY <2>1 DEF InChain
<1>3. CASE e < j
  <2>1. e \in i .. j - 1
    BY <1>1, <1>3
  <2> QED
    BY <2>1 DEF InChain
<1> QED
  BY <1>1, <1>2, <1>3

(* C with the entries of pair p changed.                                      *)
Edited(C, p, ents) == [q \in Pairs |-> IF q = p THEN [C[q] EXCEPT !.ents = ents] ELSE C[q]]

(* What a pair holds once its entries are changed, and the others hold then.  *)
LEMMA EditedIs ==
    ASSUME NEW n, NEW P, NEW C, NEW mv, NEW g, Plan(n, P, C, mv, g), NEW i \in 1 .. n,
           NEW ents \in [Names -> Ents]
    PROVE  /\ \A k \in 1 .. n : k # i => Edited(C, P[i], ents)[P[k]] = C[P[k]]
           /\ \A q \in PairsOf(n, P) : q # P[i] => Edited(C, P[i], ents)[q] = C[q]
           /\ Edited(C, P[i], ents)[P[i]] = [C[P[i]] EXCEPT !.ents = ents]
           /\ Edited(C, P[i], ents)[P[i]].ents = ents
           /\ Edited(C, P[i], ents)[P[i]].split = C[P[i]].split
           /\ Edited(C, P[i], ents)[P[i]] \in Contents
<1>1. /\ P \in [1 .. n -> Pairs]
      /\ \A j, k \in 1 .. n : P[j] = P[k] => j = k
      /\ C[P[i]] \in Contents
  BY LineAlong DEF Plan
<1>2. /\ \A k \in 1 .. n : k # i => Edited(C, P[i], ents)[P[k]] = C[P[k]]
      /\ Edited(C, P[i], ents)[P[i]] = [C[P[i]] EXCEPT !.ents = ents]
  BY <1>1 DEF Edited
<1> HIDE DEF Edited
<1>3. \A q \in PairsOf(n, P) : q # P[i] => Edited(C, P[i], ents)[q] = C[q]
  BY <1>2 DEF PairsOf
<1> QED
  BY <1>1, <1>2, <1>3 DEF Contents

Changed(S, p, C, C1, ents) ==
    /\ \A q \in S : q # p => C1[q] = C[q]
    /\ C1[p].ents = ents /\ C1[p].split = C[p].split /\ C1[p].tail = C[p].tail

(* ... as Changed says it.                                                    *)
LEMMA EditedChanged ==
    ASSUME NEW n, NEW P, NEW C, NEW mv, NEW g, Plan(n, P, C, mv, g), NEW i \in 1 .. n,
           NEW ents \in [Names -> Ents]
    PROVE  Changed(PairsOf(n, P), P[i], C, Edited(C, P[i], ents), ents)
<1>1. /\ P \in [1 .. n -> Pairs]
      /\ \A j, k \in 1 .. n : P[j] = P[k] => j = k
      /\ C[P[i]] \in Contents
  BY LineAlong DEF Plan
<1>2. /\ \A k \in 1 .. n : k # i => Edited(C, P[i], ents)[P[k]] = C[P[k]]
      /\ Edited(C, P[i], ents)[P[i]] = [C[P[i]] EXCEPT !.ents = ents]
  BY <1>1 DEF Edited
<1> HIDE DEF Edited
<1> QED
  BY <1>1, <1>2 DEF Contents, Changed, PairsOf

-----------------------------------------------------------------------------
(* What the name tree shows of a node; of every node.                         *)
Shade(x) == [path |-> x.path, type |-> x.ent.type]
Shades(N) == {Shade(x) : x \in N}

(* Nodes at different paths show differently.                                 *)
LEMMA ShadesIs ==
    ASSUME NEW N, \A x, y \in N : x.path = y.path => x = y
    PROVE  /\ \A z \in Shades(N) : \E x \in N : z = Shade(x) /\ z.path = x.path /\ z.type = x.ent.type
           /\ \A x \in N : Shade(x) \in Shades(N) /\ Shade(x).path = x.path /\ Shade(x).type = x.ent.type
           /\ \A x, y \in N : Shade(x) = Shade(y) => x = y
<1>1. \A x : Shade(x).path = x.path /\ Shade(x).type = x.ent.type
  BY DEF Shade
<1>2. \A z \in Shades(N) : \E x \in N : z = Shade(x)
  BY DEF Shades
<1>3. \A x \in N : Shade(x) \in Shades(N)
  BY DEF Shades
<1> QED
  BY <1>1, <1>2, <1>3

(* What a pair of the thread holds; what may be put in.                       *)
LEMMA EntsIs ==
    ASSUME NEW n, NEW P, NEW C, NEW mv, NEW g, Plan(n, P, C, mv, g), NEW k \in 1 .. n
    PROVE  /\ C[P[k]] \in Contents /\ C[P[k]].ents \in [Names -> Ents] /\ P[k] \in PairsOf(n, P)
           /\ NoEnt \in Ents /\ \A f \in Files : Reg(f) \in Ents /\ Reg(f).type # "dir"
<1>1. C[P[k]] \in Contents
  BY LineAlong DEF Plan
<1>2. NoEnt \in Ents
  BY DEF NoEnt, Ents, Kinds, NoPair
<1>3. \A f \in Files : Reg(f) \in Ents /\ Reg(f).type # "dir"
  BY ThreadAssumption DEF Reg, Ents, Kinds, NoPair
<1> QED
  BY <1>1, <1>2, <1>3 DEF Contents, PairsOf

(* The first pairs of directories.                                            *)
Firsts(n, P, C) == PairsOf(n, P) \ Hards(n, P, C)

(* Where directories list the same, they do so by Listing.                    *)
LEMMA ListingSame ==
    ASSUME NEW H, NEW S, NEW C, NEW mv, Listing(H, S, C, mv), NEW S1, NEW C1, NEW mv1,
           \A x \in H : \A a, e : Lists(S, C, mv, x, a, e) <=> Lists(S1, C1, mv1, x, a, e)
    PROVE  Listing(H, S1, C1, mv1)
<1>1. Root \in H
  BY DEF Listing
<1>2. \A x \in H : \A a, e : Lists(S1, C1, mv1, x, a, e) => a \in Names /\ (e.type = "dir" => e.pair \in H \ {Root})
  BY DEF Listing
<1>3. \A x, y \in H : \A a, c, e, f :
          Lists(S1, C1, mv1, x, a, e) /\ Lists(S1, C1, mv1, y, c, f)
             /\ e.type = "dir" /\ f.type = "dir" /\ e.pair = f.pair
             => x = y /\ a = c
  BY DEF Listing
<1>4. \A x \in H : \A a, e, f : Lists(S1, C1, mv1, x, a, e) /\ Lists(S1, C1, mv1, x, a, f) => e = f
  BY DEF Listing
<1> QED
  BY <1>1, <1>2, <1>3, <1>4 DEF Listing

(* A plan with a pair's entries changed.                                      *)
Altered(n, P, C, C1) ==
    /\ Line(n, P, Along(n, P, C1)) /\ Hards(n, P, C1) = Hards(n, P, C)

(* An entry of a pair that has none of its own is a directory with no names.  *)
LEMMA BlankBarren ==
    ASSUME NEW S, NEW C, NEW mv, NEW e, Blank(C[e.pair])
    PROVE  Barren(S, C, mv, e)
<1>1. ASSUME NEW a, NEW f, Lists(S, C, mv, e.pair, a, f) PROVE FALSE
  <2>1. PICK q \in S : Part(S, C, e.pair, q) /\ Entry(C, mv, q, a, f)
    BY <1>1 DEF Lists
  <2>2. q \in {e.pair}
    <3>1. e.pair \in {e.pair} /\ Hung(S, C, {e.pair})
      BY DEF Hung, Blank
    <3> QED
      BY <2>1, <3>1 DEF Part
  <2> QED
    BY <2>1, <2>2 DEF Entry, Blank
<1> QED
  BY <1>1 DEF Barren

(* A changed pair of a thread.                                                *)
LEMMA EditedAltered ==
    ASSUME NEW n, NEW P, NEW C, NEW mv, NEW g, Plan(n, P, C, mv, g), NEW i \in 1 .. n,
           NEW ents \in [Names -> Ents]
    PROVE  Altered(n, P, C, Edited(C, P[i], ents))
<1> DEFINE C1 == Edited(C, P[i], ents)
<1>1. /\ \A k \in 1 .. n : k # i => C1[P[k]] = C[P[k]]
      /\ C1[P[i]] = [C[P[i]] EXCEPT !.ents = ents] /\ C1[P[i]] \in Contents
  BY EditedIs
<1>2. C1[P[i]].tail = C[P[i]].tail /\ C1[P[i]].split = C[P[i]].split
  <2>1. C[P[i]] \in Contents
    BY EntsIs
  <2> HIDE DEF C1
  <2> QED
    BY <1>1, <2>1 DEF Contents
<1> HIDE DEF C1
<1>3. Line(n, P, Along(n, P, C1)) /\ Hards(n, P, C1) = Hards(n, P, C)
  <2>1. Line(n, P, Along(n, P, C))
    BY DEF Plan
  <2>2. C1[P[i]] \in Contents
    BY <1>1
  <2>3. \A k \in 1 .. n : k # i => C1[P[k]] = C[P[k]]
    BY <1>1
  <2> QED
    BY <1>2, <2>1, <2>2, <2>3, LineKeep
<1> QED
  BY <1>3 DEF Altered, C1

(* The order of the names stands when one is taken out,                       *)
LEMMA SortedPick ==
    ASSUME NEW S, NEW C, Sorted(S, C), NEW C1, NEW p, NEW a0, OneEnt(S, C, C1, p, a0), C1[p].ents[a0] = NoEnt
    PROVE  Sorted(S, C1)
<1>1. \A q \in S : C1[q].split = C[q].split /\ (C[q].split => C1[q].tail = C[q].tail)
  BY DEF OneEnt
<1>2. \A q \in S : \A a \in Names : C1[q].ents[a] # NoEnt => C[q].ents[a] # NoEnt
  BY DEF OneEnt
<1> QED
  BY <1>1, <1>2, SortedLess

(* ... or put in where it has room,                                           *)
LEMMA SortedPut ==
    ASSUME NEW S, NEW C, NEW C1, NEW p, NEW a0, Room(S, C, p, a0), OneEnt(S, C, C1, p, a0)
    PROVE  Sorted(S, C1)
<1>1. \A q \in S : C1[q].split = C[q].split /\ (C[q].split => C1[q].tail = C[q].tail)
  BY DEF OneEnt
<1>2. \A q \in S : \A a \in Names : C1[q].ents[a] # NoEnt => C[q].ents[a] # NoEnt \/ (q = p /\ a = a0)
  BY DEF OneEnt
<1> QED
  BY <1>1, <1>2, SortedRoom

(* ... or put there from elsewhere.                                           *)
LEMMA SortedMove ==
    ASSUME NEW S, NEW C, NEW C1, NEW mv, NEW p, NEW a0, NEW h, NEW a1, Room(S, C, p, a0),
           Replaced(S, C, C1, mv, p, a0, h, a1), C1[p].tail = C[p].tail
    PROVE  Sorted(S, C1)
<1>1. \A q \in S : C1[q].split = C[q].split /\ (C[q].split => C1[q].tail = C[q].tail)
  BY DEF Replaced
<1>2. \A q \in S : \A a \in Names : C1[q].ents[a] # NoEnt => C[q].ents[a] # NoEnt \/ (q = p /\ a = a0)
  BY DEF Replaced
<1> QED
  BY <1>1, <1>2, SortedRoom

(* The places of a thread with a pair put in.                                 *)
LEMMA InsPlace ==
    ASSUME NEW n \in Nat, NEW P, NEW i \in 1 .. n, NEW x
    PROVE  /\ i \in 1 .. n + 1 /\ Ins(n, P, i, x)[i] = P[i]
           /\ \A k \in 1 .. n + 1 : k # i =>
                 Ins(n, P, i, x)[k] = x \/ \E l \in 1 .. n : l # i /\ Ins(n, P, i, x)[k] = P[l]
           /\ \A k \in 1 .. n : k # i => \E l \in 1 .. n + 1 : l # i /\ Ins(n, P, i, x)[l] = P[k]
           /\ \E l \in 1 .. n + 1 : l # i /\ Ins(n, P, i, x)[l] = x
<1>1. \A k \in 1 .. n + 1 :
         Ins(n, P, i, x)[k] = IF k <= i THEN P[k] ELSE IF k = i + 1 THEN x ELSE P[k - 1]
  BY DEF Ins
<1> HIDE DEF Ins
<1>2. i \in 1 .. n + 1 /\ Ins(n, P, i, x)[i] = P[i]
  BY <1>1
<1>3. ASSUME NEW k \in 1 .. n + 1, k # i
      PROVE  Ins(n, P, i, x)[k] = x \/ \E l \in 1 .. n : l # i /\ Ins(n, P, i, x)[k] = P[l]
  <2>1. CASE k <= i
    <3>1. k \in 1 .. n /\ Ins(n, P, i, x)[k] = P[k]
      BY <1>1, <2>1
    <3> QED
      BY <1>3, <3>1
  <2>2. CASE k = i + 1
    <3>1. ~(k <= i)
      BY <2>2
    <3> QED
      BY <1>1, <2>2, <3>1
  <2>3. CASE ~(k <= i) /\ k # i + 1
    <3>1. k - 1 \in 1 .. n /\ k - 1 # i /\ Ins(n, P, i, x)[k] = P[k - 1]
      BY <1>1, <2>3
    <3> QED
      BY <3>1
  <2> QED
    BY <2>1, <2>2, <2>3
<1>4. ASSUME NEW k \in 1 .. n, k # i
      PROVE  \E l \in 1 .. n + 1 : l # i /\ Ins(n, P, i, x)[l] = P[k]
  <2>1. CASE k <= i
    <3>1. k \in 1 .. n + 1 /\ Ins(n, P, i, x)[k] = P[k]
      BY <1>1, <2>1
    <3> QED
      BY <1>4, <3>1
  <2>2. CASE ~(k <= i)
    <3>1. k + 1 \in 1 .. n + 1 /\ k + 1 # i /\ ~(k + 1 <= i) /\ k + 1 # i + 1 /\ (k + 1) - 1 = k
      BY <1>4, <2>2
    <3>2. Ins(n, P, i, x)[k + 1] = P[k]
      BY <1>1, <3>1
    <3> QED
      BY <3>1, <3>2
  <2> QED
    BY <2>1, <2>2
<1>5. \E l \in 1 .. n + 1 : l # i /\ Ins(n, P, i, x)[l] = x
  <2>1. i + 1 \in 1 .. n + 1 /\ i + 1 # i /\ ~(i + 1 <= i)
    OBVIOUS
  <2>2. Ins(n, P, i, x)[i + 1] = x
    BY <1>1, <2>1
  <2> QED
    BY <2>1, <2>2
<1> QED
  BY <1>2, <1>3, <1>4, <1>5

(* A pair that is on a path is a directory's, which is a node.                 *)
LEMMA NodeOver ==
    ASSUME NEW n, NEW P, NEW C, Line(n, P, Along(n, P, C)), Aims(PairsOf(n, P), Hards(n, P, C), C),
           NEW N, Grown(N, Firsts(n, P, C), PairsOf(n, P), C, {}),
           NEW K, Tied(PairsOf(n, P), Hards(n, P, C), C, {}, K), NEW p \in PairsOf(n, P), p \notin K
    PROVE  \E d \in N : d.ent.type = "dir" /\ AloneIn(Firsts(n, P, C), PairsOf(n, P), C, d.ent.pair, p)
<1> DEFINE S == PairsOf(n, P)
           H == Firsts(n, P, C)
           D == {q \in S : \E d \in N : d.ent.type = "dir" /\ Part(S, C, d.ent.pair, q)}
<1>1. \A d \in N : d.ent.type = "dir" => d.ent.pair \in H
  BY LeastTyped DEF Grown
<1>2. H \subseteq S /\ Root \in H
  BY DEF Firsts, Grown, Listing
<1>3. Root \in D
  <2>1. RootNode \in N /\ RootNode.ent.type = "dir" /\ RootNode.ent.pair = Root
    BY DEF Grown, Least, RootNode, Dir
  <2>2. Part(S, C, RootNode.ent.pair, Root)
    BY <2>1, PartOn
  <2> HIDE DEF RootNode
  <2> QED
    BY <1>2, <2>1, <2>2
<1>4. ASSUME NEW q \in S, q \in D, C[q].split PROVE C[q].tail \in D
  <2>1. PICK d \in N : d.ent.type = "dir" /\ Part(S, C, d.ent.pair, q)
    BY <1>4
  <2>2. Part(S, C, d.ent.pair, C[q].tail)
    BY <1>4, <2>1, PartOn
  <2>3. C[q].tail \in S
    BY TailsIs, <1>4 DEF Tails
  <2> QED
    BY <2>1, <2>2, <2>3
<1>5. ASSUME NEW q \in S, NEW a \in Names, NEW x, q \in D, Shown(C, {}, q, a, x) PROVE x \in D
  <2>1. PICK d \in N : d.ent.type = "dir" /\ Part(S, C, d.ent.pair, q)
    BY <1>5
  <2> DEFINE e == C[q].ents[a]
             z == [path |-> Append(d.path, a), ent |-> e]
  <2>2. e.type = "dir" /\ e.pair = x /\ e # NoEnt
    BY <1>5 DEF Shown, Leads, NoEnt
  <2> HIDE DEF e
  <2>3. Lists(S, C, {}, d.ent.pair, a, e)
    BY <2>1, <2>2 DEF Lists, Entry, e
  <2>4. Onward(S, C, {}, d, z)
    BY <2>1, <2>3 DEF Onward
  <2>5. z \in N /\ z.ent.type = "dir" /\ z.ent.pair = x
    BY <2>2, <2>4 DEF Grown
  <2> HIDE DEF z
  <2>6. x \in S
    BY <1>1, <1>2, <2>5
  <2>7. Part(S, C, z.ent.pair, x)
    BY <2>5, PartOn
  <2> QED
    BY <2>5, <2>6, <2>7
<1> HIDE DEF D
<1>6. Closed(S, C, {}, D)
  BY <1>3, <1>4, <1>5 DEF Closed
<1>7. p \in D
  BY <1>6 DEF Tied
<1>8. PICK d \in N : d.ent.type = "dir" /\ Part(S, C, d.ent.pair, p)
  BY <1>7 DEF D
<1>9. AloneIn(H, S, C, d.ent.pair, p)
  <2>1. d.ent.pair \in PairsOf(n, P) \ Hards(n, P, C)
    BY <1>1, <1>8 DEF Firsts
  <2> QED
    BY <1>8, <2>1, PartAlone DEF Firsts
<1> QED
  BY <1>8, <1>9
=============================================================================
