-------------------------- MODULE LfsCtzIndexProofs --------------------------
(***************************************************************************)
(* Proofs about the arithmetic of littlefs's lists of blocks, for every      *)
(* size of block and every position.                                        *)
(***************************************************************************)
EXTENDS LfsCtzIndex, WellFoundedInduction, TLAPS

(* Induction over the numbers, from the library's theorem that a nonempty    *)
(* set has a minimal element.                                                *)
Less == {ss \in Nat \X Nat : ss[1] < ss[2]}

LEMMA LeastOne == ASSUME NEW T, T \subseteq Nat, T # {} PROVE \E x \in T : \A y \in T : ~(y < x)
<1>1. IsWellFoundedOn(Less, Nat)
  BY NatLessThanWellFounded DEF OpToRel, Less
<1>2. \E x \in T : \A y \in T : <<y, x>> \notin Less
  BY <1>1, WFMin
<1>3. ASSUME NEW x \in Nat, NEW y \in Nat, y < x PROVE <<y, x>> \in Less
  BY <1>3 DEF Less
<1> QED
  BY <1>2, <1>3

LEMMA Induction ==
    ASSUME NEW S, \A n \in Nat : (\A k \in 0 .. n - 1 : k \in S) => n \in S
    PROVE  Nat \subseteq S
<1> SUFFICES ASSUME Nat \ S # {} PROVE FALSE
  OBVIOUS
<1>1. PICK n \in Nat \ S : \A y \in Nat \ S : ~(y < n)
  BY LeastOne
<1>2. \A k \in 0 .. n - 1 : k \in S
  BY <1>1
<1> QED
  BY <1>1, <1>2

(* A function on the numbers may be defined by what it is at smaller ones:   *)
(* prev says at which, and where it does not go down the value is base.      *)
Solves(g, base, step, prev) ==
    \A n \in Nat : g[n] = IF prev[n] < n THEN step[<<n, g[prev[n]]>>] ELSE base[n]

LEMMA Recursion ==
    ASSUME NEW V, NEW base \in [Nat -> V], NEW step \in [Nat \X V -> V], NEW prev \in [Nat -> Nat]
    PROVE  \E g \in [Nat -> V] : Solves(g, base, step, prev)
<1> DEFINE Rule(f, n) == IF prev[n] < n THEN step[<<n, f[prev[n]]>>] ELSE base[n]
           Part(n) == {f \in [0 .. n -> V] : \A k \in 0 .. n : f[k] = Rule(f, k)}
<1>1. ASSUME NEW a \in Nat, NEW b \in Nat, NEW f \in Part(a), NEW g \in Part(b),
             NEW n \in Nat, n <= a, n <= b
      PROVE  f[n] = g[n]
  <2> DEFINE S == {k \in Nat : k <= a /\ k <= b => f[k] = g[k]}
  <2>1. ASSUME NEW k \in Nat, \A j \in 0 .. k - 1 : j \in S PROVE k \in S
    <3> SUFFICES ASSUME k <= a, k <= b PROVE f[k] = g[k]
      OBVIOUS
    <3> k \in 0 .. a /\ k \in 0 .. b
      OBVIOUS
    <3>1. f[k] = Rule(f, k) /\ g[k] = Rule(g, k)
      <4> HIDE DEF Rule
      <4> QED
        OBVIOUS
    <3>2. prev[k] < k => f[prev[k]] = g[prev[k]]
      <4> SUFFICES ASSUME prev[k] < k PROVE f[prev[k]] = g[prev[k]]
        OBVIOUS
      <4>1. prev[k] \in 0 .. k - 1
        OBVIOUS
      <4>2. prev[k] \in S
        BY <2>1, <4>1
      <4> QED
        BY <4>1, <4>2
    <3> QED
      BY <3>1, <3>2
  <2> HIDE DEF S
  <2>2. Nat \subseteq S
    BY <2>1, Induction
  <2> QED
    BY <2>2, <1>1 DEF S
<1>2. ASSUME NEW n \in Nat PROVE Part(n) # {}
  <2> DEFINE S == {k \in Nat : Part(k) # {}}
  <2>1. ASSUME NEW k \in Nat, \A j \in 0 .. k - 1 : j \in S PROVE k \in S
    <3>1. CASE k = 0
      <4> DEFINE f == [j \in 0 .. 0 |-> base[0]]
      <4>1. f \in [0 .. k -> V] /\ \A j \in 0 .. k : j = 0 /\ f[j] = base[0]
        BY <3>1
      <4>2. \A j \in 0 .. k : ~(prev[j] < j)
        BY <3>1
      <4>3. \A j \in 0 .. k : f[j] = Rule(f, j)
        BY <4>1, <4>2
      <4> QED
        BY <4>1, <4>3
    <3>2. CASE k # 0
      <4>1. k - 1 \in 0 .. k - 1
        BY <3>2
      <4>2. PICK f \in Part(k - 1) : TRUE
        BY <2>1, <4>1
      <4> DEFINE h == [j \in 0 .. k |-> IF j = k THEN Rule(f, k) ELSE f[j]]
      <4>3. Rule(f, k) \in V
        <5>1. prev[k] < k => prev[k] \in 0 .. k - 1
          OBVIOUS
        <5>2. prev[k] < k => f[prev[k]] \in V
          BY <4>2, <5>1
        <5>3. prev[k] < k => step[<<k, f[prev[k]]>>] \in V
          BY <5>2
        <5> QED
          BY <5>3
      <4> HIDE DEF Rule
      <4>4. h \in [0 .. k -> V]
        BY <4>2, <4>3
      <4>5. ASSUME NEW j \in 0 .. k PROVE h[j] = Rule(h, j)
        <5>0. \A i \in 0 .. k : h[i] = IF i = k THEN Rule(f, k) ELSE f[i]
          OBVIOUS
        <5> HIDE DEF h
        <5>1. prev[j] < j => h[prev[j]] = f[prev[j]]
          <6>1. prev[j] \in Nat
            OBVIOUS
          <6>2. prev[j] < j => prev[j] \in 0 .. k /\ prev[j] # k
            BY <6>1
          <6> QED
            BY <5>0, <6>2
        <5>2. h[j] = IF j = k THEN Rule(f, k) ELSE f[j]
          BY <5>0
        <5>3. j # k => f[j] = Rule(f, j)
          BY <4>2
        <5>4. Rule(h, j) = Rule(f, j)
          BY <5>1 DEF Rule
        <5> QED
          BY <5>2, <5>3, <5>4
      <4> QED
        BY <4>4, <4>5
    <3> QED
      BY <3>1, <3>2
  <2> HIDE DEF S
  <2>2. Nat \subseteq S
    BY <2>1, Induction
  <2> QED
    BY <2>2 DEF S
<1> DEFINE Pick(n) == CHOOSE f \in Part(n) : TRUE
           g == [n \in Nat |-> Pick(n)[n]]
<1>3. ASSUME NEW n \in Nat PROVE Pick(n) \in Part(n)
  BY <1>2
<1> HIDE DEF Pick
<1>4. g \in [Nat -> V]
  BY <1>3
<1>5. ASSUME NEW n \in Nat PROVE g[n] = Rule(g, n)
  <2>1. g[n] = Rule(Pick(n), n)
    <3>1. g[n] = Pick(n)[n] /\ n \in 0 .. n
      OBVIOUS
    <3> HIDE DEF Rule, g
    <3>2. \A k \in 0 .. n : Pick(n)[k] = Rule(Pick(n), k)
      BY <1>3
    <3> QED
      BY <3>1, <3>2
  <2>2. ASSUME prev[n] < n PROVE Pick(n)[prev[n]] = g[prev[n]]
    <3> HIDE DEF Part
    <3>1. prev[n] \in Nat /\ prev[n] <= n
      BY <2>2
    <3>2. Pick(n)[prev[n]] = Pick(prev[n])[prev[n]]
      BY <1>1, <1>3, <3>1
    <3> QED
      BY <3>1, <3>2
  <2> QED
    BY <2>1, <2>2
<1> QED
  BY <1>4, <1>5 DEF Solves
-----------------------------------------------------------------------------
(* What the functions are, one step down. *)
LEMMA Pow2Is ==
    /\ Pow2 \in [Nat -> Nat \ {0}]
    /\ Pow2[0] = 1
    /\ \A k \in Nat : Pow2[k + 1] = 2 * Pow2[k]
<1> DEFINE V == Nat \ {0}
           base == [n \in Nat |-> 1]
           step == [s \in Nat \X V |-> 2 * s[2]]
           prev == [n \in Nat |-> IF n = 0 THEN 0 ELSE n - 1]
<1>1. base \in [Nat -> V] /\ step \in [Nat \X V -> V] /\ prev \in [Nat -> Nat]
  OBVIOUS
<1> HIDE DEF V
<1>2. PICK g \in [Nat -> V] : Solves(g, base, step, prev)
  <2> HIDE DEF base, step, prev
  <2> QED
    BY <1>1, Recursion
<1>b. ASSUME NEW n \in Nat, ~(prev[n] < n) PROVE g[n] = base[n]
  <2> HIDE DEF base, step, prev
  <2> QED
    BY <1>2, <1>b DEF Solves
<1>s. ASSUME NEW n \in Nat, NEW k \in Nat, prev[n] = k, k < n PROVE g[n] = step[<<n, g[k]>>]
  <2> HIDE DEF base, step, prev
  <2> QED
    BY <1>2, <1>s DEF Solves
<1>3. g = [k \in Nat |-> IF k = 0 THEN 1 ELSE 2 * g[k - 1]]
  <2> SUFFICES ASSUME NEW k \in Nat PROVE g[k] = IF k = 0 THEN 1 ELSE 2 * g[k - 1]
    OBVIOUS
  <2>1. CASE k = 0
    <3>1. ~(prev[k] < k) /\ base[k] = 1
      BY <2>1
    <3> QED
      BY <1>b, <2>1, <3>1
  <2>2. CASE k # 0
    <3>1. prev[k] = k - 1 /\ prev[k] < k /\ k - 1 \in Nat
      BY <2>2
    <3>2. step[<<k, g[k - 1]>>] = 2 * g[k - 1]
      BY <3>1
    <3> QED
      BY <1>s, <2>2, <3>1, <3>2
  <2> QED
    BY <2>1, <2>2
<1>4. Pow2 = [k \in Nat |-> IF k = 0 THEN 1 ELSE 2 * Pow2[k - 1]]
  BY <1>3 DEF Pow2
<1>5. Pow2[0] = 1
  BY <1>4
<1>6. ASSUME NEW k \in Nat PROVE Pow2[k + 1] = 2 * Pow2[k]
  <2>1. k + 1 \in Nat /\ k + 1 # 0 /\ (k + 1) - 1 = k
    OBVIOUS
  <2> QED
    BY <1>4, <2>1
<1>7. \A k \in Nat : Pow2[k] \in Nat \ {0}
  <2> DEFINE S == {k \in Nat : Pow2[k] \in Nat \ {0}}
  <2>1. ASSUME NEW k \in Nat, \A j \in 0 .. k - 1 : j \in S PROVE k \in S
    <3>1. CASE k = 0
      BY <1>5, <3>1
    <3>2. CASE k # 0
      <4>1. k - 1 \in 0 .. k - 1 /\ (k - 1) + 1 = k
        BY <3>2
      <4>2. Pow2[k] = 2 * Pow2[k - 1] /\ Pow2[k - 1] \in Nat \ {0}
        BY <1>6, <2>1, <4>1
      <4> QED
        BY <4>2
    <3> QED
      BY <3>1, <3>2
  <2> HIDE DEF S
  <2>2. Nat \subseteq S
    BY <2>1, Induction
  <2> QED
    BY <2>2 DEF S
<1> QED
  BY <1>4, <1>5, <1>6, <1>7

LEMMA PopcIs ==
    /\ Popc \in [Nat -> Nat]
    /\ Popc[0] = 0
    /\ \A n \in Nat \ {0} : Popc[n] = (n % 2) + Popc[n \div 2]
<1> DEFINE base == [n \in Nat |-> 0]
           step == [s \in Nat \X Nat |-> (s[1] % 2) + s[2]]
           prev == [n \in Nat |-> n \div 2]
<1>1. base \in [Nat -> Nat] /\ step \in [Nat \X Nat -> Nat] /\ prev \in [Nat -> Nat]
  OBVIOUS
<1>2. PICK g \in [Nat -> Nat] : Solves(g, base, step, prev)
  <2> HIDE DEF base, step, prev
  <2> QED
    BY <1>1, Recursion
<1>b. ASSUME NEW n \in Nat, ~(prev[n] < n) PROVE g[n] = base[n]
  <2> HIDE DEF base, step, prev
  <2> QED
    BY <1>2, <1>b DEF Solves
<1>s. ASSUME NEW n \in Nat, NEW k \in Nat, prev[n] = k, k < n PROVE g[n] = step[<<n, g[k]>>]
  <2> HIDE DEF base, step, prev
  <2> QED
    BY <1>2, <1>s DEF Solves
<1>3. g = [n \in Nat |-> IF n = 0 THEN 0 ELSE (n % 2) + g[n \div 2]]
  <2> SUFFICES ASSUME NEW n \in Nat PROVE g[n] = IF n = 0 THEN 0 ELSE (n % 2) + g[n \div 2]
    OBVIOUS
  <2>1. CASE n = 0
    <3>1. ~(prev[n] < n) /\ base[n] = 0
      BY <2>1
    <3> QED
      BY <1>b, <2>1, <3>1
  <2>2. CASE n # 0
    <3>1. prev[n] = n \div 2 /\ prev[n] < n /\ n \div 2 \in Nat
      BY <2>2
    <3>2. step[<<n, g[n \div 2]>>] = (n % 2) + g[n \div 2]
      BY <3>1
    <3> QED
      BY <1>s, <2>2, <3>1, <3>2
  <2> QED
    BY <2>1, <2>2
<1>4. Popc = [n \in Nat |-> IF n = 0 THEN 0 ELSE (n % 2) + Popc[n \div 2]]
  BY <1>3 DEF Popc
<1>5. Popc[0] = 0 /\ \A n \in Nat \ {0} : Popc[n] = (n % 2) + Popc[n \div 2]
  BY <1>4
<1>6. \A n \in Nat : Popc[n] \in Nat
  <2> DEFINE S == {n \in Nat : Popc[n] \in Nat}
  <2>1. ASSUME NEW n \in Nat, \A j \in 0 .. n - 1 : j \in S PROVE n \in S
    <3>1. CASE n = 0
      BY <1>5, <3>1
    <3>2. CASE n # 0
      <4>1. n \div 2 \in 0 .. n - 1 /\ n % 2 \in Nat
        BY <3>2
      <4>2. Popc[n \div 2] \in Nat
        BY <2>1, <4>1
      <4> QED
        BY <1>5, <3>2, <4>1, <4>2
    <3> QED
      BY <3>1, <3>2
  <2> HIDE DEF S
  <2>2. Nat \subseteq S
    BY <2>1, Induction
  <2> QED
    BY <2>2 DEF S
<1> QED
  BY <1>4, <1>5, <1>6

LEMMA TrailingZerosIs ==
    /\ TrailingZeros \in [Nat \ {0} -> Nat]
    /\ \A n \in Nat : TrailingZeros[2 * n + 1] = 0
    /\ \A n \in Nat \ {0} : TrailingZeros[2 * n] = 1 + TrailingZeros[n]
<1> DEFINE base == [n \in Nat |-> 0]
           step == [s \in Nat \X Nat |-> 1 + s[2]]
           prev == [n \in Nat |-> IF n % 2 = 1 THEN n ELSE n \div 2]
<1>1. base \in [Nat -> Nat] /\ step \in [Nat \X Nat -> Nat] /\ prev \in [Nat -> Nat]
  OBVIOUS
<1>2. PICK g \in [Nat -> Nat] : Solves(g, base, step, prev)
  <2> HIDE DEF base, step, prev
  <2> QED
    BY <1>1, Recursion
<1>b. ASSUME NEW n \in Nat, ~(prev[n] < n) PROVE g[n] = base[n]
  <2> HIDE DEF base, step, prev
  <2> QED
    BY <1>2, <1>b DEF Solves
<1>s. ASSUME NEW n \in Nat, NEW k \in Nat, prev[n] = k, k < n PROVE g[n] = step[<<n, g[k]>>]
  <2> HIDE DEF base, step, prev
  <2> QED
    BY <1>2, <1>s DEF Solves
<1> DEFINE h == [n \in Nat \ {0} |-> g[n]]
<1>3. h = [n \in Nat \ {0} |-> IF n % 2 = 1 THEN 0 ELSE 1 + h[n \div 2]]
  <2> SUFFICES ASSUME NEW n \in Nat \ {0} PROVE g[n] = IF n % 2 = 1 THEN 0 ELSE 1 + h[n \div 2]
    OBVIOUS
  <2>1. CASE n % 2 = 1
    <3>1. ~(prev[n] < n) /\ base[n] = 0
      BY <2>1
    <3> QED
      BY <1>b, <2>1, <3>1
  <2>2. CASE n % 2 # 1
    <3>1. prev[n] = n \div 2 /\ prev[n] < n /\ n \div 2 \in Nat \ {0}
      BY <2>2
    <3>2. step[<<n, g[n \div 2]>>] = 1 + g[n \div 2]
      BY <3>1
    <3>3. g[n] = 1 + g[n \div 2]
      BY <1>s, <3>1, <3>2
    <3> QED
      BY <2>2, <3>1, <3>3
  <2> QED
    BY <2>1, <2>2
<1> HIDE DEF h
<1>4. TrailingZeros =
        [n \in Nat \ {0} |-> IF n % 2 = 1 THEN 0 ELSE 1 + TrailingZeros[n \div 2]]
  BY <1>3 DEF TrailingZeros
<1>5. ASSUME NEW n \in Nat PROVE TrailingZeros[2 * n + 1] = 0
  <2>1. (2 * n + 1) % 2 = 1 /\ 2 * n + 1 \in Nat \ {0}
    OBVIOUS
  <2> QED
    BY <1>4, <2>1
<1>6. ASSUME NEW n \in Nat \ {0} PROVE TrailingZeros[2 * n] = 1 + TrailingZeros[n]
  <2>1. (2 * n) % 2 = 0 /\ (2 * n) \div 2 = n /\ 2 * n \in Nat \ {0}
    OBVIOUS
  <2> QED
    BY <1>4, <2>1
<1>7. \A n \in Nat : n # 0 => TrailingZeros[n] \in Nat
  <2> DEFINE S == {n \in Nat : n # 0 => TrailingZeros[n] \in Nat}
  <2>1. ASSUME NEW n \in Nat, \A j \in 0 .. n - 1 : j \in S PROVE n \in S
    <3> SUFFICES ASSUME n # 0 PROVE TrailingZeros[n] \in Nat
      OBVIOUS
    <3>1. n \div 2 \in 0 .. n - 1
      OBVIOUS
    <3>2. n \div 2 # 0 => TrailingZeros[n \div 2] \in Nat
      BY <2>1, <3>1
    <3>3. n = 2 * (n \div 2) \/ n = 2 * (n \div 2) + 1
      OBVIOUS
    <3>4. CASE n = 2 * (n \div 2) + 1
      BY <1>5, <3>1, <3>4
    <3>5. CASE n = 2 * (n \div 2)
      <4>1. n \div 2 \in Nat \ {0}
        BY <3>5
      <4>2. TrailingZeros[2 * (n \div 2)] = 1 + TrailingZeros[n \div 2]
        BY <1>6, <4>1
      <4> QED
        BY <3>2, <3>5, <4>1, <4>2
    <3> QED
      BY <3>3, <3>4, <3>5
  <2> HIDE DEF S
  <2>2. Nat \subseteq S
    BY <2>1, Induction
  <2> QED
    BY <2>2 DEF S
<1> QED
  BY <1>4, <1>5, <1>6, <1>7

LEMMA Npw2Is ==
    /\ Npw2 \in [Nat \ {0} -> Nat]
    /\ Npw2[1] = 0
    /\ \A n \in Nat : n > 1 => Npw2[n] = 1 + Npw2[(n + 1) \div 2]
<1> DEFINE base == [n \in Nat |-> 0]
           step == [s \in Nat \X Nat |-> 1 + s[2]]
           prev == [n \in Nat |-> (n + 1) \div 2]
<1>1. base \in [Nat -> Nat] /\ step \in [Nat \X Nat -> Nat] /\ prev \in [Nat -> Nat]
  OBVIOUS
<1>2. PICK g \in [Nat -> Nat] : Solves(g, base, step, prev)
  <2> HIDE DEF base, step, prev
  <2> QED
    BY <1>1, Recursion
<1>b. ASSUME NEW n \in Nat, ~(prev[n] < n) PROVE g[n] = base[n]
  <2> HIDE DEF base, step, prev
  <2> QED
    BY <1>2, <1>b DEF Solves
<1>s. ASSUME NEW n \in Nat, NEW k \in Nat, prev[n] = k, k < n PROVE g[n] = step[<<n, g[k]>>]
  <2> HIDE DEF base, step, prev
  <2> QED
    BY <1>2, <1>s DEF Solves
<1> DEFINE h == [n \in Nat \ {0} |-> g[n]]
<1>3. h = [n \in Nat \ {0} |-> IF n = 1 THEN 0 ELSE 1 + h[(n + 1) \div 2]]
  <2> SUFFICES ASSUME NEW n \in Nat \ {0}
               PROVE  g[n] = IF n = 1 THEN 0 ELSE 1 + h[(n + 1) \div 2]
    OBVIOUS
  <2>1. CASE n = 1
    <3>1. ~(prev[n] < n) /\ base[n] = 0
      BY <2>1
    <3> QED
      BY <1>b, <2>1, <3>1
  <2>2. CASE n # 1
    <3>1. prev[n] = (n + 1) \div 2 /\ prev[n] < n /\ (n + 1) \div 2 \in Nat \ {0}
      BY <2>2
    <3>2. step[<<n, g[(n + 1) \div 2]>>] = 1 + g[(n + 1) \div 2]
      BY <3>1
    <3>3. g[n] = 1 + g[(n + 1) \div 2]
      BY <1>s, <3>1, <3>2
    <3> QED
      BY <2>2, <3>1, <3>3
  <2> QED
    BY <2>1, <2>2
<1> HIDE DEF h
<1>4. Npw2 = [n \in Nat \ {0} |-> IF n = 1 THEN 0 ELSE 1 + Npw2[(n + 1) \div 2]]
  BY <1>3 DEF Npw2
<1>5. Npw2[1] = 0 /\ \A n \in Nat : n > 1 => Npw2[n] = 1 + Npw2[(n + 1) \div 2]
  BY <1>4
<1>6. \A n \in Nat : n # 0 => Npw2[n] \in Nat
  <2> DEFINE S == {n \in Nat : n # 0 => Npw2[n] \in Nat}
  <2>1. ASSUME NEW n \in Nat, \A j \in 0 .. n - 1 : j \in S PROVE n \in S
    <3>1. CASE n < 2
      BY <1>5, <3>1
    <3>2. CASE n >= 2
      <4>1. (n + 1) \div 2 \in 0 .. n - 1 /\ (n + 1) \div 2 # 0
        BY <3>2
      <4>2. Npw2[(n + 1) \div 2] \in Nat
        BY <2>1, <4>1
      <4> QED
        BY <1>5, <3>2, <4>2
    <3> QED
      BY <3>1, <3>2
  <2> HIDE DEF S
  <2>2. Nat \subseteq S
    BY <2>1, Induction
  <2> QED
    BY <2>2 DEF S
<1> QED
  BY <1>4, <1>5, <1>6
-----------------------------------------------------------------------------
(* Counting up by one clears the zeros at the low end of the number reached  *)
(* and sets one bit.                                                         *)
LEMMA PopcStep ==
    ASSUME NEW n \in Nat \ {0} PROVE Popc[n] + TrailingZeros[n] = Popc[n - 1] + 1
<1> DEFINE S == {k \in Nat : k # 0 => Popc[k] + TrailingZeros[k] = Popc[k - 1] + 1}
<1>1. ASSUME NEW k \in Nat, \A j \in 0 .. k - 1 : j \in S PROVE k \in S
  <2> SUFFICES ASSUME k # 0 PROVE Popc[k] + TrailingZeros[k] = Popc[k - 1] + 1
    OBVIOUS
  <2>1. PICK m \in Nat : k = 2 * m \/ k = 2 * m + 1
    <3>1. k \div 2 \in Nat /\ (k = 2 * (k \div 2) \/ k = 2 * (k \div 2) + 1)
      OBVIOUS
    <3> QED
      BY <3>1
  <2>2. CASE k = 2 * m + 1
    <3>1. k % 2 = 1 /\ k \div 2 = m /\ k - 1 = 2 * m /\ (2 * m) % 2 = 0 /\ (2 * m) \div 2 = m
      BY <2>2
    <3>2. Popc[k] = 1 + Popc[m] /\ Popc[m] \in Nat
      BY <3>1, PopcIs
    <3>3. Popc[2 * m] = Popc[m]
      <4>1. CASE m = 0
        BY <4>1
      <4>2. CASE m # 0
        <5>1. Popc[2 * m] = ((2 * m) % 2) + Popc[(2 * m) \div 2]
          BY <4>2, PopcIs
        <5> QED
          BY <3>1, <3>2, <5>1
      <4> QED
        BY <4>1, <4>2
    <3>4. TrailingZeros[k] = 0
      BY <2>2, TrailingZerosIs
    <3> QED
      BY <3>1, <3>2, <3>3, <3>4
  <2>3. CASE k = 2 * m
    <3>1. /\ m # 0 /\ k % 2 = 0 /\ k \div 2 = m /\ m - 1 \in Nat
          /\ (k - 1) % 2 = 1 /\ (k - 1) \div 2 = m - 1 /\ k - 1 \in Nat \ {0}
      BY <2>3
    <3>2. m \in 0 .. k - 1
      BY <2>3, <3>1
    <3>3. Popc[m] + TrailingZeros[m] = Popc[m - 1] + 1
      BY <1>1, <3>1, <3>2
    <3>4. Popc[k] = Popc[m] /\ Popc[m] \in Nat
      <4>1. Popc[k] = (k % 2) + Popc[k \div 2] /\ Popc[m] \in Nat
        BY PopcIs
      <4> QED
        BY <3>1, <4>1
    <3>5. Popc[k - 1] = 1 + Popc[m - 1] /\ Popc[m - 1] \in Nat
      <4>1. Popc[k - 1] = ((k - 1) % 2) + Popc[(k - 1) \div 2] /\ Popc[m - 1] \in Nat
        BY <3>1, PopcIs
      <4> QED
        BY <3>1, <4>1
    <3>6. TrailingZeros[k] = 1 + TrailingZeros[m] /\ TrailingZeros[m] \in Nat
      BY <2>3, <3>1, TrailingZerosIs
    <3> QED
      BY <3>3, <3>4, <3>5, <3>6
  <2> QED
    BY <2>1, <2>2, <2>3
<1> HIDE DEF S
<1>2. Nat \subseteq S
  BY <1>1, Induction
<1> QED
  BY <1>2 DEF S

(* A number of k bits has at most k of them set. *)
LEMMA PopcBound ==
    ASSUME NEW k \in Nat, NEW n \in Nat, n < Pow2[k] PROVE Popc[n] <= k
<1> DEFINE S == {j \in Nat : \A x \in Nat : x < Pow2[j] => Popc[x] <= j}
<1>1. ASSUME NEW j \in Nat, \A i \in 0 .. j - 1 : i \in S PROVE j \in S
  <2> SUFFICES ASSUME NEW x \in Nat, x < Pow2[j] PROVE Popc[x] <= j
    OBVIOUS
  <2>1. CASE x = 0
    BY <2>1, PopcIs
  <2>2. CASE x # 0 /\ j = 0
    BY <2>2, Pow2Is
  <2>3. CASE x # 0 /\ j # 0
    <3>1. j - 1 \in 0 .. j - 1 /\ (j - 1) + 1 = j
      BY <2>3
    <3>2. Pow2[j] = 2 * Pow2[j - 1] /\ Pow2[j - 1] \in Nat
      BY <3>1, Pow2Is
    <3>3. x \div 2 \in Nat /\ x \div 2 < Pow2[j - 1] /\ x % 2 <= 1 /\ x % 2 \in Nat
      BY <3>2
    <3>4. Popc[x \div 2] <= j - 1 /\ Popc[x \div 2] \in Nat
      BY <1>1, <3>1, <3>3, PopcIs
    <3>5. Popc[x] = (x % 2) + Popc[x \div 2]
      BY <2>3, PopcIs
    <3> QED
      BY <3>1, <3>3, <3>4, <3>5
  <2> QED
    BY <2>1, <2>2, <2>3
<1> HIDE DEF S
<1>2. Nat \subseteq S
  BY <1>1, Induction
<1> QED
  BY <1>2 DEF S

(* Npw2[n] - 1 bits are too few for n - 1 and more. *)
LEMMA Npw2Bound ==
    ASSUME NEW n \in Nat, n > 1 PROVE Npw2[n] \in Nat \ {0} /\ Pow2[Npw2[n] - 1] < n
<1> DEFINE S == {k \in Nat : k > 1 => Npw2[k] \in Nat \ {0} /\ Pow2[Npw2[k] - 1] < k}
<1>1. ASSUME NEW k \in Nat, \A j \in 0 .. k - 1 : j \in S PROVE k \in S
  <2> SUFFICES ASSUME k > 1 PROVE Npw2[k] \in Nat \ {0} /\ Pow2[Npw2[k] - 1] < k
    OBVIOUS
  <2> DEFINE m == (k + 1) \div 2
  <2>1. m \in Nat \ {0} /\ 2 * m <= k + 1 /\ m < k /\ Npw2[k] = 1 + Npw2[m] /\ Npw2[m] \in Nat
    BY Npw2Is
  <2>2. CASE m = 1
    <3>1. Npw2[m] = 0 /\ Npw2[k] - 1 = 0 /\ Npw2[k] = 1
      BY <2>1, <2>2, Npw2Is
    <3> QED
      BY <3>1, Pow2Is
  <2>3. CASE m > 1
    <3>1. Npw2[m] \in Nat \ {0} /\ Pow2[Npw2[m] - 1] < m
      BY <1>1, <2>1, <2>3
    <3>2. Npw2[m] - 1 \in Nat /\ (Npw2[m] - 1) + 1 = Npw2[m] /\ Npw2[k] - 1 = Npw2[m]
      BY <2>1, <3>1
    <3>3. Pow2[Npw2[m]] = 2 * Pow2[Npw2[m] - 1] /\ Pow2[Npw2[m] - 1] \in Nat
      BY <3>2, Pow2Is
    <3> QED
      BY <2>1, <3>1, <3>2, <3>3
  <2> HIDE DEF m
  <2> QED
    BY <2>1, <2>2, <2>3
<1> HIDE DEF S
<1>2. Nat \subseteq S
  BY <1>1, Induction
<1> QED
  BY <1>2 DEF S

LEMMA Pow2Grows ==
    ASSUME NEW k \in Nat, NEW j \in 0 .. k PROVE Pow2[j] <= Pow2[k]
<1> DEFINE S == {i \in Nat : j <= i => Pow2[j] <= Pow2[i]}
<1>1. ASSUME NEW i \in Nat, \A x \in 0 .. i - 1 : x \in S PROVE i \in S
  <2> SUFFICES ASSUME j <= i PROVE Pow2[j] <= Pow2[i]
    OBVIOUS
  <2>1. CASE j = i
    BY <2>1, Pow2Is
  <2>2. CASE j < i
    <3>1. i - 1 \in 0 .. i - 1 /\ (i - 1) + 1 = i /\ j <= i - 1 /\ j \in Nat
      BY <2>2
    <3>2. Pow2[i] = 2 * Pow2[i - 1] /\ Pow2[i - 1] \in Nat /\ Pow2[j] \in Nat
      BY <3>1, Pow2Is
    <3> QED
      BY <1>1, <3>1, <3>2
  <2> QED
    BY <2>1, <2>2
<1> HIDE DEF S
<1>2. Nat \subseteq S
  BY <1>1, Induction
<1> QED
  BY <1>2 DEF S
-----------------------------------------------------------------------------
(* Where the data of block i begins when the list is laid out block by       *)
(* block: what the arithmetic is measured by.                                *)
First[i \in Nat] == IF i = 0 THEN 0 ELSE First[i - 1] + (BlockSize - Pointed(i - 1))

LEMMA PointedIs == ASSUME NEW i \in Nat PROVE Pointed(i) \in Nat
  BY TrailingZerosIs DEF Pointed

LEMMA FirstIs ==
    ASSUME BlockSize \in Nat
    PROVE  /\ First[0] = 0
           /\ \A i \in Nat : First[i + 1] = First[i] + (BlockSize - Pointed(i))
<1> DEFINE base == [n \in Nat |-> 0]
           step == [s \in Nat \X Int |-> s[2] + (BlockSize - Pointed(s[1] - 1))]
           prev == [n \in Nat |-> IF n = 0 THEN 0 ELSE n - 1]
           Place(s) == IF s[1] = 0 THEN 0 ELSE s[2] + (BlockSize - Pointed(s[1] - 1))
           steps == [s \in Nat \X Int |-> Place(s)]
<1>1. base \in [Nat -> Int] /\ steps \in [Nat \X Int -> Int] /\ prev \in [Nat -> Nat]
  <2>1. ASSUME NEW s \in Nat \X Int PROVE Place(s) \in Int
    <3>1. CASE s[1] = 0
      BY <3>1
    <3>2. CASE s[1] # 0
      <4>1. s[1] - 1 \in Nat /\ s[2] \in Int
        BY <3>2
      <4>2. Pointed(s[1] - 1) \in Nat
        BY <4>1, PointedIs
      <4> QED
        BY <4>1, <4>2
    <3> QED
      BY <3>1, <3>2
  <2> HIDE DEF Place
  <2> QED
    BY <2>1
<1>2. PICK g \in [Nat -> Int] : Solves(g, base, steps, prev)
  <2> HIDE DEF base, steps, prev
  <2> QED
    BY <1>1, Recursion
<1>b. ASSUME NEW n \in Nat, ~(prev[n] < n) PROVE g[n] = base[n]
  <2> HIDE DEF base, steps, prev
  <2> QED
    BY <1>2, <1>b DEF Solves
<1>s. ASSUME NEW n \in Nat, NEW k \in Nat, prev[n] = k, k < n PROVE g[n] = steps[<<n, g[k]>>]
  <2> HIDE DEF base, steps, prev
  <2> QED
    BY <1>2, <1>s DEF Solves
<1>3. g = [i \in Nat |-> IF i = 0 THEN 0 ELSE g[i - 1] + (BlockSize - Pointed(i - 1))]
  <2> SUFFICES ASSUME NEW i \in Nat
               PROVE  g[i] = IF i = 0 THEN 0 ELSE g[i - 1] + (BlockSize - Pointed(i - 1))
    OBVIOUS
  <2>1. CASE i = 0
    <3>1. ~(prev[i] < i) /\ base[i] = 0
      BY <2>1
    <3> QED
      BY <1>b, <2>1, <3>1
  <2>2. CASE i # 0
    <3>1. prev[i] = i - 1 /\ i - 1 \in Nat /\ i - 1 < i
      BY <2>2
    <3>2. steps[<<i, g[i - 1]>>] = g[i - 1] + (BlockSize - Pointed(i - 1))
      BY <2>2, <3>1
    <3> QED
      BY <1>s, <2>2, <3>1, <3>2
  <2> QED
    BY <2>1, <2>2
<1>4. First = [i \in Nat |-> IF i = 0 THEN 0 ELSE First[i - 1] + (BlockSize - Pointed(i - 1))]
  BY <1>3 DEF First
<1>5. First[0] = 0
  BY <1>4
<1>6. ASSUME NEW i \in Nat PROVE First[i + 1] = First[i] + (BlockSize - Pointed(i))
  <2>1. i + 1 \in Nat /\ i + 1 # 0 /\ (i + 1) - 1 = i
    OBVIOUS
  <2> QED
    BY <1>4, <2>1
<1> QED
  BY <1>5, <1>6

(* The pointers of all blocks before i, added up (lfs.c 2834-2848).          *)
LEMMA FirstClosed ==
    ASSUME BlockSize \in Nat, NEW i \in Nat \ {0}
    PROVE  First[i] = i * (BlockSize - 2) + 2 + Popc[i - 1]
<1> DEFINE S == {k \in Nat : k # 0 => First[k] = k * (BlockSize - 2) + 2 + Popc[k - 1]}
<1>1. ASSUME NEW k \in Nat, \A j \in 0 .. k - 1 : j \in S PROVE k \in S
  <2> SUFFICES ASSUME k # 0 PROVE First[k] = k * (BlockSize - 2) + 2 + Popc[k - 1]
    OBVIOUS
  <2>1. CASE k = 1
    <3>1. First[0 + 1] = First[0] + (BlockSize - Pointed(0)) /\ First[0] = 0 /\ Pointed(0) = 0
      BY FirstIs DEF Pointed
    <3>2. Popc[k - 1] = 0
      BY <2>1, PopcIs
    <3> QED
      BY <2>1, <3>1, <3>2
  <2>2. CASE k # 1
    <3> DEFINE j == k - 1
    <3>1. j \in Nat \ {0} /\ j \in 0 .. k - 1 /\ j + 1 = k /\ j - 1 \in Nat
      BY <2>2
    <3>2. First[j] = j * (BlockSize - 2) + 2 + Popc[j - 1]
      BY <1>1, <3>1
    <3>3. First[k] = First[j] + (BlockSize - (TrailingZeros[j] + 1))
      BY <3>1, FirstIs DEF Pointed
    <3>4. Popc[j] + TrailingZeros[j] = Popc[j - 1] + 1
      BY <3>1, PopcStep
    <3>5. Popc[j] \in Nat /\ Popc[j - 1] \in Nat /\ TrailingZeros[j] \in Nat
      BY <3>1, PopcIs, TrailingZerosIs
    <3>6. k * (BlockSize - 2) = j * (BlockSize - 2) + (BlockSize - 2)
      BY <3>1
    <3> DEFINE a == j * (BlockSize - 2)
    <3>7. a \in Int
      BY <3>1
    <3> HIDE DEF a
    <3>8. First[j] = a + 2 + Popc[j - 1] /\ k * (BlockSize - 2) = a + (BlockSize - 2)
      BY <3>2, <3>6 DEF a
    <3> QED
      BY <3>3, <3>4, <3>5, <3>7, <3>8
  <2> QED
    BY <2>1, <2>2
<1> HIDE DEF S
<1>2. Nat \subseteq S
  BY <1>1, Induction
<1> QED
  BY <1>2 DEF S

(* A block has room for its pointers, whatever block of the list it is.      *)
Room(pos) ==
    BlockSize > 2 /\ \A k \in 0 .. pos \div (BlockSize - 2) : Popc[k] + 4 <= BlockSize

LEMMA Multiples ==
    ASSUME NEW b \in Nat, NEW x \in Nat, NEW y \in Nat, x < y
    PROVE  x * b \in Nat /\ y * b \in Nat /\ x * b + b <= y * b
<1> DEFINE d == y - x - 1
<1>1. d \in Nat /\ y = x + 1 + d
  OBVIOUS
<1>2. y * b = x * b + b + d * b /\ x * b \in Nat /\ d * b \in Nat
  BY <1>1
<1> QED
  BY <1>2

(* A quotient is what fits. *)
LEMMA Quotient ==
    ASSUME NEW b \in Nat, b > 0, NEW q \in Nat, NEW r \in 0 .. b - 1
    PROVE  q * b \in Nat /\ (q * b + r) \div b = q
<1> DEFINE x == q * b + r
           p == x \div b
           t == x % b
<1>1. q * b \in Nat /\ x \in Nat
  OBVIOUS
<1> HIDE DEF x
<1>2. p \in Nat /\ t \in 0 .. b - 1 /\ p * b + t = x
  BY <1>1
<1> HIDE DEF p, t
<1>3. ~(p < q)
  <2> SUFFICES ASSUME p < q PROVE FALSE
    OBVIOUS
  <2>1. p * b + b <= q * b /\ p * b \in Nat /\ q * b \in Nat
    BY <1>2, Multiples
  <2> DEFINE u == p * b
             v == q * b
  <2>2. u + b <= v /\ u \in Nat /\ v \in Nat /\ u + t = x /\ x = v + r
    BY <1>2, <2>1 DEF x
  <2> HIDE DEF u, v
  <2> QED
    BY <1>2, <2>2
<1>4. ~(q < p)
  <2> SUFFICES ASSUME q < p PROVE FALSE
    OBVIOUS
  <2>1. q * b + b <= p * b /\ p * b \in Nat /\ q * b \in Nat
    BY <1>2, Multiples
  <2> DEFINE u == p * b
             v == q * b
  <2>2. v + b <= u /\ u \in Nat /\ v \in Nat /\ u + t = x /\ x = v + r
    BY <1>2, <2>1 DEF x
  <2> HIDE DEF u, v
  <2> QED
    BY <1>2, <2>2
<1>5. p = q
  BY <1>2, <1>3, <1>4
<1> QED
  BY <1>1, <1>5 DEF p, x

LEMMA Division ==
    ASSUME NEW b \in Nat, b > 0, NEW x \in Nat
    PROVE  \E q \in Nat, r \in 0 .. b - 1 : x = q * b + r /\ x \div b = q
<1>1. (x \div b) * b + (x % b) = x /\ x \div b \in Nat /\ x % b \in 0 .. b - 1
  OBVIOUS
<1> QED
  BY <1>1

(* The word a position is at, from where its block begins. *)
LEMMA OffsetInBlock ==
    ASSUME BlockSize \in Nat, BlockSize > 2, NEW pos \in Nat, NEW i \in Nat, CtzIndex(pos) = i
    PROVE  CtzOff(pos) = Pointed(i) + (pos - First[i])
<1>1. CASE i = 0
  BY <1>1, FirstIs DEF CtzOff, Pointed
<1>2. CASE i # 0
  <2> DEFINE a == i * (BlockSize - 2)
  <2>1. a \in Nat /\ (BlockSize - 2) * i = a
    OBVIOUS
  <2>2. CtzOff(pos) = pos - (BlockSize - 2) * i - Popc[i]
    BY <1>2 DEF CtzOff
  <2>3. First[i] = a + 2 + Popc[i - 1]
    BY <1>2, FirstClosed
  <2> HIDE DEF a
  <2>4. Popc[i] + TrailingZeros[i] = Popc[i - 1] + 1
    BY <1>2, PopcStep
  <2>5. Popc[i] \in Nat /\ Popc[i - 1] \in Nat /\ TrailingZeros[i] \in Nat
    BY <1>2, PopcIs, TrailingZerosIs
  <2>6. Pointed(i) = TrailingZeros[i] + 1
    BY <1>2 DEF Pointed
  <2>7. CtzOff(pos) = pos - a - Popc[i]
    BY <2>1, <2>2
  <2> QED
    BY <2>1, <2>3, <2>4, <2>5, <2>6, <2>7
<1> QED
  BY <1>1, <1>2

(* lfs_ctz_index finds the block whose data the position is in, and the word *)
(* of it after its pointers, wherever the position is (lfs.c 2837-2848).     *)
THEOREM IndexExact ==
    ASSUME BlockSize \in Nat, NEW pos \in Nat, Room(pos)
    PROVE  LET i == CtzIndex(pos)
           IN  /\ i \in Nat
               /\ First[i] <= pos /\ pos < First[i + 1]
               /\ CtzOff(pos) = Pointed(i) + (pos - First[i])
<1> DEFINE b == BlockSize - 2
<1>1. b \in Nat /\ b > 0 /\ BlockSize = b + 2
  BY DEF Room
<1>2. PICK q \in Nat, r \in 0 .. b - 1 : pos = q * b + r /\ pos \div b = q
  BY <1>1, Division
<1>3. \A k \in 0 .. q : Popc[k] \in Nat /\ Popc[k] + 2 <= b
  <2>1. \A k \in 0 .. pos \div b : Popc[k] + 4 <= BlockSize
    BY DEF Room
  <2>2. ASSUME NEW k \in 0 .. q PROVE Popc[k] \in Nat /\ Popc[k] + 4 <= BlockSize
    BY <1>2, <2>1, PopcIs
  <2> HIDE DEF b
  <2> QED
    BY <1>1, <2>2
<1>4. CtzIndex(pos) = IF q = 0 THEN 0 ELSE (pos - (Popc[q - 1] + 2)) \div b
  BY <1>2 DEF CtzIndex
<1> HIDE DEF b
<1>5. First[0] = 0 /\ First[0 + 1] = b + 2
  BY <1>1, FirstIs DEF Pointed
<1>6. \A k \in Nat : k # 0 => First[k] = k * b + 2 + Popc[k - 1]
  BY <1>1, FirstClosed
<1>7. \E i \in Nat : CtzIndex(pos) = i /\ First[i] <= pos /\ pos < First[i + 1]
  <2>1. CASE q = 0
    BY <1>1, <1>2, <1>4, <1>5, <2>1
  <2>2. CASE q # 0 /\ r >= 2 + Popc[q - 1]
    <3> DEFINE a == q * b
    <3>1. q - 1 \in 0 .. q /\ q + 1 \in Nat /\ q + 1 # 0 /\ (q + 1) - 1 = q /\ a \in Nat
      BY <1>1, <2>2
    <3>2. r - (2 + Popc[q - 1]) \in 0 .. b - 1
      BY <1>1, <1>3, <2>2, <3>1
    <3>3. (a + (r - (2 + Popc[q - 1]))) \div b = q
      BY <1>1, <3>2, Quotient
    <3>4. (q + 1) * b = a + b
      BY <1>1
    <3>5. First[q] = a + 2 + Popc[q - 1] /\ First[q + 1] = a + b + 2 + Popc[q]
      BY <1>6, <2>2, <3>1, <3>4
    <3>6. pos = a + r
      BY <1>2
    <3> HIDE DEF a
    <3>7. pos - (Popc[q - 1] + 2) = a + (r - (2 + Popc[q - 1]))
      BY <1>3, <3>1, <3>6
    <3>8. CtzIndex(pos) = q
      BY <1>4, <2>2, <3>3, <3>7
    <3>9. Popc[q] \in Nat /\ Popc[q - 1] \in Nat
      BY <1>3, <3>1
    <3> QED
      BY <1>1, <2>2, <3>1, <3>5, <3>6, <3>8, <3>9
  <2>3. CASE q # 0 /\ r < 2 + Popc[q - 1]
    <3> DEFINE j == q - 1
               a == j * b
    <3>1. j \in 0 .. q /\ j \in Nat /\ j + 1 = q /\ a \in Nat
      BY <1>1, <2>3
    <3>2. Popc[j] \in Nat /\ Popc[j] + 2 <= b
      BY <1>3, <3>1
    <3>3. b + r - (2 + Popc[j]) \in 0 .. b - 1
      BY <1>1, <2>3, <3>2
    <3>4. (a + (b + r - (2 + Popc[j]))) \div b = j
      BY <1>1, <3>1, <3>3, Quotient
    <3>5. (j + 1) * b = a + b
      BY <1>1, <3>1
    <3>6. pos = a + b + r
      BY <1>2, <3>1, <3>5
    <3>7. j # 0 => First[j] = a + 2 + Popc[j - 1]
      BY <1>6, <3>1
    <3>8. j + 1 # 0 => First[j + 1] = (j + 1) * b + 2 + Popc[(j + 1) - 1]
      BY <1>6, <3>1
    <3>9. (j + 1) - 1 = j
      BY <3>1
    <3> HIDE DEF a, j
    <3>10. First[j + 1] = a + b + 2 + Popc[j]
      BY <3>1, <3>5, <3>8, <3>9
    <3>11. pos - (Popc[j] + 2) = a + (b + r - (2 + Popc[j]))
      BY <1>1, <3>1, <3>2, <3>6
    <3>12. CtzIndex(pos) = j
      BY <1>4, <2>3, <3>4, <3>11 DEF j
    <3>13. First[j] <= pos
      <4>1. CASE j = 0
        BY <1>5, <4>1
      <4>2. CASE j # 0
        <5>1. j - 1 \in 0 .. q
          BY <3>1, <4>2
        <5>2. Popc[j - 1] \in Nat /\ Popc[j - 1] + 2 <= b
          BY <1>3, <5>1
        <5> QED
          BY <1>1, <3>1, <3>6, <3>7, <4>2, <5>2
      <4> QED
        BY <4>1, <4>2
    <3>14. pos < First[j + 1]
      BY <1>1, <2>3, <3>1, <3>2, <3>6, <3>10 DEF j
    <3> QED
      BY <3>1, <3>12, <3>13, <3>14
  <2>4. q # 0 => q - 1 \in 0 .. q
    OBVIOUS
  <2>5. q # 0 => Popc[q - 1] \in Nat
    BY <1>3, <2>4
  <2> QED
    BY <1>1, <2>1, <2>2, <2>3, <2>5
<1>8. PICK i \in Nat : CtzIndex(pos) = i /\ First[i] <= pos /\ pos < First[i + 1]
  BY <1>7
<1>9. CtzOff(pos) = Pointed(i) + (pos - First[i])
  BY <1>1, <1>8, OffsetInBlock
<1> QED
  BY <1>8, <1>9

(* The blocks of littlefs, of 128 bytes and more (lfs.c 4173-4177), have     *)
(* room for the pointers of every list that may be as long as the longest    *)
(* file, 2^31 - 1 bytes.                                                     *)
LEMMA RoomEnough ==
    ASSUME BlockSize \in Nat, BlockSize >= 32, NEW pos \in Nat, pos < Pow2[29] PROVE Room(pos)
<1> DEFINE b == BlockSize - 2
<1>1. \A k \in Nat : Pow2[k + 1] = 2 * Pow2[k] /\ Pow2[k] \in Nat
  BY Pow2Is
<1>2. Pow2[29] = 16 * Pow2[25] /\ Pow2[25] \in Nat
  <2>1. Pow2[25 + 1] = 2 * Pow2[25] /\ Pow2[26 + 1] = 2 * Pow2[26]
        /\ Pow2[27 + 1] = 2 * Pow2[27] /\ Pow2[28 + 1] = 2 * Pow2[28] /\ Pow2[25] \in Nat
    BY <1>1
  <2> QED
    BY <2>1
<1>3. ASSUME NEW k \in 0 .. pos \div b PROVE Popc[k] + 4 <= BlockSize
  <2>1. PICK q \in Nat, r \in 0 .. b - 1 : pos = q * b + r /\ pos \div b = q
    BY Division
  <2>2. q * 30 <= q * b
    <3>1. PICK d \in Nat : b = 30 + d
      <4>1. b - 30 \in Nat /\ b = 30 + (b - 30)
        OBVIOUS
      <4> QED
        BY <4>1
    <3>2. q * b = q * 30 + q * d /\ q * d \in Nat
      BY <3>1
    <3> QED
      BY <3>2
  <2> DEFINE a == q * b
  <2>3. a \in Nat /\ q * 30 <= a /\ a <= pos
    BY <2>1, <2>2
  <2> HIDE DEF a
  <2>4. q < Pow2[25]
    <3> DEFINE n == Pow2[25]
    <3>1. n \in Nat /\ q * 30 < 16 * n
      BY <1>2, <2>3
    <3> HIDE DEF n
    <3>2. q < n
      BY <3>1
    <3> QED
      BY <3>2 DEF n
  <2>5. k \in Nat /\ k < Pow2[25]
    BY <1>2, <2>1, <2>4
  <2>6. Popc[k] <= 25 /\ Popc[k] \in Nat
    BY <2>5, PopcBound, PopcIs
  <2> QED
    BY <2>6
<1> QED
  BY <1>3 DEF Room

(* The word a position is found at is right for every position of every file *)
(* and every size of block littlefs accepts (lfs.c 2834-2848, 4173-4177).    *)
THEOREM IndexExactInFiles ==
    ASSUME BlockSize \in Nat, BlockSize >= 32, NEW pos \in Nat, pos < Pow2[29]
    PROVE  LET i == CtzIndex(pos)
           IN  /\ i \in Nat
               /\ First[i] <= pos /\ pos < First[i + 1]
               /\ CtzOff(pos) = Pointed(i) + (pos - First[i])
  BY RoomEnough, IndexExact
-----------------------------------------------------------------------------
(* The pointer lfs_ctz_find follows is one the block has, and it does not    *)
(* lead past the block it looks for (2863-2866).                             *)
LEMMA SkipSound ==
    ASSUME NEW to \in Nat, NEW from \in Nat, to < from
    PROVE  /\ Skip(from, to) \in Nat
           /\ Skip(from, to) < Pointed(from)
           /\ Pow2[Skip(from, to)] \in Nat \ {0}
           /\ Pow2[Skip(from, to)] <= from - to
<1> DEFINE n == from - to + 1
           reach == Npw2[n] - 1
           zeros == TrailingZeros[from]
<1>1. n \in Nat /\ n > 1
  OBVIOUS
<1>2. reach \in Nat /\ Pow2[reach] < n
  BY <1>1, Npw2Bound
<1>3. zeros \in Nat /\ Pointed(from) = zeros + 1
  BY TrailingZerosIs DEF Pointed
<1>4. Skip(from, to) = IF reach < zeros THEN reach ELSE zeros
  BY DEF Skip
<1>5. PICK s \in Nat : s = Skip(from, to) /\ s <= reach /\ s <= zeros
  <2> HIDE DEF reach, zeros
  <2> QED
    BY <1>2, <1>3, <1>4
<1>6. s \in 0 .. reach
  <2> HIDE DEF reach
  <2> QED
    BY <1>2, <1>5
<1>7. Pow2[s] <= Pow2[reach] /\ Pow2[s] \in Nat \ {0} /\ Pow2[reach] \in Nat
  BY <1>2, <1>6, Pow2Grows, Pow2Is
<1>8. Pow2[s] <= from - to
  <2> HIDE DEF reach
  <2> QED
    BY <1>2, <1>7
<1> QED
  BY <1>3, <1>5, <1>7, <1>8

(* The block lfs_ctz_find ends in, as it goes from one block towards another *)
(* (2863-2877).                                                              *)
Landing(to) ==
    LET land[from \in Nat] ==
            IF from <= to THEN from ELSE land[from - Pow2[Skip(from, to)]]
    IN land

(* It gets to the block it looks for, whichever of a list's blocks it starts *)
(* in and however the skips fall.                                            *)
THEOREM FindArrives ==
    ASSUME NEW to \in Nat, NEW from \in Nat, to <= from PROVE Landing(to)[from] = to
<1> DEFINE Step(n) == IF n <= to THEN n ELSE n - Pow2[Skip(n, to)]
           base == [n \in Nat |-> n]
           step == [s \in Nat \X Nat |-> s[2]]
           prev == [n \in Nat |-> Step(n)]
           land == Landing(to)
<1>1. ASSUME NEW n \in Nat
      PROVE  /\ Step(n) \in Nat
             /\ n <= to => Step(n) = n
             /\ to < n => Step(n) = n - Pow2[Skip(n, to)] /\ Step(n) < n /\ to <= Step(n)
  <2>1. CASE n <= to
    BY <2>1
  <2>2. CASE to < n
    <3>1. Pow2[Skip(n, to)] \in Nat \ {0} /\ Pow2[Skip(n, to)] <= n - to
      BY <2>2, SkipSound
    <3> QED
      BY <2>2, <3>1
  <2> QED
    BY <2>1, <2>2
<1> HIDE DEF Step
<1>2. base \in [Nat -> Nat] /\ step \in [Nat \X Nat -> Nat] /\ prev \in [Nat -> Nat]
  BY <1>1
<1>3. PICK g \in [Nat -> Nat] : Solves(g, base, step, prev)
  <2> HIDE DEF base, step, prev
  <2> QED
    BY <1>2, Recursion
<1>4. g = [n \in Nat |-> IF n <= to THEN n ELSE g[n - Pow2[Skip(n, to)]]]
  <2> SUFFICES ASSUME NEW n \in Nat
               PROVE  g[n] = IF n <= to THEN n ELSE g[n - Pow2[Skip(n, to)]]
    OBVIOUS
  <2>1. g[n] = IF prev[n] < n THEN step[<<n, g[prev[n]]>>] ELSE base[n]
    <3> HIDE DEF base, step, prev
    <3> QED
      BY <1>3 DEF Solves
  <2>2. prev[n] = Step(n) /\ base[n] = n /\ step[<<n, g[Step(n)]>>] = g[Step(n)]
    BY <1>1
  <2> HIDE DEF base, step, prev
  <2> QED
    BY <1>1, <2>1, <2>2
<1>5. land = [n \in Nat |-> IF n <= to THEN n ELSE land[n - Pow2[Skip(n, to)]]]
  BY <1>4 DEF Landing
<1> HIDE DEF land
<1> DEFINE S == {n \in Nat : to <= n => land[n] = to}
<1>6. ASSUME NEW n \in Nat, \A j \in 0 .. n - 1 : j \in S PROVE n \in S
  <2> SUFFICES ASSUME to <= n PROVE land[n] = to
    OBVIOUS
  <2>1. CASE n = to
    BY <1>5, <2>1
  <2>2. CASE to < n
    <3>1. Step(n) \in 0 .. n - 1 /\ to <= Step(n) /\ Step(n) = n - Pow2[Skip(n, to)]
      BY <1>1, <2>2
    <3>2. land[n] = land[n - Pow2[Skip(n, to)]]
      BY <1>5, <2>2
    <3>3. land[Step(n)] = to
      BY <1>6, <3>1
    <3> QED
      BY <3>1, <3>2, <3>3
  <2> QED
    BY <2>1, <2>2
<1> HIDE DEF S
<1>7. Nat \subseteq S
  BY <1>6, Induction
<1> QED
  BY <1>7 DEF S, land

(* lfs_ctz_extend copies the pointers of a new block n from the blocks they  *)
(* lead to: pointer k, to n - 2^k, is followed by the pointer k of that      *)
(* block, to n - 2^(k + 1).  The block has that pointer (2946-2972).         *)
THEOREM PointersChain ==
    ASSUME NEW n \in Nat \ {0}, NEW k \in Nat, k + 1 < Pointed(n)
    PROVE  /\ n - Pow2[k] \in Nat \ {0}
           /\ k < Pointed(n - Pow2[k])
           /\ n - Pow2[k] - Pow2[k] = n - Pow2[k + 1] /\ n - Pow2[k + 1] \in Nat
<1> DEFINE S == {i \in Nat : \A x \in Nat \ {0} : i < TrailingZeros[x] =>
                     /\ x - Pow2[i] \in Nat \ {0}
                     /\ TrailingZeros[x - Pow2[i]] = i
                     /\ Pow2[i + 1] <= x}
<1>1. ASSUME NEW i \in Nat, \A j \in 0 .. i - 1 : j \in S PROVE i \in S
  <2> SUFFICES ASSUME NEW x \in Nat \ {0}, i < TrailingZeros[x]
               PROVE  /\ x - Pow2[i] \in Nat \ {0}
                      /\ TrailingZeros[x - Pow2[i]] = i
                      /\ Pow2[i + 1] <= x
    OBVIOUS
  <2>1. PICK m \in Nat : x = 2 * m \/ x = 2 * m + 1
    <3>1. x \div 2 \in Nat /\ (x = 2 * (x \div 2) \/ x = 2 * (x \div 2) + 1)
      OBVIOUS
    <3> QED
      BY <3>1
  <2>2. x # 2 * m + 1
    <3>1. TrailingZeros[2 * m + 1] = 0
      BY TrailingZerosIs
    <3> QED
      BY <3>1
  <2>3. m \in Nat \ {0} /\ x = 2 * m
    BY <2>1, <2>2
  <2>4. TrailingZeros[x] = 1 + TrailingZeros[m] /\ TrailingZeros[m] \in Nat
    BY <2>3, TrailingZerosIs
  <2>5. CASE i = 0
    <3>1. Pow2[i] = 1 /\ Pow2[0 + 1] = 2
      BY <2>5, Pow2Is
    <3>2. m - 1 \in Nat /\ x - 1 = 2 * (m - 1) + 1
      BY <2>3
    <3>3. TrailingZeros[2 * (m - 1) + 1] = 0
      BY <3>2, TrailingZerosIs
    <3> QED
      BY <2>3, <2>5, <3>1, <3>2, <3>3
  <2>6. CASE i # 0
    <3> DEFINE j == i - 1
    <3>1. j \in 0 .. i - 1 /\ j \in Nat /\ j + 1 = i /\ j < TrailingZeros[m]
      BY <2>4, <2>6
    <3>2. /\ m - Pow2[j] \in Nat \ {0}
          /\ TrailingZeros[m - Pow2[j]] = j
          /\ Pow2[j + 1] <= m
      BY <1>1, <2>3, <3>1
    <3>3. Pow2[i] = 2 * Pow2[j] /\ Pow2[i + 1] = 2 * Pow2[i] /\ Pow2[j] \in Nat
      BY <3>1, Pow2Is
    <3>4. x - Pow2[i] = 2 * (m - Pow2[j])
      BY <2>3, <3>3
    <3>5. TrailingZeros[2 * (m - Pow2[j])] = 1 + j
      BY <3>2, TrailingZerosIs
    <3> HIDE DEF j
    <3> QED
      BY <2>3, <3>1, <3>2, <3>3, <3>4, <3>5
  <2> QED
    BY <2>5, <2>6
<1> HIDE DEF S
<1>2. Nat \subseteq S
  BY <1>1, Induction
<1>3. k < TrailingZeros[n] /\ TrailingZeros[n] \in Nat
  BY TrailingZerosIs DEF Pointed
<1>4. /\ n - Pow2[k] \in Nat \ {0}
      /\ TrailingZeros[n - Pow2[k]] = k
      /\ Pow2[k + 1] <= n
  BY <1>2, <1>3 DEF S
<1>5. Pow2[k + 1] = 2 * Pow2[k] /\ Pow2[k] \in Nat
  BY Pow2Is
<1>6. Pointed(n - Pow2[k]) = k + 1
  BY <1>4 DEF Pointed
<1> QED
  BY <1>4, <1>5, <1>6
=============================================================================
