----------------------------- MODULE BasicFacts -----------------------------
(***************************************************************************)
(* Facts the proofs share.  Arithmetic modulo a number that is only known  *)
(* to be positive: the indices of the keyboard ring and the unsigned       *)
(* counters of the kernel.  Induction, stated for sets of numbers, and     *)
(* what it gives for recursive functions and folds: that they are well     *)
(* defined when every step stays in a set.                                 *)
(***************************************************************************)
EXTENDS Integers, FiniteSetsExt, WellFoundedInduction, TLAPS

-----------------------------------------------------------------------------
(* Remainders.                                                             *)

(* A remainder lies between zero and the modulus.                          *)
LEMMA ModRange ==
  ASSUME NEW N \in Nat \ {0}, NEW a \in Int
  PROVE a % N \in 0 .. N - 1
  OBVIOUS

(* The remainder is determined by the quotient.                            *)
LEMMA ModUnique ==
  ASSUME NEW N \in Nat \ {0}, NEW q \in Int, NEW r \in 0 .. N - 1
  PROVE (q * N + r) % N = r
  OBVIOUS

(* Division with remainder.                                                *)
LEMMA ModQuotient ==
  ASSUME NEW N \in Nat \ {0}, NEW a \in Int
  PROVE \E q \in Int : a = q * N + (a % N)
<1>1. a \div N \in Int
  OBVIOUS
<1>2. a = (a \div N) * N + (a % N)
  OBVIOUS
<1> QED
  BY ONLY <1>1, <1>2

(* Two numbers that differ by a multiple of N have the same remainder.     *)
LEMMA ModShift ==
  ASSUME NEW N \in Nat \ {0}, NEW a \in Int, NEW b \in Int, NEW p \in Int,
         b = a + p * N
  PROVE b % N = a % N
<1>1. PICK q \in Int : a = q * N + (a % N)
  BY ModQuotient
<1>2. a % N \in 0 .. N - 1
  BY ModRange
<1>3. b = (q + p) * N + (a % N)
  BY <1>1, <1>2
<1>4. ((q + p) * N + (a % N)) % N = a % N
  BY <1>2, ModUnique
<1> QED
  BY <1>3, <1>4

(* A remainder may be taken before or after an addition.                   *)
LEMMA ModSum ==
  ASSUME NEW N \in Nat \ {0}, NEW a \in Int, NEW b \in Int, NEW r,
         r = a % N
  PROVE (r + b) % N = (a + b) % N
<1>1. PICK q \in Int : a = q * N + r
  BY ModQuotient
<1>2. r \in Int
  BY ModRange
<1>3. /\ a + b = (r + b) + q * N
      /\ r + b \in Int
      /\ a + b \in Int
  BY ONLY <1>1, <1>2, N \in Nat, a \in Int, b \in Int
<1> QED
  BY ONLY <1>3, q \in Int, N \in Nat \ {0}, ModShift

(* The same, on either side.                                               *)
LEMMA ModSumBoth ==
  ASSUME NEW N \in Nat \ {0}, NEW a \in Int, NEW b \in Int
  PROVE  /\ ((a % N) + b) % N = (a + b) % N
         /\ (b + (a % N)) % N = (b + a) % N
<1>1. ((a % N) + b) % N = (a + b) % N
  BY ModSum
<1>2. PICK r \in Int : r = a % N
  BY ModRange
<1>3. r + b = b + r /\ a + b = b + a
  OBVIOUS
<1>4. QED
  BY <1>1, <1>2, <1>3, Zenon

(* Reducing modulo a multiple of N does not change the remainder.          *)
LEMMA ModCounter ==
  ASSUME NEW N \in Nat \ {0}, NEW M \in Nat \ {0}, M % N = 0,
         NEW a \in Int, NEW i \in Int, NEW r,
         r = a % M
  PROVE (i + r) % N = (i + a) % N
<1>1. PICK q \in Int : a = q * M + r
  BY ModQuotient
<1>2. PICK k \in Int : M = k * N + (M % N)
  <2>1. M \in Int
    OBVIOUS
  <2> QED
    BY ONLY <2>1, N \in Nat \ {0}, ModQuotient
<1>3. r \in Int
  BY ModRange
<1>4. M = k * N
  BY <1>2
<1>5. q * k \in Int
  OBVIOUS
<1>6. q * M = (q * k) * N
  <2>1. q * (k * N) = (q * k) * N
    BY ONLY q \in Int, k \in Int, N \in Int
  <2> QED
    BY <1>4, <2>1
<1>7. /\ i + a = (i + r) + (q * k) * N
      /\ i + a \in Int
      /\ i + r \in Int
  BY ONLY <1>1, <1>3, <1>6, i \in Int, a \in Int, q \in Int, k \in Int, M \in Nat, N \in Nat
<1> QED
  BY ONLY <1>5, <1>7, N \in Nat \ {0}, ModShift

(* A quotient lies between two numbers when the dividend lies between      *)
(* their multiples.                                                        *)
LEMMA DivBounds ==
  ASSUME NEW N \in Nat \ {0}, NEW a \in Int, NEW k \in Int
  PROVE  /\ a \div N \in Int
         /\ a \div N >= k <=> a >= k * N
         /\ a \div N <= k <=> a < k * N + N
<1>1. a \div N \in Int
  OBVIOUS
<1>2. PICK q \in Int : q = a \div N
  BY <1>1
<1>3. PICK r \in 0 .. N - 1 : a = q * N + r
  <2>1. a = (a \div N) * N + (a % N) /\ a % N \in 0 .. N - 1
    OBVIOUS
  <2> QED
    BY <1>2, <2>1
<1>4. ASSUME q >= k PROVE q * N >= k * N
  BY <1>4
<1>5. ASSUME k >= q + 1 PROVE k * N >= q * N + N
  <2>1. k * N >= (q + 1) * N
    BY <1>5
  <2>2. (q + 1) * N = q * N + N
    OBVIOUS
  <2> QED
    BY <2>1, <2>2
<1>6. ASSUME q >= k + 1 PROVE q * N >= k * N + N
  <2>1. q * N >= (k + 1) * N
    BY <1>6
  <2>2. (k + 1) * N = k * N + N
    OBVIOUS
  <2> QED
    BY <2>1, <2>2
<1>7. ASSUME k >= q PROVE k * N >= q * N
  BY <1>7
<1>8. q * N \in Int /\ k * N \in Int
  OBVIOUS
<1>9. q >= k <=> a >= k * N
  BY <1>3, <1>4, <1>5, <1>8
<1>10. q <= k <=> a < k * N + N
  BY <1>3, <1>6, <1>7, <1>8
<1> QED
  BY <1>1, <1>2, <1>9, <1>10

-----------------------------------------------------------------------------
(* Induction.                                                              *)

(* A set of numbers that holds zero and every successor holds them all:    *)
(* the one of its complement would be a smallest number without a reason.  *)
LEMMA SetInduction ==
  ASSUME NEW T, 0 \in T, \A k \in Nat : k \in T => k + 1 \in T
  PROVE  Nat \subseteq T
<1> DEFINE R == OpToRel(<, Nat)
           Missing == Nat \ T
<1>1. SUFFICES ASSUME Missing # {} PROVE FALSE
  OBVIOUS
<1>2. \A m, n \in Nat : m < n => <<m, n>> \in R
  BY DEF OpToRel
<1>3. IsWellFoundedOn(R, Nat)
  BY NatLessThanWellFounded
<1> HIDE DEF R
<1>4. PICK n \in Missing : \A m \in Missing : ~ (<<m, n>> \in R)
  <2>2. Missing \subseteq Nat
    OBVIOUS
  <2> HIDE DEF Missing
  <2> QED
    BY <1>1, <1>3, <2>2, WFMin
<1>5. n # 0 /\ n \in Nat
  OBVIOUS
<1>6. n - 1 \in T
  <2>1. n - 1 \in Nat /\ n - 1 < n
    BY <1>5
  <2>2. <<n - 1, n>> \in R
    BY <1>2, <1>5, <2>1
  <2> QED
    BY <1>4, <2>1, <2>2
<1> QED
  BY <1>5, <1>6

(* Induction up to a bound.                                                *)
LEMMA BoundedInduction ==
  ASSUME NEW n \in Nat, NEW T, 0 \in T, \A k \in 0 .. n - 1 : k \in T => k + 1 \in T
  PROVE  0 .. n \subseteq T
<1> DEFINE U == {k \in Nat : k <= n => k \in T}
<1>1. 0 \in U
  OBVIOUS
<1>2. \A k \in Nat : k \in U => k + 1 \in U
  OBVIOUS
<1> HIDE DEF U
<1>3. Nat \subseteq U
  BY <1>1, <1>2, SetInduction
<1> QED
  BY <1>3 DEF U

(* The equations of a recursive function over 0 .. n.                      *)
Recursion(n, step, base, f) == f[0] = base /\ \A i \in 1 .. n : f[i] = step[i][f[i - 1]]

(* A recursive function whose steps stay in a set is well defined.         *)
LEMMA RecursionExists ==
  ASSUME NEW n \in Nat, NEW S, NEW base \in S, NEW step \in [1 .. n -> [S -> S]]
  PROVE  \E f \in [0 .. n -> S] : Recursion(n, step, base, f)
<1> DEFINE Good(k, f) == f = [i \in 0 .. k |-> IF i = 0 THEN base ELSE step[i][f[i - 1]]]
           T == {k \in 0 .. n : \E f \in [0 .. k -> S] : Good(k, f)}
<1>1. 0 \in T
  <2> DEFINE f == [i \in 0 .. 0 |-> base]
  <2>1. f \in [0 .. 0 -> S] /\ Good(0, f)
    OBVIOUS
  <2> HIDE DEF f, Good
  <2> QED
    BY <2>1
<1>2. ASSUME NEW k \in 0 .. n - 1, k \in T
      PROVE  k + 1 \in T
  <2>1. PICK f \in [0 .. k -> S] : Good(k, f)
    BY <1>2
  <2> DEFINE g == [i \in 0 .. k + 1 |-> IF i = k + 1 THEN step[k + 1][f[k]] ELSE f[i]]
  <2>2. g \in [0 .. k + 1 -> S]
    <3>1. k + 1 \in 1 .. n /\ f[k] \in S
      OBVIOUS
    <3> QED
      BY <3>1
  <2>3. ASSUME NEW i \in 0 .. k + 1
        PROVE  g[i] = IF i = 0 THEN base ELSE step[i][g[i - 1]]
    <3>1. CASE i = k + 1
      <4>1. g[i] = step[k + 1][f[k]] /\ g[i - 1] = f[k] /\ i # 0
        BY <3>1
      <4> QED
        BY <3>1, <4>1
    <3>2. CASE i # k + 1
      <4>1. i \in 0 .. k /\ (i # 0 => i - 1 \in 0 .. k)
        BY <3>2
      <4>2. f[i] = IF i = 0 THEN base ELSE step[i][f[i - 1]]
        BY <2>1, <4>1
      <4>3. g[i] = f[i] /\ (i # 0 => g[i - 1] = f[i - 1])
        BY <3>2, <4>1
      <4> QED
        BY <4>2, <4>3
    <3> QED
      BY <3>1, <3>2
  <2>4. Good(k + 1, g)
    BY <2>2, <2>3
  <2> HIDE DEF g, Good
  <2> QED
    BY <2>2, <2>4
<1> HIDE DEF T
<1>3. 0 .. n \subseteq T
  BY <1>1, <1>2, BoundedInduction
<1>4. PICK f \in [0 .. n -> S] : Good(n, f)
  BY <1>3 DEF T
<1>5. Recursion(n, step, base, f)
  BY <1>4 DEF Recursion
<1> QED
  BY <1>5

(* The function over sets of places that a fold of n places evaluates, the *)
(* last place first.                                                       *)
FoldStep(n, step, base, f) ==
  f = [s \in SUBSET (1 .. n) |-> IF s = {} THEN base ELSE step[Max(s)][f[s \ {Max(s)}]]]

(* The largest number of a set.                                            *)
LEMMA MaxIs ==
  ASSUME NEW s, s \subseteq Int, NEW m \in s, \A i \in s : i <= m
  PROVE Max(s) = m
<1>1. Max(s) = CHOOSE x \in s : \A y \in s : x >= y
  BY DEF Max
<1>2. \A x \in s : (\A y \in s : x >= y) <=> x = m
  OBVIOUS
<1> QED
  BY <1>1, <1>2

(* A fold whose steps stay in a set is well defined.                       *)
LEMMA FoldExists ==
  ASSUME NEW n \in Nat, NEW S, NEW base \in S, NEW step \in [1 .. n -> [S -> S]]
  PROVE  \E f \in [SUBSET (1 .. n) -> S] : FoldStep(n, step, base, f)
<1> DEFINE Fine(k) == \E f \in [SUBSET (1 .. k) -> S] : FoldStep(k, step, base, f)
           T == {k \in 0 .. n : Fine(k)}
<1>1. 0 \in T
  <2> DEFINE f == [s \in SUBSET (1 .. 0) |-> base]
  <2>1. f \in [SUBSET (1 .. 0) -> S]
    OBVIOUS
  <2>2. FoldStep(0, step, base, f)
    BY DEF FoldStep
  <2> QED
    BY <2>1, <2>2
<1>2. ASSUME NEW k \in 0 .. n - 1, k \in T PROVE k + 1 \in T
  <2>1. PICK f \in [SUBSET (1 .. k) -> S] : FoldStep(k, step, base, f)
    BY <1>2
  <2> DEFINE g == [s \in SUBSET (1 .. k + 1) |->
                     IF k + 1 \in s THEN step[k + 1][f[s \ {k + 1}]] ELSE f[s]]
  <2>2. \A s \in SUBSET (1 .. k + 1) : s \ {k + 1} \in SUBSET (1 .. k) /\ (k + 1 \notin s => s \in SUBSET (1 .. k))
    OBVIOUS
  <2>3. g \in [SUBSET (1 .. k + 1) -> S]
    <3>1. k + 1 \in 1 .. n
      OBVIOUS
    <3> QED
      BY <2>2, <3>1
  <2>4. ASSUME NEW s \in SUBSET (1 .. k + 1)
        PROVE  g[s] = IF s = {} THEN base ELSE step[Max(s)][g[s \ {Max(s)}]]
    <3>1. CASE s = {}
      <4>1. g[s] = f[s] /\ s \in SUBSET (1 .. k)
        BY <3>1
      <4> QED
        BY <2>1, <3>1, <4>1 DEF FoldStep
    <3>2. CASE k + 1 \in s
      <4>1. s \subseteq Int /\ \A i \in s : i <= k + 1
        OBVIOUS
      <4>2. Max(s) = k + 1
        BY <3>2, <4>1, MaxIs
      <4>3. g[s] = step[k + 1][f[s \ {k + 1}]]
        BY <3>2
      <4>4. g[s \ {k + 1}] = f[s \ {k + 1}]
        OBVIOUS
      <4> QED
        BY <3>2, <4>2, <4>3, <4>4
    <3>3. CASE k + 1 \notin s /\ s # {}
      <4>1. g[s] = f[s] /\ s \in SUBSET (1 .. k)
        BY <3>3
      <4>2. f[s] = step[Max(s)][f[s \ {Max(s)}]]
        BY <2>1, <3>3, <4>1 DEF FoldStep
      <4>3. s \ {Max(s)} \in SUBSET (1 .. k + 1) /\ k + 1 \notin s \ {Max(s)}
        BY <3>3
      <4>4. g[s \ {Max(s)}] = f[s \ {Max(s)}]
        BY <4>3
      <4> QED
        BY <3>3, <4>1, <4>2, <4>4
    <3> QED
      BY <3>1, <3>2, <3>3
  <2>5. FoldStep(k + 1, step, base, g)
    BY <2>3, <2>4 DEF FoldStep
  <2> HIDE DEF g
  <2> QED
    BY <2>3, <2>5
<1> HIDE DEF T
<1>3. n \in T
  <2>1. 0 .. n \subseteq T
    BY <1>1, <1>2, BoundedInduction
  <2> QED
    BY <2>1
<1> QED
  BY <1>3 DEF T

(* The places up to k: the last one, and the others.                       *)
LEMMA Places ==
  ASSUME NEW k \in Nat, k # 0
  PROVE  Max(1 .. k) = k /\ (1 .. k) \ {k} = 1 .. k - 1 /\ 1 .. k # {}
<1>1. 1 .. k \subseteq Int /\ k \in 1 .. k /\ \A i \in 1 .. k : i <= k
  OBVIOUS
<1>2. Max(1 .. k) = k
  BY <1>1, MaxIs
<1> QED
  BY <1>1, <1>2

(* A set of places that is not empty has a last one.                       *)
LEMMA LastPlace ==
  ASSUME NEW n \in Nat, NEW s \in SUBSET (1 .. n), s # {}
  PROVE  Max(s) \in s /\ Max(s) \in 1 .. n /\ \A i \in s : i <= Max(s)
<1> DEFINE T == {k \in 0 .. n : \A u \in SUBSET (1 .. k) :
                    u # {} => \E m \in u : \A i \in u : i <= m}
<1>1. 0 \in T
  <2>1. SUFFICES ASSUME NEW u \in SUBSET (1 .. 0), u # {}
                 PROVE  \E m \in u : \A i \in u : i <= m
    OBVIOUS
  <2>2. 1 .. 0 = {}
    OBVIOUS
  <2> QED
    BY <2>1, <2>2
<1>2. ASSUME NEW k \in 0 .. n - 1, k \in T
      PROVE  k + 1 \in T
  <2>1. SUFFICES ASSUME NEW u \in SUBSET (1 .. k + 1), u # {}
                 PROVE  \E m \in u : \A i \in u : i <= m
    OBVIOUS
  <2>2. CASE k + 1 \in u
    BY <2>2
  <2>3. CASE k + 1 \notin u
    <3>1. u \in SUBSET (1 .. k)
      BY <2>3
    <3> QED
      BY <1>2, <2>1, <3>1
  <2> QED
    BY <2>2, <2>3
<1>3. 0 .. n \subseteq T
  <2> HIDE DEF T
  <2> QED
    BY <1>1, <1>2, BoundedInduction
<1>4. PICK m \in s : \A i \in s : i <= m
  <2>1. n \in T
    BY <1>3
  <2> QED
    BY <2>1
<1>5. Max(s) = m
  <2>1. s \subseteq Int
    OBVIOUS
  <2> QED
    BY <1>4, <2>1, MaxIs
<1> QED
  BY <1>4, <1>5

(* And a first one.                                                        *)
LEMMA FirstPlace ==
  ASSUME NEW n \in Nat, NEW s \in SUBSET (1 .. n), s # {}
  PROVE  \E m \in s : \A i \in s : m <= i
<1> DEFINE T == {k \in 0 .. n : \A i \in s : k < i}
<1>1. SUFFICES ASSUME ~ \E m \in s : \A i \in s : m <= i PROVE FALSE
  OBVIOUS
<1>2. 0 \in T
  OBVIOUS
<1>3. ASSUME NEW k \in 0 .. n - 1, k \in T
      PROVE  k + 1 \in T
  BY <1>1, <1>3
<1>4. 0 .. n \subseteq T
  <2> HIDE DEF T
  <2> QED
    BY <1>2, <1>3, BoundedInduction
<1>5. PICK i \in s : i \in 1 .. n
  OBVIOUS
<1>6. n \in T
  BY <1>4
<1>7. n < i
  BY <1>6
<1> QED
  BY <1>5, <1>7
=============================================================================
