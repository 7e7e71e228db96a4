--------------------------- MODULE NatSetTheorems ---------------------------
(***************************************************************************)
(* First-fit searches (the frame table, the swap bitmap) return the        *)
(* minimum of a set of indices.  The community modules define Min by       *)
(* CHOOSE; these are the facts that make the definition usable in a proof. *)
(* Beside them, the arithmetic of an index split into a word and a bit.    *)
(***************************************************************************)
EXTENDS Integers, FiniteSetsExt, WellFoundedInduction, TLAPS

\* A non-empty set of naturals has a least element, and Min is it.
LEMMA MinExists ==
  ASSUME NEW S \in SUBSET Nat, S # {}
  PROVE  Min(S) \in S /\ \A y \in S : Min(S) <= y
<1>1. PICK R : R = {ss \in Nat \X Nat : ss[1] < ss[2]}
  OBVIOUS
<1>2. IsWellFoundedOn(R, Nat)
  BY <1>1, NatLessThanWellFounded, Zenon DEF OpToRel
<1>3. PICK x \in S : \A y \in S : ~(<<y, x>> \in R)
  BY <1>2, WFMin
<1>4. ASSUME NEW y \in S, y < x  PROVE <<y, x>> \in R
  BY <1>1, <1>4
<1>5. \A y \in S : x <= y
  <2>. TAKE y \in S
  <2>1. ~(y < x)  BY <1>3, <1>4
  <2>. QED  BY <2>1
<1>. QED  BY <1>5 DEF Min

\* Whatever is in the set and below all of it is Min.
LEMMA MinIs ==
  ASSUME NEW S \in SUBSET Nat, NEW x \in S, \A y \in S : x <= y
  PROVE  Min(S) = x
<1>1. PICK m : m = Min(S)
  OBVIOUS
<1>2. m \in S /\ m <= x
  BY <1>1, MinExists
<1>3. x <= m /\ m \in Nat /\ x \in Nat
  BY <1>2
<1>4. m = x
  BY <1>2, <1>3
<1>. QED  BY <1>1, <1>4

\* What holds first, and of the next whenever it holds of one, holds of all.
LEMMA UpTo ==
  ASSUME NEW N \in Nat, NEW P, N > 0 => 1 \in P, \A i \in 1 .. N - 1 : i \in P => i + 1 \in P
  PROVE  1 .. N \subseteq P
<1>. DEFINE bad == {i \in 1 .. N : i \notin P}
<1>1. SUFFICES ASSUME bad # {} PROVE FALSE
  OBVIOUS
<1>2. PICK k : k = Min(bad)
  OBVIOUS
<1>3. k \in bad /\ \A j \in bad : k <= j
  <2>1. bad \in SUBSET Nat
    OBVIOUS
  <2>. HIDE DEF bad
  <2>. QED  BY <1>1, <1>2, <2>1, MinExists
<1>4. k # 1
  BY <1>3
<1>5. PICK j \in 1 .. N - 1 : j = k - 1 /\ j + 1 = k
  BY <1>3, <1>4
<1>6. j \notin bad /\ j \in 1 .. N
  BY <1>3, <1>5
<1>. QED  BY <1>3, <1>5, <1>6

\* The same from zero.
LEMMA UpFromZero ==
  ASSUME NEW N \in Nat, NEW P, 0 \in P, \A i \in 0 .. N - 1 : i \in P => i + 1 \in P
  PROVE  0 .. N \subseteq P
<1>1. N > 0 => 1 \in P
  BY 0 + 1 = 1
<1>2. \A i \in 1 .. N - 1 : i \in P => i + 1 \in P
  OBVIOUS
<1>3. 1 .. N \subseteq P
  BY <1>1, <1>2, UpTo
<1>4. \A i \in 0 .. N : i = 0 \/ i \in 1 .. N
  OBVIOUS
<1>. QED  BY <1>3, <1>4

\* A function on the numbers up to N may be given by its first value and by how
\* each comes from the one before.
Iterates(D, x, step, N, f) ==
  f \in [0 .. N -> D] /\ f[0] = x /\ \A i \in 1 .. N : f[i] = step[<<f[i - 1], i>>]

LEMMA IterationExists ==
  ASSUME NEW D, NEW x \in D, NEW step \in [D \X Nat -> D], NEW N \in Nat
  PROVE  \E f : Iterates(D, x, step, N, f)
<1>. DEFINE P == {k \in 0 .. N : \E f : Iterates(D, x, step, k, f)}
<1>1. 0 \in P
  <2>1. PICK f : f = [i \in 0 .. 0 |-> x]
    OBVIOUS
  <2>2. f \in [0 .. 0 -> D] /\ f[0] = x /\ 1 .. 0 = {}
    BY <2>1
  <2>3. Iterates(D, x, step, 0, f)
    BY <2>2 DEF Iterates
  <2>. QED  BY <2>2, <2>3
<1>2. ASSUME NEW k \in 0 .. N - 1, k \in P PROVE k + 1 \in P
  <2>1. PICK f : /\ f \in [0 .. k -> D] /\ f[0] = x
                 /\ \A i \in 1 .. k : f[i] = step[<<f[i - 1], i>>]
    BY <1>2 DEF Iterates
  <2>2. PICK n \in Nat : n = k + 1
    OBVIOUS
  <2>3. PICK y \in D : y = step[<<f[k], n>>]
    BY <2>1
  <2>4. PICK g : g = [i \in 0 .. n |-> IF i = n THEN y ELSE f[i]]
    OBVIOUS
  <2>5. g \in [0 .. n -> D] /\ g[0] = x
    BY <2>1, <2>2, <2>4
  <2>6. ASSUME NEW i \in 1 .. n PROVE g[i] = step[<<g[i - 1], i>>]
    <3>1. CASE i = n
      <4>1. g[i] = y /\ g[i - 1] = f[k] /\ i - 1 = k
        BY <2>2, <2>4, <3>1
      <4>. QED  BY <2>3, <3>1, <4>1
    <3>2. CASE i # n
      <4>1. i \in 1 .. k /\ i \in 0 .. n /\ i - 1 \in 0 .. n /\ i - 1 # n
        BY <2>2, <3>2
      <4>2. g[i] = f[i] /\ g[i - 1] = f[i - 1]
        BY <2>4, <3>2, <4>1
      <4>. QED  BY <2>1, <4>1, <4>2
    <3>. QED  BY <3>1, <3>2
  <2>7. Iterates(D, x, step, n, g)
    BY <2>5, <2>6 DEF Iterates
  <2>8. n \in 0 .. N
    BY <2>2
  <2>. QED  BY <2>2, <2>5, <2>7, <2>8
<1>3. N \in P
  <2>. HIDE DEF P
  <2>1. 0 .. N \subseteq P
    BY <1>1, <1>2, UpFromZero
  <2>. QED  BY <2>1
<1>. QED  BY <1>3

\* Two functions given so are one.
SameSteps(N, f, g) ==
  f[0] = g[0] /\ \A i \in 1 .. N : f[i - 1] = g[i - 1] => f[i] = g[i]

LEMMA IterationUnique ==
  ASSUME NEW N \in Nat, NEW f, NEW g, SameSteps(N, f, g)
  PROVE  f[0] = g[0] /\ \A i \in 0 .. N : f[i] = g[i]
<1>. USE DEF SameSteps
<1>. DEFINE P == {i \in 1 .. N : f[i] = g[i]}
<1>1. N > 0 => 1 \in P
  <2>1. N > 0 => 1 \in 1 .. N /\ 1 - 1 = 0
    OBVIOUS
  <2>. QED  BY <2>1
<1>2. ASSUME NEW i \in 1 .. N - 1, i \in P PROVE i + 1 \in P
  <2>1. PICK k \in 1 .. N : k = i + 1 /\ k - 1 = i
    OBVIOUS
  <2>. QED  BY <1>2, <2>1
<1>3. 1 .. N \subseteq P
  <2>. HIDE DEF P
  <2>. QED  BY <1>1, <1>2, UpTo
<1>4. \A i \in 0 .. N : i = 0 \/ i \in 1 .. N
  OBVIOUS
<1>. QED  BY <1>3, <1>4

\* An index is its word times the bits of a word, and its bit.
LEMMA DivMod ==
  ASSUME NEW b \in Nat \ {0}, NEW i \in Nat
  PROVE  i \div b \in Nat /\ i % b \in 0 .. b - 1 /\ i = (i \div b) * b + (i % b)
OBVIOUS

\* The words do not overlap.
LEMMA NextWord ==
  ASSUME NEW b \in Nat \ {0}, NEW q \in Nat, NEW r \in Nat, q < r
  PROVE  q * b + b <= r * b /\ q * b \in Nat /\ r * b \in Nat
OBVIOUS

\* A word and a bit are of one index only.
LEMMA DivModUnique ==
  ASSUME NEW b \in Nat \ {0}, NEW q \in Nat, NEW r \in 0 .. b - 1
  PROVE  /\ q * b + r \in Nat
         /\ (q * b + r) \div b = q
         /\ (q * b + r) % b = r
<1>. DEFINE n == q * b + r
            d == n \div b
            m == n % b
<1>1. n \in Nat /\ q * b \in Nat
  OBVIOUS
<1>2. d \in Nat /\ m \in 0 .. b - 1 /\ n = d * b + m
  BY <1>1, DivMod
<1>. HIDE DEF d, m
<1>3. d * b \in Nat
  BY <1>2
<1>4. d < q => d * b + b <= q * b
  BY <1>2, NextWord
<1>5. q < d => q * b + b <= d * b
  BY <1>2, NextWord
<1>6. d = q
  BY <1>1, <1>2, <1>3, <1>4, <1>5
<1>7. m = r
  BY <1>1, <1>2, <1>6
<1>. QED  BY <1>1, <1>6, <1>7 DEF d, m
=============================================================================
