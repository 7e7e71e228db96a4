------------------------- MODULE Allocators_proofs -------------------------
(***************************************************************************)
(* Theorems of Allocators, for every heap, every set of requests and every *)
(* sequence of calls.                                                      *)
(*                                                                         *)
(* The free list is the value of a recursive function.  What it is, and    *)
(* what it becomes, is shown by naming a sequence that the next fields     *)
(* link (Chain); there is only one (FreeListIs).  Blocks and free nodes    *)
(* are tiles of the heap, and every call splits a tile, joins two, or      *)
(* makes the last longer (Tiles).                                          *)
(*                                                                         *)
(* Of the one list the invariant says which words are nodes (NodeSet), not *)
(* in which order; the order follows, since each node ends where the next  *)
(* begins and says where that is (NodesIs).                                *)
(***************************************************************************)
EXTENDS Allocators, NatSetTheorems, FiniteSetTheorems, TLAPS

----------------------------------------------------------------------------
(* Tiles: S is where they start, E where each ends, m the end of the last  *)

Tiles(S, E, m) ==
  /\ S \subseteq Nat /\ 0 \in S /\ m \in Nat
  /\ \A s \in S : /\ E[s] \in Nat /\ s < E[s] /\ E[s] <= m
                  /\ E[s] = m \/ E[s] \in S
  /\ \A s, t \in S : s < t => E[s] <= t

LEMMA SameTiles ==
  ASSUME NEW S, NEW E, NEW m, Tiles(S, E, m), NEW F, \A s \in S : F[s] = E[s]
  PROVE  Tiles(S, F, m)
BY DEF Tiles

\* A tile is cut in two at c.
LEMMA SplitTile ==
  ASSUME NEW S, NEW E, NEW m, Tiles(S, E, m), NEW a \in S, NEW c \in Nat, a < c, c < E[a],
         NEW F, F[a] = c, F[c] = E[a], \A s \in S \ {a} : F[s] = E[s]
  PROVE  Tiles(S \cup {c}, F, m) /\ c \notin S
<1>1. c \notin S
  BY DEF Tiles
<1>2. \A s \in S : F[s] = IF s = a THEN c ELSE E[s]
  OBVIOUS
<1>3. ASSUME NEW s \in S \cup {c}
      PROVE  /\ F[s] \in Nat /\ s < F[s] /\ F[s] <= m
             /\ F[s] = m \/ F[s] \in S \cup {c}
  BY <1>2 DEF Tiles
<1>4. ASSUME NEW s \in S \cup {c}, NEW t \in S \cup {c}, s < t
      PROVE  F[s] <= t
  BY <1>1, <1>2, <1>4 DEF Tiles
<1>. QED  BY <1>1, <1>3, <1>4 DEF Tiles

\* A tile takes the place of the one after it too.
LEMMA JoinTiles ==
  ASSUME NEW S, NEW E, NEW m, Tiles(S, E, m), NEW a \in S, E[a] \in S,
         NEW F, F[a] = E[E[a]], \A s \in S \ {a, E[a]} : F[s] = E[s]
  PROVE  Tiles(S \ {E[a]}, F, m)
<1>1. a < E[a] /\ E[a] < E[E[a]] /\ E[E[a]] \in Nat /\ E[a] \in Nat /\ a \in Nat
  BY DEF Tiles
<1>2. \A s \in S \ {E[a]} : F[s] = IF s = a THEN E[E[a]] ELSE E[s]
  OBVIOUS
<1>3. ASSUME NEW s \in S \ {E[a]}
      PROVE  /\ F[s] \in Nat /\ s < F[s] /\ F[s] <= m
             /\ F[s] = m \/ F[s] \in S \ {E[a]}
  <2>1. CASE s = a
    BY <1>1, <1>2, <2>1 DEF Tiles
  <2>2. CASE s # a
    <3>1. E[s] # E[a]
      BY <1>1, <2>2 DEF Tiles
    <3>. QED  BY <1>2, <2>2, <3>1 DEF Tiles
  <2>. QED  BY <2>1, <2>2
<1>4. ASSUME NEW s \in S \ {E[a]}, NEW t \in S \ {E[a]}, s < t
      PROVE  F[s] <= t
  <2>1. CASE s = a
    <3>1. E[a] <= t /\ t \in Nat
      BY <1>4, <2>1 DEF Tiles
    <3>2. E[a] < t
      BY <1>1, <3>1
    <3>. QED  BY <1>1, <1>2, <2>1, <3>2 DEF Tiles
  <2>2. CASE s # a
    BY <1>2, <1>4, <2>2 DEF Tiles
  <2>. QED  BY <2>1, <2>2
<1>5. 0 # E[a]
  BY <1>1
<1>6. 0 \in S \ {E[a]} /\ (S \ {E[a]}) \subseteq Nat /\ m \in Nat
  BY <1>5 DEF Tiles
<1>. QED  BY <1>3, <1>4, <1>6 DEF Tiles

\* The last tile becomes longer.
LEMMA GrowTile ==
  ASSUME NEW S, NEW E, NEW m, Tiles(S, E, m), NEW a \in S, E[a] = m,
         NEW k \in Nat, m <= k,
         NEW F, F[a] = k, \A s \in S \ {a} : F[s] = E[s]
  PROVE  Tiles(S, F, k)
<1>1. \A s \in S : F[s] = IF s = a THEN k ELSE E[s]
  OBVIOUS
<1>2. \A s \in S \ {a} : s < a
  BY DEF Tiles
<1>3. \A s \in S \ {a} : E[s] <= a /\ E[s] # m
  BY <1>2 DEF Tiles
<1>. QED  BY <1>1, <1>2, <1>3 DEF Tiles

\* Two tiles have no word in common, and every word is in one.
LEMMA TilesApart ==
  ASSUME NEW S, NEW E, NEW m, Tiles(S, E, m), NEW a \in S, NEW c \in S, a # c
  PROVE  (a .. E[a] - 1) \cap (c .. E[c] - 1) = {}
<1>1. a \in Nat /\ c \in Nat /\ E[a] \in Nat /\ E[c] \in Nat
  BY DEF Tiles
<1>2. E[a] <= c \/ E[c] <= a
  BY <1>1 DEF Tiles
<1>. QED  BY <1>1, <1>2

LEMMA TilesCover ==
  ASSUME NEW S, NEW E, NEW m, Tiles(S, E, m)
  PROVE  UNION {a .. E[a] - 1 : a \in S} = 0 .. m - 1
<1>1. ASSUME NEW x \in 0 .. m - 1
      PROVE  \E a \in S : x \in a .. E[a] - 1
  <2>. DEFINE gap == {x - s : s \in {t \in S : t <= x}}
  <2>1. gap \in SUBSET Nat /\ gap # {}
    BY <1>1 DEF Tiles
  <2>2. PICK d : d = Min(gap)
    OBVIOUS
  <2>3. d \in gap /\ \A e \in gap : d <= e
    <3>. HIDE DEF gap
    <3>. QED  BY <2>1, <2>2, MinExists
  <2>4. PICK a \in S : a <= x /\ d = x - a
    BY <2>3
  <2>5. a \in Nat /\ E[a] \in Nat /\ a < E[a] /\ (E[a] = m \/ E[a] \in S)
    BY DEF Tiles
  <2>6. ASSUME E[a] <= x
        PROVE  FALSE
    <3>1. E[a] \in S
      BY <2>5, <2>6, <1>1 DEF Tiles
    <3>2. x - E[a] \in gap
      BY <2>6, <3>1
    <3>3. d <= x - E[a]
      BY <2>3, <3>2
    <3>. HIDE DEF gap
    <3>. QED  BY <2>4, <2>5, <3>3, <1>1
  <2>. QED  BY <2>4, <2>5, <2>6, <1>1
<1>2. ASSUME NEW a \in S, NEW x \in a .. E[a] - 1
      PROVE  x \in 0 .. m - 1
  <2>1. a \in Nat /\ E[a] \in Nat /\ E[a] <= m /\ m \in Nat
    BY DEF Tiles
  <2>. QED  BY <2>1
<1>. QED  BY <1>1, <1>2

----------------------------------------------------------------------------
(* Chains: L is what a list with head h and next fields f holds            *)

Chain(L, h, f) ==
  /\ L \in Seq(Nat) /\ Len(L) > 0 /\ L[1] = h
  /\ \A i \in 1 .. Len(L) - 1 : f[L[i]] = L[i + 1]
  /\ f[L[Len(L)]] = NULL
  /\ \A i, j \in 1 .. Len(L) : i < j => L[i] < L[j]

\* The values of a sequence.
LEMMA RangeIs ==
  ASSUME NEW L \in Seq(Nat)
  PROVE  /\ \A i \in 1 .. Len(L) : L[i] \in Range(L) /\ L[i] \in Nat
         /\ \A x \in Range(L) : \E i \in 1 .. Len(L) : L[i] = x
         /\ Range(L) \subseteq Nat
BY DEF Range

LEMMA SameChain ==
  ASSUME NEW L, NEW h, NEW f, Chain(L, h, f), NEW g, \A i \in 1 .. Len(L) : g[L[i]] = f[L[i]]
  PROVE  Chain(L, h, g)
<1>1. Len(L) \in Nat /\ Len(L) \in 1 .. Len(L)
  BY DEF Chain
<1>2. \A i \in 1 .. Len(L) - 1 : i \in 1 .. Len(L)
  BY <1>1
<1>. QED  BY <1>1, <1>2 DEF Chain

\* c takes the place of the i-th node.
Replaced(L, i, c) == [k \in 1 .. Len(L) |-> IF k = i THEN c ELSE L[k]]

LEMMA ChainReplace ==
  ASSUME NEW L, NEW h, NEW f, Chain(L, h, f),
         NEW i \in 1 .. Len(L), NEW c \in Nat,
         i > 1 => L[i - 1] < c, i < Len(L) => c < L[i + 1],
         NEW g, g[c] = f[L[i]], i > 1 => g[L[i - 1]] = c,
         \A k \in 1 .. Len(L) : k # i /\ k # i - 1 => g[L[k]] = f[L[k]],
         NEW M, M = Replaced(L, i, c)
  PROVE  /\ Chain(M, IF i = 1 THEN c ELSE h, g) /\ Len(M) = Len(L)
         /\ Range(M) = (Range(L) \ {L[i]}) \cup {c}
<1>1. L \in Seq(Nat) /\ Len(L) \in Nat /\ \A k \in 1 .. Len(L) : L[k] \in Nat
  BY DEF Chain
<1>2. M \in Seq(Nat) /\ Len(M) = Len(L) /\ \A k \in 1 .. Len(L) : M[k] = IF k = i THEN c ELSE L[k]
  BY <1>1 DEF Replaced
<1>3. M[1] = IF i = 1 THEN c ELSE h
  BY <1>1, <1>2 DEF Chain
<1>4. ASSUME NEW k \in 1 .. Len(L) - 1
      PROVE  g[M[k]] = M[k + 1]
  <2>1. k \in 1 .. Len(L) /\ k + 1 \in 1 .. Len(L) /\ f[L[k]] = L[k + 1]
    BY <1>1 DEF Chain
  <2>2. CASE k = i
    BY <1>2, <2>1, <2>2
  <2>3. CASE k = i - 1
    BY <1>2, <2>1, <2>3
  <2>4. CASE k # i /\ k # i - 1
    BY <1>2, <2>1, <2>4
  <2>. QED  BY <2>2, <2>3, <2>4
<1>5. g[M[Len(L)]] = NULL
  <2>1. f[L[Len(L)]] = NULL /\ Len(L) \in 1 .. Len(L) /\ Len(L) # i - 1
    BY <1>1 DEF Chain
  <2>2. CASE i = Len(L)
    BY <1>2, <2>1, <2>2
  <2>3. CASE i # Len(L)
    <3>1. g[L[Len(L)]] = f[L[Len(L)]] /\ M[Len(L)] = L[Len(L)]
      BY <1>2, <2>1, <2>3
    <3>. QED  BY <2>1, <3>1
  <2>. QED  BY <2>2, <2>3
<1>6. \A j, k \in 1 .. Len(L) : j < k => L[j] < L[k]
  BY DEF Chain
<1>7. ASSUME NEW j \in 1 .. Len(L), NEW k \in 1 .. Len(L), j < k
      PROVE  M[j] < M[k]
  <2>1. CASE j = i
    <3>1. i + 1 \in 1 .. Len(L) /\ c < L[i + 1] /\ (k = i + 1 \/ L[i + 1] < L[k])
      <4>1. i + 1 \in 1 .. Len(L) /\ i < Len(L) /\ (k = i + 1 \/ i + 1 < k)
        BY <1>1, <1>7, <2>1
      <4>. QED  BY <1>6, <4>1
    <3>2. /\ M[j] = c /\ M[k] = L[k]
          /\ c \in Nat /\ L[i + 1] \in Nat /\ L[k] \in Nat
      <4>1. k # i /\ i + 1 \in 1 .. Len(L)
        BY <1>7, <2>1, <3>1
      <4>. QED  BY <1>1, <1>2, <2>1, <4>1
    <3>. QED  BY <3>1, <3>2
  <2>2. CASE k = i
    <3>1. i - 1 \in 1 .. Len(L) /\ L[i - 1] < c /\ (j = i - 1 \/ L[j] < L[i - 1])
      <4>1. i - 1 \in 1 .. Len(L) /\ i > 1 /\ (j = i - 1 \/ j < i - 1)
        BY <1>1, <1>7, <2>2
      <4>. QED  BY <1>6, <4>1
    <3>2. /\ M[j] = L[j] /\ M[k] = c
          /\ c \in Nat /\ L[i - 1] \in Nat /\ L[j] \in Nat
      <4>1. j # i /\ i - 1 \in 1 .. Len(L)
        BY <1>7, <2>2, <3>1
      <4>. QED  BY <1>1, <1>2, <2>2, <4>1
    <3>. QED  BY <3>1, <3>2
  <2>3. CASE j # i /\ k # i
    BY <1>2, <1>6, <1>7, <2>3
  <2>. QED  BY <2>1, <2>2, <2>3
<1>8. Range(M) = (Range(L) \ {L[i]}) \cup {c}
  <2>1. \A k \in 1 .. Len(L) : k # i => L[k] # L[i]
    BY <1>1, <1>6
  <2>2. ASSUME NEW k \in 1 .. Len(L)
        PROVE  M[k] \in (Range(L) \ {L[i]}) \cup {c}
    BY <1>1, <1>2, <2>1, RangeIs
  <2>3. ASSUME NEW k \in 1 .. Len(L), k # i
        PROVE  L[k] \in Range(M)
    BY <1>2, <2>3, RangeIs
  <2>4. c \in Range(M)
    BY <1>2, RangeIs
  <2>5. \A x \in Range(M) : \E k \in 1 .. Len(L) : M[k] = x
    BY <1>2, RangeIs
  <2>6. \A x \in Range(L) : \E k \in 1 .. Len(L) : L[k] = x
    BY <1>1, RangeIs
  <2>7. ASSUME NEW x \in Range(L), x # L[i]
        PROVE  x \in Range(M)
    <3>1. PICK k \in 1 .. Len(L) : L[k] = x
      BY <2>6
    <3>. QED  BY <2>3, <2>7, <3>1
  <2>8. \A x \in Range(M) : x \in (Range(L) \ {L[i]}) \cup {c}
    BY <2>2, <2>5
  <2>. QED  BY <2>4, <2>7, <2>8
<1>. QED  BY <1>1, <1>2, <1>3, <1>4, <1>5, <1>7, <1>8 DEF Chain

\* c comes after the i-th node, or before the first.
WithAfter(L, i, c) ==
  [k \in 1 .. Len(L) + 1 |-> IF k <= i THEN L[k] ELSE IF k = i + 1 THEN c ELSE L[k - 1]]

LEMMA ChainInsert ==
  ASSUME NEW L, NEW h, NEW f, Chain(L, h, f),
         NEW i \in 0 .. Len(L) - 1, NEW c \in Nat,
         i > 0 => L[i] < c, c < L[i + 1],
         NEW g, g[c] = L[i + 1], i > 0 => g[L[i]] = c,
         \A k \in 1 .. Len(L) : k # i => g[L[k]] = f[L[k]],
         NEW M, M = WithAfter(L, i, c)
  PROVE  /\ Chain(M, IF i = 0 THEN c ELSE h, g) /\ Len(M) = Len(L) + 1
         /\ M[Len(L) + 1] = L[Len(L)]
         /\ Range(M) = Range(L) \cup {c}
<1>1. L \in Seq(Nat) /\ Len(L) \in Nat /\ \A k \in 1 .. Len(L) : L[k] \in Nat
  BY DEF Chain
<1>2. PICK n \in Nat : n = Len(L) + 1
  BY <1>1
<1>3. /\ M \in Seq(Nat) /\ Len(M) = n
      /\ \A k \in 1 .. n : M[k] = IF k <= i THEN L[k] ELSE IF k = i + 1 THEN c ELSE L[k - 1]
  <2>1. \A k \in 1 .. n : (IF k <= i THEN L[k] ELSE IF k = i + 1 THEN c ELSE L[k - 1]) \in Nat
    BY <1>1, <1>2
  <2>. QED  BY <1>2, <2>1 DEF WithAfter
<1>4. M[1] = (IF i = 0 THEN c ELSE h) /\ M[n] = L[Len(L)]
  BY <1>1, <1>2, <1>3 DEF Chain, WithAfter
<1>5. ASSUME NEW k \in 1 .. n - 1
      PROVE  g[M[k]] = M[k + 1]
  <2>1. \A j \in 1 .. Len(L) - 1 : f[L[j]] = L[j + 1]
    BY DEF Chain
  <2>2. CASE k < i
    <3>1. M[k] = L[k] /\ M[k + 1] = L[k + 1] /\ k \in 1 .. Len(L) - 1
      BY <1>2, <1>3, <2>2 DEF WithAfter
    <3>. QED  BY <1>1, <2>1, <2>2, <3>1
  <2>3. CASE k = i
    <3>1. M[k] = L[i] /\ M[k + 1] = c
      <4>1. k \in 1 .. n /\ k + 1 \in 1 .. n /\ k <= i /\ ~(k + 1 <= i) /\ k + 1 = i + 1
        BY <1>1, <1>2, <2>3
      <4>. QED  BY <1>3, <2>3, <4>1
    <3>. QED  BY <2>3, <3>1
  <2>4. CASE k = i + 1
    <3>1. M[k] = c /\ M[k + 1] = L[i + 1]
      <4>1. /\ k \in 1 .. n /\ k + 1 \in 1 .. n /\ ~(k <= i) /\ ~(k + 1 <= i)
            /\ k + 1 # i + 1 /\ (k + 1) - 1 = i + 1
        BY <1>1, <1>2, <2>4
      <4>. QED  BY <1>3, <2>4, <4>1
    <3>. QED  BY <3>1
  <2>5. CASE k > i + 1
    <3>1. PICK q \in 1 .. Len(L) - 1 : q = k - 1
      BY <1>1, <1>2, <2>5
    <3>2. M[k] = L[q] /\ M[k + 1] = L[q + 1] /\ q # i /\ q \in 1 .. Len(L)
      BY <1>1, <1>2, <1>3, <2>5, <3>1 DEF WithAfter
    <3>3. g[L[q]] = f[L[q]] /\ f[L[q]] = L[q + 1]
      BY <2>1, <3>1, <3>2
    <3>. QED  BY <3>2, <3>3
  <2>. QED  BY <2>2, <2>3, <2>4, <2>5
<1>6. g[M[n]] = NULL
  <2>1. Len(L) \in 1 .. Len(L) /\ Len(L) # i
    BY <1>1
  <2>. QED  BY <1>4, <2>1 DEF Chain
<1>7. \A j, k \in 1 .. Len(L) : j < k => L[j] < L[k]
  BY DEF Chain
<1>8. ASSUME NEW j \in 1 .. n, NEW k \in 1 .. n, j < k
      PROVE  M[j] < M[k]
  <2>1. ASSUME NEW l \in 1 .. i  PROVE  L[l] < c
    <3>1. i \in 1 .. Len(L) /\ l \in 1 .. Len(L) /\ i > 0
      BY <1>1
    <3>2. l = i \/ L[l] < L[i]
      BY <1>7, <3>1
    <3>. QED  BY <1>1, <3>1, <3>2
  <2>2. ASSUME NEW l \in i + 1 .. Len(L)  PROVE  c < L[l]
    <3>1. i + 1 \in 1 .. Len(L) /\ l \in 1 .. Len(L)
      BY <1>1
    <3>2. l = i + 1 \/ L[i + 1] < L[l]
      BY <1>7, <3>1
    <3>. QED  BY <1>1, <3>1, <3>2
  <2>3. CASE k <= i
    <3>1. M[j] = L[j] /\ M[k] = L[k] /\ j \in 1 .. Len(L) /\ k \in 1 .. Len(L)
      <4>1. /\ j \in 1 .. n /\ k \in 1 .. n /\ j <= i /\ k <= i
            /\ j \in 1 .. Len(L) /\ k \in 1 .. Len(L)
        <5>1. j <= i
          BY <1>1, <1>2, <1>8, <2>3
        <5>. QED  BY <1>1, <2>3, <5>1
      <4>. QED  BY <1>3, <4>1
    <3>. QED  BY <1>7, <1>8, <3>1
  <2>4. CASE k = i + 1
    <3>1. M[j] = L[j] /\ M[k] = c /\ j \in 1 .. i
      BY <1>2, <1>3, <1>8, <2>4
    <3>. QED  BY <2>1, <3>1
  <2>5. CASE k > i + 1
    <3>1. PICK q \in i + 1 .. Len(L) : q = k - 1
      BY <1>2, <2>5
    <3>2. M[k] = L[q] /\ q \in 1 .. Len(L)
      BY <1>2, <1>3, <2>5, <3>1
    <3>3. CASE j <= i
      <4>1. M[j] = L[j] /\ j \in 1 .. Len(L) /\ j < q
        BY <1>2, <1>3, <3>1, <3>3
      <4>. QED  BY <1>7, <3>2, <4>1
    <3>4. CASE j = i + 1
      <4>1. M[j] = c
        BY <1>3, <3>4
      <4>. QED  BY <2>2, <3>2, <4>1
    <3>5. CASE j > i + 1
      <4>1. PICK l \in 1 .. Len(L) : l = j - 1
        BY <1>2, <3>5
      <4>2. M[j] = L[l] /\ l < q
        BY <1>2, <1>3, <1>8, <3>1, <3>5, <4>1
      <4>. QED  BY <1>7, <3>2, <4>2
    <3>. QED  BY <3>3, <3>4, <3>5
  <2>. QED  BY <2>3, <2>4, <2>5
<1>9. Range(M) = Range(L) \cup {c}
  <2>1. ASSUME NEW k \in 1 .. n
        PROVE  M[k] \in Range(L) \cup {c}
    <3>1. CASE k <= i
      <4>1. k \in 1 .. Len(L) /\ M[k] = L[k]
        BY <1>1, <1>2, <1>3, <3>1
      <4>. QED  BY <1>1, <4>1, RangeIs
    <3>2. CASE k = i + 1
      <4>1. M[k] = c
        BY <1>1, <1>3, <3>2
      <4>. QED  BY <4>1
    <3>3. CASE k > i + 1
      <4>1. PICK l \in 1 .. Len(L) : l = k - 1
        BY <1>1, <1>2, <3>3
      <4>2. ~(k <= i) /\ k # i + 1
        BY <1>1, <3>3
      <4>3. M[k] = L[l]
        BY <1>3, <4>1, <4>2
      <4>. QED  BY <1>1, <4>1, <4>3, RangeIs
    <3>. QED  BY <1>1, <3>1, <3>2, <3>3
  <2>2. ASSUME NEW k \in 1 .. Len(L)
        PROVE  L[k] \in Range(M)
    <3>1. CASE k <= i
      <4>1. k \in 1 .. n /\ M[k] = L[k]
        BY <1>2, <1>3, <3>1
      <4>. QED  BY <1>3, <4>1, RangeIs
    <3>2. CASE k > i
      <4>1. k + 1 \in 1 .. n /\ M[k + 1] = L[k]
        <5>1. k + 1 \in 1 .. n /\ ~(k + 1 <= i) /\ k + 1 # i + 1 /\ (k + 1) - 1 = k
          BY <1>1, <1>2, <3>2
        <5>. QED  BY <1>3, <5>1
      <4>. QED  BY <1>3, <4>1, RangeIs
    <3>. QED  BY <3>1, <3>2
  <2>3. c \in Range(M)
    <3>1. i + 1 \in 1 .. n /\ M[i + 1] = c
      <4>1. i + 1 \in 1 .. n /\ ~(i + 1 <= i)
        BY <1>1, <1>2
      <4>. QED  BY <1>3, <4>1
    <3>. QED  BY <1>3, <3>1, RangeIs
  <2>4. \A x \in Range(M) : \E k \in 1 .. n : M[k] = x
    BY <1>3, RangeIs
  <2>5. \A x \in Range(L) : \E k \in 1 .. Len(L) : L[k] = x
    BY <1>1, RangeIs
  <2>6. Range(M) \subseteq Range(L) \cup {c}
    BY <2>1, <2>4
  <2>7. (Range(L) \cup {c}) \subseteq Range(M)
    BY <2>2, <2>3, <2>5
  <2>. QED  BY <2>6, <2>7
<1>10. Len(M) > 0
  BY <1>2, <1>3
<1>. QED  BY <1>2, <1>3, <1>4, <1>5, <1>6, <1>8, <1>9, <1>10 DEF Chain

\* The node after the i-th leaves the list.
Without(L, i) == [k \in 1 .. Len(L) - 1 |-> IF k <= i THEN L[k] ELSE L[k + 1]]

LEMMA ChainRemove ==
  ASSUME NEW L, NEW h, NEW f, Chain(L, h, f), NEW i \in 1 .. Len(L) - 1,
         NEW g, g[L[i]] = f[L[i + 1]],
         \A k \in 1 .. Len(L) : k # i /\ k # i + 1 => g[L[k]] = f[L[k]],
         NEW M, M = Without(L, i)
  PROVE  /\ Chain(M, h, g) /\ Len(M) = Len(L) - 1
         /\ M[Len(L) - 1] = IF i + 1 = Len(L) THEN L[i] ELSE L[Len(L)]
         /\ Range(M) = Range(L) \ {L[i + 1]}
<1>1. L \in Seq(Nat) /\ Len(L) \in Nat /\ \A k \in 1 .. Len(L) : L[k] \in Nat
  BY DEF Chain
<1>2. PICK n \in Nat : n = Len(L) - 1
  <2>1. Len(L) - 1 \in Nat
    BY <1>1
  <2>. QED  BY <2>1
<1>3. /\ M \in Seq(Nat) /\ Len(M) = n
      /\ \A k \in 1 .. n : M[k] = IF k <= i THEN L[k] ELSE L[k + 1]
  <2>1. ASSUME NEW k \in 1 .. n PROVE (IF k <= i THEN L[k] ELSE L[k + 1]) \in Nat
    <3>1. k \in 1 .. Len(L) /\ k + 1 \in 1 .. Len(L)
      BY <1>1, <1>2
    <3>. QED  BY <1>1, <3>1
  <2>. QED  BY <1>2, <2>1 DEF Without
<1>4. /\ M[1] = h /\ n > 0
      /\ M[n] = IF i + 1 = Len(L) THEN L[i] ELSE L[Len(L)]
  BY <1>1, <1>2, <1>3 DEF Chain, Without
<1>5. \A j \in 1 .. Len(L) - 1 : f[L[j]] = L[j + 1]
  BY DEF Chain
<1>6. ASSUME NEW k \in 1 .. n - 1
      PROVE  g[M[k]] = M[k + 1]
  <2>1. CASE k < i
    <3>1. M[k] = L[k] /\ M[k + 1] = L[k + 1] /\ k \in 1 .. Len(L) - 1 /\ k # i /\ k # i + 1
      <4>1. /\ k \in 1 .. n /\ k + 1 \in 1 .. n /\ k <= i /\ k + 1 <= i
            /\ k \in 1 .. Len(L) - 1 /\ k # i /\ k # i + 1
        BY <1>2, <2>1
      <4>. QED  BY <1>3, <4>1
    <3>2. k \in 1 .. Len(L)
      BY <1>1, <3>1
    <3>3. g[L[k]] = f[L[k]] /\ f[L[k]] = L[k + 1]
      BY <1>5, <3>1, <3>2
    <3>. QED  BY <3>1, <3>3
  <2>2. CASE k = i
    <3>1. M[k] = L[i] /\ M[k + 1] = L[i + 2] /\ i + 1 \in 1 .. Len(L) - 1
      <4>1. /\ k \in 1 .. n /\ k + 1 \in 1 .. n /\ k <= i /\ ~(k + 1 <= i)
            /\ (k + 1) + 1 = i + 2 /\ i + 1 \in 1 .. Len(L) - 1
        BY <1>1, <1>2, <2>2
      <4>. QED  BY <1>3, <2>2, <4>1
    <3>2. PICK q \in 1 .. Len(L) - 1 : q = i + 1 /\ q + 1 = i + 2
      BY <3>1
    <3>3. f[L[q]] = L[q + 1]
      BY <1>5
    <3>. QED  BY <2>2, <3>1, <3>2, <3>3
  <2>3. CASE k > i
    <3>1. PICK q \in 1 .. Len(L) - 1 : q = k + 1
      BY <1>1, <1>2
    <3>2. M[k] = L[q] /\ M[k + 1] = L[q + 1] /\ q # i /\ q # i + 1
      BY <1>2, <1>3, <2>3, <3>1 DEF Without
    <3>3. q \in 1 .. Len(L)
      BY <1>1, <3>1
    <3>4. g[L[q]] = f[L[q]] /\ f[L[q]] = L[q + 1]
      BY <1>5, <3>1, <3>2, <3>3
    <3>. QED  BY <3>2, <3>4
  <2>. QED  BY <2>1, <2>2, <2>3
<1>7. g[M[n]] = NULL
  <2>1. f[L[Len(L)]] = NULL /\ Len(L) \in 1 .. Len(L)
    BY <1>1 DEF Chain
  <2>2. CASE i + 1 = Len(L)
    BY <1>4, <2>1, <2>2
  <2>3. CASE i + 1 # Len(L)
    <3>1. Len(L) # i /\ Len(L) # i + 1
      BY <1>1, <2>3
    <3>. QED  BY <1>4, <2>1, <2>3, <3>1
  <2>. QED  BY <2>2, <2>3
<1>8. \A j, k \in 1 .. Len(L) : j < k => L[j] < L[k]
  BY DEF Chain
<1>9. ASSUME NEW j \in 1 .. n, NEW k \in 1 .. n, j < k
      PROVE  M[j] < M[k]
  <2>1. PICK p \in 1 .. Len(L) : p = (IF j <= i THEN j ELSE j + 1)
    <3>1. (IF j <= i THEN j ELSE j + 1) \in 1 .. Len(L)
      BY <1>1, <1>2
    <3>. QED  BY <3>1
  <2>2. PICK q \in 1 .. Len(L) : q = (IF k <= i THEN k ELSE k + 1)
    <3>1. (IF k <= i THEN k ELSE k + 1) \in 1 .. Len(L)
      BY <1>1, <1>2 DEF Without
    <3>. QED  BY <3>1
  <2>3. M[j] = L[p] /\ M[k] = L[q] /\ p < q
    BY <1>2, <1>3, <1>9, <2>1, <2>2 DEF Without
  <2>. QED  BY <1>8, <2>3
<1>10. Range(M) = Range(L) \ {L[i + 1]}
  <2>1. ASSUME NEW k \in 1 .. n
        PROVE  M[k] \in Range(L) /\ M[k] # L[i + 1]
    <3>1. PICK l \in 1 .. Len(L) : l = (IF k <= i THEN k ELSE k + 1)
      <4>1. k \in 1 .. Len(L) /\ k + 1 \in 1 .. Len(L)
        BY <1>1, <1>2
      <4>. QED  BY <4>1
    <3>2. M[k] = L[l] /\ l # i + 1 /\ i + 1 \in 1 .. Len(L)
      BY <1>1, <1>2, <1>3, <3>1 DEF Without
    <3>3. L[l] \in Nat /\ L[i + 1] \in Nat /\ (L[l] < L[i + 1] \/ L[i + 1] < L[l])
      BY <1>1, <1>8, <3>2
    <3>4. L[l] \in Range(L)
      BY <1>1, RangeIs
    <3>. QED  BY <3>2, <3>3, <3>4
  <2>2. ASSUME NEW k \in 1 .. Len(L), k # i + 1
        PROVE  L[k] \in Range(M)
    <3>1. CASE k <= i
      <4>1. k \in 1 .. n /\ M[k] = L[k]
        BY <1>2, <1>3, <3>1
      <4>. QED  BY <1>3, <4>1, RangeIs
    <3>2. CASE k > i
      <4>1. k - 1 \in 1 .. n /\ M[k - 1] = L[k]
        BY <1>1, <1>2, <1>3, <2>2, <3>2 DEF Without
      <4>. QED  BY <1>3, <4>1, RangeIs
    <3>. QED  BY <3>1, <3>2
  <2>3. \A x \in Range(M) : \E k \in 1 .. n : M[k] = x
    BY <1>3, RangeIs
  <2>4. \A x \in Range(L) : \E k \in 1 .. Len(L) : L[k] = x
    BY <1>1, RangeIs
  <2>5. ASSUME NEW x \in Range(M)
        PROVE  x \in Range(L) /\ x # L[i + 1]
    <3>1. PICK k \in 1 .. n : M[k] = x
      BY <2>3
    <3>. QED  BY <2>1, <3>1
  <2>6. (Range(L) \ {L[i + 1]}) \subseteq Range(M)
    <3>1. ASSUME NEW x \in Range(L), x # L[i + 1]
          PROVE  x \in Range(M)
      <4>1. PICK k \in 1 .. Len(L) : L[k] = x
        BY <2>4
      <4>. QED  BY <2>2, <3>1, <4>1
    <3>. QED  BY <3>1
  <2>. QED  BY <2>5, <2>6
<1>. QED  BY <1>2, <1>3, <1>4, <1>6, <1>7, <1>9, <1>10 DEF Chain

\* Fields g are fields f with the node after the i-th taken out.
Skips(L, i, f, g) ==
  /\ i \in 1 .. Len(L) - 1 /\ g[L[i]] = f[L[i + 1]]
  /\ \A k \in 1 .. Len(L) : k # i /\ k # i + 1 => g[L[k]] = f[L[k]]

LEMMA SkippedChain ==
  ASSUME NEW L, NEW h, NEW f, Chain(L, h, f), NEW i, NEW g, Skips(L, i, f, g),
         NEW M, M = Without(L, i)
  PROVE  /\ Chain(M, h, g) /\ Len(M) = Len(L) - 1
         /\ M[Len(L) - 1] = IF i + 1 = Len(L) THEN L[i] ELSE L[Len(L)]
         /\ Range(M) = Range(L) \ {L[i + 1]}
BY ChainRemove DEF Skips

\* Fields g are fields f with c in the place of the i-th node.
Swaps(L, i, c, f, g) ==
  /\ i \in 1 .. Len(L) /\ c \in Nat
  /\ i > 1 => L[i - 1] < c
  /\ i < Len(L) => c < L[i + 1]
  /\ g[c] = f[L[i]]
  /\ i > 1 => g[L[i - 1]] = c
  /\ \A k \in 1 .. Len(L) : k # i /\ k # i - 1 => g[L[k]] = f[L[k]]

LEMMA SwappedChain ==
  ASSUME NEW L, NEW h, NEW f, Chain(L, h, f), NEW i, NEW c, NEW g, Swaps(L, i, c, f, g),
         NEW M, M = Replaced(L, i, c)
  PROVE  /\ Chain(M, IF i = 1 THEN c ELSE h, g) /\ Len(M) = Len(L)
         /\ Range(M) = (Range(L) \ {L[i]}) \cup {c}
BY ChainReplace DEF Swaps

\* Sums of the sizes of nodes that are joined.
LEMMA ThreeSums ==
  ASSUME NEW x \in Nat, NEW k \in Nat, NEW m \in Nat
  PROVE  k + 2 + m \in Nat /\ x + 2 + (k + 2 + m) = (x + 2 + k) + 1 + (m + 1)
OBVIOUS

LEMMA ManySums ==
  ASSUME NEW x \in Nat, NEW y \in Nat, y > 0, NEW z \in Nat
  PROVE  x + 2 + (y - 1) + 2 + z \in Nat /\ x + 2 + (y - 1) + 2 + z > 0
OBVIOUS

LEMMA OneMore ==
  ASSUME NEW d \in Nat, NEW u \in Nat
  PROVE  d * (u + 1) = d * u + d /\ d * u \in Int
OBVIOUS

\* Nodes of d words at least leave room for no more than there are words for.
LEMMA Sparse ==
  ASSUME NEW L \in Seq(Nat), NEW d \in Nat,
         \A i \in 1 .. Len(L) - 1 : L[i] + d <= L[i + 1]
  PROVE  \A i \in 1 .. Len(L) : d * (i - 1) <= L[i]
<1>. DEFINE bad == {i \in 1 .. Len(L) : ~(d * (i - 1) <= L[i])}
<1>1. SUFFICES ASSUME bad # {} PROVE FALSE
  OBVIOUS
<1>2. PICK j : j = Min(bad)
  OBVIOUS
<1>3. j \in bad /\ \A i \in bad : j <= i
  <2>1. bad \in SUBSET Nat
    OBVIOUS
  <2>. HIDE DEF bad
  <2>. QED  BY <1>1, <1>2, <2>1, MinExists
<1>4. CASE j = 1
  <2>1. d * (j - 1) = 0 /\ L[j] \in Nat
    BY <1>3, <1>4
  <2>. QED  BY <1>3, <2>1
<1>5. CASE j # 1
  <2>1. PICK i \in 1 .. Len(L) - 1 : i = j - 1
    BY <1>3, <1>5
  <2>2. i \in 1 .. Len(L) /\ i \notin bad
    BY <1>3, <2>1
  <2>3. d * (i - 1) <= L[i] /\ L[i] + d <= L[j] /\ L[i] \in Nat /\ L[j] \in Nat
    BY <1>3, <2>1, <2>2
  <2>4. d * (j - 1) = d * (i - 1) + d /\ d * (i - 1) \in Int
    <3>1. PICK u \in Nat : u = i - 1
      BY <2>1
    <3>2. j - 1 = u + 1
      BY <1>3, <2>1, <3>1
    <3>. QED  BY <3>1, <3>2, OneMore
  <2>5. ~(d * (j - 1) <= L[j])
    BY <1>3
  <2>6. PICK x \in Int, y \in Nat, z \in Nat :
          x = d * (i - 1) /\ y = L[i] /\ z = L[j]
    BY <2>3, <2>4
  <2>7. x <= y /\ y + d <= z /\ ~(x + d <= z)
    BY <2>3, <2>4, <2>5, <2>6
  <2>. HIDE DEF bad
  <2>. QED  BY <2>7
<1>. QED  BY <1>4, <1>5

----------------------------------------------------------------------------
(* The free list and the heap                                              *)

\* Where the block or free node that begins at each word ends.
Ends == [a \in Addr |-> IF a \in DOMAIN live THEN BlockEnd(a) ELSE NodeEnd(a)]

\* The free nodes are L, and the last of them is the top of the heap.
Listed(L) ==
  /\ Chain(L, head, next) /\ Range(L) \subseteq Addr
  /\ NodeEnd(L[Len(L)]) = brk /\ size[L[Len(L)]] > 0

Heap(L) ==
  /\ Listed(L)
  /\ Range(L) \cap DOMAIN live = {}
  /\ Tiles(Range(L) \cup DOMAIN live, Ends, brk)

IsWalk(w) ==
  w = [i \in 1 .. HeapLimit \div NODE_T_SIZE |->
         IF i = 1 THEN head
         ELSE IF w[i - 1] = NULL THEN NULL ELSE next[w[i - 1]]]

\* The list ends before the walk does.
LEMMA FreeListShort ==
  ASSUME TypeOK, NEW L, Heap(L)
  PROVE  Len(L) <= HeapLimit \div NODE_T_SIZE
<1>1. L \in Seq(Nat) /\ Len(L) \in Nat /\ Len(L) > 0
  BY DEF Heap, Listed, Chain
<1>2. \A i \in 1 .. Len(L) : L[i] \in Range(L) /\ L[i] \in Addr /\ L[i] \notin DOMAIN live
  BY <1>1, RangeIs DEF Heap, Listed
<1>3. \A i \in 1 .. Len(L) : Ends[L[i]] = L[i] + 2 + size[L[i]] /\ size[L[i]] \in Nat
  BY <1>2 DEF Ends, NodeEnd, NODE_T_SIZE, TypeOK
<1>4. ASSUME NEW i \in 1 .. Len(L) - 1
      PROVE  L[i] + 2 <= L[i + 1]
  <2>1. i \in 1 .. Len(L) /\ i + 1 \in 1 .. Len(L) /\ L[i] < L[i + 1]
    BY <1>1 DEF Heap, Listed, Chain
  <2>2. Ends[L[i]] <= L[i + 1]
    BY <1>2, <2>1 DEF Heap, Tiles
  <2>3. L[i] + 2 + size[L[i]] <= L[i + 1] /\ size[L[i]] \in Nat
    BY <1>3, <2>1, <2>2
  <2>4. L[i] \in Nat /\ L[i + 1] \in Nat
    BY <1>1, <2>1
  <2>. QED  BY <2>3, <2>4
<1>5. 2 * (Len(L) - 1) <= L[Len(L)]
  <2>1. \A i \in 1 .. Len(L) : 2 * (i - 1) <= L[i]
    BY <1>1, <1>4, Sparse
  <2>2. Len(L) \in 1 .. Len(L)
    BY <1>1
  <2>. QED  BY <2>1, <2>2
<1>6. L[Len(L)] + 2 <= HeapLimit /\ L[Len(L)] \in Nat
  <2>1. Len(L) \in 1 .. Len(L)
    BY <1>1
  <2>2. PICK a \in Nat : a = L[Len(L)]
    BY <1>1, <2>1
  <2>3. PICK z \in Nat : z = size[a]
    BY <1>3, <2>1, <2>2
  <2>4. a + 2 + z = brk
    BY <2>2, <2>3 DEF Heap, Listed, NodeEnd, NODE_T_SIZE
  <2>5. brk <= HeapLimit /\ HeapLimit \in Nat /\ brk \in Nat
    BY HeapLimitAssumption DEF TypeOK, Addr
  <2>6. a + 2 <= HeapLimit
    BY <2>4, <2>5
  <2>. QED  BY <2>2, <2>6
<1>7. 2 * Len(L) <= HeapLimit
  BY <1>1, <1>5, <1>6, HeapLimitAssumption
<1>. QED  BY <1>1, <1>7, HeapLimitAssumption DEF NODE_T_SIZE

LEMMA FreeListIs == TypeOK => \A L : Heap(L) => FreeList = L
<1>. SUFFICES ASSUME TypeOK, NEW L, Heap(L) PROVE FreeList = L
  OBVIOUS
<1>1. /\ L \in Seq(Nat) /\ Len(L) \in Nat /\ Len(L) > 0 /\ L[1] = head
      /\ \A i \in 1 .. Len(L) : L[i] \in Nat /\ L[i] # NULL
      /\ \A i \in 1 .. Len(L) - 1 : next[L[i]] = L[i + 1]
      /\ next[L[Len(L)]] = NULL
  BY DEF Heap, Listed, Chain, NULL
<1>2. PICK n \in Nat : n = Len(L)
  BY <1>1
<1>3. PICK N \in Nat : N = HeapLimit \div NODE_T_SIZE
  BY HeapLimitAssumption DEF NODE_T_SIZE
<1>4. n <= N /\ n > 0
  BY <1>1, <1>2, <1>3, FreeListShort
<1>5. PICK w : w = [i \in 1 .. N |-> IF i <= n THEN L[i] ELSE NULL]
  OBVIOUS
<1>6. ASSUME NEW i \in 1 .. N
      PROVE  w[i] = IF i = 1 THEN head
                    ELSE IF w[i - 1] = NULL THEN NULL ELSE next[w[i - 1]]
  <2>1. CASE i = 1
    BY <1>1, <1>4, <1>5, <2>1
  <2>2. CASE i # 1
    <3>1. PICK j \in 1 .. N : j = i - 1
      BY <2>2
    <3>2. w[i] = (IF i <= n THEN L[i] ELSE NULL) /\ w[j] = IF j <= n THEN L[j] ELSE NULL
      BY <1>5
    <3>3. CASE i <= n
      <4>1. j \in 1 .. Len(L) - 1 /\ j \in 1 .. Len(L) /\ j <= n /\ j + 1 = i
        BY <1>2, <3>1, <3>3
      <4>. QED  BY <1>1, <2>2, <3>1, <3>2, <3>3, <4>1
    <3>4. CASE j = n
      <4>1. w[i] = NULL /\ w[j] = L[Len(L)] /\ j \in 1 .. Len(L)
        BY <1>2, <3>1, <3>2, <3>4
      <4>. QED  BY <1>1, <2>2, <3>1, <4>1, <1>2, <3>4
    <3>5. CASE j > n
      <4>1. w[i] = NULL /\ w[j] = NULL
        BY <3>1, <3>2, <3>5
      <4>. QED  BY <2>2, <3>1, <4>1
    <3>. QED  BY <3>1, <3>3, <3>4, <3>5
  <2>. QED  BY <2>1, <2>2
<1>7. IsWalk(w)
  <2>1. w = [i \in 1 .. N |-> w[i]]
    BY <1>5
  <2>. QED  BY <1>3, <1>6, <2>1 DEF IsWalk
<1>8. IsWalk(Walk)
  <2>1. Walk = CHOOSE u : IsWalk(u)
    BY DEF Walk, IsWalk
  <2>. QED  BY <1>7, <2>1
<1>9. ASSUME NEW i \in 1 .. N
      PROVE  Walk[i] = IF i = 1 THEN head
                       ELSE IF Walk[i - 1] = NULL THEN NULL ELSE next[Walk[i - 1]]
  BY <1>3, <1>8 DEF IsWalk
<1>10. Walk = [i \in 1 .. N |-> Walk[i]]
  BY <1>3, <1>8 DEF IsWalk
<1>11. \A i \in 1 .. N : Walk[i] = w[i]
  <2>. DEFINE bad == {i \in 1 .. N : Walk[i] # w[i]}
  <2>1. SUFFICES ASSUME bad # {} PROVE FALSE
    OBVIOUS
  <2>2. PICK j : j = Min(bad)
    OBVIOUS
  <2>3. j \in bad /\ \A i \in bad : j <= i
    <3>1. bad \in SUBSET Nat
      OBVIOUS
    <3>. HIDE DEF bad
    <3>. QED  BY <2>1, <2>2, <3>1, MinExists
  <2>4. CASE j = 1
    BY <1>6, <1>9, <2>3, <2>4
  <2>5. CASE j # 1
    <3>1. PICK i \in 1 .. N : i = j - 1
      BY <2>3, <2>5
    <3>2. Walk[i] = w[i]
      BY <2>3, <3>1
    <3>. QED  BY <1>6, <1>9, <2>3, <2>5, <3>1, <3>2
  <2>. QED  BY <2>4, <2>5
<1>12. Walk = w
  BY <1>5, <1>10, <1>11
<1>13. {i \in DOMAIN Walk : Walk[i] # NULL} = 1 .. n
  BY <1>1, <1>2, <1>4, <1>5, <1>12
<1>14. Cardinality(1 .. n) = n
  <2>1. Cardinality(1 .. n) = IF 1 > n THEN 0 ELSE n - 1 + 1
    BY FS_Interval
  <2>. QED  BY <1>4, <2>1
<1>15. FreeList = SubSeq(w, 1, n)
  BY <1>12, <1>13, <1>14 DEF FreeList
<1>16. w \in Seq(Nat \cup {NULL}) /\ Len(w) = N
  BY <1>1, <1>2, <1>5
<1>17. PICK M : M = SubSeq(w, 1, n)
  OBVIOUS
<1>18. M \in Seq(Nat \cup {NULL}) /\ Len(M) = n /\ \A i \in 1 .. n : M[i] = w[i]
  BY <1>4, <1>16, <1>17
<1>19. \A i \in 1 .. n : M[i] = L[i]
  BY <1>4, <1>5, <1>18
<1>20. L \in Seq(Nat \cup {NULL})
  BY <1>1
<1>21. M = L
  BY <1>2, <1>18, <1>19, <1>20
<1>. QED  BY <1>15, <1>17, <1>21

LEMMA FreeListIsNext == TypeOK' => \A L : Heap(L)' => FreeList' = L
<1>1. (TypeOK => \A L : Heap(L) => FreeList = L)'
  BY FreeListIs, PTL
<1>. QED  BY <1>1

----------------------------------------------------------------------------
(* mymalloc of the free lists                                              *)

\* A block has a word at least, and what was asked for if nothing wraps.
LEMMA WordsIs ==
  ASSUME NEW r \in Request
  PROVE  /\ Words(r) \in Nat \ {0}
         /\ r + 7 < UIntMod => r <= 8 * Words(r)
<1>1. r \in Nat /\ r < UIntMod /\ UIntMod \in Nat /\ UIntMod > 8 /\ UIntMod % 8 = 0
  BY RequestAssumption, UIntAssumption
<1>2. PICK q \in Nat, m \in 0 .. 7 : r = 8 * q + m /\ m = r % 8
  BY <1>1
<1>3. PICK u \in Nat : UIntMod = 8 * u
  BY <1>1
<1>4. CASE m = 0
  <2>1. Rounded(r) = IF q = 0 THEN 8 ELSE 8 * q
    BY <1>1, <1>2, <1>4 DEF Rounded
  <2>2. Words(r) = IF q = 0 THEN 1 ELSE q
    BY <2>1, <1>2 DEF Words
  <2>. QED  BY <1>2, <1>4, <2>2
<1>5. CASE m # 0
  <2>1. r - m + 8 = 8 * (q + 1) /\ q + 1 <= u
    BY <1>1, <1>2, <1>3, <1>5
  <2>2. CASE q + 1 = u
    <3>1. (r - m + 8) % UIntMod = 0
      <4>1. r - m + 8 = 1 * UIntMod + 0
        BY <1>1, <1>3, <2>1, <2>2
      <4>2. (1 * UIntMod + 0) % UIntMod = 0
        BY <1>1, DivModUnique
      <4>. QED  BY <4>1, <4>2
    <3>2. Rounded(r) = 8
      BY <1>2, <1>5, <3>1 DEF Rounded
    <3>3. Words(r) = 1
      BY <3>2 DEF Words
    <3>. QED  BY <1>1, <1>2, <1>3, <1>5, <2>1, <2>2, <3>3
  <2>3. CASE q + 1 < u
    <3>1. (r - m + 8) % UIntMod = r - m + 8
      <4>1. PICK x \in 0 .. UIntMod - 1 : x = r - m + 8
        BY <1>1, <1>3, <2>1, <2>3
      <4>2. (0 * UIntMod + x) % UIntMod = x
        BY <1>1, DivModUnique
      <4>3. 0 * UIntMod + x = x
        BY <1>1
      <4>. QED  BY <4>1, <4>2, <4>3
    <3>2. Rounded(r) = 8 * (q + 1)
      BY <1>2, <1>5, <2>1, <3>1 DEF Rounded
    <3>3. Words(r) = q + 1
      BY <3>2 DEF Words
    <3>. QED  BY <1>1, <1>2, <1>5, <2>1, <3>3
  <2>. QED  BY <1>3, <2>1, <2>2, <2>3
<1>. QED  BY <1>2, <1>4, <1>5

\* What sbrk grants stays below the limit, and nothing is asked of it for a
\* node that is large enough.
Grant(a, n) == Min(Enough(a, n)) * Chunk

LEMMA GrantIs ==
  ASSUME TypeOK
  PROVE  /\ MostChunks * Chunk \in Nat /\ brk + MostChunks * Chunk <= HeapLimit
         /\ \A a \in Addr, n \in Nat : Enough(a, n) # {} =>
              /\ Grant(a, n) \in Nat /\ brk + Grant(a, n) <= HeapLimit
              /\ Fits(size[a] + Grant(a, n), n)
              /\ Fits(size[a], n) <=> Grant(a, n) = 0
<1>1. brk \in Nat /\ HeapLimit - brk \in Nat /\ HeapLimit \in Nat /\ Chunk \in Nat \ {0}
  BY ChunkAssumption, HeapLimitAssumption DEF TypeOK, Addr
<1>2. MostChunks \in Nat /\ MostChunks * Chunk <= HeapLimit - brk
  <2>1. PICK d \in Nat : d = HeapLimit - brk
    BY <1>1
  <2>2. d \div Chunk \in Nat /\ d % Chunk \in 0 .. Chunk - 1 /\ d = (d \div Chunk) * Chunk + (d % Chunk)
    BY <1>1, DivMod
  <2>3. MostChunks = d \div Chunk
    BY <2>1 DEF MostChunks
  <2>4. (d \div Chunk) * Chunk \in Nat
    BY <1>1, <2>2
  <2>. QED  BY <2>1, <2>2, <2>3, <2>4
<1>3. \A g \in 0 .. MostChunks : g * Chunk \in Nat /\ g * Chunk <= MostChunks * Chunk
  <2>1. ASSUME NEW g \in 0 .. MostChunks
        PROVE  g * Chunk \in Nat /\ g * Chunk <= MostChunks * Chunk
    <3>1. g * Chunk \in Nat /\ MostChunks * Chunk \in Nat
      BY <1>1, <1>2
    <3>2. CASE g = MostChunks
      BY <3>1, <3>2
    <3>3. CASE g < MostChunks
      <4>1. g * Chunk + Chunk <= MostChunks * Chunk
        BY <1>1, <1>2, <3>3, NextWord
      <4>. QED  BY <1>1, <3>1, <4>1
    <3>. QED  BY <1>2, <3>2, <3>3
  <2>. QED  BY <2>1
<1>4. MostChunks * Chunk \in Nat /\ brk + MostChunks * Chunk <= HeapLimit
  BY <1>1, <1>2, <1>3
<1>5. ASSUME NEW a \in Addr, NEW n \in Nat, Enough(a, n) # {}
      PROVE  /\ Grant(a, n) \in Nat /\ brk + Grant(a, n) <= HeapLimit
             /\ Fits(size[a] + Grant(a, n), n)
             /\ Fits(size[a], n) <=> Grant(a, n) = 0
  <2>1. PICK g : g = Min(Enough(a, n))
    OBVIOUS
  <2>2. g \in Enough(a, n) /\ \A k \in Enough(a, n) : g <= k
    <3>1. Enough(a, n) \in SUBSET Nat
      BY <1>2 DEF Enough
    <3>. QED  BY <1>5, <2>1, <3>1, MinExists
  <2>3. g \in 0 .. MostChunks /\ Fits(size[a] + g * Chunk, n) /\ Grant(a, n) = g * Chunk
    BY <2>1, <2>2 DEF Enough, Grant
  <2>4. g * Chunk \in Nat /\ g * Chunk <= MostChunks * Chunk
    BY <1>3, <2>3
  <2>5. size[a] \in Nat
    BY DEF TypeOK
  <2>6. CASE g = 0
    BY <1>1, <1>4, <2>3, <2>4, <2>5, <2>6
  <2>7. CASE g # 0
    <3>1. g * Chunk # 0
      BY <1>1, <1>2, <2>3, <2>7
    <3>2. ~Fits(size[a], n)
      <4>1. 0 \notin Enough(a, n) /\ 0 \in 0 .. MostChunks
        BY <1>2, <2>2, <2>3, <2>7
      <4>2. size[a] + 0 * Chunk = size[a]
        BY <1>1, <2>5
      <4>. QED  BY <4>1, <4>2 DEF Enough
    <3>. QED  BY <1>1, <1>4, <2>3, <2>4, <3>1, <3>2
  <2>. QED  BY <2>6, <2>7
<1>. QED  BY <1>4, <1>5

\* What is known of the headers of the blocks that are out.
Blocks ==
  \A b \in DOMAIN live :
    /\ size[b] = live[b].words
    /\ live[b].asked + 7 < UIntMod => live[b].asked <= 8 * size[b]

LEMMA EndsIs ==
  ASSUME TypeOK
  PROVE  \A a \in Addr : /\ a \in Nat /\ Ends[a] \in Nat
                         /\ a \in DOMAIN live => Ends[a] = a + 1 + live[a].words
                         /\ a \notin DOMAIN live => Ends[a] = a + 2 + size[a]
<1>1. ASSUME NEW a \in Addr
      PROVE  /\ a \in Nat /\ Ends[a] \in Nat
             /\ a \in DOMAIN live => Ends[a] = a + 1 + live[a].words
             /\ a \notin DOMAIN live => Ends[a] = a + 2 + size[a]
  <2>1. a \in Nat /\ size[a] \in Nat
    BY HeapLimitAssumption DEF Addr, TypeOK
  <2>2. a \in DOMAIN live => live[a].words \in Nat
    BY DEF TypeOK
  <2>. QED  BY <2>1, <2>2 DEF Ends, BlockEnd, NodeEnd, HEADER_T_SIZE, NODE_T_SIZE
<1>. QED  BY <1>1

LEMMA EndsIsNext ==
  TypeOK' =>
    \A a \in Addr : /\ a \in Nat /\ Ends'[a] \in Nat
                    /\ a \in DOMAIN live' => Ends'[a] = a + 1 + live'[a].words
                    /\ a \notin DOMAIN live' => Ends'[a] = a + 2 + size'[a]
<1>1. (TypeOK => \A a \in Addr : /\ a \in Nat /\ Ends[a] \in Nat
                                 /\ a \in DOMAIN live => Ends[a] = a + 1 + live[a].words
                                 /\ a \notin DOMAIN live => Ends[a] = a + 2 + size[a])'
  BY EndsIs, PTL
<1>. QED  BY <1>1

\* The nodes of the list: where they are, and that they do not touch a block.
LEMMA NodesAre ==
  ASSUME TypeOK, NEW L, Heap(L)
  PROVE  /\ L \in Seq(Nat) /\ Len(L) \in Nat /\ Len(L) \in 1 .. Len(L)
         /\ \A i \in 1 .. Len(L) :
              /\ L[i] \in Addr /\ L[i] \in Range(L) /\ L[i] \notin DOMAIN live
              /\ Ends[L[i]] = L[i] + 2 + size[L[i]] /\ size[L[i]] \in Nat
         /\ \A i, j \in 1 .. Len(L) : i < j => L[i] < L[j] /\ Ends[L[i]] <= L[j]
         /\ Ends[L[Len(L)]] = brk /\ size[L[Len(L)]] > 0
         /\ L[1] = head
         /\ \A i \in 1 .. Len(L) - 1 : next[L[i]] = L[i + 1]
         /\ next[L[Len(L)]] = NULL
<1>1. /\ L \in Seq(Nat) /\ Len(L) \in Nat /\ Len(L) \in 1 .. Len(L) /\ L[1] = head
      /\ \A i \in 1 .. Len(L) - 1 : next[L[i]] = L[i + 1]
      /\ next[L[Len(L)]] = NULL
  BY DEF Heap, Listed, Chain
<1>2. \A i \in 1 .. Len(L) : L[i] \in Addr /\ L[i] \in Range(L) /\ L[i] \notin DOMAIN live
  BY <1>1, RangeIs DEF Heap, Listed
<1>3. \A i \in 1 .. Len(L) : Ends[L[i]] = L[i] + 2 + size[L[i]] /\ size[L[i]] \in Nat
  BY <1>2, EndsIs DEF TypeOK
<1>4. \A i, j \in 1 .. Len(L) : i < j => L[i] < L[j]
  BY DEF Heap, Listed, Chain
<1>5. \A i, j \in 1 .. Len(L) : i < j => Ends[L[i]] <= L[j]
  BY <1>2, <1>4 DEF Heap, Tiles
<1>6. Ends[L[Len(L)]] = brk /\ size[L[Len(L)]] > 0
  BY <1>1, <1>3 DEF Heap, Listed, NodeEnd, NODE_T_SIZE
<1>. QED  BY <1>1, <1>2, <1>3, <1>4, <1>5, <1>6

LEMMA NodesApart ==
  ASSUME TypeOK, NEW L, Heap(L)
  PROVE  /\ \A k \in 1 .. Len(L) : L[k] \in Nat
         /\ \A k, j \in 1 .. Len(L) : k # j => L[k] # L[j]
<1>1. L \in Seq(Nat) /\ \A k, j \in 1 .. Len(L) : k < j => L[k] < L[j]
  BY NodesAre
<1>2. \A k \in 1 .. Len(L) : L[k] \in Nat
  BY <1>1
<1>3. ASSUME NEW k \in 1 .. Len(L), NEW j \in 1 .. Len(L), k < j PROVE L[k] # L[j]
  <2>1. PICK x \in Nat, y \in Nat : x = L[k] /\ y = L[j]
    BY <1>2
  <2>2. x < y
    BY <1>1, <1>3, <2>1
  <2>. QED  BY <2>1, <2>2
<1>. QED  BY <1>2, <1>3

\* The node L[i], with g words more if it is the last, is cut: a block in
\* front, the rest in its place.
Served(L, i, g, r) ==
  /\ FreeList = L
  /\ i = Len(L) \/ g = 0
  /\ Fits(size[L[i]] + g, Words(r)) /\ brk + g <= HeapLimit
  /\ brk' = brk + g
  /\ live' = [b \in DOMAIN live \cup {L[i]} |->
                IF b = L[i] THEN [asked |-> r, words |-> Words(r)] ELSE live[b]]
  /\ Carve(i, size[L[i]] + g, Words(r)) /\ outcome' = outcome

LEMMA CarveKeeps ==
  ASSUME TypeOK, Blocks, NEW L, Heap(L),
         NEW r \in Request, NEW i \in 1 .. Len(L), NEW g \in Nat, Served(L, i, g, r)
  PROVE  TypeOK' /\ Blocks' /\ \E M : Heap(M)'
<1>1. /\ L \in Seq(Nat) /\ Len(L) \in Nat /\ Len(L) \in 1 .. Len(L)
      /\ \A k \in 1 .. Len(L) :
           /\ L[k] \in Addr /\ L[k] \in Range(L) /\ L[k] \notin DOMAIN live
           /\ Ends[L[k]] = L[k] + 2 + size[L[k]] /\ size[L[k]] \in Nat
      /\ \A k, j \in 1 .. Len(L) : k < j => L[k] < L[j] /\ Ends[L[k]] <= L[j]
      /\ Ends[L[Len(L)]] = brk
  BY NodesAre
<1>2. PICK n \in Nat \ {0} : n = Words(r)
  BY WordsIs
<1>3. PICK a \in Addr : a = L[i]
  BY <1>1
<1>4. a \in Nat /\ size[a] \in Nat /\ brk \in Nat /\ HeapLimit \in Nat /\ a \notin DOMAIN live
      /\ size[a] + g - 1 > n /\ brk' = brk + g /\ brk + g <= HeapLimit
      /\ (i = Len(L) \/ g = 0)
  <2>1. a \in Nat /\ size[a] \in Nat /\ brk \in Nat /\ HeapLimit \in Nat
    BY HeapLimitAssumption DEF Addr, TypeOK
  <2>2. size[a] + g - 1 > n
    <3>1. Fits(size[a] + g, n)
      BY <1>2, <1>3 DEF Served
    <3>. QED  BY <2>1, <3>1 DEF Fits, HEADER_T_SIZE
  <2>3. brk' = brk + g /\ brk + g <= HeapLimit /\ (i = Len(L) \/ g = 0)
    BY DEF Served
  <2>. QED  BY <1>1, <1>3, <2>1, <2>2, <2>3
<1>24. PICK z \in Nat : z = size[a]
  BY <1>4
<1>25. PICK top \in Nat : top = brk
  BY <1>4
<1>26. a \in Nat /\ n \in Nat /\ n > 0 /\ z + g > n + 1 /\ top + g <= HeapLimit /\ HeapLimit \in Nat
  <2>1. n > 0
    OBVIOUS
  <2>2. z + g - 1 > n
    BY <1>4, <1>24
  <2>. QED  BY <1>4, <1>25, <2>1, <2>2
<1>5. PICK rest \in Nat : rest = a + 1 + n
  BY <1>26
<1>6. PICK e \in Nat : e = a + 2 + z + g
  BY <1>26
<1>23. Ends[a] = a + 2 + size[a]
  BY <1>1, <1>3
<1>7. a < rest /\ rest + 1 < e /\ e <= top + g
  <2>1. a + 2 + z <= top
    <3>1. Ends[a] <= brk /\ Ends[a] = a + 2 + size[a]
      BY <1>1, <1>3 DEF Heap, Tiles
    <3>. QED  BY <1>24, <1>25, <3>1
  <2>. QED  BY <1>26, <1>5, <1>6, <2>1
<1>8. rest \in Addr /\ rest + 1 \in Addr
  BY <1>26, <1>5, <1>7 DEF Addr
<1>9. PICK m \in Nat : m = z + g - n - 1
  BY <1>26
<1>10. m > 0 /\ rest + 2 + m = e
  BY <1>26, <1>5, <1>6, <1>9
<1>11. /\ size' = [size EXCEPT ![a] = n, ![rest] = m]
       /\ magic' = (magic \cup {a}) \ {rest + 1}
  <2>1. Carve(i, z + g, n) /\ FreeList[i] = a
    BY <1>2, <1>3, <1>24 DEF Served
  <2>2. m = Remainder(z + g, n) /\ rest = a + HEADER_T_SIZE + n
    BY <1>5, <1>9, <1>26 DEF Remainder, HEADER_T_SIZE
  <2>. QED  BY <2>1, <2>2 DEF Carve
<1>12. /\ size' \in [Addr -> Nat] /\ size'[a] = n /\ size'[rest] = m
       /\ \A x \in Addr : x # a /\ x # rest => size'[x] = size[x]
  <2>1. size \in [Addr -> Nat]
    BY DEF TypeOK
  <2>. QED  BY <1>5, <1>7, <1>8, <1>11, <2>1
<1>13. /\ DOMAIN live' = DOMAIN live \cup {a}
       /\ live'[a] = [asked |-> r, words |-> n]
       /\ \A b \in DOMAIN live : live'[b] = live[b]
  BY <1>2, <1>3, <1>4 DEF Served
<1>14. /\ rest \notin Range(L) \cup DOMAIN live
       /\ rest + 1 \notin DOMAIN live /\ rest + 1 # a
  <2>1. PICK S : S = Range(L) \cup DOMAIN live
    OBVIOUS
  <2>2. Tiles(S, Ends, brk) /\ a \in S /\ Ends[a] = a + 2 + size[a]
    BY <1>1, <1>3, <2>1 DEF Heap
  <2>3. ASSUME NEW s \in S, s \in {rest, rest + 1}
        PROVE  FALSE
    <3>1. s > a /\ s \in Nat
      BY <1>4, <1>7, <2>3
    <3>2. Ends[a] <= s /\ s < brk
      BY <2>2, <3>1 DEF Tiles
    <3>3. CASE g = 0
      <4>1. Ends[a] = e
        BY <1>6, <1>24, <1>26, <2>2, <3>3
      <4>. QED  BY <1>7, <2>3, <3>1, <3>2, <4>1
    <3>4. CASE i = Len(L)
      <4>1. Ends[a] = top
        BY <1>1, <1>3, <1>25, <3>4
      <4>. QED  BY <1>25, <3>1, <3>2, <4>1
    <3>. QED  BY <1>4, <3>3, <3>4
  <2>. QED  BY <1>4, <1>7, <2>1, <2>3
<1>15. /\ next' \in [Addr -> Addr \cup {NULL}]
       /\ next'[rest] = next[a]
       /\ i > 1 => next'[L[i - 1]] = rest
       /\ \A k \in 1 .. Len(L) : k # i /\ k # i - 1 => next'[L[k]] = next[L[k]]
       /\ head' = IF i = 1 THEN rest ELSE head
  <2>1. next \in [Addr -> Addr \cup {NULL}] /\ next[a] \in Addr \cup {NULL}
    BY DEF TypeOK
  <2>2. \A k \in 1 .. Len(L) : L[k] # rest /\ (k # i => L[k] # a) /\ (k # i - 1 /\ i > 1 => L[k] # L[i - 1])
    <3>1. \A k \in 1 .. Len(L) : L[k] # rest
      BY <1>1, <1>14
    <3>2. \A k, j \in 1 .. Len(L) : k # j => L[k] # L[j]
      BY NodesApart
    <3>3. i > 1 => i - 1 \in 1 .. Len(L)
      OBVIOUS
    <3>. QED  BY <1>3, <3>1, <3>2, <3>3
  <2>3. CASE i = 1
    <3>1. head' = rest /\ next' = [next EXCEPT ![a] = NULL, ![rest] = next[a]]
      BY <1>2, <1>3, <1>5, <2>3 DEF Served, Carve, HEADER_T_SIZE
    <3>2. \A x \in Addr : next'[x] = IF x = rest THEN next[a] ELSE IF x = a THEN NULL ELSE next[x]
      BY <1>7, <2>1, <3>1
    <3>3. next' \in [Addr -> Addr \cup {NULL}]
      BY <1>8, <2>1, <3>1
    <3>4. next'[rest] = next[a]
      BY <1>8, <3>2
    <3>5. \A k \in 1 .. Len(L) : k # i => next'[L[k]] = next[L[k]]
      BY <1>1, <2>2, <3>2
    <3>6. ~(i > 1)
      BY <2>3
    <3>. QED  BY <2>3, <3>1, <3>3, <3>4, <3>5, <3>6
  <2>4. CASE i # 1
    <3>1. PICK j \in 1 .. Len(L) : j = i - 1
      BY <2>4
    <3>2. PICK p \in Addr : p = L[j]
      BY <1>1
    <3>3. head' = head /\ next' = [next EXCEPT ![a] = NULL, ![rest] = next[a], ![p] = rest]
      BY <1>2, <1>3, <1>5, <2>4, <3>1, <3>2 DEF Served, Carve, HEADER_T_SIZE
    <3>4. \A x \in Addr : next'[x] = IF x = p THEN rest ELSE IF x = rest THEN next[a] ELSE IF x = a THEN NULL ELSE next[x]
      BY <1>7, <2>1, <3>3
    <3>5. p # rest /\ p # a
      BY <1>3, <2>2, <3>1, <3>2
    <3>6. \A k \in 1 .. Len(L) : k # i /\ k # j => L[k] # p /\ L[k] # rest /\ L[k] # a
      BY <2>2, <2>4, <3>1, <3>2
    <3>7. next' \in [Addr -> Addr \cup {NULL}]
      BY <1>8, <2>1, <3>3
    <3>. QED  BY <1>1, <1>8, <2>4, <3>1, <3>2, <3>3, <3>4, <3>5, <3>6, <3>7
  <2>. QED  BY <2>3, <2>4
<1>16. TypeOK'
  <2>1. head' \in Addr
    BY <1>8, <1>15 DEF TypeOK
  <2>2. brk' \in Addr \cup {HeapLimit}
    BY <1>4 DEF Addr
  <2>3. magic' \subseteq Addr /\ DOMAIN live' \subseteq magic'
    BY <1>11, <1>13, <1>14 DEF TypeOK
  <2>4. \A b \in DOMAIN live' : live'[b] \in [asked : Request, words : Nat \ {0}]
    BY <1>13 DEF TypeOK
  <2>5. outcome' \in {"ok", "aborted"}
    BY DEF TypeOK, Served
  <2>. QED  BY <1>12, <1>15, <2>1, <2>2, <2>3, <2>4, <2>5 DEF TypeOK
<1>17. Blocks'
  <2>1. ASSUME NEW b \in DOMAIN live
        PROVE  live'[b] = live[b] /\ size'[b] = size[b]
    <3>1. b \in Addr /\ b # a /\ b # rest
      BY <1>4, <1>14 DEF TypeOK
    <3>. QED  BY <1>12, <1>13, <3>1
  <2>2. live'[a].asked = r /\ live'[a].words = n /\ size'[a] = n
    BY <1>12, <1>13
  <2>3. r + 7 < UIntMod => r <= 8 * n
    BY <1>2, WordsIs
  <2>. QED  BY <1>13, <2>1, <2>2, <2>3 DEF Blocks
<1>18. PICK M : M = Replaced(L, i, rest)
  OBVIOUS
<1>19. /\ Chain(M, head', next') /\ Len(M) = Len(L)
       /\ Range(M) = (Range(L) \ {a}) \cup {rest}
  <2>1. Chain(L, head, next)
    BY DEF Heap, Listed
  <2>3. i > 1 => L[i - 1] < rest
    <3>1. ASSUME i > 1 PROVE L[i - 1] < rest
      <4>1. PICK j \in 1 .. Len(L) : j = i - 1
        BY <3>1
      <4>2. L[j] < a /\ L[j] \in Nat
        <5>1. j < i
          BY <4>1
        <5>2. L[j] < L[i]
          BY <1>1, <5>1
        <5>. QED  BY <1>3, <5>2, NodesApart
      <4>. QED  BY <1>4, <1>7, <4>1, <4>2
    <3>. QED  BY <3>1
  <2>4. i < Len(L) => rest < L[i + 1]
    <3>1. ASSUME i < Len(L) PROVE rest < L[i + 1]
      <4>1. PICK j \in 1 .. Len(L) : j = i + 1
        BY <1>1, <3>1
      <4>2. Ends[a] <= L[j] /\ L[j] \in Nat
        BY <1>1, <1>3, <4>1
      <4>3. Ends[a] = e
        <5>1. g = 0
          BY <1>1, <1>4, <3>1
        <5>. QED  BY <1>6, <1>23, <1>24, <1>26, <5>1
      <4>. QED  BY <1>7, <4>1, <4>2, <4>3
    <3>. QED  BY <3>1
  <2>5. PICK g0 : g0 = next'
    OBVIOUS
  <2>6. g0[rest] = next[L[i]]
    BY <1>3, <1>15, <2>5
  <2>7. /\ i > 1 => g0[L[i - 1]] = rest
        /\ \A k \in 1 .. Len(L) : k # i /\ k # i - 1 => g0[L[k]] = next[L[k]]
    BY <1>15, <2>5
  <2>8. /\ Chain(M, IF i = 1 THEN rest ELSE head, g0) /\ Len(M) = Len(L)
        /\ Range(M) = (Range(L) \ {L[i]}) \cup {rest}
    BY <1>18, <2>1, <2>3, <2>4, <2>6, <2>7, ChainReplace
  <2>. QED  BY <1>3, <1>15, <2>5, <2>8
<1>20. NodeEnd(M[Len(M)])' = brk' /\ size'[M[Len(M)]] > 0
  <2>1. CASE i = Len(L)
    <3>1. M[Len(M)] = rest
      BY <1>1, <1>18, <1>19, <2>1 DEF Replaced
    <3>2. e = brk + g
      BY <1>1, <1>3, <1>4, <1>6, <1>23, <1>24, <2>1
    <3>. QED  BY <1>4, <1>10, <1>12, <3>1, <3>2 DEF NodeEnd, NODE_T_SIZE
  <2>2. CASE i # Len(L)
    <3>1. brk' = brk
      BY <1>4, <2>2
    <3>2. PICK t \in Addr : t = L[Len(L)]
      BY <1>1
    <3>3. M[Len(M)] = t
      BY <1>1, <1>18, <1>19, <2>2, <3>2 DEF Replaced
    <3>4. a < t
      <4>1. i < Len(L)
        BY <1>1, <2>2
      <4>. QED  BY <1>1, <1>3, <3>2, <4>1
    <3>5. t # rest
      BY <1>1, <1>14, <3>2
    <3>6. size'[t] = size[t]
      BY <1>4, <1>12, <3>4, <3>5
    <3>7. NodeEnd(t) = brk /\ size[t] > 0
      BY <3>2 DEF Heap, Listed
    <3>. QED  BY <3>1, <3>3, <3>6, <3>7 DEF NodeEnd
  <2>. QED  BY <2>1, <2>2
<1>21. Tiles(Range(M) \cup DOMAIN live', Ends', brk') /\ Range(M) \cap DOMAIN live' = {}
  <2>1. PICK S : S = Range(L) \cup DOMAIN live
    OBVIOUS
  <2>2. Tiles(S, Ends, brk) /\ a \in S /\ S \subseteq Addr
    BY <1>1, <1>3, <2>1 DEF Heap, Listed, TypeOK
  <2>3. Range(M) \cup DOMAIN live' = S \cup {rest}
    <3>1. a \in Range(L)
      BY <1>1, <1>3
    <3>. QED  BY <1>13, <1>19, <2>1, <3>1
  <2>4. /\ Ends'[a] = rest /\ Ends'[rest] = e
        /\ \A s \in S \ {a} : Ends'[s] = Ends[s]
    <3>1. Ends'[a] = rest
      BY <1>5, <1>13, <1>16, EndsIsNext
    <3>2. rest \notin DOMAIN live'
      BY <1>13, <1>14, <1>7, <1>4
    <3>3. Ends'[rest] = e
      BY <1>8, <1>10, <1>12, <1>16, <3>2, EndsIsNext
    <3>4. ASSUME NEW s \in S, s # a
          PROVE  Ends'[s] = Ends[s]
      <4>1. s \in Addr /\ s # rest
        BY <1>14, <2>1, <2>2
      <4>2. CASE s \in DOMAIN live
        <5>1. s \in DOMAIN live' /\ live'[s] = live[s]
          BY <1>13, <4>2
        <5>2. Ends'[s] = s + 1 + live'[s].words
          BY <1>16, <4>1, <5>1, EndsIsNext
        <5>3. Ends[s] = s + 1 + live[s].words
          BY <4>1, <4>2, EndsIs
        <5>. QED  BY <5>1, <5>2, <5>3
      <4>3. CASE s \notin DOMAIN live
        <5>1. s \notin DOMAIN live' /\ size'[s] = size[s]
          BY <1>12, <1>13, <3>4, <4>1, <4>3
        <5>2. Ends'[s] = s + 2 + size'[s]
          BY <1>16, <4>1, <5>1, EndsIsNext
        <5>3. Ends[s] = s + 2 + size[s]
          BY <4>1, <4>3, EndsIs
        <5>. QED  BY <5>1, <5>2, <5>3
      <4>. QED  BY <4>2, <4>3
    <3>. QED  BY <3>1, <3>3, <3>4
  <2>5. PICK F : F = [s \in Addr |-> IF s = a THEN e ELSE Ends[s]]
    OBVIOUS
  <2>6. Tiles(S, F, brk + g)
    <3>1. F[a] = e /\ \A s \in S \ {a} : F[s] = Ends[s]
      BY <2>2, <2>5
    <3>2. CASE g = 0
      <4>1. Ends[a] = e /\ brk + g = brk
        BY <1>4, <1>6, <1>23, <1>24, <3>2
      <4>2. \A s \in S : F[s] = Ends[s]
        BY <3>1, <4>1
      <4>. QED  BY <2>2, <4>1, <4>2, SameTiles
    <3>3. CASE i = Len(L)
      <4>1. Ends[a] = brk
        BY <1>1, <1>3, <3>3
      <4>2. e = brk + g /\ brk + g \in Nat /\ brk <= brk + g
        BY <1>4, <1>6, <1>23, <1>24, <1>25, <4>1
      <4>. QED  BY <2>2, <3>1, <4>1, <4>2, GrowTile
    <3>. QED  BY <1>4, <3>2, <3>3
  <2>7. F[a] = e /\ \A s \in S \ {a} : Ends'[s] = F[s]
    BY <2>2, <2>4, <2>5
  <2>8. rest < e
    BY <1>7
  <2>9. Tiles(S \cup {rest}, Ends', brk + g)
    BY <1>5, <1>7, <2>2, <2>4, <2>6, <2>7, <2>8, SplitTile
  <2>10. Range(M) \cap DOMAIN live' = {}
    BY <1>13, <1>14, <1>19, <1>7, <1>4 DEF Heap
  <2>. QED  BY <1>4, <2>3, <2>9, <2>10
<1>22. Heap(M)'
  <2>1. Range(M) \subseteq Addr
    BY <1>8, <1>19 DEF Heap, Listed
  <2>. QED  BY <1>19, <1>20, <1>21, <2>1 DEF Heap, Listed
<1>. QED  BY <1>16, <1>17, <1>22

\* What makes the list M and the heap what Heap says, after a step.
LEMMA HeapAgain ==
  ASSUME TypeOK', NEW M, Chain(M, head', next'), Range(M) \subseteq Addr,
         Range(M) \cap DOMAIN live' = {},
         Tiles(Range(M) \cup DOMAIN live', Ends', brk'),
         Ends'[M[Len(M)]] = brk', size'[M[Len(M)]] > 0
  PROVE  Heap(M)'
<1>1. PICK t : t = M[Len(M)]
  OBVIOUS
<1>2. t \in Addr /\ t \notin DOMAIN live'
  <2>1. M \in Seq(Nat) /\ Len(M) \in 1 .. Len(M)
    BY DEF Chain
  <2>2. t \in Range(M)
    BY <1>1, <2>1, RangeIs
  <2>. QED  BY <2>2
<1>3. Ends'[t] = t + 2 + size'[t]
  BY <1>2, EndsIsNext
<1>4. NodeEnd(M[Len(M)])' = brk'
  BY <1>1, <1>3 DEF NodeEnd, NODE_T_SIZE
<1>. QED  BY <1>4 DEF Heap, Listed

\* A block or node that a step leaves alone ends where it did.
LEMMA SameEnd ==
  ASSUME TypeOK, TypeOK', NEW s \in Addr,
         s \in DOMAIN live' <=> s \in DOMAIN live,
         s \in DOMAIN live => live'[s] = live[s],
         s \notin DOMAIN live => size'[s] = size[s]
  PROVE  Ends'[s] = Ends[s]
<1>1. CASE s \in DOMAIN live
  <2>1. Ends'[s] = s + 1 + live'[s].words
    BY <1>1, EndsIsNext
  <2>2. Ends[s] = s + 1 + live[s].words
    BY <1>1, EndsIs
  <2>. QED  BY <1>1, <2>1, <2>2
<1>2. CASE s \notin DOMAIN live
  <2>1. Ends'[s] = s + 2 + size'[s]
    BY <1>2, EndsIsNext
  <2>2. Ends[s] = s + 2 + size[s]
    BY <1>2, EndsIs
  <2>. QED  BY <1>2, <2>1, <2>2
<1>. QED  BY <1>1, <1>2

\* sbrk fails: the last node is larger by what was granted.
LEMMA CannotGrowKeeps ==
  ASSUME TypeOK, Blocks, NEW L, Heap(L), NEW n \in Nat, CannotGrow(L[Len(L)], n)
  PROVE  TypeOK' /\ Blocks' /\ Heap(L)'
<1>1. /\ L \in Seq(Nat) /\ Len(L) \in Nat /\ Len(L) \in 1 .. Len(L)
      /\ \A k \in 1 .. Len(L) : L[k] \in Addr /\ L[k] \in Range(L)
      /\ \A k, j \in 1 .. Len(L) : k < j => L[k] < L[j]
  BY NodesAre
<1>2. PICK t \in Addr : t = L[Len(L)]
  BY <1>1
<1>3. t \in Range(L) /\ t \notin DOMAIN live /\ Ends[t] = t + 2 + size[t] /\ Ends[t] = brk /\ size[t] > 0
  BY <1>2, NodesAre
<1>4. PICK g \in Nat : g = MostChunks * Chunk /\ brk + g <= HeapLimit
  BY GrantIs
<1>5. /\ brk' = brk + g /\ size' = [size EXCEPT ![t] = @ + g]
      /\ head' = head /\ next' = next /\ magic' = magic /\ live' = live /\ outcome' = outcome
  BY <1>2, <1>4 DEF CannotGrow
<1>6. size \in [Addr -> Nat] /\ brk \in Nat /\ HeapLimit \in Nat /\ t \in Nat
  BY HeapLimitAssumption DEF TypeOK, Addr
<1>7. /\ size' \in [Addr -> Nat] /\ size'[t] = size[t] + g
      /\ \A x \in Addr \ {t} : size'[x] = size[x]
  BY <1>5, <1>6
<1>8. TypeOK'
  <2>1. brk' \in Addr \cup {HeapLimit}
    <3>1. PICK b \in Nat : b = brk + g
      BY <1>6
    <3>2. b <= HeapLimit
      BY <1>4, <3>1
    <3>3. b \in Addr \cup {HeapLimit}
      BY <1>6, <3>2 DEF Addr
    <3>. QED  BY <1>5, <3>1, <3>3
  <2>. QED  BY <1>5, <1>7, <2>1 DEF TypeOK
<1>9. Blocks'
  <2>1. \A b \in DOMAIN live : b \in Addr /\ b # t
    BY <1>3 DEF TypeOK
  <2>2. \A b \in DOMAIN live : size'[b] = size[b]
    BY <1>7, <2>1
  <2>. QED  BY <1>5, <2>2 DEF Blocks
<1>10. Ends'[t] = brk'
  <2>1. Ends'[t] = t + 2 + size'[t]
    BY <1>3, <1>5, <1>8, EndsIsNext
  <2>2. PICK z \in Nat : z = size[t]
    BY <1>6
  <2>3. Ends'[t] = t + 2 + (z + g)
    BY <1>7, <2>1, <2>2
  <2>4. brk = t + 2 + z
    BY <1>3, <2>2
  <2>. QED  BY <1>5, <1>6, <2>3, <2>4
<1>11. Tiles(Range(L) \cup DOMAIN live, Ends', brk')
  <2>1. PICK S : S = Range(L) \cup DOMAIN live
    OBVIOUS
  <2>2. Tiles(S, Ends, brk) /\ t \in S /\ S \subseteq Addr
    BY <1>3, <2>1 DEF Heap, Listed, TypeOK
  <2>3. \A s \in S \ {t} : Ends'[s] = Ends[s]
    BY <1>5, <1>7, <1>8, <2>2, SameEnd
  <2>4. PICK k \in Nat : k = brk'
    BY <1>5, <1>6
  <2>5. brk <= k
    BY <1>5, <1>6, <2>4
  <2>6. PICK F : F = Ends'
    OBVIOUS
  <2>7. F[t] = k /\ \A s \in S \ {t} : F[s] = Ends[s]
    BY <1>10, <2>3, <2>4, <2>6
  <2>8. Tiles(S, F, k)
    BY <1>3, <2>2, <2>5, <2>7, GrowTile
  <2>. QED  BY <2>1, <2>4, <2>6, <2>8
<1>12. size'[t] > 0
  BY <1>3, <1>6, <1>7
<1>. QED  BY <1>2, <1>5, <1>8, <1>9, <1>10, <1>11, <1>12, HeapAgain DEF Heap, Listed

----------------------------------------------------------------------------
(* myfree                                                                  *)

\* Where a block is among the free nodes.
LEMMA BlockIs ==
  ASSUME TypeOK, Blocks, NEW L, Heap(L), NEW p \in DOMAIN live
  PROVE  /\ p \in Addr /\ p \in Nat /\ size[p] \in Nat \ {0} /\ p \notin Range(L)
         /\ Ends[p] = p + 1 + size[p] /\ Ends[p] \in Nat
         /\ p + 1 \in Addr /\ p + 1 \notin DOMAIN live
         /\ p < L[Len(L)]
         /\ \A i \in 1 .. Len(L) : L[i] < p \/ p < L[i]
         /\ \A i \in 1 .. Len(L) : L[i] < p => Ends[L[i]] <= p
         /\ \A i \in 1 .. Len(L) : p < L[i] => Ends[p] <= L[i]
         /\ AsNode(p) = size[p] - 1
         /\ TouchesHead(p) <=> Ends[p] = head
<1>1. /\ L \in Seq(Nat) /\ Len(L) \in Nat /\ Len(L) \in 1 .. Len(L)
      /\ \A k \in 1 .. Len(L) : L[k] \in Addr /\ L[k] \in Range(L) /\ L[k] \notin DOMAIN live
  BY NodesAre
<1>2. Ends[L[Len(L)]] = brk
  BY NodesAre
<1>3. PICK S : S = Range(L) \cup DOMAIN live
  OBVIOUS
<1>4. Tiles(S, Ends, brk) /\ p \in S /\ \A k \in 1 .. Len(L) : L[k] \in S
  BY <1>1, <1>3 DEF Heap
<1>5. p \in Addr /\ p \in Nat /\ size[p] \in Nat \ {0} /\ size[p] = live[p].words
  BY EndsIs DEF TypeOK, Blocks
<1>6. Ends[p] = p + 1 + size[p] /\ Ends[p] \in Nat
  BY <1>5, EndsIs
<1>7. Ends[p] <= brk /\ brk \in Nat
  BY <1>4 DEF Tiles
<1>8. brk <= HeapLimit /\ HeapLimit \in Nat
  BY HeapLimitAssumption DEF TypeOK, Addr
<1>9. p + 1 \in Addr
  BY <1>5, <1>6, <1>7, <1>8 DEF Addr
<1>10. p + 1 \notin DOMAIN live
  <2>1. ASSUME p + 1 \in DOMAIN live PROVE FALSE
    <3>1. PICK q \in Nat : q = p + 1
      BY <1>5
    <3>2. q \in S /\ p < q
      BY <1>3, <1>5, <2>1, <3>1
    <3>3. Ends[p] <= q
      BY <1>4, <3>2 DEF Tiles
    <3>. QED  BY <1>5, <1>6, <3>1, <3>3
  <2>. QED  BY <2>1
<1>11. \A i \in 1 .. Len(L) : L[i] \in Nat /\ L[i] # p
  BY <1>1
<1>12. \A i \in 1 .. Len(L) : L[i] < p \/ p < L[i]
  BY <1>5, <1>11
<1>13. \A i \in 1 .. Len(L) : (L[i] < p => Ends[L[i]] <= p) /\ (p < L[i] => Ends[p] <= L[i])
  BY <1>4 DEF Tiles
<1>14. p < L[Len(L)]
  <2>1. ASSUME L[Len(L)] < p PROVE FALSE
    <3>1. brk <= p
      BY <1>1, <1>2, <1>13, <2>1
    <3>. QED  BY <1>5, <1>6, <1>7, <3>1
  <2>. QED  BY <1>1, <1>12, <2>1
<1>15. p \notin Range(L)
  BY DEF Heap
<1>16. AsNode(p) = size[p] - 1 /\ (TouchesHead(p) <=> Ends[p] = head)
  BY <1>5, <1>6 DEF AsNode, TouchesHead, HEADER_T_SIZE, NODE_T_SIZE
<1>. QED  BY <1>5, <1>6, <1>9, <1>10, <1>12, <1>13, <1>14, <1>15, <1>16

Freeing(p) ==
  /\ live' = Restrict(live, DOMAIN live \ {p})
  /\ brk' = brk /\ outcome' = outcome

\* The headers of the other blocks, through a call that frees one.
LEMMA FreeingKeeps ==
  ASSUME TypeOK, Blocks, NEW p \in DOMAIN live, Freeing(p),
         p + 1 \notin DOMAIN live, head' \in Addr, size' \in [Addr -> Nat],
         next' \in [Addr -> Addr \cup {NULL}], magic' \in {magic, magic \ {p + 1}},
         \A b \in DOMAIN live \ {p} : size'[b] = size[b]
  PROVE  /\ TypeOK' /\ Blocks'
         /\ DOMAIN live' = DOMAIN live \ {p}
         /\ \A b \in DOMAIN live \ {p} : live'[b] = live[b]
<1>1. /\ DOMAIN live' = DOMAIN live \ {p}
      /\ \A b \in DOMAIN live \ {p} : live'[b] = live[b]
  BY DEF Freeing, Restrict
<1>2. TypeOK'
  BY <1>1 DEF TypeOK, Freeing
<1>3. Blocks'
  BY <1>1 DEF Blocks
<1>. QED  BY <1>1, <1>2, <1>3

\* The block is next to the only free node: one node of both.
LEMMA FreeIntoTopKeeps ==
  ASSUME TypeOK, Blocks, NEW L, Heap(L), NEW p \in DOMAIN live, Freeing(p), FreeIntoTop(p)
  PROVE  TypeOK' /\ Blocks' /\ \E M : Heap(M)'
<1>1. L \in Seq(Nat) /\ Len(L) = 1 /\ L[1] = head
  BY NodesAre, FreeListIs DEF FreeIntoTop
<1>2. head \in Range(L) /\ head \notin DOMAIN live /\ head \in Addr /\ head \in Nat
      /\ Ends[head] = head + 2 + size[head] /\ Ends[head] = brk /\ size[head] \in Nat
  <2>1. PICK k : k = Len(L)
    OBVIOUS
  <2>2. k \in 1 .. Len(L) /\ L[k] = head /\ L[Len(L)] = head
    BY <1>1, <2>1
  <2>3. head \in Range(L) /\ head \notin DOMAIN live /\ head \in Addr
        /\ Ends[head] = head + 2 + size[head] /\ Ends[head] = brk /\ size[head] \in Nat
    BY <2>2, NodesAre
  <2>. QED  BY <2>3, HeapLimitAssumption DEF Addr
<1>3. Range(L) = {head}
  <2>1. \A x \in Range(L) : x = head
    BY <1>1, RangeIs
  <2>. QED  BY <1>2, <2>1
<1>4. /\ p \in Addr /\ p \in Nat /\ size[p] \in Nat \ {0}
      /\ Ends[p] = p + 1 + size[p] /\ Ends[p] = head /\ p + 1 \notin DOMAIN live /\ p # head
  BY <1>2, BlockIs DEF FreeIntoTop
<1>5. PICK z \in Nat : z = size[p] + 1 + size[head]
  BY <1>2, <1>4
<1>6. /\ size' = [size EXCEPT ![p] = z] /\ next' = [next EXCEPT ![p] = NULL]
      /\ head' = p /\ magic' = magic \ {p + 1}
  BY <1>5 DEF FreeIntoTop, HEADER_T_SIZE
<1>7. /\ size' \in [Addr -> Nat] /\ next' \in [Addr -> Addr \cup {NULL}]
      /\ size'[p] = z /\ next'[p] = NULL /\ \A x \in Addr \ {p} : size'[x] = size[x]
  BY <1>4, <1>6 DEF TypeOK
<1>8. \A b \in DOMAIN live \ {p} : b \in Addr \ {p}
  BY DEF TypeOK
<1>9. /\ TypeOK' /\ Blocks' /\ DOMAIN live' = DOMAIN live \ {p}
      /\ \A b \in DOMAIN live \ {p} : live'[b] = live[b]
  BY <1>4, <1>6, <1>7, <1>8, FreeingKeeps
<1>10. Ends'[p] = brk /\ z > 0
  <2>1. Ends'[p] = p + 2 + z
    BY <1>4, <1>7, <1>9, EndsIsNext
  <2>2. PICK k \in Nat : k = size[p]
    BY <1>4
  <2>3. PICK h \in Nat : h = size[head]
    BY <1>2
  <2>4. z = k + 1 + h /\ head = p + 1 + k /\ brk = head + 2 + h
    BY <1>2, <1>4, <1>5, <2>2, <2>3
  <2>. QED  BY <1>4, <2>1, <2>2, <2>3, <2>4
<1>11. PICK M : M = <<p>>
  OBVIOUS
<1>12. /\ Chain(M, head', next') /\ Range(M) = {p} /\ M[Len(M)] = p
  <2>1. M \in Seq(Nat) /\ Len(M) = 1 /\ M[1] = p
    BY <1>4, <1>11
  <2>2. \A i, j \in 1 .. Len(M) : ~(i < j)
    BY <2>1
  <2>3. Range(M) = {p}
    BY <2>1 DEF Range
  <2>. QED  BY <1>6, <1>7, <2>1, <2>2, <2>3 DEF Chain
<1>13. Tiles(Range(M) \cup DOMAIN live', Ends', brk')
  <2>1. PICK S : S = Range(L) \cup DOMAIN live
    OBVIOUS
  <2>2. Tiles(S, Ends, brk) /\ p \in S /\ head \in S /\ S \subseteq Addr
    BY <1>2, <2>1 DEF Heap, Listed, TypeOK
  <2>3. \A s \in S \ {p, head} : Ends'[s] = Ends[s]
    <3>1. ASSUME NEW s \in S \ {p, head} PROVE Ends'[s] = Ends[s]
      <4>1. s \in DOMAIN live /\ s \in DOMAIN live' /\ s \in Addr
        BY <1>3, <1>9, <2>1, <2>2
      <4>. QED  BY <1>9, <4>1, SameEnd
    <3>. QED  BY <3>1
  <2>4. PICK F : F = Ends'
    OBVIOUS
  <2>5. F[p] = Ends[Ends[p]] /\ Ends[p] \in S /\ \A s \in S \ {p, Ends[p]} : F[s] = Ends[s]
    BY <1>2, <1>4, <1>10, <2>2, <2>3, <2>4
  <2>6. Tiles(S \ {head}, F, brk)
    BY <1>4, <2>2, <2>5, JoinTiles
  <2>7. S \ {head} = Range(M) \cup DOMAIN live'
    BY <1>2, <1>3, <1>9, <1>12, <2>1
  <2>. QED  BY <2>4, <2>6, <2>7 DEF Freeing
<1>14. Range(M) \cap DOMAIN live' = {} /\ Range(M) \subseteq Addr
  BY <1>4, <1>9, <1>12
<1>15. Heap(M)'
  BY <1>7, <1>9, <1>10, <1>12, <1>13, <1>14, HeapAgain DEF Freeing
<1>. QED  BY <1>9, <1>15

\* The block becomes a node of its own, after the i-th or before the first.
Inserted(L, i, p) ==
  /\ i \in 0 .. Len(L) - 1
  /\ i > 0 => L[i] < p
  /\ p < L[i + 1]
  /\ size' = [size EXCEPT ![p] = AsNode(p)]
  /\ magic' = magic \ {p + 1}
  /\ IF i = 0 THEN head' = p /\ next' = [next EXCEPT ![p] = head]
     ELSE head' = head /\ next' = [next EXCEPT ![L[i]] = p, ![p] = L[i + 1]]

LEMMA InsertedKeeps ==
  ASSUME TypeOK, Blocks, NEW L, Heap(L), NEW p \in DOMAIN live, Freeing(p),
         NEW i, Inserted(L, i, p)
  PROVE  TypeOK' /\ Blocks' /\ \E M : Heap(M)'
<1>1. /\ L \in Seq(Nat) /\ Len(L) \in Nat /\ Len(L) \in 1 .. Len(L) /\ L[1] = head
      /\ \A k \in 1 .. Len(L) : L[k] \in Addr /\ L[k] \in Range(L) /\ L[k] \notin DOMAIN live
      /\ \A k, j \in 1 .. Len(L) : k < j => L[k] < L[j]
  BY NodesAre
<1>2. /\ p \in Addr /\ p \in Nat /\ size[p] \in Nat \ {0} /\ p \notin Range(L)
      /\ Ends[p] = p + 1 + size[p] /\ p + 1 \notin DOMAIN live /\ AsNode(p) = size[p] - 1
  BY BlockIs
<1>3. PICK z \in Nat : z = AsNode(p)
  BY <1>2
<1>4. /\ size' = [size EXCEPT ![p] = z] /\ magic' = magic \ {p + 1}
      /\ i \in 0 .. Len(L) - 1 /\ (i > 0 => L[i] < p) /\ p < L[i + 1]
  BY <1>3 DEF Inserted
<1>5. /\ size' \in [Addr -> Nat] /\ size'[p] = z /\ \A x \in Addr \ {p} : size'[x] = size[x]
  BY <1>2, <1>4 DEF TypeOK
<1>6. i + 1 \in 1 .. Len(L) /\ L[i + 1] \in Addr /\ (i > 0 => i \in 1 .. Len(L) /\ L[i] \in Addr)
  <2>1. i + 1 \in 1 .. Len(L) /\ (i > 0 => i \in 1 .. Len(L))
    BY <1>1, <1>4
  <2>. QED  BY <1>1, <2>1
<1>7. /\ next' \in [Addr -> Addr \cup {NULL}] /\ head' = (IF i = 0 THEN p ELSE head)
      /\ next'[p] = L[i + 1] /\ (i > 0 => next'[L[i]] = p)
      /\ \A k \in 1 .. Len(L) : k # i => next'[L[k]] = next[L[k]]
  <2>1. next \in [Addr -> Addr \cup {NULL}]
    BY DEF TypeOK
  <2>2. \A k \in 1 .. Len(L) : L[k] # p
    BY <1>1, <1>2
  <2>3. CASE i = 0
    <3>1. next' = [next EXCEPT ![p] = head] /\ head' = p
      BY <2>3 DEF Inserted
    <3>2. L[i + 1] = head
      BY <1>1, <2>3
    <3>. QED  BY <1>1, <1>2, <1>6, <2>1, <2>2, <2>3, <3>1, <3>2
  <2>4. CASE i # 0
    <3>1. PICK c \in Addr : c = L[i]
      BY <1>4, <1>6, <2>4
    <3>2. PICK d \in Addr : d = L[i + 1]
      BY <1>6
    <3>3. next' = [next EXCEPT ![c] = p, ![p] = d] /\ head' = head
      BY <2>4, <3>1, <3>2 DEF Inserted
    <3>4. c # p /\ d # p
      BY <1>4, <1>6, <2>2, <2>4, <3>1, <3>2
    <3>5. ASSUME NEW k \in 1 .. Len(L), k # i PROVE L[k] # c
      <4>1. k < i \/ i < k
        BY <1>4, <3>5
      <4>2. L[k] < c \/ c < L[k]
        BY <1>1, <1>4, <1>6, <2>4, <3>1, <4>1
      <4>3. c \in Nat /\ L[k] \in Nat
        BY <1>1, <3>1, HeapLimitAssumption DEF Addr
      <4>. QED  BY <4>2, <4>3
    <3>6. \A x \in Addr : next'[x] = IF x = p THEN d ELSE IF x = c THEN p ELSE next[x]
      BY <2>1, <3>3, <3>4
    <3>7. next' \in [Addr -> Addr \cup {NULL}]
      BY <1>2, <2>1, <3>3
    <3>. QED  BY <1>1, <1>2, <2>2, <2>4, <3>1, <3>2, <3>3, <3>4, <3>5, <3>6, <3>7
  <2>. QED  BY <2>3, <2>4
<1>8. head' \in Addr
  BY <1>2, <1>7 DEF TypeOK
<1>9. \A b \in DOMAIN live \ {p} : b \in Addr \ {p}
  BY DEF TypeOK
<1>10. /\ TypeOK' /\ Blocks' /\ DOMAIN live' = DOMAIN live \ {p}
      /\ \A b \in DOMAIN live \ {p} : live'[b] = live[b]
  BY <1>2, <1>4, <1>5, <1>7, <1>8, <1>9, FreeingKeeps
<1>11. PICK M : M = WithAfter(L, i, p)
  OBVIOUS
<1>12. /\ Chain(M, head', next') /\ Len(M) = Len(L) + 1
       /\ M[Len(L) + 1] = L[Len(L)] /\ Range(M) = Range(L) \cup {p}
  <2>1. Chain(L, head, next)
    BY DEF Heap, Listed
  <2>2. PICK g : g = next'
    OBVIOUS
  <2>3. /\ g[p] = L[i + 1] /\ (i > 0 => g[L[i]] = p)
        /\ \A k \in 1 .. Len(L) : k # i => g[L[k]] = next[L[k]]
    BY <1>7, <2>2
  <2>4. /\ Chain(M, IF i = 0 THEN p ELSE head, g) /\ Len(M) = Len(L) + 1
        /\ M[Len(L) + 1] = L[Len(L)] /\ Range(M) = Range(L) \cup {p}
    <3>1. p \in Nat /\ i \in 0 .. Len(L) - 1 /\ (i > 0 => L[i] < p) /\ p < L[i + 1]
      BY <1>2, <1>4
    <3>2. \A k \in 1 .. Len(L) : k # i => g[L[k]] = next[L[k]]
      BY <2>3
    <3>3. g[p] = L[i + 1] /\ (i > 0 => g[L[i]] = p)
      BY <2>3
    <3>. QED  BY <1>11, <2>1, <3>1, <3>2, <3>3, ChainInsert
  <2>. QED  BY <1>7, <2>2, <2>4
<1>13. \A s \in Range(L) \cup DOMAIN live : Ends'[s] = Ends[s]
  <2>1. Ends'[p] = Ends[p]
    <3>1. Ends'[p] = p + 2 + z
      BY <1>2, <1>5, <1>10, EndsIsNext
    <3>. QED  BY <1>2, <1>3, <3>1
  <2>2. ASSUME NEW s \in Range(L) \cup DOMAIN live, s # p PROVE Ends'[s] = Ends[s]
    <3>1. s \in Addr /\ (s \in DOMAIN live' <=> s \in DOMAIN live)
      BY <1>10, <2>2 DEF Heap, Listed, TypeOK
    <3>. QED  BY <1>5, <1>10, <2>2, <3>1, SameEnd
  <2>. QED  BY <2>1, <2>2
<1>14. Tiles(Range(M) \cup DOMAIN live', Ends', brk')
  <2>1. Range(M) \cup DOMAIN live' = Range(L) \cup DOMAIN live
    BY <1>10, <1>12
  <2>2. PICK F : F = Ends'
    OBVIOUS
  <2>3. Tiles(Range(L) \cup DOMAIN live, F, brk)
    BY <1>13, <2>2, SameTiles DEF Heap
  <2>. QED  BY <2>1, <2>2, <2>3 DEF Freeing
<1>15. PICK t \in Addr : t = L[Len(L)]
  BY <1>1
<1>16. t \in Range(L) /\ Ends[t] = brk /\ size[t] > 0 /\ t # p
  BY <1>1, <1>2, <1>15, NodesAre
<1>17. Ends'[M[Len(M)]] = brk' /\ size'[M[Len(M)]] > 0
  BY <1>5, <1>12, <1>13, <1>15, <1>16 DEF Freeing
<1>18. Range(M) \cap DOMAIN live' = {} /\ Range(M) \subseteq Addr
  BY <1>2, <1>10, <1>12 DEF Heap, Listed
<1>19. Heap(M)'
  BY <1>10, <1>12, <1>14, <1>17, <1>18, HeapAgain
<1>. QED  BY <1>10, <1>19

LEMMA IsInserted ==
  ASSUME TypeOK, Blocks, NEW L, Heap(L), NEW p \in DOMAIN live,
         FreeBelowTop(p) \/ FreeInserted(p)
  PROVE  \E i : Inserted(L, i, p)
<1>1. /\ L \in Seq(Nat) /\ Len(L) \in Nat /\ Len(L) \in 1 .. Len(L) /\ L[1] = head
      /\ \A k \in 1 .. Len(L) - 1 : next[L[k]] = L[k + 1]
  BY NodesAre
<1>2. FreeList = L
  BY FreeListIs
<1>3. p \in Nat /\ p < L[Len(L)] /\ \A k \in 1 .. Len(L) : L[k] < p \/ p < L[k]
  BY BlockIs
<1>4. \A k \in 1 .. Len(L) : L[k] \in Nat
  BY <1>1
<1>5. CASE FreeBelowTop(p)
  <2>1. Len(L) = 1 /\ p < head
    BY <1>1, <1>2, <1>3, <1>5 DEF FreeBelowTop
  <2>. QED  BY <1>1, <1>5, <2>1 DEF FreeBelowTop, Inserted
<1>6. CASE FreeInserted(p) /\ p < head
  <2>1. 0 \in 0 .. Len(L) - 1 /\ L[0 + 1] = head
    BY <1>1
  <2>2. Inserted(L, 0, p)
    BY <1>6, <2>1 DEF FreeInserted, Inserted
  <2>. QED  BY <2>2
<1>7. CASE FreeInserted(p) /\ ~(p < head)
  <2>. DEFINE between == {i \in 1 .. Len(L) - 1 : L[i] < p /\ p < L[i + 1]}
  <2>1. between \in SUBSET Nat
    OBVIOUS
  <2>2. between # {}
    <3>. DEFINE above == {i \in 1 .. Len(L) : p < L[i]}
    <3>1. above \in SUBSET Nat /\ above # {}
      BY <1>1, <1>3
    <3>2. PICK j : j = Min(above)
      OBVIOUS
    <3>3. j \in above /\ \A k \in above : j <= k
      <4>. HIDE DEF above
      <4>. QED  BY <3>1, <3>2, MinExists
    <3>4. j # 1
      BY <1>1, <1>7, <3>3
    <3>5. PICK k \in 1 .. Len(L) - 1 : k = j - 1
      BY <1>1, <3>3, <3>4
    <3>6. k \notin above /\ k \in 1 .. Len(L)
      BY <3>3, <3>5
    <3>7. L[k] < p /\ p < L[k + 1]
      BY <1>3, <3>3, <3>5, <3>6
    <3>. QED  BY <3>7
  <2>3. PICK i : i = Min(between)
    OBVIOUS
  <2>4. i \in between
    <3>. HIDE DEF between
    <3>. QED  BY <2>1, <2>2, <2>3, MinExists
  <2>5. i = Place(p)
    BY <1>2, <2>2, <2>3 DEF Place
  <2>6. i \in 1 .. Len(L) - 1 /\ L[i] < p /\ p < L[i + 1] /\ next[L[i]] = L[i + 1]
    BY <1>1, <2>4
  <2>7. /\ head' = head /\ next' = [next EXCEPT ![L[i]] = p, ![p] = L[i + 1]]
        /\ size' = [size EXCEPT ![p] = AsNode(p)] /\ magic' = magic \ {p + 1}
    BY <1>2, <1>7, <2>5, <2>6 DEF FreeInserted
  <2>. HIDE DEF between
  <2>8. i \in 0 .. Len(L) - 1 /\ i # 0
    BY <2>6
  <2>9. Inserted(L, i, p)
    BY <2>6, <2>7, <2>8 DEF Inserted
  <2>. QED  BY <2>9
<1>. QED  BY <1>5, <1>6, <1>7

LEMMA EndOfThree ==
  ASSUME NEW x \in Nat, NEW k \in Nat, NEW m \in Nat, NEW n \in Nat, NEW z \in Nat,
         z = k + 2 + (m - 1) + 2 + n
  PROVE  x + 2 + z = (x + 2 + k + 1 + m) + 2 + n
OBVIOUS

\* The block and the nodes before and after it become one node.
JoinsThree(c, p, d) ==
  /\ size' = [size EXCEPT ![c] = @ + 2 + AsNode(p) + 2 + size[d]]
  /\ next' = [next EXCEPT ![c] = next[d], ![d] = NULL]
  /\ head' = head /\ magic' = magic

LEMMA JoinedBoth ==
  ASSUME TypeOK, Blocks, NEW L, Heap(L), NEW p \in DOMAIN live, Freeing(p),
         NEW i \in 1 .. Len(L) - 1, NEW c, c = L[i], NEW d, d = L[i + 1],
         Ends[c] = p, Ends[p] = d,
         JoinsThree(c, p, d)
  PROVE  TypeOK' /\ Blocks' /\ \E M : Heap(M)'
<1>1. /\ L \in Seq(Nat) /\ Len(L) \in Nat /\ Len(L) \in 1 .. Len(L)
      /\ \A k \in 1 .. Len(L) : /\ L[k] \in Addr /\ L[k] \in Range(L) /\ L[k] \notin DOMAIN live
                                /\ Ends[L[k]] = L[k] + 2 + size[L[k]] /\ size[L[k]] \in Nat
      /\ \A k, j \in 1 .. Len(L) : k < j => L[k] < L[j]
  BY NodesAre
<1>2. /\ p \in Addr /\ p \in Nat /\ size[p] \in Nat \ {0} /\ p \notin Range(L)
      /\ Ends[p] = p + 1 + size[p] /\ p + 1 \notin DOMAIN live /\ AsNode(p) = size[p] - 1
  BY BlockIs
<1>3. i \in 1 .. Len(L) /\ i + 1 \in 1 .. Len(L)
  BY <1>1
<1>4. /\ c \in Addr /\ d \in Addr /\ c \in Range(L) /\ d \in Range(L) /\ c < d
      /\ Ends[c] = c + 2 + size[c] /\ Ends[d] = d + 2 + size[d] /\ size[c] \in Nat /\ size[d] \in Nat
      /\ c \notin DOMAIN live /\ d \notin DOMAIN live
  <2>1. PICK j \in 1 .. Len(L) : j = i + 1 /\ i < j
    BY <1>3
  <2>2. d = L[j] /\ L[i] < L[j]
    BY <1>1, <1>3, <2>1
  <2>. QED  BY <1>1, <1>3, <2>1, <2>2
<1>5. c \in Nat /\ d \in Nat /\ c # d /\ c # p /\ d # p
  <2>1. c \in Nat /\ d \in Nat
    BY <1>4, HeapLimitAssumption DEF Addr
  <2>2. c # d
    BY <1>4, <2>1
  <2>3. c # p /\ d # p
    BY <1>2, <1>4
  <2>. QED  BY <2>1, <2>2, <2>3
<1>6. PICK z \in Nat : z = size[c] + 2 + AsNode(p) + 2 + size[d] /\ z > 0 /\ c + 2 + z = Ends[d]
  <2>1. PICK sc \in Nat : sc = size[c]
    BY <1>4
  <2>2. PICK sd \in Nat : sd = size[d]
    BY <1>4
  <2>3. PICK sp \in Nat : sp = size[p] /\ sp > 0
    BY <1>2
  <2>4. p = c + 2 + sc /\ d = p + 1 + sp /\ Ends[d] = d + 2 + sd
    BY <1>2, <1>4, <2>1, <2>2, <2>3
  <2>5. size[c] + 2 + AsNode(p) + 2 + size[d] = sc + 2 + (sp - 1) + 2 + sd
    BY <1>2, <2>1, <2>2, <2>3
  <2>6. PICK z \in Nat : z = sc + 2 + (sp - 1) + 2 + sd /\ z > 0
    BY ManySums
  <2>7. z > 0
    BY <2>6
  <2>8. d = c + 2 + sc + 1 + sp
    BY <1>5, <2>4
  <2>9. c + 2 + z = d + 2 + sd
    <3>1. PICK x \in Nat : x = c
      BY <1>5
    <3>2. d = x + 2 + sc + 1 + sp
      BY <2>8, <3>1
    <3>3. x + 2 + z = (x + 2 + sc + 1 + sp) + 2 + sd
      BY <2>6, EndOfThree
    <3>4. x + 2 + z = d + 2 + sd
      BY <3>2, <3>3
    <3>. QED  BY <3>1, <3>4
  <2>. QED  BY <2>4, <2>5, <2>6, <2>7, <2>9
<1>7. size' = [size EXCEPT ![c] = z]
  BY <1>6 DEF JoinsThree
<1>8. size' \in [Addr -> Nat] /\ size'[c] = z /\ \A x \in Addr \ {c} : size'[x] = size[x]
  BY <1>4, <1>7 DEF TypeOK
<1>9. /\ next' \in [Addr -> Addr \cup {NULL}] /\ next'[c] = next[d]
      /\ \A x \in Addr \ {c, d} : next'[x] = next[x]
  BY <1>4, <1>5 DEF TypeOK, JoinsThree
<1>10. \A b \in DOMAIN live \ {p} : b \in Addr \ {c}
  BY <1>4 DEF TypeOK
<1>11. /\ TypeOK' /\ Blocks' /\ DOMAIN live' = DOMAIN live \ {p}
       /\ \A b \in DOMAIN live \ {p} : live'[b] = live[b]
  <2>1. head' \in Addr /\ magic' = magic
    BY DEF TypeOK, JoinsThree
  <2>. QED  BY <1>2, <1>8, <1>9, <1>10, <2>1, FreeingKeeps
<1>12. PICK M : M = Without(L, i)
  OBVIOUS
<1>13. \A k \in 1 .. Len(L) : k # i /\ k # i + 1 => L[k] \in Addr \ {c, d}
  <2>1. ASSUME NEW k \in 1 .. Len(L), k # i, k # i + 1 PROVE L[k] # c /\ L[k] # d
    BY <1>3, <2>1, NodesApart
  <2>. QED  BY <1>1, <2>1
<1>14. /\ Chain(M, head', next') /\ Len(M) = Len(L) - 1
       /\ M[Len(L) - 1] = (IF i + 1 = Len(L) THEN c ELSE L[Len(L)])
       /\ Range(M) = Range(L) \ {d}
  <2>1. Chain(L, head, next)
    BY DEF Heap, Listed
  <2>2. PICK g : g = next'
    OBVIOUS
  <2>3. g[L[i]] = next[L[i + 1]] /\ \A k \in 1 .. Len(L) : k # i /\ k # i + 1 => g[L[k]] = next[L[k]]
    BY <1>9, <1>13, <2>2
  <2>5. M = Without(L, i)
    BY <1>12
  <2>4. /\ Chain(M, head, g) /\ Len(M) = Len(L) - 1
        /\ M[Len(L) - 1] = (IF i + 1 = Len(L) THEN L[i] ELSE L[Len(L)])
        /\ Range(M) = Range(L) \ {L[i + 1]}
    <3>1. Skips(L, i, next, g)
      BY <2>3 DEF Skips
    <3>. QED  BY <2>1, <2>5, <3>1, SkippedChain
  <2>. QED  BY <2>2, <2>4 DEF JoinsThree
<1>15. PICK S : S = Range(L) \cup DOMAIN live
  OBVIOUS
<1>16. Tiles(S, Ends, brk) /\ c \in S /\ d \in S /\ p \in S /\ S \subseteq Addr
  BY <1>4, <1>15 DEF Heap, Listed, TypeOK
<1>17. Ends'[c] = Ends[d]
  <2>1. c \notin DOMAIN live'
    BY <1>4, <1>11
  <2>2. Ends'[c] = c + 2 + size'[c]
    BY <1>4, <1>11, <2>1, EndsIsNext
  <2>. QED  BY <1>6, <1>8, <2>2
<1>18. \A s \in S \ {c, p, d} : Ends'[s] = Ends[s]
  <2>1. ASSUME NEW s \in S \ {c, p, d} PROVE Ends'[s] = Ends[s]
    <3>1. s \in Addr /\ (s \in DOMAIN live' <=> s \in DOMAIN live)
      BY <1>11, <1>16
    <3>. QED  BY <1>8, <1>11, <3>1, SameEnd
  <2>. QED  BY <2>1
<1>19. Tiles(Range(M) \cup DOMAIN live', Ends', brk')
  <2>1. PICK F : F = [s \in Addr |-> IF s = c THEN Ends[p] ELSE Ends[s]]
    OBVIOUS
  <2>8. PICK T : T = S \ {p}
    OBVIOUS
  <2>2. Tiles(T, F, brk)
    <3>1. F[c] = Ends[Ends[c]] /\ \A s \in S \ {c, Ends[c]} : F[s] = Ends[s]
      BY <1>4, <1>16, <2>1
    <3>. QED  BY <1>16, <2>8, <3>1, JoinTiles
  <2>3. PICK G : G = Ends'
    OBVIOUS
  <2>4. F[c] = d /\ F[d] = Ends[d] /\ c \in T /\ d \in T
    BY <1>4, <1>5, <1>16, <2>1, <2>8
  <2>5. G[c] = F[F[c]] /\ F[c] \in T /\ \A s \in T \ {c, F[c]} : G[s] = F[s]
    BY <1>16, <1>17, <1>18, <2>1, <2>3, <2>4, <2>8
  <2>9. Tiles(T \ {F[c]}, G, brk)
    BY <2>2, <2>4, <2>5, JoinTiles
  <2>6. Tiles((S \ {p}) \ {d}, G, brk)
    BY <2>4, <2>8, <2>9
  <2>7. (S \ {p}) \ {d} = Range(M) \cup DOMAIN live'
    BY <1>2, <1>4, <1>11, <1>14, <1>15
  <2>. QED  BY <2>3, <2>6, <2>7 DEF Freeing
<1>20. Ends'[M[Len(M)]] = brk' /\ size'[M[Len(M)]] > 0
  <2>1. PICK t : t = L[Len(L)]
    OBVIOUS
  <2>2. t \in S /\ t \in Addr /\ Ends[t] = brk /\ size[t] > 0 /\ t \in Range(L)
    BY <1>1, <1>15, <2>1, NodesAre
  <2>3. CASE i + 1 = Len(L)
    BY <1>6, <1>8, <1>14, <1>17, <2>1, <2>2, <2>3 DEF Freeing
  <2>4. CASE i + 1 # Len(L)
    <3>1. t \in Addr \ {c, d}
      <4>1. PICK n \in 1 .. Len(L) : n = Len(L)
        BY <1>1
      <4>2. n # i /\ n # i + 1
        BY <1>1, <2>4, <4>1
      <4>. QED  BY <1>13, <2>1, <4>1, <4>2
    <3>2. t # p
      BY <1>2, <2>2
    <3>. QED  BY <1>8, <1>14, <1>18, <2>1, <2>2, <2>4, <3>1, <3>2 DEF Freeing
  <2>. QED  BY <2>3, <2>4
<1>21. Range(M) \cap DOMAIN live' = {} /\ Range(M) \subseteq Addr
  BY <1>11, <1>14 DEF Heap, Listed
<1>22. Heap(M)'
  BY <1>11, <1>14, <1>19, <1>20, <1>21, HeapAgain
<1>. QED  BY <1>11, <1>22

\* The block becomes part of the node before it.
JoinsBefore(c, p) ==
  /\ size' = [size EXCEPT ![c] = @ + 2 + AsNode(p)]
  /\ next' = next /\ head' = head /\ magic' = magic

LEMMA JoinedBefore ==
  ASSUME TypeOK, Blocks, NEW L, Heap(L), NEW p \in DOMAIN live, Freeing(p),
         NEW i \in 1 .. Len(L), NEW c, c = L[i], Ends[c] = p, JoinsBefore(c, p)
  PROVE  TypeOK' /\ Blocks' /\ \E M : Heap(M)'
<1>1. /\ L \in Seq(Nat) /\ Len(L) \in Nat /\ Len(L) \in 1 .. Len(L)
      /\ \A k \in 1 .. Len(L) : /\ L[k] \in Addr /\ L[k] \in Range(L) /\ L[k] \notin DOMAIN live
                                /\ Ends[L[k]] = L[k] + 2 + size[L[k]] /\ size[L[k]] \in Nat
  BY NodesAre
<1>2. /\ p \in Addr /\ p \in Nat /\ size[p] \in Nat \ {0} /\ p \notin Range(L)
      /\ Ends[p] = p + 1 + size[p] /\ p + 1 \notin DOMAIN live /\ AsNode(p) = size[p] - 1
  BY BlockIs
<1>3. /\ c \in Addr /\ c \in Range(L) /\ Ends[c] = c + 2 + size[c] /\ size[c] \in Nat
      /\ c \notin DOMAIN live
  BY <1>1
<1>4. c \in Nat /\ c # p
  BY <1>2, <1>3, HeapLimitAssumption DEF Addr
<1>5. PICK z \in Nat : z = size[c] + 2 + AsNode(p) /\ c + 2 + z = Ends[p]
  <2>1. PICK k \in Nat : k = size[c]
    BY <1>3
  <2>4. PICK s \in Nat \ {0} : s = size[p]
    BY <1>2
  <2>2. PICK m \in Nat : m = s - 1 /\ s = m + 1
    OBVIOUS
  <2>3. size[c] + 2 + AsNode(p) = k + 2 + m
    BY <1>2, <2>1, <2>2, <2>4
  <2>5. Ends[p] = p + 1 + s /\ p = c + 2 + k /\ s = m + 1
    BY <1>2, <1>3, <2>1, <2>2, <2>4
  <2>6. PICK x \in Nat : x = c
    BY <1>4
  <2>7. Ends[p] = (x + 2 + k) + 1 + (m + 1)
    BY <2>5, <2>6
  <2>8. PICK y \in Nat : y = k + 2 + m /\ x + 2 + y = (x + 2 + k) + 1 + (m + 1)
    BY ThreeSums
  <2>. QED  BY <2>3, <2>6, <2>7, <2>8
<1>6. size' = [size EXCEPT ![c] = z] /\ next' = next /\ head' = head /\ magic' = magic
  BY <1>5 DEF JoinsBefore
<1>7. size' \in [Addr -> Nat] /\ size'[c] = z /\ \A x \in Addr \ {c} : size'[x] = size[x]
  BY <1>3, <1>6 DEF TypeOK
<1>8. \A b \in DOMAIN live \ {p} : b \in Addr \ {c}
  BY <1>3 DEF TypeOK
<1>9. /\ TypeOK' /\ Blocks' /\ DOMAIN live' = DOMAIN live \ {p}
      /\ \A b \in DOMAIN live \ {p} : live'[b] = live[b]
  <2>1. head' \in Addr /\ next' \in [Addr -> Addr \cup {NULL}]
    BY <1>6 DEF TypeOK
  <2>. QED  BY <1>2, <1>6, <1>7, <1>8, <2>1, FreeingKeeps
<1>10. PICK S : S = Range(L) \cup DOMAIN live
  OBVIOUS
<1>11. Tiles(S, Ends, brk) /\ c \in S /\ p \in S /\ S \subseteq Addr
  BY <1>3, <1>10 DEF Heap, Listed, TypeOK
<1>12. Ends'[c] = Ends[p]
  <2>1. c \notin DOMAIN live'
    BY <1>3, <1>9
  <2>2. Ends'[c] = c + 2 + size'[c]
    BY <1>3, <1>9, <2>1, EndsIsNext
  <2>. QED  BY <1>5, <1>7, <2>2
<1>13. \A s \in S \ {c, p} : Ends'[s] = Ends[s]
  <2>1. ASSUME NEW s \in S \ {c, p} PROVE Ends'[s] = Ends[s]
    <3>1. s \in Addr /\ (s \in DOMAIN live' <=> s \in DOMAIN live)
      BY <1>9, <1>11
    <3>. QED  BY <1>7, <1>9, <3>1, SameEnd
  <2>. QED  BY <2>1
<1>14. Tiles(Range(L) \cup DOMAIN live', Ends', brk')
  <2>1. PICK F : F = Ends'
    OBVIOUS
  <2>2. F[c] = Ends[Ends[c]] /\ Ends[c] \in S /\ \A s \in S \ {c, Ends[c]} : F[s] = Ends[s]
    BY <1>11, <1>12, <1>13, <2>1
  <2>3. Tiles(S \ {p}, F, brk)
    BY <1>11, <2>2, JoinTiles
  <2>4. S \ {p} = Range(L) \cup DOMAIN live'
    BY <1>2, <1>9, <1>10
  <2>. QED  BY <2>1, <2>3, <2>4 DEF Freeing
<1>15. PICK t : t = L[Len(L)]
  OBVIOUS
<1>16. t \in S /\ t \in Addr /\ Ends[t] = brk /\ size[t] > 0 /\ t \in Range(L)
  BY <1>1, <1>10, <1>15, NodesAre
<1>17. t # c /\ t # p
  <2>1. p < brk
    <3>1. p < Ends[p] /\ Ends[p] <= brk /\ Ends[p] \in Nat /\ brk \in Nat
      BY <1>11 DEF Tiles
    <3>. QED  BY <1>2, <3>1
  <2>. QED  BY <1>2, <1>16, <2>1
<1>18. Ends'[t] = brk' /\ size'[t] > 0
  BY <1>7, <1>13, <1>16, <1>17 DEF Freeing
<1>19. Range(L) \cap DOMAIN live' = {} /\ Range(L) \subseteq Addr
  BY <1>9 DEF Heap, Listed
<1>20. Chain(L, head', next')
  BY <1>6 DEF Heap, Listed
<1>21. Heap(L)'
  BY <1>9, <1>14, <1>15, <1>18, <1>19, <1>20, HeapAgain
<1>. QED  BY <1>9, <1>21

\* The node after the block becomes part of it, and it takes its place.
JoinsAfter(p, d, c) ==
  /\ size' = [size EXCEPT ![p] = AsNode(p) + 2 + size[d]]
  /\ next' = [next EXCEPT ![d] = NULL, ![p] = next[d], ![c] = p]
  /\ head' = head /\ magic' = magic \ {p + 1}

LEMMA JoinedAfter ==
  ASSUME TypeOK, Blocks, NEW L, Heap(L), NEW p \in DOMAIN live, Freeing(p),
         NEW i \in 1 .. Len(L) - 1, NEW c, c = L[i], NEW d, d = L[i + 1],
         Ends[p] = d, JoinsAfter(p, d, c)
  PROVE  TypeOK' /\ Blocks' /\ \E M : Heap(M)'
<1>1. /\ L \in Seq(Nat) /\ Len(L) \in Nat /\ Len(L) \in 1 .. Len(L)
      /\ \A k \in 1 .. Len(L) : /\ L[k] \in Addr /\ L[k] \in Range(L) /\ L[k] \notin DOMAIN live
                                /\ Ends[L[k]] = L[k] + 2 + size[L[k]] /\ size[L[k]] \in Nat
      /\ \A k, j \in 1 .. Len(L) : k < j => L[k] < L[j]
  BY NodesAre
<1>2. /\ p \in Addr /\ p \in Nat /\ size[p] \in Nat \ {0} /\ p \notin Range(L)
      /\ Ends[p] = p + 1 + size[p] /\ p + 1 \notin DOMAIN live /\ AsNode(p) = size[p] - 1
      /\ \A k \in 1 .. Len(L) : (L[k] < p \/ p < L[k]) /\ (p < L[k] => Ends[p] <= L[k])
  BY BlockIs
<1>3. PICK j \in 1 .. Len(L) : j = i + 1 /\ i \in 1 .. Len(L) /\ i < j /\ j - 1 = i
  BY <1>1
<1>4. /\ c \in Addr /\ d \in Addr /\ c \in Range(L) /\ d \in Range(L) /\ c < d
      /\ Ends[d] = d + 2 + size[d] /\ size[d] \in Nat /\ d \notin DOMAIN live /\ d = L[j]
  BY <1>1, <1>3
<1>5. c \in Nat /\ d \in Nat /\ c # d /\ c # p /\ d # p
  <2>1. c \in Nat /\ d \in Nat
    BY <1>4, HeapLimitAssumption DEF Addr
  <2>2. c # d
    BY <1>4, <2>1
  <2>3. c # p /\ d # p
    BY <1>2, <1>4
  <2>. QED  BY <2>1, <2>2, <2>3
<1>6. c < p /\ p < d
  <2>1. p < d
    BY <1>2, <1>5
  <2>2. ~(p < c)
    <3>1. ASSUME p < c PROVE FALSE
      <4>1. Ends[p] <= c
        BY <1>2, <1>3, <3>1
      <4>. QED  BY <1>4, <1>5, <4>1
    <3>. QED  BY <3>1
  <2>. QED  BY <1>2, <1>3, <2>1, <2>2
<1>7. PICK z \in Nat : z = AsNode(p) + 2 + size[d] /\ z > 0 /\ p + 2 + z = Ends[d]
  <2>1. PICK k \in Nat : k = size[d]
    BY <1>4
  <2>4. PICK s \in Nat \ {0} : s = size[p]
    BY <1>2
  <2>2. PICK m \in Nat : m = s - 1 /\ s = m + 1
    OBVIOUS
  <2>3. AsNode(p) + 2 + size[d] = m + 2 + k
    BY <1>2, <2>1, <2>2, <2>4
  <2>5. d = p + 1 + s /\ s = m + 1 /\ Ends[d] = d + 2 + k
    BY <1>2, <1>4, <2>1, <2>2, <2>4
  <2>6. PICK x \in Nat : x = p
    BY <1>2
  <2>7. Ends[d] = (x + 1 + (m + 1)) + 2 + k
    BY <2>5, <2>6
  <2>8. x + 2 + (m + 2 + k) = (x + 1 + (m + 1)) + 2 + k
    OBVIOUS
  <2>9. m + 2 + k > 0 /\ m + 2 + k \in Nat
    OBVIOUS
  <2>. QED  BY <2>3, <2>6, <2>7, <2>8, <2>9
<1>8. /\ size' = [size EXCEPT ![p] = z] /\ magic' = magic \ {p + 1} /\ head' = head
      /\ next' = [next EXCEPT ![d] = NULL, ![p] = next[d], ![c] = p]
  BY <1>7 DEF JoinsAfter
<1>9. size' \in [Addr -> Nat] /\ size'[p] = z /\ \A x \in Addr \ {p} : size'[x] = size[x]
  BY <1>2, <1>8 DEF TypeOK
<1>10. /\ next' \in [Addr -> Addr \cup {NULL}] /\ next'[p] = next[d] /\ next'[c] = p
       /\ \A x \in Addr \ {c, d, p} : next'[x] = next[x]
  BY <1>2, <1>4, <1>5, <1>8 DEF TypeOK
<1>11. /\ TypeOK' /\ Blocks' /\ DOMAIN live' = DOMAIN live \ {p}
       /\ \A b \in DOMAIN live \ {p} : live'[b] = live[b]
  <2>1. head' \in Addr
    BY <1>8 DEF TypeOK
  <2>2. \A b \in DOMAIN live \ {p} : b \in Addr \ {p}
    BY DEF TypeOK
  <2>. QED  BY <1>2, <1>8, <1>9, <1>10, <2>1, <2>2, FreeingKeeps
<1>12. \A k \in 1 .. Len(L) : k # i /\ k # j => L[k] \in Addr \ {c, d, p}
  <2>1. ASSUME NEW k \in 1 .. Len(L), k # i, k # j PROVE L[k] # c /\ L[k] # d
    BY <1>3, <1>4, <2>1, NodesApart
  <2>2. \A k \in 1 .. Len(L) : L[k] \in Addr /\ L[k] # p
    BY <1>1, <1>2
  <2>. QED  BY <2>1, <2>2
<1>13. PICK M : M = Replaced(L, j, p)
  OBVIOUS
<1>14. /\ Chain(M, head', next') /\ Len(M) = Len(L)
       /\ Range(M) = (Range(L) \ {d}) \cup {p}
  <2>1. Chain(L, head, next)
    BY DEF Heap, Listed
  <2>2. PICK g : g = next'
    OBVIOUS
  <2>3. j > 1 /\ L[j - 1] < p
    BY <1>3, <1>6
  <2>4. j < Len(L) => p < L[j + 1]
    <3>1. ASSUME j < Len(L) PROVE p < L[j + 1]
      <4>1. PICK k \in 1 .. Len(L) : k = j + 1 /\ j < k
        BY <1>1, <3>1
      <4>3. L[j] < L[k]
        BY <1>1, <4>1
      <4>2. d < L[k] /\ L[k] \in Nat
        BY <1>4, <4>3, NodesApart
      <4>. QED  BY <1>2, <1>5, <1>6, <4>1, <4>2
    <3>. QED  BY <3>1
  <2>5. g[p] = next[L[j]] /\ g[L[j - 1]] = p
    BY <1>3, <1>4, <1>10, <2>2
  <2>6. \A k \in 1 .. Len(L) : k # j /\ k # j - 1 => g[L[k]] = next[L[k]]
    BY <1>3, <1>10, <1>12, <2>2
  <2>7. /\ Chain(M, IF j = 1 THEN p ELSE head, g) /\ Len(M) = Len(L)
        /\ Range(M) = (Range(L) \ {L[j]}) \cup {p}
    <3>1. Swaps(L, j, p, next, g)
      BY <1>2, <2>3, <2>4, <2>5, <2>6 DEF Swaps
    <3>2. M = Replaced(L, j, p)
      BY <1>13
    <3>. QED  BY <2>1, <3>1, <3>2, SwappedChain
  <2>. QED  BY <1>4, <1>8, <2>2, <2>3, <2>7
<1>15. PICK S : S = Range(L) \cup DOMAIN live
  OBVIOUS
<1>16. Tiles(S, Ends, brk) /\ d \in S /\ p \in S /\ S \subseteq Addr
  BY <1>4, <1>15 DEF Heap, Listed, TypeOK
<1>17. Ends'[p] = Ends[d]
  <2>1. p \notin DOMAIN live'
    BY <1>11
  <2>2. Ends'[p] = p + 2 + size'[p]
    BY <1>2, <1>11, <2>1, EndsIsNext
  <2>. QED  BY <1>7, <1>9, <2>2
<1>18. \A s \in S \ {p, d} : Ends'[s] = Ends[s]
  <2>1. ASSUME NEW s \in S \ {p, d} PROVE Ends'[s] = Ends[s]
    <3>1. s \in Addr /\ (s \in DOMAIN live' <=> s \in DOMAIN live)
      BY <1>11, <1>16
    <3>. QED  BY <1>9, <1>11, <3>1, SameEnd
  <2>. QED  BY <2>1
<1>19. Tiles(Range(M) \cup DOMAIN live', Ends', brk')
  <2>1. PICK F : F = Ends'
    OBVIOUS
  <2>2. F[p] = Ends[Ends[p]] /\ Ends[p] \in S /\ \A s \in S \ {p, Ends[p]} : F[s] = Ends[s]
    BY <1>16, <1>17, <1>18, <2>1
  <2>5. Tiles(S \ {Ends[p]}, F, brk)
    BY <1>16, <2>2, JoinTiles
  <2>3. Tiles(S \ {d}, F, brk)
    BY <2>5
  <2>4. S \ {d} = Range(M) \cup DOMAIN live'
    BY <1>4, <1>5, <1>11, <1>14, <1>15
  <2>. QED  BY <2>1, <2>3, <2>4 DEF Freeing
<1>20. Ends'[M[Len(M)]] = brk' /\ size'[M[Len(M)]] > 0
  <2>1. PICK n \in 1 .. Len(L) : n = Len(L)
    BY <1>1
  <2>2. PICK t : t = L[n]
    OBVIOUS
  <2>3. t \in S /\ t \in Addr /\ Ends[t] = brk /\ size[t] > 0 /\ t \in Range(L)
    BY <1>1, <1>15, <2>1, <2>2, NodesAre
  <2>4. M[Len(M)] = IF n = j THEN p ELSE t
    BY <1>13, <1>14, <2>1, <2>2 DEF Replaced
  <2>5. CASE n = j
    BY <1>4, <1>7, <1>9, <1>17, <2>2, <2>3, <2>4, <2>5 DEF Freeing
  <2>6. CASE n # j
    <3>1. t \in Addr \ {c, d, p}
      <4>1. n # i
        BY <1>3, <2>1
      <4>. QED  BY <1>12, <2>2, <2>6, <4>1
    <3>. QED  BY <1>9, <1>18, <2>3, <2>4, <2>6, <3>1 DEF Freeing
  <2>. QED  BY <2>5, <2>6
<1>21. Range(M) \cap DOMAIN live' = {} /\ Range(M) \subseteq Addr
  BY <1>2, <1>11, <1>14 DEF Heap, Listed
<1>22. Heap(M)'
  BY <1>11, <1>14, <1>19, <1>20, <1>21, HeapAgain
<1>. QED  BY <1>11, <1>22

LEMMA JoinedKeeps ==
  ASSUME TypeOK, Blocks, NEW L, Heap(L), NEW p \in DOMAIN live, Freeing(p), FreeJoined(p)
  PROVE  TypeOK' /\ Blocks' /\ \E M : Heap(M)'
<1>1. L \in Seq(Nat) /\ Len(L) \in Nat /\ FreeList = L
  BY NodesAre, FreeListIs
<1>2. \A k \in 1 .. Len(L) : (Above(k, p) <=> Ends[L[k]] = p) /\ (Below(k, p) <=> Ends[p] = L[k])
  <2>1. PICK s \in Nat \ {0} : s = size[p] /\ Ends[p] = p + 1 + s /\ AsNode(p) = s - 1 /\ p \in Nat
    BY BlockIs
  <2>2. p + NODE_T_SIZE + AsNode(p) = Ends[p]
    BY <2>1 DEF NODE_T_SIZE
  <2>3. \A k \in 1 .. Len(L) : NodeEnd(L[k]) = Ends[L[k]]
    BY NodesAre DEF NodeEnd, NODE_T_SIZE
  <2>. QED  BY <1>1, <2>2, <2>3 DEF Above, Below
<1>3. PICK i : i = Min(Touching(p))
  OBVIOUS
<1>4. i \in 1 .. Len(L) /\ (Above(i, p) \/ (i < Len(L) /\ Below(i + 1, p)))
  <2>1. Touching(p) \in SUBSET Nat /\ Touching(p) # {}
    BY DEF Touching, FreeJoined
  <2>2. i \in Touching(p)
    BY <1>3, <2>1, MinExists
  <2>. QED  BY <1>1, <2>2 DEF Touching
<1>5. PICK c : c = L[i]
  OBVIOUS
<1>6. PICK d : d = L[i + 1]
  OBVIOUS
<1>7. Above(i, p) <=> Ends[c] = p
  BY <1>2, <1>4, <1>5
<1>8. i < Len(L) => i \in 1 .. Len(L) - 1 /\ (Below(i + 1, p) <=> Ends[p] = d)
  <2>1. i < Len(L) => i \in 1 .. Len(L) - 1 /\ i + 1 \in 1 .. Len(L)
    BY <1>1, <1>4
  <2>. QED  BY <1>2, <1>6, <2>1
<1>9. \/ Above(i, p) /\ i < Len(L) /\ Below(i + 1, p) /\ JoinsThree(c, p, d)
      \/ Above(i, p) /\ JoinsBefore(c, p)
      \/ ~Above(i, p) /\ JoinsAfter(p, d, c)
  BY <1>1, <1>3, <1>5, <1>6 DEF FreeJoined, JoinsThree, JoinsBefore, JoinsAfter, NODE_T_SIZE
<1>10. CASE Above(i, p) /\ i < Len(L) /\ Below(i + 1, p) /\ JoinsThree(c, p, d)
  BY <1>5, <1>6, <1>7, <1>8, <1>10, JoinedBoth
<1>11. CASE Above(i, p) /\ JoinsBefore(c, p)
  BY <1>4, <1>5, <1>7, <1>11, JoinedBefore
<1>12. CASE ~Above(i, p) /\ JoinsAfter(p, d, c)
  BY <1>4, <1>5, <1>6, <1>8, <1>12, JoinedAfter
<1>. QED  BY <1>9, <1>10, <1>11, <1>12

\* The end of the list is what mymalloc and myfree take it for.
LEMMA TopIs == TypeOK => \A L : Heap(L) => TopIsLast
<1>. SUFFICES ASSUME TypeOK, NEW L, Heap(L) PROVE TopIsLast
  OBVIOUS
<1>1. FreeList = L
  BY FreeListIs
<1>2. /\ Len(L) \in Nat /\ next[L[Len(L)]] = NULL
      /\ \A i, j \in 1 .. Len(L) : i < j => L[i] < L[j]
  BY NodesAre
<1>3. \A i \in 1 .. Len(L) - 1 : L[i] < L[i + 1]
  BY <1>2
<1>. QED  BY <1>1, <1>2, <1>3 DEF TopIsLast, Heap, Listed

LEMMA AbortKeepsTop ==
  ASSUME TopIsLast, head' = head, next' = next, size' = size, brk' = brk
  PROVE  TopIsLast'
<1>1. Walk' = Walk
  BY DEF Walk
<1>2. FreeList' = FreeList
  BY <1>1 DEF FreeList
<1>. QED  BY <1>2 DEF TopIsLast, NodeEnd

\* After a call the heap is what it was, or an assertion has ended the program.
LEMMA MyfreeKeeps ==
  ASSUME TypeOK, Blocks, NEW L, Heap(L), NEW p \in Addr, myfree(p)
  PROVE  /\ TypeOK' /\ Blocks' /\ brk' = brk /\ DOMAIN live' = DOMAIN live \ {p} /\ p \in DOMAIN live
         /\ \A b \in DOMAIN live' : live'[b] = live[b]
         /\ \/ outcome' = outcome /\ \E M : Heap(M)'
            \/ outcome' = "aborted" /\ head' = head /\ TopIsLast'
<1>1. /\ p \in DOMAIN live /\ brk' = brk
      /\ live' = Restrict(live, DOMAIN live \ {p})
  BY DEF myfree
<1>2. /\ DOMAIN live' = DOMAIN live \ {p}
      /\ \A b \in DOMAIN live' : live'[b] = live[b]
  BY <1>1 DEF Restrict
<1>3. CASE Release(p) /\ outcome' = outcome
  <2>1. Freeing(p)
    BY <1>1, <1>3 DEF Freeing
  <2>2. CASE FreeIntoTop(p)
    BY <1>1, <1>2, <1>3, <2>1, <2>2, FreeIntoTopKeeps
  <2>3. CASE FreeBelowTop(p) \/ FreeInserted(p)
    <3>1. PICK i : Inserted(L, i, p)
      BY <1>1, <2>3, IsInserted
    <3>. QED  BY <1>1, <1>2, <1>3, <2>1, <3>1, InsertedKeeps
  <2>4. CASE FreeJoined(p)
    BY <1>1, <1>2, <1>3, <2>1, <2>4, JoinedKeeps
  <2>. QED  BY <1>3, <2>2, <2>3, <2>4 DEF Release
<1>4. CASE AssertionFails(p) /\ Abort
  <2>1. outcome' = "aborted" /\ head' = head /\ size' = size /\ next' = next /\ magic' = magic
    BY <1>4 DEF Abort
  <2>2. TopIsLast'
    BY <1>1, <2>1, TopIs, AbortKeepsTop
  <2>3. TypeOK'
    BY <1>1, <1>2, <2>1 DEF TypeOK
  <2>4. Blocks'
    BY <1>2, <2>1 DEF Blocks
  <2>. QED  BY <1>1, <1>2, <2>1, <2>2, <2>3, <2>4
<1>. QED  BY <1>3, <1>4 DEF myfree

\* The node mymalloc chooses is one of the list, and only the last of it is
\* taken when it does not fit.
LEMMA FirstFitIs ==
  ASSUME TypeOK, NEW L, Heap(L), NEW n
  PROVE  /\ FirstFit(n) \in 1 .. Len(L)
         /\ FirstFit(n) = Len(L) \/ Fits(size[L[FirstFit(n)]], n)
         /\ (FirstFit(n) = Len(L)) => \A k \in 1 .. Len(L) - 1 : ~Fits(size[L[k]], n)
<1>1. Len(L) \in Nat /\ Len(L) \in 1 .. Len(L) /\ FreeList = L
  BY NodesAre, FreeListIs
<1>2. PICK F : F = {i \in 1 .. Len(L) - 1 : Fits(size[L[i]], n)}
  OBVIOUS
<1>3. FirstFit(n) = IF F = {} THEN Len(L) ELSE Min(F)
  BY <1>1, <1>2 DEF FirstFit
<1>4. F # {} => Min(F) \in F
  <2>1. F \in SUBSET Nat
    BY <1>2
  <2>. QED  BY <2>1, MinExists
<1>5. CASE F = {}
  BY <1>1, <1>2, <1>3, <1>5
<1>6. CASE F # {}
  <2>1. FirstFit(n) \in F
    BY <1>3, <1>4, <1>6
  <2>. QED  BY <1>1, <1>2, <2>1
<1>. QED  BY <1>5, <1>6

LEMMA BestFitIs ==
  ASSUME TypeOK, NEW L, Heap(L), NEW n
  PROVE  /\ BestFit(n) \in 1 .. Len(L)
         /\ BestFit(n) = Len(L) \/ Fits(size[L[BestFit(n)]], n)
         /\ (BestFit(n) = Len(L)) => \/ Fits(size[L[Len(L)]], n)
                                     \/ \A k \in 1 .. Len(L) - 1 : ~Fits(size[L[k]], n)
<1>1. /\ Len(L) \in Nat /\ Len(L) \in 1 .. Len(L) /\ FreeList = L
      /\ \A k \in 1 .. Len(L) : size[L[k]] \in Nat
  BY NodesAre, FreeListIs
<1>2. PICK F : F = {i \in 1 .. Len(L) - 1 : Fits(size[L[i]], n)}
  OBVIOUS
<1>3. PICK S : S = {i \in F : \A j \in F : size[L[i]] <= size[L[j]]}
  OBVIOUS
<1>4. BestFit(n) = IF F = {} THEN Len(L)
                   ELSE IF size[L[Len(L)]] < size[L[Min(S)]] /\ Fits(size[L[Len(L)]], n)
                        THEN Len(L) ELSE Min(S)
  BY <1>1, <1>2, <1>3 DEF BestFit
<1>5. F # {} => Min(S) \in F
  <2>1. ASSUME F # {} PROVE S # {}
    <3>. DEFINE sizes == {size[L[i]] : i \in F}
    <3>1. sizes \in SUBSET Nat /\ sizes # {}
      BY <1>1, <1>2, <2>1
    <3>2. PICK m : m = Min(sizes)
      OBVIOUS
    <3>3. m \in sizes /\ \A k \in sizes : m <= k
      <4>. HIDE DEF sizes
      <4>. QED  BY <3>1, <3>2, MinExists
    <3>4. PICK i \in F : size[L[i]] = m
      BY <3>3
    <3>5. \A j \in F : m <= size[L[j]]
      BY <3>3
    <3>. HIDE DEF sizes
    <3>. QED  BY <1>3, <3>4, <3>5
  <2>2. S \in SUBSET Nat /\ S \subseteq F
    BY <1>2, <1>3
  <2>. QED  BY <2>1, <2>2, MinExists
<1>6. CASE F = {}
  BY <1>1, <1>2, <1>4, <1>6
<1>7. CASE F # {} /\ size[L[Len(L)]] < size[L[Min(S)]] /\ Fits(size[L[Len(L)]], n)
  BY <1>1, <1>4, <1>7
<1>8. CASE F # {} /\ ~(size[L[Len(L)]] < size[L[Min(S)]] /\ Fits(size[L[Len(L)]], n))
  <2>1. BestFit(n) \in F
    BY <1>4, <1>5, <1>8
  <2>. QED  BY <1>1, <1>2, <2>1
<1>. QED  BY <1>6, <1>7, <1>8

\* A call that is served leaves a heap.
LEMMA ServedIs ==
  ASSUME TypeOK, NEW L, Heap(L), NEW r \in Request, NEW i \in 1 .. Len(L),
         i = Len(L) \/ Fits(size[L[i]], Words(r)),
         HandsOut(L[i], r), Carve(i, GrownSize(L[i], Words(r)), Words(r))
  PROVE  /\ Grant(L[i], Words(r)) \in Nat
         /\ Served(L, i, Grant(L[i], Words(r)), r)
         /\ brk' > brk => ~Fits(size[L[i]], Words(r))
<1>1. FreeList = L /\ L[i] \in Addr
  BY NodesAre, FreeListIs
<1>2. PICK a \in Addr : a = L[i]
  BY <1>1
<1>3. PICK n \in Nat : n = Words(r)
  BY WordsIs
<1>4. PICK g : g = Grant(a, n)
  OBVIOUS
<1>5. Enough(a, n) # {} /\ brk' = brk + g
  BY <1>2, <1>3, <1>4 DEF HandsOut, Grant
<1>6. /\ g \in Nat /\ brk + g <= HeapLimit /\ Fits(size[a] + g, n)
      /\ Fits(size[a], n) <=> g = 0
  BY <1>2, <1>3, <1>4, <1>5, GrantIs
<1>7. GrownSize(a, n) = size[a] + g
  BY <1>4 DEF GrownSize, Grant
<1>8. i = Len(L) \/ g = 0
  BY <1>2, <1>3, <1>6
<1>9. Served(L, i, g, r)
  BY <1>1, <1>2, <1>3, <1>5, <1>6, <1>7, <1>8 DEF Served, HandsOut
<1>10. brk' > brk => ~Fits(size[a], n)
  <2>1. brk \in Nat
    BY HeapLimitAssumption DEF TypeOK, Addr
  <2>. QED  BY <1>5, <1>6, <2>1
<1>. QED  BY <1>2, <1>3, <1>4, <1>6, <1>9, <1>10

\* A block for r at a: new, below the end of the heap, and short of the next.
NewBlock(a, r) ==
  /\ a \in Addr /\ a \notin DOMAIN live
  /\ live' = [b \in DOMAIN live \cup {a} |->
                IF b = a THEN [asked |-> r, words |-> Words(r)] ELSE live[b]]
  /\ brk <= brk' /\ brk' <= HeapLimit /\ a + Words(r) < brk'
  /\ \A b \in DOMAIN live :
       (a < b => a + Words(r) < b) /\ (b < a => b + live[b].words < a)

LEMMA ServedIsNew ==
  ASSUME TypeOK, NEW L, Heap(L), NEW r \in Request, NEW i \in 1 .. Len(L), NEW g \in Nat,
         i = Len(L) \/ g = 0, Fits(size[L[i]] + g, Words(r)), brk' = brk + g, brk + g <= HeapLimit,
         live' = [b \in DOMAIN live \cup {L[i]} |->
                    IF b = L[i] THEN [asked |-> r, words |-> Words(r)] ELSE live[b]]
  PROVE  NewBlock(L[i], r)
<1>1. PICK a \in Addr : a = L[i]
  BY NodesAre
<1>2. a \in Nat /\ a \notin DOMAIN live /\ a \in Range(L) /\ Ends[a] = a + 2 + size[a] /\ size[a] \in Nat
  BY <1>1, NodesAre, HeapLimitAssumption DEF Addr
<1>3. PICK n \in Nat : n = Words(r)
  BY WordsIs
<1>4. PICK z \in Nat : z = size[a]
  BY <1>2
<1>5. n + 1 < z + g
  BY <1>1, <1>3, <1>4 DEF Fits, HEADER_T_SIZE
<1>6. PICK S : S = Range(L) \cup DOMAIN live
  OBVIOUS
<1>7. Tiles(S, Ends, brk) /\ a \in S /\ S \subseteq Addr
  BY <1>2, <1>6 DEF Heap, Listed, TypeOK
<1>8. PICK top \in Nat : top = brk
  BY <1>7 DEF Tiles
<1>9. Ends[a] <= top /\ Ends[a] = a + 2 + z
  BY <1>2, <1>4, <1>7, <1>8 DEF Tiles
<1>10. a + n < top + g
  BY <1>2, <1>5, <1>9
<1>11. ASSUME NEW b \in DOMAIN live, a < b PROVE a + n < b
  <2>1. Ends[a] <= b /\ b < top /\ b \in Nat
    BY <1>6, <1>7, <1>8, <1>11 DEF Tiles
  <2>2. CASE g = 0
    BY <1>2, <1>5, <1>9, <2>1, <2>2
  <2>3. CASE i = Len(L)
    <3>1. Ends[a] = top
      BY <1>1, <1>8, <2>3, NodesAre
    <3>. QED  BY <1>8, <2>1, <3>1
  <2>. QED  BY <2>2, <2>3
<1>12. brk <= brk' /\ brk' <= HeapLimit
  BY <1>8
<1>13. ASSUME NEW b \in DOMAIN live, b < a PROVE b + live[b].words < a
  <2>1. b \in S /\ b \in Addr
    BY <1>6, <1>7
  <2>2. b \in Nat /\ Ends[b] = b + 1 + live[b].words
    BY <2>1, EndsIs
  <2>3. Ends[b] <= a
    BY <1>7, <1>13, <2>1 DEF Tiles
  <2>4. live[b].words \in Nat
    BY DEF TypeOK
  <2>. QED  BY <1>2, <2>2, <2>3, <2>4
<1>. QED  BY <1>1, <1>2, <1>3, <1>8, <1>10, <1>11, <1>12, <1>13 DEF NewBlock

\* Best fit from the head of a longer list: the headers stay as they should.
LEMMA LostKeeps ==
  ASSUME TypeOK, Blocks, NEW L, Heap(L), NEW r \in Request, Len(L) > 1,
         Fits(size[L[1]], Words(r)), HandsOut(L[1], r), CarveBest(1, Words(r))
  PROVE  /\ TypeOK' /\ Blocks' /\ head' = head /\ head \in DOMAIN live' /\ outcome' = outcome
         /\ NewBlock(L[1], r) /\ brk' = brk
<1>1. /\ L \in Seq(Nat) /\ Len(L) \in Nat /\ FreeList = L /\ 1 \in 1 .. Len(L) /\ L[1] = head
      /\ head \in Addr /\ head \notin DOMAIN live /\ head \in Range(L)
      /\ Ends[head] = head + 2 + size[head]
  <2>1. Len(L) \in Nat /\ FreeList = L /\ L[1] = head /\ L \in Seq(Nat)
    BY NodesAre, FreeListIs
  <2>2. PICK k \in 1 .. Len(L) : k = 1
    BY <2>1
  <2>. QED  BY <2>1, <2>2, NodesAre
<1>2. PICK n \in Nat \ {0} : n = Words(r)
  BY WordsIs
<1>3. PICK a \in Nat : a = head /\ a \in Addr
  BY <1>1, HeapLimitAssumption DEF Addr
<1>4. PICK z \in Nat : z = size[a]
  BY <1>3 DEF TypeOK
<1>5. n + 1 < z
  BY <1>1, <1>2, <1>3, <1>4 DEF Fits, HEADER_T_SIZE
<1>6. /\ brk' = brk /\ brk \in Nat /\ brk <= HeapLimit /\ outcome' = outcome
      /\ live' = [b \in DOMAIN live \cup {a} |->
                    IF b = a THEN [asked |-> r, words |-> n] ELSE live[b]]
  <2>1. Grant(a, n) = 0
    <3>1. Enough(a, n) # {} /\ Fits(size[a], n)
      BY <1>1, <1>2, <1>3 DEF HandsOut
    <3>. QED  BY <1>3, <3>1, GrantIs
  <2>2. brk' = brk + Grant(a, n)
    BY <1>1, <1>2, <1>3 DEF HandsOut, Grant
  <2>3. brk \in Nat /\ brk <= HeapLimit
    BY HeapLimitAssumption DEF TypeOK, Addr
  <2>. QED  BY <1>1, <1>2, <1>3, <2>1, <2>2, <2>3 DEF HandsOut
<1>7. NewBlock(L[1], r)
  <2>1. PICK g \in Nat : g = 0
    OBVIOUS
  <2>2. Fits(size[L[1]] + g, Words(r)) /\ brk' = brk + g /\ brk + g <= HeapLimit
    <3>1. size[L[1]] + g = size[L[1]] /\ brk + g = brk
      BY <1>1, <1>3, <1>4, <1>6, <2>1
    <3>. QED  BY <1>6, <3>1
  <2>3. live' = [b \in DOMAIN live \cup {L[1]} |->
                    IF b = L[1] THEN [asked |-> r, words |-> Words(r)] ELSE live[b]]
    BY <1>1, <1>2, <1>3, <1>6
  <2>. QED  BY <1>1, <2>1, <2>2, <2>3, ServedIsNew
<1>8. PICK rest \in Nat : rest = a + 1 + n
  BY <1>3
<1>9. /\ size' = [size EXCEPT ![a] = n, ![rest] = Remainder(size[a], n)]
      /\ magic' = (magic \cup {a}) \ {a + 1, rest + 1}
      /\ next' = [next EXCEPT ![a] = rest, ![rest] = next[a]]
      /\ head' = head
  BY <1>1, <1>2, <1>3, <1>8 DEF CarveBest, HEADER_T_SIZE
<1>10. PICK m \in Nat : m = Remainder(size[a], n)
  BY <1>4, <1>5 DEF Remainder, HEADER_T_SIZE
<1>11. PICK S : S = Range(L) \cup DOMAIN live
  OBVIOUS
<1>12. Tiles(S, Ends, brk) /\ a \in S /\ S \subseteq Addr
  BY <1>1, <1>3, <1>11 DEF Heap, Listed, TypeOK
<1>13. Ends[a] = a + 2 + z /\ Ends[a] <= brk
  BY <1>1, <1>3, <1>4, <1>12 DEF Tiles
<1>14. rest \in Addr /\ rest # a
  BY <1>2, <1>3, <1>5, <1>6, <1>8, <1>13, HeapLimitAssumption DEF Addr
<1>15. ASSUME NEW b \in DOMAIN live PROVE b # a /\ b # a + 1 /\ b # rest /\ b # rest + 1
  <2>1. b \in S /\ b \in Nat /\ b # a
    BY <1>1, <1>3, <1>11, <1>12 DEF Tiles
  <2>2. a < b => Ends[a] <= b
    BY <1>12, <2>1 DEF Tiles
  <2>. QED  BY <1>2, <1>3, <1>5, <1>8, <1>13, <2>1, <2>2
<1>16. DOMAIN live' = DOMAIN live \cup {a} /\ live'[a] = [asked |-> r, words |-> n]
       /\ \A b \in DOMAIN live : live'[b] = live[b]
  BY <1>6, <1>15
<1>17. size' \in [Addr -> Nat] /\ size'[a] = n /\ \A x \in Addr \ {a, rest} : size'[x] = size[x]
  <2>1. size' = [size EXCEPT ![a] = n, ![rest] = m]
    BY <1>9, <1>10
  <2>. QED  BY <1>3, <1>14, <2>1 DEF TypeOK
<1>18. TypeOK'
  <2>1. next' \in [Addr -> Addr \cup {NULL}]
    BY <1>3, <1>9, <1>14 DEF TypeOK
  <2>2. a # a + 1 /\ a # rest + 1
    BY <1>3, <1>8
  <2>3. magic' \subseteq Addr /\ DOMAIN live' \subseteq magic'
    BY <1>3, <1>9, <1>15, <1>16, <2>2 DEF TypeOK
  <2>4. \A b \in DOMAIN live' : live'[b] \in [asked : Request, words : Nat \ {0}]
    BY <1>16 DEF TypeOK
  <2>. QED  BY <1>6, <1>9, <1>17, <2>1, <2>3, <2>4 DEF TypeOK
<1>19. Blocks'
  <2>1. ASSUME NEW b \in DOMAIN live PROVE live'[b] = live[b] /\ size'[b] = size[b]
    BY <1>15, <1>16, <1>17 DEF TypeOK
  <2>2. live'[a].asked = r /\ live'[a].words = n /\ size'[a] = n
    BY <1>16, <1>17
  <2>3. r + 7 < UIntMod => r <= 8 * n
    BY <1>2, WordsIs
  <2>. QED  BY <1>16, <2>1, <2>2, <2>3 DEF Blocks
<1>. QED  BY <1>3, <1>6, <1>7, <1>9, <1>16, <1>18, <1>19

----------------------------------------------------------------------------
(* The steps of the free lists                                             *)

\* What a call does to the blocks and the end of the heap.
Moves ==
  \/ \E a \in Addr, r \in Request :
       NewBlock(a, r) /\ (brk' > brk => Serving(Words(r)) = {})
  \/ live' = live /\ brk <= brk' /\ brk' <= HeapLimit
  \/ \E p \in DOMAIN live :
       live' = Restrict(live, DOMAIN live \ {p}) /\ brk' = brk

\* A call leaves a heap, its head no longer where it was only if it was the
\* one node; or ends the program; or, of the best fit, hands out the head.
Leaves(L) ==
  \/ /\ outcome' = "ok" /\ \E M : Heap(M)'
     /\ linked = "best_fit" => Len(L) = 1 \/ head \notin DOMAIN live'
  \/ outcome' = "aborted" /\ head' = head /\ head \notin DOMAIN live' /\ TopIsLast'
  \/ /\ linked = "best_fit" /\ Len(L) > 1
     /\ outcome' = "ok" /\ head' = head /\ head \in DOMAIN live'

\* A block carved by the book.
LEMMA CarvedStep ==
  ASSUME TypeOK, Blocks, outcome = "ok", ~OneList, NEW L, Heap(L),
         NEW r \in Request, NEW i \in 1 .. Len(L),
         i = Len(L) \/ Fits(size[L[i]], Words(r)),
         i = Len(L) => \/ Fits(size[L[i]], Words(r))
                       \/ \A k \in 1 .. Len(L) - 1 : ~Fits(size[L[k]], Words(r)),
         HandsOut(L[i], r), Carve(i, GrownSize(L[i], Words(r)), Words(r)),
         linked = "best_fit" => ~(i = 1 /\ Len(L) > 1)
  PROVE  TypeOK' /\ Blocks' /\ Moves /\ Leaves(L)
<1>1. /\ Grant(L[i], Words(r)) \in Nat
      /\ Served(L, i, Grant(L[i], Words(r)), r)
      /\ brk' > brk => ~Fits(size[L[i]], Words(r))
  BY ServedIs
<1>2. PICK g \in Nat : Served(L, i, g, r)
  BY <1>1
<1>3. TypeOK' /\ Blocks' /\ \E M : Heap(M)'
  BY <1>2, CarveKeeps
<1>4. NewBlock(L[i], r)
  BY <1>2, ServedIsNew DEF Served
<1>5. outcome' = "ok"
  BY DEF HandsOut
<1>6. /\ FreeList = L /\ L \in Seq(Nat) /\ Len(L) \in Nat /\ L[1] = head
      /\ \A k \in 1 .. Len(L) : L[k] \in Addr /\ L[k] \notin DOMAIN live
      /\ \A k, j \in 1 .. Len(L) : k < j => L[k] < L[j]
  BY NodesAre, FreeListIs
<1>7. brk' > brk => Serving(Words(r)) = {}
  <2>1. ASSUME brk' > brk, NEW a \in FreeNodes, Fits(size[a], Words(r)) PROVE FALSE
    <3>1. PICK k \in 1 .. Len(L) : a = L[k]
      BY <1>6, RangeIs DEF FreeNodes
    <3>2. ~Fits(size[L[i]], Words(r))
      BY <1>1, <2>1
    <3>3. k \in 1 .. Len(L) - 1
      BY <1>6, <2>1, <3>1, <3>2
    <3>. QED  BY <2>1, <3>1, <3>2, <3>3
  <2>. QED  BY <2>1 DEF Serving
<1>8. Moves
  BY <1>4, <1>6, <1>7 DEF Moves
<1>9. i # 1 => head \notin DOMAIN live'
  <2>1. ASSUME i # 1 PROVE head \notin DOMAIN live'
    <3>1. PICK k \in 1 .. Len(L) : k = 1
      BY <1>6
    <3>2. head \notin DOMAIN live /\ head < L[i] /\ head \in Nat /\ L[i] \in Nat
      BY <1>6, <2>1, <3>1
    <3>3. DOMAIN live' = DOMAIN live \cup {L[i]}
      BY <1>4 DEF NewBlock
    <3>. QED  BY <3>2, <3>3
  <2>. QED  BY <2>1
<1>10. Leaves(L)
  <2>1. ASSUME linked = "best_fit", i = 1 PROVE Len(L) = 1
    <3>1. PICK n \in Nat : n = Len(L) /\ n >= 1
      BY <1>6
    <3>2. ~(n > 1)
      BY <2>1, <3>1
    <3>. QED  BY <3>1, <3>2
  <2>. QED  BY <1>3, <1>5, <1>9, <2>1 DEF Leaves
<1>. QED  BY <1>3, <1>8, <1>10

\* A node that fits needs no sbrk.
LEMMA FitsNow ==
  ASSUME TypeOK, NEW a \in Addr, NEW n, Fits(size[a], n)
  PROVE  Enough(a, n) # {}
<1>1. size[a] + 0 * Chunk = size[a] /\ 0 \in 0 .. MostChunks
  <2>1. MostChunks \in Nat
    BY HeapLimitAssumption, ChunkAssumption DEF MostChunks, TypeOK, Addr
  <2>. QED  BY <2>1, ChunkAssumption DEF TypeOK
<1>. QED  BY <1>1 DEF Enough

\* The calls that are the same for both allocators.
LEMMA OtherStep ==
  ASSUME TypeOK, Blocks, outcome = "ok", NEW L, Heap(L), NEW n \in Nat,
         \/ CannotGrow(L[Len(L)], n)
         \/ \E p \in Addr : myfree(p) \/ myfreeRefuses(p)
         \/ Dead
  PROVE  TypeOK' /\ Blocks' /\ Moves /\ Leaves(L)
<1>1. /\ L \in Seq(Nat) /\ Len(L) \in Nat /\ L[1] = head /\ head \notin DOMAIN live
      /\ brk \in Nat /\ brk <= HeapLimit
  <2>1. L \in Seq(Nat) /\ Len(L) \in 1 .. Len(L) /\ L[1] = head
    BY NodesAre
  <2>2. Len(L) \in Nat /\ 1 \in 1 .. Len(L)
    BY <2>1
  <2>3. L[1] \notin DOMAIN live
    BY <2>2, NodesAre
  <2>4. brk \in Nat /\ brk <= HeapLimit
    BY HeapLimitAssumption DEF TypeOK, Addr
  <2>. QED  BY <2>1, <2>2, <2>3, <2>4
<1>2. CASE CannotGrow(L[Len(L)], n)
  <2>1. TypeOK' /\ Blocks' /\ Heap(L)'
    BY <1>2, CannotGrowKeeps
  <2>2. live' = live /\ outcome' = outcome /\ brk' = brk + MostChunks * Chunk
    BY <1>2 DEF CannotGrow
  <2>3. MostChunks * Chunk \in Nat /\ brk + MostChunks * Chunk <= HeapLimit
    BY GrantIs
  <2>4. brk <= brk' /\ brk' <= HeapLimit
    BY <1>1, <2>2, <2>3
  <2>. QED  BY <1>1, <2>1, <2>2, <2>4 DEF Moves, Leaves
<1>3. ASSUME NEW p \in Addr, myfree(p)
      PROVE  TypeOK' /\ Blocks' /\ Moves /\ Leaves(L)
  <2>1. /\ TypeOK' /\ Blocks' /\ brk' = brk /\ DOMAIN live' = DOMAIN live \ {p} /\ p \in DOMAIN live
        /\ \/ outcome' = outcome /\ \E M : Heap(M)'
           \/ outcome' = "aborted" /\ head' = head /\ TopIsLast'
    BY <1>3, MyfreeKeeps
  <2>2. live' = Restrict(live, DOMAIN live \ {p})
    BY <1>3 DEF myfree
  <2>. QED  BY <1>1, <2>1, <2>2 DEF Moves, Leaves
<1>4. ASSUME NEW p \in Addr, myfreeRefuses(p)
      PROVE  TypeOK' /\ Blocks' /\ Moves /\ Leaves(L)
  <2>1. /\ head' = head /\ brk' = brk /\ size' = size /\ next' = next /\ magic' = magic
        /\ live' = live /\ outcome' = outcome
    BY <1>4 DEF myfreeRefuses, heapvars
  <2>2. TypeOK'
    BY <2>1 DEF TypeOK
  <2>3. Blocks'
    BY <2>1 DEF Blocks
  <2>4. Heap(L)'
    <3>1. Ends' = Ends
      BY <2>1 DEF Ends, BlockEnd, NodeEnd
    <3>. QED  BY <2>1, <3>1 DEF Heap, Listed, NodeEnd
  <2>. QED  BY <1>1, <2>1, <2>2, <2>3, <2>4 DEF Moves, Leaves
<1>. QED  BY <1>2, <1>3, <1>4 DEF Dead, Running

LEMMA FirstFitStep ==
  ASSUME TypeOK, Blocks, outcome = "ok", linked = "first_fit", NEW L, Heap(L), HeapNext
  PROVE  TypeOK' /\ Blocks' /\ Moves /\ Leaves(L)
<1>1. FreeList = L /\ ~OneList
  BY FreeListIs DEF OneList
<1>3. ASSUME NEW r \in Request, mymalloc(r)
      PROVE  TypeOK' /\ Blocks' /\ Moves /\ Leaves(L)
  <2>1. PICK i \in 1 .. Len(L) :
          /\ i = FirstFit(Words(r)) /\ (i = Len(L) \/ Fits(size[L[i]], Words(r)))
          /\ (i = Len(L)) => \A k \in 1 .. Len(L) - 1 : ~Fits(size[L[k]], Words(r))
    BY FirstFitIs
  <2>2. HandsOut(L[i], r) /\ Carve(i, GrownSize(L[i], Words(r)), Words(r))
    BY <1>1, <1>3, <2>1 DEF mymalloc
  <2>. QED  BY <1>1, <2>1, <2>2, CarvedStep
<1>4. ASSUME NEW r \in Request, mymallocFails(r)
      PROVE  TypeOK' /\ Blocks' /\ Moves /\ Leaves(L)
  <2>1. PICK i \in 1 .. Len(L) :
          i = FirstFit(Words(r)) /\ (i = Len(L) \/ Fits(size[L[i]], Words(r)))
    BY FirstFitIs
  <2>2. CannotGrow(L[i], Words(r)) /\ L[i] \in Addr
    BY <1>1, <1>4, <2>1, NodesAre DEF mymallocFails
  <2>3. i = Len(L)
    BY <2>1, <2>2, FitsNow DEF CannotGrow
  <2>. QED  BY <2>2, <2>3, WordsIs, OtherStep
<1>5. CASE (\E p \in Addr : myfree(p) \/ myfreeRefuses(p)) \/ Dead
  BY <1>5, OtherStep
<1>. QED  BY <1>3, <1>4, <1>5 DEF HeapNext

LEMMA BestFitStep ==
  ASSUME TypeOK, Blocks, outcome = "ok", linked = "best_fit", NEW L, Heap(L), BestFitNext
  PROVE  TypeOK' /\ Blocks' /\ Moves /\ Leaves(L)
<1>1. FreeList = L /\ ~OneList
  BY FreeListIs DEF OneList
<1>2. ASSUME NEW r \in Request, bestmalloc(r)
      PROVE  TypeOK' /\ Blocks' /\ Moves /\ Leaves(L)
  <2>1. PICK i \in 1 .. Len(L) :
          /\ i = BestFit(Words(r)) /\ (i = Len(L) \/ Fits(size[L[i]], Words(r)))
          /\ (i = Len(L)) => \/ Fits(size[L[Len(L)]], Words(r))
                             \/ \A k \in 1 .. Len(L) - 1 : ~Fits(size[L[k]], Words(r))
    BY BestFitIs
  <2>2. HandsOut(L[i], r) /\ CarveBest(i, Words(r))
    BY <1>1, <1>2, <2>1 DEF bestmalloc
  <2>3. CASE i = 1 /\ Len(L) > 1
    <3>1. Fits(size[L[1]], Words(r)) /\ HandsOut(L[1], r) /\ CarveBest(1, Words(r))
      BY <2>1, <2>2, <2>3
    <3>2. /\ TypeOK' /\ Blocks' /\ head' = head /\ head \in DOMAIN live' /\ outcome' = outcome
          /\ NewBlock(L[1], r) /\ brk' = brk
      BY <2>3, <3>1, LostKeeps
    <3>3. L[1] \in Addr /\ ~(brk' > brk)
      BY <2>3, <3>2, HeapLimitAssumption DEF NewBlock, TypeOK, Addr
    <3>. QED  BY <2>3, <3>2, <3>3 DEF Moves, Leaves
  <2>4. CASE ~(i = 1 /\ Len(L) > 1)
    <3>1. Carve(i, GrownSize(L[i], Words(r)), Words(r))
      BY <1>1, <2>2, <2>4 DEF CarveBest
    <3>. QED  BY <1>1, <2>1, <2>2, <2>4, <3>1, CarvedStep
  <2>. QED  BY <2>3, <2>4
<1>3. ASSUME NEW r \in Request, bestmallocFails(r)
      PROVE  TypeOK' /\ Blocks' /\ Moves /\ Leaves(L)
  <2>1. PICK i \in 1 .. Len(L) :
          i = BestFit(Words(r)) /\ (i = Len(L) \/ Fits(size[L[i]], Words(r)))
    BY BestFitIs
  <2>2. CannotGrow(L[i], Words(r)) /\ L[i] \in Addr
    BY <1>1, <1>3, <2>1, NodesAre DEF bestmallocFails
  <2>3. i = Len(L)
    BY <2>1, <2>2, FitsNow DEF CannotGrow
  <2>. QED  BY <2>2, <2>3, WordsIs, OtherStep
<1>4. CASE (\E p \in Addr : myfree(p) \/ myfreeRefuses(p)) \/ Dead
  BY <1>4, OtherStep
<1>. QED  BY <1>2, <1>3, <1>4 DEF BestFitNext

----------------------------------------------------------------------------
(* The invariant of the free lists                                         *)

FreeInv ==
  /\ TypeOK /\ Blocks
  /\ \/ outcome = "ok" /\ \E L : Heap(L)
     \/ outcome = "aborted" /\ head \notin DOMAIN live /\ TopIsLast
     \/ outcome = "ok" /\ linked = "best_fit" /\ head \in DOMAIN live

\* The first chunk is one node.
LEMMA FreeInit == HeapInit => FreeInv
<1>. SUFFICES ASSUME HeapInit PROVE FreeInv
  OBVIOUS
<1>1. /\ head = 0 /\ brk = Chunk /\ next = [a \in Addr |-> NULL] /\ magic = {}
      /\ size = [a \in Addr |-> IF a = 0 THEN Chunk - NODE_T_SIZE ELSE 0]
      /\ live = <<>> /\ DOMAIN live = {} /\ outcome = "ok"
  BY DEF HeapInit
<1>2. Chunk \in Nat /\ Chunk > 2 /\ HeapLimit \in Nat /\ Chunk <= HeapLimit /\ 0 \in Addr
      /\ Chunk - NODE_T_SIZE \in Nat /\ Chunk - NODE_T_SIZE > 0
  BY ChunkAssumption, HeapLimitAssumption DEF Addr, NODE_T_SIZE
<1>3. TypeOK
  <2>1. brk \in Addr \cup {HeapLimit}
    BY <1>1, <1>2 DEF Addr
  <2>2. size \in [Addr -> Nat]
    BY <1>1, <1>2
  <2>3. next \in [Addr -> Addr \cup {NULL}]
    BY <1>1
  <2>. QED  BY <1>1, <1>2, <2>1, <2>2, <2>3 DEF TypeOK
<1>4. Blocks
  BY <1>1 DEF Blocks
<1>5. PICK L : L = <<0>>
  OBVIOUS
<1>6. L \in Seq(Nat) /\ Len(L) = 1 /\ L[1] = 0 /\ Range(L) = {0}
  <2>1. L \in Seq(Nat) /\ Len(L) = 1 /\ L[1] = 0
    BY <1>5
  <2>. QED  BY <2>1 DEF Range
<1>7. Chain(L, head, next)
  <2>1. \A i, j \in 1 .. Len(L) : ~(i < j)
    BY <1>6
  <2>. QED  BY <1>1, <1>2, <1>6, <2>1 DEF Chain
<1>8. Ends[0] = brk /\ size[0] > 0 /\ NodeEnd(0) = brk
  <2>1. size[0] = Chunk - NODE_T_SIZE
    BY <1>1, <1>2
  <2>2. NodeEnd(0) = Chunk
    BY <1>2, <2>1 DEF NodeEnd, NODE_T_SIZE
  <2>. QED  BY <1>1, <1>2, <2>1, <2>2 DEF Ends
<1>9. Tiles({0}, Ends, brk)
  BY <1>1, <1>2, <1>8 DEF Tiles
<1>10. Heap(L)
  BY <1>1, <1>2, <1>6, <1>7, <1>8, <1>9 DEF Heap, Listed
<1>. QED  BY <1>1, <1>3, <1>4, <1>10 DEF FreeInv

LEMMA FreeStep ==
  ASSUME FreeInv, linked \in {"first_fit", "best_fit"}, [AllocNext]_allocvars
  PROVE  /\ FreeInv' /\ linked' = linked
         /\ Moves \/ (live' = live /\ brk' = brk)
         /\ head \notin DOMAIN live =>
              (head' \in DOMAIN live' <=> /\ linked = "best_fit" /\ Len(FreeList) > 1
                                         /\ head \in DOMAIN live')
<1>1. CASE UNCHANGED allocvars
  <2>1. /\ head' = head /\ brk' = brk /\ size' = size /\ next' = next /\ magic' = magic
        /\ live' = live /\ outcome' = outcome /\ linked' = linked
    BY <1>1 DEF allocvars, heapvars
  <2>2. TypeOK' /\ Blocks'
    BY <2>1 DEF FreeInv, TypeOK, Blocks
  <2>3. Ends' = Ends
    BY <2>1 DEF Ends, BlockEnd, NodeEnd
  <2>4. \A L : Heap(L) => Heap(L)'
    BY <2>1, <2>3 DEF Heap, Listed, NodeEnd
  <2>5. TopIsLast => TopIsLast'
    BY <2>1, AbortKeepsTop
  <2>. QED  BY <2>1, <2>2, <2>4, <2>5 DEF FreeInv
<1>2. CASE outcome = "ok" /\ (\E L : Heap(L)) /\ ~UNCHANGED allocvars
  <2>1. PICK L : Heap(L)
    BY <1>2
  <2>2. TypeOK /\ Blocks
    BY DEF FreeInv
  <2>3. \/ linked = "first_fit" /\ HeapNext /\ linked' = linked
        \/ linked = "best_fit" /\ BestFitNext /\ linked' = linked
    BY <1>2 DEF AllocNext
  <2>4. TypeOK' /\ Blocks' /\ Moves /\ Leaves(L) /\ linked' = linked
    BY <1>2, <2>1, <2>2, <2>3, FirstFitStep, BestFitStep
  <2>5. FreeList = L /\ Len(L) \in 1 .. Len(L)
    BY <2>1, <2>2, FreeListIs, NodesAre
  <2>6. ASSUME NEW M, Heap(M)' PROVE head' \notin DOMAIN live'
    <3>1. M \in Seq(Nat) /\ Len(M) > 0 /\ M[1] = head' /\ Range(M) \cap DOMAIN live' = {}
      BY <2>6 DEF Heap, Listed, Chain
    <3>2. head' \in Range(M)
      BY <3>1, RangeIs
    <3>. QED  BY <3>1, <3>2
  <2>7. FreeInv'
    BY <2>4 DEF Leaves, FreeInv
  <2>8. head' \in DOMAIN live' <=> linked = "best_fit" /\ Len(L) > 1 /\ head \in DOMAIN live'
    <3>1. CASE head' \in DOMAIN live'
      <4>1. ~(\E M : Heap(M)')
        BY <2>6, <3>1
      <4>. QED  BY <2>4, <3>1, <4>1 DEF Leaves
    <3>2. CASE head' \notin DOMAIN live'
      <4>1. linked = "best_fit" /\ Len(L) > 1 => head \notin DOMAIN live'
        <5>1. Len(L) > 1 => Len(L) # 1
          <6>1. PICK n \in Nat : n = Len(L)
            BY <2>1, <2>2, NodesAre
          <6>2. n > 1 => n # 1
            OBVIOUS
          <6>. QED  BY <6>1, <6>2
        <5>. QED  BY <2>4, <3>2, <5>1 DEF Leaves
      <4>. QED  BY <3>2, <4>1
    <3>. QED  BY <3>1, <3>2
  <2>. QED  BY <2>4, <2>5, <2>7, <2>8
<1>3. CASE outcome = "aborted" /\ ~UNCHANGED allocvars
  BY <1>3 DEF AllocNext, HeapNext, BestFitNext, mymalloc, mymallocFails, bestmalloc, bestmallocFails,
       HandsOut, CannotGrow, myfree, myfreeRefuses, Dead, Running, allocvars, heapvars
<1>4. CASE outcome = "ok" /\ linked = "best_fit" /\ head \in DOMAIN live /\ ~UNCHANGED allocvars
  BY <1>4 DEF AllocNext, HeadLost
<1>. QED  BY <1>1, <1>2, <1>3, <1>4 DEF FreeInv

----------------------------------------------------------------------------
(* One list                                                                *)

\* The sizes of nodes, in words.
Sizes == {4 * k : k \in Nat \ {0}}

LEMMA SizesAre ==
  /\ \A x \in Sizes : x \in Nat /\ x >= 4
  /\ \A x, y \in Sizes : x + y \in Sizes /\ (x < y => y - x \in Sizes)
<1>1. \A x \in Sizes : x \in Nat /\ x >= 4
  BY DEF Sizes
<1>2. ASSUME NEW x \in Sizes, NEW y \in Sizes
      PROVE  x + y \in Sizes /\ (x < y => y - x \in Sizes)
  <2>1. PICK j \in Nat \ {0} : x = 4 * j
    BY DEF Sizes
  <2>2. PICK k \in Nat \ {0} : y = 4 * k
    BY DEF Sizes
  <2>3. x + y = 4 * (j + k) /\ j + k \in Nat \ {0}
    BY <2>1, <2>2
  <2>4. x < y => y - x = 4 * (k - j) /\ k - j \in Nat \ {0}
    BY <2>1, <2>2
  <2>. QED  BY <2>3, <2>4 DEF Sizes
<1>. QED  BY <1>1, <1>2

\* A request and its header, rounded up, hold what was asked for.
LEMMA RoundedIs ==
  ASSUME NEW r \in ListRequest
  PROVE  List!Rounded(r) \in Sizes /\ r <= 8 * (List!Rounded(r) - 2)
<1>1. r \in Nat
  BY ListRequestAssumption
<1>2. PICK q : q = (r + 47) \div 32
  OBVIOUS
<1>3. q \in Nat \ {0} /\ r + 16 <= 32 * q
  BY <1>1, <1>2
<1>4. List!Rounded(r) = q * 4 /\ q * 4 = 4 * q
  <2>1. r + 8 * 2 + 31 = r + 47
    BY <1>1
  <2>. QED  BY <1>2, <1>3, <2>1 DEF List!Rounded, List!sizeof_node
<1>5. r <= 8 * (4 * q - 2)
  BY <1>1, <1>3
<1>. QED  BY <1>3, <1>4, <1>5 DEF Sizes

\* Where each of the nodes f ends.
NodeEnds(f) == [a \in List!Addr |-> a + f[a].size]

\* A node and the one that begins where it ends know each other; the last
\* knows that it is.
Joined(f, a, m) ==
  IF a + f[a].size = m
  THEN f[a].next_node = NULL
  ELSE /\ f[a].next_node = a + f[a].size
       /\ f[a + f[a].size].previous_node = a

\* S is where the nodes f of a list begin, which fill m words.
NodeSet(S, f, m) ==
  /\ S \subseteq List!Addr
  /\ Tiles(S, NodeEnds(f), m)
  /\ \A a \in S : f[a].size \in Sizes /\ Joined(f, a, m)
  /\ f[0].previous_node = NULL

LEMMA NodesAt ==
  ASSUME NEW S, NEW f, NEW m, NodeSet(S, f, m)
  PROVE  /\ 0 \in S /\ m \in Nat
         /\ \A a \in S :
              /\ a \in Nat /\ a \in List!Addr
              /\ f[a].size \in Nat /\ f[a].size >= 4
              /\ NodeEnds(f)[a] = a + f[a].size
              /\ a + f[a].size \in Nat /\ a < a + f[a].size /\ a + f[a].size <= m
              /\ a + f[a].size # m => a + f[a].size \in S
         /\ \A a, b \in S : a < b => a + f[a].size <= b
<1>1. ASSUME NEW a \in S
      PROVE  /\ a \in Nat /\ a \in List!Addr /\ f[a].size \in Nat /\ f[a].size >= 4
             /\ NodeEnds(f)[a] = a + f[a].size
             /\ a + f[a].size \in Nat
  BY SizesAre DEF NodeSet, NodeEnds, Tiles
<1>2. 0 \in S /\ m \in Nat
  BY DEF NodeSet, Tiles
<1>3. ASSUME NEW a \in S
      PROVE  /\ a < a + f[a].size /\ a + f[a].size <= m
             /\ a + f[a].size # m => a + f[a].size \in S
  <2>1. /\ a < NodeEnds(f)[a] /\ NodeEnds(f)[a] <= m
        /\ NodeEnds(f)[a] = m \/ NodeEnds(f)[a] \in S
    BY DEF NodeSet, Tiles
  <2>. QED  BY <1>1, <2>1
<1>4. ASSUME NEW a \in S, NEW b \in S, a < b
      PROVE  a + f[a].size <= b
  <2>1. NodeEnds(f)[a] <= b
    BY <1>4 DEF NodeSet, Tiles
  <2>. QED  BY <1>1, <2>1
<1>. QED  BY <1>1, <1>2, <1>3, <1>4

\* Only the first node has none before it.
LEMMA NodeBefore ==
  ASSUME NEW S, NEW f, NEW m, NodeSet(S, f, m), NEW a \in S, a # 0
  PROVE  \E p \in S : /\ p < a /\ p + f[p].size = a /\ p + f[p].size # m
                      /\ f[p].next_node = a /\ f[a].previous_node = p
<1>1. a \in Nat /\ a < m /\ m \in Nat
  BY NodesAt
<1>2. PICK x \in Nat : x = a - 1 /\ x < a /\ x \in 0 .. m - 1
  BY <1>1
<1>3. PICK p \in S : x \in p .. NodeEnds(f)[p] - 1
  BY <1>2, TilesCover DEF NodeSet
<1>4. p \in Nat /\ p + f[p].size \in Nat /\ p <= x /\ x < p + f[p].size
  BY <1>3, <1>2, NodesAt
<1>5. p < a
  BY <1>1, <1>2, <1>4
<1>6. p + f[p].size <= a
  BY <1>5, NodesAt
<1>7. p + f[p].size = a
  BY <1>1, <1>2, <1>4, <1>6
<1>8. p + f[p].size # m
  BY <1>1, <1>7
<1>9. Joined(f, p, m)
  BY DEF NodeSet
<1>. QED  BY <1>5, <1>7, <1>8, <1>9 DEF Joined

\* The last node is after all the others.
LEMMA OnlyLast ==
  ASSUME NEW S, NEW f, NEW m, NodeSet(S, f, m), NEW a \in S, a + f[a].size = m,
         NEW b \in S, b # a
  PROVE  b < a /\ b + f[b].size # m /\ b + f[b].size \in S
<1>1. a \in Nat /\ b \in Nat /\ f[a].size \in Nat /\ f[a].size >= 4 /\ m \in Nat
      /\ b + f[b].size \in Nat /\ b < b + f[b].size /\ b + f[b].size <= m
  BY NodesAt
<1>2. ~(a < b)
  <2>1. ASSUME a < b PROVE FALSE
    <3>1. a + f[a].size <= b
      BY <2>1, NodesAt
    <3>. QED  BY <1>1, <3>1
  <2>. QED  BY <2>1
<1>3. b < a
  BY <1>1, <1>2
<1>4. b + f[b].size <= a
  BY <1>3, NodesAt
<1>5. b + f[b].size # m
  BY <1>1, <1>4
<1>. QED  BY <1>3, <1>5, NodesAt

\* What the nodes say is all that counts.
LEMMA SameNodes ==
  ASSUME NEW S, NEW f, NEW m, NodeSet(S, f, m), NEW g,
         \A a \in S : /\ g[a].size = f[a].size /\ g[a].next_node = f[a].next_node
                      /\ g[a].previous_node = f[a].previous_node
  PROVE  NodeSet(S, g, m)
<1>1. \A a \in S : NodeEnds(g)[a] = NodeEnds(f)[a]
  BY DEF NodeSet, NodeEnds
<1>2. Tiles(S, NodeEnds(g), m)
  BY <1>1, SameTiles DEF NodeSet
<1>3. ASSUME NEW a \in S
      PROVE  g[a].size \in Sizes /\ Joined(g, a, m)
  <2>1. f[a].size \in Sizes /\ Joined(f, a, m)
    BY DEF NodeSet
  <2>2. a + f[a].size # m => a + f[a].size \in S
    BY NodesAt
  <2>. QED  BY <2>1, <2>2 DEF Joined
<1>4. g[0].previous_node = NULL
  BY NodesAt DEF NodeSet
<1>. QED  BY <1>2, <1>3, <1>4 DEF NodeSet

\* Node a, which is not the last, is cut in two at c.
Cut(S, f, g, a, n, c) ==
  /\ n < f[a].size /\ c = a + n /\ a + f[a].size \in S
  /\ g[a].size = n /\ g[a].next_node = c /\ g[a].previous_node = f[a].previous_node
  /\ g[c].size = f[a].size - n /\ g[c].next_node = a + f[a].size /\ g[c].previous_node = a
  /\ \A b \in S \ {a} :
       /\ g[b].size = f[b].size /\ g[b].next_node = f[b].next_node
       /\ g[b].previous_node = IF b = a + f[a].size THEN c ELSE f[b].previous_node

LEMMA SplitNode ==
  ASSUME NEW S, NEW f, NEW m, NodeSet(S, f, m), NEW a \in S, NEW n \in Sizes, NEW c,
         NEW g, Cut(S, f, g, a, n, c)
  PROVE  NodeSet(S \cup {c}, g, m) /\ c \notin S /\ c \in Nat /\ a < c /\ c < a + f[a].size
<1>0. PICK e \in S : e = a + f[a].size
  BY DEF Cut
<1>1. PICK z \in Nat : z = f[a].size /\ z \in Sizes /\ a \in Nat /\ e = a + z /\ a \in List!Addr
  BY <1>0, NodesAt DEF NodeSet
<1>2. n \in Nat /\ n >= 4 /\ n < z /\ z - n \in Sizes /\ z - n \in Nat
  <2>1. n \in Nat /\ n >= 4 /\ n < z
    BY <1>1, SizesAre DEF Cut
  <2>2. z - n \in Sizes
    BY <1>1, <2>1, SizesAre
  <2>. QED  BY <1>1, <2>1, <2>2
<1>3. c \in Nat /\ a < c /\ c < e /\ c + (z - n) = e /\ e \in Nat /\ a # e
  <2>1. c = a + n
    BY DEF Cut
  <2>. QED  BY <1>1, <1>2, <2>1
<1>4. e \in List!Addr /\ e < m /\ m \in Nat /\ e + f[e].size # c /\ e # c /\ a # c
  <2>1. e \in List!Addr /\ e + f[e].size \in Nat /\ e < e + f[e].size /\ e + f[e].size <= m /\ m \in Nat
    BY NodesAt
  <2>. QED  BY <1>3, <2>1
<1>5. c \in List!Addr
  BY <1>1, <1>3, <1>4, ListLimitAssumption DEF List!Addr
<1>6. g[a].size = n /\ g[c].size = z - n /\ f[a].size = z
      /\ g[a].next_node = c /\ g[a].previous_node = f[a].previous_node
      /\ g[c].next_node = e /\ g[c].previous_node = a
  BY <1>0, <1>1 DEF Cut
<1>7. NodeEnds(f)[a] = e /\ NodeEnds(g)[a] = c /\ NodeEnds(g)[c] = e
  <2>1. NodeEnds(f)[a] = a + f[a].size /\ NodeEnds(g)[a] = a + g[a].size
        /\ NodeEnds(g)[c] = c + g[c].size
    BY <1>1, <1>5 DEF NodeEnds
  <2>2. a + n = c
    BY DEF Cut
  <2>. QED  BY <1>1, <1>3, <1>6, <2>1, <2>2
<1>8. \A b \in S \ {a} :
        /\ g[b].size = f[b].size /\ g[b].next_node = f[b].next_node
        /\ g[b].previous_node = IF b = e THEN c ELSE f[b].previous_node
  BY <1>0 DEF Cut
<1>9. \A b \in S \ {a} : NodeEnds(g)[b] = NodeEnds(f)[b]
  BY <1>8 DEF NodeEnds, NodeSet
<1>10. Tiles(S \cup {c}, NodeEnds(g), m) /\ c \notin S
  <2>1. Tiles(S, NodeEnds(f), m)
    BY DEF NodeSet
  <2>2. PICK E : E = NodeEnds(f)
    OBVIOUS
  <2>3. PICK F : F = NodeEnds(g)
    OBVIOUS
  <2>4. /\ Tiles(S, E, m) /\ a < c /\ c < E[a] /\ F[a] = c /\ F[c] = E[a]
        /\ \A s \in S \ {a} : F[s] = E[s]
    BY <1>3, <1>7, <1>9, <2>1, <2>2, <2>3
  <2>6. c \in Nat
    BY <1>3
  <2>5. Tiles(S \cup {c}, F, m) /\ c \notin S
    BY <2>4, <2>6, SplitTile
  <2>. QED  BY <2>3, <2>5
<1>11. Joined(g, a, m)
  <2>1. a + g[a].size = c /\ c # m
    BY <1>1, <1>2, <1>3, <1>4, <1>6 DEF Cut
  <2>. QED  BY <1>6, <2>1 DEF Joined
<1>12. Joined(g, c, m)
  <2>1. c + g[c].size = e /\ e # m
    BY <1>3, <1>4, <1>6
  <2>2. g[e].previous_node = c
    BY <1>3, <1>8
  <2>. QED  BY <1>6, <2>1, <2>2 DEF Joined
<1>13. ASSUME NEW b \in S \ {a} PROVE g[b].size \in Sizes /\ Joined(g, b, m)
  <2>1. f[b].size \in Sizes /\ Joined(f, b, m)
    BY DEF NodeSet
  <2>2. g[b].size = f[b].size /\ g[b].next_node = f[b].next_node
    BY <1>8
  <2>3. PICK d : d = b + f[b].size
    OBVIOUS
  <2>4. CASE d = m
    BY <2>1, <2>2, <2>3, <2>4 DEF Joined
  <2>5. CASE d # m
    <3>1. d \in S /\ f[b].next_node = d /\ f[d].previous_node = b
      BY <2>1, <2>3, <2>5, NodesAt DEF Joined
    <3>2. d # e
      <4>1. a < b => e <= b
        BY <1>0, NodesAt
      <4>2. b < a => d <= a
        BY <2>3, NodesAt
      <4>3. b \in Nat /\ d \in Nat /\ b < d
        BY <2>3, NodesAt
      <4>. QED  BY <1>1, <1>3, <4>1, <4>2, <4>3
    <3>3. g[d].previous_node = f[d].previous_node
      <4>1. CASE d = a
        BY <1>6, <4>1
      <4>2. CASE d # a
        BY <1>8, <3>1, <3>2, <4>2
      <4>. QED  BY <4>1, <4>2
    <3>. QED  BY <2>1, <2>2, <2>3, <2>5, <3>1, <3>3 DEF Joined
  <2>. QED  BY <2>4, <2>5
<1>14. \A b \in S \cup {c} : g[b].size \in Sizes /\ Joined(g, b, m)
  BY <1>2, <1>6, <1>11, <1>12, <1>13
<1>15. g[0].previous_node = NULL
  <2>0. f[0].previous_node = NULL /\ 0 \in S
    BY NodesAt DEF NodeSet
  <2>1. f[0].previous_node = NULL /\ 0 \in S /\ 0 # e
    BY <2>0, <1>1, <1>3
  <2>2. CASE 0 = a
    BY <1>6, <2>1, <2>2
  <2>3. CASE 0 # a
    BY <1>8, <2>1, <2>3
  <2>. QED  BY <2>2, <2>3
<1>16. S \subseteq List!Addr
  BY DEF NodeSet
<1>17. NodeSet(S \cup {c}, g, m)
  BY <1>5, <1>10, <1>14, <1>15, <1>16 DEF NodeSet
<1>. QED  BY <1>1, <1>3, <1>10, <1>17

\* The node after a, which is not the last, becomes part of it.
Merged(S, f, g, a) ==
  LET c == a + f[a].size
      e == c + f[c].size
  IN  /\ c \in S /\ e \in S
      /\ g[a].size = f[a].size + f[c].size /\ g[a].next_node = e
      /\ g[a].previous_node = f[a].previous_node
      /\ \A b \in S \ {a, c} :
           /\ g[b].size = f[b].size /\ g[b].next_node = f[b].next_node
           /\ g[b].previous_node = IF b = e THEN a ELSE f[b].previous_node

LEMMA JoinNodes ==
  ASSUME NEW S, NEW f, NEW m, NodeSet(S, f, m), NEW a \in S, NEW g, Merged(S, f, g, a)
  PROVE  NodeSet(S \ {a + f[a].size}, g, m)
<1>1. PICK c \in S : c = a + f[a].size
  BY DEF Merged
<1>2. PICK e \in S : e = c + f[c].size
  BY <1>1 DEF Merged
<1>3. PICK x \in Nat : x = f[a].size /\ x >= 4 /\ x \in Sizes
  BY NodesAt DEF NodeSet
<1>4. PICK y \in Nat : y = f[c].size /\ y >= 4 /\ y \in Sizes
  BY NodesAt DEF NodeSet
<1>5. /\ a \in Nat /\ c \in Nat /\ e \in Nat /\ m \in Nat /\ e < m
      /\ a \in List!Addr /\ c \in List!Addr
  <2>1. /\ a \in Nat /\ c \in Nat /\ e \in Nat /\ m \in Nat
        /\ a \in List!Addr /\ c \in List!Addr
        /\ e < e + f[e].size /\ e + f[e].size <= m /\ e + f[e].size \in Nat
    BY NodesAt
  <2>. QED  BY <2>1
<1>6. c = a + x /\ e = c + y /\ a < c /\ c < e
  BY <1>1, <1>2, <1>3, <1>4, <1>5
<1>7. x + y \in Sizes
  BY <1>3, <1>4, SizesAre
<1>8. /\ g[a].size = x + y /\ g[a].next_node = e
      /\ g[a].previous_node = f[a].previous_node
      /\ \A b \in S \ {a, c} :
           /\ g[b].size = f[b].size /\ g[b].next_node = f[b].next_node
           /\ g[b].previous_node = IF b = e THEN a ELSE f[b].previous_node
  BY <1>1, <1>2, <1>3, <1>4 DEF Merged
<1>9. Tiles(S \ {c}, NodeEnds(g), m)
  <2>1. PICK E : E = NodeEnds(f)
    OBVIOUS
  <2>2. PICK F : F = NodeEnds(g)
    OBVIOUS
  <2>3. E[a] = c /\ E[c] = e
    BY <1>1, <1>2, <1>5, <2>1 DEF NodeEnds
  <2>4. F[a] = e
    <3>1. F[a] = a + g[a].size
      BY <1>5, <2>2 DEF NodeEnds
    <3>. QED  BY <1>3, <1>4, <1>5, <1>6, <1>8, <3>1
  <2>5. \A b \in S \ {a, c} : F[b] = E[b]
    BY <1>8, <2>1, <2>2 DEF NodeEnds, NodeSet
  <2>6. Tiles(S, E, m) /\ E[a] \in S /\ F[a] = E[E[a]] /\ \A b \in S \ {a, E[a]} : F[b] = E[b]
    BY <2>1, <2>3, <2>4, <2>5 DEF NodeSet
  <2>7. Tiles(S \ {E[a]}, F, m)
    BY <2>6, JoinTiles
  <2>. QED  BY <2>2, <2>3, <2>7
<1>10. Joined(g, a, m)
  <2>1. a + g[a].size = e /\ e # m
    BY <1>3, <1>4, <1>5, <1>6, <1>8
  <2>2. e \in S \ {a, c}
    BY <1>5, <1>6
  <2>. QED  BY <1>8, <2>1, <2>2 DEF Joined
<1>11. ASSUME NEW b \in S \ {a, c} PROVE g[b].size \in Sizes /\ Joined(g, b, m)
  <2>1. f[b].size \in Sizes /\ Joined(f, b, m)
    BY DEF NodeSet
  <2>2. g[b].size = f[b].size /\ g[b].next_node = f[b].next_node
    BY <1>8
  <2>3. PICK d : d = b + f[b].size
    OBVIOUS
  <2>4. CASE d = m
    BY <2>1, <2>2, <2>3, <2>4 DEF Joined
  <2>5. CASE d # m
    <3>1. d \in S /\ f[b].next_node = d /\ f[d].previous_node = b
      BY <2>1, <2>3, <2>5, NodesAt DEF Joined
    <3>2. d # e /\ d # c
      <4>1. c < b => e <= b
        BY <1>2, NodesAt
      <4>2. b < c => d <= c
        BY <2>3, NodesAt
      <4>3. b \in Nat /\ d \in Nat /\ b < d /\ b # c /\ b # a
        BY <2>3, NodesAt
      <4>4. a < b => c <= b
        BY <1>1, NodesAt
      <4>5. b < a => d <= a
        BY <2>3, NodesAt
      <4>. QED  BY <1>5, <1>6, <4>1, <4>2, <4>3, <4>4, <4>5
    <3>3. g[d].previous_node = f[d].previous_node
      <4>1. CASE d = a
        BY <1>8, <4>1
      <4>2. CASE d # a
        BY <1>8, <3>1, <3>2, <4>2
      <4>. QED  BY <4>1, <4>2
    <3>. QED  BY <2>1, <2>2, <2>3, <2>5, <3>1, <3>3 DEF Joined
  <2>. QED  BY <2>4, <2>5
<1>12. \A b \in S \ {c} : g[b].size \in Sizes /\ Joined(g, b, m)
  BY <1>7, <1>8, <1>10, <1>11
<1>13. g[0].previous_node = NULL
  <2>1. f[0].previous_node = NULL /\ 0 \in S
    BY NodesAt DEF NodeSet
  <2>2. 0 # e /\ 0 # c
    BY <1>5, <1>6
  <2>3. CASE 0 = a
    BY <1>8, <2>1, <2>3
  <2>4. CASE 0 # a
    BY <1>8, <2>1, <2>2, <2>4
  <2>. QED  BY <2>3, <2>4
<1>14. S \ {c} \subseteq List!Addr
  BY DEF NodeSet
<1>15. NodeSet(S \ {c}, g, m)
  BY <1>9, <1>12, <1>13, <1>14 DEF NodeSet
<1>. QED  BY <1>1, <1>15

\* The last tile, or one more.
LEMMA DropTile ==
  ASSUME NEW S, NEW E, NEW m, Tiles(S, E, m), NEW a \in S, E[a] = m, a # 0
  PROVE  Tiles(S \ {a}, E, a)
<1>1. ASSUME NEW s \in S, s # a
      PROVE  s \in Nat /\ E[s] \in Nat /\ s < E[s] /\ E[s] <= a /\ (E[s] = a \/ E[s] \in S \ {a})
  <2>1. s \in Nat /\ a \in Nat /\ E[s] \in Nat /\ s < E[s] /\ E[s] <= m /\ m \in Nat /\ a < m
        /\ (E[s] = m \/ E[s] \in S)
    BY DEF Tiles
  <2>2. ~(a < s)
    <3>1. ASSUME a < s PROVE FALSE
      <4>1. E[a] <= s
        BY <3>1 DEF Tiles
      <4>. QED  BY <2>1, <4>1
    <3>. QED  BY <3>1
  <2>3. s < a
    BY <1>1, <2>1, <2>2
  <2>4. E[s] <= a
    BY <2>3 DEF Tiles
  <2>. QED  BY <2>1, <2>4
<1>2. a \in Nat /\ 0 \in S \ {a} /\ (S \ {a}) \subseteq Nat
  BY DEF Tiles
<1>3. \A s, t \in S \ {a} : s < t => E[s] <= t
  BY DEF Tiles
<1>. QED  BY <1>1, <1>2, <1>3 DEF Tiles

LEMMA AppendTile ==
  ASSUME NEW S, NEW E, NEW m, Tiles(S, E, m), NEW k \in Nat, m < k,
         NEW F, F[m] = k, \A s \in S : F[s] = E[s]
  PROVE  Tiles(S \cup {m}, F, k) /\ m \notin S
<1>1. m \notin S /\ m \in Nat
  BY DEF Tiles
<1>2. ASSUME NEW s \in S \cup {m}
      PROVE  /\ s \in Nat /\ F[s] \in Nat /\ s < F[s] /\ F[s] <= k
             /\ F[s] = k \/ F[s] \in S \cup {m}
  BY <1>1 DEF Tiles
<1>3. ASSUME NEW s \in S \cup {m}, NEW t \in S \cup {m}, s < t
      PROVE  F[s] <= t
  <2>1. s # m
    BY <1>1, <1>3 DEF Tiles
  <2>. QED  BY <1>1, <1>3, <2>1 DEF Tiles
<1>4. 0 \in S \cup {m} /\ S \cup {m} \subseteq Nat
  BY <1>1 DEF Tiles
<1>. QED  BY <1>1, <1>2, <1>3, <1>4 DEF Tiles

\* The last node goes.
Dropped(S, f, g, a) ==
  \A b \in S \ {a} :
    /\ g[b].size = f[b].size /\ g[b].previous_node = f[b].previous_node
    /\ g[b].next_node = IF b = f[a].previous_node THEN NULL ELSE f[b].next_node

LEMMA DropNode ==
  ASSUME NEW S, NEW f, NEW m, NodeSet(S, f, m), NEW a \in S, a # 0, a + f[a].size = m,
         NEW g, Dropped(S, f, g, a)
  PROVE  NodeSet(S \ {a}, g, a)
<1>1. PICK p \in S : p < a /\ p + f[p].size = a /\ f[a].previous_node = p
  BY NodeBefore
<1>2. \A b \in S \ {a} :
        /\ g[b].size = f[b].size /\ g[b].previous_node = f[b].previous_node
        /\ g[b].next_node = IF b = p THEN NULL ELSE f[b].next_node
  BY <1>1 DEF Dropped
<1>3. a \in List!Addr /\ a \in Nat
  BY NodesAt
<1>4. Tiles(S \ {a}, NodeEnds(g), a)
  <2>1. PICK E : E = NodeEnds(f)
    OBVIOUS
  <2>2. E[a] = m /\ Tiles(S, E, m)
    BY <1>3, <2>1 DEF NodeSet, NodeEnds
  <2>3. Tiles(S \ {a}, E, a)
    BY <2>2, DropTile
  <2>4. \A b \in S \ {a} : NodeEnds(g)[b] = E[b]
    BY <1>2, <2>1 DEF NodeEnds, NodeSet
  <2>. QED  BY <2>3, <2>4, SameTiles
<1>5. ASSUME NEW b \in S \ {a} PROVE g[b].size \in Sizes /\ Joined(g, b, a)
  <2>1. f[b].size \in Sizes /\ Joined(f, b, m)
    BY DEF NodeSet
  <2>2. PICK d : d = b + f[b].size
    OBVIOUS
  <2>3. d # m /\ d \in S /\ b \in Nat /\ b < a
    BY <2>2, OnlyLast, NodesAt
  <2>4. f[b].next_node = d /\ f[d].previous_node = b
    BY <2>1, <2>2, <2>3 DEF Joined
  <2>5. b + g[b].size = d
    BY <1>2, <2>2
  <2>6. CASE d = a
    <3>1. b = p
      BY <1>1, <2>4, <2>6
    <3>. QED  BY <1>2, <2>1, <2>5, <2>6, <3>1 DEF Joined
  <2>7. CASE d # a
    <3>1. b # p
      BY <1>1, <2>2, <2>7
    <3>. QED  BY <1>2, <2>1, <2>3, <2>4, <2>5, <2>7, <3>1 DEF Joined
  <2>. QED  BY <2>6, <2>7
<1>6. g[0].previous_node = NULL
  BY <1>2, NodesAt DEF NodeSet
<1>7. S \ {a} \subseteq List!Addr
  BY DEF NodeSet
<1>. QED  BY <1>4, <1>5, <1>6, <1>7 DEF NodeSet

\* A node after the last one, l.
Appended(S, f, g, l, m, n) ==
  /\ g[m].size = n /\ g[m].next_node = NULL /\ g[m].previous_node = l
  /\ \A b \in S :
       /\ g[b].size = f[b].size /\ g[b].previous_node = f[b].previous_node
       /\ g[b].next_node = IF b = l THEN m ELSE f[b].next_node

LEMMA AppendNode ==
  ASSUME NEW S, NEW f, NEW m, NodeSet(S, f, m), NEW l \in S, l + f[l].size = m,
         NEW n \in Sizes, m \in List!Addr, NEW g, Appended(S, f, g, l, m, n)
  PROVE  NodeSet(S \cup {m}, g, m + n) /\ m \notin S
<1>1. m \in Nat /\ n \in Nat /\ n >= 4
  BY NodesAt, SizesAre
<1>2. /\ g[m].size = n /\ g[m].next_node = NULL /\ g[m].previous_node = l
      /\ \A b \in S :
           /\ g[b].size = f[b].size /\ g[b].previous_node = f[b].previous_node
           /\ g[b].next_node = IF b = l THEN m ELSE f[b].next_node
  BY DEF Appended
<1>3. Tiles(S \cup {m}, NodeEnds(g), m + n) /\ m \notin S
  <2>1. PICK k \in Nat : k = m + n /\ m < k
    BY <1>1
  <2>2. PICK E : E = NodeEnds(f)
    OBVIOUS
  <2>3. PICK F : F = NodeEnds(g)
    OBVIOUS
  <2>4. Tiles(S, E, m) /\ F[m] = k /\ \A b \in S : F[b] = E[b]
    BY <1>2, <2>1, <2>2, <2>3 DEF NodeSet, NodeEnds
  <2>5. Tiles(S \cup {m}, F, k) /\ m \notin S
    BY <2>1, <2>4, AppendTile
  <2>. QED  BY <2>1, <2>3, <2>5
<1>4. Joined(g, m, m + n) /\ g[m].size \in Sizes
  BY <1>2 DEF Joined
<1>5. ASSUME NEW b \in S PROVE g[b].size \in Sizes /\ Joined(g, b, m + n)
  <2>1. f[b].size \in Sizes /\ Joined(f, b, m)
    BY DEF NodeSet
  <2>2. PICK d \in Nat : d = b + f[b].size /\ d <= m
    BY NodesAt
  <2>3. d # m + n
    BY <1>1, <2>2
  <2>4. b + g[b].size = d
    BY <1>2, <2>2
  <2>5. CASE d = m
    <3>1. b = l
      BY <2>2, <2>5, OnlyLast
    <3>. QED  BY <1>2, <2>1, <2>3, <2>4, <2>5, <3>1 DEF Joined
  <2>6. CASE d # m
    <3>1. d \in S /\ f[b].next_node = d /\ f[d].previous_node = b /\ b # l
      BY <2>1, <2>2, <2>6, NodesAt DEF Joined
    <3>. QED  BY <1>2, <2>1, <2>3, <2>4, <3>1 DEF Joined
  <2>. QED  BY <2>5, <2>6
<1>6. g[0].previous_node = NULL
  BY <1>2, NodesAt DEF NodeSet
<1>7. S \cup {m} \subseteq List!Addr
  BY DEF NodeSet
<1>. QED  BY <1>3, <1>4, <1>5, <1>6, <1>7 DEF NodeSet

\* The first k steps of the walk along the list.
IsNodeWalk(w, k) ==
  w = [i \in 1 .. k |-> IF i = 1 THEN first_node
                        ELSE IF w[i - 1] \in List!Addr THEN node[w[i - 1]].next_node
                        ELSE List!NULL]

LEMMA NodeWalkExists == \A k \in Nat : \E w : IsNodeWalk(w, k)
<1>. DEFINE P == {k \in Nat : \E w : IsNodeWalk(w, k)}
<1>1. 0 \in P
  <2>1. PICK w : w = [i \in 1 .. 0 |-> 0]
    OBVIOUS
  <2>2. 1 .. 0 = {}
    OBVIOUS
  <2>3. IsNodeWalk(w, 0)
    BY <2>1, <2>2 DEF IsNodeWalk
  <2>. QED  BY <2>3
<1>2. ASSUME NEW j \in Nat, j \in P PROVE j + 1 \in P
  <2>1. PICK w : IsNodeWalk(w, j)
    BY <1>2
  <2>2. PICK k \in Nat : k = j + 1
    OBVIOUS
  <2>3. PICK y : y = IF k = 1 THEN first_node
                     ELSE IF w[j] \in List!Addr THEN node[w[j]].next_node
                     ELSE List!NULL
    OBVIOUS
  <2>4. PICK u : u = [i \in 1 .. k |-> IF i <= j THEN w[i] ELSE y]
    OBVIOUS
  <2>5. \A i \in 1 .. j : w[i] = IF i = 1 THEN first_node
                        ELSE IF w[i - 1] \in List!Addr THEN node[w[i - 1]].next_node
                        ELSE List!NULL
    BY <2>1 DEF IsNodeWalk
  <2>6. ASSUME NEW i \in 1 .. k
        PROVE  u[i] = IF i = 1 THEN first_node
                        ELSE IF u[i - 1] \in List!Addr THEN node[u[i - 1]].next_node
                        ELSE List!NULL
    <3>1. CASE i <= j
      <4>1. i \in 1 .. j /\ u[i] = w[i]
        BY <2>4, <3>1
      <4>2. i # 1 => u[i - 1] = w[i - 1]
        BY <2>2, <2>4, <3>1
      <4>. QED  BY <2>5, <4>1, <4>2
    <3>2. CASE i = k
      <4>1. u[i] = y /\ i - 1 = j
        BY <2>2, <2>4, <3>2
      <4>2. i # 1 => u[j] = w[j]
        BY <2>2, <2>4, <3>2
      <4>. QED  BY <2>3, <3>2, <4>1, <4>2
    <3>. QED  BY <2>2, <3>1, <3>2
  <2>7. u = [i \in 1 .. k |-> u[i]]
    BY <2>4
  <2>8. IsNodeWalk(u, k)
    BY <2>6, <2>7 DEF IsNodeWalk
  <2>. QED  BY <2>2, <2>8
<1>3. ASSUME NEW k \in Nat PROVE k \in P
  <2>. HIDE DEF P
  <2>. DEFINE Q == {i \in 1 .. k : i \in P}
  <2>1. CASE k = 0
    BY <1>1, <2>1
  <2>2. CASE k # 0
    <3>1. 1 \in Q
      BY <1>1, <1>2, <2>2
    <3>2. \A i \in 1 .. k - 1 : i \in Q => i + 1 \in Q
      BY <1>2
    <3>3. 1 .. k \subseteq Q
      <4>. HIDE DEF Q
      <4>. QED  BY <3>1, <3>2, UpTo
    <3>. QED  BY <2>2, <3>3
  <2>. QED  BY <2>1, <2>2
<1>. QED  BY <1>3

\* The walk visits first_node and then what each next field says.
LEMMA NodeWalkIs ==
  \E N \in Nat :
    /\ N = ListLimit \div 4 /\ N >= 1 /\ ListLimit < 4 * (N + 1)
    /\ List!Walk = [i \in 1 .. N |-> List!Walk[i]]
    /\ List!Walk[1] = first_node
    /\ \A i \in 1 .. N - 1 :
         List!Walk[i + 1] = IF List!Walk[i] \in List!Addr
                            THEN node[List!Walk[i]].next_node ELSE NULL
<1>1. PICK N \in Nat : N = ListLimit \div 4 /\ N >= 1 /\ ListLimit < 4 * (N + 1)
  BY ListLimitAssumption
<1>2. \E w : IsNodeWalk(w, N)
  BY NodeWalkExists
<1>3. PICK W : W = List!Walk
  OBVIOUS
<1>4. W = CHOOSE w : IsNodeWalk(w, N)
  BY <1>1, <1>3 DEF List!Walk, IsNodeWalk
<1>5. IsNodeWalk(W, N)
  BY <1>2, <1>4
<1>6. W = [i \in 1 .. N |-> W[i]]
  BY <1>5 DEF IsNodeWalk
<1>7. \A i \in 1 .. N : W[i] = IF i = 1 THEN first_node
                        ELSE IF W[i - 1] \in List!Addr THEN node[W[i - 1]].next_node
                        ELSE List!NULL
  BY <1>5 DEF IsNodeWalk
<1>8. W[1] = first_node
  BY <1>1, <1>7
<1>9. ASSUME NEW i \in 1 .. N - 1
      PROVE  W[i + 1] = IF W[i] \in List!Addr THEN node[W[i]].next_node ELSE NULL
  <2>1. PICK k \in 1 .. N : k = i + 1 /\ k - 1 = i /\ k # 1
    OBVIOUS
  <2>. QED  BY <1>7, <2>1 DEF List!NULL, NULL
<1>. QED  BY <1>1, <1>3, <1>6, <1>8, <1>9

\* An empty list is walked no further than first_node.
LEMMA NoNodes ==
  ASSUME first_node \notin List!Addr
  PROVE  List!Nodes = <<>>
<1>1. PICK N \in Nat :
        /\ N = ListLimit \div 4 /\ N >= 1
        /\ List!Walk = [i \in 1 .. N |-> List!Walk[i]]
        /\ List!Walk[1] = first_node
        /\ \A i \in 1 .. N - 1 :
             List!Walk[i + 1] = IF List!Walk[i] \in List!Addr
                                THEN node[List!Walk[i]].next_node ELSE NULL
  BY NodeWalkIs
<1>2. PICK W : W = List!Walk
  OBVIOUS
<1>. DEFINE P == {i \in 1 .. N : W[i] \notin List!Addr}
<1>3. NULL \notin List!Addr
  BY ListLimitAssumption DEF NULL, List!Addr
<1>4. \A i \in 1 .. N - 1 : i \in P => i + 1 \in P
  BY <1>1, <1>2, <1>3
<1>5. N > 0 => 1 \in P
  BY <1>1, <1>2
<1>6. 1 .. N \subseteq P
  <2>. HIDE DEF P
  <2>. QED  BY <1>4, <1>5, UpTo
<1>7. {i \in DOMAIN W : W[i] \in List!Addr} = {}
  BY <1>1, <1>2, <1>6
<1>8. Cardinality({}) = 0
  BY FS_EmptySet
<1>9. List!Nodes = SubSeq(W, 1, 0)
  <2>0. List!Nodes = SubSeq(List!Walk, 1, Cardinality({i \in DOMAIN List!Walk : List!Walk[i] \in List!Addr}))
    BY DEF List!Nodes, List!Cardinality, Cardinality
  <2>1. List!Nodes = SubSeq(W, 1, Cardinality({i \in DOMAIN W : W[i] \in List!Addr}))
    BY <1>2, <2>0
  <2>. QED  BY <1>7, <1>8, <2>1
<1>10. SubSeq(W, 1, 0) = <<>>
  <2>1. PICK V : V = SubSeq(W, 1, 0)
    OBVIOUS
  <2>2. W = [i \in 1 .. N |-> W[i]]
    BY <1>1, <1>2
  <2>. QED  BY <2>2
<1>. QED  BY <1>9, <1>10

\* The list L of the nodes S.
InOrder(L, S) ==
  /\ L \in Seq(Nat) /\ Range(L) = S /\ Len(L) \in Nat /\ Len(L) >= 1 /\ L[1] = 0
  /\ \A i \in 1 .. Len(L) : L[i] \in S
  /\ \A i \in 1 .. Len(L) - 1 :
       L[i] + node[L[i]].size = L[i + 1] /\ node[L[i + 1]].previous_node = L[i]
  /\ L[Len(L)] + node[L[Len(L)]].size = brk

LEMMA NodesIs ==
  ASSUME first_node = 0, brk \in 0 .. ListLimit, NEW S, NodeSet(S, node, brk)
  PROVE  InOrder(List!Nodes, S)
<1>1. PICK N \in Nat :
        /\ N >= 1 /\ ListLimit < 4 * (N + 1)
        /\ List!Walk = [i \in 1 .. N |-> List!Walk[i]]
        /\ List!Walk[1] = first_node
        /\ \A i \in 1 .. N - 1 :
             List!Walk[i + 1] = IF List!Walk[i] \in List!Addr
                                THEN node[List!Walk[i]].next_node ELSE NULL
  BY NodeWalkIs
<1>2. PICK W : W = List!Walk
  OBVIOUS
<1>3. /\ W = [i \in 1 .. N |-> W[i]] /\ W[1] = 0
      /\ \A i \in 1 .. N - 1 :
           W[i + 1] = IF W[i] \in List!Addr THEN node[W[i]].next_node ELSE NULL
  BY <1>1, <1>2
<1>4. NULL \notin List!Addr /\ NULL \notin Nat
  BY DEF NULL, List!Addr
<1>5. \A a \in S : a \in Nat /\ a \in List!Addr
  BY NodesAt
<1>6. ASSUME NEW a \in S
      PROVE  \/ node[a].next_node = NULL /\ a + node[a].size = brk
             \/ /\ node[a].next_node \in S /\ node[a].next_node = a + node[a].size
                /\ node[node[a].next_node].previous_node = a
  <2>1. Joined(node, a, brk) /\ (a + node[a].size # brk => a + node[a].size \in S)
    BY NodesAt DEF NodeSet
  <2>. QED  BY <2>1 DEF Joined
<1>7. \A i \in 1 .. N : W[i] = NULL \/ W[i] \in S
  <2>. DEFINE P == {i \in 1 .. N : W[i] = NULL \/ W[i] \in S}
  <2>1. N > 0 => 1 \in P
    BY <1>1, <1>3, NodesAt
  <2>2. ASSUME NEW i \in 1 .. N - 1, i \in P PROVE i + 1 \in P
    <3>1. CASE W[i] = NULL
      <4>1. W[i + 1] = NULL /\ i + 1 \in 1 .. N
        <5>1. W[i + 1] = IF W[i] \in List!Addr THEN node[W[i]].next_node ELSE NULL
          BY <1>3
        <5>. QED  BY <1>4, <3>1, <5>1
      <4>. QED  BY <4>1
    <3>2. CASE W[i] \in S
      <4>1. W[i + 1] = node[W[i]].next_node
        BY <1>3, <1>5, <3>2
      <4>2. W[i + 1] = NULL \/ W[i + 1] \in S
        BY <1>6, <3>2, <4>1
      <4>3. i + 1 \in 1 .. N
        OBVIOUS
      <4>. QED  BY <4>2, <4>3
    <3>. QED  BY <2>2, <3>1, <3>2
  <2>3. 1 .. N \subseteq P
    <3>. HIDE DEF P
    <3>. QED  BY <2>1, <2>2, UpTo
  <2>. QED  BY <2>3
<1>8. \A i \in 1 .. N : W[i] \in List!Addr <=> W[i] \in S
  BY <1>4, <1>5, <1>7
<1>9. PICK n \in 1 .. N : /\ \A i \in 1 .. n : W[i] \in S
                          /\ n # N => W[n + 1] = NULL
  <2>. DEFINE bad == {i \in 1 .. N : W[i] = NULL}
  <2>1. CASE bad = {}
    <3>1. N \in 1 .. N /\ \A i \in 1 .. N : W[i] \in S
      BY <1>1, <1>7, <2>1
    <3>. QED  BY <3>1
  <2>2. CASE bad # {}
    <3>1. PICK k : k = Min(bad)
      OBVIOUS
    <3>2. k \in bad /\ \A j \in bad : k <= j
      <4>1. bad \in SUBSET Nat
        OBVIOUS
      <4>. HIDE DEF bad
      <4>. QED  BY <2>2, <3>1, <4>1, MinExists
    <3>3. k # 1
      BY <1>3, <1>4, <3>2
    <3>4. PICK q \in 1 .. N : q = k - 1 /\ k = q + 1
      BY <3>2, <3>3
    <3>5. \A i \in 1 .. q : i \in 1 .. N /\ i \notin bad
      BY <3>2, <3>4
    <3>6. \A i \in 1 .. q : W[i] \in S
      BY <1>7, <3>5
    <3>. QED  BY <3>2, <3>4, <3>6
  <2>. QED  BY <2>1, <2>2
<1>10. \A i \in 1 .. N : i > n => W[i] = NULL
  <2>. DEFINE P == {i \in 1 .. N : i > n => W[i] = NULL}
  <2>1. N > 0 => 1 \in P
    BY <1>1
  <2>2. ASSUME NEW i \in 1 .. N - 1, i \in P PROVE i + 1 \in P
    <3>1. CASE i + 1 = n + 1
      BY <1>9, <3>1
    <3>2. CASE i > n
      BY <1>3, <1>4, <2>2, <3>2
    <3>. QED  BY <3>1, <3>2
  <2>3. 1 .. N \subseteq P
    <3>. HIDE DEF P
    <3>. QED  BY <2>1, <2>2, UpTo
  <2>. QED  BY <2>3
<1>11. {i \in DOMAIN W : W[i] \in List!Addr} = 1 .. n
  <2>1. DOMAIN W = 1 .. N
    BY <1>3
  <2>2. ASSUME NEW i \in 1 .. N PROVE W[i] \in List!Addr <=> i \in 1 .. n
    BY <1>4, <1>5, <1>9, <1>10
  <2>3. 1 .. n \subseteq 1 .. N
    OBVIOUS
  <2>. QED  BY <2>1, <2>2, <2>3
<1>12. Cardinality(1 .. n) = n
  <2>1. Cardinality(1 .. n) = IF 1 > n THEN 0 ELSE n - 1 + 1
    BY FS_Interval
  <2>. QED  BY <2>1
<1>13. PICK L : L = SubSeq(W, 1, n)
  OBVIOUS
<1>14. List!Nodes = L
  <2>0. List!Nodes = SubSeq(List!Walk, 1, Cardinality({i \in DOMAIN List!Walk : List!Walk[i] \in List!Addr}))
    BY DEF List!Nodes, List!Cardinality, Cardinality
  <2>1. List!Nodes = SubSeq(W, 1, Cardinality({i \in DOMAIN W : W[i] \in List!Addr}))
    BY <1>2, <2>0
  <2>. QED  BY <1>11, <1>12, <1>13, <2>1
<1>15. L \in Seq(Nat) /\ Len(L) = n /\ \A i \in 1 .. n : L[i] = W[i]
  <2>1. W \in Seq(Nat \cup {NULL}) /\ Len(W) = N
    <3>1. \A i \in 1 .. N : W[i] \in Nat \cup {NULL}
      BY <1>5, <1>7
    <3>. QED  BY <1>3, <3>1
  <2>2. L \in Seq(Nat \cup {NULL}) /\ Len(L) = n /\ \A i \in 1 .. n : L[i] = W[i]
    BY <1>13, <2>1
  <2>3. \A i \in 1 .. n : L[i] \in Nat
    BY <1>5, <1>9, <2>2
  <2>. QED  BY <2>2, <2>3
<1>16. /\ L[1] = 0
       /\ \A i \in 1 .. n : L[i] \in S /\ L[i] \in Nat
  <2>1. 1 \in 1 .. n
    OBVIOUS
  <2>2. L[1] = 0
    BY <1>3, <1>15, <2>1
  <2>3. \A i \in 1 .. n : L[i] \in S
    BY <1>9, <1>15
  <2>. QED  BY <1>5, <2>2, <2>3
<1>17. ASSUME NEW i \in 1 .. n - 1
       PROVE  /\ L[i] + node[L[i]].size = L[i + 1] /\ node[L[i + 1]].previous_node = L[i]
  <2>1. i \in 1 .. n /\ i + 1 \in 1 .. n /\ i \in 1 .. N - 1
    OBVIOUS
  <2>2. L[i + 1] = node[L[i]].next_node
    BY <1>3, <1>5, <1>15, <1>16, <2>1
  <2>. QED  BY <1>4, <1>6, <1>16, <2>1, <2>2
<1>18. \A i \in 1 .. n - 1 : L[i] + 4 <= L[i + 1]
  <2>. TAKE i \in 1 .. n - 1
  <2>1. PICK s \in Nat : s = node[L[i]].size /\ s >= 4
    BY <1>16, NodesAt
  <2>2. L[i] + s = L[i + 1] /\ L[i] \in Nat
    BY <1>16, <1>17, <2>1
  <2>. QED  BY <2>1, <2>2
<1>19. 4 * (n - 1) <= L[n]
  <2>1. \A i \in 1 .. n : 4 * (i - 1) <= L[i]
    BY <1>15, <1>18, Sparse
  <2>2. n \in 1 .. n
    OBVIOUS
  <2>. QED  BY <2>1, <2>2
<1>20. L[n] + node[L[n]].size = brk
  <2>1. SUFFICES ASSUME L[n] + node[L[n]].size # brk PROVE FALSE
    OBVIOUS
  <2>2. PICK a \in S : a = L[n] /\ a \in Nat
    BY <1>16
  <2>3. PICK e \in S : e = a + node[a].size /\ node[a].next_node = e
    BY <1>6, <2>1, <2>2
  <2>4. /\ node[a].size >= 4 /\ node[a].size \in Nat /\ e \in Nat
        /\ node[e].size >= 4 /\ node[e].size \in Nat /\ e + node[e].size <= brk /\ brk \in Nat
    BY NodesAt
  <2>5. 4 * (n - 1) + 8 <= brk
    BY <1>19, <2>2, <2>3, <2>4
  <2>6. n # N
    BY <1>1, <2>5, ListLimitAssumption
  <2>7. W[n + 1] = e
    <3>1. n \in 1 .. n /\ n \in 1 .. N - 1
      BY <2>6
    <3>2. W[n] = a /\ a \in List!Addr
      BY <1>5, <1>15, <2>2, <3>1
    <3>. QED  BY <1>3, <2>3, <3>1, <3>2
  <2>. QED  BY <1>4, <1>5, <1>9, <2>6, <2>7
<1>21. Range(L) = S
  <2>1. \A i \in 1 .. n : L[i] \in Range(L)
    BY <1>15, RangeIs
  <2>2. \A x \in Range(L) : \E i \in 1 .. n : L[i] = x
    BY <1>15, RangeIs
  <2>. DEFINE lost == {a \in S : a \notin Range(L)}
  <2>3. lost = {}
    <3>1. SUFFICES ASSUME lost # {} PROVE FALSE
      OBVIOUS
    <3>2. PICK a : a = Min(lost)
      OBVIOUS
    <3>3. a \in lost /\ \A b \in lost : a <= b
      <4>1. lost \in SUBSET Nat
        BY <1>5
      <4>. HIDE DEF lost
      <4>. QED  BY <3>1, <3>2, <4>1, MinExists
    <3>4. a # 0
      BY <1>16, <2>1, <3>3
    <3>5. PICK p \in S : p < a /\ p + node[p].size = a /\ p + node[p].size # brk
      BY <3>3, <3>4, NodeBefore
    <3>6. p \in Range(L)
      BY <1>5, <3>3, <3>5
    <3>7. PICK i \in 1 .. n : L[i] = p
      BY <2>2, <3>6
    <3>8. i # n
      BY <1>20, <3>5, <3>7
    <3>9. i \in 1 .. n - 1 /\ i + 1 \in 1 .. n
      BY <3>8
    <3>10. L[i + 1] = a
      BY <1>17, <3>5, <3>7, <3>9
    <3>. QED  BY <2>1, <3>3, <3>9, <3>10
  <2>4. Range(L) \subseteq S
    BY <1>16, <2>2
  <2>. QED  BY <2>3, <2>4
<1>22. n \in Nat /\ n >= 1
  OBVIOUS
<1>. QED  BY <1>14, <1>15, <1>16, <1>17, <1>20, <1>21, <1>22 DEF InOrder

----------------------------------------------------------------------------
(* The steps of one list                                                   *)

\* The nodes S fill the heap.  The last is in use, and so is one of any two
\* neighbours; those in use are the blocks that are out.
OneHeap(S) ==
  /\ \/ S = {} /\ brk = 0 /\ first_node \in {NULL, List!FAILED} /\ last_node = NULL
     \/ /\ NodeSet(S, node, brk) /\ first_node = 0
        /\ last_node \in S /\ last_node + node[last_node].size = brk
        /\ node[last_node].used = 1
  /\ \A a \in S : node[a].used = 0 /\ a + node[a].size # brk
                    => node[a + node[a].size].used = 1
  /\ DOMAIN live = {a \in S : node[a].used = 1}
  /\ \A b \in DOMAIN live :
       live[b].words = node[b].size - 2 /\ live[b].asked <= 8 * live[b].words

LEMMA ListNodesIs ==
  ASSUME List!ListTypeOK, NEW S, OneHeap(S)
  PROVE  /\ List!Range(List!Nodes) = S
         /\ List!FreeOnes = {a \in S : node[a].used = 0}
         /\ S \subseteq Nat /\ S \subseteq List!Addr
         /\ S = {} => List!Nodes = <<>>
         /\ S # {} => InOrder(List!Nodes, S)
<1>1. CASE S = {}
  <2>1. 0 \notin S
    BY <1>1
  <2>2. first_node \in {NULL, List!FAILED}
    BY <2>1, NodesAt DEF OneHeap
  <2>3. first_node \notin List!Addr
    BY <2>2, ListLimitAssumption DEF NULL, List!FAILED, List!Addr
  <2>4. List!Nodes = <<>>
    BY <2>3, NoNodes
  <2>5. List!Range(List!Nodes) = {}
    BY <2>4 DEF List!Range
  <2>. QED  BY <1>1, <2>4, <2>5 DEF List!FreeOnes
<1>2. CASE S # {}
  <2>1. NodeSet(S, node, brk) /\ first_node = 0 /\ brk \in 0 .. ListLimit
    BY <1>2 DEF OneHeap, List!ListTypeOK
  <2>2. InOrder(List!Nodes, S)
    BY <2>1, NodesIs
  <2>3. List!Range(List!Nodes) = S
    BY <2>2 DEF InOrder, Range, List!Range
  <2>4. S \subseteq Nat /\ S \subseteq List!Addr
    BY <2>1, NodesAt
  <2>. QED  BY <1>2, <2>2, <2>3, <2>4 DEF List!FreeOnes
<1>. QED  BY <1>1, <1>2

\* Every node is typed.
LEMMA NodeTyped ==
  ASSUME List!ListTypeOK, NEW a \in List!Addr
  PROVE  /\ node[a] = List!NewNode(node[a].size, node[a].used, node[a].previous_node, node[a].next_node)
         /\ node[a].size \in Nat /\ node[a].used \in {0, 1}
         /\ node[a].previous_node \in List!Addr \cup {NULL}
         /\ node[a].next_node \in List!Addr \cup {NULL}
BY DEF List!ListTypeOK, List!NodeType, List!NewNode, List!NULL, NULL

\* What malloc takes is free and holds the request; it takes nothing only when
\* no node does.
LEMMA SuitableIs ==
  ASSUME List!ListTypeOK, NEW S, OneHeap(S), NEW n \in Nat
  PROVE  /\ \A a \in List!Suitable(n) : a \in S /\ node[a].used = 0 /\ node[a].size >= n
         /\ List!Suitable(n) = {} => \A a \in S : node[a].used = 0 => node[a].size < n
<1>1. PICK F : F = List!FreeOnes
  OBVIOUS
<1>2. F = {a \in S : node[a].used = 0} /\ F \subseteq Nat /\ F \subseteq S /\ F \subseteq List!Addr
  BY <1>1, ListNodesIs
<1>3. \A a \in F : node[a].size \in Nat
  BY <1>2, NodeTyped
<1>4. PICK exact : exact = {a \in F : node[a].size = n}
  OBVIOUS
<1>5. PICK larger : larger = {a \in F : node[a].size > n}
  OBVIOUS
<1>6. PICK best : best = {a \in larger : \A b \in larger : node[a].size <= node[b].size}
  OBVIOUS
<1>7. List!Suitable(n) = IF exact # {} THEN {List!Min(exact)}
                         ELSE IF best # {} THEN {List!Min(best)} ELSE {}
  BY <1>1, <1>4, <1>5, <1>6 DEF List!Suitable
<1>8. exact \in SUBSET Nat /\ best \in SUBSET Nat
  BY <1>2, <1>4, <1>5, <1>6
<1>9. /\ exact # {} => List!Min(exact) \in exact
      /\ best # {} => List!Min(best) \in best
  <2>1. List!Min(exact) = Min(exact) /\ List!Min(best) = Min(best)
    BY DEF List!Min, Min
  <2>. QED  BY <1>8, <2>1, MinExists
<1>10. larger # {} => best # {}
  <2>1. ASSUME larger # {} PROVE best # {}
    <3>. DEFINE sizes == {node[a].size : a \in larger}
    <3>1. sizes \in SUBSET Nat /\ sizes # {}
      BY <1>3, <1>5, <2>1
    <3>2. PICK s : s = Min(sizes)
      OBVIOUS
    <3>3. s \in sizes /\ \A t \in sizes : s <= t
      <4>. HIDE DEF sizes
      <4>. QED  BY <3>1, <3>2, MinExists
    <3>4. PICK a \in larger : s = node[a].size
      BY <3>3
    <3>5. a \in best
      BY <1>6, <3>3, <3>4
    <3>. QED  BY <3>5
  <2>. QED  BY <2>1
<1>11. ASSUME NEW a \in List!Suitable(n) PROVE a \in S /\ node[a].used = 0 /\ node[a].size >= n
  <2>1. a \in exact \/ a \in larger
    BY <1>6, <1>7, <1>9
  <2>2. a \in F
    BY <1>4, <1>5, <2>1
  <2>3. node[a].size >= n
    BY <1>3, <1>4, <1>5, <2>1, <2>2
  <2>. QED  BY <1>2, <2>2, <2>3
<1>12. ASSUME List!Suitable(n) = {}, NEW a \in S, node[a].used = 0 PROVE node[a].size < n
  <2>1. exact = {} /\ larger = {}
    BY <1>7, <1>10, <1>12
  <2>2. a \in F /\ node[a].size \in Nat
    BY <1>2, <1>3, <1>12
  <2>3. node[a].size # n /\ ~(node[a].size > n)
    BY <1>4, <1>5, <2>1, <2>2
  <2>. QED  BY <2>2, <2>3
<1>. QED  BY <1>11, <1>12

\* A block handed out at a new place.
LEMMA HandedOut ==
  ASSUME NEW a, NEW r, List!HandsOutNode(a, r)
  PROVE  /\ DOMAIN live' = DOMAIN live \cup {a}
         /\ live'[a].asked = r /\ live'[a].words = List!Rounded(r) - 2
         /\ \A b \in DOMAIN live \ {a} : live'[b] = live[b]
<1>1. DOMAIN live' = DOMAIN live \cup {a}
  BY DEF List!HandsOutNode
<1>2. live'[a] = [asked |-> r, words |-> List!Rounded(r) - 2]
  BY DEF List!HandsOutNode, List!sizeof_node
<1>3. \A b \in DOMAIN live \ {a} : live'[b] = live[b]
  BY DEF List!HandsOutNode
<1>. QED  BY <1>1, <1>2, <1>3

\* What a call does to the blocks and the end of the heap.
OneMoves ==
  \/ \E a \in Nat, r \in ListRequest :
       /\ a \notin DOMAIN live /\ List!HandsOutNode(a, r) /\ brk <= brk'
       /\ brk' > brk => \A x \in List!FreeOnes : node[x].size < List!Rounded(r)
  \/ live' = live /\ brk' = brk
  \/ \E a \in DOMAIN live :
       live' = Restrict(live, DOMAIN live \ {a}) /\ brk' <= brk

LEMMA FirstKeeps ==
  ASSUME List!ListTypeOK, NEW S, OneHeap(S), NEW r \in ListRequest, List!MallocFirst(r)
  PROVE  List!ListTypeOK' /\ (\E T : OneHeap(T)') /\ OneMoves /\ outcome' = outcome
<1>1. PICK n \in Sizes : n = List!Rounded(r) /\ r <= 8 * (n - 2) /\ n \in Nat /\ n >= 4
  BY RoundedIs, SizesAre
<1>2. /\ first_node = NULL /\ outcome' = outcome
      /\ S = {} /\ brk = 0 /\ last_node = NULL /\ DOMAIN live = {}
  <2>1. first_node = NULL /\ outcome' = outcome
    BY DEF List!MallocFirst, List!NULL, NULL
  <2>2. S = {} /\ brk = 0 /\ last_node = NULL
    BY <2>1 DEF OneHeap, NULL
  <2>. QED  BY <2>1, <2>2 DEF OneHeap
<1>3. CASE /\ List!Granted(n)
           /\ first_node' = brk /\ last_node' = brk
           /\ node' = [node EXCEPT ![brk] = List!NewNode(n, 1, NULL, NULL)]
           /\ brk' = brk + n
           /\ List!HandsOutNode(brk, r)
  <2>1. n <= ListLimit /\ brk' = n /\ first_node' = 0 /\ last_node' = 0
    BY <1>1, <1>2, <1>3 DEF List!Granted
  <2>2. 0 \in List!Addr
    BY ListLimitAssumption DEF List!Addr
  <2>3. node' = [node EXCEPT ![0] = List!NewNode(n, 1, NULL, NULL)]
    BY <1>2, <1>3
  <2>4. /\ node'[0].size = n /\ node'[0].used = 1
        /\ node'[0].previous_node = NULL /\ node'[0].next_node = NULL
        /\ node' \in [List!Addr -> List!NodeType]
    <3>1. List!NewNode(n, 1, NULL, NULL) \in List!NodeType
      BY <1>1 DEF List!NewNode, List!NodeType, NULL, List!NULL
    <3>2. node'[0] = List!NewNode(n, 1, NULL, NULL)
      BY <2>2, <2>3 DEF List!ListTypeOK
    <3>3. node' \in [List!Addr -> List!NodeType]
      BY <2>2, <2>3, <3>1 DEF List!ListTypeOK
    <3>. QED  BY <3>2, <3>3 DEF List!NewNode
  <2>5. NodeSet({0}, node', n)
    <3>1. NodeEnds(node')[0] = n
      BY <1>1, <2>2, <2>4 DEF NodeEnds
    <3>2. Tiles({0}, NodeEnds(node'), n)
      BY <1>1, <3>1 DEF Tiles
    <3>3. Joined(node', 0, n)
      BY <1>1, <2>4 DEF Joined
    <3>. QED  BY <2>2, <2>4, <3>2, <3>3 DEF NodeSet
  <2>6. DOMAIN live' = {0} /\ live'[0].asked = r /\ live'[0].words = n - 2
    BY <1>1, <1>2, <1>3, HandedOut
  <2>7. OneHeap({0})'
    <3>1. 0 + node'[0].size = n
      BY <1>1, <2>4
    <3>2. DOMAIN live' = {a \in {0} : node'[a].used = 1}
      BY <2>4, <2>6
    <3>3. \A b \in DOMAIN live' : live'[b].words = node'[b].size - 2 /\ live'[b].asked <= 8 * live'[b].words
      BY <1>1, <2>4, <2>6
    <3>. QED  BY <2>1, <2>4, <2>5, <3>1, <3>2, <3>3 DEF OneHeap
  <2>8. List!ListTypeOK'
    <3>1. n \in 0 .. ListLimit
      BY <1>1, <2>1
    <3>2. first_node' \in List!Addr /\ last_node' \in List!Addr /\ brk' \in 0 .. ListLimit
      BY <2>1, <2>2, <3>1
    <3>. QED  BY <1>2, <2>4, <3>2 DEF List!ListTypeOK
  <2>9. OneMoves
    <3>1. List!FreeOnes = {}
      BY <1>2, ListNodesIs
    <3>2. brk <= brk' /\ brk \in Nat /\ brk \notin DOMAIN live
      BY <1>1, <1>2, <2>1
    <3>. QED  BY <1>3, <3>1, <3>2 DEF OneMoves
  <2>. QED  BY <1>2, <2>7, <2>8, <2>9
<1>4. CASE first_node' = List!FAILED /\ UNCHANGED <<last_node, node, brk, live>>
  <2>1. List!ListTypeOK'
    BY <1>2, <1>4 DEF List!ListTypeOK
  <2>2. OneHeap(S)'
    <3>1. S = {} /\ brk' = 0 /\ first_node' \in {NULL, List!FAILED} /\ last_node' = NULL
      BY <1>2, <1>4
    <3>2. DOMAIN live' = {} /\ DOMAIN live' = {a \in S : node'[a].used = 1}
      BY <1>2, <1>4
    <3>. QED  BY <1>2, <3>1, <3>2 DEF OneHeap
  <2>3. OneMoves
    BY <1>4 DEF OneMoves
  <2>. QED  BY <1>2, <2>1, <2>2, <2>3
<1>5. \/ /\ List!Granted(n)
         /\ first_node' = brk /\ last_node' = brk
         /\ node' = [node EXCEPT ![brk] = List!NewNode(n, 1, NULL, NULL)]
         /\ brk' = brk + n
         /\ List!HandsOutNode(brk, r)
      \/ first_node' = List!FAILED /\ UNCHANGED <<last_node, node, brk, live>>
  BY <1>1 DEF List!MallocFirst, NULL, List!NULL
<1>. QED  BY <1>3, <1>4, <1>5

\* A free node of just the size wanted.
LEMMA ExactKeeps ==
  ASSUME List!ListTypeOK, NEW S, OneHeap(S), NEW r \in ListRequest,
         NEW a \in S, node[a].used = 0, List!MallocExact(a, r)
  PROVE  List!ListTypeOK' /\ (\E T : OneHeap(T)') /\ OneMoves /\ outcome' = outcome
<1>1. PICK n \in Sizes : n = List!Rounded(r) /\ r <= 8 * (n - 2) /\ n \in Nat /\ n >= 4
  BY RoundedIs, SizesAre
<1>2. /\ node[a].size = n /\ node' = [node EXCEPT ![a].used = 1]
      /\ first_node' = first_node /\ last_node' = last_node /\ brk' = brk /\ outcome' = outcome
  BY <1>1 DEF List!MallocExact
<1>3. a \in List!Addr /\ a \in Nat /\ S # {} /\ S \subseteq List!Addr
  BY ListNodesIs
<1>4. /\ \A b \in S : /\ node'[b].size = node[b].size /\ node'[b].next_node = node[b].next_node
                      /\ node'[b].previous_node = node[b].previous_node
                      /\ node'[b].used = IF b = a THEN 1 ELSE node[b].used
      /\ node' \in [List!Addr -> List!NodeType]
  <2>1. node \in [List!Addr -> List!NodeType]
    BY DEF List!ListTypeOK
  <2>2. \A b \in S \ {a} : node'[b] = node[b]
    BY <1>2, <1>3, <2>1
  <2>3. node'[a] = [node[a] EXCEPT !.used = 1]
    BY <1>2, <1>3, <2>1
  <2>4. node[a] \in List!NodeType
    BY <1>3, <2>1
  <2>5. node'[a] \in List!NodeType
    BY <2>3, <2>4 DEF List!NodeType
  <2>6. node' \in [List!Addr -> List!NodeType]
    BY <1>2, <1>3, <2>1, <2>3, <2>5
  <2>7. /\ node'[a].size = node[a].size /\ node'[a].next_node = node[a].next_node
        /\ node'[a].previous_node = node[a].previous_node /\ node'[a].used = 1
    BY <2>3, <2>4 DEF List!NodeType
  <2>. QED  BY <2>2, <2>6, <2>7
<1>5. /\ NodeSet(S, node, brk) /\ first_node = 0
      /\ last_node \in S /\ last_node + node[last_node].size = brk /\ node[last_node].used = 1
  BY <1>3 DEF OneHeap
<1>6. NodeSet(S, node', brk)
  BY <1>4, <1>5, SameNodes
<1>7. List!HandsOutNode(a, r) /\ a \notin DOMAIN live
  <2>1. a \notin DOMAIN live
    BY DEF OneHeap
  <2>. QED  BY <2>1 DEF List!MallocExact
<1>8. /\ DOMAIN live' = DOMAIN live \cup {a}
      /\ live'[a].asked = r /\ live'[a].words = n - 2
      /\ \A b \in DOMAIN live \ {a} : live'[b] = live[b]
  BY <1>1, <1>7, HandedOut
<1>9. OneHeap(S)'
  <2>1. /\ NodeSet(S, node', brk') /\ first_node' = 0
        /\ last_node' \in S /\ last_node' + node'[last_node'].size = brk'
        /\ node'[last_node'].used = 1
    BY <1>2, <1>4, <1>5, <1>6
  <2>2. \A b \in S : node'[b].used = 0 /\ b + node'[b].size # brk'
                       => node'[b + node'[b].size].used = 1
    <3>1. ASSUME NEW b \in S, node'[b].used = 0, b + node'[b].size # brk'
          PROVE  node'[b + node'[b].size].used = 1
      <4>1. PICK d : d = b + node[b].size
        OBVIOUS
      <4>2. d # brk /\ d = b + node'[b].size /\ node[b].used = 0
        BY <1>2, <1>4, <3>1, <4>1
      <4>3. d \in S
        BY <1>5, <4>1, <4>2, NodesAt
      <4>4. node[d].used = 1
        BY <4>1, <4>2 DEF OneHeap
      <4>. QED  BY <1>4, <4>2, <4>3, <4>4
    <3>. QED  BY <3>1
  <2>3. DOMAIN live' = {b \in S : node'[b].used = 1}
    <3>1. DOMAIN live = {b \in S : node[b].used = 1}
      BY DEF OneHeap
    <3>. QED  BY <1>4, <1>8, <3>1
  <2>4. \A b \in DOMAIN live' :
          live'[b].words = node'[b].size - 2 /\ live'[b].asked <= 8 * live'[b].words
    <3>1. \A b \in DOMAIN live : b \in S /\ live[b].words = node[b].size - 2 /\ live[b].asked <= 8 * live[b].words
      BY DEF OneHeap
    <3>. QED  BY <1>1, <1>2, <1>4, <1>8, <3>1
  <2>. QED  BY <2>1, <2>2, <2>3, <2>4 DEF OneHeap
<1>10. List!ListTypeOK'
  BY <1>2, <1>4 DEF List!ListTypeOK
<1>11. OneMoves
  <2>1. brk <= brk' /\ ~(brk' > brk)
    BY <1>2 DEF List!ListTypeOK
  <2>. QED  BY <1>3, <1>7, <2>1 DEF OneMoves
<1>. QED  BY <1>2, <1>9, <1>10, <1>11

\* A larger free node is cut; it is never the last, so the cut never crashes.
LEMMA SplitKeeps ==
  ASSUME List!ListTypeOK, NEW S, OneHeap(S), NEW r \in ListRequest,
         NEW a \in S, node[a].used = 0, node[a].size > List!Rounded(r)
  PROVE  /\ node[a].next_node # NULL
         /\ List!MallocSplit(a, r) =>
              List!ListTypeOK' /\ (\E T : OneHeap(T)') /\ OneMoves /\ outcome' = outcome
<1>1. PICK n \in Sizes : n = List!Rounded(r) /\ r <= 8 * (n - 2) /\ n \in Nat /\ n >= 4
  BY RoundedIs, SizesAre
<1>2. a \in List!Addr /\ a \in Nat /\ S # {} /\ S \subseteq List!Addr /\ a # -1
  BY ListNodesIs
<1>3. /\ NodeSet(S, node, brk) /\ first_node = 0
      /\ last_node \in S /\ last_node + node[last_node].size = brk /\ node[last_node].used = 1
  BY <1>2 DEF OneHeap
<1>4. PICK e \in S : /\ e = a + node[a].size /\ e # brk /\ node[e].used = 1
                     /\ node[a].next_node = e /\ node[e].previous_node = a
  <2>1. a # last_node
    BY <1>3
  <2>2. a + node[a].size # brk /\ a + node[a].size \in S
    BY <1>3, <2>1, OnlyLast
  <2>3. Joined(node, a, brk)
    BY <1>3 DEF NodeSet
  <2>. QED  BY <2>2, <2>3 DEF Joined, OneHeap
<1>5. e \in Nat /\ e \in List!Addr /\ a < e
  BY <1>3, <1>4, NodesAt
<1>6. node[a].next_node # NULL
  BY <1>4, <1>5 DEF NULL
<1>7. ASSUME List!MallocSplit(a, r)
      PROVE  List!ListTypeOK' /\ (\E T : OneHeap(T)') /\ OneMoves /\ outcome' = outcome
  <2>1. PICK c : c = a + n
    OBVIOUS
  <2>2. PICK X : X = List!NewNode(n, 1, node[a].previous_node, c)
    OBVIOUS
  <2>3. PICK Y : Y = List!NewNode(node[a].size - n, 0, a, e)
    OBVIOUS
  <2>4. /\ node' = [node EXCEPT ![a] = X, ![c] = Y, ![e].previous_node = c]
        /\ List!HandsOutNode(a, r)
        /\ first_node' = first_node /\ last_node' = last_node /\ brk' = brk /\ outcome' = outcome
    BY <1>1, <1>4, <1>7, <2>1, <2>2, <2>3 DEF List!MallocSplit, List!Rest
  <2>5. node \in [List!Addr -> List!NodeType] /\ node[a].size \in Nat
        /\ node[a].previous_node \in List!Addr \cup {NULL}
    BY <1>2, NodeTyped DEF List!ListTypeOK
  <2>6. c \in List!Addr /\ a < c /\ c < e /\ c \in Nat
    <3>1. a < c /\ c < e /\ c \in Nat
      BY <1>1, <1>2, <1>4, <1>5, <2>1, <2>5
    <3>. QED  BY <1>2, <1>5, <3>1, ListLimitAssumption DEF List!Addr
  <2>7. a # c /\ a # e /\ c # e
    BY <1>2, <1>5, <2>6
  <2>8. X \in List!NodeType /\ Y \in List!NodeType
    <3>1. node[a].size - n \in Nat
      BY <1>1, <2>5
    <3>. QED  BY <1>1, <1>2, <1>5, <2>2, <2>3, <2>5, <2>6, <3>1 DEF List!NewNode, List!NodeType, NULL, List!NULL
  <2>9. PICK Z : Z = [node[e] EXCEPT !.previous_node = c]
    OBVIOUS
  <2>10. node[e] \in List!NodeType /\ Z \in List!NodeType
    <3>1. node[e] \in List!NodeType
      BY <1>5, <2>5
    <3>. QED  BY <2>6, <2>9, <3>1 DEF List!NodeType
  <2>11. node' = [b \in List!Addr |-> IF b = e THEN Z ELSE IF b = c THEN Y ELSE IF b = a THEN X ELSE node[b]]
    BY <1>2, <1>5, <2>4, <2>5, <2>6, <2>7, <2>9
  <2>12. node' \in [List!Addr -> List!NodeType]
    BY <2>5, <2>8, <2>10, <2>11
  <2>13. /\ node'[a].size = n /\ node'[a].used = 1 /\ node'[a].next_node = c
         /\ node'[a].previous_node = node[a].previous_node
         /\ node'[c].size = node[a].size - n /\ node'[c].used = 0
         /\ node'[c].next_node = e /\ node'[c].previous_node = a
    <3>1. node'[a] = X /\ node'[c] = Y
      BY <1>2, <2>6, <2>7, <2>11
    <3>. QED  BY <2>2, <2>3, <3>1 DEF List!NewNode
  <2>14. ASSUME NEW b \in S \ {a}
         PROVE  /\ node'[b].size = node[b].size /\ node'[b].next_node = node[b].next_node
                /\ node'[b].previous_node = IF b = e THEN c ELSE node[b].previous_node
                /\ node'[b].used = node[b].used
    <3>1. b # c
      <4>1. b \in Nat /\ (a < b => e <= b)
        BY <1>3, <1>4, NodesAt
      <4>. QED  BY <1>2, <1>5, <2>6, <4>1
    <3>2. CASE b = e
      <4>1. node'[b] = Z
        BY <1>5, <2>11, <3>2
      <4>. QED  BY <2>9, <2>10, <3>2, <4>1 DEF List!NodeType
    <3>3. CASE b # e
      <4>1. node'[b] = node[b]
        BY <1>2, <2>11, <3>1, <3>3
      <4>. QED  BY <3>3, <4>1
    <3>. QED  BY <3>2, <3>3
  <2>15. NodeSet(S \cup {c}, node', brk) /\ c \notin S
    <3>1. Cut(S, node, node', a, n, c)
      BY <1>1, <1>4, <2>1, <2>13, <2>14 DEF Cut
    <3>. QED  BY <1>3, <3>1, SplitNode
  <2>16. a \notin DOMAIN live /\ DOMAIN live = {b \in S : node[b].used = 1}
    BY DEF OneHeap
  <2>17. /\ DOMAIN live' = DOMAIN live \cup {a}
         /\ live'[a].asked = r /\ live'[a].words = n - 2
         /\ \A b \in DOMAIN live \ {a} : live'[b] = live[b]
    BY <1>1, <2>4, HandedOut
  <2>18. /\ last_node' \in S \cup {c} /\ last_node' + node'[last_node'].size = brk'
         /\ node'[last_node'].used = 1
    <3>1. last_node \in S \ {a}
      BY <1>3
    <3>. QED  BY <1>3, <2>4, <2>14, <3>1
  <2>19. ASSUME NEW b \in S \cup {c}, node'[b].used = 0, b + node'[b].size # brk'
         PROVE  node'[b + node'[b].size].used = 1
    <3>1. CASE b = c
      <4>1. b + node'[b].size = e
        <5>1. PICK z \in Nat : z = node[a].size
          BY <2>5
        <5>. QED  BY <1>1, <1>2, <1>4, <2>1, <2>13, <3>1, <5>1
      <4>2. node'[e].used = node[e].used
        BY <2>7, <2>14
      <4>. QED  BY <1>4, <4>1, <4>2
    <3>2. CASE b # c
      <4>1. b \in S \ {a}
        BY <2>13, <2>19, <3>2
      <4>2. PICK d : d = b + node[b].size
        OBVIOUS
      <4>3. d = b + node'[b].size /\ d # brk /\ node[b].used = 0
        BY <2>4, <2>14, <2>19, <4>1, <4>2
      <4>4. d \in S /\ node[d].used = 1
        BY <1>3, <4>1, <4>2, <4>3, NodesAt DEF OneHeap
      <4>5. node'[d].used = 1
        BY <2>13, <2>14, <4>4
      <4>. QED  BY <4>3, <4>5
    <3>. QED  BY <3>1, <3>2
  <2>20. DOMAIN live' = {b \in S \cup {c} : node'[b].used = 1}
    BY <2>13, <2>14, <2>15, <2>16, <2>17
  <2>21. \A b \in DOMAIN live' :
           live'[b].words = node'[b].size - 2 /\ live'[b].asked <= 8 * live'[b].words
    <3>1. \A b \in DOMAIN live : b \in S /\ live[b].words = node[b].size - 2 /\ live[b].asked <= 8 * live[b].words
      BY DEF OneHeap
    <3>. QED  BY <1>1, <2>13, <2>14, <2>17, <3>1
  <2>22. OneHeap(S \cup {c})'
    <3>1. NodeSet(S \cup {c}, node', brk') /\ first_node' = 0
      BY <1>3, <2>4, <2>15
    <3>. QED  BY <2>18, <2>19, <2>20, <2>21, <3>1 DEF OneHeap
  <2>23. List!ListTypeOK'
    BY <2>4, <2>12 DEF List!ListTypeOK
  <2>24. OneMoves
    <3>1. brk <= brk' /\ ~(brk' > brk)
      BY <2>4 DEF List!ListTypeOK
    <3>. QED  BY <1>2, <2>4, <2>16, <3>1 DEF OneMoves
  <2>. QED  BY <2>4, <2>22, <2>23, <2>24
<1>. QED  BY <1>6, <1>7

\* A node after the last.
LEMMA AppendKeeps ==
  ASSUME List!ListTypeOK, NEW S, OneHeap(S), S # {}, NEW r \in ListRequest,
         List!Suitable(List!Rounded(r)) = {}, List!MallocAppend(r)
  PROVE  List!ListTypeOK' /\ (\E T : OneHeap(T)') /\ OneMoves /\ outcome' = outcome
<1>1. PICK n \in Sizes : n = List!Rounded(r) /\ r <= 8 * (n - 2) /\ n \in Nat /\ n >= 4
  BY RoundedIs, SizesAre
<1>2. CASE UNCHANGED List!listvars
  <2>1. /\ first_node' = first_node /\ last_node' = last_node /\ node' = node
        /\ brk' = brk /\ live' = live /\ outcome' = outcome
    BY <1>2 DEF List!listvars
  <2>2. OneHeap(S)' /\ List!ListTypeOK'
    BY <2>1 DEF OneHeap, List!ListTypeOK
  <2>. QED  BY <2>1, <2>2 DEF OneMoves
<1>3. CASE /\ List!Granted(n)
           /\ node' = [node EXCEPT ![last_node].next_node = brk,
                                   ![brk] = List!NewNode(n, 1, last_node, NULL)]
           /\ last_node' = brk
           /\ brk' = brk + n
           /\ List!HandsOutNode(brk, r)
           /\ UNCHANGED <<first_node, outcome>>
  <2>1. PICK m \in Nat : m = brk /\ m + n <= ListLimit
    BY <1>3 DEF List!Granted, List!ListTypeOK
  <2>2. PICK l \in S : l = last_node
    BY DEF OneHeap
  <2>3. /\ NodeSet(S, node, m) /\ first_node = 0
        /\ l + node[l].size = m /\ node[l].used = 1
    BY <2>1, <2>2 DEF OneHeap
  <2>4. m \in List!Addr /\ l \in List!Addr /\ l \in Nat /\ l < m /\ S \subseteq List!Addr
    <3>1. m \in List!Addr
      BY <1>1, <2>1, ListLimitAssumption DEF List!Addr
    <3>. QED  BY <2>3, <3>1, NodesAt
  <2>5. PICK X : X = List!NewNode(n, 1, l, NULL)
    OBVIOUS
  <2>6. PICK Z : Z = [node[l] EXCEPT !.next_node = m]
    OBVIOUS
  <2>7. node \in [List!Addr -> List!NodeType] /\ node[l] \in List!NodeType
    BY <2>4 DEF List!ListTypeOK
  <2>8. X \in List!NodeType /\ Z \in List!NodeType
    BY <1>1, <2>4, <2>5, <2>6, <2>7 DEF List!NewNode, List!NodeType, NULL, List!NULL
  <2>9. node' = [b \in List!Addr |-> IF b = m THEN X ELSE IF b = l THEN Z ELSE node[b]]
    BY <1>3, <2>1, <2>2, <2>4, <2>5, <2>6, <2>7
  <2>10. node' \in [List!Addr -> List!NodeType]
    BY <2>7, <2>8, <2>9
  <2>11. /\ node'[m].size = n /\ node'[m].used = 1 /\ node'[m].next_node = NULL
         /\ node'[m].previous_node = l
    <3>1. node'[m] = X
      BY <2>4, <2>9
    <3>. QED  BY <2>5, <3>1 DEF List!NewNode
  <2>12. ASSUME NEW b \in S
         PROVE  /\ node'[b].size = node[b].size /\ node'[b].previous_node = node[b].previous_node
                /\ node'[b].next_node = IF b = l THEN m ELSE node[b].next_node
                /\ node'[b].used = node[b].used
    <3>1. b # m
      <4>1. b \in Nat /\ b < b + node[b].size /\ b + node[b].size <= m /\ b + node[b].size \in Nat
        BY <2>3, NodesAt
      <4>. QED  BY <4>1
    <3>2. CASE b = l
      <4>1. node'[b] = Z
        BY <2>4, <2>9, <3>1, <3>2
      <4>. QED  BY <2>6, <2>7, <3>2, <4>1 DEF List!NodeType
    <3>3. CASE b # l
      <4>1. node'[b] = node[b]
        BY <2>4, <2>9, <3>1, <3>3
      <4>. QED  BY <3>3, <4>1
    <3>. QED  BY <3>2, <3>3
  <2>13. NodeSet(S \cup {m}, node', m + n) /\ m \notin S
    <3>1. Appended(S, node, node', l, m, n)
      BY <2>11, <2>12 DEF Appended
    <3>. QED  BY <2>3, <2>4, <3>1, AppendNode
  <2>14. m \notin DOMAIN live /\ DOMAIN live = {b \in S : node[b].used = 1}
    BY <2>13 DEF OneHeap
  <2>15. /\ DOMAIN live' = DOMAIN live \cup {m}
         /\ live'[m].asked = r /\ live'[m].words = n - 2
         /\ \A b \in DOMAIN live \ {m} : live'[b] = live[b]
    BY <1>1, <1>3, <2>1, HandedOut
  <2>16. ASSUME NEW b \in S \cup {m}, node'[b].used = 0, b + node'[b].size # brk'
         PROVE  node'[b + node'[b].size].used = 1
    <3>1. b \in S /\ node[b].used = 0 /\ b + node'[b].size = b + node[b].size
      BY <2>11, <2>12, <2>16
    <3>2. b # l
      BY <2>3, <3>1
    <3>3. b + node[b].size # m /\ b + node[b].size \in S
      BY <2>3, <3>1, <3>2, OnlyLast
    <3>4. node[b + node[b].size].used = 1
      BY <2>1, <3>1, <3>3 DEF OneHeap
    <3>. QED  BY <2>12, <3>1, <3>3, <3>4
  <2>17. DOMAIN live' = {b \in S \cup {m} : node'[b].used = 1}
    BY <2>11, <2>12, <2>13, <2>14, <2>15
  <2>18. \A b \in DOMAIN live' :
           live'[b].words = node'[b].size - 2 /\ live'[b].asked <= 8 * live'[b].words
    <3>1. \A b \in DOMAIN live : b \in S /\ b # m /\ live[b].words = node[b].size - 2 /\ live[b].asked <= 8 * live[b].words
      BY <2>14 DEF OneHeap
    <3>. QED  BY <1>1, <2>11, <2>12, <2>15, <3>1
  <2>19. last_node' = m /\ brk' = m + n /\ first_node' = 0 /\ outcome' = outcome
    BY <1>3, <2>1, <2>3
  <2>20. OneHeap(S \cup {m})'
    BY <2>11, <2>13, <2>16, <2>17, <2>18, <2>19 DEF OneHeap
  <2>21. List!ListTypeOK'
    <3>1. 0 \in List!Addr /\ m + n \in 0 .. ListLimit
      BY <1>1, <2>1, ListLimitAssumption DEF List!Addr
    <3>. QED  BY <2>4, <2>10, <2>19, <3>1 DEF List!ListTypeOK
  <2>22. OneMoves
    <3>1. \A x \in List!FreeOnes : node[x].size < n
      BY <1>1, SuitableIs, ListNodesIs
    <3>2. brk <= brk' /\ brk \in Nat /\ brk \notin DOMAIN live /\ List!HandsOutNode(brk, r)
      BY <1>1, <1>3, <2>1, <2>14, <2>19
    <3>. QED  BY <1>1, <3>1, <3>2 DEF OneMoves
  <2>. QED  BY <2>19, <2>20, <2>21, <2>22
<1>4. \/ UNCHANGED List!listvars
      \/ /\ List!Granted(n)
         /\ node' = [node EXCEPT ![last_node].next_node = brk,
                                 ![brk] = List!NewNode(n, 1, last_node, NULL)]
         /\ last_node' = brk
         /\ brk' = brk + n
         /\ List!HandsOutNode(brk, r)
         /\ UNCHANGED <<first_node, outcome>>
  BY <1>1 DEF List!MallocAppend, NULL, List!NULL
<1>. QED  BY <1>2, <1>3, <1>4

LEMMA MallocKeeps ==
  ASSUME List!ListTypeOK, NEW S, OneHeap(S), outcome = "ok", NEW r \in ListRequest,
         List!my_bestfit_malloc(r)
  PROVE  /\ List!ListTypeOK' /\ (\E T : OneHeap(T)') /\ OneMoves
         /\ outcome' = "ok" \/ (outcome' = "crashed" /\ first_node' = List!FAILED)
<1>1. List!Rounded(r) \in Nat
  BY RoundedIs, SizesAre
<1>2. CASE UNCHANGED List!listvars
  <2>1. /\ first_node' = first_node /\ last_node' = last_node /\ node' = node
        /\ brk' = brk /\ live' = live /\ outcome' = outcome
    BY <1>2 DEF List!listvars
  <2>2. OneHeap(S)' /\ List!ListTypeOK'
    BY <2>1 DEF OneHeap, List!ListTypeOK
  <2>. QED  BY <2>1, <2>2 DEF OneMoves
<1>3. CASE List!MallocFirst(r)
  BY <1>3, FirstKeeps
<1>4. CASE first_node \in List!Addr /\ \E a \in List!Suitable(List!Rounded(r)) :
             List!MallocExact(a, r) \/ List!MallocSplit(a, r) \/ List!SplitCrashes(a, r)
  <2>1. PICK a \in List!Suitable(List!Rounded(r)) :
             List!MallocExact(a, r) \/ List!MallocSplit(a, r) \/ List!SplitCrashes(a, r)
    BY <1>4
  <2>2. a \in S /\ node[a].used = 0
    BY <1>1, SuitableIs
  <2>3. CASE List!MallocExact(a, r)
    BY <2>2, <2>3, ExactKeeps
  <2>4. CASE List!MallocSplit(a, r)
    <3>1. node[a].size > List!Rounded(r)
      BY <2>4 DEF List!MallocSplit
    <3>. QED  BY <2>2, <2>4, <3>1, SplitKeeps
  <2>5. CASE List!SplitCrashes(a, r)
    <3>1. node[a].size > List!Rounded(r) /\ node[a].next_node = NULL
      BY <2>5 DEF List!SplitCrashes, NULL, List!NULL
    <3>. QED  BY <2>2, <3>1, SplitKeeps
  <2>. QED  BY <2>1, <2>3, <2>4, <2>5
<1>5. CASE first_node \in List!Addr /\ List!Suitable(List!Rounded(r)) = {} /\ List!MallocAppend(r)
  <2>1. S # {}
    <3>1. ASSUME S = {} PROVE FALSE
      <4>1. first_node \in {NULL, List!FAILED}
        BY <3>1, NodesAt DEF OneHeap
      <4>. QED  BY <1>5, <4>1, ListLimitAssumption DEF NULL, List!FAILED, List!Addr
    <3>. QED  BY <3>1
  <2>. QED  BY <1>5, <2>1, AppendKeeps
<1>6. CASE first_node = List!FAILED /\ List!Crash
  <2>1. /\ first_node' = first_node /\ last_node' = last_node /\ node' = node
        /\ brk' = brk /\ live' = live /\ outcome' = "crashed"
    BY <1>6 DEF List!Crash
  <2>2. OneHeap(S)' /\ List!ListTypeOK'
    BY <2>1 DEF OneHeap, List!ListTypeOK
  <2>. QED  BY <1>6, <2>1, <2>2 DEF OneMoves
<1>. QED  BY <1>2, <1>3, <1>4, <1>5, <1>6 DEF List!my_bestfit_malloc

----------------------------------------------------------------------------
(* my_free                                                                 *)

\* What is left when block a is freed is a heap of the nodes T.
LEMMA FreedHeap ==
  ASSUME NEW S, OneHeap(S), NEW a \in DOMAIN live,
         live' = Restrict(live, DOMAIN live \ {a}), NEW T,
         \/ T = {} /\ brk' = 0 /\ first_node' \in {NULL, List!FAILED} /\ last_node' = NULL
         \/ /\ NodeSet(T, node', brk') /\ first_node' = 0
            /\ last_node' \in T /\ last_node' + node'[last_node'].size = brk'
            /\ node'[last_node'].used = 1,
         \A b \in T : node'[b].used = 0 /\ b + node'[b].size # brk'
                        => node'[b + node'[b].size].used = 1,
         \A b \in DOMAIN live \ {a} :
           b \in T /\ node'[b].used = 1 /\ node'[b].size = node[b].size,
         \A b \in T : node'[b].used = 1 => b \in DOMAIN live \ {a}
  PROVE  OneHeap(T)'
<1>1. DOMAIN live' = DOMAIN live \ {a} /\ \A b \in DOMAIN live \ {a} : live'[b] = live[b]
  BY DEF Restrict
<1>2. DOMAIN live' = {b \in T : node'[b].used = 1}
  BY <1>1
<1>3. \A b \in DOMAIN live' :
        live'[b].words = node'[b].size - 2 /\ live'[b].asked <= 8 * live'[b].words
  BY <1>1 DEF OneHeap
<1>. QED  BY <1>2, <1>3 DEF OneHeap

\* A block that is out is a node of the list.
LEMMA OutIs ==
  ASSUME List!ListTypeOK, NEW S, OneHeap(S), NEW a \in DOMAIN live
  PROVE  /\ a \in S /\ node[a].used = 1 /\ NodeSet(S, node, brk) /\ first_node = 0
         /\ last_node \in S /\ last_node + node[last_node].size = brk
         /\ node[last_node].used = 1
         /\ S \subseteq List!Addr /\ a \in Nat /\ node[a].size \in Nat
         /\ node[a].next_node = NULL <=> a + node[a].size = brk
         /\ a + node[a].size # brk =>
              /\ a + node[a].size \in S /\ node[a].next_node = a + node[a].size
              /\ node[a + node[a].size].previous_node = a
         /\ a = 0 => node[a].previous_node = NULL
         /\ a # 0 => node[a].previous_node \in S
<1>1. a \in S /\ node[a].used = 1
  BY DEF OneHeap
<1>2. /\ NodeSet(S, node, brk) /\ first_node = 0
      /\ last_node \in S /\ last_node + node[last_node].size = brk
      /\ node[last_node].used = 1
  BY <1>1 DEF OneHeap
<1>3. /\ S \subseteq List!Addr /\ a \in Nat /\ node[a].size \in Nat /\ a + node[a].size \in Nat
      /\ a + node[a].size # brk => a + node[a].size \in S
  BY <1>1, <1>2, NodesAt
<1>4. Joined(node, a, brk) /\ node[0].previous_node = NULL
  BY <1>1, <1>2 DEF NodeSet
<1>5. a # 0 => node[a].previous_node \in S
  BY <1>1, <1>2, NodeBefore
<1>. QED  BY <1>1, <1>2, <1>3, <1>4, <1>5 DEF Joined, NULL

\* A node between two used ones.
LEMMA AloneKeeps ==
  ASSUME List!ListTypeOK, NEW S, OneHeap(S), NEW a \in DOMAIN live, List!FreeAlone(a),
         live' = Restrict(live, DOMAIN live \ {a})
  PROVE  List!ListTypeOK' /\ (\E T : OneHeap(T)') /\ OneMoves /\ outcome' = outcome
<1>1. /\ node[a].next_node # NULL /\ node' = [node EXCEPT ![a].used = 0]
      /\ ~List!IsFree(node[a].previous_node) /\ ~List!IsFree(node[a].next_node)
      /\ first_node' = first_node /\ last_node' = last_node /\ brk' = brk /\ outcome' = outcome
  BY DEF List!FreeAlone, NULL, List!NULL
<1>2. /\ a \in S /\ node[a].used = 1 /\ NodeSet(S, node, brk) /\ first_node = 0
      /\ last_node \in S /\ last_node + node[last_node].size = brk
      /\ node[last_node].used = 1 /\ S \subseteq List!Addr
  BY OutIs
<1>3. PICK e \in S : e = a + node[a].size /\ node[a].next_node = e /\ e # brk /\ a # last_node
  BY <1>1, <1>2, OutIs
<1>4. /\ \A b \in S : /\ node'[b].size = node[b].size /\ node'[b].next_node = node[b].next_node
                      /\ node'[b].previous_node = node[b].previous_node
                      /\ node'[b].used = IF b = a THEN 0 ELSE node[b].used
      /\ node' \in [List!Addr -> List!NodeType]
  <2>1. node \in [List!Addr -> List!NodeType]
    BY DEF List!ListTypeOK
  <2>2. \A b \in S \ {a} : node'[b] = node[b]
    BY <1>1, <1>2, <2>1
  <2>3. node'[a] = [node[a] EXCEPT !.used = 0]
    BY <1>1, <1>2, <2>1
  <2>4. node[a] \in List!NodeType
    BY <1>2, <2>1
  <2>5. node'[a] \in List!NodeType
    BY <2>3, <2>4 DEF List!NodeType
  <2>6. node' \in [List!Addr -> List!NodeType]
    BY <1>1, <1>2, <2>1, <2>3, <2>5
  <2>7. /\ node'[a].size = node[a].size /\ node'[a].next_node = node[a].next_node
        /\ node'[a].previous_node = node[a].previous_node /\ node'[a].used = 0
    BY <2>3, <2>4 DEF List!NodeType
  <2>. QED  BY <2>2, <2>6, <2>7
<1>5. NodeSet(S, node', brk)
  BY <1>2, <1>4, SameNodes
<1>6. \/ S = {} /\ brk' = 0 /\ first_node' \in {NULL, List!FAILED} /\ last_node' = NULL
      \/ /\ NodeSet(S, node', brk') /\ first_node' = 0
         /\ last_node' \in S /\ last_node' + node'[last_node'].size = brk'
         /\ node'[last_node'].used = 1
  BY <1>1, <1>2, <1>3, <1>4, <1>5
<1>7. ASSUME NEW b \in S, node'[b].used = 0, b + node'[b].size # brk'
      PROVE  node'[b + node'[b].size].used = 1
  <2>1. PICK d : d = b + node[b].size
    OBVIOUS
  <2>2. d = b + node'[b].size /\ d # brk
    BY <1>1, <1>4, <1>7, <2>1
  <2>3. d \in S /\ node[d].previous_node = b /\ d # b /\ b # -1
    <3>1. d \in S /\ b \in Nat /\ b < d
      BY <1>2, <2>1, <2>2, NodesAt
    <3>2. Joined(node, b, brk)
      BY <1>2 DEF NodeSet
    <3>. QED  BY <2>1, <2>2, <3>1, <3>2 DEF Joined
  <2>4. d # a
    <3>1. ASSUME d = a PROVE FALSE
      <4>1. node[b].used = 0
        BY <1>4, <1>7, <2>3, <3>1
      <4>. QED  BY <1>1, <2>3, <3>1, <4>1 DEF List!IsFree, List!NULL
    <3>. QED  BY <3>1
  <2>5. node[d].used = 1
    <3>1. CASE b = a
      <4>1. node[d].used # 0 /\ d = e
        <5>1. d = e
          BY <1>3, <2>1, <3>1
        <5>2. e # -1
          BY <1>2, <1>3, NodesAt
        <5>. QED  BY <1>1, <1>3, <5>1, <5>2 DEF List!IsFree, List!NULL
      <4>2. node[d].used \in {0, 1}
        BY <1>2, <2>3, NodeTyped
      <4>. QED  BY <4>1, <4>2
    <3>2. CASE b # a
      <4>1. node[b].used = 0
        BY <1>4, <1>7, <3>2
      <4>. QED  BY <2>1, <2>2, <4>1 DEF OneHeap
    <3>. QED  BY <3>1, <3>2
  <2>. QED  BY <1>4, <2>2, <2>3, <2>4, <2>5
<1>8. DOMAIN live = {b \in S : node[b].used = 1}
  BY DEF OneHeap
<1>9. \A b \in DOMAIN live \ {a} :
        b \in S /\ node'[b].used = 1 /\ node'[b].size = node[b].size
  BY <1>4, <1>8
<1>10. \A b \in S : node'[b].used = 1 => b \in DOMAIN live \ {a}
  BY <1>4, <1>8
<1>11. OneHeap(S)'
  <2>. HIDE <1>1
  <2>. QED  BY <1>6, <1>7, <1>9, <1>10, FreedHeap
<1>12. List!ListTypeOK'
  BY <1>1, <1>4 DEF List!ListTypeOK
<1>13. OneMoves
  <2>1. brk' <= brk
    BY <1>1 DEF List!ListTypeOK
  <2>. QED  BY <2>1 DEF OneMoves
<1>. QED  BY <1>1, <1>11, <1>12, <1>13

\* The list ends at node l, or is empty.
EndsAt(l, k) ==
  /\ last_node' = l /\ brk' = k /\ first_node' = first_node /\ outcome' = outcome
  /\ node' = [node EXCEPT ![l].next_node = NULL]

LEMMA EndsAtIs ==
  ASSUME List!ListTypeOK, NEW S, NodeSet(S, node, brk), NEW l \in S, NEW k, EndsAt(l, k)
  PROVE  /\ \A b \in S :
              /\ node'[b].size = node[b].size /\ node'[b].used = node[b].used
              /\ node'[b].previous_node = node[b].previous_node
              /\ node'[b].next_node = IF b = l THEN NULL ELSE node[b].next_node
         /\ node' \in [List!Addr -> List!NodeType]
<1>1. node \in [List!Addr -> List!NodeType] /\ S \subseteq List!Addr
  BY DEF List!ListTypeOK, NodeSet
<1>2. node' = [node EXCEPT ![l].next_node = NULL]
  BY DEF EndsAt
<1>3. \A b \in S \ {l} : node'[b] = node[b]
  BY <1>1, <1>2
<1>4. node'[l] = [node[l] EXCEPT !.next_node = NULL]
  BY <1>1, <1>2
<1>5. node[l] \in List!NodeType
  BY <1>1
<1>6. node'[l] \in List!NodeType
  BY <1>4, <1>5 DEF List!NodeType, NULL, List!NULL
<1>7. node' \in [List!Addr -> List!NodeType]
  BY <1>1, <1>2, <1>4, <1>6
<1>8. /\ node'[l].size = node[l].size /\ node'[l].next_node = NULL
      /\ node'[l].previous_node = node[l].previous_node /\ node'[l].used = node[l].used
  BY <1>4, <1>5 DEF List!NodeType
<1>. QED  BY <1>3, <1>7, <1>8

\* The last node, and a free one before it, go back.
LEMMA LastKeeps ==
  ASSUME List!ListTypeOK, NEW S, OneHeap(S), NEW a \in DOMAIN live, List!FreeLast(a),
         live' = Restrict(live, DOMAIN live \ {a})
  PROVE  List!ListTypeOK' /\ (\E T : OneHeap(T)') /\ OneMoves /\ outcome' = outcome
<1>1. /\ a \in S /\ node[a].used = 1 /\ NodeSet(S, node, brk) /\ first_node = 0
      /\ S \subseteq List!Addr /\ a \in Nat /\ node[a].size \in Nat
  BY OutIs
<1>2. a + node[a].size = brk /\ brk \in Nat
  <2>1. node[a].next_node = NULL
    BY DEF List!FreeLast, NULL, List!NULL
  <2>. QED  BY <2>1, OutIs DEF List!ListTypeOK
<1>3. \A b \in S : b # a => b < a /\ b \in Nat
  BY <1>1, <1>2, OnlyLast, NodesAt
<1>4. DOMAIN live = {b \in S : node[b].used = 1}
  BY DEF OneHeap
<1>5. PICK p : p = node[a].previous_node
  OBVIOUS
\* Nothing is left.
<1>6. ASSUME \A b \in S \ {a} : node[b].used = 0,
             brk' = 0, last_node' = NULL, first_node' = NULL, node' = node, outcome' = outcome
      PROVE  List!ListTypeOK' /\ (\E T : OneHeap(T)') /\ OneMoves /\ outcome' = outcome
  <2>1. DOMAIN live \ {a} = {}
    BY <1>4, <1>6
  <2>2. OneHeap({})'
    <3>1. \/ {} = {} /\ brk' = 0 /\ first_node' \in {NULL, List!FAILED} /\ last_node' = NULL
          \/ /\ NodeSet({}, node', brk') /\ first_node' = 0
             /\ last_node' \in {} /\ last_node' + node'[last_node'].size = brk'
             /\ node'[last_node'].used = 1
      BY <1>6
    <3>. QED  BY <2>1, <3>1, FreedHeap
  <2>3. List!ListTypeOK'
    <3>1. 0 \in 0 .. ListLimit
      BY ListLimitAssumption
    <3>. QED  BY <1>6, <3>1 DEF List!ListTypeOK, NULL, List!NULL
  <2>4. brk' <= brk
    BY <1>2, <1>6
  <2>. QED  BY <1>6, <2>2, <2>3, <2>4 DEF OneMoves
\* What is left ends with a node in use.
<1>7. ASSUME NEW T, T \subseteq S, NEW l \in T, NEW k \in Nat, k <= brk, EndsAt(l, k),
             NodeSet(T, node', k), l + node[l].size = k, node[l].used = 1,
             a \notin T, \A b \in S \ T : b = a \/ node[b].used = 0
      PROVE  List!ListTypeOK' /\ (\E U : OneHeap(U)') /\ OneMoves /\ outcome' = outcome
  <2>1. /\ \A b \in S :
             /\ node'[b].size = node[b].size /\ node'[b].used = node[b].used
        /\ node' \in [List!Addr -> List!NodeType]
    BY <1>1, <1>7, EndsAtIs
  <2>2. last_node' = l /\ brk' = k /\ first_node' = 0 /\ outcome' = outcome
    BY <1>1, <1>7 DEF EndsAt
  <2>3. \/ T = {} /\ brk' = 0 /\ first_node' \in {NULL, List!FAILED} /\ last_node' = NULL
        \/ /\ NodeSet(T, node', brk') /\ first_node' = 0
           /\ last_node' \in T /\ last_node' + node'[last_node'].size = brk'
           /\ node'[last_node'].used = 1
    BY <1>7, <2>1, <2>2
  <2>4. ASSUME NEW b \in T, node'[b].used = 0, b + node'[b].size # brk'
        PROVE  node'[b + node'[b].size].used = 1
    <3>1. PICK d : d = b + node[b].size
      OBVIOUS
    <3>2. d = b + node'[b].size /\ node[b].used = 0 /\ b \in S
      BY <1>7, <2>1, <2>4, <3>1
    <3>3. d \in T
      BY <1>7, <2>2, <2>4, <3>2, NodesAt
    <3>4. d # brk
      <4>1. d \in Nat /\ d < d + node'[d].size /\ d + node'[d].size <= k /\ d + node'[d].size \in Nat
        BY <1>7, <3>3, NodesAt
      <4>. QED  BY <1>2, <1>7, <4>1
    <3>5. node[d].used = 1
      BY <3>1, <3>2, <3>4 DEF OneHeap
    <3>. QED  BY <1>7, <2>1, <3>2, <3>3, <3>5
  <2>5. \A b \in DOMAIN live \ {a} :
          b \in T /\ node'[b].used = 1 /\ node'[b].size = node[b].size
    BY <1>4, <1>7, <2>1
  <2>6. \A b \in T : node'[b].used = 1 => b \in DOMAIN live \ {a}
    BY <1>4, <1>7, <2>1
  <2>7. OneHeap(T)'
    BY <2>3, <2>4, <2>5, <2>6, FreedHeap
  <2>8. List!ListTypeOK'
    <3>1. brk \in 0 .. ListLimit /\ outcome \in {"ok", "crashed"}
      BY DEF List!ListTypeOK
    <3>4. k \in Nat /\ k <= brk
      BY <1>7
    <3>2. k \in 0 .. ListLimit
      BY <3>1, <3>4, ListLimitAssumption
    <3>3. l \in List!Addr /\ 0 \in List!Addr
      BY <1>1, <1>7, NodesAt
    <3>. QED  BY <2>1, <2>2, <3>1, <3>2, <3>3 DEF List!ListTypeOK
  <2>9. brk' <= brk
    BY <1>7, <2>2
  <2>. QED  BY <2>2, <2>7, <2>8, <2>9 DEF OneMoves
<1>8. CASE a = 0
  <2>1. p = NULL
    BY <1>5, <1>8, OutIs
  <2>2. List!Kept(a) = NULL /\ node[a].previous_node = NULL
    BY <1>5, <2>1 DEF List!Kept, List!IsFree, NULL, List!NULL
  <2>3. brk' = brk - (node[a].size + 0) /\ last_node' = NULL /\ first_node' = NULL
        /\ node' = node /\ outcome' = outcome
    BY <2>2 DEF List!FreeLast, NULL, List!NULL
  <2>4. brk' = 0
    BY <1>1, <1>2, <1>8, <2>3
  <2>5. S \ {a} = {}
    <3>1. \A b \in S : b = a
      BY <1>1, <1>3, <1>8
    <3>. QED  BY <3>1
  <2>. QED  BY <1>6, <2>3, <2>4, <2>5
<1>9. CASE a # 0
  <2>1. /\ p \in S /\ p < a /\ p \in Nat /\ p + node[p].size = a /\ node[p].size \in Nat
        /\ node[p].used \in {0, 1} /\ p # NULL /\ p # a
    <3>1. p \in S /\ p < a /\ p + node[p].size = a
      BY <1>1, <1>5, <1>9, NodeBefore
    <3>2. p \in Nat /\ node[p].size \in Nat /\ node[p].used \in {0, 1}
      BY <1>1, <3>1, NodesAt, NodeTyped
    <3>. QED  BY <1>1, <3>1, <3>2 DEF NULL
  <2>2. CASE node[p].used = 1
    <3>1. List!Kept(a) = p /\ node[a].previous_node = p
      BY <1>5, <2>2 DEF List!Kept, List!IsFree
    <3>2. brk' = brk - (node[a].size + 0) /\ EndsAt(p, brk')
      BY <2>1, <3>1 DEF List!FreeLast, EndsAt, NULL, List!NULL
    <3>3. brk' = a
      BY <1>1, <1>2, <3>2
    <3>4. EndsAt(p, a)
      BY <3>2, <3>3
    <3>5. Dropped(S, node, node', a)
      BY <1>1, <1>5, <2>1, <3>4, EndsAtIs DEF Dropped
    <3>6. NodeSet(S \ {a}, node', a)
      BY <1>1, <1>2, <1>9, <3>5, DropNode
    <3>7. a <= brk /\ S \ {a} \subseteq S /\ p \in S \ {a}
      BY <1>1, <1>2, <2>1
    <3>. QED  BY <1>1, <1>7, <2>1, <2>2, <3>4, <3>6, <3>7
  <2>3. CASE node[p].used = 0
    <3>1. node[a].previous_node = p /\ List!Kept(a) = node[p].previous_node
      BY <1>5, <2>1, <2>3 DEF List!Kept, List!IsFree, NULL, List!NULL
    <3>2. PICK q : q = node[p].previous_node
      OBVIOUS
    <3>3. CASE p = 0
      <4>1. q = NULL
        BY <1>1, <3>2, <3>3 DEF NodeSet
      <4>2. brk' = brk - (node[a].size + node[p].size) /\ last_node' = NULL /\ first_node' = NULL
            /\ node' = node /\ outcome' = outcome
        BY <2>1, <3>1, <3>2, <4>1 DEF List!FreeLast, NULL, List!NULL
      <4>3. brk' = 0
        BY <1>1, <1>2, <2>1, <3>3, <4>2
      <4>4. \A b \in S \ {a} : node[b].used = 0
        <5>1. ASSUME NEW b \in S \ {a} PROVE b = p
          <6>1. b < a /\ b \in Nat
            BY <1>3
          <6>2. p < b => a <= b
            BY <1>1, <2>1, NodesAt
          <6>. QED  BY <1>1, <2>1, <3>3, <6>1, <6>2
        <5>. QED  BY <2>3, <5>1
      <4>. QED  BY <1>6, <4>2, <4>3, <4>4
    <3>4. CASE p # 0
      <4>1. /\ q \in S /\ q < p /\ q \in Nat /\ q + node[q].size = p /\ q # NULL /\ q # p /\ q # a
            /\ node[q].used \in {0, 1} /\ node[q].size \in Nat
        <5>1. q \in S /\ q < p /\ q + node[q].size = p
          BY <1>1, <2>1, <3>2, <3>4, NodeBefore
        <5>2. q \in Nat /\ node[q].size \in Nat /\ node[q].used \in {0, 1}
          BY <1>1, <5>1, NodesAt, NodeTyped
        <5>. QED  BY <1>1, <2>1, <5>1, <5>2 DEF NULL
      <4>2. node[q].used = 1
        <5>1. q + node[q].size # brk
          BY <1>1, <1>2, <2>1, <4>1
        <5>2. node[q].used = 0 => node[p].used = 1
          BY <4>1, <5>1 DEF OneHeap
        <5>. QED  BY <2>3, <4>1, <5>2
      <4>3. brk' = brk - (node[a].size + node[p].size) /\ EndsAt(q, brk')
        BY <3>1, <3>2, <4>1 DEF List!FreeLast, EndsAt, NULL, List!NULL
      <4>4. brk' = p
        BY <1>1, <1>2, <2>1, <4>3
      <4>5. EndsAt(q, p)
        BY <4>3, <4>4
      <4>6. \A b \in S :
              /\ node'[b].size = node[b].size
              /\ node'[b].previous_node = node[b].previous_node
              /\ node'[b].next_node = IF b = q THEN NULL ELSE node[b].next_node
        BY <1>1, <4>1, <4>5, EndsAtIs
      <4>7. PICK g : g = [b \in List!Addr |->
                            IF b = p THEN List!NewNode(node[p].size, 0, node[p].previous_node, NULL)
                            ELSE node[b]]
        OBVIOUS
      <4>8. ASSUME NEW b \in S
            PROVE  /\ g[b].size = node[b].size
                   /\ g[b].previous_node = node[b].previous_node
                   /\ g[b].next_node = IF b = p THEN NULL ELSE node[b].next_node
        <5>1. CASE b = p
          <6>1. g[b] = List!NewNode(node[p].size, 0, node[p].previous_node, NULL)
            BY <1>1, <4>7, <5>1
          <6>. QED  BY <5>1, <6>1 DEF List!NewNode
        <5>2. CASE b # p
          <6>1. g[b] = node[b]
            BY <1>1, <4>7, <5>2
          <6>. QED  BY <5>2, <6>1
        <5>. QED  BY <5>1, <5>2
      <4>9. NodeSet(S \ {a}, g, a)
        <5>1. Dropped(S, node, g, a)
          BY <1>5, <4>8 DEF Dropped
        <5>. QED  BY <1>1, <1>2, <1>9, <5>1, DropNode
      <4>10. NodeSet((S \ {a}) \ {p}, node', p)
        <5>1. Dropped(S \ {a}, g, node', p)
          BY <2>1, <3>2, <4>6, <4>8 DEF Dropped
        <5>2. p \in S \ {a} /\ p + g[p].size = a
          BY <2>1, <4>8
        <5>. QED  BY <3>4, <4>9, <5>1, <5>2, DropNode
      <4>11. PICK T : T = (S \ {a}) \ {p}
        OBVIOUS
      <4>12. /\ T \subseteq S /\ q \in T /\ p \in Nat /\ p <= brk /\ a \notin T
             /\ \A b \in S \ T : b = a \/ node[b].used = 0
        BY <1>1, <1>2, <2>1, <2>3, <4>1, <4>11
      <4>. QED  BY <1>7, <4>1, <4>2, <4>5, <4>10, <4>11, <4>12
    <3>. QED  BY <3>3, <3>4
  <2>. QED  BY <2>1, <2>2, <2>3
<1>. QED  BY <1>8, <1>9

\* The node at base takes the place of all up to after, which is told.
JoinedUpTo(base, after, z) ==
  /\ node' = [node EXCEPT ![base] = List!NewNode(z, 0, node[base].previous_node, after),
                          ![after].previous_node = base]
  /\ UNCHANGED <<first_node, last_node, brk, outcome>>

LEMMA JoinedUpToIs ==
  ASSUME List!ListTypeOK, NEW S, S \subseteq List!Addr, NEW base \in S, NEW after \in S, base # after,
         NEW z \in Nat, JoinedUpTo(base, after, z)
  PROVE  /\ node'[base].size = z /\ node'[base].used = 0 /\ node'[base].next_node = after
         /\ node'[base].previous_node = node[base].previous_node
         /\ \A b \in S \ {base} :
              /\ node'[b].size = node[b].size /\ node'[b].used = node[b].used
              /\ node'[b].next_node = node[b].next_node
              /\ node'[b].previous_node = IF b = after THEN base ELSE node[b].previous_node
         /\ List!ListTypeOK'
<1>1. PICK X : X = List!NewNode(z, 0, node[base].previous_node, after)
  OBVIOUS
<1>2. PICK Z : Z = [node[after] EXCEPT !.previous_node = base]
  OBVIOUS
<1>3. node \in [List!Addr -> List!NodeType] /\ base \in List!Addr /\ after \in List!Addr
      /\ node[after] \in List!NodeType /\ node[base].previous_node \in List!Addr \cup {NULL}
  BY NodeTyped DEF List!ListTypeOK
<1>4. X \in List!NodeType /\ Z \in List!NodeType
  BY <1>1, <1>2, <1>3 DEF List!NewNode, List!NodeType, NULL, List!NULL
<1>5. node' = [b \in List!Addr |-> IF b = after THEN Z ELSE IF b = base THEN X ELSE node[b]]
  BY <1>1, <1>2, <1>3 DEF JoinedUpTo
<1>6. node' \in [List!Addr -> List!NodeType]
  BY <1>3, <1>4, <1>5
<1>7. node'[base] = X
  BY <1>3, <1>5
<1>8. ASSUME NEW b \in S \ {base}
      PROVE  /\ node'[b].size = node[b].size /\ node'[b].used = node[b].used
             /\ node'[b].next_node = node[b].next_node
             /\ node'[b].previous_node = IF b = after THEN base ELSE node[b].previous_node
  <2>1. CASE b = after
    <3>1. node'[b] = Z
      BY <1>3, <1>5, <2>1
    <3>. QED  BY <1>2, <1>3, <2>1, <3>1 DEF List!NodeType
  <2>2. CASE b # after
    <3>1. node'[b] = node[b]
      BY <1>5, <2>2
    <3>. QED  BY <2>2, <3>1
  <2>. QED  BY <2>1, <2>2
<1>9. List!ListTypeOK'
  BY <1>6 DEF List!ListTypeOK, JoinedUpTo
<1>. QED  BY <1>1, <1>7, <1>8, <1>9 DEF List!NewNode

\* A block is freed and joined with a free neighbour, or two: the heap of the
\* nodes left.
LEMMA MergedHeap ==
  ASSUME List!ListTypeOK, NEW S, OneHeap(S), NEW a \in DOMAIN live,
         live' = Restrict(live, DOMAIN live \ {a}),
         NEW base \in S, NEW after \in S, base # after, NEW z \in Nat, JoinedUpTo(base, after, z),
         base = a \/ node[base].used = 0, base # a => base = node[a].previous_node,
         base = a => ~List!IsFree(node[a].previous_node),
         node[after].used = 1, base + z = after,
         NEW T, T \subseteq S, NodeSet(T, node', brk), base \in T, a \in T => a = base,
         \A b \in S \ T : b = a \/ node[b].used = 0, a # last_node
  PROVE  List!ListTypeOK' /\ (\E U : OneHeap(U)') /\ OneMoves /\ outcome' = outcome
<1>1. /\ a \in S /\ node[a].used = 1 /\ NodeSet(S, node, brk) /\ first_node = 0
      /\ last_node \in S /\ last_node + node[last_node].size = brk
      /\ node[last_node].used = 1 /\ S \subseteq List!Addr /\ a \in Nat
  BY OutIs
<1>2. /\ node'[base].size = z /\ node'[base].used = 0
      /\ \A b \in S \ {base} :
           /\ node'[b].size = node[b].size /\ node'[b].used = node[b].used
      /\ List!ListTypeOK'
  BY <1>1, JoinedUpToIs
<1>3. first_node' = first_node /\ last_node' = last_node /\ brk' = brk /\ outcome' = outcome
  BY DEF JoinedUpTo
<1>4. last_node # base /\ last_node \in T
  BY <1>1
<1>5. DOMAIN live = {b \in S : node[b].used = 1}
  BY DEF OneHeap
<1>6. \/ T = {} /\ brk' = 0 /\ first_node' \in {NULL, List!FAILED} /\ last_node' = NULL
      \/ /\ NodeSet(T, node', brk') /\ first_node' = 0
         /\ last_node' \in T /\ last_node' + node'[last_node'].size = brk'
         /\ node'[last_node'].used = 1
  BY <1>1, <1>2, <1>3, <1>4
<1>7. ASSUME NEW b \in T, node'[b].used = 0, b + node'[b].size # brk'
      PROVE  node'[b + node'[b].size].used = 1
  <2>1. CASE b = base
    <3>1. b + node'[b].size = after
      BY <1>2, <2>1
    <3>. QED  BY <1>2, <3>1
  <2>2. CASE b # base
    <3>1. PICK d : d = b + node[b].size
      OBVIOUS
    <3>2. d = b + node'[b].size /\ d # brk /\ node[b].used = 0 /\ b \in S
      BY <1>2, <1>3, <1>7, <2>2, <3>1
    <3>3. d \in S /\ node[d].previous_node = b /\ b # -1
      <4>1. d \in S /\ b \in Nat
        BY <1>1, <3>1, <3>2, NodesAt
      <4>2. Joined(node, b, brk)
        BY <1>1, <3>2 DEF NodeSet
      <4>. QED  BY <3>1, <3>2, <4>1, <4>2 DEF Joined
    <3>4. node[d].used = 1
      BY <3>1, <3>2 DEF OneHeap
    <3>5. d # base
      <4>1. ASSUME d = base PROVE FALSE
        <5>1. base = a
          BY <3>4, <4>1
        <5>. QED  BY <3>2, <3>3, <4>1, <5>1 DEF List!IsFree, List!NULL
      <4>. QED  BY <4>1
    <3>. QED  BY <1>2, <3>2, <3>3, <3>4, <3>5
  <2>. QED  BY <2>1, <2>2
<1>8. \A b \in DOMAIN live \ {a} :
        b \in T /\ node'[b].used = 1 /\ node'[b].size = node[b].size
  <2>1. ASSUME NEW b \in DOMAIN live \ {a} PROVE b \in S /\ b # base /\ b \in T /\ node[b].used = 1
    BY <1>5
  <2>. QED  BY <1>2, <2>1
<1>9. \A b \in T : node'[b].used = 1 => b \in DOMAIN live \ {a}
  <2>1. ASSUME NEW b \in T, node'[b].used = 1 PROVE b \in DOMAIN live \ {a}
    <3>1. b # base /\ b \in S
      BY <1>2, <2>1
    <3>. QED  BY <1>2, <1>5, <2>1, <3>1
  <2>. QED  BY <2>1
<1>10. OneHeap(T)'
  BY <1>6, <1>7, <1>8, <1>9, FreedHeap
<1>11. OneMoves
  <2>1. brk' <= brk
    BY <1>3 DEF List!ListTypeOK
  <2>. QED  BY <2>1 DEF OneMoves
<1>. QED  BY <1>2, <1>3, <1>10, <1>11

\* A node with a free neighbour; the one after them exists, so it never crashes.
LEMMA MergedKeeps ==
  ASSUME List!ListTypeOK, NEW S, OneHeap(S), NEW a \in DOMAIN live, List!FreeMerged(a),
         live' = Restrict(live, DOMAIN live \ {a})
  PROVE  List!ListTypeOK' /\ (\E T : OneHeap(T)') /\ OneMoves /\ outcome' = outcome
<1>1. /\ a \in S /\ node[a].used = 1 /\ NodeSet(S, node, brk) /\ first_node = 0
      /\ last_node \in S /\ last_node + node[last_node].size = brk
      /\ node[last_node].used = 1 /\ S \subseteq List!Addr /\ a \in Nat /\ node[a].size \in Nat
  BY OutIs
<1>2. PICK p : p = node[a].previous_node
  OBVIOUS
<1>3. PICK e : e = node[a].next_node
  OBVIOUS
<1>4. PICK x \in Nat : x = node[a].size /\ x >= 4
  BY <1>1, NodesAt
<1>5. e # NULL /\ (List!IsFree(p) \/ List!IsFree(e))
  BY <1>2, <1>3 DEF List!FreeMerged, NULL, List!NULL
<1>6. e \in S /\ e = a + x /\ a + node[a].size # brk /\ a # last_node /\ e \in Nat /\ a # e /\ a < e
      /\ node[e].used \in {0, 1} /\ e # -1
  <2>1. a + node[a].size # brk /\ e \in S /\ e = a + x
    BY <1>3, <1>4, <1>5, OutIs
  <2>2. a < e /\ e \in Nat /\ e # -1
    BY <1>1, <1>4, <2>1
  <2>3. node[e].used \in {0, 1}
    BY <1>1, <2>1, NodeTyped
  <2>. QED  BY <1>1, <2>1, <2>2, <2>3
<1>7. List!IsFree(e) <=> node[e].used = 0
  BY <1>6 DEF List!IsFree, List!NULL
\* A free node after a is not the last.
<1>8. ASSUME node[e].used = 0
      PROVE  \E h \in S, y \in Nat :
               /\ y = node[e].size /\ h = e + y /\ y >= 4 /\ node[h].used = 1 /\ node[e].next_node = h
               /\ h \in Nat /\ h # e /\ h # a /\ h # NULL /\ e # last_node
  <2>1. e # last_node
    BY <1>1, <1>8
  <2>2. e + node[e].size # brk /\ e + node[e].size \in S
    BY <1>1, <1>6, <2>1, OnlyLast
  <2>3. node[e + node[e].size].used = 1
    BY <1>6, <1>8, <2>2 DEF OneHeap
  <2>4. Joined(node, e, brk)
    BY <1>1, <1>6 DEF NodeSet
  <2>5. node[e].next_node = e + node[e].size
    BY <2>2, <2>4 DEF Joined
  <2>6. PICK y \in Nat : y = node[e].size /\ y >= 4
    BY <1>1, <1>6, NodesAt
  <2>7. PICK h \in S : h = e + y
    BY <2>2, <2>6
  <2>8. h \in Nat /\ h # e /\ h # a /\ h # NULL
    BY <1>1, <1>6, <2>6, <2>7 DEF NULL
  <2>. QED  BY <2>1, <2>3, <2>5, <2>6, <2>7, <2>8
\* A free node before a.
<1>9. ASSUME List!IsFree(p)
      PROVE  \E w \in Nat :
               /\ p \in S /\ p \in Nat /\ p < a /\ w = node[p].size /\ p + w = a /\ w >= 4
               /\ node[p].used = 0 /\ p # a /\ p # NULL /\ p # last_node
  <2>1. p # NULL /\ node[p].used = 0
    BY <1>9 DEF List!IsFree, List!NULL, NULL
  <2>2. a # 0
    BY <1>2, <2>1, OutIs
  <2>3. p \in S /\ p < a /\ p + node[p].size = a
    BY <1>1, <1>2, <2>2, NodeBefore
  <2>4. PICK w \in Nat : w = node[p].size /\ w >= 4 /\ p \in Nat
    BY <1>1, <2>3, NodesAt
  <2>. QED  BY <1>1, <2>1, <2>3, <2>4
<1>10. CASE List!IsFree(p) /\ node[e].used = 0
  <2>1. PICK h \in S, y \in Nat :
           /\ y = node[e].size /\ h = e + y /\ y >= 4 /\ node[h].used = 1 /\ node[e].next_node = h
           /\ h \in Nat /\ h # e /\ h # a /\ h # NULL /\ e # last_node
    BY <1>8, <1>10
  <2>2. PICK w \in Nat :
           /\ p \in S /\ p \in Nat /\ p < a /\ w = node[p].size /\ p + w = a /\ w >= 4
           /\ node[p].used = 0 /\ p # a /\ p # NULL /\ p # last_node
    BY <1>9, <1>10
  <2>3. PICK z \in Nat : z = x + w + y
    OBVIOUS
  <2>4. p # h /\ p + z = h /\ p # e /\ p < e
    <3>1. a \in Nat /\ e = a + x /\ p + w = a /\ h = e + y /\ y >= 4 /\ w >= 4 /\ p \in Nat
      BY <1>1, <1>6, <2>1, <2>2
    <3>. QED  BY <2>3, <3>1
  <2>5. JoinedUpTo(p, h, z)
    <3>1. List!IsFree(p) /\ List!IsFree(e) /\ h # NULL
      BY <1>7, <1>10, <2>1
    <3>. QED  BY <1>2, <1>3, <1>4, <2>1, <2>2, <2>3, <3>1 DEF List!FreeMerged, JoinedUpTo, NULL, List!NULL
  <2>6. /\ node'[p].size = z /\ node'[p].next_node = h
        /\ node'[p].previous_node = node[p].previous_node
        /\ \A b \in S \ {p} :
             /\ node'[b].size = node[b].size /\ node'[b].next_node = node[b].next_node
             /\ node'[b].previous_node = IF b = h THEN p ELSE node[b].previous_node
    BY <1>1, <2>2, <2>4, <2>5, JoinedUpToIs
  <2>7. PICK g : g = [b \in List!Addr |->
                        IF b = a THEN List!NewNode(x + y, 0, p, h)
                        ELSE IF b = h THEN List!NewNode(node[h].size, 1, a, node[h].next_node)
                        ELSE node[b]]
    OBVIOUS
  <2>8. /\ g[a].size = x + y /\ g[a].next_node = h /\ g[a].previous_node = p
        /\ \A b \in S \ {a} :
             /\ g[b].size = node[b].size /\ g[b].next_node = node[b].next_node
             /\ g[b].previous_node = IF b = h THEN a ELSE node[b].previous_node
    <3>1. g[a] = List!NewNode(x + y, 0, p, h)
      BY <1>1, <2>7
    <3>2. ASSUME NEW b \in S \ {a}
          PROVE  /\ g[b].size = node[b].size /\ g[b].next_node = node[b].next_node
                 /\ g[b].previous_node = IF b = h THEN a ELSE node[b].previous_node
      <4>1. CASE b = h
        <5>1. g[b] = List!NewNode(node[h].size, 1, a, node[h].next_node)
          BY <1>1, <2>7, <4>1
        <5>. QED  BY <4>1, <5>1 DEF List!NewNode
      <4>2. CASE b # h
        <5>1. g[b] = node[b]
          BY <1>1, <2>7, <4>2
        <5>. QED  BY <4>2, <5>1
      <4>. QED  BY <4>1, <4>2
    <3>. QED  BY <3>1, <3>2 DEF List!NewNode
  <2>9. NodeSet(S \ {e}, g, brk)
    <3>1. Merged(S, node, g, a)
      BY <1>2, <1>4, <1>6, <2>1, <2>8 DEF Merged
    <3>2. NodeSet(S \ {a + node[a].size}, g, brk)
      BY <1>1, <3>1, JoinNodes
    <3>. QED  BY <1>4, <1>6, <3>2
  <2>10. NodeSet((S \ {e}) \ {a}, node', brk)
    <3>1. p + g[p].size = a /\ a + g[a].size = h
      <4>1. g[p].size = w
        BY <2>2, <2>8
      <4>2. a + (x + y) = h
        BY <1>1, <1>6, <2>1
      <4>. QED  BY <2>2, <2>8, <4>1, <4>2
    <3>2. g[p].size + g[a].size = z
      <4>1. g[p].size = w
        BY <2>2, <2>8
      <4>. QED  BY <2>3, <2>8, <4>1
    <3>3. a \in S \ {e} /\ h \in S \ {e} /\ p \in S \ {e}
      BY <1>1, <1>6, <2>1, <2>2, <2>4
    <3>4. \A b \in (S \ {e}) \ {p, a} :
            /\ node'[b].size = g[b].size /\ node'[b].next_node = g[b].next_node
            /\ node'[b].previous_node = IF b = h THEN p ELSE g[b].previous_node
      BY <2>6, <2>8
    <3>5. node'[p].previous_node = g[p].previous_node
      BY <2>2, <2>4, <2>6, <2>8
    <3>6. Merged(S \ {e}, g, node', p)
      BY <2>6, <3>1, <3>2, <3>3, <3>4, <3>5 DEF Merged
    <3>7. NodeSet((S \ {e}) \ {p + g[p].size}, node', brk)
      BY <2>9, <3>3, <3>6, JoinNodes
    <3>. QED  BY <3>1, <3>7
  <2>11. PICK T : T = (S \ {e}) \ {a}
    OBVIOUS
  <2>12. /\ T \subseteq S /\ NodeSet(T, node', brk) /\ p \in T /\ a \notin T
         /\ \A b \in S \ T : b = a \/ node[b].used = 0
    BY <1>10, <2>2, <2>4, <2>10, <2>11
  <2>20. /\ p = a \/ node[p].used = 0
         /\ p # a => p = node[a].previous_node
         /\ p = a => ~List!IsFree(node[a].previous_node)
    BY <1>2, <1>6, <2>1, <2>2, <2>4, <2>12
  <2>21. p \in S /\ h \in S /\ p # h /\ node[h].used = 1 /\ p + z = h
    BY <1>2, <1>6, <2>1, <2>2, <2>4, <2>12
  <2>22. T \subseteq S /\ NodeSet(T, node', brk) /\ p \in T
    BY <1>2, <1>6, <2>1, <2>2, <2>4, <2>12
  <2>23. (a \in T => a = p) /\ a # last_node
    BY <1>2, <1>6, <2>1, <2>2, <2>4, <2>12
  <2>24. \A b \in S \ T : b = a \/ node[b].used = 0
    BY <1>2, <1>6, <2>1, <2>2, <2>4, <2>12
  <2>. QED  BY <2>5, <2>20, <2>21, <2>22, <2>23, <2>24, MergedHeap
<1>11. CASE List!IsFree(p) /\ node[e].used = 1
  <2>2. PICK w \in Nat :
           /\ p \in S /\ p \in Nat /\ p < a /\ w = node[p].size /\ p + w = a /\ w >= 4
           /\ node[p].used = 0 /\ p # a /\ p # NULL /\ p # last_node
    BY <1>9, <1>11
  <2>3. PICK z \in Nat : z = x + w + 0
    OBVIOUS
  <2>4. p # e /\ p + z = e /\ w + x = z
    BY <1>1, <1>6, <2>2, <2>3
  <2>5. JoinedUpTo(p, e, z)
    <3>1. List!IsFree(p) /\ ~List!IsFree(e)
      BY <1>7, <1>11
    <3>. QED  BY <1>2, <1>3, <1>4, <1>5, <2>2, <2>3, <3>1 DEF List!FreeMerged, JoinedUpTo, NULL, List!NULL
  <2>6. /\ node'[p].size = z /\ node'[p].next_node = e
        /\ node'[p].previous_node = node[p].previous_node
        /\ \A b \in S \ {p} :
             /\ node'[b].size = node[b].size /\ node'[b].next_node = node[b].next_node
             /\ node'[b].previous_node = IF b = e THEN p ELSE node[b].previous_node
    BY <1>1, <1>6, <2>2, <2>4, <2>5, JoinedUpToIs
  <2>7. NodeSet(S \ {a}, node', brk)
    <3>1. p + node[p].size = a /\ a + node[a].size = e /\ node[p].size + node[a].size = z
      BY <1>4, <1>6, <2>2, <2>4
    <3>2. Merged(S, node, node', p)
      BY <1>1, <1>6, <2>6, <3>1 DEF Merged
    <3>3. NodeSet(S \ {p + node[p].size}, node', brk)
      BY <1>1, <2>2, <3>2, JoinNodes
    <3>. QED  BY <3>1, <3>3
  <2>8. PICK T : T = S \ {a}
    OBVIOUS
  <2>9. /\ T \subseteq S /\ NodeSet(T, node', brk) /\ p \in T /\ a \notin T
        /\ \A b \in S \ T : b = a \/ node[b].used = 0
    BY <2>2, <2>7, <2>8
  <2>20. /\ p = a \/ node[p].used = 0
         /\ p # a => p = node[a].previous_node
         /\ p = a => ~List!IsFree(node[a].previous_node)
    BY <1>2, <1>6, <1>11, <2>2, <2>4, <2>9
  <2>21. p \in S /\ e \in S /\ p # e /\ node[e].used = 1 /\ p + z = e
    BY <1>2, <1>6, <1>11, <2>2, <2>4, <2>9
  <2>22. T \subseteq S /\ NodeSet(T, node', brk) /\ p \in T
    BY <1>2, <1>6, <1>11, <2>2, <2>4, <2>9
  <2>23. (a \in T => a = p) /\ a # last_node
    BY <1>2, <1>6, <1>11, <2>2, <2>4, <2>9
  <2>24. \A b \in S \ T : b = a \/ node[b].used = 0
    BY <1>2, <1>6, <1>11, <2>2, <2>4, <2>9
  <2>. QED  BY <2>5, <2>20, <2>21, <2>22, <2>23, <2>24, MergedHeap
<1>12. CASE ~List!IsFree(p) /\ node[e].used = 0
  <2>1. PICK h \in S, y \in Nat :
           /\ y = node[e].size /\ h = e + y /\ y >= 4 /\ node[h].used = 1 /\ node[e].next_node = h
           /\ h \in Nat /\ h # e /\ h # a /\ h # NULL /\ e # last_node
    BY <1>8, <1>12
  <2>3. PICK z \in Nat : z = x + 0 + y
    OBVIOUS
  <2>4. a + z = h /\ x + y = z
    BY <1>1, <1>6, <2>1, <2>3
  <2>5. JoinedUpTo(a, h, z)
    <3>1. ~List!IsFree(p) /\ List!IsFree(e) /\ h # NULL
      BY <1>7, <1>12, <2>1
    <3>. QED  BY <1>2, <1>3, <1>4, <2>1, <2>3, <3>1 DEF List!FreeMerged, JoinedUpTo, NULL, List!NULL
  <2>6. /\ node'[a].size = z /\ node'[a].next_node = h
        /\ node'[a].previous_node = node[a].previous_node
        /\ \A b \in S \ {a} :
             /\ node'[b].size = node[b].size /\ node'[b].next_node = node[b].next_node
             /\ node'[b].previous_node = IF b = h THEN a ELSE node[b].previous_node
    BY <1>1, <2>1, <2>5, JoinedUpToIs
  <2>7. NodeSet(S \ {e}, node', brk)
    <3>1. a + node[a].size = e /\ e + node[e].size = h /\ node[a].size + node[e].size = z
      BY <1>4, <1>6, <2>1, <2>4
    <3>2. Merged(S, node, node', a)
      BY <1>6, <2>1, <2>6, <3>1 DEF Merged
    <3>3. NodeSet(S \ {a + node[a].size}, node', brk)
      BY <1>1, <3>2, JoinNodes
    <3>. QED  BY <3>1, <3>3
  <2>8. PICK T : T = S \ {e}
    OBVIOUS
  <2>9. /\ T \subseteq S /\ NodeSet(T, node', brk) /\ a \in T
        /\ \A b \in S \ T : b = a \/ node[b].used = 0
    BY <1>1, <1>6, <1>12, <2>7, <2>8
  <2>20. /\ a = a \/ node[a].used = 0
         /\ a # a => a = node[a].previous_node
         /\ a = a => ~List!IsFree(node[a].previous_node)
    BY <1>1, <1>2, <1>6, <1>12, <2>1, <2>4, <2>9
  <2>21. a \in S /\ h \in S /\ a # h /\ node[h].used = 1 /\ a + z = h
    BY <1>1, <1>2, <1>6, <1>12, <2>1, <2>4, <2>9
  <2>22. T \subseteq S /\ NodeSet(T, node', brk) /\ a \in T
    BY <1>1, <1>2, <1>6, <1>12, <2>1, <2>4, <2>9
  <2>23. (a \in T => a = a) /\ a # last_node
    BY <1>1, <1>2, <1>6, <1>12, <2>1, <2>4, <2>9
  <2>24. \A b \in S \ T : b = a \/ node[b].used = 0
    BY <1>1, <1>2, <1>6, <1>12, <2>1, <2>4, <2>9
  <2>. QED  BY <2>5, <2>20, <2>21, <2>22, <2>23, <2>24, MergedHeap
<1>. QED  BY <1>5, <1>6, <1>7, <1>10, <1>11, <1>12

\* The node after the joined ones exists.
LEMMA MergedExists ==
  ASSUME List!ListTypeOK, NEW S, OneHeap(S), NEW a \in DOMAIN live, List!FreeMerged(a)
  PROVE  outcome' = outcome
<1>1. /\ a \in S /\ NodeSet(S, node, brk)
      /\ last_node \in S /\ last_node + node[last_node].size = brk
      /\ node[last_node].used = 1
  BY OutIs
<1>2. PICK e : e = node[a].next_node
  OBVIOUS
<1>3. e # NULL
  BY <1>2 DEF List!FreeMerged, NULL, List!NULL
<1>4. e \in S /\ e \in Nat
  <2>1. e \in S
    BY <1>2, <1>3, OutIs
  <2>. QED  BY <1>1, <2>1, NodesAt
<1>5. List!IsFree(e) => node[e].next_node # NULL
  <2>1. ASSUME List!IsFree(e) PROVE node[e].next_node # NULL
    <3>1. e # last_node
      BY <1>1, <2>1 DEF List!IsFree
    <3>2. e + node[e].size # brk /\ e + node[e].size \in S
      BY <1>1, <1>4, <3>1, OnlyLast
    <3>3. Joined(node, e, brk) /\ e + node[e].size \in Nat
      BY <1>1, <1>4, <3>2, NodesAt DEF NodeSet
    <3>. QED  BY <3>2, <3>3 DEF Joined, NULL
  <2>. QED  BY <2>1
<1>6. (IF List!IsFree(e) THEN node[e].next_node ELSE e) # NULL
  BY <1>3, <1>5
<1>7. UNCHANGED <<first_node, last_node, brk, outcome>>
      \/ (IF List!IsFree(e) THEN node[e].next_node ELSE e) = NULL
  BY <1>2 DEF List!FreeMerged, NULL, List!NULL
<1>. QED  BY <1>6, <1>7

LEMMA FreeKeeps ==
  ASSUME List!ListTypeOK, NEW S, OneHeap(S), NEW a, outcome = "ok", List!my_free(a)
  PROVE  /\ List!ListTypeOK' /\ (\E T : OneHeap(T)') /\ OneMoves
         /\ outcome' = "ok"
<1>1. a \in DOMAIN live
  BY DEF List!my_free
<1>2. List!FreeLast(a) \/ List!FreeAlone(a) \/ List!FreeMerged(a)
  BY DEF List!my_free
<1>3. outcome' = "ok" => live' = Restrict(live, DOMAIN live \ {a})
  BY DEF List!my_free, List!Restrict, Restrict
<1>4. CASE outcome' = "ok"
  BY <1>1, <1>2, <1>3, <1>4, LastKeeps, AloneKeeps, MergedKeeps
<1>5. CASE outcome' # "ok"
  <2>1. outcome' = outcome \/ List!FreeMerged(a)
    BY <1>2 DEF List!FreeLast, List!FreeAlone
  <2>2. List!FreeMerged(a)
    BY <1>5, <2>1
  <2>3. FALSE
    BY <1>1, <1>5, <2>2, MergedExists
  <2>. QED  BY <2>3
<1>. QED  BY <1>4, <1>5

----------------------------------------------------------------------------
(* The invariant of one list                                               *)

OneInv ==
  /\ List!ListTypeOK
  /\ \E S : OneHeap(S)
  /\ outcome = "crashed" => first_node = List!FAILED

LEMMA OneInit == List!ListInit => OneInv
<1>. SUFFICES ASSUME List!ListInit PROVE OneInv
  OBVIOUS
<1>1. /\ first_node = NULL /\ last_node = NULL /\ brk = 0 /\ live = <<>> /\ outcome = "ok"
      /\ node = [a \in List!Addr |-> List!NewNode(0, 0, NULL, NULL)]
  BY DEF List!ListInit, NULL, List!NULL
<1>2. List!ListTypeOK
  <2>1. List!NewNode(0, 0, NULL, NULL) \in List!NodeType
    BY DEF List!NewNode, List!NodeType, NULL, List!NULL
  <2>2. node \in [List!Addr -> List!NodeType]
    BY <1>1, <2>1
  <2>3. 0 \in 0 .. ListLimit
    BY ListLimitAssumption
  <2>. QED  BY <1>1, <2>2, <2>3 DEF List!ListTypeOK, NULL, List!NULL
<1>3. DOMAIN live = {}
  BY <1>1
<1>4. OneHeap({})
  BY <1>1, <1>3 DEF OneHeap
<1>. QED  BY <1>1, <1>2, <1>4 DEF OneInv

LEMMA OneStep ==
  ASSUME OneInv, OneList, [AllocNext]_allocvars
  PROVE  OneInv' /\ OneList' /\ OneMoves
<1>1. PICK S : OneHeap(S)
  BY DEF OneInv
<1>2. List!ListTypeOK
  BY DEF OneInv
<1>3. CASE /\ first_node' = first_node /\ last_node' = last_node /\ node' = node
           /\ brk' = brk /\ live' = live /\ outcome' = outcome /\ linked' = linked
  <2>1. OneHeap(S)' /\ List!ListTypeOK'
    BY <1>1, <1>2, <1>3 DEF OneHeap, List!ListTypeOK
  <2>2. (outcome = "crashed" => first_node = List!FAILED)'
    BY <1>3 DEF OneInv
  <2>. QED  BY <1>3, <2>1, <2>2 DEF OneInv, OneList, OneMoves
<1>4. CASE List!ListNext /\ linked' = linked
  <2>1. CASE List!Dead
    BY <1>3, <1>4, <2>1 DEF List!Dead, List!listvars
  <2>2. ASSUME NEW r \in ListRequest, List!my_bestfit_malloc(r) PROVE OneInv' /\ OneMoves
    <3>1. outcome = "ok"
      BY <2>2 DEF List!my_bestfit_malloc, List!Running
    <3>2. /\ List!ListTypeOK' /\ (\E T : OneHeap(T)') /\ OneMoves
          /\ outcome' = "ok" \/ (outcome' = "crashed" /\ first_node' = List!FAILED)
      BY <1>1, <1>2, <2>2, <3>1, MallocKeeps
    <3>. QED  BY <3>2 DEF OneInv
  <2>3. ASSUME NEW a, List!my_free(a) PROVE OneInv' /\ OneMoves
    <3>1. outcome = "ok"
      BY <2>3 DEF List!my_free, List!Running
    <3>2. /\ List!ListTypeOK' /\ (\E T : OneHeap(T)') /\ OneMoves
          /\ outcome' = "ok"
      BY <1>1, <1>2, <2>3, <3>1, FreeKeeps
    <3>. QED  BY <3>2 DEF OneInv
  <2>4. OneInv' /\ OneMoves
    BY <1>4, <2>1, <2>2, <2>3 DEF List!ListNext
  <2>. QED  BY <1>4, <2>4 DEF OneList
<1>5. CASE UNCHANGED allocvars
  BY <1>3, <1>5 DEF allocvars, heapvars, liststate
<1>. QED  BY <1>3, <1>4, <1>5 DEF AllocNext, OneList, HeadLost

----------------------------------------------------------------------------
(* The invariant of whichever is linked, and what it says                  *)

AllocInv ==
  \/ linked \in {"first_fit", "best_fit"} /\ FreeInv
  \/ OneList /\ OneInv

LEMMA LinkedIs ==
  /\ OneList <=> linked = "one_list"
  /\ linked \in {"first_fit", "best_fit"} => ~OneList
BY DEF OneList

LEMMA AllocInvInit == AllocInit => AllocInv
<1>1. ASSUME linked \in {"first_fit", "best_fit"}, HeapInit PROVE AllocInv
  BY <1>1, FreeInit DEF AllocInv
<1>2. ASSUME linked = "one_list", List!ListInit PROVE AllocInv
  BY <1>2, OneInit DEF AllocInv, OneList
<1>. QED  BY <1>1, <1>2 DEF AllocInit

LEMMA AllocInvStep == AllocInv /\ [AllocNext]_allocvars => AllocInv'
<1>. SUFFICES ASSUME AllocInv, [AllocNext]_allocvars PROVE AllocInv'
  OBVIOUS
<1>1. CASE linked \in {"first_fit", "best_fit"} /\ FreeInv
  <2>1. FreeInv' /\ linked' = linked
    BY <1>1, FreeStep
  <2>. QED  BY <1>1, <2>1 DEF AllocInv
<1>2. CASE OneList /\ OneInv
  <2>1. OneInv' /\ OneList'
    BY <1>2, OneStep
  <2>. QED  BY <2>1 DEF AllocInv
<1>. QED  BY <1>1, <1>2 DEF AllocInv

LEMMA AllocInvHolds == AllocSpec => []AllocInv
BY AllocInvInit, AllocInvStep, PTL DEF AllocSpec

\* What the invariant of the free lists says of the heap.
LEMMA FreeSays ==
  ASSUME FreeInv, ~(head \in DOMAIN live)
  PROVE  TopIsLast /\ HeapTiled
<1>1. TypeOK
  BY DEF FreeInv
<1>2. CASE outcome = "aborted" /\ TopIsLast
  BY <1>2 DEF HeapTiled
<1>3. CASE \E L : Heap(L)
  <2>1. PICK L : Heap(L)
    BY <1>3
  <2>2. FreeList = L /\ TopIsLast
    BY <1>1, <2>1, FreeListIs, TopIs
  <2>3. PICK S : S = FreeNodes \cup DOMAIN live
    OBVIOUS
  <2>4. /\ FreeNodes \cap DOMAIN live = {}
        /\ Tiles(S, Ends, brk) /\ S \subseteq Addr
    BY <1>1, <2>1, <2>2, <2>3 DEF Heap, Listed, FreeNodes, TypeOK
  <2>5. \A a \in S : Span(a) = a .. Ends[a] - 1
    BY <2>4 DEF Span, Ends
  <2>6. UNION {Span(a) : a \in S} = 0 .. brk - 1
    <3>1. {Span(a) : a \in S} = {a .. Ends[a] - 1 : a \in S}
      BY <2>5
    <3>. QED  BY <2>4, <3>1, TilesCover
  <2>7. ASSUME NEW a \in S, NEW c \in S, a # c
        PROVE  Span(a) \cap Span(c) = {}
    <3>1. (a .. Ends[a] - 1) \cap (c .. Ends[c] - 1) = {}
      BY <2>4, <2>7, TilesApart
    <3>2. Span(a) = a .. Ends[a] - 1 /\ Span(c) = c .. Ends[c] - 1
      BY <2>5
    <3>. QED  BY <3>1, <3>2
  <2>. QED  BY <2>2, <2>3, <2>4, <2>6, <2>7 DEF HeapTiled
<1>. QED  BY <1>2, <1>3 DEF FreeInv

\* What the invariant of one list says of the list.
LEMMA OneSays ==
  ASSUME OneInv
  PROVE  /\ List!ListTiled /\ List!ListInOrder
         /\ \A b \in DOMAIN live :
              /\ node[b].used = 1 /\ node[b].size = live[b].words + 2
              /\ live[b].asked <= 8 * live[b].words
<1>1. List!ListTypeOK
  BY DEF OneInv
<1>2. PICK S : OneHeap(S)
  BY DEF OneInv
<1>3. PICK L : L = List!Nodes
  OBVIOUS
<1>4. /\ List!Range(L) = S /\ List!FreeOnes = {a \in S : node[a].used = 0}
      /\ S \subseteq Nat /\ S \subseteq List!Addr
      /\ S = {} => L = <<>>
      /\ S # {} => InOrder(L, S)
  BY <1>1, <1>2, <1>3, ListNodesIs
<1>5. \A a \in S : node[a].used \in {0, 1} /\ node[a].size \in Nat
  BY <1>1, <1>4, NodeTyped
<1>6. /\ \A a \in S : node[a].used = 0 /\ a + node[a].size # brk
                    => node[a + node[a].size].used = 1
      /\ DOMAIN live = {a \in S : node[a].used = 1}
      /\ \A b \in DOMAIN live :
           live[b].words = node[b].size - 2 /\ live[b].asked <= 8 * live[b].words
  BY <1>2 DEF OneHeap
<1>7. List!Range(L) \ List!FreeOnes = DOMAIN live
  <2>1. PICK free : free = List!FreeOnes
    OBVIOUS
  <2>2. free = {a \in S : node[a].used = 0}
    BY <1>4, <2>1
  <2>3. \A a \in S : node[a].used # 0 <=> node[a].used = 1
    BY <1>5
  <2>4. S \ free = {a \in S : node[a].used = 1}
    BY <2>2, <2>3
  <2>. QED  BY <1>4, <1>6, <2>1, <2>4
<1>8. ASSUME NEW b \in DOMAIN live
      PROVE  /\ node[b].used = 1 /\ node[b].size = live[b].words + 2
             /\ live[b].asked <= 8 * live[b].words
  <2>1. PICK z \in Nat : z = node[b].size
    BY <1>5, <1>6
  <2>2. node[b].used = 1 /\ live[b].words = z - 2 /\ live[b].asked <= 8 * live[b].words
    BY <1>6, <2>1
  <2>. QED  BY <2>1, <2>2
<1>9. CASE S = {}
  <2>1. L = <<>> /\ Len(L) = 0
    BY <1>4, <1>9
  <2>2. brk = 0 /\ last_node = NULL
    BY <1>2, <1>9, NodesAt DEF OneHeap
  <2>3. \A i \in 1 .. Len(L) : FALSE
    BY <2>1
  <2>4. \A i \in 1 .. Len(L) - 1 : FALSE
    BY <2>1
  <2>5. List!ListTiled
    BY <1>3, <1>7, <2>1, <2>2, <2>3 DEF List!ListTiled
  <2>6. List!ListInOrder
    BY <1>3, <2>1, <2>2, <2>3, <2>4 DEF List!ListInOrder, List!IsFree, NULL, List!NULL
  <2>. QED  BY <1>8, <2>5, <2>6
<1>10. CASE S # {}
  <2>1. /\ L \in Seq(Nat) /\ Len(L) \in Nat /\ Len(L) >= 1 /\ L[1] = 0
        /\ \A i \in 1 .. Len(L) : L[i] \in S
        /\ \A i \in 1 .. Len(L) - 1 :
             L[i] + node[L[i]].size = L[i + 1] /\ node[L[i + 1]].previous_node = L[i]
        /\ L[Len(L)] + node[L[Len(L)]].size = brk
        /\ \A x \in S : \E i \in 1 .. Len(L) : L[i] = x
    <3>1. InOrder(L, S) /\ Range(L) = S /\ L \in Seq(Nat)
      BY <1>4, <1>10 DEF InOrder
    <3>2. \A x \in S : \E i \in 1 .. Len(L) : L[i] = x
      BY <3>1, RangeIs
    <3>. QED  BY <3>1, <3>2 DEF InOrder
  <2>2. /\ NodeSet(S, node, brk)
        /\ last_node \in S /\ last_node + node[last_node].size = brk
        /\ node[last_node].used = 1
    BY <1>2, <1>10 DEF OneHeap
  <2>3. L # <<>>
    BY <2>1
  <2>4. \A i \in 1 .. Len(L) :
          L[i] + node[L[i]].size = IF i = Len(L) THEN brk ELSE L[i + 1]
    <3>1. \A i \in 1 .. Len(L) : i # Len(L) => i \in 1 .. Len(L) - 1
      BY <2>1
    <3>. QED  BY <2>1, <3>1
  <2>5. List!ListTiled
    BY <1>3, <1>7, <2>1, <2>3, <2>4 DEF List!ListTiled
  <2>6. \A i \in 1 .. Len(L) :
          node[L[i]].previous_node = IF i = 1 THEN NULL ELSE L[i - 1]
    <3>1. ASSUME NEW i \in 1 .. Len(L), i # 1 PROVE node[L[i]].previous_node = L[i - 1]
      <4>1. PICK q \in 1 .. Len(L) - 1 : q = i - 1 /\ q + 1 = i
        BY <2>1, <3>1
      <4>. QED  BY <2>1, <4>1
    <3>2. node[L[1]].previous_node = NULL
      BY <2>1, <2>2 DEF NodeSet
    <3>. QED  BY <3>1, <3>2
  <2>7. ASSUME NEW i \in 1 .. Len(L) - 1 PROVE ~(List!IsFree(L[i]) /\ List!IsFree(L[i + 1]))
    <3>1. /\ i \in 1 .. Len(L) /\ i + 1 \in 1 .. Len(L)
          /\ L[i] \in S /\ L[i + 1] \in S
          /\ L[i] + node[L[i]].size = L[i + 1]
      <4>1. PICK m \in Nat : m = Len(L)
        BY <2>1
      <4>2. i \in 1 .. m /\ i + 1 \in 1 .. m
        BY <4>1
      <4>. QED  BY <2>1, <4>1, <4>2
    <3>2. L[i + 1] # brk
      <4>1. PICK b \in S : b = L[i + 1]
        BY <3>1
      <4>2. b \in Nat /\ b < b + node[b].size /\ b + node[b].size <= brk
            /\ b + node[b].size \in Nat /\ brk \in Nat
        BY <2>2, NodesAt
      <4>. QED  BY <4>1, <4>2
    <3>3. node[L[i]].used = 0 => node[L[i + 1]].used = 1
      BY <1>6, <3>1, <3>2
    <3>. QED  BY <3>3 DEF List!IsFree
  <2>8. last_node = L[Len(L)]
    <3>1. L[Len(L)] \in S
      BY <2>1
    <3>. QED  BY <2>1, <2>2, <3>1, OnlyLast
  <2>9. List!ListInOrder
    <3>1. ~List!IsFree(last_node)
      BY <2>2 DEF List!IsFree
    <3>. QED  BY <1>3, <2>3, <2>6, <2>7, <2>8, <3>1 DEF List!ListInOrder, NULL, List!NULL
  <2>. QED  BY <1>8, <2>5, <2>9
<1>. QED  BY <1>9, <1>10

----------------------------------------------------------------------------
(* The invariants the runs check                                           *)

LEMMA InvTyped == AllocInv => AllocTypeOK
<1>1. ASSUME linked \in {"first_fit", "best_fit"}, FreeInv PROVE AllocTypeOK
  BY <1>1 DEF AllocTypeOK, OneList, FreeInv
<1>2. ASSUME OneList, OneInv PROVE AllocTypeOK
  BY <1>2 DEF AllocTypeOK, OneList, OneInv
<1>. QED  BY <1>1, <1>2 DEF AllocInv

\* Every variable keeps its type, whichever allocator is linked.
THEOREM AllocatorsTyped == AllocSpec => []AllocTypeOK
BY AllocInvHolds, InvTyped, PTL

LEMMA InvTiled == AllocInv => Tiled /\ EndsAsAssumed
<1>1. ASSUME linked \in {"first_fit", "best_fit"}, FreeInv
      PROVE  Tiled /\ EndsAsAssumed
  <2>1. ~OneList
    BY <1>1 DEF OneList
  <2>2. CASE HeadLost
    BY <2>1, <2>2 DEF Tiled, EndsAsAssumed
  <2>3. CASE ~HeadLost
    <3>1. ~(head \in DOMAIN live)
      BY <1>1, <2>3 DEF HeadLost
    <3>2. TopIsLast /\ HeapTiled
      BY <1>1, <3>1, FreeSays
    <3>. QED  BY <2>1, <2>3, <3>2 DEF Tiled, EndsAsAssumed
  <2>. QED  BY <2>2, <2>3
<1>2. ASSUME OneList, OneInv
      PROVE  Tiled /\ EndsAsAssumed
  <2>1. ~HeadLost
    BY <1>2 DEF OneList, HeadLost
  <2>2. List!ListTiled /\ List!ListInOrder
    BY <1>2, OneSays
  <2>. QED  BY <1>2, <2>1, <2>2 DEF Tiled, EndsAsAssumed
<1>. QED  BY <1>1, <1>2 DEF AllocInv

\* Blocks and free memory tile the heap through every call of every allocator,
\* on heaps of any size and with any requests.
THEOREM HeapsAreTiled == AllocSpec => []Tiled
BY AllocInvHolds, InvTiled, PTL

\* Every list is in order and ends as the code relies on without a test.
THEOREM ListsEndAsAssumed == AllocSpec => []EndsAsAssumed
BY AllocInvHolds, InvTiled, PTL

\* A tile is no longer than the heap, and the heap not too long for an int.
LEMMA SizesFit ==
  ASSUME FreeInv, ~(head \in DOMAIN live)
  PROVE  SizesAreInts
<1>1. TypeOK /\ Blocks
  BY DEF FreeInv
<1>2. CASE outcome = "aborted"
  BY <1>2 DEF SizesAreInts
<1>3. CASE \E L : Heap(L)
  <2>1. PICK L : Heap(L)
    BY <1>3
  <2>2. FreeList = L
    BY <1>1, <2>1, FreeListIs
  <2>3. /\ Tiles(FreeNodes \cup DOMAIN live, Ends, brk)
        /\ FreeNodes \cup DOMAIN live \subseteq Addr
    BY <1>1, <2>1, <2>2 DEF Heap, Listed, FreeNodes, TypeOK
  <2>4. brk \in Nat /\ brk <= HeapLimit
    BY <1>1, HeapLimitAssumption DEF TypeOK, Addr
  <2>5. ASSUME NEW a \in FreeNodes \cup DOMAIN live
        PROVE  2 * (8 * size[a]) < UIntMod
    <3>1. PICK s \in Nat : s = size[a]
      BY <1>1, <2>3 DEF TypeOK
    <3>2. a \in Nat /\ Ends[a] <= brk /\ Ends[a] \in Nat
      BY <2>3 DEF Tiles
    <3>3. Ends[a] >= s + 1
      <4>1. Ends[a] = a + 1 + s \/ Ends[a] = a + 2 + s
        BY <1>1, <2>3, <3>1, EndsIs DEF Blocks
      <4>. QED  BY <3>1, <3>2, <4>1
    <3>4. s < HeapLimit
      BY <2>4, <3>2, <3>3, HeapLimitAssumption
    <3>. QED  BY <3>1, <3>4, HeapLimitAssumption, IntAssumption, UIntAssumption
  <2>. QED  BY <2>5 DEF SizesAreInts
<1>. QED  BY <1>2, <1>3 DEF FreeInv

LEMMA InvIntact == AllocInv => BlocksIntact
<1>1. ASSUME linked \in {"first_fit", "best_fit"}, FreeInv PROVE BlocksIntact
  <2>1. ~OneList
    BY <1>1 DEF OneList
  <2>2. HeadersIntact
    BY <1>1 DEF FreeInv, TypeOK, Blocks, HeadersIntact
  <2>3. BlockHoldsRequest
    BY <1>1 DEF FreeInv, Blocks, BlockHoldsRequest
  <2>4. HeadLost \/ SizesAreInts
    BY <1>1, SizesFit DEF HeadLost
  <2>. QED  BY <2>1, <2>2, <2>3, <2>4 DEF BlocksIntact
<1>2. ASSUME OneList, OneInv PROVE BlocksIntact
  BY <1>2, OneSays DEF BlocksIntact, List!sizeof_node
<1>. QED  BY <1>1, <1>2 DEF AllocInv

\* No allocator writes over the header of a block that is out, every block
\* holds what was asked for, and no size is too large for the int that holds
\* it, on every heap that IntAssumption allows and for every unsigned request.
THEOREM BlocksStayIntact == AllocSpec => []BlocksIntact
BY AllocInvHolds, InvIntact, PTL

LEMMA InvCrash == AllocInv => CrashesOnlyAfterFirstFailure
<1>1. ASSUME linked \in {"first_fit", "best_fit"}, FreeInv PROVE outcome # "crashed"
  BY <1>1 DEF FreeInv
<1>2. ASSUME OneList, OneInv PROVE CrashesOnlyAfterFirstFailure
  BY <1>2 DEF OneInv, CrashesOnlyAfterFirstFailure
<1>. QED  BY <1>1, <1>2 DEF AllocInv, CrashesOnlyAfterFirstFailure

\* The one list follows a bad pointer only after its first sbrk failed, though
\* it tests no neighbour it writes through.
THEOREM OnlyAFailedStartCrashes == AllocSpec => []CrashesOnlyAfterFirstFailure
BY AllocInvHolds, InvCrash, PTL

----------------------------------------------------------------------------
(* What a step may do to the heap                                          *)

LEMMA FreeHeapMoves ==
  ASSUME FreeInv, linked \in {"first_fit", "best_fit"}, [AllocNext]_allocvars
  PROVE  /\ brk' > brk => \A b \in DOMAIN live' \ DOMAIN live : Serving(live'[b].words) = {}
         /\ ~(brk' < brk)
<1>1. Moves \/ (live' = live /\ brk' = brk)
  BY FreeStep
<1>2. FreeInv'
  BY FreeStep
<1>3. brk \in Int /\ brk' \in Int
  <2>1. brk \in Addr \cup {HeapLimit} /\ brk' \in Addr \cup {HeapLimit}
    BY <1>2 DEF FreeInv, TypeOK
  <2>2. Addr \subseteq Int /\ HeapLimit \in Int
    BY HeapLimitAssumption DEF Addr
  <2>. QED  BY <2>1, <2>2
<1>4. ASSUME NEW a \in Addr, NEW r \in Request,
             NewBlock(a, r), brk' > brk => Serving(Words(r)) = {}
      PROVE  /\ brk' > brk => \A b \in DOMAIN live' \ DOMAIN live : Serving(live'[b].words) = {}
             /\ ~(brk' < brk)
  <2>1. /\ brk <= brk'
        /\ live' = [b \in DOMAIN live \cup {a} |->
                      IF b = a THEN [asked |-> r, words |-> Words(r)] ELSE live[b]]
    BY <1>4 DEF NewBlock
  <2>2. ~(brk' < brk)
    BY <1>3, <2>1
  <2>3. DOMAIN live' = DOMAIN live \cup {a} /\ live'[a] = [asked |-> r, words |-> Words(r)]
    BY <2>1
  <2>4. \A b \in DOMAIN live' \ DOMAIN live : b = a /\ live'[b].words = Words(r)
    BY <2>3
  <2>. QED  BY <1>4, <2>2, <2>4
<1>5. CASE live' = live /\ brk <= brk'
  <2>1. ~(brk' < brk)
    BY <1>3, <1>5
  <2>2. DOMAIN live' \ DOMAIN live = {}
    BY <1>5
  <2>. QED  BY <2>1, <2>2
<1>6. ASSUME brk' = brk
      PROVE  ~(brk' > brk) /\ ~(brk' < brk)
  BY <1>3, <1>6
<1>. QED  BY <1>1, <1>4, <1>5, <1>6 DEF Moves

LEMMA OneHeapMoves ==
  ASSUME OneInv, OneList, [AllocNext]_allocvars
  PROVE  /\ brk' > brk => \A b \in DOMAIN live' \ DOMAIN live : Serving(live'[b].words) = {}
         /\ brk' < brk => DOMAIN live' # DOMAIN live
<1>1. OneMoves
  BY OneStep
<1>2. OneInv'
  BY OneStep
<1>3. brk \in Int /\ brk' \in Int
  BY <1>2, ListLimitAssumption DEF OneInv, List!ListTypeOK
<1>4. \A x \in List!FreeOnes : node[x].size \in Nat
  <2>1. PICK S : OneHeap(S)
    BY DEF OneInv
  <2>2. List!ListTypeOK
    BY DEF OneInv
  <2>3. List!FreeOnes \subseteq List!Addr
    BY <2>1, <2>2, ListNodesIs
  <2>. QED  BY <2>2, <2>3, NodeTyped
<1>5. ASSUME NEW a \in Nat, NEW r \in ListRequest, a \notin DOMAIN live,
             List!HandsOutNode(a, r), brk <= brk',
             brk' > brk => \A x \in List!FreeOnes : node[x].size < List!Rounded(r)
      PROVE  /\ brk' > brk => \A b \in DOMAIN live' \ DOMAIN live : Serving(live'[b].words) = {}
             /\ ~(brk' < brk)
  <2>1. ~(brk' < brk)
    BY <1>3, <1>5
  <2>2. PICK n \in Nat : n = List!Rounded(r)
    BY RoundedIs, SizesAre
  <2>3. \A b \in DOMAIN live' \ DOMAIN live : live'[b].words = n - 2
    BY <1>5, <2>2, HandedOut
  <2>4. ASSUME brk' > brk PROVE Serving(n - 2) = {}
    <3>1. ASSUME NEW x \in List!FreeOnes PROVE ~(node[x].size >= n - 2 + List!sizeof_node)
      <4>1. node[x].size < n
        BY <1>5, <2>2, <2>4
      <4>2. PICK z \in Nat : z = node[x].size
        BY <1>4
      <4>. QED  BY <4>1, <4>2 DEF List!sizeof_node
    <3>. QED  BY <3>1 DEF Serving
  <2>. QED  BY <2>1, <2>3, <2>4
<1>6. CASE live' = live /\ brk' = brk
  BY <1>3, <1>6
<1>7. ASSUME NEW a \in DOMAIN live, live' = Restrict(live, DOMAIN live \ {a}), brk' <= brk
      PROVE  ~(brk' > brk) /\ DOMAIN live' # DOMAIN live
  <2>1. ~(brk' > brk)
    BY <1>3, <1>7
  <2>2. DOMAIN live' = DOMAIN live \ {a}
    BY <1>7 DEF Restrict
  <2>. QED  BY <2>1, <2>2
<1>. QED  BY <1>1, <1>5, <1>6, <1>7 DEF OneMoves

\* The heap grows only for a block that no free node can hold, and gets smaller
\* only with one list, when a block is freed.
THEOREM HeapMoves == AllocSpec => HeapMovesForCause
<1>. DEFINE Cause ==
       /\ brk' > brk => \A b \in DOMAIN live' \ DOMAIN live : Serving(live'[b].words) = {}
       /\ brk' < brk => OneList /\ DOMAIN live' # DOMAIN live
<1>1. ASSUME AllocInv, [AllocNext]_allocvars PROVE Cause
  <2>1. CASE linked \in {"first_fit", "best_fit"} /\ FreeInv
    BY <1>1, <2>1, FreeHeapMoves
  <2>2. CASE OneList /\ OneInv
    BY <1>1, <2>2, OneHeapMoves
  <2>. QED  BY <1>1, <2>1, <2>2 DEF AllocInv
<1>2. AllocInv /\ [AllocNext]_allocvars => [Cause]_allocvars
  BY <1>1
<1>. HIDE DEF Cause
<1>3. AllocSpec => [][Cause]_allocvars
  BY <1>2, AllocInvHolds, PTL DEF AllocSpec
<1>. QED  BY <1>3 DEF HeapMovesForCause, Cause

\* The head of the best-fit list is lost exactly by taking the first node of a
\* longer list, and the first-fit head never is.
THEOREM HeadIsLost == AllocSpec => HeadLostByBestFit
<1>. DEFINE Loses ==
       ~OneList /\ ~HeadLost =>
         (HeadLost' <=> /\ linked = "best_fit" /\ Len(FreeList) > 1
                        /\ head \in DOMAIN live')
<1>1. ASSUME AllocInv, [AllocNext]_allocvars PROVE Loses
  <2>1. CASE linked \in {"first_fit", "best_fit"} /\ FreeInv
    <3>1. /\ linked' = linked
          /\ head \notin DOMAIN live =>
               (head' \in DOMAIN live' <=> /\ linked = "best_fit" /\ Len(FreeList) > 1
                                          /\ head \in DOMAIN live')
      BY <1>1, <2>1, FreeStep
    <3>2. linked # "one_list"
      BY <2>1
    <3>. QED  BY <3>1, <3>2 DEF HeadLost, OneList
  <2>2. CASE OneList
    BY <2>2
  <2>. QED  BY <1>1, <2>1, <2>2 DEF AllocInv
<1>2. AllocInv /\ [AllocNext]_allocvars => [Loses]_allocvars
  BY <1>1
<1>. HIDE DEF Loses
<1>3. AllocSpec => [][Loses]_allocvars
  BY <1>2, AllocInvHolds, PTL DEF AllocSpec
<1>. QED  BY <1>3 DEF HeadLostByBestFit, Loses

----------------------------------------------------------------------------
(* The heap's contract                                                     *)

LEMMA MostWordsIs == /\ MostWords \in Nat /\ HeapLimit \in Nat /\ ListLimit \in Nat
                     /\ HeapLimit <= MostWords /\ ListLimit <= MostWords
BY HeapLimitAssumption, ListLimitAssumption DEF MostWords

LEMMA PayloadInside ==
  ASSUME NEW b \in Nat, NEW n \in Nat, NEW m \in Nat, b + n < m
  PROVE  (b + 1 .. b + n) \subseteq (0 .. m - 1)
OBVIOUS

\* A step that hands out n words at b, apart from every block that is out.
LEMMA ContractMalloc ==
  ASSUME NEW b \in Nat, NEW n \in Nat \ {0}, b \notin DOMAIN BlocksOut,
         brk \in Nat, brk' \in Nat, brk <= brk', brk' <= MostWords, b + n < brk',
         BlocksOut' = [c \in DOMAIN BlocksOut \cup {b} |->
                         IF c = b THEN n ELSE BlocksOut[c]],
         \A c \in DOMAIN BlocksOut :
           /\ c \in Nat /\ BlocksOut[c] \in Nat
           /\ b + n <= c \/ c + BlocksOut[c] <= b
  PROVE  Contract!ContractNext
<1>1. Contract!Grow
  BY MostWordsIs DEF Contract!Grow
<1>2. b \in 0 .. brk' /\ n \in 1 .. brk'
  OBVIOUS
<1>3. Contract!Payload(b, n) \subseteq 0 .. brk' - 1
  <2>1. (b + 1 .. b + n) \subseteq (0 .. brk' - 1)
    BY PayloadInside
  <2>. QED  BY <2>1 DEF Contract!Payload
<1>4. ASSUME NEW c \in DOMAIN BlocksOut
      PROVE  Contract!Payload(b, n) \cap Contract!Payload(c, BlocksOut[c]) = {}
  <2>1. PICK m \in Nat : m = BlocksOut[c]
    OBVIOUS
  <2>2. c \in Nat /\ (b + n <= c \/ c + m <= b)
    BY <2>1
  <2>3. (b + 1 .. b + n) \cap (c + 1 .. c + m) = {}
    BY <2>1, <2>2
  <2>. QED  BY <2>1, <2>3 DEF Contract!Payload
<1>5. Contract!Malloc(b, n)
  BY <1>3, <1>4 DEF Contract!Malloc
<1>. QED  BY <1>1, <1>2, <1>5 DEF Contract!ContractNext

\* A step that hands out nothing.
LEMMA ContractFails ==
  ASSUME BlocksOut' = BlocksOut,
         brk \in Nat, brk' \in Nat, brk <= brk', brk' <= MostWords
  PROVE  Contract!ContractNext
<1>1. Contract!Grow
  BY MostWordsIs DEF Contract!Grow
<1>. QED  BY <1>1 DEF Contract!ContractNext, Contract!MallocFails

\* A step that takes block b back, and perhaps the end of the heap.
LEMMA ContractFree ==
  ASSUME NEW b \in DOMAIN BlocksOut,
         BlocksOut' = [c \in DOMAIN BlocksOut \ {b} |-> BlocksOut[c]],
         brk \in Nat, brk' \in Nat, brk' <= brk,
         brk' # brk => \A c \in DOMAIN BlocksOut \ {b} :
           c \in Nat /\ BlocksOut[c] \in Nat /\ c + BlocksOut[c] < brk'
  PROVE  Contract!ContractNext
<1>1. Contract!Released(b)
  BY DEF Contract!Released, Contract!Restrict
<1>2. CASE brk' = brk
  BY <1>1, <1>2 DEF Contract!Free, Contract!ContractNext
<1>3. CASE brk' # brk
  <2>1. brk' \in 0 .. brk - 1
    BY <1>3
  <2>2. DOMAIN BlocksOut' = DOMAIN BlocksOut \ {b}
    OBVIOUS
  <2>3. ASSUME NEW c \in DOMAIN BlocksOut \ {b}
        PROVE  Contract!Payload(c, BlocksOut[c]) \subseteq 0 .. brk' - 1
    <3>1. PICK m \in Nat : m = BlocksOut[c]
      BY <1>3
    <3>2. c \in Nat /\ c + m < brk'
      BY <1>3, <3>1
    <3>. QED  BY <3>1, <3>2 DEF Contract!Payload
  <2>4. Contract!FreeAndShrink(b)
    BY <1>1, <2>1, <2>2, <2>3 DEF Contract!FreeAndShrink
  <2>. QED  BY <2>4 DEF Contract!ContractNext
<1>. QED  BY <1>2, <1>3

LEMMA ContractStarts == AllocInit => Contract!ContractInit
<1>. SUFFICES ASSUME AllocInit PROVE Contract!ContractInit
  OBVIOUS
<1>1. live = <<>>
  BY DEF AllocInit, HeapInit, List!ListInit
<1>2. brk = Chunk \/ brk = 0
  BY DEF AllocInit, HeapInit, List!ListInit
<1>3. brk \in 0 .. MostWords
  BY <1>2, MostWordsIs, ChunkAssumption, HeapLimitAssumption
<1>4. DOMAIN live = {}
  BY <1>1
<1>5. BlocksOut = <<>>
  <2>1. {a + 1 : a \in DOMAIN live} = {}
    BY <1>4
  <2>2. BlocksOut = [b \in {} |-> live[b - 1].words] \/ BlocksOut = [b \in {} |-> live[b].words]
    BY <1>4, <2>1 DEF BlocksOut
  <2>. QED  BY <2>2
<1>. QED  BY <1>3, <1>5 DEF Contract!ContractInit

\* Each step of a free list is one the contract allows.
LEMMA FreeKeepsContract ==
  ASSUME FreeInv, linked \in {"first_fit", "best_fit"}, [AllocNext]_allocvars
  PROVE  Contract!ContractNext \/ UNCHANGED <<BlocksOut, brk>>
<1>1. Moves \/ (live' = live /\ brk' = brk)
  BY FreeStep
<1>2. FreeInv' /\ linked' = linked
  BY FreeStep
<1>3. ~OneList /\ ~OneList'
  BY <1>2 DEF OneList
<1>4. /\ BlocksOut = [b \in DOMAIN live |-> live[b].words]
      /\ BlocksOut' = [b \in DOMAIN live' |-> live'[b].words]
  BY <1>3 DEF BlocksOut
<1>5. /\ \A b \in DOMAIN live : b \in Nat /\ b \in Addr /\ live[b].words \in Nat \ {0}
      /\ brk \in Nat /\ brk' \in Nat /\ brk' <= HeapLimit
  <2>1. TypeOK /\ TypeOK'
    BY <1>2 DEF FreeInv
  <2>2. Addr \subseteq Nat /\ \A a \in Addr : a <= HeapLimit
    BY HeapLimitAssumption DEF Addr
  <2>3. \A b \in DOMAIN live : b \in Addr /\ live[b].words \in Nat \ {0}
    BY <2>1 DEF TypeOK
  <2>4. brk \in Addr \cup {HeapLimit} /\ brk' \in Addr \cup {HeapLimit}
    BY <2>1 DEF TypeOK
  <2>5. brk \in Nat /\ brk' \in Nat /\ brk' <= HeapLimit
    BY <2>2, <2>4, HeapLimitAssumption
  <2>. QED  BY <2>2, <2>3, <2>5
<1>6. brk' <= MostWords
  BY <1>5, MostWordsIs
<1>7. ASSUME NEW a \in Addr, NEW r \in Request, NewBlock(a, r)
      PROVE  Contract!ContractNext
  <2>1. /\ a \notin DOMAIN live /\ brk <= brk'
        /\ live' = [b \in DOMAIN live \cup {a} |->
                      IF b = a THEN [asked |-> r, words |-> Words(r)] ELSE live[b]]
        /\ a + Words(r) < brk'
        /\ \A b \in DOMAIN live :
             (a < b => a + Words(r) < b) /\ (b < a => b + live[b].words < a)
    BY <1>7 DEF NewBlock
  <2>2. PICK n \in Nat \ {0} : n = Words(r)
    BY WordsIs
  <2>3. a \in Nat
    BY HeapLimitAssumption DEF Addr
  <2>4. DOMAIN BlocksOut = DOMAIN live /\ \A c \in DOMAIN live : BlocksOut[c] = live[c].words
    BY <1>4
  <2>5. BlocksOut' = [c \in DOMAIN BlocksOut \cup {a} |-> IF c = a THEN n ELSE BlocksOut[c]]
    <3>1. DOMAIN live' = DOMAIN BlocksOut \cup {a}
      BY <2>1, <2>4
    <3>2. \A c \in DOMAIN live' : live'[c].words = IF c = a THEN n ELSE BlocksOut[c]
      BY <2>1, <2>2, <2>4
    <3>. QED  BY <1>4, <3>1, <3>2
  <2>6. ASSUME NEW c \in DOMAIN BlocksOut
        PROVE  /\ c \in Nat /\ BlocksOut[c] \in Nat
               /\ a + n <= c \/ c + BlocksOut[c] <= a
    <3>1. PICK m \in Nat : m = live[c].words
      BY <1>5, <2>4
    <3>2. c \in Nat /\ c # a /\ (a < c => a + n < c) /\ (c < a => c + m < a)
      BY <1>5, <2>1, <2>2, <2>4, <3>1
    <3>3. a + n <= c \/ c + m <= a
      BY <2>3, <3>2
    <3>. QED  BY <2>4, <3>1, <3>2, <3>3
  <2>7. a \notin DOMAIN BlocksOut /\ a + n < brk' /\ brk <= brk'
    BY <2>1, <2>2, <2>4
  <2>. QED  BY <1>5, <1>6, <2>3, <2>5, <2>6, <2>7, ContractMalloc
<1>8. CASE live' = live /\ brk <= brk'
  <2>1. BlocksOut' = BlocksOut
    BY <1>4, <1>8
  <2>. QED  BY <1>5, <1>6, <1>8, <2>1, ContractFails
<1>9. ASSUME NEW p \in DOMAIN live, live' = Restrict(live, DOMAIN live \ {p}), brk' = brk
      PROVE  Contract!ContractNext
  <2>1. DOMAIN live' = DOMAIN live \ {p} /\ \A c \in DOMAIN live \ {p} : live'[c] = live[c]
    BY <1>9 DEF Restrict
  <2>2. p \in DOMAIN BlocksOut
        /\ BlocksOut' = [c \in DOMAIN BlocksOut \ {p} |-> BlocksOut[c]]
    BY <1>4, <2>1
  <2>3. brk' <= brk
    BY <1>5, <1>9
  <2>. QED  BY <1>5, <1>9, <2>2, <2>3, ContractFree
<1>10. CASE live' = live /\ brk' = brk
  BY <1>4, <1>10
<1>. QED  BY <1>1, <1>7, <1>8, <1>9, <1>10 DEF Moves

\* The blocks of one list as the contract sees them.
OneBlocks ==
  /\ BlocksOut = [b \in {a + 1 : a \in DOMAIN live} |-> live[b - 1].words]
  /\ brk \in Nat /\ brk <= MostWords
  /\ \A a \in DOMAIN live :
       /\ a \in Nat /\ live[a].words \in Nat \ {0}
       /\ a + 1 + live[a].words < brk
  /\ \A a, c \in DOMAIN live : a < c => a + 1 + live[a].words < c

LEMMA OneBlocksIs == OneInv /\ OneList => OneBlocks
<1>. SUFFICES ASSUME OneInv, OneList PROVE OneBlocks
  OBVIOUS
<1>1. PICK S : OneHeap(S)
  BY DEF OneInv
<1>2. List!ListTypeOK
  BY DEF OneInv
<1>3. brk \in Nat /\ brk <= MostWords
  BY <1>2, MostWordsIs DEF List!ListTypeOK
<1>4. ASSUME NEW a \in DOMAIN live
      PROVE  /\ a \in S /\ NodeSet(S, node, brk)
             /\ a \in Nat /\ node[a].size \in Nat /\ node[a].size >= 4
             /\ a + node[a].size <= brk
             /\ live[a].words = node[a].size - 2
  <2>1. a \in S /\ NodeSet(S, node, brk)
    BY <1>1, <1>2, OutIs
  <2>2. live[a].words = node[a].size - 2
    BY <1>1 DEF OneHeap
  <2>. QED  BY <2>1, <2>2, NodesAt
<1>5. ASSUME NEW a \in DOMAIN live
      PROVE  /\ a \in Nat /\ live[a].words \in Nat \ {0}
             /\ a + 1 + live[a].words < brk
  <2>1. PICK z \in Nat : z = node[a].size
    BY <1>4
  <2>2. a \in Nat /\ z >= 4 /\ a + z <= brk /\ live[a].words = z - 2
    BY <1>4, <2>1
  <2>3. z - 2 \in Nat \ {0} /\ a + 1 + (z - 2) < brk
    BY <1>3, <2>2
  <2>. QED  BY <2>2, <2>3
<1>6. ASSUME NEW a \in DOMAIN live, NEW c \in DOMAIN live, a < c
      PROVE  a + 1 + live[a].words < c
  <2>1. PICK z \in Nat : z = node[a].size
    BY <1>4
  <2>2. a \in Nat /\ c \in Nat /\ live[a].words = z - 2
    BY <1>4, <2>1
  <2>3. a + z <= c
    <3>1. a \in S /\ c \in S /\ NodeSet(S, node, brk)
      BY <1>4
    <3>2. NodeEnds(node)[a] = a + node[a].size
      BY <3>1, NodesAt
    <3>3. NodeEnds(node)[a] <= c
      BY <1>6, <3>1 DEF NodeSet, Tiles
    <3>. QED  BY <2>1, <3>2, <3>3
  <2>. QED  BY <2>2, <2>3
<1>7. BlocksOut = [b \in {a + 1 : a \in DOMAIN live} |-> live[b - 1].words]
  BY DEF BlocksOut
<1>. QED  BY <1>3, <1>5, <1>6, <1>7 DEF OneBlocks

LEMMA OneBlocksNext == OneInv' /\ OneList' => OneBlocks'
<1>1. (OneInv /\ OneList => OneBlocks)'
  BY OneBlocksIs, PTL
<1>. QED  BY <1>1

\* A block of one list, at the word before its memory.
LEMMA OneBlockAt ==
  ASSUME OneBlocks
  PROVE  /\ DOMAIN BlocksOut = {a + 1 : a \in DOMAIN live}
         /\ \A a \in DOMAIN live : BlocksOut[a + 1] = live[a].words
<1>1. ASSUME NEW a \in DOMAIN live PROVE BlocksOut[a + 1] = live[a].words
  <2>1. a \in Nat /\ a + 1 \in {c + 1 : c \in DOMAIN live}
    BY DEF OneBlocks
  <2>2. (a + 1) - 1 = a
    BY <2>1
  <2>. QED  BY <2>1, <2>2 DEF OneBlocks
<1>. QED  BY <1>1 DEF OneBlocks

\* Each step of one list is one the contract allows.
LEMMA OneKeepsContract ==
  ASSUME OneInv, OneList, [AllocNext]_allocvars
  PROVE  Contract!ContractNext \/ UNCHANGED <<BlocksOut, brk>>
<1>1. OneInv' /\ OneList' /\ OneMoves
  BY OneStep
<1>2. OneBlocks
  BY OneBlocksIs
<1>3. OneBlocks'
  BY <1>1, OneBlocksNext
<1>4. /\ DOMAIN BlocksOut = {a + 1 : a \in DOMAIN live}
      /\ \A a \in DOMAIN live : BlocksOut[a + 1] = live[a].words
      /\ \A a \in DOMAIN live : a \in Nat /\ live[a].words \in Nat \ {0}
      /\ brk \in Nat /\ brk' \in Nat /\ brk' <= MostWords
  BY <1>2, <1>3, OneBlockAt DEF OneBlocks
<1>5. /\ BlocksOut' = [b \in {a + 1 : a \in DOMAIN live'} |-> live'[b - 1].words]
      /\ \A a \in DOMAIN live' : a \in Nat /\ live'[a].words \in Nat \ {0}
                                 /\ a + 1 + live'[a].words < brk'
      /\ \A a, c \in DOMAIN live' : a < c => a + 1 + live'[a].words < c
  BY <1>3 DEF OneBlocks
<1>6. ASSUME NEW a \in Nat, NEW r \in ListRequest, a \notin DOMAIN live,
             List!HandsOutNode(a, r), brk <= brk'
      PROVE  Contract!ContractNext
  <2>1. /\ DOMAIN live' = DOMAIN live \cup {a}
        /\ \A c \in DOMAIN live \ {a} : live'[c] = live[c]
    BY <1>6, HandedOut
  <2>2. PICK n \in Nat \ {0} : n = live'[a].words
    BY <1>5, <2>1
  <2>3. PICK b \in Nat : b = a + 1
    OBVIOUS
  <2>4. b \notin DOMAIN BlocksOut
    <3>1. \A c \in DOMAIN live : c + 1 # a + 1
      BY <1>4, <1>6
    <3>. QED  BY <1>4, <2>3, <3>1
  <2>5. b + n < brk'
    BY <1>5, <2>1, <2>2, <2>3
  <2>6. ASSUME NEW c \in DOMAIN BlocksOut
        PROVE  /\ c \in Nat /\ BlocksOut[c] \in Nat
               /\ b + n <= c \/ c + BlocksOut[c] <= b
    <3>1. PICK d \in DOMAIN live : c = d + 1
      BY <1>4
    <3>2. PICK m \in Nat : m = live[d].words
      BY <1>4
    <3>3. BlocksOut[c] = m /\ d \in Nat /\ d # a
      BY <1>4, <1>6, <3>1, <3>2
    <3>4. live'[d].words = m /\ d \in DOMAIN live' /\ a \in DOMAIN live'
      BY <2>1, <3>2, <3>3
    <3>5. (a < d => a + 1 + n < d) /\ (d < a => d + 1 + m < a)
      BY <1>5, <2>2, <3>4
    <3>6. b + n <= c \/ c + m <= b
      BY <2>3, <3>1, <3>3, <3>5
    <3>. QED  BY <3>1, <3>3, <3>6
  <2>7. BlocksOut' = [c \in DOMAIN BlocksOut \cup {b} |-> IF c = b THEN n ELSE BlocksOut[c]]
    <3>1. {d + 1 : d \in DOMAIN live'} = DOMAIN BlocksOut \cup {b}
      BY <1>4, <2>1, <2>3
    <3>2. ASSUME NEW c \in DOMAIN BlocksOut \cup {b}
          PROVE  live'[c - 1].words = IF c = b THEN n ELSE BlocksOut[c]
      <4>1. CASE c = b
        <5>1. c - 1 = a
          BY <2>3, <4>1
        <5>. QED  BY <2>2, <4>1, <5>1
      <4>2. CASE c # b
        <5>1. PICK d \in DOMAIN live : c = d + 1
          BY <1>4, <4>2
        <5>2. d \in Nat /\ c - 1 = d /\ d # a
          BY <1>4, <1>6, <5>1
        <5>3. live'[d] = live[d]
          BY <2>1, <5>2
        <5>. QED  BY <1>4, <4>2, <5>1, <5>2, <5>3
      <4>. QED  BY <4>1, <4>2
    <3>. QED  BY <1>5, <3>1, <3>2
  <2>. QED  BY <1>4, <1>6, <2>4, <2>5, <2>6, <2>7, ContractMalloc
<1>7. CASE live' = live /\ brk' = brk
  <2>1. BlocksOut' = BlocksOut
    BY <1>2, <1>3, <1>7 DEF OneBlocks
  <2>. QED  BY <1>7, <2>1
<1>8. ASSUME NEW a \in DOMAIN live, live' = Restrict(live, DOMAIN live \ {a}), brk' <= brk
      PROVE  Contract!ContractNext
  <2>1. DOMAIN live' = DOMAIN live \ {a} /\ \A c \in DOMAIN live \ {a} : live'[c] = live[c]
    BY <1>8 DEF Restrict
  <2>2. PICK b \in Nat : b = a + 1
    BY <1>4
  <2>3. b \in DOMAIN BlocksOut
    BY <1>4, <2>2
  <2>4. ASSUME NEW c \in DOMAIN BlocksOut \ {b}
        PROVE  \E d \in DOMAIN live \ {a} :
                 /\ d \in Nat /\ c = d + 1 /\ c - 1 = d
                 /\ BlocksOut[c] = live[d].words /\ live'[d] = live[d]
                 /\ c \in Nat /\ BlocksOut[c] \in Nat /\ c + BlocksOut[c] < brk'
    <3>1. PICK d \in DOMAIN live : c = d + 1
      BY <1>4
    <3>2. d # a /\ d \in Nat /\ c - 1 = d /\ c \in Nat
      BY <1>4, <2>2, <3>1
    <3>3. BlocksOut[c] = live[d].words /\ live'[d] = live[d] /\ live[d].words \in Nat
      BY <1>4, <2>1, <3>1, <3>2
    <3>4. d + 1 + live[d].words < brk'
      BY <1>5, <2>1, <3>2, <3>3
    <3>. QED  BY <3>1, <3>2, <3>3, <3>4
  <2>5. BlocksOut' = [c \in DOMAIN BlocksOut \ {b} |-> BlocksOut[c]]
    <3>1. {d + 1 : d \in DOMAIN live'} = DOMAIN BlocksOut \ {b}
      <4>1. \A d \in DOMAIN live : d + 1 = b <=> d = a
        BY <1>4, <2>2
      <4>. QED  BY <1>4, <2>1, <4>1
    <3>2. \A c \in DOMAIN BlocksOut \ {b} : live'[c - 1].words = BlocksOut[c]
      BY <2>4
    <3>. QED  BY <1>5, <3>1, <3>2
  <2>6. \A c \in DOMAIN BlocksOut \ {b} :
          c \in Nat /\ BlocksOut[c] \in Nat /\ c + BlocksOut[c] < brk'
    BY <2>4
  <2>. QED  BY <1>4, <1>8, <2>3, <2>5, <2>6, ContractFree
<1>. QED  BY <1>1, <1>6, <1>7, <1>8 DEF OneMoves

\* Whichever allocator is linked, its blocks and the end of its heap are those
\* of a heap that keeps its contract: initial states are initial states of the
\* contract, and every step is a step of the contract or leaves both alone.
THEOREM ContractKept == AllocSpec => KeepsContract
<1>1. AllocInv /\ [AllocNext]_allocvars
        => [Contract!ContractNext]_(Contract!contractvars)
  <2>. SUFFICES ASSUME AllocInv, [AllocNext]_allocvars
                PROVE  Contract!ContractNext \/ UNCHANGED <<BlocksOut, brk>>
    BY DEF Contract!contractvars
  <2>1. CASE linked \in {"first_fit", "best_fit"} /\ FreeInv
    BY <2>1, FreeKeepsContract
  <2>2. CASE OneList /\ OneInv
    BY <2>2, OneKeepsContract
  <2>. QED  BY <2>1, <2>2 DEF AllocInv
<1>. QED  BY <1>1, ContractStarts, AllocInvHolds, PTL
          DEF AllocSpec, KeepsContract, Contract!ContractSpec
=============================================================================
