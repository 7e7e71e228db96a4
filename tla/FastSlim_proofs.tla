-------------------------- MODULE FastSlim_proofs --------------------------
(***************************************************************************)
(* Proofs about the reduction of a trace, for every trace of any length,   *)
(* any pages and any size of the buffer.                                   *)
(***************************************************************************)
EXTENDS FastSlim, NatSetTheorems, FiniteSetTheorems, SequenceTheorems

----------------------------------------------------------------------------
(* Sequences                                                               *)

LEMMA AppendIs ==
  ASSUME NEW S, NEW s \in Seq(S), NEW p \in S, NEW t, t = Append(s, p)
  PROVE  /\ t \in Seq(S) /\ Len(s) \in Nat /\ Len(t) = Len(s) + 1 /\ t[Len(s) + 1] = p
         /\ \A i \in 1 .. Len(s) : t[i] = s[i]
OBVIOUS

----------------------------------------------------------------------------
(* Folds                                                                   *)

IsStep(D, S, step, x) == x \in D /\ step \in [D -> [S -> D]]

\* What Folded builds.
FoldIs(step, x, s, f) ==
  f = [n \in 0 .. Len(s) |-> IF n = 0 THEN x ELSE step[f[n - 1]][s[n]]]

FoldOf(D, step, x, s, f) == f \in [0 .. Len(s) -> D] /\ FoldIs(step, x, s, f)

LEMMA FoldExists ==
  ASSUME NEW D, NEW S, NEW step, NEW x, IsStep(D, S, step, x), NEW s \in Seq(S)
  PROVE  \E f : FoldOf(D, step, x, s, f)
<1>. x \in D /\ step \in [D -> [S -> D]]
  BY DEF IsStep
<1>1. PICK N \in Nat : N = Len(s)
  OBVIOUS
<1>2. PICK g : g = [a \in D \X Nat |-> IF a[2] \in 1 .. N THEN step[a[1]][s[a[2]]] ELSE x]
  OBVIOUS
<1>3. \A i \in 1 .. N : s[i] \in S
  BY <1>1, ElementOfSeq
<1>4. ASSUME NEW d \in D, NEW i \in 1 .. N
      PROVE  g[<<d, i>>] = step[d][s[i]] /\ step[d][s[i]] \in D
  <2>1. <<d, i>> \in D \X Nat /\ step[d] \in [S -> D] /\ s[i] \in S
    BY <1>3
  <2>. QED  BY <1>2, <2>1
<1>5. g \in [D \X Nat -> D]
  <2>1. ASSUME NEW a \in D \X Nat PROVE g[a] \in D
    <3>1. PICK d \in D, i \in Nat : a = <<d, i>>
      OBVIOUS
    <3>2. CASE i \in 1 .. N
      BY <1>4, <3>1, <3>2
    <3>3. CASE i \notin 1 .. N
      BY <1>2, <3>1, <3>3
    <3>. QED  BY <3>2, <3>3
  <2>. QED  BY <1>2, <2>1
<1>6. PICK f : /\ f \in [0 .. N -> D] /\ f[0] = x
               /\ \A i \in 1 .. N : f[i] = g[<<f[i - 1], i>>]
  <2>1. N \in Nat
    BY <1>1
  <2>2. \E f : Iterates(D, x, g, N, f)
    BY <1>5, <2>1, IterationExists
  <2>. QED  BY <2>2 DEF Iterates
<1>7. ASSUME NEW n \in 0 .. N PROVE f[n] = IF n = 0 THEN x ELSE step[f[n - 1]][s[n]]
  <2>1. CASE n = 0
    BY <1>6, <2>1
  <2>2. CASE n # 0
    <3>1. n \in 1 .. N /\ n - 1 \in 0 .. N
      BY <1>1, <2>2
    <3>2. f[n - 1] \in D
      BY <1>6, <3>1
    <3>3. f[n] = g[<<f[n - 1], n>>] /\ g[<<f[n - 1], n>>] = step[f[n - 1]][s[n]]
      BY <1>4, <1>6, <3>1, <3>2
    <3>. QED  BY <2>2, <3>3
  <2>. QED  BY <2>1, <2>2
<1>8. f = [n \in 0 .. N |-> IF n = 0 THEN x ELSE step[f[n - 1]][s[n]]]
  BY <1>6, <1>7
<1>. QED  BY <1>1, <1>6, <1>8 DEF FoldIs, FoldOf

\* Folds of sequences that begin alike.
Alike(N, s, t) ==
  /\ N \in Nat /\ Len(s) \in Nat /\ Len(t) \in Nat /\ N <= Len(s) /\ N <= Len(t)
  /\ \A i \in 1 .. N : t[i] = s[i]

LEMMA FoldsAgree ==
  ASSUME NEW step, NEW x, NEW s, NEW t, NEW N, Alike(N, s, t),
         NEW f, NEW g, FoldIs(step, x, s, f), FoldIs(step, x, t, g)
  PROVE  f[N] = g[N]
<1>. USE DEF Alike
<1>. N \in 0 .. Len(s) /\ \A n \in 0 .. N : n \in 0 .. Len(s) /\ n \in 0 .. Len(t)
  OBVIOUS
<1>1. \A n \in 0 .. N : f[n] = IF n = 0 THEN x ELSE step[f[n - 1]][s[n]]
  BY Zenon DEF FoldIs
<1>2. \A n \in 0 .. N : g[n] = IF n = 0 THEN x ELSE step[g[n - 1]][t[n]]
  BY Zenon DEF FoldIs
<1>3. f[0] = g[0]
  BY <1>1, <1>2
<1>4. \A i \in 1 .. N : f[i - 1] = g[i - 1] => f[i] = g[i]
  <2>. SUFFICES ASSUME NEW i \in 1 .. N, f[i - 1] = g[i - 1] PROVE f[i] = g[i]
    OBVIOUS
  <2>1. i \in 0 .. N /\ i # 0
    OBVIOUS
  <2>2. f[i] = step[f[i - 1]][s[i]] /\ g[i] = step[g[i - 1]][t[i]] /\ s[i] = t[i]
    BY <1>1, <1>2, <2>1
  <2>. QED  BY <2>2
<1>5. \A i \in 0 .. N : f[i] = g[i]
  <2>1. SameSteps(N, f, g)
    BY <1>3, <1>4 DEF SameSteps
  <2>. QED  BY <2>1, IterationUnique
<1>. QED  BY <1>5

LEMMA FoldedValue ==
  ASSUME NEW D, NEW S, NEW step, NEW x, IsStep(D, S, step, x), NEW s \in Seq(S)
  PROVE  \E f : FoldOf(D, step, x, s, f) /\ Folded(step, x, s) = f[Len(s)]
<1>1. PICK f : f \in [0 .. Len(s) -> D] /\ FoldIs(step, x, s, f)
  BY FoldExists DEF FoldOf
<1>2. PICK g : g = CHOOSE h : FoldIs(step, x, s, h)
  OBVIOUS
<1>3. FoldIs(step, x, s, g)
  BY <1>1, <1>2
<1>4. Folded(step, x, s) = g[Len(s)]
  BY <1>2, Zenon DEF Folded, FoldIs
<1>5. PICK N \in Nat : N = Len(s)
  OBVIOUS
<1>8. Alike(N, s, s)
  BY <1>5 DEF Alike
<1>9. f[N] = g[N]
  BY <1>1, <1>3, <1>8, FoldsAgree
<1>. QED  BY <1>1, <1>4, <1>5, <1>9 DEF FoldOf

\* Nothing gives x, and one element more is one step more.
LEMMA FoldedIs ==
  ASSUME NEW D, NEW S, NEW step, NEW x, IsStep(D, S, step, x)
  PROVE  /\ Folded(step, x, <<>>) = x
         /\ \A s \in Seq(S) :
              /\ Folded(step, x, s) \in D
              /\ \A p \in S : Folded(step, x, Append(s, p)) = step[Folded(step, x, s)][p]
<1>. x \in D /\ step \in [D -> [S -> D]]
  BY DEF IsStep
<1>1. ASSUME NEW s \in Seq(S)
      PROVE  \E f : /\ f \in [0 .. Len(s) -> D] /\ FoldIs(step, x, s, f)
                  /\ Folded(step, x, s) = f[Len(s)]
  BY FoldedValue DEF FoldOf
<1>2. Folded(step, x, <<>>) = x
  <2>1. <<>> \in Seq(S) /\ Len(<<>>) = 0
    OBVIOUS
  <2>2. PICK f : FoldIs(step, x, <<>>, f) /\ Folded(step, x, <<>>) = f[0]
    BY <1>1, <2>1
  <2>. QED  BY <2>1, <2>2 DEF FoldIs
<1>3. ASSUME NEW s \in Seq(S), NEW p \in S
      PROVE  /\ Folded(step, x, s) \in D
             /\ Folded(step, x, Append(s, p)) = step[Folded(step, x, s)][p]
  <2>1. PICK t \in Seq(S) : t = Append(s, p)
    BY AppendProperties
  <2>2. PICK N \in Nat : N = Len(s) /\ Len(t) = N + 1 /\ t[N + 1] = p /\ \A i \in 1 .. N : t[i] = s[i]
    <3>1. /\ Len(s) \in Nat /\ Len(t) = Len(s) + 1 /\ t[Len(s) + 1] = p
          /\ \A i \in 1 .. Len(s) : t[i] = s[i]
      BY <2>1, AppendIs
    <3>. QED  BY <3>1
  <2>3. PICK f : f \in [0 .. N -> D] /\ FoldIs(step, x, s, f) /\ Folded(step, x, s) = f[N]
    BY <1>1, <2>2
  <2>4. PICK g : g \in [0 .. N + 1 -> D] /\ FoldIs(step, x, t, g) /\ Folded(step, x, t) = g[N + 1]
    <3>1. \E g : /\ g \in [0 .. Len(t) -> D] /\ FoldIs(step, x, t, g)
               /\ Folded(step, x, t) = g[Len(t)]
      BY <1>1
    <3>. QED  BY <2>2, <3>1
  <2>5. f[N] = g[N]
    <3>1. Alike(N, s, t)
      BY <2>2 DEF Alike
    <3>2. FoldIs(step, x, s, f) /\ FoldIs(step, x, t, g)
      BY <2>3, <2>4
    <3>. QED  BY <3>1, <3>2, FoldsAgree
  <2>8. f[N] \in D
    <3>1. N \in 0 .. N
      BY <2>2
    <3>. QED  BY <2>3, <3>1
  <2>9. g[N + 1] = step[g[N]][p]
    <3>1. N + 1 \in 0 .. N + 1 /\ N + 1 # 0 /\ (N + 1) - 1 = N
      OBVIOUS
    <3>. QED  BY <2>2, <2>4, <3>1 DEF FoldIs
  <2>. QED  BY <2>1, <2>3, <2>4, <2>5, <2>8, <2>9
<1>4. ASSUME NEW s \in Seq(S) PROVE Folded(step, x, s) \in D
  <2>1. PICK f : f \in [0 .. Len(s) -> D] /\ Folded(step, x, s) = f[Len(s)]
    BY <1>1
  <2>2. Len(s) \in 0 .. Len(s)
    OBVIOUS
  <2>. QED  BY <2>1, <2>2
<1>. QED  BY <1>2, <1>3, <1>4

----------------------------------------------------------------------------
(* Sequences put together                                                  *)

Joining(S) == [a \in Seq(S) |-> [b \in Seq(S) |-> a \o b]]

LEMMA JoiningIs ==
  ASSUME NEW S
  PROVE  IsStep(Seq(S), Seq(S), Joining(S), <<>>)
BY DEF Joining, IsStep

\* What FlattenSeq builds.
FlatIs(s, f) == f = [i \in 1 .. Len(s) |-> IF i = 1 THEN s[i] ELSE f[i - 1] \o s[i]]

LEMMA FlattenIsFold ==
  ASSUME NEW S, NEW s \in Seq(Seq(S))
  PROVE  FlattenSeq(s) = Folded(Joining(S), <<>>, s)
<1>. DEFINE C == Joining(S)
<1>0. IsStep(Seq(S), Seq(S), C, <<>>)
  BY JoiningIs
<1>1. CASE s = <<>>
  <2>1. FlattenSeq(s) = <<>>
    BY <1>1 DEF FlattenSeq
  <2>. HIDE DEF C
  <2>2. Folded(C, <<>>, <<>>) = <<>>
    BY <1>0, FoldedIs
  <2>3. FlattenSeq(s) = Folded(C, <<>>, s)
    BY <1>1, <2>1, <2>2
  <2>. QED  BY <2>3 DEF C
<1>2. CASE s # <<>>
  <2>1. PICK N : N \in Nat /\ N > 0 /\ N = Len(s)
    BY <1>2
  <2>2. \A i \in 1 .. N : s[i] \in Seq(S)
    BY <2>1, ElementOfSeq
  <2>3. PICK f : f \in [0 .. N -> Seq(S)] /\ FoldIs(C, <<>>, s, f)
    <3>. HIDE DEF C
    <3>. QED  BY <1>0, <2>1, FoldExists DEF FoldOf
  <2>4. f[0] = <<>> /\ \A i \in 1 .. N : f[i] = f[i - 1] \o s[i] /\ f[i - 1] \in Seq(S)
    <3>1. f[0] = <<>>
      <4>. HIDE DEF C
      <4>1. 0 \in 0 .. Len(s)
        BY <2>1
      <4>. QED  BY <2>3, <4>1 DEF FoldIs
    <3>2. ASSUME NEW i \in 1 .. N PROVE f[i] = f[i - 1] \o s[i] /\ f[i - 1] \in Seq(S)
      <4>1. i \in 0 .. N /\ i # 0 /\ i - 1 \in 0 .. N
        BY <2>1
      <4>2. f[i - 1] \in Seq(S) /\ s[i] \in Seq(S)
        BY <2>2, <2>3, <4>1
      <4>3. f[i] = C[f[i - 1]][s[i]]
        <5>. HIDE DEF C
        <5>. QED  BY <2>1, <2>3, <4>1 DEF FoldIs
      <4>. QED  BY <4>2, <4>3 DEF Joining
    <3>. QED  BY <3>1, <3>2
  <2>5. f[1] = s[1]
    <3>1. 1 \in 1 .. N /\ 1 - 1 = 0
      BY <2>1
    <3>2. s[1] \in Seq(S) /\ f[1] = <<>> \o s[1]
      BY <2>2, <2>4, <3>1
    <3>. QED  BY <3>2, ConcatEmptySeq
  <2>6. PICK h : h = [i \in 1 .. N |-> f[i]]
    OBVIOUS
  <2>7. FlatIs(s, h)
    <3>1. ASSUME NEW i \in 1 .. N PROVE h[i] = IF i = 1 THEN s[i] ELSE h[i - 1] \o s[i]
      <4>1. CASE i = 1
        BY <2>5, <2>6, <4>1
      <4>2. CASE i # 1
        <5>1. i - 1 \in 1 .. N
          BY <2>1, <4>2
        <5>. QED  BY <2>4, <2>6, <4>2, <5>1
      <4>. QED  BY <4>1, <4>2
    <3>2. h = [i \in 1 .. N |-> IF i = 1 THEN s[i] ELSE h[i - 1] \o s[i]]
      BY <2>6, <3>1
    <3>. QED  BY <2>1, <3>2 DEF FlatIs
  <2>8. PICK g : g = CHOOSE u : FlatIs(s, u)
    OBVIOUS
  <2>9. FlatIs(s, g)
    BY <2>7, <2>8
  <2>10. FlattenSeq(s) = g[Len(s)]
    <3>1. Len(s) # 0
      BY <2>1
    <3>. QED  BY <2>8, <3>1, Zenon DEF FlattenSeq, FlatIs
  <2>. DEFINE P == {i \in 1 .. N : g[i] = f[i]}
  <2>11. N > 0 => 1 \in P
    <3>1. 1 \in 1 .. N
      BY <2>1
    <3>2. g[1] = s[1]
      BY <2>1, <2>9, <3>1 DEF FlatIs
    <3>. QED  BY <2>5, <3>1, <3>2
  <2>12. \A i \in 1 .. N - 1 : i \in P => i + 1 \in P
    <3>. SUFFICES ASSUME NEW i \in 1 .. N - 1, i \in P PROVE i + 1 \in P
      OBVIOUS
    <3>1. PICK j : j \in 1 .. N /\ j = i + 1 /\ j - 1 = i /\ j # 1
      BY <2>1
    <3>2. g[j] = g[j - 1] \o s[j]
      BY <2>1, <2>9, <3>1 DEF FlatIs
    <3>. QED  BY <2>4, <3>1, <3>2
  <2>13. N \in P
    <3>. HIDE DEF P
    <3>1. 1 .. N \subseteq P
      BY <2>1, <2>11, <2>12, UpTo
    <3>. QED  BY <2>1, <3>1
  <2>14. PICK u : u \in [0 .. Len(s) -> Seq(S)] /\ FoldIs(C, <<>>, s, u) /\ Folded(C, <<>>, s) = u[Len(s)]
    <3>. HIDE DEF C
    <3>. QED  BY <1>0, FoldedValue DEF FoldOf
  <2>15. Alike(N, s, s)
    BY <2>1 DEF Alike
  <2>16. f[N] = u[N]
    <3>. HIDE DEF C
    <3>1. FoldIs(C, <<>>, s, f) /\ FoldIs(C, <<>>, s, u)
      BY <2>3, <2>14
    <3>. QED  BY <2>15, <3>1, FoldsAgree
  <2>. HIDE DEF C
  <2>17. f[N] = g[N]
    BY <2>13
  <2>18. Folded(C, <<>>, s) = FlattenSeq(s)
    BY <2>1, <2>10, <2>14, <2>16, <2>17
  <2>. QED  BY <2>18 DEF C
<1>. QED  BY <1>1, <1>2

LEMMA FlattenIs ==
  ASSUME NEW S
  PROVE  /\ FlattenSeq(<<>>) = <<>>
         /\ \A s \in Seq(Seq(S)) :
              /\ FlattenSeq(s) \in Seq(S)
              /\ \A w \in Seq(S) : FlattenSeq(Append(s, w)) = FlattenSeq(s) \o w
<1>. DEFINE C == Joining(S)
<1>0. IsStep(Seq(S), Seq(S), C, <<>>)
  BY JoiningIs
<1>1. /\ Folded(C, <<>>, <<>>) = <<>>
      /\ \A s \in Seq(Seq(S)) :
           /\ Folded(C, <<>>, s) \in Seq(S)
           /\ \A w \in Seq(S) : Folded(C, <<>>, Append(s, w)) = C[Folded(C, <<>>, s)][w]
  <2>. HIDE DEF C
  <2>. QED  BY <1>0, FoldedIs
<1>2. FlattenSeq(<<>>) = <<>>
  BY DEF FlattenSeq
<1>3. ASSUME NEW s \in Seq(Seq(S)) PROVE FlattenSeq(s) \in Seq(S)
  BY <1>1, FlattenIsFold
<1>4. ASSUME NEW s \in Seq(Seq(S)), NEW w \in Seq(S)
      PROVE  FlattenSeq(Append(s, w)) = FlattenSeq(s) \o w
  <2>1. PICK t \in Seq(Seq(S)) : t = Append(s, w)
    BY AppendIs
  <2>2. FlattenSeq(s) = Folded(C, <<>>, s) /\ FlattenSeq(t) = Folded(C, <<>>, t)
    BY FlattenIsFold
  <2>3. Folded(C, <<>>, s) \in Seq(S)
    BY <1>1
  <2>4. Folded(C, <<>>, t) = C[Folded(C, <<>>, s)][w]
    BY <1>1, <2>1
  <2>5. \A a \in Seq(S) : C[a][w] = a \o w
    BY DEF Joining
  <2>. HIDE DEF C
  <2>. QED  BY <2>1, <2>2, <2>3, <2>4, <2>5
<1>. QED  BY <1>2, <1>3, <1>4

----------------------------------------------------------------------------
(* Windows                                                                 *)

LEMMA FrontLast ==
  ASSUME NEW S, NEW V \in Seq(S), V # <<>>
  PROVE  /\ Front(V) \in Seq(S) /\ Last(V) \in S /\ Append(Front(V), Last(V)) = V
<1>1. PICK n : n \in Nat /\ n > 0 /\ n = Len(V)
  OBVIOUS
<1>2. \A i \in 1 .. n : V[i] \in S
  BY <1>1, ElementOfSeq
<1>3. PICK U : U = SubSeq(V, 1, n - 1)
  OBVIOUS
<1>4. U \in Seq(S) /\ Len(U) = n - 1 /\ \A i \in 1 .. n - 1 : U[i] = V[i]
  <2>1. 1 \in Int /\ n - 1 \in Int /\ \A i \in 1 .. n - 1 : V[i] \in S
    BY <1>1, <1>2
  <2>2. /\ U \in Seq(S) /\ Len(U) = IF 1 <= n - 1 THEN (n - 1) - 1 + 1 ELSE 0
        /\ \A i \in 1 .. (n - 1) - 1 + 1 : U[i] = V[1 + i - 1]
    BY <1>3, <2>1, SubSeqProperties
  <2>. QED  BY <1>1, <2>2
<1>5. V[n] \in S
  BY <1>1, <1>2
<1>6. PICK T : T = Append(U, V[n])
  OBVIOUS
<1>7. T \in Seq(S) /\ Len(T) = Len(U) + 1 /\ T[Len(U) + 1] = V[n] /\ \A i \in 1 .. Len(U) : T[i] = U[i]
  BY <1>4, <1>5, <1>6, AppendIs
<1>8. T = V
  <2>1. Len(T) = Len(V) /\ \A i \in 1 .. Len(T) : T[i] = V[i]
    <3>1. Len(T) = n
      BY <1>1, <1>4, <1>7
    <3>2. ASSUME NEW i \in 1 .. n PROVE T[i] = V[i]
      <4>1. CASE i = n
        BY <1>1, <1>4, <1>7, <4>1
      <4>2. CASE i # n
        <5>1. i \in 1 .. n - 1
          BY <1>1, <4>2
        <5>. QED  BY <1>4, <1>7, <5>1
      <4>. QED  BY <4>1, <4>2
    <3>. QED  BY <1>1, <3>1, <3>2
  <2>. QED  BY <1>7, <2>1, SeqEqual
<1>. QED  BY <1>1, <1>3, <1>4, <1>5, <1>6, <1>8 DEF Front, Last

LEMMA FrontLastAppend ==
  ASSUME NEW S, NEW V \in Seq(S), NEW w \in S
  PROVE  /\ Append(V, w) \in Seq(S) /\ Append(V, w) # <<>>
         /\ Front(Append(V, w)) = V /\ Last(Append(V, w)) = w
<1>1. PICK T : T = Append(V, w)
  OBVIOUS
<1>2. /\ T \in Seq(S) /\ Len(V) \in Nat /\ Len(T) = Len(V) + 1 /\ T[Len(V) + 1] = w
      /\ \A i \in 1 .. Len(V) : T[i] = V[i]
  BY <1>1, AppendIs
<1>3. T # <<>>
  BY <1>2
<1>4. Last(T) = w
  BY <1>2 DEF Last
<1>5. PICK U : U = Front(T)
  OBVIOUS
<1>6. U \in Seq(S) /\ Append(U, Last(T)) = T
  BY <1>2, <1>3, <1>5, FrontLast
<1>7. /\ Len(U) \in Nat /\ Len(T) = Len(U) + 1 /\ \A i \in 1 .. Len(U) : T[i] = U[i]
  BY <1>2, <1>4, <1>6, AppendIs
<1>8. U = V
  <2>1. Len(U) = Len(V) /\ \A i \in 1 .. Len(U) : U[i] = V[i]
    BY <1>2, <1>7
  <2>. QED  BY <1>6, <2>1, SeqEqual
<1>. QED  BY <1>1, <1>2, <1>3, <1>4, <1>5, <1>8

LEMMA ExtendedIs ==
  /\ IsStep(Seq(Refs), Page, Extended, <<>>)
  /\ \A W \in Seq(Refs), p \in Page :
       Extended[W][p] = IF Begins(W, p) THEN Append(W, <<p>>)
                        ELSE Append(Front(W), Append(Last(W), p))
<1>1. ASSUME NEW W \in Seq(Refs), NEW p \in Page
      PROVE  (IF Begins(W, p) THEN Append(W, <<p>>)
              ELSE Append(Front(W), Append(Last(W), p))) \in Seq(Refs)
  <2>1. CASE Begins(W, p)
    <3>1. <<p>> \in Refs
      BY DEF Refs
    <3>. QED  BY <2>1, <3>1, AppendIs
  <2>2. CASE ~Begins(W, p)
    <3>1. W # <<>>
      BY <2>2 DEF Begins
    <3>2. Front(W) \in Seq(Refs) /\ Last(W) \in Refs
      BY <3>1, FrontLast
    <3>3. Append(Last(W), p) \in Refs
      BY <3>2, AppendIs DEF Refs
    <3>. QED  BY <2>2, <3>2, <3>3, AppendIs
  <2>. QED  BY <2>1, <2>2
<1>. QED  BY <1>1 DEF Extended, IsStep

\* The window that is not over.
Window == IF Windows = <<>> THEN <<>> ELSE Last(Windows)

LEMMA WindowsAre ==
  ASSUME kept \in Refs
  PROVE  /\ Windows \in Seq(Refs) /\ Over \in Seq(Refs) /\ Window \in Refs
         /\ Windows # <<>> => Windows = Append(Over, Window)
         /\ Windows = <<>> => Over = <<>>
<1>1. Windows \in Seq(Refs)
  BY ExtendedIs, FoldedIs DEF Windows, Refs
<1>2. CASE Windows = <<>>
  BY <1>1, <1>2 DEF Over, Window, Refs
<1>3. CASE Windows # <<>>
  BY <1>1, <1>3, FrontLast DEF Over, Window
<1>. QED  BY <1>1, <1>2, <1>3

\* A line either ends a window and begins another, or goes into the one there is.
Closes(p) ==
  /\ Windows = <<>> \/ (p \notin ToSet(Window) /\ Cardinality(ToSet(Window)) = buffersize)
  /\ Over' = (IF Windows = <<>> THEN <<>> ELSE Append(Over, Window))
  /\ Window' = <<p>>
Lengthens(p) ==
  /\ Windows # <<>>
  /\ p \in ToSet(Window) \/ Cardinality(ToSet(Window)) # buffersize
  /\ Over' = Over
  /\ Window' = Append(Window, p)

LEMMA WindowsNext ==
  ASSUME kept \in Refs, NEW p \in Page, kept' = Append(kept, p), buffersize' = buffersize
  PROVE  /\ kept' \in Refs /\ Windows' # <<>>
         /\ Closes(p) \/ Lengthens(p)
<1>1. Extended' = Extended
  BY DEF Extended, Begins
<1>2. kept' \in Refs
  BY AppendIs DEF Refs
<1>3. PICK W \in Seq(Refs) : W = Windows
  BY WindowsAre
<1>4. PICK X : X = Windows'
  OBVIOUS
<1>5. X = Folded(Extended, <<>>, Append(kept, p))
  BY <1>1, <1>4 DEF Windows
<1>6. X = Extended[W][p]
  <2>1. W = Folded(Extended, <<>>, kept) /\ kept \in Seq(Page)
    BY <1>3 DEF Windows, Refs
  <2>2. IsStep(Seq(Refs), Page, Extended, <<>>)
    BY ExtendedIs
  <2>. QED  BY <1>5, <2>1, <2>2, FoldedIs
<1>7. Over' = IF X = <<>> THEN <<>> ELSE Front(X)
  BY <1>4 DEF Over
<1>8. Window' = IF X = <<>> THEN <<>> ELSE Last(X)
  BY <1>4 DEF Window
<1>9. CASE Begins(W, p)
  <2>1. X = Append(W, <<p>>) /\ <<p>> \in Refs
    <3>1. Extended[W][p] = Append(W, <<p>>)
      BY <1>9, ExtendedIs
    <3>2. <<p>> \in Refs
      BY DEF Refs
    <3>. QED  BY <1>6, <3>1, <3>2
  <2>2. X # <<>> /\ Front(X) = W /\ Last(X) = <<p>>
    BY <2>1, FrontLastAppend
  <2>3. W # <<>> => W = Append(Over, Window) /\ Window = Last(W)
    BY <1>3, WindowsAre DEF Window
  <2>. QED  BY <1>2, <1>3, <1>4, <1>7, <1>8, <1>9, <2>2, <2>3 DEF Begins, Closes
<1>10. CASE ~Begins(W, p)
  <2>1. W # <<>> /\ Window = Last(W) /\ Over = Front(W)
    BY <1>3, <1>10 DEF Begins, Window, Over
  <2>2. X = Append(Over, Append(Window, p))
    BY <1>6, <1>10, <2>1, ExtendedIs
  <2>3. PICK a \in Refs : a = Append(Window, p)
    <3>1. Window \in Seq(Page)
      BY WindowsAre DEF Refs
    <3>. QED  BY <3>1, AppendIs DEF Refs
  <2>5. PICK V \in Seq(Refs) : V = Over
    BY WindowsAre
  <2>4. X # <<>> /\ Front(X) = Over /\ Last(X) = Append(Window, p)
    <3>1. X = Append(V, a)
      BY <2>2, <2>3, <2>5
    <3>2. Append(V, a) # <<>> /\ Front(Append(V, a)) = V /\ Last(Append(V, a)) = a
      BY FrontLastAppend
    <3>3. X # <<>> /\ Front(X) = V /\ Last(X) = a
      BY <3>1, <3>2
    <3>. QED  BY <2>3, <2>5, <3>3
  <2>. QED  BY <1>2, <1>3, <1>4, <1>7, <1>8, <1>10, <2>1, <2>4 DEF Begins, Lengthens
<1>. QED  BY <1>9, <1>10

----------------------------------------------------------------------------
(* Taking an element out of a sequence                                     *)

Once(s) == \A i, j \in 1 .. Len(s) : s[i] = s[j] => i = j

\* The sequence without its j-th element.
Minus(s, j, T) ==
  /\ Len(s) \in Nat /\ Len(T) = Len(s) - 1
  /\ \A i \in 1 .. Len(s) - 1 : T[i] = IF i < j THEN s[i] ELSE s[i + 1]

LEMMA RemoveAtIs ==
  ASSUME NEW S, NEW s \in Seq(S), NEW j \in 1 .. Len(s)
  PROVE  RemoveAt(s, j) \in Seq(S) /\ Minus(s, j, RemoveAt(s, j))
<1>. DEFINE a == SubSeq(s, 1, j - 1)
            b == SubSeq(s, j + 1, Len(s))
<1>1. RemoveAt(s, j) = a \o b
  BY DEF RemoveAt
<1>2. PICK n : n \in Nat /\ n = Len(s) /\ \A i \in 1 .. n : s[i] \in S
  BY ElementOfSeq
<1>3. /\ a \in Seq(S) /\ Len(a) = j - 1
      /\ \A i \in 1 .. j - 1 : a[i] = s[i]
  <2>1. \A i \in 1 .. j - 1 : s[i] \in S
    BY <1>2
  <2>. QED  BY <2>1, SubSeqProperties
<1>4. /\ b \in Seq(S) /\ Len(b) = n - j
      /\ \A i \in 1 .. n - j : b[i] = s[i + j]
  <2>1. \A i \in j + 1 .. Len(s) : s[i] \in S
    BY <1>2
  <2>. QED  BY <1>2, <2>1, SubSeqProperties
<1>. HIDE DEF a, b
<1>5. PICK T : T = a \o b
  OBVIOUS
<1>6. /\ T \in Seq(S) /\ Len(T) = n - 1
      /\ \A i \in 1 .. n - 1 : T[i] = IF i < j THEN a[i] ELSE b[i - (j - 1)]
  <2>1. /\ a \o b \in Seq(S)
        /\ Len(a \o b) = Len(a) + Len(b)
        /\ \A i \in 1 .. Len(a) + Len(b) :
             (a \o b)[i] = IF i <= Len(a) THEN a[i] ELSE b[i - Len(a)]
    BY <1>3, <1>4, ConcatProperties
  <2>2. j \in Nat /\ Len(a) + Len(b) = n - 1
    BY <1>2, <1>3, <1>4
  <2>. QED  BY <1>2, <1>3, <1>5, <2>1, <2>2
<1>7. ASSUME NEW i \in 1 .. n - 1 PROVE T[i] = IF i < j THEN s[i] ELSE s[i + 1]
  <2>1. CASE i < j
    <3>1. i \in 1 .. j - 1
      BY <1>2, <2>1
    <3>. QED  BY <1>3, <1>6, <2>1, <3>1
  <2>2. CASE ~(i < j)
    <3>1. i - (j - 1) \in 1 .. n - j /\ (i - (j - 1)) + j = i + 1
      BY <1>2, <2>2
    <3>. QED  BY <1>4, <1>6, <2>2, <3>1
  <2>. QED  BY <2>1, <2>2
<1>8. T \in Seq(S) /\ Minus(s, j, T)
  BY <1>2, <1>6, <1>7 DEF Minus
<1>. QED  BY <1>1, <1>5, <1>8

LEMMA RemoveFirstIs ==
  ASSUME NEW S, NEW s \in Seq(S), NEW p
  PROVE  /\ RemoveFirst(s, p) \in Seq(S)
         /\ ~Contains(s, p) => RemoveFirst(s, p) = s
         /\ \A j \in 1 .. Len(s) : s[j] = p /\ Once(s) => Minus(s, j, RemoveFirst(s, p))
<1>1. Len(s) \in Nat
  OBVIOUS
<1>2. CASE ~Contains(s, p)
  BY <1>2 DEF RemoveFirst, Contains
<1>3. CASE Contains(s, p)
  <2>. DEFINE I == {i \in 1 .. Len(s) : s[i] = p}
  <2>5. I \in SUBSET Nat /\ I # {}
    BY <1>1, <1>3 DEF Contains
  <2>6. PICK k : k = Min(I)
    OBVIOUS
  <2>1. k = SelectInSeq(s, LAMBDA v : v = p)
    BY <2>5, <2>6 DEF SelectInSeq
  <2>7. k \in I
    <3>. HIDE DEF I
    <3>. QED  BY <2>5, <2>6, MinExists
  <2>2. k \in 1 .. Len(s) /\ s[k] = p
    BY <2>7
  <2>3. RemoveFirst(s, p) = RemoveAt(s, k)
    BY <1>3, <2>1 DEF RemoveFirst, Contains
  <2>4. RemoveFirst(s, p) \in Seq(S) /\ Minus(s, k, RemoveFirst(s, p))
    BY <2>2, <2>3, RemoveAtIs
  <2>8. \A j \in 1 .. Len(s) : s[j] = p /\ Once(s) => j = k
    BY <2>2 DEF Once
  <2>. QED  BY <1>3, <2>4, <2>8
<1>. QED  BY <1>2, <1>3

\* T has the elements of s but p, each once.
Dropped(s, p, T) ==
  /\ Once(T) /\ ~Contains(T, p)
  /\ \A q : q # p => (Contains(T, q) <=> Contains(s, q))

LEMMA MinusDrops ==
  ASSUME NEW S, NEW s \in Seq(S), Once(s), NEW j \in 1 .. Len(s), NEW T, Minus(s, j, T)
  PROVE  Dropped(s, s[j], T)
<1>1. PICK n : n \in Nat /\ n > 0 /\ n = Len(s)
  OBVIOUS
<1>2. /\ Len(T) = n - 1 /\ n - 1 \in Nat
      /\ \A i \in 1 .. n - 1 : T[i] = IF i < j THEN s[i] ELSE s[i + 1]
  BY <1>1 DEF Minus
<1>3. \A i \in 1 .. n - 1 : \E k \in 1 .. n : k # j /\ T[i] = s[k] /\ k = IF i < j THEN i ELSE i + 1
  <2>. TAKE i \in 1 .. n - 1
  <2>1. CASE i < j
    <3>1. i \in 1 .. n /\ i # j
      BY <1>1, <2>1
    <3>. QED  BY <1>2, <2>1, <3>1
  <2>2. CASE ~(i < j)
    <3>1. i + 1 \in 1 .. n /\ i + 1 # j
      BY <1>1, <2>2
    <3>. QED  BY <1>2, <2>2, <3>1
  <2>. QED  BY <2>1, <2>2
<1>4. \A k \in 1 .. n : k # j => \E i \in 1 .. n - 1 : T[i] = s[k]
  <2>. SUFFICES ASSUME NEW k \in 1 .. n, k # j PROVE \E i \in 1 .. n - 1 : T[i] = s[k]
    OBVIOUS
  <2>1. CASE k < j
    <3>1. k \in 1 .. n - 1
      BY <1>1, <2>1
    <3>. QED  BY <1>2, <2>1, <3>1
  <2>2. CASE ~(k < j)
    <3>1. k - 1 \in 1 .. n - 1 /\ (k - 1) + 1 = k /\ ~(k - 1 < j)
      BY <1>1, <2>2
    <3>. QED  BY <1>2, <3>1
  <2>. QED  BY <2>1, <2>2
<1>5. \A i, k \in 1 .. n : s[i] = s[k] => i = k
  BY <1>1 DEF Once
<1>6. Once(T)
  <2>1. ASSUME NEW a \in 1 .. n - 1, NEW b \in 1 .. n - 1, T[a] = T[b] PROVE a = b
    <3>1. PICK c \in 1 .. n : T[a] = s[c] /\ c = IF a < j THEN a ELSE a + 1
      BY <1>3
    <3>2. PICK d \in 1 .. n : T[b] = s[d] /\ d = IF b < j THEN b ELSE b + 1
      BY <1>3
    <3>3. c = d
      BY <1>5, <2>1, <3>1, <3>2
    <3>. QED  BY <1>1, <3>1, <3>2, <3>3
  <2>. QED  BY <1>2, <2>1 DEF Once
<1>7. ~Contains(T, s[j])
  <2>1. ASSUME NEW i \in 1 .. n - 1 PROVE T[i] # s[j]
    <3>1. PICK k \in 1 .. n : k # j /\ T[i] = s[k]
      BY <1>3
    <3>. QED  BY <1>1, <1>5, <3>1
  <2>. QED  BY <1>2, <2>1 DEF Contains
<1>8. ASSUME NEW q, q # s[j] PROVE Contains(T, q) <=> Contains(s, q)
  <2>1. Contains(T, q) => Contains(s, q)
    <3>1. Contains(T, q) <=> \E i \in 1 .. n - 1 : T[i] = q
      BY <1>2 DEF Contains
    <3>2. Contains(s, q) <=> \E i \in 1 .. n : s[i] = q
      BY <1>1 DEF Contains
    <3>. QED  BY <1>3, <3>1, <3>2
  <2>2. Contains(s, q) => Contains(T, q)
    <3>1. Contains(T, q) <=> \E i \in 1 .. n - 1 : T[i] = q
      BY <1>2 DEF Contains
    <3>2. Contains(s, q) <=> \E i \in 1 .. n : s[i] = q
      BY <1>1 DEF Contains
    <3>. QED  BY <1>4, <1>8, <3>1, <3>2
  <2>. QED  BY <2>1, <2>2
<1>. QED  BY <1>6, <1>7, <1>8 DEF Dropped

LEMMA RemoveFirstDrops ==
  ASSUME NEW S, NEW s \in Seq(S), Once(s), NEW p
  PROVE  /\ Dropped(s, p, RemoveFirst(s, p))
         /\ Len(s) \in Nat
         /\ Len(RemoveFirst(s, p)) = IF Contains(s, p) THEN Len(s) - 1 ELSE Len(s)
<1>1. CASE ~Contains(s, p)
  <2>1. RemoveFirst(s, p) = s
    BY <1>1, RemoveFirstIs
  <2>. QED  BY <1>1, <2>1 DEF Dropped
<1>2. CASE Contains(s, p)
  <2>1. PICK j \in 1 .. Len(s) : s[j] = p
    BY <1>2 DEF Contains
  <2>2. Minus(s, j, RemoveFirst(s, p))
    BY <2>1, RemoveFirstIs
  <2>3. Dropped(s, s[j], RemoveFirst(s, p))
    BY <2>2, MinusDrops
  <2>. QED  BY <1>2, <2>1, <2>2, <2>3 DEF Minus
<1>. QED  BY <1>1, <1>2

\* One element more, that was not there.
LEMMA AppendOnce ==
  ASSUME NEW S, NEW s \in Seq(S), Once(s), NEW p \in S, ~Contains(s, p)
  PROVE  Once(Append(s, p))
<1>1. PICK t : t = Append(s, p)
  OBVIOUS
<1>2. PICK n : n \in Nat /\ n = Len(s) /\ Len(t) = n + 1 /\ t[n + 1] = p /\ \A i \in 1 .. n : t[i] = s[i]
  BY <1>1, AppendIs
<1>3. \A i \in 1 .. n : t[i] # p
  BY <1>2 DEF Contains
<1>4. \A i, j \in 1 .. n : t[i] = t[j] => i = j
  BY <1>2 DEF Once
<1>5. \A i \in 1 .. n + 1 : i = n + 1 \/ i \in 1 .. n
  BY <1>2
<1>6. \A i, j \in 1 .. n + 1 : t[i] = t[j] => i = j
  BY <1>2, <1>3, <1>4, <1>5
<1>. QED  BY <1>1, <1>2, <1>6 DEF Once

LEMMA AppendContains ==
  ASSUME NEW S, NEW s \in Seq(S), NEW p \in S
  PROVE  \A q : Contains(Append(s, p), q) <=> (q = p \/ Contains(s, q))
<1>1. PICK t : t = Append(s, p)
  OBVIOUS
<1>2. PICK n : n \in Nat /\ n = Len(s) /\ Len(t) = n + 1 /\ t[n + 1] = p /\ \A i \in 1 .. n : t[i] = s[i]
  BY <1>1, AppendIs
<1>3. n + 1 \in 1 .. n + 1 /\ \A i \in 1 .. n + 1 : i = n + 1 \/ i \in 1 .. n
  BY <1>2
<1>4. \A i \in 1 .. n : i \in 1 .. n + 1
  BY <1>2
<1>5. ASSUME NEW q PROVE Contains(t, q) <=> (q = p \/ Contains(s, q))
  <2>1. Contains(t, q) <=> \E i \in 1 .. n + 1 : t[i] = q
    BY <1>2 DEF Contains
  <2>2. Contains(s, q) <=> \E i \in 1 .. n : s[i] = q
    BY <1>2 DEF Contains
  <2>. QED  BY <1>2, <1>3, <1>4, <2>1, <2>2
<1>. QED  BY <1>1, <1>5

LEMMA ToSetIs ==
  ASSUME NEW S, NEW s \in Seq(S)
  PROVE  \A q : q \in ToSet(s) <=> Contains(s, q)
BY DEF ToSet, Contains

\* A sequence without repetitions is as long as its set is large.
LEMMA OnceCardinality ==
  ASSUME NEW S, NEW s \in Seq(S), Once(s)
  PROVE  IsFiniteSet(ToSet(s)) /\ Cardinality(ToSet(s)) = Len(s)
<1>1. PICK n : n \in Nat /\ n = Len(s)
  OBVIOUS
<1>2. PICK f : f = [i \in 1 .. n |-> s[i]]
  OBVIOUS
<1>3. ToSet(s) = {f[i] : i \in 1 .. n}
  <2>1. \A i \in 1 .. n : f[i] = s[i]
    BY <1>2
  <2>2. ToSet(s) = {s[i] : i \in 1 .. n}
    BY <1>1 DEF ToSet
  <2>. QED  BY <2>1, <2>2
<1>4. f \in Bijection(1 .. n, ToSet(s))
  <2>1. f \in [1 .. n -> ToSet(s)] /\ \A y \in ToSet(s) : \E i \in 1 .. n : f[i] = y
    BY <1>2, <1>3
  <2>2. \A i, j \in 1 .. n : f[i] = f[j] => i = j
    BY <1>1, <1>2 DEF Once
  <2>. QED  BY <2>1, <2>2 DEF Bijection, Injection, Surjection, IsInjective
<1>5. IsFiniteSet(1 .. n) /\ Cardinality(1 .. n) = n
  <2>1. 1 \in Int /\ n \in Int
    BY <1>1
  <2>2. IsFiniteSet(1 .. n) /\ Cardinality(1 .. n) = IF 1 > n THEN 0 ELSE n - 1 + 1
    BY <2>1, FS_Interval
  <2>. QED  BY <1>1, <2>2
<1>6. IsFiniteSet(ToSet(s)) /\ Cardinality(ToSet(s)) = Cardinality(1 .. n)
  <2>1. ExistsBijection(1 .. n, ToSet(s))
    BY <1>4 DEF ExistsBijection
  <2>. QED  BY <1>5, <2>1, FS_Bijection
<1>. QED  BY <1>1, <1>5, <1>6

----------------------------------------------------------------------------
(* First and last references                                               *)

LEMMA FirstRefsIs ==
  /\ FirstRefs(<<>>) = <<>>
  /\ \A w \in Refs :
       /\ FirstRefs(w) \in Refs
       /\ \A p \in Page :
            FirstRefs(Append(w, p)) = IF Contains(FirstRefs(w), p) THEN FirstRefs(w)
                                      ELSE Append(FirstRefs(w), p)
<1>1. ASSUME NEW s \in Refs, NEW p \in Page
      PROVE  (IF Contains(s, p) THEN s ELSE Append(s, p)) \in Refs
  BY AppendIs DEF Refs
<1>2. IsStep(Refs, Page, Added, <<>>)
  BY <1>1 DEF Added, IsStep, Refs
<1>3. \A s \in Refs, p \in Page : Added[s][p] = IF Contains(s, p) THEN s ELSE Append(s, p)
  BY DEF Added
<1>4. /\ Folded(Added, <<>>, <<>>) = <<>>
      /\ \A s \in Seq(Page) :
           /\ Folded(Added, <<>>, s) \in Refs
           /\ \A p \in Page : Folded(Added, <<>>, Append(s, p)) = Added[Folded(Added, <<>>, s)][p]
  BY <1>2, FoldedIs
<1>. QED  BY <1>3, <1>4 DEF FirstRefs, Refs

LEMMA LastRefsIs ==
  /\ LastRefs(<<>>) = <<>>
  /\ \A w \in Refs :
       /\ LastRefs(w) \in Refs
       /\ \A p \in Page :
            LastRefs(Append(w, p)) = Append(RemoveFirst(LastRefs(w), p), p)
<1>1. ASSUME NEW s \in Refs, NEW p \in Page
      PROVE  Append(RemoveFirst(s, p), p) \in Refs
  <2>1. RemoveFirst(s, p) \in Refs
    BY RemoveFirstIs DEF Refs
  <2>. QED  BY <2>1, AppendIs DEF Refs
<1>2. IsStep(Refs, Page, ToLast, <<>>)
  BY <1>1 DEF ToLast, IsStep, Refs
<1>3. \A s \in Refs, p \in Page : ToLast[s][p] = Append(RemoveFirst(s, p), p)
  BY DEF ToLast
<1>4. /\ Folded(ToLast, <<>>, <<>>) = <<>>
      /\ \A s \in Seq(Page) :
           /\ Folded(ToLast, <<>>, s) \in Refs
           /\ \A p \in Page : Folded(ToLast, <<>>, Append(s, p)) = ToLast[Folded(ToLast, <<>>, s)][p]
  BY <1>2, FoldedIs
<1>. QED  BY <1>3, <1>4 DEF LastRefs, Refs

\* The elements of a sequence of windows, each replaced.
Each(g, V) == [i \in DOMAIN V |-> g[V[i]]]

LEMMA EachIs ==
  ASSUME NEW g \in [Refs -> Refs]
  PROVE  /\ FlattenSeq(Each(g, <<>>)) = <<>>
         /\ \A V \in Seq(Refs) :
              /\ FlattenSeq(Each(g, V)) \in Refs
              /\ \A w \in Refs : FlattenSeq(Each(g, Append(V, w))) = FlattenSeq(Each(g, V)) \o g[w]
<1>1. ASSUME NEW V \in Seq(Refs)
      PROVE  Each(g, V) \in Seq(Refs) /\ Len(Each(g, V)) = Len(V)
  <2>1. PICK n : n \in Nat /\ n = Len(V) /\ DOMAIN V = 1 .. n /\ \A i \in 1 .. n : V[i] \in Refs
    BY ElementOfSeq
  <2>2. Each(g, V) = [i \in 1 .. n |-> g[V[i]]] /\ \A i \in 1 .. n : g[V[i]] \in Refs
    BY <2>1 DEF Each
  <2>. QED  BY <2>1, <2>2
<1>2. Each(g, <<>>) = <<>>
  BY DEF Each
<1>3. ASSUME NEW V \in Seq(Refs), NEW w \in Refs
      PROVE  Each(g, Append(V, w)) = Append(Each(g, V), g[w])
  <2>1. PICK T : T = Append(V, w)
    OBVIOUS
  <2>2. PICK n : /\ n \in Nat /\ n = Len(V) /\ Len(T) = n + 1 /\ T[n + 1] = w /\ T \in Seq(Refs)
                 /\ \A i \in 1 .. n : T[i] = V[i]
    BY <2>1, AppendIs
  <2>3. PICK X : X = Each(g, V)
    OBVIOUS
  <2>4. PICK Y : Y = Append(X, g[w])
    OBVIOUS
  <2>5. X \in Seq(Refs) /\ Len(X) = n /\ g[w] \in Refs /\ \A i \in 1 .. n : X[i] = g[V[i]]
    <3>1. \A i \in DOMAIN V : X[i] = g[V[i]]
      BY <2>3 DEF Each
    <3>2. DOMAIN V = 1 .. n
      BY <2>2
    <3>. QED  BY <1>1, <2>2, <2>3, <3>1, <3>2
  <2>6. Y \in Seq(Refs) /\ Len(Y) = n + 1 /\ Y[n + 1] = g[w] /\ \A i \in 1 .. n : Y[i] = X[i]
    BY <2>4, <2>5, AppendIs
  <2>7. PICK Z : Z = Each(g, T)
    OBVIOUS
  <2>8. Z \in Seq(Refs) /\ Len(Z) = n + 1 /\ \A i \in 1 .. n + 1 : Z[i] = g[T[i]]
    <3>1. \A i \in DOMAIN T : Z[i] = g[T[i]]
      BY <2>7 DEF Each
    <3>2. DOMAIN T = 1 .. n + 1
      BY <2>2
    <3>. QED  BY <1>1, <2>2, <2>7, <3>1, <3>2
  <2>9. Z = Y
    <3>1. Len(Z) = Len(Y)
      BY <2>6, <2>8
    <3>2. ASSUME NEW i \in 1 .. Len(Z) PROVE Z[i] = Y[i]
      <4>1. i = n + 1 \/ i \in 1 .. n
        BY <2>2, <2>8
      <4>. QED  BY <2>2, <2>5, <2>6, <2>8, <4>1
    <3>3. Z \in Seq(Refs) /\ Y \in Seq(Refs)
      BY <2>6, <2>8
    <3>. QED  BY <3>1, <3>2, <3>3, SeqEqual
  <2>. QED  BY <2>1, <2>3, <2>4, <2>7, <2>9
<1>4. /\ FlattenSeq(<<>>) = <<>>
      /\ \A s \in Seq(Refs) :
           /\ FlattenSeq(s) \in Refs
           /\ \A w \in Refs : FlattenSeq(Append(s, w)) = FlattenSeq(s) \o w
  BY FlattenIs DEF Refs
<1>5. ASSUME NEW V \in Seq(Refs), NEW w \in Refs
      PROVE  FlattenSeq(Each(g, Append(V, w))) = FlattenSeq(Each(g, V)) \o g[w]
  <2>1. g[w] \in Refs /\ Each(g, V) \in Seq(Refs)
    BY <1>1
  <2>. QED  BY <1>3, <1>4, <2>1
<1>. QED  BY <1>1, <1>2, <1>4, <1>5

\* What the windows that are over become when one more is.
LEMMA OneMoreWindow ==
  /\ FirstsIn(<<>>) = <<>> /\ LastsIn(<<>>) = <<>> /\ FlattenSeq(<<>>) = <<>>
  /\ \A V \in Seq(Refs) :
       /\ FirstsIn(V) \in Refs /\ LastsIn(V) \in Refs /\ FlattenSeq(V) \in Refs
       /\ \A w \in Refs :
            /\ FirstsIn(Append(V, w)) = FirstsIn(V) \o FirstRefs(w)
            /\ LastsIn(Append(V, w)) = LastsIn(V) \o LastRefs(w)
            /\ FlattenSeq(Append(V, w)) = FlattenSeq(V) \o w
<1>0. ASSUME NEW V \in Seq(Refs) PROVE \A i \in DOMAIN V : V[i] \in Refs
  BY ElementOfSeq
<1>00. <<>> \in Seq(Refs)
  OBVIOUS
<1>1. /\ FirstsIn(<<>>) = <<>>
      /\ \A V \in Seq(Refs) :
           /\ FirstsIn(V) \in Refs
           /\ \A w \in Refs : FirstsIn(Append(V, w)) = FirstsIn(V) \o FirstRefs(w)
  <2>1. PICK g : g = [w \in Refs |-> FirstRefs(w)]
    OBVIOUS
  <2>2. g \in [Refs -> Refs] /\ \A w \in Refs : g[w] = FirstRefs(w)
    BY <2>1, FirstRefsIs
  <2>3. ASSUME NEW V \in Seq(Refs) PROVE FirstsIn(V) = FlattenSeq(Each(g, V))
    <3>1. Each(g, V) = [i \in DOMAIN V |-> FirstRefs(V[i])]
      BY <1>0, <2>2 DEF Each
    <3>. QED  BY <3>1 DEF FirstsIn
  <2>4. /\ FlattenSeq(Each(g, <<>>)) = <<>>
        /\ \A V \in Seq(Refs) :
             /\ FlattenSeq(Each(g, V)) \in Refs
             /\ \A w \in Refs : FlattenSeq(Each(g, Append(V, w))) = FlattenSeq(Each(g, V)) \o g[w]
    BY <2>2, EachIs
  <2>5. ASSUME NEW V \in Seq(Refs), NEW w \in Refs
        PROVE  FirstsIn(Append(V, w)) = FirstsIn(V) \o FirstRefs(w)
    <3>1. Append(V, w) \in Seq(Refs)
      BY AppendIs
    <3>2. FirstsIn(Append(V, w)) = FlattenSeq(Each(g, Append(V, w)))
      BY <2>3, <3>1
    <3>3. FirstsIn(V) = FlattenSeq(Each(g, V))
      BY <2>3
    <3>. QED  BY <2>2, <2>4, <3>2, <3>3
  <2>6. FirstsIn(<<>>) = <<>>
    BY <1>00, <2>3, <2>4
  <2>. QED  BY <2>3, <2>4, <2>5, <2>6
<1>2. /\ LastsIn(<<>>) = <<>>
      /\ \A V \in Seq(Refs) :
           /\ LastsIn(V) \in Refs
           /\ \A w \in Refs : LastsIn(Append(V, w)) = LastsIn(V) \o LastRefs(w)
  <2>1. PICK g : g = [w \in Refs |-> LastRefs(w)]
    OBVIOUS
  <2>2. g \in [Refs -> Refs] /\ \A w \in Refs : g[w] = LastRefs(w)
    BY <2>1, LastRefsIs
  <2>3. ASSUME NEW V \in Seq(Refs) PROVE LastsIn(V) = FlattenSeq(Each(g, V))
    <3>1. Each(g, V) = [i \in DOMAIN V |-> LastRefs(V[i])]
      BY <1>0, <2>2 DEF Each
    <3>. QED  BY <3>1 DEF LastsIn
  <2>4. /\ FlattenSeq(Each(g, <<>>)) = <<>>
        /\ \A V \in Seq(Refs) :
             /\ FlattenSeq(Each(g, V)) \in Refs
             /\ \A w \in Refs : FlattenSeq(Each(g, Append(V, w))) = FlattenSeq(Each(g, V)) \o g[w]
    BY <2>2, EachIs
  <2>5. ASSUME NEW V \in Seq(Refs), NEW w \in Refs
        PROVE  LastsIn(Append(V, w)) = LastsIn(V) \o LastRefs(w)
    <3>1. Append(V, w) \in Seq(Refs)
      BY AppendIs
    <3>2. LastsIn(Append(V, w)) = FlattenSeq(Each(g, Append(V, w)))
      BY <2>3, <3>1
    <3>3. LastsIn(V) = FlattenSeq(Each(g, V))
      BY <2>3
    <3>. QED  BY <2>2, <2>4, <3>2, <3>3
  <2>6. LastsIn(<<>>) = <<>>
    BY <1>00, <2>3, <2>4
  <2>. QED  BY <2>3, <2>4, <2>5, <2>6
<1>3. /\ FlattenSeq(<<>>) = <<>>
      /\ \A s \in Seq(Refs) :
           /\ FlattenSeq(s) \in Refs
           /\ \A w \in Refs : FlattenSeq(Append(s, w)) = FlattenSeq(s) \o w
  BY FlattenIs DEF Refs
<1>. QED  BY <1>1, <1>2, <1>3

----------------------------------------------------------------------------
(* What is printed                                                         *)

FirstHere == FirstRefs(Window)
LastHere == LastRefs(Window)

\* The pages of the window that is not over, in two orders.
Orders ==
  /\ Once(FirstHere) /\ Once(LastHere)
  /\ \A p : Contains(FirstHere, p) <=> p \in ToSet(Window)
  /\ \A p : Contains(LastHere, p) <=> p \in ToSet(Window)
  /\ Len(LastHere) = Len(FirstHere)
  /\ Windows # <<>> <=> Len(FirstHere) > 0

\* What is in the buffer, and waits to be printed, are the first references.
Waiting ==
  /\ ts \in Nat
  /\ Len(toprint) = Len(FirstHere)
  /\ \A i \in 1 .. Len(toprint) :
       /\ toprint[i].pg = FirstHere[i] /\ ~toprint[i].marked
       /\ toprint[i].tstamp \in Nat /\ toprint[i].tstamp < ts
  /\ \A i, j \in 1 .. Len(toprint) : i < j => toprint[i].tstamp < toprint[j].tstamp
  /\ tracebuffer = ToSet(toprint)

Items == [pg : Page, tstamp : Nat, marked : BOOLEAN]

SlimInv ==
  /\ buffersize \in Nat /\ kept \in Refs /\ toprint \in Seq(Items)
  /\ Orders /\ Waiting
  /\ output = Firsts

LEMMA HereAre ==
  ASSUME kept \in Refs
  PROVE  FirstHere \in Seq(Page) /\ LastHere \in Seq(Page)
BY WindowsAre, FirstRefsIs, LastRefsIs DEF FirstHere, LastHere, Refs

\* When a window is over its references go to those that are, in each order.
LEMMA ClosesIs ==
  ASSUME kept \in Refs, NEW p \in Page, Closes(p)
  PROVE  /\ FirstHere' = <<p>> /\ LastHere' = <<p>> /\ Window' = <<p>>
         /\ Firsts' = Firsts \o FirstHere
         /\ Lasts' = Lasts \o LastHere
         /\ Whole' = Whole \o Window
<1>1. Window' = <<p>> /\ <<p>> = Append(<<>>, p) /\ <<>> \in Refs /\ ~Contains(<<>>, p)
  BY DEF Closes, Refs, Contains
<1>2. FirstHere' = <<p>>
  BY <1>1, FirstRefsIs DEF FirstHere
<1>3. LastHere' = <<p>>
  <2>1. RemoveFirst(<<>>, p) = <<>>
    BY <1>1, RemoveFirstIs DEF Refs
  <2>. QED  BY <1>1, <2>1, LastRefsIs DEF LastHere
<1>4. CASE Windows = <<>>
  <2>1. Over = <<>> /\ Over' = <<>> /\ Window = <<>>
    BY <1>4, WindowsAre DEF Closes, Window
  <2>2. <<>> = <<>> \o <<>>
    OBVIOUS
  <2>3. /\ FirstHere = <<>> /\ LastHere = <<>>
        /\ Firsts = <<>> /\ Lasts = <<>> /\ Whole = <<>>
        /\ Firsts' = <<>> /\ Lasts' = <<>> /\ Whole' = <<>>
    BY <2>1, OneMoreWindow, FirstRefsIs, LastRefsIs
       DEF FirstHere, LastHere, Firsts, Lasts, Whole
  <2>. QED  BY <1>1, <1>2, <1>3, <2>1, <2>2, <2>3
<1>5. CASE Windows # <<>>
  <2>1. Over' = Append(Over, Window) /\ Over \in Seq(Refs) /\ Window \in Refs
    BY <1>5, WindowsAre DEF Closes
  <2>2. /\ Firsts' = FirstsIn(Append(Over, Window)) /\ Lasts' = LastsIn(Append(Over, Window))
        /\ Whole' = FlattenSeq(Append(Over, Window))
    BY <2>1 DEF Firsts, Lasts, Whole
  <2>3. /\ FirstsIn(Append(Over, Window)) = FirstsIn(Over) \o FirstRefs(Window)
        /\ LastsIn(Append(Over, Window)) = LastsIn(Over) \o LastRefs(Window)
        /\ FlattenSeq(Append(Over, Window)) = FlattenSeq(Over) \o Window
    BY <2>1, OneMoreWindow
  <2>. QED  BY <1>1, <1>2, <1>3, <2>2, <2>3 DEF Firsts, Lasts, Whole, FirstHere, LastHere
<1>. QED  BY <1>4, <1>5

LEMMA LengthensIs ==
  ASSUME kept \in Refs, NEW p \in Page, Lengthens(p)
  PROVE  /\ FirstHere' = (IF Contains(FirstHere, p) THEN FirstHere ELSE Append(FirstHere, p))
         /\ LastHere' = Append(RemoveFirst(LastHere, p), p)
         /\ Window' = Append(Window, p)
         /\ Firsts' = Firsts /\ Lasts' = Lasts /\ Whole' = Whole
<1>1. Window' = Append(Window, p) /\ Over' = Over /\ Window \in Refs
  BY WindowsAre DEF Lengthens
<1>2. FirstHere' = FirstRefs(Append(Window, p)) /\ LastHere' = LastRefs(Append(Window, p))
  BY <1>1 DEF FirstHere, LastHere
<1>3. FirstHere' = (IF Contains(FirstHere, p) THEN FirstHere ELSE Append(FirstHere, p))
  BY <1>1, <1>2, FirstRefsIs DEF FirstHere
<1>4. LastHere' = Append(RemoveFirst(LastHere, p), p)
  BY <1>1, <1>2, LastRefsIs DEF LastHere
<1>. QED  BY <1>1, <1>3, <1>4 DEF Firsts, Lasts, Whole

LEMMA OrdersNext ==
  ASSUME kept \in Refs, Orders, NEW p \in Page, kept' = Append(kept, p), buffersize' = buffersize
  PROVE  Orders'
<1>1. FirstHere \in Seq(Page) /\ LastHere \in Seq(Page) /\ Window \in Seq(Page)
  BY HereAre, WindowsAre DEF Refs
<1>2. Windows' # <<>> /\ kept' \in Refs /\ (Closes(p) \/ Lengthens(p))
  BY WindowsNext
<1>3. CASE Closes(p)
  <2>1. PICK o : o = <<p>>
    OBVIOUS
  <2>2. FirstHere' = o /\ LastHere' = o /\ Window' = o
    BY <1>3, <2>1, ClosesIs
  <2>3. Len(o) = 1 /\ Once(o) /\ \A q : Contains(o, q) <=> q \in ToSet(o)
    <3>1. o \in Seq(Page) /\ Len(o) = 1
      BY <2>1
    <3>. QED  BY <3>1, ToSetIs DEF Once
  <2>. QED  BY <1>2, <2>2, <2>3 DEF Orders
<1>4. CASE Lengthens(p)
  <2>1. PICK F : F = FirstHere'
    OBVIOUS
  <2>2. PICK L : L = LastHere'
    OBVIOUS
  <2>3. PICK W : W = Window'
    OBVIOUS
  <2>4. /\ F = (IF Contains(FirstHere, p) THEN FirstHere ELSE Append(FirstHere, p))
        /\ L = Append(RemoveFirst(LastHere, p), p)
        /\ W = Append(Window, p)
    BY <1>4, <2>1, <2>2, <2>3, LengthensIs
  <2>5. PICK R \in Seq(Page) : R = RemoveFirst(LastHere, p)
    BY <1>1, RemoveFirstIs
  <2>6. /\ Dropped(LastHere, p, R)
        /\ Len(LastHere) \in Nat /\ Len(R) = IF Contains(LastHere, p) THEN Len(LastHere) - 1 ELSE Len(LastHere)
    BY <1>1, <2>5, RemoveFirstDrops DEF Orders
  <2>7. Once(L) /\ L \in Seq(Page) /\ Len(L) = Len(R) + 1
    <3>1. Once(R) /\ ~Contains(R, p) /\ L = Append(R, p)
      BY <2>4, <2>5, <2>6 DEF Dropped
    <3>. QED  BY <3>1, AppendOnce, AppendIs
  <2>8. \A q : Contains(W, q) <=> (q = p \/ Contains(Window, q))
    BY <1>1, <2>4, AppendContains
  <2>9. \A q : q \in ToSet(W) <=> (q = p \/ q \in ToSet(Window))
    <3>1. W \in Seq(Page)
      BY <1>1, <2>4, AppendIs
    <3>. QED  BY <1>1, <2>8, <3>1, ToSetIs
  <2>10. \A q : Contains(L, q) <=> q \in ToSet(W)
    <3>1. \A q : Contains(L, q) <=> (q = p \/ Contains(R, q))
      BY <2>4, <2>5, AppendContains
    <3>. QED  BY <2>6, <2>9, <3>1 DEF Dropped, Orders
  <2>11. /\ Once(F) /\ \A q : Contains(F, q) <=> q \in ToSet(W)
         /\ Len(F) = Len(L) /\ Len(F) > 0
    <3>1. CASE Contains(FirstHere, p)
      <4>1. F = FirstHere /\ p \in ToSet(Window) /\ Contains(LastHere, p)
        BY <2>4, <3>1 DEF Orders
      <4>2. \A q : Contains(F, q) <=> q \in ToSet(W)
        BY <2>9, <4>1 DEF Orders
      <4>3. Len(F) = Len(L) /\ Len(F) > 0
        BY <1>4, <2>6, <2>7, <4>1 DEF Orders, Lengthens
      <4>. QED  BY <4>1, <4>2, <4>3 DEF Orders
    <3>2. CASE ~Contains(FirstHere, p)
      <4>1. F = Append(FirstHere, p) /\ ~Contains(LastHere, p)
        BY <2>4, <3>2 DEF Orders
      <4>2. Once(F) /\ Len(F) = Len(FirstHere) + 1
        BY <1>1, <3>2, <4>1, AppendOnce, AppendIs DEF Orders
      <4>3. \A q : Contains(F, q) <=> (q = p \/ Contains(FirstHere, q))
        BY <1>1, <4>1, AppendContains
      <4>4. \A q : Contains(F, q) <=> q \in ToSet(W)
        BY <2>9, <4>3 DEF Orders
      <4>5. Len(F) = Len(L) /\ Len(F) > 0
        BY <2>6, <2>7, <4>1, <4>2 DEF Orders
      <4>. QED  BY <4>2, <4>4, <4>5
    <3>. QED  BY <3>1, <3>2
  <2>. QED  BY <1>2, <2>1, <2>2, <2>3, <2>7, <2>10, <2>11 DEF Orders
<1>. QED  BY <1>2, <1>3, <1>4


----------------------------------------------------------------------------
(* What the buffer prints                                                  *)

Before(items, ti) == {b \in items : b.tstamp < ti.tstamp}

\* The items that wait come in the order of their stamps.
LEMMA BeforeIs ==
  ASSUME NEW s \in Seq(Items),
         \A i, j \in 1 .. Len(s) : i < j => s[i].tstamp < s[j].tstamp
  PROVE  /\ Once(s)
         /\ \A i \in 1 .. Len(s) : Cardinality(Before(ToSet(s), s[i])) = i - 1
<1>1. PICK n : n \in Nat /\ n = Len(s) /\ \A i \in 1 .. n : s[i] \in Items /\ s[i].tstamp \in Nat
  <2>1. Len(s) \in Nat /\ \A i \in 1 .. Len(s) : s[i] \in Items
    BY ElementOfSeq
  <2>2. \A it \in Items : it.tstamp \in Nat
    BY DEF Items
  <2>. QED  BY <2>1, <2>2
<1>2. \A i, j \in 1 .. n : s[j].tstamp < s[i].tstamp <=> j < i
  <2>. TAKE i, j \in 1 .. n
  <2>1. CASE j < i
    BY <1>1, <2>1
  <2>2. CASE j = i
    BY <1>1, <2>2
  <2>3. CASE i < j
    <3>1. s[i].tstamp < s[j].tstamp
      BY <1>1, <2>3
    <3>. QED  BY <1>1, <2>3, <3>1
  <2>. QED  BY <1>1, <2>1, <2>2, <2>3
<1>3. Once(s)
  <2>1. ASSUME NEW i \in 1 .. n, NEW j \in 1 .. n, s[i] = s[j] PROVE i = j
    <3>1. ~(j < i) /\ ~(i < j)
      BY <1>1, <1>2, <2>1
    <3>. QED  BY <1>1, <3>1
  <2>. QED  BY <1>1, <2>1 DEF Once
<1>4. ASSUME NEW i \in 1 .. n PROVE Cardinality(Before(ToSet(s), s[i])) = i - 1
  <2>1. PICK m : m \in Nat /\ m = i - 1 /\ \A k \in 1 .. m : k \in 1 .. n /\ k < i
    BY <1>1
  <2>2. PICK r : r = [k \in 1 .. m |-> s[k]]
    OBVIOUS
  <2>3. r \in Seq(Items) /\ Len(r) = m /\ \A k \in 1 .. m : r[k] = s[k]
    <3>1. \A k \in 1 .. m : s[k] \in Items
      BY <1>1, <2>1
    <3>. QED  BY <2>1, <2>2, <3>1
  <2>4. Once(r)
    <3>1. \A k, l \in 1 .. n : s[k] = s[l] => k = l
      BY <1>1, <1>3 DEF Once
    <3>. QED  BY <2>1, <2>3, <3>1 DEF Once
  <2>5. ToSet(r) = Before(ToSet(s), s[i])
    <3>1. ToSet(r) = {s[k] : k \in 1 .. m}
      BY <2>3 DEF ToSet
    <3>2. ToSet(s) = {s[k] : k \in 1 .. n}
      BY <1>1 DEF ToSet
    <3>3. \A b : b \in Before(ToSet(s), s[i]) <=> \E k \in 1 .. n : b = s[k] /\ k < i
      <4>1. \A b : b \in Before(ToSet(s), s[i]) <=> \E k \in 1 .. n : b = s[k] /\ b.tstamp < s[i].tstamp
        BY <3>2 DEF Before
      <4>. QED  BY <1>2, <4>1
    <3>4. \A k \in 1 .. n : k < i => k \in 1 .. m
      BY <2>1
    <3>. QED  BY <2>1, <3>1, <3>3, <3>4
  <2>. QED  BY <2>1, <2>3, <2>4, <2>5, OnceCardinality
<1>. QED  BY <1>1, <1>3, <1>4

LEMMA EmittedIs ==
  ASSUME toprint \in Seq(Items), FirstHere \in Seq(Page), Waiting
  PROVE  /\ Emitted = FirstHere
         /\ Cardinality(tracebuffer) = Len(FirstHere)
         /\ \A p : Buffered(p) <=> Contains(FirstHere, p)
<1>1. PICK n : n \in Nat /\ n = Len(toprint) /\ n = Len(FirstHere)
  BY DEF Waiting
<1>2. PICK T : T = ToSet(toprint)
  OBVIOUS
<1>3. tracebuffer = T /\ T = {toprint[i] : i \in 1 .. n}
  BY <1>1, <1>2 DEF Waiting, ToSet
<1>4. \A i \in 1 .. n : toprint[i].pg = FirstHere[i] /\ ~toprint[i].marked
  BY <1>1 DEF Waiting
<1>5. ToSet(toprint) \cup {ti \in tracebuffer : ti.marked} = T
  BY <1>2, <1>3, <1>4
<1>6. Once(toprint) /\ \A i \in 1 .. n : Cardinality(Before(T, toprint[i])) = i - 1
  <2>1. \A i, j \in 1 .. Len(toprint) : i < j => toprint[i].tstamp < toprint[j].tstamp
    BY DEF Waiting
  <2>. QED  BY <1>1, <1>2, <2>1, BeforeIs
<1>7. Cardinality(T) = n
  BY <1>1, <1>2, <1>6, OnceCardinality
<1>8. ASSUME NEW i \in 1 .. n
      PROVE  (CHOOSE ti \in T : Cardinality(Before(T, ti)) = i - 1) = toprint[i]
  <2>1. toprint[i] \in T /\ Cardinality(Before(T, toprint[i])) = i - 1
    BY <1>3, <1>6
  <2>2. ASSUME NEW ti \in T, Cardinality(Before(T, ti)) = i - 1 PROVE ti = toprint[i]
    <3>1. PICK k \in 1 .. n : ti = toprint[k]
      BY <1>3
    <3>2. k - 1 = i - 1
      BY <1>6, <2>2, <3>1
    <3>. QED  BY <1>1, <3>1, <3>2
  <2>3. PICK u : u = CHOOSE ti \in T : Cardinality(Before(T, ti)) = i - 1
    OBVIOUS
  <2>4. u \in T /\ Cardinality(Before(T, u)) = i - 1
    BY <2>1, <2>3
  <2>. QED  BY <2>2, <2>3, <2>4
<1>9. Sorted(T) = [i \in 1 .. n |-> toprint[i]]
  <2>1. Sorted(T) = [i \in 1 .. n |-> CHOOSE ti \in T : Cardinality(Before(T, ti)) = i - 1]
    BY <1>7, Zenon DEF Sorted, Before
  <2>. QED  BY <1>8, <2>1
<1>10. Emitted = [i \in 1 .. n |-> FirstHere[i]]
  <2>1. Emitted = [i \in 1 .. n |-> Sorted(T)[i].pg]
    BY <1>5, <1>7, Zenon DEF Emitted
  <2>2. \A i \in 1 .. n : Sorted(T)[i] = toprint[i]
    BY <1>9
  <2>. QED  BY <1>4, <2>1, <2>2
<1>11. FirstHere = [i \in 1 .. n |-> FirstHere[i]]
  BY <1>1
<1>12. \A p : Buffered(p) <=> Contains(FirstHere, p)
  <2>1. \A p : Buffered(p) <=> \E i \in 1 .. n : toprint[i].pg = p
    BY <1>3 DEF Buffered
  <2>2. \A p : Contains(FirstHere, p) <=> \E i \in 1 .. n : FirstHere[i] = p
    BY <1>1 DEF Contains
  <2>. QED  BY <1>4, <2>1, <2>2
<1>. QED  BY <1>1, <1>3, <1>7, <1>10, <1>11, <1>12

\* As many pages as first references.
LEMMA WindowPages ==
  ASSUME kept \in Refs, Orders
  PROVE  Cardinality(ToSet(Window)) = Len(FirstHere) /\ Len(FirstHere) \in Nat
<1>1. FirstHere \in Seq(Page)
  BY HereAre
<1>2. ToSet(FirstHere) = ToSet(Window)
  <2>1. \A q : q \in ToSet(FirstHere) <=> q \in ToSet(Window)
    BY <1>1, ToSetIs DEF Orders
  <2>. QED  BY <2>1
<1>. QED  BY <1>1, <1>2, OnceCardinality DEF Orders

\* One item more waits, with the number of this line.
LEMMA OneMoreItem ==
  ASSUME toprint \in Seq(Items), FirstHere \in Seq(Page), Waiting, NEW p \in Page,
         ts' = ts + 1, FirstHere' = Append(FirstHere, p),
         toprint' = Append(toprint, TraceItem(p)),
         tracebuffer' = tracebuffer \cup {TraceItem(p)}
  PROVE  toprint' \in Seq(Items) /\ Waiting'
<1>1. PICK it : it = TraceItem(p)
  OBVIOUS
<1>2. it \in Items /\ it.pg = p /\ ~it.marked /\ it.tstamp = ts /\ ts \in Nat
  BY <1>1 DEF TraceItem, Items, Waiting
<1>3. PICK T : T = toprint'
  OBVIOUS
<1>4. PICK n : /\ n \in Nat /\ n = Len(toprint) /\ T \in Seq(Items) /\ Len(T) = n + 1 /\ T[n + 1] = it
               /\ \A i \in 1 .. n : T[i] = toprint[i]
  <2>1. PICK u : u = toprint
    OBVIOUS
  <2>2. T = Append(u, it) /\ u \in Seq(Items) /\ it \in Items
    BY <1>1, <1>2, <1>3, <2>1
  <2>3. /\ T \in Seq(Items) /\ Len(u) \in Nat /\ Len(T) = Len(u) + 1 /\ T[Len(u) + 1] = it
        /\ \A i \in 1 .. Len(u) : T[i] = u[i]
    BY <2>2, AppendIs
  <2>. QED  BY <2>1, <2>3
<1>5. PICK F : F = FirstHere'
  OBVIOUS
<1>6. Len(F) = n + 1 /\ F[n + 1] = p /\ \A i \in 1 .. n : F[i] = FirstHere[i]
  <2>1. Len(FirstHere) = n
    BY <1>4 DEF Waiting
  <2>. QED  BY <1>5, <2>1, AppendIs
<1>7. \A i \in 1 .. n : /\ toprint[i].pg = FirstHere[i] /\ ~toprint[i].marked
                        /\ toprint[i].tstamp \in Nat /\ toprint[i].tstamp < ts
  BY <1>4 DEF Waiting
<1>8. \A i, j \in 1 .. n : i < j => toprint[i].tstamp < toprint[j].tstamp
  BY <1>4 DEF Waiting
<1>9. \A i \in 1 .. n + 1 : i = n + 1 \/ i \in 1 .. n
  BY <1>4
<1>10. ASSUME NEW i \in 1 .. n + 1
       PROVE  T[i].pg = F[i] /\ ~T[i].marked /\ T[i].tstamp \in Nat /\ T[i].tstamp < ts + 1
  <2>1. CASE i = n + 1
    BY <1>2, <1>4, <1>6, <2>1
  <2>2. CASE i \in 1 .. n
    BY <1>2, <1>4, <1>6, <1>7, <2>2
  <2>. QED  BY <1>9, <2>1, <2>2
<1>11. ASSUME NEW i \in 1 .. n + 1, NEW j \in 1 .. n + 1, i < j
       PROVE  T[i].tstamp < T[j].tstamp
  <2>1. i \in 1 .. n
    BY <1>4, <1>11
  <2>2. CASE j = n + 1
    BY <1>2, <1>4, <1>7, <2>1, <2>2
  <2>3. CASE j \in 1 .. n
    BY <1>4, <1>8, <1>11, <2>1, <2>3
  <2>. QED  BY <1>9, <2>2, <2>3
<1>12. tracebuffer' = ToSet(T)
  <2>1. ToSet(toprint) = {toprint[i] : i \in 1 .. n}
    <3>1. DOMAIN toprint = 1 .. n
      BY <1>4
    <3>. QED  BY <3>1 DEF ToSet
  <2>2. ToSet(T) = {T[i] : i \in 1 .. n + 1}
    <3>1. DOMAIN T = 1 .. n + 1
      BY <1>4
    <3>. QED  BY <3>1 DEF ToSet
  <2>3. n + 1 \in 1 .. n + 1 /\ \A i \in 1 .. n : i \in 1 .. n + 1
    BY <1>4
  <2>4. \A x : x \in ToSet(T) <=> (x = it \/ x \in ToSet(toprint))
    BY <1>4, <1>9, <2>1, <2>2, <2>3
  <2>. QED  BY <1>1, <2>4 DEF Waiting
<1>. QED  BY <1>2, <1>3, <1>4, <1>5, <1>6, <1>10, <1>11, <1>12 DEF Waiting

\* And a buffer that was emptied has this line's only.
LEMMA FirstItem ==
  ASSUME Waiting, NEW p \in Page, ts' = ts + 1, FirstHere' = <<p>>,
         toprint' = <<TraceItem(p)>>, tracebuffer' = {TraceItem(p)}
  PROVE  toprint' \in Seq(Items) /\ Waiting'
<1>1. PICK it : it = TraceItem(p)
  OBVIOUS
<1>2. it \in Items /\ it.pg = p /\ ~it.marked /\ it.tstamp = ts /\ ts \in Nat
  BY <1>1 DEF TraceItem, Items, Waiting
<1>3. PICK T : T = <<it>>
  OBVIOUS
<1>4. PICK F : F = <<p>>
  OBVIOUS
<1>5. T \in Seq(Items) /\ Len(T) = 1 /\ T[1] = it /\ Len(F) = 1 /\ F[1] = p
  BY <1>2, <1>3, <1>4
<1>6. ToSet(T) = {it}
  BY <1>5 DEF ToSet
<1>7. \A i \in 1 .. 1 : i = 1
  OBVIOUS
<1>8. toprint' = T /\ FirstHere' = F /\ tracebuffer' = {it}
  BY <1>1, <1>3, <1>4
<1>. QED  BY <1>2, <1>5, <1>6, <1>7, <1>8 DEF Waiting

\* What a line does to what waits.
LEMMA SlimInvInit ==
  ASSUME SlimInit PROVE SlimInv
<1>1. buffersize \in Nat /\ kept = <<>> /\ toprint = <<>> /\ tracebuffer = {} /\ ts = 0 /\ output = <<>>
  BY BufferSizesAssumption DEF SlimInit
<1>2. kept \in Refs /\ toprint \in Seq(Items)
  BY <1>1 DEF Refs
<1>3. Windows = <<>>
  BY <1>1, ExtendedIs, FoldedIs DEF Windows
<1>4. Window = <<>> /\ Over = <<>>
  BY <1>3 DEF Window, Over
<1>5. FirstHere = <<>> /\ LastHere = <<>> /\ Firsts = <<>>
  BY <1>4, FirstRefsIs, LastRefsIs, OneMoreWindow DEF FirstHere, LastHere, Firsts
<1>6. PICK e : e = <<>> /\ e \in Seq(Page) /\ Len(e) = 0
  <2>1. <<>> \in Seq(Page) /\ Len(<<>>) = 0
    OBVIOUS
  <2>. QED  BY <2>1
<1>7. Orders
  <2>1. Once(e)
    BY <1>6 DEF Once
  <2>2. \A q : Contains(e, q) <=> q \in ToSet(e)
    BY <1>6, ToSetIs
  <2>. QED  BY <1>3, <1>4, <1>5, <1>6, <2>1, <2>2 DEF Orders
<1>8. Waiting
  <2>1. ToSet(toprint) = {} /\ Len(toprint) = 0
    BY <1>1 DEF ToSet
  <2>. QED  BY <1>1, <1>5, <2>1 DEF Waiting
<1>. QED  BY <1>1, <1>2, <1>5, <1>7, <1>8 DEF SlimInv

LEMMA SlimInvNext ==
  ASSUME SlimInv, [SlimNext]_slimvars PROVE SlimInv'
<1>. USE DEF SlimInv
<1>1. CASE UNCHANGED slimvars
  <2>1. Windows' = Windows
    BY <1>1 DEF slimvars, Windows, Extended, Begins
  <2>2. Window' = Window /\ Over' = Over
    BY <2>1 DEF Window, Over
  <2>3. FirstHere' = FirstHere /\ LastHere' = LastHere /\ Firsts' = Firsts
    BY <2>2 DEF FirstHere, LastHere, Firsts
  <2>4. Orders'
    BY <2>1, <2>2, <2>3 DEF Orders
  <2>5. Waiting'
    BY <1>1, <2>3 DEF Waiting, slimvars
  <2>. QED  BY <1>1, <2>3, <2>4, <2>5 DEF slimvars
<1>2. ASSUME NEW p \in Page, SeenAgain(p) \/ SeenFirst(p)
      PROVE  SlimInv'
  <2>1. /\ ts' = ts + 1 /\ kept' = Append(kept, p) /\ buffersize' = buffersize
        /\ kept' \in Refs /\ ts \in Nat
    BY <1>2, AppendIs DEF SeenAgain, SeenFirst, ReadsRef, Refs, Waiting
  <2>2. Orders' /\ (Closes(p) \/ Lengthens(p))
    BY <2>1, OrdersNext, WindowsNext
  <2>3. FirstHere \in Seq(Page) /\ Firsts \in Refs
    <3>1. Firsts \in Refs
      BY WindowsAre, OneMoreWindow DEF Firsts
    <3>. QED  BY <3>1, HereAre
  <2>4. /\ Emitted = FirstHere
        /\ Cardinality(tracebuffer) = Len(FirstHere)
        /\ Buffered(p) <=> Contains(FirstHere, p)
    BY <2>3, EmittedIs
  <2>5. Cardinality(ToSet(Window)) = Len(FirstHere) /\ (Contains(FirstHere, p) <=> p \in ToSet(Window))
    BY WindowPages DEF Orders
  <2>6. Contains(FirstHere, p) => Windows # <<>>
    <3>1. Contains(FirstHere, p) => Len(FirstHere) > 0
      BY <2>3 DEF Contains
    <3>. QED  BY <3>1 DEF Orders
  <2>7. CASE SeenAgain(p)
    <3>1. Lengthens(p)
      BY <2>2, <2>4, <2>5, <2>6, <2>7 DEF SeenAgain, Closes
    <3>2. FirstHere' = FirstHere /\ Firsts' = Firsts
      BY <2>4, <2>7, <3>1, LengthensIs DEF SeenAgain
    <3>3. UNCHANGED <<tracebuffer, toprint, output>>
      BY <2>7 DEF SeenAgain
    <3>4. Waiting'
      <4>1. \A i \in 1 .. Len(toprint) : toprint[i].tstamp \in Nat /\ toprint[i].tstamp < ts + 1
        BY <2>1 DEF Waiting
      <4>. QED  BY <2>1, <3>2, <3>3, <4>1 DEF Waiting
    <3>. QED  BY <2>1, <2>2, <3>2, <3>3, <3>4
  <2>8. CASE SeenFirst(p) /\ Full
    <3>1. /\ output' = output \o FirstHere
          /\ tracebuffer' = {TraceItem(p)} /\ toprint' = <<TraceItem(p)>>
          /\ ~Contains(FirstHere, p) /\ Len(FirstHere) = buffersize
      BY <2>4, <2>8 DEF SeenFirst, Full
    <3>2. Closes(p)
      BY <2>2, <2>5, <3>1 DEF Lengthens
    <3>3. FirstHere' = <<p>> /\ Firsts' = Firsts \o FirstHere
      BY <3>2, ClosesIs
    <3>4. toprint' \in Seq(Items) /\ Waiting'
      BY <2>1, <3>1, <3>3, FirstItem
    <3>. QED  BY <2>1, <2>2, <3>1, <3>3, <3>4
  <2>9. CASE SeenFirst(p) /\ ~Full
    <3>1. /\ output' = output
          /\ tracebuffer' = tracebuffer \cup {TraceItem(p)} /\ toprint' = Append(toprint, TraceItem(p))
          /\ ~Contains(FirstHere, p) /\ Len(FirstHere) # buffersize
      BY <2>4, <2>9 DEF SeenFirst, Full
    <3>2. FirstHere' = Append(FirstHere, p) /\ Firsts' = Firsts
      <4>1. CASE Lengthens(p)
        BY <3>1, <4>1, LengthensIs
      <4>2. CASE Closes(p)
        <5>1. Windows = <<>>
          BY <2>5, <3>1, <4>2 DEF Closes
        <5>2. FirstHere = <<>> /\ <<p>> = Append(<<>>, p)
          BY <2>3, <5>1, FirstRefsIs DEF FirstHere, Window
        <5>3. FirstHere' = <<p>> /\ Firsts' = Firsts \o <<>>
          BY <4>2, <5>2, ClosesIs
        <5>. QED  BY <2>3, <5>2, <5>3, ConcatEmptySeq DEF Refs
      <4>. QED  BY <2>2, <4>1, <4>2
    <3>3. toprint' \in Seq(Items) /\ Waiting'
      BY <2>1, <2>3, <3>1, <3>2, OneMoreItem
    <3>. QED  BY <2>1, <2>2, <3>1, <3>2, <3>3
  <2>. QED  BY <1>2, <2>7, <2>8, <2>9
<1>3. CASE SlimNext
  <2>1. UNCHANGED slimvars \/ \E p \in Page : SeenAgain(p) \/ SeenFirst(p)
    BY <1>3 DEF SlimNext, SkipsLine, EndOfTrace
  <2>. QED  BY <1>1, <1>2, <2>1
<1>. QED  BY <1>1, <1>3

\* What is printed is the first references of the windows that are over: the
\* code's marked items are never those it prints (fastslim.py:80).
THEOREM PrintsFirsts == SlimSpec => []PrintsFirstReferences
<1>1. SlimInv => PrintsFirstReferences
  BY DEF SlimInv, PrintsFirstReferences
<1>. QED  BY <1>1, SlimInvInit, SlimInvNext, PTL DEF SlimSpec

----------------------------------------------------------------------------
(* Two sequences, one after the other                                      *)

LEMMA ConcatIs ==
  ASSUME NEW S, NEW R \in Seq(S), NEW X \in Seq(S), NEW t, t = R \o X
  PROVE  /\ t \in Seq(S) /\ Len(R) \in Nat /\ Len(X) \in Nat /\ Len(t) = Len(R) + Len(X)
         /\ \A i \in 1 .. Len(R) : t[i] = R[i]
         /\ \A i \in 1 .. Len(X) : t[Len(R) + i] = X[i]
         /\ \A i \in 1 .. Len(t) : i \in 1 .. Len(R) \/ (i - Len(R) \in 1 .. Len(X) /\ t[i] = X[i - Len(R)])
<1>1. /\ t \in Seq(S) /\ Len(t) = Len(R) + Len(X)
      /\ \A i \in 1 .. Len(R) + Len(X) : t[i] = IF i <= Len(R) THEN R[i] ELSE X[i - Len(R)]
  BY ConcatProperties
<1>2. PICK n : n \in Nat /\ n = Len(R)
  OBVIOUS
<1>3. PICK k : k \in Nat /\ k = Len(X)
  OBVIOUS
<1>4. \A i \in 1 .. k : n + i \in 1 .. n + k /\ ~(n + i <= n) /\ (n + i) - n = i
  BY <1>2, <1>3
<1>5. \A i \in 1 .. n + k : i <= n \/ (i - n \in 1 .. k /\ ~(i <= n))
  BY <1>2, <1>3
<1>6. \A i \in 1 .. n : i \in 1 .. n + k /\ i <= n
  BY <1>2, <1>3
<1>. QED  BY <1>1, <1>2, <1>3, <1>4, <1>5, <1>6

Apart(R, X) == \A q : ~(Contains(R, q) /\ Contains(X, q))

LEMMA ConcatContains ==
  ASSUME NEW S, NEW R \in Seq(S), NEW X \in Seq(S)
  PROVE  \A q : Contains(R \o X, q) <=> (Contains(R, q) \/ Contains(X, q))
<1>1. PICK t : t = R \o X
  OBVIOUS
<1>2. /\ Len(R) \in Nat /\ Len(X) \in Nat /\ Len(t) = Len(R) + Len(X)
      /\ \A i \in 1 .. Len(R) : t[i] = R[i]
      /\ \A i \in 1 .. Len(X) : t[Len(R) + i] = X[i]
      /\ \A i \in 1 .. Len(t) : i \in 1 .. Len(R) \/ (i - Len(R) \in 1 .. Len(X) /\ t[i] = X[i - Len(R)])
  BY <1>1, ConcatIs
<1>3. ASSUME NEW q, Contains(t, q) PROVE Contains(R, q) \/ Contains(X, q)
  BY <1>2, <1>3 DEF Contains
<1>4. ASSUME NEW q, Contains(R, q) PROVE Contains(t, q)
  <2>1. PICK i \in 1 .. Len(R) : R[i] = q
    BY <1>4 DEF Contains
  <2>2. i \in 1 .. Len(t) /\ t[i] = q
    BY <1>2, <2>1
  <2>. QED  BY <2>2 DEF Contains
<1>5. ASSUME NEW q, Contains(X, q) PROVE Contains(t, q)
  <2>1. PICK i \in 1 .. Len(X) : X[i] = q
    BY <1>5 DEF Contains
  <2>2. Len(R) + i \in 1 .. Len(t) /\ t[Len(R) + i] = q
    BY <1>2, <2>1
  <2>. QED  BY <2>2 DEF Contains
<1>. QED  BY <1>1, <1>3, <1>4, <1>5

LEMMA ConcatOnce ==
  ASSUME NEW S, NEW R \in Seq(S), NEW X \in Seq(S), Once(R), Once(X), Apart(R, X)
  PROVE  Once(R \o X)
<1>1. PICK t : t = R \o X
  OBVIOUS
<1>2. /\ Len(R) \in Nat /\ Len(X) \in Nat /\ Len(t) = Len(R) + Len(X)
      /\ \A i \in 1 .. Len(R) : t[i] = R[i]
      /\ \A i \in 1 .. Len(t) : i \in 1 .. Len(R) \/ (i - Len(R) \in 1 .. Len(X) /\ t[i] = X[i - Len(R)])
  BY <1>1, ConcatIs
<1>3. \A i \in 1 .. Len(R), k \in 1 .. Len(X) : R[i] # X[k]
  BY DEF Apart, Contains
<1>4. ASSUME NEW i \in 1 .. Len(t), NEW j \in 1 .. Len(t), t[i] = t[j] PROVE i = j
  <2>1. CASE i \in 1 .. Len(R) /\ j \in 1 .. Len(R)
    BY <1>2, <1>4, <2>1 DEF Once
  <2>2. CASE i \in 1 .. Len(R) /\ j \notin 1 .. Len(R)
    BY <1>2, <1>3, <1>4, <2>2
  <2>3. CASE i \notin 1 .. Len(R) /\ j \in 1 .. Len(R)
    BY <1>2, <1>3, <1>4, <2>3
  <2>4. CASE i \notin 1 .. Len(R) /\ j \notin 1 .. Len(R)
    <3>1. i - Len(R) = j - Len(R)
      BY <1>2, <1>4, <2>4 DEF Once
    <3>. QED  BY <1>2, <3>1
  <2>. QED  BY <2>1, <2>2, <2>3, <2>4
<1>. QED  BY <1>1, <1>4 DEF Once

AppendsToSecond(R, X, p) == Append(R \o X, p) = R \o Append(X, p)

LEMMA AppendToSecond ==
  ASSUME NEW S, NEW R \in Seq(S), NEW X \in Seq(S), NEW p \in S
  PROVE  AppendsToSecond(R, X, p)
<1>1. PICK o : o = <<p>> /\ o \in Seq(S)
  <2>1. <<p>> \in Seq(S)
    OBVIOUS
  <2>. QED  BY <2>1
<1>2. R \o X \in Seq(S) /\ Append(R \o X, p) = (R \o X) \o o /\ Append(X, p) = X \o o
  <2>1. \A y \in Seq(S) : Append(y, p) = y \o o
    BY <1>1, AppendIsConcat
  <2>. QED  BY <2>1, ConcatProperties
<1>3. (R \o X) \o o = R \o (X \o o)
  BY <1>1, ConcatAssociative
<1>. QED  BY <1>2, <1>3 DEF AppendsToSecond

LEMMA TailOfFirst ==
  ASSUME NEW S, NEW R \in Seq(S), NEW X \in Seq(S), R # <<>>
  PROVE  /\ Tail(R \o X) = Tail(R) \o X
         /\ Tail(R) \in Seq(S) /\ Len(Tail(R)) = Len(R) - 1
         /\ \A i \in 1 .. Len(R) - 1 : Tail(R)[i] = R[i + 1]
<1>1. PICK t : t = R \o X
  OBVIOUS
<1>2. /\ t \in Seq(S) /\ Len(R) \in Nat /\ Len(X) \in Nat /\ Len(t) = Len(R) + Len(X)
      /\ \A i \in 1 .. Len(R) : t[i] = R[i]
      /\ \A i \in 1 .. Len(X) : t[Len(R) + i] = X[i]
  BY <1>1, ConcatIs
<1>3. Len(R) > 0 /\ t # <<>>
  BY <1>2
<1>4. PICK u : u = Tail(R)
  OBVIOUS
<1>5. u \in Seq(S) /\ Len(u) = Len(R) - 1 /\ \A i \in 1 .. Len(R) - 1 : u[i] = R[i + 1]
  <2>1. u \in Seq(S) /\ Len(u) = Len(R) - 1 /\ \A i \in 1 .. Len(u) : u[i] = R[i + 1]
    BY <1>4, HeadTailProperties
  <2>. QED  BY <2>1
<1>6. PICK v : v = Tail(t)
  OBVIOUS
<1>7. v \in Seq(S) /\ Len(v) = Len(t) - 1 /\ \A i \in 1 .. Len(v) : v[i] = t[i + 1]
  BY <1>2, <1>3, <1>6, HeadTailProperties
<1>8. PICK w : w = u \o X
  OBVIOUS
<1>9. /\ w \in Seq(S) /\ Len(w) = Len(u) + Len(X)
      /\ \A i \in 1 .. Len(u) : w[i] = u[i]
      /\ \A i \in 1 .. Len(w) : i \in 1 .. Len(u) \/ (i - Len(u) \in 1 .. Len(X) /\ w[i] = X[i - Len(u)])
  <2>1. u \in Seq(S)
    BY <1>5
  <2>2. /\ w \in Seq(S) /\ Len(u) \in Nat /\ Len(X) \in Nat /\ Len(w) = Len(u) + Len(X)
        /\ \A i \in 1 .. Len(u) : w[i] = u[i]
        /\ \A i \in 1 .. Len(w) : i \in 1 .. Len(u) \/ (i - Len(u) \in 1 .. Len(X) /\ w[i] = X[i - Len(u)])
    BY <1>8, <2>1, ConcatIs
  <2>. QED  BY <2>2
<1>10. v = w
  <2>1. Len(v) = Len(w)
    BY <1>2, <1>5, <1>7, <1>9
  <2>2. ASSUME NEW i \in 1 .. Len(v) PROVE v[i] = w[i]
    <3>1. v[i] = t[i + 1] /\ i \in 1 .. Len(w)
      BY <1>7, <2>1
    <3>2. CASE i \in 1 .. Len(u)
      <4>1. i + 1 \in 1 .. Len(R) /\ i \in 1 .. Len(R) - 1
        BY <1>2, <1>5, <3>2
      <4>. QED  BY <1>2, <1>5, <1>9, <3>1, <3>2, <4>1
    <3>3. CASE i \notin 1 .. Len(u)
      <4>1. i - Len(u) \in 1 .. Len(X) /\ w[i] = X[i - Len(u)]
        BY <1>9, <3>1, <3>3
      <4>2. i - Len(u) = (i + 1) - Len(R) /\ i + 1 = Len(R) + (i - Len(u))
        BY <1>2, <1>5
      <4>. QED  BY <1>2, <3>1, <4>1, <4>2
    <3>. QED  BY <3>2, <3>3
  <2>. QED  BY <1>7, <1>9, <2>1, <2>2, SeqEqual
<1>. QED  BY <1>1, <1>4, <1>5, <1>6, <1>8, <1>10

\* Taking out an element of the first one, or of the second.
LEMMA RemoveFromFirst ==
  ASSUME NEW S, NEW R \in Seq(S), NEW X \in Seq(S), Once(R), Once(X), Apart(R, X),
         NEW p, Contains(R, p)
  PROVE  RemoveFirst(R \o X, p) = RemoveFirst(R, p) \o X
<1>1. PICK t : t = R \o X
  OBVIOUS
<1>2. /\ t \in Seq(S) /\ Len(R) \in Nat /\ Len(X) \in Nat /\ Len(t) = Len(R) + Len(X)
      /\ \A i \in 1 .. Len(R) : t[i] = R[i]
      /\ \A i \in 1 .. Len(X) : t[Len(R) + i] = X[i]
  BY <1>1, ConcatIs
<1>3. Once(t)
  BY <1>1, ConcatOnce
<1>4. PICK j \in 1 .. Len(R) : R[j] = p
  BY DEF Contains
<1>5. PICK u : u = RemoveFirst(R, p)
  OBVIOUS
<1>6. u \in Seq(S) /\ Minus(R, j, u)
  BY <1>4, <1>5, RemoveFirstIs
<1>7. Len(u) = Len(R) - 1 /\ \A i \in 1 .. Len(R) - 1 : u[i] = IF i < j THEN R[i] ELSE R[i + 1]
  BY <1>6 DEF Minus
<1>8. PICK v : v = RemoveFirst(t, p)
  OBVIOUS
<1>9. v \in Seq(S) /\ Minus(t, j, v)
  <2>1. j \in 1 .. Len(t) /\ t[j] = p
    BY <1>2, <1>4
  <2>. QED  BY <1>2, <1>3, <1>8, <2>1, RemoveFirstIs
<1>10. Len(v) = Len(t) - 1 /\ \A i \in 1 .. Len(t) - 1 : v[i] = IF i < j THEN t[i] ELSE t[i + 1]
  BY <1>9 DEF Minus
<1>11. PICK w : w = u \o X
  OBVIOUS
<1>12. /\ w \in Seq(S) /\ Len(w) = Len(u) + Len(X)
       /\ \A i \in 1 .. Len(u) : w[i] = u[i]
       /\ \A i \in 1 .. Len(w) : i \in 1 .. Len(u) \/ (i - Len(u) \in 1 .. Len(X) /\ w[i] = X[i - Len(u)])
  BY <1>6, <1>11, ConcatIs
<1>13. v = w
  <2>1. Len(v) = Len(w)
    BY <1>2, <1>7, <1>10, <1>12
  <2>2. ASSUME NEW i \in 1 .. Len(v) PROVE v[i] = w[i]
    <3>1. v[i] = (IF i < j THEN t[i] ELSE t[i + 1]) /\ i \in 1 .. Len(w)
      BY <1>10, <2>1
    <3>2. CASE i \in 1 .. Len(u)
      <4>1. i \in 1 .. Len(R) /\ i + 1 \in 1 .. Len(R) /\ i \in 1 .. Len(R) - 1
        BY <1>2, <1>7, <3>2
      <4>. QED  BY <1>2, <1>7, <1>12, <3>1, <3>2, <4>1
    <3>3. CASE i \notin 1 .. Len(u)
      <4>1. i - Len(u) \in 1 .. Len(X) /\ w[i] = X[i - Len(u)]
        BY <1>12, <3>1, <3>3
      <4>2. i - Len(u) = (i + 1) - Len(R) /\ i + 1 = Len(R) + (i - Len(u)) /\ ~(i < j)
        BY <1>2, <1>7, <3>3
      <4>. QED  BY <1>2, <3>1, <4>1, <4>2
    <3>. QED  BY <3>2, <3>3
  <2>. QED  BY <1>9, <1>12, <2>1, <2>2, SeqEqual
<1>. QED  BY <1>1, <1>5, <1>8, <1>11, <1>13

LEMMA RemoveFromSecond ==
  ASSUME NEW S, NEW R \in Seq(S), NEW X \in Seq(S), Once(R), Once(X), Apart(R, X),
         NEW p, Contains(X, p)
  PROVE  RemoveFirst(R \o X, p) = R \o RemoveFirst(X, p)
<1>1. PICK t : t = R \o X
  OBVIOUS
<1>2. /\ t \in Seq(S) /\ Len(R) \in Nat /\ Len(X) \in Nat /\ Len(t) = Len(R) + Len(X)
      /\ \A i \in 1 .. Len(R) : t[i] = R[i]
      /\ \A i \in 1 .. Len(X) : t[Len(R) + i] = X[i]
  BY <1>1, ConcatIs
<1>3. Once(t)
  BY <1>1, ConcatOnce
<1>4. PICK j \in 1 .. Len(X) : X[j] = p
  BY DEF Contains
<1>5. PICK u : u = RemoveFirst(X, p)
  OBVIOUS
<1>6. u \in Seq(S) /\ Minus(X, j, u)
  BY <1>4, <1>5, RemoveFirstIs
<1>7. Len(u) = Len(X) - 1 /\ \A i \in 1 .. Len(X) - 1 : u[i] = IF i < j THEN X[i] ELSE X[i + 1]
  BY <1>6 DEF Minus
<1>8. PICK v : v = RemoveFirst(t, p)
  OBVIOUS
<1>15. PICK k : k = Len(R) + j
  OBVIOUS
<1>9. v \in Seq(S) /\ Minus(t, k, v)
  <2>1. k \in 1 .. Len(t) /\ t[k] = p
    BY <1>2, <1>4, <1>15
  <2>. QED  BY <1>2, <1>3, <1>8, <2>1, RemoveFirstIs
<1>10. Len(v) = Len(t) - 1 /\ \A i \in 1 .. Len(t) - 1 : v[i] = IF i < k THEN t[i] ELSE t[i + 1]
  BY <1>9 DEF Minus
<1>11. PICK w : w = R \o u
  OBVIOUS
<1>12. /\ w \in Seq(S) /\ Len(w) = Len(R) + Len(u)
       /\ \A i \in 1 .. Len(R) : w[i] = R[i]
       /\ \A i \in 1 .. Len(w) : i \in 1 .. Len(R) \/ (i - Len(R) \in 1 .. Len(u) /\ w[i] = u[i - Len(R)])
  BY <1>6, <1>11, ConcatIs
<1>13. v = w
  <2>1. Len(v) = Len(w)
    BY <1>2, <1>7, <1>10, <1>12
  <2>2. ASSUME NEW i \in 1 .. Len(v) PROVE v[i] = w[i]
    <3>1. v[i] = (IF i < k THEN t[i] ELSE t[i + 1]) /\ i \in 1 .. Len(w)
      BY <1>10, <2>1
    <3>2. CASE i \in 1 .. Len(R)
      <4>1. i < k
        BY <1>2, <1>15, <3>2
      <4>. QED  BY <1>2, <1>12, <3>1, <3>2, <4>1
    <3>3. CASE i \notin 1 .. Len(R)
      <4>1. PICK l : l = i - Len(R) /\ l \in 1 .. Len(u) /\ w[i] = u[l]
        BY <1>12, <3>1, <3>3
      <4>2. /\ i = Len(R) + l /\ i + 1 = Len(R) + (l + 1) /\ (i < k <=> l < j)
            /\ l \in 1 .. Len(X) /\ l + 1 \in 1 .. Len(X) /\ l \in 1 .. Len(X) - 1
        BY <1>2, <1>7, <1>15, <4>1
      <4>3. u[l] = IF l < j THEN X[l] ELSE X[l + 1]
        BY <1>7, <4>2
      <4>4. t[Len(R) + l] = X[l] /\ t[Len(R) + (l + 1)] = X[l + 1]
        BY <1>2, <4>2
      <4>5. t[i] = X[l] /\ t[i + 1] = X[l + 1]
        BY <4>2, <4>4
      <4>. QED  BY <3>1, <4>1, <4>2, <4>3, <4>5
    <3>. QED  BY <3>2, <3>3
  <2>. QED  BY <1>9, <1>12, <2>1, <2>2, SeqEqual
<1>. QED  BY <1>1, <1>5, <1>8, <1>11, <1>13

----------------------------------------------------------------------------
(* A memory of m frames                                                    *)

Memory == [pages : Refs, misses : Nat]
Empty == [pages |-> <<>>, misses |-> 0]

\* The first pages of a memory whose other n are not p, when p comes.
Room(m, R, n, p) ==
  IF Contains(R, p) THEN RemoveFirst(R, p)
  ELSE IF Len(R) + n = m THEN Tail(R)
  ELSE R

LEMMA LruIs ==
  ASSUME NEW m \in Nat, m > 0
  PROVE  /\ IsStep(Memory, Page, Lru(m), Empty)
         /\ \A mem \in Memory, p \in Page :
              Lru(m)[mem][p] =
                [pages |-> Append(Room(m, mem.pages, 0, p), p),
                 misses |-> mem.misses + (IF Contains(mem.pages, p) THEN 0 ELSE 1)]
<1>1. ASSUME NEW mem \in Memory, NEW p \in Page
      PROVE  /\ [pages |-> Append(Room(m, mem.pages, 0, p), p),
                 misses |-> mem.misses + (IF Contains(mem.pages, p) THEN 0 ELSE 1)] \in Memory
             /\ Room(m, mem.pages, 0, p) =
                  IF Contains(mem.pages, p) THEN RemoveFirst(mem.pages, p)
                  ELSE IF Len(mem.pages) = m THEN Tail(mem.pages) ELSE mem.pages
  <2>1. PICK R \in Seq(Page) : R = mem.pages
    BY DEF Memory, Refs
  <2>2. Len(R) \in Nat /\ Len(R) + 0 = Len(R)
    OBVIOUS
  <2>3. RemoveFirst(R, p) \in Seq(Page)
    BY RemoveFirstIs
  <2>4. Len(R) = m => Tail(R) \in Seq(Page)
    OBVIOUS
  <2>5. Room(m, R, 0, p) \in Seq(Page)
    BY <2>2, <2>3, <2>4 DEF Room
  <2>6. Append(Room(m, R, 0, p), p) \in Refs
    BY <2>5, AppendIs DEF Refs
  <2>7. mem.misses + (IF Contains(mem.pages, p) THEN 0 ELSE 1) \in Nat
    BY DEF Memory
  <2>. QED  BY <2>1, <2>2, <2>6, <2>7 DEF Memory, Room
<1>2. Lru(m) = [mem \in Memory |-> [p \in Page |->
                  [pages |-> Append(Room(m, mem.pages, 0, p), p),
                   misses |-> mem.misses + (IF Contains(mem.pages, p) THEN 0 ELSE 1)]]]
  <2>1. Lru(m) = [mem \in Memory |-> [p \in Page |->
                    [pages |-> Append(IF Contains(mem.pages, p) THEN RemoveFirst(mem.pages, p)
                                      ELSE IF Len(mem.pages) = m THEN Tail(mem.pages)
                                      ELSE mem.pages, p),
                     misses |-> mem.misses + (IF Contains(mem.pages, p) THEN 0 ELSE 1)]]]
    BY Zenon DEF Lru, Memory
  <2>. QED  BY <1>1, <2>1
<1>3. Empty \in Memory
  BY DEF Empty, Memory, Refs
<1>. QED  BY <1>1, <1>2, <1>3 DEF IsStep

LEMMA RoomIs ==
  ASSUME NEW m \in Nat, NEW R \in Seq(Page), Once(R), NEW n \in Nat, n < m, Len(R) + n <= m, NEW p
  PROVE  /\ Room(m, R, n, p) \in Seq(Page) /\ Once(Room(m, R, n, p))
         /\ ~Contains(Room(m, R, n, p), p)
         /\ \A q : Contains(Room(m, R, n, p), q) => Contains(R, q)
         /\ Len(Room(m, R, n, p)) + (n + 1) <= m
<1>1. PICK T : T = Room(m, R, n, p)
  OBVIOUS
<1>2. Len(R) \in Nat
  OBVIOUS
<1>3. CASE Contains(R, p)
  <2>1. T = RemoveFirst(R, p)
    BY <1>1, <1>3 DEF Room
  <2>2. T \in Seq(Page) /\ Dropped(R, p, T) /\ Len(T) = Len(R) - 1
    BY <1>3, <2>1, RemoveFirstIs, RemoveFirstDrops
  <2>3. \A q : Contains(T, q) => Contains(R, q)
    BY <1>3, <2>2 DEF Dropped
  <2>. QED  BY <1>1, <1>2, <2>2, <2>3 DEF Dropped
<1>4. CASE ~Contains(R, p) /\ Len(R) + n = m
  <2>1. T = Tail(R) /\ R # <<>>
    BY <1>1, <1>4 DEF Room
  <2>2. PICK e : e = <<>> /\ e \in Seq(Page)
    <3>1. <<>> \in Seq(Page)
      OBVIOUS
    <3>. QED  BY <3>1
  <2>3. T \in Seq(Page) /\ Len(T) = Len(R) - 1 /\ \A i \in 1 .. Len(R) - 1 : T[i] = R[i + 1]
    BY <2>1, <2>2, TailOfFirst
  <2>4. Once(T)
    <3>1. \A i \in 1 .. Len(R) - 1 : i + 1 \in 1 .. Len(R)
      BY <1>2
    <3>2. \A i, j \in 1 .. Len(R) - 1 : R[i + 1] = R[j + 1] => i + 1 = j + 1
      BY <3>1 DEF Once
    <3>3. \A i, j \in 1 .. Len(R) - 1 : T[i] = T[j] => i = j
      BY <1>2, <2>3, <3>2
    <3>. QED  BY <2>3, <3>3 DEF Once
  <2>5. \A q : Contains(T, q) => Contains(R, q)
    <3>. SUFFICES ASSUME NEW q, Contains(T, q) PROVE Contains(R, q)
      OBVIOUS
    <3>1. PICK i \in 1 .. Len(R) - 1 : T[i] = q
      BY <2>3 DEF Contains
    <3>2. i + 1 \in 1 .. Len(R) /\ R[i + 1] = q
      BY <1>2, <2>3, <3>1
    <3>. QED  BY <3>2 DEF Contains
  <2>. QED  BY <1>1, <1>2, <1>4, <2>3, <2>4, <2>5
<1>5. CASE ~Contains(R, p) /\ Len(R) + n # m
  <2>1. T = R
    BY <1>1, <1>5 DEF Room
  <2>. QED  BY <1>1, <1>2, <1>5, <2>1
<1>. QED  BY <1>3, <1>4, <1>5

\* A memory with the pages of R, then those of X.
Holds(mem, R, X) == mem.pages = R \o X

\* A memory that holds X last, when a page comes that X does not have.
LEMMA LruStep ==
  ASSUME NEW m \in Nat, NEW mem \in Memory, NEW R \in Seq(Page), NEW X \in Seq(Page),
         Holds(mem, R, X), Once(R), Once(X), Apart(R, X),
         NEW p \in Page, ~Contains(X, p), Len(X) < m
  PROVE  /\ Holds(Lru(m)[mem][p], Room(m, R, Len(X), p), Append(X, p))
         /\ Lru(m)[mem][p].misses = mem.misses + (IF Contains(R, p) THEN 0 ELSE 1)
<1>1. PICK n : n \in Nat /\ n = Len(X) /\ m > 0 /\ Len(R) \in Nat
  OBVIOUS
<1>2. PICK P : P \in Seq(Page) /\ P = R \o X /\ P = mem.pages /\ Len(P) = Len(R) + n
  <2>1. PICK t : t = R \o X
    OBVIOUS
  <2>2. t \in Seq(Page) /\ Len(t) = Len(R) + Len(X)
    BY <2>1, ConcatIs
  <2>. QED  BY <1>1, <2>1, <2>2 DEF Holds
<1>3. Contains(P, p) <=> Contains(R, p)
  <2>1. \A q : Contains(R \o X, q) <=> (Contains(R, q) \/ Contains(X, q))
    BY ConcatContains
  <2>2. P = R \o X
    BY <1>2
  <2>. QED  BY <2>1, <2>2, Zenon
<1>4. PICK T \in Seq(Page) : T = Room(m, R, n, p) /\ Room(m, P, 0, p) = T \o X
  <2>1. Len(P) + 0 = Len(R) + n
    BY <1>1, <1>2
  <2>2. CASE Contains(R, p)
    <3>1. RemoveFirst(R, p) \in Seq(Page)
      BY RemoveFirstIs
    <3>2. RemoveFirst(R \o X, p) = RemoveFirst(R, p) \o X
      BY <2>2, RemoveFromFirst
    <3>3. RemoveFirst(P, p) = RemoveFirst(R, p) \o X
      BY <1>2, <3>2, Zenon
    <3>. QED  BY <1>3, <2>2, <3>1, <3>3 DEF Room
  <2>3. CASE ~Contains(R, p) /\ Len(R) + n = m
    <3>1. R # <<>>
      BY <1>1, <2>3
    <3>2. Tail(R) \in Seq(Page) /\ Tail(P) = Tail(R) \o X
      BY <1>2, <3>1, TailOfFirst
    <3>. QED  BY <1>3, <2>1, <2>3, <3>2 DEF Room
  <2>4. CASE ~Contains(R, p) /\ Len(R) + n # m
    BY <1>2, <1>3, <2>1, <2>4 DEF Room
  <2>. QED  BY <2>2, <2>3, <2>4
<1>5. Append(T \o X, p) = T \o Append(X, p)
  <2>1. AppendsToSecond(T, X, p)
    BY <1>4, AppendToSecond
  <2>. QED  BY <2>1 DEF AppendsToSecond
<1>6. Lru(m)[mem][p] = [pages |-> Append(Room(m, P, 0, p), p),
                        misses |-> mem.misses + (IF Contains(P, p) THEN 0 ELSE 1)]
  BY <1>1, <1>2, LruIs
<1>. QED  BY <1>1, <1>3, <1>4, <1>5, <1>6 DEF Holds

\* And one that X has.
LEMMA LruHit ==
  ASSUME NEW m \in Nat, m > 0, NEW mem \in Memory, NEW R \in Seq(Page), NEW X \in Seq(Page),
         Holds(mem, R, X), Once(R), Once(X), Apart(R, X),
         NEW p \in Page, Contains(X, p)
  PROVE  /\ Holds(Lru(m)[mem][p], R, Append(RemoveFirst(X, p), p))
         /\ Lru(m)[mem][p].misses = mem.misses
<1>1. Contains(R \o X, p)
  BY ConcatContains
<1>2. RemoveFirst(R \o X, p) = R \o RemoveFirst(X, p) /\ RemoveFirst(X, p) \in Seq(Page)
  BY RemoveFromSecond, RemoveFirstIs
<1>3. Append(R \o RemoveFirst(X, p), p) = R \o Append(RemoveFirst(X, p), p)
  <2>1. PICK Y \in Seq(Page) : Y = RemoveFirst(X, p)
    BY <1>2
  <2>2. AppendsToSecond(R, Y, p)
    BY <2>1, AppendToSecond
  <2>. QED  BY <2>1, <2>2 DEF AppendsToSecond
<1>4. Lru(m)[mem][p] = [pages |-> Append(Room(m, mem.pages, 0, p), p),
                        misses |-> mem.misses + (IF Contains(mem.pages, p) THEN 0 ELSE 1)]
  BY LruIs
<1>5. Room(m, mem.pages, 0, p) = R \o RemoveFirst(X, p)
  BY <1>1, <1>2 DEF Room, Holds
<1>6. mem.misses + 0 = mem.misses
  BY DEF Memory
<1>7. PICK P : P = Append(R \o RemoveFirst(X, p), p)
  OBVIOUS
<1>8. Lru(m)[mem][p] = [pages |-> P, misses |-> mem.misses + 0]
  BY <1>1, <1>4, <1>5, <1>7 DEF Holds
<1>. QED  BY <1>3, <1>6, <1>7, <1>8 DEF Holds

----------------------------------------------------------------------------
(* The memory after the whole trace, and after the reduced one             *)

All(m) == Folded(Lru(m), Empty, Whole \o Window)
Reduced(m) == Folded(Lru(m), Empty, Firsts \o FirstHere)

LEMMA MemoriesAre ==
  ASSUME kept \in Refs, NEW m \in Nat, m > 0
  PROVE  /\ All(m) \in Memory /\ Reduced(m) \in Memory
         /\ Firsts \in Seq(Page) /\ Lasts \in Seq(Page) /\ Whole \in Seq(Page)
<1>1. Firsts \in Seq(Page) /\ Lasts \in Seq(Page) /\ Whole \in Seq(Page)
  BY WindowsAre, OneMoreWindow DEF Firsts, Lasts, Whole, Refs
<1>2. Window \in Seq(Page) /\ FirstHere \in Seq(Page)
  BY HereAre, WindowsAre DEF Refs
<1>3. Whole \o Window \in Seq(Page) /\ Firsts \o FirstHere \in Seq(Page)
  BY <1>1, <1>2, ConcatProperties
<1>4. IsStep(Memory, Page, Lru(m), Empty)
  BY LruIs
<1>. QED  BY <1>1, <1>3, <1>4, FoldedIs DEF All, Reduced

LEMMA MemoriesNext ==
  ASSUME kept \in Refs, NEW m \in Nat, m > 0, NEW p \in Page
  PROVE  /\ Closes(p) => /\ All(m)' = Lru(m)[All(m)][p]
                         /\ Reduced(m)' = Lru(m)[Reduced(m)][p]
         /\ Lengthens(p) => /\ All(m)' = Lru(m)[All(m)][p]
                            /\ Reduced(m)' = IF Contains(FirstHere, p) THEN Reduced(m)
                                             ELSE Lru(m)[Reduced(m)][p]
<1>1. Firsts \in Seq(Page) /\ Whole \in Seq(Page) /\ Window \in Seq(Page) /\ FirstHere \in Seq(Page)
  BY MemoriesAre, HereAre, WindowsAre DEF Refs
<1>2. PICK a \in Seq(Page) : a = Whole \o Window
  BY <1>1, ConcatProperties
<1>3. PICK b \in Seq(Page) : b = Firsts \o FirstHere
  BY <1>1, ConcatProperties
<1>4. \A s \in Seq(Page) : Folded(Lru(m), Empty, Append(s, p)) = Lru(m)[Folded(Lru(m), Empty, s)][p]
  <2>1. IsStep(Memory, Page, Lru(m), Empty)
    BY LruIs
  <2>. QED  BY <2>1, FoldedIs
<1>5. \A s \in Seq(Page) : Append(s, p) = s \o <<p>>
  BY AppendIsConcat
<1>6. ASSUME Closes(p)
      PROVE  All(m)' = Lru(m)[All(m)][p] /\ Reduced(m)' = Lru(m)[Reduced(m)][p]
  <2>1. FirstHere' = <<p>> /\ Window' = <<p>> /\ Firsts' = b /\ Whole' = a
    BY <1>2, <1>3, <1>6, ClosesIs
  <2>2. (Whole \o Window)' = Append(a, p) /\ (Firsts \o FirstHere)' = Append(b, p)
    BY <1>5, <2>1
  <2>. QED  BY <1>2, <1>3, <1>4, <2>2 DEF All, Reduced
<1>7. ASSUME Lengthens(p)
      PROVE  /\ All(m)' = Lru(m)[All(m)][p]
             /\ Reduced(m)' = IF Contains(FirstHere, p) THEN Reduced(m) ELSE Lru(m)[Reduced(m)][p]
  <2>1. /\ FirstHere' = (IF Contains(FirstHere, p) THEN FirstHere ELSE Append(FirstHere, p))
        /\ Window' = Append(Window, p) /\ Firsts' = Firsts /\ Whole' = Whole
    BY <1>7, LengthensIs
  <2>2. Whole \o Append(Window, p) = Append(a, p) /\ Firsts \o Append(FirstHere, p) = Append(b, p)
    <3>1. AppendsToSecond(Whole, Window, p) /\ AppendsToSecond(Firsts, FirstHere, p)
      BY <1>1, AppendToSecond
    <3>. QED  BY <1>2, <1>3, <3>1 DEF AppendsToSecond
  <2>3. (Whole \o Window)' = Append(a, p)
    BY <2>1, <2>2
  <2>4. (Firsts \o FirstHere)' = IF Contains(FirstHere, p) THEN b ELSE Append(b, p)
    BY <1>3, <2>1, <2>2
  <2>. QED  BY <1>2, <1>3, <1>4, <2>3, <2>4 DEF All, Reduced
<1>. QED  BY <1>6, <1>7

\* Two memories, of m frames at most, that differ in the order of the pages they
\* hold last.
OneRest(R, F, L, m, a, b) ==
  /\ Once(R) /\ Apart(R, F) /\ Len(R) + Len(F) <= m
  /\ Holds(a, R, L) /\ Holds(b, R, F) /\ a.misses = b.misses

\* The same pages, each once.
TwoOrders(F, L) ==
  /\ F \in Seq(Page) /\ L \in Seq(Page) /\ Once(F) /\ Once(L) /\ Len(L) = Len(F)
  /\ \A q : Contains(F, q) <=> Contains(L, q)

LEMMA BothMissed ==
  ASSUME NEW m \in Nat, NEW a \in Memory, NEW b \in Memory, NEW F, NEW L, TwoOrders(F, L),
         NEW R \in Seq(Page), OneRest(R, F, L, m, a, b), NEW p \in Page, ~Contains(F, p), Len(F) < m
  PROVE  \E T \in Seq(Page) :
           OneRest(T, Append(F, p), Append(L, p), m, Lru(m)[a][p], Lru(m)[b][p])
<1>1. PICK n : n \in Nat /\ n = Len(F) /\ n = Len(L)
  BY DEF TwoOrders
<1>2. PICK T : T = Room(m, R, n, p)
  OBVIOUS
<1>3. /\ F \in Seq(Page) /\ L \in Seq(Page) /\ Once(F) /\ Once(L) /\ ~Contains(L, p)
      /\ Once(R) /\ Apart(R, F) /\ Apart(R, L) /\ Len(R) + n <= m
      /\ Holds(a, R, L) /\ Holds(b, R, F) /\ a.misses = b.misses
  BY <1>1 DEF TwoOrders, OneRest, Apart
<1>4. /\ T \in Seq(Page) /\ Once(T) /\ ~Contains(T, p)
      /\ \A q : Contains(T, q) => Contains(R, q)
      /\ Len(T) + (n + 1) <= m
  BY <1>1, <1>2, <1>3, RoomIs
<1>5. /\ Holds(Lru(m)[a][p], T, Append(L, p))
      /\ Lru(m)[a][p].misses = a.misses + (IF Contains(R, p) THEN 0 ELSE 1)
  <2>1. Holds(a, R, L) /\ L \in Seq(Page) /\ Once(R) /\ Once(L) /\ Apart(R, L) /\ ~Contains(L, p) /\ Len(L) < m
    BY <1>1, <1>3
  <2>2. /\ Holds(Lru(m)[a][p], Room(m, R, Len(L), p), Append(L, p))
        /\ Lru(m)[a][p].misses = a.misses + (IF Contains(R, p) THEN 0 ELSE 1)
    BY <2>1, LruStep
  <2>. QED  BY <1>1, <1>2, <2>2
<1>6. /\ Holds(Lru(m)[b][p], T, Append(F, p))
      /\ Lru(m)[b][p].misses = b.misses + (IF Contains(R, p) THEN 0 ELSE 1)
  <2>1. Holds(b, R, F) /\ F \in Seq(Page) /\ Once(R) /\ Once(F) /\ Apart(R, F) /\ Len(F) < m
    BY <1>1, <1>3
  <2>2. /\ Holds(Lru(m)[b][p], Room(m, R, Len(F), p), Append(F, p))
        /\ Lru(m)[b][p].misses = b.misses + (IF Contains(R, p) THEN 0 ELSE 1)
    BY <2>1, LruStep
  <2>. QED  BY <1>1, <1>2, <2>2
<1>7. PICK G : G = Append(F, p)
  OBVIOUS
<1>8. Len(G) = n + 1 /\ \A q : Contains(G, q) <=> (q = p \/ Contains(F, q))
  <2>1. F \in Seq(Page)
    BY <1>3
  <2>2. Len(G) = Len(F) + 1
    BY <1>7, <2>1, AppendIs
  <2>3. \A q : Contains(G, q) <=> (q = p \/ Contains(F, q))
    BY <1>7, <2>1, AppendContains
  <2>. QED  BY <1>1, <2>2, <2>3
<1>9. Apart(T, G)
  BY <1>3, <1>4, <1>8 DEF Apart
<1>10. OneRest(T, Append(F, p), Append(L, p), m, Lru(m)[a][p], Lru(m)[b][p])
  BY <1>3, <1>4, <1>5, <1>6, <1>7, <1>8, <1>9 DEF OneRest
<1>. QED  BY <1>4, <1>10

LEMMA OneHit ==
  ASSUME NEW m \in Nat, m > 0, NEW a \in Memory, NEW b \in Memory, NEW F, NEW L, TwoOrders(F, L),
         NEW R \in Seq(Page), OneRest(R, F, L, m, a, b), NEW p \in Page, Contains(F, p)
  PROVE  OneRest(R, F, Append(RemoveFirst(L, p), p), m, Lru(m)[a][p], b)
<1>1. /\ L \in Seq(Page) /\ Once(L) /\ Contains(L, p) /\ Once(R) /\ Apart(R, L) /\ Holds(a, R, L)
  BY DEF TwoOrders, OneRest, Apart
<1>2. /\ Holds(Lru(m)[a][p], R, Append(RemoveFirst(L, p), p))
      /\ Lru(m)[a][p].misses = a.misses
  BY <1>1, LruHit
<1>. QED  BY <1>2 DEF OneRest

\* In one order, all that they hold is the rest.
LEMMA OneOrder ==
  ASSUME NEW m \in Nat, m > 0, NEW a \in Memory, NEW b \in Memory, NEW F, TwoOrders(F, F),
         NEW R \in Seq(Page), OneRest(R, F, F, m, a, b), NEW p \in Page
  PROVE  \E T \in Seq(Page) : OneRest(T, <<p>>, <<p>>, m, Lru(m)[a][p], Lru(m)[b][p])
<1>1. PICK e : e = <<>> /\ e \in Seq(Page) /\ Len(e) = 0 /\ <<p>> = Append(e, p)
  <2>1. <<>> \in Seq(Page) /\ Len(<<>>) = 0 /\ <<p>> = Append(<<>>, p)
    OBVIOUS
  <2>. QED  BY <2>1
<1>2. \A q : ~Contains(e, q)
  BY <1>1 DEF Contains
<1>3. TwoOrders(e, e)
  BY <1>1 DEF TwoOrders, Once
<1>4. PICK P : P = R \o F
  OBVIOUS
<1>5. P \in Seq(Page) /\ Len(P) = Len(R) + Len(F)
  BY <1>4, ConcatIs DEF TwoOrders
<1>6. Once(P)
  BY <1>4, ConcatOnce DEF TwoOrders, OneRest
<1>7. P = P \o e
  BY <1>1, <1>5, ConcatEmptySeq
<1>8. OneRest(P, e, e, m, a, b)
  <2>1. Len(P) + Len(e) <= m
    BY <1>1, <1>5 DEF OneRest
  <2>. QED  BY <1>2, <1>4, <1>6, <1>7, <2>1 DEF OneRest, Apart, Holds
<1>9. \E T \in Seq(Page) :
        OneRest(T, Append(e, p), Append(e, p), m, Lru(m)[a][p], Lru(m)[b][p])
  <2>1. ~Contains(e, p) /\ Len(e) < m
    BY <1>1, <1>2
  <2>. QED  BY <1>3, <1>5, <1>8, <2>1, BothMissed
<1>. QED  BY <1>1, <1>9

\* What holds of a memory of m frames, if the orders were one so far.
Agree(m) ==
  /\ LruMisses(Firsts, m) = LruMisses(Whole, m)
  /\ \E R \in Seq(Page) : OneRest(R, FirstHere, LastHere, m, All(m), Reduced(m))

MissesInv ==
  /\ buffersize = 0 => Over = <<>>
  /\ buffersize # 0 => Len(FirstHere) <= buffersize
  /\ buffersize # 0 /\ Firsts = Lasts => \A m \in Nat : m > 0 /\ m >= buffersize => Agree(m)

\* Sequences whose ends are as long are equal in each part.
SameJoined(A, F, B, L) == Len(F) = Len(L) /\ A \o F = B \o L

LEMMA EqualParts ==
  ASSUME NEW S, NEW A \in Seq(S), NEW B \in Seq(S), NEW F \in Seq(S), NEW L \in Seq(S),
         SameJoined(A, F, B, L)
  PROVE  A = B /\ F = L
<1>0. PICK t : t = A \o F
  OBVIOUS
<1>1. t = B \o L /\ Len(F) = Len(L)
  BY <1>0 DEF SameJoined
<1>2. /\ Len(A) \in Nat /\ Len(F) \in Nat /\ Len(t) = Len(A) + Len(F)
      /\ \A i \in 1 .. Len(A) : t[i] = A[i]
      /\ \A i \in 1 .. Len(F) : t[Len(A) + i] = F[i]
  BY <1>0, ConcatIs
<1>3. /\ Len(B) \in Nat /\ Len(L) \in Nat /\ Len(t) = Len(B) + Len(L)
      /\ \A i \in 1 .. Len(B) : t[i] = B[i]
      /\ \A i \in 1 .. Len(L) : t[Len(B) + i] = L[i]
  BY <1>1, ConcatIs
<1>4. Len(A) = Len(B)
  BY <1>1, <1>2, <1>3
<1>5. \A i \in 1 .. Len(A) : A[i] = B[i]
  BY <1>2, <1>3, <1>4
<1>6. \A i \in 1 .. Len(F) : F[i] = L[i]
  BY <1>1, <1>2, <1>3, <1>4
<1>. QED  BY <1>1, <1>4, <1>5, <1>6, SeqEqual

LEMMA OrdersAre ==
  ASSUME kept \in Refs, Orders PROVE TwoOrders(FirstHere, LastHere)
BY HereAre DEF Orders, TwoOrders

LEMMA AgreeNext ==
  ASSUME kept \in Refs, Orders, buffersize \in Nat, buffersize # 0, Len(FirstHere) <= buffersize,
         NEW p \in Page, kept' = Append(kept, p), buffersize' = buffersize, Firsts' = Lasts',
         NEW m \in Nat, m > 0, m >= buffersize, Firsts = Lasts => Agree(m)
  PROVE  Agree(m)'
<1>0. (Closes(p) \/ Lengthens(p)) /\ Cardinality(ToSet(Window)) = Len(FirstHere)
  BY WindowsNext, WindowPages
<1>1. /\ All(m) \in Memory /\ Reduced(m) \in Memory
      /\ Firsts \in Seq(Page) /\ Lasts \in Seq(Page) /\ TwoOrders(FirstHere, LastHere)
  BY MemoriesAre, OrdersAre
<1>2. CASE Closes(p)
  <2>1. /\ FirstHere' = <<p>> /\ LastHere' = <<p>>
        /\ Firsts' = Firsts \o FirstHere /\ Lasts' = Lasts \o LastHere /\ Whole' = Whole \o Window
    BY <1>2, ClosesIs
  <2>2. Firsts = Lasts /\ FirstHere = LastHere
    <3>1. SameJoined(Firsts, FirstHere, Lasts, LastHere)
      BY <1>1, <2>1 DEF SameJoined, TwoOrders
    <3>2. FirstHere \in Seq(Page) /\ LastHere \in Seq(Page)
      BY <1>1 DEF TwoOrders
    <3>. QED  BY <1>1, <3>1, <3>2, EqualParts
  <2>3. PICK R \in Seq(Page) : OneRest(R, FirstHere, FirstHere, m, All(m), Reduced(m))
    BY <2>2 DEF Agree
  <2>4. LruMisses(Firsts', m) = LruMisses(Whole', m)
    <3>1. LruMisses(Firsts', m) = Reduced(m).misses /\ LruMisses(Whole', m) = All(m).misses
      BY <2>1 DEF LruMisses, Reduced, All, Empty
    <3>. QED  BY <2>3, <3>1 DEF OneRest
  <2>5. \E T \in Seq(Page) :
          OneRest(T, <<p>>, <<p>>, m, Lru(m)[All(m)][p], Lru(m)[Reduced(m)][p])
    <3>1. TwoOrders(FirstHere, FirstHere)
      BY <1>1, <2>2
    <3>. QED  BY <1>1, <2>3, <3>1, OneOrder
  <2>6. All(m)' = Lru(m)[All(m)][p] /\ Reduced(m)' = Lru(m)[Reduced(m)][p]
    BY <1>2, MemoriesNext
  <2>7. \E T \in Seq(Page) : OneRest(T, FirstHere', LastHere', m, All(m)', Reduced(m)')
    BY <2>1, <2>5, <2>6
  <2>. QED  BY <2>4, <2>7 DEF Agree
<1>3. CASE Lengthens(p)
  <2>1. /\ FirstHere' = (IF Contains(FirstHere, p) THEN FirstHere ELSE Append(FirstHere, p))
        /\ LastHere' = Append(RemoveFirst(LastHere, p), p)
        /\ Firsts' = Firsts /\ Lasts' = Lasts /\ Whole' = Whole
    BY <1>3, LengthensIs
  <2>2. PICK R \in Seq(Page) : OneRest(R, FirstHere, LastHere, m, All(m), Reduced(m))
    BY <2>1 DEF Agree
  <2>3. LruMisses(Firsts', m) = LruMisses(Whole', m)
    BY <2>1 DEF Agree
  <2>4. /\ All(m)' = Lru(m)[All(m)][p]
        /\ Reduced(m)' = IF Contains(FirstHere, p) THEN Reduced(m) ELSE Lru(m)[Reduced(m)][p]
    BY <1>3, MemoriesNext
  <2>5. \E T \in Seq(Page) : OneRest(T, FirstHere', LastHere', m, All(m)', Reduced(m)')
    <3>1. CASE Contains(FirstHere, p)
      <4>1. OneRest(R, FirstHere, Append(RemoveFirst(LastHere, p), p), m, Lru(m)[All(m)][p], Reduced(m))
        BY <1>1, <2>2, <3>1, OneHit
      <4>2. OneRest(R, FirstHere', LastHere', m, All(m)', Reduced(m)')
        BY <2>1, <2>4, <3>1, <4>1
      <4>. QED  BY <4>2
    <3>2. CASE ~Contains(FirstHere, p)
      <4>1. Len(FirstHere) < m
        <5>1. Len(FirstHere) # buffersize
          BY <1>0, <1>3, <3>2 DEF Lengthens, Orders
        <5>. QED  BY <1>1, <5>1 DEF TwoOrders
      <4>2. RemoveFirst(LastHere, p) = LastHere
        BY <1>1, <3>2, RemoveFirstIs DEF TwoOrders
      <4>3. \E T \in Seq(Page) :
              OneRest(T, Append(FirstHere, p), Append(LastHere, p), m,
                      Lru(m)[All(m)][p], Lru(m)[Reduced(m)][p])
        BY <1>1, <2>2, <3>2, <4>1, BothMissed
      <4>. QED  BY <2>1, <2>4, <3>2, <4>2, <4>3
    <3>. QED  BY <3>1, <3>2
  <2>. QED  BY <2>3, <2>5 DEF Agree
<1>. QED  BY <1>0, <1>2, <1>3

LEMMA MissesInvInit ==
  ASSUME SlimInit PROVE MissesInv
<1>1. Windows = <<>>
  BY ExtendedIs, FoldedIs DEF Windows, SlimInit
<1>2. /\ Over = <<>> /\ FirstHere = <<>> /\ LastHere = <<>> /\ Window = <<>>
      /\ Firsts = <<>> /\ Whole = <<>>
  BY <1>1, FirstRefsIs, LastRefsIs, OneMoreWindow DEF Over, Window, FirstHere, LastHere, Firsts, Whole
<1>3. PICK e : e = <<>> /\ e \in Seq(Page) /\ Len(e) = 0 /\ e \o e = e
  <2>1. <<>> \in Seq(Page) /\ Len(<<>>) = 0 /\ <<>> \o <<>> = <<>>
    OBVIOUS
  <2>. QED  BY <2>1
<1>4. buffersize \in Nat
  BY BufferSizesAssumption DEF SlimInit
<1>5. ASSUME NEW m \in Nat, m > 0 PROVE Agree(m)
  <2>1. IsStep(Memory, Page, Lru(m), Empty)
    BY <1>5, LruIs
  <2>2. Folded(Lru(m), Empty, e) = Empty
    BY <1>3, <2>1, FoldedIs
  <2>3. All(m) = Empty /\ Reduced(m) = Empty
    BY <1>2, <1>3, <2>2 DEF All, Reduced
  <2>4. OneRest(e, e, e, m, Empty, Empty)
    <3>1. Once(e) /\ Apart(e, e)
      BY <1>3 DEF Once, Apart, Contains
    <3>. QED  BY <1>3, <3>1 DEF OneRest, Empty, Holds
  <2>. QED  BY <1>2, <1>3, <2>3, <2>4 DEF Agree
<1>. QED  BY <1>2, <1>3, <1>4, <1>5 DEF MissesInv

LEMMA MissesInvNext ==
  ASSUME SlimInv, MissesInv, [SlimNext]_slimvars PROVE MissesInv'
<1>. USE DEF MissesInv
<1>1. CASE UNCHANGED slimvars
  <2>1. Windows' = Windows /\ buffersize' = buffersize
    BY <1>1 DEF slimvars, Windows, Extended, Begins
  <2>2. Window' = Window /\ Over' = Over
    BY <2>1 DEF Window, Over
  <2>3. FirstHere' = FirstHere /\ LastHere' = LastHere /\ Firsts' = Firsts /\ Lasts' = Lasts /\ Whole' = Whole
    BY <2>2 DEF FirstHere, LastHere, Firsts, Lasts, Whole
  <2>4. \A m : All(m)' = All(m) /\ Reduced(m)' = Reduced(m)
    BY <2>2, <2>3 DEF All, Reduced
  <2>5. \A m : Agree(m)' <=> Agree(m)
    BY <2>3, <2>4 DEF Agree
  <2>. QED  BY <2>1, <2>2, <2>3, <2>5
<1>2. ASSUME NEW p \in Page, SeenAgain(p) \/ SeenFirst(p)
      PROVE  MissesInv'
  <2>1. /\ kept' = Append(kept, p) /\ buffersize' = buffersize /\ kept \in Refs /\ Orders /\ buffersize \in Nat
        /\ Closes(p) \/ Lengthens(p)
        /\ Cardinality(ToSet(Window)) = Len(FirstHere) /\ Len(FirstHere) \in Nat
    <3>1. kept' = Append(kept, p) /\ buffersize' = buffersize /\ kept \in Refs /\ Orders /\ buffersize \in Nat
      BY <1>2 DEF SeenAgain, SeenFirst, ReadsRef, SlimInv
    <3>. QED  BY <3>1, WindowsNext, WindowPages
  <2>2. buffersize = 0 => Over' = <<>>
    <3>1. Windows # <<>> => Len(FirstHere) > 0
      BY <2>1 DEF Orders
    <3>. QED  BY <2>1, <3>1 DEF Closes, Lengthens
  <2>3. buffersize # 0 => Len(FirstHere)' <= buffersize
    <3>. SUFFICES ASSUME buffersize # 0 PROVE Len(FirstHere') <= buffersize
      OBVIOUS
    <3>1. CASE Closes(p)
      <4>1. FirstHere' = <<p>> /\ Len(<<p>>) = 1
        BY <2>1, <3>1, ClosesIs
      <4>. QED  BY <2>1, <4>1
    <3>2. CASE Lengthens(p)
      <4>1. /\ FirstHere' = (IF Contains(FirstHere, p) THEN FirstHere ELSE Append(FirstHere, p))
            /\ ~Contains(FirstHere, p) => Len(FirstHere) # buffersize
        BY <2>1, <3>2, LengthensIs DEF Lengthens, Orders
      <4>2. Len(Append(FirstHere, p)) = Len(FirstHere) + 1
        BY <2>1, HereAre, AppendIs
      <4>. QED  BY <2>1, <4>1, <4>2
    <3>. QED  BY <2>1, <3>1, <3>2
  <2>4. ASSUME buffersize # 0, Firsts' = Lasts', NEW m \in Nat, m > 0, m >= buffersize
        PROVE  Agree(m)'
    <3>1. Len(FirstHere) <= buffersize /\ (Firsts = Lasts => Agree(m))
      BY <2>4
    <3>. QED  BY <2>1, <2>4, <3>1, AgreeNext
  <2>. QED  BY <2>1, <2>2, <2>3, <2>4
<1>3. CASE SlimNext
  <2>1. UNCHANGED slimvars \/ \E p \in Page : SeenAgain(p) \/ SeenFirst(p)
    BY <1>3 DEF SlimNext, SkipsLine, EndOfTrace
  <2>. QED  BY <1>1, <1>2, <2>1
<1>. QED  BY <1>1, <1>3

\* Where the pages of each window are last referenced in the order they were
\* first, a memory at least as large as the buffer misses as often on what
\* fastslim.py prints as on the whole trace.
THEOREM MissesKept == SlimSpec => []LruMissesKept
<1>1. SlimInv /\ MissesInv => LruMissesKept
  <2>. SUFFICES ASSUME SlimInv, MissesInv, Firsts = Lasts,
                       NEW m \in buffersize .. Cardinality(Page), m > 0
                PROVE  LruMisses(output, m) = LruMisses(Whole, m)
    BY DEF LruMissesKept
  <2>1. buffersize \in Nat /\ output = Firsts
    BY DEF SlimInv
  <2>2. m \in Nat /\ m >= buffersize
    BY <2>1
  <2>3. CASE buffersize = 0
    <3>1. Over = <<>>
      BY <2>3 DEF MissesInv
    <3>2. Firsts = <<>> /\ Whole = <<>>
      BY <3>1, OneMoreWindow DEF Firsts, Whole
    <3>. QED  BY <2>1, <3>2
  <2>4. CASE buffersize # 0
    <3>1. Agree(m)
      BY <2>2, <2>4 DEF MissesInv
    <3>. QED  BY <2>1, <3>1 DEF Agree
  <2>. QED  BY <2>3, <2>4
<1>. QED  BY <1>1, SlimInvInit, SlimInvNext, MissesInvInit, MissesInvNext, PTL DEF SlimSpec
=============================================================================
