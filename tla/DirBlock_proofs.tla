--------------------------- MODULE DirBlock_proofs ---------------------------
(***************************************************************************)
(* Proofs about a directory block of any length, with any files.           *)
(***************************************************************************)
EXTENDS DirBlock, NatSetTheorems, FiniteSetTheorems, SequenceTheorems, TLAPS

Word == [inode : Nat, natural : Nat, rec_len : Nat]
Memory == [0 .. BlockLen - 1 -> Word]

----------------------------------------------------------------------------
(* Walks                                                                   *)

LEMMA BlockLenIs == BlockLen \in Nat /\ BlockLen >= 6
BY DirBlockAssumption DEF Dot

\* A walk goes forward, and never past the end of the block.
LEMMA OnwardIs ==
  ASSUME NEW m \in Memory, NEW a \in 0 .. BlockLen - 2
  PROVE  Onward(m, a) \in a + 1 .. BlockLen
<1>1. a + 1 \in 0 .. BlockLen - 1 /\ a \in Nat /\ a + 1 <= BlockLen
  BY BlockLenIs
<1>2. PICK r \in Nat : r = rec_len(m, a)
  BY <1>1 DEF Memory, Word, rec_len
<1>. QED  BY <1>1, <1>2, BlockLenIs DEF Onward

\* What WalkOf builds from each address.
IsFrom(m, f, lo) ==
  f = [a \in lo .. BlockLen |->
         IF a + 1 >= BlockLen THEN <<>> ELSE <<a>> \o f[Onward(m, a)]]

LEMMA FromExists ==
  ASSUME NEW m \in Memory
  PROVE  \E f : IsFrom(m, f, 0)
<1>. DEFINE P == {c \in 1 .. BlockLen : \E f : IsFrom(m, f, BlockLen - c)}
<1>1. 1 \in P
  <2>1. PICK f : f = [a \in BlockLen - 1 .. BlockLen |-> <<>>]
    OBVIOUS
  <2>2. \A a \in BlockLen - 1 .. BlockLen : a + 1 >= BlockLen
    BY BlockLenIs
  <2>3. IsFrom(m, f, BlockLen - 1)
    BY <2>1, <2>2 DEF IsFrom
  <2>. QED  BY <2>3, BlockLenIs
<1>2. ASSUME NEW c \in 1 .. BlockLen - 1, c \in P PROVE c + 1 \in P
  <2>1. PICK f : IsFrom(m, f, BlockLen - c)
    BY <1>2
  <2>2. PICK b \in 0 .. BlockLen - 2 : b = BlockLen - c - 1
    BY BlockLenIs
  <2>3. PICK hi \in Nat : hi = BlockLen - c /\ hi = b + 1
    BY <2>2, BlockLenIs
  <2>4. PICK g : g = [a \in b .. BlockLen |-> IF a = b THEN <<b>> \o f[Onward(m, b)] ELSE f[a]]
    OBVIOUS
  <2>5. \A a \in hi .. BlockLen :
          f[a] = IF a + 1 >= BlockLen THEN <<>> ELSE <<a>> \o f[Onward(m, a)]
    BY <2>1, <2>3 DEF IsFrom
  <2>6. ASSUME NEW a \in b .. BlockLen
        PROVE  g[a] = IF a + 1 >= BlockLen THEN <<>> ELSE <<a>> \o g[Onward(m, a)]
    <3>1. CASE a = b
      <4>1. ~(a + 1 >= BlockLen)
        BY <2>2, <3>1, BlockLenIs
      <4>2. Onward(m, a) \in hi .. BlockLen /\ Onward(m, a) # b
        BY <2>2, <2>3, <3>1, OnwardIs, BlockLenIs
      <4>3. g[Onward(m, a)] = f[Onward(m, a)]
        BY <2>3, <2>4, <4>2
      <4>. QED  BY <2>4, <3>1, <4>1, <4>3
    <3>2. CASE a # b
      <4>1. a \in hi .. BlockLen
        BY <2>3, <3>2
      <4>2. g[a] = f[a]
        BY <2>4, <3>2
      <4>3. CASE a + 1 >= BlockLen
        BY <2>5, <4>1, <4>2, <4>3
      <4>4. CASE ~(a + 1 >= BlockLen)
        <5>1. a \in 0 .. BlockLen - 2
          BY <2>2, <4>4, BlockLenIs
        <5>2. Onward(m, a) \in b .. BlockLen /\ Onward(m, a) # b
          BY <2>2, <5>1, OnwardIs, BlockLenIs
        <5>3. g[Onward(m, a)] = f[Onward(m, a)]
          BY <2>4, <5>2
        <5>. QED  BY <2>5, <4>1, <4>2, <4>4, <5>3
      <4>. QED  BY <4>3, <4>4
    <3>. QED  BY <3>1, <3>2
  <2>7. g = [a \in b .. BlockLen |-> g[a]]
    BY <2>4
  <2>8. IsFrom(m, g, b)
    BY <2>6, <2>7 DEF IsFrom
  <2>9. b = BlockLen - (c + 1) /\ c + 1 \in 1 .. BlockLen
    BY <2>2, BlockLenIs
  <2>. QED  BY <2>8, <2>9
<1>3. BlockLen \in P
  <2>. HIDE DEF P
  <2>1. 1 .. BlockLen \subseteq P
    BY <1>1, <1>2, UpTo, BlockLenIs
  <2>. QED  BY <2>1, BlockLenIs
<1>4. BlockLen - BlockLen = 0
  BY BlockLenIs
<1>. QED  BY <1>3, <1>4

\* W visits what a walk from address a visits.
Visits(m, a, W) ==
  /\ W \in Seq(0 .. BlockLen - 2)
  /\ IF a + 1 >= BlockLen THEN W = <<>>
     ELSE /\ Len(W) > 0 /\ W[1] = a
          /\ \A i \in 1 .. Len(W) - 1 : W[i + 1] = Onward(m, W[i])
          /\ Onward(m, W[Len(W)]) + 1 >= BlockLen
IsWalk(m, W) == Visits(m, 0, W)

LEMMA OneFurther ==
  ASSUME NEW m \in Memory, NEW a \in 0 .. BlockLen - 2, NEW V, Visits(m, Onward(m, a), V)
  PROVE  Visits(m, a, <<a>> \o V)
<1>1. PICK W : W = <<a>> \o V
  OBVIOUS
<1>2. PICK n \in Nat : n = Len(V)
  BY DEF Visits
<1>3. V \in Seq(0 .. BlockLen - 2)
  BY DEF Visits
<1>4. /\ W \in Seq(0 .. BlockLen - 2) /\ Len(W) = n + 1 /\ W[1] = a
      /\ \A i \in 1 .. n : W[i + 1] = V[i]
  BY <1>1, <1>2, <1>3
<1>5. ~(a + 1 >= BlockLen)
  BY BlockLenIs
<1>6. CASE Onward(m, a) + 1 >= BlockLen
  <2>1. n = 0
    BY <1>2, <1>6 DEF Visits
  <2>. QED  BY <1>1, <1>4, <1>5, <1>6, <2>1 DEF Visits
<1>7. CASE ~(Onward(m, a) + 1 >= BlockLen)
  <2>1. /\ n > 0 /\ V[1] = Onward(m, a)
        /\ \A i \in 1 .. n - 1 : V[i + 1] = Onward(m, V[i])
        /\ Onward(m, V[n]) + 1 >= BlockLen
    BY <1>2, <1>7 DEF Visits
  <2>2. ASSUME NEW i \in 1 .. n PROVE W[i + 1] = Onward(m, W[i])
    <3>1. CASE i = 1
      BY <1>4, <2>1, <3>1
    <3>2. CASE i # 1
      <4>1. PICK j \in 1 .. n - 1 : j + 1 = i
        BY <3>2
      <4>2. W[i] = V[j] /\ W[i + 1] = V[i] /\ V[i] = Onward(m, V[j])
        BY <1>4, <2>1, <4>1
      <4>. QED  BY <4>2
    <3>. QED  BY <3>1, <3>2
  <2>3. W[n + 1] = V[n]
    BY <1>4, <2>1
  <2>4. Len(W) - 1 = n
    BY <1>4
  <2>. QED  BY <1>1, <1>4, <1>5, <2>1, <2>2, <2>3, <2>4 DEF Visits
<1>. QED  BY <1>6, <1>7

LEMMA WalkIs ==
  ASSUME NEW m \in Memory
  PROVE  IsWalk(m, WalkOf(m))
<1>1. \E f : IsFrom(m, f, 0)
  BY FromExists
<1>2. PICK f : f = CHOOSE g : IsFrom(m, g, 0)
  OBVIOUS
<1>3. WalkOf(m) = f[0]
  BY <1>2 DEF WalkOf, IsFrom
<1>4. IsFrom(m, f, 0)
  BY <1>1, <1>2
<1>5. \A a \in 0 .. BlockLen :
        f[a] = IF a + 1 >= BlockLen THEN <<>> ELSE <<a>> \o f[Onward(m, a)]
  BY <1>4 DEF IsFrom
<1>. DEFINE P == {c \in 1 .. BlockLen : \A a \in BlockLen - c .. BlockLen : Visits(m, a, f[a])}
<1>6. 1 \in P
  <2>1. ASSUME NEW a \in BlockLen - 1 .. BlockLen PROVE Visits(m, a, f[a])
    <3>1. a + 1 >= BlockLen /\ a \in 0 .. BlockLen
      BY BlockLenIs
    <3>2. f[a] = <<>>
      BY <1>5, <3>1
    <3>. QED  BY <3>1, <3>2 DEF Visits
  <2>. QED  BY <2>1, BlockLenIs
<1>7. ASSUME NEW c \in 1 .. BlockLen - 1, c \in P PROVE c + 1 \in P
  <2>1. PICK b \in 0 .. BlockLen - 2 : b = BlockLen - (c + 1) /\ BlockLen - c = b + 1
    BY BlockLenIs
  <2>2. f[b] = <<b>> \o f[Onward(m, b)]
    <3>1. b \in 0 .. BlockLen /\ ~(b + 1 >= BlockLen)
      BY BlockLenIs
    <3>. QED  BY <1>5, <3>1
  <2>3. Onward(m, b) \in BlockLen - c .. BlockLen
    BY <2>1, OnwardIs
  <2>4. Visits(m, Onward(m, b), f[Onward(m, b)])
    BY <1>7, <2>3
  <2>5. Visits(m, b, f[b])
    BY <2>2, <2>4, OneFurther
  <2>6. ASSUME NEW a \in b .. BlockLen PROVE Visits(m, a, f[a])
    <3>1. a = b \/ a \in BlockLen - c .. BlockLen
      BY <2>1
    <3>. QED  BY <1>7, <2>5, <3>1
  <2>. QED  BY <2>1, <2>6, BlockLenIs
<1>8. BlockLen \in P
  <2>. HIDE DEF P
  <2>1. 1 .. BlockLen \subseteq P
    BY <1>6, <1>7, UpTo, BlockLenIs
  <2>. QED  BY <2>1, BlockLenIs
<1>9. 0 \in BlockLen - BlockLen .. BlockLen
  BY BlockLenIs
<1>10. Visits(m, 0, f[0])
  BY <1>8, <1>9
<1>. QED  BY <1>3, <1>10 DEF IsWalk

\* Walks of two blocks that go the same way from the first records of one.
LEMMA SamePrefix ==
  ASSUME NEW m1 \in Memory, NEW m2 \in Memory, NEW V, NEW W, IsWalk(m1, V), IsWalk(m2, W),
         NEW k \in 1 .. Len(V), \A i \in 1 .. k - 1 : Onward(m1, V[i]) = Onward(m2, V[i])
  PROVE  k <= Len(W) /\ \A i \in 1 .. k : W[i] = V[i]
<1>. DEFINE P == {i \in 1 .. k : i <= Len(W) /\ W[i] = V[i]}
<1>1. /\ Len(V) \in Nat /\ Len(W) \in Nat /\ Len(V) > 0 /\ Len(W) > 0 /\ V[1] = 0 /\ W[1] = 0
      /\ \A i \in 1 .. Len(V) : V[i] \in 0 .. BlockLen - 2
      /\ \A i \in 1 .. Len(V) - 1 : V[i + 1] = Onward(m1, V[i])
      /\ \A i \in 1 .. Len(W) - 1 : W[i + 1] = Onward(m2, W[i])
      /\ Onward(m2, W[Len(W)]) + 1 >= BlockLen
  BY BlockLenIs DEF IsWalk, Visits
<1>2. 1 \in P
  BY <1>1
<1>3. ASSUME NEW i \in 1 .. k - 1, i \in P PROVE i + 1 \in P
  <2>1. V[i + 1] = Onward(m2, W[i]) /\ ~(V[i + 1] + 1 >= BlockLen)
    <3>1. i + 1 \in 1 .. Len(V) /\ i \in 1 .. Len(V) - 1
      BY <1>1
    <3>2. V[i + 1] \in 0 .. BlockLen - 2
      BY <1>1, <3>1
    <3>3. ~(V[i + 1] + 1 >= BlockLen)
      BY <3>2, BlockLenIs
    <3>. QED  BY <1>1, <1>3, <3>1, <3>3
  <2>2. Len(W) # i
    <3>. SUFFICES ASSUME Len(W) = i PROVE FALSE
      OBVIOUS
    <3>1. Onward(m2, W[Len(W)]) = V[i + 1]
      BY <2>1
    <3>. QED  BY <1>1, <2>1, <3>1
  <2>3. i \in 1 .. Len(W) - 1
    BY <1>1, <1>3, <2>2
  <2>. QED  BY <1>1, <2>1, <2>3
<1>4. 1 .. k \subseteq P
  <2>1. k \in Nat
    BY <1>1
  <2>. HIDE DEF P
  <2>. QED  BY <1>2, <1>3, <2>1, UpTo
<1>5. k \in 1 .. k
  BY <1>1
<1>. QED  BY <1>4, <1>5

LEMMA WalkUnique ==
  ASSUME NEW m \in Memory, NEW W, IsWalk(m, W)
  PROVE  WalkOf(m) = W
<1>1. PICK V : V = WalkOf(m)
  OBVIOUS
<1>2. IsWalk(m, V)
  BY <1>1, WalkIs
<1>3. /\ V \in Seq(0 .. BlockLen - 2) /\ W \in Seq(0 .. BlockLen - 2)
      /\ Len(V) \in Nat /\ Len(W) \in Nat /\ Len(V) > 0 /\ Len(W) > 0
  BY <1>2, BlockLenIs DEF IsWalk, Visits
<1>4. Len(V) <= Len(W) /\ \A i \in 1 .. Len(V) : W[i] = V[i]
  BY <1>2, <1>3, SamePrefix
<1>5. Len(W) <= Len(V)
  BY <1>2, <1>3, SamePrefix
<1>6. Len(V) = Len(W)
  BY <1>3, <1>4, <1>5
<1>. QED  BY <1>1, <1>3, <1>4, <1>6

----------------------------------------------------------------------------
(* Blocks of records                                                       *)

\* A record stands at address a.
RecordAt(m, a) ==
  /\ m[a] = InodeWord(inode(m, a)) /\ inode(m, a) # 0
  /\ m[a + 1] = LengthWord(natural(m, a), rec_len(m, a))
  /\ natural(m, a) \in NameLen /\ rec_len(m, a) >= natural(m, a)
  /\ \A w \in a + 2 .. a + natural(m, a) - 1 : m[w] = NameWord

\* Records stand at the addresses in W, each ending where the next begins.
Laid(m, W) ==
  /\ m \in Memory
  /\ W \in Seq(0 .. BlockLen - 2) /\ Len(W) > 0 /\ W[1] = 0
  /\ \A i \in 1 .. Len(W) :
       /\ RecordAt(m, W[i])
       /\ W[i] + rec_len(m, W[i]) = IF i = Len(W) THEN BlockLen ELSE W[i + 1]

\* And they are those of a directory: the dots, then files with one name each.
Good(m, W) ==
  /\ Laid(m, W)
  /\ Len(W) >= 2 /\ inode(m, W[1]) = 1 /\ inode(m, W[2]) = 2
  /\ \A i \in 3 .. Len(W) : inode(m, W[i]) \in Inode
  /\ \A i, j \in 1 .. Len(W) : inode(m, W[i]) = inode(m, W[j]) => i = j

LEMMA WordTypes ==
  /\ \A i \in Nat : InodeWord(i) \in Word
  /\ \A n, l \in Nat : LengthWord(n, l) \in Word
  /\ NameWord \in Word
BY DEF InodeWord, LengthWord, NameWord, Word

\* The fields of a record that is in the block.
LEMMA FieldTypes ==
  ASSUME NEW m \in Memory, NEW a \in 0 .. BlockLen - 2
  PROVE  inode(m, a) \in Nat /\ natural(m, a) \in Nat /\ rec_len(m, a) \in Nat
<1>1. a \in 0 .. BlockLen - 1 /\ a + 1 \in 0 .. BlockLen - 1
  BY BlockLenIs
<1>. QED  BY <1>1 DEF Memory, Word, inode, natural, rec_len

LEMMA RecordFacts ==
  ASSUME NEW m, NEW W, Laid(m, W), NEW i \in 1 .. Len(W)
  PROVE  /\ Len(W) \in Nat /\ W[i] \in Nat /\ W[i] \in 0 .. BlockLen - 2 /\ RecordAt(m, W[i])
         /\ inode(m, W[i]) \in Nat \ {0} /\ natural(m, W[i]) \in {3, 4}
         /\ rec_len(m, W[i]) \in Nat /\ rec_len(m, W[i]) >= natural(m, W[i])
         /\ W[i] + rec_len(m, W[i]) <= BlockLen
         /\ W[i] + rec_len(m, W[i]) = IF i = Len(W) THEN BlockLen ELSE W[i + 1]
         /\ W[i] + natural(m, W[i]) <= BlockLen
<1>1. /\ m \in Memory /\ Len(W) \in Nat /\ W[i] \in 0 .. BlockLen - 2 /\ W[i] \in Nat
      /\ RecordAt(m, W[i])
      /\ W[i] + rec_len(m, W[i]) = IF i = Len(W) THEN BlockLen ELSE W[i + 1]
  <2>1. W \in Seq(0 .. BlockLen - 2) /\ Len(W) \in Nat
    BY DEF Laid
  <2>2. W[i] \in 0 .. BlockLen - 2
    BY <2>1, ElementOfSeq
  <2>3. W[i] \in Nat
    BY <2>2, BlockLenIs
  <2>. QED  BY <2>1, <2>2, <2>3 DEF Laid
<1>2. inode(m, W[i]) \in Nat /\ natural(m, W[i]) \in Nat /\ rec_len(m, W[i]) \in Nat
  BY <1>1, FieldTypes
<1>3. inode(m, W[i]) # 0 /\ natural(m, W[i]) \in {3, 4} /\ rec_len(m, W[i]) >= natural(m, W[i])
  BY <1>1 DEF RecordAt, NameLen
<1>4. i # Len(W) => W[i + 1] \in 0 .. BlockLen - 2
  <2>1. i # Len(W) => i + 1 \in 1 .. Len(W)
    BY <1>1
  <2>2. W \in Seq(0 .. BlockLen - 2)
    BY DEF Laid
  <2>. QED  BY <2>1, <2>2, ElementOfSeq
<1>5. W[i] + rec_len(m, W[i]) <= BlockLen
  <2>1. CASE i = Len(W)
    BY <1>1, <2>1, BlockLenIs
  <2>2. CASE i # Len(W)
    <3>1. W[i] + rec_len(m, W[i]) = W[i + 1] /\ W[i + 1] \in 0 .. BlockLen - 2
      BY <1>1, <1>4, <2>2
    <3>. QED  BY <3>1, BlockLenIs
  <2>. QED  BY <2>1, <2>2
<1>6. W[i] + natural(m, W[i]) <= BlockLen
  BY <1>1, <1>2, <1>3, <1>5, BlockLenIs
<1>. QED  BY <1>1, <1>2, <1>3, <1>5, <1>6

\* The records are what a walk finds.
LEMMA LaidWalk ==
  ASSUME NEW m, NEW W, Laid(m, W)
  PROVE  IsWalk(m, W) /\ WalkOf(m) = W
<1>1. m \in Memory /\ W \in Seq(0 .. BlockLen - 2) /\ Len(W) > 0 /\ W[1] = 0 /\ Len(W) \in Nat
  BY DEF Laid
<1>2. ASSUME NEW i \in 1 .. Len(W)
      PROVE  Onward(m, W[i]) = IF i = Len(W) THEN BlockLen ELSE W[i + 1]
  <2>1. PICK a \in Nat, r \in Nat : a = W[i] /\ r = rec_len(m, a) /\ r > 0 /\ a + r <= BlockLen
    BY RecordFacts
  <2>2. a + r = IF i = Len(W) THEN BlockLen ELSE W[i + 1]
    BY <2>1, RecordFacts
  <2>3. Onward(m, a) = a + r
    BY <2>1, BlockLenIs DEF Onward
  <2>. QED  BY <2>1, <2>2, <2>3
<1>3. \A i \in 1 .. Len(W) - 1 : W[i + 1] = Onward(m, W[i])
  BY <1>1, <1>2
<1>4. Onward(m, W[Len(W)]) + 1 >= BlockLen
  <2>1. Onward(m, W[Len(W)]) = BlockLen
    BY <1>1, <1>2
  <2>. QED  BY <2>1, BlockLenIs
<1>5. ~(0 + 1 >= BlockLen)
  BY BlockLenIs
<1>6. IsWalk(m, W)
  BY <1>1, <1>3, <1>4, <1>5 DEF IsWalk, Visits
<1>. QED  BY <1>1, <1>6, WalkUnique

\* Records are in the order of their addresses.
LEMMA LaidOrder ==
  ASSUME NEW m, NEW W, Laid(m, W), NEW i \in 1 .. Len(W), NEW j \in 1 .. Len(W), i < j
  PROVE  W[i] + rec_len(m, W[i]) <= W[j] /\ W[i] + natural(m, W[i]) <= W[j] /\ W[i] < W[j]
<1>. DEFINE R(c) == W[i] + rec_len(m, W[i]) <= W[c]
            P == {d \in 1 .. j - i : R(i + d)}
<1>1. Len(W) \in Nat /\ i \in Nat /\ j \in Nat
  BY DEF Laid
<1>2. PICK N \in Nat : N = j - i /\ N > 0
  BY <1>1
<1>3. 1 \in P
  <2>1. i \in 1 .. Len(W) /\ i # Len(W)
    BY <1>1
  <2>2. W[i] + rec_len(m, W[i]) = W[i + 1] /\ W[i + 1] \in Nat
    <3>1. i + 1 \in 1 .. Len(W)
      BY <1>1, <2>1
    <3>. QED  BY <2>1, <3>1, RecordFacts
  <2>. QED  BY <1>2, <2>2
<1>4. ASSUME NEW d \in 1 .. N - 1, d \in P PROVE d + 1 \in P
  <2>1. PICK c \in 1 .. Len(W) : c = i + d /\ c # Len(W)
    BY <1>1, <1>2
  <2>2. W[c] + rec_len(m, W[c]) = W[c + 1] /\ W[c] \in Nat /\ rec_len(m, W[c]) \in Nat
    BY <2>1, RecordFacts
  <2>3. W[i] \in Nat /\ rec_len(m, W[i]) \in Nat /\ W[i] + rec_len(m, W[i]) <= W[c]
    BY <1>4, <2>1, RecordFacts
  <2>4. R(c + 1)
    BY <2>2, <2>3
  <2>. QED  BY <1>1, <1>2, <2>1, <2>4
<1>5. N \in P
  <2>. HIDE DEF P
  <2>1. 1 .. N \subseteq P
    BY <1>3, <1>4, UpTo
  <2>. QED  BY <1>2, <2>1
<1>6. R(j)
  BY <1>1, <1>2, <1>5
<1>7. W[i] \in Nat /\ natural(m, W[i]) \in {3, 4} /\ rec_len(m, W[i]) \in Nat
      /\ rec_len(m, W[i]) >= natural(m, W[i]) /\ W[j] \in Nat
  BY RecordFacts
<1>. QED  BY <1>6, <1>7

\* A record that has been copied, perhaps with another length, is one.
LEMMA RecordMoved ==
  ASSUME NEW m1 \in Memory, NEW m2 \in Memory, NEW a \in Nat, NEW b \in Nat, NEW l \in Nat,
         RecordAt(m1, a), l >= natural(m1, a),
         \A w \in 0 .. natural(m1, a) - 1 :
           m2[b + w] = IF w = 1 THEN LengthWord(natural(m1, a), l) ELSE m1[a + w]
  PROVE  /\ RecordAt(m2, b) /\ inode(m2, b) = inode(m1, a)
         /\ natural(m2, b) = natural(m1, a) /\ rec_len(m2, b) = l
<1>1. PICK n \in {3, 4} : n = natural(m1, a)
  BY DEF RecordAt, NameLen
<1>2. m2[b + 0] = m1[a + 0] /\ m2[b + 1] = LengthWord(n, l)
  BY <1>1
<1>3. m2[b] = m1[a] /\ b + 0 = b /\ a + 0 = a
  BY <1>2
<1>4. inode(m2, b) = inode(m1, a) /\ natural(m2, b) = n /\ rec_len(m2, b) = l
  BY <1>2, <1>3 DEF inode, natural, rec_len, LengthWord
<1>5. ASSUME NEW w \in b + 2 .. b + n - 1 PROVE m2[w] = NameWord
  <2>1. PICK v \in 0 .. n - 1 : w = b + v /\ v # 1 /\ v >= 2
    BY <1>1
  <2>2. a + v \in a + 2 .. a + n - 1
    BY <1>1, <2>1
  <2>3. m1[a + v] = NameWord
    BY <1>1, <2>2 DEF RecordAt
  <2>. QED  BY <1>1, <2>1, <2>3
<1>. QED  BY <1>1, <1>2, <1>3, <1>4, <1>5 DEF RecordAt

\* In particular one that nothing was written over.
LEMMA RecordKept ==
  ASSUME NEW m1 \in Memory, NEW m2 \in Memory, NEW a \in Nat, RecordAt(m1, a),
         rec_len(m1, a) \in Nat,
         \A w \in a .. a + natural(m1, a) - 1 : m2[w] = m1[w]
  PROVE  /\ RecordAt(m2, a) /\ inode(m2, a) = inode(m1, a)
         /\ natural(m2, a) = natural(m1, a) /\ rec_len(m2, a) = rec_len(m1, a)
<1>1. PICK n \in {3, 4} : n = natural(m1, a)
  BY DEF RecordAt, NameLen
<1>2. PICK l \in Nat : l = rec_len(m1, a) /\ l >= n
  BY <1>1 DEF RecordAt
<1>3. m1[a + 1] = LengthWord(n, l)
  BY <1>1, <1>2 DEF RecordAt
<1>4. ASSUME NEW w \in 0 .. natural(m1, a) - 1
      PROVE  m2[a + w] = IF w = 1 THEN LengthWord(natural(m1, a), l) ELSE m1[a + w]
  <2>1. a + w \in a .. a + natural(m1, a) - 1
    BY <1>1
  <2>2. m2[a + w] = m1[a + w]
    BY <2>1
  <2>. QED  BY <1>1, <1>3, <2>2
<1>5. l >= natural(m1, a)
  BY <1>1, <1>2
<1>. QED  BY <1>2, <1>4, <1>5, RecordMoved

----------------------------------------------------------------------------
(* What the operations write                                               *)

LEMMA PutIs ==
  ASSUME NEW m \in Memory, NEW a \in Nat, NEW i \in Nat, NEW n \in NameLen, NEW l \in Nat,
         a + n <= BlockLen, i # 0, l >= n
  PROVE  /\ Put(m, a, i, n, l) \in Memory
         /\ RecordAt(Put(m, a, i, n, l), a) /\ inode(Put(m, a, i, n, l), a) = i
         /\ natural(Put(m, a, i, n, l), a) = n /\ rec_len(Put(m, a, i, n, l), a) = l
         /\ \A w \in 0 .. BlockLen - 1 :
              w \notin a .. a + n - 1 => Put(m, a, i, n, l)[w] = m[w]
<1>1. PICK P : P = Put(m, a, i, n, l)
  OBVIOUS
<1>2. n \in {3, 4} /\ DOMAIN m = 0 .. BlockLen - 1 /\ \A w \in 0 .. BlockLen - 1 : m[w] \in Word
  BY DEF NameLen, Memory
<1>3. P = [w \in 0 .. BlockLen - 1 |->
             IF w = a THEN InodeWord(i)
             ELSE IF w = a + 1 THEN LengthWord(n, l)
             ELSE IF w \in a + 2 .. a + n - 1 THEN NameWord
             ELSE m[w]]
  BY <1>1, <1>2 DEF Put
<1>4. P \in Memory
  <2>1. InodeWord(i) \in Word /\ LengthWord(n, l) \in Word /\ NameWord \in Word
    BY <1>2, WordTypes
  <2>. QED  BY <1>2, <1>3, <2>1 DEF Memory
<1>5. \A w \in 0 .. BlockLen - 1 : w \notin a .. a + n - 1 => P[w] = m[w]
  <2>1. ASSUME NEW w \in 0 .. BlockLen - 1, w \notin a .. a + n - 1
        PROVE  w # a /\ w # a + 1 /\ w \notin a + 2 .. a + n - 1
    BY <1>2, <2>1
  <2>. QED  BY <1>3, <2>1
<1>6. /\ P[a] = InodeWord(i) /\ P[a + 1] = LengthWord(n, l)
      /\ \A w \in a + 2 .. a + n - 1 : P[w] = NameWord
  <2>1. a \in 0 .. BlockLen - 1 /\ a + 1 \in 0 .. BlockLen - 1 /\ a # a + 1
    BY <1>2, BlockLenIs
  <2>2. ASSUME NEW w \in a + 2 .. a + n - 1
        PROVE  w \in 0 .. BlockLen - 1 /\ w # a /\ w # a + 1
    BY <1>2, BlockLenIs
  <2>. QED  BY <1>3, <2>1, <2>2
<1>7. inode(P, a) = i /\ natural(P, a) = n /\ rec_len(P, a) = l
  BY <1>6 DEF inode, natural, rec_len, InodeWord, LengthWord
<1>8. RecordAt(P, a)
  BY <1>6, <1>7 DEF RecordAt
<1>. QED  BY <1>1, <1>4, <1>5, <1>7, <1>8

LEMMA SetLenIs ==
  ASSUME NEW m \in Memory, NEW a \in Nat, RecordAt(m, a), rec_len(m, a) \in Nat,
         a + natural(m, a) <= BlockLen, NEW l \in Nat, l >= natural(m, a)
  PROVE  /\ SetLen(m, a, l) \in Memory
         /\ RecordAt(SetLen(m, a, l), a) /\ inode(SetLen(m, a, l), a) = inode(m, a)
         /\ natural(SetLen(m, a, l), a) = natural(m, a) /\ rec_len(SetLen(m, a, l), a) = l
         /\ \A w \in 0 .. BlockLen - 1 : w # a + 1 => SetLen(m, a, l)[w] = m[w]
<1>1. PICK S : S = SetLen(m, a, l)
  OBVIOUS
<1>2. PICK n \in {3, 4} : n = natural(m, a)
  BY DEF RecordAt, NameLen
<1>3. a \in 0 .. BlockLen - 1 /\ a + 1 \in 0 .. BlockLen - 1
  BY <1>2, BlockLenIs
<1>4. m[a + 1] = LengthWord(n, rec_len(m, a))
  BY <1>2 DEF RecordAt
<1>5. S = [m EXCEPT ![a + 1] = LengthWord(n, l)]
  <2>1. [m[a + 1] EXCEPT !.rec_len = l] = LengthWord(n, l)
    BY <1>4 DEF LengthWord
  <2>. QED  BY <1>1, <2>1 DEF SetLen
<1>6. S \in Memory
  <2>1. LengthWord(n, l) \in Word
    BY <1>2, WordTypes
  <2>. QED  BY <1>3, <1>5, <2>1 DEF Memory
<1>7. S[a + 1] = LengthWord(n, l) /\ \A w \in 0 .. BlockLen - 1 : w # a + 1 => S[w] = m[w]
  BY <1>3, <1>5 DEF Memory
<1>8. ASSUME NEW w \in 0 .. natural(m, a) - 1
      PROVE  S[a + w] = IF w = 1 THEN LengthWord(natural(m, a), l) ELSE m[a + w]
  <2>1. a + w \in 0 .. BlockLen - 1 /\ (a + w = a + 1 => w = 1)
    BY <1>2, BlockLenIs
  <2>. QED  BY <1>2, <1>7, <2>1
<1>9. /\ RecordAt(S, a) /\ inode(S, a) = inode(m, a)
      /\ natural(S, a) = natural(m, a) /\ rec_len(S, a) = l
  BY <1>6, <1>8, RecordMoved
<1>. QED  BY <1>1, <1>6, <1>7, <1>9

\* A record before the words that change is kept.
LEMMA KeptBelow ==
  ASSUME NEW m, NEW W, Laid(m, W), NEW m2 \in Memory, NEW i \in 1 .. Len(W), NEW b \in Nat,
         W[i] + natural(m, W[i]) <= b, \A w \in 0 .. BlockLen - 1 : w < b => m2[w] = m[w]
  PROVE  /\ RecordAt(m2, W[i]) /\ inode(m2, W[i]) = inode(m, W[i])
         /\ natural(m2, W[i]) = natural(m, W[i]) /\ rec_len(m2, W[i]) = rec_len(m, W[i])
<1>1. PICK a \in Nat, n \in {3, 4} : a = W[i] /\ n = natural(m, a) /\ a + n <= BlockLen
  BY RecordFacts
<1>2. RecordAt(m, a) /\ rec_len(m, a) \in Nat
  BY <1>1, RecordFacts
<1>3. \A w \in a .. a + natural(m, a) - 1 : m2[w] = m[w]
  <2>1. ASSUME NEW w \in a .. a + natural(m, a) - 1 PROVE w \in 0 .. BlockLen - 1 /\ w < b
    BY <1>1, BlockLenIs
  <2>. QED  BY <2>1
<1>4. m \in Memory
  BY DEF Laid
<1>. QED  BY <1>1, <1>2, <1>3, <1>4, RecordKept

\* The record that is added stands after the last one, in its spare room.
LastHas(m, W, a, t, s) == a = W[Len(W)] /\ t = natural(m, a) /\ rec_len(m, a) = t + s
IsNew(m, W, i) == \A k \in 1 .. Len(W) : inode(m, W[k]) # i

\* M has the records of m at W, and one of natural length n at b.
Added(m, W, n, b, M) ==
  /\ Good(M, Append(W, b))
  /\ natural(M, b) = n /\ \A k \in 1 .. Len(W) : natural(M, W[k]) = natural(m, W[k])

LEMMA AddIs ==
  ASSUME NEW m, NEW W, Good(m, W), NEW i \in Inode, NEW n \in {3, 4}, IsNew(m, W, i),
         NEW a \in Nat, NEW t \in {3, 4}, NEW s \in Nat, LastHas(m, W, a, t, s), s >= n
  PROVE  Added(m, W, n, a + t, Put(SetLen(m, a, t), a + t, i, n, s))
<1>1. Laid(m, W) /\ m \in Memory /\ Len(W) \in Nat /\ Len(W) >= 2
      /\ W \in Seq(0 .. BlockLen - 2)
  BY DEF Good, Laid
<1>0. a = W[Len(W)] /\ t = natural(m, a) /\ rec_len(m, a) = t + s
  BY DEF LastHas
<1>2. PICK p \in Nat : p = Len(W) /\ p >= 2
  BY <1>1
<1>3. p \in 1 .. Len(W) /\ a = W[p]
  BY <1>0, <1>2
<1>4. n \in NameLen
  BY DEF NameLen
<1>5. a + (t + s) = BlockLen /\ rec_len(m, a) \in Nat
  <2>1. W[p] + rec_len(m, W[p]) = BlockLen /\ rec_len(m, W[p]) \in Nat
    BY <1>1, <1>2, <1>3, RecordFacts
  <2>. QED  BY <1>0, <1>3, <2>1
<1>6. RecordAt(m, a) /\ inode(m, a) # 0
  BY <1>1, <1>2, <1>3, RecordFacts
<1>8. PICK b \in Nat : b = a + t /\ b + s = BlockLen /\ b + n <= BlockLen /\ a + t <= BlockLen
                       /\ BlockLen \in Nat
  <2>1. PICK u \in Nat : u = BlockLen
    BY BlockLenIs
  <2>2. PICK b \in Nat : b = a + t
    OBVIOUS
  <2>3. b + s = u /\ b + n <= u /\ a + t <= u
    BY <1>4, <1>5, <2>1, <2>2
  <2>. QED  BY <2>1, <2>2, <2>3
<1>9. PICK S : S = SetLen(m, a, t)
  OBVIOUS
<1>10. /\ S \in Memory /\ RecordAt(S, a) /\ inode(S, a) = inode(m, a)
       /\ natural(S, a) = t /\ rec_len(S, a) = t
       /\ \A w \in 0 .. BlockLen - 1 : w # a + 1 => S[w] = m[w]
  <2>2. natural(m, a) = t
    BY <1>0
  <2>3. t \in Nat /\ t >= t /\ a + t <= BlockLen
    BY <1>8
  <2>1. t \in Nat /\ t >= natural(m, a) /\ a + natural(m, a) <= BlockLen
    BY <2>2, <2>3
  <2>4. SetLen(m, a, t) \in Memory
    BY <1>1, <1>5, <1>6, <2>1, SetLenIs
  <2>5. /\ RecordAt(SetLen(m, a, t), a) /\ inode(SetLen(m, a, t), a) = inode(m, a)
        /\ natural(SetLen(m, a, t), a) = natural(m, a) /\ rec_len(SetLen(m, a, t), a) = t
    BY <1>1, <1>5, <1>6, <2>1, SetLenIs
  <2>6. \A w \in 0 .. BlockLen - 1 : w # a + 1 => SetLen(m, a, t)[w] = m[w]
    BY <1>1, <1>5, <1>6, <2>1, SetLenIs
  <2>. QED  BY <1>9, <2>2, <2>4, <2>5, <2>6
<1>11. PICK M : M = Put(S, b, i, n, s)
  OBVIOUS
<1>12. i \in Nat /\ i # 0 /\ i # 1 /\ i # 2
  BY DirBlockAssumption
<1>13. /\ M \in Memory /\ RecordAt(M, b) /\ inode(M, b) = i /\ natural(M, b) = n
       /\ rec_len(M, b) = s
       /\ \A w \in 0 .. BlockLen - 1 : w \notin b .. b + n - 1 => M[w] = S[w]
  <2>1. S \in Memory /\ b + n <= BlockLen /\ i # 0 /\ i \in Nat
    BY <1>8, <1>10, <1>12
  <2>2. Put(S, b, i, n, s) \in Memory
    BY <1>4, <2>1, PutIs
  <2>3. /\ RecordAt(Put(S, b, i, n, s), b) /\ inode(Put(S, b, i, n, s), b) = i
        /\ natural(Put(S, b, i, n, s), b) = n /\ rec_len(Put(S, b, i, n, s), b) = s
    BY <1>4, <2>1, PutIs
  <2>4. \A w \in 0 .. BlockLen - 1 : w \notin b .. b + n - 1 => Put(S, b, i, n, s)[w] = S[w]
    BY <1>4, <2>1, PutIs
  <2>. QED  BY <1>11, <2>2, <2>3, <2>4
<1>14. /\ RecordAt(M, a) /\ inode(M, a) = inode(m, a) /\ natural(M, a) = t
       /\ rec_len(M, a) = t
  <2>1. ASSUME NEW w \in a .. a + natural(S, a) - 1 PROVE M[w] = S[w]
    <3>1. w \in 0 .. BlockLen - 1 /\ w \notin b .. b + n - 1
      BY <1>4, <1>5, <1>8, <1>10, BlockLenIs
    <3>. QED  BY <1>13, <3>1
  <2>2. rec_len(S, a) \in Nat
    BY <1>4, <1>10
  <2>. QED  BY <1>5, <1>10, <1>13, <2>1, <2>2, RecordKept
<1>15. ASSUME NEW k \in 1 .. p - 1
       PROVE  /\ k \in 1 .. Len(W) /\ k # Len(W)
              /\ RecordAt(M, W[k]) /\ inode(M, W[k]) = inode(m, W[k])
              /\ natural(M, W[k]) = natural(m, W[k]) /\ rec_len(M, W[k]) = rec_len(m, W[k])
  <2>1. k \in 1 .. Len(W) /\ k < p /\ k # Len(W)
    BY <1>2
  <2>2. W[k] + natural(m, W[k]) <= a
    BY <1>1, <1>2, <1>3, <2>1, LaidOrder
  <2>3. ASSUME NEW w \in 0 .. BlockLen - 1, w < a PROVE M[w] = m[w]
    <3>1. w \notin b .. b + n - 1 /\ w # a + 1
      BY <1>4, <1>5, <1>8, <2>3, BlockLenIs
    <3>. QED  BY <1>10, <1>13, <3>1
  <2>4. M \in Memory
    BY <1>13
  <2>5. /\ RecordAt(M, W[k]) /\ inode(M, W[k]) = inode(m, W[k])
        /\ natural(M, W[k]) = natural(m, W[k]) /\ rec_len(M, W[k]) = rec_len(m, W[k])
    BY <1>1, <2>1, <2>2, <2>3, <2>4, KeptBelow
  <2>. QED  BY <2>1, <2>5
<1>16. PICK V : V = Append(W, b)
  OBVIOUS
<1>17. /\ V \in Seq(0 .. BlockLen - 2) /\ Len(V) = p + 1 /\ V[p + 1] = b
       /\ \A k \in 1 .. p : V[k] = W[k]
  <2>1. b \in 0 .. BlockLen - 2
    BY <1>8, BlockLenIs
  <2>. QED  BY <1>1, <1>2, <1>16, <2>1, AppendProperties
<1>18. ASSUME NEW k \in 1 .. Len(V)
       PROVE  RecordAt(M, V[k]) /\ V[k] + rec_len(M, V[k]) = IF k = Len(V) THEN BlockLen ELSE V[k + 1]
  <2>1. CASE k = p + 1
    BY <1>8, <1>13, <1>17, <2>1
  <2>2. CASE k = p
    <3>1. V[k] = a /\ k # Len(V) /\ V[k + 1] = b
      BY <1>3, <1>17, <2>2
    <3>. QED  BY <1>8, <1>14, <3>1
  <2>3. CASE k \in 1 .. p - 1
    <3>1. V[k] = W[k] /\ V[k + 1] = W[k + 1] /\ k # Len(V)
      <4>1. k \in 1 .. p /\ k + 1 \in 1 .. p
        BY <2>3
      <4>. QED  BY <1>2, <1>17, <2>3, <4>1
    <3>2. k \in 1 .. Len(W) /\ k # Len(W) /\ RecordAt(M, W[k]) /\ rec_len(M, W[k]) = rec_len(m, W[k])
      BY <1>15, <2>3
    <3>3. W[k] + rec_len(m, W[k]) = W[k + 1]
      BY <1>1, <3>2, RecordFacts
    <3>. QED  BY <3>1, <3>2, <3>3
  <2>. QED  BY <1>2, <1>17, <2>1, <2>2, <2>3
<1>19. Len(V) > 0 /\ V[1] = 0
  <2>1. W[1] = 0 /\ 1 \in 1 .. p
    BY <1>1, <1>2 DEF Laid
  <2>. QED  BY <1>2, <1>17, <2>1
<1>20. Laid(M, V)
  BY <1>13, <1>17, <1>18, <1>19 DEF Laid
<1>21. \A k \in 1 .. p : inode(M, V[k]) = inode(m, W[k])
  <2>1. ASSUME NEW k \in 1 .. p PROVE k = p \/ k \in 1 .. p - 1
    OBVIOUS
  <2>. QED  BY <1>3, <1>14, <1>15, <1>17, <2>1
<1>22. inode(M, V[p + 1]) = i
  BY <1>13, <1>17
<1>23. /\ Len(V) >= 2 /\ inode(M, V[1]) = 1 /\ inode(M, V[2]) = 2
       /\ \A k \in 3 .. Len(V) : inode(M, V[k]) \in Inode
  <2>1. 1 \in 1 .. p /\ 2 \in 1 .. p
    BY <1>2
  <2>2. ASSUME NEW k \in 3 .. Len(V) PROVE k = p + 1 \/ (k \in 3 .. Len(W) /\ k \in 1 .. p)
    BY <1>2, <1>17
  <2>. QED  BY <1>2, <1>17, <1>21, <1>22, <2>1, <2>2 DEF Good
<1>24. \A j, k \in 1 .. Len(V) : inode(M, V[j]) = inode(M, V[k]) => j = k
  <2>1. ASSUME NEW k \in 1 .. Len(V) PROVE k = p + 1 \/ k \in 1 .. p
    BY <1>2, <1>17
  <2>2. \A k \in 1 .. p : inode(M, V[k]) # i
    BY <1>2, <1>21 DEF IsNew
  <2>3. \A j, k \in 1 .. p : inode(M, V[j]) = inode(M, V[k]) => j = k
    BY <1>2, <1>21 DEF Good
  <2>. QED  BY <1>22, <2>1, <2>2, <2>3
<1>25. Good(M, V)
  BY <1>20, <1>23, <1>24 DEF Good
<1>26. natural(M, b) = n /\ \A k \in 1 .. Len(W) : natural(M, W[k]) = natural(m, W[k])
  <2>1. ASSUME NEW k \in 1 .. Len(W) PROVE k = p \/ k \in 1 .. p - 1
    BY <1>2
  <2>. QED  BY <1>0, <1>3, <1>13, <1>14, <1>15, <2>1
<1>. QED  BY <1>8, <1>9, <1>11, <1>16, <1>25, <1>26 DEF Added

----------------------------------------------------------------------------
(* Taking away a record: the last one                                      *)

LEMMA RemoveAtIs ==
  ASSUME NEW S, NEW s \in Seq(S), NEW k \in 1 .. Len(s)
  PROVE  /\ RemoveAt(s, k) \in Seq(S) /\ Len(RemoveAt(s, k)) = Len(s) - 1
         /\ \A i \in 1 .. Len(s) - 1 : RemoveAt(s, k)[i] = s[IF i < k THEN i ELSE i + 1]
<1>1. PICK n \in Nat : n = Len(s) /\ k \in 1 .. n
  OBVIOUS
<1>2. PICK a : a = SubSeq(s, 1, k - 1)
  OBVIOUS
<1>3. PICK b : b = SubSeq(s, k + 1, n)
  OBVIOUS
<1>4. a \in Seq(S) /\ Len(a) = k - 1 /\ \A i \in 1 .. k - 1 : a[i] = s[i]
  <2>1. \A i \in 1 .. k - 1 : s[i] \in S
    BY <1>1
  <2>2. Len(a) = k - 1 /\ a \in Seq(S) /\ \A i \in 1 .. k - 1 : a[i] = s[1 + i - 1]
    <3>1. 1 \in Int /\ k - 1 \in Int /\ (k - 1) - 1 + 1 = k - 1
      BY <1>1
    <3>2. IF 1 <= k - 1 THEN (k - 1) - 1 + 1 = k - 1 ELSE 0 = k - 1
      BY <1>1
    <3>. QED  BY <1>1, <1>2, <2>1, <3>1, <3>2, SubSeqProperties
  <2>. QED  BY <1>1, <2>2
<1>5. b \in Seq(S) /\ Len(b) = n - k /\ \A i \in 1 .. n - k : b[i] = s[i + k]
  <2>1. \A i \in k + 1 .. n : s[i] \in S
    BY <1>1
  <2>2. k + 1 \in Int /\ n \in Int /\ n - (k + 1) + 1 = n - k
    BY <1>1
  <2>3. IF k + 1 <= n THEN n - (k + 1) + 1 = n - k ELSE 0 = n - k
    BY <1>1
  <2>4. /\ b \in Seq(S) /\ Len(b) = IF k + 1 <= n THEN n - (k + 1) + 1 ELSE 0
        /\ \A i \in 1 .. n - (k + 1) + 1 : b[i] = s[(k + 1) + i - 1]
    BY <1>3, <2>1, <2>2, SubSeqProperties
  <2>5. \A i \in 1 .. n - k : (k + 1) + i - 1 = i + k
    BY <1>1
  <2>. QED  BY <2>2, <2>3, <2>4, <2>5
<1>6. PICK r : r = a \o b
  OBVIOUS
<1>7. r = RemoveAt(s, k)
  BY <1>1, <1>2, <1>3, <1>6 DEF RemoveAt
<1>8. r \in Seq(S) /\ Len(r) = n - 1
  BY <1>1, <1>4, <1>5, <1>6
<1>9. ASSUME NEW i \in 1 .. n - 1 PROVE r[i] = s[IF i < k THEN i ELSE i + 1]
  <2>1. CASE i < k
    BY <1>1, <1>4, <1>5, <1>6, <2>1
  <2>2. CASE ~(i < k)
    <3>1. PICK j \in 1 .. n - k : j = i - (k - 1) /\ j + k = i + 1
      BY <1>1, <2>2
    <3>2. r[i] = b[j]
      BY <1>1, <1>4, <1>5, <1>6, <2>2, <3>1
    <3>3. b[j] = s[i + 1]
      BY <1>5, <3>1
    <3>. QED  BY <2>2, <3>2, <3>3
  <2>. QED  BY <2>1, <2>2
<1>. QED  BY <1>1, <1>7, <1>8, <1>9

LEMMA ListingIs ==
  ASSUME NEW m, NEW W, Laid(m, W)
  PROVE  /\ ListingOf(m) = [k \in 1 .. Len(W) |-> inode(m, W[k])]
         /\ ListingOf(m) \in Seq(Nat) /\ Len(ListingOf(m)) = Len(W)
<1>1. ListingOf(m) = [k \in 1 .. Len(W) |-> inode(m, W[k])]
  BY LaidWalk DEF ListingOf
<1>2. \A k \in 1 .. Len(W) : inode(m, W[k]) \in Nat
  BY RecordFacts
<1>3. Len(W) \in Nat
  BY DEF Laid
<1>. QED  BY <1>1, <1>2, <1>3

\* At the addresses in V stand the records of W but the k-th.
Closed(m, W, k, m2, V) ==
  /\ m2 \in Memory
  /\ V \in Seq(0 .. BlockLen - 2) /\ Len(V) = Len(W) - 1 /\ V[1] = 0
  /\ \A i \in 1 .. Len(V) :
       /\ RecordAt(m2, V[i])
       /\ inode(m2, V[i]) = inode(m, W[IF i < k THEN i ELSE i + 1])
       /\ natural(m2, V[i]) = natural(m, W[IF i < k THEN i ELSE i + 1])
       /\ V[i] + rec_len(m2, V[i]) = IF i = Len(V) THEN BlockLen ELSE V[i + 1]

LEMMA ClosedUp ==
  ASSUME NEW m, NEW W, Good(m, W), NEW k \in 3 .. Len(W), NEW m2, NEW V, Closed(m, W, k, m2, V)
  PROVE  Good(m2, V) /\ ListingOf(m2) = RemoveAt(ListingOf(m), k)
<1>1. Laid(m, W)
  BY DEF Good
<1>2. PICK n \in Nat : n = Len(W) - 1 /\ Len(W) = n + 1 /\ n >= 2 /\ k \in 3 .. n + 1
  <2>1. PICK c \in Nat : c = Len(W)
    BY <1>1 DEF Laid
  <2>2. c - 1 \in Nat /\ c = (c - 1) + 1 /\ c - 1 >= 2 /\ k \in 3 .. (c - 1) + 1
    BY <2>1
  <2>. QED  BY <2>1, <2>2
<1>3. /\ m2 \in Memory /\ V \in Seq(0 .. BlockLen - 2) /\ Len(V) = n /\ V[1] = 0
      /\ \A i \in 1 .. n :
           /\ RecordAt(m2, V[i])
           /\ inode(m2, V[i]) = inode(m, W[IF i < k THEN i ELSE i + 1])
           /\ V[i] + rec_len(m2, V[i]) = IF i = n THEN BlockLen ELSE V[i + 1]
  BY <1>2 DEF Closed
<1>4. Laid(m2, V)
  BY <1>2, <1>3 DEF Laid
<1>5. ASSUME NEW i \in 1 .. n
      PROVE  /\ (IF i < k THEN i ELSE i + 1) \in 1 .. n + 1
             /\ i >= 3 => (IF i < k THEN i ELSE i + 1) \in 3 .. n + 1
  BY <1>2
<1>6. Good(m2, V)
  <2>1. inode(m2, V[1]) = 1 /\ inode(m2, V[2]) = 2
    <3>1. 1 \in 1 .. n /\ 2 \in 1 .. n /\ 1 < k /\ 2 < k
      BY <1>2
    <3>. QED  BY <1>3, <3>1 DEF Good
  <2>2. \A i \in 3 .. n : inode(m2, V[i]) \in Inode
    <3>1. \A i \in 3 .. n + 1 : inode(m, W[i]) \in Inode
      BY <1>2 DEF Good
    <3>2. \A i \in 3 .. n : i \in 1 .. n /\ i >= 3
      BY <1>2
    <3>. QED  BY <1>3, <1>5, <3>1, <3>2
  <2>3. ASSUME NEW i \in 1 .. n, NEW j \in 1 .. n, inode(m2, V[i]) = inode(m2, V[j])
        PROVE  i = j
    <3>1. PICK c \in 1 .. n + 1 : c = IF i < k THEN i ELSE i + 1
      BY <1>5
    <3>2. PICK d \in 1 .. n + 1 : d = IF j < k THEN j ELSE j + 1
      BY <1>5
    <3>3. inode(m, W[c]) = inode(m, W[d])
      BY <1>3, <2>3, <3>1, <3>2
    <3>4. c = d
      BY <1>2, <3>3 DEF Good
    <3>. QED  BY <1>2, <3>1, <3>2, <3>4
  <2>. QED  BY <1>2, <1>3, <1>4, <2>1, <2>2, <2>3 DEF Good
<1>7. PICK L : L = ListingOf(m)
  OBVIOUS
<1>8. L \in Seq(Nat) /\ Len(L) = n + 1 /\ \A i \in 1 .. n + 1 : L[i] = inode(m, W[i])
  BY <1>1, <1>2, <1>7, ListingIs
<1>9. PICK R : R = ListingOf(m2)
  OBVIOUS
<1>10. R \in Seq(Nat) /\ Len(R) = n /\ \A i \in 1 .. n : R[i] = inode(m2, V[i])
  <2>1. /\ R = [i \in 1 .. Len(V) |-> inode(m2, V[i])] /\ R \in Seq(Nat)
        /\ Len(R) = Len(V)
    BY <1>4, <1>9, ListingIs
  <2>. QED  BY <1>3, <2>1
<1>11. PICK Q : Q = RemoveAt(L, k)
  OBVIOUS
<1>12. Q \in Seq(Nat) /\ Len(Q) = n /\ \A i \in 1 .. n : Q[i] = L[IF i < k THEN i ELSE i + 1]
  <2>1. k \in 1 .. Len(L) /\ Len(L) - 1 = n
    BY <1>2, <1>8
  <2>. QED  BY <1>8, <1>11, <2>1, RemoveAtIs
<1>13. ASSUME NEW i \in 1 .. n PROVE Q[i] = R[i]
  <2>1. PICK c \in 1 .. n + 1 : c = IF i < k THEN i ELSE i + 1
    BY <1>5
  <2>2. Q[i] = L[c] /\ R[i] = inode(m2, V[i]) /\ inode(m2, V[i]) = inode(m, W[c])
    BY <1>3, <1>10, <1>12, <2>1
  <2>. QED  BY <1>8, <2>1, <2>2
<1>14. Q = R
  <2>1. Q \in Seq(Nat) /\ Len(Q) = n
    BY <1>12
  <2>2. R \in Seq(Nat) /\ Len(R) = n
    BY <1>10
  <2>3. \A i \in 1 .. Len(Q) : Q[i] = R[i]
    BY <1>13, <2>1
  <2>. QED  BY <2>1, <2>2, <2>3, SeqEqual
<1>. QED  BY <1>6, <1>7, <1>9, <1>11, <1>14

LEMMA MergeIs ==
  ASSUME NEW m, NEW W, Good(m, W), NEW k \in 3 .. Len(W), k = Len(W)
  PROVE  Closed(m, W, k, SetLen(m, W[k - 1], rec_len(m, W[k - 1]) + rec_len(m, W[k])),
                SubSeq(W, 1, k - 1))
<1>1. Laid(m, W) /\ m \in Memory /\ W \in Seq(0 .. BlockLen - 2) /\ W[1] = 0
  BY DEF Good, Laid
<1>2. PICK n \in Nat : n = Len(W) - 1 /\ Len(W) = n + 1 /\ n >= 2 /\ k = n + 1 /\ k - 1 = n
  OBVIOUS
<1>3. n \in 1 .. Len(W) /\ n # Len(W) /\ k \in 1 .. Len(W) /\ k \in Nat
  BY <1>2
<1>4. PICK a \in Nat : a = W[n]
  BY <1>1, <1>3, RecordFacts
<1>5. PICK r \in Nat : r = rec_len(m, a)
  BY <1>1, <1>3, <1>4, RecordFacts
<1>6. PICK t \in {3, 4} : t = natural(m, a)
  BY <1>1, <1>3, <1>4, RecordFacts
<1>7. PICK q \in Nat : q = rec_len(m, W[k])
  BY <1>1, <1>3, RecordFacts
<1>8. a + r = W[k] /\ W[k] + q = BlockLen /\ W[k] \in Nat /\ a + t <= BlockLen /\ RecordAt(m, a)
      /\ r >= t
  <2>1. /\ W[n] + rec_len(m, W[n]) = W[n + 1] /\ W[n] + natural(m, W[n]) <= BlockLen
        /\ RecordAt(m, W[n]) /\ rec_len(m, W[n]) >= natural(m, W[n])
    BY <1>1, <1>3, RecordFacts
  <2>2. W[k] + rec_len(m, W[k]) = BlockLen /\ W[k] \in Nat
    BY <1>1, <1>2, <1>3, RecordFacts
  <2>. QED  BY <1>2, <1>4, <1>5, <1>6, <1>7, <2>1, <2>2
<1>9. PICK l \in Nat : l = r + q /\ l >= t
  BY <1>8
<1>10. a + l = BlockLen
  <2>1. PICK z \in Nat : z = W[k]
    BY <1>8
  <2>. QED  BY <1>8, <1>9, <2>1
<1>11. PICK S : S = SetLen(m, a, l)
  OBVIOUS
<1>12. /\ S \in Memory /\ RecordAt(S, a) /\ inode(S, a) = inode(m, a) /\ rec_len(S, a) = l
       /\ natural(S, a) = natural(m, a)
       /\ \A w \in 0 .. BlockLen - 1 : w # a + 1 => S[w] = m[w]
  <2>1. rec_len(m, a) \in Nat /\ a + natural(m, a) <= BlockLen /\ l >= natural(m, a)
    BY <1>5, <1>6, <1>8, <1>9
  <2>2. SetLen(m, a, l) \in Memory
    BY <1>1, <1>8, <2>1, SetLenIs
  <2>3. /\ RecordAt(SetLen(m, a, l), a) /\ inode(SetLen(m, a, l), a) = inode(m, a)
        /\ rec_len(SetLen(m, a, l), a) = l /\ natural(SetLen(m, a, l), a) = natural(m, a)
    BY <1>1, <1>8, <2>1, SetLenIs
  <2>4. \A w \in 0 .. BlockLen - 1 : w # a + 1 => SetLen(m, a, l)[w] = m[w]
    BY <1>1, <1>8, <2>1, SetLenIs
  <2>. QED  BY <1>11, <2>2, <2>3, <2>4
<1>13. PICK V : V = SubSeq(W, 1, n)
  OBVIOUS
<1>14. V \in Seq(0 .. BlockLen - 2) /\ Len(V) = n /\ \A i \in 1 .. n : V[i] = W[i]
  <2>1. ASSUME NEW i \in 1 .. n PROVE W[i] \in 0 .. BlockLen - 2
    <3>1. i \in 1 .. Len(W)
      BY <1>2
    <3>. QED  BY <1>1, <3>1, ElementOfSeq
  <2>2. 1 \in Int /\ n \in Int /\ 1 <= n /\ n - 1 + 1 = n
    BY <1>2
  <2>3. /\ V \in Seq(0 .. BlockLen - 2) /\ Len(V) = IF 1 <= n THEN n - 1 + 1 ELSE 0
        /\ \A i \in 1 .. n - 1 + 1 : V[i] = W[1 + i - 1]
    BY <1>13, <2>1, <2>2, SubSeqProperties
  <2>4. \A i \in 1 .. n : 1 + i - 1 = i
    OBVIOUS
  <2>. QED  BY <2>2, <2>3, <2>4
<1>15. ASSUME NEW i \in 1 .. n
       PROVE  /\ RecordAt(S, V[i]) /\ inode(S, V[i]) = inode(m, W[i])
              /\ natural(S, V[i]) = natural(m, W[i])
              /\ V[i] + rec_len(S, V[i]) = IF i = n THEN BlockLen ELSE V[i + 1]
  <2>1. CASE i = n
    BY <1>4, <1>10, <1>12, <1>14, <2>1
  <2>2. CASE i # n
    <3>1. i \in 1 .. Len(W) /\ i < n /\ i # Len(W) /\ i + 1 \in 1 .. n
      BY <1>2, <2>2
    <3>2. W[i] + natural(m, W[i]) <= a
      BY <1>1, <1>3, <1>4, <3>1, LaidOrder
    <3>3. \A w \in 0 .. BlockLen - 1 : w < a => S[w] = m[w]
      BY <1>12
    <3>4. /\ RecordAt(S, W[i]) /\ inode(S, W[i]) = inode(m, W[i])
          /\ natural(S, W[i]) = natural(m, W[i]) /\ rec_len(S, W[i]) = rec_len(m, W[i])
      BY <1>1, <1>12, <3>1, <3>2, <3>3, KeptBelow
    <3>5. W[i] + rec_len(m, W[i]) = W[i + 1]
      BY <1>1, <3>1, RecordFacts
    <3>. QED  BY <1>14, <2>2, <3>1, <3>4, <3>5
  <2>. QED  BY <2>1, <2>2
<1>16. V[1] = 0
  BY <1>1, <1>2, <1>14
<1>17. \A i \in 1 .. n : i < k
  BY <1>2
<1>18. Closed(m, W, k, S, V)
  BY <1>2, <1>12, <1>14, <1>15, <1>16, <1>17 DEF Closed
<1>. QED  BY <1>2, <1>4, <1>5, <1>7, <1>9, <1>11, <1>13, <1>18

----------------------------------------------------------------------------
(* Taking away a record: the ones after it move up                         *)

\* The words record t goes to when it moves gap words up.
Dest(m, W, gap, t) == W[t] - gap .. W[t] - gap + natural(m, W[t]) - 1

\* In m2 the records of m after the k-th, up to the j-th, have moved up.
Shifted(m, W, k, j, m2) ==
  /\ m2 \in Memory
  /\ \A t \in k + 1 .. j : \A w \in 0 .. natural(m, W[t]) - 1 :
       m2[W[t] - rec_len(m, W[k]) + w] = m[W[t] + w]
  /\ \A w \in 0 .. BlockLen - 1 :
       (\A t \in k + 1 .. j : w \notin Dest(m, W, rec_len(m, W[k]), t)) => m2[w] = m[w]

\* The k-th record is at g, with length gap, and the t-th, which comes after
\* it, at a, of natural length n; d is where that one goes.
Where(m, W, k, t, g, gap, a, n, d) ==
  /\ g = W[k] /\ a = W[t] /\ n = natural(m, a) /\ gap = rec_len(m, g)
  /\ gap >= 3 /\ g <= d /\ d + gap = a /\ d = a - gap
  /\ a + n <= BlockLen /\ a + 1 < BlockLen /\ t \in 1 .. Len(W)

LEMMA Places ==
  ASSUME NEW m, NEW W, Laid(m, W), NEW k \in 1 .. Len(W), NEW t \in k + 1 .. Len(W)
  PROVE  \E g \in Nat, gap \in Nat, a \in Nat, n \in {3, 4}, d \in Nat :
           Where(m, W, k, t, g, gap, a, n, d)
<1>1. t \in 1 .. Len(W) /\ k < t
  BY DEF Laid
<1>2. PICK g \in Nat, a \in Nat : g = W[k] /\ a = W[t]
  BY <1>1, RecordFacts
<1>3. PICK n \in {3, 4} : n = natural(m, a) /\ a + n <= BlockLen
  <2>1. natural(m, W[t]) \in {3, 4} /\ W[t] + natural(m, W[t]) <= BlockLen
    BY <1>1, RecordFacts
  <2>. QED  BY <1>2, <2>1
<1>4. PICK gap \in Nat : gap = rec_len(m, g) /\ gap >= 3
  <2>1. /\ natural(m, W[k]) \in {3, 4} /\ rec_len(m, W[k]) \in Nat
        /\ rec_len(m, W[k]) >= natural(m, W[k])
    BY RecordFacts
  <2>2. PICK p \in {3, 4}, r \in Nat : p = natural(m, g) /\ r = rec_len(m, g) /\ r >= p
    BY <1>2, <2>1
  <2>. QED  BY <2>2
<1>5. g + gap <= a
  BY <1>1, <1>2, <1>4, LaidOrder
<1>6. PICK d \in Nat : d = a - gap /\ g <= d /\ d + gap = a
  BY <1>5
<1>7. a + 1 < BlockLen
  BY <1>3, BlockLenIs
<1>. QED  BY <1>1, <1>2, <1>3, <1>4, <1>6, <1>7 DEF Where

\* Nothing that has moved up reaches a later record.
LEMMA DestBelow ==
  ASSUME NEW m, NEW W, Laid(m, W), NEW k \in 1 .. Len(W), NEW t \in k + 1 .. Len(W),
         NEW j \in k + 1 .. Len(W), t < j, NEW w \in Int, W[j] - rec_len(m, W[k]) <= w
  PROVE  w \notin Dest(m, W, rec_len(m, W[k]), t)
<1>0. PICK g \in Nat, gap \in Nat, a \in Nat, n \in {3, 4}, d \in Nat :
        Where(m, W, k, t, g, gap, a, n, d)
  BY Places
<1>1. g = W[k] /\ a = W[t] /\ n = natural(m, a) /\ gap = rec_len(m, g) /\ t \in 1 .. Len(W)
  BY <1>0 DEF Where
<1>2. PICK b \in Nat : b = W[j] /\ j \in 1 .. Len(W)
  <2>1. j \in 1 .. Len(W)
    BY DEF Laid
  <2>. QED  BY <2>1, RecordFacts
<1>3. a + n <= b
  BY <1>1, <1>2, LaidOrder
<1>4. b - gap <= w
  BY <1>1, <1>2
<1>5. w \notin a - gap .. a - gap + n - 1
  BY <1>3, <1>4
<1>. QED  BY <1>1, <1>5 DEF Dest

\* C is m but for the n words at d, which are those at s with another length.
IsCopy(m, s, n, d, l, C) ==
  /\ C \in Memory
  /\ \A w \in 0 .. BlockLen - 1 : w \notin d .. d + n - 1 => C[w] = m[w]
  /\ \A w \in 0 .. n - 1 :
       d + w \in 0 .. BlockLen - 1 => C[d + w] = IF w = 1 THEN LengthWord(n, l) ELSE m[s + w]

LEMMA CopyIs ==
  ASSUME NEW m \in Memory, NEW s \in Nat, NEW gap \in Nat, NEW l \in Nat, NEW n \in {3, 4},
         n = natural(m, s), s + n <= BlockLen, gap >= 3, NEW d \in Int, d + gap = s
  PROVE  IsCopy(m, s, n, d, l, Copy(m, s, gap, l))
<1>1. PICK C : C = Copy(m, s, gap, l)
  OBVIOUS
<1>2. DOMAIN m = 0 .. BlockLen - 1 /\ \A w \in 0 .. BlockLen - 1 : m[w] \in Word
  BY DEF Memory
<1>3. d = s - gap
  OBVIOUS
<1>4. C = [w \in 0 .. BlockLen - 1 |->
             IF w \notin d .. d + n - 1 THEN m[w]
             ELSE IF w = d + 1 THEN LengthWord(n, l)
             ELSE m[w + gap]]
  BY <1>1, <1>2, <1>3 DEF Copy
<1>5. ASSUME NEW w \in 0 .. BlockLen - 1, w \in d .. d + n - 1
      PROVE  w + gap \in 0 .. BlockLen - 1
  BY <1>3, <1>5, BlockLenIs
<1>6. C \in Memory
  <2>1. LengthWord(n, l) \in Word
    BY WordTypes
  <2>. QED  BY <1>2, <1>4, <1>5, <2>1 DEF Memory
<1>7. ASSUME NEW w \in 0 .. n - 1, d + w \in 0 .. BlockLen - 1
      PROVE  C[d + w] = IF w = 1 THEN LengthWord(n, l) ELSE m[s + w]
  <2>1. d + w \in d .. d + n - 1 /\ (d + w = d + 1 <=> w = 1) /\ d + w + gap = s + w
    BY <1>3
  <2>. QED  BY <1>4, <1>7, <2>1
<1>8. \A w \in 0 .. BlockLen - 1 : w \notin d .. d + n - 1 => C[w] = m[w]
  BY <1>4
<1>. QED  BY <1>1, <1>6, <1>7, <1>8 DEF IsCopy

\* One record more.
LEMMA ShiftOne ==
  ASSUME NEW m, NEW W, Laid(m, W), NEW k \in 1 .. Len(W), NEW i \in k .. Len(W),
         NEW j \in k + 1 .. Len(W), j = i + 1, NEW m1, Shifted(m, W, k, i, m1)
  PROVE  Shifted(m, W, k, j, Copy(m1, W[j], rec_len(m, W[k]), rec_len(m, W[j])))
<1>0. PICK g \in Nat, gap \in Nat, a \in Nat, n \in {3, 4}, d \in Nat :
        Where(m, W, k, j, g, gap, a, n, d)
  BY Places
<1>1. g = W[k] /\ a = W[j] /\ n = natural(m, a) /\ gap = rec_len(m, g) /\ j \in 1 .. Len(W)
  BY <1>0 DEF Where
<1>2. PICK u \in Nat : u = BlockLen /\ d + gap = a /\ d = a - gap /\ gap >= 3 /\ a + n <= u /\ a + 1 < u
  BY <1>0, BlockLenIs DEF Where
<1>3. m \in Memory /\ m1 \in Memory /\ Len(W) \in Nat
  BY DEF Laid, Shifted
<1>4. ASSUME NEW w \in 0 .. BlockLen - 1, d <= w PROVE m1[w] = m[w]
  <2>1. ASSUME NEW t \in k + 1 .. i PROVE w \notin Dest(m, W, gap, t)
    <3>1. t \in k + 1 .. Len(W) /\ t < j /\ w \in Int
      BY <1>3
    <3>2. W[j] - rec_len(m, W[k]) <= w
      BY <1>1, <1>2, <1>4
    <3>. QED  BY <1>1, <3>1, <3>2, DestBelow
  <2>. QED  BY <1>1, <2>1 DEF Shifted
<1>5. PICK l \in Nat : l = rec_len(m, a)
  BY <1>1, RecordFacts
<1>6. RecordAt(m, a)
  BY <1>1, RecordFacts
<1>7. natural(m1, a) = n
  <2>1. a + 1 \in 0 .. BlockLen - 1 /\ d <= a + 1
    BY <1>2
  <2>2. m1[a + 1] = m[a + 1]
    BY <1>4, <2>1
  <2>. QED  BY <1>1, <2>2 DEF natural
<1>8. PICK C : C = Copy(m1, a, gap, l)
  OBVIOUS
<1>9. /\ C \in Memory
      /\ \A w \in 0 .. BlockLen - 1 : w \notin d .. d + n - 1 => C[w] = m1[w]
      /\ \A w \in 0 .. n - 1 :
           d + w \in 0 .. BlockLen - 1 =>
             C[d + w] = IF w = 1 THEN LengthWord(n, l) ELSE m1[a + w]
  <2>1. a + n <= BlockLen /\ n = natural(m1, a) /\ gap >= 3 /\ d \in Int /\ d + gap = a
    BY <1>2, <1>7
  <2>2. IsCopy(m1, a, n, d, l, C)
    BY <1>3, <1>8, <2>1, CopyIs
  <2>. QED  BY <2>2 DEF IsCopy
<1>10. ASSUME NEW w \in 0 .. n - 1 PROVE C[d + w] = m[a + w]
  <2>1. d + w \in 0 .. BlockLen - 1 /\ a + w \in 0 .. BlockLen - 1 /\ d <= a + w
    BY <1>2
  <2>2. m1[a + w] = m[a + w]
    BY <1>4, <2>1
  <2>3. w = 1 => m[a + w] = LengthWord(n, l)
    BY <1>1, <1>5, <1>6 DEF RecordAt
  <2>. QED  BY <1>9, <2>1, <2>2, <2>3
<1>11. ASSUME NEW t \in k + 1 .. j, NEW w \in 0 .. natural(m, W[t]) - 1
       PROVE  C[W[t] - gap + w] = m[W[t] + w]
  <2>1. CASE t = j
    BY <1>1, <1>2, <1>10, <1>11, <2>1
  <2>2. CASE t # j
    <3>1. t \in k + 1 .. i /\ t \in k + 1 .. Len(W) /\ t < j /\ t \in 1 .. Len(W)
      BY <1>3, <2>2
    <3>0. PICK g2 \in Nat, gap2 \in Nat, b \in Nat, p \in {3, 4}, d2 \in Nat :
            Where(m, W, k, t, g2, gap2, b, p, d2)
      BY <3>1, Places
    <3>2. b = W[t] /\ p = natural(m, b) /\ gap2 = gap /\ d2 = b - gap /\ d2 + gap = b /\ b + p <= u
      BY <1>1, <1>2, <3>0 DEF Where
    <3>3. b + p <= a
      BY <1>1, <3>1, <3>2, LaidOrder
    <3>4. w \in 0 .. p - 1
      BY <3>2
    <3>5. d2 + w \in 0 .. u - 1 /\ d2 + w \notin d .. d + n - 1
      <4>1. d2 + p <= d
        <5>1. d2 + gap + p <= d + gap
          BY <1>2, <3>2, <3>3
        <5>. QED  BY <5>1
      <4>2. d2 + w < d /\ d2 + w \in Nat /\ d < u
        BY <1>2, <3>4, <4>1
      <4>. QED  BY <1>2, <4>2
    <3>6. m1[b - gap + w] = m[b + w]
      BY <1>1, <3>1, <3>2, <3>4 DEF Shifted
    <3>. QED  BY <1>2, <1>9, <3>2, <3>5, <3>6
  <2>. QED  BY <2>1, <2>2
<1>12. ASSUME NEW w \in 0 .. BlockLen - 1, \A t \in k + 1 .. j : w \notin Dest(m, W, gap, t)
       PROVE  C[w] = m[w]
  <2>1. w \notin d .. d + n - 1
    <3>1. j \in k + 1 .. j
      BY <1>3
    <3>2. w \notin Dest(m, W, gap, j)
      BY <1>12, <3>1
    <3>. QED  BY <1>1, <1>2, <3>2 DEF Dest
  <2>2. \A t \in k + 1 .. i : t \in k + 1 .. j
    BY <1>3
  <2>3. \A t \in k + 1 .. i : w \notin Dest(m, W, gap, t)
    BY <1>12, <2>2
  <2>. QED  BY <1>1, <1>9, <2>1, <2>3 DEF Shifted
<1>. QED  BY <1>1, <1>5, <1>8, <1>9, <1>11, <1>12 DEF Shifted

\* A part of an interval that has with a number those below it begins where the
\* interval does, and its size says where it ends.
LEMMA LowerPart ==
  ASSUME NEW n \in Nat, NEW k \in 0 .. n, NEW S, S \subseteq k + 1 .. n,
         \A i, j \in k + 1 .. n : i < j /\ j \in S => i \in S
  PROVE  k + Cardinality(S) \in k .. n /\ S = k + 1 .. k + Cardinality(S)
<1>. DEFINE T == {j \in k + 1 .. n + 1 : j \notin S}
<1>1. n + 1 \in T
  OBVIOUS
<1>2. PICK c : c = Min(T)
  OBVIOUS
<1>3. c \in T /\ \A j \in T : c <= j
  <2>1. T \in SUBSET Nat
    OBVIOUS
  <2>. HIDE DEF T
  <2>. QED  BY <1>1, <1>2, <2>1, MinExists
<1>4. c \in k + 1 .. n + 1 /\ c \notin S
  BY <1>3
<1>5. PICK h \in k .. n : h = c - 1 /\ c = h + 1
  BY <1>4
<1>6. ASSUME NEW j \in k + 1 .. h PROVE j \in S
  <2>1. j \in k + 1 .. n + 1 /\ ~(c <= j)
    BY <1>5
  <2>. QED  BY <1>3, <2>1
<1>7. ASSUME NEW j \in S PROVE j \in k + 1 .. h
  <2>1. j \in k + 1 .. n
    OBVIOUS
  <2>2. ~(c < j)
    BY <1>4, <2>1
  <2>. QED  BY <1>4, <1>5, <2>1, <2>2
<1>8. S = k + 1 .. h
  BY <1>6, <1>7
<1>9. Cardinality(S) = h - k
  <2>1. Cardinality(k + 1 .. h) = IF k + 1 > h THEN 0 ELSE h - (k + 1) + 1
    BY FS_Interval
  <2>2. (IF k + 1 > h THEN 0 ELSE h - (k + 1) + 1) = h - k
    OBVIOUS
  <2>. QED  BY <1>8, <2>1, <2>2
<1>10. k + Cardinality(S) = h
  BY <1>9
<1>. QED  BY <1>8, <1>10

LEMMA MovedIs ==
  ASSUME Laid(mem, Walk), NEW k \in 1 .. Len(Walk)
  PROVE  LastSeen(k) \in k .. Len(Walk) /\ Moved(k) = k + 1 .. LastSeen(k)
<1>1. PICK n \in Nat : n = Len(Walk)
  BY DEF Laid
<1>2. Moved(k) \subseteq k + 1 .. n
  BY <1>1 DEF Moved
<1>3. ASSUME NEW i \in k + 1 .. n, NEW j \in k + 1 .. n, i < j, j \in Moved(k)
      PROVE  i \in Moved(k)
  <2>1. i \in 1 .. Len(Walk) /\ j \in 1 .. Len(Walk)
    BY <1>1
  <2>2. PICK a \in Nat, b \in Nat : a = Walk[i] /\ b = Walk[j]
    BY <2>1, RecordFacts
  <2>3. a < b
    BY <1>3, <2>1, <2>2, LaidOrder
  <2>4. PICK g \in Nat : g = Counted(k)
    BY RecordFacts DEF Counted
  <2>5. b + g < BlockLen
    BY <1>3, <2>2, <2>4 DEF Moved
  <2>6. a + g < BlockLen
    BY <2>3, <2>5, BlockLenIs
  <2>. QED  BY <1>1, <2>2, <2>4, <2>6 DEF Moved
<1>4. k \in 0 .. n
  BY <1>1
<1>5. k + Cardinality(Moved(k)) \in k .. n /\ Moved(k) = k + 1 .. k + Cardinality(Moved(k))
  <2>1. PICK S : S = Moved(k)
    OBVIOUS
  <2>2. S \subseteq k + 1 .. n /\ \A i, j \in k + 1 .. n : i < j /\ j \in S => i \in S
    BY <1>2, <1>3, <2>1
  <2>3. k + Cardinality(S) \in k .. n /\ S = k + 1 .. k + Cardinality(S)
    BY <1>4, <2>2, LowerPart
  <2>. QED  BY <2>1, <2>3
<1>. QED  BY <1>1, <1>5 DEF LastSeen

\* What Moving builds, up to a record.
IsMoving(k, f, hi) ==
  f = [j \in k .. hi |->
         IF j = k THEN mem
         ELSE Copy(f[j - 1], Walk[j], rec_len(mem, Walk[k]), rec_len(mem, Walk[j]))]

LEMMA MovingIs ==
  ASSUME NEW k \in Nat, LastSeen(k) \in Nat, LastSeen(k) >= k
  PROVE  IsMoving(k, Moving(k), LastSeen(k))
<1>1. PICK N \in Nat : N = LastSeen(k) - k /\ LastSeen(k) = k + N
  OBVIOUS
<1>. DEFINE P == {c \in 0 .. N : \E f : IsMoving(k, f, k + c)}
<1>2. 0 \in P
  <2>1. PICK f : f = [j \in k .. k |-> mem]
    OBVIOUS
  <2>2. IsMoving(k, f, k)
    BY <2>1 DEF IsMoving
  <2>3. k + 0 = k
    OBVIOUS
  <2>. QED  BY <2>2, <2>3
<1>3. ASSUME NEW c \in 0 .. N - 1, c \in P PROVE c + 1 \in P
  <2>1. PICK f : IsMoving(k, f, k + c)
    BY <1>3
  <2>2. PICK b \in Nat : b = k + c /\ k + (c + 1) = b + 1 /\ b >= k
    OBVIOUS
  <2>3. PICK h \in Nat : h = b + 1 /\ h - 1 = b /\ h # k
    BY <2>2
  <2>4. PICK x : x = Copy(f[b], Walk[h], rec_len(mem, Walk[k]), rec_len(mem, Walk[h]))
    OBVIOUS
  <2>5. PICK g : g = [j \in k .. h |-> IF j = h THEN x ELSE f[j]]
    OBVIOUS
  <2>6. ASSUME NEW j \in k .. h
        PROVE  g[j] = IF j = k THEN mem
                      ELSE Copy(g[j - 1], Walk[j], rec_len(mem, Walk[k]), rec_len(mem, Walk[j]))
    <3>1. CASE j = h
      <4>1. g[j] = x /\ j # k /\ j - 1 = b /\ b \in k .. h /\ b # h
        BY <2>2, <2>3, <2>5, <3>1
      <4>2. g[b] = f[b]
        BY <2>5, <4>1
      <4>. QED  BY <2>4, <3>1, <4>1, <4>2
    <3>2. CASE j # h
      <4>1. j \in k .. b /\ g[j] = f[j]
        BY <2>2, <2>3, <2>5, <3>2
      <4>2. j # k => g[j - 1] = f[j - 1]
        <5>1. j # k => j - 1 \in k .. h /\ j - 1 # h
          BY <2>3, <4>1
        <5>. QED  BY <2>5, <5>1
      <4>3. f[j] = IF j = k THEN mem
                   ELSE Copy(f[j - 1], Walk[j], rec_len(mem, Walk[k]), rec_len(mem, Walk[j]))
        BY <2>1, <2>2, <4>1 DEF IsMoving
      <4>. QED  BY <4>1, <4>2, <4>3
    <3>. QED  BY <3>1, <3>2
  <2>7. g = [j \in k .. h |-> g[j]]
    BY <2>5
  <2>8. IsMoving(k, g, h)
    BY <2>6, <2>7 DEF IsMoving
  <2>. QED  BY <1>3, <2>2, <2>3, <2>8
<1>4. N \in P
  <2>. HIDE DEF P
  <2>1. 0 .. N \subseteq P
    BY <1>2, <1>3, UpFromZero
  <2>. QED  BY <2>1
<1>5. PICK hi : hi = LastSeen(k)
  OBVIOUS
<1>6. \E f : IsMoving(k, f, hi)
  BY <1>1, <1>4, <1>5
<1>7. PICK f : f = CHOOSE g : IsMoving(k, g, hi)
  OBVIOUS
<1>8. Moving(k) = f
  BY <1>5, <1>7 DEF Moving, IsMoving
<1>. QED  BY <1>5, <1>6, <1>7, <1>8

\* The records that have moved are where they should be.
LEMMA MovingShifts ==
  ASSUME Laid(mem, Walk), NEW k \in 1 .. Len(Walk)
  PROVE  Shifted(mem, Walk, k, LastSeen(k), Moving(k)[LastSeen(k)])
<1>1. PICK n \in Nat : n = Len(Walk)
  BY DEF Laid
<1>2. PICK L \in k .. n : L = LastSeen(k)
  BY <1>1, MovedIs
<1>3. PICK f : f = Moving(k)
  OBVIOUS
<1>4. k \in Nat /\ L \in Nat
  BY <1>1, <1>2
<1>5. IsMoving(k, f, L)
  <2>1. L >= k
    BY <1>2
  <2>. QED  BY <1>2, <1>3, <1>4, <2>1, MovingIs
<1>. DEFINE P == {c \in 0 .. L - k : Shifted(mem, Walk, k, k + c, f[k + c])}
<1>6. PICK N \in Nat : N = L - k /\ k + N = L
  BY <1>2, <1>4
<1>7. 0 \in P
  <2>1. f[k] = mem
    <3>1. k \in k .. L
      BY <1>2, <1>4
    <3>. QED  BY <1>5, <3>1 DEF IsMoving
  <2>2. mem \in Memory
    BY DEF Laid
  <2>3. k + 1 .. k = {}
    BY <1>4
  <2>4. Shifted(mem, Walk, k, k, mem)
    BY <2>2, <2>3 DEF Shifted
  <2>5. k + 0 = k
    BY <1>4
  <2>. QED  BY <1>6, <2>1, <2>4, <2>5
<1>8. ASSUME NEW c \in 0 .. N - 1, c \in P PROVE c + 1 \in P
  <2>1. PICK i \in k .. n, j \in k + 1 .. n :
          i = k + c /\ j = i + 1 /\ j = k + (c + 1) /\ j - 1 = i /\ j \in k .. L /\ j # k
    BY <1>1, <1>2, <1>4, <1>6, <1>8
  <2>2. f[j] = Copy(f[i], Walk[j], rec_len(mem, Walk[k]), rec_len(mem, Walk[j]))
    BY <1>5, <2>1 DEF IsMoving
  <2>3. Shifted(mem, Walk, k, i, f[i])
    BY <1>8, <2>1
  <2>4. Shifted(mem, Walk, k, j, f[j])
    BY <1>1, <2>1, <2>2, <2>3, ShiftOne
  <2>. QED  BY <1>6, <1>8, <2>1, <2>4
<1>9. N \in P
  <2>. HIDE DEF P
  <2>1. 0 .. N \subseteq P
    BY <1>7, <1>8, UpFromZero
  <2>. QED  BY <2>1
<1>. QED  BY <1>2, <1>3, <1>6, <1>9

Fits(m, W, k, L) == natural(m, W[L]) <= rec_len(m, W[k])

\* Where the records of m are in m3, but for the L-th: those between the k-th
\* and it have moved.
UpBut(m, W, k, L, m3) ==
  /\ m3 \in Memory
  /\ \A i \in 1 .. Len(W) : i < k \/ i > L =>
       /\ RecordAt(m3, W[i]) /\ inode(m3, W[i]) = inode(m, W[i])
       /\ natural(m3, W[i]) = natural(m, W[i]) /\ rec_len(m3, W[i]) = rec_len(m, W[i])
  /\ \A t \in k + 1 .. L : t # L =>
       /\ RecordAt(m3, W[t] - rec_len(m, W[k]))
       /\ inode(m3, W[t] - rec_len(m, W[k])) = inode(m, W[t])
       /\ natural(m3, W[t] - rec_len(m, W[k])) = natural(m, W[t])
       /\ rec_len(m3, W[t] - rec_len(m, W[k])) = rec_len(m, W[t])

\* And the L-th too, and the room of the k-th is behind it.
Up(m, W, k, L, m3) ==
  /\ UpBut(m, W, k, L, m3)
  /\ RecordAt(m3, W[L] - rec_len(m, W[k]))
  /\ inode(m3, W[L] - rec_len(m, W[k])) = inode(m, W[L])
  /\ natural(m3, W[L] - rec_len(m, W[k])) = natural(m, W[L])
  /\ rec_len(m3, W[L] - rec_len(m, W[k])) = rec_len(m, W[L]) + rec_len(m, W[k])

\* What the last copy reads is what was there, but for the inode of a record
\* that is longer than the removed one.
LEMMA LastSource ==
  ASSUME NEW m, NEW W, Laid(m, W), NEW k \in 1 .. Len(W), NEW L \in k + 1 .. Len(W),
         NEW m2, Shifted(m, W, k, L, m2), NEW w \in 0 .. BlockLen - 1,
         W[L] - rec_len(m, W[k]) <= w, w \notin Dest(m, W, rec_len(m, W[k]), L)
  PROVE  m2[w] = m[w]
<1>1. Len(W) \in Nat
  BY DEF Laid
<1>2. ASSUME NEW t \in k + 1 .. L PROVE w \notin Dest(m, W, rec_len(m, W[k]), t)
  <2>1. CASE t # L
    <3>1. t \in k + 1 .. Len(W) /\ t < L /\ w \in Int
      BY <1>1, <2>1
    <3>. QED  BY <3>1, DestBelow
  <2>. QED  BY <2>1
<1>. QED  BY <1>2 DEF Shifted

\* If the last record to move is longer than the removed one, its inode is lost.
IsLast(m, W, k, L, m2, C) ==
  C = Copy(m2, W[L], rec_len(m, W[k]), rec_len(m2, W[L]) + rec_len(m, W[k]))

LEMMA LastCopy ==
  ASSUME NEW m, NEW W, Laid(m, W), NEW k \in 1 .. Len(W), NEW L \in k + 1 .. Len(W),
         NEW m2, Shifted(m, W, k, L, m2), NEW C, IsLast(m, W, k, L, m2, C)
  PROVE  /\ UpBut(m, W, k, L, C)
         /\ IF Fits(m, W, k, L) THEN Up(m, W, k, L, C)
            ELSE inode(C, W[L] - rec_len(m, W[k])) = 0
<1>1. m \in Memory /\ m2 \in Memory /\ Len(W) \in Nat /\ L \in 1 .. Len(W) /\ k < L
  BY DEF Laid, Shifted
<1>2. PICK g \in Nat, gap \in Nat, a \in Nat, n \in {3, 4}, d \in Nat :
        Where(m, W, k, L, g, gap, a, n, d)
  BY Places
<1>0. \A t \in k + 1 .. Len(W) :
        \E g2 \in Nat, gap2 \in Nat, b \in Nat, p \in {3, 4}, e \in Nat :
          Where(m, W, k, t, g2, gap2, b, p, e)
  BY Places
<1>3. g = W[k] /\ a = W[L] /\ n = natural(m, a) /\ gap = rec_len(m, g)
  BY <1>2 DEF Where
<1>4. PICK u \in Nat : /\ u = BlockLen /\ d + gap = a /\ gap >= 3 /\ g <= d
                       /\ a + n <= u /\ a + 1 < u
  BY <1>2, <1>3, BlockLenIs DEF Where
<1>5. \A w \in 0 .. u - 1 : d + n <= w => m2[w] = m[w]
  <2>1. ASSUME NEW w \in 0 .. u - 1, d + n <= w PROVE m2[w] = m[w]
    <3>1. w \in 0 .. BlockLen - 1 /\ a - gap <= w /\ w \notin a - gap .. a - gap + n - 1
      BY <1>4, <2>1
    <3>2. W[L] - rec_len(m, W[k]) <= w /\ w \notin Dest(m, W, rec_len(m, W[k]), L)
      BY <1>3, <3>1 DEF Dest
    <3>. QED  BY <3>1, <3>2, LastSource
  <2>. QED  BY <2>1
<1>6. PICK l \in Nat : l = rec_len(m, a)
  BY <1>1, <1>3, RecordFacts
<1>7. RecordAt(m, a) /\ l >= n
  BY <1>1, <1>3, <1>6, RecordFacts
<1>8. natural(m2, a) = n /\ rec_len(m2, a) = l
  <2>1. a + 1 \in 0 .. u - 1 /\ d + n <= a + 1
    BY <1>4
  <2>2. m2[a + 1] = m[a + 1]
    BY <1>5, <2>1
  <2>. QED  BY <1>3, <1>6, <2>2 DEF natural, rec_len
<1>9. PICK h \in Nat : h = l + gap /\ h >= n
  BY <1>7
<1>10. C = Copy(m2, a, gap, h)
  BY <1>3, <1>8, <1>9 DEF IsLast
<1>11. IsCopy(m2, a, n, d, h, C)
  <2>1. /\ m2 \in Memory /\ d \in Int
        /\ n = natural(m2, a) /\ a + n <= BlockLen /\ gap >= 3 /\ d + gap = a
    BY <1>1, <1>4, <1>8
  <2>2. IsCopy(m2, a, n, d, h, Copy(m2, a, gap, h))
    BY <2>1, CopyIs
  <2>. QED  BY <1>10, <2>2
<1>12. /\ C \in Memory
       /\ \A w \in 0 .. u - 1 : w \notin d .. d + n - 1 => C[w] = m2[w]
       /\ \A w \in 0 .. n - 1 :
            d + w \in 0 .. u - 1 => C[d + w] = IF w = 1 THEN LengthWord(n, h) ELSE m2[a + w]
  BY <1>4, <1>11 DEF IsCopy
<1>13. ASSUME NEW i \in 1 .. Len(W), i < k \/ i > L
       PROVE  /\ RecordAt(C, W[i]) /\ inode(C, W[i]) = inode(m, W[i])
              /\ natural(C, W[i]) = natural(m, W[i]) /\ rec_len(C, W[i]) = rec_len(m, W[i])
  <2>1. PICK b \in Nat, p \in {3, 4} : b = W[i] /\ p = natural(m, b)
    <3>1. W[i] \in Nat /\ natural(m, W[i]) \in {3, 4}
      BY RecordFacts
    <3>. QED  BY <3>1
  <2>2. b + p <= u /\ RecordAt(m, b) /\ rec_len(m, b) \in Nat
    BY <1>4, <2>1, RecordFacts
  <2>3. CASE i < k
    <3>1. b + p <= g
      BY <1>3, <2>1, <2>3, LaidOrder
    <3>2. ASSUME NEW w \in 0 .. u - 1, w < g PROVE C[w] = m[w]
      <4>1. w \notin d .. d + n - 1
        BY <1>4, <3>2
      <4>2. ASSUME NEW t \in k + 1 .. L PROVE w \notin Dest(m, W, gap, t)
        <5>1. t \in k + 1 .. Len(W) /\ k \in 1 .. Len(W) /\ Laid(m, W)
          BY <1>1
        <5>2. PICK g2 \in Nat, gap2 \in Nat, b2 \in Nat, p2 \in {3, 4}, d2 \in Nat :
                Where(m, W, k, t, g2, gap2, b2, p2, d2)
          BY <1>0, <5>1
        <5>3. b2 = W[t] /\ p2 = natural(m, b2) /\ d2 = b2 - gap /\ g <= d2
          BY <1>3, <5>2 DEF Where
        <5>4. w \notin d2 .. d2 + p2 - 1
          BY <3>2, <5>3
        <5>. QED  BY <5>3, <5>4 DEF Dest
      <4>3. m2[w] = m[w]
        BY <1>3, <1>4, <4>2 DEF Shifted
      <4>. QED  BY <1>12, <4>1, <4>3
    <3>3. W[i] + natural(m, W[i]) <= g
      BY <2>1, <3>1
    <3>4. \A w \in 0 .. BlockLen - 1 : w < g => C[w] = m[w]
      BY <1>4, <3>2
    <3>. QED  BY <1>12, <3>3, <3>4, KeptBelow
  <2>4. CASE i > L
    <3>1. a + n <= b
      BY <1>1, <1>3, <2>1, <2>4, LaidOrder
    <3>2. ASSUME NEW w \in b .. b + p - 1 PROVE C[w] = m[w]
      <4>1. w \in 0 .. u - 1 /\ d + n <= w /\ w \notin d .. d + n - 1
        BY <1>4, <2>2, <3>1
      <4>. QED  BY <1>5, <1>12, <4>1
    <3>3. \A w \in b .. b + natural(m, b) - 1 : C[w] = m[w]
      BY <2>1, <3>2
    <3>. QED  BY <1>1, <1>12, <2>1, <2>2, <3>3, RecordKept
  <2>. QED  BY <1>13, <2>3, <2>4
<1>14. ASSUME NEW t \in k + 1 .. L, t # L
       PROVE  /\ RecordAt(C, W[t] - gap) /\ inode(C, W[t] - gap) = inode(m, W[t])
              /\ natural(C, W[t] - gap) = natural(m, W[t])
              /\ rec_len(C, W[t] - gap) = rec_len(m, W[t])
  <2>1. t \in k + 1 .. Len(W) /\ t < L /\ t \in 1 .. Len(W)
    BY <1>1, <1>14
  <2>2. PICK g2 \in Nat, gap2 \in Nat, b \in Nat, p \in {3, 4}, e \in Nat :
          Where(m, W, k, t, g2, gap2, b, p, e)
    BY <1>0, <2>1
  <2>3. b = W[t] /\ p = natural(m, b) /\ gap2 = gap /\ e = b - gap /\ e + gap = b /\ b + p <= u
    BY <1>3, <1>4, <2>2 DEF Where
  <2>4. b + p <= a
    BY <1>1, <1>3, <2>1, <2>3, LaidOrder
  <2>5. e + p <= d
    <3>1. e + gap + p <= d + gap
      BY <1>4, <2>3, <2>4
    <3>. QED  BY <3>1
  <2>6. PICK r \in Nat : r = rec_len(m, b) /\ r >= p /\ RecordAt(m, b)
    BY <2>1, <2>3, RecordFacts
  <2>7. ASSUME NEW w \in 0 .. p - 1
        PROVE  C[e + w] = IF w = 1 THEN LengthWord(p, r) ELSE m[b + w]
    <3>1. e + w \in 0 .. u - 1 /\ e + w \notin d .. d + n - 1
      BY <1>4, <2>5
    <3>2. m2[e + w] = m[b + w]
      BY <1>3, <2>3 DEF Shifted
    <3>3. w = 1 => m[b + w] = LengthWord(p, r)
      BY <2>3, <2>6 DEF RecordAt
    <3>. QED  BY <1>12, <3>1, <3>2, <3>3
  <2>8. RecordAt(C, e) /\ inode(C, e) = inode(m, b) /\ natural(C, e) = natural(m, b) /\ rec_len(C, e) = r
    <3>1. /\ r >= natural(m, b)
          /\ \A w \in 0 .. natural(m, b) - 1 :
               C[e + w] = IF w = 1 THEN LengthWord(natural(m, b), r) ELSE m[b + w]
      BY <2>3, <2>6, <2>7
    <3>. QED  BY <1>1, <1>12, <2>6, <3>1, RecordMoved
  <2>. QED  BY <2>3, <2>6, <2>8
<1>15. UpBut(m, W, k, L, C)
  BY <1>3, <1>12, <1>13, <1>14 DEF UpBut
<1>16. CASE Fits(m, W, k, L)
  <2>1. n <= gap
    BY <1>3, <1>16 DEF Fits
  <2>2. ASSUME NEW w \in 0 .. n - 1
        PROVE  C[d + w] = IF w = 1 THEN LengthWord(n, h) ELSE m[a + w]
    <3>1. d + w \in 0 .. u - 1 /\ a + w \in 0 .. u - 1 /\ d + n <= a + w
      BY <1>4, <2>1
    <3>. QED  BY <1>5, <1>12, <3>1
  <2>3. /\ h >= natural(m, a)
        /\ \A w \in 0 .. natural(m, a) - 1 :
             C[d + w] = IF w = 1 THEN LengthWord(natural(m, a), h) ELSE m[a + w]
    BY <1>3, <1>9, <2>2
  <2>4. RecordAt(C, d) /\ inode(C, d) = inode(m, a) /\ natural(C, d) = natural(m, a) /\ rec_len(C, d) = h
    BY <1>1, <1>7, <1>12, <2>3, RecordMoved
  <2>5. d = W[L] - gap /\ h = rec_len(m, W[L]) + gap
    BY <1>3, <1>4, <1>6, <1>9
  <2>. QED  BY <1>3, <1>15, <1>16, <2>4, <2>5 DEF Up
<1>17. CASE ~Fits(m, W, k, L)
  <2>1. n = 4 /\ gap = 3
    <3>1. ~(n <= gap)
      BY <1>3, <1>17 DEF Fits
    <3>. QED  BY <1>4, <3>1
  <2>2. d + 0 \in 0 .. u - 1 /\ 0 \in 0 .. n - 1 /\ 3 \in 0 .. n - 1 /\ a - gap + 3 = a /\ a + 0 = a
        /\ d + 0 = d
    BY <1>4, <2>1
  <2>3. C[d] = m2[a]
    BY <1>12, <2>2
  <2>4. L \in k + 1 .. L
    BY <1>1
  <2>5. m2[a - gap + 3] = m[a + 3]
    BY <1>3, <2>2, <2>4 DEF Shifted
  <2>6. a + 3 \in a + 2 .. a + n - 1
    BY <2>1
  <2>7. m[a + 3] = NameWord
    BY <1>3, <1>7, <2>6 DEF RecordAt
  <2>8. C[d] = NameWord
    BY <2>2, <2>3, <2>5, <2>7
  <2>9. inode(C, d) = 0
    BY <2>8 DEF inode, NameWord
  <2>10. d = W[L] - gap
    BY <1>3, <1>4
  <2>. QED  BY <1>3, <1>15, <1>17, <2>9, <2>10
<1>. QED  BY <1>16, <1>17

\* Records moved so are a block's, without the k-th.
Moves(m, W, k, L) ==
  [i \in 1 .. Len(W) - 1 |->
     IF i < k THEN W[i]
     ELSE IF i < L THEN W[i + 1] - rec_len(m, W[k]) ELSE W[i + 1]]

LEMMA UpClosed ==
  ASSUME NEW m, NEW W, Laid(m, W), NEW k \in 2 .. Len(W), NEW L \in k + 1 .. Len(W),
         NEW m3, Up(m, W, k, L, m3)
  PROVE  Closed(m, W, k, m3, Moves(m, W, k, L))
<1>1. /\ m \in Memory /\ W \in Seq(0 .. BlockLen - 2) /\ W[1] = 0 /\ Len(W) \in Nat
      /\ m3 \in Memory
  BY DEF Laid, Up, UpBut
<1>2. PICK n \in Nat : n = Len(W) - 1 /\ Len(W) = n + 1 /\ k \in 2 .. n /\ L \in k + 1 .. n + 1
  BY <1>1
<1>3. k \in 1 .. Len(W) /\ L \in Nat /\ k \in Nat
  BY <1>2
<1>4. PICK gap \in Nat : gap = rec_len(m, W[k])
  BY <1>1, <1>3, RecordFacts
<1>. DEFINE V == [i \in 1 .. n |-> IF i < k THEN W[i]
                                  ELSE IF i < L THEN W[i + 1] - gap ELSE W[i + 1]]
<1>5. ASSUME NEW t \in k + 1 .. Len(W)
      PROVE  W[t] \in Nat /\ W[t] - gap \in 0 .. BlockLen - 2
  <2>1. PICK g \in Nat, gap2 \in Nat, a \in Nat, p \in {3, 4}, d \in Nat :
          Where(m, W, k, t, g, gap2, a, p, d)
    BY <1>3, Places
  <2>2. a = W[t] /\ gap2 = gap /\ d = a - gap /\ d + gap = a /\ a + 1 < BlockLen
    BY <1>4, <2>1 DEF Where
  <2>3. d \in 0 .. BlockLen - 2
    <3>1. PICK u \in Nat : u = BlockLen /\ d + gap = a /\ a + 1 < u
      BY <2>2, BlockLenIs
    <3>2. d \in 0 .. u - 2
      BY <3>1
    <3>. QED  BY <3>1, <3>2
  <2>. QED  BY <2>2, <2>3
<1>6. ASSUME NEW i \in 1 .. n
      PROVE  /\ i \in 1 .. Len(W) /\ i + 1 \in 1 .. Len(W)
             /\ ~(i < k) => i + 1 \in k + 1 .. Len(W)
  BY <1>2
<1>7. V \in Seq(0 .. BlockLen - 2) /\ Len(V) = n
  <2>1. ASSUME NEW i \in 1 .. n
        PROVE  (IF i < k THEN W[i] ELSE IF i < L THEN W[i + 1] - gap ELSE W[i + 1])
                 \in 0 .. BlockLen - 2
    <3>1. W[i] \in 0 .. BlockLen - 2 /\ W[i + 1] \in 0 .. BlockLen - 2
      BY <1>1, <1>6, ElementOfSeq
    <3>. QED  BY <1>5, <1>6, <3>1
  <2>. QED  BY <2>1
<1>8. V[1] = 0
  <2>1. 1 \in 1 .. n /\ 1 < k
    BY <1>2
  <2>. QED  BY <1>1, <2>1
<1>9. \A i \in 1 .. n : V[i] = IF i < k THEN W[i] ELSE IF i < L THEN W[i + 1] - gap ELSE W[i + 1]
  OBVIOUS
<1>. HIDE DEF V
<1>10. ASSUME NEW i \in 1 .. n
       PROVE  /\ RecordAt(m3, V[i])
              /\ inode(m3, V[i]) = inode(m, W[IF i < k THEN i ELSE i + 1])
              /\ natural(m3, V[i]) = natural(m, W[IF i < k THEN i ELSE i + 1])
              /\ V[i] + rec_len(m3, V[i]) = IF i = n THEN BlockLen ELSE V[i + 1]
  <2>1. CASE i < k
    <3>1. i \in 1 .. Len(W) /\ i # Len(W)
      BY <1>2, <1>6
    <3>2. /\ V[i] = W[i] /\ RecordAt(m3, W[i]) /\ inode(m3, W[i]) = inode(m, W[i])
          /\ natural(m3, W[i]) = natural(m, W[i]) /\ rec_len(m3, W[i]) = rec_len(m, W[i])
      BY <1>6, <1>9, <2>1 DEF Up, UpBut
    <3>3. W[i] + rec_len(m, W[i]) = W[i + 1]
      BY <3>1, RecordFacts
    <3>4. i # n
      BY <1>2, <2>1
    <3>5. V[i + 1] = W[i + 1]
      <4>1. CASE i + 1 < k
        BY <1>6, <1>9, <3>4, <4>1
      <4>2. CASE ~(i + 1 < k)
        <5>1. i + 1 = k /\ k \in 1 .. n /\ ~(k < k) /\ k < L /\ k # Len(W)
          BY <1>2, <2>1, <4>2
        <5>2. V[k] = W[k + 1] - gap
          BY <1>9, <5>1
        <5>3. W[k] + gap = W[k + 1] /\ W[k] \in Nat
          BY <1>3, <1>4, <5>1, RecordFacts
        <5>4. W[k + 1] - gap = W[k]
          BY <5>3
        <5>. QED  BY <5>1, <5>2, <5>4
      <4>. QED  BY <4>1, <4>2
    <3>. QED  BY <2>1, <3>2, <3>3, <3>4, <3>5
  <2>2. CASE ~(i < k) /\ i < L
    <3>1. PICK t \in k + 1 .. L : t = i + 1
      BY <1>2, <1>3, <2>2
    <3>2. t \in 1 .. Len(W) /\ t \in k + 1 .. Len(W)
      BY <1>2, <3>1
    <3>3. PICK b \in Nat, e \in Nat : b = W[t] /\ e = b - gap /\ e + gap = b
      BY <1>5, <3>2
    <3>4. PICK r \in Nat : r = rec_len(m, b)
      BY <3>2, <3>3, RecordFacts
    <3>5. /\ V[i] = e /\ RecordAt(m3, e) /\ inode(m3, e) = inode(m, b)
          /\ natural(m3, e) = natural(m, b) /\ rec_len(m3, e) = IF t = L THEN r + gap ELSE r
      BY <1>4, <1>9, <2>2, <3>1, <3>3, <3>4 DEF Up, UpBut
    <3>6. b + r = IF t = Len(W) THEN BlockLen ELSE W[t + 1]
      BY <3>2, <3>3, <3>4, RecordFacts
    <3>7. CASE t = L
      <4>1. e + (r + gap) = b + r
        BY <3>3
      <4>2. t = Len(W) <=> i = n
        BY <1>2, <3>1
      <4>3. i # n => V[i + 1] = W[t + 1]
        <5>1. i # n => i + 1 \in 1 .. n /\ ~(i + 1 < k) /\ ~(i + 1 < L)
          BY <2>2, <3>1, <3>7
        <5>. QED  BY <1>9, <3>1, <5>1
      <4>. QED  BY <2>2, <3>1, <3>3, <3>5, <3>6, <3>7, <4>1, <4>2, <4>3
    <3>8. CASE t # L
      <4>1. i + 1 \in 1 .. n /\ ~(i + 1 < k) /\ i + 1 < L /\ i # n /\ t # Len(W)
            /\ t + 1 \in k + 1 .. Len(W)
        BY <1>2, <2>2, <3>1, <3>8
      <4>2. V[i + 1] = W[t + 1] - gap
        BY <1>9, <3>1, <4>1
      <4>3. W[t + 1] = b + r
        BY <3>6, <4>1
      <4>4. (b + r) - gap = e + r
        BY <3>3
      <4>. QED  BY <2>2, <3>1, <3>3, <3>5, <3>8, <4>1, <4>2, <4>3, <4>4
    <3>. QED  BY <3>7, <3>8
  <2>3. CASE ~(i < k) /\ ~(i < L)
    <3>1. PICK t \in 1 .. Len(W) : t = i + 1 /\ t > L
      BY <1>2, <1>3, <2>3
    <3>2. /\ V[i] = W[t] /\ RecordAt(m3, W[t]) /\ inode(m3, W[t]) = inode(m, W[t])
          /\ natural(m3, W[t]) = natural(m, W[t]) /\ rec_len(m3, W[t]) = rec_len(m, W[t])
      BY <1>9, <2>3, <3>1 DEF Up, UpBut
    <3>3. W[t] + rec_len(m, W[t]) = IF t = Len(W) THEN BlockLen ELSE W[t + 1]
      BY <3>1, RecordFacts
    <3>4. t = Len(W) <=> i = n
      BY <1>2, <3>1
    <3>5. i # n => V[i + 1] = W[t + 1]
      <4>1. i # n => i + 1 \in 1 .. n /\ ~(i + 1 < k) /\ ~(i + 1 < L)
        BY <1>3, <2>3
      <4>. QED  BY <1>9, <3>1, <4>1
    <3>. QED  BY <2>3, <3>1, <3>2, <3>3, <3>4, <3>5
  <2>. QED  BY <1>3, <2>1, <2>2, <2>3
<1>11. Len(V) = Len(W) - 1
  BY <1>2, <1>7
<1>12. Closed(m, W, k, m3, V)
  BY <1>1, <1>7, <1>8, <1>10, <1>11 DEF Closed
<1>13. V = Moves(m, W, k, L)
  BY <1>2, <1>4 DEF V, Moves
<1>. QED  BY <1>12, <1>13

\* A walk that goes from each address in V to the next visits them.
LEMMA Follows ==
  ASSUME NEW m \in Memory, NEW X, IsWalk(m, X), NEW N \in 1 .. Len(X), NEW V, V[1] = 0,
         \A i \in 1 .. N - 1 : Onward(m, V[i]) = V[i + 1]
  PROVE  \A i \in 1 .. N : X[i] = V[i]
<1>. DEFINE P == {i \in 1 .. N : X[i] = V[i]}
<1>1. /\ Len(X) \in Nat /\ N \in Nat /\ X[1] = 0
      /\ \A i \in 1 .. Len(X) - 1 : X[i + 1] = Onward(m, X[i])
  <2>1. ~(0 + 1 >= BlockLen)
    BY BlockLenIs
  <2>. QED  BY <2>1 DEF IsWalk, Visits
<1>2. N > 0 => 1 \in P
  BY <1>1
<1>3. ASSUME NEW i \in 1 .. N - 1, i \in P PROVE i + 1 \in P
  <2>1. i \in 1 .. Len(X) - 1 /\ i + 1 \in 1 .. N
    BY <1>1
  <2>. QED  BY <1>1, <1>3, <2>1
<1>4. 1 .. N \subseteq P
  <2>. HIDE DEF P
  <2>. QED  BY <1>1, <1>2, <1>3, UpTo
<1>. QED  BY <1>4

\* What a walk would have found, had the removal been exact.
LEMMA Expected ==
  ASSUME NEW m, NEW W, Good(m, W), NEW k \in 3 .. Len(W), NEW m3 \in Memory,
         NEW X, X = WalkOf(m3), ListingOf(m3) = RemoveAt(ListingOf(m), k)
  PROVE  /\ IsWalk(m3, X) /\ Len(X) = Len(W) - 1 /\ Len(W) \in Nat
         /\ \A i \in 1 .. Len(X) : inode(m3, X[i]) = inode(m, W[IF i < k THEN i ELSE i + 1])
<1>1. Laid(m, W) /\ Len(W) \in Nat
  BY DEF Good, Laid
<1>2. IsWalk(m3, X)
  BY WalkIs
<1>3. Len(X) \in Nat
  BY <1>2, BlockLenIs DEF IsWalk, Visits
<1>4. PICK L : L = ListingOf(m)
  OBVIOUS
<1>5. L \in Seq(Nat) /\ Len(L) = Len(W) /\ \A i \in 1 .. Len(W) : L[i] = inode(m, W[i])
  <2>1. /\ L = [i \in 1 .. Len(W) |-> inode(m, W[i])] /\ L \in Seq(Nat) /\ Len(L) = Len(W)
    BY <1>1, <1>4, ListingIs
  <2>. QED  BY <2>1
<1>6. PICK R : R = ListingOf(m3)
  OBVIOUS
<1>7. R = [i \in 1 .. Len(X) |-> inode(m3, X[i])]
  BY <1>6 DEF ListingOf
<1>8. /\ Len(R) = Len(W) - 1
      /\ \A i \in 1 .. Len(W) - 1 : R[i] = L[IF i < k THEN i ELSE i + 1]
  <2>1. k \in 1 .. Len(L)
    BY <1>5
  <2>. QED  BY <1>4, <1>5, <1>6, <2>1, RemoveAtIs
<1>9. Len(X) = Len(W) - 1
  BY <1>3, <1>7, <1>8
<1>10. ASSUME NEW i \in 1 .. Len(X)
       PROVE  inode(m3, X[i]) = inode(m, W[IF i < k THEN i ELSE i + 1])
  <2>1. (IF i < k THEN i ELSE i + 1) \in 1 .. Len(W) /\ i \in 1 .. Len(W) - 1
    BY <1>1, <1>9
  <2>. QED  BY <1>5, <1>7, <1>8, <2>1
<1>. QED  BY <1>1, <1>2, <1>9, <1>10

Lost(m, W, k, L, m3) == inode(m3, W[L] - rec_len(m, W[k])) = 0

\* The lost inode is not one of those that should be left.
LEMMA WrongLong ==
  ASSUME NEW m, NEW W, Good(m, W), NEW k \in 3 .. Len(W), NEW L \in k + 1 .. Len(W),
         NEW m3, UpBut(m, W, k, L, m3), Lost(m, W, k, L, m3)
  PROVE  ListingOf(m3) # RemoveAt(ListingOf(m), k)
<1>. SUFFICES ASSUME ListingOf(m3) = RemoveAt(ListingOf(m), k) PROVE FALSE
  OBVIOUS
<1>1. Laid(m, W) /\ W[1] = 0 /\ m3 \in Memory
  BY DEF Good, Laid, UpBut
<1>2. PICK X : X = WalkOf(m3)
  OBVIOUS
<1>3. /\ IsWalk(m3, X) /\ Len(X) = Len(W) - 1 /\ Len(W) \in Nat
      /\ \A i \in 1 .. Len(X) : inode(m3, X[i]) = inode(m, W[IF i < k THEN i ELSE i + 1])
  BY <1>1, <1>2, Expected
<1>4. PICK N \in 1 .. Len(X) : N = L - 1 /\ L = N + 1 /\ N >= k
  BY <1>3
<1>5. k \in 1 .. Len(W) /\ k \in Nat /\ L \in 1 .. Len(W) /\ L \in Nat
  BY <1>3
<1>6. PICK gap \in Nat : gap = rec_len(m, W[k])
  BY <1>1, <1>5, RecordFacts
<1>7. PICK V : V = [i \in 1 .. N |-> IF i < k THEN W[i] ELSE W[i + 1] - gap]
  OBVIOUS
<1>8. V[1] = 0 /\ \A i \in 1 .. N : V[i] = IF i < k THEN W[i] ELSE W[i + 1] - gap
  <2>1. 1 \in 1 .. N /\ 1 < k
    BY <1>4, <1>5
  <2>. QED  BY <1>1, <1>7, <2>1
<1>9. ASSUME NEW i \in 1 .. N - 1 PROVE Onward(m3, V[i]) = V[i + 1]
  <2>1. i \in 1 .. N /\ i + 1 \in 1 .. N /\ i \in 1 .. Len(W) /\ i + 1 \in 1 .. Len(W) /\ i # Len(W)
        /\ i + 1 # Len(W)
    BY <1>3, <1>4
  <2>2. CASE i < k
    <3>1. V[i] = W[i] /\ rec_len(m3, W[i]) = rec_len(m, W[i])
      BY <1>8, <2>1, <2>2 DEF UpBut
    <3>2. PICK a \in Nat, r \in Nat, b \in Nat :
            /\ a = W[i] /\ r = rec_len(m, W[i]) /\ b = W[i + 1] /\ a + r = b /\ r > 0
      <4>1. /\ W[i] \in Nat /\ rec_len(m, W[i]) \in Nat /\ W[i] + rec_len(m, W[i]) = W[i + 1]
            /\ natural(m, W[i]) \in {3, 4} /\ rec_len(m, W[i]) >= natural(m, W[i])
        BY <1>1, <2>1, RecordFacts
      <4>2. W[i + 1] \in Nat
        BY <1>1, <2>1, RecordFacts
      <4>. QED  BY <4>1, <4>2
    <3>3. b <= BlockLen
      <4>1. W[i + 1] \in 0 .. BlockLen - 2
        BY <1>1, <2>1, RecordFacts
      <4>. QED  BY <3>2, <4>1, BlockLenIs
    <3>4. Onward(m3, V[i]) = b
      <4>1. rec_len(m3, V[i]) = r /\ V[i] = a
        BY <3>1, <3>2
      <4>2. ~(r = 0 \/ a + r > BlockLen) /\ a + r = b
        BY <3>2, <3>3, BlockLenIs
      <4>. QED  BY <4>1, <4>2 DEF Onward
    <3>5. CASE i + 1 < k
      BY <1>8, <2>1, <3>2, <3>4, <3>5
    <3>6. CASE ~(i + 1 < k)
      <4>1. i + 1 = k
        BY <1>5, <2>2, <3>6
      <4>2. W[k] + gap = W[k + 1] /\ W[k] \in Nat /\ k # Len(W)
        BY <1>1, <1>5, <1>6, <2>1, <4>1, RecordFacts
      <4>3. W[k + 1] - gap = W[k]
        BY <4>2
      <4>. QED  BY <1>8, <2>1, <3>2, <3>4, <3>6, <4>1, <4>3
    <3>. QED  BY <3>5, <3>6
  <2>3. CASE ~(i < k)
    <3>1. PICK t \in k + 1 .. L : t = i + 1 /\ t # L /\ t \in 1 .. Len(W) /\ t + 1 \in 1 .. Len(W)
                                  /\ t \in k + 1 .. Len(W) /\ t # Len(W)
      BY <1>3, <1>4, <1>5, <2>3
    <3>2. PICK g \in Nat, gap2 \in Nat, a \in Nat, p \in {3, 4}, d \in Nat :
            Where(m, W, k, t, g, gap2, a, p, d)
      BY <1>1, <1>5, <3>1, Places
    <3>3. a = W[t] /\ gap2 = gap /\ d = a - gap /\ d + gap = a /\ p = natural(m, a)
      BY <1>6, <3>2 DEF Where
    <3>4. PICK r \in Nat : r = rec_len(m, a) /\ r > 0 /\ a + r <= BlockLen
      <4>1. /\ rec_len(m, W[t]) \in Nat /\ natural(m, W[t]) \in {3, 4}
            /\ rec_len(m, W[t]) >= natural(m, W[t]) /\ W[t] + rec_len(m, W[t]) <= BlockLen
        BY <1>1, <3>1, RecordFacts
      <4>2. PICK q \in Nat, n \in {3, 4} :
              /\ q = rec_len(m, W[t]) /\ n = natural(m, W[t]) /\ q >= n
              /\ W[t] + q <= BlockLen
        BY <4>1
      <4>3. q > 0
        BY <4>2
      <4>4. q = rec_len(m, a) /\ a + q <= BlockLen
        BY <3>3, <4>2
      <4>. QED  BY <4>3, <4>4
    <3>5. a + r = W[t + 1]
      BY <1>1, <3>1, <3>3, <3>4, RecordFacts
    <3>6. V[i] = d /\ V[i + 1] = W[t + 1] - gap
      <4>1. ~(i + 1 < k)
        BY <1>5, <2>3
      <4>. QED  BY <1>8, <2>1, <2>3, <3>1, <3>3, <4>1
    <3>7. rec_len(m3, d) = r
      BY <1>6, <3>1, <3>3, <3>4 DEF UpBut
    <3>8. ~(r = 0 \/ d + r > BlockLen) /\ d + r = (a + r) - gap
      <4>1. PICK u \in Nat : u = BlockLen /\ a + r <= u /\ r # 0 /\ d + gap = a
        BY <3>3, <3>4, BlockLenIs
      <4>2. ~(r = 0 \/ d + r > u) /\ d + r = (a + r) - gap
        BY <4>1
      <4>. QED  BY <4>1, <4>2
    <3>9. Onward(m3, d) = d + r
      BY <3>7, <3>8 DEF Onward
    <3>. QED  BY <3>5, <3>6, <3>8, <3>9
  <2>. QED  BY <2>2, <2>3
<1>10. \A i \in 1 .. N : X[i] = V[i]
  <2>1. \A i \in 1 .. N - 1 : Onward(m3, V[i]) = V[i + 1]
    BY <1>9
  <2>2. m3 \in Memory /\ IsWalk(m3, X) /\ V[1] = 0 /\ N \in 1 .. Len(X)
    BY <1>1, <1>3, <1>8
  <2>. QED  BY <2>1, <2>2, Follows
<1>11. X[N] = W[L] - gap
  <2>1. N \in 1 .. N /\ ~(N < k) /\ N + 1 = L
    BY <1>4, <1>5
  <2>. QED  BY <1>8, <1>10, <2>1
<1>12. inode(m3, X[N]) = inode(m, W[L])
  <2>1. N \in 1 .. Len(X) /\ (IF N < k THEN N ELSE N + 1) = L
    BY <1>4, <1>5
  <2>. QED  BY <1>3, <2>1
<1>13. inode(m, W[L]) # 0
  BY <1>1, <1>5, RecordFacts
<1>. QED  BY <1>6, <1>11, <1>12, <1>13 DEF Lost

\* If nothing has moved, the removed record is copied over those before it:
\* over the inode or the lengths of one of them, or over nothing that counts.
LEMMA WrongStays ==
  ASSUME NEW m, NEW W, Good(m, W), NEW k \in 3 .. Len(W), k # Len(W), NEW l \in Nat,
         NEW m3, m3 = Copy(m, W[k], rec_len(m, W[k]), l)
  PROVE  ListingOf(m3) # RemoveAt(ListingOf(m), k)
<1>. SUFFICES ASSUME ListingOf(m3) = RemoveAt(ListingOf(m), k) PROVE FALSE
  OBVIOUS
<1>1. Laid(m, W) /\ m \in Memory /\ Len(W) \in Nat /\ k \in 1 .. Len(W) /\ k \in Nat
  BY DEF Good, Laid
<1>2. PICK g \in Nat, gap \in Nat, p \in {3, 4} :
        /\ g = W[k] /\ gap = rec_len(m, g) /\ p = natural(m, g)
        /\ gap >= p /\ g + p <= BlockLen /\ RecordAt(m, g)
  <2>1. /\ W[k] \in Nat /\ rec_len(m, W[k]) \in Nat /\ natural(m, W[k]) \in {3, 4}
        /\ rec_len(m, W[k]) >= natural(m, W[k]) /\ W[k] + natural(m, W[k]) <= BlockLen
        /\ RecordAt(m, W[k])
    BY <1>1, RecordFacts
  <2>. QED  BY <2>1
<1>3. PICK d \in Int : d + gap = g /\ d + p <= g
  <2>1. g - gap \in Int /\ (g - gap) + gap = g /\ (g - gap) + p <= g
    BY <1>2
  <2>. QED  BY <2>1
<1>4. IsCopy(m, g, p, d, l, m3)
  <2>1. gap >= 3 /\ p = natural(m, g) /\ g + p <= BlockLen /\ d + gap = g
    BY <1>2, <1>3
  <2>2. IsCopy(m, g, p, d, l, Copy(m, g, gap, l))
    BY <1>1, <2>1, CopyIs
  <2>. QED  BY <1>2, <2>2
<1>5. /\ m3 \in Memory
      /\ \A w \in 0 .. BlockLen - 1 : w \notin d .. d + p - 1 => m3[w] = m[w]
      /\ \A w \in 0 .. p - 1 :
           d + w \in 0 .. BlockLen - 1 => m3[d + w] = IF w = 1 THEN LengthWord(p, l) ELSE m[g + w]
  BY <1>4 DEF IsCopy
<1>6. PICK X : X = WalkOf(m3)
  OBVIOUS
<1>7. /\ IsWalk(m3, X) /\ Len(X) = Len(W) - 1
      /\ \A i \in 1 .. Len(X) : inode(m3, X[i]) = inode(m, W[IF i < k THEN i ELSE i + 1])
  BY <1>5, <1>6, Expected
<1>8. IsWalk(m, W)
  BY <1>1, LaidWalk
<1>. DEFINE Hit(w) == w \in d .. d + p - 1
            S == {i \in 1 .. Len(W) : Hit(W[i]) \/ Hit(W[i] + 1)}
<1>9. ASSUME NEW i \in 1 .. Len(W)
      PROVE  /\ W[i] \in Nat /\ W[i] \in 0 .. BlockLen - 1 /\ W[i] + 1 \in 0 .. BlockLen - 1
             /\ W[i] \in 0 .. BlockLen - 2
  <2>1. W[i] \in 0 .. BlockLen - 2 /\ W[i] \in Nat
    BY <1>1, RecordFacts
  <2>. QED  BY <2>1, BlockLenIs
<1>10. ASSUME NEW i \in 1 .. Len(W), i \notin S PROVE Onward(m, W[i]) = Onward(m3, W[i])
  <2>1. m3[W[i] + 1] = m[W[i] + 1]
    BY <1>5, <1>9, <1>10
  <2>. QED  BY <2>1 DEF Onward, rec_len
<1>11. S # {}
  <2>. SUFFICES ASSUME S = {} PROVE FALSE
    OBVIOUS
  <2>1. \A i \in 1 .. Len(W) - 1 : Onward(m, W[i]) = Onward(m3, W[i])
    BY <1>1, <1>10
  <2>2. Len(W) \in 1 .. Len(W)
    BY <1>1
  <2>3. Len(W) <= Len(X)
    BY <1>1, <1>5, <1>7, <1>8, <2>1, <2>2, SamePrefix
  <2>. QED  BY <1>1, <1>7, <2>3
<1>12. PICK i \in S : \A j \in S : i <= j
  <2>1. S \in SUBSET Nat
    BY <1>1
  <2>2. Min(S) \in S /\ \A j \in S : Min(S) <= j
    <3>. HIDE DEF S
    <3>. QED  BY <1>11, <2>1, MinExists
  <2>. QED  BY <2>2
<1>13. i \in 1 .. Len(W) /\ i \in Nat /\ (Hit(W[i]) \/ Hit(W[i] + 1))
  BY <1>1, <1>12
<1>14. PICK a \in Nat : a = W[i] /\ a \in 0 .. BlockLen - 1 /\ a + 1 \in 0 .. BlockLen - 1
  BY <1>9, <1>13
<1>15. i < k
  <2>1. CASE i = k
    <3>1. ~Hit(g) /\ ~Hit(g + 1)
      BY <1>3
    <3>. QED  BY <1>2, <1>13, <2>1, <3>1
  <2>2. CASE k < i
    <3>1. g < a
      BY <1>1, <1>2, <1>13, <1>14, <2>2, LaidOrder
    <3>2. ~Hit(a) /\ ~Hit(a + 1)
      BY <1>3, <3>1
    <3>. QED  BY <1>13, <1>14, <3>2
  <2>. QED  BY <1>1, <1>13, <2>1, <2>2
<1>16. i \in 1 .. Len(X) /\ i # Len(X) /\ Len(X) \in Nat
  <2>1. PICK n \in Nat : n = Len(W)
    BY <1>1
  <2>2. i <= n - 2 /\ i >= 1
    BY <1>1, <1>13, <1>15, <2>1
  <2>. QED  BY <1>7, <2>1, <2>2
<1>17. X[i] = a
  <2>1. ASSUME NEW j \in 1 .. i - 1 PROVE Onward(m, W[j]) = Onward(m3, W[j])
    <3>1. j \in 1 .. Len(W) /\ ~(i <= j)
      BY <1>1, <1>13
    <3>2. j \notin S
      BY <1>12, <3>1
    <3>. QED  BY <1>10, <3>1, <3>2
  <2>2. i \in 1 .. i
    BY <1>13
  <2>3. i <= Len(X) /\ \A j \in 1 .. i : X[j] = W[j]
    <3>1. \A j \in 1 .. i - 1 : Onward(m, W[j]) = Onward(m3, W[j])
      BY <2>1
    <3>2. /\ m \in Memory /\ m3 \in Memory /\ IsWalk(m, W) /\ IsWalk(m3, X)
          /\ i \in 1 .. Len(W)
      BY <1>1, <1>5, <1>7, <1>8, <1>13
    <3>. QED  BY <3>1, <3>2, SamePrefix
  <2>. QED  BY <1>14, <2>2, <2>3
<1>18. inode(m3, a) = inode(m, a) /\ inode(m, a) # 0
  <2>1. inode(m3, X[i]) = inode(m, W[i])
    BY <1>7, <1>15, <1>16
  <2>. QED  BY <1>1, <1>13, <1>14, <1>17, <2>1, RecordFacts
<1>19. CASE Hit(a)
  <2>1. PICK w \in 0 .. p - 1 : a = d + w
    <3>1. a - d \in 0 .. p - 1 /\ a = d + (a - d)
      BY <1>19
    <3>. QED  BY <3>1
  <2>2. m3[a] = IF w = 1 THEN LengthWord(p, l) ELSE m[g + w]
    BY <1>5, <1>14, <2>1
  <2>3. CASE w = 0
    <3>1. m3[a] = m[g]
      BY <1>2, <2>2, <2>3
    <3>2. inode(m, W[k]) = inode(m, W[i])
      BY <1>2, <1>14, <1>18, <3>1 DEF inode
    <3>. QED  BY <1>1, <1>13, <1>15, <3>2 DEF Good
  <2>4. CASE w = 1
    <3>1. inode(m3, a) = 0
      BY <2>2, <2>4 DEF inode, LengthWord
    <3>. QED  BY <1>18, <3>1
  <2>5. CASE w # 0 /\ w # 1
    <3>1. g + w \in g + 2 .. g + p - 1
      BY <2>5
    <3>2. m[g + w] = NameWord
      BY <1>2, <3>1 DEF RecordAt
    <3>3. inode(m3, a) = 0
      BY <2>2, <2>5, <3>2 DEF inode, NameWord
    <3>. QED  BY <1>18, <3>3
  <2>. QED  BY <2>3, <2>4, <2>5
<1>20. CASE ~Hit(a)
  <2>1. Hit(a + 1)
    BY <1>13, <1>14, <1>20
  <2>2. a + 1 = d + 0 /\ 0 \in 0 .. p - 1 /\ g + 0 = g
    BY <1>20, <2>1
  <2>3. m3[a + 1] = m[g]
    <3>1. d + 0 \in 0 .. BlockLen - 1 /\ 0 # 1
      BY <1>14, <2>2
    <3>2. m3[d + 0] = m[g + 0]
      BY <1>5, <2>2, <3>1
    <3>. QED  BY <2>2, <3>2
  <2>4. rec_len(m3, a) = 0
    BY <1>2, <2>3 DEF RecordAt, rec_len, InodeWord
  <2>5. Onward(m3, X[i]) = BlockLen
    BY <1>17, <2>4 DEF Onward
  <2>6. X[i + 1] = Onward(m3, X[i]) /\ X \in Seq(0 .. BlockLen - 2)
    <3>1. i \in 1 .. Len(X) - 1
      BY <1>16
    <3>2. ~(0 + 1 >= BlockLen)
      BY BlockLenIs
    <3>. QED  BY <1>7, <3>1, <3>2 DEF IsWalk, Visits
  <2>7. X[i + 1] \in 0 .. BlockLen - 2
    <3>1. i + 1 \in 1 .. Len(X)
      BY <1>16
    <3>. QED  BY <2>6, <3>1, ElementOfSeq
  <2>. QED  BY <2>5, <2>6, <2>7, BlockLenIs
<1>. QED  BY <1>19, <1>20

----------------------------------------------------------------------------
(* Exactly when a removal goes wrong                                       *)

LEMMA ExactIs ==
  ASSUME Laid(mem, Walk), NEW k \in 1 .. Len(Walk), k # Len(Walk)
  PROVE  Exact(k) <=> LastSeen(k) # k /\ Fits(mem, Walk, k, LastSeen(k))
<1>1. PICK n \in Nat : n = Len(Walk)
  BY DEF Laid
<1>2. PICK L \in k .. n : L = LastSeen(k) /\ Moved(k) = k + 1 .. L
  BY <1>1, MovedIs
<1>3. k \in Nat /\ L \in Nat
  BY <1>1
<1>4. PICK gap \in Nat : gap = rec_len(mem, Walk[k])
  BY RecordFacts
<1>5. PICK far : far = {j \in k + 1 .. Len(Walk) : BlockLen - Walk[j] > gap}
  OBVIOUS
<1>6. far = k + 1 .. L
  <2>1. ASSUME NEW j \in k + 1 .. Len(Walk)
        PROVE  BlockLen - Walk[j] > gap <=> Walk[j] + gap < BlockLen
    <3>1. j \in 1 .. Len(Walk)
      BY <1>1
    <3>2. PICK a \in Nat : a = Walk[j]
      BY <3>1, RecordFacts
    <3>3. PICK u \in Nat : u = BlockLen
      BY BlockLenIs
    <3>4. u - a > gap <=> a + gap < u
      OBVIOUS
    <3>. QED  BY <3>2, <3>3, <3>4
  <2>2. Moved(k) = {j \in k + 1 .. Len(Walk) : Walk[j] + gap < BlockLen}
    BY <1>4 DEF Moved, Counted
  <2>. QED  BY <1>2, <1>5, <2>1, <2>2
<1>7. Exact(k) <=> \E j \in far : natural(mem, Walk[j]) <= gap /\ \A l \in far : l <= j
  BY <1>4, <1>5 DEF Exact
<1>8. ASSUME NEW j \in far, \A l \in far : l <= j PROVE j = L
  <2>1. L \in far
    BY <1>3, <1>6
  <2>. QED  BY <1>3, <1>6, <1>8, <2>1
<1>9. CASE L = k
  <2>1. far = {}
    BY <1>3, <1>6, <1>9
  <2>. QED  BY <1>2, <1>7, <1>9, <2>1
<1>10. CASE L # k
  <2>1. L \in far /\ \A l \in far : l <= L
    BY <1>3, <1>6, <1>10
  <2>2. Exact(k) <=> natural(mem, Walk[L]) <= gap
    BY <1>7, <1>8, <2>1
  <2>. QED  BY <1>2, <1>4, <1>10, <2>2 DEF Fits
<1>. QED  BY <1>9, <1>10

\* The file of a directory that is removed is neither of the dots.
LEMMA PlaceIs ==
  ASSUME Good(mem, Walk), NEW i \in ToSet(Listing), NEW k, k = Place(i)
  PROVE  /\ k \in 1 .. Len(Walk) /\ inode(mem, Walk[k]) = i
         /\ i \in Inode => k \in 3 .. Len(Walk)
<1>1. Laid(mem, Walk) /\ Len(Walk) \in Nat
  BY DEF Good, Laid
<1>2. PICK L : L = Listing
  OBVIOUS
<1>3. L = [j \in 1 .. Len(Walk) |-> inode(mem, Walk[j])]
  BY <1>1, <1>2, ListingIs DEF Listing
<1>4. \E j \in 1 .. Len(Walk) : L[j] = i
  BY <1>2, <1>3 DEF ToSet
<1>5. k \in 1 .. Len(Walk) /\ L[k] = i
  BY <1>2, <1>4 DEF Place
<1>6. inode(mem, Walk[k]) = i
  BY <1>3, <1>5
<1>7. i \in Inode => k # 1 /\ k # 2
  BY <1>6, DirBlockAssumption DEF Good
<1>. QED  BY <1>1, <1>5, <1>6, <1>7

\* Where a walk goes after an exact removal.
Left(k) ==
  IF k = Len(Walk) THEN SubSeq(Walk, 1, k - 1) ELSE Moves(mem, Walk, k, LastSeen(k))

LEMMA RemovalIs ==
  ASSUME Good(mem, Walk), NEW k \in 3 .. Len(Walk), NEW m3,
         m3 = IF k = Len(Walk) THEN MergeLast(k) ELSE MoveUp(k)
  PROVE  /\ Exact(k) => /\ Good(m3, WalkOf(m3)) /\ WalkOf(m3) = Left(k)
                        /\ Closed(mem, Walk, k, m3, Left(k))
         /\ Exact(k) <=> ListingOf(m3) = RemoveAt(Listing, k)
<1>1. Laid(mem, Walk) /\ mem \in Memory /\ Len(Walk) \in Nat /\ k \in 1 .. Len(Walk) /\ k \in Nat
      /\ k \in 2 .. Len(Walk)
  BY DEF Good, Laid
<1>2. ASSUME NEW V, Closed(mem, Walk, k, m3, V)
      PROVE  Good(m3, WalkOf(m3)) /\ WalkOf(m3) = V /\ ListingOf(m3) = RemoveAt(Listing, k)
  <2>1. Good(m3, V) /\ ListingOf(m3) = RemoveAt(ListingOf(mem), k)
    BY <1>2, ClosedUp
  <2>2. WalkOf(m3) = V
    BY <2>1, LaidWalk DEF Good
  <2>. QED  BY <2>1, <2>2 DEF Listing
<1>3. CASE k = Len(Walk)
  <2>1. Exact(k)
    BY <1>3 DEF Exact
  <2>2. Closed(mem, Walk, k, m3, Left(k))
    BY <1>3, MergeIs DEF MergeLast, Left
  <2>. QED  BY <1>2, <2>1, <2>2
<1>4. CASE k # Len(Walk)
  <2>1. PICK L \in k .. Len(Walk) : L = LastSeen(k)
    BY <1>1, MovedIs
  <2>2. PICK m2 : m2 = Moving(k)[L]
    OBVIOUS
  <2>3. Shifted(mem, Walk, k, L, m2)
    BY <1>1, <2>1, <2>2, MovingShifts
  <2>4. m3 = Copy(m2, Walk[L], rec_len(mem, Walk[k]), rec_len(m2, Walk[L]) + rec_len(mem, Walk[k]))
    BY <1>4, <2>1, <2>2 DEF MoveUp
  <2>5. Exact(k) <=> L # k /\ Fits(mem, Walk, k, L)
    BY <1>1, <1>4, <2>1, ExactIs
  <2>6. CASE L = k
    <3>1. m2 = mem
      <4>1. IsMoving(k, Moving(k), L)
        <5>1. LastSeen(k) \in Nat /\ LastSeen(k) >= k
          BY <1>1, <2>1, <2>6
        <5>. QED  BY <1>1, <2>1, <5>1, MovingIs
      <4>2. k \in k .. L
        BY <1>1, <2>6
      <4>. QED  BY <2>2, <2>6, <4>1, <4>2 DEF IsMoving
    <3>2. PICK l \in Nat : l = rec_len(mem, Walk[k]) + rec_len(mem, Walk[k])
      <4>1. PICK r \in Nat : r = rec_len(mem, Walk[k])
        BY <1>1, RecordFacts
      <4>. QED  BY <4>1
    <3>3. m3 = Copy(mem, Walk[k], rec_len(mem, Walk[k]), l)
      BY <2>4, <2>6, <3>1, <3>2
    <3>4. ListingOf(m3) # RemoveAt(ListingOf(mem), k)
      BY <1>4, <3>3, WrongStays
    <3>. QED  BY <2>5, <2>6, <3>4 DEF Listing
  <2>7. CASE L # k
    <3>1. L \in k + 1 .. Len(Walk)
      BY <1>1, <2>7
    <3>2. IsLast(mem, Walk, k, L, m2, m3)
      BY <2>4 DEF IsLast
    <3>3. /\ UpBut(mem, Walk, k, L, m3)
          /\ IF Fits(mem, Walk, k, L) THEN Up(mem, Walk, k, L, m3)
             ELSE inode(m3, Walk[L] - rec_len(mem, Walk[k])) = 0
      BY <1>1, <2>3, <3>1, <3>2, LastCopy
    <3>4. CASE Fits(mem, Walk, k, L)
      <4>1. Closed(mem, Walk, k, m3, Left(k))
        BY <1>1, <1>4, <2>1, <3>1, <3>3, <3>4, UpClosed DEF Left
      <4>. QED  BY <1>2, <2>5, <2>7, <3>4, <4>1
    <3>5. CASE ~Fits(mem, Walk, k, L)
      <4>1. Lost(mem, Walk, k, L, m3)
        BY <3>3, <3>5 DEF Lost
      <4>2. ListingOf(m3) # RemoveAt(ListingOf(mem), k)
        BY <3>1, <3>3, <4>1, WrongLong
      <4>. QED  BY <2>5, <3>5, <4>2 DEF Listing
    <3>. QED  BY <3>4, <3>5
  <2>. QED  BY <2>6, <2>7
<1>. QED  BY <1>3, <1>4

----------------------------------------------------------------------------
(* The invariant, and what follows from it                                 *)

BlockInv ==
  /\ lengths \subseteq NameLen /\ broken \in BOOLEAN
  /\ ~broken => Good(mem, Walk)

LEMMA InitGood ==
  ASSUME BlockInit
  PROVE  Good(mem, <<0, 3>>) /\ natural(mem, 0) = 3 /\ natural(mem, 3) = 3
<1>1. PICK m0 : m0 = [w \in 0 .. BlockLen - 1 |-> NameWord]
  OBVIOUS
<1>2. m0 \in Memory
  BY <1>1, WordTypes DEF Memory
<1>3. PICK m1 : m1 = Put(m0, 0, 1, 3, 3)
  OBVIOUS
<1>4. /\ m1 \in Memory /\ RecordAt(m1, 0) /\ inode(m1, 0) = 1 /\ natural(m1, 0) = 3
      /\ rec_len(m1, 0) = 3
  <2>1. 3 \in NameLen /\ 0 + 3 <= BlockLen /\ 1 # 0 /\ 3 >= 3
    BY BlockLenIs DEF NameLen
  <2>. QED  BY <1>2, <1>3, <2>1, PutIs
<1>5. PICK l \in Nat : l = BlockLen - 3 /\ l >= 3 /\ 3 + l = BlockLen
  BY BlockLenIs
<1>6. mem = Put(m1, 3, 2, 3, l)
  BY <1>1, <1>3, <1>5 DEF BlockInit, Dot
<1>7. /\ mem \in Memory /\ RecordAt(mem, 3) /\ inode(mem, 3) = 2 /\ rec_len(mem, 3) = l
      /\ natural(mem, 3) = 3
      /\ \A w \in 0 .. BlockLen - 1 : w \notin 3 .. 3 + 3 - 1 => mem[w] = m1[w]
  <2>1. 3 \in NameLen /\ 3 + 3 <= BlockLen /\ 2 # 0
    BY BlockLenIs DEF NameLen
  <2>2. Put(m1, 3, 2, 3, l) \in Memory
    BY <1>4, <1>5, <2>1, PutIs
  <2>3. /\ RecordAt(Put(m1, 3, 2, 3, l), 3) /\ inode(Put(m1, 3, 2, 3, l), 3) = 2
        /\ rec_len(Put(m1, 3, 2, 3, l), 3) = l /\ natural(Put(m1, 3, 2, 3, l), 3) = 3
    BY <1>4, <1>5, <2>1, PutIs
  <2>4. \A w \in 0 .. BlockLen - 1 : w \notin 3 .. 3 + 3 - 1 => Put(m1, 3, 2, 3, l)[w] = m1[w]
    BY <1>4, <1>5, <2>1, PutIs
  <2>. QED  BY <1>6, <2>2, <2>3, <2>4
<1>8. RecordAt(mem, 0) /\ inode(mem, 0) = 1 /\ rec_len(mem, 0) = 3 /\ natural(mem, 0) = 3
  <2>1. ASSUME NEW w \in 0 .. 0 + natural(m1, 0) - 1 PROVE mem[w] = m1[w]
    <3>1. w \in 0 .. BlockLen - 1 /\ w \notin 3 .. 3 + 3 - 1
      BY <1>4, BlockLenIs
    <3>. QED  BY <1>7, <3>1
  <2>2. rec_len(m1, 0) \in Nat
    BY <1>4
  <2>. QED  BY <1>4, <1>7, <2>1, <2>2, RecordKept
<1>9. PICK W : W = <<0, 3>>
  OBVIOUS
<1>10. W \in Seq(0 .. BlockLen - 2) /\ Len(W) = 2 /\ W[1] = 0 /\ W[2] = 3
  <2>1. 0 \in 0 .. BlockLen - 2 /\ 3 \in 0 .. BlockLen - 2
    BY BlockLenIs
  <2>. QED  BY <1>9, <2>1
<1>11. ASSUME NEW i \in 1 .. Len(W) PROVE i = 1 \/ i = 2
  BY <1>10
<1>12. Laid(mem, W)
  <2>1. 0 + rec_len(mem, 0) = 3 /\ 3 + rec_len(mem, 3) = BlockLen
    BY <1>5, <1>7, <1>8
  <2>. QED  BY <1>7, <1>8, <1>10, <1>11, <2>1 DEF Laid
<1>13. 3 .. Len(W) = {}
  BY <1>10
<1>14. Good(mem, W)
  BY <1>7, <1>8, <1>10, <1>11, <1>12, <1>13 DEF Good
<1>. QED  BY <1>7, <1>8, <1>9, <1>14

LEMMA AddGood ==
  ASSUME Good(mem, Walk), NEW i \in Inode, NEW n \in NameLen, AddRecord(i, n)
  PROVE  /\ Good(mem', WalkOf(mem'))
         /\ \E a : /\ a = Walk[Len(Walk)] + natural(mem, Walk[Len(Walk)])
                  /\ WalkOf(mem') = Append(Walk, a) /\ natural(mem', a) = n
         /\ \A k \in 1 .. Len(Walk) : natural(mem', Walk[k]) = natural(mem, Walk[k])
<1>1. Laid(mem, Walk) /\ Len(Walk) \in Nat /\ Len(Walk) \in 1 .. Len(Walk)
  BY DEF Good, Laid
<1>2. PICK a \in Nat, t \in {3, 4}, r \in Nat :
        /\ a = Walk[Len(Walk)] /\ t = natural(mem, a) /\ r = rec_len(mem, a) /\ r >= t
  <2>1. /\ Walk[Len(Walk)] \in Nat /\ natural(mem, Walk[Len(Walk)]) \in {3, 4}
        /\ rec_len(mem, Walk[Len(Walk)]) \in Nat
        /\ rec_len(mem, Walk[Len(Walk)]) >= natural(mem, Walk[Len(Walk)])
    BY <1>1, RecordFacts
  <2>. QED  BY <2>1
<1>3. PICK s \in Nat : s = r - t /\ r = t + s
  BY <1>2
<1>4. a = Last(Walk) /\ Spare(a) = s
  BY <1>2, <1>3 DEF Last, Spare
<1>5. /\ mem' = Put(SetLen(mem, a, t), a + t, i, n, s) /\ s >= n /\ i \notin ToSet(Listing)
  BY <1>2, <1>4 DEF AddRecord
<1>6. LastHas(mem, Walk, a, t, s)
  BY <1>2, <1>3 DEF LastHas
<1>7. IsNew(mem, Walk, i)
  <2>1. Listing = [k \in 1 .. Len(Walk) |-> inode(mem, Walk[k])]
    BY <1>1, ListingIs DEF Listing
  <2>. QED  BY <1>5, <2>1 DEF IsNew, ToSet
<1>8. n \in {3, 4}
  BY DEF NameLen
<1>9. PICK V : V = Append(Walk, a + t)
  OBVIOUS
<1>10. /\ Good(mem', V) /\ natural(mem', a + t) = n
       /\ \A k \in 1 .. Len(Walk) : natural(mem', Walk[k]) = natural(mem, Walk[k])
  <2>1. PICK M : M = Put(SetLen(mem, a, t), a + t, i, n, s)
    OBVIOUS
  <2>2. s >= n
    BY <1>5
  <2>3. Added(mem, Walk, n, a + t, M)
    BY <1>6, <1>7, <1>8, <2>1, <2>2, AddIs
  <2>. QED  BY <1>5, <1>9, <2>1, <2>3 DEF Added
<1>11. WalkOf(mem') = V
  BY <1>10, LaidWalk DEF Good
<1>12. WalkOf(mem') = Append(Walk, a + t) /\ a + t = Walk[Len(Walk)] + natural(mem, Walk[Len(Walk)])
  BY <1>2, <1>9, <1>11
<1>. QED  BY <1>10, <1>11, <1>12

\* A removal, in terms of the block it leaves.
LEMMA RemovalSteps ==
  ASSUME NEW i, RemoveRecord(i)
  PROVE  /\ i \in ToSet(Listing) /\ removed' = i /\ lengths' = lengths
         /\ mem' = IF Place(i) = Len(Walk) THEN MergeLast(Place(i)) ELSE MoveUp(Place(i))
         /\ broken' \in BOOLEAN
         /\ broken' <=> ListingOf(mem') # RemoveAt(Listing, Place(i))
<1>1. /\ i \in ToSet(Listing) /\ removed' = i /\ lengths' = lengths
      /\ mem' = IF Place(i) = Len(Walk) THEN MergeLast(Place(i)) ELSE MoveUp(Place(i))
  BY DEF RemoveRecord
<1>2. broken' = (ListingOf(mem') # RemoveAt(Listing, Place(i)))
  BY Zenon DEF RemoveRecord
<1>3. broken' \in BOOLEAN /\ (broken' <=> ListingOf(mem') # RemoveAt(Listing, Place(i)))
  BY <1>2, Zenon
<1>. QED  BY <1>1, <1>3, Zenon

LEMMA BlockInvInit ==
  ASSUME BlockInit
  PROVE  BlockInv
<1>1. Good(mem, <<0, 3>>)
  BY InitGood
<1>2. Walk = <<0, 3>>
  BY <1>1, LaidWalk DEF Good, Walk
<1>. QED  BY <1>1, <1>2 DEF BlockInit, BlockInv

LEMMA BlockInvNext ==
  ASSUME BlockInv, [BlockNext]_blockvars
  PROVE  BlockInv'
<1>1. CASE UNCHANGED blockvars
  <2>1. Walk' = Walk
    BY <1>1 DEF Walk, blockvars
  <2>2. lengths' = lengths /\ broken' = broken /\ mem' = mem
    BY <1>1 DEF blockvars
  <2>. QED  BY <2>1, <2>2 DEF BlockInv
<1>2. ASSUME NEW i \in Inode, NEW n \in lengths, AddRecord(i, n), ~broken PROVE BlockInv'
  <2>1. n \in NameLen /\ Good(mem, Walk)
    BY <1>2 DEF BlockInv
  <2>2. Good(mem', WalkOf(mem'))
    BY <1>2, <2>1, AddGood
  <2>3. lengths' = lengths /\ broken' = broken
    BY <1>2 DEF AddRecord
  <2>4. Good(mem, Walk)'
    BY <2>2 DEF Walk
  <2>. QED  BY <2>3, <2>4 DEF BlockInv
<1>3. ASSUME NEW i \in Inode, RemoveRecord(i), ~broken PROVE BlockInv'
  <2>1. Good(mem, Walk)
    BY <1>3 DEF BlockInv
  <2>2. PICK k : k = Place(i)
    OBVIOUS
  <2>3. /\ i \in ToSet(Listing) /\ lengths' = lengths
        /\ mem' = IF k = Len(Walk) THEN MergeLast(k) ELSE MoveUp(k)
        /\ broken' \in BOOLEAN /\ (broken' <=> ListingOf(mem') # RemoveAt(Listing, k))
    BY <1>3, <2>2, RemovalSteps
  <2>4. k \in 3 .. Len(Walk)
    BY <2>1, <2>2, <2>3, PlaceIs
  <2>5. /\ Exact(k) => Good(mem', WalkOf(mem'))
        /\ Exact(k) <=> ListingOf(mem') = RemoveAt(Listing, k)
    BY <2>1, <2>3, <2>4, RemovalIs
  <2>6. ~broken' => Good(mem, Walk)'
    BY <2>3, <2>5 DEF Walk
  <2>7. broken' \in BOOLEAN
    BY <2>3
  <2>. QED  BY <2>3, <2>6, <2>7 DEF BlockInv
<1>. QED  BY <1>1, <1>2, <1>3 DEF BlockNext

\* Records follow each other to the end of the block, and no name is written
\* over, as long as no removal has gone wrong: ext2_cp.c, ext2_ln.c,
\* ext2_mkdir.c and ext2_rm.c leave a block that each can walk.
THEOREM BlockTiles == BlockSpec => []RecordsTile
<1>1. ASSUME BlockInv PROVE RecordsTile
  <2>. SUFFICES ASSUME ~broken
                PROVE  /\ Last(Walk) + rec_len(mem, Last(Walk)) = BlockLen
                       /\ \A a \in ToSet(Walk) :
                            /\ natural(mem, a) > 0 /\ rec_len(mem, a) >= natural(mem, a)
                            /\ \A w \in a + 2 .. a + natural(mem, a) - 1 : mem[w] = NameWord
    BY DEF RecordsTile
  <2>1. Laid(mem, Walk) /\ Len(Walk) \in 1 .. Len(Walk)
    BY <1>1 DEF BlockInv, Good, Laid
  <2>2. Last(Walk) + rec_len(mem, Last(Walk)) = BlockLen
    BY <2>1, RecordFacts DEF Last
  <2>3. ASSUME NEW a \in ToSet(Walk)
        PROVE  /\ natural(mem, a) > 0 /\ rec_len(mem, a) >= natural(mem, a)
               /\ \A w \in a + 2 .. a + natural(mem, a) - 1 : mem[w] = NameWord
    <3>1. PICK i \in 1 .. Len(Walk) : a = Walk[i]
      <4>1. DOMAIN Walk = 1 .. Len(Walk)
        BY <2>1 DEF Laid
      <4>. QED  BY <4>1 DEF ToSet
    <3>2. RecordAt(mem, a)
      BY <2>1, <3>1, RecordFacts
    <3>. QED  BY <3>2 DEF RecordAt, NameLen
  <2>. QED  BY <2>2, <2>3
<1>. QED  BY <1>1, BlockInvInit, BlockInvNext, PTL DEF BlockSpec

\* A removal by ext2_rm.c takes away the record of the file and leaves the
\* others in their order exactly in the cases that Exact names.
THEOREM BlockRemovals == BlockSpec => RemovalExact
<1>1. ASSUME BlockInv, [BlockNext]_blockvars
      PROVE  [removed' \in ToSet(Listing) => (broken' <=> ~Exact(Place(removed')))]_blockvars
  <2>1. ASSUME NEW i \in Inode, RemoveRecord(i), ~broken
        PROVE  broken' <=> ~Exact(Place(removed'))
    <3>1. Good(mem, Walk)
      BY <1>1, <2>1 DEF BlockInv
    <3>2. PICK k : k = Place(i)
      OBVIOUS
    <3>3. /\ i \in ToSet(Listing) /\ removed' = i
          /\ mem' = IF k = Len(Walk) THEN MergeLast(k) ELSE MoveUp(k)
          /\ (broken' <=> ListingOf(mem') # RemoveAt(Listing, k))
      BY <2>1, <3>2, RemovalSteps
    <3>4. k \in 3 .. Len(Walk)
      BY <3>1, <3>2, <3>3, PlaceIs
    <3>5. Exact(k) <=> ListingOf(mem') = RemoveAt(Listing, k)
      BY <3>1, <3>3, <3>4, RemovalIs
    <3>. QED  BY <3>2, <3>3, <3>5
  <2>2. ASSUME NEW i \in Inode, NEW n \in lengths, AddRecord(i, n), ~broken
        PROVE  removed' \notin ToSet(Listing)
    <3>1. Laid(mem, Walk)
      BY <1>1, <2>2 DEF BlockInv, Good
    <3>2. Listing = [j \in 1 .. Len(Walk) |-> inode(mem, Walk[j])]
      BY <3>1, ListingIs DEF Listing
    <3>3. removed' = 0
      BY <2>2 DEF AddRecord
    <3>. QED  BY <3>1, <3>2, <3>3, RecordFacts DEF ToSet
  <2>. QED  BY <1>1, <2>1, <2>2 DEF BlockNext
<1>. QED  BY <1>1, BlockInvInit, BlockInvNext, PTL DEF BlockSpec, RemovalExact

----------------------------------------------------------------------------
(* Names of one length                                                     *)

\* The natural length of the i-th record and its address, if every file's is c
\* and no record but the last is longer.
NatOf(i, c) == IF i <= 2 THEN 3 ELSE c
PosOf(i, c) == IF i <= 2 THEN 3 * (i - 1) ELSE 6 + (i - 3) * c
Packed(c) ==
  \A i \in 1 .. Len(Walk) : natural(mem, Walk[i]) = NatOf(i, c) /\ Walk[i] = PosOf(i, c)
OneInv ==
  \A c \in {3, 4} : lengths = {c} /\ (BlockLen - 6) % c # 0 => ~broken /\ Packed(c)

LEMMA PosIs ==
  ASSUME NEW c \in {3, 4}, NEW i \in Nat \ {0}
  PROVE  /\ NatOf(i, c) \in {3, 4} /\ PosOf(i, c) \in Nat
         /\ PosOf(i + 1, c) = PosOf(i, c) + NatOf(i, c)
         /\ i > 2 => NatOf(i, c) = c
<1>1. CASE c = 3
  BY <1>1 DEF NatOf, PosOf
<1>2. CASE c = 4
  BY <1>2 DEF NatOf, PosOf
<1>. QED  BY <1>1, <1>2

LEMMA PackedInit ==
  ASSUME BlockInit
  PROVE  OneInv
<1>1. Good(mem, <<0, 3>>) /\ natural(mem, 0) = 3 /\ natural(mem, 3) = 3
  BY InitGood
<1>2. Walk = <<0, 3>>
  BY <1>1, LaidWalk DEF Good, Walk
<1>3. ASSUME NEW c \in {3, 4} PROVE Packed(c)
  <2>1. Len(Walk) = 2 /\ Walk[1] = 0 /\ Walk[2] = 3
    BY <1>2
  <2>2. NatOf(1, c) = 3 /\ NatOf(2, c) = 3 /\ PosOf(1, c) = 0 /\ PosOf(2, c) = 3
    BY DEF NatOf, PosOf
  <2>3. ASSUME NEW i \in 1 .. Len(Walk) PROVE i = 1 \/ i = 2
    BY <2>1
  <2>. QED  BY <1>1, <2>1, <2>2, <2>3 DEF Packed
<1>. QED  BY <1>3 DEF BlockInit, OneInv

LEMMA PackedAdd ==
  ASSUME Good(mem, Walk), NEW c \in {3, 4}, Packed(c), NEW i \in Inode, AddRecord(i, c)
  PROVE  Packed(c)'
<1>1. Len(Walk) \in Nat /\ Len(Walk) >= 2 /\ Walk \in Seq(0 .. BlockLen - 2)
  BY DEF Good, Laid
<1>2. PICK n \in Nat : n = Len(Walk) /\ n \in 1 .. Len(Walk) /\ n >= 2 /\ n \in Nat \ {0}
                       /\ n + 1 > 2 /\ n + 1 \in Nat \ {0}
  BY <1>1
<1>3. c \in NameLen
  BY DEF NameLen
<1>4. PICK a : /\ a = Walk[n] + natural(mem, Walk[n])
               /\ WalkOf(mem') = Append(Walk, a) /\ natural(mem', a) = c
  BY <1>2, <1>3, AddGood
<1>5. \A k \in 1 .. Len(Walk) : natural(mem', Walk[k]) = natural(mem, Walk[k])
  BY <1>3, AddGood
<1>6. a = PosOf(n + 1, c) /\ NatOf(n + 1, c) = c
  <2>1. natural(mem, Walk[n]) = NatOf(n, c) /\ Walk[n] = PosOf(n, c)
    BY <1>2 DEF Packed
  <2>2. PosOf(n + 1, c) = PosOf(n, c) + NatOf(n, c)
    BY <1>2, PosIs
  <2>3. NatOf(n + 1, c) = c
    BY <1>2, PosIs
  <2>. QED  BY <1>4, <2>1, <2>2, <2>3
<1>7. PICK V : V = Append(Walk, a)
  OBVIOUS
<1>8. Len(V) = n + 1 /\ V[n + 1] = a /\ \A k \in 1 .. n : V[k] = Walk[k]
  BY <1>1, <1>2, <1>7
<1>9. ASSUME NEW k \in 1 .. Len(V)
      PROVE  natural(mem', V[k]) = NatOf(k, c) /\ V[k] = PosOf(k, c)
  <2>1. CASE k = n + 1
    BY <1>4, <1>6, <1>8, <2>1
  <2>2. CASE k # n + 1
    <3>1. k \in 1 .. n
      BY <1>8, <2>2
    <3>. QED  BY <1>2, <1>5, <1>8, <3>1 DEF Packed
  <2>. QED  BY <2>1, <2>2
<1>10. Walk' = V
  BY <1>4, <1>7 DEF Walk
<1>. QED  BY <1>9, <1>10 DEF Packed

\* A removal is exact: all that follow have gone up, and fit.
LEMMA PackedExact ==
  ASSUME Good(mem, Walk), NEW c \in {3, 4}, Packed(c), (BlockLen - 6) % c # 0,
         NEW k \in 3 .. Len(Walk)
  PROVE  /\ Exact(k)
         /\ k # Len(Walk) => LastSeen(k) = Len(Walk) /\ rec_len(mem, Walk[k]) = c
<1>1. Laid(mem, Walk) /\ k \in 1 .. Len(Walk) /\ Len(Walk) \in Nat /\ k \in Nat \ {0}
  BY DEF Good, Laid
<1>2. CASE k = Len(Walk)
  BY <1>2 DEF Exact
<1>3. CASE k # Len(Walk)
  <2>1. PICK n \in Nat \ {0} : n = Len(Walk) /\ k < n /\ n > 2 /\ n \in 1 .. Len(Walk) /\ n - 2 \in Nat
    BY <1>1, <1>3
  <2>2. PICK a \in Nat, r \in Nat : /\ a = Walk[n] /\ r = rec_len(mem, a) /\ r >= c /\ a + r = BlockLen
                                    /\ natural(mem, a) = c /\ a = PosOf(n, c)
    <3>1. /\ Walk[n] \in Nat /\ rec_len(mem, Walk[n]) \in Nat
          /\ rec_len(mem, Walk[n]) >= natural(mem, Walk[n])
          /\ Walk[n] + rec_len(mem, Walk[n]) = BlockLen
      BY <1>1, <2>1, RecordFacts
    <3>2. natural(mem, Walk[n]) = c /\ Walk[n] = PosOf(n, c)
      BY <2>1, PosIs DEF Packed
    <3>. QED  BY <3>1, <3>2
  <2>3. r # c
    <3>. SUFFICES ASSUME a + c = BlockLen PROVE FALSE
      BY <2>2
    <3>1. PICK q \in Nat : q = n - 2 /\ n = q + 2
      BY <2>1
    <3>2. a = 6 + (q - 1) * c
      BY <2>1, <2>2, <3>1 DEF PosOf
    <3>3. BlockLen - 6 = q * c + 0
      <4>1. CASE c = 3
        <5>1. a = 6 + (q - 1) * 3 /\ a + 3 = BlockLen
          BY <2>2, <3>2, <4>1
        <5>2. BlockLen - 6 = q * 3 + 0
          BY <5>1
        <5>. QED  BY <4>1, <5>2
      <4>2. CASE c = 4
        <5>1. a = 6 + (q - 1) * 4 /\ a + 4 = BlockLen
          BY <2>2, <3>2, <4>2
        <5>2. BlockLen - 6 = q * 4 + 0
          BY <5>1
        <5>. QED  BY <4>2, <5>2
      <4>. QED  BY <4>1, <4>2
    <3>4. c \in Nat \ {0} /\ 0 \in 0 .. c - 1
      OBVIOUS
    <3>5. (q * c + 0) % c = 0
      BY <3>4, DivModUnique
    <3>. QED  BY <3>3, <3>5
  <2>4. rec_len(mem, Walk[k]) = c /\ natural(mem, Walk[k]) = c
    <3>1. k + 1 \in 1 .. Len(Walk) /\ k > 2
      BY <1>1, <1>3
    <3>2. Walk[k] + rec_len(mem, Walk[k]) = Walk[k + 1] /\ rec_len(mem, Walk[k]) \in Nat
      BY <1>1, <1>3, RecordFacts
    <3>3. Walk[k] = PosOf(k, c) /\ Walk[k + 1] = PosOf(k + 1, c) /\ natural(mem, Walk[k]) = NatOf(k, c)
      BY <1>1, <3>1 DEF Packed
    <3>4. PICK x \in Nat : x = PosOf(k, c) /\ PosOf(k + 1, c) = x + c /\ NatOf(k, c) = c
      BY <1>1, <3>1, PosIs
    <3>. QED  BY <3>2, <3>3, <3>4
  <2>5. n \in Moved(k)
    <3>1. a + c < BlockLen
      BY <2>2, <2>3
    <3>2. n \in k + 1 .. Len(Walk)
      BY <1>1, <2>1
    <3>. QED  BY <2>2, <2>4, <3>1, <3>2 DEF Moved, Counted
  <2>6. LastSeen(k) = n
    <3>1. LastSeen(k) \in k .. Len(Walk) /\ Moved(k) = k + 1 .. LastSeen(k)
      BY <1>1, MovedIs
    <3>. QED  BY <1>1, <2>1, <2>5, <3>1
  <2>7. Fits(mem, Walk, k, n)
    BY <2>2, <2>4 DEF Fits
  <2>. QED  BY <1>1, <1>3, <2>1, <2>4, <2>6, <2>7, ExactIs
<1>. QED  BY <1>2, <1>3

LEMMA PackedRemove ==
  ASSUME Good(mem, Walk), NEW c \in {3, 4}, Packed(c), (BlockLen - 6) % c # 0,
         NEW k \in 3 .. Len(Walk), mem' = IF k = Len(Walk) THEN MergeLast(k) ELSE MoveUp(k)
  PROVE  Packed(c)' /\ ListingOf(mem') = RemoveAt(Listing, k)
<1>1. Exact(k) /\ (k # Len(Walk) => LastSeen(k) = Len(Walk) /\ rec_len(mem, Walk[k]) = c)
  BY PackedExact
<1>2. PICK V : V = Left(k)
  OBVIOUS
<1>3. WalkOf(mem') = V /\ Closed(mem, Walk, k, mem', V) /\ ListingOf(mem') = RemoveAt(Listing, k)
  BY <1>1, <1>2, RemovalIs
<1>4. Laid(mem, Walk) /\ Len(Walk) \in Nat /\ Walk \in Seq(0 .. BlockLen - 2)
  BY DEF Good, Laid
<1>5. PICK n \in Nat : /\ n = Len(Walk) - 1 /\ Len(Walk) = n + 1 /\ k \in 3 .. n + 1
                       /\ k \in Nat /\ Len(V) = n
  BY <1>3, <1>4 DEF Closed
<1>6. ASSUME NEW i \in 1 .. n PROVE V[i] = Walk[i]
  <2>1. CASE k = Len(Walk)
    <3>1. \A j \in 1 .. n : Walk[j] \in 0 .. BlockLen - 2
      <4>1. \A j \in 1 .. n : j \in 1 .. Len(Walk)
        BY <1>5
      <4>. QED  BY <1>4, <4>1, ElementOfSeq
    <3>2. V = SubSeq(Walk, 1, n)
      BY <1>2, <1>5, <2>1 DEF Left
    <3>3. 1 \in Int /\ n \in Int /\ n - 1 + 1 = n /\ 1 + i - 1 = i
      BY <1>5
    <3>4. \A j \in 1 .. n - 1 + 1 : V[j] = Walk[1 + j - 1]
      BY <3>1, <3>2, <3>3, SubSeqProperties
    <3>. QED  BY <3>3, <3>4
  <2>2. CASE k # Len(Walk)
    <3>1. V[i] = IF i < k THEN Walk[i] ELSE Walk[i + 1] - c
      <4>1. i < Len(Walk) /\ i \in 1 .. Len(Walk) - 1
        BY <1>5
      <4>. QED  BY <1>1, <1>2, <2>2, <4>1 DEF Left, Moves
    <3>2. CASE i < k
      BY <3>1, <3>2
    <3>3. CASE ~(i < k)
      <4>1. i \in 1 .. Len(Walk) /\ i + 1 \in 1 .. Len(Walk) /\ i > 2 /\ i \in Nat \ {0}
        BY <1>5, <3>3
      <4>2. Walk[i + 1] = PosOf(i + 1, c) /\ Walk[i] = PosOf(i, c)
        BY <4>1 DEF Packed
      <4>3. PICK x \in Nat : x = PosOf(i, c) /\ PosOf(i + 1, c) = x + c
        <5>1. PosOf(i, c) \in Nat /\ PosOf(i + 1, c) = PosOf(i, c) + NatOf(i, c)
          BY <4>1, PosIs
        <5>2. NatOf(i, c) = c
          BY <4>1, PosIs
        <5>. QED  BY <5>1, <5>2
      <4>4. (x + c) - c = x
        OBVIOUS
      <4>. QED  BY <3>1, <3>3, <4>2, <4>3, <4>4
    <3>. QED  BY <3>2, <3>3
  <2>. QED  BY <2>1, <2>2
<1>7. ASSUME NEW i \in 1 .. n
      PROVE  natural(mem', V[i]) = NatOf(i, c) /\ V[i] = PosOf(i, c)
  <2>1. natural(mem', V[i]) = natural(mem, Walk[IF i < k THEN i ELSE i + 1])
    BY <1>3, <1>5 DEF Closed
  <2>2. i \in 1 .. Len(Walk) /\ i + 1 \in 1 .. Len(Walk)
    BY <1>5
  <2>3. natural(mem, Walk[IF i < k THEN i ELSE i + 1]) = NatOf(i, c)
    <3>1. CASE i < k
      BY <2>2, <3>1 DEF Packed
    <3>2. CASE ~(i < k)
      <4>1. NatOf(i, c) = c /\ NatOf(i + 1, c) = c
        BY <1>5, <3>2 DEF NatOf
      <4>. QED  BY <2>2, <3>2, <4>1 DEF Packed
    <3>. QED  BY <3>1, <3>2
  <2>4. V[i] = PosOf(i, c)
    BY <1>6, <2>2 DEF Packed
  <2>. QED  BY <2>1, <2>3, <2>4
<1>8. Walk' = V
  BY <1>3 DEF Walk
<1>. QED  BY <1>3, <1>5, <1>7, <1>8 DEF Packed

LEMMA OneInvNext ==
  ASSUME BlockInv, OneInv, [BlockNext]_blockvars
  PROVE  OneInv'
<1>. SUFFICES ASSUME NEW c \in {3, 4}, lengths' = {c}, (BlockLen - 6) % c # 0
              PROVE  ~broken' /\ Packed(c)'
  BY DEF OneInv
<1>1. CASE UNCHANGED blockvars
  <2>1. Walk' = Walk /\ mem' = mem /\ lengths' = lengths /\ broken' = broken
    BY <1>1 DEF Walk, blockvars
  <2>2. ~broken /\ Packed(c)
    BY <2>1 DEF OneInv
  <2>. QED  BY <2>1, <2>2 DEF Packed
<1>2. ASSUME NEW i \in Inode, NEW n \in lengths, AddRecord(i, n), ~broken
      PROVE  ~broken' /\ Packed(c)'
  <2>1. lengths' = lengths /\ broken' = broken
    BY <1>2 DEF AddRecord
  <2>2. n = c /\ Packed(c) /\ Good(mem, Walk)
    BY <1>2, <2>1 DEF OneInv, BlockInv
  <2>3. AddRecord(i, c)
    BY <1>2, <2>2
  <2>. QED  BY <1>2, <2>1, <2>2, <2>3, PackedAdd
<1>3. ASSUME NEW i \in Inode, RemoveRecord(i), ~broken
      PROVE  ~broken' /\ Packed(c)'
  <2>1. PICK k : k = Place(i)
    OBVIOUS
  <2>2. /\ i \in ToSet(Listing) /\ lengths' = lengths
        /\ mem' = IF k = Len(Walk) THEN MergeLast(k) ELSE MoveUp(k)
        /\ broken' \in BOOLEAN /\ (broken' <=> ListingOf(mem') # RemoveAt(Listing, k))
    BY <1>3, <2>1, RemovalSteps
  <2>3. Packed(c) /\ Good(mem, Walk)
    BY <1>3, <2>2 DEF OneInv, BlockInv
  <2>4. k \in 3 .. Len(Walk)
    BY <2>1, <2>2, <2>3, PlaceIs
  <2>5. Packed(c)' /\ ListingOf(mem') = RemoveAt(Listing, k)
    BY <2>2, <2>3, <2>4, PackedRemove
  <2>. QED  BY <2>2, <2>5
<1>. QED  BY <1>1, <1>2, <1>3 DEF BlockNext

\* With names of one length that do not fill the block to its last word no
\* removal goes wrong, which is what lets Ext2Tools see a block as its records.
THEOREM BlockOneLength == BlockSpec => []OneLengthExact
<1>1. ASSUME OneInv PROVE OneLengthExact
  BY <1>1 DEF OneInv, OneLengthExact, NameLen, Dot
<1>. QED  BY <1>1, BlockInvInit, BlockInvNext, PackedInit, OneInvNext, PTL DEF BlockSpec
=============================================================================
