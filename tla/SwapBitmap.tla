----------------------------- MODULE SwapBitmap -----------------------------
(***************************************************************************)
(* The bitmap of swap.c, word by word.  A word is the set of the offsets   *)
(* of its bits that are set.  (bitmap_mark, bitmap_unmark and bitmap_isset *)
(* are never called.)                                                      *)
(***************************************************************************)
EXTENDS Integers, FiniteSetsExt

CONSTANTS
  nbits,         \* the slots of the swap file
  BitsPerWord    \* the bits of an unsigned

DIVROUNDUP(a, b) == (a + b - 1) \div b
Words == DIVROUNDUP(nbits, BitsPerWord)
Offset == 0 .. BitsPerWord - 1
NoBit == -1

\* The last word has leftover bits if the division left a remainder.
Leftover(ix) == ix = Words - 1 /\ Words > nbits \div BitsPerWord

BadBitmapCreate == [ix \in 0 .. Words - 1 |-> {}]

\* The leftover bits are marked in use, so that no search ever answers one.
bitmap_create ==
  [ix \in 0 .. Words - 1 |->
     {j \in Offset : Leftover(ix) /\ ix * BitsPerWord + j >= nbits}]

\* The words bitmap_alloc does not pass over, and where it looks in one.
NotFull(v) == {ix \in DOMAIN v : v[ix] # Offset}
FirstClear(v) == LET ix == Min(NotFull(v)) IN <<ix, Min(Offset \ v[ix])>>

\* The index it answers; it returns 1 and answers none if all bits are set.
Allocated(v) ==
  IF NotFull(v) = {} THEN NoBit
  ELSE FirstClear(v)[1] * BitsPerWord + FirstClear(v)[2]

bitmap_alloc(v) ==
  IF NotFull(v) = {} THEN v
  ELSE [v EXCEPT ![FirstClear(v)[1]] = @ \cup {FirstClear(v)[2]}]

\* The bits that are set, by index.
Marked(v) ==
  {i \in 0 .. Words * BitsPerWord - 1 :
     i % BitsPerWord \in v[i \div BitsPerWord]}
=============================================================================
