---------------------------- MODULE HeapContract ----------------------------
(***************************************************************************)
(* What A1 promises of mymalloc and myfree, whichever allocator is linked: *)
(* blocks that do not overlap, inside the heap, and that stay where they   *)
(* are until they are freed.  The heap grows for a block, and may shrink   *)
(* when one is freed.  Addresses are in words, and a block is named by the *)
(* word before its payload.                                                *)
(***************************************************************************)
EXTENDS Integers, Functions

CONSTANT HeapLimit   \* words the system lets the heap have

ASSUME LimitAssumption == HeapLimit \in Nat

VARIABLES
  blocks,   \* the words of each block that is out
  top       \* the end of the heap

contractvars == <<blocks, top>>

Payload(b, n) == b + 1 .. b + n

ContractInit == blocks = <<>> /\ top \in 0 .. HeapLimit

\* The heap grows, if it must, as far as the system allows.
Grow == \E t \in top .. HeapLimit : top' = t

\* mymalloc hands out n words at b.
Malloc(b, n) ==
  /\ b \notin DOMAIN blocks
  /\ Payload(b, n) \subseteq 0 .. top' - 1
  /\ \A c \in DOMAIN blocks : Payload(b, n) \cap Payload(c, blocks[c]) = {}
  /\ blocks' = [c \in DOMAIN blocks \cup {b} |-> IF c = b THEN n ELSE blocks[c]]

\* mymalloc returns NULL; the heap may have grown all the same.
MallocFails == UNCHANGED blocks

\* myfree of a block that is out.
Released(b) ==
  /\ b \in DOMAIN blocks
  /\ blocks' = Restrict(blocks, DOMAIN blocks \ {b})

\* The allocators test_malloc.c is linked with keep what they got from sbrk.
Free(b) == Released(b) /\ UNCHANGED top

\* Others give the end of the heap back, behind every block that is out.
FreeAndShrink(b) ==
  /\ Released(b)
  /\ top' \in 0 .. top - 1
  /\ \A c \in DOMAIN blocks' : Payload(c, blocks[c]) \subseteq 0 .. top' - 1

ContractNext ==
  \/ /\ Grow
     /\ MallocFails \/ \E b \in 0 .. top', n \in 1 .. top' : Malloc(b, n)
  \/ \E b \in DOMAIN blocks : Free(b) \/ FreeAndShrink(b)

ContractSpec == ContractInit /\ [][ContractNext]_contractvars
=============================================================================
