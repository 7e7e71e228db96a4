---------------------------- MODULE FreeListHeap ----------------------------
(***************************************************************************)
(* What the allocators of A1 share, mymemory_opt.c and                     *)
(* cdf/mymemory_best_fit.c: one heap grown with sbrk, a list of free nodes *)
(* linked through the free memory itself, and myfree.  How mymalloc        *)
(* chooses a node is in the modules that extend this one.  Each call holds *)
(* the one mutex from its first line to every return, so it is one step.   *)
(*                                                                         *)
(* Memory is counted in words of 8 bytes, the unit every size and address  *)
(* is a multiple of.  A block is a header of one word {size, magic} and    *)
(* its payload; a free node is two words {size, next} and the space it     *)
(* owns.  The size fields of the two are the same four bytes; the four     *)
(* bytes of magic are padding in a node and survive there.                 *)
(*                                                                         *)
(* An operator named Bad... is a fault of one line, next to the operator   *)
(* it would replace.                                                       *)
(***************************************************************************)
EXTENDS Integers, Sequences, FiniteSets, FiniteSetsExt, Functions

CONSTANTS
  Request,     \* the sizes mymalloc is called with, in bytes
  UIntMod,     \* unsigned int is arithmetic modulo UIntMod
  Chunk,       \* words got by sbrk(4096)
  HeapLimit    \* words the system lets the heap have

ASSUME UIntAssumption == UIntMod \in Nat /\ UIntMod > 8 /\ UIntMod % 8 = 0
ASSUME RequestAssumption == Request \subseteq 0 .. UIntMod - 1
ASSUME ChunkAssumption == Chunk \in Nat /\ Chunk > 2
ASSUME HeapLimitAssumption == HeapLimit \in Nat /\ HeapLimit >= Chunk

\* The size fields are int: the system grants no heap of more than 2^31 bytes.
\* A request is unsigned int and may be larger; no node serves it.
ASSUME IntAssumption == 2 * (8 * HeapLimit) <= UIntMod

VARIABLES
  head,       \* the first free node
  brk,        \* the end of the heap, what sbrk(0) answers
  size,       \* the size field of each word that is a node or a header
  next,       \* the next field of each word that is a node
  magic,      \* the words whose second half is the magic number
  live,       \* history: the blocks handed out and not freed, by address
              \* of the header, with the bytes asked for and the words got
  outcome     \* "aborted" after a failed assertion

heapvars == <<head, brk, size, next, magic, live, outcome>>

Addr == 0 .. HeapLimit - 1
NULL == -1
HEADER_T_SIZE == 1
NODE_T_SIZE == 2

TypeOK ==
  /\ head \in Addr
  /\ brk \in Addr \cup {HeapLimit}
  /\ size \in [Addr -> Nat]
  /\ next \in [Addr -> Addr \cup {NULL}]
  /\ magic \subseteq Addr
  /\ DOMAIN live \subseteq magic
  /\ \A b \in DOMAIN live : live[b] \in [asked : Request, words : Nat \ {0}]
  /\ outcome \in {"ok", "aborted"}

\* mymalloc_init: the first chunk is one free node.
HeapInit ==
  /\ head = 0
  /\ brk = Chunk
  /\ size = [a \in Addr |-> IF a = 0 THEN Chunk - NODE_T_SIZE ELSE 0]
  /\ next = [a \in Addr |-> NULL]
  /\ magic = {}
  /\ live = <<>>
  /\ outcome = "ok"

----------------------------------------------------------------------------
(* The free list                                                           *)

Walk ==
  LET node[i \in 1 .. HeapLimit \div NODE_T_SIZE] ==
        IF i = 1 THEN head
        ELSE IF node[i - 1] = NULL THEN NULL ELSE next[node[i - 1]]
  IN node

\* The nodes from head on, in the order the next pointers give.
FreeList == SubSeq(Walk, 1, Cardinality({i \in DOMAIN Walk : Walk[i] # NULL}))
FreeNodes == Range(FreeList)

NodeEnd(a) == a + NODE_T_SIZE + size[a]

----------------------------------------------------------------------------
(* mymalloc                                                                *)

\* Rounding up to a word is unsigned arithmetic: it takes the largest sizes
\* to zero, and zero to one word.
Rounded(s) ==
  LET r == IF s % 8 = 0 THEN s ELSE (s - (s % 8) + 8) % UIntMod
  IN  IF r = 0 THEN 8 ELSE r
Words(s) == Rounded(s) \div 8

\* A node serves a block if a node of at least one word is left after it.  (For
\* a node of size zero the subtraction wraps, in C, and the test is repeated
\* with <= 0 for every node but the last, which is never empty.)
BadFits(s, n) == s + HEADER_T_SIZE > n
Fits(s, n) == s - HEADER_T_SIZE > n

\* The block is cut from the front of the node, the rest stays in its place
\* in the list.  The pointer of the new node overwrites the second word.
Remainder(s, n) == s - n - HEADER_T_SIZE

Carve(i, s, n) ==
  LET L == FreeList
      a == L[i]
      rest == a + HEADER_T_SIZE + n
  IN  /\ size' = [size EXCEPT ![a] = n, ![rest] = Remainder(s, n)]
      /\ magic' = (magic \cup {a}) \ {rest + 1}
      /\ IF i = 1
         THEN /\ head' = rest
              /\ next' = [next EXCEPT ![a] = NULL, ![rest] = next[a]]
         ELSE /\ next' = [next EXCEPT ![a] = NULL, ![rest] = next[a],
                                      ![L[i - 1]] = rest]
              /\ UNCHANGED head

\* The calls of sbrk(4096) that would make node a serve n words, of those the
\* system grants.
MostChunks == (HeapLimit - brk) \div Chunk
Enough(a, n) == {g \in 0 .. MostChunks : Fits(size[a] + g * Chunk, n)}
GrownSize(a, n) == size[a] + Min(Enough(a, n)) * Chunk

\* The process runs until an assertion fails.
Running == outcome = "ok"

\* The request r is served from node a, after the heap has grown if it must.
HandsOut(a, r) ==
  /\ Running
  /\ Enough(a, Words(r)) # {}
  /\ brk' = brk + Min(Enough(a, Words(r))) * Chunk
  /\ live' = [b \in DOMAIN live \cup {a} |->
                IF b = a THEN [asked |-> r, words |-> Words(r)] ELSE live[b]]
  /\ UNCHANGED outcome

\* sbrk fails, perhaps after granting some chunks: the node keeps them.
CannotGrow(a, n) ==
  /\ Running
  /\ Enough(a, n) = {}
  /\ brk' = brk + MostChunks * Chunk
  /\ size' = [size EXCEPT ![a] = @ + MostChunks * Chunk]
  /\ UNCHANGED <<head, next, magic, live, outcome>>

----------------------------------------------------------------------------
(* myfree, of the block with its header at p                               *)

BadAsNode(p) == size[p] + HEADER_T_SIZE

\* What the block at p owns once it is a node.
AsNode(p) == size[p] + HEADER_T_SIZE - NODE_T_SIZE

TouchesHead(p) == p + HEADER_T_SIZE + size[p] = head

\* The only free node is the top of the heap, so p can only be below it:
\* next to it, or apart.
FreeIntoTop(p) ==
  /\ Len(FreeList) = 1
  /\ TouchesHead(p)
  /\ size' = [size EXCEPT ![p] = @ + HEADER_T_SIZE + size[head]]
  /\ next' = [next EXCEPT ![p] = NULL]
  /\ head' = p
  /\ magic' = magic \ {p + 1}

FreeBelowTop(p) ==
  /\ Len(FreeList) = 1
  /\ ~TouchesHead(p) /\ AsNode(p) > 0
  /\ size' = [size EXCEPT ![p] = AsNode(p)]
  /\ next' = [next EXCEPT ![p] = head]
  /\ head' = p
  /\ magic' = magic \ {p + 1}

\* assert(block_size > 0), which a block of one word does not pass here.
AssertionFails(p) ==
  \/ size[p] = 0
  \/ Len(FreeList) = 1 /\ ~TouchesHead(p) /\ AsNode(p) = 0

\* With more nodes: the first pair of neighbours in the list of which p
\* touches one at least.  Only the end of the last node is looked at, and
\* the start of the first never is.
Above(i, p) == NodeEnd(FreeList[i]) = p
Below(i, p) == p + NODE_T_SIZE + AsNode(p) = FreeList[i]
Touching(p) ==
  {i \in 1 .. Len(FreeList) :
     Above(i, p) \/ (i < Len(FreeList) /\ Below(i + 1, p))}

\* Joined to the node before it, the node after it, or both.
FreeJoined(p) ==
  LET L == FreeList
      i == Min(Touching(p))
      c == L[i]
      d == L[i + 1]
      both == Above(i, p) /\ i < Len(L) /\ Below(i + 1, p)
  IN  /\ Len(L) > 1
      /\ Touching(p) # {}
      /\ \/ /\ both
            /\ size' = [size EXCEPT ![c] =
                 @ + NODE_T_SIZE + AsNode(p) + NODE_T_SIZE + size[d]]
            /\ next' = [next EXCEPT ![c] = next[d], ![d] = NULL]
            /\ UNCHANGED magic
         \/ /\ Above(i, p) /\ ~both
            /\ size' = [size EXCEPT ![c] = @ + NODE_T_SIZE + AsNode(p)]
            /\ UNCHANGED <<next, magic>>
         \/ /\ ~Above(i, p)
            /\ size' = [size EXCEPT ![p] = AsNode(p) + NODE_T_SIZE + size[d]]
            /\ next' = [next EXCEPT ![d] = NULL, ![p] = next[d], ![c] = p]
            /\ magic' = magic \ {p + 1}
      /\ UNCHANGED head

\* Touching none: inserted where its address belongs.
Place(p) ==
  LET L == FreeList
      between == {i \in 1 .. Len(L) - 1 : L[i] < p /\ p < L[i + 1]}
  IN  IF between = {} THEN Len(L) ELSE Min(between)

FreeInserted(p) ==
  /\ Len(FreeList) > 1
  /\ Touching(p) = {}
  /\ size' = [size EXCEPT ![p] = AsNode(p)]
  /\ magic' = magic \ {p + 1}
  /\ IF p < head
     THEN /\ head' = p
          /\ next' = [next EXCEPT ![p] = head]
     ELSE /\ next' = [next EXCEPT ![FreeList[Place(p)]] = p,
                                  ![p] = next[FreeList[Place(p)]]]
          /\ UNCHANGED head

Release(p) ==
  /\ size[p] > 0
  /\ FreeIntoTop(p) \/ FreeBelowTop(p) \/ FreeJoined(p) \/ FreeInserted(p)

Abort ==
  /\ outcome' = "aborted"
  /\ UNCHANGED <<head, size, next, magic>>

\* The pointer is one mymalloc returned.
myfree(p) ==
  /\ Running
  /\ p \in DOMAIN live
  /\ p \in magic
  /\ \/ Release(p) /\ UNCHANGED outcome
     \/ AssertionFails(p) /\ Abort
  /\ live' = Restrict(live, DOMAIN live \ {p})
  /\ UNCHANGED brk

\* The magic number is not there: "not a valid pointer".
myfreeRefuses(p) ==
  /\ Running
  /\ p \notin magic
  /\ UNCHANGED heapvars

Dead == ~Running /\ UNCHANGED heapvars

----------------------------------------------------------------------------
(* Properties                                                              *)

\* The words of a block that is out, or of a free node.
BlockEnd(b) == b + HEADER_T_SIZE + live[b].words
Span(a) == a .. (IF a \in DOMAIN live THEN BlockEnd(a) ELSE NodeEnd(a)) - 1

\* Blocks and free nodes tile the heap: nothing overlaps, nothing is lost,
\* through every split, merge and growth.
HeapTiled ==
  outcome # "aborted" =>
    /\ FreeNodes \cap DOMAIN live = {}
    /\ UNION {Span(a) : a \in FreeNodes \cup DOMAIN live} = 0 .. brk - 1
    /\ \A a, c \in FreeNodes \cup DOMAIN live : a # c => Span(a) \cap Span(c) = {}

\* The list is in address order, each node once, and its last node is the
\* top of the heap and not empty: that node is the one sbrk extends, and a
\* list of one node has every block below it.
TopIsLast ==
  LET L == FreeList
      top == L[Len(L)]
  IN  /\ \A i \in 1 .. Len(L) - 1 : L[i] < L[i + 1]
      /\ next[top] = NULL
      /\ NodeEnd(top) = brk /\ size[top] > 0

\* Nothing the allocator writes for itself touches the header of a block
\* that is out: myfree will see the magic number and the size it was given.
HeadersIntact ==
  \A b \in DOMAIN live : b \in magic /\ size[b] = live[b].words

\* No block that is out and no free node has a size that is not an int: what
\* mymalloc stores of an unsigned request, and what growing and merging add up
\* to, is what myfree and the walk read back, and never negative.
SizesAreInts ==
  outcome # "aborted" =>
    \A a \in FreeNodes \cup DOMAIN live : 2 * (8 * size[a]) < UIntMod

\* "size: the number of bytes to allocate": a block is as large as was asked,
\* whatever node it came from, for every size that rounding up does not wrap.
BlockHoldsRequest ==
  \A b \in DOMAIN live :
    live[b].asked + 7 < UIntMod => live[b].asked <= 8 * size[b]

\* "0 if the memory was successfully freed and 1 otherwise": freeing a block
\* does not end the program.  A block of one word that is not next to the
\* only free node fails an assertion.
FreeReturns == outcome # "aborted"
=============================================================================
