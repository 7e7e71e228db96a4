----------------------------- MODULE Allocators -----------------------------
(***************************************************************************)
(* The allocators of A1, each linked with a program that frees what it was *)
(* given, once.  The state of those that are not linked is never touched.  *)
(***************************************************************************)
EXTENDS FirstFitHeap, BestFitHeap

CONSTANTS
  ListRequest,   \* the sizes my_bestfit_malloc is called with, in bytes
  ListLimit      \* words the system lets its heap have

ASSUME ListRequestAssumption == ListRequest \subseteq Nat
ASSUME ListLimitAssumption == ListLimit \in Nat /\ ListLimit >= 4

VARIABLES
  linked,                        \* the allocator of this program
  first_node, last_node, node    \* bestfit-malloc.c

freeliststate == <<head, size, next, magic>>
liststate == <<first_node, last_node, node>>
allocvars == <<heapvars, linked, liststate>>

List == INSTANCE OneListHeap

FreeListIdle ==
  head = 0 /\ size = [a \in Addr |-> 0] /\ next = [a \in Addr |-> NULL]
    /\ magic = {}

\* The globals of bestfit-malloc.c as a program that does not call it has them.
ListIdle == first_node = NULL /\ last_node = NULL /\ node = <<>>

AllocInit ==
  \/ linked \in {"first_fit", "best_fit"} /\ HeapInit /\ ListIdle
  \/ linked = "one_list" /\ List!ListInit /\ FreeListIdle

\* The head of the list is a block that is out: its next field is the
\* program's data, and nothing more can be said of the allocator.
HeadLost == linked # "one_list" /\ head \in DOMAIN live

AllocNext ==
  \/ /\ linked = "first_fit" /\ HeapNext
     /\ UNCHANGED <<linked, liststate>>
  \/ /\ linked = "best_fit" /\ ~HeadLost /\ BestFitNext
     /\ UNCHANGED <<linked, liststate>>
  \/ /\ linked = "one_list" /\ List!ListNext
     /\ UNCHANGED <<linked, freeliststate>>
  \/ HeadLost /\ UNCHANGED allocvars

AllocSpec == AllocInit /\ [][AllocNext]_allocvars

----------------------------------------------------------------------------
(* Properties                                                              *)

OneList == linked = "one_list"

AllocTypeOK ==
  /\ linked \in {"first_fit", "best_fit", "one_list"}
  /\ IF OneList THEN List!ListTypeOK ELSE TypeOK

\* Blocks and free memory tile the heap: nothing overlaps, nothing is lost,
\* through every split, merge, growth and, with one list, return of memory.
Tiled ==
  CASE HeadLost -> TRUE
    [] OneList -> List!Running => List!ListTiled
    [] OTHER -> HeapTiled

\* The list is in address order with each node once, and ends as mymalloc and
\* myfree rely on without a test: with the top of the heap, not empty, where
\* sbrk is called; with one list, with a node in use, so that a free node
\* always has one after it to tell.
EndsAsAssumed ==
  CASE HeadLost -> TRUE
    [] OneList -> List!Running => List!ListInOrder
    [] OTHER -> TopIsLast

\* Nothing an allocator writes for itself touches the header of a block that
\* is out, and the block is as large as was asked, whatever node it came from;
\* and the int that holds a size holds all of it.
BlocksIntact ==
  IF OneList
  THEN \A b \in DOMAIN live :
         /\ node[b].used = 1 /\ node[b].size = live[b].words + List!sizeof_node
         /\ live[b].asked <= 8 * live[b].words
  ELSE HeadersIntact /\ BlockHoldsRequest /\ (HeadLost \/ SizesAreInts)

\* The free nodes that would do for n words, with their header.
Serving(n) ==
  IF OneList THEN {a \in List!FreeOnes : node[a].size >= n + List!sizeof_node}
  ELSE {a \in FreeNodes : Fits(size[a], n)}

\* The heap grows only for a block that no free node can hold, and gets
\* smaller only with one list, when a block is freed.
HeapMovesForCause ==
  [][/\ brk' > brk => \A b \in DOMAIN live' \ DOMAIN live : Serving(live'[b].words) = {}
     /\ brk' < brk => OneList /\ DOMAIN live' # DOMAIN live]_allocvars

\* The words of the blocks that are out, by the word before their memory.
BlocksOut ==
  IF OneList THEN [b \in {a + 1 : a \in DOMAIN live} |-> live[b - 1].words]
  ELSE [b \in DOMAIN live |-> live[b].words]

MostWords == IF HeapLimit > ListLimit THEN HeapLimit ELSE ListLimit

\* The blocks and the end of the heap, through every call, are those of a
\* heap that keeps its contract, until an assertion or a crash ends the
\* program or best fit loses its head.
Contract ==
  INSTANCE HeapContract WITH HeapLimit <- MostWords, blocks <- BlocksOut, top <- brk
KeepsContract == Contract!ContractSpec

\* mymemory_best_fit.c: "if the best_fit_node is the head node, we don't care
\* about best_fit_node_prev"; but the test comes when it has been moved to the
\* rest, so head stays on the block handed out.  It does exactly when best fit
\* takes the first node of a longer list; first fit never loses its head.
HeadLostByBestFit ==
  [][~OneList /\ ~HeadLost =>
       (HeadLost' <=> /\ linked = "best_fit" /\ Len(FreeList) > 1
                      /\ head \in DOMAIN live')]_allocvars

\* bestfit-malloc.c follows pointers to neighbours without testing them.  The
\* only one that is ever bad is what sbrk answered to the first request: "if
\* there is no more space in the heap [...] it returns a NULL pointer" is true
\* of that call, and the next one follows it.
CrashesOnlyAfterFirstFailure ==
  outcome = "crashed" => first_node = List!FAILED
=============================================================================
