---------------------------- MODULE BestFitHeap ----------------------------
(***************************************************************************)
(* The best-fit allocator of cdf/mymemory_best_fit.c (and of               *)
(* cdf/mymemory_opt.c), whose mymalloc is bestmalloc here; myfree is the   *)
(* same as the first-fit allocator's.                                      *)
(***************************************************************************)
EXTENDS FreeListHeap

\* The smallest node that fits, the first of several, among all but the last;
\* the last if it is smaller still and fits, or if no other does.
BestFit(n) ==
  LET L == FreeList
      last == Len(L)
      fitting == {i \in 1 .. last - 1 : Fits(size[L[i]], n)}
      smallest == {i \in fitting : \A j \in fitting : size[L[i]] <= size[L[j]]}
  IN  IF fitting = {} THEN last
      ELSE IF size[L[last]] < size[L[Min(smallest)]] /\ Fits(size[L[last]], n)
           THEN last
           ELSE Min(smallest)

BadCarveBest(i, n) ==
  LET a == head
      rest == a + HEADER_T_SIZE + n
      got == GrownSize(a, n)
  IN  IF i = 1
      THEN /\ size' = [size EXCEPT ![a] = n, ![rest] = Remainder(got, n)]
           /\ magic' = (magic \cup {a}) \ {a + 1, rest + 1}
           /\ next' = [next EXCEPT ![a] = rest, ![rest] = next[a]]
           /\ UNCHANGED head
      ELSE Carve(i, GrownSize(FreeList[i], n), n)

\* best_fit_node is moved to the rest of the node before it is compared with
\* head, so a head chosen from a longer list is never found to be the head:
\* its next field is set as that of the node before it, and head stays.
CarveBest(i, n) ==
  LET a == head
      rest == a + HEADER_T_SIZE + n
  IN  IF i = 1 /\ Len(FreeList) > 1
      THEN /\ size' = [size EXCEPT ![a] = n, ![rest] = Remainder(size[a], n)]
           /\ magic' = (magic \cup {a}) \ {a + 1, rest + 1}
           /\ next' = [next EXCEPT ![a] = rest, ![rest] = next[a]]
           /\ UNCHANGED head
      ELSE Carve(i, GrownSize(FreeList[i], n), n)

bestmalloc(r) ==
  LET i == BestFit(Words(r))
  IN  HandsOut(FreeList[i], r) /\ CarveBest(i, Words(r))

bestmallocFails(r) == CannotGrow(FreeList[BestFit(Words(r))], Words(r))

BestFitNext ==
  \/ \E r \in Request : bestmalloc(r) \/ bestmallocFails(r)
  \/ \E p \in Addr : myfree(p) \/ myfreeRefuses(p)
  \/ Dead

BestFitSpec == HeapInit /\ [][BestFitNext]_heapvars
=============================================================================
