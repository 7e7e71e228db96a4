---------------------------- MODULE FirstFitHeap ----------------------------
(***************************************************************************)
(* The first-fit allocator of mymemory_opt.c (and of cdf/mymemory.c).      *)
(***************************************************************************)
EXTENDS FreeListHeap

BadFirstFit(n) ==
  LET L == FreeList
      fitting == {i \in 2 .. Len(L) - 1 : Fits(size[L[i]], n)}
  IN  IF fitting = {} THEN Len(L) ELSE Min(fitting)

\* First fit over all the nodes but the last, which is taken if none does.
FirstFit(n) ==
  LET L == FreeList
      fitting == {i \in 1 .. Len(L) - 1 : Fits(size[L[i]], n)}
  IN  IF fitting = {} THEN Len(L) ELSE Min(fitting)

mymalloc(r) ==
  LET i == FirstFit(Words(r))
  IN  HandsOut(FreeList[i], r) /\ Carve(i, GrownSize(FreeList[i], Words(r)), Words(r))

mymallocFails(r) == CannotGrow(FreeList[FirstFit(Words(r))], Words(r))

----------------------------------------------------------------------------
(* A program that frees what it was given, once                            *)

HeapNext ==
  \/ \E r \in Request : mymalloc(r) \/ mymallocFails(r)
  \/ \E p \in Addr : myfree(p) \/ myfreeRefuses(p)
  \/ Dead

HeapSpec == HeapInit /\ [][HeapNext]_heapvars
=============================================================================
