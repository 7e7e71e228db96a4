----------------------------- MODULE Simulator -----------------------------
(***************************************************************************)
(* sim.c's main: the algorithm named by option -a is looked up in algs,    *)
(* its init_fcn runs once, and the trace is replayed with its ref_fcn and  *)
(* evict_fcn.  The algorithm rand, whose evict_fcn may name any frame, is  *)
(* PageTable itself.  The state of the other algorithms is never touched.  *)
(* Beside the set of slots that PageTable keeps runs the bitmap of swap.c  *)
(* it stands for: a page that gets its first slot has called bitmap_alloc. *)
(***************************************************************************)
EXTENDS FifoReplacement, LruReplacement, ClockReplacement, OptReplacement

CONSTANT BitsPerWord   \* the bits of a word of the swap bitmap

ASSUME GarbageAssumption == Garbage \subseteq Nat /\ Garbage # {}
ASSUME BitsPerWordAssumption == BitsPerWord \in Nat \ {0}

VARIABLES
  alg,      \* the algorithm of this run
  bitmap    \* swap.c

fifostate == to_go
clockstate == <<clock_pointer, ref, recent>>
optstate == <<trace, buf_trace, curr_trace>>
simvars == <<vars, order, alg, bitmap, fifostate, counter, stamp, clockstate, optstate>>

Bitmap == INSTANCE SwapBitmap WITH nbits <- SwapSize

FifoIdle == to_go = -1
LruIdle == counter = 0
ClockIdle ==
  clock_pointer = 0 /\ ref = [p \in Page |-> 0] /\ recent = {}
OptIdle == trace = <<>> /\ buf_trace = <<>> /\ curr_trace = 0
NoStamps == stamp = [p \in Page |-> 0]

NoOrder == order = <<>>

AlgInit ==
  \/ alg = "rand" /\ Init /\ NoOrder /\ FifoIdle /\ LruIdle /\ NoStamps
       /\ ClockIdle /\ OptIdle
  \/ alg = "fifo" /\ FifoInit /\ LruIdle /\ NoStamps /\ ClockIdle /\ OptIdle
  \/ alg = "lru" /\ LruInit /\ FifoIdle /\ ClockIdle /\ OptIdle
  \/ alg = "clock" /\ ClockInit /\ FifoIdle /\ LruIdle /\ NoStamps /\ OptIdle
  \/ alg = "opt" /\ OptInit /\ FifoIdle /\ LruIdle /\ ClockIdle

SimInit == AlgInit /\ bitmap = Bitmap!bitmap_create

\* swap_pageout calls bitmap_alloc for a page that has no slot yet.
TakesSlot ==
  \E p \in Page : pte[p].swap_off = INVALID_SWAP /\ pte'[p].swap_off # INVALID_SWAP

SimNext ==
  /\ \/ /\ alg = "rand" /\ Next
        /\ UNCHANGED <<order, fifostate, counter, stamp, clockstate, optstate>>
     \/ /\ alg = "fifo" /\ FifoNext
        /\ UNCHANGED <<counter, stamp, clockstate, optstate>>
     \/ /\ alg = "lru" /\ LruNext
        /\ UNCHANGED <<fifostate, clockstate, optstate>>
     \/ /\ alg = "clock" /\ ClockNext
        /\ UNCHANGED <<fifostate, counter, stamp, optstate>>
     \/ /\ alg = "opt" /\ OptNext
        /\ UNCHANGED <<fifostate, counter, clockstate>>
  /\ bitmap' = IF TakesSlot THEN Bitmap!bitmap_alloc(bitmap) ELSE bitmap
  /\ UNCHANGED alg

SimSpec == SimInit /\ [][SimNext]_simvars

----------------------------------------------------------------------------
(* Properties                                                              *)

\* The words of the bitmap are the set of slots the page table is judged by,
\* and bitmap_alloc answers as that set says: the first clear slot, never a
\* leftover bit of the last word, and none only when every slot is taken.
BitmapIsSwapmap ==
  /\ Bitmap!Marked(bitmap) \cap Slot = swapmap
  /\ Bitmap!Allocated(bitmap) =
       IF ClearSlots = {} THEN Bitmap!NoBit ELSE Min(ClearSlots)

\* fifo.c: "Page to evict is chosen using the fifo algorithm", although its
\* hand knows nothing of when a frame was filled.
FirstInFirstOut == [][alg = "fifo" => EvictsFirstIn]_simvars

\* lru.c: the victim is the page whose last reference is the oldest, whatever
\* the entries' stamps held before their first reference.
LeastRecentlyUsed == [][alg = "lru" => EvictsLeastRecent]_simvars

\* clock.c: a page referenced since the last fault gets a second chance,
\* unless every page in memory has its bit set.
SecondChance == [][alg = "clock" => SparesRecent]_simvars

\* opt.c on a zeroed buffer, the usual case of a large malloc, is LRU among
\* the pages outside frame 0, and frame 0 is never freed.
LruButFrameZero ==
  [][alg = "opt" /\ Garbage = {0} => EvictsLeastRecentButFrameZero]_simvars

\* opt.c: "Page to evict is chosen using the optimal (aka MIN) algorithm", the
\* page whose own next reference is farthest away.
FarthestNextUse == alg = "opt" => VictimIsFarthest
=============================================================================
