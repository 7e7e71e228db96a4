----------------------------- MODULE TestMalloc -----------------------------
(***************************************************************************)
(* test_malloc.c: threads replay their traces on one allocator, which is   *)
(* any that keeps the contract of HeapContract.  The allocator locks; the  *)
(* driver's own record of the heap, max_heap, is shared without a lock.    *)
(*                                                                         *)
(* One step is one access to something shared: a call of the allocator, a  *)
(* call of sbrk(0), a read or a write of max_heap.                         *)
(***************************************************************************)
EXTENDS HeapContract, Sequences, FiniteSets

CONSTANTS
  Thread,     \* what main may create, as many as the trace file says
  Workload    \* what the file may hold, as load_trace stores it: for each
              \* thread its operations, none for one that is not created

VARIABLES
  trace,      \* the file of this run
  started,    \* main has read start_heap and initialised the allocator
  max_heap,   \* the largest end of the heap seen
  pc, i,      \* each thread's place: in dowork, and in its trace
  ptr, seen,  \* its locals: what mymalloc returned, what sbrk(0) did
  recorded,   \* tr.blocks: the pointers to free later
  reports     \* history: the "heap overflow" messages, with the block and
              \* whether it lay outside the heap at that moment

testvars == <<blocks, top, trace, started, max_heap, pc, i, ptr, seen, recorded,
              reports>>

Op(t) == trace[t][i[t]]
Index(t) == {trace[t][k].index : k \in 1 .. Len(trace[t])}
NULL == -1

\* load_trace reads unsigned numbers, and leaves the size of a FREE zero.
Operation == [type : {"MALLOC", "FREE"}, index : Nat, size : Nat]

ASSUME ThreadAssumption == IsFiniteSet(Thread)

\* An index is allocated once, and freed once at most, after that.
ASSUME TraceAssumption ==
  /\ Workload \subseteq [Thread -> Seq(Operation)]
  /\ \A w \in Workload, t \in Thread : \A k \in 1 .. Len(w[t]) :
       /\ \A j \in 1 .. k - 1 : w[t][j].index = w[t][k].index =>
            w[t][j].type = "MALLOC" /\ w[t][k].type = "FREE"
       /\ w[t][k].type = "FREE" =>
            \E j \in 1 .. k - 1 : w[t][j].index = w[t][k].index

TestInit ==
  /\ blocks = <<>> /\ top = 0
  /\ trace \in Workload
  /\ started = FALSE
  /\ max_heap = 0
  /\ pc = [t \in Thread |-> "op"]
  /\ i = [t \in Thread |-> 1]
  /\ ptr = [t \in Thread |-> NULL]
  /\ seen = [t \in Thread |-> 0]
  /\ recorded = [t \in Thread |-> [x \in Index(t) |-> NULL]]
  /\ reports = {}

locals == <<ptr, seen, recorded>>

\* main: start_heap is where the heap is now, address 0; mymalloc_init grows it.
Start ==
  /\ ~started
  /\ started' = TRUE
  /\ Grow
  /\ UNCHANGED <<blocks, trace, max_heap, pc, i, locals, reports>>

Goto(t, label) == pc' = [pc EXCEPT ![t] = label]
NextOp(t) == Goto(t, "op") /\ i' = [i EXCEPT ![t] = @ + 1]

Ready(t, type) ==
  /\ started
  /\ pc[t] = "op" /\ i[t] <= Len(trace[t])
  /\ Op(t).type = type

\* ptr = mymalloc(size).  A request of zero bytes gets a word.
CallMalloc(t) ==
  /\ Ready(t, "MALLOC")
  /\ Grow
  /\ \/ \E b \in 0 .. top' :
          /\ Malloc(b, IF Op(t).size = 0 THEN 1 ELSE Op(t).size)
          /\ ptr' = [ptr EXCEPT ![t] = b]
     \/ MallocFails /\ ptr' = [ptr EXCEPT ![t] = NULL]
  /\ Goto(t, "sbrk")
  /\ UNCHANGED <<trace, started, max_heap, i, seen, recorded, reports>>

\* update_heap: max_heap < sbrk(0), where the call comes before the read ...
CallSbrk(t) ==
  /\ pc[t] \in {"sbrk", "sbrk_again"}
  /\ seen' = [seen EXCEPT ![t] = top]
  /\ Goto(t, IF pc[t] = "sbrk" THEN "compare" ELSE "assign")
  /\ UNCHANGED <<blocks, top, trace, started, max_heap, i, ptr, recorded, reports>>

Compare(t) ==
  /\ pc[t] = "compare"
  /\ Goto(t, IF max_heap < seen[t] THEN "sbrk_again" ELSE "check")
  /\ UNCHANGED <<blocks, top, trace, started, max_heap, i, locals, reports>>

BadStored(t) == seen[t] + 1
Stored(t) == seen[t]

\* ... and max_heap = sbrk(0), which calls it again.
Assign(t) ==
  /\ pc[t] = "assign"
  /\ max_heap' = Stored(t)
  /\ Goto(t, "check")
  /\ UNCHANGED <<blocks, top, trace, started, i, locals, reports>>

\* A null pointer is reported, and the loop goes on.
BadAfterFailure(t) == Goto(t, "op") /\ UNCHANGED i
AfterFailure(t) == NextOp(t)

Record(t) == recorded' = [recorded EXCEPT ![t][Op(t).index] = ptr[t]]

EndOf(t) == ptr[t] + 1 + Op(t).size

\* The tests that follow an allocation.  A null pointer and a "heap overflow"
\* both leave the block unrecorded.
CheckBlock(t) ==
  /\ pc[t] = "check"
  /\ \/ /\ ptr[t] = NULL
        /\ AfterFailure(t)
        /\ UNCHANGED <<recorded, reports>>
     \/ /\ ptr[t] # NULL /\ EndOf(t) > max_heap
        /\ NextOp(t)
        /\ reports' = reports \cup {[thread |-> t, index |-> Op(t).index,
                                     outside |-> EndOf(t) > top]}
        /\ UNCHANGED recorded
     \/ /\ ptr[t] # NULL /\ EndOf(t) <= max_heap
        /\ NextOp(t)
        /\ Record(t)
        /\ UNCHANGED reports
  /\ UNCHANGED <<blocks, top, trace, started, max_heap, ptr, seen>>

BadToFree(t) == recorded[t][0]
ToFree(t) == recorded[t][Op(t).index]

\* myfree(tr.blocks[index]); the entry keeps the pointer.
CallFree(t) ==
  /\ Ready(t, "FREE")
  /\ ToFree(t) # NULL
  /\ Free(ToFree(t))
  /\ NextOp(t)
  /\ UNCHANGED <<trace, started, max_heap, ptr, seen, recorded, reports>>

\* myfree(NULL) reads the header in front of address zero: the process dies.
FreeNull(t) ==
  /\ Ready(t, "FREE")
  /\ ToFree(t) = NULL
  /\ pc' = [s \in Thread |-> "crashed"]
  /\ UNCHANGED <<blocks, top, trace, started, max_heap, i, locals, reports>>

ThreadStep(t) ==
  \/ CallMalloc(t) \/ CallSbrk(t) \/ Compare(t) \/ Assign(t)
  \/ CheckBlock(t) \/ CallFree(t) \/ FreeNull(t)

Finished(t) == pc[t] = "op" /\ i[t] > Len(trace[t])
Crashed == \A t \in Thread : pc[t] = "crashed"
AllJoined == Crashed \/ \A t \in Thread : Finished(t)

TestNext ==
  \/ Start
  \/ \E t \in Thread : ThreadStep(t)
  \/ AllJoined /\ UNCHANGED testvars

\* The scheduler runs every thread that can run.
TestSpec ==
  /\ TestInit /\ [][TestNext]_testvars
  /\ WF_testvars(Start) /\ \A t \in Thread : WF_testvars(ThreadStep(t))

----------------------------------------------------------------------------
(* Properties                                                              *)

TestTypeOK ==
  /\ trace \in Workload
  /\ top \in 0 .. HeapLimit /\ max_heap \in 0 .. HeapLimit
  /\ \A b \in DOMAIN blocks : b \in 0 .. HeapLimit /\ blocks[b] \in 1 .. HeapLimit
  /\ pc \in [Thread -> {"op", "sbrk", "compare", "sbrk_again", "assign", "check",
                        "crashed"}]
  /\ i \in [Thread -> Nat]
  /\ ptr \in [Thread -> NULL .. HeapLimit] /\ seen \in [Thread -> 0 .. HeapLimit]
  /\ DOMAIN recorded = Thread
  /\ \A t \in Thread :
       /\ i[t] \in 1 .. Len(trace[t]) + 1
       /\ recorded[t] \in [Index(t) -> NULL .. HeapLimit]

\* The indices a thread has recorded and not yet freed.
Pending(t) ==
  {x \in Index(t) :
     /\ recorded[t][x] # NULL
     /\ \A k \in 1 .. i[t] - 1 : trace[t][k].index = x => trace[t][k].type = "MALLOC"}

\* What a thread is going to free is a block, of the size it asked for, that
\* no thread, itself included, holds under another index: not even a stale
\* max_heap makes two threads free one block.
PendingBlocksOwned ==
  \A t, u \in Thread : \A x \in Pending(t), y \in Pending(u) :
    /\ recorded[t][x] \in DOMAIN blocks
    /\ <<t, x>> # <<u, y>> => recorded[t][x] # recorded[u][y]

\* With one thread no block is ever reported outside the heap, and between
\* two operations max_heap, which main prints as the heap's extent, is it.
OneThreadAccurate ==
  Cardinality({t \in Thread : trace[t] # <<>>}) = 1 =>
    /\ reports = {}
    /\ \A t \in Thread : pc[t] = "op" /\ i[t] > 1 => max_heap = top

\* "Check for heap overflow": a block that is reported is outside the heap.
\* With two threads it need not be: one stores in max_heap an end of the heap
\* it read before the other made the heap grow.
OverflowIsReal == \A r \in reports : r.outside

\* main's joins return: every trace is replayed, or the process is dead.
EventuallyJoined == <>AllJoined
=============================================================================
