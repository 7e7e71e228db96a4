--------------------------- MODULE Threads_proofs ---------------------------
(***************************************************************************)
(* Proofs about the programs that run threads: the trace driver over any   *)
(* allocator that keeps the contract, for every set of threads, every      *)
(* trace and every heap limit; and the two demonstrations.                 *)
(***************************************************************************)
EXTENDS TestMalloc, ThreadDemos, FiniteSetTheorems, TLAPS

USE DEF NULL

----------------------------------------------------------------------------
(* The contract                                                            *)

\* Every block lies inside the heap, and it has at least a word.
BlocksInHeap ==
  /\ top \in 0 .. HeapLimit
  /\ \A b \in DOMAIN blocks :
       b \in Nat /\ blocks[b] \in Nat \ {0} /\ b + blocks[b] < top

\* No word is in two blocks.
BlocksApart ==
  \A b, c \in DOMAIN blocks :
    b # c => Payload(b, blocks[b]) \cap Payload(c, blocks[c]) = {}

\* A block that is handed out is the only change, and it fits.
LEMMA MallocKeeps ==
  ASSUME BlocksInHeap, BlocksApart, Grow,
         NEW b \in Nat, NEW n \in Nat \ {0}, Malloc(b, n)
  PROVE  /\ BlocksInHeap' /\ BlocksApart'
         /\ b \notin DOMAIN blocks /\ DOMAIN blocks' = DOMAIN blocks \cup {b}
         /\ b + n < top'
<1>1. top' \in top .. HeapLimit /\ top' \in 0 .. HeapLimit
  BY LimitAssumption DEF Grow, BlocksInHeap
<1>2. b + n < top'
  <2>1. b + n \in Payload(b, n)
    BY DEF Payload
  <2>. QED  BY <1>1, <2>1, LimitAssumption DEF Malloc
<1>3. /\ b \notin DOMAIN blocks /\ DOMAIN blocks' = DOMAIN blocks \cup {b}
      /\ blocks'[b] = n /\ \A c \in DOMAIN blocks : blocks'[c] = blocks[c]
  BY DEF Malloc
<1>4. BlocksInHeap'
  BY <1>1, <1>2, <1>3, LimitAssumption DEF BlocksInHeap
<1>5. BlocksApart'
  BY <1>3 DEF BlocksApart, Malloc
<1>. QED  BY <1>2, <1>3, <1>4, <1>5

\* The other steps of the contract create no block.
LEMMA OthersKeep ==
  ASSUME BlocksInHeap, BlocksApart,
         \/ Grow /\ UNCHANGED blocks
         \/ \E b \in DOMAIN blocks : Free(b) \/ FreeAndShrink(b)
         \/ UNCHANGED contractvars
  PROVE  BlocksInHeap' /\ BlocksApart'
<1>1. CASE Grow /\ UNCHANGED blocks
  BY <1>1, LimitAssumption DEF BlocksInHeap, BlocksApart, Grow
<1>2. ASSUME NEW b \in DOMAIN blocks, Released(b)
      PROVE  /\ DOMAIN blocks' \subseteq DOMAIN blocks
             /\ \A c \in DOMAIN blocks' : blocks'[c] = blocks[c]
  BY <1>2 DEF Released, Restrict
<1>3. ASSUME NEW b \in DOMAIN blocks, Free(b)
      PROVE  BlocksInHeap' /\ BlocksApart'
  BY <1>2, <1>3 DEF Free, BlocksInHeap, BlocksApart
<1>4. ASSUME NEW b \in DOMAIN blocks, FreeAndShrink(b)
      PROVE  BlocksInHeap' /\ BlocksApart'
  <2>1. /\ DOMAIN blocks' \subseteq DOMAIN blocks
        /\ \A c \in DOMAIN blocks' : blocks'[c] = blocks[c]
    BY <1>2, <1>4 DEF FreeAndShrink
  <2>2. ASSUME NEW c \in DOMAIN blocks'
        PROVE  c \in Nat /\ blocks'[c] \in Nat \ {0} /\ c + blocks'[c] < top'
    <3>1. c \in Nat /\ blocks[c] \in Nat \ {0} /\ blocks'[c] = blocks[c]
      BY <2>1 DEF BlocksInHeap
    <3>2. c + blocks[c] \in Payload(c, blocks[c])
      BY <3>1 DEF Payload
    <3>3. c + blocks[c] \in 0 .. top' - 1 /\ top' \in Int
      BY <1>4, <3>2, LimitAssumption DEF FreeAndShrink, BlocksInHeap
    <3>. QED  BY <3>1, <3>3
  <2>3. top' \in 0 .. HeapLimit
    BY <1>4, LimitAssumption DEF FreeAndShrink, BlocksInHeap
  <2>4. BlocksInHeap'
    BY <2>2, <2>3 DEF BlocksInHeap
  <2>5. BlocksApart'
    BY <2>1 DEF BlocksApart
  <2>. QED  BY <2>4, <2>5
<1>5. CASE UNCHANGED contractvars
  BY <1>5 DEF contractvars, BlocksInHeap, BlocksApart
<1>. QED  BY <1>1, <1>3, <1>4, <1>5

LEMMA ContractKeeps ==
  ASSUME BlocksInHeap, BlocksApart, [ContractNext]_contractvars
  PROVE  BlocksInHeap' /\ BlocksApart'
<1>1. ASSUME Grow, NEW b \in 0 .. top', NEW n \in 1 .. top', Malloc(b, n)
      PROVE  BlocksInHeap' /\ BlocksApart'
  <2>1. b \in Nat /\ n \in Nat \ {0}
    BY <1>1, LimitAssumption DEF Grow, BlocksInHeap
  <2>. QED  BY <1>1, <2>1, MallocKeeps
<1>. QED  BY <1>1, OthersKeep DEF ContractNext, MallocFails

\* The blocks an allocator has handed out and not got back never overlap and
\* never reach past the heap, whatever is asked of it, and whether or not it
\* gives memory back to the system.
THEOREM BlocksNeverOverlap == ContractSpec => [](BlocksInHeap /\ BlocksApart)
<1>1. ContractInit => BlocksInHeap /\ BlocksApart
  BY DEF ContractInit, BlocksInHeap, BlocksApart
<1>2. BlocksInHeap /\ BlocksApart /\ [ContractNext]_contractvars
        => (BlocksInHeap /\ BlocksApart)'
  BY ContractKeeps
<1>. QED  BY <1>1, <1>2, PTL DEF ContractSpec

----------------------------------------------------------------------------
(* The driver                                                              *)

\* The thread has a block it has not yet recorded.
InHand(t) == ptr[t] # NULL /\ pc[t] \notin {"op", "crashed"}

\* Where a thread is in its trace, and that nothing moves before main starts.
Places ==
  \A t \in Thread :
    /\ pc[t] \notin {"op", "crashed"} => i[t] <= Len(trace[t]) /\ Op(t).type = "MALLOC"
    /\ ~started => pc[t] = "op" /\ i[t] = 1

\* A block that is in a thread's hand is nobody else's, nor recorded.
HandsOwned ==
  \A t, u \in Thread : InHand(t) =>
    /\ ptr[t] \in DOMAIN blocks
    /\ \A y \in Pending(u) : recorded[u][y] # ptr[t]
    /\ InHand(u) /\ t # u => ptr[t] # ptr[u]

\* max_heap may be stale; it is never ahead of the heap.
NeverAhead == max_heap <= top /\ \A t \in Thread : seen[t] <= top

\* A thread that runs alone sees the heap as it is.
Only(t) == \A u \in Thread : u # t => trace[u] = <<>>
Alone ==
  \A t \in Thread : Only(t) =>
    /\ reports = {}
    /\ ~started => max_heap = 0
    /\ \A u \in Thread : u # t => i[u] = 1 /\ pc[u] \in {"op", "crashed"}
    /\ InHand(t) => EndOf(t) <= top
    /\ pc[t] \in {"compare", "assign"} => seen[t] = top
    /\ pc[t] = "check" \/ (pc[t] = "op" /\ i[t] > 1) => max_heap = top

TestInv ==
  /\ TestTypeOK /\ BlocksInHeap /\ BlocksApart
  /\ Places /\ PendingBlocksOwned /\ HandsOwned /\ NeverAhead /\ Alone

\* What the file holds.
LEMMA Traces ==
  ASSUME trace \in Workload, NEW t \in Thread
  PROVE  /\ trace[t] \in Seq(Operation) /\ Len(trace[t]) \in Nat
         /\ \A k \in 1 .. Len(trace[t]) :
              /\ trace[t][k] \in Operation
              /\ trace[t][k].index \in Index(t)
              /\ \A j \in 1 .. k - 1 : trace[t][j].index = trace[t][k].index =>
                   trace[t][j].type = "MALLOC" /\ trace[t][k].type = "FREE"
<1>1. trace[t] \in Seq(Operation)
  BY TraceAssumption
<1>. QED  BY <1>1, TraceAssumption DEF Index

\* The operation a thread is at.
LEMMA AtOp ==
  ASSUME TestTypeOK, NEW t \in Thread, i[t] <= Len(trace[t])
  PROVE  /\ i[t] \in 1 .. Len(trace[t]) /\ i[t] + 1 \in 1 .. Len(trace[t]) + 1
         /\ Op(t) = trace[t][i[t]] /\ Op(t) \in Operation /\ Op(t).index \in Index(t)
         /\ Op(t).size \in Nat
         /\ \A j \in 1 .. i[t] - 1 : trace[t][j].index = Op(t).index =>
              trace[t][j].type = "MALLOC" /\ Op(t).type = "FREE"
<1>1. i[t] \in 1 .. Len(trace[t]) /\ i[t] + 1 \in 1 .. Len(trace[t]) + 1
  BY Traces DEF TestTypeOK
<1>. QED  BY <1>1, Traces DEF Op, Operation, TestTypeOK

LEMMA InitTestInv == TestInit => TestInv
<1>. SUFFICES ASSUME TestInit PROVE TestInv
  OBVIOUS
<1>1. blocks = <<>> /\ DOMAIN blocks = {}
  BY DEF TestInit
<1>2. TestTypeOK
  <2>1. ASSUME NEW t \in Thread
        PROVE  1 \in 1 .. Len(trace[t]) + 1
    BY Traces DEF TestInit
  <2>. QED  BY <1>1, <2>1, LimitAssumption DEF TestInit, TestTypeOK
<1>3. BlocksInHeap /\ BlocksApart
  BY <1>1, LimitAssumption DEF TestInit, BlocksInHeap, BlocksApart
<1>4. ASSUME NEW t \in Thread
      PROVE  ~InHand(t) /\ Pending(t) = {}
  BY <1>4 DEF TestInit, InHand, Pending
<1>5. PendingBlocksOwned /\ HandsOwned
  BY <1>4 DEF PendingBlocksOwned, HandsOwned
<1>. QED  BY <1>1, <1>2, <1>3, <1>4, <1>5 DEF TestInit, TestInv, Places, NeverAhead, Alone

\* What a thread frees it has recorded, and has not freed before.
LEMMA FreesPending ==
  ASSUME TestInv, NEW t \in Thread, Ready(t, "FREE"), ToFree(t) # NULL
  PROVE  Op(t).index \in Pending(t) /\ ToFree(t) \in DOMAIN blocks
<1>1. Op(t).index \in Pending(t)
  BY AtOp DEF TestInv, Ready, Pending, ToFree
<1>. QED  BY <1>1 DEF TestInv, PendingBlocksOwned, ToFree

LEMMA StepsContract ==
  ASSUME TestInv, [TestNext]_testvars
  PROVE  [ContractNext]_contractvars
<1>1. ASSUME NEW t \in Thread, CallMalloc(t)
      PROVE  ContractNext
  <2>1. CASE MallocFails
    BY <1>1, <2>1 DEF CallMalloc, ContractNext
  <2>2. ASSUME NEW b \in 0 .. top', Malloc(b, IF Op(t).size = 0 THEN 1 ELSE Op(t).size)
        PROVE  ContractNext
    <3>. DEFINE n == IF Op(t).size = 0 THEN 1 ELSE Op(t).size
    <3>1. n \in Nat \ {0}
      BY <1>1, AtOp DEF CallMalloc, Ready, TestInv
    <3>. HIDE DEF n
    <3>2. b \in Nat /\ top' \in Nat /\ Malloc(b, n) /\ Grow
      BY <1>1, <2>2, LimitAssumption DEF CallMalloc, Grow, TestInv, BlocksInHeap, n
    <3>3. b + n < top'
      BY <3>1, <3>2, MallocKeeps DEF TestInv
    <3>4. n \in 1 .. top'
      BY <3>1, <3>2, <3>3
    <3>. QED  BY <2>2, <3>2, <3>4 DEF ContractNext
  <2>. QED  BY <1>1, <2>1, <2>2 DEF CallMalloc
<1>2. ASSUME NEW t \in Thread, CallFree(t)
      PROVE  ContractNext
  BY <1>2, FreesPending DEF CallFree, ContractNext
<1>3. CASE Start
  BY <1>3 DEF Start, ContractNext, MallocFails
<1>4. ASSUME NEW t \in Thread,
             CallSbrk(t) \/ Compare(t) \/ Assign(t) \/ CheckBlock(t) \/ FreeNull(t)
      PROVE  UNCHANGED contractvars
  BY <1>4 DEF CallSbrk, Compare, Assign, CheckBlock, FreeNull, contractvars
<1>5. CASE UNCHANGED testvars
  BY <1>5 DEF testvars, contractvars
<1>. QED  BY <1>1, <1>2, <1>3, <1>4, <1>5 DEF TestNext, ThreadStep

\* The record a thread makes, and what it is then going to free, does not
\* depend on the steps of the others.
LEMMA PendingKept ==
  ASSUME NEW u, trace' = trace, recorded'[u] = recorded[u], i'[u] = i[u]
  PROVE  Pending(u)' = Pending(u)
BY DEF Pending, Index

\* A step over an operation that records nothing leaves no more to free.
LEMMA PendingShrinks ==
  ASSUME TestTypeOK, NEW u \in Thread, trace' = trace,
         recorded'[u] = recorded[u], i'[u] = i[u] + 1
  PROVE  Pending(u)' \subseteq Pending(u)
<1>1. i[u] \in Nat
  BY Traces DEF TestTypeOK
<1>. QED  BY <1>1 DEF Pending, Index

LEMMA BlocksTyped ==
  ASSUME BlocksInHeap'
  PROVE  /\ top' \in 0 .. HeapLimit
         /\ \A b \in DOMAIN blocks' : b \in 0 .. HeapLimit /\ blocks'[b] \in 1 .. HeapLimit
BY LimitAssumption DEF BlocksInHeap

LEMMA IndexKept ==
  ASSUME trace' = trace
  PROVE  \A u \in Thread : Index(u)' = Index(u)
BY DEF Index

\* What a step keeps beside the contract.
Rest == TestTypeOK /\ Places /\ PendingBlocksOwned /\ HandsOwned /\ NeverAhead /\ Alone

LEMMA StartKeeps ==
  ASSUME TestInv, BlocksInHeap', Start
  PROVE  Rest'
<1>1. TestTypeOK' /\ Places'
  <2>1. TestTypeOK'
    BY BlocksTyped, IndexKept DEF TestInv, TestTypeOK, Start, locals
  <2>2. Places'
    BY DEF TestInv, Places, Start, Op
  <2>. QED  BY <2>1, <2>2
<1>2. ASSUME NEW u \in Thread
      PROVE  Pending(u)' = Pending(u) /\ (InHand(u)' <=> InHand(u))
  BY PendingKept DEF Start, locals, InHand
<1>3. PendingBlocksOwned' /\ HandsOwned'
  BY <1>2 DEF TestInv, PendingBlocksOwned, HandsOwned, Start, locals
<1>4. NeverAhead'
  BY LimitAssumption DEF TestInv, TestTypeOK, NeverAhead, Start, Grow, locals
<1>5. Alone'
  BY DEF TestInv, Places, Alone, Only, Start, InHand, locals
<1>. QED  BY <1>1, <1>3, <1>4, <1>5 DEF Rest

\* update_heap.
LEMMA UpdateHeapKeeps ==
  ASSUME TestInv, BlocksInHeap', NEW t \in Thread,
         CallSbrk(t) \/ Compare(t) \/ Assign(t)
  PROVE  Rest'
<1>. USE DEF CallSbrk, Compare, Assign, Stored, Goto, locals
<1>1. UNCHANGED <<blocks, top, trace, started, i, ptr, recorded, reports>>
  OBVIOUS
<1>2. /\ pc[t] \in {"sbrk", "sbrk_again", "compare", "assign"}
      /\ pc'[t] \in {"compare", "assign", "sbrk_again", "check"}
      /\ pc' \in [Thread -> {"op", "sbrk", "compare", "sbrk_again", "assign", "check", "crashed"}]
      /\ \A u \in Thread : u # t => pc'[u] = pc[u] /\ seen'[u] = seen[u]
  BY DEF TestInv, TestTypeOK
<1>3. /\ seen' \in [Thread -> 0 .. HeapLimit] /\ \A u \in Thread : seen'[u] <= top
      /\ max_heap' \in 0 .. HeapLimit /\ max_heap' <= top
  <2>1. CASE CallSbrk(t)
    BY <2>1, LimitAssumption DEF TestInv, TestTypeOK, NeverAhead
  <2>2. CASE Compare(t) \/ Assign(t)
    BY <2>2 DEF TestInv, TestTypeOK, NeverAhead
  <2>. QED  BY <2>1, <2>2
<1>4. TestTypeOK' /\ Places'
  <2>1. TestTypeOK'
    BY <1>1, <1>2, <1>3, IndexKept DEF TestInv, TestTypeOK
  <2>2. Places'
    BY <1>1, <1>2 DEF TestInv, Places, Op
  <2>. QED  BY <2>1, <2>2
<1>5. ASSUME NEW u \in Thread
      PROVE  Pending(u)' = Pending(u) /\ (InHand(u)' <=> InHand(u))
  BY <1>1, <1>2, PendingKept DEF InHand
<1>6. PendingBlocksOwned' /\ HandsOwned'
  BY <1>1, <1>5 DEF TestInv, PendingBlocksOwned, HandsOwned
<1>7. NeverAhead'
  BY <1>1, <1>3 DEF NeverAhead
<1>8. Alone'
  <2>. SUFFICES ASSUME NEW s \in Thread, Only(s)
                PROVE  /\ reports = {}
                       /\ ~started => max_heap' = 0
                       /\ \A u \in Thread : u # s => i[u] = 1 /\ pc'[u] \in {"op", "crashed"}
                       /\ InHand(s) => EndOf(s) <= top
                       /\ pc'[s] \in {"compare", "assign"} => seen'[s] = top
                       /\ pc'[s] = "check" \/ (pc'[s] = "op" /\ i[s] > 1) => max_heap' = top
    BY <1>1, <1>5 DEF Alone, Only, EndOf, Op
  <2>1. /\ reports = {}
        /\ \A u \in Thread : u # s => i[u] = 1 /\ pc[u] \in {"op", "crashed"}
        /\ InHand(s) => EndOf(s) <= top
        /\ pc[s] \in {"compare", "assign"} => seen[s] = top
    BY DEF TestInv, Alone
  <2>2. s = t /\ started
    BY <1>2, <2>1 DEF TestInv, Places
  <2>3. pc'[t] \in {"compare", "assign"} => seen'[t] = top
    BY <1>2, <2>2 DEF TestInv, TestTypeOK
  <2>4. pc'[t] = "check" => max_heap' = top
    <3>1. CASE Compare(t)
      BY <2>1, <2>2, <3>1, LimitAssumption DEF TestInv, TestTypeOK, NeverAhead
    <3>2. CASE Assign(t)
      BY <2>1, <2>2, <3>2
    <3>3. CASE CallSbrk(t)
      BY <3>3 DEF TestInv, TestTypeOK
    <3>. QED  BY <3>1, <3>2, <3>3
  <2>. QED  BY <1>2, <2>1, <2>2, <2>3, <2>4
<1>. QED  BY <1>4, <1>6, <1>7, <1>8 DEF Rest

\* mymalloc: the block that is returned is nobody's.
LEMMA CallMallocKeeps ==
  ASSUME TestInv, BlocksInHeap', NEW t \in Thread, CallMalloc(t)
  PROVE  Rest'
<1>1. /\ UNCHANGED <<trace, started, max_heap, i, seen, recorded, reports>>
      /\ pc[t] = "op" /\ started /\ i[t] <= Len(trace[t]) /\ Op(t).type = "MALLOC"
      /\ pc' = [pc EXCEPT ![t] = "sbrk"]
  BY DEF CallMalloc, Ready, Goto
<1>2. /\ pc' \in [Thread -> {"op", "sbrk", "compare", "sbrk_again", "assign", "check", "crashed"}]
      /\ pc'[t] = "sbrk" /\ \A u \in Thread : u # t => pc'[u] = pc[u]
  BY <1>1 DEF TestInv, TestTypeOK
<1>3. top' \in 0 .. HeapLimit /\ top <= top'
  BY LimitAssumption DEF CallMalloc, Grow, TestInv, BlocksInHeap
<1>4. /\ DOMAIN blocks \subseteq DOMAIN blocks'
      /\ ptr' \in [Thread -> NULL .. HeapLimit] /\ \A u \in Thread : u # t => ptr'[u] = ptr[u]
      /\ ptr'[t] # NULL => /\ ptr'[t] \notin DOMAIN blocks /\ ptr'[t] \in DOMAIN blocks'
                           /\ ptr'[t] + 1 + Op(t).size <= top'
  <2>1. CASE MallocFails /\ ptr' = [ptr EXCEPT ![t] = NULL]
    BY <2>1, LimitAssumption DEF MallocFails, TestInv, TestTypeOK
  <2>2. CASE ~(MallocFails /\ ptr' = [ptr EXCEPT ![t] = NULL])
    <3>. DEFINE n == IF Op(t).size = 0 THEN 1 ELSE Op(t).size
    <3>0. PICK b \in 0 .. top' : Malloc(b, n) /\ ptr' = [ptr EXCEPT ![t] = b]
      BY <2>2 DEF CallMalloc
    <3>1. n \in Nat \ {0} /\ Op(t).size \in Nat /\ Op(t).size <= n
      BY <1>1, AtOp DEF TestInv
    <3>. HIDE DEF n
    <3>2. b \in Nat /\ Malloc(b, n) /\ Grow
      BY <1>3, <3>0 DEF CallMalloc
    <3>3. b \notin DOMAIN blocks /\ DOMAIN blocks' = DOMAIN blocks \cup {b} /\ b + n < top'
      BY <3>1, <3>2, MallocKeeps DEF TestInv
    <3>4. b + 1 + Op(t).size <= top' /\ b \in 0 .. HeapLimit
      BY <1>3, <3>1, <3>2, <3>3, LimitAssumption
    <3>. QED  BY <3>0, <3>3, <3>4 DEF TestInv, TestTypeOK
  <2>. QED  BY <2>1, <2>2
<1>5. TestTypeOK' /\ Places'
  <2>1. recorded' = recorded
    BY DEF CallMalloc
  <2>2. TestTypeOK'
    BY <1>1, <1>2, <1>3, <1>4, <2>1, BlocksTyped, IndexKept DEF TestInv, TestTypeOK
  <2>3. Places'
    BY <1>1, <1>2 DEF TestInv, Places, Op
  <2>. QED  BY <2>2, <2>3
<1>6. ASSUME NEW u \in Thread
      PROVE  Pending(u)' = Pending(u) /\ (u # t => (InHand(u)' <=> InHand(u)))
  BY <1>1, <1>2, <1>4, PendingKept DEF InHand
<1>7. ASSUME NEW u \in Thread, NEW y \in Pending(u)
      PROVE  recorded[u][y] \in DOMAIN blocks
  BY DEF TestInv, PendingBlocksOwned
<1>8. PendingBlocksOwned'
  BY <1>1, <1>4, <1>6 DEF TestInv, PendingBlocksOwned
<1>9. HandsOwned'
  BY <1>1, <1>2, <1>4, <1>6, <1>7 DEF TestInv, HandsOwned, InHand
<1>10. NeverAhead'
  BY <1>1, <1>3 DEF TestInv, TestTypeOK, NeverAhead
<1>11. Alone'
  <2>. SUFFICES ASSUME NEW s \in Thread, Only(s)
                PROVE  /\ reports = {}
                       /\ \A u \in Thread : u # s => i[u] = 1 /\ pc'[u] \in {"op", "crashed"}
                       /\ InHand(s)' => EndOf(s)' <= top'
                       /\ pc'[s] \notin {"compare", "assign", "check", "op"}
    BY <1>1 DEF Alone, Only
  <2>1. s = t
    BY <1>1, AtOp DEF Only, TestInv
  <2>. QED  BY <1>1, <1>2, <1>4, <2>1 DEF TestInv, Alone, InHand, EndOf, Op
<1>. QED  BY <1>5, <1>8, <1>9, <1>10, <1>11 DEF Rest

\* A block that passes the tests is recorded; otherwise it is dropped.
LEMMA CheckBlockKeeps ==
  ASSUME TestInv, BlocksInHeap', NEW t \in Thread, CheckBlock(t)
  PROVE  Rest'
<1>. USE DEF CheckBlock, NextOp, AfterFailure, Goto
<1>. DEFINE x == Op(t).index
<1>1. /\ UNCHANGED <<blocks, top, trace, started, max_heap, ptr, seen>>
      /\ pc[t] = "check" /\ pc' = [pc EXCEPT ![t] = "op"] /\ i' = [i EXCEPT ![t] = @ + 1]
  OBVIOUS
<1>2. /\ i[t] <= Len(trace[t]) /\ x \in Index(t)
      /\ i[t] \in Nat /\ i[t] + 1 \in 1 .. Len(trace[t]) + 1
  BY <1>1, AtOp, Traces DEF TestInv, Places, TestTypeOK
<1>. HIDE DEF x
<1>3. /\ i' \in [Thread -> Nat] /\ i'[t] = i[t] + 1
      /\ pc' \in [Thread -> {"op", "sbrk", "compare", "sbrk_again", "assign", "check", "crashed"}]
      /\ pc'[t] = "op"
      /\ \A u \in Thread : u # t => i'[u] = i[u] /\ pc'[u] = pc[u]
  BY <1>1, <1>2 DEF TestInv, TestTypeOK
<1>4. \/ recorded' = recorded
      \/ recorded' = [recorded EXCEPT ![t][x] = ptr[t]] /\ ptr[t] # NULL
  BY DEF Record, x
<1>5. /\ DOMAIN recorded' = Thread
      /\ \A u \in Thread : u # t => recorded'[u] = recorded[u]
      /\ recorded'[t] \in [Index(t) -> NULL .. HeapLimit]
      /\ \A y \in Index(t) : \/ recorded'[t][y] = recorded[t][y]
                             \/ y = x /\ recorded'[t][y] = ptr[t] /\ InHand(t)
  <2>1. CASE recorded' = recorded
    BY <2>1 DEF TestInv, TestTypeOK
  <2>2. CASE recorded' = [recorded EXCEPT ![t][x] = ptr[t]] /\ ptr[t] # NULL
    <3>1. ptr[t] \in NULL .. HeapLimit /\ recorded[t] \in [Index(t) -> NULL .. HeapLimit]
          /\ DOMAIN recorded = Thread
      BY DEF TestInv, TestTypeOK
    <3>2. recorded'[t] = [recorded[t] EXCEPT ![x] = ptr[t]]
      BY <2>2, <3>1
    <3>3. InHand(t)
      BY <1>1, <2>2 DEF InHand
    <3>. QED  BY <1>2, <2>2, <3>1, <3>2, <3>3
  <2>. QED  BY <1>4, <2>1, <2>2
<1>6. TestTypeOK'
  BY <1>1, <1>2, <1>3, <1>5, BlocksTyped, IndexKept DEF TestInv, TestTypeOK
<1>7. Places'
  BY <1>1, <1>2, <1>3 DEF TestInv, Places, Op
<1>8. ASSUME NEW u \in Thread, u # t
      PROVE  Pending(u)' = Pending(u) /\ (InHand(u)' <=> InHand(u))
  BY <1>1, <1>3, <1>5, <1>8, PendingKept DEF InHand
<1>9. ASSUME NEW y \in Pending(t)'
      PROVE  \/ y \in Pending(t) /\ recorded'[t][y] = recorded[t][y]
             \/ y = x /\ recorded'[t][y] = ptr[t] /\ InHand(t)
  <2>1. y \in Index(t)
    BY <1>1 DEF Pending, Index
  <2>2. recorded'[t][y] # NULL
        /\ \A k \in 1 .. i[t] - 1 : trace[t][k].index = y => trace[t][k].type = "MALLOC"
    BY <1>1, <1>2, <1>3 DEF Pending
  <2>. QED  BY <1>5, <2>1, <2>2 DEF Pending
<1>10. ~InHand(t)'
  BY <1>3 DEF InHand
<1>11. PendingBlocksOwned'
  <2>. SUFFICES ASSUME NEW s \in Thread, NEW u \in Thread,
                       NEW v \in Pending(s)', NEW y \in Pending(u)'
                PROVE  /\ recorded'[s][v] \in DOMAIN blocks
                       /\ <<s, v>> # <<u, y>> => recorded'[s][v] # recorded'[u][y]
    BY <1>1 DEF PendingBlocksOwned
  <2>1. \/ v \in Pending(s) /\ recorded'[s][v] = recorded[s][v]
        \/ s = t /\ v = x /\ recorded'[s][v] = ptr[t] /\ InHand(t)
    BY <1>5, <1>8, <1>9
  <2>2. \/ y \in Pending(u) /\ recorded'[u][y] = recorded[u][y]
        \/ u = t /\ y = x /\ recorded'[u][y] = ptr[t] /\ InHand(t)
    BY <1>5, <1>8, <1>9
  <2>. QED  BY <2>1, <2>2 DEF TestInv, PendingBlocksOwned, HandsOwned
<1>12. HandsOwned'
  <2>. SUFFICES ASSUME NEW s \in Thread, NEW u \in Thread, InHand(s)'
                PROVE  /\ ptr[s] \in DOMAIN blocks
                       /\ \A y \in Pending(u)' : recorded'[u][y] # ptr[s]
                       /\ InHand(u)' /\ s # u => ptr[s] # ptr[u]
    BY <1>1 DEF HandsOwned
  <2>1. s # t /\ InHand(s)
    BY <1>8, <1>10
  <2>2. ptr[s] \in DOMAIN blocks /\ (InHand(u)' /\ s # u => ptr[s] # ptr[u])
    BY <1>8, <1>10, <2>1 DEF TestInv, HandsOwned
  <2>3. ASSUME NEW y \in Pending(u)'
        PROVE  recorded'[u][y] # ptr[s]
    <3>1. \/ y \in Pending(u) /\ recorded'[u][y] = recorded[u][y]
          \/ u = t /\ y = x /\ recorded'[u][y] = ptr[t] /\ InHand(t)
      BY <1>5, <1>8, <1>9
    <3>. QED  BY <2>1, <3>1 DEF TestInv, HandsOwned
  <2>. QED  BY <2>2, <2>3
<1>13. NeverAhead'
  BY <1>1 DEF TestInv, NeverAhead
<1>14. Alone'
  <2>. SUFFICES ASSUME NEW s \in Thread, Only(s)
                PROVE  /\ reports' = {}
                       /\ \A u \in Thread : u # s => i'[u] = 1 /\ pc'[u] \in {"op", "crashed"}
                       /\ started /\ ~InHand(s)' /\ pc'[s] = "op" /\ max_heap = top
    BY <1>1 DEF Alone, Only
  <2>1. /\ reports = {}
        /\ \A u \in Thread : u # s => i[u] = 1 /\ pc[u] \in {"op", "crashed"}
        /\ InHand(s) => EndOf(s) <= top
        /\ pc[s] = "check" => max_heap = top
    BY DEF TestInv, Alone
  <2>2. s = t
    BY <1>1, <2>1
  <2>3. ~(ptr[t] # NULL /\ EndOf(t) > max_heap)
    <3>. SUFFICES ASSUME ptr[t] # NULL PROVE ~(EndOf(t) > max_heap)
      OBVIOUS
    <3>1. EndOf(t) <= max_heap
      BY <1>1, <2>1, <2>2 DEF InHand
    <3>2. EndOf(t) \in Int /\ max_heap \in Int
      <4>1. Op(t).size \in Nat
        BY <1>2, AtOp DEF TestInv
      <4>2. ptr[t] \in Int /\ max_heap \in Int
        BY LimitAssumption DEF TestInv, TestTypeOK
      <4>. QED  BY <4>1, <4>2 DEF EndOf
    <3>. QED  BY <3>1, <3>2
  <2>4. reports' = {}
    BY <2>1, <2>3
  <2>5. started
    BY <1>1 DEF TestInv, Places
  <2>. QED  BY <1>1, <1>3, <1>10, <2>1, <2>2, <2>4, <2>5
<1>. QED  BY <1>6, <1>7, <1>11, <1>12, <1>13, <1>14 DEF Rest

\* myfree gets back a block that was in nobody's hand.
LEMMA CallFreeKeeps ==
  ASSUME TestInv, BlocksInHeap', NEW t \in Thread, CallFree(t)
  PROVE  Rest'
<1>. DEFINE x == Op(t).index
<1>1. /\ UNCHANGED <<top, trace, started, max_heap, ptr, seen, recorded, reports>>
      /\ pc[t] = "op" /\ started /\ i[t] <= Len(trace[t]) /\ Op(t).type = "FREE"
      /\ pc' = [pc EXCEPT ![t] = "op"] /\ i' = [i EXCEPT ![t] = @ + 1]
      /\ DOMAIN blocks' = DOMAIN blocks \ {recorded[t][x]}
  BY DEF CallFree, Ready, NextOp, Goto, Free, Released, ToFree, Restrict
<1>2. /\ i[t] \in Nat /\ i[t] + 1 \in 1 .. Len(trace[t]) + 1
      /\ i[t] \in 1 .. Len(trace[t]) /\ trace[t][i[t]].index = x
      /\ trace[t][i[t]].type # "MALLOC"
  BY <1>1, AtOp DEF TestInv, TestTypeOK, Op
<1>3. x \in Pending(t)
  BY FreesPending DEF CallFree, ToFree
<1>. HIDE DEF x
<1>4. /\ i' \in [Thread -> Nat] /\ i'[t] = i[t] + 1 /\ pc' = pc
      /\ \A u \in Thread : u # t => i'[u] = i[u]
  BY <1>1, <1>2 DEF TestInv, TestTypeOK
<1>5. TestTypeOK'
  BY <1>1, <1>2, <1>4, BlocksTyped, IndexKept DEF TestInv, TestTypeOK
<1>6. Places'
  BY <1>1, <1>4 DEF TestInv, Places, Op
<1>7. ASSUME NEW u \in Thread, NEW y \in Pending(u)'
      PROVE  y \in Pending(u) /\ <<u, y>> # <<t, x>>
  <2>1. CASE u # t
    BY <1>1, <1>4, <2>1, PendingKept
  <2>2. CASE u = t
    <3>1. i'[t] = i[t] + 1 /\ recorded' = recorded /\ trace' = trace
      BY <1>1, <1>4
    <3>2. y \in Pending(t)
      BY <2>2, <3>1, PendingShrinks DEF TestInv
    <3>3. \A k \in 1 .. i[t] : trace[t][k].index = y => trace[t][k].type = "MALLOC"
      BY <1>2, <2>2, <3>1 DEF Pending
    <3>4. y # x
      BY <1>2, <3>3
    <3>. QED  BY <2>2, <3>2, <3>4
  <2>. QED  BY <2>1, <2>2
<1>8. ASSUME NEW u \in Thread
      PROVE  InHand(u)' <=> InHand(u)
  BY <1>1, <1>4 DEF InHand
<1>9. PendingBlocksOwned'
  BY <1>1, <1>3, <1>7 DEF TestInv, PendingBlocksOwned
<1>10. HandsOwned'
  BY <1>1, <1>3, <1>7, <1>8 DEF TestInv, HandsOwned
<1>11. NeverAhead'
  BY <1>1 DEF TestInv, NeverAhead
<1>12. Alone'
  <2>. SUFFICES ASSUME NEW s \in Thread, Only(s)
                PROVE  /\ reports = {} /\ started
                       /\ \A u \in Thread : u # s => i'[u] = 1 /\ pc[u] \in {"op", "crashed"}
                       /\ ~InHand(s)' /\ pc[s] = "op" /\ max_heap = top
    BY <1>1, <1>4 DEF Alone, Only
  <2>1. s = t
    BY <1>2, AtOp, <1>1 DEF Only, TestInv
  <2>2. i[t] > 1
    <3>1. \E j \in 1 .. i[t] - 1 : trace[t][j].index = x
      <4>1. trace[t][i[t]].type = "FREE" /\ trace \in Workload
        BY <1>1 DEF Op, TestInv, TestTypeOK
      <4>2. \E j \in 1 .. i[t] - 1 : trace[t][j].index = trace[t][i[t]].index
        BY <1>2, <4>1, TraceAssumption
      <4>. QED  BY <1>2, <4>2
    <3>. QED  BY <1>2, <3>1
  <2>. QED  BY <1>1, <1>4, <1>8, <2>1, <2>2 DEF TestInv, Alone, InHand
<1>. QED  BY <1>5, <1>6, <1>9, <1>10, <1>11, <1>12 DEF Rest

\* The death of the process takes every thread out of its trace.
LEMMA FreeNullKeeps ==
  ASSUME TestInv, BlocksInHeap', NEW t \in Thread, FreeNull(t)
  PROVE  Rest'
<1>1. /\ UNCHANGED <<blocks, top, trace, started, max_heap, i, ptr, seen, recorded, reports>>
      /\ pc' = [u \in Thread |-> "crashed"] /\ started
  BY DEF FreeNull, Ready, locals
<1>2. TestTypeOK'
  BY <1>1, IndexKept DEF TestInv, TestTypeOK
<1>3. ASSUME NEW u \in Thread
      PROVE  Pending(u)' = Pending(u) /\ ~InHand(u)'
  BY <1>1, PendingKept DEF InHand
<1>4. PendingBlocksOwned' /\ HandsOwned'
  BY <1>1, <1>3 DEF TestInv, PendingBlocksOwned, HandsOwned
<1>. QED  BY <1>1, <1>2, <1>3, <1>4 DEF Rest, TestInv, Places, NeverAhead, Alone, Only

LEMMA StepTestInv == TestInv /\ [TestNext]_testvars => TestInv'
<1>. SUFFICES ASSUME TestInv, [TestNext]_testvars PROVE TestInv'
  OBVIOUS
<1>1. BlocksInHeap' /\ BlocksApart'
  BY StepsContract, ContractKeeps DEF TestInv
<1>2. CASE UNCHANGED testvars
  <2>1. ASSUME NEW u \in Thread
        PROVE  /\ Pending(u)' = Pending(u) /\ Index(u)' = Index(u)
               /\ InHand(u)' <=> InHand(u)
    BY <1>2, PendingKept, IndexKept DEF testvars, InHand
  <2>2. TestTypeOK' /\ Places' /\ NeverAhead'
    BY <1>2, <2>1 DEF testvars, TestInv, TestTypeOK, Places, NeverAhead, Op
  <2>3. PendingBlocksOwned' /\ HandsOwned' /\ Alone'
    BY <1>2, <2>1 DEF testvars, TestInv, PendingBlocksOwned, HandsOwned, Alone, Only, EndOf, Op
  <2>. QED  BY <1>1, <2>2, <2>3 DEF TestInv
<1>3. ASSUME TestNext, ~UNCHANGED testvars
      PROVE  Rest'
  BY <1>1, <1>3, StartKeeps, UpdateHeapKeeps, CallMallocKeeps, CheckBlockKeeps,
     CallFreeKeeps, FreeNullKeeps DEF TestNext, ThreadStep
<1>. QED  BY <1>1, <1>2, <1>3 DEF TestInv, Rest

LEMMA TestInvariance == TestSpec => []TestInv
<1>. QED  BY InitTestInv, StepTestInv, PTL DEF TestSpec

\* The driver keeps its types, for any file load_trace may have read.
THEOREM DriverTyped == TestSpec => []TestTypeOK
<1>1. TestInv => TestTypeOK
  BY DEF TestInv
<1>. QED  BY <1>1, TestInvariance, PTL

\* The driver asks of the allocator only what the contract lets it: it frees
\* no block that is not out.
THEOREM DriverKeepsContract == TestSpec => ContractSpec
<1>1. TestInv /\ [TestNext]_testvars => [ContractNext]_contractvars
  BY StepsContract
<1>2. TestInit => ContractInit
  BY LimitAssumption DEF TestInit, ContractInit
<1>. QED  BY <1>1, <1>2, TestInvariance, PTL DEF TestSpec, ContractSpec

\* However many threads race in update_heap, what one of them is going to
\* free is a block, and nobody else's: a stale max_heap can lose a block, and
\* never makes two threads free one.
THEOREM NoBlockFreedTwice == TestSpec => []PendingBlocksOwned
<1>1. TestInv => PendingBlocksOwned
  BY DEF TestInv
<1>. QED  BY <1>1, TestInvariance, PTL

\* With one thread, as long as the trace may be, no block is reported outside
\* the heap and max_heap is the end of the heap between two operations.
THEOREM OneThreadIsAccurate == TestSpec => []OneThreadAccurate
<1>1. TestInv => OneThreadAccurate
  <2>. SUFFICES ASSUME TestInv, Cardinality({t \in Thread : trace[t] # <<>>}) = 1
                PROVE  /\ reports = {}
                       /\ \A t \in Thread : pc[t] = "op" /\ i[t] > 1 => max_heap = top
    BY DEF OneThreadAccurate
  <2>1. PICK s : {t \in Thread : trace[t] # <<>>} = {s}
    <3>1. IsFiniteSet({t \in Thread : trace[t] # <<>>})
      BY ThreadAssumption, FS_Subset
    <3>. QED  BY <3>1, FS_Singleton
  <2>2. s \in Thread /\ Only(s)
    BY <2>1 DEF Only
  <2>. QED  BY <2>2 DEF TestInv, Alone
<1>. QED  BY <1>1, TestInvariance, PTL

----------------------------------------------------------------------------
(* The demonstrations                                                      *)

HasPrinted(t) == \E j \in 1 .. Len(output) : output[j] = <<t, "first">>

\* Places in the code, and a buffer that holds the one store of its thread.
DemoTypes ==
  /\ program \in {"rendezvous", "shared"}
  /\ flag \in {1, 2}
  /\ at \in [Both -> -1 .. 5] /\ spin \in [Both -> Build]
  /\ buffer \in [Both -> Seq({1, 2})]
  /\ \A t \in Both : buffer[t] = <<>> \/ buffer[t] = <<StoredBy(t)>>
  /\ output \in Seq(Both \X {"first", "second"})

\* rendezvous.c: no thread is past the first line without having printed it;
\* a value in memory, or on its way there, was stored by a thread that has;
\* and what thread1 waits for is in memory after its own store only if thread2
\* has put it there.
Meeting ==
  program = "rendezvous" =>
    /\ \A t \in Both : at[t] \notin {0, 1} => HasPrinted(t)
    /\ buffer["thread1"] # <<>> => at["thread1"] \notin {0, 1, 2}
    /\ buffer["thread2"] # <<>> => at["thread2"] \in {4, 5}
    /\ flag = 2 => HasPrinted("thread1")
    /\ at["thread1"] \in {3, 4, 5} /\ buffer["thread1"] = <<>> /\ flag = 1 =>
         HasPrinted("thread2")
    /\ at["thread1"] \in {4, 5} /\ spin["thread1"] # "removed" => HasPrinted("thread2")
    /\ at["thread2"] \in {3, 4, 5} /\ spin["thread2"] # "removed" => HasPrinted("thread1")

\* shared.c: the thread between lock and unlock holds the mutex, and between
\* its lines the last line is its first one.
Locked ==
  program = "shared" =>
    \A t \in Both :
      /\ at[t] \in {2, 3, 4} => lock = t
      /\ at[t] = 3 => output # <<>> /\ output[Len(output)] = <<t, "first">>

DemoInv == DemoTypes /\ Meeting /\ Locked /\ LinesInOrder

\* The place of each line of the code.
LEMMA DoingIs ==
  ASSUME DemoTypes, NEW t \in Both, NEW step, Doing(t, step)
  PROVE  /\ at[t] \in 1 .. 4
         /\ program = "shared" => step = <<"lock", "first", "second", "unlock">>[at[t]]
         /\ program = "rendezvous" /\ t = "thread1" =>
              step = <<"first", "store", "await", "second">>[at[t]]
         /\ program = "rendezvous" /\ t = "thread2" =>
              step = <<"first", "await", "store", "second">>[at[t]]
<1>1. Len(Code(t)) = 4
  BY DEF Code
<1>2. at[t] \in 1 .. 4 /\ step = Code(t)[at[t]]
  BY <1>1 DEF Doing
<1>. QED  BY <1>2 DEF Code

\* Where the steps other than a line are in the two codes.
LEMMA DoingPlace ==
  ASSUME DemoTypes, NEW t \in Both
  PROVE  /\ Doing(t, "store") => /\ program = "rendezvous" /\ at[t] \in 1 .. 4
                                 /\ at[t] = IF t = "thread1" THEN 2 ELSE 3
         /\ Doing(t, "await") => /\ program = "rendezvous" /\ at[t] \in 1 .. 4
                                 /\ at[t] = IF t = "thread1" THEN 3 ELSE 2
         /\ Doing(t, "lock") => program = "shared" /\ at[t] = 1
         /\ Doing(t, "unlock") => program = "shared" /\ at[t] = 4
<1>1. ASSUME NEW step \in {"store", "await", "lock", "unlock"}, Doing(t, step)
      PROVE  /\ at[t] \in 1 .. 4
             /\ step = "store" => program = "rendezvous" /\ at[t] = IF t = "thread1" THEN 2 ELSE 3
             /\ step = "await" => program = "rendezvous" /\ at[t] = IF t = "thread1" THEN 3 ELSE 2
             /\ step = "lock" => program = "shared" /\ at[t] = 1
             /\ step = "unlock" => program = "shared" /\ at[t] = 4
  <2>1. /\ at[t] \in 1 .. 4
        /\ program = "shared" => step = <<"lock", "first", "second", "unlock">>[at[t]]
        /\ program = "rendezvous" /\ t = "thread1" =>
              step = <<"first", "store", "await", "second">>[at[t]]
        /\ program = "rendezvous" /\ t = "thread2" =>
              step = <<"first", "await", "store", "second">>[at[t]]
    BY <1>1, DoingIs
  <2>2. program \in {"rendezvous", "shared"} /\ t \in {"thread1", "thread2"}
    BY DEF DemoTypes, Both
  <2>. QED  BY <2>1, <2>2
<1>. QED  BY <1>1

LEMMA OtherIs ==
  Other("thread1") = "thread2" /\ Other("thread2") = "thread1"
<1>1. Other("thread1") \in Both /\ Other("thread1") # "thread1"
  <2>1. \E u \in Both : u # "thread1"
    BY DEF Both
  <2>. QED  BY <2>1 DEF Other
<1>2. Other("thread2") \in Both /\ Other("thread2") # "thread2"
  <2>1. \E u \in Both : u # "thread2"
    BY DEF Both
  <2>. QED  BY <2>1 DEF Other
<1>. QED  BY <1>1, <1>2 DEF Both

\* A thread that goes on goes to the next place.
LEMMA AdvanceIs ==
  ASSUME DemoTypes, NEW t \in Both, at[t] \in 1 .. 4, Advance(t)
  PROVE  /\ at' \in [Both -> -1 .. 5] /\ at'[t] = at[t] + 1
         /\ \A u \in Both : u # t => at'[u] = at[u]
         /\ program' = program /\ spin' = spin
BY DEF Advance, DemoTypes

\* What has been printed stays, and a line more is in order if it should be.
LEMMA LineAdded ==
  ASSUME DemoTypes, LinesInOrder, NEW t \in Both, NEW line \in {"first", "second"},
         output' = Append(output, <<t, line>>), program' = program, spin' = spin,
         line = "second" =>
           IF program = "shared"
           THEN output # <<>> /\ output[Len(output)] = <<t, "first">>
           ELSE spin[t] # "removed" => HasPrinted(Other(t))
  PROVE  /\ output' \in Seq(Both \X {"first", "second"}) /\ LinesInOrder'
         /\ output' # <<>> /\ output'[Len(output')] = <<t, line>>
         /\ \A u : HasPrinted(u) => HasPrinted(u)'
         /\ line = "first" => HasPrinted(t)'
<1>. DEFINE N == Len(output)
            x == <<t, line>>
<1>1. /\ N \in Nat /\ N = Len(output) /\ x \in Both \X {"first", "second"} /\ x = <<t, line>>
      /\ output \in Seq(Both \X {"first", "second"})
  BY DEF DemoTypes
<1>. HIDE DEF N, x
<1>2. /\ output' \in Seq(Both \X {"first", "second"}) /\ Len(output') = N + 1
      /\ \A k \in 1 .. N : output'[k] = output[k]
      /\ output'[N + 1] = x
  BY <1>1 DEF DemoTypes
<1>3. \A u : HasPrinted(u) => HasPrinted(u)'
  <2>. SUFFICES ASSUME NEW u, NEW j \in 1 .. Len(output), output[j] = <<u, "first">>
       PROVE  HasPrinted(u)'
    BY DEF HasPrinted
  <2>1. j \in 1 .. Len(output') /\ output'[j] = <<u, "first">>
    BY <1>1, <1>2
  <2>. QED  BY <2>1 DEF HasPrinted
<1>4. line = "first" => HasPrinted(t)'
  <2>1. N + 1 \in 1 .. Len(output')
    BY <1>2
  <2>. QED  BY <1>1, <1>2, <2>1 DEF HasPrinted
<1>5. ASSUME NEW k \in 1 .. N
      PROVE  LET v == output'[k][1]
             IN  IF program' = "shared"
                 THEN output'[k][2] = "second" => k > 1 /\ output'[k - 1] = <<v, "first">>
                 ELSE output'[k][2] = "second" /\ spin'[v] # "removed" =>
                        \E j \in 1 .. k - 1 : output'[j] = <<Other(v), "first">>
  <2>1. PICK v : v = output[k][1] /\ output'[k] = output[k]
    BY <1>2
  <2>2. IF program = "shared"
        THEN output[k][2] = "second" => k > 1 /\ output[k - 1] = <<v, "first">>
        ELSE output[k][2] = "second" /\ spin[v] # "removed" =>
               \E j \in 1 .. k - 1 : output[j] = <<Other(v), "first">>
    BY <1>1, <2>1 DEF LinesInOrder
  <2>3. k > 1 => output'[k - 1] = output[k - 1]
    <3>1. k > 1 => k - 1 \in 1 .. N
      BY <1>1
    <3>. QED  BY <1>2, <3>1
  <2>4. \A j \in 1 .. k - 1 : output'[j] = output[j]
    <3>1. \A j \in 1 .. k - 1 : j \in 1 .. N
      BY <1>1
    <3>. QED  BY <1>2, <3>1
  <2>. QED  BY <2>1, <2>2, <2>3, <2>4
<1>6. LET v == output'[N + 1][1]
      IN  IF program' = "shared"
          THEN output'[N + 1][2] = "second" => N + 1 > 1 /\ output'[(N + 1) - 1] = <<v, "first">>
          ELSE output'[N + 1][2] = "second" /\ spin'[v] # "removed" =>
                 \E j \in 1 .. (N + 1) - 1 : output'[j] = <<Other(v), "first">>
  <2>1. x[1] = t /\ x[2] = line /\ (N + 1) - 1 = N
    BY <1>1
  <2>2. CASE line = "second" /\ program = "shared"
    <3>1. N \in 1 .. N /\ N + 1 > 1
      <4>1. output # <<>> /\ output \in Seq(Both \X {"first", "second"})
        BY <2>2 DEF DemoTypes
      <4>. QED  BY <1>1, <4>1
    <3>2. output'[N] = <<t, "first">>
      BY <1>1, <1>2, <2>2, <3>1
    <3>. QED  BY <1>2, <2>1, <2>2, <3>1, <3>2
  <2>3. CASE line = "second" /\ program # "shared"
    <3>1. spin[t] # "removed" => \E j \in 1 .. N : output'[j] = <<Other(t), "first">>
      BY <1>1, <1>2, <2>3 DEF HasPrinted
    <3>. QED  BY <1>2, <2>1, <2>3, <3>1
  <2>4. CASE line # "second"
    BY <1>2, <2>1, <2>4
  <2>. QED  BY <2>2, <2>3, <2>4
<1>7. LinesInOrder'
  <2>1. \A k \in 1 .. Len(output') : k \in 1 .. N \/ k = N + 1
    BY <1>1, <1>2
  <2>. QED  BY <1>5, <1>6, <2>1 DEF LinesInOrder
<1>8. output' # <<>> /\ output'[Len(output')] = <<t, line>>
  BY <1>1, <1>2
<1>. QED  BY <1>2, <1>3, <1>4, <1>7, <1>8

LEMMA DemoInvInit == DemoInit => DemoInv
<1>. SUFFICES ASSUME DemoInit PROVE DemoInv
  OBVIOUS
<1>1. DemoTypes
  <2>1. program \in {"rendezvous", "shared"}
    BY ProgramAssumption DEF DemoInit
  <2>2. spin \in [Both -> Build]
    BY DEF DemoInit, Build
  <2>. QED  BY <2>1, <2>2 DEF DemoInit, DemoTypes
<1>2. Meeting
  BY DEF DemoInit, Meeting, Both
<1>3. Locked /\ LinesInOrder
  BY DEF DemoInit, Locked, LinesInOrder
<1>. QED  BY <1>1, <1>2, <1>3 DEF DemoInv

\* A step that prints nothing.
LEMMA Silent ==
  ASSUME LinesInOrder, output' = output, program' = program, spin' = spin
  PROVE  LinesInOrder' /\ \A u : HasPrinted(u)' <=> HasPrinted(u)
BY DEF LinesInOrder, HasPrinted

LEMMA DemoInvCreate ==
  ASSUME DemoInv, NEW t \in Both, pthread_create(t)
  PROVE  DemoInv'
<1>. USE DEF DemoInv
<1>1. /\ program' = program /\ spin' = spin /\ flag' = flag /\ buffer' = buffer
      /\ lock' = lock /\ output' = output
      /\ at' \in [Both -> -1 .. 5]
      /\ \A u \in Both : at'[u] = at[u] \/ (at[u] = 0 /\ at'[u] = 1)
  <2>1. at' = [at EXCEPT ![t] = 1] \/ at' = at
    BY DEF pthread_create
  <2>2. at[t] = 0
    BY DEF pthread_create
  <2>3. at' \in [Both -> -1 .. 5] /\ \A u \in Both : at'[u] = at[u] \/ (at[u] = 0 /\ at'[u] = 1)
    <3>1. at \in [Both -> -1 .. 5]
      BY DEF DemoTypes
    <3>2. CASE at' = [at EXCEPT ![t] = 1]
      <4>1. \A u \in Both : at'[u] = IF u = t THEN 1 ELSE at[u]
        BY <3>1, <3>2
      <4>2. at' \in [Both -> -1 .. 5]
        <5>1. 1 \in -1 .. 5
          OBVIOUS
        <5>. QED  BY <3>1, <3>2, <5>1
      <4>. QED  BY <2>2, <4>1, <4>2
    <3>. QED  BY <2>1, <3>1, <3>2
  <2>. QED  BY <2>3 DEF pthread_create
<1>2. DemoTypes'
  BY <1>1 DEF DemoTypes, StoredBy
<1>3. Meeting'
  BY <1>1, Silent DEF Meeting, Both
<1>4. Locked'
  BY <1>1 DEF Locked
<1>. QED  BY <1>1, <1>2, <1>3, <1>4, Silent

LEMMA DemoInvPrintf ==
  ASSUME DemoInv, NEW t \in Both, NEW line \in {"first", "second"}, printf(t, line)
  PROVE  DemoInv'
<1>. USE DEF DemoInv
<1>1. /\ Doing(t, line) /\ flag' = flag /\ buffer' = buffer /\ lock' = lock
      /\ output' = Append(output, <<t, line>>) /\ buffer[t] = <<>>
  BY DEF printf
<1>2. /\ at[t] \in 1 .. 4
      /\ program = "shared" => IF line = "first" THEN at[t] = 2 ELSE at[t] = 3
      /\ program = "rendezvous" => IF line = "first" THEN at[t] = 1 ELSE at[t] = 4
  <2>1. /\ at[t] \in 1 .. 4
        /\ program = "shared" => line = <<"lock", "first", "second", "unlock">>[at[t]]
        /\ program = "rendezvous" /\ t = "thread1" =>
              line = <<"first", "store", "await", "second">>[at[t]]
        /\ program = "rendezvous" /\ t = "thread2" =>
              line = <<"first", "await", "store", "second">>[at[t]]
    BY <1>1, DoingIs
  <2>. QED  BY <2>1 DEF Both
<1>3. /\ at' \in [Both -> -1 .. 5] /\ at'[t] = at[t] + 1
      /\ \A u \in Both : u # t => at'[u] = at[u]
      /\ program' = program /\ spin' = spin
  BY <1>2, AdvanceIs DEF printf
<1>4. line = "second" =>
        IF program = "shared"
        THEN output # <<>> /\ output[Len(output)] = <<t, "first">>
        ELSE spin[t] # "removed" => HasPrinted(Other(t))
  <2>1. program = "shared" \/ program = "rendezvous"
    BY DEF DemoTypes
  <2>. QED  BY <1>2, <2>1, OtherIs DEF Meeting, Locked, Both
<1>5. /\ output' \in Seq(Both \X {"first", "second"}) /\ LinesInOrder'
      /\ output' # <<>> /\ output'[Len(output')] = <<t, line>>
      /\ \A u : HasPrinted(u) => HasPrinted(u)'
      /\ line = "first" => HasPrinted(t)'
  BY <1>1, <1>3, <1>4, LineAdded
<1>6. DemoTypes'
  BY <1>1, <1>3, <1>5 DEF DemoTypes, StoredBy
<1>7. Meeting'
  <2>. SUFFICES ASSUME program = "rendezvous" PROVE Meeting'
    BY <1>3 DEF Meeting
  <2>1. \A u \in Both : at'[u] \notin {0, 1} => HasPrinted(u)'
    <3>1. HasPrinted(t)'
      BY <1>2, <1>5 DEF Meeting
    <3>. QED  BY <1>3, <1>5, <3>1 DEF Meeting
  <2>2. /\ buffer'["thread1"] # <<>> => at'["thread1"] \notin {0, 1, 2}
        /\ buffer'["thread2"] # <<>> => at'["thread2"] \in {4, 5}
    BY <1>1, <1>3 DEF Meeting, Both
  <2>3. flag' = 2 => HasPrinted("thread1")'
    BY <1>1, <1>5 DEF Meeting
  <2>4. \A u \in Both : at'[u] \in {3, 4, 5} => (at[u] \in {3, 4} /\ at'[u] = 5) \/ at'[u] = at[u]
    BY <1>2, <1>3
  <2>5. \A u \in Both : at'[u] \in {4, 5} => at[u] \in {4, 5}
    <3>1. at'[t] \in {2, 5} /\ (at'[t] = 5 => at[t] = 4)
      BY <1>2, <1>3
    <3>. QED  BY <1>3, <3>1
  <2>6. \A u \in Both : at'[u] \in {3, 4, 5} => at[u] \in {3, 4, 5}
    BY <2>4
  <2>. QED  BY <1>1, <1>3, <1>5, <2>1, <2>2, <2>3, <2>5, <2>6 DEF Meeting, Both
<1>8. Locked'
  <2>. SUFFICES ASSUME program = "shared", NEW u \in Both
       PROVE  /\ at'[u] \in {2, 3, 4} => lock' = u
              /\ at'[u] = 3 => output' # <<>> /\ output'[Len(output')] = <<u, "first">>
    BY <1>3 DEF Locked
  <2>1. CASE u = t
    <3>1. at[u] \in {2, 3} /\ (at'[u] = 3 => line = "first")
      BY <1>2, <1>3, <2>1
    <3>2. lock = u
      BY <3>1 DEF Locked
    <3>. QED  BY <1>1, <1>5, <2>1, <3>1, <3>2
  <2>2. CASE u # t
    <3>1. lock = t /\ at'[u] = at[u]
      BY <1>2, <1>3, <2>2 DEF Locked
    <3>. QED  BY <1>1, <2>2, <3>1 DEF Locked
  <2>. QED  BY <2>1, <2>2
<1>. QED  BY <1>5, <1>6, <1>7, <1>8

LEMMA DemoInvStore ==
  ASSUME DemoInv, NEW t \in Both, Store(t)
  PROVE  DemoInv'
<1>. USE DEF DemoInv
<1>1. Doing(t, "store") /\ flag' = flag /\ lock' = lock /\ output' = output
  BY DEF Store
<1>2. program = "rendezvous" /\ at[t] \in 1 .. 4
      /\ at[t] = IF t = "thread1" THEN 2 ELSE 3
  BY <1>1, DoingPlace
<1>3. /\ at' \in [Both -> -1 .. 5] /\ at'[t] = at[t] + 1
      /\ \A u \in Both : u # t => at'[u] = at[u]
      /\ program' = program /\ spin' = spin
  BY <1>2, AdvanceIs DEF Store
<1>4. buffer[t] = <<>>
  BY <1>2 DEF Meeting, Both
<1>5. /\ buffer' \in [Both -> Seq({1, 2})] /\ buffer'[t] = <<StoredBy(t)>>
      /\ \A u \in Both : u # t => buffer'[u] = buffer[u]
  BY <1>4 DEF Store, DemoTypes, StoredBy
<1>6. DemoTypes'
  BY <1>1, <1>3, <1>5 DEF DemoTypes, StoredBy
<1>7. LinesInOrder' /\ \A u : HasPrinted(u)' <=> HasPrinted(u)
  BY <1>1, <1>3, Silent
<1>8. Meeting'
  <2>1. HasPrinted(t) /\ buffer'[t] # <<>>
    BY <1>2, <1>5 DEF Meeting
  <2>2. CASE t = "thread1"
    <3>1. /\ at["thread1"] = 2 /\ at'["thread1"] = 3 /\ at'["thread2"] = at["thread2"]
          /\ buffer'["thread1"] # <<>> /\ buffer'["thread2"] = buffer["thread2"]
      <4>1. "thread2" \in Both /\ "thread2" # t
        BY <2>2 DEF Both
      <4>2. at'["thread2"] = at["thread2"] /\ buffer'["thread2"] = buffer["thread2"]
        BY <1>3, <1>5, <4>1
      <4>3. at[t] = 2 /\ at'[t] = 3
        BY <1>2, <1>3, <2>2
      <4>. QED  BY <2>1, <2>2, <4>2, <4>3
    <3>2. \A u \in Both : at'[u] \notin {0, 1} => HasPrinted(u)'
      <4>1. \A u \in Both : u # t => at'[u] = at[u] /\ (at[u] \notin {0, 1} => HasPrinted(u))
        BY <1>2, <1>3 DEF Meeting
      <4>. QED  BY <1>7, <2>1, <4>1
    <3>. QED  BY <1>1, <1>2, <1>3, <1>7, <3>1, <3>2 DEF Meeting
  <2>3. CASE t = "thread2"
    BY <1>1, <1>2, <1>3, <1>5, <1>7, <2>1, <2>3 DEF Meeting, Both
  <2>. QED  BY <2>2, <2>3 DEF Both
<1>. QED  BY <1>2, <1>3, <1>6, <1>7, <1>8 DEF Locked

LEMMA DemoInvDrain ==
  ASSUME DemoInv, NEW t \in Both, Drain(t)
  PROVE  DemoInv'
<1>. USE DEF DemoInv
<1>1. /\ program' = program /\ spin' = spin /\ lock' = lock /\ at' = at /\ output' = output
      /\ buffer[t] = <<StoredBy(t)>>
  BY DEF Drain, DemoTypes
<1>2. flag' = StoredBy(t) /\ Tail(buffer[t]) = <<>>
  BY <1>1 DEF Drain
<1>3. /\ buffer' \in [Both -> Seq({1, 2})] /\ buffer'[t] = <<>>
      /\ \A u \in Both : u # t => buffer'[u] = buffer[u]
  BY <1>2 DEF Drain, DemoTypes
<1>4. DemoTypes'
  BY <1>1, <1>2, <1>3 DEF DemoTypes, StoredBy
<1>5. LinesInOrder' /\ \A u : HasPrinted(u)' <=> HasPrinted(u)
  BY <1>1, Silent
<1>6. Meeting'
  <2>1. buffer[t] # <<>>
    BY <1>1
  <2>2. CASE t = "thread1"
    <3>1. flag' = 2
      BY <1>2, <2>2 DEF StoredBy
    <3>. QED  BY <1>1, <1>3, <1>5, <2>1, <2>2, <3>1 DEF Meeting, Both
  <2>3. CASE t = "thread2"
    <3>1. flag' = 1
      BY <1>2, <2>3 DEF StoredBy
    <3>. QED  BY <1>1, <1>3, <1>5, <2>1, <2>3, <3>1 DEF Meeting, Both
  <2>. QED  BY <2>2, <2>3 DEF Both
<1>7. Locked'
  BY <1>1 DEF Locked
<1>. QED  BY <1>4, <1>5, <1>6, <1>7

LEMMA DemoInvAwait ==
  ASSUME DemoInv, NEW t \in Both, Await(t)
  PROVE  DemoInv'
<1>. USE DEF DemoInv
<1>1. /\ Doing(t, "await") /\ flag' = flag /\ buffer' = buffer /\ lock' = lock
      /\ output' = output /\ (Seen(t) = Awaited(t) \/ spin[t] = "removed")
  BY DEF Await
<1>2. program = "rendezvous" /\ at[t] \in 1 .. 4
      /\ at[t] = IF t = "thread1" THEN 3 ELSE 2
  BY <1>1, DoingPlace
<1>3. /\ at' \in [Both -> -1 .. 5] /\ at'[t] = at[t] + 1
      /\ \A u \in Both : u # t => at'[u] = at[u]
      /\ program' = program /\ spin' = spin
  BY <1>2, AdvanceIs DEF Await
<1>4. DemoTypes'
  BY <1>1, <1>3 DEF DemoTypes, StoredBy
<1>5. LinesInOrder' /\ \A u : HasPrinted(u)' <=> HasPrinted(u)
  BY <1>1, <1>3, Silent
<1>6. spin[t] # "removed" => HasPrinted(Other(t))
  <2>. SUFFICES ASSUME Seen(t) = Awaited(t) PROVE HasPrinted(Other(t))
    BY <1>1
  <2>1. CASE t = "thread1"
    <3>1. Awaited(t) = 1 /\ StoredBy(t) = 2
      BY <2>1 DEF Awaited, StoredBy
    <3>2. buffer[t] = <<>>
      <4>1. Last(<<2>>) = 2
        BY DEF Last
      <4>2. buffer[t] = <<2>> => Seen(t) = 2
        BY <4>1 DEF Seen
      <4>. QED  BY <3>1, <4>2 DEF DemoTypes
    <3>3. flag = 1
      BY <3>1, <3>2 DEF Seen
    <3>. QED  BY <1>2, <2>1, <3>2, <3>3, OtherIs DEF Meeting
  <2>2. CASE t = "thread2"
    <3>1. buffer[t] = <<>> /\ Awaited(t) = 2
      BY <1>2, <2>2 DEF Meeting, Awaited
    <3>2. flag = 2
      BY <3>1 DEF Seen
    <3>. QED  BY <1>2, <2>2, <3>2, OtherIs DEF Meeting
  <2>. QED  BY <2>1, <2>2 DEF Both
<1>7. Meeting'
  <2>1. HasPrinted(t)
    BY <1>2 DEF Meeting
  <2>2. CASE t = "thread1"
    BY <1>1, <1>2, <1>3, <1>5, <1>6, <2>1, <2>2, OtherIs DEF Meeting, Both
  <2>3. CASE t = "thread2"
    BY <1>1, <1>2, <1>3, <1>5, <1>6, <2>1, <2>3, OtherIs DEF Meeting, Both
  <2>. QED  BY <2>2, <2>3 DEF Both
<1>. QED  BY <1>2, <1>3, <1>4, <1>5, <1>7 DEF Locked

LEMMA DemoInvNeverEnds ==
  ASSUME DemoInv, NEW t \in Both, NeverEnds(t)
  PROVE  DemoInv'
<1>. USE DEF DemoInv
<1>1. /\ Doing(t, "await") /\ flag' = flag /\ buffer' = buffer /\ lock' = lock
      /\ output' = output /\ program' = program /\ spin' = spin
      /\ at' \in [Both -> -1 .. 5] /\ at'[t] = -1 /\ \A u \in Both : u # t => at'[u] = at[u]
  BY DEF NeverEnds, DemoTypes
<1>2. program = "rendezvous" /\ at[t] \in 1 .. 4
      /\ at[t] = IF t = "thread1" THEN 3 ELSE 2
  BY <1>1, DoingPlace
<1>3. DemoTypes'
  BY <1>1 DEF DemoTypes, StoredBy
<1>4. LinesInOrder' /\ \A u : HasPrinted(u)' <=> HasPrinted(u)
  BY <1>1, Silent
<1>5. Meeting'
  <2>1. HasPrinted(t)
    BY <1>2 DEF Meeting
  <2>2. CASE t = "thread1"
    BY <1>1, <1>2, <1>4, <2>1, <2>2 DEF Meeting, Both
  <2>3. CASE t = "thread2"
    BY <1>1, <1>2, <1>4, <2>1, <2>3 DEF Meeting, Both
  <2>. QED  BY <2>2, <2>3 DEF Both
<1>. QED  BY <1>1, <1>2, <1>3, <1>4, <1>5 DEF Locked

LEMMA DemoInvLocks ==
  ASSUME DemoInv, NEW t \in Both, mutex_lock(t) \/ mutex_unlock(t)
  PROVE  DemoInv'
<1>. USE DEF DemoInv
<1>1. flag' = flag /\ buffer' = buffer /\ output' = output
  BY DEF mutex_lock, mutex_unlock
<1>2. /\ program = "shared" /\ at[t] \in 1 .. 4
      /\ \/ at[t] = 1 /\ lock = Nobody /\ lock' = t
         \/ at[t] = 4 /\ lock' = Nobody
  <2>1. CASE mutex_lock(t)
    <3>1. Doing(t, "lock") /\ lock = Nobody /\ lock' = t
      BY <2>1 DEF mutex_lock
    <3>. QED  BY <3>1, DoingPlace
  <2>2. CASE mutex_unlock(t)
    <3>1. Doing(t, "unlock") /\ lock' = Nobody
      BY <2>2 DEF mutex_unlock
    <3>. QED  BY <3>1, DoingPlace
  <2>. QED  BY <2>1, <2>2
<1>3. /\ at' \in [Both -> -1 .. 5] /\ at'[t] = at[t] + 1
      /\ \A u \in Both : u # t => at'[u] = at[u]
      /\ program' = program /\ spin' = spin
  BY <1>2, AdvanceIs DEF mutex_lock, mutex_unlock
<1>4. DemoTypes'
  BY <1>1, <1>3 DEF DemoTypes, StoredBy
<1>5. LinesInOrder'
  BY <1>1, <1>3, Silent
<1>6. Meeting'
  BY <1>2, <1>3 DEF Meeting
<1>7. Locked'
  <2>. SUFFICES ASSUME NEW u \in Both
       PROVE  /\ at'[u] \in {2, 3, 4} => lock' = u
              /\ at'[u] = 3 => output' # <<>> /\ output'[Len(output')] = <<u, "first">>
    BY DEF Locked
  <2>1. Nobody # u
    BY DEF Nobody, Both
  <2>2. CASE u = t
    BY <1>2, <1>3, <2>2
  <2>3. CASE u # t
    <3>1. lock \in {Nobody, t} /\ at'[u] = at[u]
      BY <1>2, <1>3, <2>3 DEF Locked
    <3>2. at[u] \notin {2, 3, 4}
      BY <1>2, <2>1, <2>3, <3>1 DEF Locked
    <3>. QED  BY <3>1, <3>2
  <2>. QED  BY <2>2, <2>3
<1>. QED  BY <1>4, <1>5, <1>6, <1>7

LEMMA DemoInvNext == DemoInv /\ [DemoNext]_demovars => DemoInv'
<1>. SUFFICES ASSUME DemoInv, [DemoNext]_demovars PROVE DemoInv'
  OBVIOUS
<1>1. ASSUME NEW t \in Both, pthread_create(t) \/ DemoStep(t) \/ Drain(t) PROVE DemoInv'
  BY <1>1, DemoInvCreate, DemoInvPrintf, DemoInvStore, DemoInvAwait, DemoInvNeverEnds,
     DemoInvLocks, DemoInvDrain DEF DemoStep
<1>2. CASE UNCHANGED demovars
  BY <1>2 DEF demovars, DemoInv, DemoTypes, StoredBy, Meeting, Locked, LinesInOrder, HasPrinted
<1>. QED  BY <1>1, <1>2 DEF DemoNext, DemoRest

\* rendezvous.c: a thread whose loop the compiler left in prints its second line
\* after the other's first, however late a store is seen, since a value in
\* memory was stored by a thread that had printed; shared.c: nothing comes
\* between the two lines of a thread, which holds the mutex.
THEOREM LinesKeepOrder == DemoSpec => []LinesInOrder
<1>1. DemoInv => LinesInOrder
  BY DEF DemoInv
<1>. QED  BY <1>1, DemoInvInit, DemoInvNext, PTL DEF DemoSpec
=============================================================================
