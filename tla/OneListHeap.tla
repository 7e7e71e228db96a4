---------------------------- MODULE OneListHeap ----------------------------
(***************************************************************************)
(* The best-fit allocator of cdf/bestfit-malloc.c: one doubly linked list  *)
(* of all nodes, used and free, in address order.  Every node is got from  *)
(* sbrk on its own, and the end of the list is given back to the system.   *)
(*                                                                         *)
(* Memory is counted in words of 8 bytes.  A node is a header of 16 bytes, *)
(* as the code's comments have it, and its memory; what malloc returns is  *)
(* the address after the header.                                           *)
(***************************************************************************)
EXTENDS Integers, Sequences, FiniteSets, FiniteSetsExt, Functions

CONSTANTS
  ListRequest,   \* the sizes asked for, in bytes
  ListLimit      \* words the system lets the heap have

VARIABLES
  first_node, last_node,
  node,       \* what each word holds, if it is where a node begins
  brk,        \* the end of the heap, what sbrk(0) answers
  live,       \* history: the blocks handed out and not freed, by address
              \* of the node, with the bytes asked for and the words got
  outcome     \* "crashed" after a null or invalid pointer was followed

listvars == <<first_node, last_node, node, brk, live, outcome>>

Addr == 0 .. ListLimit - 1
NULL == -1
FAILED == -2          \* (void *) -1, what sbrk answers when it fails
sizeof_node == 2

NodeType == [size : Nat, used : {0, 1},
             previous_node : Addr \cup {NULL}, next_node : Addr \cup {NULL}]
NewNode(n, used, previous, next) ==
  [size |-> n, used |-> used, previous_node |-> previous, next_node |-> next]

ListInit ==
  /\ first_node = NULL /\ last_node = NULL
  /\ node = [a \in Addr |-> NewNode(0, 0, NULL, NULL)]
  /\ brk = 0
  /\ live = <<>>
  /\ outcome = "ok"

Running == outcome = "ok"

Crash ==
  /\ outcome' = "crashed"
  /\ UNCHANGED <<first_node, last_node, node, brk, live>>

----------------------------------------------------------------------------
(* my_bestfit_malloc                                                       *)

\* The request and its header, rounded up to 32 bytes, in words.
Rounded(r) == ((r + 8 * sizeof_node + 31) \div 32) * 4

Walk ==
  LET at[i \in 1 .. ListLimit \div 4] ==
        IF i = 1 THEN first_node
        ELSE IF at[i - 1] \in Addr THEN node[at[i - 1]].next_node ELSE NULL
  IN at

\* The nodes from first_node on, in the order the next pointers give.
Nodes == SubSeq(Walk, 1, Cardinality({i \in DOMAIN Walk : Walk[i] \in Addr}))
FreeOnes == {a \in Range(Nodes) : node[a].used = 0}

\* The first node of the wanted size, or else the first of the smallest that
\* are larger; nodes come in address order.
Suitable(n) ==
  LET exact == {a \in FreeOnes : node[a].size = n}
      larger == {a \in FreeOnes : node[a].size > n}
      best == {a \in larger : \A b \in larger : node[a].size <= node[b].size}
  IN  IF exact # {} THEN {Min(exact)}
      ELSE IF best # {} THEN {Min(best)} ELSE {}

HandsOutNode(a, r) ==
  live' = [b \in DOMAIN live \cup {a} |->
             IF b = a THEN [asked |-> r, words |-> Rounded(r) - sizeof_node]
             ELSE live[b]]

Granted(n) == brk + n <= ListLimit

\* The list is empty.  When sbrk fails its answer stays in first_node.
MallocFirst(r) ==
  /\ first_node = NULL
  /\ \/ /\ Granted(Rounded(r))
        /\ first_node' = brk /\ last_node' = brk
        /\ node' = [node EXCEPT ![brk] = NewNode(Rounded(r), 1, NULL, NULL)]
        /\ brk' = brk + Rounded(r)
        /\ HandsOutNode(brk, r)
     \/ /\ ~Granted(Rounded(r))
        /\ first_node' = FAILED
        /\ UNCHANGED <<last_node, node, brk, live>>
  /\ UNCHANGED outcome

MallocExact(a, r) ==
  /\ node[a].size = Rounded(r)
  /\ node' = [node EXCEPT ![a].used = 1]
  /\ HandsOutNode(a, r)
  /\ UNCHANGED <<first_node, last_node, brk, outcome>>

BadRest(a, n) ==
  NewNode(node[a].size - n - sizeof_node, 0, a, node[a].next_node)
Rest(a, n) == NewNode(node[a].size - n, 0, a, node[a].next_node)

\* The rest becomes a free node of its own, and the node after it is told.
MallocSplit(a, r) ==
  LET n == Rounded(r)
      after == node[a].next_node
  IN  /\ node[a].size > n
      /\ after # NULL
      /\ node' = [node EXCEPT
           ![a] = NewNode(n, 1, node[a].previous_node, a + n),
           ![a + n] = Rest(a, n),
           ![after].previous_node = a + n]
      /\ HandsOutNode(a, r)
      /\ UNCHANGED <<first_node, last_node, brk, outcome>>

\* The node after it does not exist: the write through it ends the process.
SplitCrashes(a, r) ==
  /\ node[a].size > Rounded(r) /\ node[a].next_node = NULL
  /\ Crash

\* No free node is large enough: a new one at the end of the heap, or NULL.
MallocAppend(r) ==
  \/ /\ Granted(Rounded(r))
     /\ node' = [node EXCEPT
          ![last_node].next_node = brk,
          ![brk] = NewNode(Rounded(r), 1, last_node, NULL)]
     /\ last_node' = brk
     /\ brk' = brk + Rounded(r)
     /\ HandsOutNode(brk, r)
     /\ UNCHANGED <<first_node, outcome>>
  \/ ~Granted(Rounded(r)) /\ UNCHANGED listvars

\* A request of nothing, or less, gets nothing.
my_bestfit_malloc(r) ==
  /\ Running
  /\ \/ r = 0 /\ UNCHANGED listvars
     \/ r > 0 /\ MallocFirst(r)
     \/ /\ r > 0 /\ first_node \in Addr
        /\ \/ \E a \in Suitable(Rounded(r)) :
                MallocExact(a, r) \/ MallocSplit(a, r) \/ SplitCrashes(a, r)
           \/ Suitable(Rounded(r)) = {} /\ MallocAppend(r)
     \/ r > 0 /\ first_node = FAILED /\ Crash

----------------------------------------------------------------------------
(* my_free, of the block whose node is at a                                *)

IsFree(a) == a # NULL /\ node[a].used = 0

BadKept(a) == node[a].previous_node

\* What will be the last node once a, at the end of the heap, goes: a free
\* node before it goes with it.
Kept(a) ==
  LET previous == node[a].previous_node
  IN  IF IsFree(previous) THEN node[previous].previous_node ELSE previous

\* The last node goes back to the system.
FreeLast(a) ==
  /\ node[a].next_node = NULL
  /\ brk' = brk - (node[a].size + (IF Kept(a) = node[a].previous_node THEN 0
                                   ELSE node[node[a].previous_node].size))
  /\ last_node' = Kept(a)
  /\ IF Kept(a) = NULL
     THEN first_node' = NULL /\ UNCHANGED node
     ELSE /\ node' = [node EXCEPT ![Kept(a)].next_node = NULL]
          /\ UNCHANGED first_node
  /\ UNCHANGED outcome

\* A node between two used ones is only marked.
FreeAlone(a) ==
  /\ node[a].next_node # NULL
  /\ ~IsFree(node[a].previous_node) /\ ~IsFree(node[a].next_node)
  /\ node' = [node EXCEPT ![a].used = 0]
  /\ UNCHANGED <<first_node, last_node, brk, outcome>>

\* A free neighbour, or two, and the node become one.  The node after them is
\* told, and must exist.
FreeMerged(a) ==
  LET previous == node[a].previous_node
      next == node[a].next_node
      base == IF IsFree(previous) THEN previous ELSE a
      after == IF IsFree(next) THEN node[next].next_node ELSE next
      size == node[a].size + (IF base = a THEN 0 ELSE node[previous].size)
                           + (IF after = next THEN 0 ELSE node[next].size)
  IN  /\ next # NULL
      /\ IsFree(previous) \/ IsFree(next)
      /\ \/ /\ after # NULL
            /\ node' = [node EXCEPT
                 ![base] = NewNode(size, 0, node[base].previous_node, after),
                 ![after].previous_node = base]
            /\ UNCHANGED <<first_node, last_node, brk, outcome>>
         \/ after = NULL /\ Crash

\* The pointer is one my_bestfit_malloc returned.
my_free(a) ==
  /\ Running
  /\ a \in DOMAIN live
  /\ FreeLast(a) \/ FreeAlone(a) \/ FreeMerged(a)
  /\ outcome' = "ok" => live' = Restrict(live, DOMAIN live \ {a})

Dead == ~Running /\ UNCHANGED listvars

ListNext ==
  \/ \E r \in ListRequest : my_bestfit_malloc(r)
  \/ \E a \in Addr : my_free(a)
  \/ Dead

ListSpec == ListInit /\ [][ListNext]_listvars

----------------------------------------------------------------------------
(* Properties                                                              *)

ListTypeOK ==
  /\ first_node \in Addr \cup {NULL, FAILED}
  /\ last_node \in Addr \cup {NULL}
  /\ node \in [Addr -> NodeType]
  /\ brk \in 0 .. ListLimit
  /\ outcome \in {"ok", "crashed"}

\* The nodes tile the heap, and those in use are the blocks that are out.
ListTiled ==
  LET L == Nodes
  IN  /\ \A i \in 1 .. Len(L) :
           L[i] + node[L[i]].size = IF i = Len(L) THEN brk ELSE L[i + 1]
      /\ IF L = <<>> THEN brk = 0 ELSE L[1] = 0
      /\ Range(L) \ FreeOnes = DOMAIN live

\* The list can be walked both ways; two free neighbours are one node; and the
\* last node is never free, so a free node always has one after it.
ListInOrder ==
  LET L == Nodes
  IN  /\ \A i \in 1 .. Len(L) :
           node[L[i]].previous_node = IF i = 1 THEN NULL ELSE L[i - 1]
      /\ \A i \in 1 .. Len(L) - 1 : ~(IsFree(L[i]) /\ IsFree(L[i + 1]))
      /\ last_node = IF L = <<>> THEN NULL ELSE L[Len(L)]
      /\ ~IsFree(last_node)
=============================================================================
