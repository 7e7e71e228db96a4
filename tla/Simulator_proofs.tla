-------------------------- MODULE Simulator_proofs --------------------------
(***************************************************************************)
(* Proofs about the simulator with its replacement algorithms, for every   *)
(* set of pages, memory size, swap size and trace length: first what the   *)
(* algorithms share (what a line of the trace does to the pages in memory, *)
(* what taking a page out of a history leaves of it), then the algorithms. *)
(***************************************************************************)
EXTENDS Simulator, PageTable_proofs, SequenceTheorems

USE DEF Frame, Slot, INVALID_SWAP

----------------------------------------------------------------------------
(* The pages in memory                                                     *)

\* A line that finds its page in memory moves no page.
LEMMA HitMoves ==
  ASSUME IInv, NEW p \in Page, NEW t \in AccessType, Hit(p, t)
  PROVE  /\ p \in InMemory /\ InMemory' = InMemory /\ coremap' = coremap
         /\ \A q \in Page : pte'[q].valid = pte[q].valid /\ pte'[q].frame = pte[q].frame
         /\ count'.ref = count.ref + 1 /\ count.ref < TraceLen
<1>1. \A q \in Page : pte'[q].valid = pte[q].valid /\ pte'[q].frame = pte[q].frame
  BY DEF Hit, IInv, TypeOK, Entry
<1>2. p \in InMemory /\ InMemory' = InMemory
  BY <1>1 DEF InMemory, Hit
<1>. QED  BY <1>1, <1>2 DEF Hit, CountHit, Replaying

\* A page leaves memory only on a fault with memory full, from the frame that
\* evict_fcn named, and the page that was referenced takes that frame.
LEMMA FaultMoves ==
  ASSUME IInv, NEW p \in Page, NEW t \in AccessType, NEW f \in Frame,
         Reference(p, t, f)
  PROVE  /\ p \in Page \ InMemory
         /\ ~pte[p].valid
         /\ coremap' = [coremap EXCEPT ![f] = [in_use |-> TRUE, pte |-> p]]
         /\ MemoryFull => /\ Victim(f) \in InMemory
                          /\ InMemory' = (InMemory \ {Victim(f)}) \cup {p}
                          /\ Leaving = {Victim(f)}
         /\ ~MemoryFull => /\ f \in FreeFrames
                           /\ \A g \in FreeFrames : f <= g
                           /\ InMemory' = InMemory \cup {p}
                           /\ Leaving = {}
         /\ pte'[p].frame = f
         /\ \A q \in InMemory : q \in InMemory' => pte'[q].frame = pte[q].frame
         /\ count'.ref = count.ref + 1 /\ count.ref < TraceLen
<1>1. PICK d, c : Brings(p, f, d, c)
  BY ReferenceIsBrings
<1>2. /\ p \in Page \ InMemory
      /\ ~pte[p].valid
      /\ coremap' = [coremap EXCEPT ![f] = [in_use |-> TRUE, pte |-> p]]
  BY <1>1 DEF Brings, AllocateFrame, InMemory
<1>3. count'.ref = count.ref + 1 /\ count.ref < TraceLen
  BY DEF Reference, PageIn, FirstTouch, CountMiss, Replaying
<1>4. CASE MemoryFull
  <2>1. PICK v \in Page, s \in Slot :
           /\ v # p /\ v = coremap[f].pte /\ pte[v].valid /\ pte[v].frame = f
           /\ pte' = [q \in Page |-> IF q = p THEN Loaded(p, f, d)
                                     ELSE IF q = v THEN Evicted(pte[v], s)
                                     ELSE pte[q]]
    BY <1>1, <1>4, Eviction
  <2>2. /\ pte'[p].frame = f /\ pte'[p].valid /\ ~pte'[v].valid
        /\ \A q \in Page : q # p /\ q # v =>
             pte'[q].valid = pte[q].valid /\ pte'[q].frame = pte[q].frame
    BY <2>1 DEF Loaded, Evicted
  <2>3. v = Victim(f)
    BY <2>1 DEF Victim
  <2>4. InMemory' = (InMemory \ {v}) \cup {p}
    BY <2>1, <2>2 DEF InMemory
  <2>. QED
    BY <1>2, <1>3, <1>4, <2>1, <2>2, <2>3, <2>4 DEF Leaving, InMemory
<1>5. CASE ~MemoryFull
  <2>1. f \in FreeFrames /\ \A g \in FreeFrames : f <= g
    BY <1>1, <1>5, MinExists DEF Brings, AllocateFrame, Allocatable, MemoryFull, FreeFrames
  <2>2. pte' = [pte EXCEPT ![p] = Loaded(p, f, d)]
    BY <1>1, <1>5 DEF Brings, PteAfterEvict
  <2>3. /\ pte'[p].frame = f /\ pte'[p].valid
        /\ \A q \in Page : q # p => pte'[q] = pte[q]
    BY <2>2 DEF Loaded, IInv, TypeOK
  <2>4. InMemory' = InMemory \cup {p}
    BY <2>3 DEF InMemory
  <2>. QED
    BY <1>2, <1>3, <1>5, <2>1, <2>3, <2>4 DEF Leaving, InMemory
<1>. QED  BY <1>4, <1>5

\* A step that ends the replay, or comes after its end, moves no page.
LEMMA EndMoves ==
  ASSUME IInv,
         Finish \/ Stopped \/ \E p \in Page, f \in Frame : SwapFull(p, f) \/ SwapError(p, f)
  PROVE  /\ InMemory' = InMemory /\ Leaving = {} /\ coremap' = coremap
         /\ pte' = pte /\ count' = count
BY DEF Finish, Stopped, SwapFull, SwapError, Ends, vars, InMemory, Leaving

\* In a full memory the frames and the pages in memory are in one-to-one
\* correspondence.
LEMMA FullMemory ==
  ASSUME IInv, MemoryFull
  PROVE  /\ \A f \in Frame : Victim(f) \in InMemory /\ pte[Victim(f)].frame = f
         /\ \A q \in InMemory : pte[q].frame \in Frame /\ Victim(pte[q].frame) = q
<1>1. \A f \in Frame : Victim(f) \in InMemory /\ pte[Victim(f)].frame = f
  BY VictimInMemory DEF InMemory
<1>2. \A q \in InMemory : pte[q].frame \in Frame /\ Victim(pte[q].frame) = q
  BY DEF IInv, TypeOK, Entry, FrameTableInverse, InMemory, Victim
<1>. QED  BY <1>1, <1>2

----------------------------------------------------------------------------
(* Histories                                                               *)

\* Without takes out the one place where the page is and keeps the others in
\* their order.
LEMMA WithoutIs ==
  ASSUME NEW S, NEW s \in Seq(S), NEW j \in 1 .. Len(s),
         \A i \in 1 .. Len(s) : s[i] = s[j] => i = j
  PROVE  /\ Without(s, s[j]) \in Seq(S)
         /\ Len(Without(s, s[j])) = Len(s) - 1
         /\ \A i \in 1 .. Len(s) - 1 :
              Without(s, s[j])[i] = IF i < j THEN s[i] ELSE s[i + 1]
<1>1. {i \in 1 .. Len(s) : s[i] = s[j]} = {j}
  OBVIOUS
<1>2. Min({j}) = j
  BY MinExists
<1>3. SelectInSeq(s, LAMBDA v : v = s[j]) = j
  BY <1>1, <1>2 DEF SelectInSeq
<1>4. Without(s, s[j]) = SubSeq(s, 1, j - 1) \o SubSeq(s, j + 1, Len(s))
  BY <1>3 DEF Without, RemoveFirst, RemoveAt
<1>. DEFINE a == SubSeq(s, 1, j - 1)
            b == SubSeq(s, j + 1, Len(s))
<1>5. /\ a \in Seq(S) /\ Len(a) = j - 1
      /\ \A i \in 1 .. j - 1 : a[i] = s[i]
  <2>1. \A i \in 1 .. j - 1 : s[i] \in S
    BY ElementOfSeq
  <2>. QED  BY <2>1, SubSeqProperties
<1>6. /\ b \in Seq(S) /\ Len(b) = Len(s) - j
      /\ \A i \in 1 .. Len(s) - j : b[i] = s[i + j]
  <2>1. \A i \in j + 1 .. Len(s) : s[i] \in S
    BY ElementOfSeq
  <2>. QED  BY <2>1, SubSeqProperties
<1>. HIDE DEF a, b
<1>7. /\ a \o b \in Seq(S) /\ Len(a \o b) = Len(s) - 1
      /\ \A i \in 1 .. Len(s) - 1 : (a \o b)[i] = IF i < j THEN a[i] ELSE b[i - (j - 1)]
  <2>1. /\ a \o b \in Seq(S)
        /\ Len(a \o b) = Len(a) + Len(b)
        /\ \A i \in 1 .. Len(a) + Len(b) :
             (a \o b)[i] = IF i <= Len(a) THEN a[i] ELSE b[i - Len(a)]
    BY <1>5, <1>6, ConcatProperties
  <2>2. Len(s) \in Nat
    OBVIOUS
  <2>. QED  BY <1>5, <1>6, <2>1, <2>2
<1>8. \A i \in 1 .. Len(s) - 1 : (a \o b)[i] = IF i < j THEN s[i] ELSE s[i + 1]
  <2>. TAKE i \in 1 .. Len(s) - 1
  <2>1. CASE i < j
    BY <1>5, <1>7, <2>1
  <2>2. CASE ~(i < j)
    <3>1. i - (j - 1) \in 1 .. Len(s) - j
      BY <2>2
    <3>. QED  BY <1>6, <1>7, <2>2, <3>1
  <2>. QED  BY <2>1, <2>2
<1>. QED  BY <1>4, <1>7, <1>8 DEF a, b

\* A history lists the pages of Q, each once.
Lists(s, Q) ==
  /\ s \in Seq(Page)
  /\ \A i, j \in 1 .. Len(s) : s[i] = s[j] => i = j
  /\ \A i \in 1 .. Len(s) : s[i] \in Q
  /\ \A q \in Q : \E i \in 1 .. Len(s) : s[i] = q

\* q comes before r in s.
Before(s, q, r) ==
  \E i, j \in 1 .. Len(s) : i < j /\ s[i] = q /\ s[j] = r

\* The history without one of its pages lists the others, in the same order.
LEMMA WithoutLists ==
  ASSUME NEW s, NEW Q \in SUBSET Page, Lists(s, Q), NEW q \in Q
  PROVE  /\ Lists(Without(s, q), Q \ {q})
         /\ \A x, y : Before(Without(s, q), x, y) => Before(s, x, y)
<1>1. PICK j \in 1 .. Len(s) : s[j] = q
  BY DEF Lists
<1>. DEFINE w == Without(s, q)
<1>2. /\ w \in Seq(Page) /\ Len(w) = Len(s) - 1
      /\ \A i \in 1 .. Len(s) - 1 : w[i] = IF i < j THEN s[i] ELSE s[i + 1]
  <2>1. s \in Seq(Page) /\ \A i \in 1 .. Len(s) : s[i] = s[j] => i = j
    BY DEF Lists
  <2>2. /\ Without(s, s[j]) \in Seq(Page) /\ Len(Without(s, s[j])) = Len(s) - 1
        /\ \A i \in 1 .. Len(s) - 1 :
             Without(s, s[j])[i] = IF i < j THEN s[i] ELSE s[i + 1]
    BY <2>1, WithoutIs
  <2>. QED  BY <1>1, <2>2
<1>. HIDE DEF w
<1>3. Len(s) \in Nat /\ Len(w) \in Nat
  BY <1>2 DEF Lists
<1>4. \A i, k \in 1 .. Len(w) : w[i] = w[k] => i = k
  <2>. TAKE i, k \in 1 .. Len(w)
  <2>. DEFINE up(n) == IF n < j THEN n ELSE n + 1
  <2>1. /\ up(i) \in 1 .. Len(s) /\ w[i] = s[up(i)]
        /\ up(k) \in 1 .. Len(s) /\ w[k] = s[up(k)]
    BY <1>2, <1>3
  <2>2. w[i] = w[k] => up(i) = up(k)
    <3>. HIDE DEF up
    <3>. QED  BY <2>1 DEF Lists
  <2>. QED  BY <1>3, <2>2
<1>5. \A i \in 1 .. Len(w) : w[i] \in Q \ {q}
  BY <1>1, <1>2, <1>3 DEF Lists
<1>6. \A x \in Q \ {q} : \E i \in 1 .. Len(w) : w[i] = x
  <2>. TAKE x \in Q \ {q}
  <2>1. PICK k \in 1 .. Len(s) : s[k] = x
    BY DEF Lists
  <2>2. CASE k < j
    <3>1. k \in 1 .. Len(w) /\ w[k] = x
      BY <1>2, <1>3, <2>1, <2>2
    <3>. QED  BY <3>1
  <2>3. CASE k > j
    <3>1. k - 1 \in 1 .. Len(w) /\ w[k - 1] = x
      BY <1>2, <1>3, <2>1, <2>3
    <3>. QED  BY <3>1
  <2>. QED  BY <1>1, <1>3, <2>1, <2>2, <2>3
<1>7. Lists(w, Q \ {q})
  BY <1>2, <1>4, <1>5, <1>6 DEF Lists
<1>8. ASSUME NEW x, NEW y, Before(w, x, y)
      PROVE  Before(s, x, y)
  <2>1. PICK i, k \in 1 .. Len(w) : i < k /\ w[i] = x /\ w[k] = y
    BY <1>8 DEF Before
  <2>. DEFINE up(n) == IF n < j THEN n ELSE n + 1
  <2>2. up(i) \in 1 .. Len(s) /\ up(k) \in 1 .. Len(s) /\ up(i) < up(k)
    BY <1>2, <1>3, <2>1
  <2>3. s[up(i)] = x /\ s[up(k)] = y
    BY <1>2, <1>3, <2>1
  <2>. QED  BY <2>2, <2>3 DEF Before
<1>. QED  BY <1>7, <1>8 DEF w

\* A page appended to the history comes after all the others.
LEMMA AppendLists ==
  ASSUME NEW s, NEW Q \in SUBSET Page, Lists(s, Q), NEW p \in Page \ Q
  PROVE  /\ Lists(Append(s, p), Q \cup {p})
         /\ \A x, y : Before(Append(s, p), x, y) =>
              Before(s, x, y) \/ (y = p /\ x \in Q)
<1>. DEFINE w == Append(s, p)
<1>1. /\ w \in Seq(Page) /\ Len(w) = Len(s) + 1
      /\ \A i \in 1 .. Len(s) : w[i] = s[i]
      /\ w[Len(s) + 1] = p
  BY AppendProperties DEF Lists
<1>. HIDE DEF w
<1>2. Len(s) \in Nat
  BY DEF Lists
<1>3. Lists(w, Q \cup {p})
  <2>1. \A i, j \in 1 .. Len(w) : w[i] = w[j] => i = j
    BY <1>1, <1>2 DEF Lists
  <2>2. \A i \in 1 .. Len(w) : w[i] \in Q \cup {p}
    BY <1>1, <1>2 DEF Lists
  <2>3. \A q \in Q \cup {p} : \E i \in 1 .. Len(w) : w[i] = q
    <3>. TAKE q \in Q \cup {p}
    <3>1. CASE q = p
      BY <1>1, <1>2, <3>1
    <3>2. CASE q \in Q
      <4>1. PICK i \in 1 .. Len(s) : s[i] = q
        BY <3>2 DEF Lists
      <4>2. i \in 1 .. Len(w) /\ w[i] = q
        BY <1>1, <1>2, <4>1
      <4>. QED  BY <4>2
    <3>. QED  BY <3>1, <3>2
  <2>. QED  BY <1>1, <2>1, <2>2, <2>3 DEF Lists
<1>4. ASSUME NEW x, NEW y, Before(w, x, y)
      PROVE  Before(s, x, y) \/ (y = p /\ x \in Q)
  <2>1. PICK i, j \in 1 .. Len(w) : i < j /\ w[i] = x /\ w[j] = y
    BY <1>4 DEF Before
  <2>2. i \in 1 .. Len(s) /\ s[i] = x /\ x \in Q
    BY <1>1, <1>2, <2>1 DEF Lists
  <2>3. CASE j = Len(s) + 1
    BY <1>1, <2>1, <2>2, <2>3
  <2>4. CASE j # Len(s) + 1
    <3>1. j \in 1 .. Len(s) /\ s[j] = y
      BY <1>1, <1>2, <2>1, <2>4
    <3>. QED  BY <2>1, <2>2, <3>1 DEF Before
  <2>. QED  BY <2>3, <2>4
<1>. QED  BY <1>3, <1>4 DEF w

\* The head of a history comes before the rest of it.
LEMMA HeadFirst ==
  ASSUME NEW s, NEW Q \in SUBSET Page, Lists(s, Q), NEW q \in Q
  PROVE  /\ Head(s) \in Q
         /\ q # Head(s) => Before(s, Head(s), q)
<1>1. PICK j \in 1 .. Len(s) : s[j] = q
  BY DEF Lists
<1>2. Len(s) \in Nat /\ 1 \in 1 .. Len(s)
  BY <1>1 DEF Lists
<1>3. Head(s) = s[1]
  BY <1>2 DEF Lists
<1>. QED  BY <1>1, <1>2, <1>3 DEF Lists, Before

\* What comes before what is listed.
LEMMA BeforeListed ==
  ASSUME NEW s, NEW Q \in SUBSET Page, Lists(s, Q), NEW x, NEW y, Before(s, x, y)
  PROVE  x \in Q /\ y \in Q /\ x # y
BY DEF Lists, Before

\* The order after a fault lists the pages then in memory: those that stayed,
\* as they were, and last the one that came.
LEMMA FaultLists ==
  ASSUME IInv, Lists(order, InMemory),
         NEW p \in Page, NEW t \in AccessType, NEW v, NEW f \in Frame,
         MemoryFull => f = v, Reference(p, t, f),
         order' = AfterFault(p, v)
  PROVE  /\ Lists(order', InMemory')
         /\ \A x, y : Before(order', x, y) =>
              \/ Before(order, x, y) /\ {x, y} \subseteq InMemory \cap InMemory'
              \/ y = p /\ x \in InMemory \cap InMemory'
<1>. DEFINE R == IF MemoryFull THEN InMemory \ {Victim(v)} ELSE InMemory
            w == IF MemoryFull THEN Without(order, Victim(v)) ELSE order
<1>1. InMemory \in SUBSET Page
  BY DEF InMemory
<1>2. /\ Lists(w, R)
      /\ \A x, y : Before(w, x, y) => Before(order, x, y)
  <2>1. CASE MemoryFull
    <3>1. Victim(v) \in InMemory
      BY <2>1, FaultMoves
    <3>. QED  BY <1>1, <2>1, <3>1, WithoutLists
  <2>. QED  BY <2>1
<1>3. p \in Page \ R /\ R \in SUBSET Page /\ InMemory' = R \cup {p} /\ R \subseteq InMemory
  BY <1>1, FaultMoves
<1>4. order' = Append(w, p)
  BY DEF AfterFault
<1>. HIDE DEF R, w
<1>5. /\ Lists(order', R \cup {p})
      /\ \A x, y : Before(order', x, y) => Before(w, x, y) \/ (y = p /\ x \in R)
  BY <1>2, <1>3, <1>4, AppendLists
<1>6. \A x, y : Before(w, x, y) => x \in R /\ y \in R
  BY <1>2, <1>3, BeforeListed
<1>. QED  BY <1>2, <1>3, <1>5, <1>6

\* The same for the algorithms that move a page to the end when it is
\* referenced again.
LEMMA HitLists ==
  ASSUME Lists(order, InMemory), NEW p \in InMemory,
         order' = Append(Without(order, p), p), InMemory' = InMemory
  PROVE  /\ Lists(order', InMemory')
         /\ \A x, y : Before(order', x, y) =>
              \/ Before(order, x, y) /\ {x, y} \subseteq InMemory \ {p}
              \/ y = p /\ x \in InMemory \ {p}
<1>1. InMemory \in SUBSET Page
  BY DEF InMemory
<1>. DEFINE R == InMemory \ {p}
            w == Without(order, p)
<1>2. /\ Lists(w, R)
      /\ \A x, y : Before(w, x, y) => Before(order, x, y)
  BY <1>1, WithoutLists
<1>3. p \in Page \ R /\ R \in SUBSET Page /\ InMemory' = R \cup {p}
  BY <1>1
<1>. HIDE DEF R, w
<1>4. /\ Lists(order', R \cup {p})
      /\ \A x, y : Before(order', x, y) => Before(w, x, y) \/ (y = p /\ x \in R)
  BY <1>2, <1>3, AppendLists DEF w
<1>5. \A x, y : Before(w, x, y) => x \in R /\ y \in R
  BY <1>2, <1>3, BeforeListed
<1>. QED  BY <1>2, <1>3, <1>4, <1>5 DEF R

----------------------------------------------------------------------------
(* Whatever the algorithm, the simulator is PageTable with fewer choices.  *)

\* The run starts as PageTable starts, with every algorithm.
LEMMA SimInitRefines == SimInit => Init
BY DEF SimInit, AlgInit, FifoInit, LruInit, ClockInit, OptInit

\* A reference that evict_fcn serves is one of PageTable, and so is its end.
LEMMA ServedRefines ==
  ASSUME NEW p \in Page, NEW v
  PROVE  /\ \A t \in AccessType : RefersWith(p, t, v) => Next
         /\ FailsWith(p, v) => Next
BY DEF RefersWith, FailsWith, Next

\* The lines of the trace that opt replays are pages.
TraceKept == alg = "opt" => trace \in [0 .. TraceLen - 1 -> Page]

LEMMA SimStepRefines ==
  ASSUME IInv, TraceKept, [SimNext]_simvars
  PROVE  [Next]_vars /\ TraceKept'
<1>1. [Next]_vars
  <2>1. CASE alg = "rand" /\ Next
    BY <2>1
  <2>2. CASE FifoNext
    <3>1. ASSUME NEW p \in Page, NEW t \in AccessType, FifoHit(p, t) \/ FifoFault(p, t)
          PROVE  Next
      BY <3>1, ServedRefines DEF FifoHit, FifoFault, Next
    <3>2. CASE FifoEnds
      BY <3>2, ServedRefines DEF FifoEnds, Next
    <3>. QED  BY <2>2, <3>1, <3>2 DEF FifoNext
  <2>3. CASE LruNext
    <3>1. ASSUME NEW p \in Page, NEW t \in AccessType, LruHit(p, t) \/ LruFault(p, t)
          PROVE  Next
      BY <3>1, ServedRefines DEF LruHit, LruFault, Next
    <3>2. CASE LruEnds
      BY <3>2, ServedRefines DEF LruEnds, Next
    <3>. QED  BY <2>3, <3>1, <3>2 DEF LruNext
  <2>4. CASE ClockNext
    <3>1. ASSUME NEW p \in Page, NEW t \in AccessType, ClockHit(p, t) \/ ClockFault(p, t)
          PROVE  Next
      BY <3>1, ServedRefines DEF ClockHit, ClockFault, Next
    <3>2. CASE ClockEnds
      BY <3>2, ServedRefines DEF ClockEnds, Next
    <3>. QED  BY <2>4, <3>1, <3>2 DEF ClockNext
  <2>5. CASE alg = "opt" /\ OptNext
    <3>1. CASE OptLine
      <4>1. trace[count.ref] \in Page
        BY <2>5, <3>1, TraceLenAssumption
           DEF OptLine, Replaying, TraceKept, IInv, TypeOK, Counters
      <4>2. "L" \in AccessType
        BY DEF AccessType
      <4>3. ASSUME NEW p \in Page, OptHit(p) \/ OptFault(p) \/ OptFails(p)
            PROVE  Next
        BY <4>2, <4>3, ServedRefines DEF OptHit, OptFault, OptFails, Next
      <4>. QED  BY <3>1, <4>1, <4>3 DEF OptLine
    <3>. QED  BY <2>5, <3>1 DEF OptNext, Next
  <2>6. CASE UNCHANGED simvars
    BY <2>6 DEF simvars, vars
  <2>. QED  BY <2>1, <2>2, <2>3, <2>4, <2>5, <2>6 DEF SimNext
<1>2. TraceKept'
  BY DEF TraceKept, SimNext, OptNext, simvars, optstate
<1>. QED  BY <1>1, <1>2

LEMMA SimInvariance == SimSpec => [](IInv /\ TraceKept)
<1>1. SimInit => IInv /\ TraceKept
  BY SimInitRefines, InitIInv DEF SimInit, AlgInit, OptInit, TraceKept
<1>2. IInv /\ TraceKept /\ [SimNext]_simvars => (IInv /\ TraceKept)'
  BY SimStepRefines, StepIInv
<1>. QED  BY <1>1, <1>2, PTL DEF SimSpec

\* With rand, fifo, lru, clock or opt, and the bitmap beside it, every run of
\* the simulator is a run of PageTable: what is proved of that is true of all
\* five programs the option -a selects.
THEOREM SimulatorImplementsPageTable == SimSpec => Spec
<1>1. IInv /\ TraceKept /\ [SimNext]_simvars => [Next]_vars
  BY SimStepRefines
<1>. QED  BY <1>1, SimInitRefines, SimInvariance, PTL DEF SimSpec, Spec

\* The pages, frames and slots stay consistent under every algorithm ...
THEOREM SimulatorConsistent ==
  SimSpec => [](/\ TypeOK /\ FrameTableInverse /\ EntryStates /\ BackedBySwap
                /\ SlotOwnership /\ CheckAddr /\ MissesAccounted
                /\ CopiesOrdered /\ GivesUpOnlyWhenFull)
BY SimulatorImplementsPageTable, TypeCorrect, TablesInverse, EntryStatesHold,
   PagesBacked, SlotsOwned, AddressCheckSucceeds, StatisticsAddUp,
   VersionsOrdered, SwapFullMeansFull, PTL

\* ... no copy in the swap file goes back in time, and the simulator
\* implements the abstract demand pager.
THEOREM SimulatorPages == SimSpec => SwapCopiesAdvance /\ DemandPagingSpec
BY SimulatorImplementsPageTable, SwapNeverRegresses, ImplementsDemandPaging, PTL

----------------------------------------------------------------------------
(* fifo.c                                                                  *)

\* How far the hand is from a frame: 1 for the one it comes to next.
FromHand(f) == IF f > to_go THEN f - to_go ELSE f - to_go + MemSize

\* The hand meets the frames in the order they were filled.  Until memory is
\* full it has not moved and the frames fill from the first on.
FifoOrder ==
  /\ to_go \in -1 .. MemSize - 1
  /\ Lists(order, InMemory)
  /\ \A x, y : Before(order, x, y) =>
       FromHand(pte[x].frame) < FromHand(pte[y].frame)
  /\ ~MemoryFull =>
       /\ to_go = -1
       /\ \A f, g \in Frame : f < g /\ coremap[g].in_use => coremap[f].in_use

\* The frame that the hand comes to.
LEMMA HandIs ==
  ASSUME to_go \in -1 .. MemSize - 1
  PROVE  /\ fifo_evict = IF to_go = MemSize - 1 THEN 0 ELSE to_go + 1
         /\ fifo_evict \in Frame
         /\ FromHand(fifo_evict) = 1
         /\ \A f \in Frame : FromHand(f) >= 1
<1>1. fifo_evict = IF to_go = MemSize - 1 THEN 0 ELSE to_go + 1
  BY MemSizeAssumption DEF fifo_evict
<1>. QED  BY <1>1, MemSizeAssumption DEF FromHand

LEMMA FramesOfListed ==
  ASSUME IInv
  PROVE  /\ \A q \in InMemory : /\ q \in Page /\ pte[q].frame \in Frame
                                /\ coremap[pte[q].frame].in_use
                                /\ coremap[pte[q].frame].pte = q
         /\ \A q, r \in InMemory : q # r => pte[q].frame # pte[r].frame
BY DEF IInv, TypeOK, Entry, FrameTableInverse, InMemory

LEMMA FifoFaultKeeps ==
  ASSUME IInv, FifoOrder, NEW p \in Page, NEW t \in AccessType, FifoFault(p, t)
  PROVE  FifoOrder' /\ EvictsFirstIn
<1>1. PICK f \in Frame : (MemoryFull => f = fifo_evict) /\ Reference(p, t, f)
  BY DEF FifoFault, RefersWith
<1>2. order' = AfterFault(p, fifo_evict)
  BY DEF FifoFault
<1>3. /\ Lists(order', InMemory')
      /\ \A x, y : Before(order', x, y) =>
           \/ Before(order, x, y) /\ {x, y} \subseteq InMemory \cap InMemory'
           \/ y = p /\ x \in InMemory \cap InMemory'
  BY <1>1, <1>2, FaultLists DEF FifoOrder
<1>4. /\ p \in Page \ InMemory
      /\ coremap' = [coremap EXCEPT ![f] = [in_use |-> TRUE, pte |-> p]]
      /\ MemoryFull => /\ Victim(f) \in InMemory
                       /\ InMemory' = (InMemory \ {Victim(f)}) \cup {p}
                       /\ Leaving = {Victim(f)}
      /\ ~MemoryFull => /\ f \in FreeFrames
                        /\ \A g \in FreeFrames : f <= g
                        /\ InMemory' = InMemory \cup {p}
                        /\ Leaving = {}
      /\ pte'[p].frame = f
      /\ \A q \in InMemory : q \in InMemory' => pte'[q].frame = pte[q].frame
  BY <1>1, FaultMoves
<1>5. coremap \in [Frame -> [in_use : BOOLEAN, pte : Page \cup {NoPage}]]
  BY DEF IInv, TypeOK
<1>6. \A g \in Frame : coremap'[g].in_use <=> g = f \/ coremap[g].in_use
  BY <1>4, <1>5
<1>7. CASE MemoryFull
  <2>1. f = fifo_evict /\ to_go' = f
    BY <1>1, <1>7 DEF FifoFault
  <2>2. to_go' \in -1 .. MemSize - 1 /\ MemoryFull'
    BY <1>6, <1>7, <2>1, MemSizeAssumption DEF MemoryFull, FreeFrames
  <2>3. \A g \in Frame : g # f => FromHand(g)' = FromHand(g) - 1
    BY <2>1, HandIs, MemSizeAssumption DEF FromHand, FifoOrder
  <2>4. FromHand(f)' = MemSize /\ \A g \in Frame : FromHand(g) <= MemSize
    BY <2>1, HandIs, MemSizeAssumption DEF FromHand, FifoOrder
  <2>5. \A q \in InMemory \cap InMemory' :
          pte'[q].frame = pte[q].frame /\ pte[q].frame \in Frame /\ pte[q].frame # f
    BY <1>4, <1>7, FramesOfListed, FullMemory
  <2>6. ASSUME NEW x, NEW y, Before(order', x, y)
        PROVE  FromHand(pte[x].frame)' < FromHand(pte[y].frame)'
    <3>1. CASE Before(order, x, y) /\ {x, y} \subseteq InMemory \cap InMemory'
      <4>1. FromHand(pte[x].frame) < FromHand(pte[y].frame)
        BY <3>1 DEF FifoOrder
      <4>. QED  BY <2>3, <2>5, <3>1, <4>1, MemSizeAssumption DEF FromHand, FifoOrder
    <3>2. CASE y = p /\ x \in InMemory \cap InMemory'
      <4>1. pte'[x].frame \in Frame /\ pte'[x].frame # f
        BY <2>5, <3>2
      <4>2. to_go' = f /\ pte'[y].frame = f
        BY <1>4, <2>1, <3>2
      <4>. QED  BY <4>1, <4>2, MemSizeAssumption DEF FromHand
    <3>. QED  BY <1>3, <2>6, <3>1, <3>2
  <2>7. FifoOrder'
    BY <1>3, <2>2, <2>6 DEF FifoOrder
  <2>8. Victim(f) = Head(order)
    <3>1. SUFFICES ASSUME Victim(f) # Head(order) PROVE FALSE
      OBVIOUS
    <3>2. InMemory \in SUBSET Page
      BY DEF InMemory
    <3>3. Head(order) \in InMemory /\ Before(order, Head(order), Victim(f))
      BY <1>4, <1>7, <3>1, <3>2, HeadFirst DEF FifoOrder
    <3>4. FromHand(pte[Head(order)].frame) < FromHand(pte[Victim(f)].frame)
      BY <3>3 DEF FifoOrder
    <3>5. pte[Victim(f)].frame = f /\ pte[Head(order)].frame \in Frame
      BY <1>7, <3>3, FullMemory
    <3>. QED  BY <2>1, <3>4, <3>5, HandIs, MemSizeAssumption DEF FifoOrder, FromHand
  <2>. QED  BY <1>4, <1>7, <2>7, <2>8 DEF EvictsFirstIn
<1>8. CASE ~MemoryFull
  <2>1. to_go = -1 /\ to_go' = -1
    BY <1>8 DEF FifoOrder, FifoFault
  <2>2. \A g \in Frame : coremap[g].in_use => g < f
    BY <1>4, <1>8, MemSizeAssumption DEF FifoOrder, FreeFrames
  <2>3. \A g, h \in Frame : g < h /\ coremap'[h].in_use => coremap'[g].in_use
    <3>1. \A g \in Frame : g < f => coremap[g].in_use
      BY <1>4, <1>8, MemSizeAssumption DEF FreeFrames
    <3>. QED  BY <1>6, <2>2, <3>1, MemSizeAssumption
  <2>4. ASSUME NEW x, NEW y, Before(order', x, y)
        PROVE  FromHand(pte[x].frame)' < FromHand(pte[y].frame)'
    <3>1. CASE Before(order, x, y) /\ {x, y} \subseteq InMemory \cap InMemory'
      <4>1. FromHand(pte[x].frame) < FromHand(pte[y].frame)
        BY <3>1 DEF FifoOrder
      <4>. QED  BY <1>4, <2>1, <3>1, <4>1 DEF FromHand
    <3>2. CASE y = p /\ x \in InMemory \cap InMemory'
      <4>1. pte'[x].frame \in Frame /\ pte'[x].frame < f
        BY <1>4, <2>2, <3>2, FramesOfListed
      <4>2. pte'[y].frame = f
        BY <1>4, <3>2
      <4>. QED  BY <2>1, <4>1, <4>2, MemSizeAssumption DEF FromHand
    <3>. QED  BY <1>3, <2>4, <3>1, <3>2
  <2>. QED  BY <1>3, <1>4, <1>8, <2>1, <2>3, <2>4, MemSizeAssumption DEF FifoOrder, EvictsFirstIn
<1>. QED  BY <1>7, <1>8

LEMMA FifoKeeps ==
  ASSUME IInv, FifoOrder, FifoNext
  PROVE  FifoOrder' /\ EvictsFirstIn
<1>1. ASSUME NEW p \in Page, NEW t \in AccessType, FifoFault(p, t)
      PROVE  FifoOrder' /\ EvictsFirstIn
  BY <1>1, FifoFaultKeeps
<1>2. ASSUME InMemory' = InMemory, coremap' = coremap, to_go' = to_go, order' = order,
             \A q \in Page : pte'[q].frame = pte[q].frame
      PROVE  FifoOrder' /\ EvictsFirstIn
  <2>1. Leaving = {}
    BY <1>2 DEF Leaving
  <2>2. ASSUME NEW x, NEW y, Before(order, x, y)
        PROVE  x \in Page /\ y \in Page
    <3>1. InMemory \in SUBSET Page
      BY DEF InMemory
    <3>. QED  BY <2>2, <3>1, BeforeListed DEF FifoOrder
  <2>. QED  BY <1>2, <2>1, <2>2 DEF FifoOrder, FromHand, MemoryFull, FreeFrames, EvictsFirstIn
<1>3. ASSUME NEW p \in Page, NEW t \in AccessType, FifoHit(p, t)
      PROVE  FifoOrder' /\ EvictsFirstIn
  BY <1>2, <1>3, HitMoves DEF FifoHit
<1>4. CASE FifoEnds
  BY <1>2, <1>4, EndMoves DEF FifoEnds, FailsWith
<1>. QED  BY <1>1, <1>3, <1>4 DEF FifoNext

----------------------------------------------------------------------------
(* lru.c                                                                   *)

\* The stamps of the pages in memory are their places in the order of use.
LruOrder ==
  /\ counter \in Nat /\ stamp \in [Page -> Nat]
  /\ Lists(order, InMemory)
  /\ \A x, y : Before(order, x, y) => stamp[x] < stamp[y]
  /\ \A q \in InMemory : stamp[q] <= counter

\* The search finds the page at the head of the order, though it passes over
\* the page whose stamp is the counter.
LEMMA LruVictim ==
  ASSUME IInv, LruOrder, MemoryFull
  PROVE  lru_evict \in Frame /\ Victim(lru_evict) = Head(order)
<1>. DEFINE h == Head(order)
            g == pte[h].frame
<1>1. 0 \in Frame
  BY MemSizeAssumption
<1>2. InMemory \in SUBSET Page
  BY DEF InMemory
<1>3. h \in InMemory
  BY <1>1, <1>2, FullMemory, HeadFirst DEF LruOrder
<1>4. g \in Frame /\ Victim(g) = h
  BY <1>3, FullMemory
<1>. HIDE DEF h, g
<1>5. \A f \in Frame : /\ Victim(f) \in InMemory
                       /\ f # g => Before(order, h, Victim(f))
  <2>. TAKE f \in Frame
  <2>1. Victim(f) \in InMemory /\ pte[Victim(f)].frame = f
    BY FullMemory
  <2>. QED  BY <1>2, <2>1, HeadFirst DEF LruOrder, h, g
<1>6. \A f \in Frame : f # g => StampAt(g) < StampAt(f)
  BY <1>4, <1>5 DEF LruOrder, StampAt, Victim
<1>7. \A f \in Frame : StampAt(f) \in Nat /\ StampAt(f) <= counter
  BY <1>5, <1>2 DEF LruOrder, StampAt, Victim
<1>8. counter \in Nat
  BY DEF LruOrder
<1>9. CASE Older = {}
  <2>1. \A f \in Frame : f = g
    BY <1>4, <1>6, <1>7, <1>8, <1>9 DEF Older
  <2>2. lru_evict = 0
    BY <1>9 DEF lru_evict
  <2>. QED  BY <1>1, <1>4, <2>1, <2>2 DEF h
<1>10. CASE Older # {}
  <2>. DEFINE M == {f \in Older : \A e \in Older : StampAt(f) <= StampAt(e)}
  <2>1. g \in Older
    <3>1. PICK f \in Frame : StampAt(f) < counter
      BY <1>10 DEF Older
    <3>2. StampAt(g) < counter
      BY <1>4, <1>6, <1>7, <1>8, <3>1
    <3>. QED  BY <1>4, <3>2 DEF Older
  <2>2. M = {g}
    BY <1>4, <1>6, <1>7, <2>1 DEF Older
  <2>3. {g} \in SUBSET Nat /\ {g} # {}
    BY <1>4
  <2>4. lru_evict = Min(M)
    BY <1>10 DEF lru_evict
  <2>. HIDE DEF M
  <2>5. lru_evict = g
    BY <2>2, <2>3, <2>4, MinExists
  <2>. QED  BY <1>4, <2>5 DEF h
<1>. QED  BY <1>9, <1>10

\* A page stamped with the next value of the counter is the last in the order.
LEMMA StampLast ==
  ASSUME LruOrder, NEW p \in Page, lru_ref(p),
         Lists(order', InMemory'), InMemory' \subseteq InMemory \cup {p},
         \A x, y : Before(order', x, y) =>
           \/ Before(order, x, y) /\ {x, y} \subseteq InMemory \ {p}
           \/ y = p /\ x \in InMemory \ {p}
  PROVE  LruOrder'
<1>1. /\ counter' = counter + 1 /\ counter \in Nat
      /\ stamp' \in [Page -> Nat]
      /\ stamp'[p] = counter + 1
      /\ \A q \in Page : q # p => stamp'[q] = stamp[q]
  BY DEF LruOrder, lru_ref
<1>2. \A q \in InMemory : q \in Page /\ stamp[q] \in Nat /\ stamp[q] <= counter
  BY DEF LruOrder, InMemory
<1>3. ASSUME NEW x, NEW y, Before(order', x, y)
      PROVE  stamp'[x] < stamp'[y]
  <2>1. CASE Before(order, x, y) /\ {x, y} \subseteq InMemory \ {p}
    BY <1>1, <1>2, <2>1 DEF LruOrder
  <2>2. CASE y = p /\ x \in InMemory \ {p}
    BY <1>1, <1>2, <2>2
  <2>. QED  BY <1>3, <2>1, <2>2
<1>4. \A q \in InMemory' : stamp'[q] <= counter'
  BY <1>1, <1>2
<1>. QED  BY <1>1, <1>3, <1>4 DEF LruOrder

LEMMA LruKeeps ==
  ASSUME IInv, LruOrder, LruNext
  PROVE  LruOrder' /\ EvictsLeastRecent
<1>1. ASSUME NEW p \in Page, NEW t \in AccessType, LruFault(p, t)
      PROVE  LruOrder' /\ EvictsLeastRecent
  <2>1. PICK f \in Frame : (MemoryFull => f = lru_evict) /\ Reference(p, t, f)
    BY <1>1 DEF LruFault, RefersWith
  <2>2. order' = AfterFault(p, lru_evict) /\ lru_ref(p)
    BY <1>1 DEF LruFault
  <2>3. /\ Lists(order', InMemory')
        /\ \A x, y : Before(order', x, y) =>
             \/ Before(order, x, y) /\ {x, y} \subseteq InMemory \cap InMemory'
             \/ y = p /\ x \in InMemory \cap InMemory'
    BY <2>1, <2>2, FaultLists DEF LruOrder
  <2>4. /\ p \notin InMemory /\ InMemory' \subseteq InMemory \cup {p}
        /\ Leaving = IF MemoryFull THEN {Victim(f)} ELSE {}
    BY <2>1, FaultMoves
  <2>5. LruOrder'
    BY <2>2, <2>3, <2>4, StampLast
  <2>. QED  BY <2>1, <2>4, <2>5, LruVictim DEF EvictsLeastRecent
<1>2. ASSUME NEW p \in Page, NEW t \in AccessType, LruHit(p, t)
      PROVE  LruOrder' /\ EvictsLeastRecent
  <2>1. p \in InMemory /\ InMemory' = InMemory
    BY <1>2, HitMoves DEF LruHit
  <2>2. order' = Append(Without(order, p), p) /\ lru_ref(p)
    BY <1>2 DEF LruHit
  <2>3. /\ Lists(order', InMemory')
        /\ \A x, y : Before(order', x, y) =>
             \/ Before(order, x, y) /\ {x, y} \subseteq InMemory \ {p}
             \/ y = p /\ x \in InMemory \ {p}
    BY <2>1, <2>2, HitLists DEF LruOrder
  <2>4. LruOrder'
    BY <2>1, <2>2, <2>3, StampLast
  <2>. QED  BY <2>1, <2>4 DEF EvictsLeastRecent, Leaving
<1>3. CASE LruEnds
  <2>1. InMemory' = InMemory /\ Leaving = {}
    BY <1>3, EndMoves DEF LruEnds, FailsWith
  <2>. QED  BY <1>3, <2>1 DEF LruEnds, LruOrder, EvictsLeastRecent
<1>. QED  BY <1>1, <1>2, <1>3 DEF LruNext

----------------------------------------------------------------------------
(* clock.c                                                                 *)

\* The bits of the pages referenced since the last fault are set.
ClockBits ==
  /\ clock_pointer \in Frame
  /\ ref \in [Page -> {0, 1}]
  /\ recent \subseteq Page
  /\ \A q \in recent : ref[q] = 1

\* In one round the hand comes to every frame.
LEMMA RoundTheClock ==
  ASSUME clock_pointer \in Frame
  PROVE  /\ \A k \in Nat : At(k) \in Frame
         /\ \A f \in Frame : \E k \in 0 .. MemSize - 1 : At(k) = f
<1>1. ASSUME NEW k \in Nat
      PROVE  At(k) \in Frame
  BY MemSizeAssumption DEF At
<1>2. ASSUME NEW f \in Frame
      PROVE  \E k \in 0 .. MemSize - 1 : At(k) = f
  <2>. DEFINE k == IF f >= clock_pointer THEN f - clock_pointer
                   ELSE f - clock_pointer + MemSize
  <2>1. k \in 0 .. MemSize - 1
    BY MemSizeAssumption
  <2>2. clock_pointer + k = f \/ clock_pointer + k = f + MemSize
    BY MemSizeAssumption
  <2>3. f % MemSize = f /\ (f + MemSize) % MemSize = f
    BY MemSizeAssumption
  <2>4. At(k) = f
    <3>. HIDE DEF k
    <3>. QED  BY <2>2, <2>3 DEF At
  <2>. QED  BY <2>1, <2>4
<1>. QED  BY <1>1, <1>2

\* The hand stops at a page whose bit is clear, or, when none is, where it
\* was.
LEMMA SweepStops ==
  ASSUME ClockBits, MemoryFull, IInv
  PROVE  /\ Steps \in 0 .. MemSize /\ clock_evict \in Frame
         /\ ref[Victim(clock_evict)] = 1 => \A q \in InMemory : ref[q] = 1
<1>. DEFINE S == {k \in 0 .. MemSize : k = MemSize \/ RefAt(k) = 0}
<1>1. S \in SUBSET Nat /\ S # {}
  BY MemSizeAssumption
<1>2. Steps = Min(S)
  BY DEF Steps
<1>. HIDE DEF S
<1>3. Steps \in S /\ \A k \in S : Steps <= k
  BY <1>1, <1>2, MinExists
<1>4. Steps \in 0 .. MemSize /\ clock_evict \in Frame
  BY <1>3, RoundTheClock, MemSizeAssumption DEF ClockBits, clock_evict, S
<1>5. ASSUME ref[Victim(clock_evict)] = 1, NEW q \in InMemory
      PROVE  ref[q] = 1
  <2>1. RefAt(Steps) = 1
    BY <1>5 DEF RefAt, clock_evict, Victim
  <2>2. Steps = MemSize
    BY <1>3, <2>1 DEF S
  <2>3. pte[q].frame \in Frame /\ coremap[pte[q].frame].pte = q /\ q \in Page
    BY FramesOfListed
  <2>4. PICK k \in 0 .. MemSize - 1 : At(k) = pte[q].frame
    BY <2>3, RoundTheClock DEF ClockBits
  <2>5. k \in 0 .. MemSize /\ k \notin S
    BY <1>3, <2>2, <2>4, MemSizeAssumption
  <2>6. RefAt(k) # 0
    BY <2>5 DEF S
  <2>. QED  BY <2>3, <2>4, <2>6 DEF RefAt, ClockBits
<1>. QED  BY <1>4, <1>5

LEMMA ClockKeeps ==
  ASSUME IInv, ClockBits, ClockNext
  PROVE  ClockBits' /\ SparesRecent
<1>1. ASSUME NEW p \in Page, NEW t \in AccessType, ClockFault(p, t)
      PROVE  ClockBits' /\ SparesRecent
  <2>1. PICK f \in Frame : (MemoryFull => f = clock_evict) /\ Reference(p, t, f)
    BY <1>1 DEF ClockFault, RefersWith
  <2>2. Leaving = IF MemoryFull THEN {Victim(f)} ELSE {}
    BY <2>1, FaultMoves
  <2>3. clock_evict \in Frame
    <3>1. CASE MemoryFull
      BY <3>1, SweepStops
    <3>2. CASE ~MemoryFull
      BY <3>2, RoundTheClock DEF clock_evict, Steps, ClockBits
    <3>. QED  BY <3>1, <3>2
  <2>4. ref' \in [Page -> {0, 1}] /\ ref'[p] = 1 /\ recent' = {p}
    BY <1>1 DEF ClockFault, ClockRef, ClockBits
  <2>5. ClockBits'
    BY <1>1, <2>3, <2>4 DEF ClockBits, ClockFault
  <2>6. SparesRecent
    BY <2>1, <2>2, SweepStops DEF SparesRecent, ClockBits
  <2>. QED  BY <2>5, <2>6
<1>2. ASSUME NEW p \in Page, NEW t \in AccessType, ClockHit(p, t)
      PROVE  ClockBits' /\ SparesRecent
  <2>1. InMemory' = InMemory /\ pte[p].valid
    BY <1>2, HitMoves DEF ClockHit, Hit
  <2>2. /\ ref' \in [Page -> {0, 1}] /\ ref'[p] = 1
        /\ \A q \in Page : q # p => ref'[q] = ref[q]
        /\ recent' = recent \cup {p} /\ clock_pointer' = clock_pointer
    BY <1>2, <2>1 DEF ClockHit, ClockRef, ClockBits
  <2>. QED  BY <2>1, <2>2 DEF ClockBits, SparesRecent, Leaving
<1>3. CASE ClockEnds
  <2>1. Leaving = {}
    BY <1>3, EndMoves DEF ClockEnds, FailsWith
  <2>. QED  BY <1>3, <2>1 DEF ClockEnds, ClockBits, SparesRecent
<1>. QED  BY <1>1, <1>2, <1>3 DEF ClockNext

----------------------------------------------------------------------------
(* opt.c                                                                   *)

\* With zeroes in its buffer opt takes the page in frame 0 to be needed at
\* the next line, and stamps the others with the lines left when they were
\* referenced.
OptOrder ==
  /\ curr_trace = count.ref /\ curr_trace \in 0 .. TraceLen
  /\ buf_trace \in [0 .. TraceLen - 1 -> {0}]
  /\ stamp \in [Page -> Nat]
  /\ Lists(order, InMemory)
  /\ \A q \in InMemory : IF pte[q].frame = 0 THEN stamp[q] = 1
                         ELSE stamp[q] > TraceLen - curr_trace
  /\ \A x, y : Before(order, x, y) /\ pte[x].frame # 0 /\ pte[y].frame # 0 =>
       stamp[x] > stamp[y]

\* The stamp a page gets.
LEMMA OptStamp ==
  ASSUME OptOrder, NEW p \in Page, opt_ref(p), pte'[p].frame \in Frame,
         curr_trace < TraceLen
  PROVE  /\ curr_trace' = curr_trace + 1
         /\ stamp' \in [Page -> Nat]
         /\ stamp'[p] = IF pte'[p].frame = 0 THEN 1 ELSE TraceLen - curr_trace
         /\ \A q \in Page : q # p => stamp'[q] = stamp[q]
<1>. DEFINE c == curr_trace
            s == (IF Ahead(p) = {} THEN TraceLen ELSE Min(Ahead(p))) - c
<1>1. c \in Nat /\ TraceLen \in Nat /\ c < TraceLen
  BY TraceLenAssumption DEF OptOrder
<1>2. stamp' = [stamp EXCEPT ![p] = s] /\ curr_trace' = c + 1
  BY DEF opt_ref
<1>3. Ahead(p) = IF pte'[p].frame = 0 THEN c + 1 .. TraceLen - 1 ELSE {}
  BY <1>1 DEF Ahead, OptOrder
<1>4. s = IF pte'[p].frame = 0 THEN 1 ELSE TraceLen - c
  <2>1. CASE Ahead(p) = {}
    <3>1. s = TraceLen - c
      BY <2>1
    <3>2. ASSUME pte'[p].frame = 0 PROVE TraceLen = c + 1
      <4>1. c + 1 \notin c + 1 .. TraceLen - 1
        BY <1>3, <2>1, <3>2
      <4>. QED  BY <1>1, <4>1
    <3>. QED  BY <1>1, <3>1, <3>2
  <2>2. CASE Ahead(p) # {}
    <3>1. Ahead(p) \in SUBSET Nat /\ pte'[p].frame = 0
      BY <1>1, <1>3, <2>2
    <3>2. PICK m : m = Min(Ahead(p))
      OBVIOUS
    <3>3. m \in Ahead(p) /\ \A k \in Ahead(p) : m <= k
      BY <2>2, <3>1, <3>2, MinExists
    <3>4. Ahead(p) = c + 1 .. TraceLen - 1
      BY <1>3, <3>1
    <3>5. m = c + 1
      <4>1. m \in c + 1 .. TraceLen - 1 /\ c + 1 \in Ahead(p)
        BY <1>1, <3>3, <3>4
      <4>. QED  BY <1>1, <3>3, <4>1
    <3>6. s = m - c
      BY <2>2, <3>2
    <3>. QED  BY <1>1, <3>1, <3>5, <3>6
  <2>. QED  BY <2>1, <2>2
<1>. HIDE DEF s
<1>. QED  BY <1>1, <1>2, <1>4 DEF OptOrder

\* The largest stamp is that of the page which, after the one in frame 0, has
\* not been referenced for longest.
LEMMA OptVictim ==
  ASSUME IInv, OptOrder, MemoryFull, MemSize > 1, curr_trace < TraceLen
  PROVE  /\ opt_evict \in Frame /\ opt_evict # 0
         /\ Victim(opt_evict) = Head(Without(order, coremap[0].pte))
<1>. DEFINE z == Victim(0)
            w == Without(order, z)
            h == Head(w)
            g == pte[h].frame
<1>1. 0 \in Frame /\ 1 \in Frame
  BY MemSizeAssumption
<1>2. InMemory \in SUBSET Page
  BY DEF InMemory
<1>3. /\ z \in InMemory
      /\ \A f \in Frame : f # 0 => Victim(f) \in InMemory \ {z}
  BY <1>1, FullMemory
<1>4. /\ Lists(w, InMemory \ {z})
      /\ \A x, y : Before(w, x, y) => Before(order, x, y)
  BY <1>2, <1>3, WithoutLists DEF OptOrder
<1>. HIDE DEF w
<1>5. InMemory \ {z} \in SUBSET Page /\ Victim(1) \in InMemory \ {z}
  BY <1>1, <1>2, <1>3
<1>6. h \in InMemory \ {z}
  BY <1>4, <1>5, HeadFirst
<1>7. g \in Frame /\ Victim(g) = h /\ g # 0
  BY <1>6, FullMemory
<1>8. ASSUME NEW f \in Frame, f # g
      PROVE  StampAt(f) < StampAt(g)
  <2>1. stamp[h] > TraceLen - curr_trace /\ stamp[h] \in Nat
    BY <1>2, <1>6, <1>7 DEF OptOrder
  <2>2. StampAt(g) = stamp[h] /\ StampAt(f) = stamp[Victim(f)]
    BY <1>7 DEF StampAt, Victim
  <2>3. Victim(f) \in InMemory /\ pte[Victim(f)].frame = f
    BY FullMemory
  <2>4. CASE f = 0
    <3>1. StampAt(f) = 1
      BY <2>2, <2>3, <2>4 DEF OptOrder
    <3>. QED  BY <2>1, <2>2, <3>1, TraceLenAssumption DEF OptOrder
  <2>5. CASE f # 0
    <3>1. Victim(f) # h /\ Victim(f) \in InMemory \ {z}
      BY <1>3, <1>8, <2>3, <2>5
    <3>2. Before(order, h, Victim(f))
      BY <1>4, <1>5, <3>1, HeadFirst
    <3>3. stamp[h] > stamp[Victim(f)]
      BY <1>7, <2>3, <2>5, <3>2 DEF OptOrder
    <3>. QED  BY <1>2, <2>1, <2>2, <2>3, <3>3 DEF OptOrder
  <2>. QED  BY <2>4, <2>5
<1>9. \A f \in Frame : StampAt(f) \in Nat
  BY <1>2, FullMemory DEF OptOrder, StampAt, Victim
<1>. HIDE DEF z, h, g
<1>. DEFINE M == {f \in Frame : \A e \in Frame : StampAt(e) <= StampAt(f)}
<1>10. M = {g}
  BY <1>7, <1>8, <1>9
<1>11. opt_evict = Min(M)
  BY DEF opt_evict
<1>12. {g} \in SUBSET Nat /\ {g} # {}
  BY <1>7
<1>. HIDE DEF M
<1>13. opt_evict = g
  BY <1>10, <1>11, <1>12, MinExists
<1>. QED  BY <1>7, <1>13 DEF h, w, z, Victim

\* A page that has been stamped is the last in the order.
LEMMA OptStampLast ==
  ASSUME OptOrder, NEW p \in Page, opt_ref(p), UNCHANGED buf_trace,
         pte'[p].frame \in Frame,
         \A q \in InMemory : q \in InMemory' => pte'[q].frame = pte[q].frame,
         curr_trace < TraceLen, count'.ref = count.ref + 1,
         Lists(order', InMemory'), InMemory' \subseteq InMemory \cup {p},
         \A x, y : Before(order', x, y) =>
           \/ Before(order, x, y) /\ {x, y} \subseteq (InMemory \cap InMemory') \ {p}
           \/ y = p /\ x \in (InMemory \cap InMemory') \ {p}
  PROVE  OptOrder'
<1>1. /\ curr_trace' = curr_trace + 1
      /\ stamp' \in [Page -> Nat]
      /\ stamp'[p] = IF pte'[p].frame = 0 THEN 1 ELSE TraceLen - curr_trace
      /\ \A q \in Page : q # p => stamp'[q] = stamp[q]
  BY OptStamp
<1>2. curr_trace \in Nat /\ TraceLen \in Nat
  BY TraceLenAssumption DEF OptOrder
<1>3. curr_trace' = count'.ref /\ curr_trace' \in 0 .. TraceLen
  BY <1>1, <1>2 DEF OptOrder
<1>4. \A q \in InMemory : /\ q \in Page /\ stamp[q] \in Nat
                          /\ pte[q].frame # 0 => stamp[q] > TraceLen - curr_trace
                          /\ pte[q].frame = 0 => stamp[q] = 1
  BY DEF OptOrder, InMemory
<1>5. ASSUME NEW q \in InMemory'
      PROVE  IF pte'[q].frame = 0 THEN stamp'[q] = 1
             ELSE stamp'[q] > TraceLen - curr_trace'
  <2>1. CASE q = p
    BY <1>1, <1>2, <2>1
  <2>2. CASE q # p
    BY <1>1, <1>2, <1>4, <2>2
  <2>. QED  BY <2>1, <2>2
<1>6. ASSUME NEW x, NEW y, Before(order', x, y),
             pte'[x].frame # 0, pte'[y].frame # 0
      PROVE  stamp'[x] > stamp'[y]
  <2>1. CASE Before(order, x, y) /\ {x, y} \subseteq (InMemory \cap InMemory') \ {p}
    <3>1. stamp[x] > stamp[y]
      BY <1>6, <2>1 DEF OptOrder
    <3>. QED  BY <1>1, <1>4, <2>1, <3>1
  <2>2. CASE y = p /\ x \in (InMemory \cap InMemory') \ {p}
    <3>1. stamp'[x] > TraceLen - curr_trace
      BY <1>1, <1>4, <1>6, <2>2
    <3>. QED  BY <1>1, <1>6, <2>2, <3>1
  <2>. QED  BY <1>6, <2>1, <2>2
<1>. QED  BY <1>1, <1>3, <1>5, <1>6 DEF OptOrder

LEMMA OptKeeps ==
  ASSUME IInv, TraceKept, alg = "opt", OptOrder, OptNext
  PROVE  OptOrder' /\ EvictsLeastRecentButFrameZero
<1>. DEFINE p == trace[count.ref]
<1>1. ASSUME Replaying
      PROVE  p \in Page
  BY <1>1, TraceLenAssumption DEF Replaying, TraceKept, IInv, TypeOK, Counters
<1>2. "L" \in AccessType /\ buf_trace' = buf_trace
  BY DEF AccessType, OptNext
<1>. HIDE DEF p
<1>3. CASE Replaying /\ OptFault(p)
  <2>1. PICK f \in Frame : (MemoryFull => f = opt_evict) /\ Reference(p, "L", f)
    BY <1>3 DEF OptFault, RefersWith
  <2>2. order' = AfterFault(p, opt_evict) /\ opt_ref(p) /\ p \in Page
    BY <1>1, <1>3 DEF OptFault
  <2>3. /\ Lists(order', InMemory')
        /\ \A x, y : Before(order', x, y) =>
             \/ Before(order, x, y) /\ {x, y} \subseteq InMemory \cap InMemory'
             \/ y = p /\ x \in InMemory \cap InMemory'
    BY <1>2, <2>1, <2>2, FaultLists DEF OptOrder
  <2>4. /\ p \notin InMemory /\ InMemory' \subseteq InMemory \cup {p}
        /\ Leaving = IF MemoryFull THEN {Victim(f)} ELSE {}
        /\ pte'[p].frame = f
        /\ \A q \in InMemory : q \in InMemory' => pte'[q].frame = pte[q].frame
        /\ count'.ref = count.ref + 1 /\ count.ref < TraceLen
    BY <1>2, <2>1, <2>2, FaultMoves
  <2>5. curr_trace < TraceLen
    BY <2>4 DEF OptOrder
  <2>6. OptOrder'
    BY <1>2, <2>2, <2>3, <2>4, <2>5, OptStampLast
  <2>7. EvictsLeastRecentButFrameZero
    BY <2>1, <2>4, <2>5, OptVictim, FullMemory DEF EvictsLeastRecentButFrameZero
  <2>. QED  BY <2>6, <2>7
<1>4. CASE Replaying /\ OptHit(p)
  <2>1. order' = Append(Without(order, p), p) /\ opt_ref(p) /\ p \in Page
    BY <1>1, <1>4 DEF OptHit
  <2>2. /\ p \in InMemory /\ InMemory' = InMemory
        /\ \A q \in Page : pte'[q].frame = pte[q].frame
        /\ count'.ref = count.ref + 1 /\ count.ref < TraceLen
    BY <1>2, <1>4, <2>1, HitMoves DEF OptHit
  <2>3. /\ Lists(order', InMemory')
        /\ \A x, y : Before(order', x, y) =>
             \/ Before(order, x, y) /\ {x, y} \subseteq InMemory \ {p}
             \/ y = p /\ x \in InMemory \ {p}
    BY <2>1, <2>2, HitLists DEF OptOrder
  <2>4. curr_trace < TraceLen /\ pte'[p].frame \in Frame
    BY <2>1, <2>2, FramesOfListed DEF OptOrder
  <2>5. \A q \in InMemory : pte'[q].frame = pte[q].frame
    BY <2>2 DEF InMemory
  <2>6. OptOrder'
    BY <1>2, <2>1, <2>2, <2>3, <2>4, <2>5, OptStampLast
  <2>. QED  BY <2>2, <2>6 DEF EvictsLeastRecentButFrameZero, Leaving
<1>5. CASE (Finish \/ Stopped \/ (Replaying /\ OptFails(p)))
           /\ UNCHANGED <<curr_trace, stamp, order>>
  <2>1. InMemory' = InMemory /\ Leaving = {} /\ pte' = pte /\ count' = count
    BY <1>1, <1>5, EndMoves DEF OptFails, FailsWith
  <2>. QED  BY <1>2, <1>5, <2>1 DEF OptOrder, EvictsLeastRecentButFrameZero
<1>. QED  BY <1>3, <1>4, <1>5 DEF OptNext, OptLine, OptFails, p

----------------------------------------------------------------------------
(* The algorithms of the run                                               *)

\* What each algorithm keeps of the past is what its victim is chosen by.
OrderInv ==
  /\ alg = "fifo" => FifoOrder
  /\ alg = "lru" => LruOrder
  /\ alg = "clock" => ClockBits
  /\ alg = "opt" /\ Garbage = {0} => OptOrder

LEMMA InitOrder == SimInit => OrderInv
<1>. SUFFICES ASSUME SimInit PROVE OrderInv
  OBVIOUS
<1>1. Init
  BY SimInitRefines
<1>2. InMemory = {} /\ count.ref = 0
  BY <1>1 DEF Init, InMemory
<1>3. ~MemoryFull /\ \A f \in Frame : ~coremap[f].in_use
  <2>1. \A f \in Frame : ~coremap[f].in_use
    BY <1>1 DEF Init
  <2>2. 0 \in Frame
    BY MemSizeAssumption
  <2>3. 0 \in FreeFrames
    BY <2>1, <2>2 DEF FreeFrames
  <2>. QED  BY <2>1, <2>3 DEF MemoryFull
<1>4. ASSUME order = <<>>
      PROVE  Lists(order, InMemory) /\ \A x, y : ~Before(order, x, y)
  BY <1>2, <1>4 DEF Lists, Before
<1>5. alg = "fifo" => FifoOrder
  BY <1>3, <1>4, MemSizeAssumption DEF SimInit, AlgInit, FifoInit, FifoOrder
<1>6. alg = "lru" => LruOrder
  BY <1>2, <1>4, TraceLenAssumption DEF SimInit, AlgInit, LruInit, LruOrder, Unset
<1>7. alg = "clock" => ClockBits
  BY MemSizeAssumption DEF SimInit, AlgInit, ClockInit, ClockBits
<1>8. alg = "opt" /\ Garbage = {0} => OptOrder
  BY <1>2, <1>4, TraceLenAssumption DEF SimInit, AlgInit, OptInit, OptOrder
<1>. QED  BY <1>5, <1>6, <1>7, <1>8 DEF OrderInv

\* A step of the run keeps it, and evicts by it.
Evicts ==
  /\ alg = "fifo" => EvictsFirstIn
  /\ alg = "lru" => EvictsLeastRecent
  /\ alg = "clock" => SparesRecent
  /\ alg = "opt" /\ Garbage = {0} => EvictsLeastRecentButFrameZero

LEMMA StepOrder ==
  ASSUME IInv, TraceKept, OrderInv, SimNext
  PROVE  OrderInv' /\ Evicts
<1>1. alg' = alg
  BY DEF SimNext
<1>2. CASE alg = "rand"
  BY <1>1, <1>2 DEF OrderInv, Evicts
<1>3. CASE alg = "fifo" /\ FifoNext
  BY <1>1, <1>3, FifoKeeps DEF OrderInv, Evicts
<1>4. CASE alg = "lru" /\ LruNext
  BY <1>1, <1>4, LruKeeps DEF OrderInv, Evicts
<1>5. CASE alg = "clock" /\ ClockNext
  BY <1>1, <1>5, ClockKeeps DEF OrderInv, Evicts
<1>6. CASE alg = "opt" /\ OptNext
  BY <1>1, <1>6, OptKeeps DEF OrderInv, Evicts
<1>. QED  BY <1>2, <1>3, <1>4, <1>5, <1>6 DEF SimNext

LEMMA StillOrder ==
  ASSUME OrderInv, UNCHANGED simvars
  PROVE  OrderInv'
<1>1. UNCHANGED <<pte, coremap, count, alg, order, to_go, counter, stamp,
                  clock_pointer, ref, recent, buf_trace, curr_trace>>
  BY DEF simvars, vars, fifostate, clockstate, optstate
<1>2. InMemory' = InMemory /\ MemoryFull' = MemoryFull
  BY <1>1 DEF InMemory, MemoryFull, FreeFrames
<1>3. FifoOrder' = FifoOrder
  BY <1>1, <1>2 DEF FifoOrder, FromHand
<1>4. LruOrder' = LruOrder /\ ClockBits' = ClockBits /\ OptOrder' = OptOrder
  BY <1>1, <1>2 DEF LruOrder, ClockBits, OptOrder
<1>. QED  BY <1>1, <1>3, <1>4 DEF OrderInv

LEMMA OrderInvariance == SimSpec => [](IInv /\ TraceKept /\ OrderInv)
<1>1. OrderInv /\ IInv /\ TraceKept /\ [SimNext]_simvars => OrderInv'
  BY StepOrder, StillOrder
<1>. QED  BY <1>1, InitOrder, SimInvariance, PTL DEF SimSpec

\* fifo: the page that leaves has been in memory longest, because the frames
\* fill in the order the hand goes round them.
THEOREM FifoIsFirstInFirstOut == SimSpec => FirstInFirstOut
<1>1. IInv /\ TraceKept /\ OrderInv /\ [SimNext]_simvars
        => [alg = "fifo" => EvictsFirstIn]_simvars
  BY StepOrder DEF Evicts
<1>. QED  BY <1>1, OrderInvariance, PTL DEF SimSpec, FirstInFirstOut

\* lru: the page that leaves is the least recently used, whatever the stamps
\* held at first and although the search skips the last one referenced.
THEOREM LruIsLeastRecentlyUsed == SimSpec => LeastRecentlyUsed
<1>1. IInv /\ TraceKept /\ OrderInv /\ [SimNext]_simvars
        => [alg = "lru" => EvictsLeastRecent]_simvars
  BY StepOrder DEF Evicts
<1>. QED  BY <1>1, OrderInvariance, PTL DEF SimSpec, LeastRecentlyUsed

\* clock: a page referenced since the last fault leaves only when the sweep
\* found every bit set.
THEOREM ClockGivesSecondChance == SimSpec => SecondChance
<1>1. IInv /\ TraceKept /\ OrderInv /\ [SimNext]_simvars
        => [alg = "clock" => SparesRecent]_simvars
  BY StepOrder DEF Evicts
<1>. QED  BY <1>1, OrderInvariance, PTL DEF SimSpec, SecondChance

\* opt on a zeroed buffer never evicts the page in frame 0, and the others
\* in the order lru would.
THEOREM OptIsLruButFrameZero == SimSpec => LruButFrameZero
<1>1. IInv /\ TraceKept /\ OrderInv /\ [SimNext]_simvars
        => [alg = "opt" /\ Garbage = {0} => EvictsLeastRecentButFrameZero]_simvars
  BY StepOrder DEF Evicts
<1>. QED  BY <1>1, OrderInvariance, PTL DEF SimSpec, LruButFrameZero

----------------------------------------------------------------------------
(* The bitmap of swap.c                                                    *)

\* A slot is taken when swap_pageout finds none of the page's own, and then
\* it is the first that is clear; nothing else changes the set of slots.
LEMMA SlotTaken ==
  ASSUME IInv, [Next]_vars
  PROVE  /\ TakesSlot => ClearSlots # {} /\ swapmap' = swapmap \cup {Min(ClearSlots)}
         /\ ~TakesSlot => swapmap' = swapmap
<1>. DEFINE Same == /\ swapmap' = swapmap
                    /\ \A q \in Page : pte'[q].swap_off = pte[q].swap_off
<1>1. ASSUME Same
      PROVE  swapmap' = swapmap /\ ~TakesSlot
  BY <1>1 DEF TakesSlot
<1>2. ASSUME NEW p \in Page, NEW t \in AccessType, Hit(p, t)
      PROVE  Same
  BY <1>2 DEF Hit, IInv, TypeOK, Entry
<1>3. ASSUME NEW p \in Page, NEW t \in AccessType, NEW f \in Frame,
             Reference(p, t, f)
      PROVE  \/ Same
             \/ TakesSlot /\ ClearSlots # {} /\ swapmap' = swapmap \cup {Min(ClearSlots)}
  <2>1. PICK d, c : Brings(p, f, d, c)
    BY <1>3, ReferenceIsBrings
  <2>2. \A q \in Page : pte[q] \in Entry
    BY DEF IInv, TypeOK
  <2>3. CASE ~MemoryFull
    BY <2>1, <2>2, <2>3
       DEF Brings, PteAfterEvict, AllocateFrame, WritesBack, Loaded, IInv, TypeOK, Entry
  <2>. DEFINE v == Victim(f)
              e == pte[v]
  <2>4. CASE MemoryFull /\ ~WritesBack(f)
    <3>1. v \in Page
      BY <2>4, VictimInMemory
    <3>2. pte' = [q \in Page |-> IF q = p THEN Loaded(p, f, d)
                                 ELSE IF q = v THEN Evicted(e, e.swap_off)
                                 ELSE pte[q]]
      BY <2>1, <2>4, <3>1 DEF Brings, PteAfterEvict, IInv, TypeOK
    <3>3. swapmap' = swapmap
      BY <2>1, <2>4 DEF Brings, AllocateFrame
    <3>. HIDE DEF v
    <3>. QED  BY <3>2, <3>3 DEF Loaded, Evicted
  <2>5. CASE MemoryFull /\ WritesBack(f)
    <3>1. v \in Page /\ v # p
      BY <2>1, <2>5, VictimInMemory DEF Brings
    <3>2. pte' = [q \in Page |-> IF q = p THEN Loaded(p, f, d)
                                 ELSE IF q = v THEN Evicted(e, PageoutSlot(e))
                                 ELSE pte[q]]
      BY <2>1, <2>5, <3>1 DEF Brings, PteAfterEvict, IInv, TypeOK
    <3>3. CanPageout(e) /\ swapmap' = swapmap \cup {PageoutSlot(e)}
      BY <2>1, <2>5 DEF Brings, AllocateFrame
    <3>. HIDE DEF v
    <3>4. CASE e.swap_off # INVALID_SWAP
      <4>1. PageoutSlot(e) = e.swap_off /\ e.swap_off \in swapmap
        BY <3>1, <3>4 DEF PageoutSlot, IInv, SlotsHold
      <4>. QED  BY <3>2, <3>3, <4>1 DEF Loaded, Evicted
    <3>5. CASE e.swap_off = INVALID_SWAP
      <4>1. PageoutSlot(e) = Min(ClearSlots) /\ ClearSlots # {}
        BY <3>3, <3>5 DEF PageoutSlot, CanPageout
      <4>2. PageoutSlot(e) # INVALID_SWAP
        BY <3>1, <3>3, PageoutSlotFresh
      <4>3. pte'[v].swap_off # INVALID_SWAP
        BY <3>1, <3>2, <4>2 DEF Evicted
      <4>. QED  BY <3>1, <3>3, <3>5, <4>1, <4>3 DEF TakesSlot
    <3>. QED  BY <3>4, <3>5
  <2>. QED  BY <2>3, <2>4, <2>5
<1>4. ASSUME Finish \/ Stopped
             \/ \E p \in Page, f \in Frame : SwapFull(p, f) \/ SwapError(p, f)
      PROVE  Same
  BY <1>4 DEF Finish, Stopped, SwapFull, SwapError, Ends, vars
<1>5. UNCHANGED vars => Same
  BY DEF vars
<1>. HIDE DEF Same
<1>. QED  BY <1>1, <1>2, <1>3, <1>4, <1>5 DEF Next

USE DEF Bitmap!Offset

\* The bits that are clear are those of the clear slots: the bits past the
\* last slot are never clear.
BitmapWords ==
  /\ bitmap \in [0 .. Bitmap!Words - 1 -> SUBSET Bitmap!Offset]
  /\ \A ix \in 0 .. Bitmap!Words - 1, j \in Bitmap!Offset :
       j \in bitmap[ix] <=> ix * BitsPerWord + j \notin ClearSlots

\* The words are enough for the slots, and none is without one.
LEMMA WordsFit ==
  /\ Bitmap!Words \in Nat
  /\ SwapSize <= Bitmap!Words * BitsPerWord
  /\ Bitmap!Words * BitsPerWord < SwapSize + BitsPerWord
  /\ Bitmap!Words * BitsPerWord \in Nat
<1>. DEFINE n == SwapSize + BitsPerWord - 1
            w == n \div BitsPerWord
<1>1. n \in Nat
  BY SwapSizeAssumption, BitsPerWordAssumption
<1>2. w \in Nat /\ n % BitsPerWord \in 0 .. BitsPerWord - 1
      /\ n = w * BitsPerWord + (n % BitsPerWord)
  BY <1>1, DivMod, BitsPerWordAssumption
<1>3. Bitmap!Words = w
  BY DEF Bitmap!Words, Bitmap!DIVROUNDUP
<1>. HIDE DEF w
<1>4. w * BitsPerWord \in Nat
  BY <1>2, BitsPerWordAssumption
<1>. QED  BY <1>2, <1>3, <1>4, SwapSizeAssumption, BitsPerWordAssumption

\* The word and the bit of a slot.
LEMMA SlotAddress ==
  ASSUME NEW s \in Slot
  PROVE  /\ s \div BitsPerWord \in 0 .. Bitmap!Words - 1
         /\ s % BitsPerWord \in Bitmap!Offset
         /\ (s \div BitsPerWord) * BitsPerWord + (s % BitsPerWord) = s
         /\ s \in 0 .. Bitmap!Words * BitsPerWord - 1
<1>. DEFINE q == s \div BitsPerWord
            r == s % BitsPerWord
<1>. s \in Nat
  BY SwapSizeAssumption
<1>1. q \in Nat /\ r \in Bitmap!Offset /\ q * BitsPerWord + r = s
  BY DivMod, BitsPerWordAssumption
<1>2. s < Bitmap!Words * BitsPerWord
  BY WordsFit, SwapSizeAssumption
<1>. HIDE DEF q, r
<1>3. q * BitsPerWord \in Nat
  BY <1>1, BitsPerWordAssumption
<1>4. q < Bitmap!Words
  <2>1. q > Bitmap!Words => Bitmap!Words * BitsPerWord + BitsPerWord <= q * BitsPerWord
    BY <1>1, WordsFit, NextWord, BitsPerWordAssumption
  <2>2. q # Bitmap!Words
    BY <1>1, <1>2, <1>3, WordsFit, BitsPerWordAssumption
  <2>. QED  BY <1>1, <1>2, <1>3, <2>1, <2>2, WordsFit, BitsPerWordAssumption
<1>. QED  BY <1>1, <1>2, <1>4, WordsFit DEF q, r

\* In the program's terms a word and a bit of the first clear slot.
LEMMA FirstClearSlot ==
  ASSUME BitmapWords
  PROVE  /\ Bitmap!NotFull(bitmap) = {} <=> ClearSlots = {}
         /\ ClearSlots # {} =>
              /\ Min(ClearSlots) \in ClearSlots
              /\ Bitmap!FirstClear(bitmap) =
                   <<Min(ClearSlots) \div BitsPerWord, Min(ClearSlots) % BitsPerWord>>
<1>1. ClearSlots \subseteq Slot /\ Slot \subseteq Nat
  BY SwapSizeAssumption DEF ClearSlots
<1>2. ASSUME NEW iy \in Bitmap!NotFull(bitmap)
      PROVE  /\ iy \in 0 .. Bitmap!Words - 1
             /\ \E j \in Bitmap!Offset : iy * BitsPerWord + j \in ClearSlots
  BY <1>2 DEF Bitmap!NotFull, BitmapWords
<1>3. ASSUME ClearSlots = {}
      PROVE  Bitmap!NotFull(bitmap) = {}
  BY <1>2, <1>3
<1>4. ASSUME ClearSlots # {}
      PROVE  /\ Min(ClearSlots) \in ClearSlots
             /\ Bitmap!NotFull(bitmap) # {}
             /\ Bitmap!FirstClear(bitmap) =
                  <<Min(ClearSlots) \div BitsPerWord, Min(ClearSlots) % BitsPerWord>>
  <2>1. PICK m : m = Min(ClearSlots)
    OBVIOUS
  <2>2. m \in ClearSlots /\ \A s \in ClearSlots : m <= s
    BY <1>1, <1>4, <2>1, MinExists
  <2>3. PICK q, r : q = m \div BitsPerWord /\ r = m % BitsPerWord
    OBVIOUS
  <2>4. /\ q \in 0 .. Bitmap!Words - 1 /\ r \in Bitmap!Offset
        /\ q * BitsPerWord + r = m
    BY <1>1, <2>2, <2>3, SlotAddress
  <2>5. q \in Bitmap!NotFull(bitmap) /\ r \in Bitmap!Offset \ bitmap[q]
    BY <2>2, <2>4 DEF Bitmap!NotFull, BitmapWords
  <2>6. ASSUME NEW iy \in Bitmap!NotFull(bitmap)
        PROVE  q <= iy
    <3>1. PICK j \in Bitmap!Offset : iy * BitsPerWord + j \in ClearSlots
      BY <1>2
    <3>2. m <= iy * BitsPerWord + j
      BY <2>2, <3>1
    <3>3. iy \in Nat /\ q \in Nat
      BY <1>2, <2>4, WordsFit
    <3>4. ASSUME iy < q  PROVE FALSE
      <4>1. /\ iy * BitsPerWord + BitsPerWord <= q * BitsPerWord
            /\ iy * BitsPerWord \in Nat /\ q * BitsPerWord \in Nat
        BY <3>3, <3>4, NextWord, BitsPerWordAssumption
      <4>. QED  BY <2>4, <3>2, <4>1, BitsPerWordAssumption
    <3>. QED  BY <3>3, <3>4
  <2>7. Min(Bitmap!NotFull(bitmap)) = q
    <3>1. Bitmap!NotFull(bitmap) \in SUBSET Nat
      BY <1>2, WordsFit
    <3>. QED  BY <2>5, <2>6, <3>1, MinIs
  <2>8. Min(Bitmap!Offset \ bitmap[q]) = r
    <3>1. ASSUME NEW j \in Bitmap!Offset \ bitmap[q]
          PROVE  r <= j
      <4>1. m <= q * BitsPerWord + j
        BY <2>2, <2>4 DEF BitmapWords
      <4>2. q * BitsPerWord \in Nat
        BY <2>4, WordsFit, BitsPerWordAssumption
      <4>. QED  BY <2>4, <4>1, <4>2, BitsPerWordAssumption
    <3>2. Bitmap!Offset \ bitmap[q] \in SUBSET Nat
      BY BitsPerWordAssumption
    <3>. QED  BY <2>5, <3>1, <3>2, MinIs
  <2>9. Bitmap!Min(Bitmap!NotFull(bitmap)) = q /\ Bitmap!Min(Bitmap!Offset \ bitmap[q]) = r
    BY <2>7, <2>8 DEF Bitmap!Min, Min
  <2>. QED  BY <2>1, <2>2, <2>3, <2>5, <2>9 DEF Bitmap!FirstClear
<1>. QED  BY <1>3, <1>4

\* The words stand for the set of slots, and bitmap_alloc answers from it.
LEMMA WordsAreSwapmap ==
  ASSUME IInv, BitmapWords
  PROVE  BitmapIsSwapmap
<1>1. Bitmap!Marked(bitmap) \cap Slot = swapmap
  <2>1. ASSUME NEW s \in Slot
        PROVE  s \in Bitmap!Marked(bitmap) <=> s \in swapmap
    <3>1. PICK q, r : q = s \div BitsPerWord /\ r = s % BitsPerWord
      OBVIOUS
    <3>2. /\ q \in 0 .. Bitmap!Words - 1 /\ r \in Bitmap!Offset
          /\ q * BitsPerWord + r = s /\ s \in 0 .. Bitmap!Words * BitsPerWord - 1
      BY <3>1, SlotAddress
    <3>3. s \in Bitmap!Marked(bitmap) <=> r \in bitmap[q]
      BY <3>1, <3>2 DEF Bitmap!Marked
    <3>. QED  BY <3>2, <3>3 DEF BitmapWords, ClearSlots
  <2>. QED  BY <2>1 DEF IInv, TypeOK
<1>2. CASE ClearSlots = {}
  BY <1>1, <1>2, FirstClearSlot DEF BitmapIsSwapmap, Bitmap!Allocated
<1>3. CASE ClearSlots # {}
  <2>1. PICK m : m = Min(ClearSlots)
    OBVIOUS
  <2>2. m \in Slot
    BY <1>3, <2>1, FirstClearSlot DEF ClearSlots
  <2>3. Bitmap!Allocated(bitmap)
          = (m \div BitsPerWord) * BitsPerWord + (m % BitsPerWord)
    BY <1>3, <2>1, FirstClearSlot DEF Bitmap!Allocated
  <2>4. Bitmap!Allocated(bitmap) = m
    BY <2>2, <2>3, SlotAddress
  <2>. QED  BY <1>1, <1>3, <2>1, <2>4 DEF BitmapIsSwapmap
<1>. QED  BY <1>2, <1>3

\* bitmap_create leaves clear the bits of the slots and no others.
LEMMA InitWords == SimInit => BitmapWords
<1>. SUFFICES ASSUME SimInit PROVE BitmapWords
  OBVIOUS
<1>1. bitmap = Bitmap!bitmap_create /\ swapmap = {}
  BY SimInitRefines DEF SimInit, Init
<1>2. ASSUME NEW ix \in 0 .. Bitmap!Words - 1, NEW j \in Bitmap!Offset
      PROVE  j \in bitmap[ix] <=> ix * BitsPerWord + j \notin ClearSlots
  <2>1. ix \in Nat /\ Bitmap!Words \in Nat /\ ix * BitsPerWord \in Nat
        /\ ix * BitsPerWord + j \in Nat /\ Bitmap!Words * BitsPerWord \in Nat
    BY WordsFit, BitsPerWordAssumption
  <2>2. ix * BitsPerWord + j \notin ClearSlots <=> ix * BitsPerWord + j >= SwapSize
    BY <1>1, <2>1, SwapSizeAssumption DEF ClearSlots
  <2>3. j \in bitmap[ix] <=> Bitmap!Leftover(ix) /\ ix * BitsPerWord + j >= SwapSize
    BY <1>1 DEF Bitmap!bitmap_create
  <2>4. ASSUME ix * BitsPerWord + j >= SwapSize
        PROVE  Bitmap!Leftover(ix)
    <3>1. PICK w \in Nat : w = Bitmap!Words - 1
      BY <2>1
    <3>2. w * BitsPerWord \in Nat /\ w * BitsPerWord + BitsPerWord <= Bitmap!Words * BitsPerWord
      BY <2>1, <3>1, NextWord, BitsPerWordAssumption
    <3>3. ix * BitsPerWord + BitsPerWord <= Bitmap!Words * BitsPerWord
      BY <2>1, NextWord, BitsPerWordAssumption
    <3>4. ix < w => ix * BitsPerWord + BitsPerWord <= w * BitsPerWord
      BY <2>1, NextWord, BitsPerWordAssumption
    <3>5. ix = w
      BY <2>1, <2>4, <3>1, <3>2, <3>4, WordsFit, BitsPerWordAssumption, SwapSizeAssumption
    <3>6. PICK d, r : d = SwapSize \div BitsPerWord /\ r = SwapSize % BitsPerWord
      OBVIOUS
    <3>7. d \in Nat /\ r \in 0 .. BitsPerWord - 1 /\ SwapSize = d * BitsPerWord + r
      BY <3>6, DivMod, BitsPerWordAssumption, SwapSizeAssumption
    <3>8. d * BitsPerWord \in Nat
      BY <3>7, BitsPerWordAssumption
    <3>9. Bitmap!Words < d => Bitmap!Words * BitsPerWord + BitsPerWord <= d * BitsPerWord
      BY <2>1, <3>7, NextWord, BitsPerWordAssumption
    <3>10. Bitmap!Words = d => Bitmap!Words * BitsPerWord = d * BitsPerWord
      OBVIOUS
    <3>11. Bitmap!Words * BitsPerWord > d * BitsPerWord
      BY <2>1, <2>4, <3>3, <3>7, <3>8, BitsPerWordAssumption, SwapSizeAssumption
    <3>12. Bitmap!Words > d
      BY <2>1, <3>7, <3>8, <3>9, <3>10, <3>11, BitsPerWordAssumption
    <3>. QED  BY <3>1, <3>5, <3>6, <3>12 DEF Bitmap!Leftover
  <2>. QED  BY <2>2, <2>3, <2>4
<1>3. bitmap \in [0 .. Bitmap!Words - 1 -> SUBSET Bitmap!Offset]
  BY <1>1 DEF Bitmap!bitmap_create
<1>. QED  BY <1>2, <1>3 DEF BitmapWords

\* bitmap_alloc sets the bit of the first clear slot, which is the slot taken.
LEMMA StepWords ==
  ASSUME IInv, TraceKept, BitmapWords, [SimNext]_simvars
  PROVE  BitmapWords'
<1>1. [Next]_vars
  BY SimStepRefines
<1>2. CASE SimNext /\ TakesSlot
  <2>1. PICK m : m = Min(ClearSlots)
    OBVIOUS
  <2>2. ClearSlots # {} /\ swapmap' = swapmap \cup {m}
    BY <1>1, <1>2, <2>1, SlotTaken
  <2>3. m \in Slot /\ ClearSlots' = ClearSlots \ {m}
    BY <2>1, <2>2, FirstClearSlot DEF ClearSlots
  <2>4. PICK q, r : q = m \div BitsPerWord /\ r = m % BitsPerWord
    OBVIOUS
  <2>5. q \in 0 .. Bitmap!Words - 1 /\ r \in Bitmap!Offset /\ q * BitsPerWord + r = m
    BY <2>3, <2>4, SlotAddress
  <2>6. bitmap' = [bitmap EXCEPT ![q] = @ \cup {r}]
    <3>1. Bitmap!NotFull(bitmap) # {} /\ Bitmap!FirstClear(bitmap) = <<q, r>>
      BY <2>1, <2>2, <2>4, FirstClearSlot
    <3>2. bitmap' = Bitmap!bitmap_alloc(bitmap)
      BY <1>2 DEF SimNext
    <3>3. Bitmap!FirstClear(bitmap)[1] = q /\ Bitmap!FirstClear(bitmap)[2] = r
      BY <3>1
    <3>. QED  BY <3>1, <3>2, <3>3, Zenon DEF Bitmap!bitmap_alloc
  <2>7. ASSUME NEW ix \in 0 .. Bitmap!Words - 1, NEW j \in Bitmap!Offset
        PROVE  /\ ix * BitsPerWord + j = m <=> ix = q /\ j = r
               /\ j \in bitmap'[ix] <=> j \in bitmap[ix] \/ (ix = q /\ j = r)
    <3>1. ix \in Nat
      BY WordsFit
    <3>2. ix * BitsPerWord + j = m => ix = q /\ j = r
      <4>1. BitsPerWord \in Nat \ {0} /\ j \in 0 .. BitsPerWord - 1
        BY BitsPerWordAssumption DEF Bitmap!Offset
      <4>2. (ix * BitsPerWord + j) \div BitsPerWord = ix /\ (ix * BitsPerWord + j) % BitsPerWord = j
        BY <3>1, <4>1, DivModUnique
      <4>. QED  BY <2>4, <4>2
    <3>3. bitmap'[ix] = IF ix = q THEN bitmap[ix] \cup {r} ELSE bitmap[ix]
      <4>1. DOMAIN bitmap = 0 .. Bitmap!Words - 1
        BY DEF BitmapWords
      <4>. QED  BY <2>6, <4>1
    <3>. QED  BY <2>5, <3>2, <3>3
  <2>. QED  BY <2>3, <2>5, <2>6, <2>7 DEF BitmapWords
<1>3. CASE SimNext /\ ~TakesSlot
  BY <1>1, <1>3, SlotTaken DEF SimNext, BitmapWords, ClearSlots
<1>4. CASE UNCHANGED simvars
  BY <1>4 DEF simvars, vars, BitmapWords, ClearSlots
<1>. QED  BY <1>2, <1>3, <1>4

\* The words of swap.c's bitmap are the set of slots the page table is judged
\* by, for every width of a word and every number of slots, under every
\* algorithm: bitmap_alloc answers the first clear slot, never a leftover bit
\* of the last word, and fails only when every slot is taken.
THEOREM BitmapStandsForSlots == SimSpec => []BitmapIsSwapmap
<1>1. IInv /\ TraceKept /\ BitmapWords /\ [SimNext]_simvars => BitmapWords'
  BY StepWords
<1>2. IInv /\ BitmapWords => BitmapIsSwapmap
  BY WordsAreSwapmap
<1>. QED  BY <1>1, <1>2, InitWords, SimInvariance, PTL DEF SimSpec
=============================================================================
