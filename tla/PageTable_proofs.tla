-------------------------- MODULE PageTable_proofs --------------------------
(***************************************************************************)
(* Proofs about PageTable for every set of pages, memory size, swap size   *)
(* and trace length.                                                       *)
(***************************************************************************)
EXTENDS PageTable, NatSetTheorems, FiniteSetTheorems, TLAPS

USE DEF Frame, Slot, INVALID_SWAP

----------------------------------------------------------------------------
(* The inductive invariant.  The checked invariants say what holds of the  *)
(* pages on swap and of the clean ones; to survive a step they need the    *)
(* same of every page that has a slot.                                     *)

\* Whatever has a slot has it marked, and is what the slot holds.
SlotsHold ==
  \A p \in Page : pte[p].swap_off # INVALID_SWAP =>
    /\ pte[p].swap_off \in swapmap
    /\ swapfile[pte[p].swap_off].vaddr = p

\* Whatever can leave memory unwritten, or has left it, has a slot.
HasSlot ==
  \A p \in Page : pte[p].onswap \/ (pte[p].valid /\ ~pte[p].dirty) =>
                    pte[p].swap_off # INVALID_SWAP

IInv ==
  /\ TypeOK
  /\ FrameTableInverse
  /\ EntryStates
  /\ SlotsHold
  /\ HasSlot
  /\ SlotOwnership
  /\ CheckAddr

----------------------------------------------------------------------------

\* A step that brings a page in, whichever way: the disjunct both PageIn and
\* FirstTouch refine.  d is the dirty bit and c the contents they leave.
Brings(p, f, d, c) ==
  /\ ~pte[p].valid
  /\ AllocateFrame(p, f)
  /\ pte' = [PteAfterEvict(f) EXCEPT ![p] = Loaded(p, f, d)]
  /\ physmem' = [physmem EXCEPT ![f] = c]

\* The frame an eviction takes holds a page in memory, which is not the page
\* that is being brought in.
LEMMA VictimInMemory ==
  ASSUME IInv, MemoryFull, NEW f \in Frame
  PROVE  /\ Victim(f) \in Page
         /\ pte[Victim(f)].valid
         /\ ~pte[Victim(f)].onswap
         /\ pte[Victim(f)].frame = f
         /\ physmem[f].vaddr = Victim(f)
BY DEF IInv, FrameTableInverse, MemoryFull, FreeFrames, Victim, InMemory,
       EntryStates, CheckAddr

\* The slot of a page-out is the page's own, or one that was not marked.
LEMMA PageoutSlotFresh ==
  ASSUME IInv, NEW v \in Page, CanPageout(pte[v])
  PROVE  /\ PageoutSlot(pte[v]) \in Slot
         /\ pte[v].swap_off # INVALID_SWAP => PageoutSlot(pte[v]) = pte[v].swap_off
         /\ pte[v].swap_off = INVALID_SWAP => PageoutSlot(pte[v]) \notin swapmap
<1>1. CASE pte[v].swap_off # INVALID_SWAP
  <2>1. pte[v].swap_off \in Slot  BY <1>1 DEF IInv, TypeOK, Entry
  <2>. QED  BY <1>1, <2>1 DEF PageoutSlot
<1>2. CASE pte[v].swap_off = INVALID_SWAP
  <2>1. ClearSlots # {} /\ ClearSlots \in SUBSET Nat
    BY <1>2 DEF CanPageout, ClearSlots
  <2>2. PageoutSlot(pte[v]) \in ClearSlots
    BY <1>2, <2>1, MinExists DEF PageoutSlot
  <2>. QED  BY <1>2, <2>2 DEF ClearSlots
<1>. QED  BY <1>1, <1>2

\* What allocate_frame does when memory is full: the victim v leaves with a
\* slot s of its own, which holds it from then on, and no other slot changes.
LEMMA Eviction ==
  ASSUME IInv, NEW p \in Page, NEW f \in Frame, NEW d, NEW c,
         Brings(p, f, d, c), MemoryFull
  PROVE  \E v \in Page, s \in Slot :
           /\ v # p /\ v = coremap[f].pte /\ pte[v].valid /\ pte[v].frame = f
           /\ pte[v].swap_off # INVALID_SWAP => s = pte[v].swap_off
           /\ pte[v].swap_off = INVALID_SWAP => s \notin swapmap
           /\ pte' = [q \in Page |-> IF q = p THEN Loaded(p, f, d)
                                     ELSE IF q = v THEN Evicted(pte[v], s)
                                     ELSE pte[q]]
           /\ swapmap' = swapmap \cup {s}
           /\ swapfile' \in [Slot -> Content]
           /\ swapfile'[s].vaddr = v
           /\ \/ swapfile'[s] = physmem[f]
              \/ s \in swapmap /\ swapfile'[s] = swapfile[s]
           /\ \A u \in Slot : u # s => swapfile'[u] = swapfile[u]
<1>. DEFINE v == Victim(f)
            s == IF WritesBack(f) THEN PageoutSlot(pte[v]) ELSE pte[v].swap_off
<1>1. /\ v \in Page /\ pte[v].valid /\ pte[v].frame = f /\ ~pte[v].onswap
      /\ physmem[f].vaddr = v /\ v = coremap[f].pte /\ v # p
  BY VictimInMemory DEF Brings, Victim
<1>2. pte \in [Page -> Entry] /\ pte[v] \in Entry
  BY <1>1 DEF IInv, TypeOK
<1>3. pte' = [q \in Page |-> IF q = p THEN Loaded(p, f, d)
                             ELSE IF q = v THEN Evicted(pte[v], s)
                             ELSE pte[q]]
  BY <1>1, <1>2 DEF Brings, PteAfterEvict
<1>4. CASE WritesBack(f)
  <2>1. /\ CanPageout(pte[v])
        /\ swapmap' = swapmap \cup {s}
        /\ swapfile' = [swapfile EXCEPT ![s] = physmem[f]]
    BY <1>1, <1>4 DEF Brings, AllocateFrame
  <2>2. /\ s \in Slot
        /\ pte[v].swap_off # INVALID_SWAP => s = pte[v].swap_off
        /\ pte[v].swap_off = INVALID_SWAP => s \notin swapmap
    <3>1. s = PageoutSlot(pte[v])  BY <1>4
    <3>2. /\ PageoutSlot(pte[v]) \in Slot
          /\ pte[v].swap_off # INVALID_SWAP => PageoutSlot(pte[v]) = pte[v].swap_off
          /\ pte[v].swap_off = INVALID_SWAP => PageoutSlot(pte[v]) \notin swapmap
      <4>1. v \in Page /\ CanPageout(pte[v])
        BY <1>1, <2>1
      <4>. HIDE DEF v, s
      <4>. QED  BY <4>1, PageoutSlotFresh
    <3>. HIDE DEF v, s
    <3>. QED  BY <3>1, <3>2
  <2>3. swapfile \in [Slot -> Content] /\ physmem[f] \in Content
    BY DEF IInv, TypeOK
  <2>4. /\ swapfile' \in [Slot -> Content]
        /\ swapfile'[s].vaddr = v /\ swapfile'[s] = physmem[f]
        /\ \A u \in Slot : u # s => swapfile'[u] = swapfile[u]
    BY <1>1, <2>1, <2>2, <2>3
  <2>. HIDE DEF v, s
  <2>. QED  BY <1>1, <1>3, <2>1, <2>2, <2>4
<1>5. CASE ~WritesBack(f)
  <2>1. ~pte[v].dirty /\ s = pte[v].swap_off
    BY <1>1, <1>5 DEF WritesBack
  <2>2. s # INVALID_SWAP
    BY <1>1, <2>1 DEF IInv, HasSlot
  <2>3. s \in Slot /\ s \in swapmap /\ swapfile[s].vaddr = v
    <3>1. v \in Page /\ pte[v] \in Entry /\ pte[v].swap_off \in Slot
      BY <1>1, <1>2, <2>1, <2>2 DEF Entry
    <3>. QED  BY <2>1, <2>2, <3>1 DEF IInv, SlotsHold
  <2>4. swapmap' = swapmap /\ swapfile' = swapfile
    BY <1>5 DEF Brings, AllocateFrame
  <2>5. swapfile' \in [Slot -> Content] /\ swapmap' = swapmap \cup {s}
    BY <2>3, <2>4 DEF IInv, TypeOK
  <2>6. /\ pte[v].swap_off # INVALID_SWAP => s = pte[v].swap_off
        /\ pte[v].swap_off = INVALID_SWAP => s \notin swapmap
    BY <2>1, <2>2
  <2>7. /\ swapfile'[s].vaddr = v /\ swapfile'[s] = swapfile[s]
        /\ \A u \in Slot : u # s => swapfile'[u] = swapfile[u]
    BY <2>3, <2>4
  <2>. HIDE DEF v, s
  <2>. QED  BY <1>1, <1>3, <2>3, <2>5, <2>6, <2>7
<1>. QED  BY <1>4, <1>5

\* Without an eviction nothing but the page's entry and its frame changes.
LEMMA FillingFree ==
  ASSUME IInv, NEW p \in Page, NEW f \in Frame, NEW d, NEW c,
         Brings(p, f, d, c), ~MemoryFull
  PROVE  /\ ~coremap[f].in_use
         /\ pte' = [pte EXCEPT ![p] = Loaded(p, f, d)]
         /\ swapmap' = swapmap /\ swapfile' = swapfile
<1>1. FreeFrames # {} /\ FreeFrames \in SUBSET Nat
  BY DEF MemoryFull, FreeFrames
<1>2. f \in FreeFrames
  BY <1>1, MinExists DEF Brings, AllocateFrame, Allocatable
<1>. QED  BY <1>2 DEF Brings, AllocateFrame, FreeFrames, PteAfterEvict, WritesBack

\* Bringing a page in keeps the invariant, as long as what lands in the frame
\* is the page, and a page that comes without a slot comes dirty.
LEMMA BringsKeepsIInv ==
  ASSUME IInv, NEW p \in Page, NEW f \in Frame, NEW d \in BOOLEAN,
         NEW c \in Content, Brings(p, f, d, c),
         c.vaddr = p, d \/ pte[p].onswap,
         count' \in Counters, stored' \in [Page -> Nat], status' = status,
         \A q \in Page : q # p => stored'[q] = stored[q]
  PROVE  IInv'
<1>. USE DEF IInv
<1>1. /\ coremap' = [coremap EXCEPT ![f] = [in_use |-> TRUE, pte |-> p]]
      /\ physmem' = [physmem EXCEPT ![f] = c]
      /\ ~pte[p].valid
      /\ Loaded(p, f, d) \in Entry
  BY DEF Brings, AllocateFrame, Loaded, Entry, TypeOK
<1>2. CASE ~MemoryFull
  <2>1. /\ ~coremap[f].in_use
        /\ pte' = [pte EXCEPT ![p] = Loaded(p, f, d)]
        /\ swapmap' = swapmap /\ swapfile' = swapfile
    BY <1>2, FillingFree
  <2>2. TypeOK'
    BY <1>1, <2>1 DEF TypeOK
  <2>3. FrameTableInverse'
    BY <1>1, <2>1 DEF FrameTableInverse, InMemory, TypeOK, Loaded
  <2>4. EntryStates' /\ SlotsHold' /\ HasSlot'
    BY <1>1, <2>1 DEF EntryStates, SlotsHold, HasSlot, TypeOK, Loaded
  <2>5. SlotOwnership'
    BY <1>1, <2>1 DEF SlotOwnership, TypeOK, Loaded
  <2>6. CheckAddr'
    BY <1>1, <2>1 DEF CheckAddr, FrameTableInverse, InMemory, TypeOK, Loaded
  <2>. QED  BY <2>2, <2>3, <2>4, <2>5, <2>6
<1>3. CASE MemoryFull
  <2>1. PICK v \in Page, s \in Slot :
           /\ v # p /\ v = coremap[f].pte /\ pte[v].valid /\ pte[v].frame = f
           /\ pte[v].swap_off # INVALID_SWAP => s = pte[v].swap_off
           /\ pte[v].swap_off = INVALID_SWAP => s \notin swapmap
           /\ pte' = [q \in Page |-> IF q = p THEN Loaded(p, f, d)
                                     ELSE IF q = v THEN Evicted(pte[v], s)
                                     ELSE pte[q]]
           /\ swapmap' = swapmap \cup {s}
           /\ swapfile' \in [Slot -> Content]
           /\ swapfile'[s].vaddr = v
           /\ \/ swapfile'[s] = physmem[f]
              \/ s \in swapmap /\ swapfile'[s] = swapfile[s]
           /\ \A u \in Slot : u # s => swapfile'[u] = swapfile[u]
    BY <1>3, Eviction
  <2>2. pte[v] \in Entry /\ Evicted(pte[v], s) \in Entry
    BY DEF TypeOK, Entry, Evicted
  <2>3. TypeOK'
    BY <1>1, <2>1, <2>2 DEF TypeOK
  <2>4. /\ Evicted(pte[v], s).valid = FALSE /\ Evicted(pte[v], s).dirty = FALSE
        /\ Evicted(pte[v], s).onswap = TRUE /\ Evicted(pte[v], s).swap_off = s
    BY <2>2 DEF Evicted, Entry
  <2>5. FrameTableInverse'
    <3>1. coremap'[f].in_use /\ coremap'[f].pte = p /\ \A g \in Frame : g # f => coremap'[g] = coremap[g]
      BY <1>1 DEF TypeOK
    <3>2. /\ pte'[p].valid = TRUE /\ pte'[p].frame = f /\ pte'[v].valid = FALSE
          /\ \A q \in Page : q \notin {p, v} => pte'[q] = pte[q]
      BY <2>1, <2>4 DEF Loaded
    <3>3. ASSUME NEW q \in Page, pte'[q].valid
          PROVE  coremap'[pte'[q].frame].in_use /\ coremap'[pte'[q].frame].pte = q
      <4>1. CASE q = p
        BY <3>1, <3>2, <4>1
      <4>2. CASE q # p
        <5>1. q # v /\ pte'[q] = pte[q]
          BY <3>2, <3>3, <4>2
        <5>2. pte[q].frame \in Frame /\ coremap[pte[q].frame].in_use /\ coremap[pte[q].frame].pte = q
          BY <3>3, <5>1 DEF FrameTableInverse, InMemory, TypeOK, Entry
        <5>. QED  BY <2>1, <3>1, <5>1, <5>2
      <4>. QED  BY <4>1, <4>2
    <3>4. ASSUME NEW g \in Frame, coremap'[g].in_use
          PROVE  /\ coremap'[g].pte \in Page /\ pte'[coremap'[g].pte].valid
                 /\ pte'[coremap'[g].pte].frame = g
      <4>1. CASE g = f
        BY <3>1, <3>2, <4>1
      <4>2. CASE g # f
        <5>1. coremap'[g] = coremap[g]
          BY <3>1, <4>2
        <5>2. /\ coremap[g].pte \in Page /\ pte[coremap[g].pte].valid
              /\ pte[coremap[g].pte].frame = g
          BY <3>4, <5>1 DEF FrameTableInverse, InMemory
        <5>. QED  BY <1>1, <2>1, <3>2, <4>2, <5>1, <5>2
      <4>. QED  BY <4>1, <4>2
    <3>. QED  BY <3>3, <3>4 DEF FrameTableInverse, InMemory
  <2>6. EntryStates' /\ HasSlot'
    BY <1>1, <2>1, <2>4 DEF EntryStates, HasSlot, TypeOK, Loaded
  <2>7. \A q \in Page : q # v /\ pte[q].swap_off # INVALID_SWAP =>
           pte[q].swap_off # s /\ pte[q].swap_off \in Slot
    BY <2>1, <2>2 DEF SlotOwnership, SlotsHold, TypeOK, Entry
  <2>8. \A q \in Page : pte'[q].swap_off = IF q = v THEN s ELSE pte[q].swap_off
    BY <2>1, <2>4 DEF Loaded
  <2>9. SlotsHold'
    BY <2>1, <2>7, <2>8 DEF SlotsHold
  <2>10. SlotOwnership'
    <3>1. \A q, r \in Page : q # r /\ pte'[q].swap_off # INVALID_SWAP
                              => pte'[q].swap_off # pte'[r].swap_off
      BY <2>7, <2>8 DEF SlotOwnership
    <3>2. \A u : u \in swapmap \cup {s} <=>
                 u # INVALID_SWAP /\ \E q \in Page : u = pte'[q].swap_off
      <4>1. s # INVALID_SWAP /\ s = pte'[v].swap_off
        BY <2>8
      <4>2. \A u : u \in swapmap <=>
                   u # INVALID_SWAP /\ \E q \in Page : u = pte[q].swap_off
        BY DEF SlotOwnership
      <4>3. pte[v].swap_off = INVALID_SWAP \/ pte[v].swap_off = s
        BY <2>1
      <4>. QED  BY <2>8, <4>1, <4>2, <4>3
    <3>3. swapmap' = {pte'[q].swap_off : q \in Page} \ {INVALID_SWAP}
      BY <2>1, <3>2
    <3>. QED  BY <3>1, <3>3 DEF SlotOwnership
  <2>11. CheckAddr'
    BY <1>1, <2>1, <2>4 DEF CheckAddr, FrameTableInverse, InMemory, TypeOK, Loaded
  <2>. QED  BY <2>3, <2>5, <2>6, <2>9, <2>10, <2>11
<1>. QED  BY <1>2, <1>3

----------------------------------------------------------------------------

LEMMA InitIInv == Init => IInv
<1>. SUFFICES ASSUME Init PROVE IInv
  OBVIOUS
<1>1. TypeOK
  BY NoPageAssumption, MemSizeAssumption
     DEF Init, TypeOK, Entry, Content, Blank, Counters
<1>2. FrameTableInverse /\ EntryStates /\ SlotsHold /\ HasSlot /\ CheckAddr
  BY DEF Init, FrameTableInverse, EntryStates, SlotsHold, HasSlot, CheckAddr,
         InMemory
<1>3. SlotOwnership
  BY DEF Init, SlotOwnership
<1>. QED  BY <1>1, <1>2, <1>3 DEF IInv

\* An access keeps the address in the frame and yields contents again.
LEMMA AccessedContent ==
  ASSUME NEW c \in Content, NEW t
  PROVE  Accessed(c, t) \in Content /\ Accessed(c, t).vaddr = c.vaddr
BY DEF Accessed, Content

LEMMA StoredType ==
  ASSUME IInv, NEW p \in Page, NEW t, RecordStore(p, t)
  PROVE  /\ stored' \in [Page -> Nat]
         /\ \A q \in Page : q # p => stored'[q] = stored[q]
BY DEF IInv, TypeOK, RecordStore

LEMMA CountType ==
  ASSUME IInv, NEW f, CountMiss(f)
  PROVE  count' \in Counters
<1>1. count \in Counters  BY DEF IInv, TypeOK
<1>. QED  BY <1>1 DEF CountMiss, Counters

LEMMA HitKeepsIInv ==
  ASSUME IInv, NEW p \in Page, NEW t \in AccessType, Hit(p, t)
  PROVE  IInv'
<1>. DEFINE e == [pte[p] EXCEPT !.ref = TRUE]
            g == pte[p].frame
            c == Accessed(physmem[g], t)
<1>. USE DEF IInv
<1>1. pte[p] \in Entry /\ e \in Entry /\ g \in Frame
  <2>1. pte[p] \in Entry
    BY DEF TypeOK
  <2>. QED  BY <2>1 DEF Entry
<1>2. /\ e.frame = pte[p].frame /\ e.valid = pte[p].valid
      /\ e.dirty = pte[p].dirty /\ e.onswap = pte[p].onswap
      /\ e.swap_off = pte[p].swap_off
  BY <1>1 DEF Entry
<1>3. c \in Content /\ c.vaddr = physmem[g].vaddr
  BY <1>1, AccessedContent DEF TypeOK
<1>4. /\ pte[p].valid /\ ~pte[p].onswap
      /\ pte' = [pte EXCEPT ![p] = e]
      /\ physmem' = [physmem EXCEPT ![g] = c]
      /\ coremap' = coremap /\ swapmap' = swapmap /\ swapfile' = swapfile
      /\ status' = status
  BY DEF Hit
<1>5. count' \in Counters
  <2>1. count \in Counters  BY DEF TypeOK
  <2>. QED  BY <2>1 DEF Hit, CountHit, Counters
<1>6. /\ stored' \in [Page -> Nat]
      /\ \A q \in Page : q # p => stored'[q] = stored[q]
  BY StoredType DEF Hit
<1>. HIDE DEF e, c, g
<1>7. TypeOK'
  BY <1>1, <1>3, <1>4, <1>5, <1>6 DEF TypeOK
<1>8. FrameTableInverse'
  <2>1. \A q \in Page : pte'[q].valid = pte[q].valid /\ pte'[q].frame = pte[q].frame
    BY <1>2, <1>4 DEF TypeOK
  <2>. QED  BY <1>4, <2>1 DEF FrameTableInverse, InMemory
<1>9. EntryStates' /\ SlotsHold' /\ HasSlot'
  BY <1>2, <1>4, <1>6 DEF EntryStates, SlotsHold, HasSlot, TypeOK
<1>10. SlotOwnership'
  <2>1. \A q \in Page : pte'[q].swap_off = pte[q].swap_off
    BY <1>2, <1>4 DEF TypeOK
  <2>. QED  BY <1>4, <2>1 DEF SlotOwnership
<1>11. CheckAddr'
  BY <1>1, <1>2, <1>3, <1>4 DEF CheckAddr, InMemory, TypeOK
<1>. QED  BY <1>7, <1>8, <1>9, <1>10, <1>11

LEMMA PageInKeepsIInv ==
  ASSUME IInv, NEW p \in Page, NEW t \in AccessType, NEW f \in Frame,
         PageIn(p, t, f)
  PROVE  IInv'
<1>. DEFINE o == pte[p].swap_off
            c == Accessed(swapfile'[o], t)
<1>1. /\ pte[p].onswap
      /\ Brings(p, f, Writes(t), c)
      /\ Writes(t) \in BOOLEAN
  BY DEF PageIn, Brings, Writes
<1>2. o \in Slot /\ o \in swapmap /\ swapfile[o].vaddr = p
  BY <1>1 DEF IInv, HasSlot, SlotsHold, TypeOK, Entry
<1>. HIDE DEF o, c
<1>3. swapfile' \in [Slot -> Content] /\ swapfile'[o].vaddr = p
  <2>1. CASE MemoryFull
    BY <1>1, <1>2, <2>1, Eviction DEF IInv, SlotOwnership, o
  <2>2. CASE ~MemoryFull
    BY <1>1, <1>2, <2>2, FillingFree DEF IInv, TypeOK
  <2>. QED  BY <2>1, <2>2
<1>4. c \in Content /\ c.vaddr = p
  BY <1>2, <1>3, AccessedContent DEF c
<1>5. /\ count' \in Counters /\ status' = status
      /\ stored' \in [Page -> Nat]
      /\ \A q \in Page : q # p => stored'[q] = stored[q]
  BY StoredType, CountType DEF PageIn
<1>. QED  BY <1>1, <1>4, <1>5, BringsKeepsIInv

LEMMA FirstTouchKeepsIInv ==
  ASSUME IInv, NEW p \in Page, NEW t \in AccessType, NEW f \in Frame,
         FirstTouch(p, t, f)
  PROVE  IInv'
<1>. DEFINE c == Accessed([vaddr |-> p, version |-> 0], t)
<1>1. /\ FirstTouchDirty(p) = TRUE
      /\ Brings(p, f, TRUE, c)
  BY DEF FirstTouch, Brings, FirstTouchDirty, IInv, EntryStates
<1>2. c \in Content /\ c.vaddr = p
  <2>1. [vaddr |-> p, version |-> 0] \in Content
    BY DEF Content
  <2>. QED  BY <2>1, AccessedContent
<1>3. /\ count' \in Counters /\ status' = status
      /\ stored' \in [Page -> Nat]
      /\ \A q \in Page : q # p => stored'[q] = stored[q]
  BY StoredType, CountType DEF FirstTouch
<1>. HIDE DEF c
<1>. QED  BY <1>1, <1>2, <1>3, BringsKeepsIInv

\* The end of a replay changes nothing the invariant speaks of but status.
LEMMA EndsKeepsIInv ==
  ASSUME IInv, NEW o \in {"done", "swap_full", "io_error"}, Ends(o)
  PROVE  IInv'
BY DEF IInv, Ends, TypeOK, FrameTableInverse, EntryStates, SlotsHold, HasSlot,
       SlotOwnership, CheckAddr, InMemory

LEMMA StepIInv == IInv /\ [Next]_vars => IInv'
<1>. SUFFICES ASSUME IInv, [Next]_vars PROVE IInv'
  OBVIOUS
<1>1. ASSUME NEW p \in Page, NEW t \in AccessType, Hit(p, t)
      PROVE  IInv'
  BY <1>1, HitKeepsIInv
<1>2. ASSUME NEW p \in Page, NEW t \in AccessType, NEW f \in Frame,
             Reference(p, t, f)
      PROVE  IInv'
  BY <1>2, PageInKeepsIInv, FirstTouchKeepsIInv DEF Reference
<1>3. ASSUME NEW p \in Page, NEW f \in Frame,
             SwapFull(p, f) \/ SwapError(p, f)
      PROVE  IInv'
  BY <1>3, EndsKeepsIInv DEF SwapFull, SwapError
<1>4. CASE Finish
  BY <1>4, EndsKeepsIInv DEF Finish
<1>5. CASE UNCHANGED vars
  BY <1>5 DEF vars, IInv, TypeOK, FrameTableInverse, EntryStates, SlotsHold,
              HasSlot, SlotOwnership, CheckAddr, InMemory
<1>. QED  BY <1>1, <1>2, <1>3, <1>4, <1>5 DEF Next, Stopped

\* The inductive invariant holds of every reachable state.
THEOREM Invariance == Spec => []IInv
BY InitIInv, StepIInv, PTL DEF Spec

\* Every variable keeps its type: no entry names a frame or a slot that does
\* not exist.
THEOREM TypeCorrect == Spec => []TypeOK
<1>1. IInv => TypeOK  BY DEF IInv
<1>. QED  BY <1>1, Invariance, PTL

\* The page table and the frame table stay inverse to each other through
\* every fault and eviction.
THEOREM TablesInverse == Spec => []FrameTableInverse
<1>1. IInv => FrameTableInverse  BY DEF IInv
<1>. QED  BY <1>1, Invariance, PTL

\* find_physpage's impossible case is impossible, and it takes for a first
\* reference only what is one.
THEOREM EntryStatesHold == Spec => []EntryStates
<1>1. IInv => EntryStates  BY DEF IInv
<1>. QED  BY <1>1, Invariance, PTL

\* A page-in finds the page: every page out of memory, and every page whose
\* eviction will write nothing, is what its slot holds.
THEOREM PagesBacked == Spec => []BackedBySwap
<1>1. IInv => BackedBySwap
  BY DEF IInv, SlotsHold, HasSlot, BackedBySwap
<1>. QED  BY <1>1, Invariance, PTL

\* Slots are never shared and never leaked.
THEOREM SlotsOwned == Spec => []SlotOwnership
<1>1. IInv => SlotOwnership  BY DEF IInv
<1>. QED  BY <1>1, Invariance, PTL

\* The frame handed to access_mem always holds the referenced page.
THEOREM AddressCheckSucceeds == Spec => []CheckAddr
<1>1. IInv => CheckAddr  BY DEF IInv
<1>. QED  BY <1>1, Invariance, PTL

----------------------------------------------------------------------------
(* Versions.  CopiesOrdered speaks of the pages in memory; a page on swap  *)
(* must not be newer than the trace either, since it is what is read back. *)

VInv ==
  /\ \A p \in InMemory : physmem[pte[p].frame].version <= stored[p]
  /\ \A p \in InMemory : pte[p].swap_off # INVALID_SWAP =>
       swapfile[pte[p].swap_off].version <= physmem[pte[p].frame].version
  /\ \A p \in Page : pte[p].swap_off # INVALID_SWAP =>
       swapfile[pte[p].swap_off].version <= stored[p]

\* The body of SwapCopiesAdvance, for one step.
SlotsAdvance ==
  \A s \in swapmap : /\ s \in swapmap'
                     /\ swapfile'[s].vaddr = swapfile[s].vaddr
                     /\ swapfile'[s].version >= swapfile[s].version

\* A page's own copy on swap is not touched by the eviction its fault causes.
LEMMA OwnCopyKept ==
  ASSUME IInv, NEW p \in Page, NEW f \in Frame, NEW d, NEW c,
         Brings(p, f, d, c), pte[p].swap_off # INVALID_SWAP
  PROVE  swapfile'[pte[p].swap_off] = swapfile[pte[p].swap_off]
<1>. DEFINE o == pte[p].swap_off
<1>1. o \in Slot /\ o \in swapmap
  BY DEF IInv, TypeOK, Entry, SlotsHold
<1>2. CASE MemoryFull
  <2>1. PICK v \in Page, s \in Slot :
          /\ v # p
          /\ pte[v].swap_off # INVALID_SWAP => s = pte[v].swap_off
          /\ pte[v].swap_off = INVALID_SWAP => s \notin swapmap
          /\ \A u \in Slot : u # s => swapfile'[u] = swapfile[u]
    BY <1>2, Eviction
  <2>2. o # s
    BY <1>1, <2>1 DEF IInv, SlotOwnership
  <2>. QED  BY <1>1, <2>1, <2>2
<1>3. CASE ~MemoryFull
  BY <1>3, FillingFree
<1>. QED  BY <1>2, <1>3

\* Bringing a page in keeps the versions ordered, when the contents it puts
\* in the frame are no older than the page's copy and no newer than the trace.
LEMMA BringsKeepsVInv ==
  ASSUME IInv, VInv, NEW p \in Page, NEW f \in Frame, NEW d,
         NEW c \in Content, Brings(p, f, d, c),
         stored' \in [Page -> Nat],
         \A q \in Page : q # p => stored'[q] = stored[q],
         c.version <= stored'[p],
         pte[p].swap_off # INVALID_SWAP =>
           swapfile[pte[p].swap_off].version <= c.version
  PROVE  VInv' /\ SlotsAdvance
<1>. USE DEF IInv
<1>1. /\ physmem' = [physmem EXCEPT ![f] = c]
      /\ ~pte[p].valid
      /\ Loaded(p, f, d).frame = f /\ Loaded(p, f, d).swap_off = pte[p].swap_off
  BY DEF Brings, Loaded
<1>2. pte[p].swap_off # INVALID_SWAP =>
        /\ swapfile'[pte[p].swap_off].version <= c.version
        /\ swapfile'[pte[p].swap_off].version \in Nat
  <2>1. pte[p].swap_off # INVALID_SWAP =>
          /\ swapfile'[pte[p].swap_off] = swapfile[pte[p].swap_off]
          /\ swapfile[pte[p].swap_off].version \in Nat
    BY OwnCopyKept DEF TypeOK, Entry, Content
  <2>. QED  BY <2>1
<1>3. c.version \in Nat /\ stored'[p] \in Nat
  BY DEF Content
<1>4. ASSUME NEW q \in Page, pte[q].swap_off # INVALID_SWAP
      PROVE  swapfile[pte[q].swap_off].version \in Nat
  BY <1>4 DEF TypeOK, Entry, Content
<1>5. \A g \in Frame : physmem[g].version \in Nat
  BY DEF TypeOK, Content
<1>6. CASE ~MemoryFull
  <2>1. /\ ~coremap[f].in_use
        /\ pte' = [pte EXCEPT ![p] = Loaded(p, f, d)]
        /\ swapmap' = swapmap /\ swapfile' = swapfile
    BY <1>6, FillingFree
  <2>2. \A q \in Page : q # p =>
          /\ pte'[q] = pte[q] /\ stored'[q] = stored[q]
          /\ pte[q].valid => /\ pte[q].frame \in Frame
                            /\ physmem'[pte[q].frame] = physmem[pte[q].frame]
    BY <1>1, <2>1 DEF TypeOK, Entry, FrameTableInverse, InMemory
  <2>3. /\ pte'[p].frame = f /\ pte'[p].swap_off = pte[p].swap_off
        /\ physmem'[f] = c
    BY <1>1, <2>1 DEF TypeOK
  <2>4. VInv'
    BY <1>2, <1>3, <1>4, <2>1, <2>2, <2>3 DEF VInv, InMemory
  <2>5. SlotsAdvance
    BY <2>1, \A s \in swapmap : swapfile[s].version \in Nat DEF SlotsAdvance, TypeOK, Content
  <2>. QED  BY <2>4, <2>5
<1>7. CASE MemoryFull
  <2>1. PICK v \in Page, s \in Slot :
           /\ v # p /\ v = coremap[f].pte /\ pte[v].valid /\ pte[v].frame = f
           /\ pte[v].swap_off # INVALID_SWAP => s = pte[v].swap_off
           /\ pte[v].swap_off = INVALID_SWAP => s \notin swapmap
           /\ pte' = [q \in Page |-> IF q = p THEN Loaded(p, f, d)
                                     ELSE IF q = v THEN Evicted(pte[v], s)
                                     ELSE pte[q]]
           /\ swapmap' = swapmap \cup {s}
           /\ swapfile' \in [Slot -> Content]
           /\ swapfile'[s].vaddr = v
           /\ \/ swapfile'[s] = physmem[f]
              \/ s \in swapmap /\ swapfile'[s] = swapfile[s]
           /\ \A u \in Slot : u # s => swapfile'[u] = swapfile[u]
    BY <1>7, Eviction
  <2>2. Evicted(pte[v], s).valid = FALSE /\ Evicted(pte[v], s).swap_off = s
    BY DEF Evicted
  <2>3. /\ physmem[f].version <= stored[v]
        /\ pte[v].swap_off # INVALID_SWAP =>
             /\ swapfile[s].vaddr = v
             /\ swapfile[s].version <= physmem[f].version
             /\ swapfile[s].version <= stored[v]
    BY <2>1 DEF VInv, InMemory, SlotsHold
  <2>4. /\ swapfile'[s].version <= stored[v]
        /\ s \in swapmap => /\ swapfile'[s].vaddr = swapfile[s].vaddr
                            /\ swapfile'[s].version >= swapfile[s].version
    <3>1. swapfile[s].version \in Nat /\ physmem[f].version \in Nat
      BY DEF TypeOK, Content
    <3>. QED  BY <2>1, <2>3, <3>1
  <2>5. \A q \in Page : q # p /\ q # v =>
          /\ pte'[q] = pte[q] /\ stored'[q] = stored[q]
          /\ pte[q].swap_off # INVALID_SWAP =>
               swapfile'[pte[q].swap_off] = swapfile[pte[q].swap_off]
          /\ pte[q].valid => /\ pte[q].frame \in Frame
                            /\ physmem'[pte[q].frame] = physmem[pte[q].frame]
    <3>. SUFFICES ASSUME NEW q \in Page, q # p, q # v
                  PROVE  /\ pte'[q] = pte[q] /\ stored'[q] = stored[q]
                         /\ pte[q].swap_off # INVALID_SWAP =>
                              swapfile'[pte[q].swap_off] = swapfile[pte[q].swap_off]
                         /\ pte[q].valid =>
                              /\ pte[q].frame \in Frame
                              /\ physmem'[pte[q].frame] = physmem[pte[q].frame]
      OBVIOUS
    <3>1. pte'[q] = pte[q] /\ stored'[q] = stored[q]
      BY <2>1
    <3>2. pte[q].swap_off # INVALID_SWAP =>
            pte[q].swap_off \in Slot /\ pte[q].swap_off # s
      BY <2>1 DEF TypeOK, Entry, SlotsHold, SlotOwnership
    <3>3. pte[q].valid => pte[q].frame \in Frame /\ pte[q].frame # f
      BY <2>1 DEF TypeOK, Entry, FrameTableInverse, InMemory
    <3>. QED  BY <1>1, <2>1, <3>1, <3>2, <3>3 DEF TypeOK
  <2>6. /\ pte'[p].frame = f /\ pte'[p].swap_off = pte[p].swap_off
        /\ physmem'[f] = c
    BY <1>1, <2>1 DEF TypeOK
  <2>7. ~pte'[v].valid /\ pte'[v].swap_off = s /\ stored'[v] = stored[v]
    BY <2>1, <2>2
  <2>8. VInv'
    <3>1. \A q \in InMemory' : q # v /\ (q # p => q \in InMemory)
      BY <2>5, <2>7 DEF InMemory
    <3>2. \A q \in InMemory' : physmem'[pte'[q].frame].version <= stored'[q]
      BY <2>5, <2>6, <3>1 DEF VInv, InMemory
    <3>3. \A q \in InMemory' : pte'[q].swap_off # INVALID_SWAP =>
            swapfile'[pte'[q].swap_off].version <= physmem'[pte'[q].frame].version
      BY <1>2, <2>5, <2>6, <3>1 DEF VInv, InMemory
    <3>4. \A q \in Page : pte'[q].swap_off # INVALID_SWAP =>
            swapfile'[pte'[q].swap_off].version <= stored'[q]
      BY <1>2, <1>3, <2>4, <2>5, <2>6, <2>7 DEF VInv
    <3>. QED  BY <3>2, <3>3, <3>4 DEF VInv
  <2>9. SlotsAdvance
    <3>1. \A u \in Slot : swapfile[u].version \in Nat
      BY DEF TypeOK, Content
    <3>2. \A u \in swapmap : u \in Slot /\ u \in swapmap'
      BY <2>1 DEF TypeOK
    <3>3. ASSUME NEW u \in swapmap, u # s  PROVE swapfile'[u] = swapfile[u]
      BY <2>1, <3>2, <3>3
    <3>. HIDE DEF IInv
    <3>. QED  BY <2>4, <3>1, <3>2, <3>3 DEF SlotsAdvance
  <2>. QED  BY <2>8, <2>9
<1>. QED  BY <1>6, <1>7

\* Every reference brings its page in with contents that fit the versions.
LEMMA ReferenceBrings ==
  ASSUME IInv, VInv, NEW p \in Page, NEW t \in AccessType, NEW f \in Frame,
         Reference(p, t, f)
  PROVE  \E d \in BOOLEAN, c \in Content :
           /\ Brings(p, f, d, c)
           /\ c.version <= stored'[p]
           /\ pte[p].swap_off # INVALID_SWAP =>
                swapfile[pte[p].swap_off].version <= c.version
<1>1. stored'[p] = IF Writes(t) THEN stored[p] + 1 ELSE stored[p]
  BY DEF Reference, PageIn, FirstTouch, RecordStore, IInv, TypeOK
<1>2. stored[p] \in Nat
  BY DEF IInv, TypeOK
<1>3. CASE PageIn(p, t, f)
  <2>. DEFINE o == pte[p].swap_off
              c == Accessed(swapfile'[o], t)
  <2>1. /\ Brings(p, f, Writes(t), c) /\ Writes(t) \in BOOLEAN /\ pte[p].onswap
    BY <1>3 DEF PageIn, Brings, Writes
  <2>2. /\ o \in Slot /\ swapfile[o] \in Content /\ swapfile[o].version \in Nat
        /\ swapfile[o].version <= stored[p] /\ o # INVALID_SWAP
    BY <2>1 DEF IInv, HasSlot, TypeOK, Entry, VInv, Content
  <2>3. swapfile'[o] = swapfile[o]
    <3>. HIDE DEF c
    <3>. QED  BY <2>1, <2>2, OwnCopyKept
  <2>4. c = Accessed(swapfile[o], t)
    BY <2>3
  <2>5. /\ c \in Content
        /\ c.version = IF Writes(t) THEN swapfile[o].version + 1
                       ELSE swapfile[o].version
    BY <2>2, <2>4, AccessedContent DEF Accessed, Content
  <2>6. c.version <= stored'[p] /\ swapfile[o].version <= c.version
    BY <1>1, <1>2, <2>2, <2>5
  <2>. HIDE DEF c
  <2>. QED  BY <2>1, <2>5, <2>6
<1>4. CASE FirstTouch(p, t, f)
  <2>. DEFINE b == [vaddr |-> p, version |-> 0]
              c == Accessed(b, t)
  <2>1. /\ Brings(p, f, TRUE, c) /\ pte[p].swap_off = INVALID_SWAP
    BY <1>4 DEF FirstTouch, Brings, FirstTouchDirty, IInv, EntryStates
  <2>2. b \in Content /\ b.version = 0
    BY DEF Content
  <2>3. c \in Content /\ c.version = IF Writes(t) THEN 1 ELSE 0
    BY <2>2, AccessedContent DEF Accessed, Content
  <2>4. c.version <= stored'[p]
    BY <1>1, <1>2, <2>3
  <2>. HIDE DEF c
  <2>. QED  BY <2>1, <2>3, <2>4
<1>. QED  BY <1>3, <1>4 DEF Reference

LEMMA HitKeepsVInv ==
  ASSUME IInv, VInv, NEW p \in Page, NEW t \in AccessType, Hit(p, t)
  PROVE  VInv' /\ SlotsAdvance
<1>. DEFINE g == pte[p].frame
            c == Accessed(physmem[g], t)
<1>1. g \in Frame /\ physmem[g] \in Content /\ physmem[g].version \in Nat
  BY DEF IInv, TypeOK, Entry, Content
<1>2. c.version = IF Writes(t) THEN physmem[g].version + 1 ELSE physmem[g].version
  BY <1>1 DEF Accessed, Content
<1>3. \A q \in Page : /\ pte'[q].swap_off = pte[q].swap_off
                      /\ pte'[q].valid = pte[q].valid
                      /\ pte'[q].frame = pte[q].frame
                      /\ q # p => stored'[q] = stored[q]
  BY DEF Hit, RecordStore, IInv, TypeOK, Entry
<1>4. stored'[p] = (IF Writes(t) THEN stored[p] + 1 ELSE stored[p]) /\ stored[p] \in Nat
  BY DEF Hit, RecordStore, IInv, TypeOK
<1>5. /\ physmem' = [physmem EXCEPT ![g] = c]
      /\ swapmap' = swapmap /\ swapfile' = swapfile /\ pte[p].valid
  BY DEF Hit
<1>6. \A q \in Page : q # p /\ pte[q].valid => pte[q].frame \in Frame /\ pte[q].frame # g
  BY <1>5 DEF IInv, FrameTableInverse, InMemory, TypeOK, Entry
<1>7. /\ physmem'[g] = c
      /\ \A q \in Page : q # p /\ pte[q].valid =>
           physmem'[pte[q].frame] = physmem[pte[q].frame]
  BY <1>1, <1>5, <1>6 DEF IInv, TypeOK
<1>8. \A u \in Slot : swapfile[u].version \in Nat
  BY DEF IInv, TypeOK, Content
<1>9. \A q \in Page : pte[q].swap_off # INVALID_SWAP =>
        pte[q].swap_off \in Slot
  BY DEF IInv, TypeOK, Entry
<1>. HIDE DEF g, c
<1>10. VInv'
  <2>1. \A q \in InMemory' : q \in InMemory
    BY <1>3 DEF InMemory
  <2>2. /\ c.version <= stored'[p]
        /\ pte[p].swap_off # INVALID_SWAP => swapfile[pte[p].swap_off].version <= c.version
    BY <1>1, <1>2, <1>4, <1>5, <1>8, <1>9 DEF VInv, InMemory, g
  <2>3. \A q \in InMemory' : physmem'[pte'[q].frame].version <= stored'[q]
    BY <1>3, <1>7, <2>1, <2>2 DEF VInv, InMemory, g
  <2>4. \A q \in InMemory' : pte'[q].swap_off # INVALID_SWAP =>
          swapfile'[pte'[q].swap_off].version <= physmem'[pte'[q].frame].version
    BY <1>3, <1>5, <1>7, <2>1, <2>2 DEF VInv, InMemory, g
  <2>5. \A q \in Page : pte'[q].swap_off # INVALID_SWAP =>
          swapfile'[pte'[q].swap_off].version <= stored'[q]
    BY <1>3, <1>4, <1>5, <1>8, <1>9 DEF VInv
  <2>. QED  BY <2>3, <2>4, <2>5 DEF VInv
<1>11. SlotsAdvance
  BY <1>5, <1>8 DEF SlotsAdvance, IInv, TypeOK
<1>. QED  BY <1>10, <1>11

LEMMA StillVInv ==
  ASSUME IInv, VInv, UNCHANGED <<pte, physmem, swapmap, swapfile, stored>>
  PROVE  VInv' /\ SlotsAdvance
<1>1. \A u \in swapmap : swapfile[u].version \in Nat
  BY DEF IInv, TypeOK, Content
<1>. QED  BY <1>1 DEF VInv, InMemory, SlotsAdvance

LEMMA StepVInv == IInv /\ VInv /\ [Next]_vars => VInv' /\ SlotsAdvance
<1>. SUFFICES ASSUME IInv, VInv, [Next]_vars PROVE VInv' /\ SlotsAdvance
  OBVIOUS
<1>1. ASSUME NEW p \in Page, NEW t \in AccessType, Hit(p, t)
      PROVE  VInv' /\ SlotsAdvance
  BY <1>1, HitKeepsVInv
<1>2. ASSUME NEW p \in Page, NEW t \in AccessType, NEW f \in Frame,
             Reference(p, t, f)
      PROVE  VInv' /\ SlotsAdvance
  <2>1. /\ stored' \in [Page -> Nat]
        /\ \A q \in Page : q # p => stored'[q] = stored[q]
    BY <1>2, StoredType DEF Reference, PageIn, FirstTouch
  <2>2. PICK d \in BOOLEAN, c \in Content :
           /\ Brings(p, f, d, c)
           /\ c.version <= stored'[p]
           /\ pte[p].swap_off # INVALID_SWAP =>
                swapfile[pte[p].swap_off].version <= c.version
    BY <1>2, ReferenceBrings
  <2>. QED  BY <2>1, <2>2, BringsKeepsVInv
<1>3. ASSUME NEW p \in Page, NEW f \in Frame,
             SwapFull(p, f) \/ SwapError(p, f)
      PROVE  VInv' /\ SlotsAdvance
  BY <1>3, StillVInv DEF SwapFull, SwapError, Ends
<1>4. CASE Finish
  BY <1>4, StillVInv DEF Finish, Ends
<1>5. CASE UNCHANGED vars
  BY <1>5, StillVInv DEF vars
<1>. QED  BY <1>1, <1>2, <1>3, <1>4, <1>5 DEF Next, Stopped

LEMMA VersionInvariance == Spec => [](IInv /\ VInv)
<1>1. Init => VInv
  BY DEF Init, VInv, InMemory
<1>2. IInv /\ VInv /\ [Next]_vars => (IInv /\ VInv)'
  BY StepIInv, StepVInv
<1>. QED  BY <1>1, <1>2, InitIInv, PTL DEF Spec

\* Memory is never older than swap, and neither is newer than the trace.
THEOREM VersionsOrdered == Spec => []CopiesOrdered
<1>1. VInv => CopiesOrdered  BY DEF VInv, CopiesOrdered
<1>. QED  BY <1>1, VersionInvariance, PTL

\* Every slot, once given, keeps its page and never goes back to an older
\* version of it: evictions write over nothing that is still needed.
THEOREM SwapNeverRegresses == Spec => SwapCopiesAdvance
<1>1. IInv /\ VInv /\ [Next]_vars =>
        [\A s \in swapmap : /\ s \in swapmap'
                            /\ swapfile'[s].vaddr = swapfile[s].vaddr
                            /\ swapfile'[s].version >= swapfile[s].version]_vars
  BY StepVInv DEF SlotsAdvance
<1>. QED  BY <1>1, VersionInvariance, PTL DEF Spec, SwapCopiesAdvance

----------------------------------------------------------------------------
(* Occupancy: the frames in use are as many as the pages in memory.        *)

UsedFrames == {f \in Frame : coremap[f].in_use}

LEMMA FramesFinite ==
  ASSUME NEW S, S \subseteq Frame
  PROVE  /\ IsFiniteSet(S) /\ Cardinality(S) \in Nat
         /\ Cardinality(S) <= MemSize
         /\ Cardinality(S) = MemSize <=> S = Frame
<1>1. IsFiniteSet(Frame) /\ Cardinality(Frame) = MemSize
  BY FS_Interval, MemSizeAssumption
<1>. HIDE DEF Frame
<1>2. IsFiniteSet(S) /\ Cardinality(S) <= MemSize
      /\ (Cardinality(S) = MemSize => S = Frame)
  BY <1>1, FS_Subset
<1>. QED  BY <1>1, <1>2, FS_CardinalityType

LEMMA Occupancy ==
  ASSUME IInv
  PROVE  /\ IsFiniteSet(InMemory)
         /\ Cardinality(InMemory) = Cardinality(UsedFrames)
         /\ Cardinality(InMemory) \in Nat
         /\ MemoryFull <=> Cardinality(InMemory) = MemSize
         /\ ~MemoryFull => Cardinality(InMemory) < MemSize
<1>. DEFINE h == [f \in UsedFrames |-> coremap[f].pte]
<1>1. h \in Bijection(UsedFrames, InMemory)
  <2>1. h \in [UsedFrames -> InMemory]
    BY DEF IInv, FrameTableInverse, UsedFrames
  <2>2. \A f, g \in UsedFrames : h[f] = h[g] => f = g
    BY DEF IInv, FrameTableInverse, UsedFrames
  <2>3. \A p \in InMemory : \E f \in UsedFrames : h[f] = p
    <3>. TAKE p \in InMemory
    <3>1. pte[p].frame \in UsedFrames /\ h[pte[p].frame] = p
      BY DEF IInv, FrameTableInverse, UsedFrames, InMemory, TypeOK, Entry
    <3>. QED  BY <3>1
  <2>. QED  BY <2>1, <2>2, <2>3 DEF Bijection, Injection, Surjection, IsInjective
<1>2. UsedFrames \subseteq Frame
  BY DEF UsedFrames
<1>3. /\ IsFiniteSet(UsedFrames) /\ Cardinality(UsedFrames) \in Nat
      /\ Cardinality(UsedFrames) <= MemSize
      /\ Cardinality(UsedFrames) = MemSize <=> UsedFrames = Frame
  BY <1>2, FramesFinite
<1>4. IsFiniteSet(InMemory) /\ Cardinality(InMemory) = Cardinality(UsedFrames)
  <2>. HIDE DEF h
  <2>1. ExistsBijection(UsedFrames, InMemory)
    BY <1>1 DEF ExistsBijection
  <2>. QED  BY <1>3, <2>1, FS_Bijection
<1>5. MemoryFull <=> UsedFrames = Frame
  BY DEF MemoryFull, FreeFrames, UsedFrames
<1>. QED  BY <1>3, <1>4, <1>5, MemSizeAssumption

\* Nothing goes to swap while a frame is free, and the counters account for
\* every reference.
OInv ==
  /\ (\E p \in Page : pte[p].onswap) => MemoryFull
  /\ MissesAccounted

\* Memory only fills: a reference leaves no frame in use that was, and takes
\* one more exactly when one is free.
LEMMA FramesAfter ==
  ASSUME IInv, NEW p \in Page, NEW f \in Frame, NEW d, NEW c, Brings(p, f, d, c)
  PROVE  /\ ~MemoryFull => /\ UsedFrames' = UsedFrames \cup {f}
                           /\ f \notin UsedFrames
         /\ MemoryFull => UsedFrames' = UsedFrames /\ MemoryFull'
<1>1. \A g \in Frame : coremap'[g].in_use <=> (g = f \/ coremap[g].in_use)
  BY DEF Brings, AllocateFrame, IInv, TypeOK
<1>2. CASE ~MemoryFull
  BY <1>1, <1>2, FillingFree DEF UsedFrames
<1>3. CASE MemoryFull
  BY <1>1, <1>3 DEF UsedFrames, MemoryFull, FreeFrames
<1>. QED  BY <1>2, <1>3

LEMMA MissCounted ==
  ASSUME IInv, NEW p \in Page, NEW f \in Frame, NEW d, NEW c,
         Brings(p, f, d, c), CountMiss(f)
  PROVE  /\ count'.hit = count.hit /\ count'.miss = count.miss + 1
         /\ count'.ref = count.ref + 1
         /\ count'.evict_clean + count'.evict_dirty
              = count.evict_clean + count.evict_dirty
                  + (IF MemoryFull THEN 1 ELSE 0)
<1>1. /\ count.hit \in Nat /\ count.miss \in Nat /\ count.ref \in Nat
      /\ count.evict_clean \in Nat /\ count.evict_dirty \in Nat
  BY DEF IInv, TypeOK, Counters
<1>2. MemoryFull => (WritesBack(f) <=> ~DropsClean(f))
  BY VictimInMemory DEF WritesBack, DropsClean
<1>3. ~MemoryFull => ~WritesBack(f) /\ ~DropsClean(f)
  BY DEF WritesBack, DropsClean
<1>. QED  BY <1>1, <1>2, <1>3 DEF CountMiss

LEMMA ReferenceIsBrings ==
  ASSUME IInv, NEW p \in Page, NEW t \in AccessType, NEW f \in Frame,
         Reference(p, t, f)
  PROVE  /\ \E d, c : Brings(p, f, d, c)
         /\ CountMiss(f)
<1>1. CASE PageIn(p, t, f)
  <2>1. Brings(p, f, Writes(t), Accessed(swapfile'[pte[p].swap_off], t))
    BY <1>1 DEF PageIn, Brings
  <2>. QED  BY <1>1, <2>1 DEF PageIn
<1>2. CASE FirstTouch(p, t, f)
  <2>1. Brings(p, f, TRUE, Accessed([vaddr |-> p, version |-> 0], t))
    BY <1>2 DEF FirstTouch, Brings, FirstTouchDirty, IInv, EntryStates
  <2>. QED  BY <1>2, <2>1 DEF FirstTouch
<1>. QED  BY <1>1, <1>2 DEF Reference

\* The entries after a page came in: only the page's own and the victim's
\* change.
LEMMA EntriesAfter ==
  ASSUME IInv, NEW p \in Page, NEW f \in Frame, NEW d, NEW c, Brings(p, f, d, c)
  PROVE  /\ ~MemoryFull => /\ InMemory' = InMemory \cup {p}
                           /\ \A q \in Page \ {p} : pte'[q].onswap = pte[q].onswap
                           /\ ~pte'[p].onswap
         /\ MemoryFull => \E v \in InMemory :
              /\ v # p
              /\ InMemory' = (InMemory \ {v}) \cup {p}
              /\ \A q \in Page \ {p, v} : pte'[q].onswap = pte[q].onswap
              /\ ~pte'[p].onswap /\ pte'[v].onswap
<1>1. ~Loaded(p, f, d).onswap /\ Loaded(p, f, d).valid
  BY DEF Loaded
<1>2. CASE ~MemoryFull
  BY <1>1, <1>2, FillingFree DEF InMemory, IInv, TypeOK
<1>3. CASE MemoryFull
  <2>1. PICK v \in Page, s \in Slot :
           /\ v # p /\ pte[v].valid
           /\ pte' = [q \in Page |-> IF q = p THEN Loaded(p, f, d)
                                     ELSE IF q = v THEN Evicted(pte[v], s)
                                     ELSE pte[q]]
    BY <1>3, Eviction
  <2>2. Evicted(pte[v], s).onswap /\ ~Evicted(pte[v], s).valid
    BY DEF Evicted
  <2>3. /\ pte'[p].valid /\ ~pte'[p].onswap /\ ~pte'[v].valid /\ pte'[v].onswap
        /\ \A q \in Page \ {p, v} : pte'[q] = pte[q]
    BY <1>1, <2>1, <2>2
  <2>4. InMemory' = (InMemory \ {v}) \cup {p}
    BY <2>1, <2>3 DEF InMemory
  <2>. QED  BY <1>3, <2>1, <2>3, <2>4 DEF InMemory
<1>. QED  BY <1>2, <1>3

LEMMA StepOInv == IInv /\ OInv /\ [Next]_vars => OInv'
<1>. SUFFICES ASSUME IInv, OInv, [Next]_vars PROVE OInv'
  OBVIOUS
<1>0. /\ count.hit \in Nat /\ count.miss \in Nat /\ count.ref \in Nat
      /\ count.evict_clean \in Nat /\ count.evict_dirty \in Nat
  BY DEF IInv, TypeOK, Counters
<1>1. ASSUME NEW p \in Page, NEW t \in AccessType, Hit(p, t)
      PROVE  OInv'
  <2>1. \A q \in Page : pte'[q].onswap = pte[q].onswap
    BY <1>1 DEF Hit, IInv, TypeOK, Entry
  <2>2. coremap' = coremap
    BY <1>1 DEF Hit
  <2>3. MissesAccounted'
    BY <1>0, <1>1, <2>2 DEF OInv, MissesAccounted, Hit, CountHit
  <2>. QED  BY <2>1, <2>2, <2>3 DEF OInv, MemoryFull, FreeFrames
<1>2. ASSUME NEW p \in Page, NEW t \in AccessType, NEW f \in Frame,
             Reference(p, t, f)
      PROVE  OInv'
  <2>1. PICK d, c : Brings(p, f, d, c) /\ CountMiss(f)
    BY <1>2, ReferenceIsBrings
  <2>2. IsFiniteSet(UsedFrames) /\ Cardinality(UsedFrames) \in Nat
    <3>1. UsedFrames \subseteq Frame  BY DEF UsedFrames
    <3>. QED  BY <3>1, FramesFinite
  <2>3. Cardinality(UsedFrames') = Cardinality(UsedFrames)
                                     + (IF MemoryFull THEN 0 ELSE 1)
    BY <2>1, <2>2, FramesAfter, FS_AddElement
  <2>4. MissesAccounted'
    <3>1. /\ count.ref = count.hit + count.miss
          /\ count.miss = count.evict_clean + count.evict_dirty
                            + Cardinality(UsedFrames)
      BY DEF OInv, MissesAccounted, UsedFrames
    <3>2. /\ count'.ref = count'.hit + count'.miss
          /\ count'.miss = count'.evict_clean + count'.evict_dirty
                             + Cardinality(UsedFrames')
      BY <1>0, <2>1, <2>2, <2>3, <3>1, MissCounted
    <3>. QED  BY <3>2 DEF MissesAccounted, UsedFrames
  <2>5. (\E q \in Page : pte'[q].onswap) => MemoryFull'
    <3>1. CASE MemoryFull
      BY <2>1, <3>1, FramesAfter
    <3>2. CASE ~MemoryFull
      BY <2>1, <3>2, EntriesAfter DEF OInv
    <3>. QED  BY <3>1, <3>2
  <2>. QED  BY <2>4, <2>5 DEF OInv
<1>3. ASSUME UNCHANGED <<pte, coremap, count>>
      PROVE  OInv'
  BY <1>3 DEF OInv, MissesAccounted, MemoryFull, FreeFrames
<1>4. ASSUME NEW p \in Page, NEW f \in Frame, SwapFull(p, f) \/ SwapError(p, f)
      PROVE  OInv'
  BY <1>3, <1>4 DEF SwapFull, SwapError, Ends
<1>5. CASE Finish
  BY <1>3, <1>5 DEF Finish, Ends
<1>6. CASE UNCHANGED vars
  BY <1>3, <1>6 DEF vars
<1>. QED  BY <1>1, <1>2, <1>4, <1>5, <1>6 DEF Next, Stopped

LEMMA OccupancyInvariance == Spec => [](IInv /\ OInv)
<1>1. Init => OInv
  <2>. SUFFICES ASSUME Init PROVE OInv
    OBVIOUS
  <2>1. {f \in Frame : coremap[f].in_use} = {}
    BY DEF Init
  <2>2. Cardinality({f \in Frame : coremap[f].in_use}) = 0
    BY <2>1, FS_EmptySet
  <2>3. MissesAccounted
    BY <2>2 DEF Init, MissesAccounted
  <2>. QED  BY <2>3 DEF Init, OInv
<1>2. IInv /\ OInv /\ [Next]_vars => (IInv /\ OInv)'
  BY StepIInv, StepOInv
<1>. QED  BY <1>1, <1>2, InitIInv, PTL DEF Spec

\* The statistics main prints always add up.
THEOREM StatisticsAddUp == Spec => []MissesAccounted
<1>1. OInv => MissesAccounted  BY DEF OInv
<1>. QED  BY <1>1, OccupancyInvariance, PTL

----------------------------------------------------------------------------
(* Refinement: initial states map to initial states, and each step to a    *)
(* step of DemandPaging or to a stutter.                                   *)

\* The instance's Cardinality is the same operator under another name.
LEMMA SameCardinality == ASSUME NEW S PROVE DP!Cardinality(S) = Cardinality(S)
BY DEF DP!Cardinality, Cardinality

LEMMA InitRefines == Init => DP!Init
<1>. SUFFICES ASSUME Init PROVE DP!Init
  OBVIOUS
<1>1. InMemory = {} /\ {p \in Page : pte[p].onswap} = {}
  BY DEF Init, InMemory
<1>. QED  BY <1>1 DEF Init, DP!Init

LEMMA HitRefines ==
  ASSUME IInv, NEW p \in Page, NEW t \in AccessType, Hit(p, t)
  PROVE  DP!Use(p)
<1>1. \A q \in Page : pte'[q].valid = pte[q].valid /\ pte'[q].onswap = pte[q].onswap
  BY DEF Hit, IInv, TypeOK, Entry
<1>2. /\ InMemory' = InMemory /\ p \in InMemory
      /\ {q \in Page : pte'[q].onswap} = {q \in Page : pte[q].onswap}
  BY <1>1 DEF InMemory, Hit
<1>. QED  BY <1>2 DEF Hit, CountHit, DP!Use

LEMMA ReferenceRefines ==
  ASSUME IInv, OInv, NEW p \in Page, NEW t \in AccessType, NEW f \in Frame,
         Reference(p, t, f)
  PROVE  DP!Fill(p) \/ \E v \in Page : DP!Replace(p, v)
<1>. DEFINE OnSwap == {q \in Page : pte[q].onswap}
<1>1. PICK d, c : Brings(p, f, d, c) /\ CountMiss(f)
  BY ReferenceIsBrings
<1>2. p \notin InMemory
  BY <1>1 DEF Brings, InMemory
<1>3. /\ count'.hit = count.hit /\ count'.miss = count.miss + 1
      /\ count'.evict_clean + count'.evict_dirty
           = count.evict_clean + count.evict_dirty + (IF MemoryFull THEN 1 ELSE 0)
  BY <1>1, MissCounted
<1>4. count.evict_clean + count.evict_dirty + 0 = count.evict_clean + count.evict_dirty
  BY DEF IInv, TypeOK, Counters
<1>5. CASE ~MemoryFull
  <2>1. OnSwap = {}
    BY <1>5 DEF OInv
  <2>2. InMemory' = InMemory \cup {p} /\ OnSwap' = {}
    BY <1>1, <1>5, <2>1, EntriesAfter
  <2>3. Cardinality(InMemory) < MemSize
    BY <1>5, Occupancy
  <2>. HIDE DEF InMemory
  <2>4. DP!Fill(p)
    BY <1>2, <1>3, <1>4, <1>5, <2>1, <2>2, <2>3, SameCardinality DEF DP!Fill
  <2>. QED  BY <2>4
<1>6. CASE MemoryFull
  <2>1. PICK v \in InMemory :
          /\ v # p
          /\ InMemory' = (InMemory \ {v}) \cup {p}
          /\ \A q \in Page \ {p, v} : pte'[q].onswap = pte[q].onswap
          /\ ~pte'[p].onswap /\ pte'[v].onswap
    BY <1>1, <1>6, EntriesAfter
  <2>2. v \in Page
    BY DEF InMemory
  <2>3. OnSwap' = (OnSwap \ {p}) \cup {v}
    BY <2>1, <2>2
  <2>4. Cardinality(InMemory) = MemSize
    BY <1>6, Occupancy
  <2>5. DP!Replace(p, v)
    BY <1>2, <1>3, <1>6, <2>1, <2>3, <2>4, SameCardinality DEF DP!Replace
  <2>. QED  BY <2>2, <2>5
<1>. QED  BY <1>5, <1>6

LEMMA StepRefines == IInv /\ OInv /\ [Next]_vars => [DP!Next]_(DP!vars)
<1>. SUFFICES ASSUME IInv, OInv, [Next]_vars PROVE [DP!Next]_(DP!vars)
  OBVIOUS
<1>1. ASSUME NEW p \in Page, NEW t \in AccessType, Hit(p, t)
      PROVE  DP!Next
  BY <1>1, HitRefines DEF DP!Next
<1>2. ASSUME NEW p \in Page, NEW t \in AccessType, NEW f \in Frame,
             Reference(p, t, f)
      PROVE  DP!Next
  BY <1>2, ReferenceRefines DEF DP!Next
<1>3. ASSUME UNCHANGED <<pte, count>>
      PROVE  UNCHANGED DP!vars
  BY <1>3 DEF DP!vars, InMemory
<1>4. ASSUME NEW p \in Page, NEW f \in Frame, SwapFull(p, f) \/ SwapError(p, f)
      PROVE  UNCHANGED DP!vars
  BY <1>3, <1>4 DEF SwapFull, SwapError, Ends
<1>5. CASE Finish
  BY <1>3, <1>5 DEF Finish, Ends
<1>6. CASE UNCHANGED vars
  BY <1>3, <1>6 DEF vars
<1>. QED  BY <1>1, <1>2, <1>4, <1>5, <1>6 DEF Next, Stopped

\* The simulator implements the demand pager: it faults only on pages that
\* are out of memory, and evicts one page per fault once memory is full.
THEOREM ImplementsDemandPaging == Spec => DemandPagingSpec
<1>. QED  BY InitRefines, StepRefines, OccupancyInvariance, PTL
          DEF Spec, DemandPagingSpec, DP!Spec

----------------------------------------------------------------------------
(* Swap capacity.  A page that has been anywhere has its reference bit     *)
(* set; the pages with a slot are as many as the marked slots, and the     *)
(* victim that finds none is one more.                                     *)

Referenced == {p \in Page : pte[p].ref}

GInv ==
  /\ \A p \in Page : pte[p].valid \/ pte[p].onswap => pte[p].ref
  /\ GivesUpOnlyWhenFull

LEMMA FullSwapCount ==
  ASSUME IInv, \A p \in Page : pte[p].valid \/ pte[p].onswap => pte[p].ref,
         NEW v \in Page, pte[v].valid, pte[v].swap_off = INVALID_SWAP,
         ClearSlots = {}
  PROVE  swapmap = Slot /\ Cardinality(Referenced) > SwapSize
<1>. DEFINE Owners == {p \in Page : pte[p].swap_off # INVALID_SWAP}
            h == [p \in Owners |-> pte[p].swap_off]
<1>1. swapmap = Slot
  BY DEF ClearSlots, IInv, TypeOK
<1>2. h \in Bijection(Owners, Slot)
  <2>1. h \in [Owners -> Slot]
    BY DEF IInv, TypeOK, Entry
  <2>2. \A p, q \in Owners : h[p] = h[q] => p = q
    BY DEF IInv, SlotOwnership
  <2>3. \A s \in Slot : \E p \in Owners : h[p] = s
    <3>1. swapmap = {pte[p].swap_off : p \in Page} \ {INVALID_SWAP}
      BY DEF IInv, SlotOwnership
    <3>. TAKE s \in Slot
    <3>2. PICK p \in Page : s = pte[p].swap_off /\ s # INVALID_SWAP
      BY <1>1, <3>1
    <3>. QED  BY <3>2
  <2>. QED  BY <2>1, <2>2, <2>3 DEF Bijection, Injection, Surjection, IsInjective
<1>3. Owners \cup {v} \subseteq Referenced /\ v \notin Owners
  BY DEF Referenced, IInv, EntryStates
<1>4. IsFiniteSet(Referenced) /\ IsFiniteSet(Owners)
      /\ Cardinality(Owners) \in Nat /\ Cardinality(Referenced) \in Nat
  <2>1. Referenced \subseteq Page /\ Owners \subseteq Page
    BY DEF Referenced
  <2>. HIDE DEF Owners
  <2>. QED  BY <2>1, PageAssumption, FS_Subset, FS_CardinalityType
<1>5. Cardinality(Owners) = SwapSize
  <2>. HIDE DEF h, Owners
  <2>1. ExistsBijection(Owners, Slot)
    BY <1>2 DEF ExistsBijection
  <2>2. Cardinality(Slot) = Cardinality(Owners)
    BY <1>4, <2>1, FS_Bijection
  <2>3. Cardinality(Slot) = SwapSize
    BY FS_Interval, SwapSizeAssumption
  <2>. QED  BY <2>2, <2>3
<1>6. Cardinality(Owners \cup {v}) = SwapSize + 1
  <2>. HIDE DEF Owners
  <2>. QED  BY <1>3, <1>4, <1>5, FS_AddElement
<1>7. Cardinality(Owners \cup {v}) <= Cardinality(Referenced)
  <2>. HIDE DEF Owners
  <2>. QED  BY <1>3, <1>4, FS_Subset
<1>. QED  BY <1>1, <1>4, <1>6, <1>7, SwapSizeAssumption

LEMMA StepGInv == IInv /\ GInv /\ [Next]_vars => GInv'
<1>. SUFFICES ASSUME IInv, GInv, [Next]_vars PROVE GInv'
  OBVIOUS
<1>1. ASSUME NEW p \in Page, NEW t \in AccessType, Hit(p, t)
      PROVE  GInv'
  <2>1. \A q \in Page : /\ pte'[q].valid = pte[q].valid
                        /\ pte'[q].onswap = pte[q].onswap
                        /\ pte[q].ref => pte'[q].ref
    BY <1>1 DEF Hit, IInv, TypeOK, Entry
  <2>. QED  BY <1>1, <2>1 DEF GInv, GivesUpOnlyWhenFull, Hit, Replaying
<1>2. ASSUME NEW p \in Page, NEW t \in AccessType, NEW f \in Frame,
             Reference(p, t, f)
      PROVE  GInv'
  <2>1. PICK d, c : Brings(p, f, d, c)
    BY <1>2, ReferenceIsBrings
  <2>2. status' # "swap_full"
    BY <1>2 DEF Reference, PageIn, FirstTouch, Replaying
  <2>3. Loaded(p, f, d).ref
    BY DEF Loaded
  <2>4. \A q \in Page : pte'[q].valid \/ pte'[q].onswap => pte'[q].ref
    <3>1. CASE ~MemoryFull
      <4>1. pte \in [Page -> Entry] /\ pte' = [pte EXCEPT ![p] = Loaded(p, f, d)]
        BY <2>1, <3>1, FillingFree DEF IInv, TypeOK
      <4>. QED  BY <2>3, <4>1 DEF GInv
    <3>2. CASE MemoryFull
      <4>1. PICK v \in Page, s \in Slot :
              /\ pte[v].valid
              /\ pte' = [q \in Page |-> IF q = p THEN Loaded(p, f, d)
                                        ELSE IF q = v THEN Evicted(pte[v], s)
                                        ELSE pte[q]]
        BY <2>1, <3>2, Eviction
      <4>2. Evicted(pte[v], s).ref = pte[v].ref
        BY DEF Evicted
      <4>. QED  BY <2>3, <4>1, <4>2 DEF GInv
    <3>. QED  BY <3>1, <3>2
  <2>. QED  BY <2>2, <2>4 DEF GInv, GivesUpOnlyWhenFull
<1>3. ASSUME NEW p \in Page, NEW f \in Frame, SwapFull(p, f)
      PROVE  GInv'
  <2>1. UNCHANGED <<pte, swapmap>>
    BY <1>3 DEF SwapFull, Ends
  <2>2. Victim(f) \in Page /\ pte[Victim(f)].valid
    BY <1>3, VictimInMemory DEF SwapFull, WritesBack
  <2>3. ClearSlots = {} /\ pte[Victim(f)].swap_off = INVALID_SWAP
    BY <1>3 DEF SwapFull, CanPageout
  <2>4. swapmap = Slot /\ Cardinality(Referenced) > SwapSize
    BY <2>2, <2>3, FullSwapCount DEF GInv
  <2>. QED  BY <2>1, <2>4 DEF GInv, GivesUpOnlyWhenFull, Referenced
<1>4. ASSUME UNCHANGED <<pte, swapmap>>, status' # "swap_full" \/ status' = status
      PROVE  GInv'
  BY <1>4 DEF GInv, GivesUpOnlyWhenFull
<1>5. ASSUME NEW p \in Page, NEW f \in Frame, SwapError(p, f)
      PROVE  GInv'
  BY <1>4, <1>5 DEF SwapError, Ends
<1>6. CASE Finish
  BY <1>4, <1>6 DEF Finish, Ends
<1>7. CASE UNCHANGED vars
  BY <1>4, <1>7 DEF vars
<1>. QED  BY <1>1, <1>2, <1>3, <1>5, <1>6, <1>7 DEF Next, Stopped

LEMMA CapacityInvariance == Spec => [](IInv /\ GInv)
<1>1. Init => GInv
  BY DEF Init, GInv, GivesUpOnlyWhenFull
<1>2. IInv /\ GInv /\ [Next]_vars => (IInv /\ GInv)'
  BY StepIInv, StepGInv
<1>. QED  BY <1>1, <1>2, InitIInv, PTL DEF Spec

\* "Could not allocate space in swapfile" means what it says: more pages
\* were touched than the swap file has slots, and all slots are taken.
THEOREM SwapFullMeansFull == Spec => []GivesUpOnlyWhenFull
<1>1. GInv => GivesUpOnlyWhenFull  BY DEF GInv
<1>. QED  BY <1>1, CapacityInvariance, PTL

\* A swap file with a slot for every page never fills.
THEOREM EnoughSwap ==
  ASSUME SwapSize >= Cardinality(Page)
  PROVE  Spec => [](status # "swap_full")
<1>1. IInv /\ GInv => status # "swap_full"
  <2>. SUFFICES ASSUME IInv, GInv, status = "swap_full" PROVE FALSE
    OBVIOUS
  <2>1. Cardinality(Referenced) > SwapSize
    BY DEF GInv, GivesUpOnlyWhenFull, Referenced
  <2>2. Referenced \subseteq Page
    BY DEF Referenced
  <2>3. /\ Cardinality(Referenced) <= Cardinality(Page)
        /\ Cardinality(Referenced) \in Nat /\ Cardinality(Page) \in Nat
    BY <2>2, PageAssumption, FS_Subset, FS_CardinalityType
  <2>. QED  BY <2>1, <2>3, SwapSizeAssumption
<1>. QED  BY <1>1, CapacityInvariance, PTL

=============================================================================
