----------------------------- MODULE PageTable -----------------------------
(***************************************************************************)
(* The virtual-memory simulator of A2: find_physpage and allocate_frame of *)
(* pagetable.c, the page movement of swap.c, and the memory access of      *)
(* sim.c.  One action is one line of the reference trace, replayed by a    *)
(* single thread: the translation, the frame allocation it may need, the   *)
(* eviction that may need, the page movement, and the access itself.       *)
(*                                                                         *)
(* The replacement algorithm is a parameter of the program (evict_fcn).    *)
(* Here it may name any frame, which is what rand.c does; the modules that *)
(* extend this one add the state and the choice of the other algorithms.   *)
(*                                                                         *)
(* An operator named Bad... is a fault of one line, next to the operator   *)
(* it would replace: the properties must tell the two apart.               *)
(***************************************************************************)
EXTENDS Integers, FiniteSets, FiniteSetsExt

CONSTANTS
  Page,       \* virtual pages: the trace's addresses are page numbers
  NoPage,     \* the null pointer in coremap, the zero address in a frame
  MemSize,    \* memsize, option -m: frames of simulated physical memory
  SwapSize,   \* swapsize, option -s: page slots of the swap file
  TraceLen    \* lines of the reference trace

ASSUME PageAssumption == IsFiniteSet(Page)
ASSUME NoPageAssumption == NoPage \notin Page
ASSUME MemSizeAssumption == MemSize \in Nat \ {0}
ASSUME SwapSizeAssumption == SwapSize \in Nat
ASSUME TraceLenAssumption == TraceLen \in Nat

VARIABLES
  pte,        \* second-level page table: one entry for each virtual page
  coremap,    \* the frame table: who is in each physical frame
  physmem,    \* contents of the physical frames
  swapmap,    \* the slots marked in the swap bitmap
  swapfile,   \* contents of the swap file, by slot
  count,      \* the event counters
  status,     \* whether the replay goes on, or how it ended
  stored      \* history: the stores the trace has made to each page

vars == <<pte, coremap, physmem, swapmap, swapfile, count, status, stored>>

----------------------------------------------------------------------------

Frame == 0 .. MemSize - 1
Slot == 0 .. SwapSize - 1
INVALID_SWAP == -1
AccessType == {"I", "L", "S", "M"}
Writes(t) == t \in {"S", "M"}

\* What a frame or a slot holds: the address written by init_frame for error
\* checking, and the version number that access_mem increments.
Content == [vaddr : Page \cup {NoPage}, version : Nat]
Blank == [vaddr |-> NoPage, version |-> 0]

Entry == [frame : Frame, valid : BOOLEAN, dirty : BOOLEAN, ref : BOOLEAN,
          onswap : BOOLEAN, swap_off : Slot \cup {INVALID_SWAP}]

Counters == [hit : Nat, miss : Nat, ref : Nat,
             evict_clean : Nat, evict_dirty : Nat]

TypeOK ==
  /\ pte \in [Page -> Entry]
  /\ coremap \in [Frame -> [in_use : BOOLEAN, pte : Page \cup {NoPage}]]
  /\ physmem \in [Frame -> Content]
  /\ swapmap \subseteq Slot
  /\ swapfile \in [Slot -> Content]
  /\ count \in Counters
  /\ status \in {"replay", "done", "swap_full", "io_error"}
  /\ stored \in [Page -> Nat]

\* main allocates coremap without clearing it (sim.c): it is taken to be fresh
\* memory, whose in_use bits are zero.
Init ==
  /\ pte = [p \in Page |-> [frame |-> 0, valid |-> FALSE, dirty |-> FALSE,
                            ref |-> FALSE, onswap |-> FALSE,
                            swap_off |-> INVALID_SWAP]]
  /\ coremap = [f \in Frame |-> [in_use |-> FALSE, pte |-> NoPage]]
  /\ physmem = [f \in Frame |-> Blank]
  /\ swapmap = {}
  /\ swapfile = [s \in Slot |-> Blank]
  /\ count = [hit |-> 0, miss |-> 0, ref |-> 0,
              evict_clean |-> 0, evict_dirty |-> 0]
  /\ status = "replay"
  /\ stored = [p \in Page |-> 0]

----------------------------------------------------------------------------
(* allocate_frame and the swap_pageout it calls                            *)

FreeFrames == {f \in Frame : ~coremap[f].in_use}
MemoryFull == FreeFrames = {}

BadAllocatable(f) == TRUE

\* The frames allocate_frame may return: the first free one, or, when there
\* is none, whichever frame the replacement algorithm names.
Allocatable(f) == ~MemoryFull => f = Min(FreeFrames)

Victim(f) == coremap[f].pte

WritesBack(f) == MemoryFull /\ ~pte[Victim(f)].onswap /\ pte[Victim(f)].dirty
DropsClean(f) == MemoryFull /\ ~pte[Victim(f)].onswap /\ ~pte[Victim(f)].dirty

BadClearSlots == (0 .. SwapSize) \ swapmap
ClearSlots == Slot \ swapmap

BadCanPageout(e) == e.swap_off # INVALID_SWAP \/ Cardinality(ClearSlots) > 1
BadPageoutSlotFirst(e) == 0

\* swap_pageout keeps the slot a page already has, and else takes the first
\* clear bit of the bitmap.
CanPageout(e) == e.swap_off # INVALID_SWAP \/ ClearSlots # {}
PageoutSlot(e) ==
  IF e.swap_off # INVALID_SWAP THEN e.swap_off ELSE Min(ClearSlots)

BadEvictedValid(e, slot) ==
  [frame |-> e.frame, valid |-> TRUE, dirty |-> FALSE, ref |-> e.ref,
   onswap |-> TRUE, swap_off |-> slot]
Evicted(e, slot) ==
  [frame |-> e.frame, valid |-> FALSE, dirty |-> FALSE, ref |-> e.ref,
   onswap |-> TRUE, swap_off |-> slot]

PteAfterEvict(f) ==
  IF ~MemoryFull THEN pte
  ELSE LET v == Victim(f)
       IN  [pte EXCEPT ![v] = Evicted(@, IF WritesBack(f) THEN PageoutSlot(@)
                                         ELSE @.swap_off)]

\* The effect of allocate_frame(p) on everything but the page table.
AllocateFrame(p, f) ==
  /\ Allocatable(f)
  /\ coremap' = [coremap EXCEPT ![f] = [in_use |-> TRUE, pte |-> p]]
  /\ IF WritesBack(f)
     THEN LET e == pte[Victim(f)]
              s == PageoutSlot(e)
          IN  /\ CanPageout(e)
              /\ swapmap' = swapmap \cup {s}
              /\ swapfile' = [swapfile EXCEPT ![s] = physmem[e.frame]]
     ELSE UNCHANGED <<swapmap, swapfile>>

----------------------------------------------------------------------------
(* find_physpage and the access that follows it                            *)

Replaying == status = "replay" /\ count.ref < TraceLen

\* access_mem: a store increments the version kept in the frame.
Accessed(c, t) == IF Writes(t) THEN [c EXCEPT !.version = @ + 1] ELSE c

RecordStore(p, t) ==
  stored' = IF Writes(t) THEN [stored EXCEPT ![p] = @ + 1] ELSE stored

CountHit ==
  count' = [hit |-> count.hit + 1, miss |-> count.miss, ref |-> count.ref + 1,
            evict_clean |-> count.evict_clean, evict_dirty |-> count.evict_dirty]

CountMiss(f) ==
  count' = [hit |-> count.hit, miss |-> count.miss + 1, ref |-> count.ref + 1,
            evict_clean |-> count.evict_clean + (IF DropsClean(f) THEN 1 ELSE 0),
            evict_dirty |-> count.evict_dirty + (IF WritesBack(f) THEN 1 ELSE 0)]

\* p->frame = frame << PAGE_SHIFT clears every bit; valid, ref and perhaps
\* dirty are set after it.  The slot stays the page's.
Loaded(p, f, dirty) ==
  [frame |-> f, valid |-> TRUE, dirty |-> dirty, ref |-> TRUE,
   onswap |-> FALSE, swap_off |-> pte[p].swap_off]

\* A page referenced for the first time is dirty whatever the access.
BadFirstTouchClean(p) == FALSE
FirstTouchDirty(p) == ~pte[p].ref

\* The page is in memory.  The dirty bit is left as it is whatever the
\* access type: flag1 is set on the page-in path only.
Hit(p, t) ==
  /\ Replaying
  /\ pte[p].valid /\ ~pte[p].onswap
  /\ pte' = [pte EXCEPT ![p].ref = TRUE]
  /\ physmem' = [physmem EXCEPT ![pte[p].frame] = Accessed(@, t)]
  /\ CountHit
  /\ RecordStore(p, t)
  /\ UNCHANGED <<coremap, swapmap, swapfile, status>>

\* The page was evicted earlier and is read back from its slot.
PageIn(p, t, f) ==
  /\ Replaying
  /\ ~pte[p].valid /\ pte[p].onswap
  /\ AllocateFrame(p, f)
  /\ pte' = [PteAfterEvict(f) EXCEPT ![p] = Loaded(p, f, Writes(t))]
  /\ physmem' = [physmem EXCEPT
                   ![f] = Accessed(swapfile'[pte[p].swap_off], t)]
  /\ CountMiss(f)
  /\ RecordStore(p, t)
  /\ UNCHANGED status

\* The first reference to the page: a zeroed frame, dirty from the start so
\* that its first eviction gives it a slot.
FirstTouch(p, t, f) ==
  /\ Replaying
  /\ ~pte[p].valid /\ ~pte[p].onswap
  /\ AllocateFrame(p, f)
  /\ pte' = [PteAfterEvict(f) EXCEPT ![p] = Loaded(p, f, FirstTouchDirty(p))]
  /\ physmem' = [physmem EXCEPT
                   ![f] = Accessed([vaddr |-> p, version |-> 0], t)]
  /\ CountMiss(f)
  /\ RecordStore(p, t)
  /\ UNCHANGED status

----------------------------------------------------------------------------
(* The ways a replay ends.  The program's memory is gone after each; only  *)
(* the outcome is kept.                                                    *)

Ends(outcome) ==
  /\ status' = outcome
  /\ UNCHANGED <<pte, coremap, physmem, swapmap, swapfile, count, stored>>

\* swap_pageout found no clear bit for the victim: allocate_frame exits.
SwapFull(p, f) ==
  /\ Replaying
  /\ ~pte[p].valid
  /\ Allocatable(f)
  /\ WritesBack(f) /\ ~CanPageout(pte[Victim(f)])
  /\ Ends("swap_full")

\* A seek, a read or a write on the swap file failed or was short.
SwapError(p, f) ==
  /\ Replaying
  /\ ~pte[p].valid
  /\ Allocatable(f)
  /\ \/ WritesBack(f) /\ CanPageout(pte[Victim(f)])
     \/ pte[p].onswap
  /\ Ends("io_error")

\* The end of the trace: main prints the counters and returns.
Finish ==
  /\ status = "replay" /\ count.ref = TraceLen
  /\ Ends("done")

\* The process is gone.  With this step a state of the replay that could not
\* handle the next line would be a deadlock.
Stopped == status # "replay" /\ UNCHANGED vars

Reference(p, t, f) == PageIn(p, t, f) \/ FirstTouch(p, t, f)

Next ==
  \/ \E p \in Page, t \in AccessType :
       Hit(p, t) \/ \E f \in Frame : Reference(p, t, f)
  \/ \E p \in Page, f \in Frame : SwapFull(p, f) \/ SwapError(p, f)
  \/ Finish
  \/ Stopped

Spec == Init /\ [][Next]_vars

----------------------------------------------------------------------------
(* Properties                                                              *)

InMemory == {p \in Page : pte[p].valid}

\* The frame table and the page table are inverse to each other: a valid
\* entry is the one its frame points back to, and a frame in use is pointed
\* back to by the entry it holds.  allocate_frame dereferences the back
\* pointer of its victim and find_physpage rewrites p->frame after it.
FrameTableInverse ==
  /\ \A p \in InMemory : /\ coremap[pte[p].frame].in_use
                         /\ coremap[pte[p].frame].pte = p
  /\ \A f \in Frame : coremap[f].in_use =>
       /\ coremap[f].pte \in InMemory
       /\ pte[coremap[f].pte].frame = f

\* The case find_physpage calls impossible, valid but on swap, is; and an
\* entry neither valid nor on swap is one never referenced, so taking it for
\* a first reference (and zeroing its frame) loses nothing.
EntryStates ==
  \A p \in Page :
    /\ ~(pte[p].valid /\ pte[p].onswap)
    /\ ~pte[p].valid /\ ~pte[p].onswap =>
         ~pte[p].ref /\ pte[p].swap_off = INVALID_SWAP /\ stored[p] = 0

\* A page that is on swap, or clean in memory so that its eviction writes
\* nothing, has a slot, marked in the bitmap, that holds this page: the
\* assertion of swap_pagein cannot fail, and a clean eviction can be undone.
BackedBySwap ==
  \A p \in Page :
    pte[p].onswap \/ (pte[p].valid /\ ~pte[p].dirty) =>
      /\ pte[p].swap_off \in swapmap
      /\ swapfile[pte[p].swap_off].vaddr = p

\* No two pages share a slot, and no marked slot is without its page: the
\* swap file is full only when each slot is some page's.
SlotOwnership ==
  /\ \A p, q \in Page :
       p # q /\ pte[p].swap_off # INVALID_SWAP => pte[p].swap_off # pte[q].swap_off
  /\ swapmap = {pte[p].swap_off : p \in Page} \ {INVALID_SWAP}

\* The check of access_mem always succeeds: the frame find_physpage returns
\* holds the referenced page, however often it went to swap and back.
CheckAddr == \A p \in InMemory : physmem[pte[p].frame].vaddr = p

\* Every reference is a hit or a miss, and every miss either took a frame
\* that is still in use or evicted exactly one page (the tables of README.txt
\* satisfy this equation).
MissesAccounted ==
  /\ count.ref = count.hit + count.miss
  /\ count.miss = count.evict_clean + count.evict_dirty
                    + Cardinality({f \in Frame : coremap[f].in_use})

\* What is in memory is never older than its copy in the swap file, and
\* neither is newer than the trace.
CopiesOrdered ==
  \A p \in InMemory :
    /\ physmem[pte[p].frame].version <= stored[p]
    /\ pte[p].swap_off # INVALID_SWAP =>
         swapfile[pte[p].swap_off].version <= physmem[pte[p].frame].version

\* Once a slot holds a page it always holds that page, and never an older
\* version of it: no eviction writes over another page's copy, and none
\* takes a page's own copy back.
SwapCopiesAdvance ==
  [][\A s \in swapmap :
       /\ s \in swapmap'
       /\ swapfile'[s].vaddr = swapfile[s].vaddr
       /\ swapfile'[s].version >= swapfile[s].version]_vars

\* The replay gives up for want of swap only when the trace has touched more
\* pages than the swap file has slots, and every slot is in use.
GivesUpOnlyWhenFull ==
  status = "swap_full" =>
    /\ swapmap = Slot
    /\ Cardinality({p \in Page : pte[p].ref}) > SwapSize

\* "Dirty bit in pgd or pte, set if modified" (pagetable.h): a page in memory
\* that differs from its copy on swap is marked dirty.  The code breaks it: a
\* store that hits a page loaded by a read leaves the dirty bit clear.
ModifiedIsDirty ==
  \A p \in InMemory :
    pte[p].swap_off # INVALID_SWAP
      /\ physmem[pte[p].frame].version # swapfile[pte[p].swap_off].version
    => pte[p].dirty

\* The page table, frame table and swap file together implement the demand
\* pager: find_physpage faults only on pages not in memory, evicts only when
\* no frame is free, and evicts one page for the one it brings.
DP == INSTANCE DemandPaging WITH
        resident <- InMemory,
        swapped <- {p \in Page : pte[p].onswap},
        hits <- count.hit,
        faults <- count.miss,
        evictions <- count.evict_clean + count.evict_dirty
DemandPagingSpec == DP!Spec
=============================================================================
