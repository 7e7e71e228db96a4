-------------------------- MODULE ClockReplacement --------------------------
(***************************************************************************)
(* clock.c: a hand that goes round the frames, clearing the reference bits *)
(* it meets until one is clear already.  The hand stays on the frame it    *)
(* chose.  The bit (the field ref, not PG_REF) is one of the fields        *)
(* init_second_level leaves as it found them.                              *)
(***************************************************************************)
EXTENDS Replacement

VARIABLES
  clock_pointer,
  ref,
  recent    \* history: the pages referenced since the last fault, its own too

clockvars == <<vars, clock_pointer, ref, recent, order>>

ClockInit ==
  /\ Init
  /\ clock_pointer = 0
  /\ ref \in [Page -> {0, 1}]
  /\ order = <<>>
  /\ recent = {}

At(k) == (clock_pointer + k) % MemSize
RefAt(k) == ref[coremap[At(k)].pte]

\* How far clock_evict moves the hand: at most once round, because it clears
\* the bits it passes.
Steps ==
  IF ~MemoryFull THEN 0
  ELSE Min({k \in 0 .. MemSize : k = MemSize \/ RefAt(k) = 0})
Passed == {coremap[At(k)].pte : k \in 0 .. Steps - 1}
clock_evict == At(Steps)

BadClockRef(p) ==
  ref' = [q \in Page |-> IF q = p /\ ~pte[p].valid THEN 1
                         ELSE IF q \in Passed THEN 0 ELSE ref[q]]
\* The sweep of the fault, then clock_ref on the page that was referenced.
ClockRef(p) ==
  ref' = [q \in Page |-> IF q = p THEN 1
                         ELSE IF ~pte[p].valid /\ q \in Passed THEN 0
                         ELSE ref[q]]

ClockHit(p, t) ==
  /\ Hit(p, t)
  /\ ClockRef(p)
  /\ recent' = recent \cup {p}
  /\ UNCHANGED <<clock_pointer, order>>

ClockFault(p, t) ==
  /\ RefersWith(p, t, clock_evict)
  /\ ClockRef(p)
  /\ clock_pointer' = clock_evict
  /\ order' = AfterFault(p, clock_evict)
  /\ recent' = {p}

\* Nothing reads the hand or the bits once the run has failed.
ClockEnds ==
  /\ Finish \/ Stopped \/ \E p \in Page : FailsWith(p, clock_evict)
  /\ UNCHANGED <<clock_pointer, ref, order, recent>>

ClockNext ==
  \/ \E p \in Page, t \in AccessType : ClockHit(p, t) \/ ClockFault(p, t)
  \/ ClockEnds

ClockSpec == ClockInit /\ [][ClockNext]_clockvars

\* A page referenced since the last fault leaves memory only when the bit of
\* every page in memory was set, so that the sweep came back to where it
\* began.
SparesRecent ==
  \A q \in Leaving : q \in recent => \A p \in InMemory : ref[p] = 1
=============================================================================
