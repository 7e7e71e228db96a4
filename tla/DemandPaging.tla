---------------------------- MODULE DemandPaging ----------------------------
(***************************************************************************)
(* What a demand pager promises, with no page table, frame table or swap   *)
(* file: at most MemSize pages are resident; a reference to a resident     *)
(* page moves nothing; a fault brings exactly the page it asks for, and    *)
(* displaces exactly one page, which is then on swap, when and only when   *)
(* memory is full.  Which page is displaced is left to the replacement     *)
(* algorithm.                                                              *)
(***************************************************************************)
EXTENDS Naturals, FiniteSets

CONSTANTS Page, MemSize

VARIABLES
  resident,   \* pages in memory
  swapped,    \* pages that were in memory and are now on swap
  hits, faults, evictions

vars == <<resident, swapped, hits, faults, evictions>>

Init ==
  /\ resident = {} /\ swapped = {}
  /\ hits = 0 /\ faults = 0 /\ evictions = 0

Use(p) ==
  /\ p \in resident
  /\ hits' = hits + 1
  /\ UNCHANGED <<resident, swapped, faults, evictions>>

Fill(p) ==
  /\ p \notin resident /\ p \notin swapped
  /\ Cardinality(resident) < MemSize
  /\ resident' = resident \cup {p}
  /\ faults' = faults + 1
  /\ UNCHANGED <<swapped, hits, evictions>>

Replace(p, v) ==
  /\ p \notin resident /\ v \in resident
  /\ Cardinality(resident) = MemSize
  /\ resident' = (resident \ {v}) \cup {p}
  /\ swapped' = (swapped \ {p}) \cup {v}
  /\ faults' = faults + 1
  /\ evictions' = evictions + 1
  /\ UNCHANGED hits

Next ==
  \/ \E p \in Page : Use(p) \/ Fill(p)
  \/ \E p, v \in Page : Replace(p, v)

Spec == Init /\ [][Next]_vars
=============================================================================
