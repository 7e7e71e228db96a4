-------------------------- MODULE FifoReplacement --------------------------
(***************************************************************************)
(* fifo.c: a hand that goes round the frames.  It stands for first-in      *)
(* first-out only because frames fill in the order 0, 1, 2, ... and each   *)
(* fault after that reloads the frame the hand points to.                  *)
(***************************************************************************)
EXTENDS Replacement

VARIABLE to_go

fifovars == <<vars, to_go, order>>

BadFifoInit == Init /\ to_go = 0 /\ order = <<>>
FifoInit == Init /\ to_go = -1 /\ order = <<>>

fifo_evict == (to_go + 1) % MemSize

FifoHit(p, t) == Hit(p, t) /\ UNCHANGED <<to_go, order>>

FifoFault(p, t) ==
  /\ RefersWith(p, t, fifo_evict)
  /\ to_go' = IF MemoryFull THEN fifo_evict ELSE to_go
  /\ order' = AfterFault(p, fifo_evict)

FifoEnds ==
  /\ Finish \/ Stopped \/ \E p \in Page : FailsWith(p, fifo_evict)
  /\ UNCHANGED <<to_go, order>>

FifoNext ==
  \/ \E p \in Page, t \in AccessType : FifoHit(p, t) \/ FifoFault(p, t)
  \/ FifoEnds

FifoSpec == FifoInit /\ [][FifoNext]_fifovars

\* The page that leaves memory is the one that has been there longest.
EvictsFirstIn == \A q \in Leaving : q = Head(order)
=============================================================================
