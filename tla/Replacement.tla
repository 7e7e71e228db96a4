---------------------------- MODULE Replacement ----------------------------
(***************************************************************************)
(* What the modules of the replacement algorithms share: the simulator of  *)
(* PageTable with evict_fcn answering one frame, and a history of the      *)
(* pages in memory against which the answers are judged.                   *)
(***************************************************************************)
EXTENDS PageTable, SequencesExt

VARIABLE order   \* history: the pages in memory, in the order the algorithm
                 \* should go by

\* A page is in the order once.
Without(seq, q) == RemoveFirst(seq, q)

\* A reference replayed with evict_fcn's answer v: v is used only when no
\* frame is free.
RefersWith(p, t, v) ==
  \E f \in Frame : (MemoryFull => f = v) /\ Reference(p, t, f)

\* The same reference when swap fails, which ends the run.
FailsWith(p, v) ==
  \E f \in Frame : (MemoryFull => f = v) /\ (SwapFull(p, f) \/ SwapError(p, f))

\* The order after a fault on p: the victim leaves it, p is the last.
AfterFault(p, v) ==
  Append(IF MemoryFull THEN Without(order, Victim(v)) ELSE order, p)

Leaving == InMemory \ InMemory'
=============================================================================
