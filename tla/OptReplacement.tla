--------------------------- MODULE OptReplacement ---------------------------
(***************************************************************************)
(* opt.c: the trace is to be read ahead into buf_trace, and a referenced   *)
(* page stamped with the distance to its next reference; the victim is the *)
(* page with the largest stamp.  The second loop of opt_init reads from a  *)
(* file already at its end, so buf_trace keeps what malloc returned, and   *)
(* opt_ref looks in it for the number of the page's frame.                 *)
(***************************************************************************)
EXTENDS StampedReplacement

CONSTANT Garbage   \* what an element of buf_trace may hold, unset

VARIABLES
  trace,        \* the trace file: loads only, the type means nothing here
  buf_trace, curr_trace

optvars == <<vars, trace, buf_trace, curr_trace, stamp, order>>

OptInit ==
  /\ Init
  /\ trace \in [0 .. TraceLen - 1 -> Page]
  /\ buf_trace \in [0 .. TraceLen - 1 -> Garbage]
  /\ curr_trace = 0
  /\ stamp = [p \in Page |-> 0]
  /\ order = <<>>

\* The first frame with the largest stamp; stamps of pages in memory are
\* positive.
opt_evict ==
  IF ~MemoryFull THEN 0
  ELSE Min({f \in Frame : \A g \in Frame : StampAt(g) <= StampAt(f)})

\* p->frame >> PAGE_SHIFT is the frame the page is in after this reference.
Ahead(p) ==
  {i \in curr_trace + 1 .. TraceLen - 1 : buf_trace[i] = pte'[p].frame}

BadOptRef(p) ==
  /\ stamp' = [stamp EXCEPT ![p] =
       IF Ahead(p) = {} THEN TraceLen ELSE Min(Ahead(p)) - curr_trace]
  /\ curr_trace' = curr_trace + 1
opt_ref(p) ==
  /\ stamp' = [stamp EXCEPT ![p] =
       (IF Ahead(p) = {} THEN TraceLen ELSE Min(Ahead(p))) - curr_trace]
  /\ curr_trace' = curr_trace + 1

OptHit(p) ==
  /\ Hit(p, "L")
  /\ opt_ref(p)
  /\ order' = Append(Without(order, p), p)

OptFault(p) ==
  /\ RefersWith(p, "L", opt_evict)
  /\ opt_ref(p)
  /\ order' = AfterFault(p, opt_evict)

OptFails(p) == FailsWith(p, opt_evict) /\ UNCHANGED <<curr_trace, stamp, order>>

\* The next line of the trace.
OptLine ==
  /\ Replaying
  /\ LET p == trace[count.ref] IN OptHit(p) \/ OptFault(p) \/ OptFails(p)

OptNext ==
  /\ \/ OptLine
     \/ (Finish \/ Stopped) /\ UNCHANGED <<curr_trace, stamp, order>>
  /\ UNCHANGED <<trace, buf_trace>>

OptSpec == OptInit /\ [][OptNext]_optvars

\* What the algorithm is on a zeroed buffer: the page in frame 0 is taken to
\* be needed at the next reference, always, and never leaves; the others leave
\* in order of last use.
EvictsLeastRecentButFrameZero ==
  MemSize > 1 =>
    \A q \in Leaving :
      /\ pte[q].frame # 0
      /\ q = Head(Without(order, coremap[0].pte))

\* The line of the trace that references q again; the victim of the coming
\* fault is the page for which it is farthest.
NextUse(q) ==
  Min({i \in count.ref + 1 .. TraceLen - 1 : trace[i] = q} \cup {TraceLen})
VictimIsFarthest ==
  Replaying /\ MemoryFull /\ ~pte[trace[count.ref]].valid =>
    \A q \in InMemory : NextUse(q) <= NextUse(Victim(opt_evict))
=============================================================================
