--------------------------- MODULE LruReplacement ---------------------------
(***************************************************************************)
(* lru.c: a global counter stamps the entry of every referenced page, and  *)
(* the victim is the page in memory with the smallest stamp.  The stamp is *)
(* one of the fields init_second_level leaves as malloc gave them.         *)
(***************************************************************************)
EXTENDS StampedReplacement

VARIABLE counter

lruvars == <<vars, counter, stamp, order>>

Unset == {0, TraceLen + 1}   \* what an unset stamp may hold

LruInit ==
  /\ Init
  /\ counter = 0
  /\ stamp \in [Page -> Unset]
  /\ order = <<>>

\* The first frame with the smallest stamp below counter; frame 0 if none is
\* (with one frame, its page was the last referenced).
Older == {f \in Frame : StampAt(f) < counter}
lru_evict ==
  IF ~MemoryFull \/ Older = {} THEN 0
  ELSE Min({f \in Older : \A g \in Older : StampAt(f) <= StampAt(g)})

BadLruRef(p) ==
  /\ counter' = counter + 1
  /\ stamp' = IF pte[p].valid THEN stamp ELSE [stamp EXCEPT ![p] = counter']
lru_ref(p) ==
  /\ counter' = counter + 1
  /\ stamp' = [stamp EXCEPT ![p] = counter']

LruHit(p, t) ==
  /\ Hit(p, t)
  /\ lru_ref(p)
  /\ order' = Append(Without(order, p), p)

LruFault(p, t) ==
  /\ RefersWith(p, t, lru_evict)
  /\ lru_ref(p)
  /\ order' = AfterFault(p, lru_evict)

LruEnds ==
  /\ Finish \/ Stopped \/ \E p \in Page : FailsWith(p, lru_evict)
  /\ UNCHANGED <<counter, stamp, order>>

LruNext ==
  \/ \E p \in Page, t \in AccessType : LruHit(p, t) \/ LruFault(p, t)
  \/ LruEnds

LruSpec == LruInit /\ [][LruNext]_lruvars

\* The page that leaves memory is the least recently used one, whatever the
\* stamps held before the first reference.
EvictsLeastRecent == \A q \in Leaving : q = Head(order)
=============================================================================
