------------------------- MODULE StampedReplacement -------------------------
(* The field of a page's entry that lru.c and opt.c stamp.                  *)
EXTENDS Replacement

VARIABLE stamp

StampAt(f) == stamp[coremap[f].pte]
=============================================================================
