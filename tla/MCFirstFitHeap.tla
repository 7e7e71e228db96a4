--------------------------- MODULE MCFirstFitHeap ---------------------------
(* Small instances of FirstFitHeap for TLC.                                *)
EXTENDS FirstFitHeap, TLC
=============================================================================
