----------------------------- MODULE MCFastSlim -----------------------------
(* Small instances of FastSlim for TLC; pages are interchangeable.         *)
EXTENDS FastSlim, TLC

PageSymmetry == Permutations(Page)
=============================================================================
