---------------------------- MODULE MCSimulator ----------------------------
(* Small instances of Simulator for TLC; pages are interchangeable.        *)
EXTENDS Simulator, TLC

PageSymmetry == Permutations(Page)
=============================================================================
