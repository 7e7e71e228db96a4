---------------------------- MODULE MCPageTable ----------------------------
(***************************************************************************)
(* Small instances of PageTable for TLC.  Pages are interchangeable, so    *)
(* they are a symmetry set; frames and slots are ordered (allocation is    *)
(* first-fit) and are not.                                                 *)
(***************************************************************************)
EXTENDS PageTable, TLC

PageSymmetry == Permutations(Page)
=============================================================================
