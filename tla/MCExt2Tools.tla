---------------------------- MODULE MCExt2Tools ----------------------------
(* Small instances of Ext2Tools for TLC.  Nothing orders the names, or tells *)
(* one from another.                                                         *)
EXTENDS Ext2Tools, TLC

Names == Permutations(Name)
=============================================================================
