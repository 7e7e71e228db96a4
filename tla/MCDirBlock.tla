----------------------------- MODULE MCDirBlock -----------------------------
(* A small instance of DirBlock for TLC.                                    *)
EXTENDS DirBlock
=============================================================================
