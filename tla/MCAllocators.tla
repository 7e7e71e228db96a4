---------------------------- MODULE MCAllocators ----------------------------
(***************************************************************************)
(* Small instances of Allocators for TLC.                                  *)
(*                                                                         *)
(* What is left of old nodes and headers in words that are neither now is  *)
(* never read: two states that differ only there are one to TLC.           *)
(***************************************************************************)
EXTENDS Allocators, TLC

\* With its head lost nothing more is claimed of a free list.
ListInUse ==
  IF HeadLost THEN <<>>
  ELSE <<magic \cap DOMAIN live, [a \in DOMAIN live |-> size[a]],
         [a \in FreeNodes |-> <<size[a], next[a]>>]>>

NodesInUse == [a \in Range(List!Nodes) |-> node[a]]

InUse ==
  <<linked, head, brk, live, outcome, first_node, last_node,
    IF OneList THEN NodesInUse ELSE ListInUse>>
=============================================================================
