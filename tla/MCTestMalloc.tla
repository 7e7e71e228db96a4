---------------------------- MODULE MCTestMalloc ----------------------------
(* Small instances of TestMalloc for TLC: the traces.                       *)
EXTENDS TestMalloc, TLC

CONSTANTS t1, t2

m(x, s) == [type |-> "MALLOC", index |-> x, size |-> s]
f(x) == [type |-> "FREE", index |-> x, size |-> 0]

OneTrace ==
  (t1 :> <<m(0, 1), m(1, 0), f(0), m(2, 2), f(1), f(2)>>) @@ (t2 :> <<>>)
TwoTraces == (t1 :> <<m(0, 1), m(1, 1), f(1)>>) @@ (t2 :> <<m(0, 1), f(0)>>)
Traces == {OneTrace, TwoTraces}
=============================================================================
