----------------------------- MODULE MCCycleGC -----------------------------
(* An instance of CycleGC: two objects, one with two fields and one with    *)
(* one, and a passive header (a JSVarRef or a JSShape) with one.            *)
EXTENDS CycleGC

CONSTANTS o1, o2, v1, f1, f2, f3, g1

MCFields == {f1, f2, f3, g1}
MCOwner  == [f \in MCFields |-> CASE f \in {f1, f2} -> o1 [] f = f3 -> o2 [] f = g1 -> v1]
=============================================================================
