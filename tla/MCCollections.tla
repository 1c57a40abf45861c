--------------------------- MODULE MCCollections ----------------------------
(***************************************************************************)
(* A Map that the program iterates over, or weak maps among objects: a     *)
(* behaviour is one of the two, and the other one stays as it begins.  Two *)
(* plain objects, one with a field, and two weak maps.                     *)
(***************************************************************************)
EXTENDS MapTable, WeakTable, TLC

CONSTANTS o1, o2, m1, m2, f1, l1, l2

MCOwner   == f1 :> o1
MCObjects == {o1, o2, m1, m2}
MCFields  == {f1}
MCLocals  == {l1, l2}
MCMaps    == {m1, m2}

VARIABLE strong

mcVars == <<vars, weakVars, strong>>

MCInit == Init /\ WeakInit /\ strong \in BOOLEAN

MCNext ==
  /\ \/ strong /\ Next /\ UNCHANGED weakVars
     \/ ~strong /\ WeakNext /\ UNCHANGED vars
  /\ UNCHANGED strong

MCSpec == MCInit /\ [][MCNext]_mcVars

\* Keys, iterators, locals and weak maps are each interchangeable.
Symmetry ==
  Permutations(Key) \cup Permutations(Iter) \cup Permutations(MCLocals) \cup Permutations(MCMaps)
=============================================================================
