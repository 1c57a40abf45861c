--------------------------- MODULE CycleGCProofs ---------------------------
(***************************************************************************)
(* Proofs about CycleGC for any number of headers, fields and locals.      *)
(*                                                                         *)
(* The inductive invariant says, phase by phase, which list a header is    *)
(* on, which references the passes have taken off the counts, and where    *)
(* the references to garbage and to kept headers come from.  The last part *)
(* shows that CycleGC keeps what the program can reach and collects the    *)
(* rest: it implements AbstractHeap.                                       *)
(***************************************************************************)
EXTENDS CycleGC, FiniteSetTheorems, TLAPS

(* The references that the count of h stands for. *)
Refs(h) == {c \in Cell \ subtracted : ref[c] = h}

Garbage == tmpList \cup zeroList

(* Every header is on one list. *)
Lists ==
  /\ heap = gcList \cup tmpList \cup zeroList
  /\ gcList \cap tmpList = {}
  /\ gcList \cap zeroList = {}
  /\ tmpList \cap zeroList = {}

(* Which lists, walks and releases each phase may have. *)
ByPhase ==
  /\ phase \in {"none", "free_zero"} => tmpList = {}
  /\ phase \in Passes \cup {"none"} => zeroList = {}
  /\ phase = "free_zero" => zeroList \subseteq Objects
  /\ phase \notin Passes => todo = {} /\ subtracted = {}
  /\ phase \in Passes => dying = None
  /\ phase # "free_zero" => suspended = None
  /\ phase = "none" => cur = None
  /\ cur # None /\ phase = "free_zero" => cur \in zeroList
  /\ cur # None /\ phase = "gc_free" => cur \in tmpList \cap Objects
  /\ cur # None /\ phase \in Passes => cur \in visited
  /\ dying # None /\ phase = "gc_free" => dying \in Garbage

(* What is being released, or waits for it, has no reference left. *)
Released ==
  /\ dying # None => rc[dying] = 0
  /\ suspended # None => rc[suspended] = 0
  /\ dying # None => dying # suspended
  /\ phase = "free_zero" => \A h \in zeroList : rc[h] = 0
  /\ phase = "gc_free" => \A h \in zeroList \cap Objects : Children(h) = {}

Counts == \A h \in heap : rc[h] = Cardinality(Refs(h))

(* A JSVarRef or a JSShape refers to no other. *)
PassiveFields == \A f \in Fields : Owner[f] \in Passive => ref[f] \in Objects \cup {None}

(* A header has a referent, unless it is being freed. *)
Referenced ==
  \A h \in heap : \/ \E c \in Cell : ref[c] = h
                  \/ h \in {dying, suspended}
                  \/ h \in zeroList \cap Objects
                  \/ phase = "gc_free" /\ h \in tmpList \cap Objects

(* The fields whose reference is off the count, pass by pass. *)
TakenOff ==
  /\ todo # {} => cur # None /\ todo \subseteq Children(cur)
  /\ phase = "gc_decref" =>
       subtracted = {f \in Fields : ref[f] # None /\ Owner[f] \in visited} \ todo
  /\ phase = "gc_scan" =>
       subtracted = {f \in Fields : ref[f] # None /\ Owner[f] \notin visited} \cup todo
  /\ phase = "gc_restore" =>
       subtracted = {f \in Fields : ref[f] # None /\ Owner[f] \in tmpList \ visited} \cup todo

(* The marks, and what gc_decref has set aside. *)
Marks ==
  /\ phase = "gc_decref" => /\ gcList \cap marked = (gcList \cap visited) \ {cur}
                            /\ tmpList \subseteq marked \cap visited
                            /\ cur \notin tmpList
  /\ phase = "gc_scan" => gcList \cap visited \cap marked = {}
  /\ phase \notin {"gc_decref", "gc_scan"} => gcList \cap marked = {}
  /\ phase = "gc_decref" => \A h \in gcList \cap visited : h # cur => rc[h] > 0
  /\ phase = "gc_scan" => \A h \in gcList : rc[h] > 0
  /\ phase \in {"gc_decref", "gc_scan"} => \A h \in tmpList : rc[h] = 0
  /\ phase = "gc_scan" => visited \subseteq gcList

(* What gc_scan keeps is referred to from outside or from what it keeps... *)
Kept ==
  phase \in {"gc_scan", "gc_restore", "gc_free"} =>
     \A h \in gcList : \E c \in Cell : /\ ref[c] = h
                                       /\ c \in Locals \/ Owner[c] \in gcList

(* ...and nothing kept that it has walked refers to what is set aside. *)
Separated ==
  /\ phase = "gc_scan" =>
       \A f \in Fields : Owner[f] \in visited /\ f \notin todo => ref[f] \notin tmpList
  /\ phase \in {"gc_restore", "gc_free"} =>
       \A c \in Cell : ref[c] \in Garbage => c \in Fields /\ Owner[c] \in Garbage

IInv ==
  /\ TypeOK
  /\ Lists
  /\ ByPhase
  /\ NoDangling
  /\ Counts
  /\ Released
  /\ PassiveFields
  /\ Referenced
  /\ TakenOff
  /\ Marks
  /\ Kept
  /\ Separated

-----------------------------------------------------------------------------
(* Facts about counts.                                                      *)

LEMMA RefsFinite == ASSUME NEW h PROVE IsFiniteSet(Refs(h))
<1>1. Refs(h) \in SUBSET Cell
  BY DEF Refs
<1> QED BY <1>1, LayoutAssumption, FS_Subset

(* A count is that of a finite set, positive when there is a reference. *)
LEMMA CountPositive ==
  ASSUME NEW h
  PROVE  /\ Cardinality(Refs(h)) \in Nat
         /\ Cardinality(Refs(h)) > 0 <=> \E c \in Cell \ subtracted : ref[c] = h
<1>1. IsFiniteSet(Refs(h))
  BY RefsFinite
<1>2. Cardinality(Refs(h)) \in Nat
  BY <1>1, FS_CardinalityType
<1>3. Cardinality(Refs(h)) = 0 <=> Refs(h) = {}
  BY <1>1, FS_EmptySet
<1> QED BY <1>2, <1>3 DEF Refs

(* A count of one is one reference. *)
LEMMA OnlyReference ==
  ASSUME NEW h, NEW c \in Cell \ subtracted, ref[c] = h
  PROVE  Cardinality(Refs(h)) = 1 <=> \A d \in Cell \ subtracted : ref[d] = h => d = c
<1>1. IsFiniteSet(Refs(h)) /\ c \in Refs(h)
  BY RefsFinite DEF Refs
<1>2. Cardinality(Refs(h)) = 1 <=> \E x : Refs(h) = {x}
  BY <1>1, FS_Singleton
<1>3. Cardinality(Refs(h)) = 1 <=> Refs(h) = {c}
  BY <1>1, <1>2
<1> QED BY <1>1, <1>3 DEF Refs

(* A reference more, a reference less. *)
LEMMA CountStep ==
  ASSUME NEW h
  PROVE  /\ Refs(h)' = Refs(h) => Cardinality(Refs(h))' = Cardinality(Refs(h))
         /\ \A c : c \notin Refs(h) /\ Refs(h)' = Refs(h) \cup {c}
               => Cardinality(Refs(h))' = Cardinality(Refs(h)) + 1
         /\ \A c : c \in Refs(h) /\ Refs(h)' = Refs(h) \ {c}
               => Cardinality(Refs(h))' = Cardinality(Refs(h)) - 1
<1>1. IsFiniteSet(Refs(h))
  BY RefsFinite
<1> QED BY <1>1, FS_AddElement, FS_RemoveElement

LEMMA CountMove ==
  ASSUME NEW h, NEW c \in Refs(h), NEW d, d \notin Refs(h),
         Refs(h)' = (Refs(h) \ {c}) \cup {d}
  PROVE  Cardinality(Refs(h))' = Cardinality(Refs(h))
<1>1. /\ IsFiniteSet(Refs(h) \ {c})
      /\ Cardinality(Refs(h) \ {c}) = Cardinality(Refs(h)) - 1
  BY RefsFinite, FS_RemoveElement
<1>2. Cardinality(Refs(h))' = Cardinality(Refs(h)) - 1 + 1
  BY <1>1, FS_AddElement
<1> QED BY <1>2, CountPositive

LEMMA CountsKept ==
  ASSUME Counts, UNCHANGED <<ref, rc, subtracted>>, heap' \subseteq heap
  PROVE  Counts'
<1>1. \A h : Refs(h)' = Refs(h)
  BY DEF Refs
<1> QED BY <1>1 DEF Counts

-----------------------------------------------------------------------------
(* Each action keeps the invariant.                                         *)

LEMMA NewInv ==
  ASSUME IInv, NEW l \in Locals, NEW h \in Header, New(l, h)
  PROVE  IInv'
<1> USE DEF IInv, vars, graphVars, listVars, passVars, freeVars, Cell, Header
<1>1. TypeOK'
  BY LayoutAssumption DEF New, TypeOK, Quiet
<1>2. Lists' /\ ByPhase'
  BY DEF New, TypeOK, Quiet, Lists, ByPhase, Passes, Garbage
<1>3. NoDangling' /\ PassiveFields'
  BY LayoutAssumption DEF New, TypeOK, NoDangling, PassiveFields
<1>4. Counts'
  <2>1. SUFFICES ASSUME NEW g \in heap' PROVE rc'[g] = Cardinality(Refs(g))'
    BY DEF Counts
  <2>2. CASE g = h
    <3>1. Refs(g)' = {l}
      BY <2>2, LayoutAssumption DEF New, TypeOK, NoDangling, Refs, Quiet, ByPhase, Passes
    <3> QED BY <2>2, <3>1, FS_Singleton DEF New, TypeOK
  <2>3. CASE g # h
    <3>1. Refs(g)' = Refs(g)
      BY <2>3, LayoutAssumption DEF New, TypeOK, NoDangling, Refs, Quiet
    <3> QED BY <2>3, <3>1, CountStep DEF New, TypeOK, Counts
  <2> QED BY <2>2, <2>3
<1>5. Released' /\ TakenOff' /\ Marks'
  BY LayoutAssumption DEF New, TypeOK, Quiet, Released, TakenOff, Marks, Passes, ByPhase
<1>6. Referenced' /\ Kept' /\ Separated'
  BY LayoutAssumption DEF New, TypeOK, Quiet, Referenced, Kept, Separated, NoDangling
<1> QED BY <1>1, <1>2, <1>3, <1>4, <1>5, <1>6

LEMMA DupInv ==
  ASSUME IInv, NEW l \in Locals, NEW c \in Cell, Dup(l, c)
  PROVE  IInv'
<1> USE DEF IInv, vars, graphVars, listVars, passVars, freeVars, Cell, Header
<1> DEFINE h == ref[c]
<1>0. h \in heap /\ subtracted = {} /\ dying = None
  BY DEF Dup, Quiet, NoDangling, ByPhase, Passes
<1>1. TypeOK'
  BY <1>0, LayoutAssumption DEF Dup, TypeOK
<1>2. Lists' /\ ByPhase'
  BY DEF Dup, Lists, ByPhase, Garbage
<1>3. NoDangling' /\ PassiveFields'
  BY <1>0, LayoutAssumption DEF Dup, TypeOK, NoDangling, PassiveFields
<1>4. Counts'
  <2>1. SUFFICES ASSUME NEW g \in heap' PROVE rc'[g] = Cardinality(Refs(g))'
    BY DEF Counts
  <2>2. CASE g = h
    <3>1. l \notin Refs(g) /\ Refs(g)' = Refs(g) \cup {l}
      BY <1>0, <2>2, LayoutAssumption DEF Dup, TypeOK, Refs
    <3> QED BY <1>0, <2>2, <3>1, CountStep DEF Dup, TypeOK, Counts
  <2>3. CASE g # h
    <3>1. Refs(g)' = Refs(g)
      BY <1>0, <2>3, LayoutAssumption DEF Dup, TypeOK, Refs
    <3> QED BY <2>3, <3>1, CountStep DEF Dup, TypeOK, Counts
  <2> QED BY <2>2, <2>3
<1>5. Released' /\ TakenOff' /\ Marks'
  BY <1>0, LayoutAssumption DEF Dup, TypeOK, Quiet, Released, TakenOff, Marks, Passes, ByPhase
<1>6. Referenced' /\ Kept' /\ Separated'
  BY <1>0, LayoutAssumption DEF Dup, TypeOK, Quiet, Referenced, Kept, Separated
<1> QED BY <1>1, <1>2, <1>3, <1>4, <1>5, <1>6

LEMMA StoreInv ==
  ASSUME IInv, NEW l \in Locals, NEW f \in Fields, Store(l, f)
  PROVE  IInv'
<1> USE DEF IInv, vars, graphVars, listVars, passVars, freeVars, Cell, Header
<1>0. subtracted = {} /\ dying = None /\ suspended = None /\ todo = {} /\ l # f
  BY LayoutAssumption DEF Store, Quiet, ByPhase, Passes
<1>1. TypeOK'
  BY LayoutAssumption DEF Store, TypeOK
<1>2. Lists' /\ ByPhase'
  BY DEF Store, Lists, ByPhase, Garbage
<1>3. NoDangling' /\ PassiveFields'
  BY <1>0, LayoutAssumption DEF Store, TypeOK, NoDangling, PassiveFields, HeldBy
<1>4. Counts'
  <2>1. SUFFICES ASSUME NEW g \in heap' PROVE rc'[g] = Cardinality(Refs(g))'
    BY DEF Counts
  <2>2. CASE ref[l] = g /\ ref[f] # g
    <3>1. l \in Refs(g) /\ f \notin Refs(g) /\ Refs(g)' = (Refs(g) \ {l}) \cup {f}
      BY <1>0, <2>2 DEF Store, TypeOK, Refs
    <3> QED BY <3>1, CountMove DEF Store, Counts
  <2>3. CASE ref[f] = g /\ ref[l] # g
    <3>1. f \in Refs(g) /\ l \notin Refs(g) /\ Refs(g)' = (Refs(g) \ {f}) \cup {l}
      BY <1>0, <2>3 DEF Store, TypeOK, Refs
    <3> QED BY <3>1, CountMove DEF Store, Counts
  <2>4. CASE (ref[l] = g) <=> (ref[f] = g)
    <3>1. Refs(g)' = Refs(g)
      BY <1>0, <2>4 DEF Store, TypeOK, Refs
    <3> QED BY <3>1, CountStep DEF Store, Counts
  <2> QED BY <2>2, <2>3, <2>4
<1>5. Released' /\ TakenOff' /\ Marks'
  BY <1>0, LayoutAssumption DEF Store, TypeOK, Quiet, Released, TakenOff, Marks, Passes, ByPhase
<1>6. Referenced' /\ Kept' /\ Separated'
  BY <1>0, LayoutAssumption DEF Store, TypeOK, Quiet, Referenced, Kept, Separated
<1> QED BY <1>1, <1>2, <1>3, <1>4, <1>5, <1>6

(* The three callers of Unref: the program, free_object, and the release of *)
(* a JSVarRef or a JSShape.                                                 *)
UnrefBy(c) ==
  \/ Quiet /\ c \in Locals
  \/ phase \in {"free_zero", "gc_free"} /\ cur # None /\ dying = None /\ c \in Children(cur)
  \/ dying # None /\ c \in Children(dying)

LEMMA UnrefInv ==
  ASSUME IInv, NEW c \in Cell, ref[c] # None, UnrefBy(c), Unref(c),
         UNCHANGED <<heap, tmpList, passVars, cur>>
  PROVE  IInv'
<1> USE DEF IInv, vars, graphVars, listVars, passVars, freeVars, Cell, Header
<1> DEFINE h == ref[c]
<1>1. /\ phase \in {"none", "free_zero", "gc_free"}
      /\ subtracted = {} /\ todo = {}
      /\ h \in heap
      /\ c \in Fields => Owner[c] \in heap
  BY DEF UnrefBy, Quiet, ByPhase, Passes, TypeOK, NoDangling
<1>2. rc[h] > 0
  BY <1>1, CountPositive DEF Counts
<1>3. rc[h] = 1 <=> \A d \in Cell : ref[d] = h => d = c
  BY <1>1, OnlyReference DEF Counts
<1>4. rc[h] = 1 => h \notin {dying, suspended}
  BY <1>2, LayoutAssumption DEF Released, TypeOK
<1>5. dying # None => c \in Fields /\ h \in Objects
  BY LayoutAssumption DEF UnrefBy, PassiveFields, Children, TypeOK, Quiet
<1>A. phase = "gc_free" => c \in Fields /\ Owner[c] \in Garbage /\ Owner[c] \notin gcList
  BY DEF UnrefBy, Quiet, Children, ByPhase, Lists, Garbage
<1>B. phase = "gc_free" /\ rc[h] = 1 => h \in Garbage
  BY <1>1, <1>3, <1>A, LayoutAssumption DEF Kept, Lists, Garbage
<1>6. /\ ref' = [ref EXCEPT ![c] = None]
      /\ rc' = [rc EXCEPT ![h] = rc[h] - 1]
  BY DEF Unref
<1>7. NoDangling' /\ PassiveFields'
  BY <1>6, LayoutAssumption DEF TypeOK, NoDangling, PassiveFields
<1>8. Counts'
  <2>1. SUFFICES ASSUME NEW g \in heap' PROVE rc'[g] = Cardinality(Refs(g))'
    BY DEF Counts
  <2>2. CASE g = h
    <3>1. c \in Refs(g) /\ Refs(g)' = Refs(g) \ {c}
      BY <1>1, <1>6, <2>2, LayoutAssumption DEF TypeOK, Refs
    <3> QED BY <1>6, <2>2, <3>1, CountStep DEF TypeOK, Counts
  <2>3. CASE g # h
    <3>1. Refs(g)' = Refs(g)
      BY <1>6, <2>3, LayoutAssumption DEF TypeOK, Refs
    <3> QED BY <1>6, <2>3, <3>1, CountStep DEF TypeOK, Counts
  <2> QED BY <2>2, <2>3
<1>9. CASE rc[h] = 1 /\ h \in Passive
  <2>1. dying' = h /\ UNCHANGED <<gcList, zeroList, suspended, phase>>
    BY <1>9, LayoutAssumption DEF Unref
  <2>2. TypeOK'
    BY <1>1, <1>2, <1>6, <1>9, <2>1, LayoutAssumption DEF TypeOK
  <2>3. Lists' /\ ByPhase'
    BY <1>1, <1>B, <1>9, <2>1 DEF TypeOK, Lists, ByPhase, Garbage, Passes
  <2>4. Released'
    BY <1>1, <1>4, <1>6, <1>9, <2>1 DEF TypeOK, Released, Children
  <2>5. Referenced'
    BY <1>5, <1>6, <1>9, <2>1, LayoutAssumption DEF TypeOK, Referenced
  <2>6. TakenOff' /\ Marks'
    BY <1>1, <2>1 DEF TakenOff, Marks, Passes
  <2>7. Kept' /\ Separated'
    BY <1>1, <1>6, <1>A, <2>1, LayoutAssumption DEF TypeOK, Kept, Separated, Garbage
  <2> QED BY <1>7, <1>8, <2>2, <2>3, <2>4, <2>5, <2>6, <2>7
<1>10. CASE rc[h] = 1 /\ h \in Objects /\ phase # "gc_free"
  <2>1. Queue(h)
    BY <1>10, LayoutAssumption DEF Unref
  <2>2. TypeOK'
    BY <1>1, <1>2, <1>6, <1>10, <2>1, LayoutAssumption DEF TypeOK, Queue
  <2>3. Lists' /\ ByPhase'
    BY <1>1, <1>10, <2>1 DEF TypeOK, Lists, ByPhase, Garbage, Passes, Queue
  <2>4. Released'
    BY <1>1, <1>4, <1>6, <1>10, <2>1 DEF TypeOK, Released, Children, Queue, ByPhase
  <2>5. Referenced'
    BY <1>1, <1>6, <1>10, <2>1, LayoutAssumption DEF TypeOK, Referenced, Queue, ByPhase
  <2>6. TakenOff' /\ Marks'
    BY <1>1, <1>10, <2>1 DEF TakenOff, Marks, Passes, Queue
  <2>7. Kept' /\ Separated'
    BY <1>1, <1>6, <1>10, <2>1 DEF TypeOK, Kept, Separated, Garbage, Queue
  <2> QED BY <1>7, <1>8, <2>2, <2>3, <2>4, <2>5, <2>6, <2>7
<1>11. CASE rc[h] # 1 \/ (h \in Objects /\ phase = "gc_free")
  <2>1. UNCHANGED <<gcList, zeroList, dying, suspended, phase>>
    BY <1>11, LayoutAssumption DEF Unref
  <2>2. TypeOK'
    BY <1>1, <1>2, <1>6, <2>1, LayoutAssumption DEF TypeOK
  <2>3. Lists' /\ ByPhase'
    BY <1>1, <1>11, <2>1 DEF TypeOK, Lists, ByPhase, Garbage, Passes
  <2>4. Released'
    BY <1>1, <1>2, <1>4, <1>6, <1>11, <2>1 DEF TypeOK, Released, Children
  <2>5. Referenced'
    <3>1. h \in gcList /\ phase = "gc_free" => \E d \in Cell : ref[d] = h /\ d # c
      BY <1>A, LayoutAssumption DEF Kept
    <3>2. rc[h] # 1 => \E d \in Cell : ref[d] = h /\ d # c
      BY <1>3
    <3> QED BY <1>1, <1>6, <1>11, <2>1, <3>1, <3>2, LayoutAssumption DEF TypeOK, Referenced, Lists
  <2>6. TakenOff' /\ Marks'
    BY <1>1, <2>1 DEF TakenOff, Marks, Passes
  <2>7. Kept' /\ Separated'
    BY <1>1, <1>6, <1>A, <2>1, LayoutAssumption DEF TypeOK, Kept, Separated, Garbage
  <2> QED BY <1>7, <1>8, <2>2, <2>3, <2>4, <2>5, <2>6, <2>7
<1> QED BY <1>1, <1>9, <1>10, <1>11 DEF TypeOK

LEMMA RunGCInv ==
  ASSUME IInv, RunGC
  PROVE  IInv'
<1> USE DEF IInv, vars, graphVars, listVars, passVars, freeVars, Cell, Header
<1>1. TypeOK'
  BY LayoutAssumption DEF RunGC, Quiet, TypeOK, Passes
<1>2. Lists' /\ ByPhase'
  BY LayoutAssumption DEF RunGC, Quiet, TypeOK, Lists, ByPhase, Passes, Garbage
<1>3. NoDangling' /\ PassiveFields'
  BY LayoutAssumption DEF RunGC, Quiet, TypeOK, NoDangling, PassiveFields
<1>4. Counts'
  BY CountsKept DEF RunGC
<1>5. Released' /\ Referenced'
  BY LayoutAssumption DEF RunGC, Quiet, TypeOK, Released, Referenced, Children, ByPhase, Passes
<1>6. TakenOff' /\ Marks'
  BY LayoutAssumption DEF RunGC, Quiet, TypeOK, TakenOff, Marks, Children, ByPhase, Lists, Passes
<1>7. Kept' /\ Separated'
  BY LayoutAssumption DEF RunGC, Quiet, TypeOK, Kept, Separated, Garbage, ByPhase, Lists, Passes
<1> QED BY <1>1, <1>2, <1>3, <1>4, <1>5, <1>6, <1>7

LEMMA FreeObjectInv ==
  ASSUME IInv, NEW h \in Header, FreeObject(h)
  PROVE  IInv'
<1> USE DEF IInv, vars, graphVars, listVars, passVars, freeVars, Cell, Header
<1>1. TypeOK'
  BY LayoutAssumption DEF FreeObject, TypeOK, Passes
<1>2. Lists' /\ ByPhase'
  BY LayoutAssumption DEF FreeObject, TypeOK, Lists, ByPhase, Passes, Garbage
<1>3. NoDangling' /\ PassiveFields'
  BY LayoutAssumption DEF FreeObject, TypeOK, NoDangling, PassiveFields
<1>4. Counts'
  BY CountsKept DEF FreeObject
<1>5. Released' /\ Referenced'
  BY LayoutAssumption DEF FreeObject, TypeOK, Released, Referenced, Children, ByPhase, Passes
<1>6. TakenOff' /\ Marks'
  BY LayoutAssumption DEF FreeObject, TypeOK, TakenOff, Marks, Children, ByPhase, Lists, Passes
<1>7. Kept' /\ Separated'
  BY LayoutAssumption DEF FreeObject, TypeOK, Kept, Separated, Garbage, ByPhase, Lists, Passes
<1> QED BY <1>1, <1>2, <1>3, <1>4, <1>5, <1>6, <1>7

LEMMA FreeObjectDoneInv ==
  ASSUME IInv, FreeObjectDone
  PROVE  IInv'
<1> USE DEF IInv, vars, graphVars, listVars, passVars, freeVars, Cell, Header
<1>1. /\ cur \in Objects \cap (zeroList \cup tmpList)
      /\ subtracted = {} /\ dying = None
  BY LayoutAssumption DEF FreeObjectDone, ByPhase, Passes, TypeOK
<1>2. heap' # heap => \A c \in Cell : ref[c] # cur
  <2>1. heap' # heap => rc[cur] = 0
    BY DEF FreeObjectDone, Zombie, Released, ByPhase
  <2> QED BY <1>1, <2>1, CountPositive DEF Counts, TypeOK
<1>3. TypeOK'
  BY <1>1, LayoutAssumption DEF FreeObjectDone, TypeOK, Lists, Passes
<1>4. Lists' /\ ByPhase'
  BY LayoutAssumption DEF FreeObjectDone, TypeOK, Lists, ByPhase, Passes, Garbage
<1>5. NoDangling' /\ PassiveFields'
  BY <1>1, <1>2, LayoutAssumption DEF FreeObjectDone, TypeOK, NoDangling, PassiveFields, Children
<1>6. Counts'
  BY CountsKept DEF FreeObjectDone
<1>7. Released' /\ Referenced'
  BY LayoutAssumption DEF FreeObjectDone, TypeOK, Released, Referenced, Children, ByPhase, Passes
<1>8. TakenOff' /\ Marks'
  BY LayoutAssumption DEF FreeObjectDone, TypeOK, TakenOff, Marks, Children, ByPhase, Lists, Passes
<1>9. Kept' /\ Separated'
  BY <1>1, <1>2, LayoutAssumption DEF FreeObjectDone, TypeOK, Kept, Separated, Garbage, ByPhase, Lists, Passes, Children
<1> QED BY <1>3, <1>4, <1>5, <1>6, <1>7, <1>8, <1>9

LEMMA FreePassiveDoneInv ==
  ASSUME IInv, FreePassiveDone
  PROVE  IInv'
<1> USE DEF IInv, vars, graphVars, listVars, passVars, freeVars, Cell, Header
<1>1. /\ dying \in Passive /\ dying # suspended /\ subtracted = {}
      /\ cur # None => cur \in Objects
  BY LayoutAssumption DEF FreePassiveDone, ByPhase, Passes, TypeOK, Released
<1>2. \A c \in Cell : ref[c] # dying
  BY <1>1, CountPositive DEF FreePassiveDone, Counts, TypeOK, Released
<1>3. TypeOK'
  BY <1>1, LayoutAssumption DEF FreePassiveDone, TypeOK, Lists, Passes
<1>4. Lists' /\ ByPhase'
  BY LayoutAssumption DEF FreePassiveDone, TypeOK, Lists, ByPhase, Passes, Garbage
<1>5. NoDangling' /\ PassiveFields'
  BY <1>1, <1>2, LayoutAssumption DEF FreePassiveDone, TypeOK, NoDangling, PassiveFields, Children
<1>6. Counts'
  BY CountsKept DEF FreePassiveDone
<1>7. Released' /\ Referenced'
  BY LayoutAssumption DEF FreePassiveDone, TypeOK, Released, Referenced, Children, ByPhase, Passes
<1>8. TakenOff' /\ Marks'
  BY LayoutAssumption DEF FreePassiveDone, TypeOK, TakenOff, Marks, Children, ByPhase, Lists, Passes
<1>9. Kept' /\ Separated'
  BY <1>1, <1>2, LayoutAssumption DEF FreePassiveDone, TypeOK, Kept, Separated, Garbage, ByPhase, Lists, Passes, Children
<1> QED BY <1>3, <1>4, <1>5, <1>6, <1>7, <1>8, <1>9

LEMMA FreeZeroEndInv ==
  ASSUME IInv, FreeZeroEnd
  PROVE  IInv'
<1> USE DEF IInv, vars, graphVars, listVars, passVars, freeVars, Cell, Header
<1>1. TypeOK'
  BY LayoutAssumption DEF FreeZeroEnd, TypeOK, Passes
<1>2. Lists' /\ ByPhase'
  BY LayoutAssumption DEF FreeZeroEnd, TypeOK, Lists, ByPhase, Passes, Garbage
<1>3. NoDangling' /\ PassiveFields'
  BY LayoutAssumption DEF FreeZeroEnd, TypeOK, NoDangling, PassiveFields
<1>4. Counts'
  BY CountsKept DEF FreeZeroEnd
<1>5. Released' /\ Referenced'
  BY LayoutAssumption DEF FreeZeroEnd, TypeOK, Released, Referenced, Children, ByPhase, Passes
<1>6. TakenOff' /\ Marks'
  BY LayoutAssumption DEF FreeZeroEnd, TypeOK, TakenOff, Marks, Children, ByPhase, Lists, Passes
<1>7. Kept' /\ Separated'
  BY LayoutAssumption DEF FreeZeroEnd, TypeOK, Kept, Separated, Garbage, ByPhase, Lists, Passes
<1> QED BY <1>1, <1>2, <1>3, <1>4, <1>5, <1>6, <1>7

LEMMA PassNextInv ==
  ASSUME IInv, NEW h \in Header, PassNext(h)
  PROVE  IInv'
<1> USE DEF IInv, vars, graphVars, listVars, passVars, freeVars, Cell, Header
<1>1. TypeOK'
  BY LayoutAssumption DEF PassNext, PassList, ClearMark, TypeOK, Passes, Children
<1>2. Lists' /\ ByPhase'
  BY LayoutAssumption DEF PassNext, PassList, ClearMark, TypeOK, Lists, ByPhase, Passes, Garbage
<1>3. NoDangling' /\ PassiveFields'
  BY LayoutAssumption DEF PassNext, PassList, ClearMark, TypeOK, NoDangling, PassiveFields
<1>4. Counts'
  BY CountsKept DEF PassNext
<1>5. Released' /\ Referenced'
  BY LayoutAssumption DEF PassNext, PassList, ClearMark, TypeOK, Released, Referenced, Children, ByPhase, Passes
<1>6. TakenOff' /\ Marks'
  BY LayoutAssumption DEF PassNext, PassList, ClearMark, TypeOK, TakenOff, Marks, Children, ByPhase, Lists, Passes
<1>7. Kept' /\ Separated'
  BY LayoutAssumption DEF PassNext, PassList, ClearMark, TypeOK, Kept, Separated, Garbage, ByPhase, Lists, Passes, TakenOff, Children
<1> QED BY <1>1, <1>2, <1>3, <1>4, <1>5, <1>6, <1>7

LEMMA GcDecrefDoneInv ==
  ASSUME IInv, GcDecrefDone
  PROVE  IInv'
<1> USE DEF IInv, vars, graphVars, listVars, passVars, freeVars, Cell, Header
<1>1. TypeOK'
  BY LayoutAssumption DEF GcDecrefDone, SetAside, TypeOK, Passes
<1>2. Lists' /\ ByPhase'
  BY LayoutAssumption DEF GcDecrefDone, SetAside, TypeOK, Lists, ByPhase, Passes, Garbage
<1>3. NoDangling' /\ PassiveFields'
  BY LayoutAssumption DEF GcDecrefDone, SetAside, TypeOK, NoDangling, PassiveFields
<1>4. Counts'
  BY CountsKept DEF GcDecrefDone
<1>5. Released' /\ Referenced'
  BY LayoutAssumption DEF GcDecrefDone, SetAside, TypeOK, Released, Referenced, Children, ByPhase, Passes
<1>6. TakenOff' /\ Marks'
  BY LayoutAssumption DEF GcDecrefDone, SetAside, TypeOK, TakenOff, Marks, Children, ByPhase, Lists, Passes
<1>7. Kept' /\ Separated'
  BY LayoutAssumption DEF GcDecrefDone, SetAside, TypeOK, Kept, Separated, Garbage, ByPhase, Lists, Passes
<1> QED BY <1>1, <1>2, <1>3, <1>4, <1>5, <1>6, <1>7

LEMMA GcScanDoneInv ==
  ASSUME IInv, GcScanDone
  PROVE  IInv'
<1> USE DEF IInv, vars, graphVars, listVars, passVars, freeVars, Cell, Header
<1>1. TypeOK'
  BY LayoutAssumption DEF GcScanDone, TypeOK, Passes
<1>2. Lists' /\ ByPhase'
  BY LayoutAssumption DEF GcScanDone, TypeOK, Lists, ByPhase, Passes, Garbage
<1>3. NoDangling' /\ PassiveFields'
  BY LayoutAssumption DEF GcScanDone, TypeOK, NoDangling, PassiveFields
<1>4. Counts'
  BY CountsKept DEF GcScanDone
<1>5. Released' /\ Referenced'
  BY LayoutAssumption DEF GcScanDone, TypeOK, Released, Referenced, Children, ByPhase, Passes
<1>6. TakenOff' /\ Marks'
  BY LayoutAssumption DEF GcScanDone, TypeOK, TakenOff, Marks, Children, ByPhase, Lists, Passes
<1>7. Kept' /\ Separated'
  BY LayoutAssumption DEF GcScanDone, TypeOK, Kept, Separated, Garbage, ByPhase, Lists, Passes
<1> QED BY <1>1, <1>2, <1>3, <1>4, <1>5, <1>6, <1>7

LEMMA PassEndInv ==
  ASSUME IInv, PassEnd
  PROVE  IInv'
<1> USE DEF IInv, vars, graphVars, listVars, passVars, freeVars, Cell, Header
<1>1. /\ cur = None /\ todo = {} /\ dying = None /\ suspended = None /\ zeroList = {}
      /\ UNCHANGED <<heap, ref, rc, gcList, tmpList, zeroList, marked, todo, subtracted,
                     cur, dying, suspended>>
      /\ visited' = {}
  BY DEF PassEnd, TakenOff, ByPhase, Passes
<1>2. CASE phase = "gc_decref"
  <2>1. phase' = "gc_scan" /\ gcList \subseteq visited /\ heap \subseteq visited
    BY <1>1, <1>2 DEF PassEnd, PassList, NextPhase, Lists, Marks
  <2>2. subtracted = {f \in Fields : ref[f] # None}
    BY <1>1, <1>2, <2>1 DEF TakenOff, NoDangling
  <2>3. \A h \in gcList : rc[h] > 0
    BY <1>1, <1>2, <2>1, LayoutAssumption DEF Marks, TypeOK
  <2>4. \A h \in gcList : \E c \in Locals : ref[c] = h
    BY <2>2, <2>3, CountPositive, LayoutAssumption DEF Counts, TypeOK
  <2>5. TypeOK' /\ Lists' /\ ByPhase'
    BY <1>1, <2>1 DEF TypeOK, Lists, ByPhase, Passes, Garbage
  <2>6. TakenOff' /\ Marks' /\ Released'
    BY <1>1, <1>2, <2>1, <2>2, <2>3 DEF TakenOff, Marks, Released
  <2>7. Kept' /\ Separated'
    BY <1>1, <2>1, <2>4 DEF Kept, Separated
  <2> QED BY <1>1, <1>2, <2>1, <2>5, <2>6, <2>7, CountsKept DEF NoDangling, PassiveFields, Referenced
<1>3. CASE phase = "gc_scan"
  <2>1. phase' = "gc_restore" /\ gcList = visited
    BY <1>1, <1>3 DEF PassEnd, PassList, NextPhase, Marks
  <2>2. subtracted = {f \in Fields : ref[f] # None /\ Owner[f] \in tmpList}
    BY <1>1, <1>3, <2>1 DEF TakenOff, NoDangling, Lists
  <2>3. \A c \in Cell : ref[c] \in tmpList => c \in subtracted
    <3>1. \A c \in Cell \ subtracted : ref[c] \in tmpList => rc[ref[c]] > 0
      BY CountPositive DEF Counts, TypeOK
    <3> QED BY <1>3, <3>1 DEF Marks, TypeOK
  <2>4. TypeOK' /\ Lists' /\ ByPhase'
    BY <1>1, <2>1 DEF TypeOK, Lists, ByPhase, Passes, Garbage
  <2>5. TakenOff' /\ Marks' /\ Released'
    BY <1>1, <1>3, <2>1, <2>2 DEF TakenOff, Marks, Released
  <2>6. Kept' /\ Separated'
    BY <1>1, <1>3, <2>1, <2>2, <2>3 DEF Kept, Separated, Garbage
  <2> QED BY <1>1, <1>3, <2>1, <2>4, <2>5, <2>6, CountsKept DEF NoDangling, PassiveFields, Referenced
<1>4. CASE phase = "gc_restore"
  <2>1. phase' = "gc_free" /\ tmpList \subseteq visited
    BY <1>1, <1>4 DEF PassEnd, PassList, NextPhase
  <2>2. subtracted = {}
    BY <1>1, <1>4, <2>1 DEF TakenOff
  <2>3. TypeOK' /\ Lists' /\ ByPhase'
    BY <1>1, <2>1, <2>2 DEF TypeOK, Lists, ByPhase, Passes, Garbage
  <2>4. TakenOff' /\ Marks' /\ Released'
    BY <1>1, <1>4, <2>1, <2>2 DEF TakenOff, Marks, Released
  <2>5. Kept' /\ Separated'
    BY <1>1, <1>4, <2>1 DEF Kept, Separated, Garbage
  <2> QED BY <1>1, <2>1, <2>3, <2>4, <2>5, CountsKept DEF NoDangling, PassiveFields, Referenced
<1> QED BY <1>2, <1>3, <1>4 DEF PassEnd, Passes

LEMMA GcSkipPassiveInv ==
  ASSUME IInv, NEW h \in Header, GcSkipPassive(h)
  PROVE  IInv'
<1> USE DEF IInv, vars, graphVars, listVars, passVars, freeVars, Cell, Header
<1>1. TypeOK'
  BY LayoutAssumption DEF GcSkipPassive, TypeOK, Passes
<1>2. Lists' /\ ByPhase'
  BY LayoutAssumption DEF GcSkipPassive, TypeOK, Lists, ByPhase, Passes, Garbage
<1>3. NoDangling' /\ PassiveFields'
  BY LayoutAssumption DEF GcSkipPassive, TypeOK, NoDangling, PassiveFields
<1>4. Counts'
  BY CountsKept DEF GcSkipPassive
<1>5. Released' /\ Referenced'
  BY LayoutAssumption DEF GcSkipPassive, TypeOK, Released, Referenced, Children, ByPhase, Passes
<1>6. TakenOff' /\ Marks'
  BY LayoutAssumption DEF GcSkipPassive, TypeOK, TakenOff, Marks, Children, ByPhase, Lists, Passes
<1>7. Kept' /\ Separated'
  BY LayoutAssumption DEF GcSkipPassive, TypeOK, Kept, Separated, Garbage, ByPhase, Lists, Passes
<1> QED BY <1>1, <1>2, <1>3, <1>4, <1>5, <1>6, <1>7

LEMMA GcFreeEndInv ==
  ASSUME IInv, GcFreeEnd
  PROVE  IInv'
<1> USE DEF IInv, vars, graphVars, listVars, passVars, freeVars, Cell, Header
<1>1. /\ cur = None /\ dying = None /\ suspended = None /\ subtracted = {}
      /\ phase = "gc_free" /\ tmpList = {}
  BY DEF GcFreeEnd, ByPhase, Passes
<1>2. \A c \in Cell : ref[c] \in zeroList => c \in Fields /\ Owner[c] \in zeroList \cap Passive
  BY <1>1, LayoutAssumption DEF Separated, Garbage, Released, Children, TypeOK
<1>3. zeroList \subseteq Objects
  <2>1. \A h \in zeroList \cap Passive : \E c \in Cell : ref[c] = h
    BY <1>1, LayoutAssumption DEF Referenced, TypeOK
  <2> QED BY <1>2, <2>1, LayoutAssumption DEF PassiveFields, TypeOK
<1>4. \A c \in Cell : ref[c] # None => ref[c] \notin zeroList /\ (c \in Fields => Owner[c] \notin zeroList)
  BY <1>1, <1>2, <1>3, LayoutAssumption DEF Released, Children
<1>5. TypeOK'
  BY <1>1, LayoutAssumption DEF GcFreeEnd, TypeOK, Lists, Passes
<1>6. Lists' /\ ByPhase'
  BY LayoutAssumption DEF GcFreeEnd, TypeOK, Lists, ByPhase, Passes, Garbage
<1>7. NoDangling' /\ PassiveFields'
  BY <1>1, <1>4, LayoutAssumption DEF GcFreeEnd, TypeOK, NoDangling, PassiveFields
<1>8. Counts'
  BY CountsKept DEF GcFreeEnd
<1>9. Released' /\ Referenced'
  BY LayoutAssumption DEF GcFreeEnd, TypeOK, Released, Referenced, Children, ByPhase, Passes
<1>10. TakenOff' /\ Marks'
  BY LayoutAssumption DEF GcFreeEnd, TypeOK, TakenOff, Marks, Children, ByPhase, Lists, Passes
<1>11. Kept' /\ Separated'
  BY LayoutAssumption DEF GcFreeEnd, TypeOK, Kept, Separated, Garbage, ByPhase, Lists, Passes
<1> QED BY <1>5, <1>6, <1>7, <1>8, <1>9, <1>10, <1>11

LEMMA GcDecrefChildInv ==
  ASSUME IInv, NEW f \in Fields, GcDecrefChild(f)
  PROVE  IInv'
<1> USE DEF IInv, vars, graphVars, listVars, passVars, freeVars, Cell, Header
<1> DEFINE h == ref[f]
<1>1. /\ f \notin subtracted
      /\ cur # None /\ Owner[f] = cur /\ h \in heap /\ h # None
      /\ dying = None /\ suspended = None /\ zeroList = {}
  BY DEF GcDecrefChild, TakenOff, Children, ByPhase, Passes, NoDangling
<1>2. Counts'
  <2>1. SUFFICES ASSUME NEW g \in heap' PROVE rc'[g] = Cardinality(Refs(g))'
    BY DEF Counts
  <2>2. CASE g = h
    <3>1. f \in Refs(g) /\ Refs(g)' = Refs(g) \ {f}
      BY <1>1, <2>2, LayoutAssumption DEF GcDecrefChild, LastCountedOff, SetAside, TypeOK, Refs
    <3> QED BY <1>1, <2>2, <3>1, CountStep DEF GcDecrefChild, LastCountedOff, SetAside, TypeOK, Counts
  <2>3. CASE g # h
    <3>1. Refs(g)' = Refs(g)
      BY <1>1, <2>3, LayoutAssumption DEF GcDecrefChild, LastCountedOff, SetAside, TypeOK, Refs
    <3> QED BY <2>3, <3>1, CountStep DEF GcDecrefChild, LastCountedOff, SetAside, TypeOK, Counts
  <2> QED BY <2>2, <2>3
<1>3. rc[h] > 0 \/ f \in subtracted
  BY <1>1, CountPositive DEF Counts
<1>4. TypeOK'
  BY <1>1, <1>3, LayoutAssumption DEF GcDecrefChild, LastCountedOff, SetAside, TypeOK, Passes
<1>5. Lists' /\ ByPhase'
  BY <1>1, LayoutAssumption DEF GcDecrefChild, LastCountedOff, SetAside, TypeOK, Lists, ByPhase, Passes, Garbage
<1>6. NoDangling' /\ PassiveFields'
  BY LayoutAssumption DEF GcDecrefChild, LastCountedOff, SetAside, TypeOK, NoDangling, PassiveFields
<1>7. Released' /\ Referenced'
  BY <1>1, LayoutAssumption DEF GcDecrefChild, LastCountedOff, SetAside, TypeOK, Released, Referenced
<1>8. TakenOff'
  BY <1>1, LayoutAssumption DEF GcDecrefChild, LastCountedOff, SetAside, TypeOK, TakenOff, Children, ByPhase, Passes
<1>9. Marks'
  BY <1>1, <1>3, LayoutAssumption DEF GcDecrefChild, LastCountedOff, SetAside, TypeOK, Marks, TakenOff, ByPhase, Lists, Passes
<1>10. Kept' /\ Separated'
  BY <1>1, LayoutAssumption DEF GcDecrefChild, LastCountedOff, SetAside, TypeOK, Kept, Separated, Garbage, ByPhase, Lists, Passes, Marks
<1> QED BY <1>2, <1>4, <1>5, <1>6, <1>7, <1>8, <1>9, <1>10

LEMMA GcScanChildInv ==
  ASSUME IInv, NEW f \in Fields, GcScanChild(f)
  PROVE  IInv'
<1> USE DEF IInv, vars, graphVars, listVars, passVars, freeVars, Cell, Header
<1> DEFINE h == ref[f]
<1>1. /\ f \in subtracted
      /\ cur # None /\ Owner[f] = cur /\ h \in heap /\ h # None
      /\ dying = None /\ suspended = None /\ zeroList = {}
  BY DEF GcScanChild, TakenOff, Children, ByPhase, Passes, NoDangling
<1>2. Counts'
  <2>1. SUFFICES ASSUME NEW g \in heap' PROVE rc'[g] = Cardinality(Refs(g))'
    BY DEF Counts
  <2>2. CASE g = h
    <3>1. f \notin Refs(g) /\ Refs(g)' = Refs(g) \cup {f}
      BY <1>1, <2>2, LayoutAssumption DEF GcScanChild, Rescue, TypeOK, Refs
    <3> QED BY <1>1, <2>2, <3>1, CountStep DEF GcScanChild, Rescue, TypeOK, Counts
  <2>3. CASE g # h
    <3>1. Refs(g)' = Refs(g)
      BY <1>1, <2>3, LayoutAssumption DEF GcScanChild, Rescue, TypeOK, Refs
    <3> QED BY <2>3, <3>1, CountStep DEF GcScanChild, Rescue, TypeOK, Counts
  <2> QED BY <2>2, <2>3
<1>3. rc[h] > 0 \/ f \in subtracted
  BY <1>1, CountPositive DEF Counts
<1>4. TypeOK'
  BY <1>1, <1>3, LayoutAssumption DEF GcScanChild, Rescue, TypeOK, Passes
<1>5. Lists' /\ ByPhase'
  BY <1>1, LayoutAssumption DEF GcScanChild, Rescue, TypeOK, Lists, ByPhase, Passes, Garbage
<1>6. NoDangling' /\ PassiveFields'
  BY LayoutAssumption DEF GcScanChild, Rescue, TypeOK, NoDangling, PassiveFields
<1>7. Released' /\ Referenced'
  BY <1>1, LayoutAssumption DEF GcScanChild, Rescue, TypeOK, Released, Referenced
<1>8. TakenOff'
  BY <1>1, LayoutAssumption DEF GcScanChild, Rescue, TypeOK, TakenOff, Children, ByPhase, Passes
<1>9. Marks'
  BY <1>1, <1>3, LayoutAssumption DEF GcScanChild, Rescue, TypeOK, Marks, TakenOff, ByPhase, Lists, Passes
<1>10. Kept' /\ Separated'
  BY <1>1, LayoutAssumption DEF GcScanChild, Rescue, TypeOK, Kept, Separated, Garbage, ByPhase, Lists, Passes, Marks
<1> QED BY <1>2, <1>4, <1>5, <1>6, <1>7, <1>8, <1>9, <1>10

LEMMA GcRestoreChildInv ==
  ASSUME IInv, NEW f \in Fields, GcRestoreChild(f)
  PROVE  IInv'
<1> USE DEF IInv, vars, graphVars, listVars, passVars, freeVars, Cell, Header
<1> DEFINE h == ref[f]
<1>1. /\ f \in subtracted
      /\ cur # None /\ Owner[f] = cur /\ h \in heap /\ h # None
      /\ dying = None /\ suspended = None /\ zeroList = {}
  BY DEF GcRestoreChild, TakenOff, Children, ByPhase, Passes, NoDangling
<1>2. Counts'
  <2>1. SUFFICES ASSUME NEW g \in heap' PROVE rc'[g] = Cardinality(Refs(g))'
    BY DEF Counts
  <2>2. CASE g = h
    <3>1. f \notin Refs(g) /\ Refs(g)' = Refs(g) \cup {f}
      BY <1>1, <2>2, LayoutAssumption DEF GcRestoreChild, TypeOK, Refs
    <3> QED BY <1>1, <2>2, <3>1, CountStep DEF GcRestoreChild, TypeOK, Counts
  <2>3. CASE g # h
    <3>1. Refs(g)' = Refs(g)
      BY <1>1, <2>3, LayoutAssumption DEF GcRestoreChild, TypeOK, Refs
    <3> QED BY <2>3, <3>1, CountStep DEF GcRestoreChild, TypeOK, Counts
  <2> QED BY <2>2, <2>3
<1>3. rc[h] > 0 \/ f \in subtracted
  BY <1>1, CountPositive DEF Counts
<1>4. TypeOK'
  BY <1>1, <1>3, LayoutAssumption DEF GcRestoreChild, TypeOK, Passes
<1>5. Lists' /\ ByPhase'
  BY <1>1, LayoutAssumption DEF GcRestoreChild, TypeOK, Lists, ByPhase, Passes, Garbage
<1>6. NoDangling' /\ PassiveFields'
  BY LayoutAssumption DEF GcRestoreChild, TypeOK, NoDangling, PassiveFields
<1>7. Released' /\ Referenced'
  BY <1>1, LayoutAssumption DEF GcRestoreChild, TypeOK, Released, Referenced
<1>8. TakenOff'
  BY <1>1, LayoutAssumption DEF GcRestoreChild, TypeOK, TakenOff, Children, ByPhase, Passes
<1>9. Marks'
  BY <1>1, <1>3, LayoutAssumption DEF GcRestoreChild, TypeOK, Marks, TakenOff, ByPhase, Lists, Passes
<1>10. Kept' /\ Separated'
  BY <1>1, LayoutAssumption DEF GcRestoreChild, TypeOK, Kept, Separated, Garbage, ByPhase, Lists, Passes, Marks
<1> QED BY <1>2, <1>4, <1>5, <1>6, <1>7, <1>8, <1>9, <1>10

-----------------------------------------------------------------------------
(* The theorems.                                                            *)

LEMMA InitInv == Init => IInv
<1>1. SUFFICES ASSUME Init PROVE IInv
  OBVIOUS
<1>2. TypeOK /\ Lists /\ ByPhase /\ NoDangling /\ Counts
  BY <1>1 DEF Init, TypeOK, Lists, ByPhase, NoDangling, Counts, Passes
<1>3. Released /\ PassiveFields /\ Referenced /\ TakenOff /\ Marks /\ Kept
  BY <1>1 DEF Init, Released, PassiveFields, Referenced, TakenOff, Marks, Kept, Cell
<1>4. Separated
  BY <1>1, LayoutAssumption DEF Init, Separated
<1> QED BY <1>2, <1>3, <1>4 DEF IInv

LEMMA NextInv == IInv /\ [Next]_vars => IInv'
<1> SUFFICES ASSUME IInv, [Next]_vars PROVE IInv'
  OBVIOUS
<1>1. CASE Mutator
  <2>1. ASSUME NEW l \in Locals, Drop(l) PROVE IInv'
    BY <2>1, UnrefInv DEF Drop, UnrefBy, Cell
  <2> QED BY <1>1, <2>1, NewInv, DupInv, StoreInv, RunGCInv DEF Mutator
<1>2. CASE Manager
  <2>1. ASSUME NEW f \in Fields, FreeObjectField(f) PROVE IInv'
    BY <2>1, UnrefInv DEF FreeObjectField, UnrefBy, Cell, Children
  <2>2. ASSUME NEW f \in Fields, FreePassiveField(f) PROVE IInv'
    BY <2>2, UnrefInv DEF FreePassiveField, UnrefBy, Cell, Children
  <2> QED BY <1>2, <2>1, <2>2, FreeObjectInv, FreeObjectDoneInv, FreePassiveDoneInv,
             FreeZeroEndInv, PassNextInv, GcDecrefChildInv, GcDecrefDoneInv, GcScanChildInv,
             GcRestoreChildInv, GcScanDoneInv, PassEndInv, GcSkipPassiveInv, GcFreeEndInv
          DEF Manager
<1>3. CASE UNCHANGED vars
  BY <1>3 DEF vars, graphVars, listVars, passVars, freeVars, IInv, TypeOK, Lists, ByPhase,
              NoDangling, Counts, Refs, Released, PassiveFields, Referenced, TakenOff, Marks,
              Kept, Separated, Garbage, Children
<1> QED BY <1>1, <1>2, <1>3 DEF Next

(* The invariant holds in every state of every instance. *)
THEOREM Invariance == Spec => []IInv
BY InitInv, NextInv, PTL DEF Spec

(* Every variable of the memory manager keeps to its range. *)
THEOREM TypeCorrect == Spec => []TypeOK
<1>1. IInv => TypeOK
  BY DEF IInv
<1> QED BY <1>1, Invariance, PTL

(* ref_count is exact: no count is ever too low, which would free a header  *)
(* in use, or too high, which would leak it.                                *)
THEOREM CountsExact == Spec => []RcExact
<1>1. IInv => RcExact
  BY DEF IInv, Counts, Refs, ByPhase, Passes, Quiet, RcExact
<1> QED BY <1>1, Invariance, PTL

(* Freed memory is never referred to and never refers to anything. *)
THEOREM NoUseAfterFree == Spec => []NoDangling
<1>1. IInv => NoDangling
  BY DEF IInv
<1> QED BY <1>1, Invariance, PTL

(* The assertions of the memory manager hold, the last one, that only       *)
(* headers the collector frees itself are left at the end, included.        *)
THEOREM AssertionsNeverFail == Spec => []AssertsHold
<1>1. ASSUME IInv PROVE AssertsHold
  <2>1. phase = "gc_decref" => \A f \in todo : rc[ref[f]] > 0
    BY <1>1, CountPositive
    DEF IInv, TakenOff, Children, NoDangling, Counts, Cell
  <2>2. phase = "gc_free" /\ cur = None /\ dying = None /\ tmpList = {} => zeroList \subseteq Objects
    <3>1. SUFFICES ASSUME phase = "gc_free", dying = None, tmpList = {}
                   PROVE  zeroList \cap Passive = {}
      BY <1>1 DEF IInv, TypeOK, Header
    <3>2. suspended = None
      BY <1>1, <3>1 DEF IInv, ByPhase
    <3>3. \A h \in zeroList \cap Passive : \E c \in Cell : ref[c] = h
      BY <1>1, <3>1, <3>2, LayoutAssumption DEF IInv, Referenced, TypeOK, Header
    <3>4. \A c \in Cell : ref[c] \in zeroList => c \in Fields /\ Owner[c] \in zeroList \cap Passive
      BY <1>1, <3>1, LayoutAssumption
      DEF IInv, Separated, Garbage, Released, Children, TypeOK, Header
    <3> QED BY <1>1, <3>3, <3>4, LayoutAssumption DEF IInv, PassiveFields
  <2> QED BY <1>1, <2>1, <2>2 DEF IInv, AssertsHold, Marks, Released
<1> QED BY <1>1, Invariance, PTL

(* Between calls every header has a referent: what reference counting can   *)
(* free is freed at once.                                                   *)
THEOREM FreedAtOnce == Spec => []PromptFree
<1>1. ASSUME IInv, Quiet PROVE heap = gcList /\ tmpList = {} /\ zeroList = {}
  BY <1>1 DEF IInv, Quiet, Lists, ByPhase, Passes
<1>2. ASSUME IInv, Quiet, NEW h \in heap PROVE rc[h] > 0
  <2>1. subtracted = {} /\ suspended = None /\ h # None
    BY <1>2, LayoutAssumption DEF IInv, Quiet, ByPhase, Passes, TypeOK
  <2>2. \E c \in Cell : ref[c] = h
    BY <1>1, <1>2, <2>1 DEF IInv, Quiet, Referenced
  <2> QED BY <1>2, <2>1, <2>2, CountPositive DEF IInv, Counts
<1>3. IInv => PromptFree
  BY <1>1, <1>2 DEF PromptFree
<1> QED BY <1>3, Invariance, PTL

(* Counts are exact, nothing dangles and memory is freed at once.           *)
THEOREM HeapIsExact == Spec => []HeapExact
BY TypeCorrect, CountsExact, NoUseAfterFree, FreedAtOnce, PTL DEF HeapExact

-----------------------------------------------------------------------------
(* What is kept and what is collected: the cycle removal pass is complete,  *)
(* and the memory manager implements AbstractHeap.                          *)

Assignment == [Cell -> Header \cup {None}]

-----------------------------------------------------------------------------
(* Facts about reachability.                                                *)

(* What is reachable is closed, and the least closed set. *)
LEMMA ReachableClosed ==
  ASSUME NEW r \in Assignment
  PROVE  /\ Reachable(r) \subseteq Header
         /\ Closed(r, Reachable(r))
BY DEF Reachable, Closed, Assignment, Cell

(* Nothing refers to the header: it is not reachable. *)
LEMMA UnreferencedUnreachable ==
  ASSUME NEW r \in Assignment, NEW h, \A c \in Cell : r[c] # h
  PROVE  h \notin Reachable(r)
<1>1. Closed(r, Header \ {h})
  BY DEF Closed, Assignment
<1> QED BY <1>1 DEF Reachable

(* A change in unreachable headers does not change what is reachable. *)
LEMMA ReachableKept ==
  ASSUME NEW r \in Assignment, NEW q \in Assignment,
         \A c \in Cell : q[c] # r[c] => /\ c \in Fields /\ Owner[c] \notin Reachable(r)
                                        /\ q[c] = None
  PROVE  Reachable(q) = Reachable(r) /\ Trim(q) = Trim(r)
<1>1. Closed(q, Reachable(r))
  BY ReachableClosed, LayoutAssumption DEF Closed
<1>2. ASSUME NEW S \in SUBSET Header, Closed(q, S) PROVE Closed(r, S \cap Reachable(r))
  BY <1>2, ReachableClosed, LayoutAssumption DEF Closed, Cell
<1>3. Reachable(q) = Reachable(r)
  BY <1>1, <1>2, ReachableClosed DEF Reachable
<1> QED BY <1>3, LayoutAssumption DEF Trim, Cell

-----------------------------------------------------------------------------
(* Completeness: what gc_scan keeps is reachable.                           *)

KeptReachable ==
  phase \in {"gc_scan", "gc_restore", "gc_free"} => gcList \subseteq Reachable(ref)

(* Garbage is out of reach from the end of gc_scan on. *)
LEMMA GarbageUnreachable ==
  ASSUME IInv, phase \in {"gc_restore", "gc_free"}
  PROVE  Reachable(ref) \cap Garbage = {}
<1>1. Closed(ref, Header \ Garbage)
  BY LayoutAssumption DEF IInv, Separated, Closed, TypeOK, Cell
<1> QED BY <1>1 DEF Reachable

(* What is being released is out of reach. *)
LEMMA ReleasedUnreachable ==
  ASSUME IInv
  PROVE  /\ dying # None => dying \notin Reachable(ref)
         /\ phase \in {"free_zero", "gc_free"} /\ cur # None => cur \notin Reachable(ref)
<1>1. ref \in Assignment
  BY DEF IInv, TypeOK, Assignment
<1>2. ASSUME NEW h \in heap, rc[h] = 0, subtracted = {} PROVE h \notin Reachable(ref)
  <2>1. \A c \in Cell : ref[c] # h
    BY <1>2, CountPositive DEF IInv, Counts
  <2> QED BY <1>1, <2>1, UnreferencedUnreachable
<1>3. dying # None => dying \notin Reachable(ref)
  BY <1>2, LayoutAssumption DEF IInv, Released, ByPhase, TypeOK, Passes
<1>4. phase = "free_zero" /\ cur # None => cur \notin Reachable(ref)
  BY <1>2 DEF IInv, Released, ByPhase, TypeOK, Passes
<1>5. phase = "gc_free" /\ cur # None => cur \notin Reachable(ref)
  BY GarbageUnreachable DEF IInv, ByPhase, Garbage
<1> QED BY <1>3, <1>4, <1>5

(* No step of the memory manager changes what is reachable. *)
LEMMA ManagerInvisible ==
  ASSUME IInv, IInv', Manager
  PROVE  Reachable(ref') = Reachable(ref) /\ Trim(ref') = Trim(ref)
<1>1. ref \in Assignment /\ ref' \in Assignment
  BY DEF IInv, TypeOK, Assignment
<1>2. CASE ref' = ref
  BY <1>2
<1>3. CASE \E f \in Fields : FreeObjectField(f) \/ FreePassiveField(f)
  <2>1. PICK f \in Fields : FreeObjectField(f) \/ FreePassiveField(f)
    BY <1>3
  <2>2. Owner[f] \notin Reachable(ref)
    BY <2>1, ReleasedUnreachable DEF FreeObjectField, FreePassiveField, Children
  <2>3. ref' = [ref EXCEPT ![f] = None]
    BY <2>1 DEF FreeObjectField, FreePassiveField, Unref
  <2> QED BY <1>1, <2>2, <2>3, ReachableKept DEF Assignment, Cell
<1>4. ref' = ref \/ \E f \in Fields : FreeObjectField(f) \/ FreePassiveField(f)
  BY DEF Manager, FreeObject, PassNext, GcSkipPassive, GcDecrefChild, GcScanChild, GcRestoreChild,
         FreeObjectDone, FreePassiveDone, FreeZeroEnd, GcDecrefDone, GcScanDone, PassEnd,
         GcFreeEnd, graphVars
<1> QED BY <1>2, <1>3, <1>4

LEMMA KeptReachableInv ==
  ASSUME IInv, IInv', KeptReachable, [Next]_vars
  PROVE  KeptReachable'
<1>0. ref \in Assignment
  BY DEF IInv, TypeOK, Assignment
<1>1. CASE UNCHANGED vars
  BY <1>1 DEF KeptReachable, vars, graphVars, listVars, Reachable, Closed
<1>2. CASE Mutator
  <2>1. phase' \in {"none", "free_zero", "gc_decref"}
    BY <1>2, LayoutAssumption DEF Mutator, New, Dup, Store, Drop, RunGC, Quiet, Unref, Queue
  <2> QED BY <2>1 DEF KeptReachable
<1>3. CASE Manager /\ gcList' \subseteq gcList /\ phase' = phase
  BY <1>3, ManagerInvisible DEF KeptReachable
<1>4. CASE \E f \in Fields : GcScanChild(f)
  <2>1. PICK f \in Fields : GcScanChild(f)
    BY <1>4
  <2>2. Owner[f] \in gcList /\ ref[f] # None
    BY <2>1 DEF IInv, TakenOff, Children, GcScanChild, Marks, ByPhase, Passes
  <2>3. Owner[f] \in Reachable(ref)
    BY <2>1, <2>2 DEF KeptReachable, GcScanChild
  <2>4. ref[f] \in Reachable(ref)
    BY <1>0, <2>2, <2>3, ReachableClosed DEF Closed, Cell
  <2>5. ref' = ref /\ phase' = phase /\ gcList' \subseteq gcList \cup {ref[f]}
    BY <2>1 DEF GcScanChild, Rescue, freeVars
  <2> QED BY <2>1, <2>4, <2>5 DEF KeptReachable, GcScanChild
<1>5. CASE PassEnd
  <2>1. CASE phase = "gc_decref"
    <3>1. /\ phase' = "gc_scan" /\ visited' = {}
          /\ UNCHANGED <<heap, ref, rc, gcList, todo, subtracted>>
      BY <1>5, <2>1 DEF PassEnd, NextPhase, graphVars, listVars
    <3>2. \A f \in Fields : ref[f] # None => f \in subtracted
      BY <3>1 DEF IInv, TakenOff
    <3>3. \A h \in gcList : \E c \in Cell \ subtracted : ref[c] = h
      BY <3>1, CountPositive DEF IInv, Marks, Counts, TypeOK
    <3>4. \A h \in gcList : \E c \in Locals : ref[c] = h /\ h # None
      BY <3>2, <3>3, LayoutAssumption DEF IInv, TypeOK, Cell
    <3>5. gcList \subseteq Reachable(ref)
      BY <1>0, <3>4, ReachableClosed DEF Closed, Cell
    <3> QED BY <3>1, <3>5 DEF KeptReachable, Reachable, Closed
  <2>2. CASE phase # "gc_decref"
    BY <1>5, <2>2 DEF PassEnd, Passes, NextPhase, KeptReachable, graphVars, listVars
  <2> QED BY <2>1, <2>2
<1>6. CASE FreeZeroEnd \/ GcFreeEnd
  BY <1>6 DEF FreeZeroEnd, GcFreeEnd, KeptReachable
<1>7. Manager => \/ gcList' \subseteq gcList /\ phase' = phase
                 \/ \E f \in Fields : GcScanChild(f)
                 \/ PassEnd \/ FreeZeroEnd \/ GcFreeEnd
                 \/ phase' = "free_zero"
  <2>1. ASSUME NEW f \in Fields, FreeObjectField(f) \/ FreePassiveField(f)
        PROVE  (gcList' \subseteq gcList /\ phase' = phase) \/ phase' = "free_zero"
    BY <2>1 DEF FreeObjectField, FreePassiveField, Unref, Queue
  <2> QED BY <2>1
      DEF Manager, FreeObject, PassNext, GcSkipPassive, GcDecrefChild, GcRestoreChild,
          FreeObjectDone, FreePassiveDone, GcDecrefDone, GcScanDone, SetAside, listVars
<1>8. CASE phase' = "free_zero"
  BY <1>8 DEF KeptReachable
<1> QED BY <1>1, <1>2, <1>3, <1>4, <1>5, <1>6, <1>7, <1>8 DEF Next

(* The cycle removal pass leaves nothing the program cannot reach: no cycle *)
(* of garbage, of any shape or size, survives it.                           *)
THEOREM CollectsAll == Spec => GcCollectsAll
<1>1. Init => KeptReachable
  BY DEF Init, KeptReachable
<1>2. ASSUME IInv, IInv', KeptReachable, GcFreeEnd PROVE heap' \subseteq Reachable(ref)'
  <2>1. heap' = gcList /\ ref' = ref /\ phase = "gc_free"
    BY <1>2 DEF GcFreeEnd, IInv, Lists, ByPhase, Passes
  <2> QED BY <1>2, <2>1 DEF KeptReachable, Reachable, Closed
<1>3. [](IInv /\ KeptReachable) /\ [][Next]_vars
      => [][GcFreeEnd => heap' \subseteq Reachable(ref)']_vars
  BY <1>2, PTL
<1>4. Spec => [](IInv /\ KeptReachable)
  BY <1>1, InitInv, NextInv, KeptReachableInv, PTL DEF Spec
<1> QED BY <1>3, <1>4, PTL DEF Spec, GcCollectsAll

-----------------------------------------------------------------------------
(* CycleGC implements AbstractHeap.                                         *)

LEMMA HeapDefs ==
  ASSUME NEW r PROVE Heap!Reachable(r) = Reachable(r) /\ Heap!Trim(r) = Trim(r)
BY DEF Heap!Reachable, Heap!Closed, Heap!Cell, Heap!Header, Heap!Trim,
       Reachable, Closed, Cell, Header, Trim

LEMMA TrimValues ==
  ASSUME NEW r \in Assignment
  PROVE  /\ \A c \in Locals : Trim(r)[c] = r[c]
         /\ \A c \in Fields : Owner[c] \in Reachable(r) => Trim(r)[c] = r[c]
         /\ \A c \in Fields : Owner[c] \notin Reachable(r) => Trim(r)[c] = None
BY LayoutAssumption DEF Trim, Cell

(* The view of the program is its own view. *)
LEMMA TrimIdempotent ==
  ASSUME NEW r \in Assignment
  PROVE  /\ Trim(r) \in Assignment
         /\ Reachable(Trim(r)) = Reachable(r)
         /\ Trim(Trim(r)) = Trim(r)
<1>1. Trim(r) \in Assignment
  BY DEF Trim, Assignment
<1>2. \A c \in Cell : Trim(r)[c] # r[c] => /\ c \in Fields /\ Owner[c] \notin Reachable(r)
                                           /\ Trim(r)[c] = None
  BY LayoutAssumption DEF Trim, Cell
<1> QED BY <1>1, <1>2, ReachableKept

LEMMA NewRefines ==
  ASSUME IInv, NEW l \in Locals, NEW h \in Header, New(l, h)
  PROVE  Heap!New(l, h)
<1>1. /\ ref \in Assignment /\ ref' \in Assignment
      /\ ref' = [ref EXCEPT ![l] = h] /\ ref[l] = None
      /\ \A c \in Cell : ref[c] # h /\ (c \in Fields /\ Owner[c] = h => ref[c] = None)
  BY LayoutAssumption DEF New, IInv, TypeOK, Assignment, NoDangling, Cell, Header
<1>2. h \notin Reachable(ref)
  BY <1>1, UnreferencedUnreachable
<1>3. Closed(ref', Reachable(ref) \cup {h})
  BY <1>1, ReachableClosed, LayoutAssumption DEF Closed, Cell, Assignment
<1>4. Reachable(ref') \subseteq Reachable(ref) \cup {h}
  BY <1>1, <1>3, ReachableClosed DEF Reachable
<1>5. \A S \in SUBSET Header : Closed(ref', S) => Closed(ref, S)
  BY <1>1, LayoutAssumption DEF Closed, Cell, Assignment
<1>6. Reachable(ref) \subseteq Reachable(ref')
  BY <1>5 DEF Reachable
<1>7. Trim(ref)' = [Trim(ref) EXCEPT ![l] = h]
  BY <1>1, <1>2, <1>4, <1>6, LayoutAssumption DEF Trim, Cell, Assignment
<1> QED BY <1>1, <1>2, <1>7, HeapDefs, TrimValues, TrimIdempotent DEF Heap!New

LEMMA DupRefines ==
  ASSUME IInv, NEW l \in Locals, NEW c \in Cell, Dup(l, c)
  PROVE  Heap!Dup(l, c)
<1>1. /\ ref \in Assignment /\ ref' \in Assignment
      /\ ref' = [ref EXCEPT ![l] = ref[c]] /\ ref[l] = None /\ ref[c] # None
  BY DEF Dup, IInv, TypeOK, Assignment, Cell
<1>2. c \in Fields => Owner[c] \in Reachable(ref)
  BY <1>1, ReachableClosed, LayoutAssumption DEF Dup, HeldBy, Closed, Cell
<1>3. ref[c] \in Reachable(ref) /\ Trim(ref)[c] = ref[c]
  BY <1>1, <1>2, ReachableClosed, TrimValues DEF Closed, Cell
<1>4. Closed(ref', Reachable(ref))
  BY <1>1, <1>3, ReachableClosed, LayoutAssumption DEF Closed, Cell, Assignment
<1>5. \A S \in SUBSET Header : Closed(ref', S) => Closed(ref, S)
  BY <1>1, LayoutAssumption DEF Closed, Cell, Assignment
<1>6. Reachable(ref') = Reachable(ref)
  BY <1>4, <1>5, ReachableClosed, <1>1 DEF Reachable
<1>7. Trim(ref)' = [Trim(ref) EXCEPT ![l] = Trim(ref)[c]]
  BY <1>1, <1>3, <1>6, LayoutAssumption DEF Trim, Cell, Assignment
<1>8. c \in Fields => \E k \in Locals : Trim(ref)[k] = Owner[c]
  BY <1>1, TrimValues DEF Dup, HeldBy
<1> QED BY <1>1, <1>7, <1>8, TrimValues DEF Heap!Dup, Heap!HeldBy

LEMMA StoreRefines ==
  ASSUME IInv, NEW l \in Locals, NEW f \in Fields, Store(l, f)
  PROVE  Heap!Store(l, f)
<1>1. /\ ref \in Assignment /\ ref' \in Assignment
      /\ ref' = [ref EXCEPT ![f] = ref[l], ![l] = ref[f]] /\ l # f
  BY LayoutAssumption DEF Store, IInv, TypeOK, Assignment, Cell
<1>2. PICK k \in Locals \ {l} : ref[k] = Owner[f]
  BY DEF Store, HeldBy
<1>3. ref'[k] = Owner[f] /\ Owner[f] \in Header /\ Owner[f] # None
  BY <1>1, <1>2, LayoutAssumption DEF Assignment, Cell
<1>4. Owner[f] \in Reachable(ref)
  BY <1>1, <1>2, <1>3, ReachableClosed DEF Closed, Cell
<1>5. Closed(ref', Reachable(ref))
  BY <1>1, <1>4, ReachableClosed, LayoutAssumption DEF Closed, Cell, Assignment
<1>6. \A S \in SUBSET Header : Closed(ref', S) => Closed(ref, S)
  <2>1. SUFFICES ASSUME NEW S \in SUBSET Header, Closed(ref', S) PROVE Closed(ref, S)
    OBVIOUS
  <2>2. Owner[f] \in S
    BY <1>2, <1>3, <2>1 DEF Closed, Cell
  <2> QED BY <1>1, <2>1, <2>2, LayoutAssumption DEF Closed, Cell, Assignment
<1>7. Reachable(ref') = Reachable(ref)
  BY <1>5, <1>6, <1>1, ReachableClosed DEF Reachable
<1>8. Trim(ref)[l] = ref[l] /\ Trim(ref)[f] = ref[f] /\ Trim(ref)[k] = ref[k]
  BY <1>1, <1>4, TrimValues
<1>9. Trim(ref)' = [Trim(ref) EXCEPT ![f] = Trim(ref)[l], ![l] = Trim(ref)[f]]
  BY <1>1, <1>4, <1>7, <1>8, LayoutAssumption DEF Trim, Cell, Assignment
<1> QED BY <1>2, <1>8, <1>9 DEF Heap!Store, Heap!HeldBy

LEMMA DropRefines ==
  ASSUME IInv, NEW l \in Locals, Drop(l)
  PROVE  Heap!Drop(l)
<1> DEFINE t == [Trim(ref) EXCEPT ![l] = None]
<1>1. /\ ref \in Assignment /\ Trim(ref) \in Assignment /\ t \in Assignment
      /\ ref' \in Assignment /\ ref' = [ref EXCEPT ![l] = None]
  BY TrimIdempotent DEF Drop, Unref, IInv, TypeOK, Assignment, Cell
<1>2. \A c \in Cell : t[c] # ref'[c] => /\ c \in Fields /\ Owner[c] \notin Reachable(ref)
                                        /\ t[c] = None
  BY <1>1, TrimValues, LayoutAssumption DEF Cell, Assignment
<1>3. Closed(ref', Reachable(ref))
  BY <1>1, ReachableClosed, LayoutAssumption DEF Closed, Cell, Assignment
<1>4. Reachable(ref') \subseteq Reachable(ref)
  BY <1>1, <1>3, ReachableClosed DEF Reachable
<1>5. Trim(t) = Trim(ref')
  BY <1>1, <1>2, <1>4, ReachableKept
<1> QED BY <1>5, HeapDefs DEF Heap!Drop

(* The memory manager implements a store that is never reclaimed: whatever  *)
(* is freed or collected, and at every step of it, the program sees the     *)
(* references it put there, and new headers are none it has.                *)
THEOREM Implements == Spec => ImplementsHeap
<1>1. Init => Heap!Init
  BY LayoutAssumption DEF Init, Heap!Init, Heap!Cell, Trim, Cell
<1>2. ASSUME IInv, IInv', [Next]_vars PROVE [Heap!Next]_(Trim(ref))
  <2>1. CASE UNCHANGED vars
    BY <2>1 DEF vars, graphVars, Trim, Reachable, Closed
  <2>2. CASE Mutator
    <3>1. CASE RunGC
      BY <3>1 DEF RunGC, graphVars, Trim, Reachable, Closed
    <3>2. ASSUME NEW l \in Locals, NEW h \in Header, New(l, h) PROVE Heap!Next
      BY <1>2, <3>2, NewRefines DEF Heap!Next, Heap!Header, Header
    <3>3. ASSUME NEW l \in Locals, NEW c \in Cell, Dup(l, c) PROVE Heap!Next
      BY <1>2, <3>3, DupRefines DEF Heap!Next, Heap!Cell, Cell
    <3>4. ASSUME NEW l \in Locals, NEW f \in Fields, Store(l, f) PROVE Heap!Next
      BY <1>2, <3>4, StoreRefines DEF Heap!Next
    <3>5. ASSUME NEW l \in Locals, Drop(l) PROVE Heap!Next
      BY <1>2, <3>5, DropRefines DEF Heap!Next
    <3> QED BY <2>2, <3>1, <3>2, <3>3, <3>4, <3>5 DEF Mutator
  <2>3. CASE Manager
    BY <1>2, <2>3, ManagerInvisible DEF Trim, Reachable, Closed
  <2> QED BY <1>2, <2>1, <2>2, <2>3 DEF Next
<1> QED BY <1>1, <1>2, Invariance, PTL DEF Spec, ImplementsHeap, Heap!Spec
=================================================================================
