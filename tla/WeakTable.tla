------------------------------ MODULE WeakTable ------------------------------
(***************************************************************************)
(* WeakMap and WeakSet of quickjs.c on top of the memory manager: records  *)
(* that a map and a key both list and neither owns, taken away while       *)
(* either is being freed.                                                  *)
(*                                                                         *)
(* Counts are exact (see CycleGC), so ref_count is 0 when there is no      *)
(* reference.  Freeing one object is one step: what it releases is only    *)
(* queued, and no program runs.  What a collection takes for garbage is    *)
(* what its passes leave; CycleGC has the passes.  The program is          *)
(* arbitrary; it gets at what its locals lead to, through fields and       *)
(* through the entries of keys it has.                                     *)
(***************************************************************************)
EXTENDS HeapGraph

CONSTANTS Maps,        \* the objects that are a WeakMap or a WeakSet
          MaxEntries   \* bound on the entries there are at a time

ASSUME MapsAssumption == Maps \subseteq Objects /\ Passive = {}

VARIABLES
  ref,     \* the object a cell points to, or None
  state,   \* of an object: "free" memory, "live" on gc_obj_list, "queued" on
           \* gc_zero_ref_count_list, "garbage" on tmp_obj_list, or "zombie"
  value,   \* mr->value of each record in memory; undefined is None
  inMap,   \* the records that are linked in the lists of their map
  inKey,   \* the records that are linked from first_weak_ref of their key
  phase,   \* rt->gc_phase
  left     \* history: what a collection did not free of the values of the
           \* entries whose keys it freed

weakVars == <<ref, state, value, inMap, inKey, phase, left>>

\* A JSMapRecord is known by its map and key.
Record == Maps \X Objects
InMemory == DOMAIN value
MapOf(r) == r[1]
KeyOf(r) == r[2]
FieldsOf(o) == {f \in Fields : Owner[f] = o}

Referred(o, cells, values) ==
  (\E c \in Cell : cells[c] = o) \/ (\E r \in DOMAIN values : values[r] = o)

\* What R leads to, through the steps that Onward allows.
Reached(R, Onward(_)) ==
  LET closed == {S \in SUBSET Objects : (R \cup Onward(S)) \cap Objects \subseteq S}
  IN  {o \in Objects : \A S \in closed : o \in S}

Roots == {ref[l] : l \in Locals}
InFields(S) == {ref[f] : f \in {g \in Fields : Owner[g] \in S}}

\* What the program gets at: a value only with its map and its key.
Visible == Reached(Roots, LAMBDA S :
  InFields(S) \cup {value[r] : r \in {n \in inMap : MapOf(n) \in S /\ KeyOf(n) \in S}})

\* Wrong: js_map_mark is left out.
KeptFromUnmarked(R) == Reached(R, LAMBDA S : InFields(S))

\* What the marks of js_map_mark keep: the values of a map, not its keys.
KeptFrom(R) == Reached(R, LAMBDA S :
  InFields(S) \cup {value[r] : r \in {n \in inMap : MapOf(n) \in S}})

WeakInit ==
  /\ ref = [c \in Cell |-> None]
  /\ state = [o \in Objects |-> "free"]
  /\ value = [r \in {} |-> None] /\ inMap = {} /\ inKey = {}
  /\ phase = "none"
  /\ left = {}

-----------------------------------------------------------------------------
(* Freeing. *)

Without(f, S) == [x \in DOMAIN f \ S |-> f[x]]

\* JS_FreeValue of what is no longer referred to after a step that begins in
\* phase now and leaves cells and values: an object without references is
\* queued, but during cycle removal it stays where it is.
Release(now, cells, values, states) ==
  LET lost == {o \in Objects : /\ states[o] = "live" /\ Referred(o, ref, value)
                               /\ ~Referred(o, cells, values)} IN
  /\ ref' = cells /\ value' = values
  /\ \/ now = "remove" /\ state' = states /\ phase' = now
     \/ /\ now # "remove"
        /\ state' = [o \in Objects |-> IF o \in lost THEN "queued" ELSE states[o]]
        /\ phase' = IF now = "none" /\ lost # {} THEN "decref" ELSE now

\* Wrong: delete_weak_ref is left out, the key keeps the record in its list.
FreeObjectKeepingWeak(o, after) ==
  LET keyed == {r \in inKey : KeyOf(r) = o}
      mine == {r \in inMap : MapOf(r) = o}
      cells == [c \in Cell |-> IF c \in FieldsOf(o) THEN None ELSE ref[c]]
      values == Without(value, keyed \cup mine) IN
  /\ inMap' = inMap \ (keyed \cup mine)
  /\ inKey' = inKey \ keyed
  /\ left' = IF phase = "remove" THEN left \cup {value[r] : r \in keyed} ELSE left
  /\ Release(phase, cells, values,
             [state EXCEPT ![o] = IF Referred(o, cells, values) THEN after ELSE "free"])

\* free_object: the fields, reset_weak_ref, and for a map its finalizer.
FreeObject(o, after) ==
  LET keyed == {r \in inKey : KeyOf(r) = o}
      mine == {r \in inMap : MapOf(r) = o}
      cells == [c \in Cell |-> IF c \in FieldsOf(o) THEN None ELSE ref[c]]
      values == Without(value, keyed \cup mine) IN
  /\ inMap' = inMap \ (keyed \cup mine)
  /\ inKey' = inKey \ (keyed \cup mine)
  /\ left' = IF phase = "remove" THEN left \cup {value[r] : r \in keyed} ELSE left
  /\ Release(phase, cells, values,
             [state EXCEPT ![o] = IF Referred(o, cells, values) THEN after ELSE "free"])

\* free_zero_refcount
FreeZero(o) ==
  /\ phase = "decref" /\ state[o] = "queued"
  /\ FreeObject(o, "free")

FreeZeroEnd ==
  /\ phase = "decref" /\ \A o \in Objects : state[o] # "queued"
  /\ phase' = "none"
  /\ UNCHANGED <<ref, state, value, inMap, inKey, left>>

-----------------------------------------------------------------------------
(* JS_RunGC. *)

\* gc_decref and gc_scan
GarbageNow == {o \in Objects : state[o] = "live"} \ KeptFrom(Roots)

RunGC ==
  /\ phase = "none" /\ phase' = "remove"
  /\ \E garbage \in {GarbageNow} :
       state' = [o \in Objects |-> IF o \in garbage THEN "garbage" ELSE state[o]]
  /\ left' = {}
  /\ UNCHANGED <<ref, value, inMap, inKey>>

\* gc_free_cycles
FreeCycle(o) ==
  /\ phase = "remove" /\ state[o] = "garbage"
  /\ FreeObject(o, "zombie")

FreeCyclesEnd ==
  /\ phase = "remove" /\ \A o \in Objects : state[o] # "garbage"
  /\ phase' = "none"
  /\ state' = [o \in Objects |-> IF state[o] = "zombie" THEN "free" ELSE state[o]]
  /\ left' = left \ KeptFrom(Roots)
  /\ UNCHANGED <<ref, value, inMap, inKey>>

-----------------------------------------------------------------------------
(* The program. *)

New(l, o) ==
  /\ phase = "none"
  /\ state[o] = "free" /\ ref[l] = None
  /\ ref' = [ref EXCEPT ![l] = o]
  /\ state' = [state EXCEPT ![o] = "live"]
  /\ UNCHANGED <<value, inMap, inKey, phase, left>>

\* An assignment to a variable or to a field.
Assign(c, o) ==
  /\ phase = "none"
  /\ Release(phase, [ref EXCEPT ![c] = o], value, state)
  /\ UNCHANGED <<inMap, inKey, left>>

With(f, x, v) == [y \in DOMAIN f \cup {x} |-> IF y = x THEN v ELSE f[y]]

\* js_map_set, with map_add_record
SetWeak(r, v) ==
  /\ phase = "none"
  /\ inMap' = inMap \cup {r} /\ inKey' = inKey \cup {r}
  /\ Release(phase, ref, With(value, r, v), state)
  /\ r \in inMap \/ Cardinality(inMap) < MaxEntries
  /\ UNCHANGED left

\* js_map_delete, with map_delete_record
DeleteWeak(r) ==
  /\ phase = "none"
  /\ r \in inMap
  /\ inMap' = inMap \ {r} /\ inKey' = inKey \ {r}
  /\ Release(phase, ref, Without(value, {r}), state)
  /\ UNCHANGED left

\* It acts on what it sees.
WeakProgram ==
  \/ \E l \in Locals, o \in Objects : New(l, o)
  \/ \E seen \in {Visible} :
       \/ \E c \in Locals \cup {f \in Fields : Owner[f] \in seen}, o \in seen \cup {None} : Assign(c, o)
       \/ \E r \in (Maps \cap seen) \X seen : DeleteWeak(r) \/ \E o \in seen \cup {None} : SetWeak(r, o)

WeakNext ==
  \/ WeakProgram
  \/ RunGC \/ FreeZeroEnd \/ FreeCyclesEnd
  \/ \E o \in Objects : FreeZero(o) \/ FreeCycle(o)

WeakSpec == WeakInit /\ [][WeakNext]_weakVars

-----------------------------------------------------------------------------
(* Properties. *)

Intact(o) == state[o] \in {"live", "queued", "garbage"}

\* The assertions of delete_weak_ref and reset_weak_ref: a map and a key
\* list the same records, each in memory, while both are; at no moment of
\* freeing either does a record refer to what is freed.
WeakListsAgree ==
  /\ inMap = InMemory /\ inKey = InMemory
  /\ \A r \in InMemory : Intact(MapOf(r)) /\ Intact(KeyOf(r))
  /\ \A r \in InMemory : value[r] # None => state[value[r]] # "free"

Same(r) == /\ r \in inMap' <=> r \in inMap
           /\ r \in inMap => value'[r] = value[r]

\* A map that the program has keeps telling of each key that the program
\* has what was set for it: nothing that is freed or collected takes such
\* an entry away or changes it.
EntriesKept == [][phase # "none" => \A seen \in {Visible} :
  \A r \in inMap \cup inMap' : {MapOf(r), KeyOf(r)} \subseteq seen => Same(r)]_weakVars

\* When no memory is being managed, an object without a reference is the
\* value of an entry whose key the last collection freed: it is freed by the
\* next one, the test at tests/test_builtin.js:634 would see the same.
PromptButLeft == phase = "none" =>
  \A o \in Objects : state[o] = "live" /\ ~Referred(o, ref, value) => o \in left

\* Weak lists are right at every step of freeing, and leave no memory behind
\* but for what the next collection takes.
WeakRefsExact == WeakListsAgree /\ PromptButLeft
=============================================================================
