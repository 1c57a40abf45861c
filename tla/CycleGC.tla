------------------------------ MODULE CycleGC ------------------------------
(***************************************************************************)
(* The memory manager of quickjs.c: reference counting with deferred       *)
(* freeing (free_zero_refcount) and the cycle removal pass (JS_RunGC).     *)
(*                                                                         *)
(* A header is a JSGCObjectHeader.  The collector treats two kinds         *)
(* differently: the headers it frees itself (objects, function bytecode,   *)
(* async functions) and those it leaves to their last referent (JSVarRef   *)
(* and JSShape), called Passive here.  A cell is a place that holds a      *)
(* counted reference: a field of a header, or a local (C variable, stack   *)
(* slot, context slot) that the collector does not traverse.               *)
(*                                                                         *)
(* The order of the three intrusive lists is abstracted: a pass may take   *)
(* any member not yet visited, the order of the code is one of those.      *)
(***************************************************************************)
EXTENDS HeapGraph

VARIABLES
  heap,       (* headers whose memory is allocated                           *)
  ref,        (* the header a cell points to, or None                        *)
  rc,         (* ref_count                                                   *)
  gcList,     (* rt->gc_obj_list                                             *)
  tmpList,    (* rt->tmp_obj_list                                            *)
  zeroList,   (* rt->gc_zero_ref_count_list                                  *)
  marked,     (* headers with mark = 1                                       *)
  visited,    (* headers the current list_for_each has gone past             *)
  todo,       (* fields mark_children has still to report to its callback    *)
  subtracted, (* history: fields whose reference is taken off the count      *)
  cur,        (* header whose children are being walked or freed             *)
  dying,      (* passive header being released by free_var_ref/js_free_shape *)
  suspended,  (* passive header whose release called free_zero_refcount      *)
  phase       (* where the memory manager is                                 *)

graphVars == <<heap, ref, rc>>
listVars  == <<gcList, tmpList, zeroList>>
passVars  == <<marked, visited, todo, subtracted>>
freeVars  == <<cur, dying, suspended>>
vars      == <<graphVars, listVars, passVars, freeVars, phase>>

(* What mark_children reports to its callback for h, and free_object frees. *)
Children(h) == {f \in Fields : Owner[f] = h /\ ref[f] # None}

(* No memory management call is in progress: the program may run. *)
Quiet == phase = "none" /\ dying = None

Init ==
  /\ heap = {}
  /\ ref = [c \in Cell |-> None]
  /\ rc = [h \in Header |-> 0]
  /\ gcList = {} /\ tmpList = {} /\ zeroList = {}
  /\ marked = {} /\ visited = {} /\ todo = {} /\ subtracted = {}
  /\ cur = None /\ dying = None /\ suspended = None
  /\ phase = "none"

-----------------------------------------------------------------------------
(* What the running program does to the graph.                             *)

(* add_gc_object of a new header, its one reference in a local. *)
New(l, h) ==
  /\ Quiet
  /\ ref[l] = None
  /\ h \notin heap
  /\ heap' = heap \cup {h}
  /\ rc' = [rc EXCEPT ![h] = 1]
  /\ ref' = [ref EXCEPT ![l] = h]
  /\ gcList' = gcList \cup {h}
  /\ marked' = marked \ {h}
  /\ UNCHANGED <<tmpList, zeroList, visited, todo, subtracted, freeVars, phase>>

(* h is held by a local of S. *)
HeldBy(S, h) == \E l \in S : ref[l] = h

(* JS_DupValue of a value found in a local, or in a field of a held header. *)
Dup(l, c) ==
  /\ Quiet
  /\ ref[l] = None
  /\ ref[c] # None
  /\ c \in Fields => HeldBy(Locals, Owner[c])
  /\ ref' = [ref EXCEPT ![l] = ref[c]]
  /\ rc' = [rc EXCEPT ![ref[c]] = @ + 1]
  /\ UNCHANGED <<heap, listVars, passVars, freeVars, phase>>

(* set_value: the field takes the reference of the local, which keeps the   *)
(* old value until it is dropped; the caller holds the header through a     *)
(* reference that set_value does not take.  A JSVarRef or a JSShape only    *)
(* refers to values, never to another passive header.                       *)
Store(l, f) ==
  /\ Quiet
  /\ HeldBy(Locals \ {l}, Owner[f])
  /\ Owner[f] \in Passive => ref[l] \in Objects \cup {None}
  /\ ref' = [ref EXCEPT ![f] = ref[l], ![l] = ref[f]]
  /\ UNCHANGED <<heap, rc, listVars, passVars, freeVars, phase>>

-----------------------------------------------------------------------------
(* Releasing references.                                                    *)

(* __JS_FreeValueRT on an object whose count reaches zero: queued, and      *)
(* free_zero_refcount is called unless it is running; nothing is done while *)
(* cycles are removed, the object is already on the list of the garbage.    *)
Queue(h) ==
  /\ gcList' = gcList \ {h}
  /\ zeroList' = zeroList \cup {h}
  /\ IF phase = "none"
       THEN phase' = "free_zero" /\ suspended' = dying /\ dying' = None
       ELSE UNCHANGED <<phase, suspended, dying>>

(* JS_FreeValueRT, free_var_ref, js_free_shape: release the reference of c. *)
Unref(c) ==
  LET h == ref[c]
      last == rc[h] = 1
  IN
  /\ ref' = [ref EXCEPT ![c] = None]
  /\ rc' = [rc EXCEPT ![h] = @ - 1]
  /\ CASE last /\ h \in Passive -> /\ dying' = h
                                   /\ UNCHANGED <<gcList, zeroList, suspended, phase>>
       [] last /\ h \in Objects /\ phase # "gc_free" -> Queue(h)
       [] OTHER -> UNCHANGED <<gcList, zeroList, dying, suspended, phase>>

(* The program drops a reference it holds: JS_FreeValue. *)
Drop(l) ==
  /\ Quiet
  /\ ref[l] # None
  /\ Unref(l)
  /\ UNCHANGED <<heap, tmpList, passVars, cur>>

(* free_zero_refcount takes the next object; gc_free_cycles the next garbage. *)
FreeObject(h) ==
  /\ cur = None /\ dying = None
  /\ \/ phase = "free_zero" /\ h \in zeroList
     \/ phase = "gc_free" /\ h \in tmpList \cap Objects
  /\ cur' = h
  /\ UNCHANGED <<graphVars, listVars, passVars, dying, suspended, phase>>

(* free_object: free_property, the finalizer and js_free_shape release what *)
(* the object refers to.                                                    *)
FreeObjectField(f) ==
  /\ phase \in {"free_zero", "gc_free"}
  /\ cur # None /\ dying = None
  /\ f \in Children(cur)
  /\ Unref(f)
  /\ UNCHANGED <<heap, tmpList, passVars, cur>>

(* A header still referred to by garbage not freed yet is kept as a zombie  *)
(* while cycles are being removed.                                          *)
ZombieAlways(h) == phase # "none"
Zombie(h) == phase = "gc_free" /\ rc[h] # 0

(* The end of free_object: remove_gc_object and js_free_rt. *)
FreeObjectDone ==
  /\ phase \in {"free_zero", "gc_free"}
  /\ cur # None /\ dying = None
  /\ Children(cur) = {}
  /\ tmpList' = tmpList \ {cur}
  /\ IF Zombie(cur)
       THEN heap' = heap /\ zeroList' = zeroList \cup {cur}
       ELSE heap' = heap \ {cur} /\ zeroList' = zeroList \ {cur}
  /\ cur' = None
  /\ UNCHANGED <<ref, rc, gcList, passVars, dying, suspended, phase>>

(* free_var_ref, js_free_shape0: release the value, the prototype. *)
FreePassiveField(f) ==
  /\ dying # None
  /\ f \in Children(dying)
  /\ Unref(f)
  /\ UNCHANGED <<heap, tmpList, passVars, cur>>

(* The end of free_var_ref, js_free_shape0: remove_gc_object, js_free_rt. *)
FreePassiveDone ==
  /\ dying # None
  /\ Children(dying) = {}
  /\ heap' = heap \ {dying}
  /\ gcList' = gcList \ {dying}
  /\ tmpList' = tmpList \ {dying}
  /\ zeroList' = zeroList \ {dying}
  /\ dying' = None
  /\ UNCHANGED <<ref, rc, passVars, cur, suspended, phase>>

(* free_zero_refcount finds its list empty and returns, to the release of a *)
(* passive header when that is where it was called.                         *)
FreeZeroEnd ==
  /\ phase = "free_zero"
  /\ cur = None /\ dying = None
  /\ zeroList = {}
  /\ phase' = "none"
  /\ dying' = suspended
  /\ suspended' = None
  /\ UNCHANGED <<graphVars, listVars, passVars, cur>>

-----------------------------------------------------------------------------
(* JS_RunGC: gc_decref, the two loops of gc_scan, gc_free_cycles.           *)

Passes == {"gc_decref", "gc_scan", "gc_restore"}

RunGC ==
  /\ Quiet
  /\ phase' = "gc_decref"
  /\ tmpList' = {}
  /\ visited' = {}
  /\ UNCHANGED <<graphVars, gcList, zeroList, marked, todo, subtracted, freeVars>>

(* The list the loop runs through. *)
PassList == IF phase = "gc_restore" THEN tmpList ELSE gcList

(* gc_scan resets the marks gc_decref has set. *)
KeepMark(h)  == UNCHANGED marked
ClearMark(h) == marked' = IF phase = "gc_scan" THEN marked \ {h} ELSE marked

(* The loop takes its next header and calls mark_children on it. *)
PassNext(h) ==
  /\ phase \in Passes
  /\ cur = None
  /\ h \in PassList \ visited
  /\ cur' = h
  /\ visited' = visited \cup {h}
  /\ todo' = Children(h)
  /\ ClearMark(h)
  /\ UNCHANGED <<graphVars, listVars, subtracted, dying, suspended, phase>>

(* A header is set aside when no reference from outside the heap is left    *)
(* and its own children have been counted off.                              *)
SetAside(h) == gcList' = gcList \ {h} /\ tmpList' = tmpList \cup {h}

LastCountedNever(h)  == FALSE
LastCountedUnread(h) == rc[h] = 1
LastCountedOff(h)    == rc[h] = 1 /\ h \in marked

(* gc_decref_child *)
GcDecrefChild(f) ==
  LET c == ref[f] IN
  /\ phase = "gc_decref"
  /\ f \in todo
  /\ todo' = todo \ {f}
  /\ subtracted' = subtracted \cup {f}
  /\ rc' = [rc EXCEPT ![c] = @ - 1]
  /\ IF LastCountedOff(c) THEN SetAside(c) ELSE UNCHANGED <<gcList, tmpList>>
  /\ UNCHANGED <<heap, ref, zeroList, marked, visited, freeVars, phase>>

(* The rest of gc_decref's loop body, after mark_children. *)
GcDecrefDone ==
  /\ phase = "gc_decref"
  /\ cur # None /\ todo = {}
  /\ marked' = marked \cup {cur}
  /\ IF rc[cur] = 0 THEN SetAside(cur) ELSE UNCHANGED <<gcList, tmpList>>
  /\ cur' = None
  /\ UNCHANGED <<graphVars, zeroList, visited, todo, subtracted, dying, suspended, phase>>

NoRescue(h) == UNCHANGED <<gcList, tmpList, marked>>

Rescue(h) ==
  /\ tmpList' = tmpList \ {h}
  /\ gcList' = gcList \cup {h}
  /\ marked' = marked \ {h}

(* gc_scan_incref_child: a child of a header that is kept is kept. *)
GcScanChild(f) ==
  LET c == ref[f] IN
  /\ phase = "gc_scan"
  /\ f \in todo
  /\ todo' = todo \ {f}
  /\ subtracted' = subtracted \ {f}
  /\ rc' = [rc EXCEPT ![c] = @ + 1]
  /\ IF rc[c] = 0
       THEN Rescue(c)
       ELSE UNCHANGED <<gcList, tmpList, marked>>
  /\ UNCHANGED <<heap, ref, zeroList, visited, freeVars, phase>>

(* gc_scan_incref_child2: give the headers to delete their counts back. *)
GcRestoreChild(f) ==
  /\ phase = "gc_restore"
  /\ f \in todo
  /\ todo' = todo \ {f}
  /\ subtracted' = subtracted \ {f}
  /\ rc' = [rc EXCEPT ![ref[f]] = @ + 1]
  /\ UNCHANGED <<heap, ref, listVars, marked, visited, freeVars, phase>>

(* The end of the body of either loop of gc_scan. *)
GcScanDone ==
  /\ phase \in {"gc_scan", "gc_restore"}
  /\ cur # None /\ todo = {}
  /\ cur' = None
  /\ UNCHANGED <<graphVars, listVars, passVars, dying, suspended, phase>>

(* A loop reaches the end of its list, and the next loop starts. *)
NextPhase == [gc_decref |-> "gc_scan", gc_scan |-> "gc_restore", gc_restore |-> "gc_free"]

PassEnd ==
  /\ phase \in Passes
  /\ cur = None
  /\ PassList \subseteq visited
  /\ phase' = NextPhase[phase]
  /\ visited' = {}
  /\ UNCHANGED <<graphVars, listVars, marked, todo, subtracted, freeVars>>

(* gc_free_cycles leaves the other kinds of header to their referents. *)
GcSkipPassive(h) ==
  /\ phase = "gc_free"
  /\ cur = None /\ dying = None
  /\ h \in tmpList \cap Passive
  /\ tmpList' = tmpList \ {h}
  /\ zeroList' = zeroList \cup {h}
  /\ UNCHANGED <<graphVars, gcList, passVars, freeVars, phase>>

(* The last loop of gc_free_cycles frees the memory of the zombies. *)
GcFreeEnd ==
  /\ phase = "gc_free"
  /\ cur = None /\ dying = None
  /\ tmpList = {}
  /\ heap' = heap \ zeroList
  /\ zeroList' = {}
  /\ phase' = "none"
  /\ UNCHANGED <<ref, rc, gcList, tmpList, passVars, freeVars>>

-----------------------------------------------------------------------------

Mutator ==
  \/ \E l \in Locals, h \in Header : New(l, h)
  \/ \E l \in Locals, c \in Cell : Dup(l, c)
  \/ \E l \in Locals, f \in Fields : Store(l, f)
  \/ \E l \in Locals : Drop(l)
  \/ RunGC

Manager ==
  \/ \E h \in Header : FreeObject(h) \/ PassNext(h) \/ GcSkipPassive(h)
  \/ \E f \in Fields : \/ FreeObjectField(f) \/ FreePassiveField(f)
                       \/ GcDecrefChild(f) \/ GcScanChild(f) \/ GcRestoreChild(f)
  \/ FreeObjectDone \/ FreePassiveDone \/ FreeZeroEnd
  \/ GcDecrefDone \/ GcScanDone \/ PassEnd \/ GcFreeEnd

Next == Mutator \/ Manager

Spec == Init /\ [][Next]_vars

(* The memory manager is straight-line C code: once called it runs on. *)
FairSpec == Spec /\ WF_vars(Manager)

-----------------------------------------------------------------------------
(* Properties.                                                              *)

(* Every variable keeps to its range. *)
TypeOK ==
  /\ heap \subseteq Header
  /\ ref \in [Cell -> Header \cup {None}]
  /\ rc \in [Header -> Nat]
  /\ gcList \subseteq heap /\ tmpList \subseteq heap /\ zeroList \subseteq heap
  /\ marked \subseteq Header /\ visited \subseteq Header
  /\ todo \subseteq Fields /\ subtracted \subseteq Fields
  /\ cur \in heap \cup {None}
  /\ dying \in (Passive \cap heap) \cup {None}
  /\ suspended \in (Passive \cap heap) \cup {None}
  /\ phase \in Passes \cup {"none", "free_zero", "gc_free"}

(* Reference counts are exact: ref_count is the number of references to the *)
(* header, less those gc_decref has taken off and gc_scan not yet given     *)
(* back.  Between calls nothing is off, whatever the passes did.            *)
RcExact ==
  /\ \A h \in heap : rc[h] = Cardinality({c \in Cell \ subtracted : ref[c] = h})
  /\ Quiet => subtracted = {}

(* No use after free: a cell that holds a reference holds it on allocated   *)
(* memory, and freed memory holds none.  free_object, the passes and the    *)
(* finalizers dereference headers on the strength of this.                  *)
NoDangling ==
  \A c \in Cell : ref[c] # None =>
     ref[c] \in heap /\ (c \in Fields => Owner[c] \in heap)

(* The assertions of gc_decref, gc_decref_child, gc_scan,                   *)
(* free_zero_refcount and gc_free_cycles never fail.                        *)
AssertsHold ==
  /\ phase = "gc_decref" /\ cur = None => (gcList \ visited) \cap marked = {}
  /\ phase = "gc_decref" => \A f \in todo : rc[ref[f]] > 0
  /\ phase = "gc_scan" /\ cur = None => \A h \in gcList \ visited : rc[h] > 0
  /\ phase = "free_zero" /\ cur = None => \A h \in zeroList : rc[h] = 0
  /\ phase = "gc_free" /\ cur = None /\ dying = None /\ tmpList = {} =>
        zeroList \subseteq Objects

(* Reference counting frees at once: between calls every allocated header   *)
(* has a referent and is on gc_obj_list, and the other lists are empty.     *)
PromptFree ==
  Quiet => /\ heap = gcList
           /\ tmpList = {} /\ zeroList = {}
           /\ \A h \in heap : rc[h] > 0

(* The three together: at every step of freeing and collecting, whatever    *)
(* the shape of the graph and wherever a pass stands, counts match the      *)
(* references and no reference outlives its target; and between calls there *)
(* is no memory without a referent.                                         *)
HeapExact == TypeOK /\ RcExact /\ NoDangling /\ PromptFree

(* The cycle removal pass is complete: when it ends, whatever the shape of  *)
(* the garbage, only what the program can reach is left.                    *)
GcCollectsAll == [][GcFreeEnd => heap' \subseteq Reachable(ref)']_vars

(* The program sees a store that is never reclaimed: it gets fresh headers, *)
(* and neither freeing nor the cycle removal pass changes, at any of their  *)
(* steps, what it can reach.                                                *)
Heap == INSTANCE AbstractHeap WITH view <- Trim(ref)
ImplementsHeap == Heap!Spec

(* Each call of the memory manager returns. *)
Returns == []<>Quiet
=============================================================================
