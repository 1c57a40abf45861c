----------------------------- MODULE HeapGraph -----------------------------
(***************************************************************************)
(* The graph the memory manager of quickjs.c works on.  A header is a      *)
(* JSGCObjectHeader.  The collector treats two kinds differently: those it *)
(* frees itself (objects, function bytecode, async functions) and those it *)
(* leaves to their last referent (JSVarRef and JSShape), called Passive.   *)
(* A cell is a place that holds a counted reference: a field of a header,  *)
(* or a local (C variable, stack slot, context slot) that the collector    *)
(* does not traverse.                                                      *)
(***************************************************************************)
EXTENDS Naturals, FiniteSets

CONSTANTS
  Objects,   (* headers freed by free_gc_object                              *)
  Passive,   (* headers freed when their last reference goes: VAR_REF, SHAPE *)
  Locals,    (* cells outside the heap                                       *)
  Fields,    (* cells inside a header                                        *)
  Owner,     (* the header a field belongs to                                *)
  None

Header == Objects \cup Passive
Cell   == Locals \cup Fields

ASSUME LayoutAssumption ==
  /\ Objects \cap Passive = {}
  /\ Locals \cap Fields = {}
  /\ None \notin Header
  /\ Owner \in [Fields -> Header]
  /\ IsFiniteSet(Cell)

(* r is an assignment of headers, or None, to the cells. *)
Closed(r, S) ==
  \A c \in Cell : r[c] # None /\ (c \in Locals \/ Owner[c] \in S) => r[c] \in S

(* The headers a program can get at from its locals. *)
Reachable(r) == {h \in Header : \A S \in SUBSET Header : Closed(r, S) => h \in S}

(* r without the references of the headers that nothing reaches. *)
Trim(r) ==
  LET live == Reachable(r)
  IN  [c \in Cell |-> IF c \in Locals \/ Owner[c] \in live THEN r[c] ELSE None]
=============================================================================
