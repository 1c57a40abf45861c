---------------------------- MODULE AbstractHeap ---------------------------
(***************************************************************************)
(* What the memory manager promises to the program: the graph it can reach *)
(* changes only by what the program does, and a new header is one it could *)
(* not reach.  There are no counts, no lists and no passes.                *)
(***************************************************************************)
EXTENDS HeapGraph

VARIABLE view      (* the references in locals and in reachable headers *)

Init == view = [c \in Cell |-> None]

New(l, h) ==
  /\ view[l] = None
  /\ h \notin Reachable(view)
  /\ view' = [view EXCEPT ![l] = h]

HeldBy(S, h) == \E l \in S : view[l] = h

Dup(l, c) ==
  /\ view[l] = None
  /\ c \in Fields => HeldBy(Locals, Owner[c])
  /\ view' = [view EXCEPT ![l] = view[c]]

Store(l, f) ==
  /\ HeldBy(Locals \ {l}, Owner[f])
  /\ view' = [view EXCEPT ![f] = view[l], ![l] = view[f]]

(* Dropping the last way to a part of the graph makes it unreachable. *)
Drop(l) == view' = Trim([view EXCEPT ![l] = None])

Next == \E l \in Locals :
  \/ \E h \in Header : New(l, h)
  \/ \E c \in Cell : Dup(l, c)
  \/ \E f \in Fields : Store(l, f)
  \/ Drop(l)

Spec == Init /\ [][Next]_view
=============================================================================
