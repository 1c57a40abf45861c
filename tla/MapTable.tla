------------------------------ MODULE MapTable ------------------------------
(***************************************************************************)
(* A Map or Set of quickjs.c with the iterators and forEach calls that go  *)
(* through it while it changes.                                            *)
(*                                                                         *)
(* Records are numbered in the order they are made, which is their order   *)
(* in s->records: they are added at its tail and only ever unlinked.  What *)
(* a record holds, as key or as value, is Plain or an iterator over this   *)
(* very map, the one object whose finalizer comes back to the records; it  *)
(* is freed with its last reference.                                       *)
(***************************************************************************)
EXTENDS Integers, Sequences, FiniteSets

CONSTANTS Key, Iter,
          MaxRecords,  \* bound on the records ever made
          MaxDepth     \* bound on the forEach calls in each other

\* Only so many iterators are in memory; none of them is the plain value.
ASSUME TableAssumption == IsFiniteSet(Iter) /\ "plain" \notin Iter

VARIABLES
  rec,     \* JSMapRecord, every one ever made; linked while in memory
  hashed,  \* the records that are in s->hash_table
  size,    \* s->record_count
  it,      \* JSMapIteratorData
  held,    \* the iterators the program has a reference to
  calls,   \* forEach and clear calls in progress, the innermost last
  map,     \* "held" by the program, "dropped" by it, or "freed"
  stale    \* history: who used a record that was freed, and by whom it was

vars == <<rec, hashed, size, it, held, calls, map, stale>>

Plain == "plain"
End == 0   \* &s->records, and NULL as cur_record

Records == DOMAIN rec
Linked == {r \in Records : rec[r].linked}
Live == {r \in Linked : ~rec[r].empty}

\* el->next in a list of records
After(rs, r) ==
  LET later == {n \in DOMAIN rs : n > r /\ rs[n].linked} IN
  IF later = {} THEN End ELSE CHOOSE n \in later : \A m \in later : n <= m

Frame(op, el) == [op |-> op, el |-> el, calling |-> FALSE, arg |-> Plain, last |-> 0]
Top == calls[Len(calls)]
Callers == SubSeq(calls, 1, Len(calls) - 1)
SetTop(f) == Append(Callers, f)
\* What the program has: in variables and as arguments of callbacks.
KeptBy(h, frames) == h \cup {frames[n].arg : n \in DOMAIN frames}
Kept == KeptBy(held, calls)
\* The program runs: no call in progress, or in the callback of the last.
InProgram == stale = {} /\ map = "held" /\ (calls # <<>> => Top.calling)

Init ==
  /\ rec = <<>> /\ hashed = {} /\ size = 0
  /\ it = [i \in Iter |-> [obj |-> "none", cur |-> End]]
  /\ held = {} /\ calls = <<>> /\ map = "held" /\ stale = {}

-----------------------------------------------------------------------------
(* The lock of a record and what frees it.  These work on a pair m of the  *)
(* records and the iterators, and say in stale if they come too late.      *)

Now == [rec |-> rec, it |-> it, stale |-> {}]

Uses(m, who, r) ==
  IF r # End /\ ~m.rec[r].linked
  THEN [m EXCEPT !.stale = @ \cup {[user |-> who, freed |-> m.rec[r].by]}] ELSE m

\* map_decref_record
Decref(m, r, by) ==
  LET n == Uses(m, by, r)
      x == m.rec[r]
      last == x.ref = 1 IN
  [n EXCEPT !.rec[r] = [x EXCEPT !.ref = @ - 1, !.linked = @ /\ ~last, !.by = IF last THEN by ELSE @]]

\* Wrong: as if JS_IsLiveObject were not asked.
FinalizeAlways(m, i) ==
  LET n == IF m.it[i].cur # End THEN Decref(m, m.it[i].cur, "finalizer") ELSE m IN
  [n EXCEPT !.it[i] = [obj |-> "freed", cur |-> End]]

\* js_map_iterator_finalizer
Finalize(m, i) ==
  LET n == IF m.it[i].obj = "map" /\ map # "freed" /\ m.it[i].cur # End
           THEN Decref(m, m.it[i].cur, "finalizer") ELSE m IN
  [n EXCEPT !.it[i] = [obj |-> "freed", cur |-> End]]

\* JS_FreeValue of v, when the program has the iterators keep and a record
\* that holds v counts while it does.
FreeValue(m, v, keep) ==
  IF v \in Iter \ keep /\ \A r \in DOMAIN m.rec : m.rec[r].holds # v THEN Finalize(m, v) ELSE m

\* Wrong: the record goes although an iterator is on it.
DeleteRecordAtOnce(m, r) ==
  LET n == FreeValue([m EXCEPT !.rec[r].holds = Plain], m.rec[r].holds, Kept) IN
  [n EXCEPT !.rec[r].empty = TRUE, !.rec[r].ref = 0, !.rec[r].linked = FALSE, !.rec[r].by = "delete"]

\* map_delete_record, but for the hash table and the count
DeleteRecord(m, r) ==
  LET n == FreeValue([m EXCEPT !.rec[r].holds = Plain], m.rec[r].holds, Kept) IN
  Decref([n EXCEPT !.rec[r].empty = TRUE], r, "delete")

Becomes(m) == rec' = m.rec /\ it' = m.it /\ stale' = m.stale

-----------------------------------------------------------------------------
(* The methods. *)

\* map_find_record
Found(k) == {r \in hashed : rec[r].key = k}

NewRecord(k, v) == [key |-> k, holds |-> v, ref |-> 1, empty |-> FALSE, linked |-> TRUE, by |-> "nobody"]

\* map_add_record, where map_hash_resize may build the hash table anew from
\* the list.
Add(k, v) ==
  /\ Len(rec) < MaxRecords
  /\ rec' = Append(rec, NewRecord(k, v))
  /\ size' = size + 1
  /\ hashed' \in { hashed \cup {Len(rec) + 1}, Live \cup {Len(rec) + 1} }
  /\ UNCHANGED <<it, stale>>

\* Wrong: a deleted record that an iterator keeps is taken again.
SetReviving(k, v) ==
  /\ InProgram
  /\ \/ \E r \in Linked \ Live :
          /\ rec' = [rec EXCEPT ![r] = [NewRecord(k, v) EXCEPT !.ref = rec[r].ref + 1]]
          /\ Found(k) = {} /\ hashed' = hashed \cup {r} /\ size' = size + 1
          /\ UNCHANGED <<it, stale>>
     \/ Linked = Live /\ Found(k) = {} /\ Add(k, v)
  /\ UNCHANGED <<held, calls, map>>

\* js_map_set
Set(k, v) ==
  /\ InProgram
  /\ \/ \E r \in Found(k) :
          /\ Becomes(FreeValue([Now EXCEPT !.rec[r].holds = v], rec[r].holds, Kept))
          /\ UNCHANGED <<hashed, size>>
     \/ Found(k) = {} /\ Add(k, v)
  /\ UNCHANGED <<held, calls, map>>

\* js_map_delete
Delete(k) ==
  /\ InProgram
  /\ \E r \in Found(k) :
       /\ Becomes(DeleteRecord(Now, r))
       /\ hashed' = hashed \ {r} /\ size' = size - 1
  /\ UNCHANGED <<held, calls, map>>

\* js_map_clear: the next record is looked up before each one is deleted.
Clear ==
  /\ InProgram
  /\ calls' = Append(calls, Frame("clear", After(rec, End)))
  /\ UNCHANGED <<rec, hashed, size, it, held, map, stale>>

ClearTurn ==
  /\ stale = {} /\ calls # <<>> /\ Top.op = "clear" /\ Top.el # End
  /\ LET el == Top.el IN
     /\ calls' = SetTop([Top EXCEPT !.el = After(rec, el)])
     /\ \/ /\ rec[el].empty \/ ~rec[el].linked
           /\ Becomes(Uses(Now, "clear", el)) /\ UNCHANGED <<hashed, size>>
        \/ /\ el \in Live
           /\ Becomes(DeleteRecord(Now, el))
           /\ hashed' = hashed \ {el} /\ size' = size - 1
  /\ UNCHANGED <<held, map>>

\* js_map_forEach
ForEach ==
  /\ InProgram
  /\ Cardinality({n \in DOMAIN calls : calls[n].op = "forEach"}) < MaxDepth
  /\ calls' = Append(calls, Frame("forEach", After(rec, End)))
  /\ UNCHANGED <<rec, hashed, size, it, held, map, stale>>

AtTurn == stale = {} /\ calls # <<>> /\ Top.op = "forEach" /\ ~Top.calling

ForEachCalls ==
  /\ AtTurn /\ Top.el \in Live
  /\ calls' = SetTop([Top EXCEPT !.calling = TRUE, !.arg = rec[Top.el].holds, !.last = Top.el])
  /\ rec' = [rec EXCEPT ![Top.el].ref = @ + 1]
  /\ UNCHANGED <<hashed, size, it, held, map, stale>>

ForEachSkips ==
  /\ AtTurn /\ Top.el # End /\ Top.el \notin Live
  /\ Becomes(Uses(Now, "forEach", Top.el))
  /\ calls' = SetTop([Top EXCEPT !.el = After(rec, Top.el)])
  /\ UNCHANGED <<hashed, size, held, map>>

\* The callback returns.  Its arguments are freed, the next record is
\* looked up, then the result is freed: an iterator nobody else refers to,
\* or anything else.
AfterArgs == FreeValue(Uses(Now, "forEach", Top.el), Top.arg, KeptBy(held, Callers))

Returned(v) ==
  /\ Becomes(FreeValue(Decref(AfterArgs, Top.el, "forEach"), v, KeptBy(held \ {v}, Callers)))
  /\ held' = held \ {v}

ForEachReturns(v) ==
  /\ InProgram /\ calls # <<>>
  /\ Returned(v)
  /\ calls' = SetTop([Top EXCEPT !.calling = FALSE, !.arg = Plain, !.el = After(AfterArgs.rec, Top.el)])
  /\ UNCHANGED <<hashed, size, map>>

ForEachThrows ==
  /\ InProgram /\ calls # <<>>
  /\ Returned(Plain)
  /\ calls' = Callers
  /\ UNCHANGED <<hashed, size, map>>

LoopEnds ==
  /\ stale = {} /\ calls # <<>> /\ ~Top.calling /\ Top.el = End
  /\ calls' = Callers
  /\ UNCHANGED <<rec, hashed, size, it, held, map, stale>>

-----------------------------------------------------------------------------
(* Iterators. *)

\* js_create_map_iterator
Iterate(i) ==
  /\ InProgram
  /\ it[i].obj = "none"
  /\ it' = [it EXCEPT ![i].obj = "map"]
  /\ held' = held \cup {i}
  /\ UNCHANGED <<rec, hashed, size, calls, map, stale>>

\* js_map_iterator_next: from the record it keeps to the next one that is
\* not deleted.
IteratorNext(i) ==
  /\ stale = {} /\ (calls # <<>> => Top.calling)
  /\ i \in held /\ it[i].obj = "map"
  /\ LET cur == it[i].cur
         m == IF cur = End THEN Now ELSE Decref(Now, cur, "next")
         rest == {r \in Live : r > cur}
         to == CHOOSE r \in rest : \A n \in rest : r <= n
         x == m.rec[to] IN
     \/ /\ rest # {}
        /\ Becomes([m EXCEPT !.it[i].cur = to, !.rec[to] = [x EXCEPT !.ref = @ + 1]])
     \/ /\ rest = {}
        /\ Becomes([m EXCEPT !.it[i] = [obj |-> "undefined", cur |-> End]])
  /\ UNCHANGED <<hashed, size, held, calls, map>>

\* The program lets go of an iterator.
Drop(i) ==
  /\ stale = {} /\ (calls # <<>> => Top.calling)
  /\ i \in held /\ held' = held \ {i}
  /\ Becomes(FreeValue(Now, i, KeptBy(held', calls)))
  /\ UNCHANGED <<hashed, size, calls, map>>

-----------------------------------------------------------------------------
(* The end: the map is dropped, iterators that the program has keep it; in *)
(* a cycle with iterators of its own it is left to the collector, which    *)
(* runs the finalizers in any order.                                       *)

DropMap ==
  /\ InProgram /\ calls = <<>>
  /\ map' = "dropped"
  /\ UNCHANGED <<rec, hashed, size, it, held, calls, stale>>

Garbage == map = "dropped" /\ \A i \in held : it[i].obj # "map"

\* js_map_finalizer: what the records hold is freed later.
FinalizeMap ==
  /\ stale = {} /\ Garbage
  /\ map' = "freed"
  /\ rec' = [r \in Records |->
       IF rec[r].linked THEN [rec[r] EXCEPT !.holds = Plain, !.linked = FALSE, !.by = "map"] ELSE rec[r]]
  /\ hashed' = {} /\ size' = 0
  /\ UNCHANGED <<it, held, calls, stale>>

FinalizeIterator(i) ==
  /\ stale = {}
  /\ Garbage \/ map = "freed"
  /\ i \notin held /\ it[i].obj \notin {"none", "freed"}
  /\ Becomes(Finalize(Now, i))
  /\ UNCHANGED <<hashed, size, held, calls, map>>

Program ==
  \/ \E k \in Key : Delete(k) \/ \E v \in {Plain} \cup held : Set(k, v)
  \/ Clear \/ ForEach \/ DropMap \/ ForEachThrows
  \/ \E i \in Iter : Iterate(i) \/ IteratorNext(i) \/ Drop(i)
  \/ \E v \in {Plain} \cup held : ForEachReturns(v)

Machine ==
  \/ ClearTurn \/ ForEachCalls \/ ForEachSkips \/ LoopEnds
  \/ FinalizeMap \/ \E i \in Iter : FinalizeIterator(i)

Next == Program \/ Machine

Spec == Init /\ [][Next]_vars

-----------------------------------------------------------------------------
(* Properties. *)

\* A record that is in the list is counted by itself while it is not
\* deleted, by each iterator that is on it and by each forEach that is in
\* its callback: it is never freed under them nor kept without them.
RefsExact == stale = {} /\ map # "freed" => \A r \in Records :
  LET users == Cardinality({i \in Iter : it[i].obj = "map" /\ it[i].cur = r})
               + Cardinality({n \in DOMAIN calls : calls[n].calling /\ calls[n].el = r})
      refs == users + IF rec[r].empty THEN 0 ELSE 1 IN
  /\ rec[r].linked <=> refs > 0
  /\ rec[r].linked => rec[r].ref = refs

\* The hash table has the records that are not deleted, no two with one
\* key, and record_count is their number.
TableAgrees ==
  /\ map # "freed" => hashed = Live /\ size = Cardinality(Live)
  /\ \A r, n \in Live : rec[r].key = rec[n].key => r = n

\* The list, the hash table and the counts agree at every step, callbacks
\* and iterators included.
TableExact == RefsExact /\ TableAgrees

\* The comment at quickjs.c:47212, "the list can be modified while traversing
\* it, but the current element is locked", is right but for one case: a next
\* record that was deleted before and is kept only by an iterator whose last
\* reference goes with the current one or with the result of the callback.
\* Otherwise nobody uses a record that was freed.
StaleOnlyByFinalizer ==
  stale \subseteq {[user |-> u, freed |-> "finalizer"] : u \in {"clear", "forEach"}}

\* The calls of forEach: a clear frees values and calls nothing back.
Visits == IF calls # <<>> /\ Top.op = "clear" THEN Callers ELSE calls

Gap == [gap |-> TRUE]

Data == [r \in Records |-> IF rec[r].linked /\ ~rec[r].empty
                           THEN [key |-> rec[r].key, value |-> rec[r].holds] ELSE Gap]
Place == [i \in Iter |-> CASE it[i].obj = "undefined" -> -1
                          [] it[i].obj = "freed" -> -2
                          [] OTHER -> it[i].cur]
Loops == [n \in DOMAIN Visits |-> Visits[n].last]

Abstract == INSTANCE AbstractMap WITH
  Value <- {Plain} \cup Iter, Gap <- Gap, data <- Data, place <- Place, loops <- Loops

\* Whatever is set, deleted and cleared meanwhile, iterators and forEach
\* go through the entries in order, each once, added ones included.
ImplementsMap == Abstract!Spec
=============================================================================
