----------------------------- MODULE AbstractMap -----------------------------
(***************************************************************************)
(* What a Map promises to those who iterate over it while it changes.      *)
(* The entries are kept in the order they were added, an entry that is     *)
(* deleted leaves a gap, and nothing is ever taken out: an iterator or a   *)
(* forEach is a place in that sequence.  There are no locks, no list and   *)
(* no hash table.                                                          *)
(***************************************************************************)
EXTENDS Integers, Sequences

CONSTANTS Key, Value, Iter, Gap

VARIABLES
  data,   \* every entry ever added: [key, value], or Gap
  place,  \* where each iterator is: an index, 0 before the first,
          \* Done after the last, Gone when nobody has the iterator
  loops   \* where each forEach in progress is

vars == <<data, place, loops>>

Done == -1
Gone == -2
Entry == [key : Key, value : Value]

Init == data = <<>> /\ place = [i \in Iter |-> 0] /\ loops = <<>>

Add == \E e \in Entry :
  /\ \A n \in DOMAIN data : data[n] # Gap => data[n].key # e.key
  /\ data' = Append(data, e)
  /\ UNCHANGED <<place, loops>>

\* Iterators may be let go at any time, by themselves or with an entry.
Go == \E gone \in SUBSET Iter :
  place' = [i \in Iter |-> IF i \in gone THEN Gone ELSE place[i]]

\* Entries may change their value or go; several at a time.
Change ==
  /\ DOMAIN data' = DOMAIN data
  /\ \A n \in DOMAIN data : data'[n] = Gap \/ (data[n] # Gap /\ data'[n] \in Entry /\ data'[n].key = data[n].key)
  /\ Go /\ UNCHANGED loops

\* The first entry there is after n.
IsAfter(m, n) == m > n /\ data[m] # Gap /\ \A x \in (n + 1)..(m - 1) : data[x] = Gap
Rest(n) == {m \in DOMAIN data : IsAfter(m, n)}

NextOf(i) ==
  /\ place[i] \notin {Done, Gone}
  /\ \/ \E m \in Rest(place[i]) : place' = [place EXCEPT ![i] = m]
     \/ Rest(place[i]) = {} /\ place' = [place EXCEPT ![i] = Done]
  /\ UNCHANGED <<data, loops>>

ForEach == loops' = Append(loops, 0) /\ UNCHANGED <<data, place>>

Top == loops[Len(loops)]
Visit == loops # <<>> /\ \E m \in Rest(Top) :
  loops' = [loops EXCEPT ![Len(loops)] = m] /\ UNCHANGED <<data, place>>

\* A forEach ends when nothing is left, or with an exception.
Leave(thrown) ==
  /\ loops # <<>> /\ (thrown \/ Rest(Top) = {})
  /\ loops' = SubSeq(loops, 1, Len(loops) - 1)
  /\ Go /\ UNCHANGED data

Next ==
  \/ Add \/ Change \/ ForEach \/ Visit
  \/ \E i \in Iter : NextOf(i)
  \/ \E thrown \in BOOLEAN : Leave(thrown)

Spec == Init /\ [][Next]_vars
=============================================================================
