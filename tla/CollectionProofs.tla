------------------------- MODULE CollectionProofs --------------------------
(***************************************************************************)
(* Map and Set, for any keys and iterators and any number of records and   *)
(* calls: the counts are exact, a record is freed when its count is zero,  *)
(* each forEach and iterator goes on to the next live record, and          *)
(* MapTable implements AbstractMap.  Then WeakMap and WeakSet, for any     *)
(* objects, maps and entries, and what frees them.                         *)
(***************************************************************************)
EXTENDS MapTable, WeakTable, FiniteSetTheorems, SequenceTheorems, WellFoundedInduction, TLAPS

Holds == {Plain} \cup Iter
JSMapRecord == [key : Key, holds : Holds, ref : Int, empty : BOOLEAN, linked : BOOLEAN,
                by : {"nobody", "finalizer", "delete", "next", "forEach", "map"}]
JSMapIteratorData == [obj : {"none", "map", "undefined", "freed"}, cur : Nat]
Call == [op : {"forEach", "clear"}, el : Nat, calling : BOOLEAN, arg : Holds, last : Nat]

\* The pair of records and iterators that freeing works on.
Pair(rs, its) == [rec |-> rs, it |-> its, stale |-> {}]

IsOn(x, r) == x.obj = "map" /\ x.cur = r
On(its, r) == {i \in Iter : its[i].obj = "map" /\ its[i].cur = r}
In(fs, r) == {n \in DOMAIN fs : fs[n].calling /\ fs[n].el = r}
Users(its, fs, r) == Cardinality(On(its, r)) + Cardinality(In(fs, r))

\* Records count their users, and themselves while they are not deleted.
Counted(x, users) ==
  LET refs == users + IF x.empty THEN 0 ELSE 1 IN
  (x.linked <=> refs > 0) /\ (x.linked => x.ref = refs)

Sound(rs, its, fs) ==
  /\ rs \in Seq(JSMapRecord) /\ its \in [Iter -> JSMapIteratorData] /\ fs \in Seq(Call)
  /\ \A i \in Iter : its[i].cur # End => its[i].obj = "map" /\ its[i].cur \in DOMAIN rs
  /\ \A r \in DOMAIN rs : Counted(rs[r], Users(its, fs, r))

\* What becomes of a record that is let go of: it may be freed, if it was
\* deleted.
LetGo(x, y, by) ==
  /\ y.key = x.key /\ y.holds = x.holds /\ y.empty = x.empty
  /\ y.linked => x.linked
  /\ x.linked /\ ~y.linked => x.empty /\ y.by = by
  /\ ~x.linked => y.by = x.by

Gone == [obj |-> "freed", cur |-> End]

\* What freeing values makes of the records and iterators.
Freed(rs, its, ss, jts) ==
  /\ DOMAIN ss = DOMAIN rs
  /\ \A r \in DOMAIN rs : LetGo(rs[r], ss[r], "finalizer")
  /\ \A i \in Iter : jts[i] \in {its[i], Gone}

LiveIn(rs) == {r \in DOMAIN rs : rs[r].linked /\ ~rs[r].empty}

Types ==
  /\ rec \in Seq(JSMapRecord) /\ it \in [Iter -> JSMapIteratorData] /\ calls \in Seq(Call)
  /\ held \subseteq Iter /\ map \in {"held", "dropped", "freed"}

Counts ==
  /\ map # "freed" => Sound(rec, it, calls) /\ hashed = LiveIn(rec) /\ size = Cardinality(LiveIn(rec))
  /\ map = "freed" => \A i \in held : it[i].obj # "map"

Keys == \A r, n \in LiveIn(rec) : rec[r].key = rec[n].key => r = n

\* A forEach is on the record it visited last, or on its way to the next one
\* that is there.
Ahead(rs, f) ==
  /\ f.el # End => f.el > f.last
  /\ \A r \in LiveIn(rs) : r > f.last => f.el # End /\ r >= f.el

\* Only the innermost call is not in its callback, and its next record was
\* linked when it was looked up.
AtNext(rs, f) ==
  /\ f.el # End => rs[f.el].linked \/ rs[f.el].by = "finalizer"
  /\ f.op = "forEach" => Ahead(rs, f)

InCallback(f) == f.calling /\ f.op = "forEach" /\ f.el # End /\ f.last = f.el

Frames ==
  /\ map # "held" => calls = <<>>
  /\ \A n \in DOMAIN calls : calls[n].el \in 0..Len(rec) /\ calls[n].last \in 0..Len(rec)
  /\ \A n \in DOMAIN calls : n # Len(calls) \/ calls[n].calling => InCallback(calls[n])
  /\ calls # <<>> /\ ~Top.calling => AtNext(rec, Top)

Inv == Types /\ Counts /\ Keys /\ Frames /\ StaleOnlyByFinalizer

-----------------------------------------------------------------------------
(* Numbers and sets.                                                       *)

LEMMA MinExists ==
  ASSUME NEW S \in SUBSET Nat, S # {}
  PROVE  \E n \in S : \A m \in S : n <= m
<1> DEFINE R == StrictSubsetOrdering(Nat)
           T == {1..n : n \in S}
<1>1. IsWellFoundedOn(R, FiniteSubsetsOf(Nat))
  BY FS_StrictSubsetOrderingWellFounded
<1>2. T # {} /\ T \subseteq FiniteSubsetsOf(Nat)
  <2>1. \A n \in S : IsFiniteSet(1..n) /\ 1..n \in SUBSET Nat
    BY FS_Interval
  <2> QED BY <2>1 DEF FiniteSubsetsOf
<1> HIDE DEF R
<1>3. PICK t \in T : \A u \in T : ~(<<u, t>> \in R)
  BY <1>1, <1>2, WFMin
<1>4. PICK n \in S : t = 1..n
  OBVIOUS
<1>5. ASSUME NEW m \in S, m < n PROVE FALSE
  <2>1. 1..m \in T /\ 1..m \in SUBSET Nat /\ 1..n \in SUBSET Nat
    OBVIOUS
  <2>2. n \in 1..n /\ n \notin 1..m /\ 1..m \subseteq 1..n
    BY <1>5
  <2> QED BY <1>3, <1>4, <2>1, <2>2 DEF R, StrictSubsetOrdering
<1> QED BY <1>5

LEMMA AfterIs ==
  ASSUME NEW rs \in Seq(JSMapRecord), NEW r \in Nat
  PROVE  /\ After(rs, r) \in 0..Len(rs)
         /\ After(rs, r) # End => After(rs, r) > r /\ rs[After(rs, r)].linked
         /\ \A n \in DOMAIN rs : n > r /\ rs[n].linked => After(rs, r) # End /\ n >= After(rs, r)
<1> DEFINE later == {n \in DOMAIN rs : n > r /\ rs[n].linked}
<1>1. CASE later = {}
  <2>1. After(rs, r) = End
    BY <1>1 DEF After
  <2> QED BY <1>1, <2>1 DEF End
<1>2. CASE later # {}
  <2>1. later \in SUBSET Nat
    OBVIOUS
  <2>2. \E n \in later : \A m \in later : n <= m
    BY <1>2, <2>1, MinExists
  <2>3. After(rs, r) = CHOOSE n \in later : \A m \in later : n <= m
    BY <1>2 DEF After
  <2>4. After(rs, r) \in later /\ \A m \in later : After(rs, r) <= m
    <3> HIDE DEF later
    <3> QED BY <2>2, <2>3
  <2>5. After(rs, r) \in 1..Len(rs) /\ After(rs, r) > r /\ rs[After(rs, r)].linked
    BY <2>4
  <2>6. ASSUME NEW n \in DOMAIN rs, n > r, rs[n].linked PROVE n >= After(rs, r)
    BY <2>4, <2>6
  <2> HIDE DEF later
  <2> QED BY <2>5, <2>6 DEF End
<1> QED BY <1>1, <1>2

LEMMA Counting ==
  ASSUME NEW S, IsFiniteSet(S), NEW x
  PROVE  /\ Cardinality(S) \in Nat
         /\ x \in S => Cardinality(S \ {x}) = Cardinality(S) - 1 /\ Cardinality(S) > 0
         /\ x \notin S => Cardinality(S \cup {x}) = Cardinality(S) + 1
<1>1. Cardinality(S) \in Nat
  BY FS_CardinalityType
<1>2. x \in S => Cardinality(S \ {x}) = Cardinality(S) - 1
  BY FS_RemoveElement
<1>3. x \notin S => Cardinality(S \cup {x}) = Cardinality(S) + 1
  BY FS_AddElement
<1>4. x \in S => Cardinality(S) # 0
  BY FS_EmptySet
<1> QED BY <1>1, <1>2, <1>3, <1>4

LEMMA UsersFinite ==
  ASSUME NEW its, NEW fs \in Seq(Call), NEW r
  PROVE  IsFiniteSet(On(its, r)) /\ IsFiniteSet(In(fs, r)) /\ Users(its, fs, r) \in Nat
<1>1. IsFiniteSet(On(its, r))
  BY FS_Subset, TableAssumption DEF On
<1>2. IsFiniteSet(In(fs, r))
  <2>1. IsFiniteSet(DOMAIN fs)
    BY FS_Interval
  <2> QED BY <2>1, FS_Subset DEF In
<1> QED BY <1>1, <1>2, FS_CardinalityType DEF Users

\* An iterator leaves the record it is on, or comes to one.
Others(its, jts, i) == \A j \in Iter \ {i} : jts[j] = its[j]

Loses(its, jts, fs, c) ==
  \A r : r # End => Users(jts, fs, r) = IF r = c THEN Users(its, fs, r) - 1 ELSE Users(its, fs, r)

LEMMA Leaves ==
  ASSUME NEW its, NEW jts, NEW i \in Iter, Others(its, jts, i), NEW c, c # End,
         IsOn(its[i], c), jts[i].obj # "map" \/ jts[i].cur = End, NEW fs \in Seq(Call)
  PROVE  Users(its, fs, c) > 0 /\ Loses(its, jts, fs, c)
<1>1. On(jts, c) = On(its, c) \ {i} /\ i \in On(its, c)
  BY DEF On, IsOn, Others
<1>2. ASSUME NEW r, r # End, r # c PROVE On(jts, r) = On(its, r)
  BY <1>2 DEF On, IsOn, Others
<1>3. /\ Cardinality(On(its, c)) \in Nat /\ Cardinality(On(its, c)) > 0
      /\ Cardinality(On(jts, c)) = Cardinality(On(its, c)) - 1
  BY <1>1, UsersFinite, Counting
<1>4. \A r : Cardinality(In(fs, r)) \in Nat
  BY UsersFinite, FS_CardinalityType
<1>5. Users(its, fs, c) > 0 /\ Users(jts, fs, c) = Users(its, fs, c) - 1
  BY <1>3, <1>4 DEF Users
<1>6. ASSUME NEW r, r # End, r # c PROVE Users(jts, fs, r) = Users(its, fs, r)
  BY <1>2, <1>6 DEF Users
<1> QED BY <1>5, <1>6 DEF Loses

Gains(its, jts, fs, c) ==
  \A r : r # End => Users(jts, fs, r) = IF r = c THEN Users(its, fs, r) + 1 ELSE Users(its, fs, r)

LEMMA Comes ==
  ASSUME NEW its, NEW jts, NEW i \in Iter, Others(its, jts, i), NEW c, c # End,
         IsOn(jts[i], c), its[i].obj # "map" \/ its[i].cur = End, NEW fs \in Seq(Call)
  PROVE  Gains(its, jts, fs, c)
<1>1. On(jts, c) = On(its, c) \cup {i} /\ i \notin On(its, c)
  BY DEF On, IsOn, Others
<1>2. ASSUME NEW r, r # End, r # c PROVE On(jts, r) = On(its, r)
  BY <1>2 DEF On, IsOn, Others
<1>3. /\ Cardinality(On(its, c)) \in Nat
      /\ Cardinality(On(jts, c)) = Cardinality(On(its, c)) + 1
  BY <1>1, UsersFinite, Counting
<1>4. \A r : Cardinality(In(fs, r)) \in Nat
  BY UsersFinite, FS_CardinalityType
<1>5. Users(jts, fs, c) = Users(its, fs, c) + 1
  BY <1>3, <1>4 DEF Users
<1>6. ASSUME NEW r, r # End, r # c PROVE Users(jts, fs, r) = Users(its, fs, r)
  BY <1>2, <1>6 DEF Users
<1> QED BY <1>5, <1>6 DEF Gains

\* The callback of a forEach begins, or ends.
Joins(fs, gs, n, c) ==
  /\ \A r : In(gs, r) = IF r = c THEN In(fs, r) \cup {n} ELSE In(fs, r)
  /\ n \notin In(fs, c)

LEMMA CallsElse ==
  ASSUME NEW fs, NEW gs, NEW its, NEW n, NEW c, Joins(fs, gs, n, c), NEW r, r # c
  PROVE  Users(its, gs, r) = Users(its, fs, r)
BY DEF Joins, Users

LEMMA Calls ==
  ASSUME NEW fs \in Seq(Call), NEW gs \in Seq(Call), NEW its, NEW n, NEW c, Joins(fs, gs, n, c)
  PROVE  Users(its, gs, c) > 0 /\ Users(its, gs, c) = Users(its, fs, c) + 1
<1>1. /\ Cardinality(In(fs, c)) \in Nat
      /\ Cardinality(In(gs, c)) = Cardinality(In(fs, c)) + 1
  BY UsersFinite, Counting DEF Joins
<1>2. \A r : Cardinality(On(its, r)) \in Nat
  BY UsersFinite, FS_CardinalityType
<1>3. Users(its, gs, c) = Users(its, fs, c) + 1
  BY <1>1, <1>2 DEF Users
<1>4. Users(its, fs, c) \in Nat
  BY UsersFinite
<1> QED BY <1>3, <1>4

-----------------------------------------------------------------------------
(* Freeing.                                                                *)

Less(x, by) == [x EXCEPT !.ref = @ - 1, !.linked = @ /\ ~(x.ref = 1),
                         !.by = IF x.ref = 1 THEN by ELSE @]

LEMMA DecrefIs ==
  ASSUME NEW rs, NEW its, NEW c, rs[c].linked, NEW by
  PROVE  Decref(Pair(rs, its), c, by) = Pair([rs EXCEPT ![c] = Less(rs[c], by)], its)
<1>1. Uses(Pair(rs, its), by, c) = Pair(rs, its) /\ Pair(rs, its).rec[c] = rs[c]
  BY DEF Uses, Pair
<1>2. Decref(Pair(rs, its), c, by) = [Pair(rs, its) EXCEPT !.rec[c] = Less(rs[c], by)]
  BY <1>1 DEF Decref, Less
<1>3. PICK y : y = Less(rs[c], by)
  OBVIOUS
<1>4. [Pair(rs, its) EXCEPT !.rec[c] = y] = Pair([rs EXCEPT ![c] = y], its)
  BY DEF Pair
<1> QED BY <1>2, <1>3, <1>4

\* One user less.
LEMMA LessCounted ==
  ASSUME NEW x \in JSMapRecord, NEW u \in Nat, NEW w \in Nat, Counted(x, u), u > 0, w = u - 1,
         NEW by \in {"finalizer", "next", "forEach", "delete"}
  PROVE  x.linked /\ Less(x, by) \in JSMapRecord /\ Counted(Less(x, by), w)
         /\ (~x.empty => Less(x, by).linked)
<1>1. x.linked /\ x.ref = u + IF x.empty THEN 0 ELSE 1
  BY DEF Counted
<1>2. Less(x, by) \in JSMapRecord
  <2>1. ASSUME NEW a \in Int, NEW b \in BOOLEAN,
               NEW d \in {"nobody", "finalizer", "delete", "next", "forEach", "map"}
        PROVE  [x EXCEPT !.ref = a, !.linked = b, !.by = d] \in JSMapRecord
    BY DEF JSMapRecord
  <2>2. x.ref - 1 \in Int /\ (x.linked /\ ~(x.ref = 1)) \in BOOLEAN
        /\ (IF x.ref = 1 THEN by ELSE x.by) \in {"nobody", "finalizer", "delete", "next", "forEach", "map"}
    BY DEF JSMapRecord
  <2> QED BY <2>1, <2>2 DEF Less
<1>3. /\ Less(x, by).empty = x.empty /\ Less(x, by).ref = x.ref - 1
      /\ Less(x, by).linked <=> x.ref # 1
  BY <1>1 DEF Less, JSMapRecord
<1>4. Counted(Less(x, by), w)
  BY <1>1, <1>3 DEF Counted
<1> QED BY <1>1, <1>2, <1>3, <1>4

LEMMA OneLess ==
  ASSUME NEW rs, NEW its, NEW fs, Sound(rs, its, fs), NEW c \in DOMAIN rs,
         NEW by \in {"finalizer", "next", "forEach", "delete"},
         NEW jts \in [Iter -> JSMapIteratorData], NEW gs \in Seq(Call),
         \A i \in Iter : jts[i].cur # End => jts[i].obj = "map" /\ jts[i].cur \in DOMAIN rs,
         Users(its, fs, c) > 0,
         \A r \in DOMAIN rs : Users(jts, gs, r) = IF r = c THEN Users(its, fs, r) - 1 ELSE Users(its, fs, r),
         NEW kts
  PROVE  \E ss : /\ Decref(Pair(rs, kts), c, by) = Pair(ss, kts)
                 /\ Sound(ss, jts, gs) /\ DOMAIN ss = DOMAIN rs
                 /\ \A r \in DOMAIN rs : LetGo(rs[r], ss[r], by)
                 /\ \A r \in DOMAIN rs : r # c => ss[r] = rs[r]
<1> DEFINE ss == [rs EXCEPT ![c] = Less(rs[c], by)]
<1>1. \A r : Users(its, fs, r) \in Nat /\ Users(jts, gs, r) \in Nat
  BY UsersFinite DEF Sound
<1>2. rs[c] \in JSMapRecord /\ Counted(rs[c], Users(its, fs, c))
  BY DEF Sound
<1>3. Users(jts, gs, c) = Users(its, fs, c) - 1
  OBVIOUS
<1>4. /\ rs[c].linked /\ Less(rs[c], by) \in JSMapRecord
      /\ Counted(Less(rs[c], by), Users(jts, gs, c))
      /\ ~rs[c].empty => Less(rs[c], by).linked
  BY <1>1, <1>2, <1>3, LessCounted
<1>5. Decref(Pair(rs, kts), c, by) = Pair(ss, kts)
  BY <1>4, DecrefIs
<1>6. ss \in Seq(JSMapRecord) /\ DOMAIN ss = DOMAIN rs
  BY <1>4 DEF Sound
<1>7. \A r \in DOMAIN rs : Counted(ss[r], Users(jts, gs, r))
  BY <1>4 DEF Sound
<1>8. \A r \in DOMAIN rs : LetGo(rs[r], ss[r], by)
  <2>1. LetGo(rs[c], Less(rs[c], by), by)
    BY <1>2, <1>4 DEF LetGo, Less, JSMapRecord
  <2>2. \A r \in DOMAIN rs : LetGo(rs[r], rs[r], by)
    BY DEF LetGo
  <2> QED BY <2>1, <2>2, <1>6
<1>9. \A r \in DOMAIN rs : r # c => ss[r] = rs[r]
  OBVIOUS
<1>10. Sound(ss, jts, gs)
  BY <1>6, <1>7 DEF Sound
<1> HIDE DEF ss
<1> QED BY <1>5, <1>6, <1>8, <1>9, <1>10

LEMMA FinalizeSound ==
  ASSUME NEW rs, NEW its, NEW fs, Sound(rs, its, fs), NEW i \in Iter, map # "freed"
  PROVE  \E ss, jts : /\ Finalize(Pair(rs, its), i) = Pair(ss, jts)
                      /\ Sound(ss, jts, fs) /\ Freed(rs, its, ss, jts) /\ jts[i] = Gone
<1> DEFINE jts == [its EXCEPT ![i] = Gone]
<1>1. /\ Gone \in JSMapIteratorData /\ jts \in [Iter -> JSMapIteratorData] /\ Gone.obj # "map"
      /\ jts[i] = Gone /\ Others(its, jts, i) /\ \A j \in Iter : jts[j] \in {its[j], Gone}
  BY DEF Gone, JSMapIteratorData, End, Sound, Others
<1>2. \A j \in Iter : jts[j].cur # End => jts[j].obj = "map" /\ jts[j].cur \in DOMAIN rs
  <2>1. Gone.cur = End
    BY DEF Gone
  <2> HIDE DEF jts
  <2> QED BY <1>1, <2>1 DEF Sound
<1>3. CASE its[i].obj = "map" /\ its[i].cur # End
  <2> DEFINE c == its[i].cur
  <2>1. c \in DOMAIN rs /\ c # End /\ IsOn(its[i], c) /\ fs \in Seq(Call)
    BY <1>3 DEF IsOn, Sound
  <2>2. jts[i].obj # "map" \/ jts[i].cur = End
    BY <1>1
  <2>3. Users(its, fs, c) > 0 /\ Loses(its, jts, fs, c)
    <3> HIDE DEF jts, c
    <3> QED BY <1>1, <2>1, <2>2, Leaves
  <2>4. \A r \in DOMAIN rs : r # End
    BY DEF Sound, End
  <2>5. PICK ss : /\ Decref(Pair(rs, its), c, "finalizer") = Pair(ss, its)
                  /\ Sound(ss, jts, fs) /\ DOMAIN ss = DOMAIN rs
                  /\ \A r \in DOMAIN rs : LetGo(rs[r], ss[r], "finalizer")
    <3> HIDE DEF jts, c
    <3> QED BY <1>1, <1>2, <2>1, <2>3, <2>4, OneLess DEF Loses
  <2>6. Finalize(Pair(rs, its), i) = Pair(ss, jts)
    <3>1. Finalize(Pair(rs, its), i) = [Pair(ss, its) EXCEPT !.it[i] = Gone]
      BY <1>3, <2>5 DEF Finalize, Pair, Gone
    <3> QED BY <3>1 DEF Pair
  <2> HIDE DEF jts
  <2> QED BY <1>1, <2>5, <2>6 DEF Freed
<1>4. CASE ~(its[i].obj = "map" /\ its[i].cur # End)
  <2>1. Finalize(Pair(rs, its), i) = Pair(rs, jts)
    <3>1. Finalize(Pair(rs, its), i) = [Pair(rs, its) EXCEPT !.it[i] = Gone]
      BY <1>4 DEF Finalize, Pair, Gone
    <3> QED BY <3>1 DEF Pair
  <2>2. \A r \in DOMAIN rs : On(jts, r) = On(its, r)
    BY <1>1, <1>4 DEF On, End, Sound, Others
  <2>3. \A r \in DOMAIN rs : Counted(rs[r], Users(jts, fs, r))
    BY <2>2 DEF Users, Sound
  <2>4. \A r \in DOMAIN rs : LetGo(rs[r], rs[r], "finalizer")
    BY DEF LetGo
  <2>5. Sound(rs, jts, fs)
    BY <1>1, <1>2, <2>3 DEF Sound
  <2> HIDE DEF jts
  <2> QED BY <1>1, <2>1, <2>4, <2>5 DEF Freed
<1> QED BY <1>3, <1>4

LEMMA FreeValueSound ==
  ASSUME NEW rs, NEW its, NEW fs, Sound(rs, its, fs), NEW v, NEW keep, map # "freed"
  PROVE  \E ss, jts : /\ FreeValue(Pair(rs, its), v, keep) = Pair(ss, jts)
                      /\ Sound(ss, jts, fs) /\ Freed(rs, its, ss, jts)
<1>1. CASE v \in Iter \ keep /\ \A r \in DOMAIN Pair(rs, its).rec : Pair(rs, its).rec[r].holds # v
  <2>1. FreeValue(Pair(rs, its), v, keep) = Finalize(Pair(rs, its), v)
    BY <1>1 DEF FreeValue
  <2> QED BY <1>1, <2>1, FinalizeSound
<1>2. CASE ~(v \in Iter \ keep /\ \A r \in DOMAIN Pair(rs, its).rec : Pair(rs, its).rec[r].holds # v)
  <2>1. FreeValue(Pair(rs, its), v, keep) = Pair(rs, its)
    BY <1>2 DEF FreeValue
  <2>2. Freed(rs, its, rs, its)
    BY DEF Freed, LetGo
  <2> QED BY <2>1, <2>2
<1> QED BY <1>1, <1>2

\* The value of a record changes; or a record comes to count for more.
LEMMA Replaced ==
  ASSUME NEW rs, NEW its, NEW fs, Sound(rs, its, fs), NEW c \in DOMAIN rs, NEW y \in JSMapRecord,
         y.ref = rs[c].ref, y.linked = rs[c].linked, y.empty = rs[c].empty
  PROVE  Sound([rs EXCEPT ![c] = y], its, fs)
<1> DEFINE ss == [rs EXCEPT ![c] = y]
<1>1. ss \in Seq(JSMapRecord) /\ DOMAIN ss = DOMAIN rs
  BY DEF Sound
<1>2. \A r \in DOMAIN rs : Counted(ss[r], Users(its, fs, r))
  BY DEF Sound, Counted
<1> QED BY <1>1, <1>2 DEF Sound

\* A record that is deleted no longer counts for itself.
LEMMA DeletedCounted ==
  ASSUME NEW x \in JSMapRecord, NEW u \in Nat, Counted(x, u), ~x.empty
  PROVE  LET y == Less([x EXCEPT !.empty = TRUE], "delete") IN
         x.linked /\ y \in JSMapRecord /\ Counted(y, u) /\ y.empty
<1> DEFINE z == [x EXCEPT !.empty = TRUE]
           y == Less(z, "delete")
<1>1. x.linked /\ x.ref = u + 1 /\ x.ref \in Int
  BY DEF Counted, JSMapRecord
<1>2. /\ z \in JSMapRecord /\ z.empty /\ z.linked /\ z.ref = x.ref
  BY <1>1 DEF JSMapRecord
<1>3. y \in JSMapRecord
  <2> HIDE DEF z
  <2>1. ASSUME NEW a \in Int, NEW b \in BOOLEAN,
               NEW d \in {"nobody", "finalizer", "delete", "next", "forEach", "map"}
        PROVE  [z EXCEPT !.ref = a, !.linked = b, !.by = d] \in JSMapRecord
    BY <1>2 DEF JSMapRecord
  <2>2. z.ref - 1 \in Int /\ (z.linked /\ ~(z.ref = 1)) \in BOOLEAN
        /\ (IF z.ref = 1 THEN "delete" ELSE z.by) \in {"nobody", "finalizer", "delete", "next", "forEach", "map"}
    BY <1>2 DEF JSMapRecord
  <2> QED BY <2>1, <2>2 DEF Less
<1>4. y.empty /\ y.ref = z.ref - 1 /\ (y.linked <=> z.ref # 1)
  <2> HIDE DEF z
  <2> QED BY <1>2 DEF Less, JSMapRecord
<1>5. Counted(y, u)
  BY <1>1, <1>2, <1>4 DEF Counted
<1> QED BY <1>1, <1>3, <1>4, <1>5

LEMMA Emptied ==
  ASSUME NEW rs, NEW its, NEW c
  PROVE  [Pair(rs, its) EXCEPT !.rec[c].empty = TRUE] = Pair([rs EXCEPT ![c] = [rs[c] EXCEPT !.empty = TRUE]], its)
<1>1. PICK m : m = Pair(rs, its)
  OBVIOUS
<1>2. [m EXCEPT !.rec[c].empty = TRUE] = [m EXCEPT !.rec[c] = [m.rec[c] EXCEPT !.empty = TRUE]]
  OBVIOUS
<1>3. m.rec = rs
  BY <1>1 DEF Pair
<1>4. PICK y : y = [rs[c] EXCEPT !.empty = TRUE]
  OBVIOUS
<1>5. [m EXCEPT !.rec[c] = y] = Pair([rs EXCEPT ![c] = y], its)
  BY <1>1 DEF Pair
<1> QED BY <1>1, <1>2, <1>3, <1>4, <1>5

LEMMA DeleteSound ==
  ASSUME NEW rs, NEW its, NEW fs, Sound(rs, its, fs), NEW c \in DOMAIN rs, ~rs[c].empty, map # "freed"
  PROVE  \E ss, jts : /\ DeleteRecord(Pair(rs, its), c) = Pair(ss, jts)
                      /\ Sound(ss, jts, fs) /\ DOMAIN ss = DOMAIN rs /\ ss[c].empty
                      /\ \A r \in DOMAIN rs \ {c} : LetGo(rs[r], ss[r], "finalizer")
                      /\ \A i \in Iter : jts[i] \in {its[i], Gone}
<1> DEFINE y == [rs[c] EXCEPT !.holds = Plain]
           r1 == [rs EXCEPT ![c] = y]
<1>1. rs \in Seq(JSMapRecord) /\ rs[c] \in JSMapRecord
  BY DEF Sound
<1>2. y \in JSMapRecord /\ y.ref = rs[c].ref /\ y.linked = rs[c].linked /\ y.empty = rs[c].empty
  BY <1>1 DEF JSMapRecord, Holds
<1>3. Sound(r1, its, fs) /\ DOMAIN r1 = DOMAIN rs /\ ~r1[c].empty
  <2>1. Sound(r1, its, fs)
    <3> HIDE DEF y
    <3> QED BY <1>2, Replaced
  <2> QED BY <1>2, <2>1
<1>4. [Pair(rs, its) EXCEPT !.rec[c].holds = Plain] = Pair(r1, its)
  BY DEF Pair
<1>5. PICK r2, jts : /\ FreeValue(Pair(r1, its), rs[c].holds, Kept) = Pair(r2, jts)
                     /\ Sound(r2, jts, fs) /\ Freed(r1, its, r2, jts)
  <2> HIDE DEF r1
  <2> QED BY <1>3, FreeValueSound
<1>6. c \in DOMAIN r2 /\ r2[c] \in JSMapRecord /\ Counted(r2[c], Users(jts, fs, c)) /\ ~r2[c].empty
  BY <1>3, <1>5 DEF Freed, Sound, LetGo
<1> DEFINE z == [r2[c] EXCEPT !.empty = TRUE]
           r3 == [r2 EXCEPT ![c] = z]
           w == Less(z, "delete")
           ss == [r2 EXCEPT ![c] = w]
<1>7. /\ r2[c].linked /\ w \in JSMapRecord /\ Counted(w, Users(jts, fs, c)) /\ w.empty
  <2>1. Users(jts, fs, c) \in Nat
    BY <1>5, UsersFinite DEF Sound
  <2> QED BY <1>6, <2>1, DeletedCounted
<1>8. DeleteRecord(Pair(rs, its), c) = Decref(Pair(r3, jts), c, "delete")
  <2>1. [Pair(r2, jts) EXCEPT !.rec[c].empty = TRUE] = Pair(r3, jts)
    BY Emptied
  <2>2. Pair(rs, its).rec[c].holds = rs[c].holds
    BY DEF Pair
  <2> HIDE DEF r1, r3
  <2> QED BY <1>4, <1>5, <2>1, <2>2 DEF DeleteRecord
<1>9. Decref(Pair(r3, jts), c, "delete") = Pair(ss, jts)
  <2>1. r3[c] = z /\ z.linked /\ [r3 EXCEPT ![c] = w] = ss
    BY <1>5, <1>6, <1>7 DEF JSMapRecord, Sound
  <2> HIDE DEF r3, ss, z
  <2> QED BY <2>1, DecrefIs
<1>10. Sound(ss, jts, fs)
  <2>1. ss \in Seq(JSMapRecord) /\ DOMAIN ss = DOMAIN r2
    BY <1>5, <1>6, <1>7 DEF Sound
  <2>2. \A r \in DOMAIN r2 : Counted(ss[r], Users(jts, fs, r))
    <3> HIDE DEF w
    <3> QED BY <1>5, <1>7 DEF Sound
  <2> HIDE DEF ss
  <2> QED BY <1>5, <2>1, <2>2 DEF Sound
<1>11. DOMAIN ss = DOMAIN rs /\ ss[c] = w
  BY <1>3, <1>5, <1>6 DEF Freed, Sound
<1>12. \A r \in DOMAIN rs \ {c} : LetGo(rs[r], ss[r], "finalizer")
  <2>1. \A r \in DOMAIN rs \ {c} : r1[r] = rs[r] /\ ss[r] = r2[r]
    BY <1>3, <1>5, <1>11 DEF Freed
  <2> HIDE DEF r1, ss
  <2> QED BY <1>3, <1>5, <2>1 DEF Freed
<1> HIDE DEF ss, w
<1> QED BY <1>5, <1>7, <1>8, <1>9, <1>10, <1>11, <1>12 DEF Freed
-----------------------------------------------------------------------------
(* Calls in progress.                                                      *)

LEMMA CallsParts ==
  ASSUME calls \in Seq(Call), calls # <<>>
  PROVE  /\ Len(calls) \in Nat \ {0} /\ Top = calls[Len(calls)] /\ Top \in Call
         /\ Callers \in Seq(Call) /\ Len(Callers) = Len(calls) - 1
         /\ \A n \in 1..(Len(calls) - 1) : Callers[n] = calls[n]
<1>1. Len(calls) \in Nat \ {0} /\ Len(calls) \in 1..Len(calls) /\ calls[Len(calls)] \in Call
  OBVIOUS
<1>2. /\ Callers \in Seq(Call) /\ Len(Callers) = Len(calls) - 1
      /\ \A n \in 1..(Len(calls) - 1) : Callers[n] = calls[n]
  <2> DEFINE l == Len(calls) - 1
  <2>1. l \in Nat /\ \A i \in 1..l : calls[i] \in Call
    BY <1>1
  <2> HIDE DEF l
  <2>2. /\ SubSeq(calls, 1, l) \in Seq(Call)
        /\ Len(SubSeq(calls, 1, l)) = IF 1 <= l THEN l - 1 + 1 ELSE 0
        /\ \A i \in 1..(l - 1 + 1) : SubSeq(calls, 1, l)[i] = calls[1 + i - 1]
    BY <2>1, SubSeqProperties
  <2>3. \A i \in 1..l : i \in 1..(l - 1 + 1) /\ 1 + i - 1 = i
    BY <2>1
  <2>4. Callers = SubSeq(calls, 1, l)
    BY DEF Callers, l
  <2>5. Callers \in Seq(Call) /\ Len(Callers) = l /\ \A n \in 1..l : Callers[n] = calls[n]
    BY <2>1, <2>2, <2>3, <2>4
  <2> QED BY <2>5 DEF l
<1> QED BY <1>1, <1>2 DEF Top

LEMMA SetTopIs ==
  ASSUME calls \in Seq(Call), calls # <<>>, NEW f \in Call
  PROVE  /\ SetTop(f) \in Seq(Call) /\ Len(SetTop(f)) = Len(calls)
         /\ SetTop(f)[Len(calls)] = f
         /\ \A n \in 1..(Len(calls) - 1) : SetTop(f)[n] = calls[n]
BY CallsParts DEF SetTop

LEMMA InSetTop ==
  ASSUME calls \in Seq(Call), calls # <<>>, NEW f \in Call
  PROVE  /\ ~f.calling => \A r : In(SetTop(f), r) = In(Callers, r)
         /\ f.calling => Joins(Callers, SetTop(f), Len(calls), f.el)
         /\ ~Top.calling => \A r : In(calls, r) = In(Callers, r)
         /\ Top.calling => Joins(Callers, calls, Len(calls), Top.el)
<1>1. /\ DOMAIN calls = 1..Len(calls) /\ DOMAIN Callers = 1..(Len(calls) - 1)
      /\ DOMAIN SetTop(f) = 1..Len(calls) /\ Len(calls) \in Nat \ {0}
  BY CallsParts, SetTopIs
<1>2. \A n \in 1..(Len(calls) - 1) : Callers[n] = calls[n] /\ SetTop(f)[n] = calls[n]
  BY CallsParts, SetTopIs
<1>3. SetTop(f)[Len(calls)] = f /\ calls[Len(calls)] = Top
  BY CallsParts, SetTopIs
<1>4. \A n : n \in 1..Len(calls) <=> n \in 1..(Len(calls) - 1) \/ n = Len(calls)
  BY <1>1
<1>5. Len(calls) \notin 1..(Len(calls) - 1)
  BY <1>1
<1> QED BY <1>1, <1>2, <1>3, <1>4, <1>5, Zenon DEF In, Joins

LEMMA InAppend ==
  ASSUME calls \in Seq(Call), NEW f \in Call, ~f.calling
  PROVE  Append(calls, f) \in Seq(Call) /\ \A r : In(Append(calls, f), r) = In(calls, r)
BY DEF In

LEMMA SameUsers ==
  ASSUME NEW rs, NEW its, NEW fs, Sound(rs, its, fs), NEW gs \in Seq(Call), \A r : In(gs, r) = In(fs, r)
  PROVE  Sound(rs, its, gs)
BY DEF Sound, Users

LEMMA OneMore ==
  ASSUME NEW rs, NEW its, NEW fs, Sound(rs, its, fs), NEW c \in DOMAIN rs, rs[c].linked,
         NEW jts \in [Iter -> JSMapIteratorData], NEW gs \in Seq(Call),
         \A i \in Iter : jts[i].cur # End => jts[i].obj = "map" /\ jts[i].cur \in DOMAIN rs,
         \A r \in DOMAIN rs : Users(jts, gs, r) = IF r = c THEN Users(its, fs, r) + 1 ELSE Users(its, fs, r)
  PROVE  Sound([rs EXCEPT ![c].ref = @ + 1], jts, gs)
<1> DEFINE y == [rs[c] EXCEPT !.ref = @ + 1]
           ss == [rs EXCEPT ![c] = y]
<1>1. /\ rs[c] \in JSMapRecord /\ rs \in Seq(JSMapRecord) /\ Users(its, fs, c) \in Nat
      /\ Counted(rs[c], Users(its, fs, c))
  BY UsersFinite DEF Sound
<1>2. y \in JSMapRecord /\ y.linked /\ y.ref = rs[c].ref + 1 /\ y.empty = rs[c].empty
  <2>1. ASSUME NEW x \in JSMapRecord, NEW a \in Int
        PROVE  LET z == [x EXCEPT !.ref = a] IN
               z \in JSMapRecord /\ z.linked = x.linked /\ z.ref = a /\ z.empty = x.empty
    BY DEF JSMapRecord
  <2>2. rs[c].ref + 1 \in Int
    BY <1>1 DEF JSMapRecord
  <2> QED BY <1>1, <2>1, <2>2
<1>3. Counted(y, Users(its, fs, c) + 1)
  BY <1>1, <1>2 DEF Counted
<1>4. ss \in Seq(JSMapRecord) /\ DOMAIN ss = DOMAIN rs
  BY <1>1, <1>2
<1>5. \A r \in DOMAIN rs : Counted(ss[r], Users(jts, gs, r))
  BY <1>3, <1>1 DEF Sound
<1>6. Sound(ss, jts, gs)
  BY <1>4, <1>5 DEF Sound
<1> QED BY <1>6

-----------------------------------------------------------------------------
(* What a step leaves as it is.                                            *)

LEMMA LiveIs ==
  ASSUME NEW rs, NEW its, NEW fs, Sound(rs, its, fs)
  PROVE  LiveIn(rs) = {r \in DOMAIN rs : ~rs[r].empty} /\ IsFiniteSet(LiveIn(rs))
<1>1. \A r \in DOMAIN rs : ~rs[r].empty => rs[r].linked
  BY UsersFinite DEF Sound, Counted
<1>2. IsFiniteSet(LiveIn(rs))
  <2>1. IsFiniteSet(DOMAIN rs)
    BY FS_Interval DEF Sound
  <2> QED BY <2>1, FS_Subset DEF LiveIn
<1> QED BY <1>1, <1>2 DEF LiveIn

LEMMA FreedLive ==
  ASSUME NEW rs, NEW its, NEW ss, NEW jts, NEW fs, NEW gs, Sound(rs, its, fs), Sound(ss, jts, gs),
         DOMAIN ss = DOMAIN rs, \A r \in DOMAIN rs : ss[r].empty = rs[r].empty
  PROVE  LiveIn(ss) = LiveIn(rs)
BY LiveIs

LEMMA KeysKept ==
  ASSUME Keys, LiveIn(rec') \subseteq LiveIn(rec), \A r \in LiveIn(rec') : rec'[r].key = rec[r].key
  PROVE  Keys'
BY DEF Keys, LiveIn

LEMMA FramesSame ==
  ASSUME Types, Types', Frames, calls' = calls, calls # <<>> => Top.calling, Len(rec') >= Len(rec),
         map' = map \/ calls = <<>>
  PROVE  Frames'
BY DEF Frames, Types, Top

LEMMA FramesPush ==
  ASSUME Types, Frames, NEW op \in {"forEach", "clear"}, calls' = Append(calls, Frame(op, After(rec, End))),
         calls # <<>> => Top.calling, rec' = rec, map' = map, map = "held"
  PROVE  Frames' /\ calls' \in Seq(Call) /\ \A r : In(calls', r) = In(calls, r)
<1> DEFINE f == Frame(op, After(rec, End))
<1>1. After(rec, End) \in 0..Len(rec) /\ Len(rec) \in Nat
  BY AfterIs DEF Types, End
<1>2. f \in Call /\ ~f.calling /\ f.el = After(rec, End) /\ f.last = 0 /\ f.op = op
  BY <1>1 DEF Frame, Call, Holds
<1>3. AtNext(rec, f)
  <2>1. \A r \in LiveIn(rec) : r > 0 => f.el # End /\ r >= f.el
    BY <1>2, AfterIs DEF LiveIn, Types, End
  <2>2. f.el # End => f.el > 0 /\ rec[f.el].linked
    BY <1>2, AfterIs DEF Types, End
  <2> QED BY <1>2, <2>1, <2>2 DEF AtNext, Ahead
<1>4. calls' = Append(calls, f) /\ calls \in Seq(Call)
  BY DEF Types
<1> HIDE DEF f
<1>5. /\ calls' \in Seq(Call) /\ Len(calls') = Len(calls) + 1 /\ calls'[Len(calls')] = f
      /\ \A n \in 1..Len(calls) : calls'[n] = calls[n]
      /\ DOMAIN calls' = 1..(Len(calls) + 1) /\ Len(calls) \in Nat /\ calls' # <<>>
  BY <1>2, <1>4
<1>6. \A n \in DOMAIN calls' : calls'[n].el \in 0..Len(rec') /\ calls'[n].last \in 0..Len(rec')
  BY <1>1, <1>2, <1>5 DEF Frames
<1>7. \A n \in DOMAIN calls' : n # Len(calls') \/ calls'[n].calling => InCallback(calls'[n])
  <2>1. ASSUME NEW n \in 1..Len(calls) PROVE InCallback(calls[n])
    BY <1>5 DEF Frames, Top
  <2> QED BY <1>2, <1>5, <2>1
<1>8. Top' = f
  BY <1>5 DEF Top
<1>9. Frames'
  BY <1>3, <1>6, <1>7, <1>8 DEF Frames
<1> QED BY <1>2, <1>4, <1>5, <1>9, InAppend

LEMMA FramesTop ==
  ASSUME Types, Frames, calls # <<>>, NEW f \in Call, calls' = SetTop(f), map' = map,
         Len(rec') = Len(rec), f.el \in 0..Len(rec), f.last \in 0..Len(rec),
         f.calling => InCallback(f), ~f.calling => AtNext(rec', f)
  PROVE  Frames'
<1>1. /\ calls' \in Seq(Call) /\ Len(calls') = Len(calls) /\ calls'[Len(calls)] = f
      /\ \A n \in 1..(Len(calls) - 1) : calls'[n] = calls[n]
      /\ Len(calls) \in Nat \ {0} /\ DOMAIN calls' = 1..Len(calls) /\ DOMAIN calls = 1..Len(calls)
  <2>1. calls \in Seq(Call)
    BY DEF Types
  <2>2. Len(calls) \in Nat \ {0} /\ DOMAIN calls = 1..Len(calls)
    BY <2>1
  <2>3. calls' \in Seq(Call) /\ Len(calls') = Len(calls)
    BY <2>1, SetTopIs
  <2>4. calls'[Len(calls)] = f /\ \A n \in 1..(Len(calls) - 1) : calls'[n] = calls[n]
    BY <2>1, SetTopIs
  <2> QED BY <2>2, <2>3, <2>4
<1>2. \A n \in DOMAIN calls' : calls'[n].el \in 0..Len(rec') /\ calls'[n].last \in 0..Len(rec')
  BY <1>1 DEF Frames
<1>3. \A n \in DOMAIN calls' : n # Len(calls') \/ calls'[n].calling => InCallback(calls'[n])
  BY <1>1 DEF Frames
<1>4. Top' = f
  BY <1>1 DEF Top
<1> QED BY <1>2, <1>3, <1>4 DEF Frames

LEMMA FramesPop ==
  ASSUME Types, Frames, calls # <<>>, calls' = Callers, map' = map, Len(rec') = Len(rec)
  PROVE  Frames'
<1>1. /\ calls' \in Seq(Call) /\ Len(calls') = Len(calls) - 1
      /\ \A n \in 1..(Len(calls) - 1) : calls'[n] = calls[n]
      /\ Len(calls) \in Nat \ {0} /\ DOMAIN calls' = 1..(Len(calls) - 1) /\ DOMAIN calls = 1..Len(calls)
  BY CallsParts DEF Types
<1>2. \A n \in DOMAIN calls' : calls'[n].el \in 0..Len(rec') /\ calls'[n].last \in 0..Len(rec')
  BY <1>1 DEF Frames
<1>3. \A n \in DOMAIN calls' : InCallback(calls'[n])
  BY <1>1 DEF Frames
<1>4. calls' # <<>> => Top'.calling
  <2> SUFFICES ASSUME calls' # <<>> PROVE Top'.calling
    OBVIOUS
  <2>1. Len(calls') \in DOMAIN calls'
    BY <1>1
  <2> QED BY <1>3, <2>1 DEF Top, InCallback
<1>5. map' # "held" => calls' = <<>>
  BY DEF Frames
<1> QED BY <1>2, <1>3, <1>4, <1>5 DEF Frames
-----------------------------------------------------------------------------
(* Each step keeps the invariant.                                          *)

Shrinks ==
  /\ DOMAIN rec' = DOMAIN rec
  /\ \A r \in LiveIn(rec') : r \in LiveIn(rec) /\ rec'[r].key = rec[r].key
  /\ \A i \in Iter : it'[i] \in {it[i], Gone}

LEMMA Becoming ==
  ASSUME NEW rs, NEW its, Becomes(Pair(rs, its))
  PROVE  rec' = rs /\ it' = its /\ stale' = {}
BY DEF Becomes, Pair

LEMMA NowIs == Now = Pair(rec, it)
BY DEF Now, Pair

LEMMA InvSound ==
  ASSUME Inv, Sound(rec', it', calls'), map \in {"held", "dropped"}, map' \in {"held", "dropped"},
         held' \subseteq Iter, hashed' = LiveIn(rec'), size' = Cardinality(LiveIn(rec')),
         Keys', Frames', StaleOnlyByFinalizer'
  PROVE  Inv'
BY DEF Inv, Types, Counts, Sound

LEMMA NoneStale ==
  ASSUME stale' = {}
  PROVE  StaleOnlyByFinalizer'
BY DEF StaleOnlyByFinalizer

\* A value is freed while the program runs, and no record is deleted.
LEMMA FreeingKeeps ==
  ASSUME Inv, stale' = {}, calls' = calls, calls # <<>> => Top.calling, map \in {"held", "dropped"}, map' = map,
         UNCHANGED <<hashed, size>>, held' \subseteq Iter,
         NEW rs, Sound(rs, it, calls), DOMAIN rs = DOMAIN rec,
         \A r \in DOMAIN rec : rs[r].empty = rec[r].empty /\ rs[r].key = rec[r].key,
         Sound(rec', it', calls), Freed(rs, it, rec', it')
  PROVE  Inv' /\ Shrinks
<1>1. DOMAIN rec' = DOMAIN rec /\ \A r \in DOMAIN rec : rec'[r].empty = rec[r].empty /\ rec'[r].key = rec[r].key
  BY DEF Freed, LetGo
<1>2. LiveIn(rec') = LiveIn(rec) /\ Sound(rec, it, calls)
  BY <1>1, FreedLive DEF Inv, Counts
<1>3. Shrinks
  BY <1>1, <1>2 DEF Shrinks, Freed, LiveIn
<1>4. Keys'
  BY <1>3, KeysKept DEF Inv, Shrinks
<1>5. Len(rec') = Len(rec) /\ Len(rec) \in Nat /\ Types'
  BY <1>1 DEF Inv, Types, Sound
<1>6. Frames'
  BY <1>5, FramesSame DEF Inv
<1>7. hashed' = LiveIn(rec') /\ size' = Cardinality(LiveIn(rec'))
  BY <1>2 DEF Inv, Counts
<1> QED BY <1>3, <1>4, <1>6, <1>7, NoneStale, InvSound

LEMMA AddKeeps ==
  ASSUME Inv, InProgram, NEW k \in Key, NEW v \in {Plain} \cup held, Found(k) = {}, Add(k, v),
         UNCHANGED <<held, calls, map>>
  PROVE  Inv' /\ rec' = Append(rec, NewRecord(k, v)) /\ it' = it
<1> DEFINE x == NewRecord(k, v)
           n == Len(rec) + 1
<1>1. /\ Types /\ Sound(rec, it, calls) /\ hashed = LiveIn(rec) /\ size = Cardinality(LiveIn(rec))
      /\ map = "held" /\ Live = LiveIn(rec)
  BY DEF Inv, Counts, InProgram, Live, Linked, Records, LiveIn
<1>2. x \in JSMapRecord /\ x.ref = 1 /\ x.linked /\ ~x.empty /\ x.key = k
  BY <1>1 DEF NewRecord, JSMapRecord, Holds, Types
<1>3. rec' = Append(rec, x) /\ it' = it /\ calls' = calls
  BY DEF Add
<1> HIDE DEF x
<1>4. /\ rec' \in Seq(JSMapRecord) /\ DOMAIN rec' = DOMAIN rec \cup {n} /\ Len(rec') = n /\ rec'[n] = x
      /\ \A r \in DOMAIN rec : rec'[r] = rec[r] /\ r # n
      /\ n \notin DOMAIN rec /\ Len(rec) \in Nat
  BY <1>1, <1>2, <1>3 DEF Types
<1>5. Users(it, calls, n) = 0
  <2>1. On(it, n) = {}
    BY <1>1, <1>4 DEF On, Sound, End
  <2>2. In(calls, n) = {}
    BY <1>4 DEF In, Inv, Frames
  <2>3. Cardinality({}) = 0
    BY FS_EmptySet
  <2> HIDE DEF n
  <2> QED BY <2>1, <2>2, <2>3 DEF Users
<1>6. Sound(rec', it', calls')
  <2>1. Counted(x, 0)
    BY <1>2 DEF Counted
  <2> QED BY <1>1, <1>3, <1>4, <1>5, <2>1 DEF Sound
<1>7. LiveIn(rec') = LiveIn(rec) \cup {n} /\ n \notin LiveIn(rec)
  BY <1>2, <1>4 DEF LiveIn
<1>8. hashed' = LiveIn(rec') /\ size' = Cardinality(LiveIn(rec'))
  <2>1. Cardinality(LiveIn(rec')) = Cardinality(LiveIn(rec)) + 1
    BY <1>1, <1>7, LiveIs, Counting
  <2> QED BY <1>1, <1>7, <2>1 DEF Add
<1>9. Keys'
  <2>1. \A r \in LiveIn(rec) : rec[r].key # k
    BY <1>1 DEF Found
  <2>2. \A r \in LiveIn(rec) : rec'[r] = rec[r]
    BY <1>4 DEF LiveIn
  <2> QED BY <1>2, <1>4, <1>7, <2>1, <2>2 DEF Keys, Inv
<1>10. Frames'
  <2>1. Types'
    BY <1>1, <1>3, <1>4 DEF Types
  <2> QED BY <1>1, <1>3, <1>4, <2>1, FramesSame DEF Inv, InProgram
<1>11. stale' = {} /\ held' \subseteq Iter /\ map' = "held"
  BY <1>1 DEF Add, InProgram, Types
<1>12. Inv'
  BY <1>1, <1>6, <1>8, <1>9, <1>10, <1>11, NoneStale, InvSound
<1> QED BY <1>3, <1>12 DEF x

LEMMA SetKeeps ==
  ASSUME Inv, NEW k \in Key, NEW v \in {Plain} \cup held, Set(k, v)
  PROVE  Inv' /\ (Shrinks \/ (Found(k) = {} /\ rec' = Append(rec, NewRecord(k, v)) /\ it' = it))
<1>1. CASE Found(k) = {}
  <2>1. Add(k, v) /\ InProgram /\ UNCHANGED <<held, calls, map>>
    BY <1>1 DEF Set
  <2> QED BY <1>1, <2>1, AddKeeps
<1>2. CASE Found(k) # {}
  <2>1. PICK r \in Found(k) : /\ Becomes(FreeValue([Now EXCEPT !.rec[r].holds = v], rec[r].holds, Kept))
                              /\ UNCHANGED <<hashed, size>>
    BY <1>2 DEF Set
  <2> DEFINE y == [rec[r] EXCEPT !.holds = v]
             rs == [rec EXCEPT ![r] = y]
  <2>2. /\ Sound(rec, it, calls) /\ rec \in Seq(JSMapRecord) /\ r \in DOMAIN rec /\ map = "held"
        /\ rec[r] \in JSMapRecord /\ UNCHANGED <<held, calls, map>> /\ held \subseteq Iter
        /\ calls # <<>> => Top.calling
    BY DEF Inv, Counts, Set, InProgram, Found, Types, LiveIn
  <2>3. /\ y \in JSMapRecord /\ y.ref = rec[r].ref /\ y.linked = rec[r].linked
        /\ y.empty = rec[r].empty /\ y.key = rec[r].key
    BY <2>2 DEF JSMapRecord, Holds
  <2>4. [Now EXCEPT !.rec[r].holds = v] = Pair(rs, it)
    BY DEF Now, Pair
  <2> HIDE DEF y
  <2>5. Sound(rs, it, calls)
    BY <2>2, <2>3, Replaced
  <2>6. DOMAIN rs = DOMAIN rec /\ \A n \in DOMAIN rec : rs[n].empty = rec[n].empty /\ rs[n].key = rec[n].key
    BY <2>2, <2>3
  <2> HIDE DEF rs
  <2>7. Sound(rec', it', calls) /\ Freed(rs, it, rec', it') /\ stale' = {}
    BY <2>1, <2>2, <2>4, <2>5, FreeValueSound, Becoming
  <2> QED BY <2>1, <2>2, <2>5, <2>6, <2>7, FreeingKeeps
<1> QED BY <1>1, <1>2

LEMMA DeletedLive ==
  ASSUME NEW rs, NEW its, NEW ss, NEW jts, NEW fs, NEW gs, Sound(rs, its, fs), Sound(ss, jts, gs),
         DOMAIN ss = DOMAIN rs, NEW c \in LiveIn(rs), ss[c].empty,
         \A r \in DOMAIN rs \ {c} : ss[r].empty = rs[r].empty
  PROVE  LiveIn(ss) = LiveIn(rs) \ {c} /\ Cardinality(LiveIn(ss)) = Cardinality(LiveIn(rs)) - 1
<1>1. LiveIn(ss) = LiveIn(rs) \ {c}
  BY LiveIs
<1> QED BY <1>1, LiveIs, Counting

\* A record that is there is deleted.
LEMMA DeletingKeeps ==
  ASSUME Inv, map \in {"held", "dropped"}, NEW c \in LiveIn(rec), Becomes(DeleteRecord(Now, c)),
         hashed' = hashed \ {c}, size' = size - 1
  PROVE  /\ Sound(rec', it', calls) /\ hashed' = LiveIn(rec') /\ size' = Cardinality(LiveIn(rec'))
         /\ stale' = {} /\ Shrinks /\ Keys'
         /\ \A r \in DOMAIN rec \ {c} : LetGo(rec[r], rec'[r], "finalizer")
<1>1. Sound(rec, it, calls) /\ c \in DOMAIN rec /\ ~rec[c].empty
  BY DEF Inv, Counts, LiveIn
<1>2. PICK ss, jts : /\ DeleteRecord(Pair(rec, it), c) = Pair(ss, jts)
                     /\ Sound(ss, jts, calls) /\ DOMAIN ss = DOMAIN rec /\ ss[c].empty
                     /\ \A r \in DOMAIN rec \ {c} : LetGo(rec[r], ss[r], "finalizer")
                     /\ \A i \in Iter : jts[i] \in {it[i], Gone}
  BY <1>1, DeleteSound
<1>3. rec' = ss /\ it' = jts /\ stale' = {}
  BY <1>2, NowIs, Becoming
<1>4. \A r \in DOMAIN rec \ {c} : rec'[r].empty = rec[r].empty /\ rec'[r].key = rec[r].key
  BY <1>2, <1>3 DEF LetGo
<1>5. LiveIn(rec') = LiveIn(rec) \ {c} /\ Cardinality(LiveIn(rec')) = Cardinality(LiveIn(rec)) - 1
  BY <1>1, <1>2, <1>3, <1>4, DeletedLive
<1>6. Shrinks
  BY <1>2, <1>3, <1>4, <1>5 DEF Shrinks, LiveIn
<1>7. Keys'
  BY <1>6, KeysKept DEF Inv, Shrinks
<1>8. hashed' = LiveIn(rec') /\ size' = Cardinality(LiveIn(rec'))
  BY <1>5 DEF Inv, Counts
<1> QED BY <1>2, <1>3, <1>6, <1>7, <1>8

LEMMA DeleteKeeps ==
  ASSUME Inv, NEW k \in Key, Delete(k)
  PROVE  Inv' /\ Shrinks
<1>1. PICK c \in Found(k) : Becomes(DeleteRecord(Now, c)) /\ hashed' = hashed \ {c} /\ size' = size - 1
  BY DEF Delete
<1>2. /\ c \in LiveIn(rec) /\ map = "held" /\ UNCHANGED <<held, calls, map>> /\ Types
      /\ calls # <<>> => Top.calling
  BY DEF Inv, Counts, Found, Delete, InProgram
<1>3. /\ Sound(rec', it', calls) /\ hashed' = LiveIn(rec') /\ size' = Cardinality(LiveIn(rec'))
      /\ stale' = {} /\ Shrinks /\ Keys'
  BY <1>1, <1>2, DeletingKeeps
<1>4. Types' /\ Len(rec') = Len(rec) /\ Len(rec) \in Nat
  BY <1>2, <1>3 DEF Types, Sound, Shrinks
<1>5. Frames'
  BY <1>2, <1>4, FramesSame DEF Inv
<1> QED BY <1>2, <1>3, <1>5, NoneStale, InvSound DEF Types

LEMMA ClearKeeps ==
  ASSUME Inv, Clear
  PROVE  Inv'
<1>1. /\ Types /\ Frames /\ Sound(rec, it, calls) /\ map = "held"
      /\ calls # <<>> => Top.calling
      /\ rec' = rec /\ it' = it /\ hashed' = hashed /\ size' = size /\ held' = held /\ map' = map /\ stale' = stale
  BY DEF Clear, InProgram, Inv, Counts
<1>2. Frames' /\ calls' \in Seq(Call) /\ \A r : In(calls', r) = In(calls, r)
  BY <1>1, FramesPush DEF Clear
<1>3. Sound(rec', it', calls')
  BY <1>1, <1>2, SameUsers
<1>4. Keys' /\ StaleOnlyByFinalizer'
  BY <1>1 DEF Inv, Keys, StaleOnlyByFinalizer
<1> QED BY <1>1, <1>2, <1>3, <1>4, InvSound DEF Inv, Counts, Types

LEMMA ForEachKeeps ==
  ASSUME Inv, ForEach
  PROVE  Inv'
<1>1. /\ Types /\ Frames /\ Sound(rec, it, calls) /\ map = "held"
      /\ calls # <<>> => Top.calling
      /\ rec' = rec /\ it' = it /\ hashed' = hashed /\ size' = size /\ held' = held /\ map' = map /\ stale' = stale
  BY DEF ForEach, InProgram, Inv, Counts
<1>2. Frames' /\ calls' \in Seq(Call) /\ \A r : In(calls', r) = In(calls, r)
  BY <1>1, FramesPush DEF ForEach
<1>3. Sound(rec', it', calls')
  BY <1>1, <1>2, SameUsers
<1>4. Keys' /\ StaleOnlyByFinalizer'
  BY <1>1 DEF Inv, Keys, StaleOnlyByFinalizer
<1> QED BY <1>1, <1>2, <1>3, <1>4, InvSound DEF Inv, Counts, Types

\* Calls go on with the map there.
LEMMA Calling ==
  ASSUME Inv, calls # <<>>
  PROVE  /\ Types /\ Frames /\ map = "held" /\ Sound(rec, it, calls)
         /\ hashed = LiveIn(rec) /\ size = Cardinality(LiveIn(rec))
         /\ Top \in Call /\ Len(rec) \in Nat /\ Top.el \in 0..Len(rec) /\ Top.last \in 0..Len(rec)
         /\ Top.calling => InCallback(Top)
         /\ ~Top.calling => AtNext(rec, Top)
<1>1. Types /\ Frames /\ map = "held" /\ calls \in Seq(Call)
  BY DEF Inv, Frames, Types
<1>2. Len(calls) \in DOMAIN calls /\ Top = calls[Len(calls)] /\ Top \in Call
  BY <1>1, CallsParts
<1> QED BY <1>1, <1>2 DEF Inv, Counts, Frames, Types

\* A loop goes on to the next record.
Onward(f, el) == [f EXCEPT !.el = el]

LEMMA OnwardIs ==
  ASSUME NEW f \in Call, NEW el \in Nat
  PROVE  /\ Onward(f, el) \in Call /\ Onward(f, el).el = el /\ Onward(f, el).op = f.op
         /\ Onward(f, el).calling <=> f.calling
         /\ Onward(f, el).last = f.last
BY DEF Onward, Call

LEMMA TopQuiet ==
  ASSUME Inv, calls # <<>>, NEW f \in Call, ~f.calling, ~Top.calling
  PROVE  SetTop(f) \in Seq(Call) /\ \A r : In(SetTop(f), r) = In(calls, r)
BY Calling, SetTopIs, InSetTop DEF Types

LEMMA ClearTurnKeeps ==
  ASSUME Inv, ClearTurn
  PROVE  Inv' /\ Shrinks
<1> DEFINE el == Top.el
           f == Onward(Top, After(rec, el))
<1>1. /\ calls # <<>> /\ Top.op = "clear" /\ el # End /\ UNCHANGED <<held, map>> /\ calls' = SetTop(f)
  BY DEF ClearTurn, Onward
<1>2. /\ Types /\ Frames /\ map = "held" /\ Sound(rec, it, calls)
      /\ hashed = LiveIn(rec) /\ size = Cardinality(LiveIn(rec))
      /\ Top \in Call /\ Len(rec) \in Nat /\ el \in Nat /\ el \in 0..Len(rec) /\ Top.last \in 0..Len(rec)
      /\ rec \in Seq(JSMapRecord)
  BY <1>1, Calling DEF Types
<1>3. ~Top.calling /\ AtNext(rec, Top) /\ el \in DOMAIN rec
  BY <1>1, <1>2, Calling DEF InCallback, End
<1>4. /\ After(rec, el) \in 0..Len(rec)
      /\ After(rec, el) # End => After(rec, el) > el /\ rec[After(rec, el)].linked
  BY <1>2, AfterIs
<1>5. f \in Call /\ f.el = After(rec, el) /\ f.op = "clear" /\ ~f.calling /\ f.last = Top.last
  <2>1. After(rec, el) \in Nat
    BY <1>2, <1>4
  <2> QED BY <1>1, <1>2, <1>3, <2>1, OnwardIs
<1> HIDE DEF f
<1>6. calls' \in Seq(Call) /\ \A r : In(calls', r) = In(calls, r)
  BY <1>1, <1>3, <1>5, TopQuiet
<1>7. CASE /\ rec[el].empty \/ ~rec[el].linked
           /\ Becomes(Uses(Now, "clear", el)) /\ UNCHANGED <<hashed, size>>
  <2>1. /\ rec' = rec /\ it' = it
        /\ stale' = {} \/ (~rec[el].linked /\ stale' = {[user |-> "clear", freed |-> rec[el].by]})
    BY <1>7 DEF Becomes, Uses, Now
  <2>2. StaleOnlyByFinalizer'
    BY <1>1, <1>3, <2>1 DEF StaleOnlyByFinalizer, AtNext
  <2>3. Sound(rec', it', calls')
    BY <1>2, <1>6, <2>1, SameUsers
  <2>4. AtNext(rec', f)
    BY <1>4, <1>5, <2>1 DEF AtNext
  <2>5. Frames'
    BY <1>1, <1>2, <1>4, <1>5, <2>1, <2>4, FramesTop
  <2>6. Keys' /\ Shrinks
    BY <2>1 DEF Inv, Keys, Shrinks, LiveIn
  <2> QED BY <1>1, <1>2, <1>7, <2>1, <2>2, <2>3, <2>5, <2>6, InvSound DEF Types
<1>8. CASE /\ el \in Live /\ Becomes(DeleteRecord(Now, el))
           /\ hashed' = hashed \ {el} /\ size' = size - 1
  <2>1. el \in LiveIn(rec)
    BY <1>8 DEF Live, Linked, Records, LiveIn
  <2>2. /\ Sound(rec', it', calls) /\ hashed' = LiveIn(rec') /\ size' = Cardinality(LiveIn(rec'))
        /\ stale' = {} /\ Shrinks /\ Keys'
        /\ \A r \in DOMAIN rec \ {el} : LetGo(rec[r], rec'[r], "finalizer")
    BY <1>2, <1>8, <2>1, DeletingKeeps
  <2>3. Sound(rec', it', calls')
    BY <1>6, <2>2, SameUsers
  <2>4. AtNext(rec', f)
    <3>1. f.el # End => f.el \in DOMAIN rec \ {el} /\ rec[f.el].linked
      BY <1>2, <1>4, <1>5 DEF End
    <3>2. f.el # End => rec'[f.el].linked \/ rec'[f.el].by = "finalizer"
      BY <2>2, <3>1 DEF LetGo
    <3> QED BY <1>5, <3>2 DEF AtNext
  <2>5. Len(rec') = Len(rec)
    BY <1>2, <2>2 DEF Sound, Shrinks
  <2>6. Frames'
    BY <1>1, <1>2, <1>4, <1>5, <2>4, <2>5, FramesTop
  <2> QED BY <1>1, <1>2, <2>2, <2>3, <2>6, NoneStale, InvSound DEF Types
<1> QED BY <1>7, <1>8 DEF ClearTurn

LEMMA SkipsKeeps ==
  ASSUME Inv, ForEachSkips
  PROVE  Inv' /\ rec' = rec /\ it' = it
<1> DEFINE el == Top.el
           f == Onward(Top, After(rec, el))
<1>1. /\ calls # <<>> /\ Top.op = "forEach" /\ ~Top.calling /\ el # End /\ UNCHANGED <<hashed, size, held, map>>
      /\ calls' = SetTop(f) /\ el \notin Live /\ Becomes(Uses(Now, "forEach", el))
  BY DEF ForEachSkips, AtTurn, Onward
<1>2. /\ Types /\ Frames /\ map = "held" /\ Sound(rec, it, calls)
      /\ hashed = LiveIn(rec) /\ size = Cardinality(LiveIn(rec))
      /\ Top \in Call /\ Len(rec) \in Nat /\ el \in Nat /\ el \in 0..Len(rec) /\ Top.last \in 0..Len(rec)
      /\ rec \in Seq(JSMapRecord) /\ AtNext(rec, Top)
  BY <1>1, Calling DEF Types
<1>3. /\ After(rec, el) \in 0..Len(rec)
      /\ After(rec, el) # End => After(rec, el) > el /\ rec[After(rec, el)].linked
      /\ \A n \in DOMAIN rec : n > el /\ rec[n].linked => After(rec, el) # End /\ n >= After(rec, el)
  BY <1>2, AfterIs
<1>4. f \in Call /\ f.el = After(rec, el) /\ f.op = "forEach" /\ ~f.calling /\ f.last = Top.last
  <2>1. After(rec, el) \in Nat
    BY <1>2, <1>3
  <2> QED BY <1>1, <1>2, <2>1, OnwardIs
<1> HIDE DEF f
<1>5. calls' \in Seq(Call) /\ \A r : In(calls', r) = In(calls, r)
  BY <1>1, <1>4, TopQuiet
<1>6. /\ rec' = rec /\ it' = it
      /\ stale' = {} \/ (~rec[el].linked /\ stale' = {[user |-> "forEach", freed |-> rec[el].by]})
  BY <1>1 DEF Becomes, Uses, Now
<1>7. StaleOnlyByFinalizer'
  BY <1>1, <1>2, <1>6 DEF StaleOnlyByFinalizer, AtNext
<1>8. Sound(rec', it', calls')
  BY <1>2, <1>5, <1>6, SameUsers
<1>9. AtNext(rec', f)
  <2>1. Ahead(rec, Top) /\ el \notin LiveIn(rec)
    BY <1>1, <1>2 DEF AtNext, Live, Linked, Records, LiveIn
  <2>2. ASSUME NEW r \in LiveIn(rec), r > f.last PROVE f.el # End /\ r >= f.el
    <3>1. r \in DOMAIN rec /\ rec[r].linked /\ r \in Nat
      BY <1>2 DEF LiveIn
    <3>2. r >= el /\ r # el
      BY <1>4, <2>1, <2>2 DEF Ahead
    <3>3. r > el
      BY <1>2, <3>1, <3>2
    <3> QED BY <1>3, <1>4, <3>1, <3>3
  <2>3. f.el # End => f.el > f.last
    BY <1>1, <1>2, <1>3, <1>4, <2>1 DEF Ahead
  <2> QED BY <1>3, <1>4, <1>6, <2>2, <2>3 DEF AtNext, Ahead
<1>10. Frames'
  BY <1>1, <1>2, <1>3, <1>4, <1>6, <1>9, FramesTop
<1>11. Keys'
  BY <1>6 DEF Inv, Keys
<1> QED BY <1>1, <1>2, <1>6, <1>7, <1>8, <1>10, <1>11, InvSound DEF Types

\* The callback of a forEach is entered.
Entered(f, arg, el) == [f EXCEPT !.calling = TRUE, !.arg = arg, !.last = el]

LEMMA EnteredIs ==
  ASSUME NEW f \in Call, NEW arg \in Holds, NEW el \in Nat
  PROVE  /\ Entered(f, arg, el) \in Call /\ Entered(f, arg, el).el = f.el /\ Entered(f, arg, el).op = f.op
         /\ Entered(f, arg, el).calling /\ Entered(f, arg, el).last = el
BY DEF Entered, Call

LEMMA CallsKeeps ==
  ASSUME Inv, ForEachCalls
  PROVE  /\ Inv' /\ it' = it /\ LiveIn(rec') = LiveIn(rec) /\ DOMAIN rec' = DOMAIN rec
         /\ \A r \in DOMAIN rec : rec'[r].key = rec[r].key /\ rec'[r].holds = rec[r].holds
<1> DEFINE el == Top.el
           f == Entered(Top, rec[el].holds, el)
<1>1. /\ calls # <<>> /\ Top.op = "forEach" /\ ~Top.calling /\ el \in LiveIn(rec)
      /\ calls' = SetTop(f) /\ rec' = [rec EXCEPT ![el].ref = @ + 1]
      /\ it' = it /\ hashed' = hashed /\ size' = size /\ held' = held /\ map' = map /\ stale' = stale
  BY DEF ForEachCalls, AtTurn, Live, Linked, Records, LiveIn, Entered
<1>2. /\ Types /\ Frames /\ map = "held" /\ Sound(rec, it, calls)
      /\ hashed = LiveIn(rec) /\ size = Cardinality(LiveIn(rec))
      /\ Top \in Call /\ Len(rec) \in Nat /\ el \in Nat /\ el \in 0..Len(rec)
      /\ rec \in Seq(JSMapRecord) /\ calls \in Seq(Call)
  BY <1>1, Calling DEF Types
<1>3. el \in DOMAIN rec /\ rec[el] \in JSMapRecord /\ rec[el].linked /\ el # End
  BY <1>1, <1>2 DEF LiveIn, End
<1>4. f \in Call /\ f.calling /\ f.el = el /\ f.last = el /\ f.op = "forEach"
  <2>1. rec[el].holds \in Holds
    BY <1>3 DEF JSMapRecord
  <2>3. Top.op = "forEach" /\ Top.el = el
    BY <1>1
  <2> HIDE DEF el
  <2> QED BY <1>2, <2>1, <2>3, EnteredIs
<1> HIDE DEF f
<1>5. calls' \in Seq(Call) /\ \A r : Users(it, calls', r) = IF r = el THEN Users(it, calls, r) + 1 ELSE Users(it, calls, r)
  <2>1. calls' \in Seq(Call)
    BY <1>1, <1>2, <1>4, SetTopIs
  <2>2. Joins(calls, calls', Len(calls), el)
    <3>1. Joins(Callers, calls', Len(calls), el) /\ \A r : In(calls, r) = In(Callers, r)
      BY <1>1, <1>2, <1>4, InSetTop
    <3> HIDE DEF el
    <3> QED BY <3>1 DEF Joins
  <2> HIDE DEF el
  <2>3. Users(it, calls', el) = Users(it, calls, el) + 1
    BY <1>2, <2>1, <2>2, Calls
  <2>4. \A r : r # el => Users(it, calls', r) = Users(it, calls, r)
    BY <2>2, CallsElse
  <2> QED BY <2>1, <2>3, <2>4
<1>6. \A i \in Iter : it[i].cur # End => it[i].obj = "map" /\ it[i].cur \in DOMAIN rec
  BY <1>2 DEF Sound
<1>7. Sound(rec', it', calls')
  <2>1. it \in [Iter -> JSMapIteratorData]
    BY <1>2 DEF Types
  <2>2. \A r \in DOMAIN rec : Users(it, calls', r) = IF r = el THEN Users(it, calls, r) + 1 ELSE Users(it, calls, r)
    BY <1>5
  <2> HIDE DEF el
  <2>3. Sound([rec EXCEPT ![el].ref = @ + 1], it, calls')
    BY <1>2, <1>3, <1>5, <1>6, <2>1, <2>2, OneMore
  <2> QED BY <1>1, <2>3
<1>8. /\ DOMAIN rec' = DOMAIN rec /\ Len(rec') = Len(rec)
      /\ \A r \in DOMAIN rec : rec'[r].key = rec[r].key /\ rec'[r].holds = rec[r].holds
                             /\ rec'[r].empty = rec[r].empty
  BY <1>1, <1>2, <1>3 DEF JSMapRecord
<1>9. LiveIn(rec') = LiveIn(rec)
  BY <1>2, <1>7, <1>8, FreedLive
<1>10. Keys'
  BY <1>8, <1>9, KeysKept DEF Inv, LiveIn
<1>11. Frames'
  BY <1>1, <1>2, <1>3, <1>4, <1>8, FramesTop DEF InCallback
<1>12. StaleOnlyByFinalizer'
  BY <1>1 DEF Inv, StaleOnlyByFinalizer
<1> QED BY <1>1, <1>2, <1>7, <1>8, <1>9, <1>10, <1>11, <1>12, InvSound DEF Types

\* The callback returns: what is freed before the next record is looked up,
\* and after it.
LEMMA ReturnedIs ==
  ASSUME Inv, InProgram, calls # <<>>, NEW v, Returned(v)
  PROVE  /\ Sound(rec', it', Callers) /\ stale' = {} /\ Shrinks /\ LiveIn(rec') = LiveIn(rec)
         /\ \A r \in DOMAIN rec : rec'[r].holds = rec[r].holds
         /\ AfterArgs.rec \in Seq(JSMapRecord) /\ Len(AfterArgs.rec) = Len(rec)
         /\ LiveIn(AfterArgs.rec) = LiveIn(rec)
         /\ \A r \in DOMAIN rec : AfterArgs.rec[r].linked /\ r # Top.el =>
              rec'[r].linked \/ rec'[r].by = "finalizer"
<1>1. /\ Types /\ Frames /\ map = "held" /\ Sound(rec, it, calls) /\ Top \in Call
      /\ Top.calling /\ Top.el # End /\ Len(rec) \in Nat /\ Top.el \in 0..Len(rec)
      /\ calls \in Seq(Call) /\ rec \in Seq(JSMapRecord)
  BY Calling DEF InProgram, InCallback, Types
<1>2. PICK c : c = Top.el
  OBVIOUS
<1>3. c \in DOMAIN rec
  BY <1>1, <1>2 DEF End
<1>4. /\ \A its, r : Users(its, Callers, r) \in Nat /\ Users(its, calls, r) \in Nat
      /\ \A its : Users(its, calls, c) > 0
      /\ \A its, r : Users(its, Callers, r) = IF r = c THEN Users(its, calls, r) - 1 ELSE Users(its, calls, r)
  <2>1. Callers \in Seq(Call)
    BY <1>1, CallsParts
  <2>2. Joins(Callers, calls, Len(calls), c)
    BY <1>1, <1>2, InSetTop
  <2>3. \A its, r : Users(its, Callers, r) \in Nat
    BY <2>1, UsersFinite
  <2>4. ASSUME NEW its
        PROVE  Users(its, calls, c) > 0 /\ Users(its, calls, c) = Users(its, Callers, c) + 1
    BY <1>1, <2>1, <2>2, Calls
  <2>6. \A its, r : r # c => Users(its, calls, r) = Users(its, Callers, r)
    BY <2>2, CallsElse
  <2>5. \A its, r : Users(its, calls, r) \in Nat
    BY <1>1, UsersFinite
  <2> QED BY <2>3, <2>4, <2>5, <2>6
<1>5. Uses(Now, "forEach", Top.el) = Pair(rec, it)
  <2>1. rec[c].linked
    BY <1>1, <1>3, <1>4 DEF Sound, Counted
  <2> QED BY <1>2, <2>1 DEF Uses, Now, Pair
<1>6. PICK r1, i1 : AfterArgs = Pair(r1, i1) /\ Sound(r1, i1, calls) /\ Freed(rec, it, r1, i1)
  BY <1>1, <1>5, FreeValueSound DEF AfterArgs
<1>7. PICK r2 : /\ Decref(Pair(r1, i1), c, "forEach") = Pair(r2, i1)
                /\ Sound(r2, i1, Callers) /\ DOMAIN r2 = DOMAIN r1
                /\ \A r \in DOMAIN r1 : LetGo(r1[r], r2[r], "forEach")
                /\ \A r \in DOMAIN r1 : r # c => r2[r] = r1[r]
  <2>1. c \in DOMAIN r1 /\ i1 \in [Iter -> JSMapIteratorData] /\ Callers \in Seq(Call)
    BY <1>1, <1>3, <1>6, CallsParts DEF Freed, Sound
  <2>2. \A i \in Iter : i1[i].cur # End => i1[i].obj = "map" /\ i1[i].cur \in DOMAIN r1
    BY <1>6 DEF Sound
  <2>3. \A r \in DOMAIN r1 : Users(i1, Callers, r) = IF r = c THEN Users(i1, calls, r) - 1 ELSE Users(i1, calls, r)
    BY <1>4
  <2> QED BY <1>4, <1>6, <2>1, <2>2, <2>3, OneLess
<1>8. PICK r3, i3 : /\ FreeValue(Pair(r2, i1), v, KeptBy(held \ {v}, Callers)) = Pair(r3, i3)
                    /\ Sound(r3, i3, Callers) /\ Freed(r2, i1, r3, i3)
  BY <1>1, <1>7, FreeValueSound
<1>9. rec' = r3 /\ it' = i3 /\ stale' = {}
  BY <1>2, <1>6, <1>7, <1>8, Becoming DEF Returned
<1>10. /\ DOMAIN r1 = DOMAIN rec /\ DOMAIN r3 = DOMAIN rec
       /\ \A r \in DOMAIN rec : /\ r1[r].empty = rec[r].empty
                               /\ r3[r].key = rec[r].key /\ r3[r].holds = rec[r].holds
                               /\ r3[r].empty = rec[r].empty
  BY <1>6, <1>7, <1>8 DEF Freed, LetGo
<1>11. \A i \in Iter : it'[i] \in {it[i], Gone}
  BY <1>6, <1>8, <1>9 DEF Freed
<1>12. LiveIn(r1) = LiveIn(rec) /\ LiveIn(rec') = LiveIn(rec)
  BY <1>1, <1>6, <1>8, <1>9, <1>10, FreedLive
<1>13. \A r \in DOMAIN rec : r1[r].linked /\ r # c => rec'[r].linked \/ rec'[r].by = "finalizer"
  BY <1>7, <1>8, <1>9, <1>10 DEF Freed, LetGo
<1>14. r1 \in Seq(JSMapRecord) /\ Len(r1) = Len(rec)
  BY <1>1, <1>6, <1>10 DEF Sound
<1>15. AfterArgs.rec = r1
  BY <1>6 DEF Pair
<1>16. Shrinks
  BY <1>9, <1>10, <1>11, <1>12 DEF Shrinks, LiveIn
<1> QED BY <1>2, <1>8, <1>9, <1>10, <1>12, <1>13, <1>14, <1>15, <1>16

LEMMA ReturnsKeeps ==
  ASSUME Inv, NEW v, ForEachReturns(v)
  PROVE  Inv' /\ Shrinks
<1> DEFINE rs == AfterArgs.rec
           next == After(rs, Top.el)
           f == [Top EXCEPT !.calling = FALSE, !.arg = Plain, !.el = next]
<1>1. /\ InProgram /\ calls # <<>> /\ Returned(v) /\ calls' = SetTop(f)
      /\ hashed' = hashed /\ size' = size /\ map' = map /\ held' \subseteq held
  BY DEF ForEachReturns, Returned
<1>2. /\ Types /\ Frames /\ map = "held" /\ Sound(rec, it, calls)
      /\ hashed = LiveIn(rec) /\ size = Cardinality(LiveIn(rec))
      /\ Top \in Call /\ Len(rec) \in Nat /\ Top.el \in Nat /\ Top.last \in 0..Len(rec)
      /\ InCallback(Top) /\ calls \in Seq(Call) /\ held \subseteq Iter
  BY <1>1, Calling DEF InProgram, Types
<1>3. /\ Sound(rec', it', Callers) /\ stale' = {} /\ Shrinks /\ LiveIn(rec') = LiveIn(rec)
      /\ rs \in Seq(JSMapRecord) /\ Len(rs) = Len(rec) /\ LiveIn(rs) = LiveIn(rec)
      /\ \A r \in DOMAIN rec : rs[r].linked /\ r # Top.el => rec'[r].linked \/ rec'[r].by = "finalizer"
  BY <1>1, ReturnedIs
<1> HIDE DEF rs
<1>4. /\ next \in 0..Len(rec) /\ next \in Nat
      /\ next # End => next > Top.el /\ rs[next].linked
      /\ \A n \in DOMAIN rs : n > Top.el /\ rs[n].linked => next # End /\ n >= next
  <2>1. next \in 0..Len(rec)
    BY <1>2, <1>3, AfterIs
  <2>2. next \in Nat
    BY <1>2, <2>1
  <2>3. next # End => next > Top.el /\ rs[next].linked
    BY <1>2, <1>3, AfterIs
  <2>4. \A n \in DOMAIN rs : n > Top.el /\ rs[n].linked => next # End /\ n >= next
    BY <1>2, <1>3, AfterIs
  <2> QED BY <2>1, <2>2, <2>3, <2>4
<1> HIDE DEF next
<1>5. f \in Call /\ ~f.calling /\ f.el = next /\ f.last = Top.el /\ f.op = "forEach"
  BY <1>2, <1>4 DEF Call, InCallback, Holds
<1> HIDE DEF f
<1>6. calls' \in Seq(Call) /\ \A r : In(calls', r) = In(Callers, r)
  BY <1>1, <1>2, <1>5, SetTopIs, InSetTop
<1>7. Sound(rec', it', calls')
  BY <1>3, <1>6, SameUsers
<1>8. AtNext(rec', f)
  <2>1. f.el # End => rec'[f.el].linked \/ rec'[f.el].by = "finalizer"
    <3>1. next # End => next \in DOMAIN rec /\ next # Top.el
      BY <1>2, <1>4 DEF End, Types
    <3> QED BY <1>3, <1>4, <1>5, <3>1
  <2>2. \A r \in LiveIn(rs) : r > Top.el => next # End /\ r >= next
    BY <1>4 DEF LiveIn
  <2> QED BY <1>3, <1>4, <1>5, <2>1, <2>2 DEF AtNext, Ahead
<1>9. Len(rec') = Len(rec)
  BY <1>2, <1>3 DEF Sound, Shrinks
<1>10. Frames'
  <2>1. f.last \in 0..Len(rec)
    BY <1>2, <1>5 DEF InCallback
  <2> QED BY <1>1, <1>2, <1>4, <1>5, <1>8, <1>9, <2>1, FramesTop
<1>11. Keys'
  BY <1>3, KeysKept DEF Inv, Shrinks
<1> QED BY <1>1, <1>2, <1>3, <1>7, <1>10, <1>11, NoneStale, InvSound

LEMMA ThrowsKeeps ==
  ASSUME Inv, ForEachThrows
  PROVE  Inv' /\ Shrinks
<1>1. /\ InProgram /\ calls # <<>> /\ Returned(Plain) /\ calls' = Callers
      /\ hashed' = hashed /\ size' = size /\ map' = map /\ held' \subseteq held
  BY DEF ForEachThrows, Returned
<1>2. /\ Types /\ Frames /\ map = "held" /\ hashed = LiveIn(rec) /\ size = Cardinality(LiveIn(rec))
      /\ held \subseteq Iter /\ Len(rec) \in Nat
  BY <1>1, Calling DEF Types
<1>3. Sound(rec', it', calls') /\ stale' = {} /\ Shrinks /\ LiveIn(rec') = LiveIn(rec)
  BY <1>1, ReturnedIs
<1>4. Len(rec') = Len(rec)
  BY <1>2, <1>3 DEF Sound, Shrinks, Types
<1>5. Frames'
  BY <1>1, <1>2, <1>4, FramesPop
<1>6. Keys'
  BY <1>3, KeysKept DEF Inv, Shrinks
<1> QED BY <1>1, <1>2, <1>3, <1>5, <1>6, NoneStale, InvSound

LEMMA LoopEndsKeeps ==
  ASSUME Inv, LoopEnds
  PROVE  Inv'
<1>1. /\ calls # <<>> /\ ~Top.calling /\ calls' = Callers
      /\ rec' = rec /\ it' = it /\ hashed' = hashed /\ size' = size /\ held' = held /\ map' = map /\ stale' = stale
  BY DEF LoopEnds
<1>2. /\ Types /\ Frames /\ map = "held" /\ hashed = LiveIn(rec) /\ size = Cardinality(LiveIn(rec))
      /\ held \subseteq Iter /\ calls \in Seq(Call) /\ Sound(rec, it, calls) /\ Top \in Call
  BY <1>1, Calling DEF Types
<1>3. calls' \in Seq(Call) /\ \A r : In(calls', r) = In(calls, r)
  BY <1>1, <1>2, CallsParts, InSetTop
<1>4. Sound(rec', it', calls')
  BY <1>1, <1>2, <1>3, SameUsers
<1>5. Frames'
  BY <1>1, <1>2, FramesPop
<1>6. Keys' /\ StaleOnlyByFinalizer'
  BY <1>1 DEF Inv, Keys, StaleOnlyByFinalizer
<1> QED BY <1>1, <1>2, <1>4, <1>5, <1>6, InvSound

LEMMA IterateKeeps ==
  ASSUME Inv, NEW i \in Iter, Iterate(i)
  PROVE  Inv'
<1>1. /\ map = "held" /\ it[i].obj = "none" /\ it' = [it EXCEPT ![i].obj = "map"] /\ held' = held \cup {i}
      /\ rec' = rec /\ hashed' = hashed /\ size' = size /\ calls' = calls /\ map' = map /\ stale' = stale
  BY DEF Iterate, InProgram
<1>2. /\ Sound(rec, it, calls) /\ it \in [Iter -> JSMapIteratorData] /\ Types /\ Keys /\ Frames
      /\ hashed = LiveIn(rec) /\ size = Cardinality(LiveIn(rec)) /\ StaleOnlyByFinalizer
  BY <1>1 DEF Inv, Counts, Types
<1>3. it[i].cur = End
  BY <1>1, <1>2 DEF Sound
<1>4. it' \in [Iter -> JSMapIteratorData] /\ \A j \in Iter : it'[j].cur = it[j].cur
  BY <1>1, <1>2 DEF JSMapIteratorData
<1>5. \A r \in DOMAIN rec : On(it', r) = On(it, r)
  BY <1>1, <1>2, <1>3 DEF On, Sound, JSMapIteratorData, End
<1>6. Sound(rec', it', calls')
  BY <1>1, <1>2, <1>3, <1>4, <1>5 DEF Sound, Users
<1>7. Keys' /\ Frames' /\ StaleOnlyByFinalizer'
  BY <1>1, <1>2 DEF Keys, Frames, StaleOnlyByFinalizer, Top
<1> QED BY <1>1, <1>2, <1>6, <1>7, InvSound DEF Types

\* The iterator comes to a record, or to the end.
LEMMA NextKeeps ==
  ASSUME Inv, NEW i \in Iter, IteratorNext(i)
  PROVE  /\ Inv' /\ LiveIn(rec') = LiveIn(rec) /\ DOMAIN rec' = DOMAIN rec
         /\ \A r \in DOMAIN rec : rec'[r].key = rec[r].key /\ rec'[r].holds = rec[r].holds
         /\ it[i].obj = "map"
         /\ \/ \E to \in LiveIn(rec) : /\ to > it[i].cur /\ it' = [it EXCEPT ![i].cur = to]
                                      /\ \A n \in LiveIn(rec) : n > it[i].cur => to <= n
            \/ /\ \A n \in LiveIn(rec) : ~(n > it[i].cur)
               /\ it' = [it EXCEPT ![i] = [obj |-> "undefined", cur |-> End]]
<1> DEFINE cur == it[i].cur
           m == IF cur = End THEN Now ELSE Decref(Now, cur, "next")
           rest == {r \in LiveIn(rec) : r > cur}
           to == CHOOSE r \in rest : \A n \in rest : r <= n
           away == [it EXCEPT ![i] = [obj |-> "undefined", cur |-> End]]
           goes == [it EXCEPT ![i].cur = to]
<1>1. /\ it[i].obj = "map" /\ i \in held /\ (calls # <<>> => Top.calling)
      /\ hashed' = hashed /\ size' = size /\ held' = held /\ calls' = calls /\ map' = map
      /\ \/ rest # {} /\ Becomes([m EXCEPT !.it[i].cur = to, !.rec[to] = [m.rec[to] EXCEPT !.ref = @ + 1]])
         \/ rest = {} /\ Becomes([m EXCEPT !.it[i] = [obj |-> "undefined", cur |-> End]])
  BY DEF IteratorNext, Live, Linked, Records, LiveIn
<1>2. /\ map \in {"held", "dropped"} /\ Types /\ Frames /\ Keys /\ Sound(rec, it, calls)
      /\ hashed = LiveIn(rec) /\ size = Cardinality(LiveIn(rec))
      /\ rec \in Seq(JSMapRecord) /\ it \in [Iter -> JSMapIteratorData] /\ calls \in Seq(Call) /\ held \subseteq Iter
  BY <1>1 DEF Inv, Counts, Types
<1>3. /\ away \in [Iter -> JSMapIteratorData] /\ away[i] = [obj |-> "undefined", cur |-> End]
      /\ Others(it, away, i) /\ away[i].obj # "map"
  BY <1>2 DEF JSMapIteratorData, End, Others
<1>4. \A j \in Iter : away[j].cur # End => away[j].obj = "map" /\ away[j].cur \in DOMAIN rec
  BY <1>2, <1>3 DEF Sound, Others
\* It leaves the record it is on.
<1>5. PICK r1 : /\ m = Pair(r1, it) /\ Sound(r1, away, calls) /\ DOMAIN r1 = DOMAIN rec
                /\ \A r \in DOMAIN rec : LetGo(rec[r], r1[r], "next")
  <2>1. CASE cur = End
    <3>1. m = Pair(rec, it)
      BY <2>1, NowIs
    <3>2. \A r \in DOMAIN rec : On(away, r) = On(it, r)
      BY <1>2, <1>3, <2>1 DEF On, Others, End
    <3>3. Sound(rec, away, calls)
      BY <1>2, <1>3, <1>4, <3>2 DEF Sound, Users
    <3> HIDE DEF m, away
    <3> QED BY <3>1, <3>3 DEF LetGo
  <2>2. CASE cur # End
    <3>1. IsOn(it[i], cur) /\ cur \in DOMAIN rec
      BY <1>1, <1>2, <2>2 DEF IsOn, Sound
    <3> HIDE DEF cur, away
    <3>2. Users(it, calls, cur) > 0 /\ Loses(it, away, calls, cur)
      BY <1>2, <1>3, <2>2, <3>1, Leaves
    <3>3. \A r \in DOMAIN rec : r # End
      BY <1>2 DEF End
    <3>4. PICK ss : /\ Decref(Pair(rec, it), cur, "next") = Pair(ss, it)
                    /\ Sound(ss, away, calls) /\ DOMAIN ss = DOMAIN rec
                    /\ \A r \in DOMAIN rec : LetGo(rec[r], ss[r], "next")
      BY <1>2, <1>3, <1>4, <3>1, <3>2, <3>3, OneLess DEF Loses
    <3>5. m = Pair(ss, it)
      BY <2>2, <3>4, NowIs
    <3> QED BY <3>4, <3>5
  <2> QED BY <2>1, <2>2
<1> HIDE DEF m
<1>6. \A r \in DOMAIN rec : r1[r].empty = rec[r].empty /\ r1[r].key = rec[r].key /\ r1[r].holds = rec[r].holds
  BY <1>5 DEF LetGo
<1>7. LiveIn(r1) = LiveIn(rec) /\ r1 \in Seq(JSMapRecord)
  <2>1. r1 \in Seq(JSMapRecord)
    BY <1>5 DEF Sound
  <2> HIDE DEF cur, rest, to, away, goes
  <2>2. LiveIn(r1) = LiveIn(rec)
    BY <1>2, <1>5, <1>6, FreedLive
  <2> QED BY <2>1, <2>2
<1>8. CASE rest = {}
  <2>1. Becomes([m EXCEPT !.it[i] = [obj |-> "undefined", cur |-> End]])
    BY <1>1, <1>8
  <2>2. [m EXCEPT !.it[i] = [obj |-> "undefined", cur |-> End]] = Pair(r1, away)
    BY <1>5 DEF Pair
  <2>3. rec' = r1 /\ it' = away /\ stale' = {}
    BY <2>1, <2>2, Becoming
  <2>4. Sound(rec', it', calls')
    BY <1>1, <1>5, <2>3
  <2>5. Keys'
    BY <1>2, <1>6, <1>7, <2>3, KeysKept DEF LiveIn
  <2>6. Types' /\ Len(rec') = Len(rec)
    BY <1>1, <1>2, <1>3, <1>5, <1>7, <2>3 DEF Types
  <2>7. Frames'
    BY <1>1, <1>2, <2>6, FramesSame
  <2>8. Inv'
    BY <1>1, <1>2, <1>7, <2>3, <2>4, <2>5, <2>7, NoneStale, InvSound
  <2> QED BY <1>1, <1>5, <1>6, <1>7, <1>8, <2>3, <2>8
<1>9. CASE rest # {}
  <2>1. Becomes([m EXCEPT !.it[i].cur = to, !.rec[to] = [m.rec[to] EXCEPT !.ref = @ + 1]])
    BY <1>1, <1>9
  <2>2. to \in rest /\ \A n \in rest : to <= n
    <3>1. rest \in SUBSET Nat
      BY <1>2 DEF LiveIn
    <3>2. \E r \in rest : \A n \in rest : r <= n
      BY <1>9, <3>1, MinExists
    <3> HIDE DEF rest
    <3> QED BY <3>2
  <2>3. to \in LiveIn(rec) /\ to > cur /\ to \in DOMAIN rec /\ \A n \in LiveIn(rec) : n > cur => to <= n
    BY <2>2 DEF LiveIn
  <2> HIDE DEF to
  <2> DEFINE r2 == [r1 EXCEPT ![to].ref = @ + 1]
  <2>4. [m EXCEPT !.it[i].cur = to, !.rec[to] = [m.rec[to] EXCEPT !.ref = @ + 1]] = Pair(r2, goes)
    <3>1. PICK y : y = [r1[to] EXCEPT !.ref = @ + 1]
      OBVIOUS
    <3>2. PICK n : n = m
      OBVIOUS
    <3>3. n.rec = r1 /\ n.it = it
      BY <1>5, <3>2 DEF Pair
    <3>4. [n EXCEPT !.it[i].cur = to, !.rec[to] = y] = Pair([r1 EXCEPT ![to] = y], goes)
      <4>1. PICK g : g = [it[i] EXCEPT !.cur = to]
        OBVIOUS
      <4>2. [n EXCEPT !.it[i].cur = to, !.rec[to] = y] = [n EXCEPT !.it[i] = g, !.rec[to] = y]
        BY <3>3, <4>1
      <4>3. goes = [it EXCEPT ![i] = g]
        BY <4>1
      <4>4. [n EXCEPT !.it[i] = g, !.rec[to] = y] = Pair([r1 EXCEPT ![to] = y], [it EXCEPT ![i] = g])
        <5>1. PICK o : o = [n EXCEPT !.it[i] = g]
          OBVIOUS
        <5>2. o = Pair(r1, [it EXCEPT ![i] = g])
          BY <1>5, <3>2, <5>1 DEF Pair
        <5>3. [n EXCEPT !.it[i] = g, !.rec[to] = y] = [o EXCEPT !.rec[to] = y]
          BY <5>1
        <5>4. [o EXCEPT !.rec[to] = y] = Pair([r1 EXCEPT ![to] = y], [it EXCEPT ![i] = g])
          BY <5>2 DEF Pair
        <5> QED BY <5>3, <5>4
      <4> HIDE DEF goes
      <4> QED BY <4>2, <4>3, <4>4
    <3>5. m.rec[to] = r1[to]
      BY <3>2, <3>3
    <3> HIDE DEF goes
    <3> QED BY <3>1, <3>2, <3>4, <3>5
  <2>5. rec' = r2 /\ it' = goes /\ stale' = {}
    BY <2>1, <2>4, Becoming
  <2>6. /\ goes \in [Iter -> JSMapIteratorData] /\ IsOn(goes[i], to) /\ Others(away, goes, i) /\ to # End
        /\ away[i].obj # "map" \/ away[i].cur = End
        /\ \A j \in Iter : goes[j].cur # End => goes[j].obj = "map" /\ goes[j].cur \in DOMAIN r1
    BY <1>1, <1>2, <1>5, <2>3 DEF JSMapIteratorData, IsOn, Others, Sound, End
  <2> HIDE DEF goes, away
  <2>7. Gains(away, goes, calls, to)
    <3> HIDE DEF cur, rest, m, r2
    <3>1. calls \in Seq(Call)
      BY <1>2
    <3>2. Others(away, goes, i) /\ to # End /\ IsOn(goes[i], to) /\ (away[i].obj # "map" \/ away[i].cur = End)
      BY <2>6
    <3> QED BY <3>1, <3>2, Comes
  <2>8. Sound(r2, goes, calls)
    <3> HIDE DEF cur, rest, m, r2
    <3>1. \A r \in DOMAIN r1 : r # End
      BY <1>7 DEF End
    <3>2. to \in DOMAIN r1 /\ r1[to].linked
      BY <1>5, <1>7, <2>3 DEF LiveIn
    <3>3. Sound(r1, away, calls) /\ calls \in Seq(Call) /\ goes \in [Iter -> JSMapIteratorData]
      BY <1>2, <1>5, <2>6
    <3>4. \A r \in DOMAIN r1 : Users(goes, calls, r) = IF r = to THEN Users(away, calls, r) + 1 ELSE Users(away, calls, r)
      BY <2>7, <3>1 DEF Gains
    <3>5. Sound([r1 EXCEPT ![to].ref = @ + 1], goes, calls)
      BY <2>6, <3>2, <3>3, <3>4, OneMore
    <3> QED BY <3>5 DEF r2
  <2>9. /\ DOMAIN r2 = DOMAIN rec
        /\ \A r \in DOMAIN rec : /\ r2[r].empty = rec[r].empty /\ r2[r].key = rec[r].key
                                /\ r2[r].holds = rec[r].holds
    BY <1>5, <1>6, <1>7 DEF JSMapRecord
  <2> HIDE DEF r2
  <2>10. LiveIn(r2) = LiveIn(rec)
    BY <1>2, <2>8, <2>9, FreedLive
  <2>11. Keys'
    BY <1>2, <2>5, <2>9, <2>10, KeysKept DEF LiveIn
  <2>12. Types' /\ Len(rec') = Len(rec)
    BY <1>1, <1>2, <2>5, <2>6, <2>8, <2>9 DEF Types, Sound
  <2>13. Frames'
    BY <1>1, <1>2, <2>12, FramesSame
  <2>14. Inv'
    BY <1>1, <1>2, <2>5, <2>8, <2>10, <2>11, <2>13, NoneStale, InvSound
  <2> QED BY <1>1, <2>3, <2>5, <2>9, <2>10, <2>14 DEF goes
<1> QED BY <1>8, <1>9

\* The map is freed, and an iterator goes: it takes no record with it.
LEMMA GoneLater ==
  ASSUME Inv, map = "freed", map' = map, calls' = calls, NEW i \in Iter, Becomes([Now EXCEPT !.it[i] = Gone]),
         held' \subseteq held, UNCHANGED <<hashed, size>>
  PROVE  Inv' /\ Shrinks
<1>1. rec' = rec /\ it' = [it EXCEPT ![i] = Gone] /\ stale' = {}
  BY DEF Becomes, Now
<1>2. Types /\ Frames /\ Keys /\ calls = <<>> /\ \A j \in held : it[j].obj # "map"
  BY DEF Inv, Frames, Counts
<1>3. Gone \in JSMapIteratorData /\ Gone.obj # "map"
  BY DEF Gone, JSMapIteratorData, End
<1>4. Types'
  BY <1>1, <1>2, <1>3 DEF Types
<1>5. Counts'
  BY <1>1, <1>2, <1>3 DEF Counts, Types
<1>6. Keys' /\ Frames' /\ Shrinks
  BY <1>1, <1>2 DEF Keys, Frames, Shrinks, LiveIn, Types, Top
<1> QED BY <1>1, <1>4, <1>5, <1>6, NoneStale DEF Inv

LEMMA DropKeeps ==
  ASSUME Inv, NEW i \in Iter, Drop(i)
  PROVE  Inv' /\ Shrinks
<1>1. /\ i \in held /\ held' = held \ {i} /\ (calls # <<>> => Top.calling)
      /\ Becomes(FreeValue(Now, i, KeptBy(held', calls)))
      /\ hashed' = hashed /\ size' = size /\ calls' = calls /\ map' = map
  BY DEF Drop
<1>2. Types
  BY DEF Inv
<1>3. CASE map # "freed"
  <2>1. map \in {"held", "dropped"} /\ Sound(rec, it, calls) /\ held' \subseteq Iter
    BY <1>1, <1>2, <1>3 DEF Inv, Counts, Types
  <2>2. Sound(rec', it', calls) /\ Freed(rec, it, rec', it') /\ stale' = {}
    BY <1>1, <1>3, <2>1, NowIs, FreeValueSound, Becoming
  <2> QED BY <1>1, <2>1, <2>2, FreeingKeeps
<1>4. CASE map = "freed"
  <2>1. CASE Becomes(Now)
    <3>1. rec' = rec /\ it' = it /\ stale' = {}
      BY <2>1 DEF Becomes, Now
    <3>2. Keys' /\ Frames' /\ Shrinks /\ Types' /\ Counts'
      BY <1>1, <1>4, <3>1 DEF Inv, Keys, Frames, Shrinks, LiveIn, Types, Top, Counts
    <3> QED BY <3>1, <3>2, NoneStale DEF Inv
  <2>2. CASE Becomes(Finalize(Now, i))
    <3>1. Finalize(Now, i) = [Now EXCEPT !.it[i] = Gone]
      BY <1>4 DEF Finalize, Gone
    <3> QED BY <1>1, <1>4, <2>2, <3>1, GoneLater
  <2> QED BY <1>1, <2>1, <2>2 DEF FreeValue
<1> QED BY <1>3, <1>4

LEMMA FinalizeIteratorKeeps ==
  ASSUME Inv, NEW i \in Iter, FinalizeIterator(i)
  PROVE  Inv' /\ Shrinks
<1>1. /\ Becomes(Finalize(Now, i)) /\ map \in {"dropped", "freed"}
      /\ hashed' = hashed /\ size' = size /\ calls' = calls /\ map' = map /\ held' = held
  BY DEF FinalizeIterator, Garbage
<1>2. Types /\ calls = <<>>
  BY <1>1 DEF Inv, Frames
<1>3. CASE map # "freed"
  <2>1. map \in {"held", "dropped"} /\ Sound(rec, it, calls) /\ held' \subseteq Iter
    BY <1>1, <1>2, <1>3 DEF Inv, Counts, Types
  <2>2. Sound(rec', it', calls) /\ Freed(rec, it, rec', it') /\ stale' = {}
    BY <1>1, <1>3, <2>1, NowIs, FinalizeSound, Becoming
  <2> QED BY <1>1, <1>2, <2>1, <2>2, FreeingKeeps
<1>4. CASE map = "freed"
  <2>1. Finalize(Now, i) = [Now EXCEPT !.it[i] = Gone]
    BY <1>4 DEF Finalize, Gone
  <2> QED BY <1>1, <1>4, <2>1, GoneLater
<1> QED BY <1>3, <1>4

LEMMA FinalizeMapKeeps ==
  ASSUME Inv, FinalizeMap
  PROVE  Inv' /\ Shrinks
<1> DEFINE Off(x) == [x EXCEPT !.holds = Plain, !.linked = FALSE, !.by = "map"]
<1>1. /\ map = "dropped" /\ map' = "freed" /\ it' = it /\ held' = held /\ calls' = calls /\ stale' = stale
      /\ stale = {} /\ \A i \in held : it[i].obj # "map"
      /\ rec' = [r \in DOMAIN rec |-> IF rec[r].linked THEN Off(rec[r]) ELSE rec[r]]
  BY DEF FinalizeMap, Garbage, Records
<1>2. Types /\ calls = <<>> /\ rec \in Seq(JSMapRecord)
  BY <1>1 DEF Inv, Frames, Types
<1>3. ASSUME NEW r \in DOMAIN rec PROVE rec'[r] \in JSMapRecord /\ ~rec'[r].linked
  <2>1. ASSUME NEW x \in JSMapRecord PROVE Off(x) \in JSMapRecord /\ ~Off(x).linked
    BY DEF JSMapRecord, Holds
  <2>2. rec[r] \in JSMapRecord
    BY <1>2
  <2> HIDE DEF Off
  <2> QED BY <1>1, <2>1, <2>2
<1>4. DOMAIN rec' = DOMAIN rec /\ rec' \in Seq(JSMapRecord) /\ Len(rec') = Len(rec)
  <2> HIDE DEF Off
  <2>1. DOMAIN rec = 1..Len(rec) /\ Len(rec) \in Nat
    BY <1>2
  <2>2. DOMAIN rec' = 1..Len(rec)
    BY <1>1, <2>1
  <2>3. rec' = [r \in 1..Len(rec) |-> rec'[r]]
    BY <1>1, <2>1
  <2>4. rec' \in [1..Len(rec) -> JSMapRecord]
    BY <1>3, <2>1, <2>3, Zenon
  <2>5. rec' \in Seq(JSMapRecord)
    BY <2>1, <2>4, SeqDef
  <2> QED BY <2>1, <2>2, <2>5
<1>5. LiveIn(rec') = {}
  BY <1>3, <1>4 DEF LiveIn
<1>6. Types' /\ Counts'
  BY <1>1, <1>2, <1>4 DEF Types, Counts
<1> HIDE DEF Off
<1>7. Keys' /\ Shrinks
  BY <1>1, <1>4, <1>5 DEF Keys, Shrinks
<1>8. Frames'
  <2>1. calls' = <<>> /\ DOMAIN calls' = {}
    BY <1>1, <1>2
  <2> QED BY <2>1 DEF Frames
<1> QED BY <1>1, <1>6, <1>7, <1>8, NoneStale DEF Inv

LEMMA DropMapKeeps ==
  ASSUME Inv, DropMap
  PROVE  Inv'
<1>1. /\ map = "held" /\ map' = "dropped" /\ calls = <<>> /\ rec' = rec /\ it' = it /\ held' = held /\ calls' = calls
      /\ hashed' = hashed /\ size' = size /\ stale' = stale
  BY DEF DropMap, InProgram
<1> QED BY <1>1 DEF Inv, Types, Counts, Keys, Frames, LiveIn, StaleOnlyByFinalizer, Top

-----------------------------------------------------------------------------
(* The invariant and what follows from it.                                 *)

LEMMA InvInit ==
  ASSUME Init
  PROVE  Inv
<1>1. /\ rec = <<>> /\ hashed = {} /\ size = 0 /\ held = {} /\ calls = <<>> /\ map = "held" /\ stale = {}
      /\ it = [i \in Iter |-> [obj |-> "none", cur |-> End]]
  BY DEF Init
<1>2. [obj |-> "none", cur |-> End] \in JSMapIteratorData
  BY DEF JSMapIteratorData, End
<1>3. Types
  BY <1>1, <1>2 DEF Types
<1>4. Sound(rec, it, calls) /\ LiveIn(rec) = {}
  BY <1>1, <1>3 DEF Sound, LiveIn, Types
<1>5. Counts
  BY <1>1, <1>4, FS_EmptySet DEF Counts
<1>6. Keys /\ Frames /\ StaleOnlyByFinalizer
  BY <1>1, <1>4 DEF Keys, Frames, StaleOnlyByFinalizer
<1> QED BY <1>3, <1>5, <1>6 DEF Inv

LEMMA InvNext ==
  ASSUME Inv, [Next]_vars
  PROVE  Inv'
<1>1. ASSUME NEW k \in Key, Delete(k) PROVE Inv'
  BY <1>1, DeleteKeeps
<1>2. ASSUME NEW k \in Key, NEW v \in {Plain} \cup held, Set(k, v) PROVE Inv'
  BY <1>2, SetKeeps
<1>3. CASE Clear
  BY <1>3, ClearKeeps
<1>4. CASE ForEach
  BY <1>4, ForEachKeeps
<1>5. CASE DropMap
  BY <1>5, DropMapKeeps
<1>6. CASE ForEachThrows
  BY <1>6, ThrowsKeeps
<1>7. ASSUME NEW i \in Iter, Iterate(i) PROVE Inv'
  BY <1>7, IterateKeeps
<1>8. ASSUME NEW i \in Iter, IteratorNext(i) PROVE Inv'
  BY <1>8, NextKeeps
<1>9. ASSUME NEW i \in Iter, Drop(i) PROVE Inv'
  BY <1>9, DropKeeps
<1>10. ASSUME NEW v \in {Plain} \cup held, ForEachReturns(v) PROVE Inv'
  BY <1>10, ReturnsKeeps
<1>11. CASE ClearTurn
  BY <1>11, ClearTurnKeeps
<1>12. CASE ForEachCalls
  BY <1>12, CallsKeeps
<1>13. CASE ForEachSkips
  BY <1>13, SkipsKeeps
<1>14. CASE LoopEnds
  BY <1>14, LoopEndsKeeps
<1>15. CASE FinalizeMap
  BY <1>15, FinalizeMapKeeps
<1>16. ASSUME NEW i \in Iter, FinalizeIterator(i) PROVE Inv'
  BY <1>16, FinalizeIteratorKeeps
<1>17. CASE UNCHANGED vars
  <2>1. /\ rec' = rec /\ hashed' = hashed /\ size' = size /\ it' = it /\ held' = held /\ calls' = calls
        /\ map' = map /\ stale' = stale
    BY <1>17 DEF vars
  <2> QED BY <2>1 DEF Inv, Types, Counts, Keys, Frames, StaleOnlyByFinalizer, Top, LiveIn
<1> QED BY <1>1, <1>2, <1>3, <1>4, <1>5, <1>6, <1>7, <1>8, <1>9, <1>10, <1>11, <1>12, <1>13, <1>14,
           <1>15, <1>16, <1>17 DEF Next, Program, Machine

\* The records, the iterators and the calls stay what the invariant says.
THEOREM InvAlways == Spec => []Inv
<1>1. Init => Inv
  BY InvInit
<1>2. Inv /\ [Next]_vars => Inv'
  BY InvNext
<1> QED BY <1>1, <1>2, PTL DEF Spec

LEMMA Exact ==
  ASSUME Inv
  PROVE  TableExact
<1>1. RefsExact
  <2> SUFFICES ASSUME map # "freed", NEW r \in Records
               PROVE  LET users == Cardinality(On(it, r)) + Cardinality(In(calls, r))
                          refs == users + IF rec[r].empty THEN 0 ELSE 1 IN
                      /\ rec[r].linked <=> refs > 0
                      /\ rec[r].linked => rec[r].ref = refs
    BY DEF RefsExact, On, In
  <2>1. Counted(rec[r], Users(it, calls, r))
    BY DEF Inv, Counts, Sound, Records
  <2> QED BY <2>1 DEF Counted, Users
<1>2. TableAgrees
  <2>1. Live = LiveIn(rec)
    BY DEF Live, Linked, Records, LiveIn
  <2> QED BY <2>1 DEF TableAgrees, Inv, Counts, Keys
<1> QED BY <1>1, <1>2 DEF TableExact

\* The reference counts of map_decref_record, the hash table and
\* record_count agree with the list whatever is called from forEach.
THEOREM TableIsExact == Spec => []TableExact
BY InvAlways, Exact, PTL

\* Only an iterator's finalizer frees the next record that forEach or clear
\* looked up.
THEOREM OnlyFinalizersFreeNext == Spec => []StaleOnlyByFinalizer
<1>1. Inv => StaleOnlyByFinalizer
  BY DEF Inv
<1> QED BY <1>1, InvAlways, PTL

-----------------------------------------------------------------------------
(* The map that iterators and forEach see.                                 *)

LEMMA GapIs == \A k, v : Gap # [key |-> k, value |-> v]
<1>1. DOMAIN Gap = {"gap"} /\ \A k, v : DOMAIN [key |-> k, value |-> v] = {"key", "value"}
  BY DEF Gap
<1>2. "key" \notin {"gap"}
  OBVIOUS
<1> QED BY <1>1, <1>2

DataOf(rs) == [r \in DOMAIN rs |-> IF r \in LiveIn(rs) THEN [key |-> rs[r].key, value |-> rs[r].holds] ELSE Gap]

LEMMA DataOfIs ==
  ASSUME NEW rs
  PROVE  /\ DOMAIN DataOf(rs) = DOMAIN rs
         /\ \A n \in DOMAIN rs :
              /\ DataOf(rs)[n] # Gap <=> n \in LiveIn(rs)
              /\ n \in LiveIn(rs) => DataOf(rs)[n] = [key |-> rs[n].key, value |-> rs[n].holds]
<1>1. \A n \in DOMAIN rs :
        DataOf(rs)[n] = IF n \in LiveIn(rs) THEN [key |-> rs[n].key, value |-> rs[n].holds] ELSE Gap
  BY DEF DataOf
<1>2. DOMAIN DataOf(rs) = DOMAIN rs
  BY DEF DataOf
<1> QED BY <1>1, <1>2, GapIs

LEMMA DataIs == Data = DataOf(rec) /\ Data' = DataOf(rec')
BY DEF Data, DataOf, Records, LiveIn

LEMMA SameData ==
  ASSUME LiveIn(rec') = LiveIn(rec), DOMAIN rec' = DOMAIN rec,
         \A r \in LiveIn(rec) : rec'[r].key = rec[r].key /\ rec'[r].holds = rec[r].holds
  PROVE  Data' = Data
BY DataIs DEF DataOf

LEMMA RestIs ==
  ASSUME Types, NEW n \in Nat, NEW m
  PROVE  m \in Abstract!Rest(n) <=> /\ m \in LiveIn(rec) /\ m > n
                                    /\ \A x \in LiveIn(rec) : x > n => m <= x
<1>1. DOMAIN rec \subseteq Nat /\ \A x \in Nat : \A y \in DOMAIN rec : 0 < x /\ x <= y => x \in DOMAIN rec
  BY DEF Types
<1>2. LiveIn(rec) \subseteq DOMAIN rec
  BY DEF LiveIn
<1>3. m \in Abstract!Rest(n) <=> /\ m \in DOMAIN rec /\ m > n /\ Data[m] # Gap
                                 /\ \A x \in (n + 1)..(m - 1) : Data[x] = Gap
  BY DataIs, DataOfIs DEF Abstract!Rest, Abstract!IsAfter
<1>4. SUFFICES ASSUME m \in LiveIn(rec), m > n
               PROVE  (\A x \in (n + 1)..(m - 1) : Data[x] = Gap)
                      <=> \A x \in LiveIn(rec) : x > n => m <= x
  BY <1>2, <1>3, DataIs, DataOfIs
<1>5. m \in DOMAIN rec /\ m \in Nat
  BY <1>1, <1>2, <1>4
<1>6. \A x \in (n + 1)..(m - 1) : x \in DOMAIN rec /\ x > n /\ ~(m <= x)
  BY <1>1, <1>5
<1>7. \A x \in LiveIn(rec) : x > n /\ ~(m <= x) => x \in (n + 1)..(m - 1)
  BY <1>1, <1>2, <1>5
<1>8. \A x \in DOMAIN rec : Data[x] = Gap <=> x \notin LiveIn(rec)
  BY DataIs, DataOfIs
<1> QED BY <1>2, <1>6, <1>7, <1>8

\* The loops of the calls fs.
LastOf(fs) == [n \in DOMAIN fs |-> fs[n].last]

LEMMA LastOfIs ==
  ASSUME NEW fs \in Seq(Call)
  PROVE  /\ LastOf(fs) \in Seq(Nat) /\ Len(LastOf(fs)) = Len(fs) /\ DOMAIN LastOf(fs) = 1..Len(fs)
         /\ \A n \in 1..Len(fs) : LastOf(fs)[n] = fs[n].last
<1>1. DOMAIN fs = 1..Len(fs) /\ Len(fs) \in Nat /\ \A n \in 1..Len(fs) : fs[n].last \in Nat
  <2>1. \A f \in Call : f.last \in Nat
    BY DEF Call
  <2>2. DOMAIN fs = 1..Len(fs) /\ Len(fs) \in Nat /\ \A n \in 1..Len(fs) : fs[n] \in Call
    OBVIOUS
  <2> QED BY <2>1, <2>2
<1>2. LastOf(fs) = [n \in 1..Len(fs) |-> fs[n].last]
  BY <1>1 DEF LastOf
<1>3. LastOf(fs) \in Seq(Nat)
  BY <1>1, <1>2, SeqDef
<1> QED BY <1>1, <1>2, <1>3

LEMMA LastOfPush ==
  ASSUME NEW fs \in Seq(Call), NEW f \in Call
  PROVE  LastOf(Append(fs, f)) = Append(LastOf(fs), f.last)
<1>1. /\ Append(fs, f) \in Seq(Call) /\ Len(Append(fs, f)) = Len(fs) + 1 /\ Append(fs, f)[Len(fs) + 1] = f
      /\ \A n \in 1..Len(fs) : Append(fs, f)[n] = fs[n]
  OBVIOUS
<1>2. /\ LastOf(Append(fs, f)) \in Seq(Nat) /\ Len(LastOf(Append(fs, f))) = Len(fs) + 1
      /\ \A n \in 1..(Len(fs) + 1) : LastOf(Append(fs, f))[n] = Append(fs, f)[n].last
  BY <1>1, LastOfIs
<1>3. /\ LastOf(fs) \in Seq(Nat) /\ Len(LastOf(fs)) = Len(fs) /\ f.last \in Nat
      /\ \A n \in 1..Len(fs) : LastOf(fs)[n] = fs[n].last
  BY LastOfIs DEF Call
<1>4. /\ Append(LastOf(fs), f.last) \in Seq(Nat) /\ Len(Append(LastOf(fs), f.last)) = Len(fs) + 1
      /\ Append(LastOf(fs), f.last)[Len(fs) + 1] = f.last
      /\ \A n \in 1..Len(fs) : Append(LastOf(fs), f.last)[n] = LastOf(fs)[n]
  BY <1>3
<1>5. \A n \in 1..(Len(fs) + 1) : LastOf(Append(fs, f))[n] = Append(LastOf(fs), f.last)[n]
  <2>1. Len(fs) \in Nat
    OBVIOUS
  <2>2. \A n \in 1..(Len(fs) + 1) : n \in 1..Len(fs) \/ n = Len(fs) + 1
    BY <2>1
  <2> QED BY <1>1, <1>2, <1>3, <1>4, <2>2
<1> QED BY <1>2, <1>4, <1>5, SeqEqual

LEMMA LastOfPop ==
  ASSUME calls \in Seq(Call), calls # <<>>
  PROVE  LastOf(Callers) = SubSeq(LastOf(calls), 1, Len(LastOf(calls)) - 1)
<1>1. /\ Len(calls) \in Nat \ {0} /\ Callers \in Seq(Call) /\ Len(Callers) = Len(calls) - 1
      /\ \A n \in 1..(Len(calls) - 1) : Callers[n] = calls[n]
  BY CallsParts
<1>2. /\ LastOf(Callers) \in Seq(Nat) /\ Len(LastOf(Callers)) = Len(calls) - 1
      /\ \A n \in 1..(Len(calls) - 1) : LastOf(Callers)[n] = Callers[n].last
  BY <1>1, LastOfIs
<1>3. /\ LastOf(calls) \in Seq(Nat) /\ Len(LastOf(calls)) = Len(calls)
      /\ \A n \in 1..Len(calls) : LastOf(calls)[n] = calls[n].last
  BY LastOfIs
<1> DEFINE ls == SubSeq(LastOf(calls), 1, Len(calls) - 1)
<1>4. /\ ls \in Seq(Nat) /\ Len(ls) = Len(calls) - 1
      /\ \A n \in 1..(Len(calls) - 1) : ls[n] = LastOf(calls)[n]
  <2>1. 1 \in 1..(Len(LastOf(calls)) + 1) /\ Len(calls) - 1 \in (1 - 1)..Len(LastOf(calls))
    BY <1>1, <1>3
  <2> QED BY <1>1, <1>3, <2>1, SubSeqProperties
<1> HIDE DEF ls
<1>5. \A n \in 1..(Len(calls) - 1) : LastOf(Callers)[n] = ls[n]
  <2>1. \A n \in 1..(Len(calls) - 1) : n \in 1..Len(calls)
    BY <1>1
  <2> QED BY <1>1, <1>2, <1>3, <1>4, <2>1
<1>6. LastOf(Callers) = ls
  BY <1>2, <1>4, <1>5, SeqEqual
<1> QED BY <1>3, <1>6 DEF ls

LEMMA LastOfTop ==
  ASSUME calls \in Seq(Call), calls # <<>>, NEW f \in Call
  PROVE  LastOf(SetTop(f)) = [LastOf(calls) EXCEPT ![Len(LastOf(calls))] = f.last]
<1>1. /\ SetTop(f) \in Seq(Call) /\ Len(SetTop(f)) = Len(calls) /\ SetTop(f)[Len(calls)] = f
      /\ \A n \in 1..(Len(calls) - 1) : SetTop(f)[n] = calls[n]
      /\ Len(calls) \in Nat \ {0}
  BY SetTopIs, CallsParts
<1>2. /\ LastOf(SetTop(f)) \in Seq(Nat) /\ Len(LastOf(SetTop(f))) = Len(calls)
      /\ \A n \in 1..Len(calls) : LastOf(SetTop(f))[n] = SetTop(f)[n].last
  BY <1>1, LastOfIs
<1>3. /\ LastOf(calls) \in Seq(Nat) /\ Len(LastOf(calls)) = Len(calls)
      /\ \A n \in 1..Len(calls) : LastOf(calls)[n] = calls[n].last
  BY LastOfIs
<1> DEFINE ls == [LastOf(calls) EXCEPT ![Len(calls)] = f.last]
<1>4. /\ ls \in Seq(Nat) /\ Len(ls) = Len(calls) /\ ls[Len(calls)] = f.last
      /\ \A n \in 1..(Len(calls) - 1) : ls[n] = LastOf(calls)[n]
  <2>1. f.last \in Nat /\ Len(calls) \in 1..Len(calls)
    BY <1>1 DEF Call
  <2> QED BY <1>1, <1>3, <2>1
<1>5. \A n \in 1..Len(calls) : LastOf(SetTop(f))[n] = ls[n]
  <2>1. \A n \in 1..Len(calls) : n \in 1..(Len(calls) - 1) \/ n = Len(calls)
    BY <1>1
  <2> HIDE DEF ls
  <2> QED BY <1>1, <1>2, <1>3, <1>4, <2>1
<1> HIDE DEF ls
<1>6. LastOf(SetTop(f)) = ls
  BY <1>2, <1>4, <1>5, SeqEqual
<1> QED BY <1>3, <1>6 DEF ls

LEMMA LoopsIs ==
  ASSUME Types, Frames
  PROVE  /\ Loops = LastOf(Visits) /\ Visits \in Seq(Call)
         /\ (calls # <<>> => Top.calling) => Visits = calls
         /\ calls # <<>> /\ Top.op # "clear" => Visits = calls
         /\ calls # <<>> /\ Top.op = "clear" => Visits = Callers
<1>1. calls # <<>> => Callers \in Seq(Call)
  BY CallsParts DEF Types
<1>2. calls # <<>> /\ Top.calling => Top.op = "forEach"
  <2> SUFFICES ASSUME calls # <<>>, Top.calling PROVE Top.op = "forEach"
    OBVIOUS
  <2>1. Len(calls) \in DOMAIN calls
    BY CallsParts DEF Types
  <2> QED BY <2>1 DEF Frames, InCallback, Top
<1> QED BY <1>1, <1>2 DEF Loops, LastOf, Visits, Types

LEMMA GoRefines ==
  ASSUME \A i \in Iter : it'[i] \in {it[i], Gone}
  PROVE  Abstract!Go
<1> DEFINE gone == {i \in Iter : it'[i] = Gone}
<1>1. \A i \in Iter : Place'[i] = IF i \in gone THEN -2 ELSE Place[i]
  BY DEF Place, Gone
<1>2. Place' = [i \in Iter |-> Place'[i]]
  BY DEF Place
<1>3. Place' = [i \in Iter |-> IF i \in gone THEN Abstract!Gone ELSE Place[i]]
  BY <1>1, <1>2 DEF Abstract!Gone
<1> HIDE DEF gone
<1>4. gone \in SUBSET Iter
  BY DEF gone
<1> QED BY <1>3, <1>4 DEF Abstract!Go

\* Records that stay keep their keys, and iterators that stay their places.
LEMMA ShrinksChanges ==
  ASSUME Types, Types', Shrinks, Loops' = Loops
  PROVE  Abstract!Change
<1>1. DOMAIN Data' = DOMAIN Data /\ DOMAIN Data = DOMAIN rec
  BY DataIs, DataOfIs DEF Shrinks
<1>2. ASSUME NEW n \in DOMAIN rec, Data'[n] # Gap
      PROVE  Data[n] # Gap /\ Data'[n] \in Abstract!Entry /\ Data'[n].key = Data[n].key
  <2>1. n \in LiveIn(rec') /\ n \in DOMAIN rec'
    BY <1>2, DataIs, DataOfIs DEF Shrinks
  <2>2. n \in LiveIn(rec) /\ rec'[n].key = rec[n].key
    BY <2>1 DEF Shrinks
  <2>3. /\ Data[n] = [key |-> rec[n].key, value |-> rec[n].holds]
        /\ Data'[n] = [key |-> rec'[n].key, value |-> rec'[n].holds]
    BY <2>1, <2>2, DataIs, DataOfIs
  <2>4. rec'[n].key \in Key /\ rec'[n].holds \in Holds
    <3>1. rec'[n] \in JSMapRecord
      BY <2>1 DEF Types
    <3> QED BY <3>1 DEF JSMapRecord
  <2>5. Data[n] # Gap
    BY <2>2, DataIs, DataOfIs
  <2> QED BY <2>2, <2>3, <2>4, <2>5 DEF Abstract!Entry, Holds
<1>3. Abstract!Go
  BY GoRefines DEF Shrinks
<1> QED BY <1>1, <1>2, <1>3 DEF Abstract!Change

LEMMA AddRefines ==
  ASSUME Inv, Inv', NEW k \in Key, NEW v \in {Plain} \cup held, Found(k) = {},
         rec' = Append(rec, NewRecord(k, v)), it' = it, Loops' = Loops, map = "held"
  PROVE  Abstract!Add
<1> DEFINE x == NewRecord(k, v)
           e == [key |-> k, value |-> v]
           n == Len(rec) + 1
<1>1. rec \in Seq(JSMapRecord) /\ rec' \in Seq(JSMapRecord) /\ held \subseteq Iter /\ Len(rec) \in Nat
  BY DEF Inv, Types
<1>2. /\ rec' = Append(rec, x) /\ x \in JSMapRecord
      /\ x.linked /\ ~x.empty /\ x.key = k /\ x.holds = v
  BY <1>1 DEF NewRecord, JSMapRecord, Holds
<1> HIDE DEF x
<1>3. /\ DOMAIN rec' = 1..n /\ DOMAIN rec = 1..Len(rec) /\ rec'[n] = x
      /\ \A r \in 1..Len(rec) : rec'[r] = rec[r]
  BY <1>1, <1>2
<1>4. \A r \in 1..n : r \in 1..Len(rec) \/ r = n
  BY <1>1
<1>5. n \in LiveIn(rec') /\ \A r \in 1..Len(rec) : r \in LiveIn(rec') <=> r \in LiveIn(rec)
  <2>1. n \in 1..n /\ \A r \in 1..Len(rec) : r \in 1..n
    BY <1>1
  <2> QED BY <1>2, <1>3, <2>1 DEF LiveIn
<1>6. Data = [r \in 1..Len(rec) |-> IF r \in LiveIn(rec) THEN [key |-> rec[r].key, value |-> rec[r].holds] ELSE Gap]
  BY <1>3, DataIs DEF DataOf
<1>7. Data' = [r \in 1..n |-> IF r \in LiveIn(rec') THEN [key |-> rec'[r].key, value |-> rec'[r].holds] ELSE Gap]
  BY <1>3, DataIs DEF DataOf
<1>8. Data'[n] = e /\ \A r \in 1..Len(rec) : Data'[r] = Data[r]
  <2>1. n \in 1..n /\ \A r \in 1..Len(rec) : r \in 1..n
    BY <1>1
  <2>2. Data'[n] = e
    BY <1>2, <1>3, <1>5, <1>7, <2>1
  <2>3. ASSUME NEW r \in 1..Len(rec) PROVE Data'[r] = Data[r]
    BY <1>3, <1>5, <1>6, <1>7, <2>1
  <2> QED BY <2>2, <2>3
<1>9. Data' = Append(Data, e)
  <2> DEFINE S == {Data'[r] : r \in 1..n}
  <2>1. /\ Data = [r \in 1..Len(rec) |-> Data[r]] /\ Data' = [r \in 1..n |-> Data'[r]]
        /\ \A r \in 1..Len(rec) : r \in 1..n
    BY <1>1, <1>6, <1>7
  <2>2. (\A r \in 1..Len(rec) : Data[r] \in S) /\ (\A r \in 1..n : Data'[r] \in S) /\ e \in S
    <3>1. n \in 1..n
      BY <1>1
    <3> QED BY <1>8, <2>1, <3>1
  <2> HIDE DEF S
  <2>3. Data \in [1..Len(rec) -> S] /\ Data' \in [1..n -> S] /\ n \in Nat
    BY <1>1, <2>1, <2>2
  <2>4. Data \in Seq(S) /\ Data' \in Seq(S)
    <3> HIDE DEF n
    <3> QED BY <1>1, <2>3, SeqDef
  <2>5. Len(Data) = Len(rec) /\ Len(Data') = n
    BY <1>1, <2>3, <2>4
  <2>6. /\ Append(Data, e) \in Seq(S) /\ Len(Append(Data, e)) = n /\ Append(Data, e)[n] = e
        /\ \A r \in 1..Len(rec) : Append(Data, e)[r] = Data[r]
    BY <1>1, <2>2, <2>4, <2>5, AppendProperties
  <2>7. \A r \in 1..Len(Data') : Data'[r] = Append(Data, e)[r]
    BY <1>4, <1>8, <2>5, <2>6
  <2>8. Len(Data') = Len(Append(Data, e))
    BY <2>5, <2>6
  <2> HIDE DEF e, n
  <2> QED BY <2>4, <2>6, <2>7, <2>8, SeqEqual
<1>10. \A r \in DOMAIN Data : Data[r] # Gap => Data[r].key # k
  <2>1. \A r \in LiveIn(rec) : rec[r].key # k
    BY DEF Found, Inv, Counts
  <2>2. DOMAIN Data = DOMAIN rec
    BY DataIs, DataOfIs
  <2>3. ASSUME NEW r \in DOMAIN rec, Data[r] # Gap PROVE Data[r].key # k
    <3>1. r \in LiveIn(rec) /\ Data[r] = [key |-> rec[r].key, value |-> rec[r].holds]
      BY <2>3, DataIs, DataOfIs
    <3> QED BY <2>1, <3>1
  <2> QED BY <2>2, <2>3
<1>11. Place' = Place
  BY DEF Place
<1>12. e \in Abstract!Entry
  BY <1>1 DEF Abstract!Entry
<1> QED BY <1>9, <1>10, <1>11, <1>12 DEF Abstract!Add

LEMMA ForEachRefines ==
  ASSUME Inv, Inv', ForEach
  PROVE  Abstract!ForEach
<1> DEFINE f == Frame("forEach", After(rec, End))
<1>1. /\ calls' = Append(calls, f) /\ rec' = rec /\ it' = it /\ (calls # <<>> => Top.calling)
      /\ Types /\ Types' /\ Frames /\ Frames' /\ calls \in Seq(Call)
  BY DEF ForEach, InProgram, Inv, Types
<1>2. f \in Call /\ f.last = 0 /\ f.op = "forEach"
  <2>1. After(rec, End) \in Nat
    BY <1>1, AfterIs DEF Types, End
  <2> QED BY <2>1 DEF Frame, Call, Holds
<1> HIDE DEF f
<1>3. calls' # <<>> /\ Top' = f
  BY <1>1, <1>2 DEF Top
<1>4. Loops = LastOf(calls) /\ Loops' = LastOf(calls')
  BY <1>1, <1>2, <1>3, LoopsIs DEF Loops, LastOf, Visits
<1>5. Loops' = Append(Loops, 0)
  BY <1>1, <1>2, <1>4, LastOfPush
<1> QED BY <1>1, <1>5 DEF Abstract!ForEach, Data, Records, Place

LEMMA VisitRefines ==
  ASSUME Inv, Inv', ForEachCalls
  PROVE  Abstract!Visit
<1> DEFINE f == Entered(Top, rec[Top.el].holds, Top.el)
<1>1. /\ calls # <<>> /\ Top.op = "forEach" /\ ~Top.calling /\ Top.el \in LiveIn(rec)
      /\ calls' = SetTop(f) /\ Types /\ Types' /\ Frames /\ calls \in Seq(Call)
      /\ rec \in Seq(JSMapRecord)
  BY DEF ForEachCalls, AtTurn, Live, Linked, Records, LiveIn, Entered, Inv, Types
<1>2. /\ Top \in Call /\ Top.el \in Nat /\ Top.last \in Nat /\ AtNext(rec, Top)
  BY <1>1, Calling
<1>3. f \in Call /\ f.last = Top.el /\ f.op = "forEach"
  <2>1. rec[Top.el] \in JSMapRecord
    <3> HIDE DEF f
    <3> QED BY <1>1 DEF LiveIn
  <2>2. rec[Top.el].holds \in Holds
    BY <2>1 DEF JSMapRecord
  <2> QED BY <1>1, <1>2, <2>2, EnteredIs
<1> HIDE DEF f
<1>4. calls' # <<>> /\ Top' = f
  BY <1>1, <1>3, SetTopIs, CallsParts DEF Top
<1>5. Loops = LastOf(calls) /\ Loops' = LastOf(calls')
  BY <1>1, <1>3, <1>4 DEF Loops, LastOf, Visits
<1>6. Loops' = [Loops EXCEPT ![Len(Loops)] = Top.el]
  BY <1>1, <1>3, <1>5, LastOfTop
<1>7. Loops # <<>> /\ Abstract!Top = Top.last
  <2>1. /\ Len(Loops) = Len(calls) /\ Len(calls) \in Nat \ {0}
        /\ \A n \in 1..Len(calls) : Loops[n] = calls[n].last
    BY <1>1, <1>5, LastOfIs, CallsParts
  <2>2. Loops[Len(Loops)] = Top.last
    BY <2>1 DEF Top
  <2> QED BY <2>1, <2>2 DEF Abstract!Top
<1>8. Top.el \in Abstract!Rest(Abstract!Top)
  <2>1. Ahead(rec, Top)
    BY <1>1, <1>2 DEF AtNext
  <2>2. Top.el > Top.last /\ \A x \in LiveIn(rec) : x > Top.last => Top.el <= x
    <3>1. Top.el # End /\ LiveIn(rec) \subseteq Nat
      BY <1>1 DEF LiveIn, End
    <3> QED BY <1>1, <1>2, <2>1, <3>1 DEF Ahead
  <2> QED BY <1>1, <1>2, <1>7, <2>2, RestIs
<1>9. Data' = Data /\ Place' = Place
  <2>1. /\ it' = it /\ LiveIn(rec') = LiveIn(rec) /\ DOMAIN rec' = DOMAIN rec
        /\ \A r \in DOMAIN rec : rec'[r].key = rec[r].key /\ rec'[r].holds = rec[r].holds
    BY CallsKeeps
  <2> QED BY <2>1, SameData DEF Place, LiveIn
<1> QED BY <1>6, <1>7, <1>8, <1>9 DEF Abstract!Visit

LEMMA NextRefines ==
  ASSUME Inv, NEW i \in Iter, IteratorNext(i)
  PROVE  Abstract!NextOf(i)
<1>1. Types /\ it \in [Iter -> JSMapIteratorData] /\ rec \in Seq(JSMapRecord)
  BY DEF Inv, Types
<1>2. /\ LiveIn(rec') = LiveIn(rec) /\ DOMAIN rec' = DOMAIN rec
      /\ \A r \in DOMAIN rec : rec'[r].key = rec[r].key /\ rec'[r].holds = rec[r].holds
      /\ it[i].obj = "map"
      /\ \/ \E to \in LiveIn(rec) : /\ to > it[i].cur /\ it' = [it EXCEPT ![i].cur = to]
                                   /\ \A n \in LiveIn(rec) : n > it[i].cur => to <= n
         \/ /\ \A n \in LiveIn(rec) : ~(n > it[i].cur)
            /\ it' = [it EXCEPT ![i] = [obj |-> "undefined", cur |-> End]]
  BY NextKeeps
<1>3. calls' = calls
  BY DEF IteratorNext
<1>4. Data' = Data /\ Loops' = Loops
  BY <1>2, <1>3, SameData DEF Loops, Visits, Top, Callers, LiveIn
<1>5. it[i].cur \in Nat /\ Place[i] = it[i].cur
  BY <1>1, <1>2 DEF Place, JSMapIteratorData
<1>6. Place[i] \notin {Abstract!Done, Abstract!Gone}
  BY <1>5 DEF Abstract!Done, Abstract!Gone
<1>7. ASSUME NEW to \in LiveIn(rec), to > it[i].cur, it' = [it EXCEPT ![i].cur = to],
             \A n \in LiveIn(rec) : n > it[i].cur => to <= n
      PROVE  \E m \in Abstract!Rest(Place[i]) : Place' = [Place EXCEPT ![i] = m]
  <2>1. to \in Abstract!Rest(Place[i])
    BY <1>1, <1>5, <1>7, RestIs
  <2>2. Place' = [Place EXCEPT ![i] = to]
    <3>1. it'[i].obj = "map" /\ it'[i].cur = to /\ \A j \in Iter \ {i} : it'[j] = it[j]
      BY <1>1, <1>2, <1>7 DEF JSMapIteratorData
    <3>2. \A j \in Iter : Place'[j] = IF j = i THEN to ELSE Place[j]
      BY <3>1 DEF Place
    <3>3. Place' = [j \in Iter |-> Place'[j]] /\ Place = [j \in Iter |-> Place[j]]
      BY DEF Place
    <3> QED BY <3>2, <3>3
  <2> QED BY <2>1, <2>2
<1>8. ASSUME \A n \in LiveIn(rec) : ~(n > it[i].cur),
             it' = [it EXCEPT ![i] = [obj |-> "undefined", cur |-> End]]
      PROVE  Abstract!Rest(Place[i]) = {} /\ Place' = [Place EXCEPT ![i] = Abstract!Done]
  <2>1. \A m : m \notin Abstract!Rest(Place[i])
    BY <1>1, <1>5, <1>8, RestIs
  <2>2. Place' = [Place EXCEPT ![i] = Abstract!Done]
    <3>1. it'[i].obj = "undefined" /\ \A j \in Iter \ {i} : it'[j] = it[j]
      BY <1>1, <1>8
    <3>2. \A j \in Iter : Place'[j] = IF j = i THEN -1 ELSE Place[j]
      BY <3>1 DEF Place
    <3>3. Place' = [j \in Iter |-> Place'[j]] /\ Place = [j \in Iter |-> Place[j]]
      BY DEF Place
    <3> QED BY <3>2, <3>3 DEF Abstract!Done
  <2> QED BY <2>1, <2>2
<1> QED BY <1>2, <1>4, <1>6, <1>7, <1>8 DEF Abstract!NextOf

\* What becomes of the calls below the innermost one.
LEMMA CallersOfAppend ==
  ASSUME NEW fs \in Seq(Call), NEW f \in Call, calls' = Append(fs, f)
  PROVE  calls' # <<>> /\ Top' = f /\ Callers' = fs
<1>1. /\ calls' \in Seq(Call) /\ Len(calls') = Len(fs) + 1 /\ calls'[Len(fs) + 1] = f /\ Len(fs) \in Nat
      /\ \A n \in 1..Len(fs) : calls'[n] = fs[n]
  OBVIOUS
<1>2. Callers' = SubSeq(calls', 1, Len(fs))
  BY <1>1 DEF Callers
<1>3. /\ SubSeq(calls', 1, Len(fs)) \in Seq(Call) /\ Len(SubSeq(calls', 1, Len(fs))) = Len(fs)
      /\ \A n \in 1..Len(fs) : SubSeq(calls', 1, Len(fs))[n] = calls'[n]
  <2>1. 1 \in 1..(Len(calls') + 1) /\ Len(fs) \in (1 - 1)..Len(calls')
    BY <1>1
  <2> QED BY <1>1, <2>1, SubSeqProperties
<1>4. SubSeq(calls', 1, Len(fs)) = fs
  BY <1>1, <1>3, SeqEqual
<1> QED BY <1>1, <1>2, <1>4 DEF Top

LEMMA LoopsStay ==
  ASSUME Types, Frames, calls # <<>>, NEW f \in Call, calls' = SetTop(f), f.op = Top.op, f.last = Top.last
  PROVE  Loops' = Loops
<1>1. calls \in Seq(Call) /\ Callers \in Seq(Call) /\ Len(calls) \in Nat \ {0} /\ Top \in Call
  BY CallsParts DEF Types
<1>2. calls' # <<>> /\ Top' = f /\ Callers' = Callers
  BY <1>1, CallersOfAppend DEF SetTop
<1>3. CASE Top.op = "clear"
  BY <1>2, <1>3 DEF Loops, Visits
<1>4. CASE Top.op # "clear"
  <2>1. Loops = LastOf(calls) /\ Loops' = LastOf(SetTop(f))
    BY <1>2, <1>4 DEF Loops, Visits, LastOf
  <2>2. LastOf(SetTop(f)) = [LastOf(calls) EXCEPT ![Len(calls)] = Top.last]
    BY <1>1, LastOfTop, LastOfIs
  <2>3. LastOf(calls) \in Seq(Nat) /\ LastOf(calls)[Len(calls)] = Top.last /\ Len(LastOf(calls)) = Len(calls)
    BY <1>1, LastOfIs DEF Top
  <2> QED BY <2>1, <2>2, <2>3
<1> QED BY <1>3, <1>4

LEMMA LoopsPop ==
  ASSUME Types, Frames, calls # <<>>, calls' = Callers
  PROVE  Loops' = LastOf(Callers)
<1>1. /\ Len(calls) \in Nat \ {0} /\ Callers \in Seq(Call) /\ Len(Callers) = Len(calls) - 1
      /\ \A n \in 1..(Len(calls) - 1) : Callers[n] = calls[n]
      /\ DOMAIN calls = 1..Len(calls)
  BY CallsParts DEF Types
<1>2. calls' # <<>> => Top'.op = "forEach"
  <2> SUFFICES ASSUME calls' # <<>> PROVE Top'.op = "forEach"
    OBVIOUS
  <2>1. Len(calls) - 1 \in 1..(Len(calls) - 1) /\ Len(calls) - 1 \in DOMAIN calls
    BY <1>1
  <2>2. Top' = calls[Len(calls) - 1]
    BY <1>1, <2>1 DEF Top
  <2>3. Len(calls) - 1 # Len(calls)
    BY <1>1
  <2> QED BY <2>1, <2>2, <2>3 DEF Frames, InCallback
<1> QED BY <1>2 DEF Loops, Visits, LastOf

\* A forEach that ends.
LEMMA LeaveRefines ==
  ASSUME Inv, calls # <<>>, Top.op = "forEach", calls' = Callers, Data' = Data, Abstract!Go,
         NEW thrown \in BOOLEAN, thrown \/ \A r \in LiveIn(rec) : ~(r > Top.last)
  PROVE  Abstract!Leave(thrown)
<1>1. Types /\ Frames /\ calls \in Seq(Call) /\ Len(calls) \in Nat \ {0} /\ Top \in Call
  BY CallsParts DEF Inv, Types
<1>2. Loops = LastOf(calls) /\ Loops' = LastOf(Callers)
  BY <1>1, LoopsIs, LoopsPop
<1>3. Loops' = SubSeq(Loops, 1, Len(Loops) - 1)
  BY <1>1, <1>2, LastOfPop
<1>4. Loops # <<>> /\ Abstract!Top = Top.last
  <2>1. /\ Len(Loops) = Len(calls) /\ \A n \in 1..Len(calls) : Loops[n] = calls[n].last
    BY <1>1, <1>2, LastOfIs
  <2>2. Loops[Len(Loops)] = Top.last
    BY <1>1, <2>1 DEF Top
  <2> QED BY <1>1, <2>1, <2>2 DEF Abstract!Top
<1>5. Top.last \in Nat
  BY <1>1 DEF Call
<1>6. thrown \/ Abstract!Rest(Abstract!Top) = {}
  <2>1. ASSUME \A r \in LiveIn(rec) : ~(r > Top.last) PROVE Abstract!Rest(Top.last) = {}
    <3>1. \A m : m \notin Abstract!Rest(Top.last)
      BY <1>1, <1>5, <2>1, RestIs
    <3> QED BY <3>1
  <2> QED BY <1>4, <2>1
<1> QED BY <1>3, <1>4, <1>6 DEF Abstract!Leave

\* Steps that change no loop: the calls are the same, or the innermost one
\* is where it was.
LEMMA ReturnsRefines ==
  ASSUME Inv, Inv', NEW v, ForEachReturns(v)
  PROVE  Abstract!Change
<1> DEFINE next == After(AfterArgs.rec, Top.el)
           f == [Top EXCEPT !.calling = FALSE, !.arg = Plain, !.el = next]
<1>1. InProgram /\ calls # <<>> /\ Returned(v) /\ calls' = SetTop(f)
  BY DEF ForEachReturns
<1>2. Types /\ Types' /\ Frames /\ Top \in Call /\ Top.el \in Nat
  BY <1>1, Calling DEF Inv
<1>3. next \in Nat
  <2>1. AfterArgs.rec \in Seq(JSMapRecord) /\ Len(AfterArgs.rec) \in Nat
    BY <1>1, ReturnedIs
  <2>2. next \in 0..Len(AfterArgs.rec)
    BY <1>2, <2>1, AfterIs
  <2> QED BY <2>1, <2>2
<1> HIDE DEF next
<1>4. f \in Call /\ f.op = Top.op /\ f.last = Top.last
  BY <1>2, <1>3 DEF Call, Holds
<1> HIDE DEF f
<1>5. Loops' = Loops
  BY <1>1, <1>2, <1>4, LoopsStay
<1> QED BY <1>2, <1>5, ReturnsKeeps, ShrinksChanges

LEMMA TurnRefines ==
  ASSUME Inv, Inv', ClearTurn \/ ForEachSkips
  PROVE  Abstract!Change
<1> DEFINE f == Onward(Top, After(rec, Top.el))
<1>1. calls # <<>> /\ calls' = SetTop(f)
  BY DEF ClearTurn, ForEachSkips, AtTurn, Onward
<1>2. Types /\ Types' /\ Frames /\ Top \in Call /\ Top.el \in Nat /\ rec \in Seq(JSMapRecord) /\ Len(rec) \in Nat
  BY <1>1, Calling DEF Inv, Types
<1>3. f \in Call /\ f.op = Top.op /\ f.last = Top.last
  <2>1. After(rec, Top.el) \in 0..Len(rec)
    BY <1>2, AfterIs
  <2>2. After(rec, Top.el) \in Nat
    BY <1>2, <2>1
  <2> QED BY <1>2, <2>2, OnwardIs
<1> HIDE DEF f
<1>4. Loops' = Loops
  BY <1>1, <1>2, <1>3, LoopsStay
<1>5. Shrinks
  <2>1. ClearTurn => Shrinks
    BY ClearTurnKeeps
  <2>2. ForEachSkips => rec' = rec /\ it' = it
    BY SkipsKeeps
  <2> QED BY <2>1, <2>2 DEF Shrinks, LiveIn
<1> QED BY <1>2, <1>4, <1>5, ShrinksChanges

LEMMA QuietRefines ==
  ASSUME Inv, Inv', Shrinks, calls' = calls
  PROVE  Abstract!Change
<1>1. Loops' = Loops
  BY DEF Loops, Visits, Top, Callers
<1> QED BY <1>1, ShrinksChanges DEF Inv

LEMMA ThrowsRefines ==
  ASSUME Inv, ForEachThrows
  PROVE  Abstract!Leave(TRUE)
<1>1. InProgram /\ calls # <<>> /\ Returned(Plain) /\ calls' = Callers
  BY DEF ForEachThrows
<1>2. /\ Shrinks /\ LiveIn(rec') = LiveIn(rec) /\ \A r \in DOMAIN rec : rec'[r].holds = rec[r].holds
  BY <1>1, ReturnedIs
<1>3. Data' = Data
  BY <1>2, SameData DEF Shrinks, LiveIn
<1>4. Abstract!Go
  BY <1>2, GoRefines DEF Shrinks
<1>5. Top.op = "forEach"
  BY <1>1, Calling DEF InProgram, InCallback
<1> QED BY <1>1, <1>3, <1>4, <1>5, LeaveRefines

LEMMA LoopEndsRefines ==
  ASSUME Inv, LoopEnds
  PROVE  Abstract!Leave(FALSE) \/ UNCHANGED <<Data, Place, Loops>>
<1>1. calls # <<>> /\ ~Top.calling /\ Top.el = End /\ calls' = Callers /\ rec' = rec /\ it' = it
  BY DEF LoopEnds
<1>2. Data' = Data /\ Place' = Place
  BY <1>1 DEF Data, Records, Place
<1>3. Types /\ Frames /\ Top \in Call /\ AtNext(rec, Top)
  BY <1>1, Calling DEF Inv
<1>4. CASE Top.op = "forEach"
  <2>1. \A r \in LiveIn(rec) : ~(r > Top.last)
    BY <1>1, <1>3, <1>4 DEF AtNext, Ahead
  <2>2. Abstract!Go
    BY <1>1, GoRefines
  <2> QED BY <1>1, <1>2, <1>4, <2>1, <2>2, LeaveRefines
<1>5. CASE Top.op # "forEach"
  <2>1. Top.op = "clear"
    BY <1>3, <1>5 DEF Call
  <2>2. Loops = LastOf(Callers) /\ Loops' = LastOf(Callers)
    BY <1>1, <1>3, <2>1, LoopsIs, LoopsPop
  <2> QED BY <1>2, <2>2
<1> QED BY <1>4, <1>5

LEMMA ClearRefines ==
  ASSUME Inv, Clear
  PROVE  UNCHANGED <<Data, Place, Loops>>
<1> DEFINE f == Frame("clear", After(rec, End))
<1>1. /\ calls' = Append(calls, f) /\ rec' = rec /\ it' = it /\ (calls # <<>> => Top.calling)
      /\ Types /\ Frames /\ calls \in Seq(Call)
  BY DEF Clear, InProgram, Inv, Types
<1>2. f \in Call /\ f.op = "clear"
  <2>1. After(rec, End) \in Nat
    BY <1>1, AfterIs DEF Types, End
  <2> QED BY <2>1 DEF Frame, Call, Holds
<1> HIDE DEF f
<1>3. calls' # <<>> /\ Top' = f /\ Callers' = calls
  BY <1>1, <1>2, CallersOfAppend
<1>4. Loops' = LastOf(calls) /\ Loops = LastOf(calls)
  BY <1>1, <1>2, <1>3, LoopsIs DEF Loops, Visits, LastOf
<1> QED BY <1>1, <1>4 DEF Data, Records, Place

LEMMA IterateRefines ==
  ASSUME Inv, NEW i \in Iter, Iterate(i)
  PROVE  UNCHANGED <<Data, Place, Loops>>
<1>1. /\ rec' = rec /\ calls' = calls /\ it[i].obj = "none" /\ it' = [it EXCEPT ![i].obj = "map"]
      /\ it \in [Iter -> JSMapIteratorData]
  BY DEF Iterate, Inv, Types
<1>2. Data' = Data /\ Loops' = Loops
  BY <1>1 DEF Data, Records, Loops, Visits, Top, Callers
<1>3. it'[i].obj = "map" /\ it'[i].cur = it[i].cur /\ \A j \in Iter \ {i} : it'[j] = it[j]
  BY <1>1 DEF JSMapIteratorData
<1>4. \A j \in Iter : Place'[j] = Place[j]
  BY <1>1, <1>3 DEF Place
<1>5. Place' = [j \in Iter |-> Place'[j]] /\ Place = [j \in Iter |-> Place[j]]
  BY DEF Place
<1> QED BY <1>2, <1>4, <1>5

LEMMA SetRefines ==
  ASSUME Inv, Inv', NEW k \in Key, NEW v \in {Plain} \cup held, Set(k, v)
  PROVE  Abstract!Next
<1>1. calls' = calls /\ map = "held"
  BY DEF Set, InProgram
<1>2. CASE Shrinks
  BY <1>1, <1>2, QuietRefines DEF Abstract!Next
<1>3. CASE Found(k) = {} /\ rec' = Append(rec, NewRecord(k, v)) /\ it' = it
  <2>1. Loops' = Loops
    BY <1>1 DEF Loops, Visits, Top, Callers
  <2> QED BY <1>1, <1>3, <2>1, AddRefines DEF Abstract!Next
<1> QED BY <1>2, <1>3, SetKeeps

LEMMA StepRefines ==
  ASSUME Inv, Inv', [Next]_vars
  PROVE  [Abstract!Next]_(Abstract!vars)
<1>1. UNCHANGED <<Data, Place, Loops>> => UNCHANGED Abstract!vars
  BY DEF Abstract!vars
<1>2. ASSUME NEW k \in Key, Delete(k) PROVE Abstract!Next
  BY <1>2, DeleteKeeps, QuietRefines DEF Abstract!Next, Delete
<1>3. ASSUME NEW k \in Key, NEW v \in {Plain} \cup held, Set(k, v) PROVE Abstract!Next
  BY <1>3, SetRefines
<1>4. CASE Clear
  BY <1>1, <1>4, ClearRefines
<1>5. CASE ForEach
  BY <1>5, ForEachRefines DEF Abstract!Next
<1>6. CASE DropMap
  <2>1. UNCHANGED <<Data, Place, Loops>>
    BY <1>6 DEF DropMap, Data, Records, Place, Loops, Visits, Top, Callers
  <2> QED BY <1>1, <2>1
<1>7. CASE ForEachThrows
  BY <1>7, ThrowsRefines DEF Abstract!Next
<1>8. ASSUME NEW i \in Iter, Iterate(i) PROVE UNCHANGED Abstract!vars
  BY <1>1, <1>8, IterateRefines
<1>9. ASSUME NEW i \in Iter, IteratorNext(i) PROVE Abstract!Next
  BY <1>9, NextRefines DEF Abstract!Next
<1>10. ASSUME NEW i \in Iter, Drop(i) PROVE Abstract!Next
  BY <1>10, DropKeeps, QuietRefines DEF Abstract!Next, Drop
<1>11. ASSUME NEW v \in {Plain} \cup held, ForEachReturns(v) PROVE Abstract!Next
  BY <1>11, ReturnsRefines DEF Abstract!Next
<1>12. CASE ClearTurn
  BY <1>12, TurnRefines DEF Abstract!Next
<1>13. CASE ForEachCalls
  BY <1>13, VisitRefines DEF Abstract!Next
<1>14. CASE ForEachSkips
  BY <1>14, TurnRefines DEF Abstract!Next
<1>15. CASE LoopEnds
  BY <1>1, <1>15, LoopEndsRefines DEF Abstract!Next
<1>16. CASE FinalizeMap
  BY <1>16, FinalizeMapKeeps, QuietRefines DEF Abstract!Next, FinalizeMap
<1>17. ASSUME NEW i \in Iter, FinalizeIterator(i) PROVE Abstract!Next
  BY <1>17, FinalizeIteratorKeeps, QuietRefines DEF Abstract!Next, FinalizeIterator
<1>18. CASE UNCHANGED vars
  <2>1. UNCHANGED <<Data, Place, Loops>>
    BY <1>18 DEF vars, Data, Records, Place, Loops, Visits, Top, Callers
  <2> QED BY <1>1, <2>1
<1> QED BY <1>2, <1>3, <1>4, <1>5, <1>6, <1>7, <1>8, <1>9, <1>10, <1>11, <1>12, <1>13, <1>14,
           <1>15, <1>16, <1>17, <1>18 DEF Next, Program, Machine

\* Whatever is set, deleted, cleared and freed meanwhile, iterators and
\* forEach go through the entries in their order, each once: every step is
\* one of AbstractMap, where iteration is a place in a sequence.
THEOREM Implements == Spec => ImplementsMap
<1>1. Init => Abstract!Init
  <2> SUFFICES ASSUME Init PROVE Data = <<>> /\ Place = [i \in Iter |-> 0] /\ Loops = <<>>
    BY DEF Abstract!Init
  <2>1. rec = <<>> /\ calls = <<>> /\ \A i \in Iter : it[i] = [obj |-> "none", cur |-> End]
    BY DEF Init
  <2> QED BY <2>1 DEF Data, Records, Place, Loops, Visits, End
<1>2. Inv /\ Inv' /\ [Next]_vars => [Abstract!Next]_(Abstract!vars)
  BY StepRefines
<1> QED BY <1>1, <1>2, InvAlways, PTL DEF Spec, ImplementsMap, Abstract!Spec

-----------------------------------------------------------------------------
(***************************************************************************)
(* Weak maps and the freeing of what they list, for any objects, fields,   *)
(* variables and maps and any number of entries.                           *)
(***************************************************************************)

State == {"free", "live", "queued", "garbage", "zombie"}
LiveObjects == {o \in Objects : state[o] = "live"}

WeakTypes ==
  /\ ref \in [Cell -> Objects \cup {None}]
  /\ state \in [Objects -> State]
  /\ InMemory \subseteq Record /\ value \in [InMemory -> Objects \cup {None}]
  /\ inMap = InMemory /\ inKey = InMemory
  /\ phase \in {"none", "decref", "remove"}

\* Which states there are in which phase.
Phases ==
  /\ phase = "none" => \A o \in Objects : state[o] \in {"free", "live"}
  /\ phase = "decref" => \A o \in Objects : state[o] \in {"free", "live", "queued"}
  /\ phase = "remove" => \A o \in Objects : state[o] \in {"free", "live", "garbage", "zombie"}

\* What refers to something is still whole, and nothing refers to freed memory
\* or to what waits to be freed.
Whole ==
  /\ \A f \in Fields : ref[f] # None => Intact(Owner[f])
  /\ \A r \in InMemory : Intact(MapOf(r)) /\ Intact(KeyOf(r))
  /\ \A c \in Cell : ref[c] # None => state[ref[c]] \notin {"free", "queued"}
  /\ \A r \in InMemory : value[r] # None => state[value[r]] \notin {"free", "queued"}

\* During cycle removal only garbage leads to garbage.
Apart ==
  /\ \A l \in Locals : ref[l] # None => state[ref[l]] = "live"
  /\ \A f \in Fields : ref[f] # None /\ state[Owner[f]] = "live" => state[ref[f]] = "live"
  /\ \A r \in InMemory : value[r] # None /\ state[MapOf(r)] = "live" => state[value[r]] = "live"

\* What stays has a reference from what stays.
HasReference(o) ==
  \/ \E l \in Locals : ref[l] = o
  \/ \E f \in Fields : ref[f] = o /\ state[Owner[f]] = "live"
  \/ \E r \in InMemory : value[r] = o /\ state[MapOf(r)] = "live"

Prompt ==
  /\ phase = "remove" => \A o \in LiveObjects : o \in left \/ HasReference(o)
  /\ phase # "remove" => \A o \in LiveObjects : o \in left \/ Referred(o, ref, value)

WeakInv == WeakTypes /\ Phases /\ Whole /\ (phase = "remove" => Apart) /\ Prompt

-----------------------------------------------------------------------------
LEMMA Layout ==
  /\ Locals \subseteq Cell /\ Fields \subseteq Cell /\ Cell = Locals \cup Fields
  /\ Locals \cap Fields = {} /\ None \notin Objects
  /\ \A f \in Fields : Owner[f] \in Objects
  /\ Maps \subseteq Objects
  /\ \A r \in Record : MapOf(r) \in Maps /\ MapOf(r) \in Objects /\ KeyOf(r) \in Objects
  /\ \A m \in Maps, k \in Objects :
       <<m, k>> \in Record /\ MapOf(<<m, k>>) = m /\ KeyOf(<<m, k>>) = k
BY LayoutAssumption, MapsAssumption DEF Cell, Header, Record, MapOf, KeyOf

\* Whatever the phase, live objects lead to live objects only.
LEMMA LiveLeadsToLive ==
  ASSUME WeakInv PROVE Apart
<1>1. CASE phase = "remove"
  BY <1>1 DEF WeakInv
<1>2. CASE phase # "remove"
  <2>1. \A o \in Objects : state[o] \in {"free", "live", "queued"}
    BY <1>2 DEF WeakInv, WeakTypes, Phases
  <2>2. \A c \in Cell : ref[c] # None => state[ref[c]] = "live"
    BY <2>1 DEF WeakInv, WeakTypes, Whole
  <2>3. \A r \in InMemory : value[r] # None => state[value[r]] = "live"
    BY <2>1 DEF WeakInv, WeakTypes, Whole
  <2> QED BY <2>2, <2>3, Layout DEF Apart
<1> QED BY <1>1, <1>2

\* The program gets at nothing that is being freed.
LEMMA VisibleLive == ASSUME WeakInv PROVE Visible \subseteq LiveObjects
<1> DEFINE O(S) == InFields(S) \cup {value[r] : r \in {n \in inMap : MapOf(n) \in S /\ KeyOf(n) \in S}}
<1>1. Apart
  BY LiveLeadsToLive
<1>2. (Roots \cup O(LiveObjects)) \cap Objects \subseteq LiveObjects
  <2> SUFFICES ASSUME NEW x \in Objects, x \in Roots \cup O(LiveObjects) PROVE state[x] = "live"
    BY DEF LiveObjects
  <2>1. x # None
    BY Layout
  <2>2. CASE x \in Roots
    BY <1>1, <2>1, <2>2 DEF Roots, Apart
  <2>3. CASE x \in InFields(LiveObjects)
    BY <1>1, <2>1, <2>3 DEF InFields, LiveObjects, Apart
  <2>4. CASE \E r \in inMap : x = value[r] /\ MapOf(r) \in LiveObjects
    BY <1>1, <2>1, <2>4 DEF LiveObjects, Apart, WeakInv, WeakTypes
  <2> QED BY <2>2, <2>3, <2>4
<1>3. LiveObjects \in SUBSET Objects
  BY DEF LiveObjects
<1> QED BY <1>2, <1>3 DEF Visible, Reached

\* The least set that the roots and the marks lead to is closed, and each of its
\* members is led to by a root or by another member.
LEMMA KeptClosed ==
  ASSUME WeakInv
  PROVE  LET K == KeptFrom(Roots) IN
         /\ K \subseteq Objects
         /\ \A l \in Locals : ref[l] # None => ref[l] \in K
         /\ \A f \in Fields : ref[f] # None /\ Owner[f] \in K => ref[f] \in K
         /\ \A r \in InMemory : value[r] # None /\ MapOf(r) \in K => value[r] \in K
         /\ \A o \in K : \/ \E l \in Locals : ref[l] = o
                         \/ \E f \in Fields : ref[f] = o /\ Owner[f] \in K
                         \/ \E r \in InMemory : value[r] = o /\ MapOf(r) \in K
<1> DEFINE K == KeptFrom(Roots)
           O(S) == InFields(S) \cup {value[r] : r \in {n \in inMap : MapOf(n) \in S}}
           C(S) == (Roots \cup O(S)) \cap Objects \subseteq S
<1>1. K = {o \in Objects : \A S \in {T \in SUBSET Objects : C(T)} : o \in S}
  BY DEF KeptFrom, Reached
<1> HIDE DEF K
<1>2. \A S, T : S \subseteq T => O(S) \subseteq O(T)
  BY DEF InFields
<1>3. C(K)
  <2> SUFFICES ASSUME NEW x \in (Roots \cup O(K)) \cap Objects, NEW S \in SUBSET Objects, C(S)
               PROVE  x \in S
    BY <1>1
  <2>1. K \subseteq S
    BY <1>1
  <2>2. O(K) \subseteq O(S)
    BY <1>2, <2>1
  <2> QED BY <2>2
<1>4. ASSUME NEW o \in K PROVE o \in Roots \cup O(K)
  <2> SUFFICES ASSUME o \notin Roots \cup O(K) PROVE FALSE
    OBVIOUS
  <2>1. K \ {o} \in SUBSET Objects
    BY <1>1
  <2>2. O(K \ {o}) \subseteq O(K)
    BY <1>2
  <2>3. C(K \ {o})
    BY <1>3, <2>2
  <2> QED BY <1>1, <2>1, <2>3
<1>5. \A l \in Locals : ref[l] # None => ref[l] \in K
  BY <1>3, Layout DEF Roots, WeakInv, WeakTypes
<1>6. \A f \in Fields : ref[f] # None /\ Owner[f] \in K => ref[f] \in K
  BY <1>3, Layout DEF InFields, WeakInv, WeakTypes
<1>7. \A r \in InMemory : value[r] # None /\ MapOf(r) \in K => value[r] \in K
  BY <1>3, Layout DEF WeakInv, WeakTypes
<1>8. \A o \in K : \/ \E l \in Locals : ref[l] = o
                   \/ \E f \in Fields : ref[f] = o /\ Owner[f] \in K
                   \/ \E r \in InMemory : value[r] = o /\ MapOf(r) \in K
  BY <1>4 DEF Roots, InFields, WeakInv, WeakTypes
<1> QED BY <1>1, <1>5, <1>6, <1>7, <1>8 DEF K

-----------------------------------------------------------------------------
(* The program. *)

\* What the program makes of the graph leads to live objects only.
WeakSound(cells, D, values) ==
  /\ cells \in [Cell -> Objects \cup {None}]
  /\ D \subseteq Record /\ values \in [D -> Objects \cup {None}]
  /\ \A c \in Cell : cells[c] # None => state[cells[c]] = "live"
  /\ \A f \in Fields : cells[f] # None => state[Owner[f]] = "live"
  /\ \A n \in D : /\ state[MapOf(n)] = "live" /\ state[KeyOf(n)] = "live"
                  /\ values[n] # None => state[values[n]] = "live"

LEMMA ProgramInv ==
  ASSUME WeakInv, phase = "none", NEW cells, NEW D, NEW values, WeakSound(cells, D, values),
         Release(phase, cells, values, state), inMap' = D, inKey' = D, left' = left
  PROVE  WeakInv'
<1> USE DEF WeakSound
<1> DEFINE lost == {o \in Objects : /\ state[o] = "live" /\ Referred(o, ref, value)
                                   /\ ~Referred(o, cells, values)}
<1>1. /\ ref' = cells /\ value' = values /\ DOMAIN value' = D
      /\ state' = [o \in Objects |-> IF o \in lost THEN "queued" ELSE state[o]]
      /\ phase' = IF lost # {} THEN "decref" ELSE phase
  BY DEF Release
<1>2. \A o \in lost : /\ \A c \in Cell : cells[c] # o
                      /\ \A r \in D : values[r] # o
                      /\ o \in Objects /\ state[o] = "live"
  BY DEF Referred
<1>3. \A o \in Objects : state[o] \in {"free", "live"} /\ state[o] \in State
  BY DEF WeakInv, WeakTypes, Phases
<1>4. \A o \in Objects : state[o] = "live" /\ o \notin lost =>
        o \in left \/ Referred(o, cells, values)
  BY DEF WeakInv, Prompt, LiveObjects
<1> HIDE DEF lost
<1>5. \A o \in Objects : /\ o \in lost => state'[o] = "queued"
                         /\ o \notin lost => state'[o] = state[o]
  BY <1>1
<1>6. WeakTypes'
  <2>1. /\ ref' \in [Cell -> Objects \cup {None}] /\ state' \in [Objects -> State]
        /\ phase' \in {"none", "decref", "remove"}
    BY <1>1, <1>3, <1>5 DEF State
  <2>2. InMemory' = D
    BY <1>1 DEF InMemory
  <2> QED BY <1>1, <2>1, <2>2 DEF WeakTypes
<1>7. Phases'
  BY <1>1, <1>3, <1>5 DEF WeakInv, Phases
<1>8. Whole'
  <2>1. \A o \in Objects : state[o] = "live" => Intact(o)'
    BY <1>5 DEF Intact
  <2>2. \A f \in Fields : ref'[f] # None => Intact(Owner[f])'
    BY <1>1, <2>1, Layout
  <2>3. \A n \in D : Intact(MapOf(n))' /\ Intact(KeyOf(n))'
    <3> SUFFICES ASSUME NEW n \in D PROVE Intact(MapOf(n))' /\ Intact(KeyOf(n))'
      OBVIOUS
    <3>1. /\ state[MapOf(n)] = "live" /\ state[KeyOf(n)] = "live"
          /\ MapOf(n) \in Objects /\ KeyOf(n) \in Objects
      BY Layout
    <3> QED BY <2>1, <3>1
  <2>4. \A c \in Cell : cells[c] # None => state'[cells[c]] = "live"
    BY <1>2, <1>5
  <2>5. ASSUME NEW n \in D, values[n] # None PROVE state'[values[n]] = "live"
    <3>1. values[n] \in Objects /\ state[values[n]] = "live"
      BY <2>5
    <3>2. values[n] \notin lost
      BY <1>2
    <3> QED BY <1>5, <3>1, <3>2
  <2>6. InMemory' = D
    BY <1>1 DEF InMemory
  <2> QED BY <1>1, <2>2, <2>3, <2>4, <2>5, <2>6 DEF Whole
<1>9. Prompt'
  <2>1. \A o \in LiveObjects' : state[o] = "live" /\ o \notin lost /\ o \in Objects
    BY <1>5 DEF LiveObjects
  <2>2. \A o \in LiveObjects' : o \in left' \/ Referred(o, ref', value')
    BY <1>1, <1>4, <2>1
  <2> QED BY <1>1, <2>2 DEF Prompt
<1>10. phase' # "remove"
  BY <1>1
<1> QED BY <1>6, <1>7, <1>8, <1>9, <1>10 DEF WeakInv

\* Between steps of the memory manager, what there is is live.
LEMMA AllLive ==
  ASSUME WeakInv, phase = "none"
  PROVE  /\ \A c \in Cell : ref[c] # None => state[ref[c]] = "live"
         /\ \A f \in Fields : ref[f] # None => state[Owner[f]] = "live"
         /\ \A r \in InMemory : /\ state[MapOf(r)] = "live" /\ state[KeyOf(r)] = "live"
                                /\ value[r] # None => state[value[r]] = "live"
<1>1. \A o \in Objects : state[o] \in {"free", "live"}
  BY DEF WeakInv, Phases
<1>2. \A c \in Cell : ref[c] # None => state[ref[c]] = "live"
  BY <1>1 DEF WeakInv, WeakTypes, Whole
<1>3. \A f \in Fields : ref[f] # None => state[Owner[f]] = "live"
  BY <1>1, Layout DEF WeakInv, Whole, Intact
<1>4. \A r \in InMemory : state[MapOf(r)] = "live" /\ state[KeyOf(r)] = "live"
  BY <1>1, Layout DEF WeakInv, Whole, Intact, WeakTypes
<1>5. \A r \in InMemory : value[r] # None => state[value[r]] = "live"
  BY <1>1 DEF WeakInv, WeakTypes, Whole
<1> QED BY <1>2, <1>3, <1>4, <1>5

LEMMA NewInv == ASSUME WeakInv, NEW l \in Locals, NEW o \in Objects, New(l, o) PROVE WeakInv'
<1>1. /\ phase = "none" /\ state[o] = "free" /\ ref[l] = None
      /\ ref' = [ref EXCEPT ![l] = o] /\ state' = [state EXCEPT ![o] = "live"]
      /\ UNCHANGED <<value, inMap, inKey, phase, left>>
  BY DEF New
<1>2. \A x \in Objects : state'[x] = IF x = o THEN "live" ELSE state[x]
  BY <1>1 DEF WeakInv, WeakTypes
<1>3. \A c \in Cell : ref'[c] = IF c = l THEN o ELSE ref[c]
  BY <1>1 DEF WeakInv, WeakTypes
<1>4. WeakTypes'
  <2>1. ref' \in [Cell -> Objects \cup {None}] /\ state' \in [Objects -> State]
    BY <1>1, Layout DEF WeakInv, WeakTypes, State
  <2> QED BY <1>1, <2>1 DEF WeakInv, WeakTypes, InMemory
<1>5. Phases'
  BY <1>1, <1>2 DEF WeakInv, Phases
<1>6. Whole'
  <2>1. \A x \in Objects : Intact(x) => Intact(x)'
    BY <1>1, <1>2 DEF Intact
  <2>2. \A f \in Fields : ref'[f] # None => Intact(Owner[f])'
    BY <1>3, <2>1, Layout DEF WeakInv, Whole
  <2>3. \A r \in InMemory : Intact(MapOf(r))' /\ Intact(KeyOf(r))'
    BY <2>1, Layout DEF WeakInv, Whole, WeakTypes
  <2>4. \A c \in Cell : ref'[c] # None => state'[ref'[c]] \notin {"free", "queued"}
    BY <1>2, <1>3 DEF WeakInv, Whole, WeakTypes
  <2>5. \A r \in InMemory : value[r] # None => state'[value[r]] \notin {"free", "queued"}
    BY <1>2 DEF WeakInv, Whole, WeakTypes
  <2>6. InMemory' = InMemory
    BY <1>1 DEF InMemory
  <2> QED BY <1>1, <2>2, <2>3, <2>4, <2>5, <2>6 DEF Whole
<1>7. Prompt'
  <2>1. Referred(o, ref', value')
    BY <1>3, Layout DEF Referred
  <2>2. \A x \in Objects : Referred(x, ref, value) => Referred(x, ref', value')
    BY <1>1, <1>3, Layout DEF Referred
  <2>3. \A x \in LiveObjects' : x \in left' \/ Referred(x, ref', value')
    BY <1>1, <1>2, <2>1, <2>2 DEF WeakInv, Prompt, LiveObjects
  <2> QED BY <1>1, <2>3 DEF Prompt
<1> QED BY <1>1, <1>4, <1>5, <1>6, <1>7 DEF WeakInv

LEMMA AssignInv ==
  ASSUME WeakInv, NEW c \in Locals \cup {f \in Fields : Owner[f] \in Visible},
         NEW o \in Visible \cup {None}, Assign(c, o)
  PROVE  WeakInv'
<1> DEFINE cells == [ref EXCEPT ![c] = o]
<1>1. /\ phase = "none" /\ Release(phase, cells, value, state)
      /\ UNCHANGED <<inMap, inKey, left>>
  BY DEF Assign
<1>2. c \in Cell /\ (o = None \/ (o \in Objects /\ state[o] = "live"))
  BY VisibleLive, Layout DEF LiveObjects
<1>3. /\ cells \in [Cell -> Objects \cup {None}]
      /\ \A d \in Cell : cells[d] = IF d = c THEN o ELSE ref[d]
  BY <1>2 DEF WeakInv, WeakTypes
<1> HIDE DEF cells
<1>4. \A d \in Cell : cells[d] # None => state[cells[d]] = "live"
  BY <1>1, <1>2, <1>3, AllLive
<1>5. \A f \in Fields : cells[f] # None => state[Owner[f]] = "live"
  BY <1>1, <1>3, AllLive, VisibleLive, Layout DEF LiveObjects
<1>6. InMemory \in SUBSET Record /\ value \in [InMemory -> Objects \cup {None}]
  BY DEF WeakInv, WeakTypes
<1>7. inMap' = InMemory /\ inKey' = InMemory
  BY <1>1 DEF WeakInv, WeakTypes
<1>8. \A r \in InMemory : /\ state[MapOf(r)] = "live" /\ state[KeyOf(r)] = "live"
                          /\ value[r] # None => state[value[r]] = "live"
  BY <1>1, AllLive
<1>9. WeakSound(cells, InMemory, value)
  BY <1>3, <1>4, <1>5, <1>6, <1>8 DEF WeakSound
<1> QED BY <1>1, <1>7, <1>9, ProgramInv

LEMMA SetInv ==
  ASSUME WeakInv, NEW r \in (Maps \cap Visible) \X Visible, NEW v \in Visible \cup {None}, SetWeak(r, v)
  PROVE  WeakInv'
<1> DEFINE values == With(value, r, v)
           D == InMemory \cup {r}
<1>1. /\ phase = "none" /\ Release(phase, ref, values, state)
      /\ inMap' = inMap \cup {r} /\ inKey' = inKey \cup {r} /\ left' = left
  BY DEF SetWeak
<1>2. /\ r \in Record /\ state[MapOf(r)] = "live" /\ state[KeyOf(r)] = "live"
      /\ v = None \/ (v \in Objects /\ state[v] = "live")
  BY VisibleLive, Layout DEF LiveObjects, Record, MapOf, KeyOf
<1>3. D \in SUBSET Record /\ inMap' = D /\ inKey' = D
  BY <1>1, <1>2 DEF WeakInv, WeakTypes
<1>4. /\ values \in [D -> Objects \cup {None}]
      /\ \A n \in D : values[n] = IF n = r THEN v ELSE value[n]
  BY <1>2 DEF With, WeakInv, WeakTypes, InMemory
<1> HIDE DEF values
<1>5. \A n \in InMemory : /\ state[MapOf(n)] = "live" /\ state[KeyOf(n)] = "live"
                          /\ value[n] # None => state[value[n]] = "live"
  BY <1>1, AllLive
<1>6. \A n \in D : /\ state[MapOf(n)] = "live" /\ state[KeyOf(n)] = "live"
                   /\ values[n] # None => state[values[n]] = "live"
  BY <1>2, <1>4, <1>5
<1>7. /\ ref \in [Cell -> Objects \cup {None}]
      /\ \A c \in Cell : ref[c] # None => state[ref[c]] = "live"
      /\ \A f \in Fields : ref[f] # None => state[Owner[f]] = "live"
  BY <1>1, AllLive DEF WeakInv, WeakTypes
<1> HIDE DEF D
<1>8. WeakSound(ref, D, values)
  BY <1>3, <1>4, <1>6, <1>7 DEF WeakSound
<1> QED BY <1>1, <1>3, <1>8, ProgramInv

LEMMA DeleteInv == ASSUME WeakInv, NEW r, DeleteWeak(r) PROVE WeakInv'
<1> DEFINE values == Without(value, {r})
           D == InMemory \ {r}
<1>1. /\ phase = "none" /\ Release(phase, ref, values, state)
      /\ inMap' = inMap \ {r} /\ inKey' = inKey \ {r} /\ left' = left
  BY DEF DeleteWeak
<1>2. D \in SUBSET Record /\ inMap' = D /\ inKey' = D
  BY <1>1 DEF WeakInv, WeakTypes
<1>3. values \in [D -> Objects \cup {None}] /\ \A n \in D : values[n] = value[n]
  BY DEF Without, WeakInv, WeakTypes, InMemory
<1> HIDE DEF values
<1>4. \A n \in InMemory : /\ state[MapOf(n)] = "live" /\ state[KeyOf(n)] = "live"
                          /\ value[n] # None => state[value[n]] = "live"
  BY <1>1, AllLive
<1>5. \A n \in D : /\ state[MapOf(n)] = "live" /\ state[KeyOf(n)] = "live"
                   /\ values[n] # None => state[values[n]] = "live"
  BY <1>3, <1>4
<1>6. /\ ref \in [Cell -> Objects \cup {None}]
      /\ \A c \in Cell : ref[c] # None => state[ref[c]] = "live"
      /\ \A f \in Fields : ref[f] # None => state[Owner[f]] = "live"
  BY <1>1, AllLive DEF WeakInv, WeakTypes
<1> HIDE DEF D
<1>7. WeakSound(ref, D, values)
  BY <1>2, <1>3, <1>5, <1>6 DEF WeakSound
<1> QED BY <1>1, <1>2, <1>7, ProgramInv

-----------------------------------------------------------------------------
(* Freeing. *)

\* What freeing an object leaves.
FreedFrom(o) ==
  /\ ref' \in [Cell -> Objects \cup {None}]
  /\ \A c \in Cell : ref'[c] = IF c \in Fields /\ Owner[c] = o THEN None ELSE ref[c]
  /\ \A n : n \in InMemory' <=> n \in InMemory /\ MapOf(n) # o /\ KeyOf(n) # o
  /\ value' \in [InMemory' -> Objects \cup {None}]
  /\ \A n \in InMemory' : value'[n] = value[n]
  /\ inMap' = InMemory' /\ inKey' = InMemory'

LEMMA FreeObjectFacts ==
  ASSUME WeakInv, NEW o \in Objects, NEW after, FreeObject(o, after)
  PROVE  /\ FreedFrom(o)
         /\ left' = IF phase = "remove"
                    THEN left \cup {value[n] : n \in {m \in InMemory : KeyOf(m) = o}} ELSE left
         /\ Release(phase, ref', value',
                    [state EXCEPT ![o] = IF Referred(o, ref', value') THEN after ELSE "free"])
<1> DEFINE keyed == {n \in inKey : KeyOf(n) = o}
           mine == {n \in inMap : MapOf(n) = o}
           cells == [c \in Cell |-> IF c \in FieldsOf(o) THEN None ELSE ref[c]]
           values == Without(value, keyed \cup mine)
<1>1. /\ inMap' = inMap \ (keyed \cup mine) /\ inKey' = inKey \ (keyed \cup mine)
      /\ left' = IF phase = "remove" THEN left \cup {value[n] : n \in keyed} ELSE left
      /\ Release(phase, cells, values,
                 [state EXCEPT ![o] = IF Referred(o, cells, values) THEN after ELSE "free"])
  BY DEF FreeObject
<1>2. ref' = cells /\ value' = values
  BY <1>1 DEF Release
<1>3. inMap = InMemory /\ inKey = InMemory
  BY DEF WeakInv, WeakTypes
<1>4. InMemory' = InMemory \ (keyed \cup mine)
  BY <1>2 DEF InMemory, Without
<1>5. \A n : n \in InMemory' <=> n \in InMemory /\ MapOf(n) # o /\ KeyOf(n) # o
  BY <1>3, <1>4
<1>6. value' \in [InMemory' -> Objects \cup {None}] /\ \A n \in InMemory' : value'[n] = value[n]
  BY <1>2, <1>4 DEF Without, WeakInv, WeakTypes, InMemory
<1>7. /\ ref' \in [Cell -> Objects \cup {None}]
      /\ \A c \in Cell : ref'[c] = IF c \in Fields /\ Owner[c] = o THEN None ELSE ref[c]
  BY <1>2 DEF FieldsOf, WeakInv, WeakTypes
<1>8. inMap' = InMemory' /\ inKey' = InMemory'
  BY <1>1, <1>3, <1>4
<1>9. left' = IF phase = "remove"
              THEN left \cup {value[n] : n \in {m \in InMemory : KeyOf(m) = o}} ELSE left
  BY <1>1, <1>3
<1>10. Release(phase, ref', value',
               [state EXCEPT ![o] = IF Referred(o, ref', value') THEN after ELSE "free"])
  BY <1>1, <1>2
<1> QED BY <1>5, <1>6, <1>7, <1>8, <1>9, <1>10 DEF FreedFrom

\* Freeing leaves fewer references.
LEMMA FreedFewer ==
  ASSUME WeakInv, NEW o, FreedFrom(o)
  PROVE  /\ \A x \in Objects : Referred(x, ref', value') => Referred(x, ref, value)
         /\ \A c \in Cell : ref'[c] # None => ref'[c] = ref[c] /\ ref[c] \in Objects
         /\ \A n \in InMemory' : /\ n \in InMemory /\ value'[n] = value[n]
                                 /\ MapOf(n) # o /\ KeyOf(n) # o
         /\ \A f \in Fields : ref'[f] # None => Owner[f] # o
<1>1. \A c \in Cell : ref'[c] # None => ref'[c] = ref[c] /\ ref[c] \in Objects
  BY DEF FreedFrom, WeakInv, WeakTypes
<1>2. \A n \in InMemory' : n \in InMemory /\ value'[n] = value[n] /\ MapOf(n) # o /\ KeyOf(n) # o
  BY DEF FreedFrom
<1>3. \A f \in Fields : ref'[f] # None => Owner[f] # o
  BY Layout DEF FreedFrom
<1>4. \A x \in Objects : Referred(x, ref', value') => Referred(x, ref, value)
  BY <1>1, <1>2, Layout DEF Referred, InMemory
<1> QED BY <1>1, <1>2, <1>3, <1>4

LEMMA FreeZeroInv == ASSUME WeakInv, NEW o \in Objects, FreeZero(o) PROVE WeakInv'
<1> DEFINE states == [state EXCEPT ![o] = "free"]
           lost == {x \in Objects : /\ states[x] = "live" /\ Referred(x, ref, value)
                                   /\ ~Referred(x, ref', value')}
<1>1. phase = "decref" /\ state[o] = "queued" /\ FreeObject(o, "free")
  BY DEF FreeZero
<1>2. /\ FreedFrom(o) /\ left' = left
      /\ Release(phase, ref', value', [state EXCEPT ![o] = IF Referred(o, ref', value') THEN "free" ELSE "free"])
  BY <1>1, FreeObjectFacts
<1>3. Release(phase, ref', value', states)
  BY <1>2
<1>4. /\ phase' = "decref"
      /\ state' = [x \in Objects |-> IF x \in lost THEN "queued" ELSE states[x]]
  BY <1>1, <1>3 DEF Release
<1>5. \A x \in Objects : states[x] = IF x = o THEN "free" ELSE state[x]
  BY DEF WeakInv, WeakTypes
<1>6. /\ \A x \in Objects : Referred(x, ref', value') => Referred(x, ref, value)
      /\ \A c \in Cell : ref'[c] # None => ref'[c] = ref[c] /\ ref[c] \in Objects
      /\ \A n \in InMemory' : /\ n \in InMemory /\ value'[n] = value[n]
                              /\ MapOf(n) # o /\ KeyOf(n) # o
      /\ \A f \in Fields : ref'[f] # None => Owner[f] # o
  BY <1>2, FreedFewer
<1>7. \A x \in Objects : /\ x \in lost => state'[x] = "queued" /\ state[x] = "live"
                         /\ x \notin lost => state'[x] = IF x = o THEN "free" ELSE state[x]
  BY <1>4, <1>5
<1>8. \A x \in lost : /\ \A c \in Cell : ref'[c] # x
                      /\ \A n \in InMemory' : value'[n] # x
  BY DEF Referred, InMemory
<1>9. \A x \in Objects : state[x] = "live" /\ x # o /\ x \notin lost =>
        x \in left \/ Referred(x, ref', value')
  BY <1>1, <1>5 DEF WeakInv, Prompt, LiveObjects
<1> HIDE DEF lost, states
<1>10. WeakTypes'
  <2>1. state' \in [Objects -> State]
    BY <1>4, <1>7 DEF State, WeakInv, WeakTypes
  <2>2. InMemory' \subseteq Record
    BY <1>6 DEF WeakInv, WeakTypes
  <2> QED BY <1>2, <1>4, <2>1, <2>2 DEF WeakTypes, FreedFrom
<1>11. Phases'
  BY <1>1, <1>4, <1>7 DEF WeakInv, Phases
<1>12. Whole'
  <2>1. \A x \in Objects : Intact(x) /\ x # o => Intact(x)'
    BY <1>7 DEF Intact
  <2>2. \A f \in Fields : ref'[f] # None => Intact(Owner[f])'
    <3> SUFFICES ASSUME NEW f \in Fields, ref'[f] # None PROVE Intact(Owner[f])'
      OBVIOUS
    <3>1. ref[f] # None /\ Owner[f] # o /\ Owner[f] \in Objects
      BY <1>6, Layout
    <3>2. Intact(Owner[f])
      BY <3>1 DEF WeakInv, Whole
    <3> QED BY <2>1, <3>1, <3>2
  <2>3. ASSUME NEW n \in InMemory' PROVE Intact(MapOf(n))' /\ Intact(KeyOf(n))'
    <3>1. /\ n \in InMemory /\ MapOf(n) # o /\ KeyOf(n) # o
          /\ MapOf(n) \in Objects /\ KeyOf(n) \in Objects
      BY <1>6, Layout DEF WeakInv, WeakTypes
    <3>2. Intact(MapOf(n)) /\ Intact(KeyOf(n))
      BY <3>1 DEF WeakInv, Whole
    <3> QED BY <2>1, <3>1, <3>2
  <2>4. ASSUME NEW c \in Cell, ref'[c] # None PROVE state'[ref'[c]] \notin {"free", "queued"}
    <3>1. ref[c] = ref'[c] /\ ref[c] \in Objects /\ state[ref[c]] \notin {"free", "queued"}
      BY <1>6, <2>4 DEF WeakInv, Whole
    <3>2. ref'[c] \notin lost /\ ref'[c] # o
      BY <1>1, <1>8, <3>1
    <3> QED BY <1>7, <3>1, <3>2
  <2>5. ASSUME NEW n \in InMemory', value'[n] # None PROVE state'[value'[n]] \notin {"free", "queued"}
    <3>1. /\ n \in InMemory /\ value[n] = value'[n] /\ value[n] \in Objects
          /\ state[value[n]] \notin {"free", "queued"}
      BY <1>6, <2>5 DEF WeakInv, Whole, WeakTypes
    <3>2. value'[n] \notin lost /\ value'[n] # o
      BY <1>1, <1>8, <3>1
    <3> QED BY <1>7, <3>1, <3>2
  <2> QED BY <2>2, <2>3, <2>4, <2>5 DEF Whole
<1>13. Prompt'
  <2>1. \A x \in LiveObjects' : x \in Objects /\ state[x] = "live" /\ x # o /\ x \notin lost
    BY <1>7 DEF LiveObjects
  <2>2. \A x \in LiveObjects' : x \in left' \/ Referred(x, ref', value')
    BY <1>2, <1>9, <2>1
  <2> QED BY <1>4, <2>2 DEF Prompt
<1> QED BY <1>4, <1>10, <1>11, <1>12, <1>13 DEF WeakInv

LEMMA FreeCycleInv == ASSUME WeakInv, NEW o \in Objects, FreeCycle(o) PROVE WeakInv'
<1> DEFINE to == IF Referred(o, ref', value') THEN "zombie" ELSE "free"
<1>1. phase = "remove" /\ state[o] = "garbage" /\ FreeObject(o, "zombie")
  BY DEF FreeCycle
<1>2. /\ FreedFrom(o)
      /\ left' = left \cup {value[n] : n \in {m \in InMemory : KeyOf(m) = o}}
      /\ Release(phase, ref', value', [state EXCEPT ![o] = to])
  BY <1>1, FreeObjectFacts
<1>3. phase' = "remove" /\ state' = [state EXCEPT ![o] = to]
  BY <1>1, <1>2 DEF Release
<1>4. /\ to \in {"zombie", "free"}
      /\ to = "free" => ~Referred(o, ref', value')
  OBVIOUS
<1> HIDE DEF to
<1>5. \A x \in Objects : state'[x] = IF x = o THEN to ELSE state[x]
  BY <1>3 DEF WeakInv, WeakTypes
<1>6. /\ \A c \in Cell : ref'[c] # None => ref'[c] = ref[c] /\ ref[c] \in Objects
      /\ \A n \in InMemory' : /\ n \in InMemory /\ value'[n] = value[n]
                              /\ MapOf(n) # o /\ KeyOf(n) # o
      /\ \A f \in Fields : ref'[f] # None => Owner[f] # o
  BY <1>2, FreedFewer
<1>7. to = "free" => /\ \A c \in Cell : ref'[c] # o
                     /\ \A n \in InMemory' : value'[n] # o
  BY <1>4 DEF Referred, InMemory
<1>8. WeakTypes'
  <2>1. state' \in [Objects -> State]
    BY <1>3, <1>4 DEF State, WeakInv, WeakTypes
  <2>2. InMemory' \subseteq Record
    BY <1>6 DEF WeakInv, WeakTypes
  <2> QED BY <1>2, <1>3, <2>1, <2>2 DEF WeakTypes, FreedFrom
<1>9. Phases'
  BY <1>1, <1>3, <1>4, <1>5 DEF WeakInv, Phases
<1>10. Whole'
  <2>1. \A x \in Objects : Intact(x) /\ x # o => Intact(x)'
    BY <1>5 DEF Intact
  <2>2. \A f \in Fields : ref'[f] # None => Intact(Owner[f])'
    <3> SUFFICES ASSUME NEW f \in Fields, ref'[f] # None PROVE Intact(Owner[f])'
      OBVIOUS
    <3>1. ref[f] # None /\ Owner[f] # o /\ Owner[f] \in Objects
      BY <1>6, Layout
    <3>2. Intact(Owner[f])
      BY <3>1 DEF WeakInv, Whole
    <3> QED BY <2>1, <3>1, <3>2
  <2>3. ASSUME NEW n \in InMemory' PROVE Intact(MapOf(n))' /\ Intact(KeyOf(n))'
    <3>1. /\ n \in InMemory /\ MapOf(n) # o /\ KeyOf(n) # o
          /\ MapOf(n) \in Objects /\ KeyOf(n) \in Objects
      BY <1>6, Layout DEF WeakInv, WeakTypes
    <3>2. Intact(MapOf(n)) /\ Intact(KeyOf(n))
      BY <3>1 DEF WeakInv, Whole
    <3> QED BY <2>1, <3>1, <3>2
  <2>4. ASSUME NEW c \in Cell, ref'[c] # None PROVE state'[ref'[c]] \notin {"free", "queued"}
    <3>1. ref[c] = ref'[c] /\ ref[c] \in Objects /\ state[ref[c]] \notin {"free", "queued"}
      BY <1>6, <2>4 DEF WeakInv, Whole
    <3> QED BY <1>4, <1>5, <1>7, <3>1
  <2>5. ASSUME NEW n \in InMemory', value'[n] # None PROVE state'[value'[n]] \notin {"free", "queued"}
    <3>1. /\ n \in InMemory /\ value[n] = value'[n] /\ value[n] \in Objects
          /\ state[value[n]] \notin {"free", "queued"}
      BY <1>6, <2>5 DEF WeakInv, Whole, WeakTypes
    <3> QED BY <1>4, <1>5, <1>7, <3>1
  <2> QED BY <2>2, <2>3, <2>4, <2>5 DEF Whole
<1>11. \A x \in Objects : state'[x] = "live" <=> state[x] = "live"
  BY <1>1, <1>4, <1>5
<1>12. Apart'
  <2>1. Apart
    BY <1>1 DEF WeakInv
  <2>2. \A l \in Locals : ref'[l] # None => state'[ref'[l]] = "live"
    BY <1>6, <1>11, <2>1, Layout DEF Apart
  <2>3. \A f \in Fields : ref'[f] # None /\ state'[Owner[f]] = "live" => state'[ref'[f]] = "live"
    BY <1>6, <1>11, <2>1, Layout DEF Apart
  <2>4. ASSUME NEW n \in InMemory', value'[n] # None, state'[MapOf(n)] = "live"
        PROVE  state'[value'[n]] = "live"
    <3>1. n \in InMemory /\ value[n] = value'[n] /\ value[n] \in Objects /\ MapOf(n) \in Objects
      BY <1>6, <2>4, Layout DEF WeakInv, WeakTypes
    <3>2. state[value[n]] = "live"
      BY <1>11, <2>1, <2>4, <3>1 DEF Apart
    <3> QED BY <1>11, <3>1, <3>2
  <2> QED BY <2>2, <2>3, <2>4 DEF Apart
<1>13. Prompt'
  <2> SUFFICES ASSUME NEW x \in Objects, state[x] = "live", x \notin left' PROVE HasReference(x)'
    BY <1>3, <1>11 DEF Prompt, LiveObjects
  <2>1. HasReference(x)
    BY <1>1, <1>2 DEF WeakInv, Prompt, LiveObjects
  <2>2. CASE \E l \in Locals : ref[l] = x
    <3>1. PICK l \in Locals : ref[l] = x
      BY <2>2
    <3>2. ref'[l] = x
      BY <1>2, <3>1, Layout DEF FreedFrom
    <3> QED BY <3>2 DEF HasReference
  <2>3. CASE \E f \in Fields : ref[f] = x /\ state[Owner[f]] = "live"
    <3>1. PICK f \in Fields : ref[f] = x /\ state[Owner[f]] = "live"
      BY <2>3
    <3>2. Owner[f] # o /\ Owner[f] \in Objects
      BY <1>1, <3>1, Layout
    <3>3. ref'[f] = x /\ state'[Owner[f]] = "live"
      BY <1>2, <1>11, <3>1, <3>2, Layout DEF FreedFrom
    <3> QED BY <3>3 DEF HasReference
  <2>4. CASE \E n \in InMemory : value[n] = x /\ state[MapOf(n)] = "live"
    <3>1. PICK n \in InMemory : value[n] = x /\ state[MapOf(n)] = "live"
      BY <2>4
    <3>2. MapOf(n) # o /\ MapOf(n) \in Objects
      BY <1>1, <3>1, Layout DEF WeakInv, WeakTypes
    <3>3. KeyOf(n) # o
      BY <1>2, <3>1
    <3>4. n \in InMemory' /\ value'[n] = x /\ state'[MapOf(n)] = "live"
      BY <1>2, <1>11, <3>1, <3>2, <3>3 DEF FreedFrom
    <3> QED BY <3>4 DEF HasReference
  <2> QED BY <2>1, <2>2, <2>3, <2>4 DEF HasReference
<1> QED BY <1>8, <1>9, <1>10, <1>12, <1>13 DEF WeakInv

LEMMA FreeZeroEndInv == ASSUME WeakInv, FreeZeroEnd PROVE WeakInv'
<1>1. /\ phase = "decref" /\ phase' = "none" /\ \A o \in Objects : state[o] # "queued"
      /\ UNCHANGED <<ref, state, value, inMap, inKey, left>> /\ InMemory' = InMemory
  BY DEF FreeZeroEnd, InMemory
<1>2. WeakTypes' /\ Phases'
  BY <1>1 DEF WeakInv, WeakTypes, Phases
<1>3. Whole'
  BY <1>1 DEF WeakInv, Whole, Intact
<1>4. Prompt'
  BY <1>1 DEF WeakInv, Prompt, LiveObjects
<1> QED BY <1>1, <1>2, <1>3, <1>4 DEF WeakInv

\* At the end of cycle removal nothing refers to a zombie.
LEMMA FreeCyclesEndInv == ASSUME WeakInv, FreeCyclesEnd PROVE WeakInv'
<1> DEFINE K == KeptFrom(Roots)
<1>1. /\ phase = "remove" /\ phase' = "none" /\ \A o \in Objects : state[o] # "garbage"
      /\ state' = [o \in Objects |-> IF state[o] = "zombie" THEN "free" ELSE state[o]]
      /\ left' = left \ K
      /\ UNCHANGED <<ref, value, inMap, inKey>> /\ InMemory' = InMemory
  BY DEF FreeCyclesEnd, InMemory
<1>2. \A o \in Objects : state[o] \in {"free", "live", "zombie"}
  BY <1>1 DEF WeakInv, Phases
<1>3. \A o \in Objects : state'[o] = IF state[o] = "live" THEN "live" ELSE "free"
  BY <1>1, <1>2
<1>4. \A o \in Objects : Intact(o) => state[o] = "live" /\ Intact(o)'
  BY <1>2, <1>3 DEF Intact
<1>5. /\ \A f \in Fields : ref[f] # None => state[Owner[f]] = "live" /\ Intact(Owner[f])'
      /\ \A n \in InMemory : /\ state[MapOf(n)] = "live"
                             /\ Intact(MapOf(n))' /\ Intact(KeyOf(n))'
  <2>1. \A f \in Fields : ref[f] # None => state[Owner[f]] = "live" /\ Intact(Owner[f])'
    BY <1>4, Layout DEF WeakInv, Whole
  <2>2. ASSUME NEW n \in InMemory
        PROVE  state[MapOf(n)] = "live" /\ Intact(MapOf(n))' /\ Intact(KeyOf(n))'
    <3>1. Intact(MapOf(n)) /\ Intact(KeyOf(n)) /\ MapOf(n) \in Objects /\ KeyOf(n) \in Objects
      BY Layout DEF WeakInv, Whole, WeakTypes
    <3> QED BY <1>4, <3>1
  <2> QED BY <2>1, <2>2
<1>6. Apart
  BY <1>1 DEF WeakInv
<1>7. \A c \in Cell : ref[c] # None => state'[ref[c]] = "live"
  <2>1. \A c \in Cell : ref[c] # None => state[ref[c]] = "live"
    BY <1>5, <1>6, Layout DEF Apart
  <2> QED BY <1>3, <2>1 DEF WeakInv, WeakTypes
<1>8. \A n \in InMemory : value[n] # None => state'[value[n]] = "live"
  <2>1. \A n \in InMemory : value[n] # None => state[value[n]] = "live"
    BY <1>5, <1>6 DEF Apart
  <2> QED BY <1>3, <2>1 DEF WeakInv, WeakTypes
<1>9. WeakTypes'
  <2>1. state' \in [Objects -> State]
    BY <1>1, <1>3 DEF State
  <2> QED BY <1>1, <2>1 DEF WeakInv, WeakTypes
<1>10. Phases' /\ Whole'
  BY <1>1, <1>3, <1>5, <1>7, <1>8 DEF Phases, Whole
<1>11. Prompt'
  <2> SUFFICES ASSUME NEW x \in Objects, state[x] = "live", x \notin left \ K
               PROVE  Referred(x, ref, value)
    BY <1>1, <1>3 DEF Prompt, LiveObjects
  <2>1. CASE x \in K
    BY <2>1, KeptClosed, Layout DEF Referred, InMemory
  <2>2. CASE x \notin left
    BY <1>1, <2>2, Layout DEF WeakInv, Prompt, LiveObjects, HasReference, Referred, InMemory
  <2> QED BY <2>1, <2>2
<1> QED BY <1>1, <1>9, <1>10, <1>11 DEF WeakInv

LEMMA RunGCInv == ASSUME WeakInv, RunGC PROVE WeakInv'
<1> DEFINE K == KeptFrom(Roots)
<1>1. /\ phase = "none" /\ phase' = "remove" /\ left' = {}
      /\ state' = [o \in Objects |-> IF o \in GarbageNow THEN "garbage" ELSE state[o]]
      /\ UNCHANGED <<ref, value, inMap, inKey>> /\ InMemory' = InMemory
  BY DEF RunGC, InMemory
<1>2. \A o \in Objects : state[o] \in {"free", "live"}
  BY <1>1 DEF WeakInv, Phases
<1>3. /\ K \subseteq Objects
      /\ \A l \in Locals : ref[l] # None => ref[l] \in K
      /\ \A f \in Fields : ref[f] # None /\ Owner[f] \in K => ref[f] \in K
      /\ \A n \in InMemory : value[n] # None /\ MapOf(n) \in K => value[n] \in K
      /\ \A o \in K : \/ \E l \in Locals : ref[l] = o
                      \/ \E f \in Fields : ref[f] = o /\ Owner[f] \in K
                      \/ \E n \in InMemory : value[n] = o /\ MapOf(n) \in K
  BY KeptClosed
<1>4. \A o \in Objects : state'[o] = IF state[o] = "live" /\ o \notin K THEN "garbage" ELSE state[o]
  BY <1>1 DEF GarbageNow
<1> HIDE DEF K
<1>5. \A o \in Objects : state'[o] = "live" <=> state[o] = "live" /\ o \in K
  BY <1>2, <1>4
<1>6. /\ \A c \in Cell : ref[c] # None => state[ref[c]] = "live"
      /\ \A f \in Fields : ref[f] # None => state[Owner[f]] = "live"
      /\ \A n \in InMemory : /\ state[MapOf(n)] = "live" /\ state[KeyOf(n)] = "live"
                             /\ value[n] # None => state[value[n]] = "live"
  BY <1>1, AllLive
<1>7. WeakTypes'
  <2>1. state' \in [Objects -> State]
    BY <1>1, <1>2, <1>4 DEF State
  <2> QED BY <1>1, <2>1 DEF WeakInv, WeakTypes
<1>8. Phases'
  BY <1>1, <1>2, <1>4 DEF Phases
<1>9. Whole'
  <2>1. \A o \in Objects : state[o] = "live" => Intact(o)' /\ state'[o] \notin {"free", "queued"}
    BY <1>4 DEF Intact
  <2>2. \A f \in Fields : ref'[f] # None => Intact(Owner[f])'
    BY <1>1, <1>6, <2>1, Layout
  <2>3. \A n \in InMemory : Intact(MapOf(n))' /\ Intact(KeyOf(n))'
    BY <1>6, <2>1, Layout DEF WeakInv, WeakTypes
  <2>4. \A c \in Cell : ref[c] # None => state'[ref[c]] \notin {"free", "queued"}
    BY <1>6, <2>1 DEF WeakInv, WeakTypes
  <2>5. \A n \in InMemory : value[n] # None => state'[value[n]] \notin {"free", "queued"}
    BY <1>6, <2>1 DEF WeakInv, WeakTypes
  <2> QED BY <1>1, <2>2, <2>3, <2>4, <2>5 DEF Whole
<1>10. Apart'
  <2>1. \A l \in Locals : ref[l] # None => state'[ref[l]] = "live"
    BY <1>3, <1>5, <1>6, Layout
  <2>2. \A f \in Fields : ref[f] # None /\ state'[Owner[f]] = "live" => state'[ref[f]] = "live"
    BY <1>3, <1>5, <1>6, Layout
  <2>3. ASSUME NEW n \in InMemory, value[n] # None, state'[MapOf(n)] = "live"
        PROVE  state'[value[n]] = "live"
    <3>1. MapOf(n) \in Objects
      BY Layout DEF WeakInv, WeakTypes
    <3>2. MapOf(n) \in K
      BY <1>5, <2>3, <3>1
    <3> QED BY <1>3, <1>5, <1>6, <2>3, <3>2
  <2> QED BY <1>1, <2>1, <2>2, <2>3 DEF Apart
<1>11. Prompt'
  <2> SUFFICES ASSUME NEW x \in Objects, state'[x] = "live" PROVE HasReference(x)'
    BY <1>1 DEF Prompt, LiveObjects
  <2>1. x \in K /\ x # None
    BY <1>5, Layout
  <2>2. CASE \E l \in Locals : ref[l] = x
    BY <1>1, <2>2 DEF HasReference
  <2>3. CASE \E f \in Fields : ref[f] = x /\ Owner[f] \in K
    BY <1>1, <1>5, <1>6, <2>1, <2>3, Layout DEF HasReference
  <2>4. CASE \E n \in InMemory : value[n] = x /\ MapOf(n) \in K
    <3>1. PICK n \in InMemory : value[n] = x /\ MapOf(n) \in K
      BY <2>4
    <3>2. state'[MapOf(n)] = "live"
      BY <1>3, <1>5, <1>6, <3>1
    <3> QED BY <1>1, <3>1, <3>2 DEF HasReference
  <2> QED BY <1>3, <2>1, <2>2, <2>3, <2>4
<1> QED BY <1>7, <1>8, <1>9, <1>10, <1>11 DEF WeakInv

-----------------------------------------------------------------------------
LEMMA InitInv == WeakInit => WeakInv
<1> SUFFICES ASSUME WeakInit PROVE WeakInv
  OBVIOUS
<1>1. InMemory = {} /\ LiveObjects = {}
  BY DEF WeakInit, InMemory, LiveObjects
<1>2. WeakTypes
  BY <1>1 DEF WeakInit, WeakTypes, State, InMemory
<1>3. Phases /\ Whole /\ Prompt
  BY <1>1, Layout DEF WeakInit, Phases, Whole, Prompt
<1> QED BY <1>2, <1>3 DEF WeakInv, WeakInit

LEMMA NextInv == WeakInv /\ [WeakNext]_weakVars => WeakInv'
<1> SUFFICES ASSUME WeakInv, [WeakNext]_weakVars PROVE WeakInv'
  OBVIOUS
<1>1. CASE WeakProgram
  BY <1>1, NewInv, AssignInv, SetInv, DeleteInv DEF WeakProgram
<1>2. CASE RunGC \/ FreeZeroEnd \/ FreeCyclesEnd
  BY <1>2, RunGCInv, FreeZeroEndInv, FreeCyclesEndInv
<1>3. CASE \E o \in Objects : FreeZero(o) \/ FreeCycle(o)
  BY <1>3, FreeZeroInv, FreeCycleInv
<1>4. CASE UNCHANGED weakVars
  <2>1. UNCHANGED <<ref, state, value, inMap, inKey, phase, left>> /\ InMemory' = InMemory
    BY <1>4 DEF weakVars, InMemory
  <2>2. WeakTypes' /\ Phases' /\ Prompt'
    BY <2>1 DEF WeakInv, WeakTypes, Phases, Prompt, LiveObjects, HasReference
  <2>3. Whole' /\ (phase' = "remove" => Apart')
    BY <2>1 DEF WeakInv, Whole, Intact, Apart
  <2> QED BY <2>2, <2>3 DEF WeakInv
<1> QED BY <1>1, <1>2, <1>3, <1>4 DEF WeakNext

\* The inductive invariant of weak maps and of what frees their keys.
THEOREM WeakInvariance == WeakSpec => []WeakInv
<1> QED BY InitInv, NextInv, PTL DEF WeakSpec

\* The lists of map and key agree at every moment of freeing either
\* (delete_weak_ref, reset_weak_ref), no record refers to freed memory, and
\* only what a collection could not free waits for the next.
THEOREM WeakRefsAreExact == WeakSpec => []WeakRefsExact
<1>1. WeakInv => WeakRefsExact
  <2> SUFFICES ASSUME WeakInv PROVE WeakRefsExact
    OBVIOUS
  <2>1. WeakListsAgree
    BY DEF WeakInv, WeakTypes, Whole, WeakListsAgree
  <2>2. PromptButLeft
    BY DEF WeakInv, Prompt, LiveObjects, PromptButLeft
  <2> QED BY <2>1, <2>2 DEF WeakRefsExact
<1> QED BY <1>1, WeakInvariance, PTL

\* No step of freeing or of collecting takes away or changes an entry whose map
\* and key the program has (reset_weak_ref, js_map_mark, js_map_finalizer).
THEOREM EntriesAreKept == WeakSpec => EntriesKept
<1> DEFINE A == phase # "none" => \A seen \in {Visible} :
                  \A r \in inMap \cup inMap' : {MapOf(r), KeyOf(r)} \subseteq seen => Same(r)
<1>1. WeakInv /\ [WeakNext]_weakVars => [A]_weakVars
  <2> SUFFICES ASSUME WeakInv, WeakNext, phase # "none", NEW r \in inMap \cup inMap',
                      {MapOf(r), KeyOf(r)} \subseteq Visible
               PROVE  Same(r)
    OBVIOUS
  <2>1. MapOf(r) \in LiveObjects /\ KeyOf(r) \in LiveObjects
    BY VisibleLive
  <2>2. CASE \E o \in Objects : FreeZero(o) \/ FreeCycle(o)
    <3>1. PICK o \in Objects : FreedFrom(o) /\ state[o] # "live"
      BY <2>2, FreeObjectFacts DEF FreeZero, FreeCycle
    <3>2. MapOf(r) # o /\ KeyOf(r) # o
      BY <2>1, <3>1 DEF LiveObjects
    <3>3. inMap = InMemory /\ inMap' = InMemory'
      BY <3>1 DEF FreedFrom, WeakInv, WeakTypes
    <3> QED BY <3>1, <3>2, <3>3 DEF FreedFrom, Same
  <2>3. CASE FreeZeroEnd \/ FreeCyclesEnd
    BY <2>3 DEF FreeZeroEnd, FreeCyclesEnd, Same
  <2>4. ~WeakProgram /\ ~RunGC
    BY DEF WeakProgram, New, Assign, SetWeak, DeleteWeak, RunGC
  <2> QED BY <2>2, <2>3, <2>4 DEF WeakNext
<1> QED BY <1>1, WeakInvariance, PTL DEF WeakSpec, EntriesKept
=============================================================================
