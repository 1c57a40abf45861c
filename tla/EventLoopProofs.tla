-------------------------- MODULE EventLoopProofs --------------------------
(***************************************************************************)
(* The handlers, timers and signals of the event loop, for any number of   *)
(* functions, timers, descriptors and signals and any delays.              *)
(***************************************************************************)
EXTENDS EventLoop, WellFoundedInduction, TLAPS

JSOSTimer == [func : Func \cup {None, Resolve}, delay : 0..MaxDelay, hasObject : BOOLEAN]
JSOSRWHandler == [fd : Fd, func : [0..1 -> Func \cup {None}]]
JSOSSignalHandler == [sig : Signal, func : Func]
HasObject(tab) == {t \in DOMAIN tab : tab[t].hasObject}

\* What TypeOK leaves out.
Types ==
  /\ pc \in {"script", "job", "call", "jobs", "signals", "ack", "timers", "select",
             "over", "failed", "closed", "ended", "undefined"}
  /\ running \in Func \cup {None} /\ jobs \in 0..MaxJobs
  /\ th \in [DOMAIN th -> JSOSTimer] /\ DOMAIN th \subseteq Timer
  /\ timers \in Seq(Timer) /\ rw \in Seq(JSOSRWHandler) /\ handlers \in Seq(JSOSSignalHandler)
  /\ alive \subseteq Func \cup Timer /\ held \subseteq Timer
  /\ closure \in [Func -> Timer \cup {None}]
  /\ pending \subseteq Signal /\ loaded \subseteq Signal /\ owed \subseteq Signal

\* What is referred to is alive, and what is not has no closure.
Referents ==
  /\ Refs \subseteq alive
  /\ \A f \in Func : closure[f] \in alive \cup {None}
  /\ \A f \in Func \ alive : closure[f] = None

\* The timers allocated are those pending and those with an object.
Allocated ==
  /\ DOMAIN th = Linked \cup HasObject(th)
  /\ alive \cap Timer = HasObject(th)

\* The function of a timer is freed early only if no object represents it.
Danglers == \A t \in DOMAIN th :
  th[t].func \notin alive \cup {None, Resolve} => t \in Linked /\ ~th[t].hasObject

Once == \A i, j \in DOMAIN timers : timers[i] = timers[j] => i = j

\* Between the two halves of "&= ~mask", what is owed has been read.
Signalled ==
  /\ owed \subseteq pending
  /\ pc = "ack" => /\ owed \subseteq loaded
                   /\ \E sh \in ToSet(handlers) : sh.sig \in loaded

Places ==
  /\ pc # "call" => running = None
  /\ pc \in {"closed", "ended"} => timers = <<>> /\ rw = <<>> /\ handlers = <<>>
  /\ pc = "ended" => DOMAIN th = {}
  /\ \A rh \in ToSet(rw) : Funcs(rh) # {}

Inv == Types /\ Referents /\ Allocated /\ Danglers /\ Once /\ Signalled /\ Places

-----------------------------------------------------------------------------
(* Sequences. *)

LEMMA MinFacts ==
  ASSUME NEW I \in SUBSET Nat, I # {}
  PROVE  Min(I) \in I /\ \A i \in I : Min(I) <= i
<1> DEFINE R == {p \in Nat \X Nat : p[1] < p[2]}
<1>0. IsWellFoundedOn(R, Nat)
  BY NatLessThanWellFounded, Zenon DEF OpToRel
<1>2. \A x, y \in Nat : <<x, y>> \in R <=> x < y
  OBVIOUS
<1> HIDE DEF R
<1>1. \E x \in I : \A y \in I : ~ (<<y, x>> \in R)
  <2> I \subseteq Nat /\ I # {}
    OBVIOUS
  <2> QED BY <1>0, WFMin, Zenon
<1>3. \E x \in I : \A y \in I : x <= y
  <2>1. PICK x \in I : \A y \in I : ~ (<<y, x>> \in R)
    BY <1>1
  <2>2. ASSUME NEW y \in I PROVE x <= y
    <3>1. x \in Nat /\ y \in Nat
      OBVIOUS
    <3>2. ~ (y < x)
      BY <1>2, <2>1, <3>1
    <3> QED BY <3>1, <3>2
  <2> QED BY <2>2
<1> QED BY <1>3 DEF Min

\* SelectInSeq gives 0 or the place of a member that passes the test.
LEMMA FirstPlace ==
  ASSUME NEW s, NEW n \in Nat, NEW I \in SUBSET (1..n)
  PROVE  LET i == IF I # {} THEN Min(I) ELSE 0 IN
         (i = 0 <=> I = {}) /\ (i # 0 => i \in I)
<1> I \in SUBSET Nat
  OBVIOUS
<1>1. CASE I = {}
  BY <1>1
<1>2. CASE I # {}
  <2>1. Min(I) \in I
    BY <1>2, MinFacts
  <2>2. \A i \in I : i # 0
    OBVIOUS
  <2> QED BY <1>2, <2>1, <2>2
<1> QED BY <1>1, <1>2

LEMMA Joined ==
  ASSUME NEW S, NEW a \in Seq(S), NEW b \in Seq(S)
  PROVE  a \o b \in Seq(S) /\ Len(a \o b) = Len(a) + Len(b)
OBVIOUS

LEMMA Removed ==
  ASSUME NEW S, NEW s \in Seq(S), NEW i \in DOMAIN s
  PROVE  /\ RemoveAt(s, i) \in Seq(S)
         /\ DOMAIN RemoveAt(s, i) = 1..(Len(s) - 1)
         /\ \A j \in DOMAIN RemoveAt(s, i) : RemoveAt(s, i)[j] = s[IF j < i THEN j ELSE j + 1]
         /\ ToSet(RemoveAt(s, i)) \subseteq ToSet(s)
         /\ \A x \in ToSet(s) : x # s[i] => x \in ToSet(RemoveAt(s, i))
<1> DEFINE t == RemoveAt(s, i)
<1>1. DOMAIN s = 1..Len(s) /\ i \in 1..Len(s) /\ Len(s) \in Nat
  OBVIOUS
<1> DEFINE a == SubSeq(s, 1, i - 1)
           b == SubSeq(s, i + 1, Len(s))
<1>2. a \in Seq(S) /\ Len(a) = i - 1 /\ \A j \in 1..(i - 1) : a[j] = s[j]
  BY <1>1
<1>3. b \in Seq(S) /\ Len(b) = Len(s) - i /\ \A j \in 1..(Len(s) - i) : b[j] = s[j + i]
  BY <1>1
<1>4. t = a \o b
  BY DEF RemoveAt
<1> HIDE DEF a, b, t
<1>5. /\ t \in Seq(S) /\ Len(t) = Len(s) - 1
      /\ DOMAIN t = 1..(Len(s) - 1)
      /\ \A j \in DOMAIN t : t[j] = s[IF j < i THEN j ELSE j + 1]
  <2>1. t \in Seq(S) /\ Len(t) = Len(s) - 1 /\ DOMAIN t = 1..(Len(s) - 1)
    <3>0. a \o b \in Seq(S) /\ Len(a \o b) = Len(a) + Len(b)
      BY <1>2, <1>3, Joined
    <3>1. t \in Seq(S) /\ Len(t) = Len(a) + Len(b)
      BY <1>4, <3>0
    <3>2. Len(a) + Len(b) = Len(s) - 1
      BY <1>1, <1>2, <1>3
    <3> QED BY <3>1, <3>2
  <2>2. ASSUME NEW j \in 1..(Len(s) - 1) PROVE t[j] = s[IF j < i THEN j ELSE j + 1]
    <3>1. CASE j < i
      BY <1>1, <1>2, <1>3, <1>4, <3>1
    <3>2. CASE ~(j < i)
      <4>1. t[j] = b[j - (i - 1)]
        BY <1>1, <1>2, <1>3, <1>4, <3>2
      <4>2. j - (i - 1) \in 1..(Len(s) - i) /\ (j - (i - 1)) + i = j + 1
        BY <1>1, <3>2
      <4> QED BY <1>3, <3>2, <4>1, <4>2
    <3> QED BY <3>1, <3>2
  <2> QED BY <2>1, <2>2
<1>6. ToSet(t) \subseteq ToSet(s)
  BY <1>1, <1>5 DEF ToSet
<1>7. ASSUME NEW x \in ToSet(s), x # s[i] PROVE x \in ToSet(t)
  <2>1. PICK k \in 1..Len(s) : s[k] = x
    BY <1>1 DEF ToSet
  <2>2. CASE k < i
    BY <1>1, <1>5, <2>1, <2>2 DEF ToSet
  <2>3. CASE k > i
    <3>1. k - 1 \in DOMAIN t /\ ~(k - 1 < i) /\ (k - 1) + 1 = k
      BY <1>1, <1>5, <2>1, <2>3
    <3> QED BY <1>5, <2>1, <3>1 DEF ToSet
  <2> QED BY <1>1, <1>7, <2>1, <2>2, <2>3
<1> QED BY <1>5, <1>6, <1>7 DEF t

LEMMA Appending ==
  ASSUME NEW S, NEW s \in Seq(S), NEW e \in S
  PROVE  /\ Append(s, e) \in Seq(S)
         /\ DOMAIN s = 1..Len(s) /\ DOMAIN Append(s, e) = 1..(Len(s) + 1)
         /\ \A i \in 1..Len(s) : Append(s, e)[i] = s[i]
         /\ Append(s, e)[Len(s) + 1] = e
         /\ ToSet(Append(s, e)) = ToSet(s) \cup {e}
<1> DEFINE t == Append(s, e)
<1>1. /\ t \in Seq(S) /\ DOMAIN s = 1..Len(s) /\ DOMAIN t = 1..(Len(s) + 1)
      /\ \A i \in 1..Len(s) : t[i] = s[i]
      /\ t[Len(s) + 1] = e
  OBVIOUS
<1> HIDE DEF t
<1>2. ToSet(t) = ToSet(s) \cup {e}
  BY <1>1 DEF ToSet
<1> QED BY <1>1, <1>2 DEF t

-----------------------------------------------------------------------------
(* Releasing. *)

LEMMA FinalizedFacts ==
  ASSUME NEW D, NEW tab \in [D -> JSOSTimer], NEW S, NEW L
  PROVE  /\ \A u : u \in DOMAIN Finalized(tab, S, L) <=> u \in D /\ (tab[u].hasObject => u \in S \cup L)
         /\ Finalized(tab, S, L) \in [DOMAIN Finalized(tab, S, L) -> JSOSTimer]
         /\ \A t \in DOMAIN Finalized(tab, S, L) :
              /\ Finalized(tab, S, L)[t].func = tab[t].func
              /\ Finalized(tab, S, L)[t].hasObject <=> tab[t].hasObject /\ t \in S
<1> DEFINE new == Finalized(tab, S, L)
<1>1. /\ DOMAIN new = {u \in DOMAIN tab : tab[u].hasObject => u \in S \cup L}
      /\ \A t \in DOMAIN new : new[t] = [tab[t] EXCEPT !.hasObject = @ /\ t \in S]
      /\ new = [t \in DOMAIN new |-> new[t]]
  BY DEF Finalized
<1> HIDE DEF new
<1>2. ASSUME NEW t \in DOMAIN new
      PROVE  /\ new[t] \in JSOSTimer /\ new[t].func = tab[t].func
             /\ new[t].hasObject <=> tab[t].hasObject /\ t \in S
  <2>1. tab[t] \in JSOSTimer /\ new[t] = [tab[t] EXCEPT !.hasObject = @ /\ t \in S]
    BY <1>1
  <2>2. new[t] = [func |-> tab[t].func, delay |-> tab[t].delay,
                  hasObject |-> tab[t].hasObject /\ t \in S]
    BY <2>1 DEF JSOSTimer
  <2>3. (tab[t].hasObject /\ t \in S) \in BOOLEAN
    OBVIOUS
  <2> QED BY <2>1, <2>2, <2>3 DEF JSOSTimer
<1> QED BY <1>1, <1>2 DEF new

\* What is left after a release refers to what is left, and every function of
\* a timer that stays, stays.
LEMMA Released ==
  ASSUME Inv, NEW tab, NEW var, Release(tab, var),
         Refs' \subseteq Func \cup Timer, Refs' \cap Timer \subseteq alive,
         tab \in [DOMAIN tab -> JSOSTimer], DOMAIN tab \subseteq DOMAIN th,
         \A t \in DOMAIN tab : tab[t] = th[t],
         DOMAIN tab = ToSet(timers') \cup HasObject(tab), HasObject(tab) = HasObject(th),
         \A t \in DOMAIN tab \ ToSet(timers') : tab[t].hasObject,
         ToSet(timers') \subseteq Linked,
         var \in [Func -> Timer \cup {None}],
         \A f \in Func : var[f] \in alive \cup {None},
         \A f \in Func \ alive : var[f] = None
  PROVE  /\ Referents' /\ Allocated' /\ Danglers'
         /\ alive' \subseteq Func \cup Timer
         /\ closure' \in [Func -> Timer \cup {None}]
         /\ th' \in [DOMAIN th' -> JSOSTimer] /\ DOMAIN th' \subseteq Timer
<1> DEFINE O == alive \cup Refs'
           L == ToSet(timers')
           P(T) == ReferredTo(T, Refs', tab, var, L)
           S == {x \in O : \E T \in SUBSET O : x \in T /\ P(T)}
<1>1. Only(S, var) /\ th' = Finalized(tab, S, L)
  BY DEF Release
<1>2. S \subseteq O
  OBVIOUS
<1>3. alive' = S /\ closure' = [f \in Func |-> IF f \in S THEN var[f] ELSE None]
  BY <1>1 DEF Only
<1>4. Refs' \subseteq S
  <2> SUFFICES ASSUME NEW x \in Refs' PROVE x \in S
    OBVIOUS
  <2>1. P({x})
    BY DEF ReferredTo
  <2> QED BY <2>1
<1>5. ASSUME NEW f \in S \cap Func, var[f] # None PROVE var[f] \in S
  <2>1. PICK T \in SUBSET O : f \in T /\ P(T)
    OBVIOUS
  <2>2. var[f] \in alive
    BY <1>5
  <2>3. P(T \cup {var[f]})
    BY <2>1 DEF ReferredTo
  <2> QED BY <2>1, <2>2, <2>3
<1>6. ASSUME NEW t \in DOMAIN tab, t \in L \cup S, tab[t].func \in O PROVE tab[t].func \in S
  <2>1. CASE t \in L
    <3>1. P({tab[t].func})
      BY <2>1 DEF ReferredTo
    <3> QED BY <1>6, <3>1
  <2>2. CASE t \in S
    <3>1. PICK T \in SUBSET O : t \in T /\ P(T)
      BY <2>2
    <3>2. P(T \cup {tab[t].func})
      BY <3>1 DEF ReferredTo
    <3> QED BY <1>6, <3>1, <3>2
  <2> QED BY <1>6, <2>1, <2>2
<1> HIDE DEF S, L, P
<1>7. /\ \A u : u \in DOMAIN th' <=> u \in DOMAIN tab /\ (tab[u].hasObject => u \in S \cup L)
      /\ th' \in [DOMAIN th' -> JSOSTimer]
  BY <1>1, FinalizedFacts
<1>8. \A t \in DOMAIN th' : /\ th'[t].func = tab[t].func
                            /\ th'[t].hasObject <=> tab[t].hasObject /\ t \in S
  BY <1>1, FinalizedFacts
<1>9. Referents'
  <2>1. \A f \in Func : closure'[f] \in alive' \cup {None}
    BY <1>3, <1>5
  <2>2. \A f \in Func \ alive' : closure'[f] = None
    BY <1>3
  <2> QED BY <1>3, <1>4, <2>1, <2>2 DEF Referents
<1>10. Allocated'
  <2>1. DOMAIN th' = L \cup {t \in DOMAIN th' : th'[t].hasObject}
    BY <1>7, <1>8 DEF HasObject, L
  <2>2. S \cap Timer \subseteq HasObject(tab)
    BY <1>2 DEF Inv, Allocated
  <2>3. S \cap Timer = {t \in DOMAIN th' : th'[t].hasObject}
    BY <1>7, <1>8, <2>2 DEF HasObject, Inv, Types
  <2> QED BY <1>3, <2>1, <2>3 DEF Allocated, HasObject, Linked, L
<1>11. Danglers'
  <2> SUFFICES ASSUME NEW t \in DOMAIN th', th'[t].func \notin S \cup {None, Resolve}
               PROVE  t \in L /\ ~th'[t].hasObject
    BY <1>3 DEF Danglers, Linked, L
  <2>1. tab[t].func \notin O
    <3>1. t \in DOMAIN tab /\ th'[t].func = tab[t].func /\ (tab[t].hasObject => t \in S \cup L)
      BY <1>7, <1>8
    <3>2. t \in L \cup S
      BY <3>1 DEF L
    <3> QED BY <1>6, <3>1, <3>2
  <2>2. t \in Linked /\ ~tab[t].hasObject
    BY <1>7, <1>8, <2>1 DEF Inv, Danglers
  <2>3. t \in DOMAIN tab /\ ~tab[t].hasObject /\ ~th'[t].hasObject
    BY <1>7, <1>8, <2>2
  <2> QED BY <2>3 DEF L
<1>12. th' \in [DOMAIN th' -> JSOSTimer] /\ DOMAIN th' \subseteq Timer
  BY <1>7, <1>8 DEF Inv, Types
<1>13. alive' \subseteq Func \cup Timer /\ closure' \in [Func -> Timer \cup {None}]
  BY <1>2, <1>3 DEF Inv, Types
<1> QED BY <1>9, <1>10, <1>11, <1>12, <1>13

\* The same, for what a function of the program does to handlers and variables.
LEMMA ReleasedTh ==
  ASSUME Inv, NEW var, Release(th, var), timers' = timers,
         Refs' \subseteq Func \cup Timer, Refs' \cap Timer \subseteq alive,
         var \in [Func -> Timer \cup {None}],
         \A f \in Func : var[f] \in alive \cup {None},
         \A f \in Func \ alive : var[f] = None
  PROVE  /\ Referents' /\ Allocated' /\ Danglers' /\ Once'
         /\ alive' \subseteq Func \cup Timer
         /\ closure' \in [Func -> Timer \cup {None}]
         /\ th' \in [DOMAIN th' -> JSOSTimer] /\ DOMAIN th' \subseteq Timer
<1>1. /\ th \in [DOMAIN th -> JSOSTimer]
      /\ DOMAIN th = ToSet(timers') \cup HasObject(th)
      /\ ToSet(timers') \subseteq Linked
  BY DEF Inv, Types, Allocated, Linked
<1>2. \A t \in DOMAIN th \ ToSet(timers') : th[t].hasObject
  BY <1>1 DEF HasObject
<1>3. Once'
  BY DEF Inv, Once
<1> QED BY <1>1, <1>2, <1>3, Released

\* Steps that leave the objects, the timers and the handlers as they are.
LEMMA Untouched ==
  ASSUME Inv, UNCHANGED <<th, timers, rw, handlers, alive, held, closure>>,
         running' \in alive \cup {None}
  PROVE  Referents' /\ Allocated' /\ Danglers' /\ Once'
<1>1. Refs' \subseteq alive'
  BY DEF Refs, Funcs, Inv, Referents
<1>2. Referents'
  BY <1>1 DEF Inv, Referents
<1>3. Allocated'
  BY DEF Inv, Allocated, Linked, HasObject
<1>4. Danglers' /\ Once'
  BY DEF Inv, Danglers, Once, Linked
<1> QED BY <1>2, <1>3, <1>4

LEMMA Handled ==
  ASSUME Inv
  PROVE  /\ \A sh \in ToSet(handlers) : sh \in JSOSSignalHandler /\ sh.func \in alive \cap Func
         /\ \A rh \in ToSet(rw) : rh \in JSOSRWHandler /\ Funcs(rh) \subseteq alive \cap Func
         /\ running \in (alive \cap Func) \cup {None} /\ held \subseteq alive /\ None \notin alive
<1>1. handlers \in Seq(JSOSSignalHandler) /\ rw \in Seq(JSOSRWHandler)
  BY DEF Inv, Types
<1>2. ToSet(handlers) \subseteq JSOSSignalHandler /\ ToSet(rw) \subseteq JSOSRWHandler
  BY <1>1 DEF ToSet
<1>3. \A rh \in JSOSRWHandler : Funcs(rh) \subseteq Func
  BY DEF Funcs, JSOSRWHandler
<1>4. Refs \subseteq alive
  BY DEF Inv, Referents
<1>5. ASSUME NEW sh \in ToSet(handlers) PROVE sh.func \in alive \cap Func
  BY <1>2, <1>4 DEF Refs, JSOSSignalHandler
<1>6. ASSUME NEW rh \in ToSet(rw) PROVE Funcs(rh) \subseteq alive \cap Func
  BY <1>2, <1>3, <1>4 DEF Refs
<1>7. running \in (alive \cap Func) \cup {None} /\ held \subseteq alive /\ None \notin alive
  BY <1>4, LoopAssumption DEF Refs, Inv, Types
<1> QED BY <1>2, <1>5, <1>6, <1>7

LEMMA EnqueueInv == ASSUME Inv, Enqueue PROVE Inv'
<1>1. UNCHANGED <<pc, running, th, timers, rw, handlers, alive, held, closure, pending, loaded, owed>>
  BY DEF Enqueue, lists, objects, signals
<1>2. Referents' /\ Allocated' /\ Danglers' /\ Once'
  BY <1>1, Untouched, Handled
<1>3. Types'
  BY <1>1, LoopAssumption DEF Inv, Types, Enqueue
<1>4. Signalled' /\ Places'
  BY <1>1 DEF Inv, Signalled, Places, Funcs
<1> QED BY <1>2, <1>3, <1>4 DEF Inv

\* Steps of the loop that do no more than go on.
LEMMA GoOnInv ==
  ASSUME Inv, RunJob \/ NoJob \/ NoSignal \/ NoTimer \/ Timeout
  PROVE  Inv'
<1>1. /\ UNCHANGED <<running, th, timers, rw, handlers, alive, held, closure, pending, loaded, owed>>
      /\ jobs' \in 0..MaxJobs
      /\ pc \in {"jobs", "signals", "timers", "select"}
      /\ pc' \in {"job", "signals", "over", "timers", "select", "jobs"}
  BY LoopAssumption DEF RunJob, NoJob, NoSignal, NoTimer, Timeout, Step, lists, objects, signals, Inv, Types
<1>2. Referents' /\ Allocated' /\ Danglers' /\ Once'
  BY <1>1, Untouched, Handled
<1>3. Types'
  BY <1>1 DEF Inv, Types
<1>4. Signalled' /\ Places'
  BY <1>1 DEF Inv, Signalled, Places, Funcs
<1> QED BY <1>2, <1>3, <1>4 DEF Inv

LEMMA DeliverInv == ASSUME Inv, NEW s \in Signal, Deliver(s) PROVE Inv'
<1>1. /\ UNCHANGED <<running, jobs, th, timers, rw, handlers, alive, held, closure, loaded>>
      /\ pending' = pending \cup {s}
      /\ owed' = IF pc = "ack" THEN owed ELSE owed \cup {s}
      /\ pc' = IF pc = "select" THEN "jobs" ELSE pc
  BY DEF Deliver, lists, objects
<1>2. Referents' /\ Allocated' /\ Danglers' /\ Once'
  BY <1>1, Untouched, Handled
<1>3. Types'
  BY <1>1 DEF Inv, Types
<1>4. Signalled' /\ Places'
  BY <1>1 DEF Inv, Signalled, Places, Funcs
<1> QED BY <1>2, <1>3, <1>4 DEF Inv

LEMMA FindSignalInv == ASSUME Inv, FindSignal PROVE Inv'
<1>1. /\ UNCHANGED <<running, jobs, th, timers, rw, handlers, alive, held, closure, pending, owed>>
      /\ pc = "signals" /\ pc' = "ack" /\ loaded' = pending /\ Raised # 0
  BY DEF FindSignal, Step, lists, objects
<1>2. Referents' /\ Allocated' /\ Danglers' /\ Once'
  BY <1>1, Untouched, Handled
<1>3. Types'
  BY <1>1 DEF Inv, Types
<1>4. \E sh \in ToSet(handlers) : sh.sig \in pending
  <2> DEFINE I == {i \in 1..Len(handlers) : handlers[i].sig \in pending}
  <2>1. Len(handlers) \in Nat /\ DOMAIN handlers = 1..Len(handlers)
    BY DEF Inv, Types
  <2>2. I # {}
    BY <1>1 DEF Raised, SelectInSeq
  <2>3. PICK i \in DOMAIN handlers : handlers[i].sig \in pending
    BY <2>1, <2>2
  <2> QED BY <2>3 DEF ToSet
<1>5. Signalled' /\ Places'
  BY <1>1, <1>4 DEF Inv, Signalled, Places, Funcs
<1> QED BY <1>2, <1>3, <1>5 DEF Inv

LEMMA AcknowledgeInv == ASSUME Inv, Acknowledge PROVE Inv'
<1> DEFINE I == {i \in 1..Len(handlers) : handlers[i].sig \in loaded}
           k == IF I # {} THEN Min(I) ELSE 0
           sh == handlers[k]
<1>1. /\ UNCHANGED <<jobs, th, timers, rw, handlers, alive, held, closure>>
      /\ pc = "ack" /\ pc' = "call" /\ loaded' = {}
      /\ running' = sh.func /\ pending' = loaded \ {sh.sig} /\ owed' = owed \ {sh.sig}
  BY DEF Acknowledge, Step, SelectInSeq, lists, objects
<1>2. sh \in ToSet(handlers)
  <2>1. Len(handlers) \in Nat /\ DOMAIN handlers = 1..Len(handlers)
    BY DEF Inv, Types
  <2>2. I # {}
    BY <1>1, <2>1 DEF Inv, Signalled, ToSet
  <2>3. k \in I
    BY <2>1, <2>2, FirstPlace
  <2> QED BY <2>1, <2>3 DEF ToSet
<1>3. sh.func \in alive \cap Func
  BY <1>2, Handled
<1> HIDE DEF sh
<1>4. Referents' /\ Allocated' /\ Danglers' /\ Once'
  BY <1>1, <1>3, Untouched
<1>5. Types'
  BY <1>1, <1>3 DEF Inv, Types
<1>6. Signalled' /\ Places'
  BY <1>1 DEF Inv, Signalled, Places, Funcs
<1> QED BY <1>4, <1>5, <1>6 DEF Inv

LEMMA ReadyInv == ASSUME Inv, NEW R \in SUBSET (Fd \X (0..1)), Ready(R) PROVE Inv'
<1> DEFINE I == {i \in 1..Len(rw) : \E m \in 0..1 : <<rw[i].fd, m>> \in R}
           k == IF I # {} THEN Min(I) ELSE 0
           n == IF <<rw[k].fd, 0>> \in R THEN 0 ELSE 1
<1>1. /\ UNCHANGED <<jobs, th, timers, rw, handlers, alive, held, closure, pending, loaded, owed>>
      /\ pc = "select" /\ pc' = "call"
      /\ R # {} /\ \A r \in R : \E rh \in ToSet(rw) : r[1] = rh.fd /\ rh.func[r[2]] # None
      /\ running' = rw[k].func[n]
  BY DEF Ready, Step, SelectInSeq, lists, objects, signals
<1>2. rw[k] \in ToSet(rw)
  <2>1. Len(rw) \in Nat /\ DOMAIN rw = 1..Len(rw)
    BY DEF Inv, Types
  <2>2. PICK r \in R : TRUE
    BY <1>1
  <2>3. r = <<r[1], r[2]>> /\ r[2] \in 0..1
    OBVIOUS
  <2>4. PICK i \in 1..Len(rw) : rw[i].fd = r[1]
    BY <1>1, <2>1 DEF ToSet
  <2>5. <<rw[i].fd, r[2]>> \in R
    BY <2>3, <2>4
  <2>6. k \in I
    BY <2>1, <2>3, <2>5, FirstPlace
  <2> QED BY <2>1, <2>6 DEF ToSet
<1>3. rw[k].func[n] \in (alive \cap Func) \cup {None}
  BY <1>2, Handled DEF Funcs
<1> HIDE DEF k, n
<1>4. Referents' /\ Allocated' /\ Danglers' /\ Once'
  BY <1>1, <1>3, Untouched
<1>5. Types'
  BY <1>1, <1>3 DEF Inv, Types
<1>6. Signalled' /\ Places'
  BY <1>1 DEF Inv, Signalled, Places, Funcs
<1> QED BY <1>4, <1>5, <1>6 DEF Inv

-----------------------------------------------------------------------------
(* What the program does. *)

LEMMA KnownFacts == ASSUME Inv PROVE Known \subseteq alive \cap Timer
BY Handled DEF Known, Inv, Types, Referents

LEMMA GivenFacts == Given \subseteq Func \cup {running}
<1>1. Fresh(Func, alive \cup {th[t].func : t \in DOMAIN th}) \subseteq Func
  BY DEF Fresh
<1> QED BY <1>1 DEF Given

\* A function of the program drops, replaces or keeps something.
LEMMA ForgetInv == ASSUME Inv, NEW t \in Timer, Forget(t) PROVE Inv'
<1>1. /\ UNCHANGED <<pc, running, jobs, timers, rw, handlers, pending, loaded, owed>>
      /\ held' = held \ {t} /\ Release(th, closure)
  BY DEF Forget, lists, signals
<1>2. Refs' \subseteq Refs
  BY <1>1 DEF Refs, Funcs
<1>3. Refs' \subseteq Func \cup Timer /\ Refs' \cap Timer \subseteq alive
  BY <1>2 DEF Inv, Referents, Types
<1>4. /\ Referents' /\ Allocated' /\ Danglers' /\ Once'
      /\ alive' \subseteq Func \cup Timer /\ closure' \in [Func -> Timer \cup {None}]
      /\ th' \in [DOMAIN th' -> JSOSTimer] /\ DOMAIN th' \subseteq Timer
  BY <1>1, <1>3, ReleasedTh DEF Inv, Types, Referents
<1>5. Types'
  BY <1>1, <1>4 DEF Inv, Types
<1>6. Signalled' /\ Places'
  BY <1>1 DEF Inv, Signalled, Places, Funcs, Forget, Busy
<1> QED BY <1>4, <1>5, <1>6 DEF Inv

LEMMA CaptureInv == ASSUME Inv, NEW f \in Func, NEW t \in Timer, Capture(f, t) PROVE Inv'
<1> DEFINE var == [closure EXCEPT ![f] = t]
<1>1. /\ UNCHANGED <<pc, running, jobs, timers, rw, handlers, held, pending, loaded, owed>>
      /\ f \in alive /\ t \in Known /\ Release(th, var)
  BY DEF Capture, lists, signals
<1>2. Refs' = Refs
  BY <1>1 DEF Refs, Funcs
<1>3. Refs' \subseteq Func \cup Timer /\ Refs' \cap Timer \subseteq alive
  BY <1>2 DEF Inv, Referents, Types
<1>4. /\ var \in [Func -> Timer \cup {None}]
      /\ \A g \in Func : var[g] \in alive \cup {None}
      /\ \A g \in Func \ alive : var[g] = None
  BY <1>1, KnownFacts DEF Inv, Types, Referents
<1> HIDE DEF var
<1>5. /\ Referents' /\ Allocated' /\ Danglers' /\ Once'
      /\ alive' \subseteq Func \cup Timer /\ closure' \in [Func -> Timer \cup {None}]
      /\ th' \in [DOMAIN th' -> JSOSTimer] /\ DOMAIN th' \subseteq Timer
  BY <1>1, <1>3, <1>4, ReleasedTh
<1>6. Types'
  BY <1>1, <1>5 DEF Inv, Types
<1>7. Signalled' /\ Places'
  BY <1>1 DEF Inv, Signalled, Places, Funcs, Capture, Busy
<1> QED BY <1>5, <1>6, <1>7 DEF Inv

LEMMA ReturnInv == ASSUME Inv, NEW threw \in BOOLEAN, Return(threw) PROVE Inv'
<1>1. /\ UNCHANGED <<jobs, timers, rw, handlers, held, pending, loaded, owed>>
      /\ pc' \in {"failed", "signals", "jobs"} /\ running' = None /\ Release(th, closure)
  BY DEF Return, lists, signals
<1>2. Refs' \subseteq Refs
  BY <1>1 DEF Refs, Funcs
<1>3. Refs' \subseteq Func \cup Timer /\ Refs' \cap Timer \subseteq alive
  BY <1>2 DEF Inv, Referents, Types
<1>4. /\ Referents' /\ Allocated' /\ Danglers' /\ Once'
      /\ alive' \subseteq Func \cup Timer /\ closure' \in [Func -> Timer \cup {None}]
      /\ th' \in [DOMAIN th' -> JSOSTimer] /\ DOMAIN th' \subseteq Timer
  BY <1>1, <1>3, ReleasedTh DEF Inv, Types, Referents
<1>5. Types'
  BY <1>1, <1>4 DEF Inv, Types
<1>6. Signalled' /\ Places'
  BY <1>1 DEF Inv, Signalled, Places, Funcs
<1> QED BY <1>4, <1>5, <1>6 DEF Inv

LEMMA Replacing ==
  ASSUME NEW S, NEW s \in Seq(S), NEW i \in DOMAIN s, NEW e \in S, NEW t, t = [s EXCEPT ![i] = e]
  PROVE  t \in Seq(S) /\ ToSet(t) \subseteq ToSet(s) \cup {e}
<1>1. t \in Seq(S) /\ DOMAIN t = DOMAIN s
  OBVIOUS
<1>2. \A j \in DOMAIN t : t[j] = s[j] \/ t[j] = e
  OBVIOUS
<1> QED BY <1>1, <1>2 DEF ToSet

LEMMA SetRwHandlerInv ==
  ASSUME Inv, NEW fd \in Fd, NEW magic \in 0..1, NEW f \in Func \cup {None}, SetRwHandler(fd, magic, f)
  PROVE  Inv'
<1> DEFINE I == {j \in 1..Len(rw) : rw[j].fd = fd}
           i == IF I # {} THEN Min(I) ELSE 0
           rh == IF i = 0 THEN [fd |-> fd, func |-> [m \in 0..1 |-> None]] ELSE rw[i]
           new == [rh EXCEPT !.func[magic] = f]
<1>1. /\ UNCHANGED <<pc, running, jobs, timers, handlers, held, pending, loaded, owed>>
      /\ Busy /\ rh.func[magic] # f /\ Release(th, closure)
      /\ rw' = IF i = 0 THEN Append(rw, new)
               ELSE IF Funcs(new) = {} THEN RemoveAt(rw, i) ELSE [rw EXCEPT ![i] = new]
  BY DEF SetRwHandler, SelectInSeq, signals
<1>2. rw \in Seq(JSOSRWHandler) /\ Len(rw) \in Nat /\ DOMAIN rw = 1..Len(rw)
  BY DEF Inv, Types
<1>3. i = 0 \/ i \in DOMAIN rw
  BY <1>2, FirstPlace
<1>4. rh \in JSOSRWHandler
  <2>1. CASE i = 0
    <3>1. rh = [fd |-> fd, func |-> [m \in 0..1 |-> None]]
      BY <2>1
    <3> QED BY <3>1 DEF JSOSRWHandler
  <2>2. CASE i # 0
    <3> HIDE DEF i
    <3>1. rh = rw[i]
      BY <2>2
    <3> QED BY <1>2, <1>3, <2>2, <3>1
  <2> QED BY <2>1, <2>2
<1> HIDE DEF i, rh
<1>5. /\ new \in JSOSRWHandler /\ new.func[magic] = f
      /\ \A m \in 0..1 : new.func[m] \in {f, rh.func[m]}
  <2>1. rh.func \in [0..1 -> Func \cup {None}]
    BY <1>4 DEF JSOSRWHandler
  <2>2. [rh.func EXCEPT ![magic] = f] \in [0..1 -> Func \cup {None}]
    BY <2>1
  <2>3. new = [fd |-> rh.fd, func |-> [rh.func EXCEPT ![magic] = f]]
    BY <1>4 DEF JSOSRWHandler
  <2> QED BY <1>4, <2>1, <2>2, <2>3 DEF JSOSRWHandler
<1> HIDE DEF new
<1>6. i = 0 => Funcs(new) # {}
  <2> SUFFICES ASSUME i = 0 PROVE f # None
    BY <1>5 DEF Funcs
  <2> QED BY <1>1 DEF rh
<1>7. /\ rw' \in Seq(JSOSRWHandler)
      /\ \A h \in ToSet(rw') : h \in ToSet(rw) \/ (h = new /\ Funcs(h) # {})
  <2>1. CASE i = 0
    <3>1. rw' = Append(rw, new)
      BY <1>1, <2>1
    <3>2. rw' \in Seq(JSOSRWHandler) /\ ToSet(rw') = ToSet(rw) \cup {new}
      BY <1>2, <1>5, <3>1, Appending
    <3> QED BY <1>6, <2>1, <3>2
  <2>2. CASE i # 0 /\ Funcs(new) = {}
    <3>1. rw' = RemoveAt(rw, i) /\ i \in DOMAIN rw
      BY <1>1, <1>3, <2>2
    <3> QED BY <1>2, <3>1, Removed
  <2>3. CASE i # 0 /\ Funcs(new) # {}
    <3>1. rw' = [rw EXCEPT ![i] = new] /\ i \in DOMAIN rw
      BY <1>1, <1>3, <2>3
    <3>2. rw' \in Seq(JSOSRWHandler) /\ ToSet(rw') \subseteq ToSet(rw) \cup {new}
      BY <1>2, <1>5, <3>1, Replacing
    <3> QED BY <2>3, <3>2
  <2> QED BY <2>1, <2>2, <2>3
<1>8. Refs' \subseteq Func \cup Timer /\ Refs' \cap Timer \subseteq alive
  <2>1. \A h \in ToSet(rw') : Funcs(h) \subseteq Func
    BY <1>5, <1>7, Handled DEF Funcs, JSOSRWHandler
  <2>2. \A h \in ToSet(handlers) : h.func \in Func
    BY Handled
  <2>3. /\ running \in Func \cup {None} /\ held \subseteq alive \cap Timer
        /\ UNCHANGED <<running, handlers, held>>
    BY <1>1, Handled DEF Inv, Types
  <2> QED BY <2>1, <2>2, <2>3, LoopAssumption DEF Refs
<1>9. /\ Referents' /\ Allocated' /\ Danglers' /\ Once'
      /\ alive' \subseteq Func \cup Timer /\ closure' \in [Func -> Timer \cup {None}]
      /\ th' \in [DOMAIN th' -> JSOSTimer] /\ DOMAIN th' \subseteq Timer
  BY <1>1, <1>8, ReleasedTh DEF Inv, Types, Referents
<1>10. Types'
  BY <1>1, <1>7, <1>9 DEF Inv, Types
<1>11. Signalled' /\ Places'
  BY <1>1, <1>7 DEF Inv, Signalled, Places, Busy
<1> QED BY <1>9, <1>10, <1>11 DEF Inv

LEMMA SetSignalInv ==
  ASSUME Inv, NEW s \in Signal, NEW f \in Func \cup {None}, SetSignal(s, f)
  PROVE  Inv'
<1> DEFINE I == {j \in 1..Len(handlers) : handlers[j].sig = s}
           i == IF I # {} THEN Min(I) ELSE 0
           new == [sig |-> s, func |-> f]
<1>1. /\ UNCHANGED <<pc, running, jobs, timers, rw, held, pending, loaded, owed>>
      /\ Busy /\ (i # 0 \/ f # None) /\ Release(th, closure)
      /\ handlers' = IF f = None THEN RemoveAt(handlers, i)
                     ELSE IF i = 0 THEN Append(handlers, new) ELSE [handlers EXCEPT ![i] = new]
  BY DEF SetSignal, SelectInSeq, signals
<1>2. handlers \in Seq(JSOSSignalHandler) /\ Len(handlers) \in Nat /\ DOMAIN handlers = 1..Len(handlers)
  BY DEF Inv, Types
<1>3. i = 0 \/ i \in DOMAIN handlers
  BY <1>2, FirstPlace
<1> HIDE DEF i
<1>4. f # None => new \in JSOSSignalHandler
  BY DEF JSOSSignalHandler
<1> HIDE DEF new
<1>5. handlers' \in Seq(JSOSSignalHandler)
  <2>1. CASE f = None
    <3>1. handlers' = RemoveAt(handlers, i) /\ i \in DOMAIN handlers
      BY <1>1, <1>3, <2>1
    <3> QED BY <1>2, <3>1, Removed
  <2>2. CASE f # None /\ i = 0
    <3>1. handlers' = Append(handlers, new)
      BY <1>1, <2>2
    <3> QED BY <1>2, <1>4, <2>2, <3>1, Appending
  <2>3. CASE f # None /\ i # 0
    <3>1. handlers' = [handlers EXCEPT ![i] = new] /\ i \in DOMAIN handlers
      BY <1>1, <1>3, <2>3
    <3> QED BY <1>2, <1>4, <2>3, <3>1, Replacing
  <2> QED BY <2>1, <2>2, <2>3
<1>6. Refs' \subseteq Func \cup Timer /\ Refs' \cap Timer \subseteq alive
  <2>1. \A h \in ToSet(rw) : Funcs(h) \subseteq Func
    BY Handled
  <2>2. \A h \in ToSet(handlers') : h.func \in Func
    <3>1. ToSet(handlers') \subseteq JSOSSignalHandler
      BY <1>5 DEF ToSet
    <3> QED BY <3>1 DEF JSOSSignalHandler
  <2>3. /\ running \in Func \cup {None} /\ held \subseteq alive \cap Timer
        /\ UNCHANGED <<running, rw, held>>
    BY <1>1, Handled DEF Inv, Types
  <2> QED BY <2>1, <2>2, <2>3, LoopAssumption DEF Refs
<1>7. /\ Referents' /\ Allocated' /\ Danglers' /\ Once'
      /\ alive' \subseteq Func \cup Timer /\ closure' \in [Func -> Timer \cup {None}]
      /\ th' \in [DOMAIN th' -> JSOSTimer] /\ DOMAIN th' \subseteq Timer
  BY <1>1, <1>6, ReleasedTh DEF Inv, Types, Referents
<1>8. Types'
  BY <1>1, <1>5, <1>7 DEF Inv, Types
<1>9. Signalled' /\ Places'
  BY <1>1 DEF Inv, Signalled, Places, Funcs, Busy
<1> QED BY <1>7, <1>8, <1>9 DEF Inv

\* A timer that is set: alone among the timers, it has a function.
LEMMA NewTimerFacts ==
  ASSUME Inv, NEW t \in Timer, NEW f \in Func \cup {Resolve}, NEW d \in 0..MaxDelay, NEW o \in BOOLEAN,
         NewTimer(t, f, d, o), timers' = Append(timers, t)
  PROVE  /\ t \notin DOMAIN th \cup alive \cup Linked
         /\ th' \in [DOMAIN th' -> JSOSTimer] /\ DOMAIN th' = DOMAIN th \cup {t}
         /\ \A u \in DOMAIN th : th'[u] = th[u]
         /\ th'[t] = [func |-> f, delay |-> d, hasObject |-> o]
         /\ timers' \in Seq(Timer) /\ Linked' = Linked \cup {t} /\ Once'
         /\ Busy
<1>1. t \notin DOMAIN th \cup alive
  BY DEF NewTimer, Fresh
<1>2. t \notin Linked
  BY <1>1 DEF Inv, Allocated
<1>3. /\ th' = [u \in DOMAIN th \cup {t} |->
                IF u = t THEN [func |-> f, delay |-> d, hasObject |-> o] ELSE th[u]]
      /\ [func |-> f, delay |-> d, hasObject |-> o] \in JSOSTimer
      /\ th \in [DOMAIN th -> JSOSTimer]
  BY DEF NewTimer, JSOSTimer, Inv, Types
<1>4. /\ th' \in [DOMAIN th' -> JSOSTimer] /\ DOMAIN th' = DOMAIN th \cup {t}
      /\ \A u \in DOMAIN th : th'[u] = th[u]
      /\ th'[t] = [func |-> f, delay |-> d, hasObject |-> o]
  BY <1>1, <1>3
<1>5. /\ timers \in Seq(Timer) /\ timers' \in Seq(Timer)
      /\ DOMAIN timers = 1..Len(timers) /\ DOMAIN timers' = 1..(Len(timers) + 1)
      /\ \A i \in 1..Len(timers) : timers'[i] = timers[i]
      /\ timers'[Len(timers) + 1] = t /\ ToSet(timers') = ToSet(timers) \cup {t}
  <2>1. timers \in Seq(Timer) /\ timers' = Append(timers, t)
    BY DEF Inv, Types
  <2> QED BY <2>1, Appending
<1>6. \A i \in DOMAIN timers : timers[i] # t
  BY <1>2 DEF Linked, ToSet
<1>7. Once'
  BY <1>5, <1>6 DEF Inv, Once
<1> QED BY <1>1, <1>2, <1>4, <1>5, <1>7 DEF Linked, NewTimer

LEMMA SetTimeoutInv ==
  ASSUME Inv, NEW t \in Timer, NEW f \in Func, NEW d \in 0..MaxDelay, SetTimeout(t, f, d)
  PROVE  Inv'
<1>1. /\ UNCHANGED <<pc, running, jobs, rw, handlers, closure, pending, loaded, owed>>
      /\ alive' = alive \cup {t, f} /\ held' = held \cup {t}
      /\ NewTimer(t, f, d, TRUE) /\ timers' = Append(timers, t)
  BY DEF SetTimeout, signals
<1>2. /\ t \notin DOMAIN th \cup alive \cup Linked
      /\ th' \in [DOMAIN th' -> JSOSTimer] /\ DOMAIN th' = DOMAIN th \cup {t}
      /\ \A u \in DOMAIN th : th'[u] = th[u]
      /\ th'[t] = [func |-> f, delay |-> d, hasObject |-> TRUE]
      /\ timers' \in Seq(Timer) /\ Linked' = Linked \cup {t} /\ Once'
      /\ Busy
  BY <1>1, NewTimerFacts
<1>3. Refs' \subseteq Refs \cup {t}
  BY <1>1 DEF Refs, Funcs
<1>4. Referents'
  BY <1>1, <1>3 DEF Inv, Referents
<1>5. Allocated'
  <2>1. HasObject(th)' = HasObject(th) \cup {t}
    BY <1>2 DEF HasObject
  <2>2. alive' \cap Timer = (alive \cap Timer) \cup {t}
    BY <1>1, LoopAssumption
  <2> QED BY <1>2, <2>1, <2>2 DEF Inv, Allocated
<1>6. Danglers'
  BY <1>1, <1>2 DEF Inv, Danglers
<1>7. Types'
  BY <1>1, <1>2 DEF Inv, Types
<1>8. Signalled' /\ Places'
  BY <1>1, <1>2 DEF Inv, Signalled, Places, Funcs, Busy
<1> QED BY <1>2, <1>4, <1>5, <1>6, <1>7, <1>8 DEF Inv

LEMMA SleepAsyncInv ==
  ASSUME Inv, NEW t \in Timer, NEW d \in 0..MaxDelay, SleepAsync(t, d)
  PROVE  Inv'
<1>1. /\ UNCHANGED <<pc, running, jobs, rw, handlers, alive, held, closure, pending, loaded, owed>>
      /\ NewTimer(t, Resolve, d, FALSE) /\ timers' = Append(timers, t)
  BY DEF SleepAsync, signals, objects
<1>2. /\ t \notin DOMAIN th \cup alive \cup Linked
      /\ th' \in [DOMAIN th' -> JSOSTimer] /\ DOMAIN th' = DOMAIN th \cup {t}
      /\ \A u \in DOMAIN th : th'[u] = th[u]
      /\ th'[t] = [func |-> Resolve, delay |-> d, hasObject |-> FALSE]
      /\ timers' \in Seq(Timer) /\ Linked' = Linked \cup {t} /\ Once'
      /\ Busy
  BY <1>1, NewTimerFacts
<1>3. Refs' = Refs
  BY <1>1 DEF Refs, Funcs
<1>4. Referents'
  BY <1>1, <1>3 DEF Inv, Referents
<1>5. Allocated'
  <2>1. HasObject(th)' = HasObject(th)
    BY <1>2 DEF HasObject
  <2> QED BY <1>1, <1>2, <2>1 DEF Inv, Allocated
<1>6. Danglers'
  BY <1>1, <1>2 DEF Inv, Danglers
<1>7. Types'
  BY <1>1, <1>2 DEF Inv, Types
<1>8. Signalled' /\ Places'
  BY <1>1, <1>2 DEF Inv, Signalled, Places, Funcs, Busy
<1> QED BY <1>2, <1>4, <1>5, <1>6, <1>7, <1>8 DEF Inv

LEMMA Unlinked ==
  ASSUME Inv, NEW i \in DOMAIN timers, timers' = RemoveAt(timers, i)
  PROVE  /\ timers' \in Seq(Timer) /\ Linked' = Linked \ {timers[i]} /\ Once'
         /\ timers[i] \in Linked
<1>1. timers \in Seq(Timer) /\ DOMAIN timers = 1..Len(timers) /\ Len(timers) \in Nat
  BY DEF Inv, Types
<1>2. /\ timers' \in Seq(Timer) /\ DOMAIN timers' = 1..(Len(timers) - 1)
      /\ \A j \in DOMAIN timers' : timers'[j] = timers[IF j < i THEN j ELSE j + 1]
      /\ ToSet(timers') \subseteq ToSet(timers)
      /\ \A x \in ToSet(timers) : x # timers[i] => x \in ToSet(timers')
  BY <1>1, Removed
<1>3. \A j \in DOMAIN timers' : LET k == IF j < i THEN j ELSE j + 1 IN k \in DOMAIN timers /\ k # i
  BY <1>1, <1>2
<1>4. Once'
  <2> SUFFICES ASSUME NEW j \in DOMAIN timers', NEW k \in DOMAIN timers', timers'[j] = timers'[k]
               PROVE  j = k
    BY DEF Once
  <2>1. (IF j < i THEN j ELSE j + 1) = (IF k < i THEN k ELSE k + 1)
    BY <1>2, <1>3 DEF Inv, Once
  <2>2. i \in Nat /\ j \in Nat /\ k \in Nat
    BY <1>1, <1>2
  <2> QED BY <2>1, <2>2
<1>5. timers[i] \notin ToSet(timers')
  BY <1>2, <1>3 DEF ToSet, Inv, Once
<1> QED BY <1>1, <1>2, <1>4, <1>5 DEF Linked, ToSet

LEMMA ClearTimeoutInv == ASSUME Inv, NEW t \in Timer, ClearTimeout(t) PROVE Inv'
<1>1. /\ UNCHANGED <<pc, running, jobs, rw, handlers, alive, held, closure, pending, loaded, owed>>
      /\ Busy /\ t \in Known \cap Linked
      /\ th' = [th EXCEPT ![t].delay = 0]
  BY DEF ClearTimeout, signals, objects
<1>2. PICK i \in DOMAIN timers : timers[i] = t /\ timers' = RemoveAt(timers, i)
  BY DEF ClearTimeout
<1>3. timers' \in Seq(Timer) /\ Linked' = Linked \ {t} /\ Once'
  BY <1>2, Unlinked
<1>4. t \in HasObject(th) /\ t \in DOMAIN th
  BY <1>1, KnownFacts DEF Inv, Allocated, HasObject
<1>5. /\ th' \in [DOMAIN th' -> JSOSTimer] /\ DOMAIN th' = DOMAIN th
      /\ \A u \in DOMAIN th : th'[u].func = th[u].func /\ th'[u].hasObject = th[u].hasObject
  <2>1. th \in [DOMAIN th -> JSOSTimer] /\ 0 \in 0..MaxDelay
    BY LoopAssumption DEF Inv, Types
  <2>2. [th[t] EXCEPT !.delay = 0] = [func |-> th[t].func, delay |-> 0, hasObject |-> th[t].hasObject]
    BY <1>4, <2>1 DEF JSOSTimer
  <2>3. th' = [th EXCEPT ![t] = [th[t] EXCEPT !.delay = 0]]
    BY <1>1
  <2> QED BY <1>4, <2>1, <2>2, <2>3 DEF JSOSTimer
<1>6. Refs' = Refs
  BY <1>1 DEF Refs, Funcs
<1>7. Referents'
  BY <1>1, <1>6 DEF Inv, Referents
<1>8. Allocated'
  <2>1. HasObject(th)' = HasObject(th)
    BY <1>5 DEF HasObject
  <2> QED BY <1>1, <1>3, <1>4, <1>5, <2>1 DEF Inv, Allocated
<1>9. Danglers'
  BY <1>1, <1>3, <1>4, <1>5 DEF Inv, Danglers, HasObject
<1>10. Types'
  BY <1>1, <1>3, <1>5 DEF Inv, Types
<1>11. Signalled' /\ Places'
  BY <1>1 DEF Inv, Signalled, Places, Funcs, Busy
<1> QED BY <1>3, <1>7, <1>8, <1>9, <1>10, <1>11 DEF Inv

LEMMA FireTimerInv == ASSUME Inv, FireTimer PROVE Inv'
<1> DEFINE I == {j \in 1..Len(timers) : th[timers[j]].delay = 0}
           i == IF I # {} THEN Min(I) ELSE 0
           t == timers[i]
<1>1. /\ UNCHANGED <<rw, handlers, alive, held, closure, pending, loaded, owed>>
      /\ i # 0 /\ timers' = RemoveAt(timers, i)
      /\ th' = [u \in {v \in DOMAIN th : v # t \/ th[v].hasObject} |->
                  IF u = t THEN [th[u] EXCEPT !.func = None] ELSE th[u]]
      /\ pc = "timers"
      /\ \/ pc' = "undefined" /\ UNCHANGED <<running, jobs>>
         \/ pc' = "jobs" /\ jobs' \in 0..MaxJobs /\ UNCHANGED running
         \/ pc' = "call" /\ UNCHANGED jobs /\ running' = th[t].func /\ th[t].func \in alive
  BY DEF FireTimer, Expired, SelectInSeq, objects, signals
<1>2. i \in DOMAIN timers
  <2>1. Len(timers) \in Nat /\ DOMAIN timers = 1..Len(timers)
    BY DEF Inv, Types
  <2> QED BY <1>1, <2>1, FirstPlace
<1> HIDE DEF i
<1>3. timers' \in Seq(Timer) /\ Linked' = Linked \ {t} /\ Once' /\ t \in Linked
  BY <1>1, <1>2, Unlinked
<1> HIDE DEF t
<1>4. t \in DOMAIN th /\ th \in [DOMAIN th -> JSOSTimer] /\ th[t] \in JSOSTimer
  BY <1>3 DEF Inv, Types, Allocated
<1>5. /\ th' \in [DOMAIN th' -> JSOSTimer]
      /\ DOMAIN th' = {v \in DOMAIN th : v # t \/ th[v].hasObject}
      /\ \A u \in DOMAIN th' : /\ th'[u].hasObject = th[u].hasObject
                               /\ th'[u].func = IF u = t THEN None ELSE th[u].func
  <2>1. [th[t] EXCEPT !.func = None] = [func |-> None, delay |-> th[t].delay, hasObject |-> th[t].hasObject]
    BY <1>4 DEF JSOSTimer
  <2>2. [th[t] EXCEPT !.func = None] \in JSOSTimer
    BY <1>4, <2>1 DEF JSOSTimer
  <2> QED BY <1>1, <1>4, <2>1, <2>2
<1>6. th[t].func \in alive => th[t].func \in Func
  BY <1>4, LoopAssumption DEF JSOSTimer, Inv, Types
<1>7. running' \in Func \cup {None} /\ running' \in alive \cup {None}
  BY <1>1, <1>6, Handled
<1>8. Referents'
  <2>1. Refs' \subseteq alive
    BY <1>1, <1>7 DEF Refs, Funcs, Inv, Referents
  <2> QED BY <1>1, <2>1 DEF Inv, Referents
<1>9. Allocated'
  <2>1. HasObject(th)' = HasObject(th)
    BY <1>5 DEF HasObject
  <2> QED BY <1>1, <1>3, <1>4, <1>5, <2>1 DEF Inv, Allocated, HasObject
<1>10. Danglers'
  BY <1>1, <1>3, <1>5 DEF Inv, Danglers
<1>11. Types'
  BY <1>1, <1>3, <1>5, <1>7 DEF Inv, Types
<1>12. Signalled' /\ Places'
  BY <1>1 DEF Inv, Signalled, Places, Funcs
<1> QED BY <1>3, <1>8, <1>9, <1>10, <1>11, <1>12 DEF Inv

LEMMA TickInv == ASSUME Inv, Tick PROVE Inv'
<1>1. /\ UNCHANGED <<pc, running, jobs, timers, rw, handlers, alive, held, closure, pending, loaded, owed>>
      /\ th' = [t \in DOMAIN th |-> IF t \in Linked /\ th[t].delay > 0
                                    THEN [th[t] EXCEPT !.delay = @ - 1] ELSE th[t]]
      /\ \E t \in Linked : TRUE
  BY DEF Tick, lists, objects, signals
<1>2. /\ DOMAIN th' = DOMAIN th /\ th' \in [DOMAIN th' -> JSOSTimer]
      /\ \A u \in DOMAIN th : th'[u].func = th[u].func /\ th'[u].hasObject = th[u].hasObject
  <2>1. th \in [DOMAIN th -> JSOSTimer]
    BY DEF Inv, Types
  <2>2. ASSUME NEW t \in DOMAIN th, th[t].delay > 0
        PROVE  LET r == [th[t] EXCEPT !.delay = @ - 1] IN
               r \in JSOSTimer /\ r.func = th[t].func /\ r.hasObject = th[t].hasObject
    <3>1. th[t] \in JSOSTimer /\ th[t].delay - 1 \in 0..MaxDelay
      BY <2>1, <2>2, LoopAssumption DEF JSOSTimer
    <3>2. [th[t] EXCEPT !.delay = @ - 1] =
            [func |-> th[t].func, delay |-> th[t].delay - 1, hasObject |-> th[t].hasObject]
      BY <3>1 DEF JSOSTimer
    <3> QED BY <3>1, <3>2 DEF JSOSTimer
  <2> QED BY <1>1, <2>1, <2>2
<1>3. Referents'
  BY <1>1 DEF Refs, Funcs, Inv, Referents
<1>4. Allocated'
  <2>1. HasObject(th)' = HasObject(th)
    BY <1>2 DEF HasObject
  <2> QED BY <1>1, <1>2, <2>1 DEF Inv, Allocated, Linked
<1>5. Danglers'
  BY <1>1, <1>2 DEF Inv, Danglers, Linked
<1>6. Once' /\ Types'
  BY <1>1, <1>2 DEF Inv, Types, Once
<1>7. Signalled' /\ Places'
  BY <1>1, <1>2 DEF Inv, Signalled, Places, Funcs
<1> QED BY <1>3, <1>4, <1>5, <1>6, <1>7 DEF Inv

\* The collector keeps what it marks, and the functions of the timers that it
\* does not finalize but for those that only their own object led to.
LEMMA MarkedFacts ==
  ASSUME Inv
  PROVE  Marked \subseteq alive /\ Refs \subseteq Marked /\ Marks(Marked) \cap alive \subseteq Marked
<1>1. Marked \subseteq alive /\ Refs \subseteq alive
  BY DEF Marked, Inv, Referents
<1>2. Refs \subseteq Marked
  BY <1>1 DEF Marked
<1>3. ASSUME NEW x \in Marks(Marked) \cap alive PROVE x \in Marked
  <2> SUFFICES ASSUME NEW S \in SUBSET alive, (Refs \cup Marks(S)) \cap alive \subseteq S PROVE x \in S
    BY DEF Marked
  <2>1. Marked \subseteq S
    BY DEF Marked
  <2>2. Marks(Marked) \subseteq Marks(S)
    BY <2>1 DEF Marks
  <2> QED BY <2>2
<1> QED BY <1>1, <1>2, <1>3

LEMMA CollectInv == ASSUME Inv, Collect PROVE Inv'
<1> DEFINE M == Marked
<1>1. /\ UNCHANGED <<pc, running, jobs, timers, rw, handlers, held, pending, loaded, owed>>
      /\ Only(M, closure) /\ th' = Finalized(th, M, Linked)
  BY DEF Collect, lists, signals
<1>2. M \subseteq alive /\ Refs \subseteq M /\ Marks(M) \cap alive \subseteq M
  BY MarkedFacts
<1> HIDE DEF M
<1>3. alive' = M /\ closure' = [f \in Func |-> IF f \in M THEN closure[f] ELSE None]
  BY <1>1 DEF Only
<1>4. /\ \A u : u \in DOMAIN th' <=> u \in DOMAIN th /\ (th[u].hasObject => u \in M \cup Linked)
      /\ th' \in [DOMAIN th' -> JSOSTimer]
      /\ \A t \in DOMAIN th' : /\ th'[t].func = th[t].func
                               /\ th'[t].hasObject <=> th[t].hasObject /\ t \in M
  <2>1. th \in [DOMAIN th -> JSOSTimer]
    BY DEF Inv, Types
  <2> QED BY <1>1, <2>1, FinalizedFacts
<1>5. Referents'
  <2>1. Refs' = Refs
    BY <1>1 DEF Refs, Funcs
  <2>2. \A f \in Func \cap M : closure[f] # None => closure[f] \in M
    BY <1>2 DEF Marks, Inv, Referents
  <2> QED BY <1>2, <1>3, <2>1, <2>2 DEF Referents
<1>6. Allocated'
  <2>1. M \cap Timer \subseteq HasObject(th)
    BY <1>2 DEF Inv, Allocated
  <2>2. HasObject(th)' = {t \in DOMAIN th' : th'[t].hasObject}
    BY DEF HasObject
  <2>3. M \cap Timer = HasObject(th)'
    BY <1>4, <2>1, <2>2 DEF HasObject, Inv, Types
  <2>4. DOMAIN th' = Linked \cup HasObject(th)'
    BY <1>4, <2>2 DEF HasObject, Inv, Allocated
  <2>5. Linked' = Linked
    BY <1>1 DEF Linked
  <2> QED BY <1>3, <2>3, <2>4, <2>5 DEF Allocated
<1>7. Danglers'
  <2> SUFFICES ASSUME NEW t \in DOMAIN th', th'[t].func \notin M \cup {None, Resolve}
               PROVE  t \in Linked /\ ~th'[t].hasObject
    BY <1>1, <1>3 DEF Danglers, Linked
  <2>1. t \in DOMAIN th /\ th[t].func \notin M \cup {None, Resolve}
    BY <1>4
  <2>2. CASE th[t].func \notin alive
    BY <1>4, <2>1, <2>2 DEF Inv, Danglers
  <2>3. CASE th[t].func \in alive
    <3>1. th[t].hasObject /\ t \notin M
      BY <1>2, <2>1, <2>3 DEF Marks
    <3> QED BY <1>4, <3>1
  <2> QED BY <2>2, <2>3
<1>8. Once' /\ Types'
  BY <1>1, <1>2, <1>3, <1>4 DEF Inv, Types, Once
<1>9. Signalled' /\ Places'
  BY <1>1 DEF Inv, Signalled, Places, Funcs, Collect, Busy
<1> QED BY <1>5, <1>6, <1>7, <1>8, <1>9 DEF Inv

LEMMA FreeHandlersInv == ASSUME Inv, FreeHandlers PROVE Inv'
<1> DEFINE tab == [t \in {u \in DOMAIN th : th[u].hasObject} |-> th[t]]
<1>1. /\ UNCHANGED <<running, jobs, held, pending, loaded, owed>>
      /\ pc \in {"over", "failed"} /\ pc' \in {"closed", "undefined"}
      /\ timers' = <<>> /\ rw' = <<>> /\ handlers' = <<>>
      /\ Release(tab, closure)
  BY DEF FreeHandlers, signals
<1>2. ToSet(timers') = {} /\ ToSet(rw') = {} /\ ToSet(handlers') = {}
  BY <1>1 DEF ToSet
<1>3. /\ DOMAIN tab = HasObject(th) /\ HasObject(tab) = DOMAIN tab
      /\ tab \in [DOMAIN tab -> JSOSTimer] /\ DOMAIN tab \subseteq DOMAIN th
      /\ \A t \in DOMAIN tab : tab[t] = th[t] /\ tab[t].hasObject
  BY DEF HasObject, Inv, Types
<1> HIDE DEF tab
<1>4. Refs' = held \cup ({running} \ {None})
  BY <1>1, <1>2 DEF Refs
<1>5. Refs' \subseteq Func \cup Timer /\ Refs' \cap Timer \subseteq alive
  BY <1>4, Handled DEF Inv, Types
<1>6. /\ Referents' /\ Allocated' /\ Danglers'
      /\ alive' \subseteq Func \cup Timer /\ closure' \in [Func -> Timer \cup {None}]
      /\ th' \in [DOMAIN th' -> JSOSTimer] /\ DOMAIN th' \subseteq Timer
  BY <1>1, <1>2, <1>3, <1>5, Released DEF Inv, Types, Referents
<1>7. Once' /\ Types'
  BY <1>1, <1>6 DEF Inv, Types, Once
<1>8. Signalled' /\ Places'
  BY <1>1, <1>2 DEF Inv, Signalled, Places
<1> QED BY <1>6, <1>7, <1>8 DEF Inv

LEMMA FreeRuntimeInv == ASSUME Inv, FreeRuntime PROVE Inv'
<1>1. /\ UNCHANGED <<running, timers, rw, handlers, pending, loaded, owed>>
      /\ pc = "closed" /\ pc' = "ended" /\ held' = {} /\ jobs' = 0
      /\ alive' = {} /\ closure' = [f \in Func |-> None]
      /\ th' = Finalized(th, {}, {})
  BY DEF FreeRuntime, Step, Only, lists, signals
<1>2. running = None /\ timers = <<>> /\ rw = <<>> /\ handlers = <<>>
  BY <1>1 DEF Inv, Places
<1>3. Linked = {} /\ ToSet(rw') = {} /\ ToSet(handlers') = {} /\ Linked' = {}
  BY <1>1, <1>2 DEF Linked, ToSet
<1>4. DOMAIN th' = {} /\ th' \in [DOMAIN th' -> JSOSTimer]
  <2>1. th \in [DOMAIN th -> JSOSTimer] /\ \A t \in DOMAIN th : th[t].hasObject
    BY <1>3 DEF Inv, Types, Allocated, HasObject
  <2>2. /\ \A u : u \in DOMAIN th' <=> u \in DOMAIN th /\ (th[u].hasObject => u \in {} \cup {})
        /\ th' \in [DOMAIN th' -> JSOSTimer]
    BY <1>1, <2>1, FinalizedFacts
  <2> QED BY <2>1, <2>2
<1>5. Refs' = {}
  BY <1>1, <1>2, <1>3 DEF Refs
<1>6. Referents' /\ Allocated' /\ Danglers'
  BY <1>1, <1>3, <1>4, <1>5 DEF Referents, Allocated, Danglers, HasObject
<1>7. Once' /\ Types'
  BY <1>1, <1>4, LoopAssumption DEF Inv, Types, Once
<1>8. Signalled' /\ Places'
  BY <1>1, <1>2, <1>3, <1>4 DEF Inv, Signalled, Places
<1> QED BY <1>6, <1>7, <1>8 DEF Inv

-----------------------------------------------------------------------------
LEMMA InitInv == Init => Inv
<1> SUFFICES ASSUME Init PROVE Inv
  OBVIOUS
<1>1. ToSet(timers) = {} /\ ToSet(rw) = {} /\ ToSet(handlers) = {} /\ DOMAIN th = {}
  BY DEF Init, ToSet
<1>2. Refs = {}
  BY <1>1 DEF Init, Refs
<1>3. Types
  BY <1>1, LoopAssumption DEF Init, Types
<1>4. Referents /\ Allocated /\ Danglers
  BY <1>1, <1>2 DEF Init, Referents, Allocated, Danglers, Linked, HasObject
<1>5. Once /\ Signalled /\ Places
  BY <1>1 DEF Init, Once, Signalled, Places
<1> QED BY <1>3, <1>4, <1>5 DEF Inv

LEMMA NextInv == Inv /\ [Next]_vars => Inv'
<1> SUFFICES ASSUME Inv, [Next]_vars PROVE Inv'
  OBVIOUS
<1>1. CASE Program
  BY <1>1, ForgetInv, ClearTimeoutInv, CaptureInv, SleepAsyncInv, SetTimeoutInv, SetRwHandlerInv,
     SetSignalInv, EnqueueInv, CollectInv DEF Program
<1>2. CASE Loop
  BY <1>2, GoOnInv, FindSignalInv, AcknowledgeInv, FireTimerInv, ReadyInv, FreeHandlersInv,
     FreeRuntimeInv DEF Loop
<1>3. CASE Tick
  BY <1>3, TickInv
<1>4. CASE \E threw \in BOOLEAN : Return(threw)
  BY <1>4, ReturnInv
<1>5. CASE \E s \in Signal : Deliver(s)
  BY <1>5, DeliverInv
<1>6. CASE UNCHANGED vars
  <2>1. /\ UNCHANGED <<pc, running, jobs, th, timers, rw, handlers>>
        /\ UNCHANGED <<alive, held, closure, pending, loaded, owed>>
    BY <1>6 DEF vars, lists, objects, signals
  <2>2. Referents' /\ Allocated' /\ Danglers' /\ Once'
    BY <2>1, Untouched, Handled
  <2>3. Types' /\ Signalled' /\ Places'
    BY <2>1 DEF Inv, Types, Signalled, Places, Funcs
  <2> QED BY <2>2, <2>3 DEF Inv
<1> QED BY <1>1, <1>2, <1>3, <1>4, <1>5, <1>6 DEF Next

\* The inductive invariant of the event loop.
THEOREM Invariance == Spec => []Inv
<1> QED BY InitInv, NextInv, PTL DEF Spec

\* Whatever the program drops, replaces or clears while it runs, and whenever
\* the collector runs, a function that call_handler calls or that a handler
\* holds has not been freed; a timer loses its function only when the collector
\* took its object while it was pending (js_os_timer_mark).
THEOREM HandlersStayAlive == Spec => []HandlersAlive
<1>1. Inv => HandlersAlive
  <2> SUFFICES ASSUME Inv PROVE HandlersAlive
    OBVIOUS
  <2>1. \A t \in Dangling : t \in Linked /\ ~th[t].hasObject
    BY DEF Dangling, Inv, Danglers
  <2>2. \A f \in alive \cap Func : closure[f] \in alive \cup {None}
    BY DEF Inv, Referents
  <2> QED BY <2>1, <2>2, Handled DEF HandlersAlive, Inv, Places
<1> QED BY <1>1, Invariance, PTL

\* A JSOSTimer is freed once, and exactly when it is neither pending nor
\* represented by an object (unlink_timer, free_timer, js_os_timer_finalizer).
THEOREM TimersAreExact == Spec => []TimersExact
<1>1. Inv => TimersExact
  <2> SUFFICES ASSUME Inv PROVE TimersExact
    OBVIOUS
  <2>1. TypeOK
    BY Handled DEF Inv, Types, TypeOK, JSOSTimer
  <2> QED BY <2>1 DEF TimersExact, Inv, Allocated, HasObject, Once, Places
<1> QED BY <1>1, Invariance, PTL

\* A signal that came is not forgotten before its handler is called again, but
\* for one that came while os_pending_signals was being written back (js_os_poll).
THEOREM SignalsAreKept == Spec => []SignalsKept
<1>1. Inv => SignalsKept
  BY DEF Inv, Signalled, SignalsKept
<1> QED BY <1>1, Invariance, PTL
=============================================================================
