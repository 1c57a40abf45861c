---------------------------- MODULE ModuleProofs ----------------------------
(***************************************************************************)
(* Loading of modules, for any finite set of names, whatever they request, *)
(* any number of imports, and files that come and go between them: what is *)
(* in the list is there once and complete, and where no module requests    *)
(* itself through others, it leads to nothing that a failed load freed.    *)
(*                                                                         *)
(* Linking and evaluation, for any finite set of modules, any graph of     *)
(* imports on them and any of them that await, fail to link or throw: what *)
(* a linked module needs is linked, every body runs once and at its turn,  *)
(* promises and roots of cycles tell what happened, and nothing is         *)
(* asserted that is not so.  The invariant of this, Whole, is stated in    *)
(* layers, each on those before it: the walk and its stack (EvalInv), how  *)
(* far a module is (Life), what leads where (Reaching), what a request     *)
(* that was walked has left behind (Ties), how the modules of a cycle wait *)
(* for each other (Chain), and whose turn it is (Fate).                    *)
(***************************************************************************)
EXTENDS ModuleLoad, ModuleEval, FiniteSetTheorems, SequenceTheorems, WellFoundedInduction, TLAPS

(* Loading. *)

FrameData == [def : Nat, next : Nat \ {0}]
NameOf(i) == defs[calls[i].def].name

Types ==
  /\ texts \in [Name -> Seq(Name)]
  /\ defs \in Seq(Def) /\ listed \subseteq DOMAIN defs
  /\ \A d \in DOMAIN defs : Len(defs[d].req) = Len(texts[defs[d].name])
  /\ calls \in Seq(FrameData)
  /\ outcome \in {"none", "loading", "loaded", "failed"}

OncePerName == \A d, e \in listed : defs[d].name = defs[e].name => d = e

\* The modules being loaded are in the list.
Loading ==
  /\ \A i \in DOMAIN calls : calls[i].def \in listed
  /\ outcome = "loading" <=> calls # <<>>

\* A request that was not resolved is still ahead of a call of
\* js_resolve_module for its module.
Ahead ==
  \A d \in listed : \A k \in DOMAIN defs[d].req :
    defs[d].req[k] = Unresolved => \E i \in DOMAIN calls : calls[i].def = d /\ calls[i].next <= k

\* What is loaded further up the stack is requested, through others, by what
\* is loaded further down.
Path == \A i, j \in DOMAIN calls : i <= j => NameOf(j) \in Needs(NameOf(i))

\* A request leads to a module of the list that is not being loaded.
Complete ==
  \A d \in listed : \A k \in DOMAIN defs[d].req :
    defs[d].req[k] # Unresolved =>
      /\ defs[d].req[k] \in listed
      /\ \A i \in DOMAIN calls : calls[i].def # defs[d].req[k]

Inv == Types /\ OncePerName /\ Loading /\ Ahead /\ Path /\ (Acyclic => Complete)

-----------------------------------------------------------------------------
(* What follows from the ranges of the variables. *)

LEMMA Ranges ==
  ASSUME Inv
  PROVE  /\ Len(defs) \in Nat /\ DOMAIN defs = 1..Len(defs)
         /\ \A d \in DOMAIN defs :
              /\ defs[d] \in Def /\ defs[d].name \in Name
              /\ defs[d].req \in Seq(Nat \cup {Unresolved})
              /\ texts[defs[d].name] \in Seq(Name)
              /\ DOMAIN defs[d].req = 1..Len(defs[d].req)
              /\ DOMAIN texts[defs[d].name] = DOMAIN defs[d].req
         /\ Len(calls) \in Nat /\ DOMAIN calls = 1..Len(calls)
         /\ \A i \in DOMAIN calls :
              /\ calls[i] \in FrameData /\ calls[i].def \in Nat /\ calls[i].next \in Nat \ {0}
              /\ calls[i].def \in listed /\ calls[i].def \in DOMAIN defs
<1>1. defs \in Seq(Def) /\ calls \in Seq(FrameData) /\ listed \subseteq DOMAIN defs
      /\ texts \in [Name -> Seq(Name)]
  BY DEF Inv, Types
<1>2. Len(defs) \in Nat /\ DOMAIN defs = 1..Len(defs) /\ Len(calls) \in Nat /\ DOMAIN calls = 1..Len(calls)
  BY <1>1, LenProperties
<1>3. ASSUME NEW d \in DOMAIN defs
      PROVE  /\ defs[d] \in Def /\ defs[d].name \in Name
             /\ defs[d].req \in Seq(Nat \cup {Unresolved})
             /\ texts[defs[d].name] \in Seq(Name)
             /\ DOMAIN defs[d].req = 1..Len(defs[d].req)
             /\ DOMAIN texts[defs[d].name] = DOMAIN defs[d].req
  <2>1. defs[d] \in Def
    BY <1>1, <1>2, ElementOfSeq
  <2>2. defs[d].name \in Name /\ defs[d].req \in Seq(Nat \cup {Unresolved}) /\ texts[defs[d].name] \in Seq(Name)
    BY <1>1, <2>1 DEF Def
  <2>3. /\ DOMAIN defs[d].req = 1..Len(defs[d].req)
        /\ DOMAIN texts[defs[d].name] = 1..Len(texts[defs[d].name])
    BY <2>2, LenProperties
  <2>4. Len(defs[d].req) = Len(texts[defs[d].name])
    BY DEF Inv, Types
  <2> QED BY <2>1, <2>2, <2>3, <2>4
<1>4. ASSUME NEW i \in DOMAIN calls
      PROVE  /\ calls[i] \in FrameData /\ calls[i].def \in Nat /\ calls[i].next \in Nat \ {0}
             /\ calls[i].def \in listed /\ calls[i].def \in DOMAIN defs
  <2>1. calls[i] \in FrameData
    BY <1>1, <1>2, ElementOfSeq
  <2>2. calls[i].def \in listed
    BY DEF Inv, Loading
  <2> QED BY <1>1, <2>1, <2>2 DEF FrameData
<1> QED BY <1>2, <1>3, <1>4

\* The call that is running, and its module.
LEMMA Running ==
  ASSUME Inv, calls # <<>>
  PROVE  /\ Len(calls) \in DOMAIN calls /\ Len(calls) \in Nat \ {0}
         /\ TopCall \in FrameData /\ TopCall.def \in listed /\ TopCall.def \in DOMAIN defs /\ TopCall.next \in Nat \ {0}
         /\ Loader \in Def /\ Loader.name = NameOf(Len(calls)) /\ Loader = defs[TopCall.def]
<1>1. Len(calls) \in Nat \ {0}
  BY EmptySeq DEF Inv, Types
<1>2. Len(calls) \in DOMAIN calls
  BY <1>1, Ranges
<1> QED BY <1>1, <1>2, Ranges DEF TopCall, Loader, NameOf

LEMMA RequestIs ==
  ASSUME Inv, Requesting
  PROVE  /\ TopCall.next \in DOMAIN Loader.req /\ Request \in Name
         /\ Request \in Range(texts[Loader.name])
<1>1. calls # <<>> /\ TopCall.next <= Len(Loader.req)
  BY DEF Requesting
<1>2. TopCall.def \in DOMAIN defs /\ Loader = defs[TopCall.def] /\ TopCall.next \in Nat \ {0}
  BY <1>1, Running
<1>3. /\ DOMAIN Loader.req = 1..Len(Loader.req) /\ Loader.req \in Seq(Nat \cup {Unresolved})
      /\ DOMAIN texts[Loader.name] = DOMAIN Loader.req /\ texts[Loader.name] \in Seq(Name)
  BY <1>2, Ranges
<1>4. Len(Loader.req) \in Nat /\ DOMAIN texts[Loader.name] = 1..Len(texts[Loader.name])
  BY <1>3, LenProperties
<1>5. TopCall.next \in DOMAIN texts[Loader.name] /\ TopCall.next \in DOMAIN Loader.req
  BY <1>1, <1>2, <1>3, <1>4
<1>6. texts[Loader.name][TopCall.next] \in Name
  BY <1>3, <1>4, <1>5, ElementOfSeq
<1> QED BY <1>5, <1>6 DEF Request, Range

\* js_find_loaded_module finds the module of that name.
LEMMA Finds ==
  ASSUME NEW n, IsLoaded(n)
  PROVE  Find(n) \in listed /\ defs[Find(n)].name = n
  BY DEF IsLoaded, Find

LEMMA ReachIs ==
  /\ \A n \in Name : n \in Needs(n)
  /\ \A n, m, k : m \in Needs(n) /\ k \in Range(texts[m]) /\ k \in Name => k \in Needs(n)
  BY DEF Needs

-----------------------------------------------------------------------------
(* Steps. *)

LEMMA NewDef ==
  ASSUME Inv, NEW n \in Name
  PROVE  LET new == [name |-> n, req |-> [i \in DOMAIN texts[n] |-> Unresolved]] IN
         /\ new \in Def /\ Len(new.req) = Len(texts[n])
         /\ \A k \in DOMAIN new.req : new.req[k] = Unresolved
<1> DEFINE m == Len(texts[n])
           req == [i \in DOMAIN texts[n] |-> Unresolved]
<1>1. texts[n] \in Seq(Name)
  BY DEF Inv, Types
<1>2. m \in Nat /\ DOMAIN texts[n] = 1..m
  BY <1>1, LenProperties
<1> HIDE DEF m
<1>3. req = [i \in 1..m |-> Unresolved]
  BY <1>2
<1>4. req \in Seq(Nat \cup {Unresolved}) /\ Len(req) = m
  BY <1>2, <1>3
<1> QED BY <1>4 DEF Def, m

\* A module is entered, by an import or by the request of the one on top.
LEMMA EnterInv ==
  ASSUME Inv, NEW n \in Name, ~IsLoaded(n), Enter(n),
         texts' = texts, outcome' = "loading",
         calls # <<>> => n \in Range(texts[Loader.name])
  PROVE  Inv'
<1> DEFINE new == [name |-> n, req |-> [i \in DOMAIN texts[n] |-> Unresolved]]
           d0 == Len(defs) + 1
           f0 == [def |-> d0, next |-> 1]
           L == Len(calls) + 1
<1>1. /\ new \in Def /\ new.name = n /\ Len(new.req) = Len(texts[n])
      /\ \A k \in DOMAIN new.req : new.req[k] = Unresolved
  BY NewDef
<1>2. /\ defs' = Append(defs, new) /\ listed' = listed \cup {d0} /\ calls' = Append(calls, f0)
  BY DEF Enter
<1> HIDE DEF new
<1>3. /\ Len(defs) \in Nat /\ DOMAIN defs = 1..Len(defs)
      /\ Len(calls) \in Nat /\ DOMAIN calls = 1..Len(calls)
      /\ \A i \in DOMAIN calls : calls[i].def \in listed
      /\ defs \in Seq(Def) /\ calls \in Seq(FrameData) /\ listed \subseteq DOMAIN defs
  BY Ranges DEF Inv, Types
<1>4. d0 \in Nat /\ d0 \notin DOMAIN defs /\ d0 \notin listed /\ L \in Nat \ {0} /\ L \notin DOMAIN calls
      /\ f0 \in FrameData /\ f0.def = d0 /\ f0.next = 1
  BY <1>3 DEF FrameData
<1> HIDE DEF f0
<1>5. /\ defs' \in Seq(Def) /\ DOMAIN defs' = DOMAIN defs \cup {d0}
      /\ defs'[d0] = new /\ \A d \in DOMAIN defs : defs'[d] = defs[d]
  <2>1. /\ defs' \in Seq(Def) /\ Len(defs') = Len(defs) + 1
        /\ \A i \in 1..Len(defs) : defs'[i] = defs[i]
        /\ defs'[Len(defs) + 1] = new
    BY <1>1, <1>2, <1>3, AppendProperties
  <2>2. DOMAIN defs' = 1..Len(defs')
    BY <2>1, LenProperties
  <2> QED BY <1>3, <2>1, <2>2
<1>6. /\ calls' \in Seq(FrameData) /\ DOMAIN calls' = DOMAIN calls \cup {L} /\ calls' # <<>>
      /\ calls'[L] = f0 /\ \A i \in DOMAIN calls : calls'[i] = calls[i]
  <2>1. /\ calls' \in Seq(FrameData) /\ Len(calls') = Len(calls) + 1
        /\ \A i \in 1..Len(calls) : calls'[i] = calls[i]
        /\ calls'[Len(calls) + 1] = f0
    BY <1>2, <1>3, <1>4, AppendProperties
  <2>2. DOMAIN calls' = 1..Len(calls')
    BY <2>1, LenProperties
  <2>3. calls' # <<>>
    BY <1>3, <2>1, EmptySeq
  <2> QED BY <1>3, <2>1, <2>2, <2>3
<1>7. Types'
  <2>1. \A d \in DOMAIN defs' : Len(defs'[d].req) = Len(texts[defs'[d].name])
    BY <1>1, <1>5 DEF Inv, Types
  <2>2. listed' \subseteq DOMAIN defs'
    BY <1>2, <1>3, <1>5
  <2> QED BY <1>5, <1>6, <2>1, <2>2 DEF Inv, Types
<1>8. OncePerName'
  <2>1. \A d \in listed : defs[d].name # n
    BY DEF IsLoaded
  <2>2. \A d \in listed : defs'[d].name = defs[d].name
    BY <1>3, <1>5
  <2>3. defs'[d0].name = n
    BY <1>1, <1>5
  <2>4. \A d, e \in listed : defs[d].name = defs[e].name => d = e
    BY DEF Inv, OncePerName
  <2> SUFFICES ASSUME NEW d \in listed \cup {d0}, NEW e \in listed \cup {d0}, defs'[d].name = defs'[e].name
               PROVE  d = e
    BY <1>2 DEF OncePerName
  <2>5. CASE d = d0 \/ e = d0
    BY <2>1, <2>2, <2>3, <2>5
  <2>6. CASE d \in listed /\ e \in listed
    BY <2>2, <2>4, <2>6
  <2> QED BY <2>5, <2>6
<1>9. Loading'
  BY <1>2, <1>3, <1>4, <1>6 DEF Loading
<1>10. Ahead'
  <2> SUFFICES ASSUME NEW d \in listed', NEW k \in DOMAIN defs'[d].req, defs'[d].req[k] = Unresolved
               PROVE  \E i \in DOMAIN calls' : calls'[i].def = d /\ calls'[i].next <= k
    BY DEF Ahead
  <2>1. CASE d = d0
    <3>1. k \in Nat \ {0}
      <4>1. DOMAIN new.req = 1..Len(new.req)
        BY <1>1, LenProperties DEF Def
      <4> QED BY <1>5, <2>1, <4>1
    <3> QED BY <1>4, <1>6, <2>1, <3>1
  <2>2. CASE d # d0
    <3>1. d \in listed /\ defs'[d] = defs[d]
      BY <1>2, <1>3, <1>5, <2>2
    <3>2. PICK i \in DOMAIN calls : calls[i].def = d /\ calls[i].next <= k
      BY <3>1 DEF Inv, Ahead
    <3> QED BY <1>6, <3>2
  <2> QED BY <2>1, <2>2
<1>11. /\ \A i \in DOMAIN calls : defs'[calls'[i].def].name = NameOf(i)
       /\ defs'[calls'[L].def].name = n
  <2>1. \A i \in DOMAIN calls : calls'[i] = calls[i] /\ defs'[calls[i].def] = defs[calls[i].def]
    BY <1>3, <1>5, <1>6
  <2>2. \A i \in DOMAIN calls : defs'[calls'[i].def].name = NameOf(i)
    BY <2>1 DEF NameOf
  <2>3. calls'[L].def = d0 /\ defs'[d0].name = n
    BY <1>1, <1>4, <1>5, <1>6
  <2> QED BY <2>2, <2>3
<1>12. Needs(n)' = Needs(n) /\ \A m : Needs(m)' = Needs(m)
  BY DEF Needs
<1>13. Path'
  <2> SUFFICES ASSUME NEW i \in DOMAIN calls', NEW j \in DOMAIN calls', i <= j
               PROVE  defs'[calls'[j].def].name \in Needs(defs'[calls'[i].def].name)
    BY <1>12 DEF Path, NameOf
  <2>1. \A a, b \in DOMAIN calls : a <= b => NameOf(b) \in Needs(NameOf(a))
    BY DEF Inv, Path
  <2>2. CASE i \in DOMAIN calls /\ j \in DOMAIN calls
    BY <1>11, <2>1, <2>2
  <2>3. CASE i \in DOMAIN calls /\ j = L
    <3>1. calls # <<>>
      BY <1>3, <2>3, EmptySeq
    <3>2. Len(calls) \in DOMAIN calls /\ Loader.name = NameOf(Len(calls)) /\ n \in Range(texts[Loader.name])
      BY <3>1, Running
    <3>3. i <= Len(calls)
      BY <1>3, <2>3
    <3>4. NameOf(Len(calls)) \in Needs(NameOf(i))
      BY <2>1, <2>3, <3>2, <3>3
    <3>5. n \in Needs(NameOf(i))
      BY <3>2, <3>4, ReachIs
    <3> QED BY <1>11, <2>3, <3>5
  <2>4. CASE i = L /\ j = L
    BY <1>11, <2>4, ReachIs
  <2>5. ~(i = L /\ j \in DOMAIN calls)
    BY <1>3
  <2> QED BY <1>6, <2>2, <2>3, <2>4, <2>5
<1>14. ASSUME Complete PROVE Complete'
  <2> SUFFICES ASSUME NEW d \in listed', NEW k \in DOMAIN defs'[d].req, defs'[d].req[k] # Unresolved
               PROVE  /\ defs'[d].req[k] \in listed'
                      /\ \A i \in DOMAIN calls' : calls'[i].def # defs'[d].req[k]
    BY DEF Complete
  <2>1. d # d0
    BY <1>1, <1>5
  <2>2. d \in listed /\ defs'[d] = defs[d]
    BY <1>2, <1>3, <1>5, <2>1
  <2>3. defs[d].req[k] \in listed /\ \A i \in DOMAIN calls : calls[i].def # defs[d].req[k]
    BY <1>14, <2>2 DEF Complete
  <2> QED BY <1>2, <1>4, <1>6, <2>2, <2>3
<1>15. Acyclic' <=> Acyclic
  BY <1>12 DEF Acyclic
<1> QED BY <1>7, <1>8, <1>9, <1>10, <1>13, <1>14, <1>15 DEF Inv

\* A request of the module on top finds what is loaded, or loading.
LEMMA ResolveFoundInv ==
  ASSUME Inv, ResolveFound
  PROVE  Inv'
<1> DEFINE L == Len(calls)
           t == TopCall.def
           k0 == TopCall.next
           e0 == Find(Request)
           new == [defs[t] EXCEPT !.req[k0] = e0]
           f0 == [calls[L] EXCEPT !.next = @ + 1]
<1>1. /\ Requesting /\ IsLoaded(Request) /\ calls # <<>>
      /\ defs' = [defs EXCEPT ![t].req[k0] = e0]
      /\ calls' = [calls EXCEPT ![L].next = @ + 1]
      /\ texts' = texts /\ listed' = listed /\ outcome' = outcome
  BY DEF ResolveFound, Requesting, Advance
<1>2. /\ L \in DOMAIN calls /\ calls[L] \in FrameData /\ TopCall = calls[L]
      /\ t \in listed /\ t \in DOMAIN defs /\ k0 \in Nat \ {0}
      /\ defs[t] \in Def /\ Loader = defs[t] /\ Loader.name = NameOf(L) /\ k0 \in DOMAIN defs[t].req
      /\ Request \in Name /\ Request \in Range(texts[Loader.name])
  BY <1>1, Running, RequestIs, Ranges DEF TopCall
<1>3. e0 \in listed /\ defs[e0].name = Request
  BY <1>1, Finds
<1>4. /\ DOMAIN defs = 1..Len(defs) /\ DOMAIN calls = 1..Len(calls) /\ Len(calls) \in Nat /\ Len(defs) \in Nat
      /\ defs \in Seq(Def) /\ calls \in Seq(FrameData) /\ listed \subseteq DOMAIN defs
  BY Ranges DEF Inv, Types
<1>5. e0 \in Nat /\ e0 # Unresolved
  BY <1>3, <1>4, NameAssumption
<1> HIDE DEF t, k0, e0, L
<1>6. /\ new \in Def /\ new.name = defs[t].name /\ Len(new.req) = Len(defs[t].req)
      /\ DOMAIN new.req = DOMAIN defs[t].req
      /\ new.req[k0] = e0 /\ \A k \in DOMAIN defs[t].req : k # k0 => new.req[k] = defs[t].req[k]
  <2> DEFINE q == defs[t].req
             r == [q EXCEPT ![k0] = e0]
  <2>1. q \in Seq(Nat \cup {Unresolved}) /\ DOMAIN q = 1..Len(q) /\ defs[t].name \in Name
    BY <1>2, Ranges
  <2>2. new.name = defs[t].name /\ new.req = r /\ new = [name |-> defs[t].name, req |-> r]
    <3>1. new = [defs[t] EXCEPT !.req = r]
      BY <1>2 DEF Def
    <3>2. defs[t] = [name |-> defs[t].name, req |-> q]
      BY <1>2 DEF Def
    <3> HIDE DEF r, q, new
    <3> QED BY <1>2, <3>1, <3>2
  <2>3. k0 \in DOMAIN q
    BY <1>2
  <2> HIDE DEF q, new
  <2>4. /\ r \in Seq(Nat \cup {Unresolved}) /\ Len(r) = Len(q)
        /\ \A k \in 1..Len(q) : r[k] = IF k = k0 THEN e0 ELSE q[k]
    BY <1>5, <2>1, <2>3, ExceptSeq
  <2>5. DOMAIN r = 1..Len(r)
    BY <2>4, LenProperties
  <2> HIDE DEF r
  <2> QED BY <2>1, <2>2, <2>3, <2>4, <2>5 DEF Def, q
<1>7. /\ defs' \in Seq(Def) /\ DOMAIN defs' = DOMAIN defs
      /\ defs'[t] = new /\ \A d \in DOMAIN defs : d # t => defs'[d] = defs[d]
  <2>1. defs' = [defs EXCEPT ![t] = new]
    BY <1>1, <1>2 DEF t, k0, e0
  <2> HIDE DEF new
  <2>2. /\ defs' \in Seq(Def) /\ Len(defs') = Len(defs)
        /\ \A d \in 1..Len(defs) : defs'[d] = IF d = t THEN new ELSE defs[d]
    BY <1>2, <1>4, <1>6, <2>1, ExceptSeq
  <2>3. DOMAIN defs' = 1..Len(defs')
    BY <2>2, LenProperties
  <2> QED BY <1>2, <1>4, <2>2, <2>3
<1>8. f0 \in FrameData /\ f0.def = t /\ f0.next = k0 + 1 /\ calls[L].def = t /\ calls[L].next = k0
  <2>1. calls[L].def = t /\ calls[L].next = k0 /\ t \in Nat
    BY <1>2, <1>4 DEF t, k0
  <2>2. f0 = [def |-> t, next |-> k0 + 1]
    BY <1>2, <2>1 DEF FrameData
  <2> QED BY <1>2, <2>1, <2>2 DEF FrameData
<1>9. /\ calls' \in Seq(FrameData) /\ DOMAIN calls' = DOMAIN calls /\ calls' # <<>>
      /\ calls'[L] = f0 /\ \A i \in DOMAIN calls : i # L => calls'[i] = calls[i]
  <2>1. calls' = [calls EXCEPT ![L] = f0]
    BY <1>1, <1>2 DEF L
  <2> HIDE DEF f0
  <2>2. /\ calls' \in Seq(FrameData) /\ Len(calls') = Len(calls)
        /\ \A i \in 1..Len(calls) : calls'[i] = IF i = L THEN f0 ELSE calls[i]
    BY <1>2, <1>4, <1>8, <2>1, ExceptSeq
  <2>3. DOMAIN calls' = 1..Len(calls')
    BY <2>2, LenProperties
  <2>4. calls' # <<>>
    BY <1>1, <1>4, <2>2, EmptySeq
  <2> QED BY <1>2, <1>4, <2>2, <2>3, <2>4
<1> HIDE DEF new, f0
<1>10. /\ \A d \in DOMAIN defs : defs'[d].name = defs[d].name
       /\ \A i \in DOMAIN calls : calls'[i].def = calls[i].def /\ calls[i].def \in listed /\ calls[i].def \in DOMAIN defs
  BY <1>6, <1>7, <1>8, <1>9, Ranges
<1>11. Types'
  <2>1. \A d \in DOMAIN defs' : Len(defs'[d].req) = Len(texts[defs'[d].name])
    BY <1>6, <1>7 DEF Inv, Types
  <2> QED BY <1>1, <1>7, <1>9, <2>1 DEF Inv, Types
<1>12. OncePerName'
  BY <1>1, <1>4, <1>10 DEF Inv, OncePerName
<1>13. Loading'
  BY <1>1, <1>9, <1>10 DEF Inv, Loading
<1>14. Ahead'
  <2> SUFFICES ASSUME NEW d \in listed, NEW k \in DOMAIN defs'[d].req, defs'[d].req[k] = Unresolved
               PROVE  \E i \in DOMAIN calls : calls'[i].def = d /\ calls'[i].next <= k
    BY <1>1, <1>9 DEF Ahead
  <2>1. d \in DOMAIN defs /\ k \in DOMAIN defs[d].req /\ defs[d].req[k] = Unresolved /\ ~(d = t /\ k = k0)
    BY <1>4, <1>5, <1>6, <1>7
  <2>2. PICK i \in DOMAIN calls : calls[i].def = d /\ calls[i].next <= k
    BY <2>1 DEF Inv, Ahead
  <2>3. CASE i = L
    <3>1. k \in Nat
      BY <2>1, Ranges
    <3>2. k0 <= k /\ k # k0
      BY <1>8, <2>1, <2>2, <2>3
    <3> QED BY <1>2, <1>8, <1>9, <2>2, <2>3, <3>1, <3>2
  <2>4. CASE i # L
    BY <1>9, <2>2, <2>4
  <2> QED BY <2>3, <2>4
<1>15. \A m : Needs(m)' = Needs(m)
  BY <1>1 DEF Needs
<1>16. \A i \in DOMAIN calls : defs'[calls'[i].def].name = NameOf(i)
  BY <1>10 DEF NameOf
<1>17. Path'
  <2>1. \A a, b \in DOMAIN calls : a <= b => NameOf(b) \in Needs(NameOf(a))
    BY DEF Inv, Path
  <2> SUFFICES ASSUME NEW i \in DOMAIN calls, NEW j \in DOMAIN calls, i <= j
               PROVE  defs'[calls'[j].def].name \in Needs(defs'[calls'[i].def].name)
    BY <1>9, <1>15 DEF Path, NameOf
  <2> QED BY <1>16, <2>1
<1>18. ASSUME Acyclic, Complete PROVE Complete'
  <2>1. \A i \in DOMAIN calls : calls[i].def # e0
    <3> SUFFICES ASSUME NEW i \in DOMAIN calls, calls[i].def = e0
                 PROVE  FALSE
      OBVIOUS
    <3>1. NameOf(i) = Request
      BY <1>3 DEF NameOf
    <3>2. i <= L
      BY <1>4 DEF L
    <3>3. Loader.name \in Needs(Request)
      BY <1>2, <3>1, <3>2 DEF Inv, Path
    <3>4. Loader.name \in Name
      BY <1>2 DEF Def
    <3> QED BY <1>2, <1>18, <3>3, <3>4 DEF Acyclic
  <2> SUFFICES ASSUME NEW d \in listed, NEW k \in DOMAIN defs'[d].req, defs'[d].req[k] # Unresolved
               PROVE  /\ defs'[d].req[k] \in listed
                      /\ \A i \in DOMAIN calls : calls'[i].def # defs'[d].req[k]
    BY <1>1, <1>9 DEF Complete
  <2>2. CASE d = t /\ k = k0
    <3>1. defs'[d].req[k] = e0
      BY <1>6, <1>7, <2>2
    <3> QED BY <1>3, <1>10, <2>1, <3>1
  <2>3. CASE ~(d = t /\ k = k0)
    <3>1. k \in DOMAIN defs[d].req /\ defs'[d].req[k] = defs[d].req[k]
      BY <1>4, <1>6, <1>7, <2>3
    <3> QED BY <1>10, <1>18, <3>1 DEF Complete
  <2> QED BY <2>2, <2>3
<1>19. Acyclic' <=> Acyclic
  BY <1>1, <1>15 DEF Acyclic
<1> QED BY <1>11, <1>12, <1>13, <1>14, <1>17, <1>18, <1>19 DEF Inv

\* All that is being loaded is taken out of the list.
LEMMA ResolveFailsInv ==
  ASSUME Inv, ResolveFails
  PROVE  Inv'
<1> DEFINE gone == {f.def : f \in Range(calls)}
<1>1. /\ listed' = listed \ gone /\ calls' = <<>> /\ outcome' = "failed"
      /\ texts' = texts /\ defs' = defs
  BY DEF ResolveFails
<1>2. \A d : d \in gone <=> \E i \in DOMAIN calls : calls[i].def = d
  BY DEF Range
<1> HIDE DEF gone
<1>3. DOMAIN calls' = {} /\ calls' \in Seq(FrameData)
  BY <1>1, EmptySeq
<1>4. Types' /\ OncePerName' /\ Loading' /\ Path'
  BY <1>1, <1>3 DEF Inv, Types, OncePerName, Loading, Path
<1>5. Ahead'
  <2> SUFFICES ASSUME NEW d \in listed', NEW k \in DOMAIN defs[d].req, defs[d].req[k] = Unresolved
               PROVE  FALSE
    BY <1>1 DEF Ahead
  <2>1. d \in listed /\ d \notin gone
    BY <1>1
  <2> QED BY <1>2, <2>1 DEF Inv, Ahead
<1>6. ASSUME Complete PROVE Complete'
  <2> SUFFICES ASSUME NEW d \in listed', NEW k \in DOMAIN defs[d].req, defs[d].req[k] # Unresolved
               PROVE  defs[d].req[k] \in listed'
    BY <1>1, <1>3 DEF Complete
  <2>1. defs[d].req[k] \in listed /\ \A i \in DOMAIN calls : calls[i].def # defs[d].req[k]
    BY <1>1, <1>6 DEF Complete
  <2> QED BY <1>1, <1>2, <2>1
<1>7. Acyclic' <=> Acyclic
  BY <1>1 DEF Acyclic, Needs
<1> QED BY <1>4, <1>5, <1>6, <1>7 DEF Inv

\* All requests of the module on top are resolved.
LEMMA ResolveDoneInv ==
  ASSUME Inv, ResolveDone
  PROVE  Inv'
<1> DEFINE L == Len(calls)
<1>1. /\ calls # <<>> /\ TopCall.next > Len(Loader.req)
      /\ calls' = SubSeq(calls, 1, L - 1)
      /\ outcome' = IF L = 1 THEN "loaded" ELSE outcome
      /\ texts' = texts /\ defs' = defs /\ listed' = listed
  BY DEF ResolveDone
<1>2. /\ L \in DOMAIN calls /\ L \in Nat \ {0} /\ DOMAIN calls = 1..L /\ calls \in Seq(FrameData)
      /\ TopCall = calls[L] /\ Loader = defs[calls[L].def] /\ calls[L].def \in DOMAIN defs
      /\ \A i \in DOMAIN calls : calls[i] \in FrameData /\ calls[i].next \in Nat
  BY <1>1, Running, Ranges DEF Inv, Types, TopCall
<1> HIDE DEF L
<1>3. /\ calls' \in Seq(FrameData) /\ DOMAIN calls' = 1..(L - 1)
      /\ \A i \in 1..(L - 1) : calls'[i] = calls[i]
      /\ calls' = <<>> <=> L = 1
  <2>1. \A i \in 1..(L - 1) : calls[i] \in FrameData
    BY <1>2
  <2>2. /\ calls' \in Seq(FrameData) /\ Len(calls') = IF 1 <= L - 1 THEN L - 1 - 1 + 1 ELSE 0
        /\ \A i \in 1..(L - 1 - 1 + 1) : calls'[i] = calls[1 + i - 1]
    BY <1>1, <1>2, <2>1, SubSeqProperties
  <2>3. DOMAIN calls' = 1..Len(calls') /\ (calls' = <<>> <=> Len(calls') = 0)
    BY <2>2, LenProperties, EmptySeq
  <2>4. Len(calls') = L - 1 /\ \A i \in 1..(L - 1) : 1 + i - 1 = i
    BY <1>2, <2>2
  <2> QED BY <1>2, <2>2, <2>3, <2>4
<1>4. \A i \in DOMAIN calls' : i \in DOMAIN calls /\ calls'[i] = calls[i]
  BY <1>2, <1>3
<1>5. Types' /\ OncePerName'
  BY <1>1, <1>3 DEF Inv, Types, OncePerName
<1>6. Loading'
  BY <1>1, <1>3, <1>4 DEF Inv, Loading
<1>7. Ahead'
  <2> SUFFICES ASSUME NEW d \in listed, NEW k \in DOMAIN defs[d].req, defs[d].req[k] = Unresolved
               PROVE  \E i \in DOMAIN calls' : calls'[i].def = d /\ calls'[i].next <= k
    BY <1>1 DEF Ahead
  <2>1. PICK i \in DOMAIN calls : calls[i].def = d /\ calls[i].next <= k
    BY DEF Inv, Ahead
  <2>2. i # L
    <3> SUFFICES ASSUME i = L PROVE FALSE
      OBVIOUS
    <3>1. d \in DOMAIN defs /\ d = calls[L].def
      BY <1>2, <2>1
    <3>2. DOMAIN defs[d].req = 1..Len(defs[d].req) /\ defs[d].req \in Seq(Nat \cup {Unresolved})
      BY <3>1, Ranges
    <3>3. Len(defs[d].req) \in Nat
      BY <3>2, LenProperties
    <3> QED BY <1>1, <1>2, <2>1, <3>1, <3>2, <3>3
  <2> QED BY <1>2, <1>3, <2>1, <2>2
<1>8. \A m : Needs(m)' = Needs(m)
  BY <1>1 DEF Needs
<1>9. Path'
  <2> SUFFICES ASSUME NEW i \in DOMAIN calls', NEW j \in DOMAIN calls', i <= j
               PROVE  defs[calls'[j].def].name \in Needs(defs[calls'[i].def].name)
    BY <1>1, <1>8 DEF Path, NameOf
  <2> QED BY <1>4 DEF Inv, Path, NameOf
<1>10. ASSUME Complete PROVE Complete'
  <2> SUFFICES ASSUME NEW d \in listed, NEW k \in DOMAIN defs[d].req, defs[d].req[k] # Unresolved
               PROVE  /\ defs[d].req[k] \in listed
                      /\ \A i \in DOMAIN calls' : calls'[i].def # defs[d].req[k]
    BY <1>1 DEF Complete
  <2>1. defs[d].req[k] \in listed /\ \A i \in DOMAIN calls : calls[i].def # defs[d].req[k]
    BY <1>10 DEF Complete
  <2> QED BY <1>4, <2>1
<1>11. Acyclic' <=> Acyclic
  BY <1>1, <1>8 DEF Acyclic
<1> QED BY <1>5, <1>6, <1>7, <1>9, <1>10, <1>11 DEF Inv

\* A step that loads nothing.
LEMMA Unmoved ==
  ASSUME Inv, UNCHANGED <<texts, defs, listed, calls>>,
         outcome' \in {"none", "loading", "loaded", "failed"},
         outcome' = "loading" <=> outcome = "loading"
  PROVE  Inv'
<1>1. /\ texts' = texts /\ defs' = defs /\ listed' = listed /\ calls' = calls
  OBVIOUS
<1>2. Types' /\ OncePerName' /\ Loading' /\ Ahead'
  BY <1>1 DEF Inv, Types, OncePerName, Loading, Ahead
<1>3. Path' /\ (Complete => Complete')
  BY <1>1 DEF Inv, Path, Complete, NameOf, Needs
<1>4. Acyclic' <=> Acyclic
  BY <1>1 DEF Acyclic, Needs
<1> QED BY <1>2, <1>3, <1>4 DEF Inv

LEMMA InitInv == LoadInit => Inv
<1> SUFFICES ASSUME LoadInit PROVE Inv
  OBVIOUS
<1>1. defs = <<>> /\ listed = {} /\ calls = <<>> /\ outcome = "none"
  BY DEF LoadInit
<1>2. DOMAIN defs = {} /\ DOMAIN calls = {} /\ defs \in Seq(Def) /\ calls \in Seq(FrameData)
  BY <1>1, EmptySeq
<1>3. texts \in [Name -> Seq(Name)]
  <2>1. Cardinality(Name) \in Nat
    BY NameAssumption, FS_CardinalityType
  <2>2. texts \in [Name -> ImportLists(Name)]
    BY DEF LoadInit
  <2>3. ASSUME NEW s \in ImportLists(Name) PROVE s \in Seq(Name)
    <3>1. PICK n \in 0..Cardinality(Name) : s \in [1..n -> Name]
      BY DEF ImportLists
    <3> QED BY <2>1, <3>1
  <2> QED BY <2>2, <2>3
<1> QED BY <1>1, <1>2, <1>3 DEF Inv, Types, OncePerName, Loading, Ahead, Path, Complete

LEMMA NextInv == Inv /\ [LoadNext]_loadVars => Inv'
<1> SUFFICES ASSUME Inv, [LoadNext]_loadVars PROVE Inv'
  OBVIOUS
<1>1. outcome \in {"none", "loading", "loaded", "failed"} /\ (outcome = "loading" <=> calls # <<>>)
  BY DEF Inv, Types, Loading
<1>2. CASE \E n \in Name : ImportLoaded(n) \/ ImportUnreadable(n)
  <2>1. /\ outcome # "loading" /\ outcome' \in {"loaded", "failed"}
        /\ UNCHANGED <<texts, defs, listed, calls>>
    BY <1>2 DEF ImportLoaded, ImportUnreadable, Idle
  <2> QED BY <2>1, Unmoved
<1>3. CASE \E n \in Name : FileChanges(n)
  <2>1. UNCHANGED <<texts, defs, listed, calls, outcome>>
    BY <1>3 DEF FileChanges
  <2> QED BY <1>1, <2>1, Unmoved
<1>4. CASE UNCHANGED loadVars
  <2>1. UNCHANGED <<texts, defs, listed, calls, outcome>>
    BY <1>4 DEF loadVars
  <2> QED BY <1>1, <2>1, Unmoved
<1>5. ASSUME NEW n \in Name, ImportNew(n) PROVE Inv'
  BY <1>5, EnterInv DEF ImportNew, Idle
<1>6. CASE ResolveLoads
  <2>1. Requesting /\ ~IsLoaded(Request) /\ Enter(Request) /\ texts' = texts /\ outcome' = outcome
    BY <1>6 DEF ResolveLoads
  <2>2. calls # <<>> /\ Request \in Name /\ Request \in Range(texts[Loader.name])
    BY <2>1, RequestIs DEF Requesting
  <2>3. outcome' = "loading"
    BY <1>1, <2>1, <2>2
  <2> QED BY <2>1, <2>2, <2>3, EnterInv
<1>7. CASE ResolveFound \/ ResolveFails \/ ResolveDone
  BY <1>7, ResolveFoundInv, ResolveFailsInv, ResolveDoneInv
<1> QED BY <1>2, <1>3, <1>4, <1>5, <1>6, <1>7 DEF LoadNext

-----------------------------------------------------------------------------
\* What js_resolve_module keeps true of the modules and of its calls.
THEOREM LoadInvariant == LoadSpec => []Inv
  BY InitInv, NextInv, PTL DEF LoadSpec

\* Whatever failed to load before and was tried again, no name is in
\* loaded_modules twice, and between two imports no module in it has a request
\* that was not resolved.
THEOREM ListIsExact == LoadSpec => []ListExact
<1>1. Inv => ListExact
  <2> SUFFICES ASSUME Inv PROVE ListExact
    OBVIOUS
  <2>1. LoadTypeOK
    <3>1. \A i \in DOMAIN calls : calls[i] \in [def : DOMAIN defs, next : Nat]
      BY Ranges DEF FrameData
    <3>2. calls \in Seq(FrameData) /\ Len(calls) \in Nat /\ DOMAIN calls = 1..Len(calls)
      BY Ranges DEF Inv, Types
    <3>3. calls \in Seq([def : DOMAIN defs, next : Nat])
      <4> DEFINE T == [def : DOMAIN defs, next : Nat]
      <4>1. \A i \in DOMAIN calls : calls[i] \in T
        BY <3>1
      <4> HIDE DEF T
      <4>2. calls = [i \in 1..Len(calls) |-> calls[i]]
        BY <3>2, LenProperties
      <4>3. calls \in [1..Len(calls) -> T]
        BY <3>2, <4>1, <4>2
      <4>4. calls \in Seq(T)
        BY <3>2, <4>3
      <4> QED BY <4>4 DEF T
    <3> QED BY <3>3 DEF Inv, Types, OncePerName, LoadTypeOK
  <2>2. RequestsResolved
    <3> SUFFICES ASSUME calls = <<>>, NEW d \in listed, Unresolved \in Range(defs[d].req)
                 PROVE  FALSE
      BY DEF RequestsResolved, Idle
    <3>1. PICK k \in DOMAIN defs[d].req : defs[d].req[k] = Unresolved
      BY DEF Range
    <3>2. DOMAIN calls = {}
      OBVIOUS
    <3> QED BY <3>1, <3>2 DEF Inv, Ahead
  <2> QED BY <2>1, <2>2 DEF ListExact
<1> QED BY <1>1, LoadInvariant, PTL

\* Where no module requests itself through others, the requests of what is in
\* loaded_modules lead to modules that have not been freed.
THEOREM RequestsStayAlive == LoadSpec => []RequestsAliveWithoutCycles
<1>1. Inv => RequestsAliveWithoutCycles
  <2> SUFFICES ASSUME Inv, Acyclic, NEW d \in listed, NEW x \in Range(defs[d].req), x # Unresolved
               PROVE  x \in listed
    BY DEF RequestsAliveWithoutCycles, RequestsAlive
  <2>1. PICK k \in DOMAIN defs[d].req : defs[d].req[k] = x
    BY DEF Range
  <2> QED BY <2>1 DEF Inv, Complete
<1> QED BY <1>1, LoadInvariant, PTL

-----------------------------------------------------------------------------
(* Linking and evaluation. *)

Call == [mod : Module, next : Nat \ {0}]
Asked(i) == requests[frames[i].mod][frames[i].next]

EvalTypes ==
  /\ requests \in [Module -> Seq(Module)]
  /\ status \in [Module -> Status]
  /\ stack \in Seq(Module) /\ IsInjective(stack)
  /\ anc \in [Module -> Nat]
  /\ frames \in Seq(Call)
  /\ mode \in {"idle", "link", "eval", "gather", "execute"}
  /\ mode \in {"link", "eval"} => goal \in Module
  /\ parents \in [Module -> Seq(Module)]
  /\ root \in [Module -> Module \cup {None}]
  /\ body \in [Module -> {"unstarted", "running", "done", "threw"}]
  /\ todo \subseteq Module
  /\ order \in Seq(Module) /\ pending \in [Module -> Int] /\ error \in [Module -> BOOLEAN]

\* The stack holds what a walk has begun and not ended.
Unfinished ==
  /\ \A m \in Module : m \in Range(stack) <=> status[m] \in {"linking", "evaluating"}
  /\ \A m \in Module : /\ status[m] = "linking" => mode = "link"
                       /\ status[m] = "evaluating" => mode = "eval"
  /\ mode \in {"idle", "execute"} => frames = <<>>
  /\ mode = "link" => status[goal] # "unlinked"
  /\ mode = "eval" /\ frames # <<>> => frames[1].mod = goal

\* What runs, waits or was started has been linked, and so has the root of
\* its cycle.
Begun ==
  /\ \A m \in Module : status[m] \in Started => root[m] \in Module /\ status[root[m]] \in Started
  /\ \A m \in Module : body[m] = "running" => status[m] \in Started \cup {"evaluating"}
  /\ \A m \in Module : \A p \in Range(parents[m]) : status[p] \in Started \cup {"evaluating"}
  /\ \A m \in todo : status[m] \in Started

\* A module that waits for another is in the order of execution, unless it
\* failed meanwhile, or has yet to end its own evaluation.
Ordered(p) ==
  \/ p \in Range(order)
  \/ status[p] \in Started /\ error[root[p]]
  \/ status[p] = "evaluating" /\ pending[p] > 0 /\ \E i \in DOMAIN frames : frames[i].mod = p

Waiting ==
  /\ \A m \in Module : \A p \in Range(parents[m]) : Ordered(p)
  /\ todo \subseteq Range(order)
  /\ \A m \in Module : status[m] \notin Started => pending[m] >= 0

\* The first call is that of the module at the bottom of the stack.
Grounded ==
  /\ frames = <<>> => stack = <<>>
  /\ frames # <<>> => stack # <<>> /\ stack[1] = frames[1].mod

\* The modules of the calls are on the stack, in the order of the calls.
Standing ==
  /\ \A i \in DOMAIN frames : \E k \in DOMAIN stack : stack[k] = frames[i].mod
  /\ \A i, j \in DOMAIN frames : \A k, l \in DOMAIN stack :
       i < j /\ stack[k] = frames[i].mod /\ stack[l] = frames[j].mod => k < l

\* Each call was made for the request at which the one below it stands.
Nested ==
  \A i \in DOMAIN frames : i < Len(frames) =>
    frames[i].next <= Len(requests[frames[i].mod]) /\ Asked(i) = frames[i + 1].mod

Lowered == \A k \in DOMAIN stack : anc[stack[k]] \in 1..k

Walk == Grounded /\ Standing /\ Nested /\ Lowered

\* The requests of a module that its call, if it still runs, has been through.
Walked(m, r) == \A i \in DOMAIN frames : frames[i].mod = m => r < frames[i].next

\* What was walked leads to what is not unlinked, and what has been linked
\* to what has been linked.
Linking ==
  /\ \A m \in Module : \A r \in DOMAIN requests[m] :
       status[m] # "unlinked" /\ Walked(m, r) => status[requests[m][r]] # "unlinked"
  /\ \A m \in Module : \A r \in DOMAIN requests[m] :
       status[m] \notin {"unlinked", "linking"} => status[requests[m][r]] \notin {"unlinked", "linking"}

\* dfs_ancestor_index is not above the place of what was walked from there.
Low ==
  \A k, p \in DOMAIN stack : \A r \in DOMAIN requests[stack[k]] :
    Walked(stack[k], r) /\ requests[stack[k]][r] = stack[p] => anc[stack[k]] <= p

\* Nor is that of a call above those of the modules that ended above it,
\* except for what its present request has brought and it has yet to merge.
Below(i, k) == i < Len(frames) => \A q \in DOMAIN stack : stack[q] = frames[i + 1].mod => k < q
Unmerged(i, p, k) ==
  /\ i = Len(frames) /\ frames[i].next <= Len(requests[frames[i].mod])
  /\ \E q \in DOMAIN stack : stack[q] = Asked(i) /\ p < q /\ q <= k /\ anc[stack[q]] <= anc[stack[k]]
Merged ==
  \A i \in DOMAIN frames : \A p, k \in DOMAIN stack :
    stack[p] = frames[i].mod /\ p < k /\ Below(i, k) =>
      anc[stack[p]] <= anc[stack[k]] \/ Unmerged(i, p, k)

Closed == \A m \in Module : \A r \in DOMAIN requests[m] :
            status[m] # "unlinked" => status[requests[m][r]] # "unlinked"

EvalInv ==
  /\ EvalTypes /\ Unfinished /\ Begun /\ Waiting
  /\ mode \in {"link", "eval"} => Walk
  /\ mode \notin {"link", "eval"} => stack = <<>>
  /\ mode = "link" => Linking /\ Low /\ Merged
  /\ mode # "link" => Closed

-----------------------------------------------------------------------------
(* What follows from the ranges of the variables. *)

LEMMA Empty ==
  ASSUME NEW S
  PROVE  <<>> \in Seq(S) /\ IsInjective(<<>>) /\ Range(<<>>) = {}
<1>1. DOMAIN <<>> = {} /\ <<>> \in Seq(S)
  OBVIOUS
<1> QED BY <1>1, Zenon DEF IsInjective, Range

LEMMA Pushed ==
  ASSUME NEW S, NEW s \in Seq(S), NEW e \in S
  PROVE  /\ Append(s, e) \in Seq(S) /\ Append(s, e) # <<>>
         /\ Len(Append(s, e)) = Len(s) + 1 /\ DOMAIN Append(s, e) = 1..(Len(s) + 1)
         /\ \A i \in DOMAIN s : Append(s, e)[i] = s[i]
         /\ Append(s, e)[Len(s) + 1] = e
<1>1. Append(s, e) \in Seq(S) /\ Len(Append(s, e)) = Len(s) + 1
  BY AppendProperties
<1>2. DOMAIN s = 1..Len(s) /\ Len(s) \in Nat /\ DOMAIN Append(s, e) = 1..(Len(s) + 1)
  BY <1>1, LenProperties
<1>3. /\ \A i \in 1..Len(s) : Append(s, e)[i] = s[i]
      /\ Append(s, e)[Len(s) + 1] = e /\ Append(s, e) # <<>>
  BY AppendProperties
<1> QED BY <1>1, <1>2, <1>3

LEMMA Popped ==
  ASSUME NEW S, NEW s \in Seq(S), NEW n \in Nat, n <= Len(s)
  PROVE  /\ SubSeq(s, 1, n) \in Seq(S) /\ Len(SubSeq(s, 1, n)) = n
         /\ DOMAIN SubSeq(s, 1, n) = 1..n
         /\ \A i \in 1..n : SubSeq(s, 1, n)[i] = s[i] /\ i \in DOMAIN s
<1>1. DOMAIN s = 1..Len(s) /\ Len(s) \in Nat
  BY LenProperties
<1>2. \A i \in 1..n : s[i] \in S /\ i \in DOMAIN s
  BY <1>1, ElementOfSeq
<1>3. SubSeq(s, 1, n) = [i \in 1..n |-> s[i]]
  BY <1>1
<1>4. SubSeq(s, 1, n) \in Seq(S) /\ Len(SubSeq(s, 1, n)) = n
  BY <1>1, <1>2, <1>3
<1> QED BY <1>1, <1>2, <1>3, <1>4

LEMMA EvalRanges ==
  ASSUME EvalTypes
  PROVE  /\ Len(stack) \in Nat /\ DOMAIN stack = 1..Len(stack)
         /\ \A k \in DOMAIN stack : stack[k] \in Module
         /\ \A k, l \in DOMAIN stack : stack[k] = stack[l] => k = l
         /\ stack = <<>> <=> Len(stack) = 0
         /\ Len(frames) \in Nat /\ DOMAIN frames = 1..Len(frames)
         /\ frames = <<>> <=> Len(frames) = 0
         /\ \A i \in DOMAIN frames : /\ frames[i] \in Call /\ frames[i].mod \in Module
                                     /\ frames[i].next \in Nat /\ frames[i].next > 0
         /\ \A m \in Module : /\ requests[m] \in Seq(Module) /\ Len(requests[m]) \in Nat
                              /\ DOMAIN requests[m] = 1..Len(requests[m])
                              /\ \A r \in DOMAIN requests[m] : requests[m][r] \in Module
<1>1. stack \in Seq(Module) /\ IsInjective(stack) /\ frames \in Seq(Call)
      /\ requests \in [Module -> Seq(Module)]
  BY DEF EvalTypes
<1>2. Len(stack) \in Nat /\ DOMAIN stack = 1..Len(stack) /\ Len(frames) \in Nat /\ DOMAIN frames = 1..Len(frames)
  BY <1>1, LenProperties
<1>3. \A k \in DOMAIN stack : stack[k] \in Module
  BY <1>1, <1>2, ElementOfSeq
<1>4. \A i \in DOMAIN frames : /\ frames[i] \in Call /\ frames[i].mod \in Module
                               /\ frames[i].next \in Nat /\ frames[i].next > 0
  <2> TAKE i \in DOMAIN frames
  <2>1. frames[i] \in Call
    BY <1>1, <1>2, ElementOfSeq
  <2> QED BY <2>1 DEF Call
<1>5. ASSUME NEW m \in Module
      PROVE  /\ requests[m] \in Seq(Module) /\ Len(requests[m]) \in Nat
             /\ DOMAIN requests[m] = 1..Len(requests[m])
             /\ \A r \in DOMAIN requests[m] : requests[m][r] \in Module
  <2>1. requests[m] \in Seq(Module)
    BY <1>1
  <2>2. Len(requests[m]) \in Nat /\ DOMAIN requests[m] = 1..Len(requests[m])
    BY <2>1, LenProperties
  <2>3. \A r \in DOMAIN requests[m] : requests[m][r] \in Module
    BY <2>1, <2>2, ElementOfSeq
  <2> QED BY <2>1, <2>2, <2>3
<1>6. \A k, l \in DOMAIN stack : stack[k] = stack[l] => k = l
  BY <1>1 DEF IsInjective
<1>7. (stack = <<>> <=> Len(stack) = 0) /\ (frames = <<>> <=> Len(frames) = 0)
  BY <1>1, EmptySeq
<1> QED BY <1>2, <1>3, <1>4, <1>5, <1>6, <1>7

LEMMA Places ==
  ASSUME EvalTypes, NEW k \in DOMAIN stack
  PROVE  Index(stack[k]) = k
<1>1. \E l \in DOMAIN stack : stack[l] = stack[k]
  OBVIOUS
<1>2. Index(stack[k]) \in DOMAIN stack /\ stack[Index(stack[k])] = stack[k]
  BY <1>1 DEF Index
<1> QED BY <1>2, EvalRanges

\* The call in progress.
LEMMA Calling ==
  ASSUME EvalTypes, frames # <<>>
  PROVE  /\ Len(frames) \in DOMAIN frames /\ Len(frames) > 0 /\ Len(frames) - 1 \in Nat
         /\ Top = frames[Len(frames)] /\ Cur = frames[Len(frames)].mod
         /\ Cur \in Module /\ Top.next \in Nat /\ Top.next > 0
<1>1. Len(frames) \in DOMAIN frames /\ Len(frames) > 0 /\ Len(frames) - 1 \in Nat
  BY EvalRanges
<1> QED BY <1>1, EvalRanges DEF Top, Cur

LEMMA Asking ==
  ASSUME EvalTypes, AtRequest
  PROVE  /\ frames # <<>> /\ Top.next \in DOMAIN requests[Cur]
         /\ Child = requests[Cur][Top.next] /\ Child = Asked(Len(frames)) /\ Child \in Module
<1>1. frames # <<>> /\ Top.next <= Len(requests[Cur])
  BY DEF AtRequest
<1>2. Cur \in Module /\ Top.next \in Nat /\ Top.next > 0
  BY <1>1, Calling
<1>3. Top.next \in DOMAIN requests[Cur]
  BY <1>1, <1>2, EvalRanges
<1> QED BY <1>1, <1>2, <1>3, EvalRanges DEF Child, Asked, Top, Cur

\* The place on the stack of the call in progress.
LEMMA Stands ==
  ASSUME EvalTypes, Standing, frames # <<>>
  PROVE  /\ Index(Cur) \in DOMAIN stack /\ stack[Index(Cur)] = Cur /\ Cur = frames[Len(frames)].mod
         /\ \A i \in DOMAIN frames : frames[i].mod = Cur => i = Len(frames)
<1>1. Len(frames) \in DOMAIN frames /\ Cur = frames[Len(frames)].mod
  BY Calling
<1>2. PICK k \in DOMAIN stack : stack[k] = Cur
  BY <1>1 DEF Standing
<1>3. Index(Cur) = k
  BY <1>2, Places
<1>4. ASSUME NEW i \in DOMAIN frames, frames[i].mod = Cur PROVE i = Len(frames)
  <2>1. ~(i < Len(frames))
    BY <1>1, <1>2, <1>4, EvalRanges DEF Standing
  <2> QED BY <2>1, EvalRanges
<1> QED BY <1>1, <1>2, <1>3, <1>4

-----------------------------------------------------------------------------
(* The steps of a walk. *)

LEMMA OpenShape ==
  ASSUME EvalTypes, NEW m \in Module, NEW s \in Status, Open(m, s), m \notin Range(stack)
  PROVE  /\ stack' \in Seq(Module) /\ IsInjective(stack') /\ frames' \in Seq(Call)
         /\ anc' \in [Module -> Nat] /\ status' \in [Module -> Status]
         /\ Len(stack') = Len(stack) + 1 /\ DOMAIN stack' = 1..(Len(stack) + 1)
         /\ \A k \in DOMAIN stack : stack'[k] = stack[k] /\ stack'[k] # m
         /\ stack'[Len(stack) + 1] = m /\ stack' # <<>>
         /\ Len(frames') = Len(frames) + 1 /\ DOMAIN frames' = 1..(Len(frames) + 1)
         /\ \A i \in DOMAIN frames : frames'[i] = frames[i]
         /\ frames'[Len(frames) + 1].mod = m /\ frames'[Len(frames) + 1].next = 1 /\ frames' # <<>>
         /\ anc'[m] = Len(stack) + 1 /\ status'[m] = s
         /\ \A x \in Module : x # m => anc'[x] = anc[x] /\ status'[x] = status[x]
<1>1. /\ stack' = Append(stack, m) /\ frames' = Append(frames, Frame(m))
      /\ anc' = [anc EXCEPT ![m] = Len(stack) + 1] /\ status' = [status EXCEPT ![m] = s]
  BY DEF Open
<1>2. stack \in Seq(Module) /\ frames \in Seq(Call) /\ anc \in [Module -> Nat] /\ status \in [Module -> Status]
  BY DEF EvalTypes
<1>3. Frame(m) \in Call /\ Frame(m).mod = m /\ Frame(m).next = 1
  BY DEF Frame, Call
<1>4. /\ Append(stack, m) \in Seq(Module) /\ Append(stack, m) # <<>>
      /\ Len(Append(stack, m)) = Len(stack) + 1 /\ DOMAIN Append(stack, m) = 1..(Len(stack) + 1)
      /\ \A k \in DOMAIN stack : Append(stack, m)[k] = stack[k]
      /\ Append(stack, m)[Len(stack) + 1] = m
  BY ONLY <1>2, m \in Module, Pushed
<1>5. /\ Append(frames, Frame(m)) \in Seq(Call) /\ Append(frames, Frame(m)) # <<>>
      /\ Len(Append(frames, Frame(m))) = Len(frames) + 1
      /\ DOMAIN Append(frames, Frame(m)) = 1..(Len(frames) + 1)
      /\ \A i \in DOMAIN frames : Append(frames, Frame(m))[i] = frames[i]
      /\ Append(frames, Frame(m))[Len(frames) + 1] = Frame(m)
  BY ONLY <1>2, <1>3, Pushed
<1>6. \A k \in DOMAIN stack : stack[k] # m
  BY DEF Range
<1>7. IsInjective(stack')
  BY <1>1, <1>4, <1>6, EvalRanges DEF IsInjective
<1>8. /\ anc' \in [Module -> Nat] /\ status' \in [Module -> Status]
      /\ anc'[m] = Len(stack) + 1 /\ status'[m] = s
      /\ \A x \in Module : x # m => anc'[x] = anc[x] /\ status'[x] = status[x]
  BY <1>1, <1>2, EvalRanges
<1> HIDE DEF Frame
<1>9. /\ stack' \in Seq(Module) /\ Len(stack') = Len(stack) + 1 /\ DOMAIN stack' = 1..(Len(stack) + 1)
      /\ \A k \in DOMAIN stack : stack'[k] = stack[k] /\ stack'[k] # m
      /\ stack'[Len(stack) + 1] = m /\ stack' # <<>>
  BY <1>1, <1>4, <1>6
<1>10. /\ frames' \in Seq(Call) /\ Len(frames') = Len(frames) + 1 /\ DOMAIN frames' = 1..(Len(frames) + 1)
       /\ \A i \in DOMAIN frames : frames'[i] = frames[i]
       /\ frames'[Len(frames) + 1].mod = m /\ frames'[Len(frames) + 1].next = 1 /\ frames' # <<>>
  BY <1>1, <1>3, <1>5
<1> QED BY <1>7, <1>8, <1>9, <1>10

LEMMA OpenWalk ==
  ASSUME EvalTypes, Walk, NEW m \in Module, NEW s \in Status, Open(m, s), m \notin Range(stack),
         requests' = requests, frames = <<>> \/ (AtRequest /\ Child = m)
  PROVE  Walk'
<1>1. /\ DOMAIN stack = 1..Len(stack) /\ Len(stack) \in Nat /\ DOMAIN frames = 1..Len(frames) /\ Len(frames) \in Nat
      /\ \A i \in DOMAIN frames : frames[i].mod \in Module
      /\ \A k \in DOMAIN stack : stack[k] \in Module
      /\ frames = <<>> <=> Len(frames) = 0
      /\ stack = <<>> <=> Len(stack) = 0
  BY EvalRanges
<1>2. /\ Len(stack') = Len(stack) + 1 /\ DOMAIN stack' = 1..(Len(stack) + 1)
      /\ \A k \in DOMAIN stack : stack'[k] = stack[k] /\ stack'[k] # m
      /\ stack'[Len(stack) + 1] = m /\ stack' # <<>>
      /\ Len(frames') = Len(frames) + 1 /\ DOMAIN frames' = 1..(Len(frames) + 1)
      /\ \A i \in DOMAIN frames : frames'[i] = frames[i]
      /\ frames'[Len(frames) + 1].mod = m /\ frames' # <<>>
      /\ anc'[m] = Len(stack) + 1
      /\ \A x \in Module : x # m => anc'[x] = anc[x]
  BY OpenShape
<1>3. Grounded'
  BY <1>1, <1>2 DEF Walk, Grounded
<1>4. Standing'
  <2>1. \A i \in DOMAIN frames' : \E k \in DOMAIN stack' : stack'[k] = frames'[i].mod
    <3> TAKE i \in DOMAIN frames'
    <3>1. CASE i \in DOMAIN frames
      <4>1. PICK k \in DOMAIN stack : stack[k] = frames[i].mod
        BY <3>1 DEF Walk, Standing
      <4> QED BY <4>1, <3>1, <1>1, <1>2
    <3>2. CASE i = Len(frames) + 1
      <4>1. Len(stack) + 1 \in DOMAIN stack'
        BY <1>1, <1>2
      <4> QED BY <3>2, <4>1, <1>2
    <3> QED BY <3>1, <3>2, <1>1, <1>2
  <2>2. ASSUME NEW i \in DOMAIN frames', NEW j \in DOMAIN frames', NEW k \in DOMAIN stack', NEW l \in DOMAIN stack',
               i < j, stack'[k] = frames'[i].mod, stack'[l] = frames'[j].mod
        PROVE  k < l
    <3>1. i \in DOMAIN frames /\ frames'[i] = frames[i]
      BY <1>1, <1>2, <2>2
    <3>2. k \in DOMAIN stack
      <4>1. PICK q \in DOMAIN stack : stack[q] = frames[i].mod
        BY <3>1 DEF Walk, Standing
      <4>2. stack'[k] # m
        BY <4>1, <3>1, <2>2, <1>2
      <4> QED BY <4>2, <1>1, <1>2
    <3>3. CASE j \in DOMAIN frames
      <4>1. frames'[j] = frames[j]
        BY <3>3, <1>2
      <4>2. l \in DOMAIN stack
        <5>1. PICK q \in DOMAIN stack : stack[q] = frames[j].mod
          BY <3>3 DEF Walk, Standing
        <5>2. stack'[l] # m
          BY <5>1, <4>1, <2>2, <1>2
        <5> QED BY <5>2, <1>1, <1>2
      <4> QED BY <3>1, <3>2, <3>3, <4>1, <4>2, <2>2, <1>2 DEF Walk, Standing
    <3>4. CASE j = Len(frames) + 1
      <4>1. l = Len(stack) + 1
        BY <3>4, <2>2, <1>1, <1>2
      <4> QED BY <4>1, <3>2, <1>1
    <3> QED BY <3>3, <3>4, <1>1, <1>2
  <2> QED BY <2>1, <2>2 DEF Standing
<1>5. Nested'
  <2> SUFFICES ASSUME NEW i \in DOMAIN frames', i < Len(frames')
               PROVE  frames'[i].next <= Len(requests'[frames'[i].mod])
                      /\ requests'[frames'[i].mod][frames'[i].next] = frames'[i + 1].mod
    BY DEF Nested, Asked
  <2>1. i \in DOMAIN frames /\ frames'[i] = frames[i] /\ frames # <<>>
    BY <1>1, <1>2
  <2>2. CASE i < Len(frames)
    <3>1. i + 1 \in DOMAIN frames /\ frames'[i + 1] = frames[i + 1]
      BY <2>1, <2>2, <1>1, <1>2
    <3>2. frames[i].next <= Len(requests[frames[i].mod]) /\ Asked(i) = frames[i + 1].mod
      BY <2>1, <2>2 DEF Walk, Nested
    <3> QED BY <3>1, <3>2, <2>1 DEF Asked
  <2>3. CASE i = Len(frames)
    <3>1. AtRequest /\ Child = m
      BY <2>1
    <3> QED BY <3>1, <2>1, <2>3, <1>2 DEF AtRequest, Child, Cur, Top
  <2> QED BY <2>1, <2>2, <2>3, <1>1
<1>6. Lowered'
  <2> SUFFICES ASSUME NEW k \in DOMAIN stack' PROVE anc'[stack'[k]] \in 1..k
    BY DEF Lowered
  <2>1. CASE k \in DOMAIN stack
    <3>1. anc'[stack'[k]] = anc[stack[k]]
      BY <2>1, <1>1, <1>2
    <3> QED BY <3>1, <2>1 DEF Walk, Lowered
  <2>2. CASE k = Len(stack) + 1
    BY <2>2, <1>1, <1>2
  <2> QED BY <2>1, <2>2, <1>1, <1>2
<1> QED BY <1>3, <1>4, <1>5, <1>6 DEF Walk

LEMMA AdvancedIs ==
  ASSUME EvalTypes, frames # <<>>
  PROVE  /\ Advanced \in Seq(Call) /\ Advanced # <<>>
         /\ Len(Advanced) = Len(frames) /\ DOMAIN Advanced = DOMAIN frames
         /\ \A i \in DOMAIN frames : Advanced[i].mod = frames[i].mod
         /\ \A i \in DOMAIN frames : i # Len(frames) => Advanced[i] = frames[i]
         /\ Advanced[Len(frames)].next = Top.next + 1
<1> DEFINE n == Len(frames)
           f == [mod |-> frames[n].mod, next |-> frames[n].next + 1]
<1>1. n \in DOMAIN frames /\ frames[n] \in Call /\ frames \in Seq(Call) /\ Top = frames[n]
  BY Calling, EvalRanges DEF EvalTypes
<1>2. Advanced = [frames EXCEPT ![n] = [frames[n] EXCEPT !.next = frames[n].next + 1]]
  BY <1>1 DEF Advanced
<1>3. [frames[n] EXCEPT !.next = frames[n].next + 1] = f
  BY <1>1 DEF Call
<1>4. f \in Call /\ f.mod = frames[n].mod /\ f.next = Top.next + 1
  BY <1>1 DEF Call
<1>5. Advanced = [frames EXCEPT ![n] = f]
  BY <1>2, <1>3
<1>6. DOMAIN frames = 1..n /\ n \in Nat
  BY EvalRanges
<1> HIDE DEF f
<1>7. Advanced \in Seq(Call) /\ Len(Advanced) = Len(frames)
  BY <1>1, <1>4, <1>5, ExceptSeq
<1>8. /\ DOMAIN Advanced = DOMAIN frames /\ Advanced[n] = f
      /\ \A i \in DOMAIN frames : i # n => Advanced[i] = frames[i]
  BY <1>1, <1>5
<1>9. Advanced # <<>>
  BY <1>7, <1>1, <1>6, EmptySeq
<1> QED BY <1>4, <1>7, <1>8, <1>9

LEMMA AdvanceShape ==
  ASSUME EvalTypes, frames # <<>>, frames' = Advanced
  PROVE  /\ frames' \in Seq(Call) /\ frames' # <<>>
         /\ Len(frames') = Len(frames) /\ DOMAIN frames' = DOMAIN frames
         /\ \A i \in DOMAIN frames : frames'[i].mod = frames[i].mod
         /\ \A i \in DOMAIN frames : i # Len(frames) => frames'[i] = frames[i]
         /\ frames'[Len(frames)].next = Top.next + 1
BY AdvancedIs

LEMMA MergeShape ==
  ASSUME EvalTypes, Walk, Unfinished, AtRequest, NEW s \in {"linking", "evaluating"}, MergeAncestor(s)
  PROVE  /\ anc' \in [Module -> Nat]
         /\ \A x \in Module : x # Cur => anc'[x] = anc[x]
         /\ anc'[Cur] <= anc[Cur] /\ anc'[Cur] > 0
         /\ status[Child] = s => anc'[Cur] <= anc[Child]
         /\ status[Child] = s => Child \in Range(stack)
<1>1. Cur \in Module /\ Child \in Module /\ anc \in [Module -> Nat]
  BY Asking, Calling DEF EvalTypes
<1>2. \A m \in Range(stack) : m \in Module /\ anc[m] > 0
  BY EvalRanges DEF Range, Walk, Lowered
<1>3. Cur \in Range(stack)
  BY Asking, Stands DEF Walk, Range
<1>4. status[Child] = s => Child \in Range(stack)
  BY <1>1 DEF Unfinished
<1>5. CASE status[Child] = s
  <2>1. anc' = [anc EXCEPT ![Cur] = Lower(anc[Cur], anc[Child])]
    BY <1>5 DEF MergeAncestor
  <2>2. /\ Lower(anc[Cur], anc[Child]) \in Nat /\ Lower(anc[Cur], anc[Child]) > 0
        /\ Lower(anc[Cur], anc[Child]) <= anc[Cur] /\ Lower(anc[Cur], anc[Child]) <= anc[Child]
    BY <1>1, <1>2, <1>3, <1>4, <1>5 DEF Lower
  <2> QED BY <1>1, <1>4, <2>1, <2>2
<1>6. CASE status[Child] # s
  <2>1. anc' = anc
    BY <1>6 DEF MergeAncestor
  <2> QED BY <2>1, <1>1, <1>2, <1>3, <1>6
<1> QED BY <1>5, <1>6

LEMMA MergeWalk ==
  ASSUME EvalTypes, Walk, Unfinished, AtRequest, NEW s \in {"linking", "evaluating"}, MergeAncestor(s),
         frames' = Advanced, stack' = stack, requests' = requests
  PROVE  Walk'
<1>1. frames # <<>>
  BY DEF AtRequest
<1>2. /\ frames' # <<>>
      /\ Len(frames') = Len(frames) /\ DOMAIN frames' = DOMAIN frames
      /\ \A i \in DOMAIN frames : frames'[i].mod = frames[i].mod
      /\ \A i \in DOMAIN frames : i # Len(frames) => frames'[i] = frames[i]
  BY <1>1, AdvanceShape
<1>3. Len(frames) \in Nat /\ DOMAIN frames = 1..Len(frames) /\ \A k \in DOMAIN stack : stack[k] \in Module
  BY EvalRanges
<1>4. Grounded'
  <2>1. 1 \in DOMAIN frames
    BY <1>1, <1>3, Calling
  <2> QED BY <2>1, <1>1, <1>2 DEF Walk, Grounded
<1>5. Standing'
  BY <1>2 DEF Walk, Standing
<1>6. Nested'
  <2> SUFFICES ASSUME NEW i \in DOMAIN frames', i < Len(frames')
               PROVE  frames'[i].next <= Len(requests'[frames'[i].mod])
                      /\ requests'[frames'[i].mod][frames'[i].next] = frames'[i + 1].mod
    BY DEF Nested, Asked
  <2>1. i \in DOMAIN frames /\ i < Len(frames) /\ frames'[i] = frames[i]
    BY <1>2, <1>3
  <2>2. i + 1 \in DOMAIN frames /\ frames'[i + 1].mod = frames[i + 1].mod
    BY <2>1, <1>2, <1>3
  <2>3. frames[i].next <= Len(requests[frames[i].mod]) /\ Asked(i) = frames[i + 1].mod
    BY <2>1 DEF Walk, Nested
  <2> QED BY <2>1, <2>2, <2>3 DEF Asked
<1>7. Lowered'
  <2> SUFFICES ASSUME NEW k \in DOMAIN stack PROVE anc'[stack[k]] \in 1..k
    BY DEF Lowered
  <2>1. /\ anc' \in [Module -> Nat]
        /\ \A x \in Module : x # Cur => anc'[x] = anc[x]
        /\ anc'[Cur] <= anc[Cur] /\ anc'[Cur] > 0
    BY MergeShape
  <2>2. anc[stack[k]] \in 1..k /\ stack[k] \in Module /\ k \in Nat
    BY EvalRanges DEF Walk, Lowered
  <2> QED BY <2>1, <2>2
<1> QED BY <1>4, <1>5, <1>6, <1>7 DEF Walk

-----------------------------------------------------------------------------
LEMMA ReturnShape ==
  ASSUME EvalTypes, frames # <<>>, frames' = Returned
  PROVE  /\ frames' \in Seq(Call) /\ Len(frames') = Len(frames) - 1
         /\ DOMAIN frames' = 1..(Len(frames) - 1)
         /\ \A i \in DOMAIN frames' : frames'[i] = frames[i] /\ i \in DOMAIN frames /\ i # Len(frames)
         /\ frames' = <<>> <=> Len(frames) = 1
<1>1. frames \in Seq(Call) /\ Len(frames) - 1 \in Nat /\ Len(frames) - 1 <= Len(frames)
  <2>1. Len(frames) \in Nat
    BY EvalRanges
  <2>2. Len(frames) - 1 \in Nat
    BY Calling
  <2>3. frames \in Seq(Call)
    BY DEF EvalTypes
  <2> QED BY <2>1, <2>2, <2>3
<1>2. frames' = SubSeq(frames, 1, Len(frames) - 1)
  BY DEF Returned
<1> DEFINE n == Len(frames) - 1
<1>3. n \in Nat /\ n <= Len(frames)
  BY <1>1
<1> HIDE DEF n
<1>4. /\ SubSeq(frames, 1, n) \in Seq(Call) /\ Len(SubSeq(frames, 1, n)) = n
      /\ DOMAIN SubSeq(frames, 1, n) = 1..n
      /\ \A i \in 1..n : SubSeq(frames, 1, n)[i] = frames[i] /\ i \in DOMAIN frames
  BY ONLY <1>1, <1>3, Popped
<1>5. frames' \in Seq(Call) /\ Len(frames') = n /\ DOMAIN frames' = 1..n
      /\ \A i \in 1..n : frames'[i] = frames[i] /\ i \in DOMAIN frames
  BY <1>2, <1>4 DEF n
<1>6. frames' = <<>> <=> Len(frames') = 0
  BY <1>5, EmptySeq
<1> QED BY <1>1, <1>5, <1>6 DEF n

\* The end of a call that is not the root of its component.
LEMMA ReturnWalk ==
  ASSUME EvalTypes, Walk, frames # <<>>, ~IsRoot, frames' = Returned,
         UNCHANGED <<stack, anc, requests>>
  PROVE  Walk' /\ frames' # <<>>
<1>1. /\ Len(frames') = Len(frames) - 1 /\ DOMAIN frames' = 1..(Len(frames) - 1)
      /\ \A i \in DOMAIN frames' : frames'[i] = frames[i] /\ i \in DOMAIN frames /\ i # Len(frames)
      /\ frames' = <<>> <=> Len(frames) = 1
  BY ReturnShape
<1>2. Len(frames) \in Nat /\ DOMAIN frames = 1..Len(frames) /\ Len(frames) > 0
  BY Calling, EvalRanges
<1>3. Len(frames) # 1
  <2> SUFFICES ASSUME Len(frames) = 1 PROVE FALSE
    OBVIOUS
  <2>1. stack # <<>> /\ stack[1] = Cur
    BY Calling DEF Walk, Grounded
  <2>2. 1 \in DOMAIN stack
    BY <2>1, EvalRanges
  <2>3. Index(Cur) = 1
    BY <2>1, <2>2, Places
  <2>4. anc[Cur] \in 1..1
    BY <2>1, <2>2 DEF Walk, Lowered
  <2> QED BY <2>3, <2>4 DEF IsRoot
<1>4. Grounded' /\ frames' # <<>>
  BY <1>1, <1>2, <1>3 DEF Walk, Grounded
<1>5. Standing'
  BY <1>1 DEF Walk, Standing
<1>6. Nested'
  <2> SUFFICES ASSUME NEW i \in DOMAIN frames', i < Len(frames')
               PROVE  frames'[i].next <= Len(requests'[frames'[i].mod])
                      /\ requests'[frames'[i].mod][frames'[i].next] = frames'[i + 1].mod
    BY DEF Nested, Asked
  <2>1. i \in DOMAIN frames /\ i < Len(frames) /\ frames'[i] = frames[i] /\ i + 1 \in DOMAIN frames'
    BY <1>1, <1>2
  <2>2. frames'[i + 1] = frames[i + 1]
    BY <2>1, <1>1
  <2>3. frames[i].next <= Len(requests[frames[i].mod]) /\ Asked(i) = frames[i + 1].mod
    BY <2>1 DEF Walk, Nested
  <2> QED BY <2>1, <2>2, <2>3 DEF Asked
<1>7. Lowered'
  BY DEF Walk, Lowered
<1> QED BY <1>4, <1>5, <1>6, <1>7 DEF Walk

\* The end of the call of a root: its component leaves the stack.
LEMMA CloseShape ==
  ASSUME EvalTypes, Walk, frames # <<>>, IsRoot, NEW done \in [Module -> Status], Close(done)
  PROVE  /\ Index(Cur) \in DOMAIN stack /\ stack[Index(Cur)] = Cur
         /\ stack' \in Seq(Module) /\ IsInjective(stack') /\ DOMAIN stack' = 1..(Index(Cur) - 1)
         /\ stack' = <<>> <=> Index(Cur) = 1
         /\ \A k \in DOMAIN stack' : /\ stack'[k] = stack[k] /\ k \in DOMAIN stack /\ k < Index(Cur)
                                     /\ stack[k] \notin Component
         /\ \A k \in DOMAIN stack : k < Index(Cur) => k \in DOMAIN stack'
         /\ \A m \in Component : \E k \in DOMAIN stack : stack[k] = m /\ k >= Index(Cur)
         /\ \A k \in DOMAIN stack : k >= Index(Cur) => stack[k] \in Component
         /\ anc' \in [Module -> Nat] /\ status' \in [Module -> Status]
         /\ \A m \in Module : m \in Component => status'[m] = done[m]
         /\ \A m \in Module : m \notin Component => status'[m] = status[m] /\ anc'[m] = anc[m]
         /\ \A m \in Module : m \in Range(stack') <=> m \in Range(stack) /\ m \notin Component
<1> DEFINE p == Index(Cur)
<1>1. p \in DOMAIN stack /\ stack[p] = Cur
  BY Stands DEF Walk
<1>2. Len(stack) \in Nat /\ DOMAIN stack = 1..Len(stack) /\ \A k, l \in DOMAIN stack : stack[k] = stack[l] => k = l
  BY EvalRanges
<1>3. /\ stack' = SubSeq(stack, 1, p - 1)
      /\ anc' = [m \in Module |-> IF m \in Component THEN 0 ELSE anc[m]]
      /\ status' = [m \in Module |-> IF m \in Component THEN done[m] ELSE status[m]]
  BY DEF Close
<1>4. stack \in Seq(Module) /\ anc \in [Module -> Nat] /\ status \in [Module -> Status]
  BY DEF EvalTypes
<1>5. Component = {stack[k] : k \in p..Len(stack)}
  BY DEF Component
<1> HIDE DEF p, Component
<1> DEFINE n == p - 1
<1>6. n \in Nat /\ n <= Len(stack)
  BY <1>1, <1>2
<1> HIDE DEF n
<1>7. /\ SubSeq(stack, 1, n) \in Seq(Module) /\ Len(SubSeq(stack, 1, n)) = n
      /\ DOMAIN SubSeq(stack, 1, n) = 1..n
      /\ \A i \in 1..n : SubSeq(stack, 1, n)[i] = stack[i] /\ i \in DOMAIN stack
  BY ONLY <1>4, <1>6, Popped
<1>8. /\ stack' \in Seq(Module) /\ Len(stack') = n /\ DOMAIN stack' = 1..n
      /\ \A i \in 1..n : stack'[i] = stack[i] /\ i \in DOMAIN stack
  BY <1>3, <1>7 DEF n
<1>9. n = p - 1 /\ p \in Int
  BY <1>1, <1>2 DEF n
<1>10. \A k \in DOMAIN stack : k < p => k \in DOMAIN stack'
  BY <1>2, <1>8, <1>9
<1>11. \A m \in Component : \E k \in DOMAIN stack : stack[k] = m /\ k >= p
  <2> TAKE m \in Component
  <2>1. PICK k \in p..Len(stack) : m = stack[k]
    BY <1>5
  <2>2. k \in DOMAIN stack /\ k >= p
    BY <1>1, <1>2
  <2> QED BY <2>1, <2>2
<1>12. \A k \in DOMAIN stack : k >= p => stack[k] \in Component
  BY <1>2, <1>5, <1>9
<1>13. \A k \in DOMAIN stack' : /\ stack'[k] = stack[k] /\ k \in DOMAIN stack /\ k < p
                                /\ stack[k] \notin Component
  BY <1>2, <1>8, <1>9, <1>11
<1>14. IsInjective(stack')
  BY <1>2, <1>13 DEF IsInjective
<1>15. stack' = <<>> <=> p = 1
  BY <1>8, <1>9, EmptySeq
<1>16. /\ anc' \in [Module -> Nat] /\ status' \in [Module -> Status]
       /\ \A m \in Module : m \in Component => status'[m] = done[m]
       /\ \A m \in Module : m \notin Component => status'[m] = status[m] /\ anc'[m] = anc[m]
  BY <1>3, <1>4
<1>17. \A m \in Module : m \in Range(stack') <=> m \in Range(stack) /\ m \notin Component
  <2> TAKE m \in Module
  <2>1. ASSUME m \in Range(stack') PROVE m \in Range(stack) /\ m \notin Component
    BY <2>1, <1>13 DEF Range
  <2>2. ASSUME m \in Range(stack), m \notin Component PROVE m \in Range(stack')
    <3>1. PICK k \in DOMAIN stack : stack[k] = m
      BY <2>2 DEF Range
    <3>2. k < p
      BY <2>2, <3>1, <1>1, <1>2, <1>12
    <3>3. k \in DOMAIN stack' /\ stack'[k] = m
      BY <3>1, <3>2, <1>10, <1>13
    <3> QED BY <3>3 DEF Range
  <2> QED BY <2>1, <2>2
<1>18. DOMAIN stack' = 1..(p - 1)
  BY <1>8, <1>9
<1> QED BY <1>1, <1>8, <1>10, <1>11, <1>12, <1>13, <1>14, <1>15, <1>16, <1>17, <1>18 DEF p

LEMMA CloseWalk ==
  ASSUME EvalTypes, Walk, frames # <<>>, IsRoot, NEW done \in [Module -> Status], Close(done),
         requests' = requests
  PROVE  Walk'
<1> DEFINE p == Index(Cur)
<1>1. /\ p \in DOMAIN stack /\ stack[p] = Cur
      /\ DOMAIN stack' = 1..(p - 1)
      /\ stack' = <<>> <=> p = 1
      /\ \A k \in DOMAIN stack' : /\ stack'[k] = stack[k] /\ k \in DOMAIN stack /\ k < p
                                  /\ stack[k] \notin Component
      /\ \A k \in DOMAIN stack : k < p => k \in DOMAIN stack'
      /\ \A m \in Module : m \notin Component => anc'[m] = anc[m]
  BY CloseShape
<1>2. frames' = Returned
  BY DEF Close
<1>3. /\ Len(frames') = Len(frames) - 1 /\ DOMAIN frames' = 1..(Len(frames) - 1)
      /\ \A i \in DOMAIN frames' : frames'[i] = frames[i] /\ i \in DOMAIN frames /\ i # Len(frames)
      /\ frames' = <<>> <=> Len(frames) = 1
  BY <1>2, ReturnShape
<1>4. /\ Len(frames) \in Nat /\ DOMAIN frames = 1..Len(frames) /\ Len(frames) > 0 /\ Len(frames) \in DOMAIN frames
      /\ Len(stack) \in Nat /\ DOMAIN stack = 1..Len(stack)
      /\ \A k \in DOMAIN stack : stack[k] \in Module
      /\ \A k, l \in DOMAIN stack : stack[k] = stack[l] => k = l
  BY Calling, EvalRanges
<1>5. Cur = frames[Len(frames)].mod
  BY Calling
<1>6. stack # <<>> /\ stack[1] = frames[1].mod /\ 1 \in DOMAIN stack
  BY <1>1, <1>4 DEF Walk, Grounded
<1> HIDE DEF p
<1>7. \A i \in DOMAIN frames' : \E k \in DOMAIN stack' : stack'[k] = frames'[i].mod
  <2> TAKE i \in DOMAIN frames'
  <2>1. PICK k \in DOMAIN stack : stack[k] = frames[i].mod
    BY <1>3 DEF Walk, Standing
  <2>2. i < Len(frames) /\ i \in DOMAIN frames
    BY <1>3, <1>4
  <2>3. k < p
    BY <1>1, <1>4, <1>5, <2>1, <2>2 DEF Walk, Standing
  <2>4. k \in DOMAIN stack' /\ stack'[k] = stack[k]
    BY <1>1, <2>3
  <2> QED BY <2>1, <2>4, <1>3
<1>8. Standing'
  <2>1. \A i, j \in DOMAIN frames' : \A k, l \in DOMAIN stack' :
          i < j /\ stack'[k] = frames'[i].mod /\ stack'[l] = frames'[j].mod => k < l
    BY <1>1, <1>3 DEF Walk, Standing
  <2> QED BY <1>7, <2>1 DEF Standing
<1>9. Grounded'
  <2>1. CASE Len(frames) = 1
    <3>1. stack[p] = stack[1]
      BY <1>1, <1>5, <1>6, <2>1
    <3>2. p = 1
      BY <3>1, <1>1, <1>4, <1>6
    <3> QED BY <2>1, <3>2, <1>1, <1>3 DEF Grounded
  <2>2. CASE Len(frames) # 1
    <3>1. 1 \in DOMAIN frames' /\ frames'[1] = frames[1]
      BY <2>2, <1>3, <1>4
    <3>2. PICK k \in DOMAIN stack' : stack'[k] = frames'[1].mod
      BY <3>1, <1>7
    <3>3. stack[k] = stack[1] /\ k \in DOMAIN stack
      BY <3>1, <3>2, <1>1, <1>6
    <3>4. k = 1
      BY <3>3, <1>4, <1>6
    <3>5. p # 1
      BY <3>2, <3>4, <1>1, <1>4
    <3> QED BY <3>1, <3>2, <3>4, <3>5, <1>1, <1>3, <2>2 DEF Grounded
  <2> QED BY <2>1, <2>2
<1>10. Nested'
  <2> SUFFICES ASSUME NEW i \in DOMAIN frames', i < Len(frames')
               PROVE  frames'[i].next <= Len(requests'[frames'[i].mod])
                      /\ requests'[frames'[i].mod][frames'[i].next] = frames'[i + 1].mod
    BY DEF Nested, Asked
  <2>1. i \in DOMAIN frames /\ i < Len(frames) /\ frames'[i] = frames[i] /\ i + 1 \in DOMAIN frames'
    BY <1>3, <1>4
  <2>2. frames'[i + 1] = frames[i + 1]
    BY <2>1, <1>3
  <2>3. frames[i].next <= Len(requests[frames[i].mod]) /\ Asked(i) = frames[i + 1].mod
    BY <2>1 DEF Walk, Nested
  <2> QED BY <2>1, <2>2, <2>3 DEF Asked
<1>11. Lowered'
  <2> SUFFICES ASSUME NEW k \in DOMAIN stack' PROVE anc'[stack'[k]] \in 1..k
    BY DEF Lowered
  <2>1. anc'[stack'[k]] = anc[stack[k]] /\ k \in DOMAIN stack
    BY <1>1, <1>4
  <2> QED BY <2>1 DEF Walk, Lowered
<1> QED BY <1>8, <1>9, <1>10, <1>11 DEF Walk

-----------------------------------------------------------------------------
(* Linking. *)

LinkInv == Linking /\ Low /\ Merged

\* Between two walks.
LEMMA ImportLinks ==
  ASSUME EvalTypes, frames = <<>>, stack = <<>>, Closed, NEW m \in Module,
         \A x \in Module : status[x] # "linking",
         \/ status[m] = "unlinked" /\ Open(m, "linking")
         \/ UNCHANGED <<status, stack, anc, frames>>,
         requests' = requests
  PROVE  LinkInv'
<1>1. /\ Len(stack) = 0 /\ Len(frames) = 0 /\ DOMAIN stack = 1..0 /\ DOMAIN frames = 1..0
      /\ \A x \in Module : \A r \in DOMAIN requests[x] : requests[x][r] \in Module
  BY EvalRanges
<1>2. CASE status[m] = "unlinked" /\ Open(m, "linking")
  <2>0. m \notin Range(stack) /\ "linking" \in Status
    BY <1>1 DEF Range, Status
  <2>1. /\ DOMAIN stack' = 1..1 /\ stack'[1] = m
        /\ Len(frames') = 1 /\ DOMAIN frames' = 1..1
        /\ frames'[1].mod = m /\ frames'[1].next = 1
        /\ status'[m] = "linking"
        /\ \A x \in Module : x # m => status'[x] = status[x]
    <3>1. /\ DOMAIN stack' = 1..(Len(stack) + 1) /\ stack'[Len(stack) + 1] = m
          /\ Len(frames') = Len(frames) + 1 /\ DOMAIN frames' = 1..(Len(frames) + 1)
          /\ frames'[Len(frames) + 1].mod = m /\ frames'[Len(frames) + 1].next = 1
          /\ status'[m] = "linking"
          /\ \A x \in Module : x # m => status'[x] = status[x]
      BY <1>2, <2>0, OpenShape
    <3>2. Len(stack) + 1 = 1 /\ Len(frames) + 1 = 1
      BY <1>1
    <3> QED BY <3>1, <3>2
  <2>2. ASSUME NEW x \in Module, NEW r \in DOMAIN requests[x]
        PROVE  ~(\A i \in DOMAIN frames' : frames'[i].mod = m => r < frames'[i].next)
    <3>1. r >= 1 /\ r \in Int
      BY EvalRanges
    <3>2. 1 \in DOMAIN frames' /\ frames'[1].mod = m /\ frames'[1].next = 1
      BY <2>1
    <3> QED BY <3>1, <3>2
  <2>3. ASSUME NEW x \in Module, NEW r \in DOMAIN requests[x], x # m, status[x] # "unlinked"
        PROVE  status'[requests[x][r]] # "unlinked"
               /\ (requests[x][r] # m /\ status'[requests[x][r]] \notin {"unlinked", "linking"})
    <3>1. status[requests[x][r]] # "unlinked" /\ requests[x][r] \in Module
      BY <2>3, <1>1 DEF Closed
    <3> QED BY <3>1, <1>2, <2>1
  <2>4. Linking'
    <3>1. ASSUME NEW x \in Module, NEW r \in DOMAIN requests[x], status'[x] # "unlinked",
                 \A i \in DOMAIN frames' : frames'[i].mod = x => r < frames'[i].next
          PROVE  status'[requests[x][r]] # "unlinked"
      BY <3>1, <2>1, <2>2, <2>3
    <3>2. ASSUME NEW x \in Module, NEW r \in DOMAIN requests[x], status'[x] \notin {"unlinked", "linking"}
          PROVE  status'[requests[x][r]] \notin {"unlinked", "linking"}
      BY <3>2, <2>1, <2>3
    <3> QED BY <3>1, <3>2 DEF Linking, Walked
  <2>5. Low'
    BY <2>1, <2>2 DEF Low, Walked
  <2>6. Merged'
    BY <2>1 DEF Merged
  <2> QED BY <2>4, <2>5, <2>6 DEF LinkInv
<1>3. CASE UNCHANGED <<status, stack, anc, frames>>
  <2>1. status' = status /\ stack' = stack /\ anc' = anc /\ frames' = frames
    BY <1>3
  <2>2. Linking'
    <3>1. ASSUME NEW x \in Module, NEW r \in DOMAIN requests[x], status[x] # "unlinked"
          PROVE  status[requests[x][r]] # "unlinked" /\ status[requests[x][r]] # "linking"
      BY <3>1, <1>1 DEF Closed
    <3> QED BY <2>1, <3>1 DEF Linking
  <2>3. DOMAIN stack' = 1..0
    BY <1>1, <2>1
  <2>4. Low' /\ Merged'
    BY <2>3 DEF Low, Merged
  <2> QED BY <2>2, <2>4 DEF LinkInv
<1> QED BY <1>2, <1>3

\* A walk opens a module that nothing it has been through leads to.
LEMMA RequestLow ==
  ASSUME EvalTypes, Walk, Low, Merged, AtRequest, Child \notin Range(stack), NEW s \in Status,
         \A k \in DOMAIN stack : \A r \in DOMAIN requests[stack[k]] :
           Walked(stack[k], r) => requests[stack[k]][r] # Child,
         Open(Child, s), requests' = requests
  PROVE  Low' /\ Merged'
<1> DEFINE n == Len(frames)
           h == Len(stack)
           t == Child
<1>1. /\ h \in Nat /\ DOMAIN stack = 1..h /\ n \in Nat /\ DOMAIN frames = 1..n
      /\ \A k \in DOMAIN stack : stack[k] \in Module
      /\ \A i \in DOMAIN frames : frames[i].mod \in Module
      /\ \A x \in Module : \A r \in DOMAIN requests[x] : r >= 1 /\ requests[x][r] \in Module
      /\ \A k, l \in DOMAIN stack : stack[k] = stack[l] => k = l
  BY EvalRanges
<1>2. t \in Module /\ frames # <<>> /\ t = Asked(n) /\ Cur = frames[n].mod /\ n \in DOMAIN frames
  BY Asking, Calling
<1> HIDE DEF t
<1>4. /\ DOMAIN stack' = 1..(h + 1)
      /\ \A k \in DOMAIN stack : stack'[k] = stack[k] /\ stack'[k] # t
      /\ stack'[h + 1] = t
      /\ Len(frames') = n + 1 /\ DOMAIN frames' = 1..(n + 1)
      /\ \A i \in DOMAIN frames : frames'[i] = frames[i]
      /\ frames'[n + 1].mod = t /\ frames'[n + 1].next = 1
      /\ anc'[t] = h + 1 /\ status'[t] = s
      /\ \A x \in Module : x # t => anc'[x] = anc[x] /\ status'[x] = status[x]
  BY <1>2, OpenShape DEF t
<1>5. /\ \A k \in DOMAIN stack : stack[k] # t
      /\ \A k \in DOMAIN stack : \A r \in DOMAIN requests[stack[k]] :
           Walked(stack[k], r) => requests[stack[k]][r] # t
  BY DEF Range, t
<1> HIDE DEF n, h
<1>6. ASSUME NEW x \in Module, x # t, NEW r \in DOMAIN requests[x],
             \A i \in DOMAIN frames' : frames'[i].mod = x => r < frames'[i].next
      PROVE  Walked(x, r)
  BY <1>1, <1>4, <1>6 DEF Walked
<1>7. ASSUME NEW r \in DOMAIN requests[t],
             \A i \in DOMAIN frames' : frames'[i].mod = t => r < frames'[i].next
      PROVE  FALSE
  <2>1. n + 1 \in DOMAIN frames'
    BY <1>1, <1>4
  <2>2. r < frames'[n + 1].next
    BY <2>1, <1>4, <1>7
  <2>3. r \in 1..Len(requests[t]) /\ Len(requests[t]) \in Nat
    BY <1>2, EvalRanges
  <2> QED BY <2>2, <2>3, <1>4
<1>8. Low'
  <2> SUFFICES ASSUME NEW k \in DOMAIN stack', NEW p \in DOMAIN stack', NEW r \in DOMAIN requests[stack'[k]],
                      \A i \in DOMAIN frames' : frames'[i].mod = stack'[k] => r < frames'[i].next,
                      requests[stack'[k]][r] = stack'[p]
               PROVE  anc'[stack'[k]] <= p
    BY DEF Low, Walked
  <2>1. k \in DOMAIN stack /\ stack'[k] = stack[k] /\ stack[k] # t
    <3>1. stack'[k] # t
      BY <1>7
    <3> QED BY <3>1, <1>1, <1>4
  <2>2. Walked(stack[k], r) /\ stack[k] \in Module
    BY <2>1, <1>1, <1>6
  <2>3. stack'[p] # t
    <3>1. requests[stack[k]][r] # t
      BY <2>1, <2>2, <1>5
    <3> QED BY <3>1, <2>1
  <2>4. p \in DOMAIN stack /\ stack'[p] = stack[p]
    BY <2>3, <1>1, <1>4
  <2>5. anc[stack[k]] <= p
    BY <2>1, <2>2, <2>4 DEF Low
  <2> QED BY <2>1, <2>2, <2>5, <1>4
<1>9. Merged'
  <2> SUFFICES ASSUME NEW i \in DOMAIN frames', NEW p \in DOMAIN stack', NEW k \in DOMAIN stack',
                      stack'[p] = frames'[i].mod, p < k,
                      i < Len(frames') => \A q \in DOMAIN stack' : stack'[q] = frames'[i + 1].mod => k < q
               PROVE  anc'[stack'[p]] <= anc'[stack'[k]]
    BY DEF Merged, Below
  <2>1. p \in DOMAIN stack /\ stack'[p] = stack[p] /\ stack[p] # t
    BY <1>1, <1>4
  <2>2. i \in DOMAIN frames /\ frames'[i] = frames[i]
    <3>1. i # n + 1
      BY <2>1, <1>4
    <3>2. i \in 1..n
      BY <3>1, <1>1, <1>4
    <3> QED BY <3>2, <1>1, <1>4
  <2>3. i < Len(frames')
    BY <2>2, <1>1, <1>4
  <2>4. k \in DOMAIN stack /\ stack'[k] = stack[k] /\ stack[k] # t
    <3>1. CASE i = n
      <4>1. h + 1 \in DOMAIN stack' /\ stack'[h + 1] = frames'[i + 1].mod
        BY <3>1, <1>1, <1>4
      <4>2. k < h + 1
        BY <4>1, <2>3
      <4> QED BY <4>2, <1>1, <1>4
    <3>2. CASE i # n
      <4>1. i + 1 \in DOMAIN frames /\ frames'[i + 1] = frames[i + 1]
        BY <3>2, <2>2, <1>1, <1>4
      <4>2. PICK q \in DOMAIN stack : stack[q] = frames[i + 1].mod
        BY <4>1 DEF Walk, Standing
      <4>3. q \in DOMAIN stack' /\ stack'[q] = frames'[i + 1].mod
        BY <4>1, <4>2, <1>1, <1>4
      <4>4. k < q
        BY <4>3, <2>3
      <4> QED BY <4>2, <4>4, <1>1, <1>4
    <3> QED BY <3>1, <3>2
  <2>5. Below(i, k)
    <3> SUFFICES ASSUME i < Len(frames), NEW q \in DOMAIN stack, stack[q] = frames[i + 1].mod PROVE k < q
      BY DEF Below
    <3>1. i + 1 \in DOMAIN frames /\ frames'[i + 1] = frames[i + 1]
      BY <2>2, <1>1, <1>4 DEF n
    <3>2. q \in DOMAIN stack' /\ stack'[q] = stack[q]
      BY <1>1, <1>4
    <3> QED BY <3>1, <3>2, <2>3
  <2>6. ~Unmerged(i, p, k)
    <3> SUFFICES ASSUME i = n, NEW q \in DOMAIN stack, stack[q] = Asked(i) PROVE FALSE
      BY DEF Unmerged, n
    <3> QED BY <1>2, <1>5
  <2>7. anc[stack[p]] <= anc[stack[k]]
    BY <2>1, <2>2, <2>4, <2>5, <2>6 DEF Merged
  <2> QED BY <2>1, <2>4, <2>7, <1>1, <1>4
<1> QED BY <1>8, <1>9

LEMMA RequestLinks ==
  ASSUME EvalTypes, Walk, LinkInv, AtRequest, status[Child] = "unlinked", Child \notin Range(stack),
         \A k \in DOMAIN stack : status[stack[k]] # "unlinked",
         Open(Child, "linking"), requests' = requests
  PROVE  LinkInv'
<1> DEFINE n == Len(frames)
           h == Len(stack)
           t == Child
<1>1. /\ h \in Nat /\ DOMAIN stack = 1..h /\ n \in Nat /\ DOMAIN frames = 1..n
      /\ \A k \in DOMAIN stack : stack[k] \in Module
      /\ \A i \in DOMAIN frames : frames[i].mod \in Module
      /\ \A x \in Module : \A r \in DOMAIN requests[x] : r >= 1 /\ requests[x][r] \in Module
      /\ \A k, l \in DOMAIN stack : stack[k] = stack[l] => k = l
  BY EvalRanges
<1>2. t \in Module /\ frames # <<>> /\ t = Asked(n) /\ Cur = frames[n].mod /\ n \in DOMAIN frames
  BY Asking, Calling
<1>3. "linking" \in Status
  BY DEF Status
<1> HIDE DEF t
<1>4. /\ DOMAIN stack' = 1..(h + 1)
      /\ \A k \in DOMAIN stack : stack'[k] = stack[k] /\ stack'[k] # t
      /\ stack'[h + 1] = t
      /\ Len(frames') = n + 1 /\ DOMAIN frames' = 1..(n + 1)
      /\ \A i \in DOMAIN frames : frames'[i] = frames[i]
      /\ frames'[n + 1].mod = t /\ frames'[n + 1].next = 1
      /\ anc'[t] = h + 1 /\ status'[t] = "linking"
      /\ \A x \in Module : x # t => anc'[x] = anc[x] /\ status'[x] = status[x]
  BY <1>2, <1>3, OpenShape DEF t
<1>5. status[t] = "unlinked" /\ \A k \in DOMAIN stack : stack[k] # t
  BY DEF Range, t
<1> HIDE DEF n, h
<1>6. ASSUME NEW x \in Module, x # t, NEW r \in DOMAIN requests[x],
             \A i \in DOMAIN frames' : frames'[i].mod = x => r < frames'[i].next
      PROVE  Walked(x, r)
  BY <1>1, <1>4, <1>6 DEF Walked
<1>7. ASSUME NEW r \in DOMAIN requests[t],
             \A i \in DOMAIN frames' : frames'[i].mod = t => r < frames'[i].next
      PROVE  FALSE
  <2>1. n + 1 \in DOMAIN frames'
    BY <1>1, <1>4
  <2>2. r < frames'[n + 1].next
    BY <2>1, <1>4, <1>7
  <2>3. r \in 1..Len(requests[t]) /\ Len(requests[t]) \in Nat
    BY <1>2, EvalRanges
  <2> QED BY <2>2, <2>3, <1>4
<1>8. Linking'
  <2>1. ASSUME NEW x \in Module, NEW r \in DOMAIN requests[x], status'[x] # "unlinked",
               \A i \in DOMAIN frames' : frames'[i].mod = x => r < frames'[i].next
        PROVE  status'[requests[x][r]] # "unlinked"
    <3>1. x # t /\ Walked(x, r)
      BY <2>1, <1>6, <1>7
    <3>2. status[requests[x][r]] # "unlinked" /\ requests[x][r] \in Module
      BY <2>1, <3>1, <1>1, <1>4 DEF LinkInv, Linking
    <3> QED BY <3>2, <1>4
  <2>2. ASSUME NEW x \in Module, NEW r \in DOMAIN requests[x], status'[x] \notin {"unlinked", "linking"}
        PROVE  status'[requests[x][r]] \notin {"unlinked", "linking"}
    <3>1. x # t /\ status[x] \notin {"unlinked", "linking"}
      BY <2>2, <1>4
    <3>2. status[requests[x][r]] \notin {"unlinked", "linking"} /\ requests[x][r] \in Module
      BY <3>1, <1>1 DEF LinkInv, Linking
    <3>3. requests[x][r] # t
      BY <3>2, <1>5
    <3> QED BY <3>2, <3>3, <1>4
  <2> QED BY <2>1, <2>2 DEF Linking, Walked
<1>9. \A k \in DOMAIN stack : \A r \in DOMAIN requests[stack[k]] :
        Walked(stack[k], r) => requests[stack[k]][r] # t
  BY <1>1, <1>5 DEF LinkInv, Linking
<1>10. Low' /\ Merged'
  BY <1>3, <1>9, RequestLow DEF LinkInv, t
<1> QED BY <1>8, <1>10 DEF LinkInv

\* A request that returned is walked, and its place on the stack merged.
LEMMA MergeLow ==
  ASSUME EvalTypes, Walk, Unfinished, Low, Merged, AtRequest, NEW s \in {"linking", "evaluating"},
         Child \in Range(stack) => status[Child] = s,
         MergeAncestor(s), frames' = Advanced, UNCHANGED <<stack, requests>>
  PROVE  Low' /\ Merged'
<1> DEFINE n == Len(frames)
<1>1. /\ n \in Nat /\ DOMAIN frames = 1..n
      /\ \A k \in DOMAIN stack : stack[k] \in Module
      /\ \A i \in DOMAIN frames : frames[i].mod \in Module
      /\ \A x \in Module : \A r \in DOMAIN requests[x] : r \in Int /\ requests[x][r] \in Module
      /\ \A k, l \in DOMAIN stack : stack[k] = stack[l] => k = l
      /\ DOMAIN stack = 1..Len(stack) /\ Len(stack) \in Nat
  BY EvalRanges
<1>2. /\ frames # <<>> /\ Top.next \in DOMAIN requests[Cur] /\ Child = requests[Cur][Top.next]
      /\ Child = Asked(n) /\ Child \in Module
  BY Asking
<1>3. /\ Cur = frames[n].mod /\ Top = frames[n] /\ n \in DOMAIN frames /\ Cur \in Module
      /\ Top.next \in Nat
  BY <1>2, Calling
<1>4. \A i \in DOMAIN frames : frames[i].mod = Cur => i = n
  BY <1>2, Stands DEF Walk
<1>5. /\ Len(frames') = n /\ DOMAIN frames' = DOMAIN frames
      /\ \A i \in DOMAIN frames : frames'[i].mod = frames[i].mod
      /\ \A i \in DOMAIN frames : i # n => frames'[i] = frames[i]
      /\ frames'[n].next = Top.next + 1
  BY <1>2, AdvanceShape
<1>6. /\ anc \in [Module -> Nat] /\ anc' \in [Module -> Nat]
      /\ \A x \in Module : x # Cur => anc'[x] = anc[x]
      /\ anc'[Cur] <= anc[Cur]
      /\ status[Child] = s => anc'[Cur] <= anc[Child]
  BY MergeShape DEF EvalTypes
<1>7. Child \in Range(stack) => status[Child] = s
  OBVIOUS
<1>8. stack' = stack /\ requests' = requests
  OBVIOUS
<1> HIDE DEF n
<1>9. ASSUME NEW x \in Module, NEW r \in DOMAIN requests[x],
             \A i \in DOMAIN frames' : frames'[i].mod = x => r < frames'[i].next
      PROVE  Walked(x, r) \/ (x = Cur /\ r = Top.next)
  <2>1. CASE x = Cur
    <3>1. r < Top.next + 1 /\ r \in Int
      BY <1>1, <1>3, <1>5, <1>9, <2>1
    <3>2. CASE r < Top.next
      BY <3>2, <2>1, <1>3, <1>4 DEF Walked
    <3> QED BY <3>1, <3>2, <2>1, <1>3
  <2>2. CASE x # Cur
    <3>1. ASSUME NEW i \in DOMAIN frames, frames[i].mod = x PROVE r < frames[i].next
      <4>1. i # n
        BY <3>1, <2>2, <1>3
      <4> QED BY <4>1, <3>1, <1>5, <1>9
    <3> QED BY <3>1 DEF Walked
  <2> QED BY <2>1, <2>2
<1>10. Low'
  <2> SUFFICES ASSUME NEW k \in DOMAIN stack, NEW p \in DOMAIN stack, NEW r \in DOMAIN requests[stack[k]],
                      \A i \in DOMAIN frames' : frames'[i].mod = stack[k] => r < frames'[i].next,
                      requests[stack[k]][r] = stack[p]
               PROVE  anc'[stack[k]] <= p
    BY <1>8 DEF Low, Walked
  <2>1. stack[k] \in Module /\ anc'[stack[k]] <= anc[stack[k]] /\ p \in Nat
    BY <1>1, <1>6
  <2>2. CASE Walked(stack[k], r)
    <3>1. anc[stack[k]] <= p
      BY <2>2 DEF Low
    <3> QED BY <3>1, <2>1, <1>6
  <2>3. CASE stack[k] = Cur /\ r = Top.next
    <3>1. Child = stack[p]
      BY <2>3, <1>2
    <3>2. anc'[Cur] <= anc[Child]
      BY <3>1, <1>6, <1>7 DEF Range
    <3>3. anc[Child] \in 1..p
      BY <3>1 DEF Walk, Lowered
    <3> QED BY <3>2, <3>3, <2>1, <2>3, <1>6
  <2> QED BY <2>1, <2>2, <2>3, <1>9
<1>11. Merged'
  <2> SUFFICES ASSUME NEW i \in DOMAIN frames, NEW p \in DOMAIN stack, NEW k \in DOMAIN stack,
                      stack[p] = frames[i].mod, p < k,
                      i < n => \A q \in DOMAIN stack : stack[q] = frames'[i + 1].mod => k < q
               PROVE  anc'[stack[p]] <= anc'[stack[k]]
    BY <1>5, <1>8 DEF Merged, Below
  <2>1. Below(i, k)
    <3> SUFFICES ASSUME i < n, NEW q \in DOMAIN stack, stack[q] = frames[i + 1].mod PROVE k < q
      BY DEF Below, n
    <3>1. i + 1 \in DOMAIN frames
      BY <1>1
    <3> QED BY <3>1, <1>5
  <2>2. anc[stack[p]] <= anc[stack[k]] \/ Unmerged(i, p, k)
    BY <2>1 DEF Merged
  <2>3. stack[k] # Cur
    <3> SUFFICES ASSUME stack[k] = Cur PROVE FALSE
      OBVIOUS
    <3>1. CASE i = n
      BY <3>1, <1>1, <1>3
    <3>2. CASE i # n
      <4>1. i < n /\ i + 1 \in DOMAIN frames
        BY <3>2, <1>1
      <4>2. PICK q \in DOMAIN stack : stack[q] = frames[i + 1].mod
        BY <4>1 DEF Walk, Standing
      <4>3. k < q
        BY <4>1, <4>2, <1>5
      <4>4. i + 1 < n => q < k
        BY <4>1, <4>2, <1>3, n \in DOMAIN frames DEF Walk, Standing
      <4>5. i + 1 = n => q = k
        BY <4>2, <1>1, <1>3
      <4> QED BY <4>1, <4>3, <4>4, <4>5, <1>1
    <3> QED BY <3>1, <3>2
  <2>4. anc'[stack[k]] = anc[stack[k]] /\ anc'[stack[p]] <= anc[stack[p]]
        /\ anc[stack[p]] \in Nat /\ anc'[stack[p]] \in Nat /\ anc[stack[k]] \in Nat
    BY <2>3, <1>1, <1>6
  <2>5. CASE anc[stack[p]] <= anc[stack[k]]
    BY <2>4, <2>5
  <2>6. CASE Unmerged(i, p, k)
    <3>1. PICK q \in DOMAIN stack : i = n /\ stack[q] = Asked(i) /\ anc[stack[q]] <= anc[stack[k]]
      BY <2>6 DEF Unmerged, n
    <3>2. stack[q] = Child /\ status[Child] = s
      BY <3>1, <1>2, <1>7 DEF Range
    <3>3. anc'[Cur] <= anc[Child] /\ anc[Child] \in Nat
      BY <3>2, <1>2, <1>6
    <3>4. stack[p] = Cur
      BY <3>1, <1>3
    <3> QED BY <3>1, <3>2, <3>3, <3>4, <2>4
  <2> QED BY <2>2, <2>5, <2>6
<1> QED BY <1>10, <1>11

LEMMA MergeLinks ==
  ASSUME EvalTypes, Walk, Unfinished, LinkInv, mode = "link", AtRequest, status[Child] # "unlinked",
         MergeAncestor("linking"), frames' = Advanced, UNCHANGED <<stack, status, requests>>
  PROVE  LinkInv'
<1> DEFINE n == Len(frames)
<1>1. /\ n \in Nat /\ DOMAIN frames = 1..n
      /\ \A k \in DOMAIN stack : stack[k] \in Module
      /\ \A i \in DOMAIN frames : frames[i].mod \in Module
      /\ \A x \in Module : \A r \in DOMAIN requests[x] : r \in Int /\ requests[x][r] \in Module
      /\ \A k, l \in DOMAIN stack : stack[k] = stack[l] => k = l
      /\ DOMAIN stack = 1..Len(stack) /\ Len(stack) \in Nat
  BY EvalRanges
<1>2. /\ frames # <<>> /\ Top.next \in DOMAIN requests[Cur] /\ Child = requests[Cur][Top.next]
      /\ Child = Asked(n) /\ Child \in Module
  BY Asking
<1>3. /\ Cur = frames[n].mod /\ Top = frames[n] /\ n \in DOMAIN frames /\ Cur \in Module
      /\ Top.next \in Nat
  BY <1>2, Calling
<1>4. \A i \in DOMAIN frames : frames[i].mod = Cur => i = n
  BY <1>2, Stands DEF Walk
<1>5. /\ Len(frames') = n /\ DOMAIN frames' = DOMAIN frames
      /\ \A i \in DOMAIN frames : frames'[i].mod = frames[i].mod
      /\ \A i \in DOMAIN frames : i # n => frames'[i] = frames[i]
      /\ frames'[n].next = Top.next + 1
  BY <1>2, AdvanceShape
<1>6. /\ anc \in [Module -> Nat] /\ anc' \in [Module -> Nat]
      /\ \A x \in Module : x # Cur => anc'[x] = anc[x]
      /\ anc'[Cur] <= anc[Cur]
      /\ status[Child] = "linking" => anc'[Cur] <= anc[Child]
  BY MergeShape DEF EvalTypes
<1>7. Child \in Range(stack) => status[Child] = "linking"
  BY <1>2 DEF Unfinished
<1>8. stack' = stack /\ status' = status /\ requests' = requests
  OBVIOUS
<1> HIDE DEF n
<1>9. ASSUME NEW x \in Module, NEW r \in DOMAIN requests[x],
             \A i \in DOMAIN frames' : frames'[i].mod = x => r < frames'[i].next
      PROVE  Walked(x, r) \/ (x = Cur /\ r = Top.next)
  <2>1. CASE x = Cur
    <3>1. r < Top.next + 1 /\ r \in Int
      BY <1>1, <1>3, <1>5, <1>9, <2>1
    <3>2. CASE r < Top.next
      BY <3>2, <2>1, <1>3, <1>4 DEF Walked
    <3> QED BY <3>1, <3>2, <2>1, <1>3
  <2>2. CASE x # Cur
    <3>1. ASSUME NEW i \in DOMAIN frames, frames[i].mod = x PROVE r < frames[i].next
      <4>1. i # n
        BY <3>1, <2>2, <1>3
      <4> QED BY <4>1, <3>1, <1>5, <1>9
    <3> QED BY <3>1 DEF Walked
  <2> QED BY <2>1, <2>2
<1>10. Linking'
  <2>1. ASSUME NEW x \in Module, NEW r \in DOMAIN requests[x], status[x] # "unlinked",
               \A i \in DOMAIN frames' : frames'[i].mod = x => r < frames'[i].next
        PROVE  status[requests[x][r]] # "unlinked"
    <3>1. CASE Walked(x, r)
      BY <3>1, <2>1 DEF LinkInv, Linking
    <3>2. CASE x = Cur /\ r = Top.next
      BY <3>2, <1>2
    <3>3. Walked(x, r) \/ (x = Cur /\ r = Top.next)
      BY <1>9, <2>1
    <3> QED BY <3>1, <3>2, <3>3
  <2> QED BY <2>1, <1>8 DEF LinkInv, Linking, Walked
<1>11. Low' /\ Merged'
  BY <1>7, MergeLow DEF LinkInv
<1> QED BY <1>10, <1>11 DEF LinkInv

\* Of a call that has been through its requests.
LEMMA EndWalked ==
  ASSUME EvalTypes, Walk, AtEnd
  PROVE  \A r \in DOMAIN requests[Cur] : Walked(Cur, r)
<1>1. frames # <<>> /\ Top.next > Len(requests[Cur])
  BY DEF AtEnd
<1>2. Top = frames[Len(frames)] /\ Cur \in Module /\ Top.next \in Nat
  BY <1>1, Calling
<1>3. \A i \in DOMAIN frames : frames[i].mod = Cur => i = Len(frames)
  BY <1>1, Stands DEF Walk
<1> SUFFICES ASSUME NEW r \in DOMAIN requests[Cur] PROVE r < Top.next
  BY <1>2, <1>3 DEF Walked
<1>4. r \in 1..Len(requests[Cur]) /\ Len(requests[Cur]) \in Nat
  BY <1>2, EvalRanges
<1> QED BY <1>1, <1>2, <1>4

\* A call that has returned leaves the same requests walked.
LEMMA ReturnWalked ==
  ASSUME EvalTypes, Walk, AtEnd, frames' = Returned, NEW x \in Module, NEW r \in DOMAIN requests[x],
         \A i \in DOMAIN frames' : frames'[i].mod = x => r < frames'[i].next
  PROVE  Walked(x, r)
<1>1. frames # <<>>
  BY DEF AtEnd
<1>2. /\ DOMAIN frames' = 1..(Len(frames) - 1)
      /\ \A i \in DOMAIN frames' : frames'[i] = frames[i]
      /\ DOMAIN frames = 1..Len(frames) /\ Len(frames) \in Nat /\ Cur = frames[Len(frames)].mod
  BY <1>1, ReturnShape, Calling, EvalRanges
<1>3. CASE x = Cur
  BY <1>3, EndWalked
<1>4. CASE x # Cur
  <2>1. ASSUME NEW i \in DOMAIN frames, frames[i].mod = x PROVE r < frames[i].next
    <3>1. i # Len(frames)
      BY <2>1, <1>2, <1>4
    <3>2. i \in DOMAIN frames'
      BY <3>1, <1>2
    <3> QED BY <3>2, <2>1, <1>2
  <2> QED BY <2>1 DEF Walked
<1> QED BY <1>3, <1>4

\* The call below has yet to merge what returns to it.
LEMMA ReturnLow ==
  ASSUME EvalTypes, Walk, Low, Merged, AtEnd, ~IsRoot, frames' = Returned,
         UNCHANGED <<stack, anc, requests>>
  PROVE  Low' /\ Merged'
<1> DEFINE n == Len(frames)
<1>1. /\ n \in Nat /\ DOMAIN frames = 1..n
      /\ \A k \in DOMAIN stack : stack[k] \in Module
      /\ \A k, l \in DOMAIN stack : stack[k] = stack[l] => k = l
      /\ DOMAIN stack = 1..Len(stack) /\ Len(stack) \in Nat
  BY EvalRanges
<1>2. frames # <<>> /\ Top.next > Len(requests[Cur])
  BY DEF AtEnd
<1>3. Cur = frames[n].mod /\ Top = frames[n] /\ n \in DOMAIN frames /\ Cur \in Module
  BY <1>2, Calling
<1>4. /\ Len(frames') = n - 1 /\ DOMAIN frames' = 1..(n - 1)
      /\ \A i \in DOMAIN frames' : frames'[i] = frames[i] /\ i \in DOMAIN frames /\ i # n
  BY <1>2, ReturnShape
<1>5. stack' = stack /\ requests' = requests /\ anc' = anc
  OBVIOUS
<1>6. anc \in [Module -> Nat]
  BY DEF EvalTypes
<1> HIDE DEF n
<1>7. Low'
  <2> SUFFICES ASSUME NEW k \in DOMAIN stack, NEW p \in DOMAIN stack, NEW r \in DOMAIN requests[stack[k]],
                      \A i \in DOMAIN frames' : frames'[i].mod = stack[k] => r < frames'[i].next,
                      requests[stack[k]][r] = stack[p]
               PROVE  anc[stack[k]] <= p
    BY <1>5 DEF Low, Walked
  <2>1. Walked(stack[k], r)
    BY <1>1, ReturnWalked
  <2> QED BY <2>1 DEF Low
<1>8. Merged'
  <2> SUFFICES ASSUME NEW i \in DOMAIN frames', NEW p \in DOMAIN stack, NEW k \in DOMAIN stack,
                      stack[p] = frames[i].mod, p < k,
                      i < n - 1 => \A q \in DOMAIN stack : stack[q] = frames'[i + 1].mod => k < q
               PROVE  \/ anc[stack[p]] <= anc[stack[k]]
                      \/ /\ i = n - 1 /\ frames[i].next <= Len(requests[frames[i].mod])
                         /\ \E q \in DOMAIN stack : /\ stack[q] = requests[frames[i].mod][frames[i].next]
                                                    /\ p < q /\ q <= k /\ anc[stack[q]] <= anc[stack[k]]
    BY <1>4, <1>5 DEF Merged, Below, Unmerged, Asked
  <2>1. i \in DOMAIN frames /\ i < n /\ i + 1 \in DOMAIN frames
    BY <1>1, <1>4
  <2>2. CASE Below(i, k)
    <3>1. anc[stack[p]] <= anc[stack[k]] \/ Unmerged(i, p, k)
      BY <2>1, <2>2 DEF Merged
    <3>2. ~Unmerged(i, p, k)
      BY <2>1, <1>1 DEF Unmerged, n
    <3> QED BY <3>1, <3>2
  <2>3. CASE ~Below(i, k)
    <3>1. PICK q \in DOMAIN stack : stack[q] = frames[i + 1].mod /\ ~(k < q)
      BY <2>3 DEF Below
    <3>2. i = n - 1
      <4> SUFFICES ASSUME i < n - 1 PROVE FALSE
        BY <2>1, <1>1
      <4>1. i + 1 \in DOMAIN frames' /\ frames'[i + 1] = frames[i + 1]
        BY <1>1, <1>4
      <4> QED BY <4>1, <3>1
    <3>3. stack[q] = Cur /\ q <= k
      BY <3>1, <3>2, <1>1, <1>3
    <3>4. frames[i].next <= Len(requests[frames[i].mod]) /\ Asked(i) = frames[i + 1].mod
      BY <2>1 DEF Walk, Nested, n
    <3>5. p < q
      BY <2>1, <3>1, <1>1 DEF Walk, Standing
    <3>6. anc[stack[q]] <= anc[stack[k]]
      <4>1. CASE q = k
        BY <4>1, <1>1, <1>6
      <4>2. CASE q < k
        <5>1. Below(n, k)
          BY <1>1 DEF Below, n
        <5>2. ~Unmerged(n, q, k)
          BY <1>2, <1>3, <2>1, <1>1, EvalRanges DEF Unmerged
        <5> QED BY <5>1, <5>2, <4>2, <3>3, <1>3 DEF Merged
      <4> QED BY <4>1, <4>2, <3>3, <1>1
    <3> QED BY <3>1, <3>2, <3>3, <3>4, <3>5, <3>6 DEF Asked
  <2> QED BY <2>2, <2>3
<1> QED BY <1>7, <1>8

LEMMA ReturnLinks ==
  ASSUME EvalTypes, Walk, LinkInv, AtEnd, ~IsRoot, frames' = Returned,
         UNCHANGED <<stack, anc, status, requests>>
  PROVE  LinkInv'
<1>1. status' = status /\ requests' = requests
  OBVIOUS
<1>2. Linking'
  <2>1. ASSUME NEW x \in Module, NEW r \in DOMAIN requests[x], status[x] # "unlinked",
               \A i \in DOMAIN frames' : frames'[i].mod = x => r < frames'[i].next
        PROVE  status[requests[x][r]] # "unlinked"
    <3>1. Walked(x, r)
      BY <2>1, ReturnWalked
    <3> QED BY <3>1, <2>1 DEF LinkInv, Linking
  <2> QED BY <2>1, <1>1 DEF LinkInv, Linking, Walked
<1>3. Low' /\ Merged'
  BY ReturnLow DEF LinkInv
<1> QED BY <1>2, <1>3 DEF LinkInv

\* Within a component, or above it, nothing that was walked leads below it.
LEMMA ComponentLow ==
  ASSUME EvalTypes, Walk, Low, Merged, AtEnd, IsRoot,
         NEW k \in DOMAIN stack, k >= Index(Cur), NEW r \in DOMAIN requests[stack[k]],
         NEW q \in DOMAIN stack, requests[stack[k]][r] = stack[q]
  PROVE  Walked(stack[k], r) /\ q >= Index(Cur)
<1> DEFINE d == requests[stack[k]][r]
           p == Index(Cur)
           n == Len(frames)
<1>1. frames # <<>> /\ Top.next > Len(requests[Cur])
  BY DEF AtEnd
<1>2. Cur = frames[n].mod /\ Top = frames[n] /\ n \in DOMAIN frames /\ Cur \in Module /\ Top.next \in Nat
  BY <1>1, Calling
<1>3. p \in DOMAIN stack /\ stack[p] = Cur
  BY <1>1, Stands DEF Walk
<1>4. /\ n \in Nat /\ DOMAIN frames = 1..n /\ DOMAIN stack = 1..Len(stack) /\ Len(stack) \in Nat
      /\ \A l \in DOMAIN stack : stack[l] \in Module
      /\ \A l, j \in DOMAIN stack : stack[l] = stack[j] => l = j
  BY EvalRanges
<1>5. stack[k] \in Module /\ d \in Module
  BY <1>4, EvalRanges
<1>6. anc[Cur] = p /\ anc \in [Module -> Nat]
  BY DEF IsRoot, EvalTypes
<1>0. d = stack[q]
  OBVIOUS
<1> HIDE DEF d, p, n
<1>7. Walked(stack[k], r)
  <2>1. CASE k = p
    BY <2>1, <1>3, EndWalked
  <2>2. CASE k # p
    <3>1. ASSUME NEW i \in DOMAIN frames, frames[i].mod = stack[k] PROVE FALSE
      <4>1. CASE i = n
        BY <4>1, <3>1, <2>2, <1>2, <1>3, <1>4
      <4>2. CASE i < n
        <5>1. k < p
          BY <4>2, <3>1, <1>2, <1>3 DEF Walk, Standing
        <5> QED BY <5>1, <1>3, <1>4 DEF p
      <4> QED BY <4>1, <4>2, <1>4
    <3> QED BY <3>1 DEF Walked
  <2> QED BY <2>1, <2>2
<1>8. anc[stack[k]] <= q
  BY <1>7, <1>0 DEF Low, d
<1>9. p <= anc[stack[k]]
  <2>1. CASE k = p
    BY <2>1, <1>3, <1>4, <1>6
  <2>2. CASE k # p
    <3>1. p < k
      BY <2>2, <1>3, <1>4 DEF p
    <3>2. Below(n, k)
      BY <1>4 DEF Below, n
    <3>3. ~Unmerged(n, p, k)
      BY <1>1, <1>2, EvalRanges DEF Unmerged
    <3>4. anc[stack[p]] <= anc[stack[k]]
      BY <3>1, <3>2, <3>3, <1>2, <1>3 DEF Merged
    <3> QED BY <3>4, <1>3, <1>6
  <2> QED BY <2>1, <2>2
<1>10. q >= p
  BY <1>8, <1>9, <1>3, <1>4, <1>5, <1>6
<1> QED BY <1>7, <1>10 DEF p

\* What the modules of a component lead to is linked, or in it.
LEMMA ComponentLinks ==
  ASSUME EvalTypes, Walk, Unfinished, LinkInv, mode = "link", AtEnd, IsRoot,
         NEW k \in DOMAIN stack, k >= Index(Cur), NEW r \in DOMAIN requests[stack[k]]
  PROVE  LET d == requests[stack[k]][r] IN
           /\ d \in Module /\ status[d] # "unlinked"
           /\ status[d] = "linking" => \E q \in DOMAIN stack : stack[q] = d /\ q >= Index(Cur)
<1> DEFINE d == requests[stack[k]][r]
           p == Index(Cur)
           n == Len(frames)
<1>1. frames # <<>> /\ Top.next > Len(requests[Cur])
  BY DEF AtEnd
<1>2. Cur = frames[n].mod /\ Top = frames[n] /\ n \in DOMAIN frames /\ Cur \in Module /\ Top.next \in Nat
  BY <1>1, Calling
<1>3. p \in DOMAIN stack /\ stack[p] = Cur
  BY <1>1, Stands DEF Walk
<1>4. /\ n \in Nat /\ DOMAIN frames = 1..n /\ DOMAIN stack = 1..Len(stack) /\ Len(stack) \in Nat
      /\ \A l \in DOMAIN stack : stack[l] \in Module
      /\ \A l, q \in DOMAIN stack : stack[l] = stack[q] => l = q
  BY EvalRanges
<1>5. stack[k] \in Module /\ d \in Module
  BY <1>4, EvalRanges
<1>6. anc[Cur] = p /\ anc \in [Module -> Nat]
  BY DEF IsRoot, EvalTypes
<1> HIDE DEF d, p, n
<1>7. Walked(stack[k], r)
  <2>1. CASE k = p
    BY <2>1, <1>3, EndWalked
  <2>2. CASE k # p
    <3>1. ASSUME NEW i \in DOMAIN frames, frames[i].mod = stack[k] PROVE FALSE
      <4>1. CASE i = n
        BY <4>1, <3>1, <2>2, <1>2, <1>3, <1>4
      <4>2. CASE i < n
        <5>1. k < p
          BY <4>2, <3>1, <1>2, <1>3 DEF Walk, Standing
        <5> QED BY <5>1, <1>3, <1>4 DEF p
      <4> QED BY <4>1, <4>2, <1>4
    <3> QED BY <3>1 DEF Walked
  <2> QED BY <2>1, <2>2
<1>8. status[stack[k]] # "unlinked"
  <2>1. stack[k] \in Range(stack)
    BY DEF Range
  <2> QED BY <2>1, <1>5 DEF Unfinished
<1>9. status[d] # "unlinked"
  BY <1>5, <1>7, <1>8 DEF LinkInv, Linking, d
<1>10. ASSUME status[d] = "linking" PROVE \E q \in DOMAIN stack : stack[q] = d /\ q >= p
  <2>1. d \in Range(stack)
    BY <1>5, <1>10 DEF Unfinished
  <2>2. PICK q \in DOMAIN stack : stack[q] = d
    BY <2>1 DEF Range
  <2>3. q >= p
    BY <2>2, ComponentLow DEF LinkInv, d, p
  <2> QED BY <2>2, <2>3
<1> QED BY <1>5, <1>9, <1>10 DEF d, p

\* What is left below a component keeps its order.
LEMMA CloseLow ==
  ASSUME EvalTypes, Walk, Low, Merged, AtEnd, IsRoot,
         NEW done \in [Module -> Status], Close(done), requests' = requests
  PROVE  Low' /\ Merged'
<1> DEFINE n == Len(frames)
           p == Index(Cur)
<1>1. /\ n \in Nat /\ DOMAIN frames = 1..n
      /\ \A k \in DOMAIN stack : stack[k] \in Module
      /\ \A k, l \in DOMAIN stack : stack[k] = stack[l] => k = l
      /\ DOMAIN stack = 1..Len(stack) /\ Len(stack) \in Nat
      /\ \A x \in Module : \A r \in DOMAIN requests[x] : requests[x][r] \in Module
  BY EvalRanges
<1>2. frames # <<>>
  BY DEF AtEnd
<1>3. Cur = frames[n].mod /\ n \in DOMAIN frames /\ Cur \in Module
  BY <1>2, Calling
<1>4. frames' = Returned
  BY DEF Close
<1>5. /\ Len(frames') = n - 1 /\ DOMAIN frames' = 1..(n - 1)
      /\ \A i \in DOMAIN frames' : frames'[i] = frames[i] /\ i \in DOMAIN frames /\ i # n
  BY <1>2, <1>4, ReturnShape
<1>8. /\ p \in DOMAIN stack /\ stack[p] = Cur
      /\ \A k \in DOMAIN stack' : /\ stack'[k] = stack[k] /\ k \in DOMAIN stack /\ k < p
                                  /\ stack[k] \notin Component
      /\ \A m \in Component : \E k \in DOMAIN stack : stack[k] = m /\ k >= p
      /\ \A k \in DOMAIN stack : k >= p => stack[k] \in Component
      /\ \A m \in Module : m \notin Component => anc'[m] = anc[m]
  BY <1>2, CloseShape
<1> HIDE DEF n, p
<1>9. Low'
  <2> SUFFICES ASSUME NEW k \in DOMAIN stack', NEW q \in DOMAIN stack', NEW r \in DOMAIN requests[stack'[k]],
                      \A i \in DOMAIN frames' : frames'[i].mod = stack'[k] => r < frames'[i].next,
                      requests[stack'[k]][r] = stack'[q]
               PROVE  anc'[stack'[k]] <= q
    BY DEF Low, Walked
  <2>1. k \in DOMAIN stack /\ q \in DOMAIN stack /\ stack'[k] = stack[k] /\ stack'[q] = stack[q]
        /\ anc'[stack[k]] = anc[stack[k]]
    BY <1>1, <1>8
  <2>2. Walked(stack[k], r)
    BY <2>1, <1>1, <1>4, ReturnWalked
  <2> QED BY <2>1, <2>2 DEF Low
<1>10. Merged'
  <2> SUFFICES ASSUME NEW i \in DOMAIN frames', NEW q \in DOMAIN stack', NEW k \in DOMAIN stack',
                      stack'[q] = frames'[i].mod, q < k,
                      i < Len(frames') => \A l \in DOMAIN stack' : stack'[l] = frames'[i + 1].mod => k < l
               PROVE  anc'[stack'[q]] <= anc'[stack'[k]]
    BY DEF Merged, Below
  <2>1. /\ k \in DOMAIN stack /\ q \in DOMAIN stack /\ stack'[k] = stack[k] /\ stack'[q] = stack[q]
        /\ anc'[stack[k]] = anc[stack[k]] /\ anc'[stack[q]] = anc[stack[q]] /\ k < p
    BY <1>1, <1>8
  <2>2. i \in DOMAIN frames /\ frames'[i] = frames[i] /\ i < n /\ i + 1 \in DOMAIN frames
    BY <1>1, <1>5
  <2>3. Below(i, k)
    <3> SUFFICES ASSUME NEW l \in DOMAIN stack, stack[l] = frames[i + 1].mod PROVE k < l
      BY DEF Below
    <3>1. CASE i + 1 = n
      BY <3>1, <2>1, <1>1, <1>3, <1>8
    <3>2. CASE i + 1 # n
      <4>1. i < Len(frames') /\ i + 1 \in DOMAIN frames' /\ frames'[i + 1] = frames[i + 1]
        BY <3>2, <2>2, <1>1, <1>5
      <4>2. Standing'
        BY <1>2, CloseWalk DEF Walk
      <4>3. PICK o \in DOMAIN stack' : stack'[o] = frames'[i + 1].mod
        BY <4>1, <4>2 DEF Standing
      <4>4. o = l
        BY <4>1, <4>3, <1>1, <1>8
      <4> QED BY <4>1, <4>3, <4>4
    <3> QED BY <3>1, <3>2
  <2>4. ~Unmerged(i, q, k)
    BY <2>2, <1>1 DEF Unmerged, n
  <2>5. anc[stack[q]] <= anc[stack[k]]
    BY <2>1, <2>2, <2>3, <2>4 DEF Merged
  <2> QED BY <2>1, <2>5
<1> QED BY <1>9, <1>10

LEMMA CloseLinks ==
  ASSUME EvalTypes, Walk, Unfinished, LinkInv, mode = "link", AtEnd, IsRoot,
         Close([m \in Module |-> "linked"]), requests' = requests
  PROVE  LinkInv'
<1> DEFINE n == Len(frames)
           p == Index(Cur)
           done == [m \in Module |-> "linked"]
<1>1. /\ n \in Nat /\ DOMAIN frames = 1..n
      /\ \A k \in DOMAIN stack : stack[k] \in Module
      /\ \A k, l \in DOMAIN stack : stack[k] = stack[l] => k = l
      /\ DOMAIN stack = 1..Len(stack) /\ Len(stack) \in Nat
      /\ \A x \in Module : \A r \in DOMAIN requests[x] : requests[x][r] \in Module
  BY EvalRanges
<1>2. frames # <<>>
  BY DEF AtEnd
<1>3. Cur = frames[n].mod /\ n \in DOMAIN frames /\ Cur \in Module
  BY <1>2, Calling
<1>4. frames' = Returned
  BY DEF Close
<1>5. /\ Len(frames') = n - 1 /\ DOMAIN frames' = 1..(n - 1)
      /\ \A i \in DOMAIN frames' : frames'[i] = frames[i] /\ i \in DOMAIN frames /\ i # n
  BY <1>2, <1>4, ReturnShape
<1>6. done \in [Module -> Status] /\ \A m \in Module : done[m] = "linked"
  BY DEF Status
<1> HIDE DEF done
<1>7. Close(done)
  BY DEF done
<1>8. /\ p \in DOMAIN stack /\ stack[p] = Cur
      /\ \A k \in DOMAIN stack' : /\ stack'[k] = stack[k] /\ k \in DOMAIN stack /\ k < p
                                  /\ stack[k] \notin Component
      /\ \A m \in Component : \E k \in DOMAIN stack : stack[k] = m /\ k >= p
      /\ \A k \in DOMAIN stack : k >= p => stack[k] \in Component
      /\ \A m \in Module : m \in Component => status'[m] = "linked"
      /\ \A m \in Module : m \notin Component => status'[m] = status[m] /\ anc'[m] = anc[m]
  BY <1>2, <1>6, <1>7, CloseShape
<1>9. \A m \in Module : m \in Range(stack) <=> status[m] \in {"linking", "evaluating"}
  BY DEF Unfinished
<1> HIDE DEF n, p
<1>10. ASSUME NEW x \in Module, status'[x] # "unlinked" PROVE status[x] # "unlinked"
  <2>1. x \in Component => x \in Range(stack)
    BY <1>8 DEF Range
  <2> QED BY <2>1, <1>8, <1>9, <1>10
<1>11. ASSUME NEW x \in Module, status[x] # "unlinked" PROVE status'[x] # "unlinked"
  BY <1>8, <1>11
<1>12. Linking'
  <2>1. ASSUME NEW x \in Module, NEW r \in DOMAIN requests[x], status'[x] # "unlinked",
               \A i \in DOMAIN frames' : frames'[i].mod = x => r < frames'[i].next
        PROVE  status'[requests[x][r]] # "unlinked"
    <3>1. Walked(x, r)
      BY <2>1, <1>4, ReturnWalked
    <3>2. status[x] # "unlinked"
      BY <2>1, <1>10
    <3>3. status[requests[x][r]] # "unlinked"
      BY <3>1, <3>2 DEF LinkInv, Linking
    <3> QED BY <3>3, <1>1, <1>11
  <2>2. ASSUME NEW x \in Module, NEW r \in DOMAIN requests[x], status'[x] \notin {"unlinked", "linking"}
        PROVE  status'[requests[x][r]] \notin {"unlinked", "linking"}
    <3> DEFINE d == requests[x][r]
    <3>1. d \in Module
      BY <1>1
    <3>2. CASE x \in Component
      <4>1. PICK k \in DOMAIN stack : stack[k] = x /\ k >= p
        BY <3>2, <1>8
      <4>2. /\ status[d] # "unlinked"
            /\ status[d] = "linking" => \E q \in DOMAIN stack : stack[q] = d /\ q >= p
        BY <4>1, ComponentLinks DEF p
      <4>3. status[d] = "linking" => d \in Component
        BY <4>2, <1>8
      <4> QED BY <4>2, <4>3, <3>1, <1>8
    <3>3. CASE x \notin Component
      <4>1. status[x] \notin {"unlinked", "linking"}
        BY <3>3, <2>2, <1>8
      <4>2. status[d] \notin {"unlinked", "linking"}
        BY <4>1 DEF LinkInv, Linking
      <4> QED BY <4>2, <3>1, <1>8
    <3> QED BY <3>2, <3>3
  <2> QED BY <2>1, <2>2 DEF Linking, Walked
<1>13. Low' /\ Merged'
  BY <1>6, <1>7, CloseLow DEF LinkInv
<1> QED BY <1>12, <1>13 DEF LinkInv

\* A failed link leaves only modules that were linked before, with all they
\* lead to.
LEMMA FailCloses ==
  ASSUME EvalTypes, Unfinished, LinkInv, mode = "link", Unwind("unlinked"), requests' = requests
  PROVE  Closed'
<1>1. status' = [m \in Module |-> IF m \in Range(stack) THEN "unlinked" ELSE status[m]]
  BY DEF Unwind
<1>2. \A m \in Module : m \in Range(stack) <=> status[m] \in {"linking", "evaluating"}
  BY DEF Unfinished
<1>3. \A m \in Module : status[m] # "evaluating"
  BY DEF Unfinished
<1> SUFFICES ASSUME NEW x \in Module, NEW r \in DOMAIN requests[x], status'[x] # "unlinked"
             PROVE  status'[requests[x][r]] # "unlinked"
  BY DEF Closed
<1>4. requests[x][r] \in Module
  BY EvalRanges
<1>5. status[x] \notin {"unlinked", "linking"}
  BY <1>1, <1>2
<1>6. status[requests[x][r]] \notin {"unlinked", "linking"}
  BY <1>5 DEF LinkInv, Linking
<1> QED BY <1>1, <1>2, <1>3, <1>4, <1>6

LEMMA LinkedCloses ==
  ASSUME EvalTypes, LinkInv, frames = <<>>
  PROVE  Closed
<1>1. \A x \in Module : \A r \in DOMAIN requests[x] : Walked(x, r)
  BY EvalRanges DEF Walked
<1> QED BY <1>1 DEF LinkInv, Linking, Closed

LEMMA ClosedStays ==
  ASSUME EvalTypes, Closed, requests' = requests,
         \A m \in Module : status'[m] = "unlinked" <=> status[m] = "unlinked"
  PROVE  Closed'
BY EvalRanges DEF Closed

-----------------------------------------------------------------------------
(* What an action keeps of the rest of the invariant. *)

\* A step of a walk that neither evaluates nor ends anything.
LEMMA WalkKeeps ==
  ASSUME EvalTypes, Begun, Waiting,
         UNCHANGED <<root, body, parents, todo, order, pending, error>>,
         \A x \in Module : status'[x] \in Started <=> status[x] \in Started,
         \A x \in Module : status[x] = "evaluating" => status'[x] = "evaluating",
         \A i \in DOMAIN frames : status[frames[i].mod] = "evaluating" =>
           \E j \in DOMAIN frames' : frames'[j].mod = frames[i].mod
  PROVE  Begun' /\ Waiting'
<1>1. /\ root' = root /\ body' = body /\ parents' = parents /\ todo' = todo /\ order' = order
      /\ pending' = pending /\ error' = error
  OBVIOUS
<1>2. /\ \A x \in Module : \A p \in Range(parents[x]) : p \in Module
      /\ todo \subseteq Module
  <2>1. \A x \in Module : parents[x] \in Seq(Module)
    BY DEF EvalTypes
  <2>2. todo \subseteq Module
    BY DEF EvalTypes
  <2> QED BY <2>1, <2>2, ElementOfSeq, LenProperties DEF Range
<1>3. Begun'
  <2>1. ASSUME NEW m \in Module, status'[m] \in Started
        PROVE  root[m] \in Module /\ status'[root[m]] \in Started
    BY <2>1 DEF Begun
  <2>2. ASSUME NEW m \in Module, body[m] = "running" PROVE status'[m] \in Started \cup {"evaluating"}
    BY <2>2 DEF Begun
  <2>3. ASSUME NEW m \in Module, NEW p \in Range(parents[m])
        PROVE  status'[p] \in Started \cup {"evaluating"}
    BY <1>2, <2>3 DEF Begun
  <2>4. ASSUME NEW m \in todo PROVE status'[m] \in Started
    BY <1>2, <2>4 DEF Begun
  <2> QED BY <1>1, <2>1, <2>2, <2>3, <2>4 DEF Begun
<1>4. Waiting'
  <2>1. ASSUME NEW m \in Module, NEW p \in Range(parents[m])
        PROVE  \/ p \in Range(order)
               \/ status'[p] \in Started /\ error[root[p]]
               \/ status'[p] = "evaluating" /\ pending[p] > 0 /\ \E i \in DOMAIN frames' : frames'[i].mod = p
    <3>1. p \in Module /\ Ordered(p)
      BY <1>2 DEF Waiting
    <3> QED BY <3>1 DEF Ordered
  <2>2. ASSUME NEW m \in Module, status'[m] \notin Started PROVE pending[m] >= 0
    BY <2>2 DEF Waiting
  <2> QED BY <1>1, <2>1, <2>2 DEF Waiting, Ordered
<1> QED BY <1>3, <1>4

LEMMA OpenUnfinished ==
  ASSUME EvalTypes, NEW m \in Module, NEW s \in Status, Open(m, s), m \notin Range(stack),
         s \in {"linking", "evaluating"},
         \A x \in Module : x \in Range(stack) <=> status[x] \in {"linking", "evaluating"}
  PROVE  /\ \A x \in Module : x \in Range(stack') <=> status'[x] \in {"linking", "evaluating"}
         /\ \A i \in DOMAIN frames : \E j \in DOMAIN frames' : frames'[j].mod = frames[i].mod
         /\ frames # <<>> => frames'[1] = frames[1]
         /\ frames = <<>> => frames'[1].mod = m
<1>1. /\ Len(stack) \in Nat /\ DOMAIN stack = 1..Len(stack) /\ Len(frames) \in Nat /\ DOMAIN frames = 1..Len(frames)
      /\ frames = <<>> <=> Len(frames) = 0
      /\ \A k \in DOMAIN stack : stack[k] \in Module
  BY EvalRanges
<1>2. /\ DOMAIN stack' = 1..(Len(stack) + 1)
      /\ \A k \in DOMAIN stack : stack'[k] = stack[k]
      /\ stack'[Len(stack) + 1] = m
      /\ DOMAIN frames' = 1..(Len(frames) + 1)
      /\ \A i \in DOMAIN frames : frames'[i] = frames[i]
      /\ frames'[Len(frames) + 1].mod = m
      /\ status'[m] = s
      /\ \A x \in Module : x # m => status'[x] = status[x]
  BY OpenShape
<1>3. ASSUME NEW x \in Module PROVE x \in Range(stack') <=> status'[x] \in {"linking", "evaluating"}
  <2>1. x \in Range(stack') <=> x = m \/ x \in Range(stack)
    <3>1. ASSUME x \in Range(stack') PROVE x = m \/ x \in Range(stack)
      <4>1. PICK k \in DOMAIN stack' : stack'[k] = x
        BY <3>1 DEF Range
      <4> QED BY <4>1, <1>1, <1>2 DEF Range
    <3>2. ASSUME x \in Range(stack) PROVE x \in Range(stack')
      <4>1. PICK k \in DOMAIN stack : stack[k] = x
        BY <3>2 DEF Range
      <4>2. k \in DOMAIN stack' /\ stack'[k] = x
        BY <4>1, <1>1, <1>2
      <4> QED BY <4>2 DEF Range
    <3>3. m \in Range(stack')
      <4>1. Len(stack) + 1 \in DOMAIN stack'
        BY <1>1, <1>2
      <4> QED BY <4>1, <1>2 DEF Range
    <3> QED BY <3>1, <3>2, <3>3
  <2>2. CASE x = m
    BY <2>1, <2>2, <1>2
  <2>3. CASE x # m
    BY <2>1, <2>3, <1>2
  <2> QED BY <2>2, <2>3
<1>4. \A i \in DOMAIN frames : \E j \in DOMAIN frames' : frames'[j].mod = frames[i].mod
  <2> TAKE i \in DOMAIN frames
  <2>1. i \in DOMAIN frames' /\ frames'[i] = frames[i]
    BY <1>1, <1>2
  <2> QED BY <2>1
<1>5. frames # <<>> => frames'[1] = frames[1]
  BY <1>1, <1>2
<1>6. frames = <<>> => frames'[1].mod = m
  BY <1>1, <1>2
<1> QED BY <1>3, <1>4, <1>5, <1>6

\* The variables that linking leaves alone keep their ranges.
LEMMA LinkTypes ==
  ASSUME EvalTypes, UNCHANGED <<requests, parents, root, body, todo, order, pending, error>>,
         status' \in [Module -> Status], stack' \in Seq(Module), IsInjective(stack'),
         anc' \in [Module -> Nat], frames' \in Seq(Call), goal' \in Module \/ (goal' = goal /\ mode = mode'),
         mode' \in {"idle", "link", "eval"}
  PROVE  EvalTypes'
BY DEF EvalTypes

LEMMA ImportInv ==
  ASSUME EvalInv, NEW m \in Module, Import(m)
  PROVE  EvalInv'
<1>1. /\ EvalTypes /\ Unfinished /\ Begun /\ Waiting /\ Closed
      /\ mode = "idle" /\ mode' = "link" /\ goal' = m /\ frames = <<>> /\ stack = <<>>
  BY DEF EvalInv, Import, Unfinished
<1>2. /\ requests' = requests /\ UNCHANGED <<parents, root, body, todo, order, pending, error>>
  BY DEF Import, program, deps, bodies
<1>3. \/ status[m] = "unlinked" /\ Open(m, "linking")
      \/ status[m] # "unlinked" /\ UNCHANGED <<status, stack, anc, frames>>
  BY DEF Import
<1>4. m \notin Range(stack) /\ "linking" \in Status
  BY <1>1, EvalRanges DEF Range, Status
<1>5. \A x \in Module : status[x] \notin {"linking", "evaluating"}
  BY <1>1 DEF Unfinished
<1>6. LinkInv'
  BY <1>1, <1>2, <1>3, <1>5, ImportLinks
<1>7. CASE status[m] = "unlinked" /\ Open(m, "linking")
  <2>1. /\ stack' \in Seq(Module) /\ IsInjective(stack') /\ frames' \in Seq(Call)
        /\ anc' \in [Module -> Nat] /\ status' \in [Module -> Status]
        /\ status'[m] = "linking" /\ \A x \in Module : x # m => status'[x] = status[x]
    BY <1>1, <1>4, <1>7, OpenShape
  <2>2. EvalTypes'
    BY <2>1, <1>1, <1>2, LinkTypes
  <2>3. Walk
    BY <1>1, EvalRanges DEF Walk, Grounded, Standing, Nested, Lowered
  <2>4. Walk'
    BY <2>3, <1>1, <1>2, <1>4, <1>7, OpenWalk
  <2>5. /\ \A x \in Module : x \in Range(stack') <=> status'[x] \in {"linking", "evaluating"}
        /\ \A i \in DOMAIN frames : \E j \in DOMAIN frames' : frames'[j].mod = frames[i].mod
    BY <1>1, <1>4, <1>7, OpenUnfinished DEF Unfinished
  <2>6. Unfinished'
    BY <1>1, <1>5, <2>1, <2>5 DEF Unfinished
  <2>7. Begun' /\ Waiting'
    <3>1. \A x \in Module : status'[x] \in Started <=> status[x] \in Started
      BY <1>7, <2>1 DEF Started
    <3> QED BY <3>1, <1>1, <1>2, <1>5, <2>5, WalkKeeps
  <2> QED BY <2>2, <2>4, <2>6, <2>7, <1>1, <1>6 DEF EvalInv, LinkInv
<1>8. CASE status[m] # "unlinked" /\ UNCHANGED <<status, stack, anc, frames>>
  <2>1. status' = status /\ stack' = stack /\ anc' = anc /\ frames' = frames
    BY <1>8
  <2>2. EvalTypes'
    BY <2>1, <1>1, <1>2 DEF EvalTypes
  <2>3. Walk'
    <3>1. DOMAIN frames' = 1..0 /\ DOMAIN stack' = 1..0 /\ frames' = <<>> /\ stack' = <<>>
      BY <1>1, <2>1, EvalRanges
    <3> QED BY <3>1 DEF Walk, Grounded, Standing, Nested, Lowered
  <2>4. Unfinished'
    BY <1>1, <1>5, <1>8, <2>1 DEF Unfinished
  <2>5. Begun' /\ Waiting'
    <3>1. \A i \in DOMAIN frames : \E j \in DOMAIN frames' : frames'[j].mod = frames[i].mod
      BY <2>1
    <3> QED BY <2>1, <3>1, <1>1, <1>2, WalkKeeps
  <2> QED BY <2>2, <2>3, <2>4, <2>5, <1>1, <1>6 DEF EvalInv, LinkInv
<1> QED BY <1>3, <1>7, <1>8

LEMMA LinkRequestInv ==
  ASSUME EvalInv, LinkRequest
  PROVE  EvalInv'
<1>1. /\ EvalTypes /\ Unfinished /\ Begun /\ Waiting /\ Walk /\ LinkInv
      /\ mode = "link" /\ mode' = mode /\ goal' = goal
      /\ AtRequest /\ status[Child] = "unlinked" /\ Open(Child, "linking")
  BY DEF EvalInv, LinkRequest, LinkInv
<1>2. /\ requests' = requests /\ UNCHANGED <<parents, root, body, todo, order, pending, error>>
  BY DEF LinkRequest, program, deps, bodies
<1>3. Child \in Module /\ "linking" \in Status
  BY <1>1, Asking DEF Status
<1>4. Child \notin Range(stack)
  BY <1>1, <1>3 DEF Unfinished
<1>5. /\ stack' \in Seq(Module) /\ IsInjective(stack') /\ frames' \in Seq(Call)
      /\ anc' \in [Module -> Nat] /\ status' \in [Module -> Status]
      /\ status'[Child] = "linking" /\ \A x \in Module : x # Child => status'[x] = status[x]
  BY <1>1, <1>3, <1>4, OpenShape
<1>6. EvalTypes'
  BY <1>1, <1>2, <1>5, LinkTypes
<1>7. Walk'
  BY <1>1, <1>2, <1>3, <1>4, OpenWalk
<1>8. /\ \A x \in Module : x \in Range(stack') <=> status'[x] \in {"linking", "evaluating"}
      /\ \A i \in DOMAIN frames : \E j \in DOMAIN frames' : frames'[j].mod = frames[i].mod
  BY <1>1, <1>3, <1>4, OpenUnfinished DEF Unfinished
<1>9. goal \in Module
  BY <1>1 DEF EvalTypes
<1>10. Unfinished'
  <2>1. status'[goal] # "unlinked"
    BY <1>1, <1>5, <1>9 DEF Unfinished
  <2>2. \A x \in Module : status'[x] # "evaluating"
    BY <1>1, <1>5 DEF Unfinished
  <2> QED BY <1>1, <1>8, <2>1, <2>2 DEF Unfinished
<1>11. \A k \in DOMAIN stack : status[stack[k]] # "unlinked"
  BY <1>1, EvalRanges DEF Unfinished, Range
<1>12. LinkInv'
  BY <1>1, <1>2, <1>4, <1>11, RequestLinks
<1>13. Begun' /\ Waiting'
  <2>1. \A x \in Module : status'[x] \in Started <=> status[x] \in Started
    BY <1>1, <1>5 DEF Started
  <2>2. \A x \in Module : status[x] # "evaluating"
    BY <1>1 DEF Unfinished
  <2> QED BY <2>1, <2>2, <1>1, <1>2, <1>8, WalkKeeps
<1> QED BY <1>1, <1>6, <1>7, <1>10, <1>12, <1>13 DEF EvalInv, LinkInv

LEMMA LinkReturnedInv ==
  ASSUME EvalInv, LinkReturned
  PROVE  EvalInv'
<1>1. /\ EvalTypes /\ Unfinished /\ Begun /\ Waiting /\ Walk /\ LinkInv
      /\ mode = "link" /\ mode' = mode /\ goal' = goal
      /\ AtRequest /\ status[Child] # "unlinked" /\ MergeAncestor("linking") /\ frames' = Advanced
  BY DEF EvalInv, LinkReturned, LinkInv
<1>2. /\ requests' = requests /\ UNCHANGED <<parents, root, body, todo, order, pending, error>>
      /\ status' = status /\ stack' = stack
  BY DEF LinkReturned, program, deps, bodies
<1>3. frames # <<>>
  BY <1>1 DEF AtRequest
<1>4. /\ frames' \in Seq(Call) /\ DOMAIN frames' = DOMAIN frames
      /\ \A i \in DOMAIN frames : frames'[i].mod = frames[i].mod
  BY <1>1, <1>3, AdvanceShape
<1>5. anc' \in [Module -> Nat]
  BY <1>1, MergeShape
<1>6. EvalTypes'
  BY <1>1, <1>2, <1>4, <1>5 DEF EvalTypes
<1>7. Walk'
  BY <1>1, <1>2, MergeWalk
<1>8. LinkInv'
  BY <1>1, <1>2, MergeLinks
<1>9. Unfinished'
  BY <1>1, <1>2 DEF Unfinished
<1>10. Begun' /\ Waiting'
  <2>1. \A i \in DOMAIN frames : \E j \in DOMAIN frames' : frames'[j].mod = frames[i].mod
    BY <1>4
  <2> QED BY <2>1, <1>1, <1>2, WalkKeeps
<1> QED BY <1>1, <1>6, <1>7, <1>8, <1>9, <1>10 DEF EvalInv, LinkInv

LEMMA LinkDoneInv ==
  ASSUME EvalInv, LinkDone
  PROVE  EvalInv'
<1> DEFINE done == [m \in Module |-> "linked"]
<1>1. /\ EvalTypes /\ Unfinished /\ Begun /\ Waiting /\ Walk /\ LinkInv
      /\ mode = "link" /\ mode' = mode /\ goal' = goal
      /\ AtEnd /\ Close(done)
  BY DEF EvalInv, LinkDone, LinkInv
<1>2. /\ requests' = requests /\ UNCHANGED <<parents, root, body, todo, order, pending, error>>
  BY DEF LinkDone, program, deps, bodies
<1>3. frames # <<>> /\ frames' = Returned
  BY <1>1 DEF AtEnd, Close
<1>4. done \in [Module -> Status] /\ \A m \in Module : done[m] = "linked"
  BY DEF Status
<1>5. frames' \in Seq(Call)
  BY <1>1, <1>3, ReturnShape
<1>6. goal \in Module /\ status[goal] # "unlinked" /\ \A x \in Module : status[x] # "evaluating"
  BY <1>1 DEF EvalTypes, Unfinished
<1>7. CASE IsRoot
  <2> HIDE DEF done
  <2>1. /\ stack' \in Seq(Module) /\ IsInjective(stack')
        /\ anc' \in [Module -> Nat] /\ status' \in [Module -> Status]
        /\ \A m \in Component : \E k \in DOMAIN stack : stack[k] = m /\ k >= Index(Cur)
        /\ \A m \in Module : m \in Component => status'[m] = done[m]
        /\ \A m \in Module : m \notin Component => status'[m] = status[m]
        /\ \A m \in Module : m \in Range(stack') <=> m \in Range(stack) /\ m \notin Component
    BY <1>1, <1>3, <1>4, <1>7, CloseShape
  <2>2. EvalTypes'
    BY <1>1, <1>2, <1>5, <2>1, LinkTypes
  <2>3. Walk'
    BY <1>1, <1>2, <1>3, <1>4, <1>7, CloseWalk
  <2>4. LinkInv'
    BY <1>1, <1>2, <1>7, CloseLinks DEF done
  <2>5. \A m \in Module : m \in Component => status[m] = "linking"
    <3> SUFFICES ASSUME NEW m \in Module, m \in Component PROVE status[m] = "linking"
      OBVIOUS
    <3>1. m \in Range(stack)
      BY <2>1 DEF Range
    <3> QED BY <3>1, <1>1, <1>6 DEF Unfinished
  <2>6. Unfinished'
    <3>1. \A m \in Module : m \in Range(stack') <=> status'[m] \in {"linking", "evaluating"}
      BY <1>1, <1>4, <2>1 DEF Unfinished
    <3>2. status'[goal] # "unlinked" /\ \A x \in Module : status'[x] # "evaluating"
      BY <1>4, <1>6, <2>1
    <3> QED BY <3>1, <3>2, <1>1 DEF Unfinished
  <2>7. Begun' /\ Waiting'
    <3>1. \A x \in Module : status'[x] \in Started <=> status[x] \in Started
      BY <1>4, <2>1, <2>5 DEF Started
    <3>2. \A i \in DOMAIN frames : status[frames[i].mod] # "evaluating"
      BY <1>1, <1>6, EvalRanges
    <3> QED BY <3>1, <3>2, <1>1, <1>2, <1>6, WalkKeeps
  <2> QED BY <1>1, <2>2, <2>3, <2>4, <2>6, <2>7 DEF EvalInv, LinkInv
<1>8. CASE ~IsRoot
  <2>1. stack' = stack /\ anc' = anc /\ status' = status
    BY <1>1, <1>8 DEF Close
  <2>2. EvalTypes'
    BY <1>1, <1>2, <1>5, <2>1 DEF EvalTypes
  <2>3. Walk'
    BY <1>1, <1>2, <1>3, <1>8, <2>1, ReturnWalk
  <2>4. LinkInv'
    BY <1>1, <1>2, <1>3, <1>8, <2>1, ReturnLinks
  <2>5. Unfinished'
    BY <1>1, <2>1 DEF Unfinished
  <2>6. Begun' /\ Waiting'
    <3>1. \A i \in DOMAIN frames : status[frames[i].mod] # "evaluating"
      BY <1>1, <1>6, EvalRanges
    <3> QED BY <3>1, <1>1, <1>2, <1>6, <2>1, WalkKeeps
  <2> QED BY <1>1, <2>2, <2>3, <2>4, <2>5, <2>6 DEF EvalInv, LinkInv
<1> QED BY <1>7, <1>8

\* Neither walk leaves anything on the stack when it fails.
LEMMA UnwindShape ==
  ASSUME EvalTypes, NEW s \in Status, Unwind(s)
  PROVE  /\ stack' = <<>> /\ frames' = <<>> /\ mode' = "idle"
         /\ stack' \in Seq(Module) /\ IsInjective(stack') /\ frames' \in Seq(Call)
         /\ anc' \in [Module -> Nat] /\ status' \in [Module -> Status]
         /\ \A m \in Module : m \notin Range(stack')
         /\ \A m \in Module : m \in Range(stack) => status'[m] = s
         /\ \A m \in Module : m \notin Range(stack) => status'[m] = status[m]
<1>1. /\ stack' = <<>> /\ frames' = <<>> /\ mode' = "idle"
      /\ status' = [m \in Module |-> IF m \in Range(stack) THEN s ELSE status[m]]
      /\ anc' = [m \in Module |-> 0]
  BY DEF Unwind
<1>2. \A k \in DOMAIN stack' : FALSE
  BY <1>1
<1>3. IsInjective(stack') /\ \A m \in Module : m \notin Range(stack')
  BY <1>2 DEF IsInjective, Range
<1>4. stack' \in Seq(Module) /\ frames' \in Seq(Call)
  BY <1>1
<1> QED BY <1>1, <1>3, <1>4 DEF EvalTypes

LEMMA LinkFailsInv ==
  ASSUME EvalInv, LinkFails
  PROVE  EvalInv'
<1>1. /\ EvalTypes /\ Unfinished /\ Begun /\ Waiting /\ LinkInv
      /\ mode = "link" /\ goal' = goal /\ Unwind("unlinked")
  BY DEF EvalInv, LinkFails, LinkInv
<1>2. /\ requests' = requests /\ UNCHANGED <<parents, root, body, todo, order, pending, error>>
  BY DEF LinkFails, program, deps, bodies
<1>3. "unlinked" \in Status
  BY DEF Status
<1>4. /\ stack' = <<>> /\ frames' = <<>> /\ mode' = "idle"
      /\ stack' \in Seq(Module) /\ IsInjective(stack') /\ frames' \in Seq(Call)
      /\ anc' \in [Module -> Nat] /\ status' \in [Module -> Status]
      /\ \A m \in Module : m \notin Range(stack')
      /\ \A m \in Module : m \in Range(stack) => status'[m] = "unlinked"
      /\ \A m \in Module : m \notin Range(stack) => status'[m] = status[m]
  BY <1>1, <1>3, UnwindShape
<1>5. goal \in Module /\ \A x \in Module : status[x] # "evaluating"
  BY <1>1 DEF EvalTypes, Unfinished
<1>6. EvalTypes'
  BY <1>1, <1>2, <1>4, <1>5, LinkTypes
<1>7. Closed'
  BY <1>1, <1>2, FailCloses
<1>8. \A m \in Module : m \in Range(stack) => status[m] = "linking"
  BY <1>1, <1>5 DEF Unfinished
<1>9. Unfinished'
  <2>1. \A m \in Module : status'[m] \notin {"linking", "evaluating"}
    BY <1>1, <1>4 DEF Unfinished
  <2> QED BY <1>4, <2>1 DEF Unfinished
<1>10. Begun' /\ Waiting'
  <2>1. \A x \in Module : status'[x] \in Started <=> status[x] \in Started
    BY <1>4, <1>8 DEF Started
  <2>2. \A i \in DOMAIN frames : status[frames[i].mod] # "evaluating"
    BY <1>1, <1>5, EvalRanges
  <2> QED BY <2>1, <2>2, <1>1, <1>2, <1>5, WalkKeeps
<1> QED BY <1>4, <1>6, <1>7, <1>9, <1>10 DEF EvalInv

-----------------------------------------------------------------------------
(* Evaluation. *)

\* A walk is over: nothing is unfinished, and what is linked is closed.
LEMMA WalkOver ==
  ASSUME EvalInv, frames = <<>>, mode \in {"link", "eval"}
  PROVE  stack = <<>> /\ Closed /\ \A m \in Module : status[m] \notin {"linking", "evaluating"}
<1>1. stack = <<>>
  BY DEF EvalInv, Walk, Grounded
<1>2. Closed
  BY LinkedCloses DEF EvalInv, LinkInv
<1>3. \A m \in Module : m \notin Range(stack)
  BY <1>1, EvalRanges DEF Range, EvalInv
<1> QED BY <1>1, <1>2, <1>3 DEF EvalInv, Unfinished

LEMMA WalkEndsInv ==
  ASSUME EvalInv, frames = <<>>, mode \in {"link", "eval"}, mode' = "idle",
         UNCHANGED <<program, status, walk, deps, todo, bodies>>
  PROVE  EvalInv'
<1>1. stack = <<>> /\ Closed /\ \A m \in Module : status[m] \notin {"linking", "evaluating"}
  BY WalkOver
<1>2. /\ requests' = requests /\ parents' = parents /\ root' = root /\ body' = body /\ todo' = todo
      /\ order' = order /\ pending' = pending /\ error' = error /\ status' = status
      /\ stack' = stack /\ frames' = frames /\ anc' = anc /\ goal' = goal
  BY DEF program, walk, deps, bodies
<1>3. EvalTypes'
  BY <1>2 DEF EvalInv, EvalTypes
<1>4. Unfinished'
  BY <1>1, <1>2 DEF EvalInv, Unfinished
<1>5. Begun' /\ Waiting'
  <2>1. \A i \in DOMAIN frames : \E j \in DOMAIN frames' : frames'[j].mod = frames[i].mod
    BY <1>2
  <2> QED BY <1>2, <2>1, WalkKeeps DEF EvalInv
<1>6. Closed'
  BY <1>1, <1>2, ClosedStays DEF EvalInv
<1> QED BY <1>1, <1>2, <1>3, <1>4, <1>5, <1>6 DEF EvalInv

LEMMA EvaluateFirstInv ==
  ASSUME EvalInv, EvaluateFirst
  PROVE  EvalInv'
<1>1. /\ EvalTypes /\ Unfinished /\ Begun /\ Waiting /\ Walk
      /\ mode = "link" /\ frames = <<>> /\ mode' = "eval" /\ goal' = goal
      /\ status[Target] \notin Started /\ Open(Target, "evaluating")
  BY DEF EvalInv, EvaluateFirst, Linked
<1>2. /\ requests' = requests /\ UNCHANGED <<parents, root, body, todo, order, pending, error>>
  BY DEF EvaluateFirst, program, deps, bodies
<1>3. stack = <<>> /\ Closed /\ \A m \in Module : status[m] \notin {"linking", "evaluating"}
  BY <1>1, WalkOver
<1>4. goal \in Module /\ status[goal] # "unlinked"
  BY <1>1 DEF EvalTypes, Unfinished
<1>5. Target = goal
  BY <1>1, <1>4 DEF Target, Begun
<1>6. goal \notin Range(stack) /\ "evaluating" \in Status
  BY <1>1, <1>3, <1>4 DEF Unfinished, Status
<1>7. Open(goal, "evaluating") /\ status[goal] \notin Started
  BY <1>1, <1>5
<1>8. /\ stack' \in Seq(Module) /\ IsInjective(stack') /\ frames' \in Seq(Call)
      /\ anc' \in [Module -> Nat] /\ status' \in [Module -> Status] /\ stack' # <<>>
      /\ status'[goal] = "evaluating" /\ \A x \in Module : x # goal => status'[x] = status[x]
  BY <1>1, <1>4, <1>6, <1>7, OpenShape
<1>9. EvalTypes'
  BY <1>1, <1>2, <1>4, <1>8, LinkTypes
<1>10. Walk'
  BY <1>1, <1>2, <1>4, <1>6, <1>7, OpenWalk
<1>11. /\ \A x \in Module : x \in Range(stack') <=> status'[x] \in {"linking", "evaluating"}
       /\ \A i \in DOMAIN frames : \E j \in DOMAIN frames' : frames'[j].mod = frames[i].mod
       /\ frames'[1].mod = goal
  BY <1>1, <1>4, <1>6, <1>7, OpenUnfinished DEF Unfinished
<1>12. Unfinished'
  <2>1. \A x \in Module : status'[x] # "linking"
    BY <1>3, <1>8
  <2> QED BY <1>1, <1>11, <2>1 DEF Unfinished
<1>13. Begun' /\ Waiting'
  <2>1. \A x \in Module : status'[x] \in Started <=> status[x] \in Started
    BY <1>7, <1>8 DEF Started
  <2> QED BY <2>1, <1>1, <1>2, <1>3, <1>11, WalkKeeps
<1>14. Closed'
  <2>1. \A x \in Module : status'[x] = "unlinked" <=> status[x] = "unlinked"
    BY <1>4, <1>8
  <2> QED BY <2>1, <1>1, <1>2, <1>3, ClosedStays
<1> QED BY <1>1, <1>9, <1>10, <1>12, <1>13, <1>14 DEF EvalInv

LEMMA EvalRequestInv ==
  ASSUME EvalInv, EvalRequest
  PROVE  EvalInv'
<1>1. /\ EvalTypes /\ Unfinished /\ Begun /\ Waiting /\ Walk /\ Closed
      /\ mode = "eval" /\ mode' = mode /\ goal' = goal
      /\ AtRequest /\ status[Child] = "linked" /\ Open(Child, "evaluating")
  BY DEF EvalInv, EvalRequest
<1>2. /\ requests' = requests /\ UNCHANGED <<parents, root, body, todo, order, pending, error>>
  BY DEF EvalRequest, program, deps, bodies
<1>3. Child \in Module /\ "evaluating" \in Status /\ frames # <<>>
  BY <1>1, Asking DEF Status
<1>4. Child \notin Range(stack)
  BY <1>1, <1>3 DEF Unfinished
<1>5. /\ stack' \in Seq(Module) /\ IsInjective(stack') /\ frames' \in Seq(Call)
      /\ anc' \in [Module -> Nat] /\ status' \in [Module -> Status] /\ stack' # <<>>
      /\ status'[Child] = "evaluating" /\ \A x \in Module : x # Child => status'[x] = status[x]
  BY <1>1, <1>3, <1>4, OpenShape
<1>6. EvalTypes'
  BY <1>1, <1>2, <1>5, LinkTypes
<1>7. Walk'
  BY <1>1, <1>2, <1>3, <1>4, OpenWalk
<1>8. /\ \A x \in Module : x \in Range(stack') <=> status'[x] \in {"linking", "evaluating"}
      /\ \A i \in DOMAIN frames : \E j \in DOMAIN frames' : frames'[j].mod = frames[i].mod
      /\ frames'[1] = frames[1]
  BY <1>1, <1>3, <1>4, OpenUnfinished DEF Unfinished
<1>9. Unfinished'
  <2>1. \A x \in Module : status'[x] # "linking"
    BY <1>1, <1>5 DEF Unfinished
  <2>2. frames[1].mod = goal
    BY <1>1, <1>3 DEF Unfinished
  <2> QED BY <1>1, <1>8, <2>1, <2>2 DEF Unfinished
<1>10. Begun' /\ Waiting'
  <2>1. \A x \in Module : status'[x] \in Started <=> status[x] \in Started
    BY <1>1, <1>5 DEF Started
  <2>2. \A x \in Module : status[x] = "evaluating" => status'[x] = "evaluating"
    BY <1>5
  <2> QED BY <2>1, <2>2, <1>1, <1>2, <1>8, WalkKeeps
<1>11. Closed'
  <2>1. \A x \in Module : status'[x] = "unlinked" <=> status[x] = "unlinked"
    BY <1>1, <1>3, <1>5
  <2> QED BY <2>1, <1>1, <1>2, ClosedStays
<1> QED BY <1>1, <1>6, <1>7, <1>9, <1>10, <1>11 DEF EvalInv

\* A module under evaluation is told to wait for what its request stands for.
LEMMA EvalReturnedInv ==
  ASSUME EvalInv, EvalReturned
  PROVE  EvalInv'
<1>1. /\ EvalTypes /\ Unfinished /\ Begun /\ Waiting /\ Walk /\ Closed
      /\ mode = "eval" /\ mode' = mode /\ goal' = goal
      /\ AtRequest /\ MergeAncestor("evaluating") /\ frames' = Advanced
  BY DEF EvalInv, EvalReturned
<1>2. /\ requests' = requests /\ root' = root /\ body' = body /\ todo' = todo /\ order' = order
      /\ error' = error /\ status' = status /\ stack' = stack
  BY DEF EvalReturned, program, bodies
<1>3. \/ /\ pending' = [pending EXCEPT ![Cur] = @ + 1]
         /\ parents' = [parents EXCEPT ![Dependency] = Append(@, Cur)]
      \/ pending' = pending /\ parents' = parents
  BY DEF EvalReturned
<1>4. frames # <<>> /\ Cur \in Module /\ Len(frames) \in DOMAIN frames /\ Cur = frames[Len(frames)].mod
  BY <1>1, Asking, Calling
<1>5. /\ frames' \in Seq(Call) /\ frames' # <<>> /\ DOMAIN frames' = DOMAIN frames
      /\ \A i \in DOMAIN frames : frames'[i].mod = frames[i].mod
  BY <1>1, <1>4, AdvanceShape
<1>6. anc' \in [Module -> Nat]
  BY <1>1, MergeShape
<1>7. parents \in [Module -> Seq(Module)] /\ pending \in [Module -> Int]
  BY <1>1 DEF EvalTypes
<1>8. /\ pending' \in [Module -> Int] /\ \A x \in Module : pending'[x] >= pending[x]
      /\ \A x \in Module : x # Cur => pending'[x] = pending[x]
  <2>1. CASE pending' = [pending EXCEPT ![Cur] = @ + 1]
    <3>1. pending[Cur] + 1 \in Int /\ pending[Cur] + 1 >= pending[Cur]
      BY <1>4, <1>7
    <3>2. pending'[Cur] = pending[Cur] + 1 /\ \A x \in Module : x # Cur => pending'[x] = pending[x]
      BY <2>1, <1>4, <1>7
    <3>3. pending' \in [Module -> Int]
      BY <2>1, <3>1, <1>4, <1>7
    <3>4. ASSUME NEW x \in Module PROVE pending'[x] >= pending[x]
      <4>1. CASE x = Cur
        BY <3>1, <3>2, <4>1
      <4>2. CASE x # Cur
        <5>1. pending'[x] = pending[x] /\ pending[x] \in Int
          BY <3>2, <4>2, <1>7
        <5> QED BY <5>1
      <4> QED BY <4>1, <4>2
    <3> QED BY <3>2, <3>3, <3>4
  <2>2. CASE pending' = pending
    BY <2>2, <1>7
  <2> QED BY <2>1, <2>2, <1>3
<1>9. ASSUME NEW x \in Module
      PROVE  /\ parents'[x] \in Seq(Module)
             /\ \A p \in Range(parents'[x]) : p \in Range(parents[x]) \/ (p = Cur /\ pending'[p] = pending[p] + 1)
  <2>1. parents[x] \in Seq(Module)
    BY <1>7
  <2>2. CASE parents'[x] = parents[x]
    BY <2>1, <2>2
  <2>3. CASE parents'[x] # parents[x]
    <3>1. /\ parents'[x] = Append(parents[x], Cur) /\ pending'[Cur] = pending[Cur] + 1
      BY <1>3, <1>4, <1>7, <2>3
    <3>2. Append(parents[x], Cur) \in Seq(Module)
          /\ DOMAIN Append(parents[x], Cur) = 1..(Len(parents[x]) + 1)
          /\ \A i \in DOMAIN parents[x] : Append(parents[x], Cur)[i] = parents[x][i]
          /\ Append(parents[x], Cur)[Len(parents[x]) + 1] = Cur
      BY ONLY <2>1, <1>4, Pushed
    <3>3. DOMAIN parents[x] = 1..Len(parents[x]) /\ Len(parents[x]) \in Nat
      BY <2>1, LenProperties
    <3>4. ASSUME NEW p \in Range(parents'[x]) PROVE p \in Range(parents[x]) \/ p = Cur
      <4>1. PICK i \in DOMAIN parents'[x] : parents'[x][i] = p
        BY <3>4 DEF Range
      <4> QED BY <4>1, <3>1, <3>2, <3>3 DEF Range
    <3> QED BY <3>1, <3>2, <3>4
  <2> QED BY <2>2, <2>3
<1>10. parents' \in [Module -> Seq(Module)]
  <2>1. parents' = [x \in Module |-> parents'[x]]
    BY <1>3, <1>7
  <2> QED BY <2>1, <1>9
<1>11. EvalTypes'
  BY <1>1, <1>2, <1>5, <1>6, <1>8, <1>10 DEF EvalTypes
<1>12. Walk'
  BY <1>1, <1>2, MergeWalk
<1>13. Closed'
  BY <1>1, <1>2, ClosedStays
<1>14. Unfinished'
  <2>1. frames[1].mod = goal /\ 1 \in DOMAIN frames
    BY <1>1, <1>4, EvalRanges DEF Unfinished
  <2> QED BY <1>1, <1>2, <1>5, <2>1 DEF Unfinished
<1>15. status[Cur] = "evaluating"
  <2>1. Cur \in Range(stack)
    BY <1>1, <1>4, Stands DEF Walk, Range
  <2> QED BY <2>1, <1>1, <1>4 DEF Unfinished
<1>16. Begun'
  <2>1. ASSUME NEW m \in Module, NEW p \in Range(parents'[m])
        PROVE  status[p] \in Started \cup {"evaluating"}
    BY <1>1, <1>9, <1>15, <2>1 DEF Begun
  <2> QED BY <2>1, <1>1, <1>2 DEF Begun
<1>17. Waiting'
  <2>1. ASSUME NEW m \in Module, NEW p \in Range(parents'[m])
        PROVE  \/ p \in Range(order)
               \/ status[p] \in Started /\ error[root[p]]
               \/ status[p] = "evaluating" /\ pending'[p] > 0 /\ \E i \in DOMAIN frames' : frames'[i].mod = p
    <3>1. CASE p \in Range(parents[m])
      <4>1. p \in Module /\ Ordered(p)
        <5>1. parents[m] \in Seq(Module)
          BY <1>7
        <5>2. p \in Module
          BY <5>1, <3>1, ElementOfSeq, LenProperties DEF Range
        <5> QED BY <5>2, <3>1, <1>1 DEF Waiting
      <4>2. ASSUME status[p] = "evaluating", pending[p] > 0, NEW i \in DOMAIN frames, frames[i].mod = p
            PROVE  pending'[p] > 0 /\ \E j \in DOMAIN frames' : frames'[j].mod = p
        <5>1. pending'[p] >= pending[p] /\ pending[p] \in Int /\ pending'[p] \in Int
          BY <4>1, <1>7, <1>8
        <5> QED BY <5>1, <4>2, <1>5
      <4> QED BY <4>1, <4>2 DEF Ordered
    <3>2. CASE p = Cur /\ pending'[p] = pending[p] + 1
      <4>1. pending[Cur] >= 0
        BY <1>1, <1>4, <1>15 DEF Waiting, Started
      <4>2. pending'[p] > 0
        BY <4>1, <3>2, <1>4, <1>7
      <4>3. frames'[Len(frames)].mod = p /\ Len(frames) \in DOMAIN frames'
        BY <3>2, <1>4, <1>5
      <4> QED BY <4>2, <4>3, <3>2, <1>15
    <3> QED BY <3>1, <3>2, <2>1, <1>9
  <2>2. ASSUME NEW m \in Module, status[m] \notin Started PROVE pending'[m] >= 0
    <3>1. pending[m] >= 0 /\ pending'[m] >= pending[m] /\ pending[m] \in Int /\ pending'[m] \in Int
      BY <2>2, <1>1, <1>7, <1>8 DEF Waiting
    <3> QED BY <3>1
  <2>3. todo \subseteq Range(order)
    BY <1>1 DEF Waiting
  <2> QED BY <2>1, <2>2, <2>3, <1>2 DEF Waiting, Ordered
<1> QED BY <1>1, <1>11, <1>12, <1>13, <1>14, <1>16, <1>17 DEF EvalInv

\* A failed evaluation: what was begun has failed, with the module that was
\* to be evaluated as its root.
LEMMA AbandonInv ==
  ASSUME EvalInv, mode = "eval", frames # <<>>, Abandon,
         UNCHANGED <<program, goal, order, pending, parents, todo>>,
         body' = body \/ body' = [body EXCEPT ![Cur] = "threw"]
  PROVE  EvalInv'
<1>1. /\ EvalTypes /\ Unfinished /\ Begun /\ Waiting /\ Walk /\ Closed
  BY DEF EvalInv
<1>2. /\ requests' = requests /\ parents' = parents /\ todo' = todo /\ order' = order
      /\ pending' = pending /\ goal' = goal
  BY DEF program
<1>3. /\ Unwind("evaluated")
      /\ error' = [m \in Module |-> m \in Range(stack) \/ error[m]]
      /\ root' = [m \in Module |-> IF m \in Range(stack) THEN goal ELSE root[m]]
  BY DEF Abandon
<1>4. "evaluated" \in Status /\ "evaluated" \in Started
  BY DEF Status, Started
<1>5. /\ stack' = <<>> /\ frames' = <<>> /\ mode' = "idle"
      /\ stack' \in Seq(Module) /\ IsInjective(stack') /\ frames' \in Seq(Call)
      /\ anc' \in [Module -> Nat] /\ status' \in [Module -> Status]
      /\ \A m \in Module : m \notin Range(stack')
      /\ \A m \in Module : m \in Range(stack) => status'[m] = "evaluated"
      /\ \A m \in Module : m \notin Range(stack) => status'[m] = status[m]
  BY <1>1, <1>3, <1>4, UnwindShape
<1>6. goal \in Module /\ goal \in Range(stack)
  <2>1. goal \in Module /\ frames[1].mod = goal /\ stack # <<>> /\ stack[1] = frames[1].mod
    BY <1>1 DEF EvalTypes, Unfinished, Walk, Grounded
  <2>2. 1 \in DOMAIN stack
    BY <1>1, <2>1, EvalRanges
  <2> QED BY <2>1, <2>2 DEF Range
<1>7. /\ error' \in [Module -> BOOLEAN] /\ root' \in [Module -> Module \cup {None}]
      /\ \A m \in Module : m \in Range(stack) => root'[m] = goal /\ error'[m]
      /\ \A m \in Module : m \notin Range(stack) => root'[m] = root[m]
      /\ \A m \in Module : error[m] => error'[m]
  BY <1>1, <1>3, <1>6 DEF EvalTypes
<1>8. /\ body' \in [Module -> {"unstarted", "running", "done", "threw"}]
      /\ \A m \in Module : body'[m] = "running" => body[m] = "running"
  BY <1>1 DEF EvalTypes
<1>9. EvalTypes'
  BY <1>1, <1>2, <1>5, <1>7, <1>8 DEF EvalTypes
<1>10. \A m \in Module : m \in Range(stack) <=> status[m] = "evaluating"
  BY <1>1 DEF Unfinished
<1>11. Unfinished'
  <2>1. \A m \in Module : status'[m] \notin {"linking", "evaluating"}
    BY <1>1, <1>5, <1>10 DEF Unfinished
  <2> QED BY <2>1, <1>5 DEF Unfinished
<1>12. /\ \A m \in Module : status[m] \in Started \cup {"evaluating"} => status'[m] \in Started
       /\ \A m \in Module : status'[m] \in Started => status[m] \in Started \cup {"evaluating"}
  BY <1>4, <1>5, <1>10
<1>13. \A m \in Module : \A p \in Range(parents[m]) : p \in Module
  <2> SUFFICES ASSUME NEW m \in Module, NEW p \in Range(parents[m]) PROVE p \in Module
    OBVIOUS
  <2>1. parents[m] \in Seq(Module)
    BY <1>1 DEF EvalTypes
  <2> QED BY <2>1, ElementOfSeq, LenProperties DEF Range
<1>14. Begun'
  <2>1. ASSUME NEW m \in Module, status'[m] \in Started
        PROVE  root'[m] \in Module /\ status'[root'[m]] \in Started
    <3>1. CASE m \in Range(stack)
      BY <3>1, <1>4, <1>5, <1>6, <1>7
    <3>2. CASE m \notin Range(stack)
      BY <3>2, <2>1, <1>1, <1>5, <1>7, <1>12 DEF Begun
    <3> QED BY <3>1, <3>2
  <2>2. ASSUME NEW m \in Module, body'[m] = "running" PROVE status'[m] \in Started \cup {"evaluating"}
    BY <2>2, <1>1, <1>8, <1>12 DEF Begun
  <2>3. ASSUME NEW m \in Module, NEW p \in Range(parents[m])
        PROVE  status'[p] \in Started \cup {"evaluating"}
    BY <2>3, <1>1, <1>12, <1>13 DEF Begun
  <2>4. ASSUME NEW m \in todo PROVE status'[m] \in Started
    BY <2>4, <1>1, <1>12 DEF Begun, EvalTypes
  <2> QED BY <2>1, <2>2, <2>3, <2>4, <1>2 DEF Begun
<1>15. Waiting'
  <2>1. ASSUME NEW m \in Module, NEW p \in Range(parents[m])
        PROVE  p \in Range(order) \/ (status'[p] \in Started /\ error'[root'[p]])
    <3>1. p \in Module /\ Ordered(p)
      BY <2>1, <1>1, <1>13 DEF Waiting
    <3>2. CASE p \in Range(stack)
      BY <3>1, <3>2, <1>4, <1>5, <1>6, <1>7
    <3>3. CASE p \notin Range(stack)
      <4>1. status[p] # "evaluating" /\ status'[p] = status[p] /\ root'[p] = root[p]
        BY <3>1, <3>3, <1>5, <1>7, <1>10
      <4>2. status[p] \in Started => root[p] \in Module
        BY <3>1, <1>1 DEF Begun
      <4> QED BY <3>1, <4>1, <4>2, <1>7 DEF Ordered
    <3> QED BY <3>2, <3>3
  <2>2. ASSUME NEW m \in Module, status'[m] \notin Started PROVE pending[m] >= 0
    BY <2>2, <1>1, <1>12 DEF Waiting
  <2> QED BY <2>1, <2>2, <1>1, <1>2 DEF Waiting, Ordered
<1>16. Closed'
  <2>1. \A x \in Module : status'[x] = "unlinked" <=> status[x] = "unlinked"
    BY <1>5, <1>10
  <2> QED BY <2>1, <1>1, <1>2, ClosedStays
<1> QED BY <1>5, <1>9, <1>11, <1>14, <1>15, <1>16 DEF EvalInv

\* The end of an evaluation; a module that waits or awaits is put in order.
LEMMA CloseEvaluationInv ==
  ASSUME EvalInv, mode = "eval", AtEnd, NEW asyncNow, CloseEvaluation(asyncNow),
         \/ order' = Append(order, Cur)
         \/ order' = order /\ pending[Cur] = 0,
         body' = body \/ \E b \in {"running", "done"} : body' = [body EXCEPT ![Cur] = b]
  PROVE  EvalInv'
<1> DEFINE done == [m \in Module |-> IF asyncNow[m] THEN "evaluating_async" ELSE "evaluated"]
           n == Len(frames)
<1>1. /\ EvalTypes /\ Unfinished /\ Begun /\ Waiting /\ Walk /\ Closed
  BY DEF EvalInv
<1>2. /\ requests' = requests /\ parents' = parents /\ todo' = todo
      /\ pending' = pending /\ goal' = goal /\ mode' = mode /\ error' = error
  BY DEF CloseEvaluation, program
<1>3. /\ Close(done)
      /\ root' = IF IsRoot THEN [m \in Module |-> IF m \in Component THEN Cur ELSE root[m]] ELSE root
  BY DEF CloseEvaluation
<1>4. done \in [Module -> Status] /\ \A m \in Module : done[m] \in Started
  BY DEF Status, Started
<1> HIDE DEF done
<1>5. frames # <<>> /\ frames' = Returned
  BY <1>3 DEF AtEnd, Close
<1>6. /\ frames' \in Seq(Call) /\ DOMAIN frames' = 1..(n - 1)
      /\ \A i \in DOMAIN frames' : frames'[i] = frames[i] /\ i \in DOMAIN frames /\ i # n
      /\ frames' = <<>> <=> n = 1
  BY <1>1, <1>5, ReturnShape
<1>7. /\ Cur \in Module /\ n \in DOMAIN frames /\ Cur = frames[n].mod /\ n \in Nat /\ DOMAIN frames = 1..n
  BY <1>1, <1>5, Calling, EvalRanges
<1>8. Cur \in Range(stack) /\ status[Cur] = "evaluating"
  <2>1. Cur \in Range(stack)
    BY <1>1, <1>5, Stands DEF Walk, Range
  <2> QED BY <2>1, <1>1, <1>7 DEF Unfinished
<1>9. /\ order' \in Seq(Module) /\ Range(order) \subseteq Range(order')
      /\ Cur \in Range(order') \/ pending[Cur] = 0
  <2>0. order \in Seq(Module)
    BY <1>1 DEF EvalTypes
  <2>1. CASE order' = Append(order, Cur)
    <3>1. /\ Append(order, Cur) \in Seq(Module) /\ DOMAIN Append(order, Cur) = 1..(Len(order) + 1)
          /\ \A i \in DOMAIN order : Append(order, Cur)[i] = order[i]
          /\ Append(order, Cur)[Len(order) + 1] = Cur
      BY ONLY <2>0, <1>7, Pushed
    <3>2. DOMAIN order = 1..Len(order) /\ Len(order) \in Nat
      BY <2>0, LenProperties
    <3>3. \A i \in DOMAIN order : i \in DOMAIN order' /\ order'[i] = order[i]
      BY <2>1, <3>1, <3>2
    <3>4. Len(order) + 1 \in DOMAIN order' /\ order'[Len(order) + 1] = Cur
      BY <2>1, <3>1, <3>2
    <3>5. Range(order) \subseteq Range(order') /\ Cur \in Range(order')
      BY <3>3, <3>4 DEF Range
    <3> QED BY <2>1, <3>1, <3>5
  <2>2. CASE order' = order /\ pending[Cur] = 0
    BY <2>0, <2>2
  <2> QED BY <2>1, <2>2
<1>10. /\ body' \in [Module -> {"unstarted", "running", "done", "threw"}]
       /\ \A m \in Module : body'[m] = "running" => body[m] = "running" \/ m = Cur
  BY <1>1, <1>7 DEF EvalTypes
<1>11. \A m \in Module : m \in Range(stack) <=> status[m] = "evaluating"
  BY <1>1 DEF Unfinished
<1>12. \A m \in Module : \A p \in Range(parents[m]) : p \in Module
  <2> SUFFICES ASSUME NEW m \in Module, NEW p \in Range(parents[m]) PROVE p \in Module
    OBVIOUS
  <2>1. parents[m] \in Seq(Module)
    BY <1>1 DEF EvalTypes
  <2> QED BY <2>1, ElementOfSeq, LenProperties DEF Range
\* The modules that leave the stack, if any.
<1> DEFINE C == IF IsRoot THEN Component ELSE {}
<1>13. /\ stack' \in Seq(Module) /\ IsInjective(stack') /\ Walk'
       /\ anc' \in [Module -> Nat] /\ status' \in [Module -> Status]
       /\ \A m \in Module : m \in C => status'[m] \in Started /\ root'[m] = Cur /\ Cur \in C
       /\ \A m \in Module : m \notin C => status'[m] = status[m] /\ root'[m] = root[m]
       /\ \A m \in Module : m \in C => m \in Range(stack)
       /\ \A m \in Module : m \in Range(stack') <=> m \in Range(stack) /\ m \notin C
       /\ root' \in [Module -> Module \cup {None}]
       /\ \A i \in DOMAIN frames : frames[i].mod \in C => i = n
       /\ C = {} => frames' # <<>>
  <2>1. CASE IsRoot
    <3>0. C = Component
      BY <2>1
    <3>1. /\ Index(Cur) \in DOMAIN stack /\ stack[Index(Cur)] = Cur
          /\ stack' \in Seq(Module) /\ IsInjective(stack')
          /\ anc' \in [Module -> Nat] /\ status' \in [Module -> Status]
          /\ \A m \in Component : \E k \in DOMAIN stack : stack[k] = m /\ k >= Index(Cur)
          /\ \A k \in DOMAIN stack : k >= Index(Cur) => stack[k] \in Component
          /\ \A m \in Module : m \in Component => status'[m] = done[m]
          /\ \A m \in Module : m \notin Component => status'[m] = status[m]
          /\ \A m \in Module : m \in Range(stack') <=> m \in Range(stack) /\ m \notin Component
      BY <1>1, <1>3, <1>4, <1>5, <2>1, CloseShape
    <3>2. Walk'
      BY <1>1, <1>2, <1>3, <1>4, <1>5, <2>1, CloseWalk
    <3>3. Cur \in Component
      BY <3>1, <1>1, EvalRanges
    <3>4. root' = [m \in Module |-> IF m \in Component THEN Cur ELSE root[m]]
      BY <1>3, <2>1
    <3>5. ASSUME NEW i \in DOMAIN frames, frames[i].mod \in Component PROVE i = n
      <4>1. PICK k \in DOMAIN stack : stack[k] = frames[i].mod /\ k >= Index(Cur)
        BY <3>1, <3>5
      <4>2. i < n => k < Index(Cur)
        BY <4>1, <3>1, <1>1, <1>7 DEF Walk, Standing
      <4> QED BY <4>1, <4>2, <3>1, <1>1, <1>7, EvalRanges
    <3>6. \A m \in Component : m \in Range(stack)
      BY <3>1 DEF Range
    <3>7. root \in [Module -> Module \cup {None}]
      BY <1>1 DEF EvalTypes
    <3> HIDE DEF C
    <3>8. /\ \A m \in Module : m \in C => status'[m] \in Started /\ root'[m] = Cur /\ Cur \in C
          /\ \A m \in Module : m \notin C => status'[m] = status[m] /\ root'[m] = root[m]
          /\ root' \in [Module -> Module \cup {None}]
      BY <1>4, <1>7, <3>0, <3>1, <3>3, <3>4, <3>7
    <3> QED BY <3>0, <3>1, <3>2, <3>3, <3>5, <3>6, <3>8
  <2>2. CASE ~IsRoot
    <3>1. stack' = stack /\ anc' = anc /\ status' = status /\ root' = root /\ C = {}
      BY <1>3, <2>2 DEF Close
    <3>2. Walk' /\ frames' # <<>>
      BY <1>1, <1>2, <1>5, <2>2, <3>1, ReturnWalk
    <3> QED BY <3>1, <3>2, <1>1 DEF EvalTypes
  <2> QED BY <2>1, <2>2
<1> HIDE DEF C
<1>14. EvalTypes'
  BY <1>1, <1>2, <1>6, <1>9, <1>10, <1>13 DEF EvalTypes
<1>15. /\ \A m \in Module : status[m] \in Started => status'[m] \in Started
       /\ \A m \in Module : status'[m] \in Started => status[m] \in Started \cup {"evaluating"}
       /\ \A m \in Module : status[m] = "evaluating" => status'[m] \in Started \cup {"evaluating"}
       /\ \A m \in Module : status'[m] = "unlinked" <=> status[m] = "unlinked"
       /\ \A m \in Module : status'[m] # "linking"
  BY <1>1, <1>11, <1>13 DEF Started, Unfinished
<1>16. Unfinished'
  <2>1. \A m \in Module : m \in Range(stack') <=> status'[m] \in {"linking", "evaluating"}
    BY <1>11, <1>13, <1>15 DEF Started
  <2>2. frames' # <<>> => frames'[1] = frames[1]
    BY <1>6, <1>7
  <2> QED BY <1>1, <1>2, <1>5, <1>15, <2>1, <2>2 DEF Unfinished
<1>17. Begun'
  <2>1. ASSUME NEW m \in Module, status'[m] \in Started
        PROVE  root'[m] \in Module /\ status'[root'[m]] \in Started
    <3>1. CASE m \in C
      BY <3>1, <1>7, <1>13
    <3>2. CASE m \notin C
      BY <3>2, <2>1, <1>1, <1>13, <1>15 DEF Begun
    <3> QED BY <3>1, <3>2
  <2>2. ASSUME NEW m \in Module, body'[m] = "running" PROVE status'[m] \in Started \cup {"evaluating"}
    <3>1. status[m] \in Started \cup {"evaluating"}
      BY <2>2, <1>1, <1>8, <1>10 DEF Begun
    <3> QED BY <3>1, <1>15
  <2>3. ASSUME NEW m \in Module, NEW p \in Range(parents[m])
        PROVE  status'[p] \in Started \cup {"evaluating"}
    <3>1. status[p] \in Started \cup {"evaluating"} /\ p \in Module
      BY <2>3, <1>1, <1>12 DEF Begun
    <3> QED BY <3>1, <1>15
  <2>4. ASSUME NEW m \in todo PROVE status'[m] \in Started
    BY <2>4, <1>1, <1>15 DEF Begun, EvalTypes
  <2> QED BY <2>1, <2>2, <2>3, <2>4, <1>2 DEF Begun
<1>18. Waiting'
  <2>1. ASSUME NEW m \in Module, NEW p \in Range(parents[m])
        PROVE  \/ p \in Range(order')
               \/ status'[p] \in Started /\ error[root'[p]]
               \/ status'[p] = "evaluating" /\ pending[p] > 0 /\ \E i \in DOMAIN frames' : frames'[i].mod = p
    <3>1. p \in Module /\ Ordered(p)
      BY <2>1, <1>1, <1>12 DEF Waiting
    <3>2. CASE p \in Range(order)
      BY <3>2, <1>9
    <3>3. CASE status[p] \in Started /\ error[root[p]]
      <4>1. p \notin C
        BY <3>1, <3>3, <1>11, <1>13 DEF Started
      <4> QED BY <3>1, <3>3, <4>1, <1>13
    <3>4. ASSUME status[p] = "evaluating", pending[p] > 0, NEW i \in DOMAIN frames, frames[i].mod = p
          PROVE  \/ p \in Range(order')
                 \/ status'[p] = "evaluating" /\ \E j \in DOMAIN frames' : frames'[j].mod = p
      <4>1. CASE p = Cur
        BY <4>1, <3>4, <1>9
      <4>2. CASE p # Cur
        <5>1. i # n
          BY <4>2, <3>4, <1>7
        <5>2. i \in DOMAIN frames' /\ frames'[i].mod = p
          BY <5>1, <3>4, <1>6, <1>7
        <5>3. p \notin C
          BY <5>1, <3>4, <1>13
        <5> QED BY <5>2, <5>3, <3>1, <3>4, <1>13
      <4> QED BY <4>1, <4>2
    <3> QED BY <3>1, <3>2, <3>3, <3>4 DEF Ordered
  <2>2. ASSUME NEW m \in Module, status'[m] \notin Started PROVE pending[m] >= 0
    BY <2>2, <1>1, <1>15 DEF Waiting
  <2>3. todo \subseteq Range(order')
    BY <1>1, <1>9 DEF Waiting
  <2> QED BY <2>1, <2>2, <2>3, <1>2 DEF Waiting, Ordered
<1>19. Closed'
  BY <1>1, <1>2, <1>15, ClosedStays
<1> QED BY <1>2, <1>13, <1>14, <1>16, <1>17, <1>18, <1>19 DEF EvalInv

-----------------------------------------------------------------------------
(* Between two walks: the bodies that end, and what waited for them. *)

LEMMA QuietInv ==
  ASSUME EvalInv, mode \in {"idle", "gather", "execute"}, mode' \in {"idle", "gather", "execute"},
         UNCHANGED <<requests, stack, anc, root, parents, order>>,
         status' \in [Module -> Status],
         \A m \in Module : status'[m] = status[m] \/ (status[m] \in Started /\ status'[m] = "evaluated"),
         error' \in [Module -> BOOLEAN], \A m \in Module : error[m] => error'[m],
         pending' \in [Module -> Int], \A m \in Module : status[m] \notin Started => pending'[m] = pending[m],
         body' \in [Module -> {"unstarted", "running", "done", "threw"}],
         \A m \in Module : body'[m] = "running" => body[m] = "running" \/ status[m] \in Started,
         todo' \subseteq Module, todo' \subseteq Range(order), \A m \in todo' : status[m] \in Started,
         frames' \in Seq(Call), mode' # "gather" => frames' = <<>>
  PROVE  EvalInv'
<1>1. EvalTypes /\ Unfinished /\ Begun /\ Waiting /\ Closed /\ stack = <<>>
  BY DEF EvalInv
<1>2. /\ requests' = requests /\ stack' = stack /\ anc' = anc /\ root' = root /\ parents' = parents
      /\ order' = order
  OBVIOUS
<1>3. EvalTypes'
  BY <1>1, <1>2 DEF EvalTypes
<1>4. \A m \in Module : m \notin Range(stack)
  <2>1. stack = <<>>
    BY <1>1
  <2> QED BY ONLY <2>1, Empty, Zenon
<1>5. \A m \in Module : status[m] \notin {"linking", "evaluating"}
  BY <1>1, <1>4 DEF Unfinished
<1>6. /\ \A m \in Module : status'[m] \in Started <=> status[m] \in Started
      /\ \A m \in Module : status'[m] \notin {"linking", "evaluating"}
      /\ \A m \in Module : status'[m] = "unlinked" <=> status[m] = "unlinked"
  BY <1>5 DEF Started
<1>7. Unfinished'
  BY <1>2, <1>4, <1>6 DEF Unfinished
<1>8. \A m \in Module : \A p \in Range(parents[m]) : p \in Module
  <2> SUFFICES ASSUME NEW m \in Module, NEW p \in Range(parents[m]) PROVE p \in Module
    OBVIOUS
  <2>1. parents[m] \in Seq(Module)
    BY <1>1 DEF EvalTypes
  <2> QED BY <2>1, ElementOfSeq, LenProperties DEF Range
<1>9. Begun'
  <2>1. ASSUME NEW m \in Module, status'[m] \in Started
        PROVE  root[m] \in Module /\ status'[root[m]] \in Started
    BY <2>1, <1>1, <1>6 DEF Begun
  <2>2. ASSUME NEW m \in Module, body'[m] = "running" PROVE status'[m] \in Started \cup {"evaluating"}
    <3>1. status[m] \in Started
      BY <2>2, <1>1, <1>5 DEF Begun
    <3> QED BY <3>1, <1>6
  <2>3. ASSUME NEW m \in Module, NEW p \in Range(parents[m])
        PROVE  status'[p] \in Started \cup {"evaluating"}
    <3>1. status[p] \in Started \cup {"evaluating"} /\ p \in Module
      BY <2>3, <1>1, <1>8 DEF Begun
    <3> QED BY <3>1, <1>5, <1>6
  <2>4. ASSUME NEW m \in todo' PROVE status'[m] \in Started
    BY <2>4, <1>6
  <2> QED BY <2>1, <2>2, <2>3, <2>4, <1>2 DEF Begun
<1>10. Waiting'
  <2>1. ASSUME NEW m \in Module, NEW p \in Range(parents[m])
        PROVE  p \in Range(order) \/ (status'[p] \in Started /\ error'[root[p]])
    <3>1. p \in Module /\ Ordered(p)
      BY <2>1, <1>1, <1>8 DEF Waiting
    <3>2. status[p] \in Started => root[p] \in Module
      BY <3>1, <1>1 DEF Begun
    <3> QED BY <3>1, <3>2, <1>5, <1>6 DEF Ordered
  <2>2. ASSUME NEW m \in Module, status'[m] \notin Started PROVE pending'[m] >= 0
    BY <2>2, <1>1, <1>6 DEF Waiting
  <2> QED BY <2>1, <2>2, <1>2 DEF Waiting, Ordered
<1>11. Closed'
  BY <1>1, <1>2, <1>6, ClosedStays
<1> QED BY <1>1, <1>2, <1>3, <1>7, <1>9, <1>10, <1>11 DEF EvalInv

\* In these modes nothing is under evaluation.
LEMMA QuietStarted ==
  ASSUME EvalInv, mode \in {"idle", "gather", "execute"}
  PROVE  /\ \A m \in Module : status[m] \in Started \cup {"evaluating"} => status[m] \in Started
         /\ \A m \in Module : body[m] = "running" => status[m] \in Started
         /\ \A m \in Module : \A p \in Range(parents[m]) : p \in Module /\ status[p] \in Started
         /\ todo \subseteq Module /\ todo \subseteq Range(order) /\ \A m \in todo : status[m] \in Started
         /\ status \in [Module -> Status] /\ error \in [Module -> BOOLEAN] /\ pending \in [Module -> Int]
         /\ body \in [Module -> {"unstarted", "running", "done", "threw"}]
         /\ frames \in Seq(Call) /\ parents \in [Module -> Seq(Module)]
<1>1. EvalTypes /\ Unfinished /\ Begun /\ Waiting
  BY DEF EvalInv
<1>2. \A m \in Module : status[m] \in Started \cup {"evaluating"} => status[m] \in Started
  BY <1>1 DEF Unfinished
<1>3. \A m \in Module : \A p \in Range(parents[m]) : p \in Module
  <2> SUFFICES ASSUME NEW m \in Module, NEW p \in Range(parents[m]) PROVE p \in Module
    OBVIOUS
  <2>1. parents[m] \in Seq(Module)
    BY <1>1 DEF EvalTypes
  <2> QED BY <2>1, ElementOfSeq, LenProperties DEF Range
<1>4. \A m \in Module : \A p \in Range(parents[m]) : status[p] \in Started
  BY <1>1, <1>2, <1>3 DEF Begun
<1> QED BY <1>1, <1>2, <1>3, <1>4 DEF Begun, Waiting, EvalTypes

\* Who is told of a failure was started.
LEMMA DoomedStarted ==
  ASSUME EvalInv, mode \in {"idle", "gather", "execute"}, NEW m \in Module, status[m] \in Started
  PROVE  Doomed(m) \subseteq {x \in Module : status[x] \in Started}
<1> DEFINE S == {x \in Module : status[x] \in Started}
<1>1. S \in SUBSET Module /\ m \in S
  OBVIOUS
<1>2. \A x \in S : \A p \in Range(parents[x]) : status[p] # "evaluated" => p \in S
  BY QuietStarted
<1> HIDE DEF S
<1>3. Doomed(m) \subseteq S
  BY <1>1, <1>2 DEF Doomed
<1> QED BY <1>3 DEF S

LEMMA RejectedShape ==
  ASSUME EvalInv, mode \in {"idle", "gather", "execute"}, NEW m \in Module, status[m] \in Started,
         RejectedWith(m)
  PROVE  /\ status' \in [Module -> Status]
         /\ \A x \in Module : status'[x] = status[x] \/ (status[x] \in Started /\ status'[x] = "evaluated")
         /\ error' \in [Module -> BOOLEAN] /\ \A x \in Module : error[x] => error'[x]
<1>1. /\ error' = [n \in Module |-> n \in Doomed(m) \/ error[n]]
      /\ status' = [n \in Module |-> IF n \in Doomed(m) THEN "evaluated" ELSE status[n]]
  BY DEF RejectedWith
<1>2. status \in [Module -> Status] /\ "evaluated" \in Status
  BY QuietStarted DEF Status, Started
<1>3. \A x \in Doomed(m) : x \in Module => status[x] \in Started
  BY DoomedStarted
<1>4. error \in [Module -> BOOLEAN]
  BY QuietStarted
<1> HIDE DEF Doomed
<1>5. status' \in [Module -> Status]
  BY <1>1, <1>2
<1>6. \A x \in Module : status'[x] = status[x] \/ (status[x] \in Started /\ status'[x] = "evaluated")
  BY <1>1, <1>3
<1>7. error' \in [Module -> BOOLEAN] /\ \A x \in Module : error[x] => error'[x]
  BY <1>1, <1>4
<1> QED BY <1>5, <1>6, <1>7

LEMMA BodyEndsInv ==
  ASSUME EvalInv, NEW m \in Module, BodyEnds(m)
  PROVE  EvalInv'
<1>0. /\ EvalTypes /\ Begun /\ Waiting
  BY DEF EvalInv
<1>1. CASE \E b \in {"done", "threw"} : BodyIgnored(m, b)
  <2>1. PICK b \in {"done", "threw"} : BodyIgnored(m, b)
    BY <1>1
  <2>2. /\ mode = "idle" /\ mode' = "idle" /\ body' = [body EXCEPT ![m] = b]
        /\ requests' = requests /\ stack' = stack /\ anc' = anc /\ root' = root /\ parents' = parents
        /\ order' = order /\ status' = status /\ error' = error /\ pending' = pending
        /\ todo' = todo /\ frames' = frames
    BY <2>1 DEF BodyIgnored, program, walk, deps
  <2>3. frames = <<>>
    BY <2>2 DEF EvalInv, Unfinished
  <2>4. /\ body' \in [Module -> {"unstarted", "running", "done", "threw"}]
        /\ \A x \in Module : body'[x] = "running" => body[x] = "running"
    BY <2>2, QuietStarted
  <2> QED BY <2>2, <2>3, <2>4, QuietStarted, QuietInv
<1>2. CASE BodyRejected(m)
  <2>1. /\ mode = "idle" /\ mode' = "idle" /\ body' = [body EXCEPT ![m] = "threw"] /\ body[m] = "running"
        /\ requests' = requests /\ stack' = stack /\ anc' = anc /\ root' = root /\ parents' = parents
        /\ order' = order /\ pending' = pending
        /\ todo' = todo /\ frames' = frames /\ RejectedWith(m)
    BY <1>2 DEF BodyRejected, program, walk
  <2>2. frames = <<>>
    BY <2>1 DEF EvalInv, Unfinished
  <2>3. /\ body' \in [Module -> {"unstarted", "running", "done", "threw"}]
        /\ \A x \in Module : body'[x] = "running" => body[x] = "running"
    BY <2>1, QuietStarted
  <2>4. status[m] \in Started
    BY <2>1, QuietStarted
  <2>5. /\ status' \in [Module -> Status]
        /\ \A x \in Module : status'[x] = status[x] \/ (status[x] \in Started /\ status'[x] = "evaluated")
        /\ error' \in [Module -> BOOLEAN] /\ \A x \in Module : error[x] => error'[x]
    BY <2>1, <2>4, RejectedShape
  <2> QED BY <2>1, <2>2, <2>3, <2>5, QuietStarted, QuietInv
<1>3. CASE BodyFulfilled(m)
  <2>1. /\ mode = "idle" /\ mode' = "gather" /\ body' = [body EXCEPT ![m] = "done"] /\ body[m] = "running"
        /\ status' = [status EXCEPT ![m] = "evaluated"]
        /\ requests' = requests /\ stack' = stack /\ anc' = anc /\ root' = root /\ parents' = parents
        /\ order' = order /\ pending' = pending /\ error' = error
        /\ todo' = todo /\ frames' = <<Frame(m)>>
    BY <1>3 DEF BodyFulfilled, program, SetEvaluated
  <2>2. frames' \in Seq(Call)
    BY <2>1 DEF Frame, Call
  <2>3. /\ body' \in [Module -> {"unstarted", "running", "done", "threw"}]
        /\ \A x \in Module : body'[x] = "running" => body[x] = "running"
    BY <2>1, QuietStarted
  <2>4. status[m] \in Started
    BY <2>1, QuietStarted
  <2>5. /\ status' \in [Module -> Status]
        /\ \A x \in Module : status'[x] = status[x] \/ (status[x] \in Started /\ status'[x] = "evaluated")
    BY <2>1, <2>4, QuietStarted DEF Status, Started
  <2> QED BY <2>1, <2>2, <2>3, <2>5, QuietStarted, QuietInv
<1> QED BY <1>1, <1>2, <1>3 DEF BodyEnds

LEMMA ParentIs ==
  ASSUME EvalInv, AtParent
  PROVE  /\ frames # <<>> /\ Cur \in Module /\ Parent \in Module /\ status[Parent] \in Started
         /\ ~Skipped(Parent) => Parent \in Range(order)
<1>1. EvalTypes /\ mode = "gather" /\ frames # <<>> /\ Top.next <= Len(parents[Cur])
  BY DEF EvalInv, AtParent
<1>2. Cur \in Module /\ Top.next \in Nat /\ Top.next > 0
  BY <1>1, Calling
<1>3. parents[Cur] \in Seq(Module)
  BY <1>1, <1>2, QuietStarted
<1>4. Parent \in Range(parents[Cur])
  <2>1. DOMAIN parents[Cur] = 1..Len(parents[Cur]) /\ Len(parents[Cur]) \in Nat
    BY <1>3, LenProperties
  <2>2. Top.next \in DOMAIN parents[Cur]
    BY <2>1, <1>1, <1>2
  <2> QED BY <2>2 DEF Parent, Range
<1>5. Parent \in Module /\ status[Parent] \in Started
  BY <1>1, <1>2, <1>4, QuietStarted
<1>6. Ordered(Parent)
  BY <1>2, <1>4 DEF EvalInv, Waiting
<1>7. ~Skipped(Parent) => Parent \in Range(order)
  BY <1>5, <1>6 DEF Ordered, Skipped, Started
<1> QED BY <1>1, <1>2, <1>5, <1>7

LEMMA GatherInv ==
  ASSUME EvalInv, Gather
  PROVE  EvalInv'
<1>0. EvalTypes
  BY DEF EvalInv
<1>1. CASE GatherSkips
  <2>1. /\ mode = "gather" /\ mode' = "gather" /\ AtParent /\ frames' = Advanced
        /\ requests' = requests /\ stack' = stack /\ anc' = anc /\ root' = root /\ parents' = parents
        /\ order' = order /\ status' = status /\ error' = error /\ pending' = pending
        /\ todo' = todo /\ body' = body
    BY <1>1 DEF GatherSkips, AtParent, program, deps, bodies
  <2>2. frames' \in Seq(Call)
    BY <1>0, <2>1, ParentIs, AdvanceShape
  <2> QED BY <2>1, <2>2, QuietStarted, QuietInv
<1>2. CASE GatherCounts
  <2>1. /\ mode = "gather" /\ mode' = "gather" /\ AtParent /\ ~Skipped(Parent)
        /\ pending' = [pending EXCEPT ![Parent] = @ - 1]
        /\ todo' = todo \/ todo' = todo \cup {Parent}
        /\ frames' = Advanced \/ frames' = Append(Advanced, Frame(Parent))
        /\ requests' = requests /\ stack' = stack /\ anc' = anc /\ root' = root /\ parents' = parents
        /\ order' = order /\ status' = status /\ error' = error /\ body' = body
    BY <1>2 DEF GatherCounts, AtParent, program, bodies
  <2>2. frames # <<>> /\ Parent \in Module /\ status[Parent] \in Started /\ Parent \in Range(order)
    BY <2>1, ParentIs
  <2>3. frames' \in Seq(Call)
    <3>1. Advanced \in Seq(Call)
      BY <1>0, <2>2, AdvancedIs
    <3>2. Frame(Parent) \in Call
      BY <2>2 DEF Frame, Call
    <3>3. Append(Advanced, Frame(Parent)) \in Seq(Call)
      BY ONLY <3>1, <3>2, Pushed
    <3> QED BY <2>1, <3>1, <3>3
  <2>4. /\ pending' \in [Module -> Int]
        /\ \A x \in Module : status[x] \notin Started => pending'[x] = pending[x]
    <3>1. pending \in [Module -> Int]
      BY <2>1, QuietStarted
    <3>2. pending[Parent] - 1 \in Int
      BY <3>1, <2>2
    <3> QED BY <3>1, <3>2, <2>1, <2>2
  <2>5. todo' \subseteq Module /\ todo' \subseteq Range(order) /\ \A x \in todo' : status[x] \in Started
    BY <2>1, <2>2, QuietStarted
  <2> QED BY <2>1, <2>3, <2>4, <2>5, QuietStarted, QuietInv
<1>3. CASE GatherReturns
  <2>1. /\ mode = "gather" /\ frames # <<>> /\ frames' = Returned
        /\ mode' = IF Len(frames) = 1 THEN "execute" ELSE mode
        /\ requests' = requests /\ stack' = stack /\ anc' = anc /\ root' = root /\ parents' = parents
        /\ order' = order /\ status' = status /\ error' = error /\ pending' = pending
        /\ todo' = todo /\ body' = body
    BY <1>3 DEF GatherReturns, program, deps, bodies
  <2>2. frames' \in Seq(Call) /\ (frames' = <<>> <=> Len(frames) = 1)
    BY <1>0, <2>1, ReturnShape
  <2> QED BY <2>1, <2>2, QuietStarted, QuietInv
<1> QED BY <1>1, <1>2, <1>3 DEF Gather

LEMMA Smallest ==
  ASSUME NEW I \in SUBSET Nat, I # {}
  PROVE  \E x \in I : \A y \in I : x <= y
<1> DEFINE R == {p \in Nat \X Nat : p[1] < p[2]}
<1>1. IsWellFoundedOn(R, Nat)
  BY NatLessThanWellFounded, Zenon DEF OpToRel
<1>2. \A x, y \in Nat : <<x, y>> \in R <=> x < y
  OBVIOUS
<1> HIDE DEF R
<1>3. I \subseteq Nat /\ I # {}
  OBVIOUS
<1>4. \E x \in I : \A y \in I : ~ (<<y, x>> \in R)
  BY <1>1, <1>3, WFMin, Zenon
<1>5. PICK x \in I : \A y \in I : ~ (<<y, x>> \in R)
  BY <1>4
<1>6. ASSUME NEW y \in I PROVE x <= y
  <2>1. x \in Nat /\ y \in Nat
    BY <1>3
  <2>2. ~(y < x)
    BY <1>2, <1>5, <2>1
  <2> QED BY <2>1, <2>2
<1> QED BY <1>6

\* The loop over exec_list takes a module of it.
LEMMA FirstIs ==
  ASSUME EvalInv, mode = "execute", todo # {}
  PROVE  First \in todo
<1>1. order \in Seq(Module) /\ todo \subseteq Range(order)
  BY DEF EvalInv, EvalTypes, Waiting
<1>2. DOMAIN order \subseteq Nat
  BY <1>1, LenProperties
<1>3. \A m \in todo : Stamp(m) \in Nat
  <2> TAKE m \in todo
  <2>1. \E k \in DOMAIN order : order[k] = m
    BY <1>1 DEF Range
  <2> QED BY <2>1, <1>2 DEF Stamp
<1> DEFINE I == {Stamp(m) : m \in todo}
<1>4. I \in SUBSET Nat /\ I # {}
  BY <1>3
<1>5. \E x \in I : \A y \in I : x <= y
  BY ONLY <1>4, Smallest
<1>6. \E m \in todo : \A n \in todo : Stamp(m) <= Stamp(n)
  BY <1>5
<1> QED BY <1>6 DEF First

LEMMA ExecuteInv ==
  ASSUME EvalInv, Execute
  PROVE  EvalInv'
<1>1. EvalTypes /\ mode = "execute"
  BY DEF EvalInv, Execute, ExecuteSkips, ExecuteStarts, ExecuteRuns, ExecuteThrows, ExecuteEnds, Executing
<1>2. frames = <<>> /\ <<>> \in Seq(Call)
  BY <1>1 DEF EvalInv, Unfinished
<1>3. CASE ExecuteEnds
  <2>1. /\ mode' = "idle"
        /\ requests' = requests /\ stack' = stack /\ anc' = anc /\ root' = root /\ parents' = parents
        /\ order' = order /\ status' = status /\ error' = error /\ pending' = pending
        /\ todo' = todo /\ body' = body /\ frames' = frames
    BY <1>3 DEF ExecuteEnds, program, walk, deps, bodies
  <2> QED BY <2>1, <1>1, <1>2, QuietStarted, QuietInv
<1>4. ASSUME Executing
      PROVE  First \in todo /\ First \in Module /\ status[First] \in Started /\ todo' = todo \ {First}
  BY <1>1, <1>4, FirstIs, QuietStarted DEF Executing
<1>5. CASE ExecuteSkips
  <2>1. /\ mode' = mode /\ Executing
        /\ requests' = requests /\ stack' = stack /\ anc' = anc /\ root' = root /\ parents' = parents
        /\ order' = order /\ status' = status /\ error' = error /\ pending' = pending
        /\ body' = body /\ frames' = frames
    BY <1>5 DEF ExecuteSkips, program, walk, deps, bodies
  <2> QED BY <2>1, <1>1, <1>2, <1>4, QuietStarted, QuietInv
<1>6. CASE ExecuteStarts
  <2>1. /\ mode' = mode /\ Executing
        /\ requests' = requests /\ stack' = stack /\ anc' = anc /\ root' = root /\ parents' = parents
        /\ order' = order /\ status' = status /\ error' = error /\ pending' = pending
        /\ body' = [body EXCEPT ![First] = "running"] /\ frames' = frames
    BY <1>6 DEF ExecuteStarts, Runs, program, walk, deps
  <2>2. /\ body' \in [Module -> {"unstarted", "running", "done", "threw"}]
        /\ \A x \in Module : body'[x] = "running" => body[x] = "running" \/ status[x] \in Started
    BY <2>1, <1>1, <1>4, QuietStarted
  <2> QED BY <2>1, <2>2, <1>1, <1>2, <1>4, QuietStarted, QuietInv
<1>7. CASE ExecuteRuns
  <2>1. /\ mode' = mode /\ Executing
        /\ requests' = requests /\ stack' = stack /\ anc' = anc /\ root' = root /\ parents' = parents
        /\ order' = order /\ error' = error /\ pending' = pending
        /\ status' = [status EXCEPT ![First] = "evaluated"]
        /\ body' = [body EXCEPT ![First] = "done"] /\ frames' = frames
    BY <1>7 DEF ExecuteRuns, Runs, SetEvaluated, program, walk, deps
  <2>2. /\ body' \in [Module -> {"unstarted", "running", "done", "threw"}]
        /\ \A x \in Module : body'[x] = "running" => body[x] = "running"
    BY <2>1, <1>1, <1>4, QuietStarted
  <2>3. /\ status' \in [Module -> Status]
        /\ \A x \in Module : status'[x] = status[x] \/ (status[x] \in Started /\ status'[x] = "evaluated")
    BY <2>1, <1>1, <1>4, QuietStarted DEF Status, Started
  <2> QED BY <2>1, <2>2, <2>3, <1>1, <1>2, <1>4, QuietStarted, QuietInv
<1>8. CASE ExecuteThrows
  <2>1. /\ mode' = mode /\ Executing
        /\ requests' = requests /\ stack' = stack /\ anc' = anc /\ root' = root /\ parents' = parents
        /\ order' = order /\ pending' = pending /\ RejectedWith(First)
        /\ body' = [body EXCEPT ![First] = "threw"] /\ frames' = frames
    BY <1>8 DEF ExecuteThrows, Runs, program, walk
  <2>2. /\ body' \in [Module -> {"unstarted", "running", "done", "threw"}]
        /\ \A x \in Module : body'[x] = "running" => body[x] = "running"
    BY <2>1, <1>1, <1>4, QuietStarted
  <2>3. /\ status' \in [Module -> Status]
        /\ \A x \in Module : status'[x] = status[x] \/ (status[x] \in Started /\ status'[x] = "evaluated")
        /\ error' \in [Module -> BOOLEAN] /\ \A x \in Module : error[x] => error'[x]
    BY <2>1, <1>1, <1>4, RejectedShape
  <2> QED BY <2>1, <2>2, <2>3, <1>1, <1>2, <1>4, QuietStarted, QuietInv
<1> QED BY <1>3, <1>5, <1>6, <1>7, <1>8 DEF Execute

-----------------------------------------------------------------------------
(* The invariant, and what it says of linked modules. *)

LEMMA OrdersAreSeqs ==
  ASSUME NEW s \in Orders(Module)
  PROVE  s \in Seq(Module)
<1>1. PICK n \in 0..Cardinality(Module) : s \in [1..n -> Module]
  BY DEF Orders
<1>2. n \in Nat
  BY <1>1
<1> QED BY <1>1, <1>2

LEMMA EvalInitInv == Init => EvalInv
<1> SUFFICES ASSUME Init PROVE EvalInv
  OBVIOUS
<1>0. requests \in [Module -> Orders(Module)]
  BY DEF Init
<1>1. /\ status = [m \in Module |-> "unlinked"]
      /\ stack = <<>> /\ frames = <<>> /\ order = <<>>
      /\ anc = [m \in Module |-> 0]
      /\ pending = [m \in Module |-> 0]
      /\ parents = [m \in Module |-> <<>>]
      /\ root = [m \in Module |-> None]
      /\ error = [m \in Module |-> FALSE]
      /\ body = [m \in Module |-> "unstarted"]
      /\ mode = "idle" /\ todo = {}
  BY DEF Init
<1>2. requests \in [Module -> Seq(Module)]
  BY <1>0, OrdersAreSeqs
<1>3. EvalTypes
  <2>1. status = [m \in Module |-> "unlinked"] /\ "unlinked" \in Status
    BY <1>1 DEF Status
  <2>2. status \in [Module -> Status]
    BY ONLY <2>1
  <2>3. anc = [m \in Module |-> 0] /\ pending = [m \in Module |-> 0]
    BY <1>1
  <2>4. anc \in [Module -> Nat] /\ pending \in [Module -> Int]
    BY ONLY <2>3
  <2>5. root = [m \in Module |-> None] /\ error = [m \in Module |-> FALSE] /\ body = [m \in Module |-> "unstarted"]
    BY <1>1
  <2>6. /\ root \in [Module -> Module \cup {None}] /\ error \in [Module -> BOOLEAN]
        /\ body \in [Module -> {"unstarted", "running", "done", "threw"}]
    BY ONLY <2>5
  <2>7. stack = <<>> /\ order = <<>> /\ frames = <<>> /\ parents = [m \in Module |-> <<>>]
    BY <1>1
  <2>8. stack \in Seq(Module) /\ IsInjective(stack) /\ order \in Seq(Module) /\ frames \in Seq(Call)
    BY ONLY <2>7, Empty, Zenon
  <2>9. parents \in [Module -> Seq(Module)]
    BY ONLY <2>7
  <2>10. mode = "idle" /\ todo = {}
    BY <1>1
  <2> QED BY <1>2, <2>2, <2>4, <2>6, <2>8, <2>9, <2>10 DEF EvalTypes
<1>4. \A m \in Module : Range(parents[m]) = {} /\ status[m] = "unlinked" /\ m \notin Range(stack)
  <2>1. stack = <<>> /\ parents = [m \in Module |-> <<>>] /\ status = [m \in Module |-> "unlinked"]
    BY <1>1
  <2>2. Range(<<>>) = {}
    BY ONLY Empty, Zenon
  <2> QED BY ONLY <2>1, <2>2, Zenon
<1>5. Unfinished
  BY <1>1, <1>4 DEF Unfinished
<1>6. Begun /\ Waiting
  <2>1. body = [m \in Module |-> "unstarted"] /\ pending = [m \in Module |-> 0] /\ todo = {}
    BY <1>1
  <2>2. \A m \in Module : body[m] # "running" /\ pending[m] >= 0
    <3> TAKE m \in Module
    <3>1. body[m] = "unstarted" /\ pending[m] = 0
      BY ONLY <2>1, m \in Module, Zenon
    <3>2. pending[m] >= 0
      <4>1. pending[m] \in Int
        BY <1>3 DEF EvalTypes
      <4>2. pending[m] = 0
        BY <3>1
      <4> QED BY ONLY <4>1, <4>2
    <3>3. body[m] # "running"
      BY <3>1
    <3> QED BY <3>2, <3>3
  <2>3. \A m \in Module : status[m] \notin Started
    BY <1>4 DEF Started
  <2> QED BY <1>4, <2>1, <2>2, <2>3 DEF Begun, Waiting
<1>7. Closed
  BY <1>4 DEF Closed
<1> QED BY <1>1, <1>3, <1>5, <1>6, <1>7 DEF EvalInv

LEMMA EvaluateInv ==
  ASSUME EvalInv, Evaluate
  PROVE  EvalInv'
<1>1. CASE EvaluateAgain
  BY <1>1, WalkEndsInv DEF EvaluateAgain, Linked
<1>2. CASE EvaluateStarted
  BY <1>2, WalkEndsInv DEF EvaluateStarted, Linked
<1>3. CASE EvaluateFirst
  BY <1>3, EvaluateFirstInv
<1>4. CASE EvaluateReturns
  BY <1>4, WalkEndsInv DEF EvaluateReturns
<1>5. CASE EvalRequest
  BY <1>5, EvalRequestInv
<1>6. CASE EvalReturned
  BY <1>6, EvalReturnedInv
<1>7. CASE EvalChildFailed
  <2>1. /\ mode = "eval" /\ frames # <<>> /\ Abandon /\ body' = body
        /\ UNCHANGED <<program, goal, order, pending, parents, todo>>
    BY <1>7 DEF EvalChildFailed, AtRequest, bodies
  <2> QED BY <2>1, AbandonInv
<1>8. CASE EvalWaits
  <2>1. /\ mode = "eval" /\ AtEnd /\ order' = Append(order, Cur) /\ body' = body
        /\ CloseEvaluation([async EXCEPT ![Cur] = TRUE])
    BY <1>8 DEF EvalWaits, BecomesAsync, bodies
  <2> QED BY <2>1, CloseEvaluationInv
<1>9. CASE EvalStarts
  <2>1. /\ mode = "eval" /\ AtEnd /\ order' = Append(order, Cur) /\ body' = [body EXCEPT ![Cur] = "running"]
        /\ CloseEvaluation([async EXCEPT ![Cur] = TRUE])
    BY <1>9 DEF EvalStarts, BecomesAsync, Runs
  <2> QED BY <2>1, CloseEvaluationInv
<1>10. CASE EvalRuns
  <2>1. /\ mode = "eval" /\ AtEnd /\ order' = order /\ pending[Cur] = 0
        /\ body' = [body EXCEPT ![Cur] = "done"] /\ CloseEvaluation(async)
    BY <1>10 DEF EvalRuns, Runs
  <2> QED BY <2>1, CloseEvaluationInv
<1>11. CASE EvalThrows
  <2>1. /\ mode = "eval" /\ frames # <<>> /\ Abandon /\ body' = [body EXCEPT ![Cur] = "threw"]
        /\ UNCHANGED <<program, goal, order, pending, parents, todo>>
    BY <1>11 DEF EvalThrows, AtEnd, Runs
  <2> QED BY <2>1, AbandonInv
<1> QED BY <1>1, <1>2, <1>3, <1>4, <1>5, <1>6, <1>7, <1>8, <1>9, <1>10, <1>11 DEF Evaluate

LEMMA EvalNextInv == EvalInv /\ [Next]_vars => EvalInv'
<1> SUFFICES ASSUME EvalInv, [Next]_vars PROVE EvalInv'
  OBVIOUS
<1>1. CASE Link
  BY <1>1, LinkRequestInv, LinkReturnedInv, LinkDoneInv, LinkFailsInv DEF Link
<1>2. CASE Evaluate
  BY <1>2, EvaluateInv
<1>3. CASE Gather
  BY <1>3, GatherInv
<1>4. CASE Execute
  BY <1>4, ExecuteInv
<1>5. CASE \E m \in Module : Import(m) \/ BodyEnds(m)
  BY <1>5, ImportInv, BodyEndsInv
<1>6. CASE UNCHANGED vars
  <2>1. /\ requests' = requests /\ status' = status /\ stack' = stack /\ anc' = anc /\ frames' = frames
        /\ mode' = mode /\ goal' = goal /\ order' = order /\ pending' = pending /\ parents' = parents
        /\ root' = root /\ error' = error /\ todo' = todo /\ body' = body
    BY <1>6 DEF vars, program, walk, deps, bodies
  <2>2. EvalTypes' /\ Unfinished'
    BY <2>1 DEF EvalInv, EvalTypes, Unfinished
  <2>3. Begun' /\ Waiting'
    BY <2>1 DEF EvalInv, Begun, Waiting, Ordered
  <2>4. (mode \in {"link", "eval"} => Walk)' /\ (mode \notin {"link", "eval"} => stack = <<>>)'
    BY <2>1 DEF EvalInv, Walk, Grounded, Standing, Nested, Asked, Lowered
  <2>5. (mode = "link" => Linking /\ Low)' /\ (mode # "link" => Closed)'
    BY <2>1 DEF EvalInv, Linking, Low, Walked, Closed
  <2>6. (mode = "link" => Merged)'
    BY <2>1 DEF EvalInv, Merged, Below, Unmerged, Asked
  <2> QED BY <2>2, <2>3, <2>4, <2>5, <2>6 DEF EvalInv
<1> QED BY <1>1, <1>2, <1>3, <1>4, <1>5, <1>6 DEF Next, Job

\* The calls of the walks and the stack of unfinished modules keep to each
\* other, and dfs_ancestor_index keeps components together.
THEOREM EvalInvariant == Spec => []EvalInv
BY EvalInitInv, EvalNextInv, PTL DEF Spec

\* js_link_module: whatever failed to link, what a linked module needs is
\* linked.
THEOREM LinksWhole == Spec => []LinkedTogether
<1>1. EvalInv => LinkedTogether
  <2> SUFFICES ASSUME EvalInv, mode # "link", NEW m \in Module, status[m] # "unlinked", NEW d \in Reach(m)
               PROVE  status[d] # "unlinked"
    BY DEF LinkedTogether
  <2> DEFINE S == {x \in Module : status[x] # "unlinked"}
  <2>1. \A x \in S : Range(requests[x]) \subseteq S
    BY EvalRanges DEF EvalInv, Closed, Range
  <2>2. S \in SUBSET Module /\ m \in S
    OBVIOUS
  <2> HIDE DEF S
  <2>3. d \in S
    BY <2>1, <2>2 DEF Reach
  <2> QED BY <2>3 DEF S
<1> QED BY <1>1, EvalInvariant, PTL

-----------------------------------------------------------------------------
(* What each step of an evaluation changes. *)

Calls == {frames[i].mod : i \in DOMAIN frames}
Stamped == Range(order)
Bodies == {"unstarted", "running", "done", "threw"}
Promises == {"none", "pending", "fulfilled", "rejected"}

\* The variables that linking has nothing to do with.
LifeTypes ==
  /\ async \in [Module -> BOOLEAN] /\ ran \in [Module -> Nat]
  /\ promise \in [Module -> Promises]
  /\ goal \in Module \cup {None} /\ imports \in 0..MaxImports

\* What js_link_module leaves alone.
LEMMA LinkEffect ==
  ASSUME EvalInv, (\E m \in Module : Import(m)) \/ Link \/ EvaluateAgain
  PROVE  /\ mode \in {"idle", "link"} /\ mode' \in {"idle", "link"}
         /\ \A x \in Module : /\ status[x] # "evaluating" /\ status'[x] # "evaluating"
                              /\ status'[x] \in Started <=> status[x] \in Started
                              /\ status[x] \in Started => status'[x] = status[x]
         /\ requests' = requests /\ tla' = tla /\ promise' = promise /\ todo' = todo
         /\ async' = async /\ order' = order /\ pending' = pending /\ parents' = parents
         /\ root' = root /\ error' = error /\ ran' = ran /\ body' = body
<1>0. EvalTypes /\ Unfinished
  BY DEF EvalInv
<1>1. CASE \E m \in Module : Import(m)
  <2>1. PICK m \in Module : Import(m)
    BY <1>1
  <2>2. /\ mode = "idle" /\ mode' = "link"
        /\ (status[m] = "unlinked" /\ Open(m, "linking")) \/ status' = status
        /\ UNCHANGED <<program, deps, promise, todo, bodies>>
    BY <2>1 DEF Import
  <2>3. \A x \in Module : status[x] \notin {"linking", "evaluating"}
    BY <2>2, <1>0 DEF Unfinished
  <2>4. \A x \in Module : status'[x] = status[x] \/ (status[x] = "unlinked" /\ status'[x] = "linking")
    BY <2>2, <1>0 DEF Open, EvalTypes
  <2> QED BY <2>2, <2>3, <2>4 DEF program, deps, bodies, Started
<1>2. CASE LinkRequest
  <2>1. /\ mode = "link" /\ mode' = "link" /\ status[Child] = "unlinked" /\ Open(Child, "linking")
        /\ UNCHANGED <<program, deps, promise, todo, bodies>>
    BY <1>2 DEF LinkRequest
  <2>2. \A x \in Module : status[x] # "evaluating"
    BY <2>1, <1>0 DEF Unfinished
  <2>3. \A x \in Module : status'[x] = status[x] \/ (status[x] = "unlinked" /\ status'[x] = "linking")
    BY <2>1, <1>0 DEF Open, EvalTypes
  <2> QED BY <2>1, <2>2, <2>3 DEF program, deps, bodies, Started
<1>3. CASE LinkReturned
  <2>1. /\ mode = "link" /\ mode' = "link" /\ status' = status
        /\ UNCHANGED <<program, deps, promise, todo, bodies>>
    BY <1>3 DEF LinkReturned
  <2>2. \A x \in Module : status[x] # "evaluating"
    BY <2>1, <1>0 DEF Unfinished
  <2> QED BY <2>1, <2>2 DEF program, deps, bodies
<1>4. CASE LinkDone
  <2> DEFINE done == [m \in Module |-> "linked"]
  <2>1. /\ mode = "link" /\ mode' = "link" /\ AtEnd /\ Close(done)
        /\ UNCHANGED <<program, deps, promise, todo, bodies>>
    BY <1>4 DEF LinkDone
  <2>2. \A x \in Module : status[x] # "evaluating"
    BY <2>1, <1>0 DEF Unfinished
  <2>3. done \in [Module -> Status] /\ \A m \in Module : done[m] = "linked"
    BY DEF Status
  <2> HIDE DEF done
  <2>4. \A x \in Module : status'[x] = status[x] \/ (status[x] = "linking" /\ status'[x] = "linked")
    <3>1. CASE IsRoot
      <4>1. /\ \A m \in Component : \E k \in DOMAIN stack : stack[k] = m /\ k >= Index(Cur)
            /\ \A m \in Module : m \in Component => status'[m] = done[m]
            /\ \A m \in Module : m \notin Component => status'[m] = status[m]
        BY <3>1, <2>1, <2>3, <1>0, CloseShape DEF AtEnd, EvalInv
      <4>2. \A m \in Module : m \in Component => status[m] = "linking"
        <5> SUFFICES ASSUME NEW m \in Module, m \in Component PROVE status[m] = "linking"
          OBVIOUS
        <5>1. m \in Range(stack)
          BY <4>1 DEF Range
        <5> QED BY <5>1, <2>2, <1>0 DEF Unfinished
      <4> QED BY <4>1, <4>2, <2>3
    <3>2. CASE ~IsRoot
      BY <3>2, <2>1 DEF Close
    <3> QED BY <3>1, <3>2
  <2> QED BY <2>1, <2>2, <2>4 DEF program, deps, bodies, Started
<1>5. CASE LinkFails
  <2>1. /\ mode = "link" /\ Unwind("unlinked")
        /\ UNCHANGED <<program, deps, promise, todo, bodies>>
    BY <1>5 DEF LinkFails
  <2>2. \A x \in Module : status[x] # "evaluating"
    BY <2>1, <1>0 DEF Unfinished
  <2>3. \A x \in Module : status'[x] = status[x] \/ (status[x] = "linking" /\ status'[x] = "unlinked")
    BY <2>1, <2>2, <1>0 DEF Unwind, Unfinished
  <2> QED BY <2>1, <2>2, <2>3 DEF program, deps, bodies, Started, Unwind
<1>6. CASE EvaluateAgain
  <2>1. /\ mode = "link" /\ mode' = "idle" /\ status' = status
        /\ UNCHANGED <<program, deps, promise, todo, bodies>>
    BY <1>6 DEF EvaluateAgain, Linked
  <2>2. \A x \in Module : status[x] # "evaluating"
    BY <2>1, <1>0 DEF Unfinished
  <2> QED BY <2>1, <2>2 DEF program, deps, bodies
<1> QED BY <1>1, <1>2, <1>3, <1>4, <1>5, <1>6 DEF Link

\* The calls of a walk are those of modules on its stack.
LEMMA CallsStand ==
  ASSUME EvalTypes, Standing
  PROVE  Calls \subseteq Module /\ \A x \in Calls : x \in Range(stack)
BY EvalRanges DEF Calls, Standing, Range

LEMMA OpenCalls ==
  ASSUME EvalTypes, NEW m \in Module, NEW s \in Status, Open(m, s), m \notin Range(stack)
  PROVE  Calls' = Calls \cup {m}
<1>1. /\ DOMAIN frames = 1..Len(frames) /\ Len(frames) \in Nat
      /\ DOMAIN frames' = 1..(Len(frames) + 1)
      /\ \A i \in DOMAIN frames : frames'[i] = frames[i]
      /\ frames'[Len(frames) + 1].mod = m
  BY OpenShape, EvalRanges
<1>2. Len(frames) + 1 \in DOMAIN frames' /\ \A i \in DOMAIN frames : i \in DOMAIN frames'
  BY <1>1
<1>3. \A i \in DOMAIN frames' : i \in DOMAIN frames \/ i = Len(frames) + 1
  BY <1>1
<1> QED BY <1>1, <1>2, <1>3 DEF Calls

LEMMA AdvanceCalls ==
  ASSUME EvalTypes, frames # <<>>, frames' = Advanced
  PROVE  Calls' = Calls
BY AdvanceShape DEF Calls

LEMMA ReturnCalls ==
  ASSUME EvalTypes, Walk, frames # <<>>, frames' = Returned
  PROVE  Calls' = Calls \ {Cur} /\ Cur \in Calls
<1>1. /\ DOMAIN frames' = 1..(Len(frames) - 1) /\ DOMAIN frames = 1..Len(frames) /\ Len(frames) \in Nat
      /\ \A i \in DOMAIN frames' : frames'[i] = frames[i] /\ i \in DOMAIN frames /\ i # Len(frames)
      /\ Cur = frames[Len(frames)].mod /\ Len(frames) \in DOMAIN frames
      /\ \A i \in DOMAIN frames : frames[i].mod = Cur => i = Len(frames)
  BY ReturnShape, EvalRanges, Stands DEF Walk
<1>2. \A i \in DOMAIN frames : i # Len(frames) => i \in DOMAIN frames'
  BY <1>1
<1> QED BY <1>1, <1>2 DEF Calls

\* A module is opened for evaluation, by js_evaluate_module or by a request.
LEMMA OpenEffect ==
  ASSUME EvalInv, EvaluateFirst \/ EvalRequest
  PROVE  /\ mode' = "eval" /\ goal' = goal /\ goal \in Module
         /\ \E m \in Module :
              /\ m \notin Range(stack) /\ Open(m, "evaluating")
              /\ status[m] = "linked" /\ status'[m] = "evaluating"
              /\ \A x \in Module : x # m => status'[x] = status[x]
              /\ Calls' = Calls \cup {m} /\ m \notin Calls
              /\ \/ EvalRequest /\ mode = "eval" /\ AtRequest /\ m = Child /\ promise' = promise
                 \/ /\ EvaluateFirst /\ mode = "link" /\ frames = <<>> /\ stack = <<>> /\ m = goal
                    /\ promise[m] = "none" /\ promise' = [promise EXCEPT ![m] = "pending"]
                    /\ \A x \in Module : status[x] # "evaluating"
         /\ requests' = requests /\ tla' = tla /\ todo' = todo
         /\ async' = async /\ order' = order /\ pending' = pending /\ parents' = parents
         /\ root' = root /\ error' = error /\ ran' = ran /\ body' = body
<1>1. EvalTypes /\ Walk /\ "evaluating" \in Status /\ Standing /\ Unfinished
  BY DEF EvalInv, EvaluateFirst, EvalRequest, Linked, Status, Walk
<1>2. \A m \in Module : m \notin Range(stack) => m \notin Calls
  BY <1>1, CallsStand
<1>3. CASE EvalRequest
  <2>1. /\ mode = "eval" /\ AtRequest /\ status[Child] = "linked" /\ Open(Child, "evaluating")
        /\ UNCHANGED <<program, mode, goal, deps, promise, todo, bodies, imports>>
    BY <1>3 DEF EvalRequest
  <2>2. Child \in Module
    BY <1>1, <2>1, Asking
  <2>3. Child \notin Range(stack) /\ goal \in Module
    BY <1>1, <2>1, <2>2 DEF Unfinished, EvalTypes
  <2>4. status'[Child] = "evaluating" /\ \A x \in Module : x # Child => status'[x] = status[x]
    BY <2>1, <2>2, <1>1 DEF Open, EvalTypes
  <2>5. Calls' = Calls \cup {Child}
    BY <1>1, <2>1, <2>2, <2>3, OpenCalls
  <2>6. /\ mode' = "eval" /\ goal' = goal /\ promise' = promise
        /\ requests' = requests /\ tla' = tla /\ todo' = todo
        /\ async' = async /\ order' = order /\ pending' = pending /\ parents' = parents
        /\ root' = root /\ error' = error /\ ran' = ran /\ body' = body
    BY <2>1 DEF program, deps, bodies
  <2> QED BY <1>2, <1>3, <2>1, <2>2, <2>3, <2>4, <2>5, <2>6
<1>4. CASE EvaluateFirst
  <2>1. /\ mode = "link" /\ frames = <<>> /\ promise[Target] = "none" /\ status[Target] \notin Started
        /\ promise' = [promise EXCEPT ![Target] = "pending"] /\ mode' = "eval"
        /\ Open(Target, "evaluating")
        /\ UNCHANGED <<program, goal, deps, todo, bodies, imports>>
    BY <1>4 DEF EvaluateFirst, Linked
  <2>2. goal \in Module /\ status[goal] # "unlinked"
    BY <1>1, <2>1 DEF EvalTypes, Unfinished
  <2>3. Target = goal
    BY <1>1, <2>1, <2>2 DEF Target, EvalInv, Begun
  <2>4. stack = <<>> /\ \A x \in Module : status[x] \notin {"linking", "evaluating"}
    BY <2>1, WalkOver
  <2>5. status[goal] = "linked" /\ goal \notin Range(stack)
    BY <1>1, <2>1, <2>2, <2>3, <2>4 DEF EvalTypes, Status, Unfinished
  <2>6. status'[goal] = "evaluating" /\ \A x \in Module : x # goal => status'[x] = status[x]
    BY <2>1, <2>2, <2>3, <1>1 DEF Open, EvalTypes
  <2>7. Calls' = Calls \cup {goal}
    BY <1>1, <2>1, <2>2, <2>3, <2>5, OpenCalls
  <2>8. /\ mode' = "eval" /\ goal' = goal
        /\ requests' = requests /\ tla' = tla /\ todo' = todo
        /\ async' = async /\ order' = order /\ pending' = pending /\ parents' = parents
        /\ root' = root /\ error' = error /\ ran' = ran /\ body' = body
    BY <2>1 DEF program, deps, bodies
  <2> QED BY <1>2, <1>4, <2>1, <2>2, <2>3, <2>4, <2>5, <2>6, <2>7, <2>8
<1> QED BY <1>3, <1>4

\* A request that returned: what waits for it is noted on both sides.
LEMMA ReturnedEffect ==
  ASSUME EvalInv, EvalReturned
  PROVE  /\ mode = "eval" /\ mode' = "eval" /\ goal' = goal /\ goal \in Module /\ AtRequest
         /\ frames # <<>> /\ Cur \in Module /\ Cur \in Calls /\ status[Cur] = "evaluating"
         /\ Child \in Module /\ status[Child] \in Started \cup {"evaluating"}
         /\ Dependency \in Module /\ ~ChildFailed
         /\ Calls' = Calls
         /\ status' = status /\ stack' = stack
         /\ requests' = requests /\ tla' = tla /\ todo' = todo /\ promise' = promise
         /\ async' = async /\ order' = order
         /\ root' = root /\ error' = error /\ ran' = ran /\ body' = body
         /\ \/ /\ async[Dependency] /\ pending' = [pending EXCEPT ![Cur] = @ + 1]
               /\ parents' = [parents EXCEPT ![Dependency] = Append(@, Cur)]
            \/ ~async[Dependency] /\ pending' = pending /\ parents' = parents
<1>1. EvalTypes /\ Walk /\ Unfinished /\ Closed /\ Begun /\ mode = "eval" /\ AtRequest
  BY DEF EvalInv, EvalReturned
<1>2. /\ mode' = "eval" /\ goal' = goal /\ goal \in Module /\ ~ChildFailed /\ frames' = Advanced
      /\ status' = status /\ stack' = stack /\ status[Child] # "linked"
      /\ requests' = requests /\ tla' = tla /\ todo' = todo /\ promise' = promise
      /\ async' = async /\ order' = order
      /\ root' = root /\ error' = error /\ ran' = ran /\ body' = body
      /\ \/ /\ async[Dependency] /\ pending' = [pending EXCEPT ![Cur] = @ + 1]
            /\ parents' = [parents EXCEPT ![Dependency] = Append(@, Cur)]
         \/ ~async[Dependency] /\ pending' = pending /\ parents' = parents
  BY <1>1 DEF EvalReturned, program, bodies, EvalTypes
<1>3. /\ frames # <<>> /\ Child \in Module /\ Cur \in Module /\ Len(frames) \in DOMAIN frames
      /\ Cur = frames[Len(frames)].mod
      /\ Top.next \in DOMAIN requests[Cur] /\ Child = requests[Cur][Top.next]
  BY <1>1, Asking, Calling
<1>4. Calls' = Calls /\ Cur \in Calls
  BY <1>1, <1>2, <1>3, AdvanceCalls DEF Calls
<1>5. status[Cur] = "evaluating"
  <2>1. Cur \in Range(stack)
    BY <1>1, <1>4, CallsStand DEF Walk
  <2> QED BY <2>1, <1>1, <1>3 DEF Unfinished
<1>6. status[Child] \in Started \cup {"evaluating"}
  <2>1. status[Child] # "unlinked"
    BY <1>1, <1>3, <1>5 DEF Closed
  <2>2. status[Child] # "linking" /\ status[Child] \in Status
    BY <1>1, <1>3 DEF Unfinished, EvalTypes
  <2> QED BY <2>1, <2>2, <1>2 DEF Status
<1>7. Dependency \in Module
  BY <1>1, <1>3, <1>6 DEF Dependency, Begun
<1> QED BY <1>1, <1>2, <1>3, <1>4, <1>5, <1>6, <1>7

\* What is on the stack fails, with the module that was to be evaluated.
LEMMA AbandonEffect ==
  ASSUME EvalInv, LifeTypes, EvalChildFailed \/ EvalThrows
  PROVE  /\ mode = "eval" /\ mode' = "idle" /\ goal' = goal /\ frames # <<>>
         /\ Cur \in Module /\ Cur \in Calls /\ status[Cur] = "evaluating"
         /\ goal \in Module /\ goal \in Calls /\ status[goal] = "evaluating"
         /\ \A m \in Module : m \in Range(stack) <=> status[m] = "evaluating"
         /\ \A m \in Module : IF status[m] = "evaluating"
              THEN status'[m] = "evaluated" /\ error'[m] /\ root'[m] = goal
              ELSE status'[m] = status[m] /\ error'[m] = error[m] /\ root'[m] = root[m]
         /\ promise' = [promise EXCEPT ![goal] = "rejected"]
         /\ requests' = requests /\ tla' = tla /\ todo' = todo
         /\ async' = async /\ order' = order /\ pending' = pending /\ parents' = parents
         /\ \A x \in Module : x # Cur => ran'[x] = ran[x] /\ body'[x] = body[x]
         /\ \/ /\ EvalChildFailed /\ AtRequest /\ ChildFailed /\ Child \in Module
               /\ status[Child] \in Started /\ ran' = ran /\ body' = body
            \/ /\ EvalThrows /\ AtEnd /\ pending[Cur] = 0
               /\ body'[Cur] = "threw" /\ ran'[Cur] = ran[Cur] + 1
<1>1. EvalTypes /\ Walk /\ Unfinished /\ mode = "eval" /\ frames # <<>>
  BY DEF EvalInv, EvalChildFailed, EvalThrows, AtRequest, AtEnd
<1>2. /\ Abandon /\ goal' = goal /\ requests' = requests /\ tla' = tla /\ todo' = todo
      /\ async' = async /\ order' = order /\ pending' = pending /\ parents' = parents
  BY DEF EvalChildFailed, EvalThrows, program
<1>3. \/ EvalChildFailed /\ AtRequest /\ ChildFailed /\ ran' = ran /\ body' = body
      \/ /\ EvalThrows /\ AtEnd /\ pending[Cur] = 0
         /\ body' = [body EXCEPT ![Cur] = "threw"] /\ ran' = [ran EXCEPT ![Cur] = @ + 1]
  BY DEF EvalChildFailed, EvalThrows, Runs, bodies
<1>4. /\ Cur \in Module /\ Cur \in Calls /\ goal \in Module /\ goal \in Calls
  <2>1. /\ Len(frames) \in DOMAIN frames /\ Cur = frames[Len(frames)].mod /\ Cur \in Module
        /\ 1 \in DOMAIN frames
    BY <1>1, Calling, EvalRanges
  <2>2. frames[1].mod = goal /\ goal \in Module
    BY <1>1 DEF Unfinished, EvalTypes
  <2> QED BY <2>1, <2>2 DEF Calls
<1>5. \A m \in Module : m \in Range(stack) <=> status[m] = "evaluating"
  BY <1>1 DEF Unfinished
<1>6. status[Cur] = "evaluating" /\ status[goal] = "evaluating"
  BY <1>1, <1>4, <1>5, CallsStand DEF Walk
<1>7. /\ status' = [m \in Module |-> IF m \in Range(stack) THEN "evaluated" ELSE status[m]]
      /\ error' = [m \in Module |-> m \in Range(stack) \/ error[m]]
      /\ root' = [m \in Module |-> IF m \in Range(stack) THEN goal ELSE root[m]]
      /\ promise' = [promise EXCEPT ![goal] = "rejected"] /\ mode' = "idle"
  BY <1>2 DEF Abandon, Unwind
<1>8. ASSUME NEW m \in Module
      PROVE  IF status[m] = "evaluating"
               THEN status'[m] = "evaluated" /\ error'[m] /\ root'[m] = goal
               ELSE status'[m] = status[m] /\ error'[m] = error[m] /\ root'[m] = root[m]
  <2>1. error[m] \in BOOLEAN
    BY <1>1 DEF EvalTypes
  <2> QED BY <2>1, <1>5, <1>7
<1>9. body \in [Module -> Bodies]
  BY <1>1 DEF EvalTypes, Bodies
<1>10. /\ \A x \in Module : x # Cur => ran'[x] = ran[x] /\ body'[x] = body[x]
       /\ \/ EvalChildFailed /\ AtRequest /\ ChildFailed /\ ran' = ran /\ body' = body
          \/ /\ EvalThrows /\ AtEnd /\ pending[Cur] = 0
             /\ body'[Cur] = "threw" /\ ran'[Cur] = ran[Cur] + 1
  <2>1. ran \in [Module -> Nat]
    BY DEF LifeTypes
  <2> QED BY <1>3, <1>4, <1>9, <2>1
<1>11. EvalChildFailed => Child \in Module /\ status[Child] \in Started
  BY <1>1, Asking DEF EvalChildFailed, ChildFailed
<1> QED BY <1>1, <1>2, <1>4, <1>5, <1>6, <1>7, <1>8, <1>10, <1>11

\* The end of an evaluation; what leaves the stack has its root and status.
Leaving == IF IsRoot THEN Component ELSE {}

LEMMA CloseEffect ==
  ASSUME EvalInv, LifeTypes, EvalWaits \/ EvalStarts \/ EvalRuns
  PROVE  /\ mode = "eval" /\ mode' = "eval" /\ goal' = goal /\ AtEnd
         /\ Cur \in Module /\ Cur \in Calls /\ status[Cur] = "evaluating"
         /\ Calls' = Calls \ {Cur} /\ Cur \in Range(stack)
         /\ Leaving \subseteq Module /\ (Leaving # {} => Cur \in Leaving)
         /\ goal \in Module /\ (goal \in Leaving => Cur = goal)
         /\ frames' = <<>> => goal \in Leaving
         /\ \A m \in Leaving : status[m] = "evaluating" /\ (m \in Calls => m = Cur)
         /\ \A m \in Module : m \in Leaving =>
              root'[m] = Cur /\ status'[m] = IF async'[m] THEN "evaluating_async" ELSE "evaluated"
         /\ \A m \in Module : m \notin Leaving => root'[m] = root[m] /\ status'[m] = status[m]
         /\ requests' = requests /\ tla' = tla /\ todo' = todo /\ promise' = promise
         /\ pending' = pending /\ parents' = parents /\ error' = error
         /\ \A x \in Module : x # Cur => async'[x] = async[x] /\ ran'[x] = ran[x] /\ body'[x] = body[x]
         /\ \/ /\ EvalWaits /\ pending[Cur] > 0 /\ async'[Cur] /\ order' = Append(order, Cur)
               /\ body'[Cur] = body[Cur] /\ ran'[Cur] = ran[Cur]
            \/ /\ EvalStarts /\ pending[Cur] = 0 /\ async'[Cur] /\ order' = Append(order, Cur)
               /\ body'[Cur] = "running" /\ ran'[Cur] = ran[Cur] + 1
            \/ /\ EvalRuns /\ pending[Cur] = 0 /\ async'[Cur] = async[Cur] /\ order' = order
               /\ body'[Cur] = "done" /\ ran'[Cur] = ran[Cur] + 1
<1> DEFINE done == [m \in Module |-> IF async'[m] THEN "evaluating_async" ELSE "evaluated"]
           n == Len(frames)
<1>1. EvalTypes /\ Walk /\ Unfinished /\ mode = "eval" /\ AtEnd /\ frames # <<>>
  BY DEF EvalInv, EvalWaits, EvalStarts, EvalRuns, AtEnd
<1>2. /\ \/ /\ EvalWaits /\ pending[Cur] > 0 /\ async' = [async EXCEPT ![Cur] = TRUE]
            /\ order' = Append(order, Cur) /\ body' = body /\ ran' = ran
         \/ /\ EvalStarts /\ pending[Cur] = 0 /\ async' = [async EXCEPT ![Cur] = TRUE]
            /\ order' = Append(order, Cur)
            /\ body' = [body EXCEPT ![Cur] = "running"] /\ ran' = [ran EXCEPT ![Cur] = @ + 1]
         \/ /\ EvalRuns /\ pending[Cur] = 0 /\ async' = async /\ order' = order
            /\ body' = [body EXCEPT ![Cur] = "done"] /\ ran' = [ran EXCEPT ![Cur] = @ + 1]
      /\ CloseEvaluation(async')
  BY DEF EvalWaits, EvalStarts, EvalRuns, BecomesAsync, CloseEvaluation, Runs, bodies
<1>3. /\ Close(done)
      /\ root' = IF IsRoot THEN [m \in Module |-> IF m \in Component THEN Cur ELSE root[m]] ELSE root
      /\ requests' = requests /\ tla' = tla /\ todo' = todo /\ promise' = promise /\ mode' = mode
      /\ pending' = pending /\ parents' = parents /\ error' = error /\ goal' = goal
  BY <1>2 DEF CloseEvaluation, program
<1>4. frames' = Returned
  BY <1>3 DEF Close
<1>5. Cur \in Module /\ Cur \in Calls /\ Cur = frames[n].mod /\ n \in DOMAIN frames /\ n \in Nat
  BY <1>1, Calling, EvalRanges DEF Calls
<1>6. Calls' = Calls \ {Cur}
  BY <1>1, <1>4, ReturnCalls
<1>7. Cur \in Range(stack) /\ status[Cur] = "evaluating"
  <2>1. Cur \in Range(stack)
    BY <1>1, <1>5, CallsStand DEF Walk
  <2> QED BY <2>1, <1>1, <1>5 DEF Unfinished
<1>8. /\ \A x \in Module : x # Cur => async'[x] = async[x] /\ ran'[x] = ran[x] /\ body'[x] = body[x]
      /\ \/ /\ EvalWaits /\ pending[Cur] > 0 /\ async'[Cur] /\ order' = Append(order, Cur)
            /\ body'[Cur] = body[Cur] /\ ran'[Cur] = ran[Cur]
         \/ /\ EvalStarts /\ pending[Cur] = 0 /\ async'[Cur] /\ order' = Append(order, Cur)
            /\ body'[Cur] = "running" /\ ran'[Cur] = ran[Cur] + 1
         \/ /\ EvalRuns /\ pending[Cur] = 0 /\ async'[Cur] = async[Cur] /\ order' = order
            /\ body'[Cur] = "done" /\ ran'[Cur] = ran[Cur] + 1
  <2>1. ran \in [Module -> Nat] /\ async \in [Module -> BOOLEAN] /\ body \in [Module -> Bodies]
    BY <1>1 DEF LifeTypes, EvalTypes, Bodies
  <2> QED BY <1>2, <1>5, <2>1
<1>9. done \in [Module -> Status] /\ \A m \in Module : done[m] = IF async'[m] THEN "evaluating_async" ELSE "evaluated"
  BY DEF Status, Started
<1> HIDE DEF done
<1>10. goal \in Module /\ frames[1].mod = goal /\ 1 \in DOMAIN frames /\ 1 \in DOMAIN stack /\ stack[1] = goal
  <2>1. frames[1].mod = goal /\ goal \in Module
    BY <1>1 DEF EvalTypes, Unfinished
  <2>2. stack # <<>> /\ stack[1] = frames[1].mod
    BY <1>1 DEF Walk, Grounded
  <2> QED BY <1>1, <2>1, <2>2, EvalRanges
<1>11. CASE IsRoot
  <2>1. Leaving = Component
    BY <1>11 DEF Leaving
  <2>2. /\ Index(Cur) \in DOMAIN stack /\ stack[Index(Cur)] = Cur
        /\ stack' = <<>> <=> Index(Cur) = 1
        /\ \A m \in Component : \E k \in DOMAIN stack : stack[k] = m /\ k >= Index(Cur)
        /\ \A k \in DOMAIN stack : k >= Index(Cur) => stack[k] \in Component
        /\ \A m \in Module : m \in Component => status'[m] = done[m]
        /\ \A m \in Module : m \notin Component => status'[m] = status[m]
    BY <1>1, <1>3, <1>9, <1>11, CloseShape
  <2>3. Component \subseteq Module /\ Cur \in Component
    BY <2>2, <1>1, EvalRanges
  <2>4. ASSUME NEW m \in Component PROVE status[m] = "evaluating" /\ (m \in Calls => m = Cur)
    <3>1. PICK k \in DOMAIN stack : stack[k] = m /\ k >= Index(Cur)
      BY <2>2
    <3>2. m \in Range(stack) /\ m \in Module
      BY <3>1, <2>3 DEF Range
    <3>3. ASSUME NEW i \in DOMAIN frames, frames[i].mod = m PROVE i = n
      <4>1. i < n => k < Index(Cur)
        BY <3>1, <3>3, <2>2, <1>1, <1>5 DEF Walk, Standing
      <4> QED BY <4>1, <3>1, <2>2, <1>1, <1>5, EvalRanges
    <3> QED BY <3>2, <3>3, <1>1, <1>5 DEF Unfinished, Calls
  <2>5. goal \in Component => Cur = goal
    <3> SUFFICES ASSUME goal \in Component PROVE Cur = goal
      OBVIOUS
    <3>1. PICK k \in DOMAIN stack : stack[k] = goal /\ k >= Index(Cur)
      BY <2>2
    <3>2. k = 1 /\ Index(Cur) >= 1
      BY <3>1, <2>2, <1>1, <1>10, EvalRanges
    <3> QED BY <3>1, <3>2, <2>2, <1>1, <1>10, EvalRanges
  <2>6. frames' = <<>> => goal \in Component
    <3>1. frames' = <<>> => n = 1
      BY <1>1, <1>4, ReturnShape
    <3> QED BY <3>1, <2>3, <1>5, <1>10
  <2>7. \A m \in Module : root'[m] = IF m \in Component THEN Cur ELSE root[m]
    BY <1>3, <1>11
  <2> HIDE DEF Component
  <2>8. /\ Leaving \subseteq Module /\ (Leaving # {} => Cur \in Leaving)
        /\ (goal \in Leaving => Cur = goal) /\ (frames' = <<>> => goal \in Leaving)
        /\ \A m \in Leaving : status[m] = "evaluating" /\ (m \in Calls => m = Cur)
    BY <2>1, <2>3, <2>4, <2>5, <2>6
  <2>9. /\ \A m \in Module : m \in Leaving =>
              root'[m] = Cur /\ status'[m] = IF async'[m] THEN "evaluating_async" ELSE "evaluated"
        /\ \A m \in Module : m \notin Leaving => root'[m] = root[m] /\ status'[m] = status[m]
    BY <2>1, <2>2, <2>7, <1>9
  <2> QED BY <1>1, <1>3, <1>5, <1>6, <1>7, <1>8, <1>10, <2>8, <2>9
<1>12. CASE ~IsRoot
  <2>1. Leaving = {} /\ status' = status /\ root' = root /\ anc' = anc /\ stack' = stack
    BY <1>3, <1>12 DEF Leaving, Close
  <2>2. frames' # <<>>
    <3> SUFFICES ASSUME frames' = <<>> PROVE FALSE
      OBVIOUS
    <3>1. Walk'
      BY <1>1, <1>3, <1>4, <1>12, <2>1, ReturnWalk
    <3>2. stack' = <<>>
      BY <3>1 DEF Walk, Grounded
    <3> QED BY <3>2, <2>1, <1>10, <1>1, EvalRanges
  <2> QED BY <1>1, <1>3, <1>5, <1>6, <1>7, <1>8, <1>10, <2>1, <2>2
<1> QED BY <1>11, <1>12

\* Who is told of a failure waits, and all but the first for one who is told.
LEMMA DoomedIs ==
  ASSUME EvalInv, mode \in {"idle", "gather", "execute"}, NEW m \in Module,
         status[m] \in Started, status[m] # "evaluated"
  PROVE  /\ m \in Doomed(m) /\ Doomed(m) \subseteq Module
         /\ \A x \in Doomed(m) : status[x] = "evaluating_async"
         /\ \A x \in Doomed(m) : \A p \in Range(parents[x]) : status[p] # "evaluated" => p \in Doomed(m)
         /\ \A n \in Doomed(m) : n = m \/ \E x \in Doomed(m) : n \in Range(parents[x])
<1> DEFINE S == {x \in Module : status[x] = "evaluating_async"}
           T == {n \in Doomed(m) : n = m \/ \E x \in Doomed(m) : n \in Range(parents[x])}
<1>1. m \in S /\ S \subseteq Module /\ \A x \in S : \A p \in Range(parents[x]) : status[p] # "evaluated" => p \in S
  BY QuietStarted DEF Started
<1>2. Doomed(m) \subseteq Module /\ m \in Doomed(m)
  BY DEF Doomed
<1>3. Doomed(m) \subseteq S
  <2> HIDE DEF S
  <2> QED BY <1>1 DEF Doomed
<1>4. ASSUME NEW x \in Doomed(m), NEW p \in Range(parents[x]), status[p] # "evaluated"
      PROVE  p \in Doomed(m)
  <2>1. x \in Module /\ p \in Module
    BY <1>2, <1>4, QuietStarted
  <2>2. ASSUME NEW U \in SUBSET Module, m \in U,
               \A y \in U : \A q \in Range(parents[y]) : status[q] # "evaluated" => q \in U
        PROVE  p \in U
    <3>1. x \in U
      BY <2>2 DEF Doomed
    <3> QED BY <3>1, <2>2, <1>4
  <2> QED BY <2>1, <2>2 DEF Doomed
<1>5. T \subseteq Module /\ m \in T /\ \A x \in T : \A p \in Range(parents[x]) : status[p] # "evaluated" => p \in T
  BY <1>2, <1>4
<1>6. Doomed(m) \subseteq T
  <2> HIDE DEF T
  <2> QED BY <1>5 DEF Doomed
<1> QED BY <1>2, <1>3, <1>4, <1>6

\* A body failed: in the job after its await, or in the loop over exec_list.
LEMMA ThrownEffect ==
  ASSUME EvalInv, LifeTypes, NEW m \in Module, BodyRejected(m) \/ (ExecuteThrows /\ m = First)
  PROVE  /\ mode \in {"idle", "execute"} /\ mode' = mode /\ status[m] = "evaluating_async"
         /\ m \in Doomed(m) /\ Doomed(m) \subseteq Module
         /\ \A x \in Doomed(m) : status[x] = "evaluating_async"
         /\ \A x \in Doomed(m) : \A p \in Range(parents[x]) : status[p] # "evaluated" => p \in Doomed(m)
         /\ \A n \in Doomed(m) : n = m \/ \E x \in Doomed(m) : n \in Range(parents[x])
         /\ \A n \in Module : IF n \in Doomed(m) THEN error'[n] /\ status'[n] = "evaluated"
                              ELSE error'[n] = error[n] /\ status'[n] = status[n]
         /\ \A n \in Module : promise'[n] = IF n \in Doomed(m) /\ promise[n] # "none"
                                            THEN "rejected" ELSE promise[n]
         /\ body'[m] = "threw" /\ \A x \in Module : x # m => body'[x] = body[x] /\ ran'[x] = ran[x]
         /\ \/ mode = "idle" /\ body[m] = "running" /\ ran' = ran /\ todo' = todo
            \/ /\ mode = "execute" /\ m \in todo /\ m \notin tla /\ m = First
               /\ ran'[m] = ran[m] + 1 /\ todo' = todo \ {m}
         /\ requests' = requests /\ tla' = tla /\ goal' = goal
         /\ stack' = stack /\ anc' = anc /\ frames' = frames
         /\ async' = async /\ order' = order /\ pending' = pending /\ parents' = parents /\ root' = root
<1> DEFINE Idly == mode = "idle" /\ body[m] = "running" /\ ran' = ran /\ todo' = todo
           Turned == /\ mode = "execute" /\ m \in todo /\ m \notin tla /\ m = First
                     /\ ran' = [ran EXCEPT ![m] = @ + 1] /\ todo' = todo \ {m}
<1>1. EvalTypes /\ ran \in [Module -> Nat] /\ body \in [Module -> Bodies]
  BY DEF EvalInv, LifeTypes, EvalTypes, Bodies
<1>2. /\ status[m] # "evaluated" /\ RejectedWith(m) /\ body' = [body EXCEPT ![m] = "threw"]
      /\ Idly \/ Turned
      /\ mode' = mode /\ requests' = requests /\ tla' = tla /\ goal' = goal
      /\ stack' = stack /\ anc' = anc /\ frames' = frames
      /\ async' = async /\ order' = order /\ pending' = pending /\ parents' = parents /\ root' = root
  <2>1. CASE BodyRejected(m)
    BY <2>1 DEF BodyRejected, program, walk
  <2>2. CASE ExecuteThrows /\ m = First
    <3>1. mode = "execute" /\ todo # {} /\ First \in todo
      BY <2>2, FirstIs DEF ExecuteThrows, Executing
    <3> QED BY <2>2, <3>1 DEF ExecuteThrows, Executing, Runs, program, walk
  <2> QED BY <2>1, <2>2
<1>3. status[m] \in Started /\ mode \in {"idle", "execute"}
  BY <1>2, QuietStarted
<1>4. /\ m \in Doomed(m) /\ Doomed(m) \subseteq Module
      /\ \A x \in Doomed(m) : status[x] = "evaluating_async"
      /\ \A x \in Doomed(m) : \A p \in Range(parents[x]) : status[p] # "evaluated" => p \in Doomed(m)
      /\ \A n \in Doomed(m) : n = m \/ \E x \in Doomed(m) : n \in Range(parents[x])
  BY <1>2, <1>3, DoomedIs
<1>5. /\ error' = [n \in Module |-> n \in Doomed(m) \/ error[n]]
      /\ status' = [n \in Module |-> IF n \in Doomed(m) THEN "evaluated" ELSE status[n]]
      /\ promise' = [n \in Module |-> IF n \in Doomed(m) /\ promise[n] # "none"
                                      THEN "rejected" ELSE promise[n]]
  BY <1>2 DEF RejectedWith
<1> HIDE DEF Doomed
<1>6. ASSUME NEW n \in Module
      PROVE  /\ IF n \in Doomed(m) THEN error'[n] /\ status'[n] = "evaluated"
                ELSE error'[n] = error[n] /\ status'[n] = status[n]
             /\ promise'[n] = IF n \in Doomed(m) /\ promise[n] # "none" THEN "rejected" ELSE promise[n]
  <2>1. error[n] \in BOOLEAN
    BY <1>1 DEF EvalTypes
  <2> QED BY <2>1, <1>5
<1>7. body'[m] = "threw" /\ \A x \in Module : x # m => body'[x] = body[x] /\ ran'[x] = ran[x]
  BY <1>1, <1>2
<1>8. \/ mode = "idle" /\ body[m] = "running" /\ ran' = ran /\ todo' = todo
      \/ /\ mode = "execute" /\ m \in todo /\ m \notin tla /\ m = First
         /\ ran'[m] = ran[m] + 1 /\ todo' = todo \ {m}
  BY <1>1, <1>2
<1> HIDE DEF Idly, Turned
<1> QED BY <1>2, <1>3, <1>4, <1>6, <1>7, <1>8

\* A body came to its end: in the job after its await, or in that loop.
LEMMA DoneEffect ==
  ASSUME EvalInv, LifeTypes, NEW m \in Module, BodyFulfilled(m) \/ (ExecuteRuns /\ m = First)
  PROVE  /\ status[m] = "evaluating_async" /\ status'[m] = "evaluated"
         /\ body'[m] = "done" /\ promise'[m] = IF promise[m] = "none" THEN "none" ELSE "fulfilled"
         /\ \A x \in Module : x # m => /\ status'[x] = status[x] /\ promise'[x] = promise[x]
                                       /\ body'[x] = body[x] /\ ran'[x] = ran[x] /\ async'[x] = async[x]
         /\ \/ /\ mode = "idle" /\ mode' = "gather" /\ body[m] = "running" /\ ran' = ran /\ todo' = todo
               /\ ~async'[m] /\ frames' = <<Frame(m)>>
            \/ /\ mode = "execute" /\ mode' = "execute" /\ m \in todo /\ m \notin tla /\ m = First
               /\ ran'[m] = ran[m] + 1 /\ todo' = todo \ {m}
               /\ async' = async /\ frames' = frames
         /\ requests' = requests /\ tla' = tla /\ goal' = goal /\ stack' = stack /\ anc' = anc
         /\ order' = order /\ pending' = pending /\ parents' = parents /\ root' = root /\ error' = error
<1>1. /\ ran \in [Module -> Nat] /\ body \in [Module -> Bodies] /\ status \in [Module -> Status]
      /\ async \in [Module -> BOOLEAN] /\ promise \in [Module -> Promises]
  BY DEF EvalInv, LifeTypes, EvalTypes, Bodies
<1>2. /\ status[m] # "evaluated" /\ SetEvaluated(m) /\ body' = [body EXCEPT ![m] = "done"]
      /\ \/ /\ mode = "idle" /\ mode' = "gather" /\ body[m] = "running" /\ ran' = ran /\ todo' = todo
            /\ async' = [async EXCEPT ![m] = FALSE] /\ frames' = <<Frame(m)>>
         \/ /\ mode = "execute" /\ mode' = "execute" /\ m \in todo /\ m \notin tla /\ m = First
            /\ ran' = [ran EXCEPT ![m] = @ + 1] /\ todo' = todo \ {m}
            /\ async' = async /\ frames' = frames
      /\ requests' = requests /\ tla' = tla /\ goal' = goal /\ stack' = stack /\ anc' = anc
      /\ order' = order /\ pending' = pending /\ parents' = parents /\ root' = root /\ error' = error
  <2>1. CASE BodyFulfilled(m)
    BY <2>1 DEF BodyFulfilled, program
  <2>2. CASE ExecuteRuns /\ m = First
    <3>1. mode = "execute" /\ todo # {} /\ First \in todo
      BY <2>2, FirstIs DEF ExecuteRuns, Executing
    <3> QED BY <2>2, <3>1 DEF ExecuteRuns, Executing, Runs, program, walk, deps
  <2> QED BY <2>1, <2>2
<1>3. status[m] = "evaluating_async"
  BY <1>2, QuietStarted DEF Started
<1>4. /\ status' = [status EXCEPT ![m] = "evaluated"]
      /\ promise' = [promise EXCEPT ![m] = IF @ = "none" THEN @ ELSE "fulfilled"]
  BY <1>2 DEF SetEvaluated
<1>5. \/ /\ mode = "idle" /\ mode' = "gather" /\ body[m] = "running" /\ ran' = ran /\ todo' = todo
         /\ ~async'[m] /\ frames' = <<Frame(m)>>
      \/ /\ mode = "execute" /\ mode' = "execute" /\ m \in todo /\ m \notin tla /\ m = First
         /\ ran'[m] = ran[m] + 1 /\ todo' = todo \ {m}
         /\ async' = async /\ frames' = frames
  BY <1>1, <1>2
<1>6. /\ status'[m] = "evaluated" /\ body'[m] = "done"
      /\ promise'[m] = IF promise[m] = "none" THEN "none" ELSE "fulfilled"
      /\ \A x \in Module : x # m => /\ status'[x] = status[x] /\ promise'[x] = promise[x]
                                    /\ body'[x] = body[x] /\ ran'[x] = ran[x] /\ async'[x] = async[x]
  BY <1>1, <1>2, <1>4
<1> QED BY <1>2, <1>3, <1>5, <1>6

\* What a step over the parents of a module changes.
LEMMA GatherEffect ==
  ASSUME EvalInv, LifeTypes, Gather
  PROVE  /\ mode = "gather" /\ mode' \in {"gather", "execute"} /\ frames # <<>> /\ goal' = goal
         /\ requests' = requests /\ tla' = tla /\ stack' = stack /\ status' = status
         /\ async' = async /\ order' = order /\ parents' = parents
         /\ root' = root /\ error' = error /\ promise' = promise /\ ran' = ran /\ body' = body
         /\ \/ /\ GatherSkips /\ AtParent /\ Skipped(Parent) /\ mode' = "gather"
               /\ frames' = Advanced /\ pending' = pending /\ todo' = todo
            \/ /\ GatherCounts /\ AtParent /\ ~Skipped(Parent) /\ mode' = "gather"
               /\ Parent \in Module /\ status[Parent] \in Started
               /\ pending'[Parent] = pending[Parent] - 1
               /\ \A x \in Module : x # Parent => pending'[x] = pending[x]
               /\ todo' = IF pending[Parent] = 1 THEN todo \cup {Parent} ELSE todo
               /\ frames' = IF pending[Parent] = 1 /\ Parent \notin tla
                            THEN Append(Advanced, Frame(Parent)) ELSE Advanced
            \/ /\ GatherReturns /\ Top.next > Len(parents[Cur]) /\ frames' = Returned
               /\ pending' = pending /\ todo' = todo
<1>1. pending \in [Module -> Int]
  BY DEF EvalInv, EvalTypes
<1>2. CASE GatherSkips
  BY <1>2, ParentIs DEF GatherSkips, AtParent, program, deps, bodies
<1>3. CASE GatherCounts
  <2>1. /\ AtParent /\ Parent \in Module /\ status[Parent] \in Started
        /\ pending' = [pending EXCEPT ![Parent] = @ - 1]
    BY <1>3, ParentIs DEF GatherCounts
  <2>2. pending'[Parent] = pending[Parent] - 1 /\ \A x \in Module : x # Parent => pending'[x] = pending[x]
    BY <2>1, <1>1
  <2> HIDE DEF Skipped
  <2> QED BY <1>3, <2>1, <2>2 DEF GatherCounts, AtParent, program, bodies
<1>4. CASE GatherReturns
  BY <1>4 DEF GatherReturns, program, deps, bodies
<1> QED BY <1>2, <1>3, <1>4 DEF Gather

\* What is left of the loop over exec_list.
LEMMA ExecuteEffect ==
  ASSUME EvalInv, LifeTypes, ExecuteSkips \/ ExecuteStarts \/ ExecuteEnds
  PROVE  /\ mode = "execute" /\ mode' \in {"execute", "idle"} /\ goal' = goal
         /\ requests' = requests /\ tla' = tla /\ stack' = stack /\ frames' = frames
         /\ status' = status /\ async' = async /\ order' = order /\ pending' = pending
         /\ parents' = parents /\ root' = root /\ error' = error /\ promise' = promise
         /\ \/ /\ ExecuteEnds /\ mode' = "idle" /\ todo = {} /\ todo' = {} /\ ran' = ran /\ body' = body
            \/ /\ mode' = "execute" /\ First \in todo /\ First \in Module /\ status[First] \in Started
               /\ todo' = todo \ {First}
               /\ \/ ExecuteSkips /\ status[First] = "evaluated" /\ ran' = ran /\ body' = body
                  \/ /\ ExecuteStarts /\ status[First] = "evaluating_async" /\ First \in tla
                     /\ body'[First] = "running" /\ ran'[First] = ran[First] + 1
                     /\ \A x \in Module : x # First => body'[x] = body[x] /\ ran'[x] = ran[x]
<1>1. ran \in [Module -> Nat] /\ body \in [Module -> Bodies]
  BY DEF EvalInv, LifeTypes, EvalTypes, Bodies
<1>2. CASE ExecuteEnds
  BY <1>2 DEF ExecuteEnds, program, walk, deps, bodies
<1>3. ASSUME mode = "execute", todo # {}
      PROVE  First \in todo /\ First \in Module /\ status[First] \in Started
  BY <1>3, FirstIs, QuietStarted
<1>4. CASE ExecuteSkips
  BY <1>3, <1>4 DEF ExecuteSkips, Executing, program, walk, deps, bodies
<1>5. CASE ExecuteStarts
  <2>1. /\ mode = "execute" /\ mode' = mode /\ todo # {} /\ todo' = todo \ {First} /\ First \in tla
        /\ status[First] # "evaluated"
        /\ ran' = [ran EXCEPT ![First] = @ + 1] /\ body' = [body EXCEPT ![First] = "running"]
        /\ requests' = requests /\ tla' = tla /\ stack' = stack /\ frames' = frames /\ goal' = goal
        /\ status' = status /\ async' = async /\ order' = order /\ pending' = pending
        /\ parents' = parents /\ root' = root /\ error' = error /\ promise' = promise
    BY <1>5 DEF ExecuteStarts, Executing, Runs, program, walk, deps
  <2>2. First \in todo /\ First \in Module /\ status[First] = "evaluating_async"
    BY <1>3, <2>1 DEF Started
  <2>3. /\ body'[First] = "running" /\ ran'[First] = ran[First] + 1
        /\ \A x \in Module : x # First => body'[x] = body[x] /\ ran'[x] = ran[x]
    BY <1>1, <2>1, <2>2
  <2> QED BY <1>5, <2>1, <2>2, <2>3 DEF Started
<1> QED BY <1>2, <1>4, <1>5

\* The late end of a body whose importer failed.
LEMMA IgnoredEffect ==
  ASSUME EvalInv, LifeTypes, NEW m \in Module, \E b \in {"done", "threw"} : BodyIgnored(m, b)
  PROVE  /\ mode = "idle" /\ mode' = "idle" /\ body[m] = "running" /\ status[m] = "evaluated"
         /\ body'[m] \in {"done", "threw"} /\ \A x \in Module : x # m => body'[x] = body[x]
         /\ requests' = requests /\ tla' = tla /\ stack' = stack /\ frames' = frames /\ goal' = goal
         /\ status' = status /\ async' = async /\ order' = order /\ pending' = pending
         /\ parents' = parents /\ root' = root /\ error' = error /\ promise' = promise
         /\ todo' = todo /\ ran' = ran
<1>1. body \in [Module -> Bodies]
  BY DEF EvalInv, EvalTypes, Bodies
<1>2. PICK b \in {"done", "threw"} : BodyIgnored(m, b)
  OBVIOUS
<1> QED BY <1>1, <1>2 DEF BodyIgnored, program, walk, deps

\* The end of a job of js_evaluate_module.
LEMMA SettleEffect ==
  ASSUME EvalInv, LifeTypes, EvaluateStarted \/ EvaluateReturns
  PROVE  /\ mode' = "idle" /\ frames = <<>> /\ stack = <<>> /\ goal \in Module
         /\ \A m \in Module : status[m] \notin {"linking", "evaluating"}
         /\ requests' = requests /\ tla' = tla /\ stack' = stack /\ frames' = frames /\ goal' = goal
         /\ status' = status /\ async' = async /\ order' = order /\ pending' = pending
         /\ parents' = parents /\ root' = root /\ error' = error
         /\ todo' = todo /\ ran' = ran /\ body' = body
         /\ \/ /\ mode = "link" /\ status[goal] \in Started
               /\ \E m \in Module : /\ m = root[goal] /\ promise[m] = "none" /\ status[m] \in Started
                                    /\ promise' = [promise EXCEPT ![m] = IF error[m] THEN "rejected"
                                                                        ELSE IF async[m] THEN "pending"
                                                                        ELSE "fulfilled"]
            \/ /\ mode = "eval"
               /\ promise' = IF async[goal] THEN promise ELSE [promise EXCEPT ![goal] = "fulfilled"]
<1>1. /\ mode' = "idle" /\ frames = <<>> /\ mode \in {"link", "eval"}
      /\ UNCHANGED <<program, status, walk, deps, todo, bodies, imports>>
  BY DEF EvaluateStarted, EvaluateReturns, Linked
<1>2. stack = <<>> /\ goal \in Module /\ \A m \in Module : status[m] \notin {"linking", "evaluating"}
  BY <1>1, WalkOver DEF EvalInv, EvalTypes
<1>3. /\ requests' = requests /\ tla' = tla /\ stack' = stack /\ frames' = frames /\ goal' = goal
      /\ status' = status /\ async' = async /\ order' = order /\ pending' = pending
      /\ parents' = parents /\ root' = root /\ error' = error
      /\ todo' = todo /\ ran' = ran /\ body' = body
  BY <1>1 DEF program, walk, deps, bodies
<1>4. CASE EvaluateReturns
  BY <1>1, <1>2, <1>3, <1>4 DEF EvaluateReturns
<1>5. CASE EvaluateStarted
  <2>1. /\ mode = "link" /\ promise[Target] = "none" /\ status[Target] \in Started
        /\ promise' = [promise EXCEPT ![Target] = IF error[Target] THEN "rejected"
                                                  ELSE IF async[Target] THEN "pending"
                                                  ELSE "fulfilled"]
    BY <1>5 DEF EvaluateStarted, Linked
  <2>2. status[goal] \in Started /\ Target = root[goal]
    BY <2>1 DEF Target
  <2>3. root[goal] \in Module
    BY <2>2, <1>2 DEF EvalInv, Begun
  <2> QED BY <1>1, <1>2, <1>3, <2>1, <2>2, <2>3
<1> QED BY <1>4, <1>5

-----------------------------------------------------------------------------
(* How far a module is: what its status says of its body, of its failure   *)
(* and of the order of execution.                                          *)

Alive(m) ==
  /\ status[m] \notin Started /\ (status[m] = "evaluating" => m \in Calls) =>
       body[m] = "unstarted" /\ ~async[m] /\ m \notin Stamped /\ ~error[m]
  /\ status[m] = "evaluating" /\ m \notin Calls =>
       /\ ~error[m] /\ (~async[m] => body[m] = "done")
       /\ async[m] => body[m] \in {"unstarted", "running"}
  /\ status[m] = "evaluating_async" =>
       async[m] /\ ~error[m] /\ body[m] \in {"unstarted", "running"}
  /\ status[m] = "evaluated" => error[m] \/ body[m] = "done"
  /\ body[m] = "threw" => error[m]
  /\ error[m] => status[m] = "evaluated"
  /\ async[m] => m \in Stamped
  /\ ran[m] = IF body[m] = "unstarted" THEN 0 ELSE 1
  /\ pending[m] > 0 => body[m] = "unstarted"
Lives == \A m \in Module : Alive(m)

Queued ==
  /\ \A m \in todo : pending[m] = 0 /\ body[m] = "unstarted"
  /\ mode \notin {"gather", "execute"} => todo = {}

Cycles ==
  /\ \A m \in Module : status[m] \notin Started => root[m] = None
  /\ \A m \in Module : status[m] \in Started => root[root[m]] = root[m]

Promised ==
  \A m \in Module :
    /\ promise[m] # "none" =>
         \/ status[m] \in Started /\ root[m] = m
         \/ status[m] = "evaluating" /\ m = goal /\ promise[m] = "pending"
    /\ promise[m] = "fulfilled" => body[m] = "done"
    /\ promise[m] = "rejected" => error[m]

Ended ==
  mode = "eval" /\ frames = <<>> =>
    /\ status[goal] = IF async[goal] THEN "evaluating_async" ELSE "evaluated"
    /\ root[goal] = goal /\ ~error[goal]

Life == LifeTypes /\ Lives /\ Queued /\ Cycles /\ Promised /\ Ended /\ IsInjective(order)

\* The steps, by their effects.
LEMMA StepKinds ==
  ASSUME EvalInv, [Next]_vars
  PROVE  \/ UNCHANGED vars
         \/ (\E m \in Module : Import(m)) \/ Link \/ EvaluateAgain
         \/ EvaluateStarted \/ EvaluateReturns
         \/ EvaluateFirst \/ EvalRequest
         \/ EvalReturned
         \/ EvalChildFailed \/ EvalThrows
         \/ EvalWaits \/ EvalStarts \/ EvalRuns
         \/ \E m \in Module : BodyRejected(m) \/ (ExecuteThrows /\ m = First)
         \/ \E m \in Module : BodyFulfilled(m) \/ (ExecuteRuns /\ m = First)
         \/ Gather
         \/ ExecuteSkips \/ ExecuteStarts \/ ExecuteEnds
         \/ \E m \in Module : \E b \in {"done", "threw"} : BodyIgnored(m, b)
<1>0. ExecuteThrows \/ ExecuteRuns => First \in Module
  BY FirstIs, QuietStarted DEF ExecuteThrows, ExecuteRuns, Executing
<1>1. CASE Job
  BY <1>0, <1>1 DEF Job, Evaluate, Gather, Execute
<1>2. ASSUME NEW m \in Module, BodyEnds(m)
      PROVE  \/ BodyRejected(m) \/ BodyFulfilled(m)
             \/ \E b \in {"done", "threw"} : BodyIgnored(m, b)
  BY <1>2 DEF BodyEnds
<1>3. CASE \E m \in Module : Import(m) \/ BodyEnds(m)
  BY <1>2, <1>3
<1>4. CASE UNCHANGED vars
  BY <1>4
<1> QED BY <1>1, <1>3, <1>4 DEF Next

\* The values a step can give, by the definitions of the actions.
LEMMA StepValues ==
  ASSUME [Next]_vars
  PROVE  /\ \/ async' = async \/ async' = [async EXCEPT ![Cur] = TRUE]
            \/ \E m \in Module : async' = [async EXCEPT ![m] = FALSE]
         /\ \/ ran' = ran \/ ran' = [ran EXCEPT ![Cur] = @ + 1] \/ ran' = [ran EXCEPT ![First] = @ + 1]
         /\ \/ pending' = pending \/ (EvalReturned /\ pending' = [pending EXCEPT ![Cur] = @ + 1])
            \/ AtParent /\ ~Skipped(Parent) /\ pending' = [pending EXCEPT ![Parent] = @ - 1]
         /\ \/ anc' = anc \/ anc' = [m \in Module |-> 0]
            \/ anc' = [m \in Module |-> IF m \in Component THEN 0 ELSE anc[m]]
            \/ AtRequest /\ anc' = [anc EXCEPT ![Cur] = Lower(@, anc[Child])]
            \/ \E m \in Module \cup {Target, Child} : \E s \in Status : Open(m, s)
         /\ \/ goal' = goal /\ imports' = imports
            \/ goal' \in Module /\ imports < MaxImports /\ imports' = imports + 1
<1>1. "linking" \in Status /\ "evaluating" \in Status
  BY DEF Status
<1>2. CASE UNCHANGED vars
  BY <1>2 DEF vars, walk, deps, bodies
<1>3. CASE \E m \in Module : Import(m)
  BY <1>1, <1>3 DEF Import, deps, bodies
<1>4. CASE Link
  BY <1>1, <1>4 DEF Link, LinkRequest, LinkReturned, LinkDone, LinkFails, Close, Unwind, MergeAncestor, deps, bodies
<1>5. CASE EvaluateAgain \/ EvaluateStarted \/ EvaluateFirst \/ EvaluateReturns
  BY <1>1, <1>5 DEF EvaluateAgain, EvaluateStarted, EvaluateFirst, EvaluateReturns, walk, deps, bodies
<1>6. CASE EvalRequest \/ EvalReturned
  BY <1>1, <1>6 DEF EvalRequest, EvalReturned, MergeAncestor, deps, bodies
<1>7. CASE EvalChildFailed \/ EvalThrows
  BY <1>7 DEF EvalChildFailed, EvalThrows, Abandon, Unwind, Runs, bodies
<1>8. CASE EvalWaits \/ EvalStarts \/ EvalRuns
  BY <1>8 DEF EvalWaits, EvalStarts, EvalRuns, BecomesAsync, CloseEvaluation, Close, Runs, bodies
<1>9. CASE Gather
  <2> HIDE DEF Skipped
  <2> QED BY <1>9 DEF Gather, GatherSkips, GatherCounts, GatherReturns, deps, bodies
<1>10. CASE Execute
  BY <1>10 DEF Execute, ExecuteSkips, ExecuteStarts, ExecuteRuns, ExecuteThrows, ExecuteEnds, Runs, walk, deps, bodies
<1>11. CASE \E m \in Module : BodyEnds(m)
  BY <1>11 DEF BodyEnds, BodyFulfilled, BodyRejected, BodyIgnored, walk, deps
<1> QED BY <1>2, <1>3, <1>4, <1>5, <1>6, <1>7, <1>8, <1>9, <1>10, <1>11 DEF Next, Job, Evaluate

LEMMA LifeTypesKept ==
  ASSUME EvalInv, LifeTypes, [Next]_vars
  PROVE  LifeTypes'
<1>1. async' \in [Module -> BOOLEAN]
  <2>1. \/ async' = async \/ async' = [async EXCEPT ![Cur] = TRUE]
        \/ \E m \in Module : async' = [async EXCEPT ![m] = FALSE]
    BY StepValues
  <2> QED BY <2>1 DEF LifeTypes
<1>2. ran' \in [Module -> Nat]
  <2>1. ran' = ran \/ ran' = [ran EXCEPT ![Cur] = @ + 1] \/ ran' = [ran EXCEPT ![First] = @ + 1]
    BY StepValues
  <2> QED BY <2>1 DEF LifeTypes
<1>3. promise' \in [Module -> Promises]
  <2>0. promise \in [Module -> Promises]
    BY DEF LifeTypes
  <2>1. CASE UNCHANGED vars
    BY <2>0, <2>1 DEF vars
  <2>2. CASE (\E m \in Module : Import(m)) \/ Link \/ EvaluateAgain
    BY <2>0, <2>2, LinkEffect
  <2>3. CASE EvaluateStarted \/ EvaluateReturns
    BY <2>0, <2>3, SettleEffect DEF Promises
  <2>4. CASE EvaluateFirst \/ EvalRequest
    BY <2>0, <2>4, OpenEffect DEF Promises
  <2>5. CASE EvalReturned
    BY <2>0, <2>5, ReturnedEffect
  <2>6. CASE EvalChildFailed \/ EvalThrows
    BY <2>0, <2>6, AbandonEffect DEF Promises
  <2>7. CASE EvalWaits \/ EvalStarts \/ EvalRuns
    BY <2>0, <2>7, CloseEffect
  <2>8. ASSUME NEW m \in Module, BodyRejected(m) \/ (ExecuteThrows /\ m = First)
        PROVE  promise' \in [Module -> Promises]
    <3>1. promise' = [n \in Module |-> IF n \in Doomed(m) /\ promise[n] # "none" THEN "rejected" ELSE promise[n]]
      BY <2>8 DEF BodyRejected, ExecuteThrows, RejectedWith
    <3> HIDE DEF Doomed
    <3> QED BY <2>0, <3>1 DEF Promises
  <2>9. ASSUME NEW m \in Module, BodyFulfilled(m) \/ (ExecuteRuns /\ m = First)
        PROVE  promise' \in [Module -> Promises]
    <3>1. promise' = [promise EXCEPT ![m] = IF @ = "none" THEN @ ELSE "fulfilled"]
      BY <2>9 DEF BodyFulfilled, ExecuteRuns, SetEvaluated
    <3> QED BY <2>0, <3>1 DEF Promises
  <2>10. CASE Gather
    BY <2>0, <2>10, GatherEffect
  <2>11. CASE ExecuteSkips \/ ExecuteStarts \/ ExecuteEnds
    BY <2>0, <2>11, ExecuteEffect
  <2>12. ASSUME NEW m \in Module, \E b \in {"done", "threw"} : BodyIgnored(m, b) PROVE promise' = promise
    BY <2>12, IgnoredEffect
  <2> QED BY <2>0, <2>1, <2>2, <2>3, <2>4, <2>5, <2>6, <2>7, <2>8, <2>9, <2>10, <2>11, <2>12, StepKinds
<1>4. goal' \in Module \cup {None} /\ imports' \in 0..MaxImports
  BY StepValues, ModuleAssumption DEF LifeTypes
<1> QED BY <1>1, <1>2, <1>3, <1>4 DEF LifeTypes

LEMMA LinkLife ==
  ASSUME EvalInv, Life, LifeTypes', (\E m \in Module : Import(m)) \/ Link \/ EvaluateAgain
  PROVE  Life'
<1> USE DEF Life
<1>1. /\ mode \in {"idle", "link"} /\ mode' \in {"idle", "link"}
      /\ \A x \in Module : /\ status[x] # "evaluating" /\ status'[x] # "evaluating"
                           /\ status'[x] \in Started <=> status[x] \in Started
                           /\ status[x] \in Started => status'[x] = status[x]
      /\ promise' = promise /\ todo' = todo
      /\ async' = async /\ order' = order /\ pending' = pending /\ parents' = parents
      /\ root' = root /\ error' = error /\ ran' = ran /\ body' = body
  BY LinkEffect
<1>2. Stamped' = Stamped
  BY <1>1 DEF Stamped
<1>3. Lives'
  BY <1>1, <1>2 DEF Lives, Alive, Started
<1>4. Queued'
  BY <1>1 DEF Queued
<1>5. Cycles'
  BY <1>1 DEF Cycles
<1>6. Promised'
  BY <1>1 DEF Promised
<1>7. Ended'
  BY <1>1 DEF Ended
<1>8. IsInjective(order')
  BY <1>1
<1> QED BY <1>3, <1>4, <1>5, <1>6, <1>7, <1>8

LEMMA SettleLife ==
  ASSUME EvalInv, Life, LifeTypes', EvaluateStarted \/ EvaluateReturns
  PROVE  Life'
<1> USE DEF Life
<1>1. /\ mode' = "idle" /\ frames = <<>> /\ stack = <<>> /\ goal \in Module
      /\ \A m \in Module : status[m] \notin {"linking", "evaluating"}
      /\ frames' = frames /\ goal' = goal
      /\ status' = status /\ async' = async /\ order' = order /\ pending' = pending
      /\ root' = root /\ error' = error
      /\ todo' = todo /\ ran' = ran /\ body' = body
      /\ \/ /\ mode = "link" /\ status[goal] \in Started
            /\ \E m \in Module : /\ m = root[goal] /\ promise[m] = "none" /\ status[m] \in Started
                                 /\ promise' = [promise EXCEPT ![m] = IF error[m] THEN "rejected"
                                                                     ELSE IF async[m] THEN "pending"
                                                                     ELSE "fulfilled"]
         \/ /\ mode = "eval"
            /\ promise' = IF async[goal] THEN promise ELSE [promise EXCEPT ![goal] = "fulfilled"]
  BY SettleEffect
<1>2. Stamped' = Stamped /\ Calls' = Calls
  BY <1>1 DEF Stamped, Calls
<1>3. Lives'
  BY <1>1, <1>2 DEF Lives, Alive
<1>4. Queued'
  BY <1>1 DEF Queued
<1>5. Cycles'
  BY <1>1 DEF Cycles
<1>6. Promised'
  <2>1. promise \in [Module -> Promises]
    BY DEF LifeTypes
  <2>2. CASE mode = "link"
    <3>1. PICK m \in Module : /\ m = root[goal] /\ promise[m] = "none" /\ status[m] \in Started
                              /\ promise' = [promise EXCEPT ![m] = IF error[m] THEN "rejected"
                                                                  ELSE IF async[m] THEN "pending"
                                                                  ELSE "fulfilled"]
      BY <2>2, <1>1
    <3>2. root[m] = m
      BY <3>1, <2>2, <1>1 DEF Cycles
    <3>3. ~error[m] /\ ~async[m] => body[m] = "done"
      BY <3>1 DEF Lives, Alive, Started
    <3>4. /\ promise'[m] = IF error[m] THEN "rejected" ELSE IF async[m] THEN "pending" ELSE "fulfilled"
          /\ \A x \in Module : x # m => promise'[x] = promise[x]
      BY <3>1, <2>1
    <3> QED BY <3>1, <3>2, <3>3, <3>4, <1>1 DEF Promised
  <2>3. CASE mode = "eval"
    <3>1. /\ status[goal] = IF async[goal] THEN "evaluating_async" ELSE "evaluated"
          /\ root[goal] = goal /\ ~error[goal]
      BY <2>3, <1>1 DEF Ended
    <3>2. ~async[goal] => body[goal] = "done"
      BY <3>1, <1>1 DEF Lives, Alive
    <3>3. /\ promise'[goal] = IF async[goal] THEN promise[goal] ELSE "fulfilled"
          /\ \A x \in Module : x # goal => promise'[x] = promise[x]
      BY <2>1, <2>3, <1>1
    <3> QED BY <3>1, <3>2, <3>3, <1>1 DEF Promised, Started
  <2> QED BY <2>2, <2>3, <1>1
<1>7. Ended'
  BY <1>1 DEF Ended
<1>8. IsInjective(order')
  BY <1>1
<1> QED BY <1>3, <1>4, <1>5, <1>6, <1>7, <1>8

LEMMA OpenLife ==
  ASSUME EvalInv, Life, LifeTypes', EvaluateFirst \/ EvalRequest
  PROVE  Life'
<1> USE DEF Life
<1>1. /\ mode' = "eval" /\ goal' = goal /\ goal \in Module
      /\ todo' = todo
      /\ async' = async /\ order' = order /\ pending' = pending /\ parents' = parents
      /\ root' = root /\ error' = error /\ ran' = ran /\ body' = body
  BY OpenEffect
<1>2. PICK m \in Module :
        /\ m \notin Range(stack) /\ Open(m, "evaluating")
        /\ status[m] = "linked" /\ status'[m] = "evaluating"
        /\ \A x \in Module : x # m => status'[x] = status[x]
        /\ Calls' = Calls \cup {m} /\ m \notin Calls
        /\ \/ EvalRequest /\ mode = "eval" /\ AtRequest /\ m = Child /\ promise' = promise
           \/ /\ EvaluateFirst /\ mode = "link" /\ frames = <<>> /\ stack = <<>> /\ m = goal
              /\ promise[m] = "none" /\ promise' = [promise EXCEPT ![m] = "pending"]
              /\ \A x \in Module : status[x] # "evaluating"
  BY OpenEffect
<1>3. Stamped' = Stamped
  BY <1>1 DEF Stamped
<1>4. Lives'
  BY <1>1, <1>2, <1>3 DEF Lives, Alive, Started
<1>5. Queued'
  BY <1>1, <1>2 DEF Queued
<1>6. Cycles'
  <2>1. \A x \in Module : status'[x] \in Started <=> status[x] \in Started
    BY <1>2 DEF Started
  <2> QED BY <2>1, <1>1 DEF Cycles
<1>7. Promised'
  <2>1. promise \in [Module -> Promises]
    BY DEF LifeTypes
  <2>2. CASE promise' = promise
    BY <2>2, <1>1, <1>2 DEF Promised, Started
  <2>3. CASE m = goal /\ promise[m] = "none" /\ promise' = [promise EXCEPT ![m] = "pending"]
    <3>1. promise'[m] = "pending" /\ \A x \in Module : x # m => promise'[x] = promise[x]
      BY <2>1, <2>3
    <3> QED BY <3>1, <2>3, <1>1, <1>2 DEF Promised
  <2> QED BY <2>2, <2>3, <1>2
<1>8. Ended'
  <2>1. frames' # <<>>
    <3>1. EvalTypes /\ "evaluating" \in Status
      BY DEF EvalInv, Status
    <3> QED BY <3>1, <1>2, OpenShape
  <2> QED BY <2>1 DEF Ended
<1>9. IsInjective(order')
  BY <1>1
<1> QED BY <1>4, <1>5, <1>6, <1>7, <1>8, <1>9

LEMMA ReturnedLife ==
  ASSUME EvalInv, Life, LifeTypes', EvalReturned
  PROVE  Life'
<1> USE DEF Life
<1>1. /\ mode = "eval" /\ mode' = "eval" /\ goal' = goal /\ goal \in Module /\ AtRequest
      /\ frames # <<>> /\ Cur \in Module /\ Cur \in Calls /\ status[Cur] = "evaluating"
      /\ Calls' = Calls
      /\ status' = status /\ todo' = todo /\ promise' = promise
      /\ async' = async /\ order' = order
      /\ root' = root /\ error' = error /\ ran' = ran /\ body' = body
      /\ pending' = [pending EXCEPT ![Cur] = @ + 1] \/ pending' = pending
  BY ReturnedEffect
<1>2. Stamped' = Stamped
  BY <1>1 DEF Stamped
<1>3. \A x \in Module : x # Cur => pending'[x] = pending[x]
  <2>1. pending \in [Module -> Int]
    BY DEF EvalInv, EvalTypes
  <2> QED BY <2>1, <1>1
<1>4. body[Cur] = "unstarted" /\ todo = {}
  BY <1>1 DEF Lives, Alive, Queued, Started
<1>5. Lives'
  BY <1>1, <1>2, <1>3, <1>4 DEF Lives, Alive
<1>6. Queued'
  BY <1>1, <1>4 DEF Queued
<1>7. Cycles'
  BY <1>1 DEF Cycles
<1>8. Promised'
  BY <1>1 DEF Promised
<1>9. Ended'
  <2>1. frames' # <<>>
    <3>1. EvalTypes /\ frames' = Advanced
      BY DEF EvalInv, EvalReturned
    <3> QED BY <3>1, <1>1, AdvanceShape
  <2> QED BY <2>1 DEF Ended
<1> QED BY <1>1, <1>5, <1>6, <1>7, <1>8, <1>9

LEMMA AbandonLife ==
  ASSUME EvalInv, Life, LifeTypes', EvalChildFailed \/ EvalThrows
  PROVE  Life'
<1> USE DEF Life
<1>1. /\ mode = "eval" /\ mode' = "idle" /\ goal' = goal /\ frames # <<>>
      /\ Cur \in Module /\ Cur \in Calls /\ status[Cur] = "evaluating"
      /\ goal \in Module /\ goal \in Calls /\ status[goal] = "evaluating"
      /\ \A m \in Module : IF status[m] = "evaluating"
           THEN status'[m] = "evaluated" /\ error'[m] /\ root'[m] = goal
           ELSE status'[m] = status[m] /\ error'[m] = error[m] /\ root'[m] = root[m]
      /\ promise' = [promise EXCEPT ![goal] = "rejected"]
      /\ todo' = todo
      /\ async' = async /\ order' = order /\ pending' = pending
      /\ \A x \in Module : x # Cur => ran'[x] = ran[x] /\ body'[x] = body[x]
      /\ \/ ran' = ran /\ body' = body
         \/ pending[Cur] = 0 /\ body'[Cur] = "threw" /\ ran'[Cur] = ran[Cur] + 1
  BY AbandonEffect
<1>2. Stamped' = Stamped
  BY <1>1 DEF Stamped
<1>3. body[Cur] = "unstarted" /\ todo = {} /\ ~async[Cur] /\ ran[Cur] = 0
  BY <1>1 DEF Lives, Alive, Queued, Started
<1>4. Lives'
  <2> SUFFICES ASSUME NEW m \in Module PROVE Alive(m)'
    BY DEF Lives
  <2>1. CASE m = Cur
    <3>1. status'[m] = "evaluated" /\ error'[m] /\ ~async'[m] /\ pending'[m] = pending[m]
      BY <2>1, <1>1, <1>3
    <3>2. CASE ran' = ran /\ body' = body
      BY <3>1, <3>2, <2>1, <1>3 DEF Alive, Started
    <3>3. CASE pending[Cur] = 0 /\ body'[Cur] = "threw" /\ ran'[Cur] = ran[Cur] + 1
      <4>1. body'[m] = "threw" /\ ran'[m] = 1 /\ pending[m] = 0
        BY <3>3, <2>1, <1>3
      <4> QED BY <3>1, <4>1 DEF Alive, Started
    <3> QED BY <3>2, <3>3, <1>1
  <2>2. CASE m # Cur /\ status[m] = "evaluating"
    <3>1. /\ status'[m] = "evaluated" /\ error'[m] /\ ran'[m] = ran[m] /\ body'[m] = body[m]
          /\ async' = async /\ Stamped' = Stamped /\ pending' = pending
      BY <2>2, <1>1, <1>2
    <3> QED BY <3>1, <2>2 DEF Lives, Alive, Started
  <2>3. CASE m # Cur /\ status[m] # "evaluating"
    <3>1. /\ status'[m] = status[m] /\ error'[m] = error[m] /\ ran'[m] = ran[m] /\ body'[m] = body[m]
          /\ async' = async /\ Stamped' = Stamped /\ pending' = pending
      BY <2>3, <1>1, <1>2
    <3> QED BY <3>1, <2>3 DEF Lives, Alive, Started
  <2> QED BY <2>1, <2>2, <2>3
<1>5. Queued'
  BY <1>1, <1>3 DEF Queued
<1>6. Cycles'
  <2>1. \A m \in Module : status[m] \in Started => root[m] \in Module /\ status[root[m]] \in Started
    BY DEF EvalInv, Begun
  <2>2. \A m \in Module : status'[m] \notin Started => status[m] \notin Started /\ root'[m] = root[m]
    BY <1>1 DEF Started
  <2>3. \A m \in Module : status'[m] \in Started => root'[root'[m]] = root'[m]
    <3> TAKE m \in Module
    <3>1. CASE status[m] = "evaluating"
      BY <3>1, <1>1
    <3>2. CASE status[m] \in Started
      BY <3>2, <2>1, <1>1 DEF Cycles, Started
    <3>3. CASE status[m] # "evaluating" /\ status[m] \notin Started
      BY <3>3, <1>1
    <3> QED BY <3>1, <3>2, <3>3
  <2> QED BY <2>2, <2>3 DEF Cycles
<1>7. Promised'
  <2>1. promise \in [Module -> Promises]
    BY DEF LifeTypes
  <2>2. promise'[goal] = "rejected" /\ \A x \in Module : x # goal => promise'[x] = promise[x]
    BY <2>1, <1>1
  <2>3. ASSUME NEW m \in Module, m # goal, promise[m] # "none"
        PROVE  status[m] \in Started /\ root[m] = m /\ m # Cur
    BY <2>3, <1>1 DEF Promised, Started
  <2>4. ASSUME NEW m \in Module
        PROVE  /\ promise'[m] # "none" => status'[m] \in Started /\ root'[m] = m
               /\ promise'[m] = "fulfilled" => body'[m] = "done"
               /\ promise'[m] = "rejected" => error'[m]
    <3>1. CASE m = goal
      BY <3>1, <2>2, <1>1 DEF Started
    <3>2. CASE m # goal
      BY <3>2, <2>2, <2>3, <1>1 DEF Promised, Started
    <3> QED BY <3>1, <3>2
  <2> QED BY <2>4 DEF Promised
<1>8. Ended'
  BY <1>1 DEF Ended
<1> QED BY <1>1, <1>4, <1>5, <1>6, <1>7, <1>8

\* A module is given the next timestamp.
LEMMA StampEffect ==
  ASSUME order \in Seq(Module), IsInjective(order), NEW m \in Module, m \notin Stamped,
         order' = Append(order, m)
  PROVE  /\ IsInjective(order') /\ Stamped' = Stamped \cup {m}
         /\ DOMAIN order = 1..Len(order) /\ Len(order) \in Nat /\ DOMAIN order' = 1..(Len(order) + 1)
         /\ \A i \in DOMAIN order : order'[i] = order[i] /\ i < Len(order) + 1
         /\ order'[Len(order) + 1] = m
<1>1. /\ DOMAIN Append(order, m) = 1..(Len(order) + 1)
      /\ \A i \in DOMAIN order : Append(order, m)[i] = order[i]
      /\ Append(order, m)[Len(order) + 1] = m
  BY ONLY order \in Seq(Module), m \in Module, Pushed
<1>2. DOMAIN order = 1..Len(order) /\ Len(order) \in Nat
  BY LenProperties
<1>3. IsInjective(order')
  <2>1. \A i \in DOMAIN order : order[i] # m
    BY DEF Stamped, Range
  <2> QED BY <1>1, <1>2, <2>1 DEF IsInjective
<1>4. Stamped' = Stamped \cup {m}
  <2>1. \A i \in DOMAIN order' : i \in DOMAIN order \/ i = Len(order) + 1
    BY <1>1, <1>2
  <2>2. Len(order) + 1 \in DOMAIN order' /\ \A i \in DOMAIN order : i \in DOMAIN order'
    BY <1>1, <1>2
  <2> QED BY <1>1, <2>1, <2>2 DEF Stamped, Range
<1> QED BY <1>1, <1>2, <1>3, <1>4

LEMMA CloseLife ==
  ASSUME EvalInv, Life, LifeTypes', EvalWaits \/ EvalStarts \/ EvalRuns
  PROVE  Life'
<1> USE DEF Life
<1>1. /\ mode = "eval" /\ mode' = "eval" /\ goal' = goal
      /\ Cur \in Module /\ Cur \in Calls /\ status[Cur] = "evaluating"
      /\ Calls' = Calls \ {Cur}
      /\ Leaving \subseteq Module /\ (Leaving # {} => Cur \in Leaving)
      /\ goal \in Module /\ (goal \in Leaving => Cur = goal)
      /\ frames' = <<>> => goal \in Leaving
      /\ \A m \in Leaving : status[m] = "evaluating" /\ (m \in Calls => m = Cur)
      /\ \A m \in Module : m \in Leaving =>
           root'[m] = Cur /\ status'[m] = IF async'[m] THEN "evaluating_async" ELSE "evaluated"
      /\ \A m \in Module : m \notin Leaving => root'[m] = root[m] /\ status'[m] = status[m]
      /\ todo' = todo /\ promise' = promise
      /\ pending' = pending /\ error' = error
      /\ \A x \in Module : x # Cur => async'[x] = async[x] /\ ran'[x] = ran[x] /\ body'[x] = body[x]
  BY CloseEffect
<1>2. \/ /\ pending[Cur] > 0 /\ async'[Cur] /\ order' = Append(order, Cur)
         /\ body'[Cur] = body[Cur] /\ ran'[Cur] = ran[Cur]
      \/ /\ pending[Cur] = 0 /\ async'[Cur] /\ order' = Append(order, Cur)
         /\ body'[Cur] = "running" /\ ran'[Cur] = ran[Cur] + 1
      \/ /\ pending[Cur] = 0 /\ async'[Cur] = async[Cur] /\ order' = order
         /\ body'[Cur] = "done" /\ ran'[Cur] = ran[Cur] + 1
  BY CloseEffect
<1>3. body[Cur] = "unstarted" /\ ~async[Cur] /\ Cur \notin Stamped /\ ~error[Cur] /\ ran[Cur] = 0 /\ todo = {}
  BY <1>1 DEF Lives, Alive, Queued, Started
<1>4. order \in Seq(Module)
  BY DEF EvalInv, EvalTypes
<1>5. /\ IsInjective(order')
      /\ \A x \in Module : x # Cur => (x \in Stamped' <=> x \in Stamped)
      /\ order' = Append(order, Cur) => Cur \in Stamped'
  <2>1. CASE order' = order
    <3>1. Stamped' = Stamped /\ IsInjective(order')
      BY <2>1 DEF Stamped
    <3>2. order' # Append(order, Cur)
      <4>1. /\ Append(order, Cur) \in Seq(Module) /\ Len(Append(order, Cur)) = Len(order) + 1
        BY ONLY <1>1, <1>4, Pushed
      <4>2. Len(order) \in Nat
        BY ONLY <1>4, LenProperties
      <4> QED BY <2>1, <4>1, <4>2
    <3> QED BY <3>1, <3>2
  <2>2. CASE order' = Append(order, Cur)
    BY ONLY <2>2, <1>1, <1>3, <1>4, IsInjective(order), StampEffect
  <2> QED BY <2>1, <2>2, <1>2
<1>6. \/ async'[Cur] /\ Cur \in Stamped' /\ body'[Cur] = "unstarted" /\ ran'[Cur] = 0
      \/ async'[Cur] /\ Cur \in Stamped' /\ body'[Cur] = "running" /\ ran'[Cur] = 1 /\ pending[Cur] = 0
      \/ ~async'[Cur] /\ body'[Cur] = "done" /\ ran'[Cur] = 1 /\ pending[Cur] = 0
  BY <1>2, <1>3, <1>5
<1>7. Lives'
  <2> SUFFICES ASSUME NEW m \in Module PROVE Alive(m)'
    BY DEF Lives
  <2>0. Alive(m) /\ ~error'[Cur] /\ (m \in Calls' <=> m \in Calls /\ m # Cur) /\ error'[m] = error[m]
        /\ pending'[m] = pending[m]
    BY <1>1, <1>3 DEF Lives
  <2>1. CASE m = Cur
    <3>1. status'[m] \in {"evaluating"} \cup {IF async'[m] THEN "evaluating_async" ELSE "evaluated"}
      BY <2>1, <1>1
    <3>2. \/ async'[m] /\ m \in Stamped' /\ body'[m] = "unstarted" /\ ran'[m] = 0
          \/ async'[m] /\ m \in Stamped' /\ body'[m] = "running" /\ ran'[m] = 1 /\ pending'[m] = 0
          \/ ~async'[m] /\ body'[m] = "done" /\ ran'[m] = 1 /\ pending'[m] = 0
      BY <2>1, <1>1, <1>6
    <3>3. m \notin Calls' /\ ~error'[m]
      BY <2>0, <2>1
    <3> QED BY <3>1, <3>2, <3>3 DEF Alive, Started
  <2>2. CASE m # Cur
    <3>1. /\ async'[m] = async[m] /\ ran'[m] = ran[m] /\ body'[m] = body[m]
          /\ (m \in Stamped' <=> m \in Stamped) /\ (m \in Calls' <=> m \in Calls)
      BY <2>0, <2>2, <1>1, <1>5
    <3>2. CASE m \in Leaving
      <4>1. /\ status[m] = "evaluating" /\ m \notin Calls
            /\ status'[m] = IF async'[m] THEN "evaluating_async" ELSE "evaluated"
        BY <3>2, <2>2, <1>1
      <4> QED BY <4>1, <3>1, <2>0 DEF Alive, Started
    <3>3. CASE m \notin Leaving
      <4>1. status'[m] = status[m]
        BY <3>3, <1>1
      <4> QED BY <4>1, <3>1, <2>0 DEF Alive
    <3> QED BY <3>2, <3>3
  <2> QED BY <2>1, <2>2
<1>8. Queued'
  BY <1>1, <1>3 DEF Queued
<1>9. Cycles'
  <2>1. \A m \in Module : status[m] \in Started => root[m] \in Module /\ status[root[m]] \in Started
    BY DEF EvalInv, Begun
  <2>2. \A m \in Module : m \in Leaving => status[m] \notin Started /\ status'[m] \in Started
    BY <1>1 DEF Started
  <2>3. \A m \in Module : status'[m] \notin Started => root'[m] = None
    BY <1>1, <2>2 DEF Cycles
  <2>4. \A m \in Module : status'[m] \in Started => root'[root'[m]] = root'[m]
    <3> TAKE m \in Module
    <3>1. CASE m \in Leaving
      BY <3>1, <1>1
    <3>2. CASE m \notin Leaving
      BY <3>2, <2>1, <2>2, <1>1 DEF Cycles
    <3> QED BY <3>1, <3>2
  <2> QED BY <2>3, <2>4 DEF Cycles
<1>10. Promised'
  <2> SUFFICES ASSUME NEW m \in Module
               PROVE  /\ promise'[m] # "none" =>
                           \/ status'[m] \in Started /\ root'[m] = m
                           \/ status'[m] = "evaluating" /\ m = goal' /\ promise'[m] = "pending"
                      /\ promise'[m] = "fulfilled" => body'[m] = "done"
                      /\ promise'[m] = "rejected" => error'[m]
    BY DEF Promised
  <2>1. promise'[m] = promise[m] /\ error'[m] = error[m] /\ goal' = goal
    BY <1>1
  <2>2. body[m] = "done" => body'[m] = "done"
    BY <1>1, <1>3
  <2>3. CASE m \in Leaving
    <3>1. status[m] = "evaluating" /\ status'[m] \in Started /\ root'[m] = Cur
      BY <2>3, <1>1 DEF Started
    <3>2. promise[m] # "none" => m = Cur
      BY <3>1, <2>3, <1>1 DEF Promised, Started
    <3> QED BY <3>1, <3>2, <2>1, <2>2 DEF Promised
  <2>4. CASE m \notin Leaving
    BY <2>1, <2>2, <2>4, <1>1 DEF Promised
  <2> QED BY <2>3, <2>4
<1>11. Ended'
  <2> SUFFICES ASSUME frames' = <<>>
               PROVE  /\ status'[goal] = IF async'[goal] THEN "evaluating_async" ELSE "evaluated"
                      /\ root'[goal] = goal /\ ~error'[goal]
    BY <1>1 DEF Ended
  <2>1. goal \in Leaving /\ goal = Cur
    BY <1>1
  <2> QED BY <2>1, <1>1, <1>3
<1> QED BY <1>5, <1>7, <1>8, <1>9, <1>10, <1>11

LEMMA ThrownLife ==
  ASSUME EvalInv, Life, LifeTypes', NEW m \in Module, BodyRejected(m) \/ (ExecuteThrows /\ m = First)
  PROVE  Life'
<1> USE DEF Life
<1> DEFINE D == Doomed(m)
<1>1. /\ mode \in {"idle", "execute"} /\ mode' = mode /\ status[m] = "evaluating_async"
      /\ m \in D /\ D \subseteq Module
      /\ \A x \in D : status[x] = "evaluating_async"
      /\ \A n \in Module : IF n \in D THEN error'[n] /\ status'[n] = "evaluated"
                           ELSE error'[n] = error[n] /\ status'[n] = status[n]
      /\ \A n \in Module : promise'[n] = IF n \in D /\ promise[n] # "none" THEN "rejected" ELSE promise[n]
      /\ body'[m] = "threw" /\ \A x \in Module : x # m => body'[x] = body[x] /\ ran'[x] = ran[x]
      /\ \/ mode = "idle" /\ body[m] = "running" /\ ran' = ran /\ todo' = todo
         \/ /\ mode = "execute" /\ m \in todo /\ m \notin tla /\ m = First
            /\ ran'[m] = ran[m] + 1 /\ todo' = todo \ {m}
      /\ frames' = frames /\ goal' = goal
      /\ async' = async /\ order' = order /\ pending' = pending /\ root' = root
  BY ThrownEffect
<1> HIDE DEF D
<1>2. Stamped' = Stamped /\ Calls' = Calls /\ Calls \subseteq Module
  <2>1. Calls \subseteq Module
    BY EvalRanges DEF Calls, EvalInv
  <2> QED BY <2>1, <1>1 DEF Stamped, Calls
<1>3. /\ ran'[m] = 1 /\ todo' \subseteq todo /\ m \notin todo' /\ ~(pending[m] > 0)
      /\ mode = "idle" => todo = {}
  <2>1. CASE mode = "idle"
    BY <2>1, <1>1 DEF Queued, Lives, Alive
  <2>2. CASE mode = "execute"
    <3>1. m \in todo /\ todo' = todo \ {m} /\ body[m] = "unstarted" /\ pending[m] = 0 /\ ran'[m] = ran[m] + 1
      BY <2>2, <1>1 DEF Queued
    <3>2. ran[m] = 0
      BY <3>1 DEF Lives, Alive
    <3> QED BY <3>1, <3>2, <2>2
  <2> QED BY <2>1, <2>2, <1>1
<1>4. Lives'
  <2> SUFFICES ASSUME NEW n \in Module PROVE Alive(n)'
    BY DEF Lives
  <2>0. Alive(n)
    BY DEF Lives
  <2>1. CASE n = m
    <3>1. /\ status'[n] = "evaluated" /\ error'[n] /\ body'[n] = "threw" /\ ran'[n] = 1
          /\ ~(pending'[n] > 0) /\ (async'[n] => n \in Stamped')
      BY <2>0, <2>1, <1>1, <1>2, <1>3 DEF Alive
    <3> QED BY <3>1 DEF Alive, Started
  <2>2. CASE n # m /\ n \in D
    <3>1. /\ status'[n] = "evaluated" /\ error'[n] /\ body'[n] = body[n] /\ ran'[n] = ran[n]
          /\ pending'[n] = pending[n] /\ (async'[n] => n \in Stamped')
      BY <2>0, <2>2, <1>1, <1>2 DEF Alive
    <3> QED BY <2>0, <3>1 DEF Alive, Started
  <2>3. CASE n # m /\ n \notin D
    <3>1. /\ status'[n] = status[n] /\ error'[n] = error[n] /\ body'[n] = body[n] /\ ran'[n] = ran[n]
          /\ pending'[n] = pending[n] /\ async'[n] = async[n] /\ Calls' = Calls /\ Stamped' = Stamped
      BY <2>3, <1>1, <1>2
    <3> QED BY <2>0, <3>1 DEF Alive
  <2> QED BY <2>1, <2>2, <2>3
<1>5. Queued'
  <2>1. \A x \in todo' : x \in Module /\ x # m
    BY <1>3 DEF EvalInv, EvalTypes
  <2> QED BY <2>1, <1>1, <1>3 DEF Queued
<1>6. Cycles'
  <2>1. \A x \in Module : status'[x] \in Started <=> status[x] \in Started
    <3> TAKE x \in Module
    <3>1. CASE x \in D
      BY <3>1, <1>1 DEF Started
    <3>2. CASE x \notin D
      BY <3>2, <1>1
    <3> QED BY <3>1, <3>2
  <2> QED BY <2>1, <1>1 DEF Cycles
<1>7. Promised'
  <2> SUFFICES ASSUME NEW n \in Module
               PROVE  /\ promise'[n] # "none" =>
                           \/ status'[n] \in Started /\ root'[n] = n
                           \/ status'[n] = "evaluating" /\ n = goal' /\ promise'[n] = "pending"
                      /\ promise'[n] = "fulfilled" => body'[n] = "done"
                      /\ promise'[n] = "rejected" => error'[n]
    BY DEF Promised
  <2>1. CASE n \in D
    <3>1. /\ status[n] = "evaluating_async" /\ status'[n] = "evaluated" /\ error'[n] /\ root'[n] = root[n]
          /\ promise'[n] = IF promise[n] # "none" THEN "rejected" ELSE promise[n]
      BY <2>1, <1>1
    <3> QED BY <3>1 DEF Promised, Started
  <2>2. CASE n \notin D
    <3>1. /\ status'[n] = status[n] /\ error'[n] = error[n] /\ root'[n] = root[n] /\ body'[n] = body[n]
          /\ promise'[n] = promise[n] /\ goal' = goal
      BY <2>2, <1>1
    <3> QED BY <3>1 DEF Promised
  <2> QED BY <2>1, <2>2
<1>8. Ended'
  BY <1>1 DEF Ended
<1> QED BY <1>1, <1>4, <1>5, <1>6, <1>7, <1>8

LEMMA DoneLife ==
  ASSUME EvalInv, Life, LifeTypes', NEW m \in Module, BodyFulfilled(m) \/ (ExecuteRuns /\ m = First)
  PROVE  Life'
<1> USE DEF Life
<1>1. /\ status[m] = "evaluating_async" /\ status'[m] = "evaluated"
      /\ body'[m] = "done" /\ promise'[m] = IF promise[m] = "none" THEN "none" ELSE "fulfilled"
      /\ \A x \in Module : x # m => /\ status'[x] = status[x] /\ promise'[x] = promise[x]
                                    /\ body'[x] = body[x] /\ ran'[x] = ran[x] /\ async'[x] = async[x]
      /\ \/ /\ mode = "idle" /\ mode' = "gather" /\ body[m] = "running" /\ ran' = ran /\ todo' = todo
            /\ ~async'[m] /\ frames' = <<Frame(m)>>
         \/ /\ mode = "execute" /\ mode' = "execute" /\ m \in todo /\ m \notin tla /\ m = First
            /\ ran'[m] = ran[m] + 1 /\ todo' = todo \ {m}
            /\ async' = async /\ frames' = frames
      /\ goal' = goal
      /\ order' = order /\ pending' = pending /\ root' = root /\ error' = error
  BY DoneEffect
<1>2. Stamped' = Stamped
  BY <1>1 DEF Stamped
<1>3. /\ ran'[m] = 1 /\ todo' \subseteq todo /\ m \notin todo' /\ ~(pending[m] > 0)
      /\ async'[m] => m \in Stamped
      /\ mode = "idle" => todo = {}
  <2>1. CASE mode = "idle"
    BY <2>1, <1>1 DEF Queued, Lives, Alive
  <2>2. CASE mode = "execute"
    <3>1. m \in todo /\ todo' = todo \ {m} /\ body[m] = "unstarted" /\ pending[m] = 0 /\ ran'[m] = ran[m] + 1
      BY <2>2, <1>1 DEF Queued
    <3>2. ran[m] = 0 /\ (async[m] => m \in Stamped) /\ async' = async
      BY <3>1, <2>2, <1>1 DEF Lives, Alive
    <3> QED BY <3>1, <3>2, <2>2
  <2> QED BY <2>1, <2>2, <1>1
<1>4. \A x \in Module : status[x] # "evaluating"
  BY <1>1 DEF EvalInv, Unfinished
<1>5. Lives'
  <2> SUFFICES ASSUME NEW n \in Module PROVE Alive(n)'
    BY DEF Lives
  <2>0. Alive(n) /\ status[n] # "evaluating"
    BY <1>4 DEF Lives
  <2>1. CASE n = m
    <3>1. /\ status'[n] = "evaluated" /\ body'[n] = "done" /\ ran'[n] = 1 /\ error'[n] = error[n]
          /\ ~(pending'[n] > 0) /\ (async'[n] => n \in Stamped')
      BY <2>0, <2>1, <1>1, <1>2, <1>3
    <3> QED BY <3>1 DEF Alive, Started
  <2>2. CASE n # m
    <3>1. /\ status'[n] = status[n] /\ error'[n] = error[n] /\ body'[n] = body[n] /\ ran'[n] = ran[n]
          /\ pending'[n] = pending[n] /\ async'[n] = async[n] /\ Stamped' = Stamped
      BY <2>2, <1>1, <1>2
    <3> QED BY <2>0, <3>1 DEF Alive
  <2> QED BY <2>1, <2>2
<1>6. Queued'
  <2>1. \A x \in todo' : x \in Module /\ x # m
    BY <1>3 DEF EvalInv, EvalTypes
  <2> QED BY <2>1, <1>1, <1>3 DEF Queued
<1>7. Cycles'
  <2>1. \A x \in Module : status'[x] \in Started <=> status[x] \in Started
    BY <1>1 DEF Started
  <2> QED BY <2>1, <1>1 DEF Cycles
<1>8. Promised'
  <2> SUFFICES ASSUME NEW n \in Module
               PROVE  /\ promise'[n] # "none" =>
                           \/ status'[n] \in Started /\ root'[n] = n
                           \/ status'[n] = "evaluating" /\ n = goal' /\ promise'[n] = "pending"
                      /\ promise'[n] = "fulfilled" => body'[n] = "done"
                      /\ promise'[n] = "rejected" => error'[n]
    BY DEF Promised
  <2>1. CASE n = m
    BY <2>1, <1>1 DEF Promised, Started
  <2>2. CASE n # m
    BY <2>2, <1>1 DEF Promised
  <2> QED BY <2>1, <2>2
<1>9. Ended'
  BY <1>1 DEF Ended
<1> QED BY <1>1, <1>5, <1>6, <1>7, <1>8, <1>9

LEMMA GatherLife ==
  ASSUME EvalInv, Life, LifeTypes', Gather
  PROVE  Life'
<1> USE DEF Life
<1>1. /\ mode = "gather" /\ mode' \in {"gather", "execute"} /\ goal' = goal
      /\ status' = status /\ async' = async /\ order' = order
      /\ root' = root /\ error' = error /\ promise' = promise /\ ran' = ran /\ body' = body
      /\ \/ pending' = pending /\ todo' = todo
         \/ /\ AtParent /\ ~Skipped(Parent) /\ Parent \in Module
            /\ pending'[Parent] = pending[Parent] - 1
            /\ \A x \in Module : x # Parent => pending'[x] = pending[x]
            /\ todo' = IF pending[Parent] = 1 THEN todo \cup {Parent} ELSE todo
  BY GatherEffect
<1>2. Stamped' = Stamped /\ \A x \in Module : status[x] # "evaluating"
  BY <1>1 DEF Stamped, EvalInv, Unfinished
<1>3. pending \in [Module -> Int] /\ todo \subseteq Module
  BY DEF EvalInv, EvalTypes
<1>4. ASSUME NEW x \in Module, pending'[x] > 0 PROVE pending[x] > 0
  BY <1>1, <1>3, <1>4
<1>5. Lives'
  <2> SUFFICES ASSUME NEW n \in Module PROVE Alive(n)'
    BY DEF Lives
  <2>0. Alive(n) /\ status[n] # "evaluating" /\ (pending'[n] > 0 => pending[n] > 0)
    BY <1>2, <1>4 DEF Lives
  <2> QED BY <2>0, <1>1, <1>2 DEF Alive
<1>6. Queued'
  <2>1. CASE pending' = pending /\ todo' = todo
    BY <2>1, <1>1 DEF Queued
  <2>2. CASE /\ AtParent /\ ~Skipped(Parent) /\ Parent \in Module
             /\ pending'[Parent] = pending[Parent] - 1
             /\ \A x \in Module : x # Parent => pending'[x] = pending[x]
             /\ todo' = IF pending[Parent] = 1 THEN todo \cup {Parent} ELSE todo
    <3>1. Parent \notin todo
      BY <2>2 DEF Skipped
    <3>2. pending[Parent] = 1 => pending'[Parent] = 0 /\ body[Parent] = "unstarted"
      BY <2>2 DEF Lives, Alive
    <3>3. ASSUME NEW x \in todo' PROVE pending'[x] = 0 /\ body'[x] = "unstarted"
      <4>1. CASE x \in todo
        BY <4>1, <3>1, <2>2, <1>1, <1>3 DEF Queued
      <4>2. CASE x \notin todo
        BY <4>2, <3>2, <3>3, <2>2, <1>1
      <4> QED BY <4>1, <4>2
    <3> QED BY <3>3, <1>1 DEF Queued
  <2> QED BY <2>1, <2>2, <1>1
<1>7. Cycles'
  BY <1>1 DEF Cycles
<1>8. Promised'
  BY <1>1 DEF Promised
<1>9. Ended'
  BY <1>1 DEF Ended
<1> QED BY <1>1, <1>5, <1>6, <1>7, <1>8, <1>9

LEMMA ExecuteLife ==
  ASSUME EvalInv, Life, LifeTypes', ExecuteSkips \/ ExecuteStarts \/ ExecuteEnds
  PROVE  Life'
<1> USE DEF Life
<1>1. /\ mode = "execute" /\ mode' \in {"execute", "idle"} /\ goal' = goal
      /\ frames' = frames
      /\ status' = status /\ async' = async /\ order' = order /\ pending' = pending
      /\ root' = root /\ error' = error /\ promise' = promise
      /\ \/ mode' = "idle" /\ todo = {} /\ todo' = {} /\ ran' = ran /\ body' = body
         \/ /\ mode' = "execute" /\ First \in todo /\ First \in Module
            /\ todo' = todo \ {First}
            /\ \/ ran' = ran /\ body' = body
               \/ /\ status[First] = "evaluating_async"
                  /\ body'[First] = "running" /\ ran'[First] = ran[First] + 1
                  /\ \A x \in Module : x # First => body'[x] = body[x] /\ ran'[x] = ran[x]
  BY ExecuteEffect
<1>2. Stamped' = Stamped /\ todo \subseteq Module /\ \A x \in Module : status[x] # "evaluating"
  BY <1>1 DEF Stamped, EvalInv, Unfinished, EvalTypes
<1>3. CASE ran' = ran /\ body' = body
  <2>1. Lives'
    <3> SUFFICES ASSUME NEW n \in Module PROVE Alive(n)'
      BY DEF Lives
    <3>0. Alive(n) /\ status[n] # "evaluating"
      BY <1>2 DEF Lives
    <3> QED BY <3>0, <1>1, <1>2, <1>3 DEF Alive
  <2>2. Queued'
    BY <1>1, <1>3 DEF Queued
  <2>3. Cycles'
    BY <1>1 DEF Cycles
  <2>4. Promised'
    BY <1>1, <1>3 DEF Promised
  <2>5. Ended'
    BY <1>1 DEF Ended
  <2> QED BY <1>1, <2>1, <2>2, <2>3, <2>4, <2>5
<1>4. CASE /\ mode' = "execute" /\ First \in todo /\ First \in Module
           /\ todo' = todo \ {First}
           /\ status[First] = "evaluating_async"
           /\ body'[First] = "running" /\ ran'[First] = ran[First] + 1
           /\ \A x \in Module : x # First => body'[x] = body[x] /\ ran'[x] = ran[x]
  <2>0. body[First] = "unstarted" /\ pending[First] = 0 /\ ran[First] = 0
    BY <1>4 DEF Queued, Lives, Alive
  <2>1. Lives'
    <3> SUFFICES ASSUME NEW n \in Module PROVE Alive(n)'
      BY DEF Lives
    <3>0. Alive(n) /\ status[n] # "evaluating"
      BY <1>2 DEF Lives
    <3>1. CASE n = First
      <4>1. /\ status'[n] = "evaluating_async" /\ body'[n] = "running" /\ ran'[n] = 1 /\ pending'[n] = 0
            /\ error'[n] = error[n] /\ async'[n] = async[n] /\ Stamped' = Stamped
        BY <3>1, <2>0, <1>1, <1>2, <1>4
      <4>2. status[n] = "evaluating_async"
        BY <3>1, <1>4
      <4> QED BY <3>0, <4>1, <4>2 DEF Alive, Started
    <3>2. CASE n # First
      BY <3>0, <3>2, <1>1, <1>2, <1>4 DEF Alive
    <3> QED BY <3>1, <3>2
  <2>2. Queued'
    <3>1. \A x \in todo' : x \in todo /\ x \in Module /\ x # First
      BY <1>2, <1>4
    <3> QED BY <3>1, <1>1, <1>4 DEF Queued
  <2>3. Cycles'
    BY <1>1 DEF Cycles
  <2>4. Promised'
    <3>1. \A x \in Module : body[x] = "done" => body'[x] = "done"
      BY <2>0, <1>4
    <3> QED BY <3>1, <1>1 DEF Promised
  <2>5. Ended'
    BY <1>1 DEF Ended
  <2> QED BY <1>1, <2>1, <2>2, <2>3, <2>4, <2>5
<1> QED BY <1>1, <1>3, <1>4

LEMMA IgnoredLife ==
  ASSUME EvalInv, Life, LifeTypes', NEW m \in Module, \E b \in {"done", "threw"} : BodyIgnored(m, b)
  PROVE  Life'
<1> USE DEF Life
<1>1. /\ mode = "idle" /\ mode' = "idle" /\ body[m] = "running" /\ status[m] = "evaluated"
      /\ body'[m] \in {"done", "threw"} /\ \A x \in Module : x # m => body'[x] = body[x]
      /\ frames' = frames /\ goal' = goal
      /\ status' = status /\ async' = async /\ order' = order /\ pending' = pending
      /\ root' = root /\ error' = error /\ promise' = promise
      /\ todo' = todo /\ ran' = ran
  BY IgnoredEffect
<1>2. Stamped' = Stamped /\ Calls' = Calls
  BY <1>1 DEF Stamped, Calls
<1>3. error[m] /\ ran[m] = 1 /\ ~(pending[m] > 0) /\ todo = {}
  BY <1>1 DEF Lives, Alive, Queued
<1>4. Lives'
  <2> SUFFICES ASSUME NEW n \in Module PROVE Alive(n)'
    BY DEF Lives
  <2>0. Alive(n)
    BY DEF Lives
  <2>1. CASE n = m
    <3>1. /\ status'[n] = "evaluated" /\ error'[n] /\ ran'[n] = 1 /\ ~(pending'[n] > 0)
          /\ (async'[n] => n \in Stamped') /\ body'[n] \in {"done", "threw"}
      BY <2>0, <2>1, <1>1, <1>2, <1>3 DEF Alive
    <3> QED BY <3>1 DEF Alive, Started
  <2>2. CASE n # m
    BY <2>0, <2>2, <1>1, <1>2 DEF Alive
  <2> QED BY <2>1, <2>2
<1>5. Queued'
  BY <1>1, <1>3 DEF Queued
<1>6. Cycles'
  BY <1>1 DEF Cycles
<1>7. Promised'
  BY <1>1 DEF Promised
<1>8. Ended'
  BY <1>1 DEF Ended
<1> QED BY <1>1, <1>4, <1>5, <1>6, <1>7, <1>8

LEMMA LifeInit == Init => Life
<1> SUFFICES ASSUME Init PROVE Life
  OBVIOUS
<1>1. LifeTypes
  BY ModuleAssumption DEF Init, LifeTypes, Promises
<1>2. Stamped = {} /\ IsInjective(order)
  <2>1. order = <<>>
    BY DEF Init
  <2> QED BY ONLY <2>1, Empty, Zenon DEF Stamped
<1>3. Lives
  BY <1>2 DEF Init, Lives, Alive, Started
<1>4. Queued
  BY DEF Init, Queued
<1>5. Cycles
  BY DEF Init, Cycles, Started
<1>6. Promised
  BY DEF Init, Promised
<1>7. Ended
  BY DEF Init, Ended
<1> QED BY <1>1, <1>2, <1>3, <1>4, <1>5, <1>6, <1>7 DEF Life

LEMMA LifeNext ==
  ASSUME EvalInv, Life, [Next]_vars
  PROVE  Life'
<1>1. LifeTypes'
  BY LifeTypesKept DEF Life
<1>2. CASE UNCHANGED vars
  <2>1. /\ status' = status /\ mode' = mode /\ goal' = goal /\ frames' = frames /\ async' = async /\ order' = order
        /\ pending' = pending /\ root' = root /\ error' = error /\ promise' = promise /\ todo' = todo
        /\ ran' = ran /\ body' = body
    BY <1>2 DEF vars, walk, deps, bodies
  <2>2. Stamped' = Stamped /\ Calls' = Calls
    BY <2>1 DEF Stamped, Calls
  <2>3. Lives'
    BY <2>1, <2>2 DEF Life, Lives, Alive
  <2>4. Queued' /\ Cycles' /\ Promised'
    BY <2>1 DEF Life, Queued, Cycles, Promised
  <2>5. Ended'
    BY <2>1 DEF Life, Ended
  <2> QED BY <1>1, <2>1, <2>3, <2>4, <2>5 DEF Life
<1>3. CASE (\E m \in Module : Import(m)) \/ Link \/ EvaluateAgain
  BY <1>1, <1>3, LinkLife
<1>4. CASE EvaluateStarted \/ EvaluateReturns
  BY <1>1, <1>4, SettleLife
<1>5. CASE EvaluateFirst \/ EvalRequest
  BY <1>1, <1>5, OpenLife
<1>6. CASE EvalReturned
  BY <1>1, <1>6, ReturnedLife
<1>7. CASE EvalChildFailed \/ EvalThrows
  BY <1>1, <1>7, AbandonLife
<1>8. CASE EvalWaits \/ EvalStarts \/ EvalRuns
  BY <1>1, <1>8, CloseLife
<1>9. CASE \E m \in Module : BodyRejected(m) \/ (ExecuteThrows /\ m = First)
  BY <1>1, <1>9, ThrownLife
<1>10. CASE \E m \in Module : BodyFulfilled(m) \/ (ExecuteRuns /\ m = First)
  BY <1>1, <1>10, DoneLife
<1>11. CASE Gather
  BY <1>1, <1>11, GatherLife
<1>12. CASE ExecuteSkips \/ ExecuteStarts \/ ExecuteEnds
  BY <1>1, <1>12, ExecuteLife
<1>13. CASE \E m \in Module : \E b \in {"done", "threw"} : BodyIgnored(m, b)
  BY <1>1, <1>13, IgnoredLife
<1> QED BY <1>2, <1>3, <1>4, <1>5, <1>6, <1>7, <1>8, <1>9, <1>10, <1>11, <1>12, <1>13, StepKinds

-----------------------------------------------------------------------------
(* What leads where.                                                       *)

Reached == [m \in Module |-> Reach(m)]

\* dfs_ancestor_index leads to a module that can be reached, and below what
\* has ended; the root of a cycle, what a module waits for and the body that
\* failed it can be reached from there.
Backward ==
  mode = "eval" =>
    \A k \in DOMAIN stack : /\ stack[anc[stack[k]]] \in Reached[stack[k]]
                            /\ stack[k] \notin Calls => anc[stack[k]] < k
Rooted == \A m \in Module : status[m] \in Started => root[m] \in Reached[m] \/ error[m]
Needed == \A m \in Module : \A p \in Range(parents[m]) : m \in Reached[p]
Blamed == \A m \in Module : error[m] => \E d \in Reached[m] : body[d] = "threw"

Reaching == Backward /\ Rooted /\ Needed /\ Blamed

LEMMA ReachedIs ==
  ASSUME EvalTypes
  PROVE  /\ \A m \in Module : Reached[m] = Reach(m) /\ Reached[m] \subseteq Module /\ m \in Reached[m]
         /\ \A m \in Module : \A n \in Reached[m] : \A r \in DOMAIN requests[n] : requests[n][r] \in Reached[m]
         /\ \A m \in Module : \A n \in Reached[m] : Reached[n] \subseteq Reached[m]
<1>1. \A m \in Module : Reached[m] = Reach(m)
  BY DEF Reached
<1>2. \A m \in Module : Reached[m] \subseteq Module /\ m \in Reached[m]
  BY <1>1 DEF Reach
<1>3. ASSUME NEW m \in Module, NEW n \in Reached[m], NEW r \in DOMAIN requests[n]
      PROVE  requests[n][r] \in Reached[m]
  <2>1. n \in Module /\ requests[n][r] \in Module /\ requests[n][r] \in Range(requests[n])
    BY <1>2, EvalRanges DEF Range
  <2>2. ASSUME NEW S \in SUBSET Module, m \in S, \A x \in S : Range(requests[x]) \subseteq S
        PROVE  requests[n][r] \in S
    <3>1. n \in S
      BY <1>1, <2>2 DEF Reach
    <3> QED BY <3>1, <2>1, <2>2
  <2>3. requests[n][r] \in Reach(m)
    BY <2>1, <2>2 DEF Reach
  <2> QED BY <2>3, <1>1
<1>4. ASSUME NEW m \in Module, NEW n \in Reached[m] PROVE Reached[n] \subseteq Reached[m]
  <2>1. n \in Module /\ n \in Reach(m)
    BY <1>1, <1>2
  <2>2. ASSUME NEW o \in Reach(n) PROVE o \in Reach(m)
    <3>1. o \in Module
      BY DEF Reach
    <3>2. ASSUME NEW S \in SUBSET Module, m \in S, \A x \in S : Range(requests[x]) \subseteq S
          PROVE  o \in S
      <4>1. n \in S
        BY <2>1, <3>2 DEF Reach
      <4> QED BY <4>1, <3>2, <2>2 DEF Reach
    <3> QED BY <3>1, <3>2 DEF Reach
  <2> QED BY <2>1, <2>2, <1>1
<1> QED BY <1>1, <1>2, <1>3, <1>4

LEMMA ReachedKept ==
  ASSUME requests' = requests
  PROVE  Reached' = Reached
BY DEF Reached, Reach

\* Everything that a walk has not ended leads to the call in progress.
LEMMA ReachesCur ==
  ASSUME EvalInv, Backward, mode = "eval", frames # <<>>, NEW k \in DOMAIN stack
  PROVE  Cur \in Reached[stack[k]]
<1>0. EvalTypes /\ Walk
  BY DEF EvalInv
<1> DEFINE n == Len(frames)
<1>1. n \in Nat /\ n \in DOMAIN frames /\ DOMAIN frames = 1..n /\ Cur = frames[n].mod /\ Cur \in Module
  BY <1>0, Calling, EvalRanges
<1>2. ASSUME NEW i \in DOMAIN frames PROVE Cur \in Reached[frames[i].mod]
  <2> DEFINE Bad == {j \in Nat : n - j \in DOMAIN frames /\ Cur \notin Reached[frames[n - j].mod]}
  <2>1. Bad = {}
    <3> SUFFICES ASSUME Bad # {} PROVE FALSE
      OBVIOUS
    <3>1. Bad \in SUBSET Nat
      OBVIOUS
    <3>2. PICK j \in Bad : \A l \in Bad : j <= l
      <4> HIDE DEF Bad
      <4> QED BY <3>1, Smallest
    <3>3. j # 0
      BY <1>0, <1>1, ReachedIs
    <3>4. j - 1 \in Nat /\ n - j + 1 = n - (j - 1) /\ n - j + 1 \in DOMAIN frames /\ n - j \in DOMAIN frames /\ n - j < n
      BY <3>3, <1>1
    <3>5. Cur \in Reached[frames[n - j + 1].mod]
      <4>1. j \in Nat
        BY <3>1
      <4>2. ~(j <= j - 1)
        BY <4>1
      <4>3. j - 1 \notin Bad
        <5> HIDE DEF Bad
        <5> QED BY <3>2, <4>2
      <4>4. n - (j - 1) = n - j + 1
        BY <3>4
      <4>5. n - (j - 1) \in DOMAIN frames
        BY <3>4, <4>4
      <4> QED BY <4>3, <4>4, <4>5, <3>4
    <3>6. /\ frames[n - j].next <= Len(requests[frames[n - j].mod])
          /\ Asked(n - j) = frames[n - j + 1].mod
      BY <3>4, <1>0 DEF Walk, Nested
    <3>7. frames[n - j].mod \in Module /\ frames[n - j].next \in DOMAIN requests[frames[n - j].mod]
      <4>1. frames[n - j].mod \in Module /\ frames[n - j].next \in Nat /\ frames[n - j].next > 0
        BY <3>4, <1>0, EvalRanges
      <4>2. /\ Len(requests[frames[n - j].mod]) \in Nat
            /\ DOMAIN requests[frames[n - j].mod] = 1..Len(requests[frames[n - j].mod])
        BY <4>1, <1>0, EvalRanges
      <4> QED BY <4>1, <4>2, <3>6
    <3>8. Asked(n - j) \in Reached[frames[n - j].mod]
      BY <3>7, <1>0, ReachedIs DEF Asked
    <3>9. Cur \in Reached[frames[n - j].mod]
      BY <3>5, <3>6, <3>7, <3>8, <1>0, ReachedIs
    <3> QED BY <3>9
  <2>2. n - i \in Nat /\ n - (n - i) = i
    BY <1>1
  <2> QED BY <2>1, <2>2
<1> DEFINE I == {p \in DOMAIN stack : stack[p] \in Reached[stack[k]]}
<1>3. DOMAIN stack \subseteq Nat /\ \A p \in DOMAIN stack : stack[p] \in Module
  BY <1>0, EvalRanges
<1>4. I \in SUBSET Nat /\ k \in I
  BY <1>0, <1>3, ReachedIs
<1>5. PICK p \in I : \A q \in I : p <= q
  <2> HIDE DEF I
  <2> QED BY <1>4, Smallest
<1>6. p \in DOMAIN stack /\ stack[p] \in Reached[stack[k]]
  OBVIOUS
<1>7. stack[p] \in Calls
  <2> SUFFICES ASSUME stack[p] \notin Calls PROVE FALSE
    OBVIOUS
  <2>1. anc[stack[p]] \in 1..p /\ anc[stack[p]] < p /\ stack[anc[stack[p]]] \in Reached[stack[p]]
    BY <1>6, <1>0 DEF Backward, Walk, Lowered
  <2>2. anc[stack[p]] \in DOMAIN stack
    BY <2>1, <1>6, <1>0, EvalRanges
  <2>3. stack[anc[stack[p]]] \in Reached[stack[k]]
    BY <2>1, <1>3, <1>6, <1>0, ReachedIs
  <2> HIDE DEF I
  <2>4. anc[stack[p]] \in I
    BY <2>2, <2>3 DEF I
  <2>5. p \in Nat
    BY <1>3, <1>6
  <2> QED BY <2>1, <2>4, <2>5, <1>5
<1>8. Cur \in Reached[stack[p]]
  BY <1>2, <1>7 DEF Calls
<1> QED BY <1>3, <1>6, <1>8, <1>0, ReachedIs

\* Outside a walk nothing is linked up: only failures spread.
LEMMA QuietReaching ==
  ASSUME EvalInv, Reaching, requests' = requests, root' = root, parents' = parents,
         mode' # "eval",
         \A m \in Module : status'[m] \in Started => status[m] \in Started,
         \A m \in Module : body[m] = "threw" => body'[m] = "threw",
         \A m \in Module : error[m] => error'[m],
         \A m \in Module : error'[m] => error[m] \/ \E d \in Reached[m] : body'[d] = "threw"
  PROVE  Reaching'
<1>1. Reached' = Reached /\ \A m \in Module : Reached[m] \subseteq Module
  BY ReachedKept, ReachedIs DEF EvalInv
<1>2. Backward'
  BY DEF Backward
<1>3. Rooted'
  BY <1>1 DEF Reaching, Rooted
<1>4. Needed'
  BY <1>1 DEF Reaching, Needed
<1>5. Blamed'
  BY <1>1 DEF Reaching, Blamed
<1> QED BY <1>2, <1>3, <1>4, <1>5 DEF Reaching

LEMMA LinkReaching ==
  ASSUME EvalInv, Reaching, (\E m \in Module : Import(m)) \/ Link \/ EvaluateAgain
  PROVE  Reaching'
BY LinkEffect, QuietReaching

LEMMA SettleReaching ==
  ASSUME EvalInv, LifeTypes, Reaching, EvaluateStarted \/ EvaluateReturns
  PROVE  Reaching'
BY SettleEffect, QuietReaching

LEMMA ThrownReaching ==
  ASSUME EvalInv, Life, Reaching, NEW m \in Module, BodyRejected(m) \/ (ExecuteThrows /\ m = First)
  PROVE  Reaching'
<1> DEFINE D == Doomed(m)
<1>1. /\ mode \in {"idle", "execute"} /\ mode' = mode /\ status[m] = "evaluating_async"
      /\ m \in D /\ D \subseteq Module
      /\ \A x \in D : status[x] = "evaluating_async"
      /\ \A n \in Module : IF n \in D THEN error'[n] /\ status'[n] = "evaluated"
                           ELSE error'[n] = error[n] /\ status'[n] = status[n]
      /\ body'[m] = "threw" /\ \A x \in Module : x # m => body'[x] = body[x]
      /\ requests' = requests /\ parents' = parents /\ root' = root
  BY ThrownEffect DEF Life
<1>2. ASSUME NEW n \in D PROVE m \in Reached[n]
  <2> DEFINE S == {x \in Module : m \in Reached[x]}
  <2>1. m \in S /\ S \subseteq Module
    BY ReachedIs DEF EvalInv
  <2>2. \A x \in S : \A p \in Range(parents[x]) : status[p] # "evaluated" => p \in S
    <3> TAKE x \in S
    <3> TAKE p \in Range(parents[x])
    <3>1. p \in Module
      BY <1>1, QuietStarted
    <3>2. x \in Reached[p]
      BY DEF Reaching, Needed
    <3>3. m \in Reached[p]
      BY <3>1, <3>2, ReachedIs DEF EvalInv
    <3> QED BY <3>1, <3>3
  <2> HIDE DEF S
  <2>3. n \in S
    BY <2>1, <2>2 DEF Doomed
  <2> QED BY <2>3 DEF S
<1> HIDE DEF D
<1>3. \A x \in Module : status'[x] \in Started => status[x] \in Started
  <2> TAKE x \in Module
  <2>1. CASE x \in D
    BY <2>1, <1>1 DEF Started
  <2>2. CASE x \notin D
    BY <2>2, <1>1
  <2> QED BY <2>1, <2>2
<1>4. \A x \in Module : error[x] => error'[x]
  BY <1>1
<1>5. \A x \in Module : error'[x] => error[x] \/ \E d \in Reached[x] : body'[d] = "threw"
  <2> TAKE x \in Module
  <2>1. CASE x \in D
    BY <2>1, <1>1, <1>2
  <2>2. CASE x \notin D
    BY <2>2, <1>1
  <2> QED BY <2>1, <2>2
<1>6. \A x \in Module : body[x] = "threw" => body'[x] = "threw"
  BY <1>1
<1> QED BY <1>1, <1>3, <1>4, <1>5, <1>6, QuietReaching

LEMMA DoneReaching ==
  ASSUME EvalInv, Life, Reaching, NEW m \in Module, BodyFulfilled(m) \/ (ExecuteRuns /\ m = First)
  PROVE  Reaching'
<1>1. /\ status[m] = "evaluating_async" /\ mode' \in {"gather", "execute"}
      /\ body'[m] = "done"
      /\ \A x \in Module : x # m => status'[x] = status[x] /\ body'[x] = body[x]
      /\ requests' = requests /\ parents' = parents /\ root' = root /\ error' = error
  BY DoneEffect DEF Life
<1>2. body[m] # "threw"
  BY <1>1 DEF Life, Lives, Alive
<1> QED BY <1>1, <1>2, QuietReaching DEF Started

LEMMA GatherReaching ==
  ASSUME EvalInv, LifeTypes, Reaching, Gather
  PROVE  Reaching'
BY GatherEffect, QuietReaching

LEMMA ExecuteReaching ==
  ASSUME EvalInv, Life, Reaching, ExecuteSkips \/ ExecuteStarts \/ ExecuteEnds
  PROVE  Reaching'
<1>1. /\ mode' \in {"execute", "idle"}
      /\ requests' = requests /\ status' = status
      /\ parents' = parents /\ root' = root /\ error' = error
      /\ \/ body' = body
         \/ /\ First \in todo /\ First \in Module
            /\ \A x \in Module : x # First => body'[x] = body[x]
  BY ExecuteEffect DEF Life
<1>2. First \in todo => body[First] # "threw"
  BY DEF Life, Queued
<1> QED BY <1>1, <1>2, QuietReaching

LEMMA IgnoredReaching ==
  ASSUME EvalInv, LifeTypes, Reaching, NEW m \in Module, \E b \in {"done", "threw"} : BodyIgnored(m, b)
  PROVE  Reaching'
<1>1. /\ mode' = "idle" /\ body[m] = "running"
      /\ \A x \in Module : x # m => body'[x] = body[x]
      /\ requests' = requests /\ status' = status
      /\ parents' = parents /\ root' = root /\ error' = error
  BY IgnoredEffect
<1> QED BY <1>1, QuietReaching

LEMMA OpenReaching ==
  ASSUME EvalInv, Reaching, EvaluateFirst \/ EvalRequest
  PROVE  Reaching'
<1>0. EvalTypes /\ Walk /\ "evaluating" \in Status
  BY DEF EvalInv, EvaluateFirst, EvalRequest, Linked, Status
<1>1. /\ mode' = "eval" /\ requests' = requests /\ parents' = parents
      /\ root' = root /\ error' = error /\ body' = body
  BY OpenEffect
<1>2. PICK m \in Module :
        /\ m \notin Range(stack) /\ Open(m, "evaluating")
        /\ status[m] = "linked" /\ status'[m] = "evaluating"
        /\ \A x \in Module : x # m => status'[x] = status[x]
        /\ Calls' = Calls \cup {m} /\ m \notin Calls
        /\ mode = "eval" \/ stack = <<>>
  BY OpenEffect
<1>3. Reached' = Reached /\ \A x \in Module : x \in Reached[x]
  BY <1>0, <1>1, ReachedKept, ReachedIs
<1>4. /\ Len(stack) \in Nat /\ DOMAIN stack = 1..Len(stack) /\ DOMAIN stack' = 1..(Len(stack) + 1)
      /\ \A k \in DOMAIN stack : stack'[k] = stack[k] /\ stack'[k] # m /\ stack[k] \in Module
      /\ stack'[Len(stack) + 1] = m /\ anc'[m] = Len(stack) + 1
      /\ \A x \in Module : x # m => anc'[x] = anc[x]
  BY <1>0, <1>2, OpenShape, EvalRanges
<1>5. Backward'
  <2> SUFFICES ASSUME NEW k \in DOMAIN stack'
               PROVE  /\ stack'[anc'[stack'[k]]] \in Reached[stack'[k]]
                      /\ stack'[k] \notin Calls' => anc'[stack'[k]] < k
    BY <1>3 DEF Backward
  <2>1. CASE k = Len(stack) + 1
    BY <2>1, <1>2, <1>3, <1>4
  <2>2. CASE k \in DOMAIN stack
    <3>1. mode = "eval"
      <4>1. stack # <<>>
        BY <2>2, <1>0, <1>4, EvalRanges
      <4> QED BY <4>1, <1>2
    <3>2. stack'[k] = stack[k] /\ anc'[stack[k]] = anc[stack[k]]
      BY <2>2, <1>4
    <3>3. anc[stack[k]] \in 1..k
      BY <2>2, <1>0 DEF Walk, Lowered
    <3>4. anc[stack[k]] \in DOMAIN stack
      BY <2>2, <3>3, <1>4
    <3>5. stack[anc[stack[k]]] \in Reached[stack[k]] /\ (stack[k] \notin Calls => anc[stack[k]] < k)
      BY <2>2, <3>1 DEF Reaching, Backward
    <3> QED BY <3>2, <3>4, <3>5, <1>2, <1>4
  <2> QED BY <2>1, <2>2, <1>4
<1>6. Rooted'
  BY <1>1, <1>2, <1>3 DEF Reaching, Rooted, Started
<1>7. Needed' /\ Blamed'
  BY <1>1, <1>3 DEF Reaching, Needed, Blamed
<1> QED BY <1>5, <1>6, <1>7 DEF Reaching

LEMMA AppendedParents ==
  ASSUME EvalTypes, NEW d \in Module, NEW c \in Module, parents' = [parents EXCEPT ![d] = Append(@, c)]
  PROVE  /\ \A x \in Module : x # d => parents'[x] = parents[x]
         /\ Range(parents'[d]) = Range(parents[d]) \cup {c}
         /\ DOMAIN parents[d] = 1..Len(parents[d]) /\ Len(parents[d]) \in Nat
         /\ DOMAIN parents'[d] = 1..(Len(parents[d]) + 1)
         /\ \A i \in DOMAIN parents[d] : parents'[d][i] = parents[d][i]
         /\ parents'[d][Len(parents[d]) + 1] = c
<1>1. parents \in [Module -> Seq(Module)] /\ parents[d] \in Seq(Module)
  BY DEF EvalTypes
<1>2. parents'[d] = Append(parents[d], c) /\ \A x \in Module : x # d => parents'[x] = parents[x]
  BY <1>1
<1>3. /\ DOMAIN Append(parents[d], c) = 1..(Len(parents[d]) + 1)
      /\ \A i \in DOMAIN parents[d] : Append(parents[d], c)[i] = parents[d][i]
      /\ Append(parents[d], c)[Len(parents[d]) + 1] = c
  BY ONLY <1>1, c \in Module, Pushed
<1>4. DOMAIN parents[d] = 1..Len(parents[d]) /\ Len(parents[d]) \in Nat
  BY <1>1, LenProperties
<1>5. Range(parents'[d]) = Range(parents[d]) \cup {c}
  <2>1. \A i \in DOMAIN parents'[d] : i \in DOMAIN parents[d] \/ i = Len(parents[d]) + 1
    BY <1>2, <1>3, <1>4
  <2>2. Len(parents[d]) + 1 \in DOMAIN parents'[d] /\ \A i \in DOMAIN parents[d] : i \in DOMAIN parents'[d]
    BY <1>2, <1>3, <1>4
  <2> QED BY <1>2, <1>3, <2>1, <2>2 DEF Range
<1> QED BY <1>2, <1>3, <1>4, <1>5

LEMMA ReturnedReaching ==
  ASSUME EvalInv, Reaching, EvalReturned
  PROVE  Reaching'
<1>0. EvalTypes /\ Walk /\ Unfinished
  BY DEF EvalInv, EvalReturned
<1>1. /\ mode = "eval" /\ mode' = "eval" /\ AtRequest
      /\ frames # <<>> /\ Cur \in Module /\ status[Cur] = "evaluating"
      /\ Child \in Module /\ status[Child] \in Started \cup {"evaluating"}
      /\ Dependency \in Module /\ ~ChildFailed
      /\ Calls' = Calls
      /\ status' = status /\ stack' = stack
      /\ requests' = requests
      /\ root' = root /\ error' = error /\ body' = body
      /\ \/ parents' = [parents EXCEPT ![Dependency] = Append(@, Cur)]
         \/ parents' = parents
  BY ReturnedEffect
<1>2. Reached' = Reached
  BY <1>1, ReachedKept
<1>3. Child \in Reached[Cur]
  BY <1>0, <1>1, Asking, ReachedIs
<1>4. Dependency \in Reached[Cur]
  <2>1. CASE status[Child] = "evaluating"
    BY <2>1, <1>3 DEF Dependency
  <2>2. CASE status[Child] \in Started
    <3>1. Dependency = root[Child] /\ ~error[Child]
      BY <2>2, <1>1 DEF Dependency, ChildFailed, Started
    <3>2. Dependency \in Reached[Child]
      BY <3>1, <2>2, <1>1 DEF Reaching, Rooted
    <3> QED BY <3>2, <1>0, <1>1, <1>3, ReachedIs
  <2> QED BY <2>1, <2>2, <1>1
<1>5. Backward'
  <2>1. anc' = IF status[Child] = "evaluating" THEN [anc EXCEPT ![Cur] = Lower(@, anc[Child])] ELSE anc
    BY DEF EvalReturned, MergeAncestor
  <2>2. anc \in [Module -> Nat]
    BY <1>0 DEF EvalTypes
  <2>3. \A x \in Module : x # Cur => anc'[x] = anc[x]
    BY <2>1, <2>2, <1>1
  <2>4. /\ anc'[Cur] = anc[Cur] \/ (status[Child] = "evaluating" /\ anc'[Cur] = anc[Child])
        /\ anc'[Cur] <= anc[Cur] /\ anc'[Cur] \in Nat
    BY <2>1, <2>2, <1>1 DEF Lower
  <2> SUFFICES ASSUME NEW k \in DOMAIN stack
               PROVE  /\ stack[anc'[stack[k]]] \in Reached[stack[k]]
                      /\ stack[k] \notin Calls => anc'[stack[k]] < k
    BY <1>1, <1>2 DEF Backward
  <2>5. /\ stack[anc[stack[k]]] \in Reached[stack[k]] /\ (stack[k] \notin Calls => anc[stack[k]] < k)
        /\ stack[k] \in Module /\ k \in Nat
    BY <1>0, <1>1, EvalRanges DEF Reaching, Backward
  <2>6. CASE stack[k] # Cur
    BY <2>3, <2>5, <2>6
  <2>7. CASE stack[k] = Cur
    <3>1. Cur \in Calls
      BY <1>1, ReturnedEffect
    <3>2. CASE anc'[Cur] = anc[Cur]
      BY <2>5, <2>7, <3>2
    <3>3. CASE status[Child] = "evaluating" /\ anc'[Cur] = anc[Child]
      <4>1. PICK p \in DOMAIN stack : stack[p] = Child
        BY <3>3, <1>0, <1>1 DEF Unfinished, Range
      <4>2. stack[anc[Child]] \in Reached[Child]
        BY <4>1, <1>1 DEF Reaching, Backward
      <4>3. stack[anc[Child]] \in Reached[Cur]
        BY <4>2, <1>0, <1>1, <1>3, ReachedIs
      <4> QED BY <4>3, <3>1, <3>3, <2>7
    <3> QED BY <3>2, <3>3, <2>4
  <2> QED BY <2>6, <2>7
<1>6. Needed'
  <2> SUFFICES ASSUME NEW m \in Module, NEW p \in Range(parents'[m]) PROVE m \in Reached[p]
    BY <1>2 DEF Needed
  <2>1. CASE p \in Range(parents[m])
    BY <2>1 DEF Reaching, Needed
  <2>2. CASE p \notin Range(parents[m])
    <3>1. parents' = [parents EXCEPT ![Dependency] = Append(@, Cur)]
      BY <2>2, <1>1
    <3>2. /\ \A x \in Module : x # Dependency => parents'[x] = parents[x]
          /\ Range(parents'[Dependency]) = Range(parents[Dependency]) \cup {Cur}
      BY <3>1, <1>0, <1>1, AppendedParents
    <3>3. m = Dependency /\ p = Cur
      BY <3>2, <2>2
    <3> QED BY <3>3, <1>4
  <2> QED BY <2>1, <2>2
<1>7. Rooted' /\ Blamed'
  BY <1>1, <1>2 DEF Reaching, Rooted, Blamed
<1> QED BY <1>5, <1>6, <1>7 DEF Reaching

LEMMA AbandonReaching ==
  ASSUME EvalInv, Life, Reaching, EvalChildFailed \/ EvalThrows
  PROVE  Reaching'
<1>0. EvalTypes
  BY DEF EvalInv
<1>1. /\ mode = "eval" /\ mode' = "idle" /\ frames # <<>>
      /\ Cur \in Module /\ Cur \in Calls /\ status[Cur] = "evaluating"
      /\ \A m \in Module : m \in Range(stack) <=> status[m] = "evaluating"
      /\ \A m \in Module : IF status[m] = "evaluating"
           THEN status'[m] = "evaluated" /\ error'[m] /\ root'[m] = goal
           ELSE status'[m] = status[m] /\ error'[m] = error[m] /\ root'[m] = root[m]
      /\ requests' = requests /\ parents' = parents
      /\ \A x \in Module : x # Cur => body'[x] = body[x]
      /\ \/ /\ AtRequest /\ ChildFailed /\ Child \in Module
            /\ status[Child] \in Started /\ body' = body
         \/ body'[Cur] = "threw"
  BY AbandonEffect DEF Life
<1>2. Reached' = Reached
  BY <1>1, ReachedKept
<1>3. body[Cur] = "unstarted"
  BY <1>1 DEF Life, Lives, Alive, Started
<1>4. \A x \in Module : body[x] = "threw" => body'[x] = "threw"
  BY <1>1, <1>3
<1>5. \E d \in Reached[Cur] : body'[d] = "threw"
  <2>1. CASE body'[Cur] = "threw"
    BY <2>1, <1>0, <1>1, ReachedIs
  <2>2. CASE /\ AtRequest /\ ChildFailed /\ Child \in Module
             /\ status[Child] \in Started /\ body' = body
    <3>1. Child \in Reached[Cur]
      BY <2>2, <1>0, <1>1, Asking, ReachedIs
    <3>2. PICK x \in Reached[Child] : x \in Module /\ error[x]
      <4>1. CASE error[Child]
        BY <4>1, <2>2, <1>0, ReachedIs
      <4>2. CASE ~error[Child]
        <5>1. Dependency = root[Child] /\ error[Dependency]
          BY <4>2, <2>2 DEF ChildFailed, Dependency, Started
        <5>2. root[Child] \in Module /\ root[Child] \in Reached[Child]
          BY <4>2, <2>2 DEF Reaching, Rooted, EvalInv, Begun
        <5> QED BY <5>1, <5>2
      <4> QED BY <4>1, <4>2
    <3>3. PICK d \in Reached[x] : body[d] = "threw"
      BY <3>2 DEF Reaching, Blamed
    <3>4. d \in Reached[Child]
      BY <3>2, <3>3, <2>2, <1>0, ReachedIs
    <3>5. d \in Reached[Cur]
      BY <3>1, <3>4, <1>0, <1>1, ReachedIs
    <3> QED BY <3>3, <3>5, <2>2
  <2> QED BY <2>1, <2>2, <1>1
<1>6. Backward'
  BY <1>1 DEF Backward
<1>7. Rooted'
  <2>1. ASSUME NEW m \in Module, status'[m] \in Started PROVE root'[m] \in Reached[m] \/ error'[m]
    <3>1. CASE status[m] = "evaluating"
      BY <3>1, <1>1
    <3>2. CASE status[m] # "evaluating"
      BY <2>1, <3>2, <1>1 DEF Reaching, Rooted
    <3> QED BY <3>1, <3>2
  <2> QED BY <2>1, <1>2 DEF Rooted
<1>8. Needed'
  BY <1>1, <1>2 DEF Reaching, Needed
<1>9. Blamed'
  <2>1. ASSUME NEW m \in Module, error'[m] PROVE \E d \in Reached[m] : body'[d] = "threw"
    <3>1. CASE status[m] = "evaluating"
      <4>1. PICK k \in DOMAIN stack : stack[k] = m
        BY <3>1, <1>1 DEF Range
      <4>2. Cur \in Reached[m]
        BY <4>1, <1>1, ReachesCur DEF Reaching
      <4> QED BY <4>2, <1>0, <1>5, ReachedIs
    <3>2. CASE status[m] # "evaluating"
      <4>1. PICK d \in Reached[m] : body[d] = "threw"
        BY <2>1, <3>2, <1>1 DEF Reaching, Blamed
      <4>2. d \in Module
        BY <4>1, <1>0, ReachedIs
      <4> QED BY <4>1, <4>2, <1>4
    <3> QED BY <3>1, <3>2
  <2> QED BY <2>1, <1>2 DEF Blamed
<1> QED BY <1>6, <1>7, <1>8, <1>9 DEF Reaching

\* The shape of the walk after the end of an evaluation.
LEMMA CloseStack ==
  ASSUME EvalInv, EvalWaits \/ EvalStarts \/ EvalRuns
  PROVE  /\ EvalTypes /\ Walk /\ AtEnd /\ frames # <<>> /\ frames' = Returned
         /\ Index(Cur) \in DOMAIN stack /\ stack[Index(Cur)] = Cur
         /\ \A k \in DOMAIN stack' : k \in DOMAIN stack /\ stack'[k] = stack[k]
                                    /\ anc'[stack[k]] = anc[stack[k]] /\ stack[k] \notin Leaving
         /\ \A k \in DOMAIN stack : stack[k] \notin Leaving => k \in DOMAIN stack'
         /\ \A k \in DOMAIN stack : stack[k] \in Leaving <=> IsRoot /\ k >= Index(Cur)
         /\ \A m \in Leaving : \E k \in DOMAIN stack : stack[k] = m
         /\ IsRoot \/ anc[Cur] < Index(Cur)
<1> DEFINE done == [m \in Module |-> IF async'[m] THEN "evaluating_async" ELSE "evaluated"]
<1>1. EvalTypes /\ Walk /\ AtEnd /\ frames # <<>> /\ Close(done)
  BY DEF EvalInv, EvalWaits, EvalStarts, EvalRuns, AtEnd, BecomesAsync, CloseEvaluation
<1>2. done \in [Module -> Status]
  BY DEF Status, Started
<1> HIDE DEF done
<1>3. Index(Cur) \in DOMAIN stack /\ stack[Index(Cur)] = Cur /\ frames' = Returned
  BY <1>1, Stands DEF Walk, Close
<1>4. DOMAIN stack \subseteq Nat /\ \A k \in DOMAIN stack : stack[k] \in Module
  BY <1>1, EvalRanges
<1>5. anc[Cur] \in 1..Index(Cur)
  BY <1>1, <1>3 DEF Walk, Lowered
<1>6. IsRoot \/ anc[Cur] < Index(Cur)
  BY <1>3, <1>4, <1>5 DEF IsRoot
<1>7. CASE IsRoot
  <2>1. /\ Leaving = Component
        /\ \A k \in DOMAIN stack' : /\ stack'[k] = stack[k] /\ k \in DOMAIN stack /\ k < Index(Cur)
                                    /\ stack[k] \notin Component
        /\ \A k \in DOMAIN stack : k < Index(Cur) => k \in DOMAIN stack'
        /\ \A m \in Component : \E k \in DOMAIN stack : stack[k] = m /\ k >= Index(Cur)
        /\ \A k \in DOMAIN stack : k >= Index(Cur) => stack[k] \in Component
        /\ \A m \in Module : m \notin Component => anc'[m] = anc[m]
    BY <1>1, <1>2, <1>7, CloseShape DEF Leaving
  <2> HIDE DEF Component
  <2>2. \A k \in DOMAIN stack : k < Index(Cur) \/ k >= Index(Cur)
    BY <1>3, <1>4
  <2>3. \A k \in DOMAIN stack : stack[k] \in Leaving <=> k >= Index(Cur)
    <3> TAKE k \in DOMAIN stack
    <3>1. k < Index(Cur) => k \in DOMAIN stack' /\ stack[k] \notin Component
      BY <2>1
    <3> QED BY <3>1, <2>1, <2>2
  <2> QED BY <1>1, <1>3, <1>4, <1>6, <1>7, <2>1, <2>2, <2>3
<1>8. CASE ~IsRoot
  <2>1. Leaving = {} /\ stack' = stack /\ anc' = anc
    BY <1>1, <1>8 DEF Leaving, Close
  <2> QED BY <1>1, <1>3, <1>6, <1>8, <2>1
<1> QED BY <1>7, <1>8

LEMMA CloseReaching ==
  ASSUME EvalInv, Life, Reaching, EvalWaits \/ EvalStarts \/ EvalRuns
  PROVE  Reaching'
<1>1. /\ mode = "eval" /\ mode' = "eval"
      /\ Cur \in Module /\ status[Cur] = "evaluating" /\ Cur \in Calls
      /\ Calls' = Calls \ {Cur} /\ Leaving \subseteq Module
      /\ \A m \in Module : m \in Leaving => root'[m] = Cur
      /\ \A m \in Module : m \notin Leaving => root'[m] = root[m] /\ status'[m] = status[m]
      /\ requests' = requests /\ parents' = parents /\ error' = error
      /\ \A x \in Module : x # Cur => body'[x] = body[x]
  BY CloseEffect DEF Life
<1>2. Reached' = Reached
  BY <1>1, ReachedKept
<1>3. body[Cur] = "unstarted"
  BY <1>1 DEF Life, Lives, Alive, Started
<1>4. /\ EvalTypes /\ Walk /\ frames # <<>>
      /\ Index(Cur) \in DOMAIN stack /\ stack[Index(Cur)] = Cur
      /\ \A k \in DOMAIN stack' : k \in DOMAIN stack /\ stack'[k] = stack[k]
                                 /\ anc'[stack[k]] = anc[stack[k]] /\ stack[k] \notin Leaving
      /\ \A k \in DOMAIN stack : stack[k] \notin Leaving => k \in DOMAIN stack'
      /\ \A k \in DOMAIN stack : stack[k] \in Leaving <=> IsRoot /\ k >= Index(Cur)
      /\ \A m \in Leaving : \E k \in DOMAIN stack : stack[k] = m
      /\ IsRoot \/ anc[Cur] < Index(Cur)
  BY CloseStack
<1>5. Backward'
  <2> SUFFICES ASSUME NEW k \in DOMAIN stack'
               PROVE  /\ stack'[anc'[stack'[k]]] \in Reached[stack'[k]]
                      /\ stack'[k] \notin Calls' => anc'[stack'[k]] < k
    BY <1>2 DEF Backward
  <2>1. k \in DOMAIN stack /\ stack'[k] = stack[k] /\ anc'[stack[k]] = anc[stack[k]] /\ stack[k] \notin Leaving
    BY <1>4
  <2>2. stack[anc[stack[k]]] \in Reached[stack[k]] /\ (stack[k] \notin Calls => anc[stack[k]] < k)
    BY <2>1, <1>1 DEF Reaching, Backward
  <2>3. anc[stack[k]] \in 1..k
    BY <2>1, <1>4 DEF Walk, Lowered
  <2>4. anc[stack[k]] \in DOMAIN stack /\ k \in Nat /\ Index(Cur) \in Nat
    BY <2>1, <2>3, <1>4, EvalRanges
  <2>5. anc[stack[k]] \in DOMAIN stack'
    <3>1. ~(IsRoot /\ k >= Index(Cur))
      BY <2>1, <1>4
    <3>2. ~(IsRoot /\ anc[stack[k]] >= Index(Cur))
      BY <3>1, <2>3, <2>4
    <3> QED BY <3>2, <2>4, <1>4
  <2>6. stack'[anc[stack[k]]] = stack[anc[stack[k]]]
    BY <2>5, <1>4
  <2>7. stack[k] = Cur => k = Index(Cur)
    BY <2>1, <1>4, EvalRanges
  <2>8. stack[k] = Cur => anc[stack[k]] < k
    <3>1. stack[k] = Cur => ~IsRoot
      BY <2>1, <2>4, <2>7, <1>4
    <3> QED BY <3>1, <2>7, <1>4
  <2> QED BY <2>1, <2>2, <2>6, <2>8, <1>1
<1>6. Rooted'
  <2>1. ASSUME NEW m \in Module, status'[m] \in Started PROVE root'[m] \in Reached[m] \/ error'[m]
    <3>1. CASE m \in Leaving
      <4>1. PICK k \in DOMAIN stack : stack[k] = m
        BY <3>1, <1>4
      <4> QED BY <4>1, <3>1, <1>1, <1>4, ReachesCur DEF Reaching
    <3>2. CASE m \notin Leaving
      BY <2>1, <3>2, <1>1 DEF Reaching, Rooted
    <3> QED BY <3>1, <3>2
  <2> QED BY <2>1, <1>2 DEF Rooted
<1>7. Needed'
  BY <1>1, <1>2 DEF Reaching, Needed
<1>8. Blamed'
  <2>1. \A x \in Module : body[x] = "threw" => body'[x] = "threw"
    BY <1>1, <1>3
  <2>2. \A m \in Module : Reached[m] \subseteq Module
    BY <1>4, ReachedIs
  <2> QED BY <2>1, <2>2, <1>1, <1>2 DEF Reaching, Blamed
<1> QED BY <1>5, <1>6, <1>7, <1>8 DEF Reaching

LEMMA ReachingInit == Init => Reaching
<1> SUFFICES ASSUME Init PROVE Reaching
  OBVIOUS
<1>1. Backward
  BY DEF Init, Backward
<1>2. Rooted /\ Blamed
  BY DEF Init, Rooted, Blamed, Started
<1>3. Needed
  <2>1. \A m \in Module : parents[m] = <<>>
    BY DEF Init
  <2>2. ASSUME NEW m \in Module PROVE Range(parents[m]) = {}
    <3>1. parents[m] = <<>>
      BY <2>1
    <3> QED BY ONLY <3>1, Empty, Zenon
  <2> QED BY <2>2 DEF Needed
<1> QED BY <1>1, <1>2, <1>3 DEF Reaching

LEMMA ReachingNext ==
  ASSUME EvalInv, Life, Reaching, [Next]_vars
  PROVE  Reaching'
<1>0. LifeTypes
  BY DEF Life
<1>2. CASE UNCHANGED vars
  <2>1. /\ requests' = requests /\ status' = status /\ mode' = mode /\ stack' = stack /\ anc' = anc
        /\ frames' = frames /\ root' = root /\ error' = error /\ parents' = parents /\ body' = body
    BY <1>2 DEF vars, program, walk, deps, bodies
  <2>2. Reached' = Reached /\ Calls' = Calls
    BY <2>1, ReachedKept DEF Calls
  <2>3. Backward'
    BY <2>1, <2>2 DEF Reaching, Backward
  <2>4. Rooted' /\ Needed' /\ Blamed'
    BY <2>1, <2>2 DEF Reaching, Rooted, Needed, Blamed
  <2> QED BY <2>3, <2>4 DEF Reaching
<1>3. CASE (\E m \in Module : Import(m)) \/ Link \/ EvaluateAgain
  BY <1>3, LinkReaching
<1>4. CASE EvaluateStarted \/ EvaluateReturns
  BY <1>0, <1>4, SettleReaching
<1>5. CASE EvaluateFirst \/ EvalRequest
  BY <1>5, OpenReaching
<1>6. CASE EvalReturned
  BY <1>6, ReturnedReaching
<1>7. CASE EvalChildFailed \/ EvalThrows
  BY <1>7, AbandonReaching
<1>8. CASE EvalWaits \/ EvalStarts \/ EvalRuns
  BY <1>8, CloseReaching
<1>9. CASE \E m \in Module : BodyRejected(m) \/ (ExecuteThrows /\ m = First)
  BY <1>9, ThrownReaching
<1>10. CASE \E m \in Module : BodyFulfilled(m) \/ (ExecuteRuns /\ m = First)
  BY <1>10, DoneReaching
<1>11. CASE Gather
  BY <1>0, <1>11, GatherReaching
<1>12. CASE ExecuteSkips \/ ExecuteStarts \/ ExecuteEnds
  BY <1>12, ExecuteReaching
<1>13. CASE \E m \in Module : \E b \in {"done", "threw"} : BodyIgnored(m, b)
  BY <1>0, <1>13, IgnoredReaching
<1> QED BY <1>2, <1>3, <1>4, <1>5, <1>6, <1>7, <1>8, <1>9, <1>10, <1>11, <1>12, <1>13, StepKinds

-----------------------------------------------------------------------------
(* What becomes of a request.                                              *)

\* What the walk of linking keeps, that of evaluation keeps as well.
Lowest == mode = "eval" => Low /\ Merged

\* No call of the walk stands between a module and what it asked for above it.
Kept ==
  mode = "eval" =>
    \A k, p \in DOMAIN stack : \A r \in DOMAIN requests[stack[k]] :
      Walked(stack[k], r) /\ requests[stack[k]][r] = stack[p] /\ k < p =>
        \A q \in DOMAIN stack : stack[q] \in Calls => q <= k \/ p < q

\* A request that has been walked is for a module of the same cycle, or for
\* one whose cycle has run or keeps the module that asked as a parent.
Asks(x, r) ==
  \/ status[x] = "evaluating" /\ Walked(x, r)
  \/ status[x] \in Started /\ (~error[x] \/ body[x] # "unstarted")
Settled(x, d) ==
  \/ x \in Reached[d] /\ status[x] = "evaluating" /\ status[d] = "evaluating"
  \/ x \in Reached[d] /\ status[x] \in Started /\ status[d] \in Started /\ root[x] = root[d]
  \/ status[d] \in Started /\ (body[root[d]] = "done" \/ x \in Range(parents[root[d]]))
Answered == \A x \in Module : \A r \in DOMAIN requests[x] : Asks(x, r) => Settled(x, requests[x][r])

\* A module with parents has a timestamp, smaller than theirs.
Noted ==
  \A x \in Module : \A p \in Range(parents[x]) :
    x \in Stamped /\ \A i, j \in DOMAIN order : order[i] = x /\ order[j] = p => i < j

\* The parents of an unfinished module are unfinished and asked for it.
Paired ==
  \A x \in Module : \A p \in Range(parents[x]) : status[x] = "evaluating" =>
    status[p] = "evaluating" /\ \E r \in DOMAIN requests[p] : requests[p][r] = x /\ Walked(p, r)

Ties == Lowest /\ Kept /\ Answered /\ Noted /\ Paired

\* Outside a walk every answer stands.
LEMMA QuietTies ==
  ASSUME EvalInv, Ties, requests' = requests, root' = root, parents' = parents, order' = order,
         mode' # "eval",
         \A x \in Module : /\ status'[x] # "evaluating"
                           /\ status'[x] \in Started <=> status[x] \in Started
                           /\ error[x] => error'[x]
                           /\ body[x] = "done" => body'[x] = "done"
                           /\ status[x] \in Started /\ body'[x] # "unstarted" => body[x] # "unstarted" \/ ~error[x]
  PROVE  Ties'
<1>1. Reached' = Reached /\ Stamped' = Stamped
  BY ReachedKept DEF Stamped
<1>2. Lowest' /\ Kept' /\ Paired'
  BY DEF Lowest, Kept, Paired
<1>3. Noted'
  BY <1>1 DEF Ties, Noted
<1>4. Answered'
  <2> SUFFICES ASSUME NEW x \in Module, NEW r \in DOMAIN requests[x], Asks(x, r)'
               PROVE  Settled(x, requests[x][r])'
    BY DEF Answered
  <2>1. status'[x] \in Started /\ status[x] \in Started /\ (~error[x] \/ body[x] # "unstarted")
    BY DEF Asks
  <2>2. Settled(x, requests[x][r])
    BY <2>1 DEF Ties, Answered, Asks
  <2>3. status[x] # "evaluating"
    BY <2>1 DEF Started
  <2>4. requests[x][r] \in Module
    BY EvalRanges DEF EvalInv
  <2>5. status[requests[x][r]] \in Started => root[requests[x][r]] \in Module
    BY <2>4 DEF EvalInv, Begun
  <2> QED BY <2>1, <2>2, <2>3, <2>4, <2>5, <1>1 DEF Settled
<1> QED BY <1>2, <1>3, <1>4 DEF Ties

LEMMA LinkTies ==
  ASSUME EvalInv, Ties, (\E m \in Module : Import(m)) \/ Link \/ EvaluateAgain
  PROVE  Ties'
BY LinkEffect, QuietTies

LEMMA SettleTies ==
  ASSUME EvalInv, LifeTypes, Ties, EvaluateStarted \/ EvaluateReturns
  PROVE  Ties'
BY SettleEffect, QuietTies

LEMMA ThrownTies ==
  ASSUME EvalInv, Life, Ties, NEW m \in Module, BodyRejected(m) \/ (ExecuteThrows /\ m = First)
  PROVE  Ties'
<1> DEFINE D == Doomed(m)
<1>1. /\ mode \in {"idle", "execute"} /\ mode' = mode /\ status[m] = "evaluating_async"
      /\ m \in D /\ D \subseteq Module
      /\ \A x \in D : status[x] = "evaluating_async"
      /\ \A n \in Module : IF n \in D THEN error'[n] /\ status'[n] = "evaluated"
                           ELSE error'[n] = error[n] /\ status'[n] = status[n]
      /\ body'[m] = "threw" /\ \A x \in Module : x # m => body'[x] = body[x]
      /\ (mode = "idle" /\ body[m] = "running") \/ m \in todo
      /\ requests' = requests /\ parents' = parents /\ root' = root /\ order' = order
  BY ThrownEffect DEF Life
<1> HIDE DEF D
<1>2. body[m] # "done" /\ ~error[m]
  BY <1>1 DEF Life, Lives, Alive, Queued
<1>3. ASSUME NEW x \in Module
      PROVE  /\ status'[x] # "evaluating"
             /\ status'[x] \in Started <=> status[x] \in Started
             /\ error[x] => error'[x]
  <2>1. status[x] # "evaluating"
    BY <1>1, QuietStarted DEF Started
  <2>2. CASE x \in D
    BY <2>2, <1>1 DEF Started
  <2>3. CASE x \notin D
    BY <2>1, <2>3, <1>1
  <2> QED BY <2>2, <2>3
<1>4. ASSUME NEW x \in Module
      PROVE  /\ body[x] = "done" => body'[x] = "done"
             /\ status[x] \in Started /\ body'[x] # "unstarted" => body[x] # "unstarted" \/ ~error[x]
  BY <1>1, <1>2
<1> QED BY <1>1, <1>3, <1>4, QuietTies

LEMMA DoneTies ==
  ASSUME EvalInv, Life, Ties, NEW m \in Module, BodyFulfilled(m) \/ (ExecuteRuns /\ m = First)
  PROVE  Ties'
<1>1. /\ status[m] = "evaluating_async" /\ status'[m] = "evaluated"
      /\ mode \in {"idle", "execute"} /\ mode' \in {"gather", "execute"}
      /\ body'[m] = "done"
      /\ \A x \in Module : x # m => status'[x] = status[x] /\ body'[x] = body[x]
      /\ requests' = requests /\ parents' = parents /\ root' = root /\ error' = error /\ order' = order
  BY DoneEffect DEF Life
<1>2. ~error[m]
  BY <1>1 DEF Life, Lives, Alive
<1>3. \A x \in Module : status[x] # "evaluating"
  BY <1>1, QuietStarted DEF Started
<1>4. ASSUME NEW x \in Module
      PROVE  /\ status'[x] # "evaluating"
             /\ status'[x] \in Started <=> status[x] \in Started
             /\ body[x] = "done" => body'[x] = "done"
             /\ status[x] \in Started /\ body'[x] # "unstarted" => body[x] # "unstarted" \/ ~error[x]
  BY <1>1, <1>2, <1>3 DEF Started
<1> QED BY <1>1, <1>4, QuietTies

LEMMA GatherTies ==
  ASSUME EvalInv, LifeTypes, Ties, Gather
  PROVE  Ties'
<1>1. mode = "gather"
  BY GatherEffect
<1>2. \A x \in Module : status[x] # "evaluating"
  BY <1>1, QuietStarted DEF Started
<1> QED BY <1>2, GatherEffect, QuietTies

LEMMA ExecuteTies ==
  ASSUME EvalInv, Life, Ties, ExecuteSkips \/ ExecuteStarts \/ ExecuteEnds
  PROVE  Ties'
<1>1. /\ mode = "execute" /\ mode' \in {"execute", "idle"}
      /\ requests' = requests /\ status' = status /\ order' = order
      /\ parents' = parents /\ root' = root /\ error' = error
      /\ \/ body' = body
         \/ /\ First \in todo /\ First \in Module /\ status[First] = "evaluating_async"
            /\ \A x \in Module : x # First => body'[x] = body[x]
  BY ExecuteEffect DEF Life
<1>2. First \in todo => body[First] # "done"
  BY DEF Life, Queued
<1>3. First \in Module /\ status[First] = "evaluating_async" => ~error[First]
  BY DEF Life, Lives, Alive
<1>4. \A x \in Module : status[x] # "evaluating"
  BY <1>1, QuietStarted DEF Started
<1>5. ASSUME NEW x \in Module
      PROVE  /\ body[x] = "done" => body'[x] = "done"
             /\ status[x] \in Started /\ body'[x] # "unstarted" => body[x] # "unstarted" \/ ~error[x]
  BY <1>1, <1>2, <1>3
<1> QED BY <1>1, <1>4, <1>5, QuietTies

LEMMA IgnoredTies ==
  ASSUME EvalInv, LifeTypes, Ties, NEW m \in Module, \E b \in {"done", "threw"} : BodyIgnored(m, b)
  PROVE  Ties'
<1>1. \A x \in Module : status[x] # "evaluating"
  BY IgnoredEffect, QuietStarted DEF Started
<1>2. ASSUME NEW x \in Module
      PROVE  /\ body[x] = "done" => body'[x] = "done"
             /\ status[x] \in Started /\ body'[x] # "unstarted" => body[x] # "unstarted" \/ ~error[x]
  BY IgnoredEffect
<1> QED BY <1>1, <1>2, IgnoredEffect, QuietTies

LEMMA EvaluatingIs ==
  ASSUME EvalInv, mode = "eval"
  PROVE  \A m \in Module : (\E k \in DOMAIN stack : stack[k] = m) <=> status[m] = "evaluating"
<1>1. \A m \in Module : m \in Range(stack) <=> status[m] = "evaluating"
  BY DEF EvalInv, Unfinished
<1> QED BY <1>1 DEF Range

LEMMA ParentsIn ==
  ASSUME EvalTypes
  PROVE  \A m \in Module : parents[m] \in Seq(Module) /\ Range(parents[m]) \subseteq Module
<1>1. \A m \in Module : parents[m] \in Seq(Module)
  BY DEF EvalTypes
<1>2. ASSUME NEW m \in Module PROVE Range(parents[m]) \subseteq Module
  <2>1. DOMAIN parents[m] = 1..Len(parents[m]) /\ \A i \in 1..Len(parents[m]) : parents[m][i] \in Module
    BY <1>1, LenProperties, ElementOfSeq
  <2> QED BY <2>1 DEF Range
<1> QED BY <1>1, <1>2

LEMMA OpenTies ==
  ASSUME EvalInv, Life, Ties, EvaluateFirst \/ EvalRequest
  PROVE  Ties'
<1>1. /\ mode' = "eval" /\ requests' = requests /\ order' = order /\ parents' = parents
      /\ root' = root /\ error' = error /\ body' = body
  BY OpenEffect
<1>2. PICK m \in Module :
        /\ m \notin Range(stack) /\ Open(m, "evaluating")
        /\ status[m] = "linked" /\ status'[m] = "evaluating"
        /\ \A x \in Module : x # m => status'[x] = status[x]
        /\ Calls' = Calls \cup {m} /\ m \notin Calls
        /\ \/ EvalRequest /\ mode = "eval" /\ AtRequest /\ m = Child
           \/ /\ EvaluateFirst /\ mode = "link" /\ frames = <<>> /\ stack = <<>>
              /\ \A x \in Module : status[x] # "evaluating"
  BY OpenEffect
<1>3. EvalTypes /\ Walk /\ "evaluating" \in Status
  BY <1>2 DEF EvalInv, Status
<1> DEFINE n == Len(frames)
           h == Len(stack)
<1>4. /\ h \in Nat /\ n \in Nat /\ DOMAIN stack = 1..h /\ DOMAIN frames = 1..n
      /\ DOMAIN stack' = 1..(h + 1)
      /\ \A k \in DOMAIN stack : stack'[k] = stack[k] /\ stack'[k] # m /\ stack[k] \in Module
      /\ stack'[h + 1] = m
      /\ DOMAIN frames' = 1..(n + 1)
      /\ \A i \in DOMAIN frames : frames'[i] = frames[i] /\ frames[i].mod \in Calls
      /\ frames'[n + 1].mod = m /\ frames'[n + 1].next = 1
  BY <1>2, <1>3, OpenShape, EvalRanges DEF Calls
<1>5. Reached' = Reached /\ Stamped' = Stamped
  BY <1>1, ReachedKept DEF Stamped
<1> HIDE DEF n, h
<1>6. ASSUME NEW x \in Module, x # m, NEW r \in DOMAIN requests[x]
      PROVE  Walked(x, r)' <=> Walked(x, r)
  <2>1. Walked(x, r)' => Walked(x, r)
    BY <1>4 DEF Walked
  <2>2. ASSUME Walked(x, r), NEW i \in DOMAIN frames', frames'[i].mod = x PROVE r < frames'[i].next
    <3>1. i # n + 1
      BY <2>2, <1>4, <1>6
    <3>2. i \in DOMAIN frames
      BY <3>1, <1>4
    <3> QED BY <2>2, <3>2, <1>4 DEF Walked
  <2> QED BY <2>1, <2>2 DEF Walked
<1>7. ASSUME NEW r \in DOMAIN requests[m], Walked(m, r)' PROVE FALSE
  <2>1. r < frames'[n + 1].next
    BY <1>7, <1>4 DEF Walked
  <2>2. r \in 1..Len(requests[m]) /\ Len(requests[m]) \in Nat
    BY <1>3, EvalRanges
  <2> QED BY <2>1, <2>2, <1>4
<1>8. ASSUME NEW x \in Module, NEW r \in DOMAIN requests[x], Asks(x, r)
      PROVE  requests[x][r] \in Module /\ requests[x][r] # m
  <2>1. Settled(x, requests[x][r])
    BY <1>8 DEF Ties, Answered
  <2> QED BY <2>1, <1>2, <1>3, EvalRanges DEF Settled, Started
<1>9. ASSUME mode = "eval", NEW k \in DOMAIN stack, NEW r \in DOMAIN requests[stack[k]], Walked(stack[k], r)
      PROVE  requests[stack[k]][r] # m
  <2>1. stack[k] \in Module /\ status[stack[k]] = "evaluating"
    BY <1>4, <1>9, EvaluatingIs
  <2> QED BY <2>1, <1>8, <1>9 DEF Asks
<1>10. Lowest'
  <2>1. CASE mode = "eval" /\ AtRequest /\ m = Child
    BY <2>1, <1>1, <1>2, <1>3, <1>9, RequestLow DEF Ties, Lowest
  <2>2. CASE frames = <<>> /\ stack = <<>>
    <3>1. h = 0
      BY <2>2, <1>3, EvalRanges DEF h
    <3>2. \A k \in DOMAIN stack' : k = 1 /\ stack'[k] = m
      BY <3>1, <1>4
    <3>3. Low'
      BY <3>2, <1>1, <1>7 DEF Low
    <3>4. Merged'
      BY <3>2 DEF Merged
    <3> QED BY <3>3, <3>4 DEF Lowest
  <2> QED BY <2>1, <2>2, <1>2
<1>11. Kept'
  <2> SUFFICES ASSUME NEW k \in DOMAIN stack', NEW p \in DOMAIN stack', NEW r \in DOMAIN requests[stack'[k]],
                      \A i \in DOMAIN frames' : frames'[i].mod = stack'[k] => r < frames'[i].next,
                      requests[stack'[k]][r] = stack'[p], k < p,
                      NEW q \in DOMAIN stack', stack'[q] \in Calls'
               PROVE  q <= k \/ p < q
    BY <1>1 DEF Kept, Walked
  <2>1. k \in DOMAIN stack /\ stack'[k] = stack[k] /\ stack[k] \in Module /\ stack[k] # m
    <3>1. stack'[k] # m
      BY <1>7 DEF Walked
    <3> QED BY <3>1, <1>4
  <2>2. mode = "eval"
    <3>1. DOMAIN stack # {}
      BY <2>1
    <3>2. stack # <<>>
      BY <3>1, <1>3, EvalRanges
    <3> QED BY <3>2, <1>2
  <2>3. Walked(stack[k], r)
    BY <2>1, <1>6 DEF Walked
  <2>4. requests[stack[k]][r] # m
    BY <2>1, <2>2, <2>3, <1>9
  <2>5. p \in DOMAIN stack /\ stack'[p] = stack[p]
    BY <2>1, <2>4, <1>4
  <2>6. CASE q = h + 1
    BY <2>5, <2>6, <1>4
  <2>7. CASE q # h + 1
    <3>1. q \in DOMAIN stack /\ stack'[q] = stack[q] /\ stack[q] \in Calls
      BY <2>7, <1>2, <1>4
    <3> QED BY <3>1, <2>1, <2>2, <2>3, <2>5 DEF Ties, Kept
  <2> QED BY <2>6, <2>7
<1>12. Answered'
  <2> SUFFICES ASSUME NEW x \in Module, NEW r \in DOMAIN requests[x], Asks(x, r)'
               PROVE  Settled(x, requests[x][r])'
    BY <1>1 DEF Answered
  <2>1. x # m
    BY <1>2, <1>7 DEF Asks, Started
  <2>2. Asks(x, r)
    BY <2>1, <1>1, <1>2, <1>6 DEF Asks
  <2>3. Settled(x, requests[x][r]) /\ requests[x][r] \in Module /\ requests[x][r] # m
    BY <2>2, <1>8 DEF Ties, Answered
  <2> QED BY <2>1, <2>3, <1>1, <1>2, <1>5 DEF Settled
<1>13. Noted'
  BY <1>1, <1>5 DEF Ties, Noted
<1>14. Paired'
  <2> SUFFICES ASSUME NEW x \in Module, NEW p \in Range(parents[x]), status'[x] = "evaluating"
               PROVE  status'[p] = "evaluating" /\ \E r \in DOMAIN requests[p] : requests[p][r] = x /\ Walked(p, r)'
    BY <1>1 DEF Paired
  <2>1. x \in Stamped
    BY DEF Ties, Noted
  <2>2. m \notin Stamped
    BY <1>2 DEF Life, Lives, Alive, Started
  <2>3. status[x] = "evaluating"
    BY <2>1, <2>2, <1>2
  <2>4. p \in Module
    BY <1>3, ParentsIn
  <2>5. status[p] = "evaluating" /\ \E r \in DOMAIN requests[p] : requests[p][r] = x /\ Walked(p, r)
    BY <2>3 DEF Ties, Paired
  <2>6. p # m
    BY <2>5, <1>2
  <2> QED BY <2>4, <2>5, <2>6, <1>2, <1>6
<1> QED BY <1>10, <1>11, <1>12, <1>13, <1>14 DEF Ties

LEMMA ReturnedTies ==
  ASSUME EvalInv, Life, Reaching, Ties, EvalReturned
  PROVE  Ties'
<1> DEFINE n == Len(frames)
           b == Top.next
           D == Dependency
<1>1. /\ mode = "eval" /\ mode' = "eval" /\ AtRequest /\ frames # <<>>
      /\ Cur \in Module /\ Cur \in Calls /\ status[Cur] = "evaluating"
      /\ Child \in Module /\ status[Child] \in Started \cup {"evaluating"}
      /\ D \in Module /\ ~ChildFailed /\ Calls' = Calls
      /\ status' = status /\ stack' = stack /\ requests' = requests /\ async' = async /\ order' = order
      /\ root' = root /\ error' = error /\ body' = body
      /\ \/ async[D] /\ parents' = [parents EXCEPT ![D] = Append(@, Cur)]
         \/ ~async[D] /\ parents' = parents
  BY ReturnedEffect
<1>2. EvalTypes /\ Walk /\ Unfinished /\ Begun /\ MergeAncestor("evaluating") /\ frames' = Advanced
  BY <1>1 DEF EvalInv, EvalReturned
<1>3. /\ n \in Nat /\ DOMAIN frames = 1..n /\ n \in DOMAIN frames /\ b \in Nat
      /\ Cur = frames[n].mod /\ Top = frames[n] /\ b = frames[n].next
      /\ b \in DOMAIN requests[Cur] /\ Child = requests[Cur][b]
      /\ \A i \in DOMAIN frames : frames[i].mod = Cur => i = n
  BY <1>1, <1>2, EvalRanges, Calling, Asking, Stands DEF Walk
<1>4. /\ DOMAIN frames' = DOMAIN frames
      /\ \A i \in DOMAIN frames : frames'[i].mod = frames[i].mod
      /\ \A i \in DOMAIN frames : i # n => frames'[i] = frames[i]
      /\ frames'[n].next = b + 1
  BY <1>1, <1>2, AdvanceShape
<1>5. Reached' = Reached /\ Stamped' = Stamped
  BY <1>1, ReachedKept DEF Stamped
<1>6. /\ DOMAIN stack \subseteq Nat /\ \A k \in DOMAIN stack : stack[k] \in Module
      /\ \A k, l \in DOMAIN stack : stack[k] = stack[l] => k = l
      /\ \A x \in Module : DOMAIN requests[x] \subseteq Nat /\ \A r \in DOMAIN requests[x] : requests[x][r] \in Module
  BY <1>2, EvalRanges
<1>7. /\ \A x \in Module : x # D => parents'[x] = parents[x]
      /\ \A x \in Module : Range(parents[x]) \subseteq Range(parents'[x])
      /\ \A p \in Range(parents'[D]) : p \in Range(parents[D]) \/ (p = Cur /\ async[D])
      /\ async[D] => Cur \in Range(parents'[D])
  <2>1. CASE parents' = parents /\ ~async[D]
    BY <2>1
  <2>2. CASE parents' = [parents EXCEPT ![D] = Append(@, Cur)] /\ async[D]
    <3>1. /\ \A x \in Module : x # D => parents'[x] = parents[x]
          /\ Range(parents'[D]) = Range(parents[D]) \cup {Cur}
      BY <2>2, <1>1, <1>2, AppendedParents
    <3> QED BY <3>1, <2>2
  <2> QED BY <2>1, <2>2, <1>1
<1>8. D = IF status[Child] = "evaluating" THEN Child ELSE root[Child]
  BY DEF Dependency
<1> HIDE DEF n, b, D
<1>9. ASSUME NEW x \in Module, NEW r \in DOMAIN requests[x]
      PROVE  /\ Walked(x, r)' => Walked(x, r) \/ (x = Cur /\ r = b)
             /\ Walked(x, r) => Walked(x, r)'
             /\ x = Cur /\ r = b => Walked(x, r)'
  <2>1. r \in Nat
    BY <1>6
  <2>2. ASSUME Walked(x, r)', ~(x = Cur /\ r = b), NEW i \in DOMAIN frames, frames[i].mod = x PROVE r < frames[i].next
    <3>1. r < frames'[i].next
      BY <2>2, <1>4 DEF Walked
    <3>2. CASE i = n
      BY <3>1, <3>2, <2>1, <2>2, <1>3, <1>4
    <3>3. CASE i # n
      BY <3>1, <3>3, <1>4
    <3> QED BY <3>2, <3>3
  <2>3. ASSUME Walked(x, r), NEW i \in DOMAIN frames, frames[i].mod = x PROVE r < frames'[i].next
    <3>1. r < frames[i].next
      BY <2>3 DEF Walked
    <3>2. CASE i = n
      BY <3>1, <3>2, <2>1, <1>3, <1>4
    <3>3. CASE i # n
      BY <3>1, <3>3, <1>4
    <3> QED BY <3>2, <3>3
  <2>4. ASSUME x = Cur, r = b, NEW i \in DOMAIN frames, frames[i].mod = x PROVE r < frames'[i].next
    BY <2>4, <1>3, <1>4
  <2> QED BY <2>2, <2>3, <2>4, <1>4 DEF Walked
<1>10. Lowest'
  <2>1. Child \in Range(stack) => status[Child] = "evaluating"
    BY <1>1, <1>2 DEF Unfinished
  <2> QED BY <2>1, <1>1, <1>2, MergeLow DEF Ties, Lowest
<1>11. Kept'
  <2> SUFFICES ASSUME NEW k \in DOMAIN stack, NEW p \in DOMAIN stack, NEW r \in DOMAIN requests[stack[k]],
                      \A i \in DOMAIN frames' : frames'[i].mod = stack[k] => r < frames'[i].next,
                      requests[stack[k]][r] = stack[p], k < p,
                      NEW q \in DOMAIN stack, stack[q] \in Calls
               PROVE  q <= k \/ p < q
    BY <1>1 DEF Kept, Walked
  <2>1. CASE Walked(stack[k], r)
    BY <2>1, <1>1 DEF Ties, Kept
  <2>2. CASE stack[k] = Cur
    <3>1. PICK i \in DOMAIN frames : stack[q] = frames[i].mod
      BY DEF Calls
    <3>2. CASE i = n
      BY <3>1, <3>2, <2>2, <1>3, <1>6
    <3>3. CASE i # n
      <4>1. i < n
        BY <3>3, <1>3
      <4>2. q < k
        BY <4>1, <3>1, <2>2, <1>2, <1>3 DEF Walk, Standing
      <4> QED BY <4>2, <1>6
    <3> QED BY <3>2, <3>3
  <2>3. PICK x \in Module : x = stack[k]
    BY <1>6
  <2>4. Walked(x, r) \/ x = Cur
    BY <2>3, <1>9 DEF Walked
  <2> QED BY <2>1, <2>2, <2>3, <2>4
<1>12. Answered'
  <2> SUFFICES ASSUME NEW x \in Module, NEW r \in DOMAIN requests[x], Asks(x, r)'
               PROVE  Settled(x, requests[x][r])'
    BY <1>1 DEF Answered
  <2>1. requests[x][r] \in Module
    BY <1>6
  <2>2. CASE Asks(x, r)
    <3>1. Settled(x, requests[x][r])
      BY <2>2 DEF Ties, Answered
    <3>2. status[requests[x][r]] \in Started => root[requests[x][r]] \in Module
      BY <2>1, <1>2 DEF Begun
    <3> QED BY <3>1, <3>2, <1>1, <1>5, <1>7 DEF Settled
  <2>3. CASE x = Cur /\ r = b
    <3>1. CASE status[Child] = "evaluating"
      <4>1. PICK k \in DOMAIN stack : stack[k] = Child
        BY <3>1, <1>1, EvaluatingIs
      <4>2. Cur \in Reached[Child]
        BY <4>1, <1>1, ReachesCur DEF Reaching
      <4> QED BY <4>2, <3>1, <2>3, <1>1, <1>3, <1>5 DEF Settled
    <3>2. CASE status[Child] \in Started
      <4>1. D = root[Child] /\ status[D] \in Started /\ ~error[D]
        BY <3>2, <1>1, <1>2, <1>8 DEF Begun, ChildFailed, Started, D
      <4>2. async[D] \/ body[D] = "done"
        BY <4>1, <1>1 DEF Life, Lives, Alive, Started
      <4>3. body'[root'[Child]] = "done" \/ Cur \in Range(parents'[root'[Child]])
        BY <4>1, <4>2, <1>1, <1>7
      <4> QED BY <4>3, <3>2, <2>3, <1>1, <1>3 DEF Settled
    <3> QED BY <3>1, <3>2, <1>1
  <2>4. Asks(x, r) \/ (x = Cur /\ r = b)
    BY <1>1, <1>9 DEF Asks
  <2> QED BY <2>2, <2>3, <2>4
<1>13. Noted'
  <2> SUFFICES ASSUME NEW x \in Module, NEW p \in Range(parents'[x])
               PROVE  x \in Stamped /\ \A i, j \in DOMAIN order : order[i] = x /\ order[j] = p => i < j
    BY <1>1, <1>5 DEF Noted
  <2>1. CASE p \in Range(parents[x])
    BY <2>1 DEF Ties, Noted
  <2>2. CASE x = D /\ p = Cur /\ async[D]
    <3>1. x \in Stamped /\ Cur \notin Stamped
      BY <2>2, <1>1 DEF Life, Lives, Alive, Started
    <3>2. \A j \in DOMAIN order : order[j] # Cur
      BY <3>1 DEF Stamped, Range
    <3> QED BY <3>1, <3>2, <2>2
  <2> QED BY <2>1, <2>2, <1>7
<1>14. Paired'
  <2> SUFFICES ASSUME NEW x \in Module, NEW p \in Range(parents'[x]), status[x] = "evaluating"
               PROVE  status[p] = "evaluating" /\ \E r \in DOMAIN requests[p] : requests[p][r] = x /\ Walked(p, r)'
    BY <1>1 DEF Paired
  <2>1. CASE p \in Range(parents[x])
    <3>1. p \in Module
      BY <2>1, <1>2, ParentsIn
    <3>2. PICK r \in DOMAIN requests[p] : requests[p][r] = x /\ Walked(p, r)
      BY <2>1 DEF Ties, Paired
    <3>3. status[p] = "evaluating"
      BY <2>1 DEF Ties, Paired
    <3> QED BY <3>1, <3>2, <3>3, <1>9
  <2>2. CASE x = D /\ p = Cur /\ async[D]
    <3>1. status[Child] = "evaluating"
      <4> SUFFICES ASSUME status[Child] # "evaluating" PROVE FALSE
        OBVIOUS
      <4>1. status[Child] \in Started /\ D = root[Child]
        BY <1>1, <1>8
      <4>2. status[D] \in Started
        BY <4>1, <1>1, <1>2 DEF Begun
      <4> QED BY <4>2, <2>2 DEF Started
    <3>2. D = Child
      BY <3>1, <1>8
    <3> QED BY <3>2, <2>2, <1>1, <1>3, <1>9
  <2> QED BY <2>1, <2>2, <1>7
<1> QED BY <1>10, <1>11, <1>12, <1>13, <1>14 DEF Ties

LEMMA AbandonTies ==
  ASSUME EvalInv, Life, Ties, EvalChildFailed \/ EvalThrows
  PROVE  Ties'
<1>1. /\ mode = "eval" /\ mode' = "idle"
      /\ Cur \in Module /\ Cur \in Calls /\ status[Cur] = "evaluating"
      /\ \A m \in Module : IF status[m] = "evaluating"
           THEN status'[m] = "evaluated" /\ error'[m] /\ root'[m] = goal
           ELSE status'[m] = status[m] /\ error'[m] = error[m] /\ root'[m] = root[m]
      /\ requests' = requests /\ order' = order /\ parents' = parents
      /\ \A x \in Module : x # Cur => body'[x] = body[x]
      /\ body' = body \/ AtEnd
  BY AbandonEffect DEF Life
<1>2. EvalTypes /\ Walk /\ Begun
  BY <1>1 DEF EvalInv
<1>3. Reached' = Reached /\ Stamped' = Stamped
  BY <1>1, ReachedKept DEF Stamped
<1>4. Noted'
  BY <1>1, <1>3 DEF Ties, Noted
<1>5. \A x \in Module : status'[x] # "evaluating"
  BY <1>1
<1>6. Answered'
  <2> SUFFICES ASSUME NEW x \in Module, NEW r \in DOMAIN requests[x], Asks(x, r)',
                      NEW d, d = requests[x][r]
               PROVE  Settled(x, d)'
    BY <1>1 DEF Answered
  <2>1. d \in Module
    BY <1>2, EvalRanges
  <2>2. ASSUME status[d] \in Started
        PROVE  /\ status'[d] \in Started /\ root'[d] = root[d] /\ root[d] \in Module
               /\ status[root[d]] \in Started /\ body'[root[d]] = body[root[d]]
    BY <2>1, <2>2, <1>1, <1>2 DEF Begun, Started
  <2>3. CASE status[x] = "evaluating"
    <3>1. body'[x] # "unstarted"
      BY <2>3, <1>1 DEF Asks
    <3>2. Walked(x, r)
      <4>1. CASE x \notin Calls
        BY <4>1 DEF Walked, Calls
      <4>2. CASE x \in Calls
        <5>1. body[x] = "unstarted"
          BY <4>2, <2>3 DEF Life, Lives, Alive, Started
        <5>2. x = Cur /\ AtEnd
          BY <5>1, <3>1, <1>1
        <5> QED BY <5>2, <1>2, EndWalked
      <4> QED BY <4>1, <4>2
    <3>3. Settled(x, d)
      BY <3>2, <2>3 DEF Ties, Answered, Asks
    <3> QED BY <3>3, <2>1, <2>2, <2>3, <1>1, <1>3 DEF Settled, Started
  <2>4. CASE status[x] # "evaluating"
    <3>1. Asks(x, r)
      BY <2>4, <1>1 DEF Asks
    <3>2. Settled(x, d)
      BY <3>1 DEF Ties, Answered
    <3> QED BY <3>2, <2>1, <2>2, <2>4, <1>1, <1>3 DEF Settled
  <2> QED BY <2>3, <2>4
<1> QED BY <1>1, <1>4, <1>5, <1>6 DEF Ties, Lowest, Kept, Paired

LEMMA CloseTies ==
  ASSUME EvalInv, Life, Ties, EvalWaits \/ EvalStarts \/ EvalRuns
  PROVE  Ties'
<1> DEFINE c == Index(Cur)
<1>1. /\ mode = "eval" /\ mode' = "eval" /\ AtEnd
      /\ Cur \in Module /\ Cur \in Calls /\ status[Cur] = "evaluating"
      /\ Calls' = Calls \ {Cur} /\ Leaving \subseteq Module
      /\ \A m \in Leaving : status[m] = "evaluating" /\ (m \in Calls => m = Cur)
      /\ \A m \in Module : m \in Leaving =>
           root'[m] = Cur /\ status'[m] = IF async'[m] THEN "evaluating_async" ELSE "evaluated"
      /\ \A m \in Module : m \notin Leaving => root'[m] = root[m] /\ status'[m] = status[m]
      /\ requests' = requests /\ parents' = parents /\ error' = error
      /\ \A x \in Module : x # Cur => body'[x] = body[x]
      /\ order' = order \/ order' = Append(order, Cur)
  BY CloseEffect DEF Life
<1>2. /\ EvalTypes /\ Walk /\ Begun /\ frames # <<>> /\ frames' = Returned
      /\ c \in DOMAIN stack /\ stack[c] = Cur
      /\ \A k \in DOMAIN stack' : k \in DOMAIN stack /\ stack'[k] = stack[k] /\ stack[k] \notin Leaving
      /\ \A k \in DOMAIN stack : stack[k] \in Leaving <=> IsRoot /\ k >= c
      /\ \A m \in Leaving : \E k \in DOMAIN stack : stack[k] = m
  BY CloseStack DEF EvalInv
<1>3. /\ DOMAIN stack \subseteq Nat /\ \A k \in DOMAIN stack : stack[k] \in Module
      /\ \A x \in Module : \A r \in DOMAIN requests[x] : requests[x][r] \in Module
  BY <1>2, EvalRanges
<1>4. Reached' = Reached
  BY <1>1, ReachedKept
<1>5. Low /\ Merged
  BY <1>1 DEF Ties, Lowest
<1>6. \A k \in DOMAIN stack : k < c \/ k >= c
  BY <1>2, <1>3
<1> HIDE DEF c
<1>7. ASSUME NEW x \in Module, NEW r \in DOMAIN requests[x]
      PROVE  /\ Walked(x, r)' => Walked(x, r)
             /\ Walked(x, r) => Walked(x, r)'
             /\ x \in Leaving => Walked(x, r)
  <2>1. Walked(x, r)' => Walked(x, r)
    BY <1>1, <1>2, ReturnWalked DEF Walked
  <2>2. Walked(x, r) => Walked(x, r)'
    BY <1>2, ReturnShape DEF Walked
  <2>3. x \in Leaving => Walked(x, r)
    <3>1. CASE x = Cur
      BY <3>1, <1>1, <1>2, EndWalked
    <3>2. CASE x # Cur
      BY <3>2, <1>1 DEF Walked, Calls
    <3> QED BY <3>1, <3>2
  <2> QED BY <2>1, <2>2, <2>3
<1>8. Lowest'
  <2>1. CASE IsRoot
    <3> DEFINE done == [m \in Module |-> IF async'[m] THEN "evaluating_async" ELSE "evaluated"]
    <3>1. Close(done)
      BY DEF EvalWaits, EvalStarts, EvalRuns, BecomesAsync, CloseEvaluation
    <3>2. done \in [Module -> Status]
      BY DEF Status, Started
    <3> HIDE DEF done
    <3>3. Low' /\ Merged'
      BY <3>1, <3>2, <2>1, <1>1, <1>2, <1>5, CloseLow
    <3> QED BY <3>3 DEF Lowest
  <2>2. CASE ~IsRoot
    <3>1. stack' = stack /\ anc' = anc
      BY <2>2 DEF EvalWaits, EvalStarts, EvalRuns, BecomesAsync, CloseEvaluation, Close
    <3>2. Low' /\ Merged'
      BY <3>1, <2>2, <1>1, <1>2, <1>5, ReturnLow
    <3> QED BY <3>2 DEF Lowest
  <2> QED BY <2>1, <2>2
<1>9. Kept'
  <2> SUFFICES ASSUME NEW k \in DOMAIN stack', NEW p \in DOMAIN stack', NEW r \in DOMAIN requests[stack'[k]],
                      \A i \in DOMAIN frames' : frames'[i].mod = stack'[k] => r < frames'[i].next,
                      requests[stack'[k]][r] = stack'[p], k < p,
                      NEW q \in DOMAIN stack', stack'[q] \in Calls'
               PROVE  q <= k \/ p < q
    BY <1>1 DEF Kept, Walked
  <2>1. k \in DOMAIN stack /\ p \in DOMAIN stack /\ q \in DOMAIN stack
        /\ stack'[k] = stack[k] /\ stack'[p] = stack[p] /\ stack'[q] = stack[q]
    BY <1>2
  <2>2. Walked(stack[k], r)
    BY <2>1, <1>3, <1>7 DEF Walked
  <2>3. stack[q] \in Calls
    BY <2>1, <1>1
  <2> QED BY <2>1, <2>2, <2>3, <1>1 DEF Ties, Kept
\* What is asked for from a component, or above one, stays with it.
<1>10. ASSUME NEW x \in Module, NEW r \in DOMAIN requests[x], Walked(x, r), NEW d, d = requests[x][r],
              status[x] = "evaluating", status[d] = "evaluating"
       PROVE  x \in Leaving <=> d \in Leaving
  <2>1. d \in Module
    BY <1>10, <1>3
  <2>2. PICK k \in DOMAIN stack : stack[k] = x
    BY <1>1, <1>10, EvaluatingIs
  <2>3. PICK p \in DOMAIN stack : stack[p] = d
    BY <2>1, <1>1, <1>10, EvaluatingIs
  <2>4. ASSUME x \in Leaving PROVE d \in Leaving
    <3>1. IsRoot /\ k >= c
      BY <2>2, <2>4, <1>2
    <3>2. p >= c
      BY <3>1, <2>2, <2>3, <1>1, <1>2, <1>5, <1>10, ComponentLow DEF c
    <3> QED BY <3>1, <3>2, <2>3, <1>2
  <2>5. ASSUME d \in Leaving, x \notin Leaving PROVE FALSE
    <3>1. IsRoot /\ p >= c
      BY <2>3, <2>5, <1>2
    <3>2. ~(k >= c)
      BY <3>1, <2>2, <2>5, <1>2
    <3>3. k \in Nat /\ p \in Nat /\ c \in Nat
      BY <1>2, <1>3
    <3>4. k < p
      BY <3>1, <3>2, <3>3
    <3>5. c <= k \/ p < c
      BY <3>4, <2>2, <2>3, <1>1, <1>2, <1>10 DEF Ties, Kept
    <3> QED BY <3>1, <3>2, <3>3, <3>5
  <2> QED BY <2>4, <2>5
<1>11. Answered'
  <2> SUFFICES ASSUME NEW x \in Module, NEW r \in DOMAIN requests[x], Asks(x, r)',
                      NEW d, d = requests[x][r]
               PROVE  Settled(x, d)'
    BY <1>1 DEF Answered
  <2>1. d \in Module
    BY <1>3
  <2>2. ASSUME status[d] \in Started
        PROVE  /\ status'[d] \in Started /\ root'[d] = root[d] /\ root[d] \in Module
               /\ body'[root[d]] = body[root[d]] /\ d \notin Leaving
    <3>1. d \notin Leaving
      BY <2>2, <1>1 DEF Started
    <3>2. root[d] \in Module /\ status[root[d]] \in Started
      BY <2>1, <2>2, <1>2 DEF Begun
    <3>3. root[d] # Cur
      BY <3>2, <1>1 DEF Started
    <3> QED BY <3>1, <3>2, <3>3, <2>1, <2>2, <1>1
  <2>3. CASE status[x] = "evaluating"
    <3>1. Walked(x, r)
      <4>1. CASE x \in Leaving
        BY <4>1, <1>7
      <4>2. CASE x \notin Leaving
        <5>1. status'[x] = "evaluating"
          BY <4>2, <2>3, <1>1
        <5> QED BY <5>1, <1>7 DEF Asks, Started
      <4> QED BY <4>1, <4>2
    <3>2. Settled(x, d)
      BY <3>1, <2>3 DEF Ties, Answered, Asks
    <3>3. CASE x \in Reached[d] /\ status[d] = "evaluating"
      <4>1. x \in Leaving <=> d \in Leaving
        BY <3>1, <3>3, <2>3, <1>10
      <4>2. CASE x \in Leaving
        BY <4>1, <4>2, <3>3, <2>1, <1>1, <1>4 DEF Settled, Started
      <4>3. CASE x \notin Leaving
        BY <4>1, <4>3, <3>3, <2>1, <2>3, <1>1, <1>4 DEF Settled
      <4> QED BY <4>2, <4>3
    <3>4. CASE status[d] \in Started /\ (body[root[d]] = "done" \/ x \in Range(parents[root[d]]))
      BY <3>4, <2>2, <1>1 DEF Settled
    <3> QED BY <3>2, <3>3, <3>4, <2>3 DEF Settled, Started
  <2>4. CASE status[x] # "evaluating"
    <3>1. x \notin Leaving /\ x # Cur
      BY <2>4, <1>1
    <3>2. status'[x] = status[x] /\ root'[x] = root[x] /\ body'[x] = body[x]
      BY <3>1, <1>1
    <3>3. Settled(x, d)
      BY <3>2, <2>4, <1>1 DEF Ties, Answered, Asks
    <3> QED BY <3>2, <3>3, <2>2, <2>4, <1>1, <1>4 DEF Settled
  <2> QED BY <2>3, <2>4
<1>12. Noted'
  <2> SUFFICES ASSUME NEW x \in Module, NEW p \in Range(parents[x])
               PROVE  x \in Stamped' /\ \A i, j \in DOMAIN order' : order'[i] = x /\ order'[j] = p => i < j
    BY <1>1 DEF Noted
  <2>1. x \in Stamped /\ \A i, j \in DOMAIN order : order[i] = x /\ order[j] = p => i < j
    BY DEF Ties, Noted
  <2>2. CASE order' = order
    BY <2>1, <2>2 DEF Stamped
  <2>3. CASE order' = Append(order, Cur)
    <3>1. Cur \notin Stamped
      BY <1>1 DEF Life, Lives, Alive, Started
    <3>2. order \in Seq(Module) /\ IsInjective(order)
      BY <1>2 DEF EvalTypes, Life
    <3>3. /\ Stamped' = Stamped \cup {Cur}
          /\ DOMAIN order = 1..Len(order) /\ Len(order) \in Nat /\ DOMAIN order' = 1..(Len(order) + 1)
          /\ \A i \in DOMAIN order : order'[i] = order[i] /\ i < Len(order) + 1
          /\ order'[Len(order) + 1] = Cur
      BY ONLY <2>3, <3>1, <3>2, <1>1, StampEffect
    <3>4. x # Cur
      BY <2>1, <3>1
    <3>5. ASSUME NEW i \in DOMAIN order', NEW j \in DOMAIN order', order'[i] = x, order'[j] = p PROVE i < j
      <4>1. i \in DOMAIN order /\ order[i] = x
        BY <3>3, <3>4, <3>5
      <4>2. CASE j = Len(order) + 1
        BY <4>1, <4>2, <3>3
      <4>3. CASE j # Len(order) + 1
        <5>1. j \in DOMAIN order /\ order[j] = p
          BY <4>3, <3>3, <3>5
        <5> QED BY <5>1, <4>1, <2>1
      <4> QED BY <4>2, <4>3
    <3> QED BY <2>1, <3>3, <3>5
  <2> QED BY <2>2, <2>3, <1>1
<1>13. Paired'
  <2> SUFFICES ASSUME NEW x \in Module, NEW p \in Range(parents[x]), status'[x] = "evaluating"
               PROVE  status'[p] = "evaluating" /\ \E r \in DOMAIN requests[p] : requests[p][r] = x /\ Walked(p, r)'
    BY <1>1 DEF Paired
  <2>1. x \notin Leaving /\ status[x] = "evaluating"
    BY <1>1
  <2>2. p \in Module
    BY <1>2, ParentsIn
  <2>3. status[p] = "evaluating"
    BY <2>1 DEF Ties, Paired
  <2>4. PICK r \in DOMAIN requests[p] : requests[p][r] = x /\ Walked(p, r)
    BY <2>1 DEF Ties, Paired
  <2>5. p \notin Leaving
    BY <2>1, <2>2, <2>3, <2>4, <1>10
  <2> QED BY <2>2, <2>3, <2>4, <2>5, <1>1, <1>7
<1> QED BY <1>8, <1>9, <1>11, <1>12, <1>13 DEF Ties

LEMMA TiesInit == Init => Ties
<1> SUFFICES ASSUME Init PROVE Ties
  OBVIOUS
<1>1. Lowest /\ Kept /\ Answered
  BY DEF Init, Lowest, Kept, Answered, Asks, Started
<1>2. ASSUME NEW m \in Module PROVE Range(parents[m]) = {}
  <2>1. parents[m] = <<>>
    BY DEF Init
  <2> QED BY ONLY <2>1, Empty, Zenon
<1>3. Noted /\ Paired
  BY <1>2 DEF Noted, Paired
<1> QED BY <1>1, <1>3 DEF Ties

LEMMA TiesNext ==
  ASSUME EvalInv, Life, Reaching, Ties, [Next]_vars
  PROVE  Ties'
<1>0. LifeTypes
  BY DEF Life
<1>2. CASE UNCHANGED vars
  <2>1. /\ requests' = requests /\ status' = status /\ mode' = mode /\ stack' = stack /\ anc' = anc
        /\ frames' = frames /\ root' = root /\ error' = error /\ parents' = parents /\ body' = body
        /\ order' = order
    BY <1>2 DEF vars, program, walk, deps, bodies
  <2>2. Reached' = Reached /\ Calls' = Calls /\ Stamped' = Stamped
    BY <2>1, ReachedKept DEF Calls, Stamped
  <2>3. Lowest'
    BY <2>1 DEF Ties, Lowest, Low, Merged, Walked, Below, Unmerged, Asked
  <2>4. Kept'
    BY <2>1, <2>2 DEF Ties, Kept, Walked
  <2>5. Answered'
    BY <2>1, <2>2 DEF Ties, Answered, Asks, Settled, Walked
  <2>6. Noted' /\ Paired'
    BY <2>1, <2>2 DEF Ties, Noted, Paired, Walked
  <2> QED BY <2>3, <2>4, <2>5, <2>6 DEF Ties
<1>3. CASE (\E m \in Module : Import(m)) \/ Link \/ EvaluateAgain
  BY <1>3, LinkTies
<1>4. CASE EvaluateStarted \/ EvaluateReturns
  BY <1>0, <1>4, SettleTies
<1>5. CASE EvaluateFirst \/ EvalRequest
  BY <1>5, OpenTies
<1>6. CASE EvalReturned
  BY <1>6, ReturnedTies
<1>7. CASE EvalChildFailed \/ EvalThrows
  BY <1>7, AbandonTies
<1>8. CASE EvalWaits \/ EvalStarts \/ EvalRuns
  BY <1>8, CloseTies
<1>9. CASE \E m \in Module : BodyRejected(m) \/ (ExecuteThrows /\ m = First)
  BY <1>9, ThrownTies
<1>10. CASE \E m \in Module : BodyFulfilled(m) \/ (ExecuteRuns /\ m = First)
  BY <1>10, DoneTies
<1>11. CASE Gather
  BY <1>0, <1>11, GatherTies
<1>12. CASE ExecuteSkips \/ ExecuteStarts \/ ExecuteEnds
  BY <1>12, ExecuteTies
<1>13. CASE \E m \in Module : \E b \in {"done", "threw"} : BodyIgnored(m, b)
  BY <1>0, <1>13, IgnoredTies
<1> QED BY <1>2, <1>3, <1>4, <1>5, <1>6, <1>7, <1>8, <1>9, <1>10, <1>11, <1>12, <1>13, StepKinds

-----------------------------------------------------------------------------
(* What waits in a cycle waits, in the end, for its root.                  *)

\* The call in progress has yet to merge the answer of the module at k.
Due(k) ==
  \E i \in DOMAIN frames :
    /\ i = Len(frames) /\ frames[i].next \in DOMAIN requests[frames[i].mod] /\ Asked(i) = stack[k]
    /\ \A q \in DOMAIN stack : stack[q] = frames[i].mod => q < k
\* A module below k waits for the one at k, with no call in between.
Awaiting(k) ==
  \E p \in DOMAIN stack :
    /\ p < k /\ stack[p] \in Range(parents[stack[k]])
    /\ \A q \in DOMAIN stack : stack[q] \in Calls => q <= p \/ k < q
Hanging ==
  mode = "eval" =>
    \A k \in DOMAIN stack : stack[k] \notin Calls /\ async[stack[k]] => Due(k) \/ Awaiting(k)

Chained ==
  \A x \in Module : status[x] = "evaluating_async" /\ root[x] # x /\ ~error[root[x]] =>
    \E t \in Range(parents[x]) : root[t] = root[x]

Chain == Hanging /\ Chained

LEMMA QuietChain ==
  ASSUME EvalInv, Chain, parents' = parents, root' = root, mode' # "eval",
         \A x \in Module : /\ error[x] => error'[x]
                           /\ status'[x] = "evaluating_async" => status[x] = "evaluating_async"
  PROVE  Chain'
<1>1. \A x \in Module : status[x] = "evaluating_async" => root[x] \in Module
  BY DEF EvalInv, Begun, Started
<1>2. Chained'
  BY <1>1 DEF Chain, Chained
<1> QED BY <1>2 DEF Chain, Hanging

LEMMA OpenChain ==
  ASSUME EvalInv, Life, Chain, EvaluateFirst \/ EvalRequest
  PROVE  Chain'
<1>1. /\ requests' = requests /\ parents' = parents /\ root' = root /\ error' = error /\ async' = async
  BY OpenEffect
<1>2. PICK m \in Module :
        /\ m \notin Range(stack) /\ Open(m, "evaluating")
        /\ status[m] = "linked" /\ status'[m] = "evaluating"
        /\ \A x \in Module : x # m => status'[x] = status[x]
        /\ Calls' = Calls \cup {m} /\ m \notin Calls
        /\ \/ EvalRequest /\ mode = "eval" /\ AtRequest /\ m = Child
           \/ /\ EvaluateFirst /\ mode = "link" /\ frames = <<>> /\ stack = <<>>
  BY OpenEffect
<1>3. EvalTypes /\ Walk /\ "evaluating" \in Status
  BY <1>2 DEF EvalInv, Status
<1> DEFINE h == Len(stack)
<1>4. /\ h \in Nat /\ DOMAIN stack = 1..h /\ DOMAIN stack' = 1..(h + 1)
      /\ \A k \in DOMAIN stack : stack'[k] = stack[k] /\ stack'[k] # m /\ stack[k] \in Module
      /\ stack'[h + 1] = m
  BY <1>2, <1>3, OpenShape, EvalRanges
<1> HIDE DEF h
<1>5. Chained'
  <2>1. \A x \in Module : status'[x] = "evaluating_async" => status[x] = "evaluating_async"
    BY <1>2
  <2> QED BY <2>1, <1>1 DEF Chain, Chained
<1>6. Hanging'
  <2> SUFFICES ASSUME NEW k \in DOMAIN stack', stack'[k] \notin Calls', async[stack'[k]]
               PROVE  Awaiting(k)'
    BY <1>1 DEF Hanging
  <2>1. k # h + 1
    BY <1>2, <1>4
  <2>2. k \in DOMAIN stack /\ stack'[k] = stack[k] /\ stack[k] \notin Calls
    BY <2>1, <1>2, <1>4
  <2>3. mode = "eval" /\ AtRequest /\ m = Child
    <3>1. h # 0
      BY <2>2, <1>4
    <3>2. stack # <<>>
      BY <3>1, <1>3, EvalRanges DEF h
    <3> QED BY <3>2, <1>2
  <2>4. ~Due(k)
    <3>1. Asked(Len(frames)) = m
      BY <2>3, <1>3, Asking
    <3> QED BY <3>1, <2>2, <1>4 DEF Due
  <2>5. Awaiting(k)
    BY <2>2, <2>3, <2>4 DEF Chain, Hanging
  <2>6. PICK p \in DOMAIN stack : /\ p < k /\ stack[p] \in Range(parents[stack[k]])
                                  /\ \A q \in DOMAIN stack : stack[q] \in Calls => q <= p \/ k < q
    BY <2>5 DEF Awaiting
  <2>7. p \in DOMAIN stack' /\ stack'[p] = stack[p]
    BY <1>4
  <2>8. ASSUME NEW q \in DOMAIN stack', stack'[q] \in Calls' PROVE q <= p \/ k < q
    <3>1. CASE q = h + 1
      BY <3>1, <2>2, <1>4
    <3>2. CASE q # h + 1
      <4>1. q \in DOMAIN stack /\ stack'[q] = stack[q] /\ stack[q] \in Calls
        BY <3>2, <2>8, <1>2, <1>4
      <4> QED BY <4>1, <2>6
    <3> QED BY <3>1, <3>2
  <2> QED BY <2>2, <2>6, <2>7, <2>8, <1>1 DEF Awaiting
<1> QED BY <1>5, <1>6 DEF Chain

LEMMA ReturnedChain ==
  ASSUME EvalInv, Life, Chain, EvalReturned
  PROVE  Chain'
<1> DEFINE n == Len(frames)
           D == Dependency
<1>1. /\ mode = "eval" /\ mode' = "eval" /\ AtRequest /\ frames # <<>>
      /\ Cur \in Module /\ Cur \in Calls /\ Child \in Module
      /\ D \in Module /\ Calls' = Calls
      /\ status' = status /\ stack' = stack /\ requests' = requests /\ async' = async
      /\ root' = root /\ error' = error
      /\ \/ async[D] /\ parents' = [parents EXCEPT ![D] = Append(@, Cur)]
         \/ ~async[D] /\ parents' = parents
  BY ReturnedEffect
<1>2. EvalTypes /\ Walk /\ Unfinished
  BY <1>1 DEF EvalInv
<1>3. /\ n \in Nat /\ DOMAIN frames = 1..n /\ n \in DOMAIN frames /\ Cur = frames[n].mod
      /\ Child = Asked(n) /\ Index(Cur) \in DOMAIN stack /\ stack[Index(Cur)] = Cur
      /\ DOMAIN stack \subseteq Nat /\ \A k \in DOMAIN stack : stack[k] \in Module
      /\ \A k, l \in DOMAIN stack : stack[k] = stack[l] => k = l
  BY <1>1, <1>2, EvalRanges, Calling, Asking, Stands DEF Walk
<1>4. /\ \A x \in Module : Range(parents[x]) \subseteq Range(parents'[x])
      /\ async[D] => Cur \in Range(parents'[D])
  <2>1. CASE parents' = parents /\ ~async[D]
    BY <2>1
  <2>2. CASE parents' = [parents EXCEPT ![D] = Append(@, Cur)] /\ async[D]
    <3>1. /\ \A x \in Module : x # D => parents'[x] = parents[x]
          /\ Range(parents'[D]) = Range(parents[D]) \cup {Cur}
      BY <2>2, <1>1, <1>2, AppendedParents
    <3> QED BY <3>1
  <2> QED BY <2>1, <2>2, <1>1
<1>5. status[Child] = "evaluating" => D = Child
  BY DEF Dependency
<1> HIDE DEF n, D
<1>6. Chained'
  BY <1>1, <1>4 DEF Chain, Chained
<1>7. Hanging'
  <2> SUFFICES ASSUME NEW k \in DOMAIN stack, stack[k] \notin Calls, async[stack[k]]
               PROVE  Awaiting(k)'
    BY <1>1 DEF Hanging
  <2>1. CASE Awaiting(k)
    BY <2>1, <1>1, <1>3, <1>4 DEF Awaiting
  <2>2. CASE Due(k)
    <3>1. Child = stack[k] /\ Index(Cur) < k
      BY <2>2, <1>3 DEF Due, n
    <3>2. status[Child] = "evaluating"
      BY <3>1, <1>1, EvaluatingIs
    <3>3. Cur \in Range(parents'[stack[k]])
      BY <3>1, <3>2, <1>4, <1>5
    <3>4. ASSUME NEW q \in DOMAIN stack, stack[q] \in Calls PROVE q <= Index(Cur)
      <4>1. PICK i \in DOMAIN frames : stack[q] = frames[i].mod
        BY <3>4 DEF Calls
      <4>2. CASE i = n
        BY <4>1, <4>2, <1>3
      <4>3. CASE i # n
        <5>1. i < n
          BY <4>3, <1>3
        <5>2. q < Index(Cur)
          BY <5>1, <4>1, <1>2, <1>3 DEF Walk, Standing
        <5> QED BY <5>2, <1>3
      <4> QED BY <4>2, <4>3
    <3> QED BY <3>1, <3>3, <3>4, <1>1, <1>3 DEF Awaiting
  <2> QED BY <2>1, <2>2, <1>1 DEF Chain, Hanging
<1> QED BY <1>6, <1>7 DEF Chain

LEMMA AbandonChain ==
  ASSUME EvalInv, Life, Chain, EvalChildFailed \/ EvalThrows
  PROVE  Chain'
<1>1. /\ mode' = "idle" /\ parents' = parents
      /\ \A m \in Module : IF status[m] = "evaluating"
           THEN status'[m] = "evaluated" /\ error'[m] /\ root'[m] = goal
           ELSE status'[m] = status[m] /\ error'[m] = error[m] /\ root'[m] = root[m]
  BY AbandonEffect DEF Life
<1>2. ASSUME NEW x \in Module, status'[x] = "evaluating_async", root'[x] # x, ~error'[root'[x]]
      PROVE  \E t \in Range(parents[x]) : root'[t] = root'[x]
  <2>1. status[x] = "evaluating_async" /\ root'[x] = root[x]
    BY <1>1, <1>2
  <2>2. root[x] \in Module /\ EvalTypes
    BY <2>1 DEF EvalInv, Begun, Started
  <2>3. ~error[root[x]]
    BY <2>1, <2>2, <1>1, <1>2
  <2>4. PICK t \in Range(parents[x]) : root[t] = root[x]
    BY <2>1, <2>3, <1>2 DEF Chain, Chained
  <2>5. t \in Module
    BY <2>2, ParentsIn
  <2>6. status[t] # "evaluating"
    BY <2>2, <2>4, <2>5, ModuleAssumption DEF Life, Cycles, Started
  <2> QED BY <2>1, <2>4, <2>5, <2>6, <1>1
<1> QED BY <1>1, <1>2 DEF Chain, Hanging, Chained

LEMMA CloseChain ==
  ASSUME EvalInv, Life, Chain, EvalWaits \/ EvalStarts \/ EvalRuns
  PROVE  Chain'
<1> DEFINE c == Index(Cur)
           n == Len(frames)
<1>1. /\ mode = "eval" /\ mode' = "eval" /\ AtEnd
      /\ Cur \in Module /\ Cur \in Calls /\ status[Cur] = "evaluating"
      /\ Calls' = Calls \ {Cur} /\ Leaving \subseteq Module
      /\ \A m \in Leaving : status[m] = "evaluating" /\ (m \in Calls => m = Cur)
      /\ \A m \in Module : m \in Leaving =>
           root'[m] = Cur /\ status'[m] = IF async'[m] THEN "evaluating_async" ELSE "evaluated"
      /\ \A m \in Module : m \notin Leaving => root'[m] = root[m] /\ status'[m] = status[m]
      /\ requests' = requests /\ parents' = parents /\ error' = error
      /\ \A x \in Module : x # Cur => async'[x] = async[x]
      /\ frames' = <<>> => goal \in Leaving
  BY CloseEffect DEF Life
<1>2. /\ EvalTypes /\ Walk /\ Begun /\ frames # <<>> /\ frames' = Returned
      /\ c \in DOMAIN stack /\ stack[c] = Cur
      /\ \A k \in DOMAIN stack' : k \in DOMAIN stack /\ stack'[k] = stack[k] /\ stack[k] \notin Leaving
      /\ \A k \in DOMAIN stack : stack[k] \notin Leaving => k \in DOMAIN stack'
      /\ \A k \in DOMAIN stack : stack[k] \in Leaving <=> IsRoot /\ k >= c
      /\ \A m \in Leaving : \E k \in DOMAIN stack : stack[k] = m
  BY CloseStack DEF EvalInv
<1>3. /\ DOMAIN stack \subseteq Nat /\ \A k \in DOMAIN stack : stack[k] \in Module
      /\ n \in Nat /\ DOMAIN frames = 1..n /\ n \in DOMAIN frames /\ Cur = frames[n].mod /\ Top = frames[n]
      /\ \A k, l \in DOMAIN stack : stack[k] = stack[l] => k = l
      /\ \A m \in Module : Len(requests[m]) \in Nat /\ DOMAIN requests[m] = 1..Len(requests[m])
      /\ \A i \in DOMAIN frames : frames[i].mod \in Module /\ frames[i].next \in Nat /\ frames[i].next > 0
  BY <1>2, EvalRanges, Calling
<1> HIDE DEF c, n
<1>4. \A k \in DOMAIN stack : ~Due(k)
  <2>1. frames[n].next > Len(requests[Cur])
    BY <1>1, <1>3 DEF AtEnd
  <2>2. frames[n].next \notin DOMAIN requests[frames[n].mod]
    BY <2>1, <1>1, <1>3
  <2> QED BY <2>2 DEF Due, n
<1>5. ASSUME NEW k \in DOMAIN stack, stack[k] \notin Calls, async[stack[k]]
      PROVE  \E p \in DOMAIN stack :
               /\ p < k /\ stack[p] \in Range(parents[stack[k]])
               /\ \A q \in DOMAIN stack : stack[q] \in Calls => q <= p \/ k < q
  BY <1>1, <1>4, <1>5 DEF Chain, Hanging, Awaiting
<1>6. Hanging'
  <2> SUFFICES ASSUME NEW k \in DOMAIN stack', stack'[k] \notin Calls', async'[stack'[k]]
               PROVE  Due(k)' \/ Awaiting(k)'
    BY DEF Hanging
  <2>1. k \in DOMAIN stack /\ stack'[k] = stack[k] /\ stack[k] \notin Leaving /\ stack[k] \in Module
    BY <1>2, <1>3
  <2>2. CASE stack[k] # Cur
    <3>1. stack[k] \notin Calls /\ async[stack[k]]
      BY <2>1, <2>2, <1>1
    <3>2. PICK p \in DOMAIN stack :
            /\ p < k /\ stack[p] \in Range(parents[stack[k]])
            /\ \A q \in DOMAIN stack : stack[q] \in Calls => q <= p \/ k < q
      BY <2>1, <3>1, <1>5
    <3>3. p \in DOMAIN stack' /\ stack'[p] = stack[p]
      <4>1. ~(IsRoot /\ k >= c)
        BY <2>1, <1>2
      <4>2. ~(IsRoot /\ p >= c)
        BY <4>1, <3>2, <2>1, <1>2, <1>3
      <4> QED BY <4>2, <1>2
    <3>4. \A q \in DOMAIN stack' : stack'[q] \in Calls' => q <= p \/ k < q
      BY <3>2, <1>1, <1>2
    <3> QED BY <3>2, <3>3, <3>4, <2>1, <1>1 DEF Awaiting
  <2>3. CASE stack[k] = Cur
    <3>1. k = c /\ Leaving = {}
      <4>1. k = c
        BY <2>1, <2>3, <1>2, <1>3
      <4>2. ~IsRoot
        BY <4>1, <2>1, <1>2, <1>3
      <4>3. ASSUME NEW m \in Leaving PROVE FALSE
        BY <4>2, <1>2
      <4> QED BY <4>1, <4>3
    <3>2. frames' # <<>>
      BY <3>1, <1>1
    <3>3. /\ Len(frames') = n - 1 /\ DOMAIN frames' = 1..(n - 1)
          /\ \A i \in DOMAIN frames' : frames'[i] = frames[i]
          /\ frames' = <<>> <=> n = 1
      BY <1>2, ReturnShape DEF n
    <3>4. n - 1 \in DOMAIN frames' /\ n - 1 \in DOMAIN frames /\ n - 1 < n /\ n - 1 + 1 = n
      BY <3>2, <3>3, <1>3
    <3>5. frames[n - 1].next <= Len(requests[frames[n - 1].mod]) /\ Asked(n - 1) = Cur
      BY <3>4, <1>2, <1>3 DEF Walk, Nested, n
    <3>6. frames[n - 1].next \in DOMAIN requests[frames[n - 1].mod]
      BY <3>4, <3>5, <1>3
    <3>7. ASSUME NEW q \in DOMAIN stack', stack'[q] = frames[n - 1].mod PROVE q < k
      <4>1. q \in DOMAIN stack /\ stack[q] = frames[n - 1].mod
        BY <3>7, <1>2
      <4> QED BY <4>1, <3>4, <2>1, <2>3, <1>2, <1>3 DEF Walk, Standing
    <3>8. requests[frames[n - 1].mod][frames[n - 1].next] = Cur
      BY <3>5 DEF Asked
    <3>9. PICK i : i = n - 1
      OBVIOUS
    <3>10. /\ i \in DOMAIN frames' /\ i = Len(frames') /\ frames'[i].next \in DOMAIN requests'[frames'[i].mod]
           /\ requests'[frames'[i].mod][frames'[i].next] = stack'[k]
           /\ \A q \in DOMAIN stack' : stack'[q] = frames'[i].mod => q < k
      BY <3>3, <3>4, <3>6, <3>7, <3>8, <3>9, <2>1, <2>3, <1>1
    <3> QED BY <3>10 DEF Due, Asked
  <2> QED BY <2>2, <2>3
<1>7. Chained'
  <2> SUFFICES ASSUME NEW x \in Module, status'[x] = "evaluating_async", root'[x] # x, ~error[root'[x]]
               PROVE  \E t \in Range(parents[x]) : root'[t] = root'[x]
    BY <1>1 DEF Chained
  <2>1. CASE x \in Leaving
    <3>1. root'[x] = Cur /\ x # Cur /\ async[x] /\ x \notin Calls
      BY <2>1, <1>1
    <3>2. PICK k \in DOMAIN stack : stack[k] = x
      BY <2>1, <1>2
    <3>3. IsRoot /\ k >= c
      BY <2>1, <3>2, <1>2
    <3>4. PICK p \in DOMAIN stack :
            /\ p < k /\ stack[p] \in Range(parents[x])
            /\ \A q \in DOMAIN stack : stack[q] \in Calls => q <= p \/ k < q
      BY <3>1, <3>2, <1>5
    <3>5. p >= c
      <4>1. c <= p \/ k < c
        BY <3>4, <1>1, <1>2
      <4> QED BY <4>1, <3>3, <1>2, <1>3
    <3>6. stack[p] \in Leaving
      BY <3>3, <3>5, <1>2
    <3> QED BY <3>1, <3>4, <3>6, <1>1
  <2>2. CASE x \notin Leaving
    <3>1. status[x] = "evaluating_async" /\ root'[x] = root[x]
      BY <2>2, <1>1
    <3>2. root[x] \in Module
      BY <3>1, <1>2 DEF Begun, Started
    <3>3. PICK t \in Range(parents[x]) : root[t] = root[x]
      BY <3>1 DEF Chain, Chained
    <3>4. t \in Module
      BY <1>2, ParentsIn
    <3>5. status[t] # "evaluating"
      BY <3>2, <3>3, <3>4, ModuleAssumption DEF Life, Cycles, Started
    <3> QED BY <3>1, <3>3, <3>4, <3>5, <1>1
  <2> QED BY <2>1, <2>2
<1> QED BY <1>6, <1>7 DEF Chain

LEMMA ChainInit == Init => Chain
BY DEF Init, Chain, Hanging, Chained

LEMMA ChainNext ==
  ASSUME EvalInv, Life, Chain, [Next]_vars
  PROVE  Chain'
<1>0. LifeTypes
  BY DEF Life
<1>2. CASE UNCHANGED vars
  <2>1. /\ requests' = requests /\ status' = status /\ mode' = mode /\ stack' = stack
        /\ frames' = frames /\ root' = root /\ error' = error /\ parents' = parents /\ async' = async
    BY <1>2 DEF vars, program, walk, deps, bodies
  <2>2. Calls' = Calls
    BY <2>1 DEF Calls
  <2>3. Hanging'
    BY <2>1, <2>2 DEF Chain, Hanging, Due, Awaiting, Asked
  <2>4. Chained'
    BY <2>1 DEF Chain, Chained
  <2> QED BY <2>3, <2>4 DEF Chain
<1>3. CASE (\E m \in Module : Import(m)) \/ Link \/ EvaluateAgain
  BY <1>3, LinkEffect, QuietChain DEF Started
<1>4. CASE EvaluateStarted \/ EvaluateReturns
  BY <1>0, <1>4, SettleEffect, QuietChain
<1>5. CASE EvaluateFirst \/ EvalRequest
  BY <1>5, OpenChain
<1>6. CASE EvalReturned
  BY <1>6, ReturnedChain
<1>7. CASE EvalChildFailed \/ EvalThrows
  BY <1>7, AbandonChain
<1>8. CASE EvalWaits \/ EvalStarts \/ EvalRuns
  BY <1>8, CloseChain
<1>9. CASE \E m \in Module : BodyRejected(m) \/ (ExecuteThrows /\ m = First)
  <2>1. PICK m \in Module : BodyRejected(m) \/ (ExecuteThrows /\ m = First)
    BY <1>9
  <2>2. /\ mode' \in {"idle", "execute"} /\ parents' = parents /\ root' = root
        /\ \A n \in Module : IF n \in Doomed(m) THEN error'[n] /\ status'[n] = "evaluated"
                              ELSE error'[n] = error[n] /\ status'[n] = status[n]
    BY <1>0, <2>1, ThrownEffect
  <2> QED BY <2>2, QuietChain
<1>10. CASE \E m \in Module : BodyFulfilled(m) \/ (ExecuteRuns /\ m = First)
  <2>1. PICK m \in Module : BodyFulfilled(m) \/ (ExecuteRuns /\ m = First)
    BY <1>10
  <2>2. /\ mode' \in {"gather", "execute"} /\ parents' = parents /\ root' = root /\ error' = error
        /\ status'[m] = "evaluated" /\ \A x \in Module : x # m => status'[x] = status[x]
    BY <1>0, <2>1, DoneEffect
  <2> QED BY <2>2, QuietChain
<1>11. CASE Gather
  BY <1>0, <1>11, GatherEffect, QuietChain
<1>12. CASE ExecuteSkips \/ ExecuteStarts \/ ExecuteEnds
  BY <1>0, <1>12, ExecuteEffect, QuietChain
<1>13. CASE \E m \in Module : \E b \in {"done", "threw"} : BodyIgnored(m, b)
  BY <1>0, <1>13, IgnoredEffect, QuietChain
<1> QED BY <1>2, <1>3, <1>4, <1>5, <1>6, <1>7, <1>8, <1>9, <1>10, <1>11, <1>12, <1>13, StepKinds

-----------------------------------------------------------------------------
(* Whose turn it is.                                                       *)

\* A body starts after those it waits for; a failure reaches those that wait
\* for it, and the root of its cycle, whose body then never ran to its end.
Turn == \A x \in Module : \A p \in Range(parents[x]) : body[p] # "unstarted" => body[x] = "done"
Told == \A x \in Module : \A p \in Range(parents[x]) : error[x] => error[p]
RootFailed == \A m \in Module : error[m] => error[root[m]] /\ body[root[m]] \in {"unstarted", "threw"}

\* Gather has visited the place of a parent, or is to visit none of them.
Over(x) == body[x] = "done" \/ (x \in todo /\ x \notin tla)
Visited(x, i) ==
  Over(x) /\ (mode = "gather" => \A j \in DOMAIN frames : frames[j].mod = x => i < frames[j].next)
Awaits ==
  [p \in Module |-> {e \in Module \X Nat : /\ e[2] \in DOMAIN parents[e[1]] /\ parents[e[1]][e[2]] = p
                                           /\ ~Visited(e[1], e[2])}]

\* No module counts fewer dependencies than it has left to wait for.
Counted ==
  \A p \in Module : ~error[p] => IsFiniteSet(Awaits[p]) /\ Cardinality(Awaits[p]) <= pending[p]

\* The calls of gather are those of modules that are over, each once.
Gathers ==
  mode = "gather" =>
    \A i \in DOMAIN frames : /\ Over(frames[i].mod)
                             /\ \A j \in DOMAIN frames : frames[j].mod = frames[i].mod => j = i

Fate == Turn /\ Told /\ RootFailed /\ Counted /\ Gathers

LEMMA AwaitsIs ==
  ASSUME NEW p \in Module
  PROVE  /\ Awaits[p] \subseteq Module \X Nat
         /\ \A x \in Module : \A i \in Nat :
              <<x, i>> \in Awaits[p] <=> i \in DOMAIN parents[x] /\ parents[x][i] = p /\ ~Visited(x, i)
         /\ \A e \in Awaits[p] : \E x \in Module : \E i \in Nat : e = <<x, i>>
<1>1. Awaits[p] = {e \in Module \X Nat : /\ e[2] \in DOMAIN parents[e[1]] /\ parents[e[1]][e[2]] = p
                                         /\ ~Visited(e[1], e[2])}
  BY DEF Awaits
<1> QED BY <1>1

LEMMA NextAwaitsIs ==
  ASSUME NEW p \in Module
  PROVE  /\ Awaits'[p] \subseteq Module \X Nat
         /\ \A x \in Module : \A i \in Nat :
              <<x, i>> \in Awaits'[p] <=> i \in DOMAIN parents'[x] /\ parents'[x][i] = p /\ ~Visited(x, i)'
         /\ \A e \in Awaits'[p] : \E x \in Module : \E i \in Nat : e = <<x, i>>
<1>1. Awaits'[p] = {e \in Module \X Nat : /\ e[2] \in DOMAIN parents'[e[1]] /\ parents'[e[1]][e[2]] = p
                                          /\ ~Visited(e[1], e[2])'}
  BY DEF Awaits, Visited, Over
<1> QED BY <1>1 DEF Visited, Over

\* A place in a list of parents.
LEMMA ParentPlaces ==
  ASSUME EvalTypes, NEW x \in Module
  PROVE  /\ DOMAIN parents[x] \subseteq Nat
         /\ \A i \in DOMAIN parents[x] : parents[x][i] \in Module /\ parents[x][i] \in Range(parents[x])
         /\ \A p \in Range(parents[x]) : p \in Module /\ \E i \in DOMAIN parents[x] : parents[x][i] = p
<1>1. parents[x] \in Seq(Module)
  BY DEF EvalTypes
<1>2. DOMAIN parents[x] = 1..Len(parents[x]) /\ Len(parents[x]) \in Nat
      /\ \A i \in 1..Len(parents[x]) : parents[x][i] \in Module
  BY <1>1, LenProperties, ElementOfSeq
<1> QED BY <1>2 DEF Range

\* While nothing more is added to what a module awaits.
LEMMA FewerAwaited ==
  ASSUME EvalTypes, NEW p \in Module, parents' = parents,
         \A x \in Module : p \in Range(parents[x]) =>
           \A i \in DOMAIN parents[x] : parents[x][i] = p /\ Visited(x, i) => Visited(x, i)'
  PROVE  Awaits'[p] \subseteq Awaits[p]
<1>1. ASSUME NEW e \in Awaits'[p] PROVE e \in Awaits[p]
  <2>1. PICK x \in Module, i \in Nat : e = <<x, i>>
    BY <1>1, NextAwaitsIs
  <2>2. i \in DOMAIN parents[x] /\ parents[x][i] = p /\ ~Visited(x, i)'
    BY <1>1, <2>1, NextAwaitsIs
  <2>3. p \in Range(parents[x])
    BY <2>2, ParentPlaces
  <2>4. ~Visited(x, i)
    BY <2>2, <2>3
  <2> QED BY <2>1, <2>2, <2>4, AwaitsIs
<1> QED BY <1>1

LEMMA CountedKept ==
  ASSUME Counted, NEW p \in Module, ~error[p], Awaits'[p] \subseteq Awaits[p], pending'[p] = pending[p],
         pending[p] \in Int
  PROVE  IsFiniteSet(Awaits'[p]) /\ Cardinality(Awaits'[p]) <= pending'[p]
<1> DEFINE S == Awaits[p]
           T == Awaits'[p]
<1>1. IsFiniteSet(S) /\ Cardinality(S) <= pending[p]
  BY DEF Counted
<1>2. T \in SUBSET S
  OBVIOUS
<1> HIDE DEF S, T
<1>3. IsFiniteSet(T) /\ Cardinality(T) <= Cardinality(S)
  BY ONLY <1>1, <1>2, FS_Subset
<1>4. Cardinality(T) \in Nat /\ Cardinality(S) \in Nat
  BY ONLY <1>1, <1>3, FS_CardinalityType
<1>5. Cardinality(T) <= pending[p]
  BY <1>1, <1>3, <1>4
<1> QED BY <1>3, <1>5 DEF T

\* A module that counts no dependency waits for none.
LEMMA NothingAwaited ==
  ASSUME EvalTypes, Counted, mode # "gather", NEW p \in Module, ~error[p], pending[p] = 0
  PROVE  \A x \in Module : p \in Range(parents[x]) => Over(x)
<1> DEFINE S == Awaits[p]
<1>1. IsFiniteSet(S) /\ Cardinality(S) <= 0
  BY DEF Counted
<1> HIDE DEF S
<1>2. Cardinality(S) = 0
  <2>1. Cardinality(S) \in Nat
    BY ONLY <1>1, FS_CardinalityType
  <2> QED BY <1>1, <2>1
<1>3. S = {}
  BY ONLY <1>1, <1>2, FS_EmptySet
<1>4. ASSUME NEW x \in Module, p \in Range(parents[x]) PROVE Over(x)
  <2>1. PICK i \in DOMAIN parents[x] : parents[x][i] = p
    BY <1>4, ParentPlaces
  <2>2. i \in Nat /\ <<x, i>> \notin Awaits[p]
    BY <2>1, <1>3, ParentPlaces DEF S
  <2>3. Visited(x, i)
    BY <2>1, <2>2, AwaitsIs
  <2> QED BY <2>3 DEF Visited
<1> QED BY <1>4

\* The loop over exec_list takes the module with the smallest timestamp.
LEMMA FirstLeast ==
  ASSUME EvalInv, Life, Ties, mode = "execute", todo # {}, NEW x \in Module, First \in Range(parents[x])
  PROVE  x \notin todo
<1> SUFFICES ASSUME x \in todo PROVE FALSE
  OBVIOUS
<1>1. order \in Seq(Module) /\ IsInjective(order) /\ todo \subseteq Range(order) /\ First \in todo
  BY FirstIs DEF EvalInv, EvalTypes, Waiting, Life
<1>2. DOMAIN order \subseteq Nat
  BY <1>1, LenProperties
<1>3. PICK i \in DOMAIN order : order[i] = x
  BY <1>1 DEF Range
<1>4. PICK j \in DOMAIN order : order[j] = First
  BY <1>1 DEF Range
<1>5. i < j
  BY <1>3, <1>4 DEF Ties, Noted
<1>6. ASSUME NEW n \in Module, NEW l \in DOMAIN order, order[l] = n PROVE Stamp(n) = l
  BY <1>1, <1>6 DEF Stamp, IsInjective
<1>7. \A m \in todo : Stamp(m) \in Nat
  <2> TAKE m \in todo
  <2>1. \E k \in DOMAIN order : order[k] = m
    BY <1>1 DEF Range
  <2> QED BY <2>1, <1>2 DEF Stamp
<1> DEFINE I == {Stamp(m) : m \in todo}
<1>8. I \in SUBSET Nat /\ I # {}
  BY <1>7
<1>9. \E y \in I : \A z \in I : y <= z
  BY ONLY <1>8, Smallest
<1>10. \E m \in todo : \A n \in todo : Stamp(m) <= Stamp(n)
  BY <1>9
<1>11. Stamp(First) <= Stamp(x)
  BY <1>10 DEF First
<1>12. Stamp(First) = j /\ Stamp(x) = i
  <2>1. First \in Module
    BY <1>1 DEF EvalInv, EvalTypes
  <2> QED BY <2>1, <1>3, <1>4, <1>6
<1> QED BY <1>2, <1>5, <1>11, <1>12

\* A body starts when all that it waits for is done.
LEMMA TurnCome ==
  ASSUME EvalInv, Life, Ties, Fate, NEW c \in Module,
         \/ mode = "eval" /\ c = Cur /\ c \in Calls /\ status[c] = "evaluating" /\ pending[c] = 0
         \/ mode = "execute" /\ todo # {} /\ c = First /\ status[c] = "evaluating_async"
  PROVE  /\ ~error[c] /\ body[c] = "unstarted"
         /\ \A x \in Module : c \in Range(parents[x]) => body[x] = "done"
<1>1. EvalTypes
  BY DEF EvalInv
<1>2. CASE mode = "eval" /\ c = Cur /\ c \in Calls /\ status[c] = "evaluating" /\ pending[c] = 0
  <2>1. ~error[c] /\ body[c] = "unstarted"
    BY <1>2 DEF Life, Lives, Alive, Started
  <2>2. \A x \in Module : c \in Range(parents[x]) => Over(x)
    BY <1>1, <1>2, <2>1, NothingAwaited DEF Fate
  <2>3. todo = {}
    BY <1>2 DEF Life, Queued
  <2> QED BY <2>1, <2>2, <2>3 DEF Over
<1>3. CASE mode = "execute" /\ todo # {} /\ c = First /\ status[c] = "evaluating_async"
  <2>1. c \in todo
    BY <1>3, FirstIs
  <2>2. ~error[c] /\ body[c] = "unstarted" /\ pending[c] = 0
    BY <2>1, <1>3 DEF Life, Lives, Alive, Queued
  <2>3. \A x \in Module : c \in Range(parents[x]) => Over(x)
    BY <1>1, <1>3, <2>2, NothingAwaited DEF Fate
  <2>4. \A x \in Module : c \in Range(parents[x]) => x \notin todo
    BY <1>3, FirstLeast
  <2> QED BY <2>2, <2>3, <2>4 DEF Over
<1> QED BY <1>2, <1>3

LEMMA TurnKept ==
  ASSUME EvalTypes, Turn, parents' = parents,
         \A x \in Module : body[x] = "done" => body'[x] = "done",
         \A p \in Module : body[p] = "unstarted" /\ body'[p] # "unstarted" =>
           \A x \in Module : p \in Range(parents[x]) => body[x] = "done"
  PROVE  Turn'
<1> SUFFICES ASSUME NEW x \in Module, NEW p \in Range(parents[x]), body'[p] # "unstarted"
             PROVE  body'[x] = "done"
  BY DEF Turn
<1>1. p \in Module
  BY ParentsIn
<1> QED BY <1>1 DEF Turn

\* Outside gather and the loop over exec_list, where nothing fails.
LEMMA QuietFate ==
  ASSUME EvalInv, Life, Fate, parents' = parents, tla' = tla, pending' = pending, todo' = todo,
         mode # "gather", mode' # "gather",
         \A x \in Module : /\ error'[x] = error[x]
                           /\ error[x] => root'[x] = root[x] /\ body'[root[x]] \in {"unstarted", "threw"}
                           /\ body[x] = "done" => body'[x] = "done",
         \A p \in Module : body[p] = "unstarted" /\ body'[p] # "unstarted" =>
           \A x \in Module : p \in Range(parents[x]) => body[x] = "done"
  PROVE  Fate'
<1>1. EvalTypes /\ Begun /\ pending \in [Module -> Int]
  BY DEF EvalInv, EvalTypes
<1>2. Turn'
  BY <1>1, TurnKept DEF Fate
<1>3. Told'
  <2>1. \A x \in Module : \A p \in Range(parents[x]) : p \in Module
    BY <1>1, ParentsIn
  <2> QED BY <2>1 DEF Fate, Told
<1>4. RootFailed'
  <2>1. \A m \in Module : error[m] => root[m] \in Module
    BY <1>1 DEF Begun, Life, Lives, Alive, Started
  <2> QED BY <2>1 DEF Fate, RootFailed
<1>5. Counted'
  <2> SUFFICES ASSUME NEW p \in Module, ~error[p]
               PROVE  IsFiniteSet(Awaits'[p]) /\ Cardinality(Awaits'[p]) <= pending'[p]
    BY DEF Counted
  <2>1. Awaits'[p] \subseteq Awaits[p]
    <3>1. \A x \in Module : \A i \in DOMAIN parents[x] : Visited(x, i) => Visited(x, i)'
      BY DEF Visited, Over
    <3> QED BY <3>1, <1>1, FewerAwaited
  <2>2. pending[p] \in Int
    BY <1>1
  <2> QED BY <2>1, <2>2, CountedKept DEF Fate
<1>6. Gathers'
  BY DEF Gathers
<1> QED BY <1>2, <1>3, <1>4, <1>5, <1>6 DEF Fate

\* Where a failure is known, the body at the root is not the one that runs.
LEMMA FailedRoot ==
  ASSUME EvalInv, Life, Fate, NEW x \in Module, error[x]
  PROVE  /\ status[x] = "evaluated" /\ root[x] \in Module /\ status[root[x]] = "evaluated"
         /\ error[root[x]] /\ body[root[x]] \in {"unstarted", "threw"}
<1>1. status[x] = "evaluated"
  BY DEF Life, Lives, Alive
<1>2. root[x] \in Module
  BY <1>1 DEF EvalInv, Begun, Started
<1>3. error[root[x]] /\ body[root[x]] \in {"unstarted", "threw"}
  BY DEF Fate, RootFailed
<1> QED BY <1>1, <1>2, <1>3 DEF Life, Lives, Alive

LEMMA LinkFate ==
  ASSUME EvalInv, Life, Fate, (\E m \in Module : Import(m)) \/ Link \/ EvaluateAgain
  PROVE  Fate'
<1>1. \A x \in Module : error[x] => body[root[x]] \in {"unstarted", "threw"}
  BY FailedRoot
<1> QED BY <1>1, LinkEffect, QuietFate

LEMMA SettleFate ==
  ASSUME EvalInv, Life, Fate, EvaluateStarted \/ EvaluateReturns
  PROVE  Fate'
<1>1. \A x \in Module : error[x] => body[root[x]] \in {"unstarted", "threw"}
  BY FailedRoot
<1>2. mode \in {"link", "eval"} /\ mode' = "idle"
  BY DEF EvaluateStarted, EvaluateReturns, Linked
<1> QED BY <1>1, <1>2, SettleEffect, QuietFate DEF Life

LEMMA OpenFate ==
  ASSUME EvalInv, Life, Fate, EvaluateFirst \/ EvalRequest
  PROVE  Fate'
<1>1. \A x \in Module : error[x] => body[root[x]] \in {"unstarted", "threw"}
  BY FailedRoot
<1>2. mode \in {"link", "eval"} /\ mode' = "eval"
  BY OpenEffect DEF EvaluateFirst, EvalRequest, Linked
<1> QED BY <1>1, <1>2, OpenEffect, QuietFate

LEMMA IgnoredFate ==
  ASSUME EvalInv, Life, Fate, NEW m \in Module, \E b \in {"done", "threw"} : BodyIgnored(m, b)
  PROVE  Fate'
<1>1. /\ mode = "idle" /\ mode' = "idle" /\ body[m] = "running"
      /\ body'[m] \in {"done", "threw"} /\ \A x \in Module : x # m => body'[x] = body[x]
      /\ tla' = tla /\ pending' = pending /\ parents' = parents /\ root' = root /\ error' = error /\ todo' = todo
  BY IgnoredEffect DEF Life
<1>2. \A x \in Module : error[x] => body'[root[x]] \in {"unstarted", "threw"}
  <2> TAKE x \in Module
  <2> HAVE error[x]
  <2>1. root[x] \in Module /\ body[root[x]] \in {"unstarted", "threw"}
    BY FailedRoot
  <2>2. root[x] # m
    BY <2>1, <1>1
  <2> QED BY <2>1, <2>2, <1>1
<1>3. \A x \in Module : body[x] = "done" => body'[x] = "done"
  BY <1>1
<1>4. \A x \in Module : body[x] = "unstarted" => body'[x] = "unstarted"
  BY <1>1
<1> QED BY <1>1, <1>2, <1>3, <1>4, QuietFate

LEMMA CloseFate ==
  ASSUME EvalInv, Life, Ties, Fate, EvalWaits \/ EvalStarts \/ EvalRuns
  PROVE  Fate'
<1>1. /\ mode = "eval" /\ mode' = "eval"
      /\ Cur \in Module /\ Cur \in Calls /\ status[Cur] = "evaluating"
      /\ \A m \in Leaving : status[m] = "evaluating"
      /\ \A m \in Module : m \notin Leaving => root'[m] = root[m]
      /\ tla' = tla /\ todo' = todo /\ pending' = pending /\ parents' = parents /\ error' = error
      /\ \A x \in Module : x # Cur => body'[x] = body[x]
      /\ body'[Cur] = body[Cur] \/ pending[Cur] = 0
  BY CloseEffect DEF Life
<1>2. body[Cur] = "unstarted"
  BY <1>1 DEF Life, Lives, Alive, Started
<1>3. \A x \in Module : error[x] => root'[x] = root[x] /\ body'[root[x]] \in {"unstarted", "threw"}
  <2> TAKE x \in Module
  <2> HAVE error[x]
  <2>1. /\ status[x] = "evaluated" /\ root[x] \in Module /\ status[root[x]] = "evaluated"
        /\ body[root[x]] \in {"unstarted", "threw"}
    BY FailedRoot
  <2> QED BY <2>1, <1>1
<1>4. \A x \in Module : body[x] = "done" => body'[x] = "done"
  BY <1>1, <1>2
<1>5. \A p \in Module : body[p] = "unstarted" /\ body'[p] # "unstarted" =>
        \A x \in Module : p \in Range(parents[x]) => body[x] = "done"
  <2> TAKE p \in Module
  <2> HAVE body[p] = "unstarted" /\ body'[p] # "unstarted"
  <2>1. p = Cur /\ pending[Cur] = 0
    BY <1>1
  <2> QED BY <2>1, <1>1, TurnCome
<1> QED BY <1>1, <1>3, <1>4, <1>5, QuietFate

LEMMA AbandonFate ==
  ASSUME EvalInv, Life, Ties, Fate, EvalChildFailed \/ EvalThrows
  PROVE  Fate'
<1>1. /\ mode = "eval" /\ mode' = "idle"
      /\ Cur \in Module /\ Cur \in Calls /\ status[Cur] = "evaluating"
      /\ goal \in Module /\ goal \in Calls /\ status[goal] = "evaluating"
      /\ \A m \in Module : IF status[m] = "evaluating"
           THEN status'[m] = "evaluated" /\ error'[m] /\ root'[m] = goal
           ELSE status'[m] = status[m] /\ error'[m] = error[m] /\ root'[m] = root[m]
      /\ tla' = tla /\ todo' = todo /\ pending' = pending /\ parents' = parents
      /\ \A x \in Module : x # Cur => body'[x] = body[x]
      /\ body'[Cur] = body[Cur] \/ (pending[Cur] = 0 /\ body'[Cur] = "threw")
  BY AbandonEffect DEF Life
<1>2. EvalTypes /\ pending \in [Module -> Int]
  BY DEF EvalInv, EvalTypes
<1>3. body[Cur] = "unstarted" /\ body[goal] = "unstarted"
  BY <1>1 DEF Life, Lives, Alive, Started
<1>4. \A x \in Module : error[x] => error'[x]
  BY <1>1
<1>5. \A x \in Module : body[x] = "done" => body'[x] = "done"
  BY <1>1, <1>3
<1>6. Turn'
  <2>1. \A p \in Module : body[p] = "unstarted" /\ body'[p] # "unstarted" =>
          \A x \in Module : p \in Range(parents[x]) => body[x] = "done"
    <3> TAKE p \in Module
    <3> HAVE body[p] = "unstarted" /\ body'[p] # "unstarted"
    <3>1. p = Cur /\ pending[Cur] = 0
      BY <1>1
    <3> QED BY <3>1, <1>1, TurnCome
  <2> QED BY <2>1, <1>1, <1>2, <1>5, TurnKept DEF Fate
<1>7. Told'
  <2> SUFFICES ASSUME NEW x \in Module, NEW p \in Range(parents[x]), error'[x] PROVE error'[p]
    BY <1>1 DEF Told
  <2>1. p \in Module
    BY <1>2, ParentsIn
  <2>2. CASE status[x] = "evaluating"
    <3>1. status[p] = "evaluating"
      BY <2>2 DEF Ties, Paired
    <3> QED BY <3>1, <2>1, <1>1
  <2>3. CASE status[x] # "evaluating"
    BY <2>1, <2>3, <1>1, <1>4 DEF Fate, Told
  <2> QED BY <2>2, <2>3
<1>8. RootFailed'
  <2> SUFFICES ASSUME NEW x \in Module, error'[x]
               PROVE  error'[root'[x]] /\ body'[root'[x]] \in {"unstarted", "threw"}
    BY DEF RootFailed
  <2>1. CASE status[x] = "evaluating"
    <3>1. root'[x] = goal /\ error'[goal]
      BY <2>1, <1>1
    <3>2. body'[goal] \in {"unstarted", "threw"}
      BY <1>1, <1>3
    <3> QED BY <3>1, <3>2
  <2>2. CASE status[x] # "evaluating"
    <3>1. error[x] /\ root'[x] = root[x]
      BY <2>2, <1>1
    <3>2. /\ root[x] \in Module /\ status[root[x]] = "evaluated"
          /\ error[root[x]] /\ body[root[x]] \in {"unstarted", "threw"}
      BY <3>1, FailedRoot
    <3> QED BY <3>1, <3>2, <1>1, <1>4
  <2> QED BY <2>1, <2>2
<1>9. Counted'
  <2> SUFFICES ASSUME NEW p \in Module, ~error'[p]
               PROVE  IsFiniteSet(Awaits'[p]) /\ Cardinality(Awaits'[p]) <= pending'[p]
    BY DEF Counted
  <2>1. Awaits'[p] \subseteq Awaits[p]
    <3>1. \A x \in Module : \A i \in DOMAIN parents[x] : Visited(x, i) => Visited(x, i)'
      BY <1>1, <1>5 DEF Visited, Over
    <3> QED BY <3>1, <1>1, <1>2, FewerAwaited
  <2>2. pending[p] \in Int /\ ~error[p]
    BY <1>2, <1>4
  <2> QED BY <2>1, <2>2, <1>1, CountedKept DEF Fate
<1>10. Gathers'
  BY <1>1 DEF Gathers
<1> QED BY <1>6, <1>7, <1>8, <1>9, <1>10 DEF Fate

LEMMA ReturnedFate ==
  ASSUME EvalInv, Life, Ties, Fate, EvalReturned
  PROVE  Fate'
<1> DEFINE D == Dependency
<1>1. /\ mode = "eval" /\ mode' = "eval"
      /\ Cur \in Module /\ Cur \in Calls /\ status[Cur] = "evaluating"
      /\ Child \in Module /\ status[Child] \in Started \cup {"evaluating"}
      /\ D \in Module /\ ~ChildFailed
      /\ tla' = tla /\ todo' = todo /\ root' = root /\ error' = error /\ body' = body
      /\ \/ /\ async[D] /\ pending' = [pending EXCEPT ![Cur] = @ + 1]
            /\ parents' = [parents EXCEPT ![D] = Append(@, Cur)]
         \/ ~async[D] /\ pending' = pending /\ parents' = parents
  BY ReturnedEffect
<1>2. EvalTypes /\ pending \in [Module -> Int]
  BY <1>1 DEF EvalInv, EvalTypes
<1>3. ~error[D]
  <2>1. CASE status[Child] = "evaluating"
    BY <2>1, <1>1 DEF Dependency, Life, Lives, Alive
  <2>2. CASE status[Child] \in Started
    BY <2>2, <1>1 DEF ChildFailed
  <2> QED BY <2>1, <2>2, <1>1
<1>4. body[Cur] = "unstarted"
  BY <1>1 DEF Life, Lives, Alive, Started
<1> HIDE DEF D
<1>5. RootFailed'
  BY <1>1 DEF Fate, RootFailed
<1>6. Gathers'
  BY <1>1 DEF Gathers
<1>7. CASE pending' = pending /\ parents' = parents
  <2>1. Turn' /\ Told'
    BY <1>1, <1>7 DEF Fate, Turn, Told
  <2>2. Counted'
    <3>1. Awaits' = Awaits
      BY <1>1, <1>7 DEF Awaits, Visited, Over
    <3> QED BY <3>1, <1>1, <1>7 DEF Fate, Counted
  <2> QED BY <2>1, <2>2, <1>5, <1>6 DEF Fate
<1>8. CASE /\ pending' = [pending EXCEPT ![Cur] = @ + 1]
           /\ parents' = [parents EXCEPT ![D] = Append(@, Cur)]
  <2> DEFINE n == Len(parents[D])
  <2>1. /\ \A x \in Module : x # D => parents'[x] = parents[x]
        /\ Range(parents'[D]) = Range(parents[D]) \cup {Cur}
        /\ DOMAIN parents[D] = 1..n /\ n \in Nat
        /\ DOMAIN parents'[D] = 1..(n + 1)
        /\ \A i \in DOMAIN parents[D] : parents'[D][i] = parents[D][i]
        /\ parents'[D][n + 1] = Cur
    BY <1>1, <1>2, <1>8, AppendedParents
  <2> HIDE DEF n
  <2>2. ASSUME NEW x \in Module, NEW p \in Range(parents'[x])
        PROVE  p \in Range(parents[x]) \/ (x = D /\ p = Cur)
    BY <2>1, <2>2
  <2>3. Turn'
    <3> SUFFICES ASSUME NEW x \in Module, NEW p \in Range(parents'[x]), body[p] # "unstarted"
                 PROVE  body[x] = "done"
      BY <1>1 DEF Turn
    <3> QED BY <2>2, <1>4 DEF Fate, Turn
  <2>4. Told'
    <3> SUFFICES ASSUME NEW x \in Module, NEW p \in Range(parents'[x]), error[x] PROVE error[p]
      BY <1>1 DEF Told
    <3> QED BY <2>2, <1>3 DEF Fate, Told
  <2>5. Counted'
    <3> SUFFICES ASSUME NEW p \in Module, ~error[p]
                 PROVE  IsFiniteSet(Awaits'[p]) /\ Cardinality(Awaits'[p]) <= pending'[p]
      BY <1>1 DEF Counted
    <3>1. \A x \in Module : \A i \in Nat : Visited(x, i)' <=> Visited(x, i)
      BY <1>1 DEF Visited, Over
    <3>2. ASSUME NEW e \in Awaits'[p], e \notin Awaits[p] PROVE e = <<D, n + 1>> /\ p = Cur
      <4>1. PICK x \in Module, i \in Nat : e = <<x, i>>
        BY <3>2, NextAwaitsIs
      <4>2. i \in DOMAIN parents'[x] /\ parents'[x][i] = p /\ ~Visited(x, i)
        BY <3>1, <3>2, <4>1, NextAwaitsIs
      <4>3. ~(i \in DOMAIN parents[x] /\ parents[x][i] = p)
        BY <3>2, <4>1, <4>2, AwaitsIs
      <4>4. x = D
        BY <4>2, <4>3, <2>1
      <4>5. i = n + 1
        BY <4>2, <4>3, <4>4, <2>1
      <4> QED BY <4>1, <4>2, <4>4, <4>5, <2>1
    <3>3. IsFiniteSet(Awaits[p]) /\ Cardinality(Awaits[p]) <= pending[p] /\ pending[p] \in Int
      BY <1>2 DEF Fate, Counted
    <3>4. CASE p # Cur
      <4>1. Awaits'[p] \subseteq Awaits[p] /\ pending'[p] = pending[p]
        BY <3>2, <3>4, <1>2, <1>8
      <4> QED BY <4>1, <3>3, CountedKept DEF Fate
    <3>5. CASE p = Cur
      <4> DEFINE S == Awaits[p]
                 U == S \cup {<<D, n + 1>>}
                 T == Awaits'[p]
      <4>1. T \in SUBSET U
        BY <3>2
      <4>2. IsFiniteSet(S) /\ Cardinality(S) <= pending[p]
        BY <3>3
      <4>3. PICK w : w = <<D, n + 1>>
        OBVIOUS
      <4>4. U = S \cup {w}
        BY <4>3
      <4> HIDE DEF S, T, U
      <4>5. IsFiniteSet(U) /\ Cardinality(U) = IF w \in S THEN Cardinality(S) ELSE Cardinality(S) + 1
        BY ONLY <4>2, <4>4, FS_AddElement
      <4>6. IsFiniteSet(T) /\ Cardinality(T) <= Cardinality(U)
        BY ONLY <4>1, <4>5, FS_Subset
      <4>7. Cardinality(T) \in Nat /\ Cardinality(S) \in Nat /\ Cardinality(U) \in Nat
        BY ONLY <4>2, <4>5, <4>6, FS_CardinalityType
      <4>8. pending'[p] = pending[p] + 1
        BY <3>5, <1>1, <1>2, <1>8
      <4>9. Cardinality(T) <= pending'[p]
        BY <4>2, <4>5, <4>6, <4>7, <4>8, <3>3
      <4> QED BY <4>6, <4>9 DEF T
    <3> QED BY <3>4, <3>5
  <2> QED BY <2>3, <2>4, <2>5, <1>5, <1>6 DEF Fate
<1> QED BY <1>1, <1>7, <1>8

LEMMA LastOf ==
  ASSUME EvalInv, Life, NEW T, T \subseteq Stamped, T # {}
  PROVE  \E x \in T : \E i \in DOMAIN order : /\ order[i] = x
                                              /\ \A j \in DOMAIN order : order[j] \in T => j <= i
<1>1. order \in Seq(Module) /\ Len(order) \in Nat /\ DOMAIN order = 1..Len(order)
  BY LenProperties DEF EvalInv, EvalTypes
<1> DEFINE n == Len(order)
           I == {k \in Nat : n - k \in DOMAIN order /\ order[n - k] \in T}
<1>2. I \in SUBSET Nat
  OBVIOUS
<1>3. I # {}
  <2>1. PICK y \in T : TRUE
    OBVIOUS
  <2>2. PICK j \in DOMAIN order : order[j] = y
    BY <2>1 DEF Stamped, Range
  <2>3. n - j \in Nat /\ n - (n - j) = j
    BY <1>1
  <2>4. n - j \in I
    BY <2>2, <2>3
  <2> QED BY <2>4
<1>4. PICK k \in I : \A l \in I : k <= l
  <2> HIDE DEF I
  <2> QED BY ONLY <1>2, <1>3, Smallest
<1>5. ASSUME NEW j \in DOMAIN order, order[j] \in T PROVE j <= n - k
  <2>1. n - j \in Nat /\ n - (n - j) = j
    BY <1>1
  <2>2. n - j \in I
    BY <2>1, <1>5
  <2>3. k <= n - j /\ k \in Nat
    BY <2>2, <1>4
  <2> QED BY <2>1, <2>3, <1>1
<1> QED BY <1>5

\* A failure reaches the root of a cycle from every module of it.
LEMMA RootDoomed ==
  ASSUME EvalInv, Life, Ties, Chain, Fate, NEW m \in Module,
         mode \in {"idle", "execute"}, status[m] = "evaluating_async",
         NEW n \in Doomed(m), root[n] \notin Doomed(m)
  PROVE  error[root[n]]
<1> SUFFICES ASSUME ~error[root[n]] PROVE FALSE
  OBVIOUS
<1> DEFINE D == Doomed(m)
           T == {x \in D : root[x] = root[n]}
<1>0. \A k \in DOMAIN order : k \in Nat
  <2>1. order \in Seq(Module)
    BY DEF EvalInv, EvalTypes
  <2>2. DOMAIN order = 1..Len(order) /\ Len(order) \in Nat
    BY ONLY <2>1, LenProperties
  <2> QED BY <2>2
<1>1. /\ D \subseteq Module /\ EvalTypes
      /\ \A x \in D : status[x] = "evaluating_async"
      /\ \A x \in D : \A p \in Range(parents[x]) : status[p] # "evaluated" => p \in D
  BY DoomedIs DEF Started, EvalInv
<1> HIDE DEF D
<1>2. \A x \in D : x \in Stamped /\ body[x] # "done" /\ x \in Module
  BY <1>1 DEF Life, Lives, Alive
<1>3. T \subseteq Stamped /\ T # {}
  BY <1>2 DEF D
<1> HIDE DEF T
<1>4. PICK x \in T, i \in DOMAIN order :
        order[i] = x /\ \A j \in DOMAIN order : order[j] \in T => j <= i
  BY <1>3, LastOf
<1>5. x \in D /\ root[x] = root[n] /\ x \in Module
  BY <1>2 DEF T
<1>6. root[x] # x
  BY <1>5 DEF D
<1>7. PICK t \in Range(parents[x]) : root[t] = root[x]
  BY <1>1, <1>5, <1>6 DEF Chain, Chained
<1>8. t \in Module /\ status[t] \in Started
  BY <1>1, <1>5, <1>7, ParentsIn, QuietStarted
<1>9. CASE status[t] = "evaluated"
  <2>1. error[t] \/ body[t] = "done"
    BY <1>8, <1>9 DEF Life, Lives, Alive
  <2>2. ~error[t]
    BY <1>5, <1>7, <1>8 DEF Fate, RootFailed
  <2>3. body[x] = "done"
    BY <2>1, <2>2, <1>5, <1>7 DEF Fate, Turn
  <2> QED BY <2>3, <1>2, <1>5
<1>10. CASE status[t] # "evaluated"
  <2>1. t \in D /\ t \in T
    BY <1>1, <1>5, <1>7, <1>10 DEF T
  <2>2. t \in Stamped
    BY <2>1, <1>2
  <2>3. PICK j \in DOMAIN order : order[j] = t
    BY <2>2 DEF Stamped, Range
  <2>4. j <= i
    BY <2>1, <2>3, <1>4
  <2>5. i < j
    BY <2>3, <1>4, <1>5, <1>7 DEF Ties, Noted
  <2>6. j \in Nat /\ i \in Nat
    BY <1>0, <1>4, <2>3
  <2> QED BY <2>4, <2>5, <2>6
<1> QED BY <1>9, <1>10

LEMMA ThrownFate ==
  ASSUME EvalInv, Life, Ties, Chain, Fate, NEW m \in Module, BodyRejected(m) \/ (ExecuteThrows /\ m = First)
  PROVE  Fate'
<1> DEFINE D == Doomed(m)
<1>1. /\ mode \in {"idle", "execute"} /\ mode' = mode /\ status[m] = "evaluating_async"
      /\ m \in D /\ D \subseteq Module
      /\ \A x \in D : status[x] = "evaluating_async"
      /\ \A x \in D : \A p \in Range(parents[x]) : status[p] # "evaluated" => p \in D
      /\ \A n \in D : n = m \/ \E x \in D : n \in Range(parents[x])
      /\ \A n \in Module : IF n \in D THEN error'[n] ELSE error'[n] = error[n]
      /\ body'[m] = "threw" /\ \A x \in Module : x # m => body'[x] = body[x]
      /\ \/ mode = "idle" /\ body[m] = "running" /\ todo' = todo
         \/ mode = "execute" /\ m \in todo /\ m = First /\ todo' = todo \ {m}
      /\ tla' = tla /\ frames' = frames
      /\ pending' = pending /\ parents' = parents /\ root' = root
  BY ThrownEffect DEF Life
<1>2. EvalTypes /\ Begun /\ pending \in [Module -> Int]
  BY DEF EvalInv, EvalTypes
<1>3. ASSUME NEW n \in D, root[n] \notin D PROVE error[root[n]]
  BY <1>1, <1>3, RootDoomed
<1> HIDE DEF D
<1>4. \A x \in D : body[x] # "done"
  BY <1>1 DEF Life, Lives, Alive
<1>5. \A x \in Module : error[x] => error'[x]
  BY <1>1
<1>6. \A x \in D : \A p \in Range(parents[x]) : error'[p]
  <2> TAKE x \in D
  <2> TAKE p \in Range(parents[x])
  <2>1. p \in Module
    BY <1>1, <1>2, ParentsIn
  <2>2. status[p] = "evaluated" => error[p] \/ body[p] = "done"
    BY <2>1 DEF Life, Lives, Alive
  <2>3. body[p] # "done"
    BY <1>1, <1>4 DEF Fate, Turn
  <2> QED BY <2>1, <2>2, <2>3, <1>1, <1>5
<1>7. Turn'
  <2>1. \A p \in Module : body[p] = "unstarted" /\ body'[p] # "unstarted" =>
          \A x \in Module : p \in Range(parents[x]) => body[x] = "done"
    <3> TAKE p \in Module
    <3> HAVE body[p] = "unstarted" /\ body'[p] # "unstarted"
    <3>1. p = m /\ mode = "execute" /\ m \in todo /\ m = First
      BY <1>1
    <3> QED BY <3>1, <1>1, TurnCome
  <2>2. \A x \in Module : body[x] = "done" => body'[x] = "done"
    BY <1>1, <1>4
  <2> QED BY <2>1, <2>2, <1>1, <1>2, TurnKept DEF Fate
<1>8. Told'
  <2> SUFFICES ASSUME NEW x \in Module, NEW p \in Range(parents[x]), error'[x] PROVE error'[p]
    BY <1>1 DEF Told
  <2>1. p \in Module
    BY <1>2, ParentsIn
  <2>2. CASE x \in D
    BY <2>2, <1>6
  <2>3. CASE x \notin D
    BY <2>1, <2>3, <1>1, <1>5 DEF Fate, Told
  <2> QED BY <2>2, <2>3
<1>9. RootFailed'
  <2> SUFFICES ASSUME NEW x \in Module, error'[x]
               PROVE  error'[root[x]] /\ body'[root[x]] \in {"unstarted", "threw"}
    BY <1>1 DEF RootFailed
  <2>1. CASE x \in D /\ root[x] \in D
    <3>1. CASE root[x] = m
      BY <3>1, <1>1
    <3>2. CASE root[x] # m
      <4>1. PICK y \in D : root[x] \in Range(parents[y])
        BY <3>2, <2>1, <1>1
      <4>2. body[root[x]] = "unstarted"
        BY <4>1, <1>1, <1>4 DEF Fate, Turn
      <4> QED BY <4>2, <3>2, <2>1, <1>1
    <3> QED BY <3>1, <3>2
  <2>2. CASE x \in D /\ root[x] \notin D
    <3>1. error[root[x]]
      BY <2>2, <1>3
    <3>2. root[x] \in Module /\ status[x] \in Started
      BY <2>2, <1>1, <1>2 DEF Begun, Started
    <3>3. root[root[x]] = root[x]
      BY <3>2 DEF Life, Cycles
    <3>4. body[root[x]] \in {"unstarted", "threw"}
      BY <3>1, <3>2, <3>3, FailedRoot
    <3>5. root[x] # m
      BY <2>2, <1>1
    <3> QED BY <3>1, <3>2, <3>4, <3>5, <1>1, <1>5
  <2>3. CASE x \notin D
    <3>1. error[x]
      BY <2>3, <1>1
    <3>2. root[x] \in Module /\ error[root[x]] /\ body[root[x]] \in {"unstarted", "threw"}
      BY <3>1, FailedRoot
    <3> QED BY <3>2, <1>1, <1>5
  <2> QED BY <2>1, <2>2, <2>3
<1>10. Counted'
  <2> SUFFICES ASSUME NEW p \in Module, ~error'[p]
               PROVE  IsFiniteSet(Awaits'[p]) /\ Cardinality(Awaits'[p]) <= pending'[p]
    BY DEF Counted
  <2>1. ASSUME NEW x \in Module, p \in Range(parents[x]), NEW i \in DOMAIN parents[x], Visited(x, i)
        PROVE  Visited(x, i)'
    <3>1. x \notin D
      BY <2>1, <1>6
    <3>2. x # m
      BY <3>1, <1>1
    <3> QED BY <2>1, <3>2, <1>1 DEF Visited, Over
  <2>2. Awaits'[p] \subseteq Awaits[p]
    BY <2>1, <1>1, <1>2, FewerAwaited
  <2>3. pending[p] \in Int /\ ~error[p]
    BY <1>2, <1>5
  <2> QED BY <2>2, <2>3, <1>1, CountedKept DEF Fate
<1>11. Gathers'
  BY <1>1 DEF Gathers
<1> QED BY <1>7, <1>8, <1>9, <1>10, <1>11 DEF Fate

LEMMA DoneFate ==
  ASSUME EvalInv, Life, Ties, Fate, NEW m \in Module, BodyFulfilled(m) \/ (ExecuteRuns /\ m = First)
  PROVE  Fate'
<1>1. /\ status[m] = "evaluating_async" /\ body'[m] = "done"
      /\ \A x \in Module : x # m => body'[x] = body[x]
      /\ \/ /\ mode = "idle" /\ mode' = "gather" /\ body[m] = "running" /\ todo' = todo
            /\ frames' = <<Frame(m)>>
         \/ /\ mode = "execute" /\ mode' = "execute" /\ m \in todo /\ m \notin tla /\ m = First
            /\ todo' = todo \ {m}
      /\ tla' = tla /\ pending' = pending /\ parents' = parents /\ root' = root /\ error' = error
  BY DoneEffect DEF Life
<1>2. EvalTypes /\ pending \in [Module -> Int]
  BY DEF EvalInv, EvalTypes
<1>3. Turn'
  <2>1. \A p \in Module : body[p] = "unstarted" /\ body'[p] # "unstarted" =>
          \A x \in Module : p \in Range(parents[x]) => body[x] = "done"
    <3> TAKE p \in Module
    <3> HAVE body[p] = "unstarted" /\ body'[p] # "unstarted"
    <3>1. p = m /\ mode = "execute" /\ m \in todo /\ m = First
      BY <1>1
    <3> QED BY <3>1, <1>1, TurnCome
  <2>2. \A x \in Module : body[x] = "done" => body'[x] = "done"
    BY <1>1
  <2> QED BY <2>1, <2>2, <1>1, <1>2, TurnKept DEF Fate
<1>4. Told'
  BY <1>1 DEF Fate, Told
<1>5. RootFailed'
  <2> SUFFICES ASSUME NEW x \in Module, error[x]
               PROVE  error[root[x]] /\ body'[root[x]] \in {"unstarted", "threw"}
    BY <1>1 DEF RootFailed
  <2>1. /\ root[x] \in Module /\ status[root[x]] = "evaluated"
        /\ error[root[x]] /\ body[root[x]] \in {"unstarted", "threw"}
    BY FailedRoot
  <2> QED BY <2>1, <1>1
<1>6. mode' = "gather" => \A j \in DOMAIN frames' : frames'[j].mod = m /\ j = 1
  <2>1. ASSUME mode' = "gather" PROVE \A j \in DOMAIN frames' : frames'[j].mod = m /\ j = 1
    <3>1. frames' = <<Frame(m)>>
      BY <2>1, <1>1
    <3> QED BY <3>1 DEF Frame
  <2> QED BY <2>1
<1>7. Counted'
  <2> SUFFICES ASSUME NEW p \in Module, ~error[p]
               PROVE  IsFiniteSet(Awaits'[p]) /\ Cardinality(Awaits'[p]) <= pending'[p]
    BY <1>1 DEF Counted
  <2>1. ASSUME NEW x \in Module, p \in Range(parents[x]), NEW i \in DOMAIN parents[x], Visited(x, i)
        PROVE  Visited(x, i)'
    <3>1. CASE x # m
      BY <3>1, <2>1, <1>1, <1>6 DEF Visited, Over
    <3>2. CASE x = m /\ mode = "execute"
      BY <3>2, <1>1 DEF Visited, Over
    <3>3. CASE x = m /\ mode = "idle"
      <4>1. todo = {} /\ body[m] = "running"
        BY <3>3, <1>1 DEF Life, Queued
      <4> QED BY <4>1, <3>3, <2>1 DEF Visited, Over
    <3> QED BY <3>1, <3>2, <3>3, <1>1
  <2>2. Awaits'[p] \subseteq Awaits[p]
    BY <2>1, <1>1, <1>2, FewerAwaited
  <2>3. pending[p] \in Int
    BY <1>2
  <2> QED BY <2>2, <2>3, <1>1, CountedKept DEF Fate
<1>8. Gathers'
  <2> SUFFICES ASSUME mode' = "gather", NEW i \in DOMAIN frames'
               PROVE  /\ Over(m)' /\ frames'[i].mod = m
                      /\ \A j \in DOMAIN frames' : frames'[j].mod = frames'[i].mod => j = i
    BY DEF Gathers, Over
  <2> QED BY <1>1, <1>6 DEF Over
<1> QED BY <1>3, <1>4, <1>5, <1>7, <1>8 DEF Fate

LEMMA ExecuteFate ==
  ASSUME EvalInv, Life, Ties, Fate, ExecuteSkips \/ ExecuteStarts \/ ExecuteEnds
  PROVE  Fate'
<1>1. /\ mode = "execute" /\ mode' \in {"execute", "idle"} /\ tla' = tla /\ frames' = frames
      /\ pending' = pending /\ parents' = parents /\ root' = root /\ error' = error
      /\ \/ mode' = "idle" /\ todo' = todo /\ body' = body
         \/ /\ mode' = "execute" /\ First \in todo /\ First \in Module /\ todo' = todo \ {First}
            /\ \/ status[First] = "evaluated" /\ body' = body
               \/ /\ status[First] = "evaluating_async" /\ First \in tla /\ body'[First] = "running"
                  /\ \A x \in Module : x # First => body'[x] = body[x]
  BY ExecuteEffect DEF Life
<1>2. EvalTypes /\ pending \in [Module -> Int]
  BY DEF EvalInv, EvalTypes
<1>3. First \in todo => body[First] = "unstarted"
  BY DEF Life, Queued
<1>4. \A x \in Module : body[x] = "done" => body'[x] = "done"
  BY <1>1, <1>3
<1>5. Turn'
  <2>1. \A p \in Module : body[p] = "unstarted" /\ body'[p] # "unstarted" =>
          \A x \in Module : p \in Range(parents[x]) => body[x] = "done"
    <3> TAKE p \in Module
    <3> HAVE body[p] = "unstarted" /\ body'[p] # "unstarted"
    <3>1. p = First /\ First \in todo /\ status[First] = "evaluating_async"
      BY <1>1
    <3> QED BY <3>1, <1>1, TurnCome
  <2> QED BY <2>1, <1>1, <1>2, <1>4, TurnKept DEF Fate
<1>6. Told'
  BY <1>1 DEF Fate, Told
<1>7. RootFailed'
  <2> SUFFICES ASSUME NEW x \in Module, error[x]
               PROVE  error[root[x]] /\ body'[root[x]] \in {"unstarted", "threw"}
    BY <1>1 DEF RootFailed
  <2>1. /\ root[x] \in Module /\ status[root[x]] = "evaluated"
        /\ error[root[x]] /\ body[root[x]] \in {"unstarted", "threw"}
    BY FailedRoot
  <2> QED BY <2>1, <1>1
<1>8. Counted'
  <2> SUFFICES ASSUME NEW p \in Module, ~error[p]
               PROVE  IsFiniteSet(Awaits'[p]) /\ Cardinality(Awaits'[p]) <= pending'[p]
    BY <1>1 DEF Counted
  <2>1. ASSUME NEW x \in Module, p \in Range(parents[x]), NEW i \in DOMAIN parents[x], Visited(x, i)
        PROVE  Visited(x, i)'
    <3>1. CASE x = First /\ First \in todo
      <4>1. Over(First) /\ body[First] = "unstarted"
        BY <3>1, <2>1, <1>3 DEF Visited
      <4>2. CASE status[First] = "evaluated"
        <5>1. error[First]
          BY <4>1, <4>2, <3>1 DEF Life, Lives, Alive
        <5> QED BY <5>1, <3>1, <2>1 DEF Fate, Told
      <4>3. CASE status[First] # "evaluated"
        BY <4>1, <4>3, <3>1, <2>1, <1>1 DEF Over, Visited
      <4> QED BY <4>2, <4>3
    <3>2. CASE ~(x = First /\ First \in todo)
      BY <3>2, <2>1, <1>1, <1>4 DEF Visited, Over
    <3> QED BY <3>1, <3>2
  <2>2. Awaits'[p] \subseteq Awaits[p]
    BY <2>1, <1>1, <1>2, FewerAwaited
  <2>3. pending[p] \in Int
    BY <1>2
  <2> QED BY <2>2, <2>3, <1>1, CountedKept DEF Fate
<1>9. Gathers'
  BY <1>1 DEF Gathers
<1> QED BY <1>5, <1>6, <1>7, <1>8, <1>9 DEF Fate

\* The module that gather counts still waits, for the one that is over.
LEMMA ParentWaits ==
  ASSUME EvalInv, Life, Fate, AtParent, ~Skipped(Parent)
  PROVE  /\ Parent \in Module /\ Cur \in Module /\ Top.next \in Nat
         /\ Parent \in Range(parents[Cur]) /\ <<Cur, Top.next>> \in Awaits[Parent]
         /\ status[Parent] = "evaluating_async" /\ ~error[Parent] /\ async[Parent]
         /\ pending[Parent] > 0 /\ body[Parent] = "unstarted" /\ ~Over(Parent)
<1>1. /\ EvalTypes /\ mode = "gather" /\ frames # <<>> /\ Top.next <= Len(parents[Cur])
      /\ Cur \in Module /\ Parent \in Module /\ status[Parent] \in Started
      /\ pending \in [Module -> Int]
  BY ParentIs DEF EvalInv, EvalTypes, AtParent
<1>2. Top.next \in Nat /\ Top.next > 0 /\ Len(frames) \in DOMAIN frames /\ Top = frames[Len(frames)]
      /\ Cur = frames[Len(frames)].mod
  BY <1>1, Calling
<1>3. Top.next \in DOMAIN parents[Cur] /\ Parent = parents[Cur][Top.next]
  <2>1. parents[Cur] \in Seq(Module)
    BY <1>1 DEF EvalTypes
  <2>2. DOMAIN parents[Cur] = 1..Len(parents[Cur])
    BY <2>1, LenProperties
  <2> QED BY <2>2, <1>1, <1>2 DEF Parent
<1>4. Parent \in Range(parents[Cur])
  BY <1>3 DEF Range
<1>5. ~error[Parent] /\ Parent \notin todo
  BY <1>1 DEF Skipped, Fate, RootFailed
<1>6. ~Visited(Cur, Top.next)
  BY <1>1, <1>2 DEF Visited
<1>7. <<Cur, Top.next>> \in Awaits[Parent]
  BY <1>1, <1>2, <1>3, <1>6, AwaitsIs
<1> DEFINE S == Awaits[Parent]
<1>8. IsFiniteSet(S) /\ Cardinality(S) <= pending[Parent] /\ <<Cur, Top.next>> \in S
  BY <1>1, <1>5, <1>7 DEF Fate, Counted
<1> HIDE DEF S
<1>9. Cardinality(S) \in Nat /\ Cardinality(S) # 0
  BY ONLY <1>8, FS_CardinalityType, FS_EmptySet
<1>10. pending[Parent] > 0
  <2>1. pending[Parent] \in Int
    BY <1>1
  <2> QED BY <2>1, <1>8, <1>9
<1>11. body[Parent] = "unstarted"
  BY <1>1, <1>10 DEF Life, Lives, Alive
<1>12. status[Parent] = "evaluating_async" /\ async[Parent]
  BY <1>1, <1>5, <1>11 DEF Life, Lives, Alive, Started
<1>13. ~Over(Parent)
  BY <1>5, <1>11 DEF Over
<1> QED BY <1>1, <1>2, <1>4, <1>5, <1>7, <1>10, <1>11, <1>12, <1>13

\* Gather only waits where it stands: nothing but the parent it counts
\* loses a dependency.
LEMMA GatherCounted ==
  ASSUME EvalInv, Life, Fate, AtParent, ~Skipped(Parent), parents' = parents,
         pending'[Parent] = pending[Parent] - 1,
         \A x \in Module : x # Parent => pending'[x] = pending[x],
         NEW p \in Module, ~error[p], Awaits'[p] \subseteq Awaits[p],
         <<Cur, Top.next>> \notin Awaits'[p]
  PROVE  IsFiniteSet(Awaits'[p]) /\ Cardinality(Awaits'[p]) <= pending'[p]
<1>1. pending[p] \in Int
  BY DEF EvalInv, EvalTypes
<1>2. CASE p # Parent
  BY <1>1, <1>2, CountedKept DEF Fate
<1>3. CASE p = Parent
  <2> DEFINE e == <<Cur, Top.next>>
             S == Awaits[p]
             R == S \ {e}
             T == Awaits'[p]
  <2>1. IsFiniteSet(S) /\ Cardinality(S) <= pending[p] /\ e \in S
    BY <1>3, ParentWaits DEF Fate, Counted
  <2>2. T \in SUBSET R
    OBVIOUS
  <2>3. R = S \ {e}
    OBVIOUS
  <2> HIDE DEF e, R, S, T
  <2>4. IsFiniteSet(R) /\ Cardinality(R) = Cardinality(S) - 1
    BY ONLY <2>1, <2>3, FS_RemoveElement
  <2>5. IsFiniteSet(T) /\ Cardinality(T) <= Cardinality(R)
    BY ONLY <2>2, <2>4, FS_Subset
  <2>6. Cardinality(S) \in Nat /\ Cardinality(T) \in Nat
    BY ONLY <2>1, <2>5, FS_CardinalityType
  <2>7. pending'[p] = pending[p] - 1
    BY <1>3
  <2>8. Cardinality(T) <= pending'[p]
    BY <2>1, <2>4, <2>5, <2>6, <2>7, <1>1
  <2> QED BY <2>5, <2>8 DEF T
<1> QED BY <1>2, <1>3

LEMMA GatherFate ==
  ASSUME EvalInv, Life, Fate, Gather
  PROVE  Fate'
<1>1. /\ mode = "gather" /\ frames # <<>> /\ mode' \in {"gather", "execute"}
      /\ tla' = tla /\ parents' = parents
      /\ root' = root /\ error' = error /\ body' = body
      /\ \/ /\ AtParent /\ Skipped(Parent) /\ mode' = "gather"
            /\ frames' = Advanced /\ pending' = pending /\ todo' = todo
         \/ /\ AtParent /\ ~Skipped(Parent) /\ mode' = "gather"
            /\ pending'[Parent] = pending[Parent] - 1
            /\ \A x \in Module : x # Parent => pending'[x] = pending[x]
            /\ todo' = IF pending[Parent] = 1 THEN todo \cup {Parent} ELSE todo
            /\ frames' = IF pending[Parent] = 1 /\ Parent \notin tla
                         THEN Append(Advanced, Frame(Parent)) ELSE Advanced
         \/ /\ frames' = Returned /\ pending' = pending /\ todo' = todo
  BY GatherEffect DEF Life
<1>2. EvalTypes /\ pending \in [Module -> Int] /\ Len(frames) \in Nat
      /\ DOMAIN frames = 1..Len(frames)
      /\ \A i \in DOMAIN frames : frames[i].next \in Nat /\ frames[i].mod \in Module
  BY EvalRanges DEF EvalInv, EvalTypes
<1>3. Len(frames) \in DOMAIN frames /\ Top = frames[Len(frames)] /\ Cur = frames[Len(frames)].mod
  BY <1>1, <1>2, Calling
<1>4. Turn' /\ Told' /\ RootFailed'
  BY <1>1 DEF Fate, Turn, Told, RootFailed
<1>5. /\ \A i \in DOMAIN frames : Over(frames[i].mod)
      /\ \A i, j \in DOMAIN frames : frames[j].mod = frames[i].mod => j = i
  BY <1>1 DEF Fate, Gathers
<1>6. PICK c \in Module, t \in Nat : c = Cur /\ t = Top.next
  BY <1>2, <1>3
<1> DEFINE n == Len(frames)
<1>7. ASSUME mode' = "gather",
             \A x \in Module : Over(x) => Over(x)',
             \A j \in DOMAIN frames' : Over(frames'[j].mod) =>
               j \in DOMAIN frames /\ frames'[j].mod = frames[j].mod /\ frames[j].next <= frames'[j].next
               /\ frames'[j].next \in Nat /\ (j = n => frames'[j].next = t + 1)
      PROVE  Counted'
  <2>1. \A x \in Module : \A k \in Nat : Visited(x, k) => Visited(x, k)'
    <3> TAKE x \in Module
    <3> TAKE k \in Nat
    <3> HAVE Visited(x, k)
    <3>1. Over(x) /\ \A j \in DOMAIN frames : frames[j].mod = x => k < frames[j].next
      BY <1>1 DEF Visited
    <3>2. \A j \in DOMAIN frames' : frames'[j].mod = x => k < frames'[j].next
      BY <3>1, <1>7, <1>2
    <3>3. Over(x)'
      BY <3>1, <1>7
    <3> QED BY <3>2, <3>3 DEF Visited
  <2>2. \A p \in Module : Awaits'[p] \subseteq Awaits[p]
    <3> TAKE p \in Module
    <3>1. \A x \in Module : DOMAIN parents[x] \subseteq Nat
      BY <1>2, ParentPlaces
    <3> QED BY <2>1, <3>1, <1>1, <1>2, FewerAwaited
  <2>3. Visited(c, t)'
    <3>1. Over(c) /\ c = frames[n].mod
      BY <1>3, <1>5, <1>6
    <3>2. \A j \in DOMAIN frames' : frames'[j].mod = c => t < frames'[j].next
      BY <3>1, <1>3, <1>5, <1>7
    <3>3. Over(c)'
      BY <3>1, <1>7
    <3> QED BY <3>2, <3>3 DEF Visited
  <2>4. \A p \in Module : <<c, t>> \notin Awaits'[p]
    BY <2>3, NextAwaitsIs
  <2> SUFFICES ASSUME NEW p \in Module, ~error'[p]
               PROVE  IsFiniteSet(Awaits'[p]) /\ Cardinality(Awaits'[p]) <= pending'[p]
    BY DEF Counted
  <2>5. CASE pending' = pending
    BY <2>5, <2>2, <1>1, <1>2, CountedKept DEF Fate
  <2>6. CASE /\ AtParent /\ ~Skipped(Parent) /\ pending'[Parent] = pending[Parent] - 1
             /\ \A x \in Module : x # Parent => pending'[x] = pending[x]
    BY <2>6, <2>2, <2>4, <1>1, <1>6, GatherCounted
  <2>7. pending' = pending \/ (AtParent /\ ~Skipped(Parent) /\ pending'[Parent] = pending[Parent] - 1
             /\ \A x \in Module : x # Parent => pending'[x] = pending[x])
    BY <1>1 DEF GatherReturns
  <2> QED BY <2>5, <2>6, <2>7
<1> DEFINE Adv == Advanced
<1>8. /\ Adv \in Seq(Call) /\ Len(Adv) = n /\ DOMAIN Adv = DOMAIN frames
      /\ \A k \in DOMAIN frames : Adv[k].mod = frames[k].mod
      /\ \A k \in DOMAIN frames : k # n => Adv[k] = frames[k]
      /\ Adv[n].next = t + 1
  BY <1>1, <1>2, <1>6, AdvancedIs
<1> HIDE DEF Adv
<1>9. \A k \in DOMAIN frames : frames[k].next <= Adv[k].next /\ Adv[k].next \in Nat
  BY <1>2, <1>3, <1>6, <1>8
<1>10. ASSUME frames' = Adv, mode' = "gather", todo' = todo \/ (~Over(Parent) /\ todo' = todo \cup {Parent})
       PROVE  Fate'
  <2>1. \A x \in Module : Over(x) => Over(x)'
    BY <1>1, <1>10 DEF Over
  <2>2. Counted'
    BY <2>1, <1>7, <1>8, <1>9, <1>10
  <2>3. Gathers'
    <3> SUFFICES ASSUME NEW i \in DOMAIN frames'
                 PROVE  /\ \/ body'[frames'[i].mod] = "done"
                           \/ frames'[i].mod \in todo' /\ frames'[i].mod \notin tla'
                        /\ \A j \in DOMAIN frames' : frames'[j].mod = frames'[i].mod => j = i
      BY DEF Gathers, Over
    <3>1. frames'[i].mod = frames[i].mod /\ i \in DOMAIN frames /\ frames[i].mod \in Module
      BY <1>2, <1>8, <1>10
    <3> QED BY <3>1, <2>1, <1>5, <1>8, <1>10 DEF Over
  <2> QED BY <1>4, <2>2, <2>3 DEF Fate
<1>11. ASSUME NEW p \in Module, ~Over(p), p \notin tla, todo' = todo \cup {p}, mode' = "gather",
              frames' = Append(Adv, Frame(p))
       PROVE  Fate'
  <2>1. \A x \in Module : Over(x) => Over(x)'
    BY <1>1, <1>11 DEF Over
  <2> DEFINE F == Frame(p)
  <2>2. F \in Call /\ F.mod = p
    BY DEF Frame, Call
  <2> HIDE DEF F
  <2>3. /\ DOMAIN Append(Adv, F) = 1..(Len(Adv) + 1) /\ Append(Adv, F)[Len(Adv) + 1] = F
        /\ \A k \in DOMAIN Adv : Append(Adv, F)[k] = Adv[k]
    BY ONLY <1>8, <2>2, Pushed
  <2>4. /\ DOMAIN frames' = 1..(n + 1) /\ frames'[n + 1].mod = p
        /\ \A k \in DOMAIN frames : frames'[k] = Adv[k]
    BY <2>2, <2>3, <1>8, <1>11 DEF F
  <2>5. \A k \in DOMAIN frames' : k = n + 1 \/ (k \in DOMAIN frames /\ k # n + 1)
    BY <2>4, <1>2
  <2>6. Counted'
    BY <2>1, <2>4, <2>5, <1>7, <1>8, <1>9, <1>11
  <2>7. p \in todo' /\ p \notin tla'
    BY <1>1, <1>11
  <2>8. \A k \in DOMAIN frames : frames'[k].mod = frames[k].mod /\ frames[k].mod # p /\ frames[k].mod \in Module
    BY <2>4, <1>2, <1>5, <1>8, <1>11
  <2>9. Gathers'
    <3> SUFFICES ASSUME NEW i \in DOMAIN frames'
                 PROVE  /\ \/ body'[frames'[i].mod] = "done"
                           \/ frames'[i].mod \in todo' /\ frames'[i].mod \notin tla'
                        /\ \A j \in DOMAIN frames' : frames'[j].mod = frames'[i].mod => j = i
      BY DEF Gathers, Over
    <3>1. CASE i = n + 1
      BY <3>1, <2>4, <2>5, <2>7, <2>8 DEF Over
    <3>2. CASE i \in DOMAIN frames
      BY <3>2, <2>1, <2>4, <2>5, <2>8, <1>5 DEF Over
    <3> QED BY <3>1, <3>2, <2>5
  <2> QED BY <1>4, <2>6, <2>9 DEF Fate
<1>12. ASSUME AtParent, ~Skipped(Parent), mode' = "gather",
              todo' = IF pending[Parent] = 1 THEN todo \cup {Parent} ELSE todo,
              frames' = IF pending[Parent] = 1 /\ Parent \notin tla
                        THEN Append(Advanced, Frame(Parent)) ELSE Advanced
       PROVE  Fate'
  <2>1. Parent \in Module /\ ~Over(Parent)
    BY <1>12, ParentWaits
  <2>2. CASE frames' = Advanced
    BY <2>1, <2>2, <1>10, <1>12 DEF Adv
  <2>3. CASE frames' # Advanced
    BY <2>1, <2>3, <1>11, <1>12 DEF Adv
  <2> QED BY <2>2, <2>3
<1>13. CASE frames' = Returned /\ pending' = pending /\ todo' = todo
  <2>1. \A i \in DOMAIN frames' : frames'[i] = frames[i] /\ i \in DOMAIN frames
    BY <1>1, <1>2, <1>13, ReturnShape
  <2>2. \A x \in Module : \A i \in Nat : Visited(x, i) => Visited(x, i)'
    BY <2>1, <1>1, <1>13 DEF Visited, Over
  <2>3. ASSUME NEW p \in Module, ~error'[p] PROVE IsFiniteSet(Awaits'[p]) /\ Cardinality(Awaits'[p]) <= pending'[p]
    <3>1. \A x \in Module : DOMAIN parents[x] \subseteq Nat
      BY <1>2, ParentPlaces
    <3>2. Awaits'[p] \subseteq Awaits[p]
      BY <2>2, <3>1, <1>1, <1>2, FewerAwaited
    <3> QED BY <3>2, <2>3, <1>1, <1>2, <1>13, CountedKept DEF Fate
  <2>4. Gathers'
    BY <2>1, <1>5, <1>13, <1>1 DEF Gathers, Over
  <2> QED BY <1>4, <2>3, <2>4 DEF Fate, Counted
<1>14. CASE frames' = Advanced /\ todo' = todo /\ mode' = "gather"
  BY <1>10, <1>14 DEF Adv
<1> QED BY <1>1, <1>12, <1>13, <1>14

LEMMA FateInit == Init => Fate
<1> SUFFICES ASSUME Init PROVE Fate
  OBVIOUS
<1>0. mode = "idle" /\ \A m \in Module : parents[m] = <<>> /\ ~error[m] /\ pending[m] = 0
  BY DEF Init
<1>1. \A m \in Module : DOMAIN parents[m] = {} /\ Range(parents[m]) = {}
  <2> TAKE m \in Module
  <2>1. DOMAIN <<>> = {}
    OBVIOUS
  <2>2. parents[m] = <<>>
    BY <1>0
  <2> QED BY ONLY <2>1, <2>2, Empty, Zenon
<1>2. Turn /\ Told /\ RootFailed /\ Gathers
  BY <1>0, <1>1 DEF Turn, Told, RootFailed, Gathers
<1>3. ASSUME NEW p \in Module PROVE IsFiniteSet(Awaits[p]) /\ Cardinality(Awaits[p]) <= pending[p]
  <2> DEFINE S == Awaits[p]
  <2>1. S = {}
    BY <1>1, AwaitsIs
  <2> HIDE DEF S
  <2>2. IsFiniteSet(S) /\ Cardinality(S) = 0
    BY ONLY <2>1, FS_EmptySet
  <2> QED BY <2>2, <1>0 DEF S
<1> QED BY <1>2, <1>3 DEF Fate, Counted

LEMMA FateNext ==
  ASSUME EvalInv, Life, Ties, Chain, Fate, [Next]_vars
  PROVE  Fate'
<1>0. LifeTypes
  BY DEF Life
<1>2. CASE UNCHANGED vars
  <2>1. /\ tla' = tla /\ mode' = mode /\ frames' = frames /\ root' = root /\ error' = error
        /\ parents' = parents /\ pending' = pending /\ body' = body /\ todo' = todo
    BY <1>2 DEF vars, program, walk, deps, bodies
  <2>2. Turn' /\ Told' /\ RootFailed' /\ Gathers'
    BY <2>1 DEF Fate, Turn, Told, RootFailed, Gathers, Over
  <2>3. Awaits' = Awaits
    BY <2>1 DEF Awaits, Visited, Over
  <2> QED BY <2>1, <2>2, <2>3 DEF Fate, Counted
<1>3. CASE (\E m \in Module : Import(m)) \/ Link \/ EvaluateAgain
  BY <1>3, LinkFate
<1>4. CASE EvaluateStarted \/ EvaluateReturns
  BY <1>4, SettleFate
<1>5. CASE EvaluateFirst \/ EvalRequest
  BY <1>5, OpenFate
<1>6. CASE EvalReturned
  BY <1>6, ReturnedFate
<1>7. CASE EvalChildFailed \/ EvalThrows
  BY <1>7, AbandonFate
<1>8. CASE EvalWaits \/ EvalStarts \/ EvalRuns
  BY <1>8, CloseFate
<1>9. CASE \E m \in Module : BodyRejected(m) \/ (ExecuteThrows /\ m = First)
  BY <1>9, ThrownFate
<1>10. CASE \E m \in Module : BodyFulfilled(m) \/ (ExecuteRuns /\ m = First)
  BY <1>10, DoneFate
<1>11. CASE Gather
  BY <1>11, GatherFate
<1>12. CASE ExecuteSkips \/ ExecuteStarts \/ ExecuteEnds
  BY <1>12, ExecuteFate
<1>13. CASE \E m \in Module : \E b \in {"done", "threw"} : BodyIgnored(m, b)
  BY <1>13, IgnoredFate
<1> QED BY <1>2, <1>3, <1>4, <1>5, <1>6, <1>7, <1>8, <1>9, <1>10, <1>11, <1>12, <1>13, StepKinds

-----------------------------------------------------------------------------
(* The ranges of the variables. *)

\* A sequence without repetitions is no longer than there are modules.
LEMMA ShortOrders ==
  ASSUME NEW s \in Seq(Module), IsInjective(s)
  PROVE  Len(s) <= Cardinality(Module) /\ s \in Orders(Module)
<1>1. Len(s) \in Nat /\ s \in [1..Len(s) -> Module]
  BY LenProperties
<1> DEFINE n == Len(s)
           D == 1..n
<1>2. \A i, j \in D : s[i] = s[j] => i = j
  BY <1>1 DEF IsInjective
<1>3. s \in Injection(D, Module)
  BY <1>1, <1>2 DEF Injection
<1>4. IsFiniteSet(Module)
  BY ModuleAssumption
<1> HIDE DEF D
<1>5. Cardinality(D) <= Cardinality(Module)
  BY ONLY <1>3, <1>4, FS_Injection
<1>6. Cardinality(D) = n
  <2>1. Cardinality(1..n) = IF 1 > n THEN 0 ELSE n - 1 + 1
    BY ONLY <1>1, FS_Interval
  <2> QED BY <2>1, <1>1 DEF D
<1>7. Cardinality(Module) \in Nat
  BY ONLY <1>4, FS_CardinalityType
<1>8. n <= Cardinality(Module)
  BY <1>5, <1>6
<1>9. n \in 0..Cardinality(Module)
  BY <1>1, <1>7, <1>8
<1> QED BY <1>1, <1>8, <1>9 DEF Orders

\* No counter of waiting dependencies is taken below zero, and no
\* dfs_ancestor_index is above the modules there are.
Bounded ==
  \A m \in Module : pending[m] >= 0 /\ anc[m] <= Cardinality(Module)

LEMMA BoundedInit == Init => Bounded
<1>1. Cardinality(Module) \in Nat
  BY ModuleAssumption, FS_CardinalityType
<1> QED BY <1>1 DEF Init, Bounded

LEMMA BoundedNext ==
  ASSUME EvalInv, Life, Fate, Bounded, [Next]_vars
  PROVE  Bounded'
<1>1. Cardinality(Module) \in Nat
  BY ModuleAssumption, FS_CardinalityType
<1>2. EvalTypes /\ EvalTypes'
  BY EvalNextInv DEF EvalInv
<1>3. anc \in [Module -> Nat] /\ \A m \in Module : anc[m] <= Cardinality(Module)
  BY <1>2 DEF EvalTypes, Bounded
<1>4. ASSUME NEW m, NEW s, Open(m, s) PROVE \A x \in Module : anc'[x] <= Cardinality(Module)
  <2> DEFINE n == Len(stack) + 1
  <2>1. n <= Cardinality(Module)
    <3>1. stack' = Append(stack, m) /\ stack' \in Seq(Module) /\ IsInjective(stack')
      BY <1>2, <1>4 DEF Open, EvalTypes
    <3> DEFINE z == stack'
    <3>2. z \in Seq(Module) /\ IsInjective(z)
      BY <3>1
    <3>3. stack \in Seq(Module)
      BY <1>2 DEF EvalTypes
    <3>4. Len(Append(stack, m)) = Len(stack) + 1
      BY <3>3, AppendProperties
    <3>5. Len(z) = n
      BY <3>1, <3>4
    <3> HIDE DEF z, n
    <3>6. Len(z) <= Cardinality(Module)
      BY ONLY <3>2, ShortOrders
    <3> QED BY <3>5, <3>6
  <2>2. anc' = [anc EXCEPT ![m] = n]
    BY <1>4 DEF Open
  <2> HIDE DEF n
  <2> QED BY <2>1, <2>2, <1>3
<1>5. ASSUME AtRequest, anc' = [anc EXCEPT ![Cur] = Lower(@, anc[Child])]
      PROVE  \A x \in Module : anc'[x] <= Cardinality(Module)
  <2>1. Cur \in Module /\ Child \in Module
    BY <1>2, <1>5, Asking, Calling
  <2>2. PICK v \in {anc[Cur], anc[Child]} : anc' = [anc EXCEPT ![Cur] = v]
    BY <1>5 DEF Lower
  <2>3. v <= Cardinality(Module)
    BY <2>1, <1>3
  <2> QED BY <2>2, <2>3, <1>3
<1>6. \A x \in Module : anc'[x] <= Cardinality(Module)
  <2>1. CASE anc' = anc
    BY <2>1, <1>3
  <2>2. CASE anc' = [m \in Module |-> IF m \in Component THEN 0 ELSE anc[m]]
    BY <2>2, <1>1, <1>3
  <2>3. CASE anc' = [m \in Module |-> 0]
    BY <2>3, <1>1
  <2>4. CASE \E m \in Module \cup {Target, Child} : \E s \in Status : Open(m, s)
    BY <2>4, <1>4
  <2>5. \/ anc' = anc \/ anc' = [m \in Module |-> 0]
        \/ anc' = [m \in Module |-> IF m \in Component THEN 0 ELSE anc[m]]
        \/ AtRequest /\ anc' = [anc EXCEPT ![Cur] = Lower(@, anc[Child])]
        \/ \E m \in Module \cup {Target, Child} : \E s \in Status : Open(m, s)
    BY StepValues
  <2> QED BY <2>1, <2>2, <2>3, <2>4, <2>5, <1>5
<1>7. \A x \in Module : pending'[x] >= 0
  <2>0. pending \in [Module -> Int] /\ \A x \in Module : pending[x] >= 0
    BY <1>2 DEF EvalTypes, Bounded
  <2>1. CASE EvalReturned /\ pending' = [pending EXCEPT ![Cur] = @ + 1]
    BY <2>0, <2>1, ReturnedEffect
  <2>2. CASE AtParent /\ ~Skipped(Parent) /\ pending' = [pending EXCEPT ![Parent] = @ - 1]
    BY <2>0, <2>2, ParentWaits
  <2> QED BY <2>0, <2>1, <2>2, StepValues
<1> QED BY <1>6, <1>7 DEF Bounded

-----------------------------------------------------------------------------
(* All of it holds. *)

Whole == EvalInv /\ Life /\ Reaching /\ Ties /\ Chain /\ Fate /\ Bounded

\* What an evaluation, its walk, its waiting and its failures keep.
THEOREM WholeInvariant == Spec => []Whole
<1>1. Init => Whole
  BY EvalInitInv, LifeInit, ReachingInit, TiesInit, ChainInit, FateInit, BoundedInit DEF Whole
<1>2. Whole /\ [Next]_vars => Whole'
  <2> SUFFICES ASSUME Whole, [Next]_vars PROVE Whole'
    OBVIOUS
  <2>1. EvalInv /\ Life /\ Reaching /\ Ties /\ Chain /\ Fate /\ Bounded
    BY DEF Whole
  <2>2. EvalInv' /\ Life'
    BY <2>1, EvalNextInv, LifeNext
  <2>3. Reaching' /\ Ties'
    BY <2>1, ReachingNext, TiesNext
  <2>4. Chain' /\ Fate' /\ Bounded'
    BY <2>1, ChainNext, FateNext, BoundedNext
  <2> QED BY <2>2, <2>3, <2>4 DEF Whole
<1> QED BY <1>1, <1>2, PTL DEF Spec

\* A cycle whose root ran to its end has run as a whole, and with it all that
\* was needed: a module of it that has not would be waited for by another.
Ran == {e \in Module : status[e] \in Started /\ body[root[e]] = "done"}

LEMMA RanFailures ==
  ASSUME Whole, NEW e \in Ran
  PROVE  /\ e \in Module /\ status[e] \in Started /\ root[e] \in Module
         /\ ~error[e] /\ ~error[root[e]] /\ root[root[e]] = root[e]
<1>1. e \in Module /\ status[e] \in Started /\ body[root[e]] = "done"
  BY DEF Ran
<1>2. root[e] \in Module /\ root[root[e]] = root[e]
  BY <1>1 DEF Whole, EvalInv, Begun, Life, Cycles
<1> QED BY <1>1, <1>2 DEF Whole, Fate, RootFailed

LEMMA RanDone ==
  ASSUME Whole
  PROVE  \A e \in Ran : body[e] = "done"
<1> DEFINE U == {e \in Ran : body[e] # "done"}
<1> SUFFICES ASSUME U # {} PROVE FALSE
  OBVIOUS
<1>0. EvalInv /\ Life /\ EvalTypes
  BY DEF Whole, EvalInv
<1>1. ASSUME NEW e \in U
      PROVE  e \in Ran /\ e \in Module /\ status[e] = "evaluating_async" /\ e \in Stamped /\ body[e] # "done"
  <2>1. e \in Module /\ status[e] \in Started /\ ~error[e]
    BY RanFailures
  <2> QED BY <2>1 DEF Whole, Life, Lives, Alive, Started
<1>2. U \subseteq Stamped
  BY <1>1
<1> HIDE DEF U
<1>3. PICK x \in U, i \in DOMAIN order :
        order[i] = x /\ \A j \in DOMAIN order : order[j] \in U => j <= i
  BY <1>0, <1>2, LastOf
<1>4. /\ x \in Ran /\ x \in Module /\ status[x] = "evaluating_async" /\ body[x] # "done"
      /\ body[root[x]] = "done"
  BY <1>1 DEF Ran
<1>5. PICK t \in Range(parents[x]) : root[t] = root[x]
  <2>1. root[x] # x /\ ~error[root[x]]
    BY <1>4, RanFailures
  <2> QED BY <2>1, <1>4 DEF Whole, Chain, Chained
<1>6. t \in Module
  BY <1>0, <1>4, ParentsIn
<1>7. status[t] \in Started
  <2>1. status[t] \in Started \cup {"evaluating"}
    BY <1>4 DEF Whole, EvalInv, Begun
  <2>2. root[x] \in Module
    BY <1>4, RanFailures
  <2> QED BY <2>1, <2>2, <1>5, <1>6, ModuleAssumption DEF Whole, Life, Cycles, Started
<1>8. body[t] # "done"
  BY <1>4 DEF Whole, Fate, Turn
<1>9. t \in U
  BY <1>4, <1>5, <1>6, <1>7, <1>8 DEF U, Ran
<1>10. PICK j \in DOMAIN order : order[j] = t
  BY <1>1, <1>9 DEF Stamped, Range
<1>11. j <= i /\ i < j
  BY <1>3, <1>4, <1>9, <1>10 DEF Whole, Ties, Noted
<1>12. i \in Nat /\ j \in Nat
  <2>1. order \in Seq(Module)
    BY <1>0 DEF EvalTypes
  <2>2. DOMAIN order = 1..Len(order) /\ Len(order) \in Nat
    BY ONLY <2>1, LenProperties
  <2> QED BY <2>2
<1> QED BY <1>11, <1>12

LEMMA RanWhole ==
  ASSUME Whole, NEW d \in Ran, NEW e \in Reach(d)
  PROVE  body[e] = "done"
<1>1. ASSUME NEW x \in Ran, NEW y \in Range(requests[x]) PROVE y \in Ran
  <2>1. /\ x \in Module /\ status[x] \in Started /\ ~error[x] /\ body[x] = "done" /\ body[root[x]] = "done"
    BY RanFailures, RanDone DEF Ran
  <2>2. PICK r \in DOMAIN requests[x] : requests[x][r] = y
    BY DEF Range
  <2>3. y \in Module
    BY <2>1, <2>2, EvalRanges DEF Whole, EvalInv
  <2>4. Settled(x, requests[x][r])
    BY <2>1, <2>2 DEF Whole, Ties, Answered, Asks
  <2>5. CASE status[y] \in Started /\ root[x] = root[y]
    BY <2>5, <2>1, <2>3 DEF Ran
  <2>6. CASE status[y] \in Started /\ (body[root[y]] = "done" \/ x \in Range(parents[root[y]]))
    <3>1. root[y] \in Module
      BY <2>3, <2>6 DEF Whole, EvalInv, Begun
    <3>2. body[root[y]] = "done"
      BY <3>1, <2>1, <2>6 DEF Whole, Fate, Turn
    <3> QED BY <3>2, <2>3, <2>6 DEF Ran
  <2>7. status[x] # "evaluating"
    BY <2>1 DEF Started
  <2> QED BY <2>2, <2>4, <2>5, <2>6, <2>7 DEF Settled
<1>2. Ran \in SUBSET Module /\ d \in Ran
  BY DEF Ran
<1>3. e \in Ran
  BY <1>1, <1>2 DEF Reach
<1> QED BY <1>3, RanDone

\* js_inner_module_evaluation, js_async_module_execution_fulfilled: every
\* body runs once, after all that its module imports and needs.
THEOREM RunsAtItsTurn == Spec => []RunsInOrder
<1>1. Whole => RunsInOrder
  <2> SUFFICES ASSUME Whole PROVE RunsInOrder
    OBVIOUS
  <2>1. RunsOnce
    BY DEF RunsOnce, Whole, Life, Lives, Alive
  <2>2. ASSUME NEW m \in Module, ran[m] > 0, NEW d \in Range(requests[m]), m \notin Reach(d), NEW e \in Reach(d)
        PROVE  body[e] = "done"
    <3>1. EvalTypes
      BY DEF Whole, EvalInv
    <3>2. PICK r \in DOMAIN requests[m] : requests[m][r] = d
      BY DEF Range
    <3>3. d \in Module /\ m \notin Reached[d]
      <4>1. d \in Module
        BY <3>1, <3>2, EvalRanges
      <4>2. Reached[d] = Reach(d)
        BY <3>1, <4>1, ReachedIs
      <4> QED BY <4>1, <4>2, <2>2
    <3>4. body[m] # "unstarted"
      BY <2>2 DEF Whole, Life, Lives, Alive
    <3>5. status[m] \in Started \/ (status[m] = "evaluating" /\ m \notin Calls)
      BY <3>4 DEF Whole, Life, Lives, Alive
    <3>6. Asks(m, r)
      BY <3>4, <3>5 DEF Asks, Walked, Calls
    <3>7. Settled(m, requests[m][r])
      BY <3>6 DEF Whole, Ties, Answered
    <3>8. status[d] \in Started /\ (body[root[d]] = "done" \/ m \in Range(parents[root[d]]))
      BY <3>7, <3>2, <3>3 DEF Settled
    <3>9. root[d] \in Module
      BY <3>3, <3>8 DEF Whole, EvalInv, Begun
    <3>10. body[root[d]] = "done"
      BY <3>4, <3>8, <3>9 DEF Whole, Fate, Turn
    <3>11. d \in Ran
      BY <3>3, <3>8, <3>10 DEF Ran
    <3> QED BY <3>11, <2>2, RanWhole
  <2>3. DependenciesFirst
    BY <2>2 DEF DependenciesFirst
  <2> QED BY <2>1, <2>3 DEF RunsInOrder
<1> QED BY <1>1, WholeInvariant, PTL

LEMMA WholeTypes ==
  ASSUME Whole
  PROVE  TypeOK
<1>1. EvalInv /\ EvalTypes /\ Life /\ LifeTypes /\ Bounded
  BY DEF Whole, EvalInv, Life
<1>2. stack \in Orders(Module) /\ order \in Orders(Module)
  BY <1>1, ShortOrders DEF EvalTypes, Life
<1>3. anc \in [Module -> 0..Cardinality(Module)]
  <2>1. Cardinality(Module) \in Nat
    BY ModuleAssumption, FS_CardinalityType
  <2> QED BY <2>1, <1>1 DEF EvalTypes, Bounded
<1>4. pending \in [Module -> Nat]
  BY <1>1 DEF EvalTypes, Bounded
<1>5. frames \in Seq([mod : Module, next : Nat])
  <2> DEFINE C == [mod : Module, next : Nat]
  <2>1. Call \subseteq C
    BY DEF Call
  <2>2. frames \in Seq(Call)
    BY <1>1 DEF EvalTypes
  <2> HIDE DEF C
  <2>3. Len(frames) \in Nat /\ frames \in [1..Len(frames) -> Call]
    BY ONLY <2>2, LenProperties
  <2>4. frames \in [1..Len(frames) -> C]
    BY <2>1, <2>3
  <2>5. frames \in Seq(C)
    BY ONLY <2>3, <2>4
  <2> QED BY <2>5 DEF C
<1> QED BY <1>1, <1>2, <1>3, <1>4, <1>5 DEF TypeOK, EvalTypes, LifeTypes, Promises

\* js_evaluate_module, js_set_module_evaluated and the two handlers: the
\* promise of an import() tells what became of all it needs, the root of a
\* cycle what became of the cycle, and no counter leaves its range.
THEOREM ToldTruthfully == Spec => []OutcomesTruthful
<1>1. Whole => OutcomesTruthful
  <2> SUFFICES ASSUME Whole PROVE OutcomesTruthful
    OBVIOUS
  <2>1. ASSUME NEW m \in Module, promise[m] = "fulfilled", NEW d \in Reach(m) PROVE body[d] = "done"
    <3>1. body[m] = "done" /\ status[m] \in Started /\ root[m] = m
      BY <2>1 DEF Whole, Life, Promised
    <3>2. m \in Ran
      BY <3>1 DEF Ran
    <3> QED BY <3>2, <2>1, RanWhole
  <2>2. ASSUME NEW m \in Module, promise[m] = "rejected" PROVE \E d \in Reach(m) : body[d] = "threw"
    <3>1. error[m]
      BY <2>2 DEF Whole, Life, Promised
    <3>2. Reached[m] = Reach(m)
      BY ReachedIs DEF Whole, EvalInv
    <3> QED BY <3>1, <3>2 DEF Whole, Reaching, Blamed
  <2>3. PromiseTruthful
    BY <2>1, <2>2 DEF PromiseTruthful
  <2>4. FailureReachesRoot
    <3> SUFFICES ASSUME NEW m \in Module, error[m] PROVE root[m] # None /\ error[root[m]]
      BY DEF FailureReachesRoot
    <3>1. root[m] \in Module /\ error[root[m]]
      BY FailedRoot DEF Whole
    <3> QED BY <3>1, ModuleAssumption
  <2> QED BY <2>3, <2>4, WholeTypes DEF OutcomesTruthful
<1> QED BY <1>1, WholeInvariant, PTL

\* js_inner_module_linking, js_link_module, js_inner_module_evaluation,
\* js_evaluate_module, js_set_module_evaluated, gather_available_ancestors and
\* the two handlers: what they assert is so, and no assertion ends the program.
THEOREM NothingAsserted == Spec => []AssertsHold
<1>1. Whole => AssertsHold
  <2> SUFFICES ASSUME Whole PROVE AssertsHold
    OBVIOUS
  <2>0. /\ EvalInv /\ EvalTypes /\ Unfinished /\ Begun /\ Life /\ LifeTypes /\ Lives /\ Fate
        /\ mode \in {"link", "eval"} => Walk
        /\ mode # "link" => Closed
    BY DEF Whole, EvalInv, Life
  <2>1. mode = "link" /\ AtRequest => status[Child] # "evaluating"
    BY <2>0, Asking DEF Unfinished
  <2>2. mode \in {"link", "eval"} /\ AtEnd => anc[Cur] <= Index(Cur)
    <3> SUFFICES ASSUME mode \in {"link", "eval"}, AtEnd PROVE anc[Cur] <= Index(Cur)
      OBVIOUS
    <3>1. Len(frames) \in DOMAIN frames /\ Cur = frames[Len(frames)].mod
      BY <2>0, Calling DEF AtEnd
    <3>2. PICK k \in DOMAIN stack : stack[k] = Cur
      BY <3>1, <2>0 DEF Walk, Standing
    <3>3. Index(Cur) = k /\ anc[Cur] \in 1..k
      BY <3>2, <2>0, Places DEF Walk, Lowered
    <3>4. k \in Nat
      BY <2>0, EvalRanges
    <3> QED BY <3>3, <3>4
  <2>3. Linked => stack = <<>> /\ status[Target] \in Started \cup {"linked"}
    <3> SUFFICES ASSUME Linked PROVE stack = <<>> /\ status[Target] \in Started \cup {"linked"}
      OBVIOUS
    <3>1. mode = "link" /\ frames = <<>>
      BY DEF Linked
    <3>2. stack = <<>> /\ \A m \in Module : status[m] \notin {"linking", "evaluating"}
      BY <3>1, <2>0, WalkOver
    <3>3. goal \in Module /\ status[goal] # "unlinked" /\ status[goal] \in Status
      BY <3>1, <2>0 DEF EvalTypes, Unfinished
    <3> QED BY <3>2, <3>3, <2>0 DEF Target, Begun, Status
  <2>4. mode = "eval" /\ AtRequest =>
          /\ status[Child] \in Started \cup {"linked", "evaluating"}
          /\ status[Child] \in Started => status[Dependency] \in Started
    <3> SUFFICES ASSUME mode = "eval", AtRequest
                 PROVE  /\ status[Child] \in Started \cup {"linked", "evaluating"}
                        /\ status[Child] \in Started => status[Dependency] \in Started
      OBVIOUS
    <3>1. /\ frames # <<>> /\ Top.next \in DOMAIN requests[Cur] /\ Child = requests[Cur][Top.next]
          /\ Child \in Module /\ Cur \in Module
      BY <2>0, Asking, Calling
    <3>2. status[Cur] = "evaluating"
      <4>1. Cur \in Range(stack)
        BY <3>1, <2>0, Calling DEF Walk, Standing, Range
      <4> QED BY <4>1, <3>1, <2>0 DEF Unfinished
    <3>3. status[Child] \notin {"unlinked", "linking"} /\ status[Child] \in Status
      BY <3>1, <3>2, <2>0 DEF Closed, Unfinished, EvalTypes
    <3> QED BY <3>1, <3>3, <2>0 DEF Dependency, Begun, Status, Started
  <2>5. mode = "eval" /\ AtEnd => ~async[Cur]
    <3> SUFFICES ASSUME mode = "eval", AtEnd PROVE ~async[Cur]
      OBVIOUS
    <3>1. Len(frames) \in DOMAIN frames /\ Cur = frames[Len(frames)].mod /\ Cur \in Module
      BY <2>0, Calling DEF AtEnd
    <3>2. Cur \in Calls /\ Cur \in Range(stack)
      BY <3>1, <2>0, CallsStand DEF Calls, Walk
    <3>3. status[Cur] = "evaluating"
      BY <3>1, <3>2, <2>0 DEF Unfinished
    <3> QED BY <3>1, <3>2, <3>3, <2>0 DEF Lives, Alive, Started
  <2>6. mode = "eval" /\ frames = <<>> =>
          /\ stack = <<>> /\ ~error[goal]
          /\ status[goal] = IF async[goal] THEN "evaluating_async" ELSE "evaluated"
    BY <2>0, WalkOver DEF Life, Ended
  <2>7. AtParent /\ ~Skipped(Parent) =>
          /\ status[Parent] = "evaluating_async" /\ ~error[Parent]
          /\ async[Parent] /\ pending[Parent] > 0
    BY <2>0, ParentWaits
  <2>8. \A m \in todo : status[m] = "evaluated" => error[m]
    BY <2>0 DEF EvalTypes, Life, Queued, Lives, Alive
  <2>9. ASSUME NEW m \in Module, mode = "idle", body[m] = "running"
        PROVE  IF status[m] = "evaluated" THEN error[m]
               ELSE status[m] = "evaluating_async" /\ ~error[m] /\ async[m]
    <3>1. status[m] \in Started
      BY <2>9, <2>0 DEF Begun, Unfinished
    <3> QED BY <3>1, <2>9, <2>0 DEF Lives, Alive, Started
  <2>10. \A m \in Module : promise[m] # "none" /\ status[m] \in Started => root[m] = m
    BY <2>0 DEF Life, Promised, Started
  <2> QED BY <2>1, <2>2, <2>3, <2>4, <2>5, <2>6, <2>7, <2>8, <2>9, <2>10 DEF AssertsHold
<1> QED BY <1>1, WholeInvariant, PTL
=============================================================================
