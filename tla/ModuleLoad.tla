----------------------------- MODULE ModuleLoad -----------------------------
(***************************************************************************)
(* Loading a module and all it requests (quickjs.c).  A module is entered  *)
(* in loaded_modules before its own requests are resolved, so that cycles  *)
(* find it there; when a request cannot be loaded, every module that is    *)
(* being loaded is freed on the way out, and what they had completed stays.*)
(*                                                                         *)
(* Files are read during the load of the module that asks for them; calls  *)
(* is the call stack of js_resolve_module.  Files come and go between two  *)
(* import() jobs, and keep the requests in their text.                     *)
(***************************************************************************)
EXTENDS Integers, Sequences, FiniteSets, Functions

CONSTANTS Name,        \* module names, normalised
          Unresolved,  \* a request that was not resolved
          MaxLoads,    \* bound on the import() jobs that run
          MaxChanges   \* bound on the changes of the files

ASSUME NameAssumption ==
  IsFiniteSet(Name) /\ Unresolved \notin Nat /\ {MaxLoads, MaxChanges} \subseteq Nat

VARIABLES
  texts,       \* what the text of each module imports, in source order
  unreadable,  \* the names whose file is missing or does not parse
  defs,        \* every JSModuleDef made so far, by number
  listed,      \* those in loaded_modules; the others have been freed
  calls,       \* the calls of js_resolve_module
  outcome,     \* what became of the last import()
  loads, changes

loadVars == <<texts, unreadable, defs, listed, calls, outcome, loads, changes>>

ImportLists(S) == {s \in UNION {[1..n -> S] : n \in 0..Cardinality(S)} : IsInjective(s)}
Def == [name : Name, req : Seq(Nat \cup {Unresolved})]

LoadInit ==
  /\ texts \in {r \in [Name -> ImportLists(Name)] : \A n \in Name : n \notin Range(r[n])}
  /\ unreadable \in SUBSET Name
  /\ defs = <<>> /\ listed = {} /\ calls = <<>>
  /\ outcome = "none" /\ loads = 0 /\ changes = 0

-----------------------------------------------------------------------------
TopCall == calls[Len(calls)]
Loader == defs[TopCall.def]
Request == texts[Loader.name][TopCall.next]
Idle == calls = <<>> /\ outcome # "loading"

\* js_find_loaded_module
IsLoaded(n) == \E d \in listed : defs[d].name = n
Find(n) == CHOOSE d \in listed : defs[d].name = n

\* js_new_module_def, and the start of js_resolve_module.
Enter(n) ==
  /\ defs' = Append(defs, [name |-> n, req |-> [i \in DOMAIN texts[n] |-> Unresolved]])
  /\ listed' = listed \cup {Len(defs) + 1}
  /\ calls' = Append(calls, [def |-> Len(defs) + 1, next |-> 1])

Advance == calls' = [calls EXCEPT ![Len(calls)].next = @ + 1]

ImportLoaded(n) ==
  /\ Idle /\ loads < MaxLoads /\ IsLoaded(n)
  /\ loads' = loads + 1 /\ outcome' = "loaded"
  /\ UNCHANGED <<texts, unreadable, defs, listed, calls, changes>>

ImportUnreadable(n) ==
  /\ Idle /\ loads < MaxLoads /\ ~IsLoaded(n) /\ n \in unreadable
  /\ loads' = loads + 1 /\ outcome' = "failed"
  /\ UNCHANGED <<texts, unreadable, defs, listed, calls, changes>>

ImportNew(n) ==
  /\ Idle /\ loads < MaxLoads /\ ~IsLoaded(n) /\ n \notin unreadable
  /\ loads' = loads + 1 /\ outcome' = "loading"
  /\ Enter(n)
  /\ UNCHANGED <<texts, unreadable, changes>>

Requesting == calls # <<>> /\ TopCall.next <= Len(Loader.req)

\* Loaded before, loading further up the stack, or loaded just now.
ResolveFound ==
  /\ Requesting /\ IsLoaded(Request)
  /\ defs' = [defs EXCEPT ![TopCall.def].req[TopCall.next] = Find(Request)]
  /\ Advance
  /\ UNCHANGED <<texts, unreadable, listed, outcome, loads, changes>>

ResolveLoads ==
  /\ Requesting /\ ~IsLoaded(Request) /\ Request \notin unreadable
  /\ Enter(Request)
  /\ UNCHANGED <<texts, unreadable, outcome, loads, changes>>

\* Mutants: only the module whose request failed is freed; what the modules
\* on the stack have loaded is freed, instead of them.
ResolveFailsOnce ==
  /\ Requesting /\ ~IsLoaded(Request) /\ Request \in unreadable
  /\ listed' = listed \ {TopCall.def}
  /\ calls' = <<>> /\ outcome' = "failed"
  /\ UNCHANGED <<texts, unreadable, defs, loads, changes>>

ResolveFailsInside ==
  /\ Requesting /\ ~IsLoaded(Request) /\ Request \in unreadable
  /\ listed' = listed \ UNION {Range(defs[f.def].req) : f \in Range(calls)}
  /\ calls' = <<>> /\ outcome' = "failed"
  /\ UNCHANGED <<texts, unreadable, defs, loads, changes>>

\* Each __JS_EvalInternal on the stack frees its module and fails in turn.
ResolveFails ==
  /\ Requesting /\ ~IsLoaded(Request) /\ Request \in unreadable
  /\ listed' = listed \ {f.def : f \in Range(calls)}
  /\ calls' = <<>> /\ outcome' = "failed"
  /\ UNCHANGED <<texts, unreadable, defs, loads, changes>>

ResolveDone ==
  /\ calls # <<>> /\ TopCall.next > Len(Loader.req)
  /\ calls' = SubSeq(calls, 1, Len(calls) - 1)
  /\ outcome' = IF Len(calls) = 1 THEN "loaded" ELSE outcome
  /\ UNCHANGED <<texts, unreadable, defs, listed, loads, changes>>

\* The program or somebody else writes or removes a file.
FileChanges(n) ==
  /\ Idle /\ changes < MaxChanges
  /\ changes' = changes + 1
  /\ unreadable' = IF n \in unreadable THEN unreadable \ {n} ELSE unreadable \cup {n}
  /\ UNCHANGED <<texts, defs, listed, calls, outcome, loads>>

LoadNext ==
  \/ \E n \in Name : ImportLoaded(n) \/ ImportUnreadable(n) \/ ImportNew(n) \/ FileChanges(n)
  \/ ResolveFound \/ ResolveLoads \/ ResolveFails \/ ResolveDone

LoadSpec == LoadInit /\ [][LoadNext]_loadVars

-----------------------------------------------------------------------------
(* Properties. *)

\* Every variable keeps to its range, and no file is in the list twice.
LoadTypeOK ==
  /\ defs \in Seq(Def)
  /\ listed \subseteq DOMAIN defs
  /\ \A d, e \in listed : defs[d].name = defs[e].name => d = e
  /\ calls \in Seq([def : DOMAIN defs, next : Nat])
  /\ outcome \in {"none", "loading", "loaded", "failed"}

\* js_create_module_function and the linker follow the requests of a module
\* without a test: those of a module in the list are never NULL between jobs.
RequestsResolved == Idle => \A d \in listed : Unresolved \notin Range(defs[d].req)

\* What failed loads leave in the list is one module per name, complete, also
\* when the same import() is tried again after the files have changed.
ListExact == LoadTypeOK /\ RequestsResolved

Needs(n) ==
  {k \in Name : \A S \in SUBSET Name :
      n \in S /\ (\A x \in S : Range(texts[x]) \subseteq S) => k \in S}

Acyclic == \A n \in Name : \A k \in Range(texts[n]) : n \notin Needs(k)

\* A request leads to a module that has not been freed, whatever failed to
\* load before.  quickjs.c:34350 says of what a failed load leaves behind,
\* "should free all the unresolved dependencies".
RequestsAlive == Idle => \A d \in listed : Range(defs[d].req) \subseteq listed \cup {Unresolved}

\* Without cycles the requests lead to live modules: a module that stays
\* after a failed load was complete without the one that failed.
RequestsAliveWithoutCycles == Acyclic => RequestsAlive
=============================================================================
