----------------------------- MODULE ModuleEval -----------------------------
(***************************************************************************)
(* Linking and evaluation of ECMAScript modules (quickjs.c).  An import()  *)
(* runs as a job: it links the graph of the module, then evaluates it, two *)
(* depth-first walks that find the strongly connected components.  Modules *)
(* with a top-level await end in a later job, which runs what waited.      *)
(*                                                                         *)
(* The walks are recursive functions of the code; here frames is their     *)
(* call stack, and one step is one turn of their loop.  Nothing else runs  *)
(* meanwhile: mode says which function the current job is in.  Loading is  *)
(* the subject of ModuleLoad; memory does not run out.                     *)
(***************************************************************************)
EXTENDS Integers, Sequences, FiniteSets, Functions

CONSTANTS Module,       \* the modules of the program, all loaded
          None,         \* no module
          MaxImports    \* bound on the import() jobs that run

ASSUME ModuleAssumption == IsFiniteSet(Module) /\ None \notin Module /\ MaxImports \in Nat

VARIABLES
  requests,  \* req_module_entries: what each module imports, in source order
  tla,       \* has_tla: the modules whose text contains a top-level await
  broken,    \* the modules that import a name nobody exports
  status,
  stack,     \* the modules of unfinished components (stack_prev)
  anc,       \* dfs_ancestor_index, as a position on the stack
  frames,    \* the calls of the recursive function: module and loop index
  mode,      \* the function the current job is in, or "idle"
  goal,      \* the argument of js_link_module, then of js_evaluate_module
  async,     \* async_evaluation
  order,     \* the modules in order of async_evaluation_timestamp
  pending,   \* pending_async_dependencies
  parents,   \* async_parent_modules
  root,      \* cycle_root
  error,     \* eval_has_exception
  promise,   \* the promise of js_evaluate_module, made on a cycle root
  todo,      \* exec_list of js_async_module_execution_fulfilled
  ran,       \* how often the body of the module was started
  body,      \* how far the body is
  imports    \* the number of import() jobs so far

program == <<requests, tla, broken>>
walk == <<stack, anc, frames, goal>>
deps == <<async, order, pending, parents, root, error>>
bodies == <<ran, body>>
vars == <<program, walk, status, mode, deps, promise, todo, bodies, imports>>

Started == {"evaluating_async", "evaluated"}
Status == {"unlinked", "linking", "linked", "evaluating"} \cup Started

-----------------------------------------------------------------------------
(* The program: imports of other modules, at most one of them unlinkable. *)

Orders(S) == {s \in UNION {[1..n -> S] : n \in 0..Cardinality(S)} : IsInjective(s)}

Init ==
  /\ requests \in {r \in [Module -> Orders(Module)] : \A m \in Module : m \notin Range(r[m])}
  /\ tla \in SUBSET Module
  /\ broken \in {B \in SUBSET Module : Cardinality(B) <= 1}
  /\ status = [m \in Module |-> "unlinked"]
  /\ stack = <<>> /\ frames = <<>> /\ order = <<>>
  /\ anc = [m \in Module |-> 0]
  /\ pending = [m \in Module |-> 0]
  /\ ran = [m \in Module |-> 0]
  /\ parents = [m \in Module |-> <<>>]
  /\ root = [m \in Module |-> None]
  /\ async = [m \in Module |-> FALSE]
  /\ error = [m \in Module |-> FALSE]
  /\ promise = [m \in Module |-> "none"]
  /\ body = [m \in Module |-> "unstarted"]
  /\ mode = "idle" /\ goal = None /\ todo = {} /\ imports = 0

-----------------------------------------------------------------------------
(* The walk: the top frame is the call in progress, at its next request.   *)

Top == frames[Len(frames)]
Cur == Top.mod
AtRequest == frames # <<>> /\ Top.next <= Len(requests[Cur])
AtEnd == frames # <<>> /\ Top.next > Len(requests[Cur])
Child == requests[Cur][Top.next]

Frame(m) == [mod |-> m, next |-> 1]
Advanced == [frames EXCEPT ![Len(frames)].next = @ + 1]
Returned == SubSeq(frames, 1, Len(frames) - 1)

\* dfs_index grows with every module; among the modules on the stack their
\* positions are in the same order, and no other is ever compared.
Index(m) == CHOOSE k \in DOMAIN stack : stack[k] = m
Component == {stack[k] : k \in Index(Cur)..Len(stack)}
IsRoot == anc[Cur] = Index(Cur)
Lower(i, j) == IF j < i THEN j ELSE i

\* The entry of the recursive function for a module it has not seen.
Open(m, s) ==
  /\ status' = [status EXCEPT ![m] = s]
  /\ stack' = Append(stack, m)
  /\ anc' = [anc EXCEPT ![m] = Len(stack) + 1]
  /\ frames' = Append(frames, Frame(m))

\* A request that returned while its component is unfinished.
MergeAncestor(s) ==
  anc' = IF status[Child] = s THEN [anc EXCEPT ![Cur] = Lower(@, anc[Child])] ELSE anc

\* The end of the recursive function: a component is popped at its root, and
\* its modules get the status done gives them.
Close(done) ==
  /\ frames' = Returned
  /\ IF IsRoot
     THEN /\ stack' = SubSeq(stack, 1, Index(Cur) - 1)
          /\ anc' = [m \in Module |-> IF m \in Component THEN 0 ELSE anc[m]]
          /\ status' = [m \in Module |-> IF m \in Component THEN done[m] ELSE status[m]]
     ELSE UNCHANGED <<stack, anc, status>>

\* Both functions unwind the whole stack on failure.
Unwind(s) ==
  /\ status' = [m \in Module |-> IF m \in Range(stack) THEN s ELSE status[m]]
  /\ stack' = <<>> /\ frames' = <<>>
  /\ anc' = [m \in Module |-> 0]
  /\ mode' = "idle"

-----------------------------------------------------------------------------
(* js_dynamic_import_job: link. *)

Import(m) ==
  /\ mode = "idle" /\ imports < MaxImports
  /\ imports' = imports + 1
  /\ mode' = "link" /\ goal' = m
  /\ IF status[m] = "unlinked" THEN Open(m, "linking")
                               ELSE UNCHANGED <<status, stack, anc, frames>>
  /\ UNCHANGED <<program, deps, promise, todo, bodies>>

LinkRequest ==
  /\ mode = "link" /\ AtRequest /\ status[Child] = "unlinked"
  /\ Open(Child, "linking")
  /\ UNCHANGED <<program, mode, goal, deps, promise, todo, bodies, imports>>

LinkReturned ==
  /\ mode = "link" /\ AtRequest /\ status[Child] # "unlinked"
  /\ MergeAncestor("linking")
  /\ frames' = Advanced
  /\ UNCHANGED <<program, status, stack, mode, goal, deps, promise, todo, bodies, imports>>

LinkDone ==
  /\ mode = "link" /\ AtEnd /\ Cur \notin broken
  /\ Close([m \in Module |-> "linked"])
  /\ UNCHANGED <<program, mode, goal, deps, promise, todo, bodies, imports>>

\* Mutant: a failed link is forgotten.
LinkFailsUnseen ==
  /\ mode = "link" /\ AtEnd /\ Cur \in broken
  /\ Unwind("linked")
  /\ UNCHANGED <<program, goal, deps, promise, todo, bodies, imports>>

LinkFails ==
  /\ mode = "link" /\ AtEnd /\ Cur \in broken
  /\ Unwind("unlinked")
  /\ UNCHANGED <<program, goal, deps, promise, todo, bodies, imports>>

-----------------------------------------------------------------------------
(* js_evaluate_module, on the cycle root of a module that was started. *)

Linked == mode = "link" /\ frames = <<>>
Target == IF status[goal] \in Started THEN root[goal] ELSE goal

EvaluateAgain ==
  /\ Linked /\ promise[Target] # "none"
  /\ mode' = "idle"
  /\ UNCHANGED <<program, status, walk, deps, promise, todo, bodies, imports>>

\* Started as a request of another module: there is nothing left to start.
\* Mutant: what is still running counts as evaluated.
EvaluateStartedEarly ==
  /\ Linked /\ promise[Target] = "none" /\ status[Target] \in Started
  /\ promise' = [promise EXCEPT ![Target] = IF error[Target] THEN "rejected" ELSE "fulfilled"]
  /\ mode' = "idle"
  /\ UNCHANGED <<program, status, walk, deps, todo, bodies, imports>>

EvaluateStarted ==
  /\ Linked /\ promise[Target] = "none" /\ status[Target] \in Started
  /\ promise' = [promise EXCEPT ![Target] = IF error[Target] THEN "rejected"
                                            ELSE IF async[Target] THEN "pending"
                                            ELSE "fulfilled"]
  /\ mode' = "idle"
  /\ UNCHANGED <<program, status, walk, deps, todo, bodies, imports>>

EvaluateFirst ==
  /\ Linked /\ promise[Target] = "none" /\ status[Target] \notin Started
  /\ promise' = [promise EXCEPT ![Target] = "pending"]
  /\ mode' = "eval"
  /\ Open(Target, "evaluating")
  /\ UNCHANGED <<program, goal, deps, todo, bodies, imports>>

EvaluateReturns ==
  /\ mode = "eval" /\ frames = <<>>
  /\ promise' = IF async[goal] THEN promise ELSE [promise EXCEPT ![goal] = "fulfilled"]
  /\ mode' = "idle"
  /\ UNCHANGED <<program, status, walk, deps, todo, bodies, imports>>

-----------------------------------------------------------------------------
(* js_inner_module_evaluation. *)

EvalRequest ==
  /\ mode = "eval" /\ AtRequest /\ status[Child] = "linked"
  /\ Open(Child, "evaluating")
  /\ UNCHANGED <<program, mode, goal, deps, promise, todo, bodies, imports>>

\* The module that stands for a request: its cycle root once it has one.
Dependency == IF status[Child] = "evaluating" THEN Child ELSE root[Child]
ChildFailed == status[Child] \in Started /\ (error[Child] \/ error[Dependency])

EvalReturned ==
  /\ mode = "eval" /\ AtRequest /\ status[Child] # "linked" /\ ~ChildFailed
  /\ MergeAncestor("evaluating")
  /\ IF async[Dependency]
     THEN /\ pending' = [pending EXCEPT ![Cur] = @ + 1]
          /\ parents' = [parents EXCEPT ![Dependency] = Append(@, Cur)]
     ELSE UNCHANGED <<pending, parents>>
  /\ frames' = Advanced
  /\ UNCHANGED <<program, status, stack, mode, goal, async, order, root, error,
                 promise, todo, bodies, imports>>

\* The failure path of js_evaluate_module: everything on the stack failed.
Abandon ==
  /\ Unwind("evaluated")
  /\ error' = [m \in Module |-> m \in Range(stack) \/ error[m]]
  /\ root' = [m \in Module |-> IF m \in Range(stack) THEN goal ELSE root[m]]
  /\ promise' = [promise EXCEPT ![goal] = "rejected"]

EvalChildFailed ==
  /\ mode = "eval" /\ AtRequest /\ status[Child] # "linked" /\ ChildFailed
  /\ Abandon
  /\ UNCHANGED <<program, goal, async, order, pending, parents, todo, bodies, imports>>

Runs(m, b) ==
  /\ ran' = [ran EXCEPT ![m] = @ + 1]
  /\ body' = [body EXCEPT ![m] = b]

CloseEvaluation(asyncNow) ==
  /\ async' = asyncNow
  /\ Close([m \in Module |-> IF asyncNow[m] THEN "evaluating_async" ELSE "evaluated"])
  /\ root' = IF IsRoot THEN [m \in Module |-> IF m \in Component THEN Cur ELSE root[m]]
                       ELSE root
  /\ UNCHANGED <<program, mode, goal, pending, parents, error, promise, todo, imports>>

BecomesAsync ==
  /\ order' = Append(order, Cur)
  /\ CloseEvaluation([async EXCEPT ![Cur] = TRUE])

EvalWaits ==
  /\ mode = "eval" /\ AtEnd /\ pending[Cur] > 0
  /\ BecomesAsync
  /\ UNCHANGED bodies

EvalStarts ==
  /\ mode = "eval" /\ AtEnd /\ pending[Cur] = 0 /\ Cur \in tla
  /\ BecomesAsync /\ Runs(Cur, "running")

EvalRuns ==
  /\ mode = "eval" /\ AtEnd /\ pending[Cur] = 0 /\ Cur \notin tla
  /\ Runs(Cur, "done") /\ CloseEvaluation(async)
  /\ UNCHANGED order

EvalThrows ==
  /\ mode = "eval" /\ AtEnd /\ pending[Cur] = 0 /\ Cur \notin tla
  /\ Runs(Cur, "threw") /\ Abandon
  /\ UNCHANGED <<program, goal, async, order, pending, parents, todo, imports>>

-----------------------------------------------------------------------------
(* The end of a body with a top-level await.  Its promise calls one of two *)
(* handlers in a job; the body counts as running until that job.           *)

\* js_async_module_execution_rejected calls itself on the parents.
Doomed(m) ==
  {n \in Module : \A S \in SUBSET Module :
      /\ m \in S
      /\ \A x \in S : \A p \in Range(parents[x]) : status[p] # "evaluated" => p \in S
      => n \in S}

\* Mutant: the parents are not told.
RejectedAlone(m) ==
  /\ error' = [error EXCEPT ![m] = TRUE]
  /\ status' = [status EXCEPT ![m] = "evaluated"]
  /\ promise' = [promise EXCEPT ![m] = IF @ = "none" THEN @ ELSE "rejected"]

RejectedWith(m) ==
  /\ error' = [n \in Module |-> n \in Doomed(m) \/ error[n]]
  /\ status' = [n \in Module |-> IF n \in Doomed(m) THEN "evaluated" ELSE status[n]]
  /\ promise' = [n \in Module |-> IF n \in Doomed(m) /\ promise[n] # "none"
                                  THEN "rejected" ELSE promise[n]]

\* js_set_module_evaluated
SetEvaluated(m) ==
  /\ status' = [status EXCEPT ![m] = "evaluated"]
  /\ promise' = [promise EXCEPT ![m] = IF @ = "none" THEN @ ELSE "fulfilled"]

\* The importer failed meanwhile: either handler returns at once.
BodyIgnored(m, b) ==
  /\ mode = "idle" /\ body[m] = "running" /\ status[m] = "evaluated"
  /\ body' = [body EXCEPT ![m] = b]
  /\ UNCHANGED <<program, walk, status, mode, deps, promise, todo, ran, imports>>

BodyRejected(m) ==
  /\ mode = "idle" /\ body[m] = "running" /\ status[m] # "evaluated"
  /\ body' = [body EXCEPT ![m] = "threw"]
  /\ RejectedWith(m)
  /\ UNCHANGED <<program, walk, mode, async, order, pending, parents, root, todo, ran, imports>>

BodyFulfilled(m) ==
  /\ mode = "idle" /\ body[m] = "running" /\ status[m] # "evaluated"
  /\ body' = [body EXCEPT ![m] = "done"]
  /\ async' = [async EXCEPT ![m] = FALSE]
  /\ SetEvaluated(m)
  /\ frames' = <<Frame(m)>>
  /\ mode' = "gather"
  /\ UNCHANGED <<program, stack, anc, goal, order, pending, parents, root, error, todo,
                 ran, imports>>

\* gather_available_ancestors: the frames now walk the parents.
AtParent == mode = "gather" /\ frames # <<>> /\ Top.next <= Len(parents[Cur])
Parent == parents[Cur][Top.next]
\* Mutant: failed parents are counted too.
SkippedIfListed(p) == p \in todo

Skipped(p) == p \in todo \/ error[root[p]]

GatherSkips ==
  /\ AtParent /\ Skipped(Parent)
  /\ frames' = Advanced
  /\ UNCHANGED <<program, stack, anc, goal, status, mode, deps, promise, todo, bodies, imports>>

\* Mutant: the parents of a module that has yet to await are gathered too.
GatherCountsAll ==
  /\ AtParent /\ ~Skipped(Parent)
  /\ pending' = [pending EXCEPT ![Parent] = @ - 1]
  /\ todo' = IF pending[Parent] = 1 THEN todo \cup {Parent} ELSE todo
  /\ frames' = IF pending[Parent] = 1 THEN Append(Advanced, Frame(Parent)) ELSE Advanced
  /\ UNCHANGED <<program, stack, anc, goal, status, mode, async, order, parents, root, error,
                 promise, bodies, imports>>

GatherCounts ==
  /\ AtParent /\ ~Skipped(Parent)
  /\ pending' = [pending EXCEPT ![Parent] = @ - 1]
  /\ todo' = IF pending[Parent] = 1 THEN todo \cup {Parent} ELSE todo
  /\ frames' = IF pending[Parent] = 1 /\ Parent \notin tla
               THEN Append(Advanced, Frame(Parent)) ELSE Advanced
  /\ UNCHANGED <<program, stack, anc, goal, status, mode, async, order, parents, root, error,
                 promise, bodies, imports>>

GatherReturns ==
  /\ mode = "gather" /\ frames # <<>> /\ Top.next > Len(parents[Cur])
  /\ frames' = Returned
  /\ mode' = IF Len(frames) = 1 THEN "execute" ELSE mode
  /\ UNCHANGED <<program, stack, anc, goal, status, deps, promise, todo, bodies, imports>>

\* The loop over exec_list, sorted by timestamp.
Stamp(m) == CHOOSE k \in DOMAIN order : order[k] = m
First == CHOOSE m \in todo : \A n \in todo : Stamp(m) <= Stamp(n)
Executing == mode = "execute" /\ todo # {} /\ todo' = todo \ {First}

ExecuteSkips ==
  /\ Executing /\ status[First] = "evaluated"
  /\ UNCHANGED <<program, walk, status, mode, deps, promise, bodies, imports>>

ExecuteStarts ==
  /\ Executing /\ status[First] # "evaluated" /\ First \in tla
  /\ Runs(First, "running")
  /\ UNCHANGED <<program, walk, status, mode, deps, promise, imports>>

\* async_evaluation stays set here, unlike in BodyFulfilled.
ExecuteRuns ==
  /\ Executing /\ status[First] # "evaluated" /\ First \notin tla
  /\ Runs(First, "done") /\ SetEvaluated(First)
  /\ UNCHANGED <<program, walk, mode, deps, imports>>

ExecuteThrows ==
  /\ Executing /\ status[First] # "evaluated" /\ First \notin tla
  /\ Runs(First, "threw") /\ RejectedWith(First)
  /\ UNCHANGED <<program, walk, mode, async, order, pending, parents, root, imports>>

ExecuteEnds ==
  /\ mode = "execute" /\ todo = {}
  /\ mode' = "idle"
  /\ UNCHANGED <<program, walk, status, deps, promise, todo, bodies, imports>>

-----------------------------------------------------------------------------
Link == LinkRequest \/ LinkReturned \/ LinkDone \/ LinkFails
Evaluate == \/ EvaluateAgain \/ EvaluateStarted \/ EvaluateFirst \/ EvaluateReturns
            \/ EvalRequest \/ EvalReturned \/ EvalChildFailed
            \/ EvalWaits \/ EvalStarts \/ EvalRuns \/ EvalThrows
Gather == GatherSkips \/ GatherCounts \/ GatherReturns
Execute == ExecuteSkips \/ ExecuteStarts \/ ExecuteRuns \/ ExecuteThrows \/ ExecuteEnds
BodyEnds(m) == BodyFulfilled(m) \/ BodyRejected(m) \/ \E b \in {"done", "threw"} : BodyIgnored(m, b)

Job == Link \/ Evaluate \/ Gather \/ Execute

Next == Job \/ \E m \in Module : Import(m) \/ BodyEnds(m)

Spec == Init /\ [][Next]_vars

\* A job that runs goes on to its end.  That what a body awaits is settled
\* one day is an assumption about the program, without which nothing ends.
FairSpec == Spec /\ WF_vars(Job) /\ \A m \in Module : WF_vars(BodyEnds(m))
-----------------------------------------------------------------------------
(* Properties. *)

\* Every variable keeps to its range: a counter of waiting dependencies that
\* is taken down too often would show here.
TypeOK ==
  /\ status \in [Module -> Status]
  /\ stack \in Orders(Module)
  /\ anc \in [Module -> 0..Cardinality(Module)]
  /\ frames \in Seq([mod : Module, next : Nat])
  /\ mode \in {"idle", "link", "eval", "gather", "execute"}
  /\ goal \in Module \cup {None}
  /\ async \in [Module -> BOOLEAN] /\ error \in [Module -> BOOLEAN]
  /\ order \in Orders(Module)
  /\ pending \in [Module -> Nat]
  /\ parents \in [Module -> Seq(Module)]
  /\ root \in [Module -> Module \cup {None}]
  /\ promise \in [Module -> {"none", "pending", "fulfilled", "rejected"}]
  /\ todo \subseteq Module
  /\ ran \in [Module -> Nat]
  /\ body \in [Module -> {"unstarted", "running", "done", "threw"}]
  /\ imports \in 0..MaxImports

\* The assertions of js_inner_module_linking, js_link_module,
\* js_inner_module_evaluation, js_evaluate_module, js_set_module_evaluated,
\* gather_available_ancestors and the two handlers hold where they stand.
AssertsHold ==
  /\ mode = "link" /\ AtRequest => status[Child] # "evaluating"
  /\ mode \in {"link", "eval"} /\ AtEnd => anc[Cur] <= Index(Cur)
  /\ Linked => stack = <<>> /\ status[Target] \in Started \cup {"linked"}
  /\ mode = "eval" /\ AtRequest =>
       /\ status[Child] \in Started \cup {"linked", "evaluating"}
       /\ status[Child] \in Started => status[Dependency] \in Started
  /\ mode = "eval" /\ AtEnd => ~async[Cur]
  /\ mode = "eval" /\ frames = <<>> =>
       /\ stack = <<>> /\ ~error[goal]
       /\ status[goal] = IF async[goal] THEN "evaluating_async" ELSE "evaluated"
  /\ AtParent /\ ~Skipped(Parent) =>
       /\ status[Parent] = "evaluating_async" /\ ~error[Parent]
       /\ async[Parent] /\ pending[Parent] > 0
  /\ \A m \in todo : status[m] = "evaluated" => error[m]
  /\ \A m \in Module : mode = "idle" /\ body[m] = "running" =>
       IF status[m] = "evaluated" THEN error[m]
       ELSE status[m] = "evaluating_async" /\ ~error[m] /\ async[m]
  /\ \A m \in Module : promise[m] # "none" /\ status[m] \in Started => root[m] = m

\* No module is evaluated twice, however often and from wherever it is
\* imported, and whatever failed meanwhile.
RunsOnce == \A m \in Module : ran[m] <= 1

Reach(m) ==
  {n \in Module : \A S \in SUBSET Module :
      m \in S /\ (\A x \in S : Range(requests[x]) \subseteq S) => n \in S}

\* A body starts only after each module it imports, those in a cycle with it
\* excepted, has run to its end with all that module needs, top-level awaits
\* included.
DependenciesFirst ==
  \A m \in Module : ran[m] > 0 =>
    \A d \in Range(requests[m]) : m \notin Reach(d) =>
      \A e \in Reach(d) : body[e] = "done"

\* Every body runs once, at its turn.
RunsInOrder == RunsOnce /\ DependenciesFirst

\* What the promise of an import says is so: fulfilled when every module it
\* needs has run, rejected only when one of them threw.
PromiseTruthful ==
  \A m \in Module :
    /\ promise[m] = "fulfilled" => \A d \in Reach(m) : body[d] = "done"
    /\ promise[m] = "rejected" => \E d \in Reach(m) : body[d] = "threw"

\* A failure inside a cycle is known at its root, where gather and the
\* evaluation of an importer look for it.
FailureReachesRoot ==
  \A m \in Module : error[m] => root[m] # None /\ error[root[m]]

\* Importers learn of success and failure as they happened, through promises
\* and through the roots of cycles.
OutcomesTruthful == TypeOK /\ PromiseTruthful /\ FailureReachesRoot

\* Whatever failed to link, a module that counts as linked has all it needs
\* linked, so that its body never meets an import without a variable.
LinkedTogether ==
  mode # "link" => \A m \in Module : status[m] # "unlinked" =>
    \A d \in Reach(m) : status[d] # "unlinked"

\* doc/quickjs.texi:325, "ES6 modules are fully supported": the promise of an
\* import() is settled once whatever the bodies await is.
Settles == \A m \in Module : promise[m] = "pending" ~> promise[m] # "pending"

\* A module that was evaluated without a top-level await of its own, after
\* waiting for one: ExecuteRuns leaves async_evaluation set.
Stale(m) == status[m] = "evaluated" /\ ~error[m] /\ async[m]

\* Every import() is settled, unless the program has a module left stale by
\* js_async_module_execution_fulfilled.
SettlesUnlessStale == <>(\E m \in Module : Stale(m)) \/ Settles
=============================================================================
