----------------------------- MODULE PromiseJobs -----------------------------
(***************************************************************************)
(* Promises and the job queue of quickjs.c: resolving functions, reactions,*)
(* thenable jobs, then, finally, all, allSettled, any, race and async      *)
(* functions.                                                              *)
(*                                                                         *)
(* The program is arbitrary.  stack holds the calls in progress that run   *)
(* its code, or wait for it: the script, a handler, a getter of "then", a  *)
(* foreign then, a function given to finally, the body of an async         *)
(* function, and the loop of js_promise_all between two items.  A promise  *)
(* is its number, in order of creation, and a value otherwise one of four: *)
(* all that matters is whether it is a promise or a thenable.              *)
(***************************************************************************)
EXTENDS Integers, Sequences, FiniteSets

CONSTANTS Made,      \* the promises the program makes first
          MaxOps,    \* bound on what it does with promises after that
          MaxItems,  \* bound on the items given to a combinator
          Bound      \* the promises that are compared with AbstractPromise

ASSUME PromiseAssumption == {Made, MaxOps, MaxItems, Bound} \subseteq Nat

VARIABLES
  promises,  \* JSPromiseData, with history: lock, registered, told
  pairs,     \* JSPromiseFunctionDataResolved: a pair of resolving functions,
             \* with history: of an async function, made to follow a promise
  combos,    \* resolve_element_env and values of each combinator
  jobs,      \* rt->job_list
  stack,     \* calls in progress, the innermost last
  known,     \* promises the program has a reference to
  held,      \* functions of this file the program has a reference to
  calls,     \* history: what the reactions of each promise were called with
  ops        \* the number of operations of the program so far

vars == <<promises, pairs, combos, jobs, stack, known, held, calls, ops>>

Plain == 0        \* not an object, or one without a callable then
Thenable == -1    \* a foreign object whose then is a getter
TypeErr == -2     \* the error of a promise resolved with itself
Collected == -3   \* the array or AggregateError of a combinator

Promises == DOMAIN promises
Given == {Plain, Thenable} \cup known

Fn(fn, of, at) == [fn |-> fn, of |-> of, at |-> at]
Undefined == Fn("undefined", 0, 0)
User == Fn("user", 0, 0)
Resolving(f) == {Fn("resolve", f, 0), Fn("reject", f, 0)}

Frame(call, of) == [call |-> call, of |-> of, rej |-> FALSE, arg |-> Plain]
Top == stack[Len(stack)]
Callers == SubSeq(stack, 1, Len(stack) - 1)
OnTop(call) == stack # <<>> /\ Top.call = call
UserCalls == {"script", "handler", "getThen", "foreignThen", "onFinally", "itemThen", "async"}

Pending == [state |-> "pending", result |-> Plain, reactions |-> <<>>, handled |-> FALSE,
            lock |-> Plain, registered |-> 0, told |-> "nothing"]

\* js_create_resolving_functions
NewPair(p) == [promise |-> p, resolved |-> FALSE, async |-> FALSE, follows |-> Plain]

\* js_new_promise_capability, with the constructor of the engine: the new
\* promise and its pair have the numbers Fresh and FreshPair.
Fresh == Len(promises) + 1
FreshPair == Len(pairs) + 1
WithFresh == Append(promises, Pending)

Init ==
  /\ promises = [p \in 1..Made |-> Pending]
  /\ pairs = [p \in 1..Made |-> NewPair(p)]
  /\ calls = [p \in 1..Made |-> <<>>]
  /\ known = 1..Made /\ held = UNION {Resolving(p) : p \in 1..Made}
  /\ combos = <<>> /\ jobs = <<>>
  /\ stack = <<Frame("script", 0)>>
  /\ ops = 0

-----------------------------------------------------------------------------
(* Settling: resolving functions and elements.                             *)

ReactionJob(p, r, rej, v) ==
  [job |-> "reaction", promise |-> p, cap |-> r.cap, n |-> r.n,
   handler |-> IF rej THEN r.onRej ELSE r.onFul, rej |-> rej, arg |-> v]

ThenableJob(p, v) == [job |-> "thenable", promise |-> p, arg |-> v]

\* fulfill_or_reject_promise: queue is what the list of jobs is before it.
Settle(queue, p, rej, v) ==
  LET s == promises[p] IN
  /\ promises' = [promises EXCEPT ![p] =
       [s EXCEPT !.state = IF rej THEN "rejected" ELSE "fulfilled",
                 !.result = v, !.reactions = <<>>,
                 !.told = IF rej /\ ~s.handled THEN "unhandled" ELSE @]]
  /\ jobs' = queue \o [i \in DOMAIN s.reactions |-> ReactionJob(p, s.reactions[i], rej, v)]

\* js_promise_resolve_function_call, first time: a then is looked up on
\* objects, which may run a getter of the program.
ResolveWith(queue, callers, f, rej, v) ==
  LET p == pairs[f].promise IN
  \/ /\ rej \/ v \in {Plain, TypeErr, Collected}
     /\ Settle(queue, p, rej, v) /\ stack' = callers
  \/ /\ ~rej /\ v = p
     /\ Settle(queue, p, TRUE, TypeErr) /\ stack' = callers
  \/ /\ ~rej /\ v \in Promises \ {p}
     /\ jobs' = Append(queue, ThenableJob(p, v))
     /\ promises' = [promises EXCEPT ![p].lock = v]
     /\ stack' = callers
  \/ /\ ~rej /\ v = Thenable
     /\ stack' = Append(callers, Frame("getThen", f))
     /\ jobs' = queue /\ UNCHANGED promises

\* Wrong: the flag is not set before the getter runs.
CallResolvingLate(queue, callers, f, rej, v) ==
  \/ /\ pairs[f].resolved
     /\ jobs' = queue /\ stack' = callers /\ UNCHANGED <<promises, pairs>>
  \/ /\ ~pairs[f].resolved
     /\ pairs' = [pairs EXCEPT ![f].resolved = rej \/ v # Thenable]
     /\ ResolveWith(queue, callers, f, rej, v)

CallResolving(queue, callers, f, rej, v) ==
  \/ /\ pairs[f].resolved
     /\ jobs' = queue /\ stack' = callers /\ UNCHANGED <<promises, pairs>>
  \/ /\ ~pairs[f].resolved
     /\ pairs' = [pairs EXCEPT ![f].resolved = TRUE]
     /\ ResolveWith(queue, callers, f, rej, v)

\* The functions that a capability ends with; 0 stands for undefined.
CallCapability(queue, callers, cap, rej, v) ==
  \/ /\ cap = 0
     /\ jobs' = queue /\ stack' = callers /\ UNCHANGED <<promises, pairs>>
  \/ cap # 0 /\ CallResolving(queue, callers, cap, rej, v)

Looping(c) == \E i \in DOMAIN stack : stack[i].call = "all" /\ stack[i].of = c

\* js_promise_all_resolve_element: the two elements of allSettled have a
\* flag each.
CallElement(queue, callers, h, v) ==
  LET c == combos[h.of]
      element == <<h.fn, h.at>> IN
  \/ /\ element \in c.called
     /\ jobs' = queue /\ stack' = callers /\ UNCHANGED <<promises, pairs, combos>>
  \/ /\ element \notin c.called
     /\ combos' = [combos EXCEPT ![h.of].called = @ \cup {element},
                                 ![h.of].answered = @ \cup {h.at},
                                 ![h.of].remaining = @ - 1]
     /\ \/ /\ c.remaining = 1
           /\ CallResolving(queue, callers, c.cap, c.type = "any", Collected)
        \/ /\ c.remaining # 1
           /\ jobs' = queue /\ stack' = callers /\ UNCHANGED <<promises, pairs>>

\* JS_Call of a function of this file.
CallNative(queue, callers, h, v) ==
  \/ /\ h.fn \in {"resolve", "reject"}
     /\ CallResolving(queue, callers, h.of, h.fn = "reject", v)
     /\ UNCHANGED combos
  \/ /\ h.fn \in {"element", "rejectElement"}
     /\ CallElement(queue, callers, h, v)

-----------------------------------------------------------------------------
(* Registering: perform_promise_then on p, in a table of promises that may *)
(* already have the promise of the capability.                             *)

\* Wrong: a job only for what is pending or was not handled yet.
PerformThenOnce(table, queue, p, cap, onFul, onRej) ==
  LET s == table[p]
      r == [cap |-> cap, onFul |-> onFul, onRej |-> onRej, n |-> s.registered + 1]
      seen == [s EXCEPT !.handled = TRUE, !.registered = @ + 1] IN
  \/ /\ s.state = "pending"
     /\ promises' = [table EXCEPT ![p] = [seen EXCEPT !.reactions = Append(@, r)]]
     /\ jobs' = queue
  \/ /\ s.state # "pending"
     /\ promises' = [table EXCEPT ![p] = seen]
     /\ jobs' = IF s.handled THEN queue ELSE Append(queue, ReactionJob(p, r, s.state = "rejected", s.result))

\* Wrong: the newest reaction is called first.
PerformThenNewest(table, queue, p, cap, onFul, onRej) ==
  LET s == table[p]
      r == [cap |-> cap, onFul |-> onFul, onRej |-> onRej, n |-> s.registered + 1]
      seen == [s EXCEPT !.handled = TRUE, !.registered = @ + 1] IN
  \/ /\ s.state = "pending"
     /\ promises' = [table EXCEPT ![p] = [seen EXCEPT !.reactions = <<r>> \o @]]
     /\ jobs' = queue
  \/ /\ s.state # "pending"
     /\ promises' = [table EXCEPT ![p] = seen]
     /\ jobs' = Append(queue, ReactionJob(p, r, s.state = "rejected", s.result))

PerformThen(table, queue, p, cap, onFul, onRej) ==
  LET s == table[p]
      r == [cap |-> cap, onFul |-> onFul, onRej |-> onRej, n |-> s.registered + 1]
      seen == [s EXCEPT !.handled = TRUE, !.registered = @ + 1] IN
  \/ /\ s.state = "pending"
     /\ promises' = [table EXCEPT ![p] = [seen EXCEPT !.reactions = Append(@, r)]]
     /\ jobs' = queue
  \/ /\ s.state # "pending"
     /\ promises' = [table EXCEPT ![p] =
          [seen EXCEPT !.told = IF s.state = "rejected" /\ ~s.handled THEN "handled" ELSE @]]
     /\ jobs' = Append(queue, ReactionJob(p, r, s.state = "rejected", s.result))

\* js_promise_then: the promise it returns is Fresh.
Then(queue, p, onFul, onRej) ==
  /\ PerformThen(WithFresh, queue, p, FreshPair, onFul, onRej)
  /\ pairs' = Append(pairs, NewPair(Fresh))
  /\ calls' = Append(calls, <<>>)

-----------------------------------------------------------------------------
(* What the program does while one of its functions is on top.             *)

Operation ==
  /\ stack # <<>> /\ Top.call \in UserCalls
  /\ ops < MaxOps /\ ops' = ops + 1

\* A bound: a program that uses a combinator begins with it and goes on
\* with calls of the functions it has.
NoCombinator == combos = <<>>

\* js_promise_constructor: the executor is code of the program that has the
\* two functions first.  That it throws is a call of reject at its end.
Construct ==
  /\ Operation /\ NoCombinator
  /\ promises' = WithFresh /\ pairs' = Append(pairs, NewPair(Fresh))
  /\ calls' = Append(calls, <<>>)
  /\ known' = known \cup {Fresh} /\ held' = held \cup Resolving(FreshPair)
  /\ UNCHANGED <<combos, jobs, stack>>

CallHeld(h, v) ==
  /\ Operation
  /\ CallNative(jobs, stack, h, v)
  /\ UNCHANGED <<known, held, calls>>

\* js_promise_then and js_promise_catch
ThenOf(p, onFul, onRej) ==
  /\ Operation /\ NoCombinator
  /\ Then(jobs, p, onFul, onRej)
  /\ known' = known \cup {Fresh}
  /\ UNCHANGED <<combos, stack, held>>

\* js_promise_finally
Finally(p) == ThenOf(p, Fn("finally", 0, 0), Fn("finally", 0, 1))

\* js_async_function_call, up to the first instruction of the body.
CallAsync ==
  /\ Operation /\ NoCombinator
  /\ promises' = WithFresh
  /\ pairs' = Append(pairs, [NewPair(Fresh) EXCEPT !.async = TRUE])
  /\ calls' = Append(calls, <<>>)
  /\ stack' = Append(stack, Frame("async", FreshPair))
  /\ known' = known \cup {Fresh}
  /\ UNCHANGED <<combos, jobs, held>>

Resume(f) == Fn("asyncResolve", f, 0)
ResumeThrow(f) == Fn("asyncReject", f, 0)

\* Wrong: the body goes on although it waits.
AwaitGoesOn(v) ==
  /\ Operation /\ Top.call = "async"
  /\ v \in known
  /\ PerformThen(promises, jobs, v, 0, Resume(Top.of), ResumeThrow(Top.of))
  /\ UNCHANGED <<stack, calls, pairs, combos, known, held>>

\* js_async_function_resume, at an await of v: no capability, and the two
\* functions that resume the body as handlers.  An await of a thenable is
\* that of a promise resolved with it.
Await(v) ==
  /\ Operation /\ Top.call = "async"
  /\ stack' = Callers
  /\ \/ /\ v \in known
        /\ PerformThen(promises, jobs, v, 0, Resume(Top.of), ResumeThrow(Top.of))
        /\ UNCHANGED calls
     \/ /\ v = Plain
        /\ PerformThen(Append(promises, [Pending EXCEPT !.state = "fulfilled"]), jobs, Fresh, 0,
                       Resume(Top.of), ResumeThrow(Top.of))
        /\ calls' = Append(calls, <<>>)
  /\ UNCHANGED <<pairs, combos, known, held>>

-----------------------------------------------------------------------------
(* js_promise_all and js_promise_race: a loop over the items, with one     *)
(* more counted than there are.  The constructor may be a subclass whose   *)
(* resolve gives foreign promises: their then runs the program's code,     *)
(* with the functions for this item in hand.                               *)

CombinatorTypes == {"all", "allSettled", "any", "race"}

\* Wrong: the loop itself is not counted.
CombineUncounted(type) ==
  /\ Operation /\ NoCombinator /\ ops = 0
  /\ promises' = WithFresh /\ pairs' = Append(pairs, NewPair(Fresh))
  /\ calls' = Append(calls, <<>>)
  /\ combos' = Append(combos, [type |-> type, cap |-> FreshPair, remaining |-> 0, n |-> 0,
                               called |-> {}, answered |-> {}, foreign |-> {}])
  /\ stack' = Append(stack, Frame("all", Len(combos) + 1))
  /\ known' = known \cup {Fresh}
  /\ UNCHANGED <<jobs, held>>

Combine(type) ==
  /\ Operation /\ NoCombinator /\ ops = 0
  /\ promises' = WithFresh /\ pairs' = Append(pairs, NewPair(Fresh))
  /\ calls' = Append(calls, <<>>)
  /\ combos' = Append(combos, [type |-> type, cap |-> FreshPair, remaining |-> 1, n |-> 0,
                               called |-> {}, answered |-> {}, foreign |-> {}])
  /\ stack' = Append(stack, Frame("all", Len(combos) + 1))
  /\ known' = known \cup {Fresh}
  /\ UNCHANGED <<jobs, held>>

OnFulfilled(c, i) ==
  IF combos[c].type \in {"any", "race"} THEN Fn("resolve", combos[c].cap, 0) ELSE Fn("element", c, i)

OnRejected(c, i) ==
  CASE combos[c].type \in {"all", "race"} -> Fn("reject", combos[c].cap, 0)
    [] combos[c].type = "allSettled" -> Fn("rejectElement", c, i)
    [] OTHER -> Fn("element", c, i)

Counted(c) == [combos EXCEPT ![c].n = @ + 1,
                             ![c].remaining = IF combos[c].type = "race" THEN @ ELSE @ + 1]

NextItem(c) == OnTop("all") /\ Top.of = c /\ combos[c].n < MaxItems

ItemIsPromise(p) == \E c \in DOMAIN combos :
  /\ NextItem(c)
  /\ LET i == combos[c].n + 1 IN Then(jobs, p, OnFulfilled(c, i), OnRejected(c, i))
  /\ combos' = Counted(c)
  /\ UNCHANGED <<stack, known, held, ops>>

ItemIsForeign == \E c \in DOMAIN combos :
  /\ NextItem(c)
  /\ LET i == combos[c].n + 1 IN held' = held \cup {OnFulfilled(c, i), OnRejected(c, i)}
  /\ combos' = [Counted(c) EXCEPT ![c].foreign = @ \cup {combos[c].n + 1}]
  /\ stack' = Append(stack, Frame("itemThen", c))
  /\ UNCHANGED <<promises, pairs, jobs, known, calls, ops>>

\* After the loop the extra one is taken off.
ItemsEnd == \E c \in DOMAIN combos :
  /\ OnTop("all") /\ Top.of = c
  /\ \/ /\ combos[c].type = "race"
        /\ stack' = Callers /\ UNCHANGED <<promises, pairs, combos, jobs>>
     \/ /\ combos[c].type # "race"
        /\ combos' = [combos EXCEPT ![c].remaining = @ - 1]
        /\ \/ /\ combos[c].remaining = 1
              /\ CallResolving(jobs, Callers, combos[c].cap, combos[c].type = "any", Collected)
           \/ /\ combos[c].remaining # 1
              /\ stack' = Callers /\ UNCHANGED <<promises, pairs, jobs>>
  /\ UNCHANGED <<known, held, calls, ops>>

-----------------------------------------------------------------------------
(* A function of the program comes back: what its caller then does.        *)

Returns(calls1) == stack # <<>> /\ Top.call \in calls1

ScriptEnds ==
  /\ Returns({"script"})
  /\ stack' = Callers
  /\ UNCHANGED <<promises, pairs, combos, jobs, known, held, calls, ops>>

\* promise_reaction_job, after its handler; js_async_function_resume, after
\* the end of the body.
ResultToCapability(rej, v) ==
  /\ Returns({"handler", "async"})
  /\ CallCapability(jobs, Callers, Top.of, rej, v)
  /\ UNCHANGED <<combos, known, held, calls, ops>>

\* A handler of this file returns undefined.
NativeReturns ==
  /\ Returns({"native"})
  /\ CallCapability(jobs, Callers, Top.of, FALSE, Plain)
  /\ UNCHANGED <<combos, known, held, calls, ops>>

\* The result of a foreign then is not used, ...
ResultDropped ==
  /\ Returns({"foreignThen", "itemThen"})
  /\ stack' = Callers
  /\ UNCHANGED <<promises, pairs, combos, jobs, known, held, calls, ops>>

\* ... what it throws rejects, if nothing was resolved before.
Throws(v) ==
  /\ Returns({"foreignThen"})
  /\ CallResolving(jobs, Callers, Top.of, TRUE, v)
  /\ UNCHANGED <<combos, known, held, calls, ops>>

\* fail_reject1: the loop of the combinator ends here.
ItemThrows(v) ==
  /\ Returns({"itemThen"})
  /\ CallResolving(jobs, SubSeq(stack, 1, Len(stack) - 2), combos[Top.of].cap, TRUE, v)
  /\ UNCHANGED <<combos, known, held, calls, ops>>

\* js_promise_resolve_function_call goes on with what the getter gave.
GetterThrows(v) ==
  /\ Returns({"getThen"})
  /\ Settle(jobs, pairs[Top.of].promise, TRUE, v)
  /\ stack' = Callers
  /\ UNCHANGED <<pairs, combos, known, held, calls, ops>>

GetterGivesNoFunction ==
  /\ Returns({"getThen"})
  /\ Settle(jobs, pairs[Top.of].promise, FALSE, Thenable)
  /\ stack' = Callers
  /\ UNCHANGED <<pairs, combos, known, held, calls, ops>>

GetterGivesFunction ==
  /\ Returns({"getThen"})
  /\ jobs' = Append(jobs, ThenableJob(pairs[Top.of].promise, Thenable))
  /\ stack' = Callers
  /\ UNCHANGED <<promises, pairs, combos, known, held, calls, ops>>

\* js_promise_then_finally_func, after onFinally: the outcome is handed on
\* by a thunk once what onFinally returned, a promise or no object, settles.
FinallyReturns(v) ==
  /\ Returns({"onFinally"})
  /\ LET thunk == Fn(IF Top.rej THEN "throw" ELSE "value", 0, Top.arg)
         made == Append(promises, [Pending EXCEPT !.state = "fulfilled"]) IN
     \/ /\ v \in known
        /\ PerformThen(WithFresh, jobs, v, FreshPair, thunk, Undefined)
        /\ pairs' = Append(pairs, NewPair(Fresh))
        /\ calls' = Append(calls, <<>>)
        /\ stack' = Append(Callers, [Frame("toFinally", Top.of) EXCEPT !.arg = Fresh])
     \/ /\ v = Plain
        /\ PerformThen(Append(made, Pending), jobs, Fresh, FreshPair, thunk, Undefined)
        /\ pairs' = Append(pairs, NewPair(Fresh + 1))
        /\ calls' = calls \o <<<<>>, <<>>>>
        /\ stack' = Append(Callers, [Frame("toFinally", Top.of) EXCEPT !.arg = Fresh + 1])
  /\ UNCHANGED <<combos, known, held, ops>>

FinallyEnds ==
  /\ Returns({"toFinally"})
  /\ CallCapability(jobs, Callers, Top.of, FALSE, Top.arg)
  /\ UNCHANGED <<combos, known, held, calls, ops>>

FinallyThrows(v) ==
  /\ Returns({"onFinally"})
  /\ CallCapability(jobs, Callers, Top.of, TRUE, v)
  /\ UNCHANGED <<combos, known, held, calls, ops>>

-----------------------------------------------------------------------------
(* JS_ExecutePendingJob: the oldest job, when no call is in progress.      *)

Job == Head(jobs)
Rest == Tail(jobs)
IsReaction(fns) == stack = <<>> /\ jobs # <<>> /\ Job.job = "reaction" /\ Job.handler.fn \in fns
Called == [calls EXCEPT ![Job.promise] =
             Append(@, [n |-> Job.n, with |-> [rej |-> Job.rej, value |-> Job.arg]])]

\* No handler, or a thunk of finally: the outcome goes to the capability.
ReactionPasses ==
  /\ IsReaction({"undefined", "value", "throw"})
  /\ LET none == Job.handler.fn = "undefined" IN
     CallCapability(Rest, <<>>, Job.cap,
                    IF none THEN Job.rej ELSE Job.handler.fn = "throw",
                    IF none THEN Job.arg ELSE Job.handler.at)
  /\ calls' = Called
  /\ UNCHANGED <<combos, known, held, ops>>

\* A handler of the program, the body of an async function, onFinally.
ReactionCallsProgram ==
  /\ IsReaction({"user", "asyncResolve", "asyncReject", "finally"})
  /\ stack' = << CASE Job.handler.fn = "user" -> Frame("handler", Job.cap)
                   [] Job.handler.fn = "finally" ->
                        [call |-> "onFinally", of |-> Job.cap, rej |-> Job.rej, arg |-> Job.arg]
                   [] OTHER -> Frame("async", Job.handler.of) >>
  /\ known' = known \cup ({Job.arg} \cap Promises)
  /\ jobs' = Rest /\ calls' = Called
  /\ UNCHANGED <<promises, pairs, combos, held, ops>>

\* A resolving function or an element is the handler.
ReactionCallsNative ==
  /\ IsReaction({"resolve", "reject", "element", "rejectElement"})
  /\ CallNative(Rest, <<Frame("native", Job.cap)>>, Job.handler, Job.arg)
  /\ calls' = Called
  /\ UNCHANGED <<known, held, ops>>

IsThenable == stack = <<>> /\ jobs # <<>> /\ Job.job = "thenable"

\* js_promise_resolve_thenable_job, with a promise: its then makes one more
\* promise, after the new pair, that nobody refers to.
ThenableIsPromise ==
  /\ IsThenable /\ Job.arg # Thenable
  /\ pairs' = pairs \o <<[NewPair(Job.promise) EXCEPT !.follows = Job.arg], NewPair(Fresh)>>
  /\ PerformThen(WithFresh, Rest, Job.arg, FreshPair + 1,
                 Fn("resolve", FreshPair, 0), Fn("reject", FreshPair, 0))
  /\ calls' = Append(calls, <<>>)
  /\ UNCHANGED <<combos, stack, known, held, ops>>

ThenableIsForeign ==
  /\ IsThenable /\ Job.arg = Thenable
  /\ pairs' = Append(pairs, NewPair(Job.promise))
  /\ held' = held \cup Resolving(FreshPair)
  /\ stack' = <<Frame("foreignThen", FreshPair)>>
  /\ jobs' = Rest
  /\ UNCHANGED <<promises, combos, known, calls, ops>>

-----------------------------------------------------------------------------
Program ==
  \/ Construct \/ CallAsync
  \/ \E h \in held : \E v \in IF h.fn = "resolve" THEN Given ELSE {Plain} : CallHeld(h, v)
  \/ \E p \in known : Finally(p)
  \/ \E p \in known : ThenOf(p, User, Undefined) \/ ThenOf(p, Undefined, User)
  \/ \E v \in known \cup {Plain} : Await(v)
  \/ \E type \in CombinatorTypes : Combine(type)

Combinator == ItemIsForeign \/ ItemsEnd \/ \E p \in known : ItemIsPromise(p)

Return ==
  \/ ScriptEnds \/ ResultDropped \/ NativeReturns \/ FinallyEnds
  \/ \E v \in Given : ResultToCapability(FALSE, v)
  \/ \E v \in {Plain} : ResultToCapability(TRUE, v) \/ Throws(v) \/ ItemThrows(v) \/ GetterThrows(v)
  \/ GetterGivesNoFunction \/ GetterGivesFunction
  \/ \E v \in known \cup {Plain} : FinallyReturns(v)
  \/ FinallyThrows(Plain)

RunJob ==
  \/ ReactionPasses \/ ReactionCallsProgram \/ ReactionCallsNative
  \/ ThenableIsPromise \/ ThenableIsForeign

Next == Program \/ Combinator \/ Return \/ RunJob

Spec == Init /\ [][Next]_vars

-----------------------------------------------------------------------------
(* Properties. *)

\* Every variable keeps to its range, and every number to its table; the
\* host has been told last of a rejection exactly if nobody handles it.
TypeOK ==
  /\ \A p \in Promises :
       /\ promises[p].state \in {"pending", "fulfilled", "rejected"}
       /\ promises[p].result \in {Plain, Thenable, TypeErr, Collected} \cup Promises
       /\ promises[p].state # "pending" => promises[p].reactions = <<>>
       /\ promises[p].told = "unhandled" <=> promises[p].state = "rejected" /\ ~promises[p].handled
  /\ \A f \in DOMAIN pairs : pairs[f].promise \in Promises /\ pairs[f].resolved \in BOOLEAN
  /\ \A c \in DOMAIN combos : combos[c].remaining \in -MaxItems..(MaxItems + 1)
  /\ known \subseteq Promises /\ Len(calls) = Len(promises) /\ ops \in 0..MaxOps

\* The ways that are left to settle p: an unused pair, a getter of then in
\* progress, or a thenable job.
WaysToSettle(p) ==
  Cardinality({f \in DOMAIN pairs : pairs[f].promise = p /\ ~pairs[f].resolved})
  + Cardinality({i \in DOMAIN stack : stack[i].call = "getThen" /\ pairs[stack[i].of].promise = p})
  + Cardinality({i \in DOMAIN jobs : jobs[i].job = "thenable" /\ jobs[i].promise = p})

\* The comment at quickjs.c:47770, "should never happen", is right: a pending
\* promise has exactly one way left to be settled, whoever holds it and
\* however often it was resolved, and a settled one has none.
OneWay == \A p \in Promises :
  WaysToSettle(p) = IF promises[p].state = "pending" THEN 1 ELSE 0

Settled(p) == promises[p].state # "pending"
SameOutcome(p, q) ==
  promises[p].state = promises[q].state /\ promises[p].result = promises[q].result

\* A promise resolved with another one is settled only after it and just
\* as it is, through a job, a reaction and a second pair in between.  (What
\* is fulfilled with an object whose then was no function yet is looked at
\* again.)
Follows == \A p \in Promises :
  LET q == promises[p].lock IN
  q # Plain /\ Settled(p) => Settled(q) /\ (promises[q].result # Thenable => SameOutcome(p, q))

\* A promise is settled by the one way it was resolved, and by what that says.
SettlesExact == TypeOK /\ OneWay /\ Follows

\* When there is nothing left to run, every reaction on a settled promise
\* has been called, and what was resolved with a settled one is settled.
NothingForgotten == stack = <<>> /\ jobs = <<>> => \A p \in Promises :
  /\ Settled(p) => Len(calls[p]) = promises[p].registered
  /\ promises[p].lock # Plain /\ Settled(promises[p].lock)
       /\ promises[promises[p].lock].result # Thenable => Settled(p)

\* An async function that has not come to its end runs, or waits for one
\* promise, or is resumed by one job; its stack is never entered twice.
Resumptions(f) ==
  Cardinality({i \in DOMAIN stack : stack[i].call = "async" /\ stack[i].of = f})
  + Cardinality(UNION {{p} \X {i \in DOMAIN promises[p].reactions :
                                   promises[p].reactions[i].onFul = Resume(f)} : p \in Promises})
  + Cardinality({i \in DOMAIN jobs : jobs[i].job = "reaction"
                                     /\ jobs[i].handler \in {Resume(f), ResumeThrow(f)}})

ResumesOnce == \A f \in DOMAIN pairs :
  pairs[f].async => Resumptions(f) = IF pairs[f].resolved THEN 0 ELSE 1

\* A foreign item called both of its functions.  In allSettled these have a
\* flag each, so both count.
CalledBoth(c) == \E i \in combos[c].foreign :
  {<<"element", i>>, <<"rejectElement", i>>} \subseteq combos[c].called

\* all, allSettled and any give their array or error when the loop is over
\* and every item has answered, and then at once; also when foreign items
\* call their functions during the loop, or call one again, or the loop
\* fails after a call.  Only a foreign item of allSettled that calls both of
\* its functions counts twice, and the array may then come early.
CombinatorsExact == \A c \in DOMAIN combos :
  LET complete == ~Looping(c) /\ combos[c].answered = 1..combos[c].n IN
  /\ promises[pairs[combos[c].cap].promise].result = Collected
       => complete \/ (combos[c].type = "allSettled" /\ CalledBoth(c))
  /\ combos[c].type # "race" /\ complete => pairs[combos[c].cap].resolved

-----------------------------------------------------------------------------
(* Refinement. *)

Unsettled == [unsettled |-> TRUE]

Promised == INSTANCE AbstractPromise WITH
  Promise <- 1..Bound,
  Value <- Int,
  Unsettled <- Unsettled,
  outcome <- [p \in 1..Bound |->
     IF p \in Promises /\ Settled(p)
     THEN [rej |-> promises[p].state = "rejected", value |-> promises[p].result] ELSE Unsettled],
  registered <- [p \in 1..Bound |-> IF p \in Promises THEN promises[p].registered ELSE 0],
  called <- [p \in 1..Bound |-> IF p \in Promises THEN calls[p] ELSE <<>>]

\* Whatever order resolutions, thens and jobs come in, promises keep what
\* AbstractPromise promises.
ImplementsPromise == Promised!Spec
=============================================================================
