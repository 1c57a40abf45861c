--------------------------- MODULE AsyncGenerator ---------------------------
(***************************************************************************)
(* An asynchronous generator object of quickjs.c.  next(), return() and    *)
(* throw() put a request with a promise on its queue, in any number at     *)
(* once; js_async_generator_resume_next works on the oldest.  The body is  *)
(* the program's: it may yield, await, return, throw, and call the methods *)
(* of its own generator while it runs.                                     *)
(*                                                                         *)
(* A request is answered by a call of its resolving function with an       *)
(* iterator result, and resolving looks up "then" on that: a getter of the *)
(* program may run, in the middle of the loop, and call the generator      *)
(* again.  Values are left out.  loop is the C function being in its for   *)
(* loop, body the call of async_func_resume it makes; otherwise other code *)
(* runs, that of the innermost getter if there is one.                     *)
(***************************************************************************)
EXTENDS Integers, Sequences

CONSTANTS MaxRequests,  \* bound on the calls of next(), return(), throw()
          MaxAwaits     \* bound on the awaits of the body

ASSUME BoundsAssumption == MaxRequests \in Nat /\ MaxAwaits \in Nat

VARIABLES
  state,     \* JSAsyncGeneratorStateEnum
  hasFunc,   \* func_state # NULL: the suspended body, with its frame
  queue,     \* the requests not answered, by number and type
  pc,        \* "code", "loop", "body", or "aborted" by an assertion
  getters,   \* the answers whose getter of "then" runs, the innermost first:
             \* what resume_next does after it
  awaiting,  \* the number of awaits whose job has not run
  returning, \* the number of awaited returns whose job has not run
  answer,    \* what the resolving functions of each request were called with
  asked,     \* the number of requests so far
  current,   \* history: the request that resumed the body last
  awaits,    \* the number of awaits so far
  overtaken  \* history: a loop went on after a getter and found the body at
             \* an await, where calls made by the getter had brought it

generatorVars ==
  <<state, hasFunc, queue, pc, getters, awaiting, returning, answer, asked, current, awaits, overtaken>>

Type == {"next", "return", "throw"}
Suspended == {"suspended_yield", "suspended_yield_star"}
Closed == state \in {"awaiting_return", "completed"}
Requests == 1..MaxRequests

\* No function of this file is in progress for the generator: jobs may run.
AtRest == pc = "code" /\ getters = <<>>

GeneratorInit ==
  /\ state = "suspended_start" /\ hasFunc = TRUE
  /\ queue = <<>>
  /\ pc = "code" /\ getters = <<>>
  /\ awaiting = 0 /\ returning = 0
  /\ answer = [r \in Requests |-> "none"]
  /\ asked = 0 /\ current = 0 /\ awaits = 0
  /\ overtaken = FALSE

-----------------------------------------------------------------------------
Next1 == Head(queue)

\* Mutant: the newest request is answered.
AnswerNewest(a) ==
  /\ answer' = [answer EXCEPT ![queue[Len(queue)].id] = a]
  /\ queue' = SubSeq(queue, 1, Len(queue) - 1)

\* js_async_generator_resolve_or_reject: off the queue, then the call.
AnswerOldest(a) ==
  /\ answer' = [answer EXCEPT ![Next1.id] = a]
  /\ queue' = Tail(queue)

\* js_async_generator_resolve: the getter of "then" runs, after it the loop
\* goes on again, or is left.
Resolve(a, then) ==
  /\ AnswerOldest(a)
  /\ pc' = "code" /\ getters' = <<then>> \o getters

\* js_async_generator_reject: no code of the program runs.
Reject(then) ==
  /\ AnswerOldest("error")
  /\ pc' = (IF then = "again" THEN "loop" ELSE "code")
  /\ UNCHANGED getters

\* The resolving function returns to js_async_generator_resolve.
GetterReturns ==
  /\ pc = "code" /\ getters # <<>>
  /\ getters' = Tail(getters)
  /\ pc' = IF Head(getters) = "again" THEN "loop" ELSE "code"
  /\ overtaken' = (overtaken \/ (Head(getters) = "again" /\ state = "executing"))
  /\ UNCHANGED <<state, hasFunc, queue, awaiting, returning, answer, asked, current, awaits>>

\* js_async_generator_complete
Complete == state' = "completed" /\ hasFunc' = FALSE

\* Mutant: resume_next is called whatever the state.
CallAlwaysResumes(t) ==
  /\ pc \in {"code", "body"} /\ asked < MaxRequests
  /\ asked' = asked + 1
  /\ queue' = Append(queue, [id |-> asked + 1, type |-> t])
  /\ pc' = "loop"
  /\ UNCHANGED <<state, hasFunc, getters, awaiting, returning, answer, current, awaits, overtaken>>

\* js_async_generator_next: from outside, from the body, or from a getter that
\* runs in the middle of a loop, which is then nested.
Call(t) ==
  /\ pc \in {"code", "body"} /\ asked < MaxRequests
  /\ asked' = asked + 1
  /\ queue' = Append(queue, [id |-> asked + 1, type |-> t])
  /\ pc' = IF state = "executing" THEN pc ELSE "loop"
  /\ UNCHANGED <<state, hasFunc, getters, awaiting, returning, answer, current, awaits, overtaken>>

-----------------------------------------------------------------------------
(* js_async_generator_resume_next: one turn of the loop for each state.    *)
(* What is left of the loop goes back to the code that called it.          *)

AtLoop(S) == pc = "loop" /\ queue # <<>> /\ state \in S

QueueEmpty ==
  /\ pc = "loop" /\ queue = <<>>
  /\ pc' = "code"
  /\ UNCHANGED <<state, hasFunc, queue, getters, awaiting, returning, answer, asked, current, awaits, overtaken>>

\* Whatever brought the loop here, the body is resumed.
ContinueAfterAwait ==
  /\ AtLoop({"executing"})
  /\ pc' = "body"
  /\ UNCHANGED <<state, hasFunc, queue, getters, awaiting, returning, answer, asked, current, awaits, overtaken>>

\* Mutant: AWAITING_RETURN falls through to resume_exec.
ReturnPendingRuns ==
  /\ AtLoop({"awaiting_return"})
  /\ pc' = "body"
  /\ UNCHANGED <<state, hasFunc, queue, getters, awaiting, returning, answer, asked, current, awaits, overtaken>>

ReturnPending ==
  /\ AtLoop({"awaiting_return"})
  /\ pc' = "code"
  /\ UNCHANGED <<state, hasFunc, queue, getters, awaiting, returning, answer, asked, current, awaits, overtaken>>

\* The first next() starts the body, any other request resumes it.
ResumeBody ==
  /\ AtLoop(Suspended \cup {"suspended_start"})
  /\ state = "suspended_start" => Next1.type = "next"
  /\ state' = "executing" /\ pc' = "body"
  /\ current' = Next1.id
  /\ UNCHANGED <<hasFunc, queue, getters, awaiting, returning, answer, asked, awaits, overtaken>>

CloseUnstarted ==
  /\ AtLoop({"suspended_start"}) /\ Next1.type # "next"
  /\ Complete
  /\ UNCHANGED <<queue, pc, getters, awaiting, returning, answer, asked, current, awaits, overtaken>>

\* One request is answered, and the loop is left whatever else is queued.
CompletedNext ==
  /\ AtLoop({"completed"}) /\ Next1.type = "next"
  /\ Resolve("done", "leave")
  /\ UNCHANGED <<state, hasFunc, awaiting, returning, asked, current, awaits, overtaken>>

CompletedThrow ==
  /\ AtLoop({"completed"}) /\ Next1.type = "throw"
  /\ Reject("leave")
  /\ UNCHANGED <<state, hasFunc, awaiting, returning, asked, current, awaits, overtaken>>

CompletedReturn ==
  /\ AtLoop({"completed"}) /\ Next1.type = "return"
  /\ state' = "awaiting_return" /\ returning' = returning + 1
  /\ pc' = "code"
  /\ UNCHANGED <<hasFunc, queue, getters, awaiting, answer, asked, current, awaits, overtaken>>

-----------------------------------------------------------------------------
(* What async_func_resume comes back with.                                 *)

\* The state is set before the request is answered.
BodyYields(s) ==
  /\ pc = "body"
  /\ state' = s /\ Resolve("value", "again")
  /\ UNCHANGED <<hasFunc, awaiting, returning, asked, current, awaits, overtaken>>

\* js_async_generator_await.  (Where it fails the body goes on with the error.)
BodyAwaits ==
  /\ pc = "body" /\ awaits < MaxAwaits
  /\ awaits' = awaits + 1
  /\ awaiting' = awaiting + 1 /\ pc' = "code"
  /\ UNCHANGED <<state, hasFunc, queue, getters, returning, answer, asked, current, overtaken>>

BodyReturns ==
  /\ pc = "body"
  /\ Complete /\ Resolve("done", "again")
  /\ UNCHANGED <<awaiting, returning, asked, current, awaits, overtaken>>

BodyThrows ==
  /\ pc = "body"
  /\ Complete /\ Reject("again")
  /\ UNCHANGED <<awaiting, returning, asked, current, awaits, overtaken>>

-----------------------------------------------------------------------------
(* The job that calls js_async_generator_resolve_function.                 *)

\* Mutant: resume_next is not called after await.
AwaitEndsOnly ==
  /\ AtRest /\ awaiting > 0 /\ state = "executing"
  /\ awaiting' = awaiting - 1
  /\ UNCHANGED <<state, hasFunc, queue, pc, getters, returning, answer, asked, current, awaits, overtaken>>

AwaitEnds ==
  /\ AtRest /\ awaiting > 0 /\ state = "executing"
  /\ awaiting' = awaiting - 1 /\ pc' = "loop"
  /\ UNCHANGED <<state, hasFunc, queue, getters, returning, answer, asked, current, awaits, overtaken>>

\* The assertion on the state fails.
AwaitAborts ==
  /\ AtRest /\ awaiting > 0 /\ state # "executing"
  /\ pc' = "aborted"
  /\ UNCHANGED <<state, hasFunc, queue, getters, awaiting, returning, answer, asked, current, awaits, overtaken>>

\* The value given to return() was awaited: nothing is resumed afterwards.
ReturnEnds ==
  /\ AtRest /\ returning > 0
  /\ returning' = returning - 1 /\ state' = "completed"
  /\ Resolve("done", "leave") \/ Reject("leave")
  /\ UNCHANGED <<hasFunc, awaiting, asked, current, awaits, overtaken>>

Loop ==
  \/ QueueEmpty \/ ContinueAfterAwait \/ ReturnPending \/ ResumeBody \/ CloseUnstarted
  \/ CompletedNext \/ CompletedThrow \/ CompletedReturn

Body == BodyAwaits \/ BodyReturns \/ BodyThrows \/ \E s \in Suspended : BodyYields(s)

GeneratorJob == AwaitEnds \/ AwaitAborts \/ ReturnEnds

GeneratorNext == Loop \/ Body \/ GetterReturns \/ GeneratorJob \/ \E t \in Type : Call(t)

GeneratorSpec == GeneratorInit /\ [][GeneratorNext]_generatorVars

\* The loop goes on, the body comes to its next yield, await or end, getters
\* return, and the promises that are awaited are settled.
FairSpec ==
  /\ GeneratorSpec
  /\ WF_generatorVars(Loop) /\ WF_generatorVars(Body)
  /\ WF_generatorVars(GetterReturns) /\ WF_generatorVars(GeneratorJob)

-----------------------------------------------------------------------------
(* Properties. *)

\* Every variable keeps to its range.
GeneratorTypeOK ==
  /\ state \in {"suspended_start", "executing"} \cup Suspended \cup {"awaiting_return", "completed"}
  /\ hasFunc \in BOOLEAN
  /\ queue \in Seq([id : Requests, type : Type])
  /\ pc \in {"code", "loop", "body", "aborted"}
  /\ getters \in Seq({"again", "leave"})
  /\ awaiting \in Nat /\ returning \in Nat
  /\ answer \in [Requests -> {"none", "value", "done", "error"}]
  /\ asked \in 0..MaxRequests /\ current \in 0..MaxRequests /\ awaits \in 0..MaxAwaits
  /\ overtaken \in BOOLEAN

\* A body at an await is resumed by the job of that await alone and the
\* assertion on the state holds in it, unless a loop overtook the await after
\* a getter.  The other assertion of js_async_generator_resolve_function
\* always holds; a request is taken off the queue only when there is one, and
\* func_state, resumed or freed, is there.
AssertsHold ==
  /\ ~overtaken => /\ pc # "aborted"
                   /\ awaiting > 0 => awaiting = 1 /\ state = "executing" /\ pc # "body"
  /\ returning > 0 => returning = 1 /\ state = "awaiting_return"
  /\ returning > 0 \/ pc = "body" => queue # <<>>
  /\ pc = "body" => state = "executing"
  /\ hasFunc <=> ~Closed

\* The queue is exactly the requests whose resolving function was not called,
\* in the order they were made: each is answered once, and none before an
\* older one.  (The promise of the older one may still be settled later, when
\* the getter that runs for it makes the loop answer the next.)
AnswersInOrder ==
  \E n \in 0..asked :
    /\ Len(queue) = asked - n
    /\ \A i \in 1..Len(queue) : queue[i].id = n + i
    /\ \A r \in Requests : answer[r] # "none" <=> r <= n

\* The body runs, and awaits, on behalf of the request that resumed it: what
\* it yields answers that request, whatever was asked meanwhile.
OwnAnswer == state = "executing" => queue # <<>> /\ Next1.id = current

\* Requests are answered once, in order, and by what the body does for them,
\* also by the loops that getters nest.
AnswersExact == GeneratorTypeOK /\ AnswersInOrder /\ OwnAnswer

\* A generator that has ended never runs again and yields no more values.
ClosedForGood ==
  [][Closed => Closed' /\ \A r \in Requests : answer'[r] = "value" => answer[r] = "value"]_generatorVars

\* doc/quickjs.texi:39 counts asynchronous generators among what is
\* supported: each request is answered once the body and what it awaits end.
Answered == \A r \in Requests : asked >= r ~> answer[r] # "none"

\* Requests left in the queue of a generator that has ended and is at rest.
Backlog == AtRest /\ state = "completed" /\ queue # <<>>

\* Every request is answered, unless there is once a backlog at the end, or
\* the program is aborted.
AnsweredUnlessBacklog == <>Backlog \/ <>(pc = "aborted") \/ Answered

\* The assertion at quickjs.c:19546: when the job of an await runs, the
\* generator is still executing.
AwaitedExecuting == AtRest /\ awaiting > 0 => state = "executing"
=============================================================================
