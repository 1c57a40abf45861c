----------------------------- MODULE EventLoop -----------------------------
(***************************************************************************)
(* The event loop of quickjs-libc.c: js_std_loop, js_os_poll, timers,      *)
(* handlers of file descriptors, signal handlers, and what becomes of the  *)
(* functions they hold when the program drops them, replaces them or is    *)
(* interrupted by the collector.                                           *)
(*                                                                         *)
(* The program is arbitrary: whatever runs (the script, a job, a callback) *)
(* takes any of the actions below any number of times.  A timer t stands   *)
(* for a JSOSTimer and for the object that represents it; a job is only    *)
(* counted.  The main thread of a program without workers: the ports, the  *)
(* third list that select serves, are in WorkerPipe.                       *)
(***************************************************************************)
EXTENDS Integers, Sequences, FiniteSets, SequencesExt

CONSTANTS Func, Timer, Fd, Signal,
          None,
          Resolve,     \* the resolving function os.sleepAsync gives a timer
          MaxDelay,    \* bound on delays
          MaxJobs,     \* bound on the jobs that wait
          MaxPending   \* bound on the timers and handlers set at once

ASSUME LoopAssumption ==
  /\ MaxDelay \in Nat /\ MaxJobs \in Nat
  /\ Func \cap Timer = {} /\ None # Resolve /\ {None, Resolve} \cap (Func \cup Timer) = {}

VARIABLES
  pc,        \* where js_std_loop is
  running,   \* the function call_handler calls
  jobs,      \* rt->job_list
  th,        \* the JSOSTimer structures allocated
  timers,    \* ts->os_timers
  rw,        \* ts->os_rw_handlers
  handlers,  \* ts->os_signal_handlers
  pending,   \* os_pending_signals
  loaded,    \* the value of it that "&= ~mask" has read
  owed,      \* history: the signals that came since their last call
  alive,     \* the functions and timer objects not freed
  held,      \* the timer objects in variables outside these functions
  closure    \* the timer object in the closure of a function, or None

lists == <<timers, rw, handlers>>
objects == <<alive, held, closure>>
signals == <<pending, loaded, owed>>
vars == <<pc, running, jobs, th, lists, objects, signals>>

Linked == ToSet(timers)
Funcs(rh) == {rh.func[0], rh.func[1]} \ {None}
Busy == pc \in {"script", "job", "call"}
Ended == pc \in {"over", "failed", "closed", "ended", "undefined"}

\* The timers that the code that runs can name.
Known == held \cup IF running = None THEN {} ELSE {closure[running]} \ {None}

\* One of S that is not in use: which one makes no difference.
Fresh(S, used) == IF S \subseteq used THEN {} ELSE {CHOOSE x \in S : x \notin used}

Init ==
  /\ pc = "script" /\ running = None /\ jobs = 0
  /\ th = [t \in {} |-> None] /\ timers = <<>> /\ rw = <<>> /\ handlers = <<>>
  /\ pending = {} /\ loaded = {} /\ owed = {}
  /\ alive = {} /\ held = {} /\ closure = [f \in Func |-> None]

-----------------------------------------------------------------------------
(* References.                                                             *)

\* Wrong: call_handler does not take a reference of its own.
RefsOfLists ==
  held \cup {h.func : h \in ToSet(handlers)} \cup UNION {Funcs(rh) : rh \in ToSet(rw)}

\* What the program, the lists of handlers and call_handler refer to.
Refs ==
  held \cup ({running} \ {None}) \cup {h.func : h \in ToSet(handlers)}
       \cup UNION {Funcs(rh) : rh \in ToSet(rw)}

\* Timers whose function was freed under them.
Dangling == {t \in DOMAIN th : th[t].func \notin alive \cup {None, Resolve}}

\* Every member of S is referred to: by refs, by a timer that is linked or
\* represented by a member of S, or from the closure of one.
ReferredTo(S, refs, tab, var, linked) ==
  \A x \in S : \/ x \in refs
               \/ \E t \in DOMAIN tab : tab[t].func = x /\ (t \in linked \/ t \in S)
               \/ \E f \in S \cap Func : x = var[f]

\* Wrong: the timer is left to the loop, linked or not.
FinalizedLeaking(tab, S, linked) ==
  [t \in DOMAIN tab |-> [tab[t] EXCEPT !.hasObject = @ /\ t \in S]]

\* js_os_timer_finalizer, for every timer object not in S.
Finalized(tab, S, linked) ==
  [t \in {u \in DOMAIN tab : tab[u].hasObject => u \in S \cup linked} |->
     [tab[t] EXCEPT !.hasObject = @ /\ t \in S]]

\* The objects left are those of S.
Only(S, var) ==
  /\ alive' = S
  /\ closure' = [f \in Func |-> IF f \in S THEN var[f] ELSE None]

\* JS_FreeValue: what has no reference left goes, and what only that
\* referred to; cycles stay.
Release(tab, var) ==
  \E refs \in {Refs'}, linked \in {ToSet(timers')} :
  \E S \in {{x \in alive \cup refs : \E T \in SUBSET (alive \cup refs) :
                x \in T /\ ReferredTo(T, refs, tab, var, linked)}} :
    /\ Only(S, var)
    /\ th' = Finalized(tab, S, linked)

\* JS_RunGC: js_os_timer_mark gives the object of a timer as the holder of
\* its function, whether the timer is pending or not; what a timer without an
\* object holds is referred to by nobody the collector knows, and stays.
Marks(S) ==
  {closure[f] : f \in S \cap Func}
    \cup {th[t].func : t \in {u \in DOMAIN th : th[u].hasObject => u \in S}}

Marked ==
  {x \in alive : \A S \in SUBSET alive : (Refs \cup Marks(S)) \cap alive \subseteq S => x \in S}

Collect ==
  /\ Busy
  /\ \E S \in {Marked} \ {alive} :
       /\ Only(S, closure)
       /\ th' = Finalized(th, S, Linked)
  /\ UNCHANGED <<pc, running, jobs, lists, held, signals>>

-----------------------------------------------------------------------------
(* What the program does.                                                  *)

\* A function given to the loop is new, or the one that runs.
Given == (IF running = None THEN {} ELSE {running}) \cup Fresh(Func, alive \cup {th[t].func : t \in DOMAIN th})

\* A timer goes out of scope.
Forget(t) ==
  /\ Busy /\ t \in held
  /\ held' = held \ {t}
  /\ UNCHANGED <<pc, running, jobs, lists, signals>>
  /\ Release(th, closure)

\* A variable of the closure of f is assigned the timer.
Capture(f, t) ==
  /\ Busy /\ f \in alive /\ t \in Known /\ closure[f] # t
  /\ UNCHANGED <<pc, running, jobs, lists, held, signals>>
  /\ Release(th, [closure EXCEPT ![f] = t])

\* One more timer or handler keeps within the bound.
Room ==
  MaxPending > Len(timers) + Len(handlers)
               + Cardinality({h \in (DOMAIN rw) \X (0..1) : rw[h[1]].func[h[2]] # None})

NewTimer(t, f, d, hasObject) ==
  /\ Busy /\ Room /\ t \in Fresh(Timer, DOMAIN th \cup alive)
  /\ th' = [u \in DOMAIN th \cup {t} |->
       IF u = t THEN [func |-> f, delay |-> d, hasObject |-> hasObject] ELSE th[u]]

\* Wrong: the new timer is put in front.
SetTimeoutFirst(t, f, d) ==
  /\ NewTimer(t, f, d, TRUE) /\ f \in Given
  /\ timers' = <<t>> \o timers
  /\ alive' = alive \cup {t, f} /\ held' = held \cup {t}
  /\ UNCHANGED <<pc, running, jobs, rw, handlers, closure, signals>>

\* js_os_setTimeout: the handle is the program's.
SetTimeout(t, f, d) ==
  /\ NewTimer(t, f, d, TRUE) /\ f \in Given
  /\ timers' = Append(timers, t)
  /\ alive' = alive \cup {t, f} /\ held' = held \cup {t}
  /\ UNCHANGED <<pc, running, jobs, rw, handlers, closure, signals>>

\* js_os_sleepAsync
SleepAsync(t, d) ==
  /\ NewTimer(t, Resolve, d, FALSE)
  /\ timers' = Append(timers, t)
  /\ UNCHANGED <<pc, running, jobs, rw, handlers, objects, signals>>

\* js_os_clearTimeout
ClearTimeout(t) ==
  /\ Busy /\ t \in Known \cap Linked
  /\ \E i \in DOMAIN timers : timers[i] = t /\ timers' = RemoveAt(timers, i)
  /\ th' = [th EXCEPT ![t].delay = 0]
  /\ UNCHANGED <<pc, running, jobs, rw, handlers, objects, signals>>

\* js_os_setReadHandler, magic 0 for reading and 1 for writing.
SetRwHandler(fd, magic, f) ==
  LET i == SelectInSeq(rw, LAMBDA rh : rh.fd = fd)
      rh == IF i = 0 THEN [fd |-> fd, func |-> [m \in 0..1 |-> None]] ELSE rw[i]
      new == [rh EXCEPT !.func[magic] = f] IN
  /\ Busy /\ f \in {None} \cup IF Room THEN Given ELSE {}
  /\ rh.func[magic] # f
  /\ rw' = IF i = 0 THEN Append(rw, new)
           ELSE IF Funcs(new) = {} THEN RemoveAt(rw, i) ELSE [rw EXCEPT ![i] = new]
  /\ UNCHANGED <<pc, running, jobs, timers, handlers, held, signals>>
  /\ Release(th, closure)

\* js_os_signal: null, which ends the process, and undefined are alike here.
SetSignal(s, f) ==
  LET i == SelectInSeq(handlers, LAMBDA sh : sh.sig = s)
      new == [sig |-> s, func |-> f] IN
  /\ Busy /\ f \in {None} \cup IF Room THEN Given ELSE {}
  /\ i # 0 \/ f # None
  /\ handlers' = IF f = None THEN RemoveAt(handlers, i)
                 ELSE IF i = 0 THEN Append(handlers, new) ELSE [handlers EXCEPT ![i] = new]
  /\ UNCHANGED <<pc, running, jobs, timers, rw, held, signals>>
  /\ Release(th, closure)

\* JS_EnqueueJob
Enqueue ==
  /\ Busy /\ jobs < MaxJobs
  /\ jobs' = jobs + 1
  /\ UNCHANGED <<pc, running, th, lists, objects, signals>>

\* Wrong: the signal is marked as seen after the call.
ReturnClearing(threw) ==
  /\ Busy
  /\ pc' = CASE pc = "script" /\ threw -> "failed"
             [] pc = "job" /\ threw -> "signals"
             [] OTHER -> "jobs"
  /\ running' = None
  /\ pending' = IF pc = "call" THEN {} ELSE pending
  /\ UNCHANGED <<jobs, lists, held, loaded, owed>>
  /\ Release(th, closure)

\* The script, the job or the callback ends, with an exception or not:
\* an exception of the script ends the program, one of a job the inner loop.
Return(threw) ==
  /\ Busy
  /\ pc' = CASE pc = "script" /\ threw -> "failed"
             [] pc = "job" /\ threw -> "signals"
             [] OTHER -> "jobs"
  /\ running' = None
  /\ UNCHANGED <<jobs, lists, held, signals>>
  /\ Release(th, closure)

-----------------------------------------------------------------------------
(* The loop.                                                               *)

Step(from, to) == pc = from /\ pc' = to

\* JS_ExecutePendingJob
RunJob ==
  /\ Step("jobs", "job") /\ jobs > 0
  /\ jobs' = jobs - 1
  /\ UNCHANGED <<running, th, lists, objects, signals>>

NoJob ==
  /\ Step("jobs", "signals") /\ jobs = 0
  /\ UNCHANGED <<running, jobs, th, lists, objects, signals>>

Raised == SelectInSeq(handlers, LAMBDA sh : sh.sig \in pending)

\* js_os_poll: the first handler of a signal that came is called; the word is
\* read here and written by Acknowledge.
FindSignal ==
  /\ Step("signals", "ack") /\ Raised # 0
  /\ loaded' = pending
  /\ UNCHANGED <<running, jobs, th, lists, objects, pending, owed>>

Acknowledge ==
  /\ Step("ack", "call")
  /\ LET sh == handlers[SelectInSeq(handlers, LAMBDA h : h.sig \in loaded)] IN
     /\ running' = sh.func
     /\ pending' = loaded \ {sh.sig}
     /\ owed' = owed \ {sh.sig}
  /\ loaded' = {}
  /\ UNCHANGED <<jobs, th, lists, objects>>

NoSignal ==
  /\ pc = "signals" /\ Raised = 0
  /\ pc' = IF rw = <<>> /\ timers = <<>> THEN "over" ELSE "timers"
  /\ UNCHANGED <<running, jobs, th, lists, objects, signals>>

Expired == SelectInSeq(timers, LAMBDA t : th[t].delay = 0)

\* The first timer that has expired is unlinked, freed when it has no object,
\* and its function called.  Resolving the promise of sleepAsync may make a
\* job; a function freed under the timer may do anything.
FireTimer ==
  /\ pc = "timers" /\ Expired # 0
  /\ LET t == timers[Expired]
         f == th[t].func IN
     /\ timers' = RemoveAt(timers, Expired)
     /\ th' = [u \in {v \in DOMAIN th : v # t \/ th[v].hasObject} |->
                 IF u = t THEN [th[u] EXCEPT !.func = None] ELSE th[u]]
     /\ \/ /\ t \in Dangling
           /\ pc' = "undefined" /\ UNCHANGED <<running, jobs>>
        \/ /\ f = Resolve
           /\ pc' = "jobs" /\ jobs' \in {jobs, jobs + 1} \cap 0..MaxJobs
           /\ UNCHANGED running
        \/ /\ f \in alive
           /\ pc' = "call" /\ running' = f /\ UNCHANGED jobs
  /\ UNCHANGED <<rw, handlers, objects, signals>>

NoTimer ==
  /\ Step("timers", "select") /\ Expired = 0
  /\ UNCHANGED <<running, jobs, th, lists, objects, signals>>

\* select: any of the descriptors asked for may be ready; the first in the
\* order of the list, reading first, is served.
Ready(R) ==
  LET i == SelectInSeq(rw, LAMBDA rh : \E m \in 0..1 : <<rh.fd, m>> \in R)
      m == IF <<rw[i].fd, 0>> \in R THEN 0 ELSE 1 IN
  /\ Step("select", "call")
  /\ R # {} /\ \A r \in R : \E rh \in ToSet(rw) : r[1] = rh.fd /\ rh.func[r[2]] # None
  /\ running' = rw[i].func[m]
  /\ UNCHANGED <<jobs, th, lists, objects, signals>>

\* The delay of the nearest timer is over, or the ten seconds it is cut to,
\* or almost: times are in whole milliseconds.
Timeout ==
  /\ Step("select", "jobs") /\ timers # <<>>
  /\ UNCHANGED <<running, jobs, th, lists, objects, signals>>

\* os_signal_handler, at any time; select is interrupted.  A signal that comes
\* between the two halves of "&= ~mask" is not entered in owed.
Deliver(s) ==
  /\ ~Ended /\ \E sh \in ToSet(handlers) : sh.sig = s
  /\ pending' = pending \cup {s}
  /\ owed' = IF pc = "ack" THEN owed ELSE owed \cup {s}
  /\ pc' = IF pc = "select" THEN "jobs" ELSE pc
  /\ UNCHANGED <<running, jobs, th, lists, objects, loaded>>

Tick ==
  /\ \E t \in Linked : th[t].delay > 0
  /\ th' = [t \in DOMAIN th |-> IF t \in Linked /\ th[t].delay > 0
                                THEN [th[t] EXCEPT !.delay = @ - 1] ELSE th[t]]
  /\ UNCHANGED <<pc, running, jobs, lists, objects, signals>>

\* js_std_free_handlers, at the end of the loop or after a script that failed.
FreeHandlers ==
  /\ pc \in {"over", "failed"}
  /\ pc' = IF Dangling = {} THEN "closed" ELSE "undefined"
  /\ timers' = <<>> /\ rw' = <<>> /\ handlers' = <<>>
  /\ UNCHANGED <<running, jobs, held, signals>>
  /\ Release([t \in {u \in DOMAIN th : th[u].hasObject} |-> th[t]], closure)

\* JS_FreeContext and JS_FreeRuntime: every object is finalized.
FreeRuntime ==
  /\ Step("closed", "ended")
  /\ Only({}, closure) /\ held' = {} /\ jobs' = 0
  /\ th' = Finalized(th, {}, {})
  /\ UNCHANGED <<running, lists, signals>>

Program ==
  \/ \E t \in Timer :
       \/ Forget(t) \/ ClearTimeout(t)
       \/ \E f \in Func : Capture(f, t)
       \/ \E d \in 0..MaxDelay : SleepAsync(t, d) \/ \E f \in Func : SetTimeout(t, f, d)
  \/ \E f \in Func \cup {None} :
       \/ \E fd \in Fd, magic \in 0..1 : SetRwHandler(fd, magic, f)
       \/ \E s \in Signal : SetSignal(s, f)
  \/ Enqueue \/ Collect

Loop ==
  \/ RunJob \/ NoJob \/ FindSignal \/ Acknowledge \/ NoSignal \/ FireTimer \/ NoTimer
  \/ Timeout \/ \E R \in SUBSET (Fd \X (0..1)) : Ready(R)
  \/ FreeHandlers \/ FreeRuntime

Next ==
  \/ Program \/ Loop \/ Tick
  \/ \E threw \in BOOLEAN : Return(threw)
  \/ \E s \in Signal : Deliver(s)

Spec == Init /\ [][Next]_vars

\* The loop goes on and time passes; nothing is asked of the program.
FairSpec ==
  /\ Spec
  /\ WF_vars(Loop) /\ WF_vars(Tick)

-----------------------------------------------------------------------------
(* Properties.                                                             *)

TypeOK ==
  /\ pc \in {"script", "job", "call", "jobs", "signals", "ack", "timers", "select",
             "over", "failed", "closed", "ended", "undefined"}
  /\ running \in Func \cup {None} /\ jobs \in 0..MaxJobs
  /\ DOMAIN th \subseteq Timer
  /\ \A t \in DOMAIN th : th[t] \in
       [func : Func \cup {None, Resolve}, delay : 0..MaxDelay, hasObject : BOOLEAN]
  /\ alive \subseteq Func \cup Timer /\ held \subseteq alive
  /\ closure \in [Func -> Timer \cup {None}]
  /\ pending \cup loaded \cup owed \subseteq Signal

\* A function that a handler holds, or that is being called, has not been
\* freed, whatever the program drops, replaces or clears while it runs
\* (call_handler); a timer loses its function only when the collector took
\* its object while it was pending (js_os_timer_mark).
HandlersAlive ==
  /\ running \in alive \cup {None}
  /\ \A sh \in ToSet(handlers) : sh.func \in alive
  /\ \A rh \in ToSet(rw) : Funcs(rh) \subseteq alive /\ Funcs(rh) # {}
  /\ \A f \in alive \cap Func : closure[f] \in alive \cup {None}
  /\ \A t \in Dangling : t \in Linked /\ ~th[t].hasObject

\* A JSOSTimer is freed once, and exactly when it is neither pending nor
\* represented by an object, whichever of the two ends first; the end of the
\* program leaves none (unlink_timer, free_timer, js_os_timer_finalizer).
TimersExact ==
  /\ TypeOK
  /\ DOMAIN th = Linked \cup {t \in DOMAIN th : th[t].hasObject}
  /\ alive \cap Timer = {t \in DOMAIN th : th[t].hasObject}
  /\ \A i, j \in DOMAIN timers : timers[i] = timers[j] => i = j
  /\ pc = "ended" => DOMAIN th = {}

\* A signal that came is not forgotten before its handler is called again,
\* unless it came while os_pending_signals was being written back: one that
\* comes during the call of its handler leads to another call.
SignalsKept == \A s \in owed : s \in pending

\* A pending timer is called or cleared, whatever other timers are set meanwhile
\* and whatever descriptors are ready: only signals or code that never cease
\* can hold it up (the order of os_timers, and of the steps of js_os_poll).
TimersServed ==
  \/ \A t \in Timer : t \in Linked ~> t \notin Linked \/ Ended
  \/ []<>(pc = "ack")
  \/ <>[](Busy \/ pc = "jobs")
=============================================================================
