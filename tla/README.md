# A verification development for video-downloader-packages

The repository builds FFmpeg, Python and QuickJS for Android, wraps each in an
APK and publishes it. Its own code is a release workflow and a handful of
shell scripts; the bulk of its source is an in-tree copy of the QuickJS engine
(2024-01-13), one of the three programs that are shipped. This directory holds
TLA+ models of both, TLC configurations that check them on small instances,
and proofs that TLAPS checks. Paths below are relative to the repository; QJS
stands for `quickjs_package/quickjs-2024-01-13`.

## 1. The system

| part | state it keeps | operations | what is hard | what makes it correct |
|---|---|---|---|---|
| Release workflow (`.github/workflows/master.yml`) | runs and their jobs, refs, release assets | pushes of main and of tags, manual runs, check, build, sign, upload | overlapping runs, moved tags, steps that fail half-way, three overlapping conditions | the right package on the right tag; nothing unsigned called signed; the release is that of the tag's commit |
| Build scripts (`*/build_*.sh`) | files and directories, tested for existence | download, unpack, make, copy | interruption anywhere, then a rerun | a run that ends well has left whole outputs |
| Local packaging (`*/package_apk.sh`, `fix_apk_permissions.sh`) | an APK | test for the binaries, Gradle, repair of permissions | interruption, outputs of an interrupted build | whole outputs give a whole APK, executable for FFmpeg |
| Memory manager (QJS `quickjs.c` 5390-5850) | headers with counts, marks and three lists | dup, free, `free_zero_refcount`, `JS_RunGC` | frees during frees, three passes that borrow the counts, headers freed by others | exact counts, no dangling pointer, all garbage found, nothing else touched |
| Worker threads (QJS `quickjs-libc.c` 2180-2400, 3190-3690) | message queues, wake-up bytes, atomic counts | `new Worker`, `postMessage`, `onmessage`, finalizers, the poll loop | real threads; the queue and the Unix pipe must agree; last references | no lost message, no blocking under a lock, no use after free, no leak |
| Modules (QJS `quickjs.c` 27190-28960, 34270-34360) | the list of modules, states, dependency counters, promises | load, link, evaluate, end of an awaited body | cycles, top-level await, failures half-way, repeated imports | once each, dependencies first, promises truthful and settled |
| Asynchronous generators (QJS `quickjs.c` 19195-19640) | state, queue of requests | `next`, `return`, `throw`, resume, await | re-entrance from the body and from getters that an answer runs, requests during awaits | answered once, in order |
| Promises, async functions and the job queue (QJS `quickjs.c` 1800-1880, 19050-19190, 47690-48700) | state, reactions, resolving functions, jobs | `resolve`, `reject`, `then`, `finally`, `all` and its kin, `await`, jobs | program code runs in getters, foreign `then`s and handlers in the middle of an operation; functions kept and called again | settled once, by one way; every reaction called once, in order, with the outcome |
| Event loop (QJS `quickjs-libc.c` 1855-2390, 3830-3970) | lists of timers, descriptors and signals; a word of pending signals | `setTimeout`, `clearTimeout`, `sleepAsync`, `setReadHandler`, `signal`, one round of `js_std_loop` | handlers that replace or drop themselves, collections, signals at any instant | nothing freed is called, timers freed once and served, signals kept |
| Map and Set (QJS `quickjs.c` 46730-47520) | a list of counted records, a hash table, iterators | `set`, `delete`, `clear`, `forEach`, iterators, finalizers | change while it is gone through, by callbacks and by finalizers | counts exact; iteration in order, each entry once |
| WeakMap and WeakSet (the same) | records in the list of their map and of their key | `set`, `delete`, freeing of maps and keys | records are taken away in the middle of freeing or collecting either side | both lists agree; no entry of a key in use is lost |
| Atomics, shapes and atoms, array buffers, synchronous generators (QJS) | lists, tables and counters | - | waiters on one mutex; else one call at a time | not modelled, see section 7 |
| Interpreter, parser, serialisation, regular expressions, big numbers, Unicode tables, command line tools (QJS) | none between calls, or the heap | - | sequential algorithms | not modelled, see section 7 |

Interactions. The workflow runs the build scripts on a fresh machine and the
same Gradle projects as the packaging scripts. Inside QuickJS every component
stands on the memory manager (its finalizers run in the middle of freeing) and
on the job queue: an `import()` and the continuation of an `await` are jobs,
run one at a time by the event loop, which between jobs polls timers, file
descriptors and the message pipes of workers. A job of a promise may call the
program, which may do anything to any component but enter the loop. A worker
thread is a runtime of its own and shares with the others only pipes and array
buffers.

Each hazard, with its line and the properties that would show it, is in
`PROJECT.json`.

## 2. The plan

Done, in this order, the most consequential code first:

1. `CycleGC` against `AbstractHeap`, with all its safety proved.
2. `ReleasePipeline`, with all its safety proved.
3. `WorkerPipe`, with its pipe safety proved.
4. `BuildScripts`, with the packaging scripts, with all its safety proved.
5. `ModuleLoad`, then `ModuleEval`, with all their safety proved.
6. `AsyncGenerator`, with its safety proved.
7. `PromiseJobs` against `AbstractPromise`, with its safety proved.
   `ModuleEval` and `AsyncGenerator` rely on what it shows.
8. `MapTable` against `AbstractMap`, and `WeakTable` on top of `HeapGraph`, the
   latter with its safety proved.
9. `EventLoop`, with its safety proved.

Left, most useful first:

10. The resolution of export names (`js_resolve_export1`) against the relation
    of ECMA-262, as operators over bounded graphs.
11. Synchronous generators (`js_generator_next`) next to `AsyncGenerator`.
12. Waiters of Atomics; the shared-shape and atom tables.

## 3. The modules

### HeapGraph, AbstractHeap, CycleGC
`HeapGraph` declares what both heaps have: headers, cells (fields and locals),
reachability. `CycleGC` is the code: `New`, `Dup`, `Store`, `Drop` are what a
program does to references; the rest is the manager, one step per turn of a
list loop or per child reported by `mark_children`. Two kinds of header are
told apart because the collector treats them differently: those it frees
(`Objects`) and closure variables and shapes (`Passive`), which go with the
last garbage that refers to them. The order of the intrusive lists is
abstracted: a pass may take any member it has not visited. `subtracted` is a
history variable: the fields whose reference a pass has taken off a count.

`AbstractHeap` has no counts and no passes, only the graph the program can
reach. `CycleGC` implements it under `view <- Trim(ref)`.

Allocation may fail nowhere in this model, and what a finalizer releases is a
field. What weak maps add to freeing is in `WeakTable`.

### WorkerPipe
Threads run arbitrary scripts (`Script`), return to their loop, and then follow
`js_os_poll` and `handle_posted_message` step by step (`Runtime`). The mutex,
the queue and the byte in the Unix pipe are separate variables, and the steps
of a critical section are separate actions, so that all interleavings exist.
`release[t][p]` are the references a thread is in the middle of giving back:
each decrement of an atomic counter is a step. The count a shared buffer ought
to have is the size of three sets: its objects in all threads (`Objects`), the
threads with a message that carries it in hand (`Hands`) and the places of such
messages in the queues (`InQueues`). `before` is the order of `port_list`, by
which `js_os_poll` looks at the pipes. Signals, expired timers and ready
descriptors are served before it does (`Serve`); `others` tells whether
`os_timers` or `os_rw_handlers` holds anything, which is what decides, with the
ports, whether a thread has no more events. `pthread_create` may fail
(`NewWorkerFails`): what the worker and its object would have held is then given
back, reference by reference.

### ModuleLoad, ModuleEval
Both walks are recursive C functions; `frames` is their call stack and a step
is one turn of their loop (`calls` in `ModuleLoad`, whose names are kept apart
from those of `ModuleEval` because `ModuleProofs` extends both). `ModuleLoad` has the files come and go between
imports. In `ModuleEval` the text of each module is arbitrary (what it imports
in which order, whether it has a top-level await, whether it imports a missing
name), its body may throw, and a body with an await ends in any later job.
`Stale` names the one state after which promises may remain unsettled.

### AsyncGenerator
One generator. `pc` tells whether the loop of `js_async_generator_resume_next`
is running, or inside it the body, or other code. To answer a request is to call
its resolving function with an iterator result (`quickjs.c:19344`), which looks
up `then` on it (`:47937`): a getter of the program may run in the middle of the
loop. `getters` has one place for each, with what the loop does after
it: another turn, or none. `Call` is any of the three methods, from outside,
from the body, or from such a getter; where the state lets it, it starts a loop
of its own, inside the one that waits for the getter. `answer` is what the
resolving functions were called with, so that "answered" is that call: the
promise of an older request may be settled after that of a newer one, when its
getter makes the inner loop answer the newer. `awaiting` and `returning` count
the awaits and the awaited returns whose jobs have not run. `overtaken` is a
history variable: a loop went on after a getter and found the body waiting at an
`await` to which a call of the getter had brought it. The loop takes this for the
end of the await and resumes the body (`:19432`); the properties say what still
holds then, and section 6 what does not.

Its specification is `GeneratorSpec`, that of `WeakTable` `WeakSpec` and that of
`BuildScripts` `BuildSpec`, because `AsyncProofs`, `MCCollections` and
`MCDelivery`, among others, each extend two specifications.

### AbstractPromise, PromiseJobs
A promise is its number. `stack` holds the calls in progress that run the
program's code or wait for it: the script, a handler, a getter of `then`, a
foreign `then`, a function given to `finally`, an async function, the loop of
`js_promise_all`. At each of those points the program may do any of its
operations, and call any function of the engine it was ever given (`held`), any
number of times. `pairs` are the resolving functions, two to a pair with one
flag; `combos` the counters of `all`, `allSettled`, `any` and `race`.
Values are plain, thenable or promises. `PromiseJobs` implements
`AbstractPromise`, which has no jobs and no flags: an outcome per promise, and
what its reactions were called with, in the order of registration.

### AbstractMap, MapTable
Records are numbered in the order they are made; `rec` keeps those that were
freed, so that a use of one shows in `stale`. The list, the hash table,
`record_count` and the counts of records are separate. What a record holds may
be an iterator over the same map, whose finalizer comes back to the records in
the middle of `clear` and `forEach`: that is what makes the order of their
lines matter. `MapTable` implements `AbstractMap`, a sequence with gaps in
which iterators and `forEach` calls are places.

### WeakTable
The heap of `HeapGraph` with some objects that are weak maps. A record is known
by its map and its key; `inMap` and `inKey` are the two lists. Freeing one
object (`FreeObject`) is a step, with what it does to fields, to records in
which it is the key and, for a map, to its own. The passes of the collector,
which `CycleGC` has one by one, are here what they find (`GarbageNow`), and the
freeing of garbage goes object by object in any order. `Visible` is what a
program can get at: a value only with both its map and its key. `left` is a
history variable: the values that a collection did not free with their keys.

### EventLoop
`pc` is the place in `js_std_loop` and `js_os_poll`; `pc = "call"` is a
handler, `"script"` and `"job"` are other code of the program, which may set,
clear and replace handlers, drop its references and have a collection run. `th`
are the `JSOSTimer` structures, `timers` the list of pending ones, `alive` the
objects that have not been freed, `closure` a reference each function may hold,
to a timer object. `Release` frees what has lost its last reference, finalizers
included. A signal may come at any step. `loaded` is the word of pending
signals as read by `os_pending_signals &= ~mask`, between its two halves;
`owed` is a history variable: the signals that came outside that window and
wait for their handler.

### ReleasePipeline
A run is an event, a ref, a commit, the boxes ticked and the packages changed.
`Wanted`, `BuildFfmpegIf` and the like are the `if:` conditions, clause by
clause. Checkout, Gradle, apksigner and the release action are external: they
do what the workflow relies on, or fail. `raced` is a history variable: the
tags on which a run started while another one was under way.

### BuildScripts
The build script and the packaging script of each package. Each script is a
sequence of blocks, a block a test for a file and a sequence of steps; the
scripts are data, the shell is the actions. A file is absent, complete or
broken; an interrupted step leaves its output broken or not there. An APK may
also be stripped of execute permissions, until `fix_apk_permissions.sh` has
rewritten it.

### MC modules
`MCCycleGC`, `MCWorkers`, `MCModuleLoad`, `MCModuleEval`, `MCCollections` and
`MCDelivery` give the constants values and define symmetry where a run uses it.
The last two put two specifications side by side, for one run each: a behaviour
is one of the two, and the other stays as it begins. `MCWorkers` keeps only some
of the steps that scripts may take, because two threads and a main thread with
arbitrary scripts are too many for a check of liveness; what the runtime does,
the return of scripts and their fairness are those of `WorkerPipe`. Operators named as mutants or
introduced with "Wrong:" are plausible mistakes in the code; no specification
uses them. They stand next to the definition they vary, and each property has
one that breaks it.

## 4. The runs

| run | instance | shows |
|---|---|---|
| `cycle_gc` | 2 objects (two fields and one), 1 passive header with one field, 2 locals | counts exact, nothing dangles, assertions hold, frees are prompt (`HeapExact`, `AssertsHold`), all garbage is found, the heap is abstract, calls return |
| `delivery` | both scripts of three packages, 2 interruptions; or 2 tags of two families, 2 commits, 2 runs, good and bad keys | scripts: reruns use no half-unpacked sources, undo nothing, and (but for the build of Python) end well only with whole outputs and a whole APK. Workflow: the right package, signed means signed, the release is that of the tag's commit when runs do not overlap, a tag run publishes or fails |
| `worker_pipe` | 1 worker, 2 buffers, queues of 2, at most 2 references when posting, `pthread_create` may fail | the safety of pipes, queues and buffers |
| `worker_delivery` | 2 workers, queues of 1, no buffers, the scripts of `MCWorkers` | messages are delivered, unless signals, timers, descriptors or an earlier port keep the loop busy |
| `module_load` | 3 names, 3 imports, 2 file changes, every graph | the list is complete, without cycles nothing freed is referred to |
| `module_eval` | 3 modules (taken by number of imports: names do not matter), 3 imports, every graph, every placement of awaits | once each, dependencies first, truthful promises, failures known at cycle roots, consistent linking, imports settled unless something is stale |
| `module_settles` | 2 imports, else the same | violated, see section 6 |
| `async_generator` | 5 requests, 3 awaits, getters and calls from them at any depth | answered once, in order, by the body that was resumed for it; closed for good; assertions hold until a loop overtakes an await; no request forgotten but at the end |
| `generator_reentered` | 4 requests, 3 awaits | violated, see section 6 |
| `promise_jobs` | 2 promises to begin with, 3 operations, 2 items | one way to settle each promise; resolution with a promise follows it; nothing forgotten; an async function resumed once; combinators count right; promises are abstract |
| `event_loop` | 2 functions, 2 timers, 1 descriptor, 1 signal, delays 0 and 1, 1 job, 2 pending timers | nothing freed is called, timers freed once, signals kept, timers served |
| `collections` | 2 keys, 2 iterators, 3 records, 1 forEach; or 2 objects, 2 weak maps, 1 field, 2 locals, 2 entries | maps: list, hash table and counts agree, iteration is abstract, the one way a freed record is used. Weak maps: both lists agree, entries of keys in use stay, values go with their keys or at the next collection |

Why the bounds are enough. The smallest garbage the reference counts cannot
free is a cycle of one, the smallest with an order is a cycle of two with a
closure variable on it, and a third reference from outside decides whether it
is rescued: `cycle_gc` has all of these. For everything but `Returns` the
theorems then drop the bound. A queue of two messages is where the wake-up byte
must be written once and not twice; the bound on references is tested when a
message is posted, so that a buffer may have an object, a message in a queue
and one in hand, but not two queued messages at once. A second worker is what it
takes for a port to stand before another in the main thread's list; in
`worker_delivery` the first worker is the one that is listened to and may also
have timers, and the second one does nothing but post, so that its port can keep
the first one's waiting once the main thread has set that one anew, behind it.
Without the exception for earlier ports, or that for what is served before the
ports, `Delivered` fails in this run. Three modules give a
cycle of two with something outside that waits for it or that it waits for; a
second import comes in the middle of another's await, and a third after both.
The states of the generator are all met with two requests. Re-entrance takes
one to start the body, one whose answer runs the getter and one made by the
getter, which comes to an await; five leave room for an answer in the inner
loop, or for a backlog of two behind an awaited return, and three awaits for
one that is overtaken and two that are outstanding after it. In `promise_jobs` three operations are enough
to make a chain (resolve one promise with another, add a reaction, settle), to
call a function again and to have a combinator over two items that is called
into from its own loop. Three records give a current one, a next one that is
deleted, and one more after it; two iterators one that is kept by the other's
record. Two timers are what it takes for one to be passed over for the other;
two maps and two keys allow each map to be a key or a value of the other. Two
runs of the workflow are one more than what has no order. Two interruptions are
needed for the second one to spoil what the first rerun relied on.

Deadlock is not checked where the system may really stop: all jobs done, the
bounds used up, the main thread gone. It is checked in `cycle_gc`.

## 5. Fairness

* `CycleGC`: weak fairness of the manager as a whole. It is a sequence of C
  loops that nothing interrupts.
* `WorkerPipe`: strong fairness of the runtime of each thread and of its return
  from a script. The kernel schedules threads and a mutex is handed to each
  waiter in the end; that a handler returns is an assumption about scripts.
  Nothing is asked of `Serve` and of other ports: `Delivered` excepts signals,
  timers and ready descriptors that come for ever, and messages for ever on a
  port earlier in the list, because `js_os_poll` serves one thing in a round
  and looks for these first.
* `ModuleEval`: a job goes on to its end (weak fairness of `Job`); what a body
  awaits is settled one day (weak fairness of `BodyEnds`), an assumption about
  the program.
* `AsyncGenerator`: the loop goes on, the body comes to its next yield, await
  or end, getters return, and what is awaited is settled. All but the first are
  assumptions about the program.
* `EventLoop`: the loop goes on (weak fairness of `Loop`, the steps that are
  its own) and time passes. Nothing is asked of the program: `TimersServed`
  names the two ways in which it may keep a timer waiting, signals without end
  and code that never returns or whose jobs never cease.
* The other modules are checked for safety only: promises, maps and weak maps
  promise nothing about when. `TagPublishes` speaks of runs that have come to
  their end.

## 6. Where the code and what is said of it differ

These are runs that TLC refutes:

* `module_settles`: after `js_async_module_execution_fulfilled` has evaluated a
  synchronous module, `async_evaluation` stays set; a module imported later
  that depends on it waits for it, and its promise is never settled.
* `generator_reentered`: `quickjs.c:19546` asserts that the generator is
  executing when the job of an await runs. A getter of `then` on
  `Object.prototype`, run by the answer to a request (`:19344`, `:47937`) while
  the state is already `SUSPENDED_YIELD`, may call `next()`; the body goes on to
  an `await`; back in the outer loop the state `EXECUTING` is taken for the end
  of an await (`:19432`), and the body is resumed while its await is
  outstanding. When it then yields or ends, the job of the await finds another
  state, and the process aborts. The same sequence in a program run by the
  `qjs` built from these sources ends with that assertion.

Four more are exceptions that the properties spell out, so that the passing
runs meet them:

* `RequestsAliveWithoutCycles`: when a member of a cycle fails to load, another
  member that had finished stays in the list and points to the freed one
  (`quickjs.c:34350`).
* `AnsweredUnlessBacklog`: on a completed generator one request is answered per
  call, and the job that ends an awaited `return()` does not go on with the
  queue (`quickjs.c:19453`, `19543`).
* `StaleOnlyByFinalizer`: `forEach` and `clear` look up the next record before
  they free values (`quickjs.c:47230`, `47179`); if the next record was deleted
  and is kept only by an iterator that goes with those values, they go on from
  freed memory, against the comment at `quickjs.c:47212`.
* `DoneIsWhole`: `build_python.sh:170` tests for `python-target/python`, which
  `make` creates before `make install` (`:260`); a rerun after an interruption
  between the two reports success (`:288`) with a partial standard library.

Noticed while reading, and not checked by a run:

* `master.yml:39` says that `ENABLE_TAG_RELEASES: 'false'` disables builds of
  tags; a tag push is also a push, and the third clause of each condition
  (`master.yml:404`) does not look at the ref.
* `quickjs.texi:841` says that `onmessage` is called for each message;
  signals, expired timers, ready descriptors and the ports earlier in the list
  are served first, one in a round (`quickjs-libc.c:2301-2387`), and a handler
  goes with its `Worker` object (`quickjs-libc.c:3326`), so that a thread with a
  handler may end, against `quickjs.texi:844`.
* `js_os_timer_mark` (`quickjs-libc.c:2035`) gives the object of a pending
  timer as the holder of its function. A callback that refers to its own timer
  object is a cycle which a collection frees, and the timer then has no
  function to call; `HandlersAlive` says that nothing else is lost.
* `os_pending_signals &= ~mask` (`quickjs-libc.c:2311`) is not atomic: a signal
  between its read and its write is lost. One that comes between the test and
  `select` waits for the next event; a bit that was pending when a handler was
  replaced is delivered to the new one. A program that has only signal handlers
  ends (`quickjs-libc.c:2318`).
* When a job throws, the inner loop of `js_std_loop` ends
  (`quickjs-libc.c:3959`); if `js_os_poll` then finds nothing to wait for, the
  jobs that are left are never run.
* `allSettled` gives the two functions of an element separate flags
  (`quickjs.c:48197`): a foreign promise that calls both counts twice.
  `CombinatorsExact` excepts an `allSettled` of which an item has called both
  (`CalledBoth`), and no other.
* The value of a weak entry whose key is freed by the collector is only counted
  down (`quickjs.c:47087`): it stays until the next collection
  (`PromptButLeft`).
* `js_async_generator_completed_return` may fail for lack of memory, and its
  result is ignored (`quickjs.c:19449`).
* A block of `build_ffmpeg.sh` tests for a directory that its first step makes
  (`build_ffmpeg.sh:97`): after an interruption at the wrong place every later
  run fails; and a directory of an older version passes the test
  (`build_ffmpeg.sh:133`).
* `package_apk.sh` tests only that the binaries exist: after an interrupted
  build it packs a partial one. Those of Python and QuickJS set permissions
  before Gradle, which strips them (`fix_apk_permissions.sh:5`); only FFmpeg's
  repairs the APK.
* `cp ... || true` (`build_python.sh:127`) hides a failed copy of the sources;
  `zip` (`:278`) adds to the archive of an earlier run, so that files that have
  gone from the library stay in it; `:290` names a standalone library in a
  place where none is made.

## 7. What is proved, what is only checked, what is left out

Proved by TLAPS for every value of the constants that satisfies the named
assumptions of the modules:

* `CycleGCProofs`: `TypeCorrect`, `CountsExact`, `NoUseAfterFree`,
  `AssertionsNeverFail`, `FreedAtOnce`, together `HeapIsExact`. `RcExact` is
  not inductive: that a count is right after `gc_scan` depends on which fields
  were subtracted, and that on which list the owner was on. `IInv` says for
  each phase which lists are in use (`ByPhase`), which fields are subtracted
  (`TakenOff`), what the marks mean (`Marks`), that what is kept is referred to
  from outside or from what is kept (`Kept`), and that nothing kept refers to
  garbage (`Separated`).
  `CollectsAll` needs one more invariant (what has been kept is reachable), and
  `Implements` shows that every step of the manager is a stutter of
  `AbstractHeap` and every step of the program one of its actions.
* `WorkerPipeProofs`: `WakesUp`, `NeverBlocks`, `NoUseAfterFree`,
  `NothingLeaks`, and from them `WakesAreExact` and `PipesAreExact`, and
  `BuffersAreExact`, for any number of workers and messages, with threads that
  cannot be created among them. The invariant ties
  the mutex to the threads in critical sections (`Mutual`), the byte to the
  queue at each step of them (`Bytes`), and each `ref_count` to the at most
  seven references there are (`PipeExact`): a thread that serves a message owns
  one of them, so no release elsewhere is the last. A second one (`SInv`) adds
  that a thread has a message in hand only between taking it off the queue, or
  making it, and giving it back (`Carried`); then every step changes a buffer's
  count by what it does to the three sets that hold references, each of which
  is finite at every moment though their indices need not be.
* `DeliveryProofs`, on `ReleasePipeline`: `PackageIsRight`, `NewestIsReleased` and
  `TagsPublish`, for any tags, flags, keys and number of runs. That a release
  holds what the newest run built says nothing of runs that are still under
  way: the invariant says what `check` has let through (`Gate`), what a job has
  behind it at each stage (`Progress`), and that the newest run of a tag
  without overlaps is alone, so that what it no longer has to upload is its own
  (`Alone`).
* `DeliveryProofs`, on `BuildScripts`: `EndsWhole`, `UnpacksWhole` and
  `KeepsWhatIsComplete`, for any number of runs and interruptions. Two facts
  about the text of the scripts carry it, shown of every block (`ScriptBlocks`):
  a step that writes what is kept stands in a block that is skipped when it is
  there (`Guarded`) and is the only one to complete it (`FinishesOnce`), and a
  source directory gets its tested name from the step after the one that
  unpacked it (`MovesWhatWasMade`). So no step that is left would write over
  what is complete, and none moves what is not (`Rest`). The last block of a
  build and the one block of `package_apk.sh` are followed step by step
  (`Building`, `Packaging`); of `build_python.sh` this cannot be said, and is
  not.
* `EventLoopProofs`: `HandlersStayAlive`, `TimersAreExact`, `SignalsAreKept`,
  for any functions, timers, descriptors and signals. The invariant says that
  what is referred to is alive (`Referents`), which structures are allocated
  (`Allocated`), how a timer may lose its function (`Danglers`), that nothing
  is pending twice (`Once`), which signals are between the two halves of a
  write (`Signalled`) and what holds at each place of the loop (`Places`). What
  freeing and marking reach are least fixed points over sets, stated without
  recursion, so that a proof can use that they are closed and least.
* `CollectionProofs`, on `MapTable`: `TableIsExact`, `OnlyFinalizersFreeNext`
  and `Implements`, for any keys, any number of records, any depth of `forEach` calls and any
  finite set of iterators (`TableAssumption`: those in memory). What the run
  checks is not inductive alone; `Inv` adds that a record's `ref_count` is the
  number of iterators and `forEach` calls that stand on it, plus one while it is
  not deleted (`Counts`), that no two live records have one key (`Keys`), and
  where the calls in progress stand: all but the innermost are in their callback
  and on the record they visited last, and the innermost is either that or on its
  way to the first live record after it (`Frames`). `Implements` shows every
  step of the code to be a step of `AbstractMap` or a stutter: `Frames` is what
  makes the next visit of a `forEach` the first entry after the last one,
  whatever the callbacks did to the map.
* `CollectionProofs`, on `WeakTable`: `WeakRefsAreExact` and `EntriesAreKept`,
  for any objects, maps and number of entries. The invariant says which states
  there are in which phase (`Phases`), that what refers is whole and what is referred to is
  neither freed nor queued (`Whole`), that during cycle removal only garbage
  leads to garbage (`Apart`), and that what stays has a reference (`Prompt`).
  `EntriesAreKept` then follows because what the program gets at stays live:
  through an entry it is reached with its key, and the marks keep even more.

* `PromiseJobsProofs`: `SettledOnce`, `NothingIsForgotten`, `ResumedOnce` and
  `KeepsPromises`, for any number of promises, operations and items. The
  invariant (`Good`) says of every number in a job, a reaction, a call or a
  function that it is one of the right table and kind (`Refs`); that an unused
  pair, a getter of `then` in progress and a thenable job exclude each other,
  and that one of them is there exactly while the promise is pending (`Ways`);
  that the reactions which wait on a promise, or are queued, are those with
  the next numbers, in order (`Ordered`); that a pair made to follow a promise
  waits in a reaction or a job of that promise, and that a promise whose
  `lock` is set is settled after the other and alike, unless a thenable job or
  such a pair still stands for it (`Following`); and how many answers a
  combinator still counts (`Counts`). Many actions have several parts (take a
  job, use a pair up, settle), so `Good` is a predicate of values, with one
  more for the pair the engine has in hand between two parts, and each part
  has a lemma. The pairs have a history field for this, `follows`.
  `ResumedOnce` adds that the body of each async function runs in one call, or
  waits at one promise and number, or has come to its end (`Turn`): one
  number, and not one reaction or job, because a reaction goes on waiting, at
  the same number, when its promise settles and it becomes a job.
  `KeepsPromises` shows each step to be, for each promise, nothing, a
  settling, a registration or the next call.
* `AsyncProofs`, on the combinators of `PromiseJobs`: `CombinatorsGather`, for
  any number of items. It needs `Gathers`: the number a combinator counts down is
  that of the items less that of the functions called, and one more while its
  loop runs (`Counting`); no item of `allSettled` is expected from two places,
  or after it has answered (`ItemsOnce`), where what an item expects is the
  reaction, or its job, that has the two functions of the item; and no
  promise, job or call holds the value of the combinator before it is over
  (`Spread`). Then no item is counted twice, and what has been called as often
  as there are items has been called for each (`CalledOnce`, by the
  cardinality of an injection). The exception is an `allSettled` of which some
  foreign item has called both of its functions, which the code does count twice;
  other foreign items, in `allSettled` and elsewhere, are not excepted.
* `AsyncProofs`, on `AsyncGenerator`: `TypeCorrect`, `AssertionsNeverFail`,
  `InOrder`, `AnswersItsOwn`, together `AnswersAreExact`, and `StaysClosed`, for
  any number of requests and awaits and any nesting of loops and getters. The
  invariant says that the queue holds the newest requests by number
  (`InOrderOfRequest`), and which of an await, an awaited return, the running
  body and other code goes with which state (`Held`). What it says of awaits
  holds until a loop overtakes one; order, own answers, the awaited returns and
  that the generator stays closed hold also afterwards.
* `ModuleProofs`, on `ModuleLoad`: `ListIsExact` and `RequestsStayAlive`, for any finite set
  of names, any texts and any number of imports. The invariant says that a
  request which was not resolved is still ahead of a call of
  `js_resolve_module` (`Ahead`), that each module on the stack is reached, by
  what the texts request, from those further down (`Path`), and that resolved
  requests lead to modules in the list which are not being loaded (`Complete`).
  The last holds only without cycles, and is where they bite: a request that
  finds a module further down the stack closes a cycle, because of `Path`, and
  is left without its target when that module fails.
* `ModuleProofs`, on `ModuleEval`: `LinksWhole`, for any finite set of modules
  and any graph of imports. It needs the inductive invariant `EvalInv`, which is
  the argument of Tarjan's algorithm made out for calls that are half done. The
  call stack and the stack of unfinished modules agree (`Walk`): the first call
  is that of the bottom of the stack (`Grounded`), the modules of the calls
  stand on it in the order of the calls (`Standing`), each call was made for the
  present request of the one below it (`Nested`), and no `dfs_ancestor_index`
  is above the place of its module (`Lowered`). While linking, a request that
  has been walked is not unlinked, and what is linked leads to linked modules
  only (`Linking`); the ancestor index is no higher than the place of anything
  walked to that is still on the stack (`Low`); and what ended above a call has
  an ancestor index that the call's module has taken over, except the request
  whose return it has yet to merge (`Merged`). So nothing in a component that is
  popped with its root leads to a module still on the stack, and when a link
  fails, what stays linked leads to linked modules only (`Closed`). `Begun` and
  `Waiting` say who can be evaluating, waiting or running, because evaluation
  must not start, end or fail an unlinked module: the root of what was started
  was started, and what `exec_list` holds waits.

* `ModuleProofs`, on the evaluation of `ModuleEval`: `RunsAtItsTurn`
  (`RunsInOrder`), `ToldTruthfully` (`OutcomesTruthful`) and `NothingAsserted`
  (`AssertsHold`), for any finite set of modules, any graph of imports and any
  of its modules that await, fail to link or throw. They follow from `Whole`
  (`WholeInvariant`), which adds layers to `EvalInv`, each proved with the help
  of those before it:
  * `Life` says what the status of a module tells of its body, its failure, its
    timestamp, its promise and its root (`Alive`, above all).
  * `Reaching` ties the algorithm to the graph of imports: what the ancestor
    index names, the root of a cycle, what a module waits for and what it failed
    of can all be reached from it.
  * `Ties` carries the argument of Tarjan's algorithm over to evaluation: a
    request that was walked is for a module of the same cycle, or for one whose
    cycle has run, or the module that asked is a parent of the root of that
    cycle (`Answered`). A module has a smaller timestamp than its parents
    (`Noted`).
  * `Chain` is what the code relies on inside a cycle, where a module need not
    wait for the root itself: while the cycle has not failed, each module of it
    that waits, but the root, has a parent in the same cycle (`Chained`). As long
    as the walk is in the cycle, that parent is below it on the stack, or the
    call in progress is about to become it (`Hanging`).
  * `Fate` counts: `pending_async_dependencies` of a module that has not failed
    is no less than the number of places it has in the lists of parents of
    modules that are not over (`Counted`, by cardinalities). So when a counter
    is zero, all that the body waits for is done when its turn comes (`Turn`);
    in the loop over `exec_list` because `First` has the smallest timestamp. A
    failure reaches all that wait (`Told`) and the root of the cycle
    (`RootFailed`).
  * `Bounded`: no counter is below zero, no ancestor index above the number of
    modules.

  Then, if the body at the root of a cycle has run, so has every other of the
  cycle: of those that had not, the one with the largest timestamp would have a
  parent that had not either, and whose timestamp is larger still (`RanDone`).
  With `Answered` this gives all that is needed (`RanWhole`), on which the order
  of execution and the promises rest.

Only model-checked: liveness (`Returns`, `Delivered`, `SettlesUnlessStale`,
`AnsweredUnlessBacklog`, `TimersServed`), which is out of the prover's reach.

Not modelled, with the reasons in `PROJECT.json`: synchronous generators, the
waiters of Atomics, the tables of shapes and atoms, export names; the parser,
the interpreter and the built-in objects (bodies of functions are arbitrary in
the models), regular expressions, big numbers, Unicode tables, serialisation,
proxies, the command line tools, the Android skeletons. They are sequential
functions of their arguments, or have no state of their own; where their
results matter to a model, every result is allowed.

## 8. Running it

    tlc -workers 2 -config MCCycleGC.cfg MCCycleGC      # and so on
    tlc -workers 2 -config MCWorkerPipe.cfg WorkerPipe
    tlc -workers 2 -config MCWorkers.cfg MCWorkers
    tlc -workers 2 -config MCAsyncGen.cfg AsyncGenerator
    tlc -workers 2 -config MCAsyncReenter.cfg AsyncGenerator  # violated
    tlc -workers 2 -config MCPromiseJobs.cfg PromiseJobs
    tlc -workers 2 -config MCEventLoop.cfg EventLoop
    tlc -workers 2 -config MCModuleSettles.cfg MCModuleEval   # violated
    tlapm CycleGCProofs.tla
