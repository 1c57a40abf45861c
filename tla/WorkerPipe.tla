----------------------------- MODULE WorkerPipe -----------------------------
(***************************************************************************)
(* os.Worker of quickjs-libc.c: threads that run their own event loop and  *)
(* send each other messages over pipes.  A JSWorkerMessagePipe is a queue  *)
(* under a mutex, with a Unix pipe that carries one byte while the queue   *)
(* is not empty, so that select() in js_os_poll wakes the receiver up.     *)
(*                                                                         *)
(* Pipes and shared array buffers are malloc'ed blocks with an atomic      *)
(* ref_count, used from several threads: the main thread's Worker object,  *)
(* the worker's Worker.parent, the message handlers and the thread itself  *)
(* hold the pipes; JS objects and queued messages hold the buffers.        *)
(*                                                                         *)
(* Scripts are arbitrary: at "js" a thread performs any sequence of the    *)
(* operations below, and then returns to its loop.  os_timers and          *)
(* os_rw_handlers are reduced to whether one of them holds anything, and a *)
(* signal may come at any time; failing mallocs are left out.              *)
(***************************************************************************)
EXTENDS Integers, Sequences, FiniteSets

CONSTANTS Parent,      \* the main thread
          Worker,      \* the threads it may create
          Sab,         \* shared array buffers
          None,        \* no thread
          MaxQueue,    \* bound: messages in a queue
          MaxRefs      \* bound: references on a buffer when one more is posted

ASSUME WorkerAssumption ==
  /\ Parent \notin Worker /\ None \notin Worker \cup {Parent}
  /\ MaxQueue \in Nat \ {0} /\ MaxRefs \in Nat \ {0}

Thread == Worker \cup {Parent}
Pipe   == Worker \X {"down", "up"}         \* to, and from, the worker
End    == Worker \X {"outer", "inner"}     \* new Worker(), Worker.parent

Owner(e) == IF e[2] = "outer" THEN Parent ELSE e[1]
Recv(e)  == <<e[1], IF e[2] = "outer" THEN "up" ELSE "down">>    \* recv_pipe
Send(e)  == <<e[1], IF e[2] = "outer" THEN "down" ELSE "up">>    \* send_pipe

VARIABLES
  pc,       \* where each thread is
  ports,    \* ts->port_list: the ends of the thread with a handler
  before,   \* the order of the port_lists: pairs of ends, the earlier first
  others,   \* ts->os_timers or ts->os_rw_handlers is not empty
  object,   \* the JSWorkerData of an end: "none", "alive" or "finalized"
  cur,      \* the end whose message the thread is sending or handling
  msg,      \* the buffers of that message
  mutex,    \* ps->mutex: its holder, or None
  queue,    \* ps->msg_queue
  bytes,    \* bytes written to ps->write_fd and not read from ps->read_fd
  pipeRc,   \* ps->ref_count, 0 when ps is not allocated
  release,  \* references on each pipe the thread is about to give back
  sabRc,    \* JSSABHeader.ref_count, 0 when it is not allocated
  sabObj    \* SharedArrayBuffer objects of each thread on each buffer

pipeVars == <<mutex, queue, bytes>>
sabVars  == <<sabRc, sabObj>>
handVars == <<cur, msg>>
listVars == <<ports, before, object>>
vars == <<pc, others, pipeRc, release, pipeVars, sabVars, handVars, listVars>>

NoEnd == <<None, "none">>

Init ==
  /\ pc = [t \in Thread |-> IF t = Parent THEN "js" ELSE "none"]
  /\ ports = [t \in Thread |-> {}] /\ before = {}
  /\ others = [t \in Thread |-> FALSE]
  /\ object = [e \in End |-> "none"]
  /\ cur = [t \in Thread |-> NoEnd] /\ msg = [t \in Thread |-> {}]
  /\ mutex = [p \in Pipe |-> None] /\ queue = [p \in Pipe |-> <<>>]
  /\ bytes = [p \in Pipe |-> 0] /\ pipeRc = [p \in Pipe |-> 0]
  /\ release = [t \in Thread |-> [p \in Pipe |-> 0]]
  /\ sabRc = [s \in Sab |-> 0]
  /\ sabObj = [t \in Thread |-> [s \in Sab |-> 0]]

Goto(t, from, to) == pc[t] = from /\ pc' = [pc EXCEPT ![t] = to]

-----------------------------------------------------------------------------
(* What a script may do *)

\* The pipes are created with the reference the thread will own, and dup'ed
\* for the Worker object, before the thread exists.
NewWorker(w) ==
  /\ pc[Parent] = "js" /\ pc[w] = "none"
  /\ pc' = [pc EXCEPT ![w] = "js"]
  /\ object' = [object EXCEPT ![<<w, "outer">>] = "alive"]
  /\ pipeRc' = [pipeRc EXCEPT ![<<w, "down">>] = 2, ![<<w, "up">>] = 2]
  /\ UNCHANGED <<ports, before, others, release, pipeVars, sabVars, handVars>>

\* pthread_create fails: both references on each pipe are given back, the
\* object's by its finalizer.
NewWorkerFails(w) ==
  /\ pc[w] = "none"
  /\ Goto(Parent, "js", "release")
  /\ pipeRc' = [pipeRc EXCEPT ![<<w, "down">>] = 2, ![<<w, "up">>] = 2]
  /\ release' = [release EXCEPT ![Parent] = [p \in Pipe |-> IF p[1] = w THEN 2 ELSE 0]]
  /\ UNCHANGED <<others, pipeVars, sabVars, handVars, listVars>>

\* A worker that imports "os" gets Worker.parent.
ImportOs(w) ==
  /\ pc[w] = "js" /\ object[<<w, "inner">>] = "none"
  /\ object' = [object EXCEPT ![<<w, "inner">>] = "alive"]
  /\ pipeRc' = [p \in Pipe |-> IF p[1] = w THEN pipeRc[p] + 1 ELSE pipeRc[p]]
  /\ UNCHANGED <<pc, ports, before, others, release, pipeVars, sabVars, handVars>>

\* list_add_tail
AddPort(t, e) ==
  /\ ports' = [ports EXCEPT ![t] = @ \cup {e}]
  /\ before' = before \cup (ports[t] \ {e}) \X {e}

\* Wrong: the handler takes no reference of its own, but gives one back.
SetOnmessageNoDup(t, e) ==
  /\ pc[t] = "js" /\ Owner(e) = t /\ object[e] = "alive"
  /\ AddPort(t, e)
  /\ UNCHANGED <<pc, object, pipeRc, others, release, pipeVars, sabVars, handVars>>

SetOnmessage(t, e) ==
  /\ pc[t] = "js" /\ Owner(e) = t /\ object[e] = "alive"
  /\ IF e \in ports[t]
     THEN UNCHANGED <<ports, before, pipeRc>>
     ELSE /\ AddPort(t, e)
          /\ pipeRc' = [pipeRc EXCEPT ![Recv(e)] = @ + 1]
  /\ UNCHANGED <<pc, object, others, release, pipeVars, sabVars, handVars>>

FreePort(t, e) ==
  /\ ports' = [ports EXCEPT ![t] = @ \ {e}]
  /\ before' = {x \in before : e \notin {x[1], x[2]}}

\* The references on p that finalizing the Worker object of e, or freeing its
\* handler, gives back.
OfObject(e, p) == IF object[e] = "alive" /\ p \in {Recv(e), Send(e)} THEN 1 ELSE 0
OfPort(e, p)   == IF e \in ports[Owner(e)] /\ p = Recv(e) THEN 1 ELSE 0

\* onmessage = null
ClearOnmessage(t, e) ==
  /\ Owner(e) = t /\ object[e] = "alive" /\ e \in ports[t]
  /\ FreePort(t, e)
  /\ release' = [release EXCEPT ![t] = [p \in Pipe |-> OfPort(e, p)]]
  /\ Goto(t, "js", "release")
  /\ UNCHANGED <<object, others, pipeRc, pipeVars, sabVars, handVars>>

\* The last reference to the Worker object goes: its finalizer runs.  The
\* handler is not a root.
DropWorker(t, e) ==
  /\ Owner(e) = t /\ object[e] = "alive"
  /\ object' = [object EXCEPT ![e] = "finalized"]
  /\ release' = [release EXCEPT ![t] = [p \in Pipe |-> OfObject(e, p) + OfPort(e, p)]]
  /\ FreePort(t, e)
  /\ Goto(t, "js", "release")
  /\ UNCHANGED <<others, pipeRc, pipeVars, sabVars, handVars>>

\* setTimeout, setReadHandler, setWriteHandler, where there was nothing, ...
AddOther(t) ==
  /\ pc[t] = "js" /\ ~others[t]
  /\ others' = [others EXCEPT ![t] = TRUE]
  /\ UNCHANGED <<pc, pipeRc, release, pipeVars, sabVars, handVars, listVars>>

\* ... and clearTimeout, or null for a handler, for the last of them.
ClearOthers(t) ==
  /\ pc[t] = "js" /\ others[t]
  /\ others' = [others EXCEPT ![t] = FALSE]
  /\ UNCHANGED <<pc, pipeRc, release, pipeVars, sabVars, handVars, listVars>>

NewSab(t, s) ==
  /\ pc[t] = "js" /\ sabRc[s] = 0
  /\ sabRc' = [sabRc EXCEPT ![s] = 1]
  /\ sabObj' = [sabObj EXCEPT ![t][s] = 1]
  /\ UNCHANGED <<pc, others, pipeRc, release, pipeVars, handVars, listVars>>

DropSab(t, s) ==
  /\ pc[t] = "js" /\ sabObj[t][s] > 0
  /\ sabRc' = [sabRc EXCEPT ![s] = @ - 1]
  /\ sabObj' = [sabObj EXCEPT ![t][s] = @ - 1]
  /\ UNCHANGED <<pc, others, pipeRc, release, pipeVars, handVars, listVars>>

\* The script, or the handler, returns to js_std_loop.
Return(t) ==
  /\ Goto(t, "js", "poll")
  /\ UNCHANGED <<others, pipeRc, release, pipeVars, sabVars, handVars, listVars>>

-----------------------------------------------------------------------------
(* postMessage *)

\* Wrong: js_sab_dup is forgotten.
PostMessageNoDup(t, e, m) ==
  /\ Owner(e) = t /\ object[e] = "alive"
  /\ \A s \in m : sabObj[t][s] > 0
  /\ Len(queue[Send(e)]) < MaxQueue /\ \A s \in m : sabRc[s] < MaxRefs
  /\ Goto(t, "js", "post_lock")
  /\ cur' = [cur EXCEPT ![t] = e] /\ msg' = [msg EXCEPT ![t] = m]
  /\ UNCHANGED <<sabRc, sabObj, others, pipeRc, release, pipeVars, listVars>>

\* The message is built, with a reference of its own on each of its buffers.
PostMessage(t, e, m) ==
  /\ Owner(e) = t /\ object[e] = "alive"
  /\ \A s \in m : sabObj[t][s] > 0
  /\ Len(queue[Send(e)]) < MaxQueue /\ \A s \in m : sabRc[s] < MaxRefs
  /\ Goto(t, "js", "post_lock")
  /\ cur' = [cur EXCEPT ![t] = e] /\ msg' = [msg EXCEPT ![t] = m]
  /\ sabRc' = [s \in Sab |-> IF s \in m THEN sabRc[s] + 1 ELSE sabRc[s]]
  /\ UNCHANGED <<sabObj, others, pipeRc, release, pipeVars, listVars>>

Lock(t, p)   == mutex[p] = None /\ mutex' = [mutex EXCEPT ![p] = t]
Unlock(t, p) == mutex' = [mutex EXCEPT ![p] = None]

PostLock(t) ==
  /\ Goto(t, "post_lock", "post_wake")
  /\ Lock(t, Send(cur[t]))
  /\ UNCHANGED <<queue, bytes, others, pipeRc, release, sabVars, handVars, listVars>>

\* Wrong: one byte per message.
PostWakeAlways(t) ==
  /\ Goto(t, "post_wake", "post_add")
  /\ bytes' = [bytes EXCEPT ![Send(cur[t])] = @ + 1]
  /\ UNCHANGED <<mutex, queue, others, pipeRc, release, sabVars, handVars, listVars>>

\* Wrong: the test is inverted, a byte is written when one is there.
PostWakeInverted(t) ==
  LET p == Send(cur[t]) IN
  /\ Goto(t, "post_wake", "post_add")
  /\ bytes' = [bytes EXCEPT ![p] = IF queue[p] # <<>> THEN @ + 1 ELSE @]
  /\ UNCHANGED <<mutex, queue, others, pipeRc, release, sabVars, handVars, listVars>>

\* "indicate that data is present"
PostWake(t) ==
  LET p == Send(cur[t]) IN
  /\ Goto(t, "post_wake", "post_add")
  /\ bytes' = [bytes EXCEPT ![p] = IF queue[p] = <<>> THEN @ + 1 ELSE @]
  /\ UNCHANGED <<mutex, queue, others, pipeRc, release, sabVars, handVars, listVars>>

PostAdd(t) ==
  LET p == Send(cur[t]) IN
  /\ Goto(t, "post_add", "js")
  /\ queue' = [queue EXCEPT ![p] = Append(@, msg[t])]
  /\ Unlock(t, p)
  /\ cur' = [cur EXCEPT ![t] = NoEnd] /\ msg' = [msg EXCEPT ![t] = {}]
  /\ UNCHANGED <<bytes, others, pipeRc, release, sabVars, listVars>>

-----------------------------------------------------------------------------
(* js_os_poll and handle_posted_message *)

\* "no more events": the thread leaves js_std_loop.
NoMoreEvents(t) ==
  /\ ports[t] = {} /\ ~others[t]
  /\ Goto(t, "poll", "exit")
  /\ UNCHANGED <<others, pipeRc, release, pipeVars, sabVars, handVars, listVars>>

\* Signals come first, in the main thread.  Handlers for them may have been
\* set at the start of its script.
ServeSignal ==
  /\ Goto(Parent, "poll", "js")
  /\ UNCHANGED <<others, pipeRc, release, pipeVars, sabVars, handVars, listVars>>

\* An expired timer, then a descriptor that is ready: both before the ports.
ServeOther(t) ==
  /\ others[t]
  /\ Goto(t, "poll", "js")
  /\ others' \in {others, [others EXCEPT ![t] = FALSE]}   \* a timer is used up
  /\ UNCHANGED <<pipeRc, release, pipeVars, sabVars, handVars, listVars>>

Readable(e) == bytes[Recv(e)] > 0

\* select() reports the ends whose pipe is readable; the first one in the list
\* is served.
Select(t, e) ==
  /\ e \in ports[t] /\ Readable(e)
  /\ \A f \in ports[t] : <<f, e>> \in before => ~Readable(f)
  /\ Goto(t, "poll", "take_lock")
  /\ cur' = [cur EXCEPT ![t] = e]
  /\ UNCHANGED <<msg, others, pipeRc, release, pipeVars, sabVars, listVars>>

TakeLock(t) ==
  /\ Goto(t, "take_lock", "take")
  /\ Lock(t, Recv(cur[t]))
  /\ UNCHANGED <<queue, bytes, others, pipeRc, release, sabVars, handVars, listVars>>

\* Under the mutex: the first message leaves the queue.  (An empty queue is
\* left alone; NeverBlocksLocked says it is not found empty.)
Take(t) ==
  LET p == Recv(cur[t]) IN
  /\ pc[t] = "take"
  /\ IF queue[p] = <<>>
     THEN Goto(t, "take", "poll") /\ Unlock(t, p) /\ UNCHANGED <<msg, queue>>
     ELSE /\ msg' = [msg EXCEPT ![t] = Head(queue[p])]
          /\ queue' = [queue EXCEPT ![p] = Tail(@)]
          /\ IF Tail(queue[p]) = <<>>
             THEN Goto(t, "take", "read") /\ UNCHANGED mutex
             ELSE Goto(t, "take", "clone") /\ Unlock(t, p)
  /\ UNCHANGED <<cur, bytes, others, pipeRc, release, sabVars, listVars>>

\* read() of up to 16 bytes from the pipe, which blocks while it is empty.
ReadBytes == 16

Read(t) ==
  LET p == Recv(cur[t]) IN
  /\ pc[t] = "read" /\ bytes[p] > 0
  /\ bytes' = [bytes EXCEPT ![p] = IF @ > ReadBytes THEN @ - ReadBytes ELSE 0]
  /\ Goto(t, "read", "clone")
  /\ Unlock(t, p)
  /\ UNCHANGED <<queue, others, pipeRc, release, sabVars, handVars, listVars>>

\* JS_ReadObject makes an object on each buffer of the message.
Clone(t) ==
  /\ Goto(t, "clone", "free_message")
  /\ sabObj' = [sabObj EXCEPT ![t] = [s \in Sab |-> IF s \in msg[t] THEN @[s] + 1 ELSE @[s]]]
  /\ sabRc' = [s \in Sab |-> IF s \in msg[t] THEN sabRc[s] + 1 ELSE sabRc[s]]
  /\ UNCHANGED <<others, pipeRc, release, pipeVars, handVars, listVars>>

\* js_free_message, and the call of the handler.
FreeMessage(t) ==
  /\ Goto(t, "free_message", "js")
  /\ sabRc' = [s \in Sab |-> IF s \in msg[t] THEN sabRc[s] - 1 ELSE sabRc[s]]
  /\ cur' = [cur EXCEPT ![t] = NoEnd] /\ msg' = [msg EXCEPT ![t] = {}]
  /\ UNCHANGED <<sabObj, others, pipeRc, release, pipeVars, listVars>>

-----------------------------------------------------------------------------
(* Giving references back *)

\* The messages of q that carry s.
InQueue(s, q) == {i \in DOMAIN q : s \in q[i]}

\* js_free_message_pipe: the last reference frees the queued messages too.
FreePipe(t, p) ==
  /\ pc[t] \in {"release", "exit_release"} /\ release[t][p] > 0
  /\ release' = [release EXCEPT ![t][p] = @ - 1]
  /\ pipeRc' = [pipeRc EXCEPT ![p] = @ - 1]
  /\ IF pipeRc[p] = 1
     THEN /\ sabRc' = [s \in Sab |-> sabRc[s] - Cardinality(InQueue(s, queue[p]))]
          /\ queue' = [queue EXCEPT ![p] = <<>>]
          /\ bytes' = [bytes EXCEPT ![p] = 0]
     ELSE UNCHANGED <<sabRc, queue, bytes>>
  /\ UNCHANGED <<pc, mutex, sabObj, others, handVars, listVars>>

Released(t) ==
  /\ \A p \in Pipe : release[t][p] = 0
  /\ Goto(t, "release", "js") \/ Goto(t, "exit_release", "gone")
  /\ UNCHANGED <<others, pipeRc, release, pipeVars, sabVars, handVars, listVars>>

\* ts->recv_pipe and ts->send_pipe.
OfThread(t, p) == IF t = p[1] THEN 1 ELSE 0

\* After its loop a thread frees its runtime: its Worker objects and buffers,
\* and, in a worker, the references of the thread itself.
Exit(t) ==
  LET mine(e) == Owner(e) = t
      held(p) == LET e == <<p[1], IF t = Parent THEN "outer" ELSE "inner">> IN
                 IF mine(e) THEN OfObject(e, p) + OfPort(e, p) ELSE 0
  IN
  /\ Goto(t, "exit", "exit_release")
  /\ object' = [e \in End |-> IF mine(e) THEN "finalized" ELSE object[e]]
  /\ ports' = [ports EXCEPT ![t] = {}]
  /\ before' = {x \in before : ~mine(x[1]) /\ ~mine(x[2])}
  /\ release' = [release EXCEPT ![t] =
                   [p \in Pipe |-> held(p) + OfThread(t, p)]]
  /\ sabRc' = [s \in Sab |-> sabRc[s] - sabObj[t][s]]
  /\ sabObj' = [sabObj EXCEPT ![t] = [s \in Sab |-> 0]]
  /\ UNCHANGED <<others, pipeRc, pipeVars, handVars>>

-----------------------------------------------------------------------------

Script(t) ==
  \/ t = Parent /\ \E w \in Worker : NewWorker(w) \/ NewWorkerFails(w)
  \/ t \in Worker /\ ImportOs(t)
  \/ \E e \in End : \/ SetOnmessage(t, e) \/ ClearOnmessage(t, e) \/ DropWorker(t, e)
                    \/ \E m \in SUBSET Sab : PostMessage(t, e, m)
  \/ AddOther(t) \/ ClearOthers(t)
  \/ \E s \in Sab : NewSab(t, s) \/ DropSab(t, s)

Runtime(t) ==
  \/ PostLock(t) \/ PostWake(t) \/ PostAdd(t)
  \/ NoMoreEvents(t) \/ \E e \in End : Select(t, e)
  \/ TakeLock(t) \/ Take(t) \/ Read(t) \/ Clone(t) \/ FreeMessage(t)
  \/ (\E p \in Pipe : FreePipe(t, p)) \/ Released(t) \/ Exit(t)

\* What the loop serves before the ports.
Serve(t) == ServeOther(t) \/ (t = Parent /\ ServeSignal)

\* The process ends with its main thread.
Next ==
  \E t \in Thread : pc[Parent] # "gone" /\ (Script(t) \/ Return(t) \/ Runtime(t) \/ Serve(t))

Spec == Init /\ [][Next]_vars

\* The kernel schedules every thread and hands a contended mutex to each of
\* its waiters in the end; a script does return to the loop.  No signal need
\* come, and no descriptor be ready.
Fairness ==
  \A t \in Thread :
    /\ SF_vars(pc[Parent] # "gone" /\ Runtime(t))
    /\ SF_vars(pc[Parent] # "gone" /\ Return(t))

FairSpec == Spec /\ Fairness

-----------------------------------------------------------------------------
(* Properties *)

Pcs == {"none", "js", "post_lock", "post_wake", "post_add", "poll", "take_lock",
        "take", "read", "clone", "free_message", "release", "exit",
        "exit_release", "gone"}

\* Every variable keeps to its range.
TypeOK ==
  /\ pc \in [Thread -> Pcs]
  /\ ports \in [Thread -> SUBSET End] /\ before \subseteq End \X End
  /\ others \in [Thread -> BOOLEAN]
  /\ object \in [End -> {"none", "alive", "finalized"}]
  /\ cur \in [Thread -> End \cup {NoEnd}] /\ msg \in [Thread -> SUBSET Sab]
  /\ mutex \in [Pipe -> Thread \cup {None}]
  /\ queue \in [Pipe -> Seq(SUBSET Sab)] /\ bytes \in [Pipe -> Nat]
  /\ pipeRc \in [Pipe -> Nat] /\ release \in [Thread -> [Pipe -> Nat]]
  /\ sabRc \in [Sab -> Nat] /\ sabObj \in [Thread -> [Sab -> Nat]]

Sends(t, p) == pc[t] \in {"post_lock", "post_wake", "post_add"} /\ Send(cur[t]) = p
Takes(t, p) == pc[t] \in {"take_lock", "take", "read"} /\ Recv(cur[t]) = p

\* Outside the critical sections the pipe holds exactly one byte when the
\* queue holds a message and none when it is empty: select() neither misses a
\* message nor spins on an empty queue, and the pipe cannot fill up.
WakeByte ==
  \A p \in Pipe : mutex[p] = None => bytes[p] = (IF queue[p] = <<>> THEN 0 ELSE 1)

\* read() is called with the mutex held and must not block; the queue is not
\* empty when a message is taken off it.
NeverBlocksLocked ==
  \A t \in Thread : /\ pc[t] = "read" => bytes[Recv(cur[t])] > 0
                    /\ pc[t] = "take" => queue[Recv(cur[t])] # <<>>

\* The byte and the queue agree wherever anybody looks at one of them.
WakesExact == WakeByte /\ NeverBlocksLocked

\* No thread works on a pipe that another one's last release has freed, and
\* the references still to be given back are there.
PipeAlive ==
  /\ \A t \in Thread, p \in Pipe : Sends(t, p) \/ Takes(t, p) => pipeRc[p] > 0
  /\ \A t \in Thread : \A e \in ports[t] : pipeRc[Recv(e)] > 0
  /\ \A e \in End : object[e] = "alive" => pipeRc[Recv(e)] > 0 /\ pipeRc[Send(e)] > 0

\* What holds a reference on buffer s: the objects of the threads, the messages
\* in hand and the messages in the queues.
Tagged(f) == UNION {{x} \X f[x] : x \in DOMAIN f}

Objects(s)  == Tagged([t \in Thread |-> 1 .. sabObj[t][s]])
Hands(s)    == {t \in Thread : s \in msg[t]}
InQueues(s) == Tagged([p \in Pipe |-> InQueue(s, queue[p])])

\* A buffer's count is the number of its objects and of the messages that
\* carry it, in a queue or in hand: it is freed exactly when nobody has it.
SabExact ==
  /\ TypeOK
  /\ \A s \in Sab :
       sabRc[s] = Cardinality(Objects(s)) + Cardinality(Hands(s)) + Cardinality(InQueues(s))

\* Nothing leaks: when both threads of a worker have given up, or its thread
\* could not be created, its pipes are freed.
PipesFreed ==
  \A w \in Worker :
    pc[w] \in {"none", "gone"} /\ object[<<w, "outer">>] # "alive" /\ pc[Parent] = "poll"
    => pipeRc[<<w, "down">>] = 0 /\ pipeRc[<<w, "up">>] = 0

\* Both pipes of a worker are freed when the last reference to them goes, in
\* either thread, and neither before nor never.
PipesExact == PipeAlive /\ PipesFreed

Pending(e) == queue[Recv(e)] # <<>> /\ e \in ports[Owner(e)]
Handled(e) ==
  \/ pc[Owner(e)] = "clone" /\ cur[Owner(e)] = e
  \/ e \notin ports[Owner(e)] \/ pc[Parent] = "gone"

\* The loop of the end's thread serves something else while a message waits.
Overtaken(e) ==
  /\ Pending(e)
  /\ \/ Serve(Owner(e))
     \/ \E f \in End : <<f, e>> \in before /\ Select(Owner(e), f)

\* A message for an end that keeps its handler is handled, unless signals,
\* timers, ready descriptors and ports set earlier keep coming before it for
\* ever: nothing else, in whichever thread, can hold it up.
Delivered ==
  \A e \in End : (Pending(e) ~> Handled(e)) \/ []<><<Overtaken(e)>>_vars
=============================================================================
