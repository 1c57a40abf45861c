-------------------------- MODULE WorkerPipeProofs --------------------------
(***************************************************************************)
(* Proofs about WorkerPipe, for any number of workers and messages.        *)
(*                                                                         *)
(* The inductive invariant relates the mutex to the threads that are in a  *)
(* critical section, the wake-up byte to the queue at each step of these   *)
(* sections, and each pipe's ref_count to the at most seven references     *)
(* there are on it: a thread that is serving a message holds some, so no   *)
(* release by the other thread is the last one.  A second invariant, SInv,  *)
(* counts the references on the shared buffers: their objects, the messages *)
(* in hand and the messages in the queues.                                  *)
(***************************************************************************)
EXTENDS WorkerPipe, FiniteSetTheorems, TLAPS

Outer(p) == <<p[1], "outer">>
Inner(p) == <<p[1], "inner">>

(* The counts of shared buffers are left to SInv, below. *)
Types ==
  /\ pc \in [Thread -> Pcs]
  /\ ports \in [Thread -> SUBSET End] /\ before \subseteq End \X End
  /\ others \in [Thread -> BOOLEAN]
  /\ object \in [End -> {"none", "alive", "finalized"}]
  /\ cur \in [Thread -> End \cup {NoEnd}] /\ msg \in [Thread -> SUBSET Sab]
  /\ mutex \in [Pipe -> Thread \cup {None}]
  /\ queue \in [Pipe -> Seq(SUBSET Sab)] /\ bytes \in [Pipe -> Nat]
  /\ pipeRc \in [Pipe -> Nat] /\ release \in [Thread -> [Pipe -> Nat]]

(* A handler belongs to a Worker object of the thread. *)
Handlers ==
  \A t \in Thread : \A e \in ports[t] : Owner(e) = t /\ object[e] = "alive"

(* Only the two threads at its ends give references on a pipe back, and     *)
(* only in their release steps.                                             *)
Releasing ==
  \A t \in Thread, p \in Pipe :
     release[t][p] # 0 =>
        pc[t] \in {"release", "exit_release"} /\ t \in {Parent, p[1]}

(* A thread that does not run has no Worker object, and one that was not    *)
(* created has none outside.                                                *)
Idle ==
  /\ \A e \in End : object[e] = "alive" => pc[Owner(e)] \notin {"none", "exit_release", "gone"}
  /\ \A w \in Worker : pc[w] = "none" => object[<<w, "outer">>] # "alive"

(* The end a thread is working for. *)
Posting == {"post_lock", "post_wake", "post_add"}
Taking  == {"take_lock", "take", "read", "clone", "free_message"}

Hand ==
  \A t \in Thread :
    /\ pc[t] \in Posting \cup Taking =>
         cur[t] \in End /\ Owner(cur[t]) = t /\ object[cur[t]] = "alive"
    /\ pc[t] \in Taking => cur[t] \in ports[t]

(* The mutex is held exactly in the critical sections. *)
Critical(t, p) ==
  \/ pc[t] \in {"post_wake", "post_add"} /\ Send(cur[t]) = p
  \/ pc[t] \in {"take", "read"} /\ Recv(cur[t]) = p

Mutual == \A t \in Thread, p \in Pipe : mutex[p] = t <=> Critical(t, p)

(* The byte and the queue, inside the critical sections and before them. *)
Agree(p) == bytes[p] = (IF queue[p] = <<>> THEN 0 ELSE 1)

Bytes ==
  /\ \A p \in Pipe : mutex[p] = None => Agree(p)
  /\ \A t \in Thread :
       /\ pc[t] = "post_wake" => Agree(Send(cur[t]))
       /\ pc[t] = "post_add" => bytes[Send(cur[t])] = 1
       /\ pc[t] \in {"take_lock", "take"} => bytes[Recv(cur[t])] > 0
       /\ pc[t] = "take" => Agree(Recv(cur[t]))
       /\ pc[t] = "read" => bytes[Recv(cur[t])] = 1 /\ queue[Recv(cur[t])] = <<>>

(* The references on a pipe. *)
ThreadRef(w) == IF pc[w] \in {"none", "exit_release", "gone"} THEN 0 ELSE 1

Kept(p) ==
  ThreadRef(p[1]) + OfObject(Outer(p), p) + OfObject(Inner(p), p)
  + OfPort(Outer(p), p) + OfPort(Inner(p), p)

Refs(p) == Kept(p) + release[Parent][p] + release[p[1]][p]

PipeExact == \A p \in Pipe : pipeRc[p] = Refs(p)

IInv ==
  /\ Types
  /\ Handlers
  /\ Releasing
  /\ Idle
  /\ Hand
  /\ Mutual
  /\ Bytes
  /\ PipeExact

-----------------------------------------------------------------------------
(* Which ends have which pipes. *)

LEMMA EndFacts ==
  ASSUME NEW e \in End
  PROVE  /\ Owner(e) \in Thread
         /\ Recv(e) \in Pipe /\ Send(e) \in Pipe /\ Recv(e) # Send(e)
         /\ Recv(e)[1] = e[1] /\ Send(e)[1] = e[1] /\ e[1] \in Worker
         /\ Owner(e) \in {Parent, e[1]}
         /\ e = <<e[1], "outer">> \/ e = <<e[1], "inner">>
BY DEF End, Owner, Recv, Send, Pipe, Thread

LEMMA PipeFacts ==
  ASSUME NEW p \in Pipe
  PROVE  /\ p[1] \in Worker
         /\ Outer(p) \in End /\ Inner(p) \in End /\ Outer(p) # Inner(p)
         /\ Owner(Outer(p)) = Parent /\ Owner(Inner(p)) = p[1]
         /\ p \in {Recv(Outer(p)), Send(Outer(p))} /\ p \in {Recv(Inner(p)), Send(Inner(p))}
BY DEF End, Owner, Recv, Send, Pipe, Thread, Outer, Inner

(* A pipe has one reader and one writer. *)
LEMMA OneReader ==
  /\ \A e, f \in End : Recv(e) = Recv(f) => e = f
  /\ \A e, f \in End : Send(e) = Send(f) => e = f
  /\ \A e \in End : e \in {Outer(Recv(e)), Inner(Recv(e))} /\ e \in {Outer(Send(e)), Inner(Send(e))}
BY DEF End, Owner, Recv, Send, Outer, Inner

LEMMA Apart == Parent \notin Worker /\ None \notin Thread /\ Parent \in Thread /\ Worker \subseteq Thread
BY WorkerAssumption DEF Thread

(* An end that is in use holds references on both its pipes. *)
LEMMA Held ==
  ASSUME IInv, NEW e \in End, object[e] = "alive"
  PROVE  /\ Refs(Recv(e)) > release[Parent][Recv(e)] + release[e[1]][Recv(e)]
         /\ Refs(Send(e)) > release[Parent][Send(e)] + release[e[1]][Send(e)]
<1>1. ASSUME NEW p \in Pipe, p \in {Recv(e), Send(e)}
      PROVE  Refs(p) > release[Parent][p] + release[e[1]][p]
  <2>1. p[1] = e[1] /\ e \in {Outer(p), Inner(p)}
    BY <1>1, EndFacts, OneReader
  <2>2. OfObject(e, p) = 1
    BY <1>1 DEF OfObject
  <2>3. /\ ThreadRef(p[1]) \in {0, 1}
        /\ OfObject(Outer(p), p) \in {0, 1} /\ OfObject(Inner(p), p) \in {0, 1}
        /\ OfPort(Outer(p), p) \in {0, 1} /\ OfPort(Inner(p), p) \in {0, 1}
    BY DEF ThreadRef, OfObject, OfPort
  <2>4. release[Parent][p] \in Nat /\ release[p[1]][p] \in Nat
    BY <1>1, PipeFacts, Apart DEF IInv, Types
  <2> QED BY <2>1, <2>2, <2>3, <2>4 DEF Refs, Kept
<1> QED BY <1>1, EndFacts

-----------------------------------------------------------------------------
(* Frames.                                                                  *)

Locked == {"post_wake", "post_add", "take", "read"}
AtRest == {"none", "exit_release", "gone"}

(* The other threads stay where they are. *)
OnlyMoves(t) == \A u \in Thread \ {t} : pc'[u] = pc[u] /\ cur'[u] = cur[u]

(* A step outside the critical sections that leaves the pipes alone. *)
LEMMA Outside ==
  ASSUME IInv, NEW t \in Thread, UNCHANGED pipeVars, OnlyMoves(t),
         pc[t] \notin Locked, pc'[t] \notin Locked,
         pc'[t] = "take_lock" => bytes[Recv(cur'[t])] > 0
  PROVE  Mutual' /\ Bytes'
<1>1. Mutual'
  <2> SUFFICES ASSUME NEW u \in Thread, NEW p \in Pipe PROVE mutex'[p] = u <=> Critical(u, p)'
    BY DEF Mutual
  <2>1. Critical(u, p)' <=> Critical(u, p)
    <3>1. CASE u = t
      BY <3>1 DEF Critical, Locked
    <3>2. CASE u # t
      BY <3>2 DEF Critical, OnlyMoves
    <3> QED BY <3>1, <3>2
  <2> QED BY <2>1 DEF IInv, Mutual, pipeVars
<1>2. Bytes'
  <2>1. \A p \in Pipe : mutex'[p] = None => Agree(p)'
    BY DEF IInv, Bytes, Agree, pipeVars
  <2>2. ASSUME NEW u \in Thread
        PROVE  /\ pc'[u] = "post_wake" => Agree(Send(cur[u]))'
               /\ pc'[u] = "post_add" => bytes'[Send(cur'[u])] = 1
               /\ pc'[u] \in {"take_lock", "take"} => bytes'[Recv(cur'[u])] > 0
               /\ pc'[u] = "take" => Agree(Recv(cur[u]))'
               /\ pc'[u] = "read" => bytes'[Recv(cur'[u])] = 1 /\ queue'[Recv(cur'[u])] = <<>>
    <3>1. CASE u = t
      BY <3>1 DEF Locked, pipeVars
    <3>2. CASE u # t
      BY <3>2 DEF OnlyMoves, IInv, Bytes, Agree, pipeVars
    <3> QED BY <3>1, <3>2
  <2> QED BY <2>1, <2>2 DEF Bytes
<1> QED BY <1>1, <1>2

(* A step that neither takes, gives nor moves a reference. *)
LEMMA SameRefs ==
  ASSUME IInv, NEW t \in Thread, OnlyMoves(t), UNCHANGED <<ports, object, pipeRc, release>>,
         pc[t] \notin AtRest \cup {"release"}, pc'[t] \notin AtRest
  PROVE  Handlers' /\ Releasing' /\ Idle' /\ PipeExact'
<1>1. \A u \in Thread : pc'[u] = pc[u] \/ (u = t /\ pc[u] \notin AtRest \cup {"release"} /\ pc'[u] \notin AtRest)
  BY DEF OnlyMoves
<1>2. Handlers'
  BY DEF IInv, Handlers
<1>3. Releasing'
  BY <1>1 DEF IInv, Releasing, AtRest
<1>4. Idle'
  <2>1. \A e \in End : object'[e] = "alive" => pc'[Owner(e)] \notin AtRest
    BY <1>1, EndFacts DEF IInv, Idle, AtRest
  <2>2. \A w \in Worker : pc'[w] = "none" => pc[w] = "none"
    BY <1>1, Apart DEF AtRest
  <2> QED BY <2>1, <2>2 DEF IInv, Idle, AtRest
<1>5. PipeExact'
  <2> SUFFICES ASSUME NEW p \in Pipe PROVE pipeRc'[p] = Refs(p)'
    BY DEF PipeExact
  <2>1. ThreadRef(p[1])' = ThreadRef(p[1])
    BY <1>1, PipeFacts, Apart DEF ThreadRef, AtRest
  <2>2. /\ OfObject(Outer(p), p)' = OfObject(Outer(p), p) /\ OfObject(Inner(p), p)' = OfObject(Inner(p), p)
        /\ OfPort(Outer(p), p)' = OfPort(Outer(p), p) /\ OfPort(Inner(p), p)' = OfPort(Inner(p), p)
    BY DEF OfObject, OfPort
  <2> QED BY <2>1, <2>2 DEF Refs, Kept, IInv, PipeExact
<1> QED BY <1>2, <1>3, <1>4, <1>5

(* The ends the other threads work for are kept by a step that drops no     *)
(* object and no handler of theirs.                                         *)
LEMMA HandKept ==
  ASSUME IInv, NEW t \in Thread, OnlyMoves(t),
         \A u \in Thread \ {t} : ports'[u] = ports[u],
         \A e \in End : Owner(e) # t /\ object[e] = "alive" => object'[e] = "alive",
         pc'[t] \in Posting \cup Taking =>
            cur'[t] \in End /\ Owner(cur'[t]) = t /\ object'[cur'[t]] = "alive",
         pc'[t] \in Taking => cur'[t] \in ports'[t]
  PROVE  Hand'
<1> SUFFICES ASSUME NEW u \in Thread
    PROVE /\ pc'[u] \in Posting \cup Taking =>
               cur'[u] \in End /\ Owner(cur'[u]) = u /\ object'[cur'[u]] = "alive"
          /\ pc'[u] \in Taking => cur'[u] \in ports'[u]
  BY DEF Hand, Posting, Taking
<1>1. CASE u = t
  BY <1>1
<1>2. CASE u # t
  BY <1>2 DEF OnlyMoves, IInv, Hand, Posting, Taking
<1> QED BY <1>1, <1>2

(* A step of the thread that works on pipe p, which it locks, has locked or  *)
(* unlocks.                                                                 *)
WorksOn(t, p) ==
  \/ pc[t] \in Posting /\ Send(cur[t]) = p
  \/ pc[t] \in {"take_lock", "take", "read"} /\ Recv(cur[t]) = p

LEMMA Section ==
  ASSUME IInv, NEW t \in Thread, NEW p \in Pipe, OnlyMoves(t),
         WorksOn(t, p), mutex[p] \in {None, t}, mutex'[p] \in {None, t},
         \A q \in Pipe \ {p} : mutex'[q] = mutex[q] /\ queue'[q] = queue[q] /\ bytes'[q] = bytes[q],
         pc[t] \in Posting /\ bytes[p] > 0 => bytes'[p] > 0,
         pc'[t] \in Locked <=> mutex'[p] = t,
         pc'[t] \in {"post_wake", "post_add"} => Send(cur'[t]) = p,
         pc'[t] \in {"take", "read"} => Recv(cur'[t]) = p,
         mutex'[p] = None => Agree(p)',
         pc'[t] \in {"post_wake", "take"} => Agree(p)',
         pc'[t] = "post_add" => bytes'[p] = 1,
         pc'[t] = "take" => bytes'[p] > 0,
         pc'[t] = "read" => bytes'[p] = 1 /\ queue'[p] = <<>>,
         pc'[t] # "take_lock"
  PROVE  Mutual' /\ Bytes'
<1>1. Mutual'
  <2> SUFFICES ASSUME NEW u \in Thread, NEW q \in Pipe PROVE mutex'[q] = u <=> Critical(u, q)'
    BY DEF Mutual
  <2>1. CASE u # t
    <3>1. Critical(u, q)' <=> Critical(u, q)
      BY <2>1 DEF Critical, OnlyMoves
    <3>2. mutex'[q] = u <=> mutex[q] = u
      BY <2>1, Apart
    <3> QED BY <3>1, <3>2 DEF IInv, Mutual
  <2>2. CASE u = t /\ q # p
    <3>1. ~Critical(t, q)
      BY <2>2 DEF Critical, WorksOn, Posting
    <3>2. ~Critical(t, q)'
      BY <2>2 DEF Critical
    <3> QED BY <2>2, <3>1, <3>2 DEF IInv, Mutual
  <2>3. CASE u = t /\ q = p
    BY <2>3 DEF Critical, Locked
  <2> QED BY <2>1, <2>2, <2>3
<1>2. Bytes'
  <2>1. ASSUME NEW q \in Pipe, mutex'[q] = None PROVE Agree(q)'
    <3>1. CASE q = p
      BY <2>1, <3>1
    <3>2. CASE q # p
      BY <2>1, <3>2 DEF IInv, Bytes, Agree
    <3> QED BY <3>1, <3>2
  <2>2. ASSUME NEW u \in Thread
        PROVE  /\ pc'[u] = "post_wake" => Agree(Send(cur[u]))'
               /\ pc'[u] = "post_add" => bytes'[Send(cur'[u])] = 1
               /\ pc'[u] \in {"take_lock", "take"} => bytes'[Recv(cur'[u])] > 0
               /\ pc'[u] = "take" => Agree(Recv(cur[u]))'
               /\ pc'[u] = "read" => bytes'[Recv(cur'[u])] = 1 /\ queue'[Recv(cur'[u])] = <<>>
    <3>1. CASE u = t
      BY <3>1 DEF Agree
    <3>2. CASE u # t
      <4>1. pc'[u] = pc[u] /\ cur'[u] = cur[u]
        BY <3>2 DEF OnlyMoves
      <4>2. \A q \in Pipe : Critical(u, q) => q # p
        BY <3>2, Apart DEF IInv, Mutual
      <4>3. pc[u] \in Posting \cup Taking => cur[u] \in End /\ Owner(cur[u]) = u
        BY DEF IInv, Hand
      <4>4. pc[u] \in Posting \cup Taking => Send(cur[u]) \in Pipe /\ Recv(cur[u]) \in Pipe
        BY <4>3, EndFacts
      <4>5. pc[u] \in {"post_wake", "post_add"} => Send(cur[u]) # p
        BY <4>2, <4>4 DEF Critical, Posting
      <4>6. pc[u] \in {"take", "read"} => Recv(cur[u]) # p
        BY <4>2, <4>4 DEF Critical, Taking
      <4>7. pc[u] = "take_lock" => bytes'[Recv(cur[u])] > 0
        <5> SUFFICES ASSUME pc[u] = "take_lock" PROVE bytes'[Recv(cur[u])] > 0
          OBVIOUS
        <5>1. Recv(cur[u]) \in Pipe /\ bytes[Recv(cur[u])] > 0
          BY <4>4 DEF IInv, Bytes, Taking
        <5>2. CASE Recv(cur[u]) # p
          BY <5>1, <5>2
        <5>3. CASE Recv(cur[u]) = p
          <6>1. pc[t] \in Posting
            <7> SUFFICES ASSUME pc[t] \notin Posting PROVE FALSE
              OBVIOUS
            <7>1. Recv(cur[t]) = p /\ pc[t] \in Taking
              BY DEF WorksOn, Taking
            <7>2. cur[t] \in End /\ Owner(cur[t]) = t
              BY <7>1 DEF IInv, Hand
            <7> QED BY <3>2, <4>3, <5>3, <7>1, <7>2, OneReader DEF Taking
          <6> QED BY <5>1, <5>3, <6>1
        <5> QED BY <5>2, <5>3
      <4>8. pc[u] \in {"post_wake"} => Agree(Send(cur[u])) /\ Send(cur[u]) \in Pipe
        BY <4>4 DEF IInv, Bytes, Posting
      <4>9. pc[u] = "post_add" => bytes[Send(cur[u])] = 1 /\ Send(cur[u]) \in Pipe
        BY <4>4 DEF IInv, Bytes, Posting
      <4>10. /\ pc[u] = "take" => bytes[Recv(cur[u])] > 0 /\ Agree(Recv(cur[u]))
             /\ pc[u] = "read" => bytes[Recv(cur[u])] = 1 /\ queue[Recv(cur[u])] = <<>>
             /\ pc[u] \in {"take", "read"} => Recv(cur[u]) \in Pipe
        BY <4>4 DEF IInv, Bytes, Taking
      <4> QED BY <4>1, <4>5, <4>6, <4>7, <4>8, <4>9, <4>10 DEF Agree
    <3> QED BY <3>1, <3>2
  <2> QED BY <2>1, <2>2 DEF Bytes
<1> QED BY <1>1, <1>2

-----------------------------------------------------------------------------
(* Each step keeps the invariant.  First the steps of a script or of the    *)
(* loop that touch neither a pipe nor a reference on one.                   *)

LEMMA Elsewhere ==
  ASSUME IInv, NEW t \in Thread, OnlyMoves(t), Types',
         UNCHANGED <<ports, object, pipeRc, release>>, UNCHANGED pipeVars,
         pc[t] \in {"js", "poll", "clone", "free_message"},
         pc'[t] \in {"js", "poll", "exit", "post_lock", "take_lock", "free_message"},
         pc'[t] = "take_lock" => bytes[Recv(cur'[t])] > 0,
         pc'[t] \in Posting \cup Taking =>
            cur'[t] \in End /\ Owner(cur'[t]) = t /\ object[cur'[t]] = "alive",
         pc'[t] \in Taking => cur'[t] \in ports[t]
  PROVE  IInv'
<1>1. Mutual' /\ Bytes'
  BY Outside DEF Locked
<1>2. Handlers' /\ Releasing' /\ Idle' /\ PipeExact'
  BY SameRefs DEF AtRest
<1>3. Hand'
  BY HandKept
<1> QED BY <1>1, <1>2, <1>3 DEF IInv

LEMMA AddOtherInv == ASSUME IInv, NEW t \in Thread, AddOther(t) PROVE IInv'
<1> USE DEF pipeVars, sabVars, handVars, listVars, Goto, AddOther
<1>1. Types'
  BY DEF IInv, Types, Pcs
<1>2. OnlyMoves(t)
  BY DEF IInv, Types, OnlyMoves
<1> QED BY <1>1, <1>2, Elsewhere DEF IInv, Types, Posting, Taking

LEMMA ClearOthersInv == ASSUME IInv, NEW t \in Thread, ClearOthers(t) PROVE IInv'
<1> USE DEF pipeVars, sabVars, handVars, listVars, Goto, ClearOthers
<1>1. Types'
  BY DEF IInv, Types, Pcs
<1>2. OnlyMoves(t)
  BY DEF IInv, Types, OnlyMoves
<1> QED BY <1>1, <1>2, Elsewhere DEF IInv, Types, Posting, Taking

LEMMA NewSabInv == ASSUME IInv, NEW t \in Thread, NEW s \in Sab, NewSab(t, s) PROVE IInv'
<1> USE DEF pipeVars, sabVars, handVars, listVars, Goto, NewSab
<1>1. Types'
  BY DEF IInv, Types, Pcs
<1>2. OnlyMoves(t)
  BY DEF IInv, Types, OnlyMoves
<1> QED BY <1>1, <1>2, Elsewhere DEF IInv, Types, Posting, Taking

LEMMA DropSabInv == ASSUME IInv, NEW t \in Thread, NEW s \in Sab, DropSab(t, s) PROVE IInv'
<1> USE DEF pipeVars, sabVars, handVars, listVars, Goto, DropSab
<1>1. Types'
  BY DEF IInv, Types, Pcs
<1>2. OnlyMoves(t)
  BY DEF IInv, Types, OnlyMoves
<1> QED BY <1>1, <1>2, Elsewhere DEF IInv, Types, Posting, Taking

LEMMA ReturnInv == ASSUME IInv, NEW t \in Thread, Return(t) PROVE IInv'
<1> USE DEF pipeVars, sabVars, handVars, listVars, Goto, Return
<1>1. Types'
  BY DEF IInv, Types, Pcs
<1>2. OnlyMoves(t)
  BY DEF IInv, Types, OnlyMoves
<1> QED BY <1>1, <1>2, Elsewhere DEF IInv, Types, Posting, Taking

LEMMA PostMessageInv == ASSUME IInv, NEW t \in Thread, NEW e \in End, NEW m \in SUBSET Sab,
         PostMessage(t, e, m) PROVE IInv'
<1> USE DEF pipeVars, sabVars, handVars, listVars, Goto, PostMessage
<1>1. Types'
  BY DEF IInv, Types, Pcs
<1>2. OnlyMoves(t)
  BY DEF IInv, Types, OnlyMoves
<1> QED BY <1>1, <1>2, Elsewhere DEF IInv, Types, Posting, Taking

LEMMA NoMoreEventsInv == ASSUME IInv, NEW t \in Thread, NoMoreEvents(t) PROVE IInv'
<1> USE DEF pipeVars, sabVars, handVars, listVars, Goto, NoMoreEvents
<1>1. Types'
  BY DEF IInv, Types, Pcs
<1>2. OnlyMoves(t)
  BY DEF IInv, Types, OnlyMoves
<1> QED BY <1>1, <1>2, Elsewhere DEF IInv, Types, Posting, Taking

LEMMA ServeOtherInv == ASSUME IInv, NEW t \in Thread, ServeOther(t) PROVE IInv'
<1> USE DEF pipeVars, sabVars, handVars, listVars, Goto, ServeOther
<1>1. Types'
  BY DEF IInv, Types, Pcs
<1>2. OnlyMoves(t)
  BY DEF IInv, Types, OnlyMoves
<1> QED BY <1>1, <1>2, Elsewhere DEF IInv, Types, Posting, Taking

LEMMA ServeSignalInv == ASSUME IInv, ServeSignal PROVE IInv'
<1> USE DEF pipeVars, sabVars, handVars, listVars, Goto, ServeSignal
<1>1. Types' /\ Parent \in Thread
  BY Apart DEF IInv, Types, Pcs
<1>2. OnlyMoves(Parent)
  BY DEF IInv, Types, OnlyMoves
<1> QED BY <1>1, <1>2, Elsewhere DEF IInv, Types, Posting, Taking

LEMMA SelectInv == ASSUME IInv, NEW t \in Thread, NEW e \in End, Select(t, e) PROVE IInv'
<1> USE DEF pipeVars, sabVars, handVars, listVars, Goto, Select, Readable
<1>1. Types'
  BY DEF IInv, Types, Pcs
<1>2. OnlyMoves(t)
  BY DEF IInv, Types, OnlyMoves
<1> QED BY <1>1, <1>2, Elsewhere DEF IInv, Types, Posting, Taking, Handlers

LEMMA CloneInv == ASSUME IInv, NEW t \in Thread, Clone(t) PROVE IInv'
<1> USE DEF pipeVars, sabVars, handVars, listVars, Goto, Clone
<1>1. Types'
  BY DEF IInv, Types, Pcs
<1>2. OnlyMoves(t)
  BY DEF IInv, Types, OnlyMoves
<1> QED BY <1>1, <1>2, Elsewhere DEF IInv, Types, Posting, Taking, Hand

LEMMA FreeMessageInv == ASSUME IInv, NEW t \in Thread, FreeMessage(t) PROVE IInv'
<1> USE DEF pipeVars, sabVars, handVars, listVars, Goto, FreeMessage
<1>1. Types'
  BY DEF IInv, Types, Pcs, NoEnd
<1>2. OnlyMoves(t)
  BY DEF IInv, Types, OnlyMoves
<1> QED BY <1>1, <1>2, Elsewhere DEF IInv, Types, Posting, Taking

(* The steps under, or about to take, a mutex. *)

LEMMA AppendFacts ==
  ASSUME NEW S, NEW q \in Seq(S), NEW x \in S
  PROVE  Append(q, x) \in Seq(S) /\ Append(q, x) # <<>>
<1>1. Append(q, x) \in Seq(S) /\ Len(Append(q, x)) = Len(q) + 1 /\ Len(q) \in Nat
  OBVIOUS
<1>2. Len(<<>>) = 0
  OBVIOUS
<1> QED BY <1>1, <1>2

LEMMA HeadTailFacts ==
  ASSUME NEW S, NEW q \in Seq(S), q # <<>>
  PROVE  Head(q) \in S /\ Tail(q) \in Seq(S)
OBVIOUS

LEMMA PostLockInv == ASSUME IInv, NEW t \in Thread, PostLock(t) PROVE IInv'
<1> DEFINE p == Send(cur[t])
<1> USE DEF pipeVars, sabVars, handVars, listVars, Goto, Lock, Unlock, PostLock
<1>1. p \in Pipe /\ cur[t] \in End /\ Owner(cur[t]) = t /\ object[cur[t]] = "alive" /\ WorksOn(t, p)
  BY EndFacts DEF IInv, Hand, WorksOn, Posting
<1>2. Types'
  BY <1>1, Apart DEF IInv, Types, Pcs, NoEnd
<1>3. OnlyMoves(t) /\ pc[t] = "post_lock" /\ pc'[t] \in {"post_wake"}
  BY DEF IInv, Types, OnlyMoves
<1>4. mutex[p] = None
  BY <1>1, <1>3 DEF IInv, Mutual, Critical
<1>5. Mutual' /\ Bytes'
  <2> HIDE DEF p
  <2> QED BY <1>1, <1>2, <1>3, <1>4, Section, Apart DEF p, IInv, Types, Bytes, Agree, Locked, Posting
<1>6. Handlers' /\ Releasing' /\ Idle' /\ PipeExact'
  BY <1>3, SameRefs DEF AtRest
<1>7. Hand'
  BY <1>1, <1>3, HandKept DEF Posting, Taking, IInv, Types, Hand
<1> QED BY <1>2, <1>5, <1>6, <1>7 DEF IInv

LEMMA PostWakeInv == ASSUME IInv, NEW t \in Thread, PostWake(t) PROVE IInv'
<1> DEFINE p == Send(cur[t])
<1> USE DEF pipeVars, sabVars, handVars, listVars, Goto, Lock, Unlock, PostWake
<1>1. p \in Pipe /\ cur[t] \in End /\ Owner(cur[t]) = t /\ object[cur[t]] = "alive" /\ WorksOn(t, p)
  BY EndFacts DEF IInv, Hand, WorksOn, Posting
<1>2. Types'
  BY <1>1, Apart DEF IInv, Types, Pcs, NoEnd
<1>3. OnlyMoves(t) /\ pc[t] = "post_wake" /\ pc'[t] \in {"post_add"}
  BY DEF IInv, Types, OnlyMoves
<1>4. mutex[p] = t
  BY <1>1, <1>3 DEF IInv, Mutual, Critical
<1>5. Mutual' /\ Bytes'
  <2>1. Agree(p)
    BY <1>3 DEF IInv, Bytes
  <2>2. bytes'[p] = 1 /\ mutex' = mutex /\ queue' = queue /\ cur' = cur
    BY <1>1, <2>1 DEF Agree, IInv, Types
  <2>3. \A q \in Pipe \ {p} : bytes'[q] = bytes[q]
    BY DEF IInv, Types
  <2> HIDE DEF p, PostWake
  <2> QED BY <1>1, <1>3, <1>4, <2>2, <2>3, Section, Apart DEF p, Locked, Posting
<1>6. Handlers' /\ Releasing' /\ Idle' /\ PipeExact'
  BY <1>3, SameRefs DEF AtRest
<1>7. Hand'
  BY <1>1, <1>3, HandKept DEF Posting, Taking, IInv, Types, Hand
<1> QED BY <1>2, <1>5, <1>6, <1>7 DEF IInv

LEMMA PostAddInv == ASSUME IInv, NEW t \in Thread, PostAdd(t) PROVE IInv'
<1> DEFINE p == Send(cur[t])
<1> USE DEF pipeVars, sabVars, handVars, listVars, Goto, Lock, Unlock, PostAdd
<1>1. p \in Pipe /\ cur[t] \in End /\ Owner(cur[t]) = t /\ object[cur[t]] = "alive" /\ WorksOn(t, p)
  BY EndFacts DEF IInv, Hand, WorksOn, Posting
<1>2. Types'
  BY <1>1, Apart DEF IInv, Types, Pcs, NoEnd
<1>3. OnlyMoves(t) /\ pc[t] = "post_add" /\ pc'[t] \in {"js"}
  BY DEF IInv, Types, OnlyMoves
<1>4. mutex[p] = t
  BY <1>1, <1>3 DEF IInv, Mutual, Critical
<1>5. Mutual' /\ Bytes'
  <2>1. bytes'[p] = 1 /\ mutex'[p] = None
    BY <1>1, <1>3 DEF IInv, Types, Bytes
  <2>2. queue'[p] = Append(queue[p], msg[t]) /\ queue[p] \in Seq(SUBSET Sab) /\ msg[t] \in SUBSET Sab
    BY <1>1 DEF IInv, Types
  <2>3. queue'[p] # <<>>
    BY <2>2, AppendFacts
  <2> HIDE DEF p
  <2> QED BY <2>1, <2>3, <1>1, <1>2, <1>3, <1>4, Section, Apart DEF p, IInv, Types, Bytes, Agree, Locked, Posting
<1>6. Handlers' /\ Releasing' /\ Idle' /\ PipeExact'
  BY <1>3, SameRefs DEF AtRest
<1>7. Hand'
  BY <1>1, <1>3, HandKept DEF Posting, Taking, IInv, Types, Hand
<1> QED BY <1>2, <1>5, <1>6, <1>7 DEF IInv

LEMMA TakeLockInv == ASSUME IInv, NEW t \in Thread, TakeLock(t) PROVE IInv'
<1> DEFINE p == Recv(cur[t])
<1> USE DEF pipeVars, sabVars, handVars, listVars, Goto, Lock, Unlock, TakeLock
<1>1. p \in Pipe /\ cur[t] \in End /\ Owner(cur[t]) = t /\ object[cur[t]] = "alive" /\ WorksOn(t, p)
  BY EndFacts DEF IInv, Hand, WorksOn, Taking, Posting
<1>2. Types'
  BY <1>1, Apart DEF IInv, Types, Pcs, NoEnd
<1>3. OnlyMoves(t) /\ pc[t] = "take_lock" /\ pc'[t] \in {"take"}
  BY DEF IInv, Types, OnlyMoves
<1>4. mutex[p] = None
  BY <1>1, <1>3 DEF IInv, Mutual, Critical
<1>5. Mutual' /\ Bytes'
  <2> HIDE DEF p
  <2> QED BY <1>1, <1>2, <1>3, <1>4, Section, Apart DEF p, IInv, Types, Bytes, Agree, Locked, Posting
<1>6. Handlers' /\ Releasing' /\ Idle' /\ PipeExact'
  BY <1>3, SameRefs DEF AtRest
<1>7. Hand'
  BY <1>1, <1>3, HandKept DEF Posting, Taking, IInv, Types, Hand
<1> QED BY <1>2, <1>5, <1>6, <1>7 DEF IInv

LEMMA TakeInv == ASSUME IInv, NEW t \in Thread, Take(t) PROVE IInv'
<1> DEFINE p == Recv(cur[t])
<1>1. pc[t] = "take" /\ p \in Pipe /\ cur[t] \in End /\ Owner(cur[t]) = t /\ object[cur[t]] = "alive"
  BY EndFacts DEF IInv, Hand, Taking, Take
<1>2. queue[p] \in Seq(SUBSET Sab) /\ queue[p] # <<>> /\ bytes[p] = 1 /\ mutex[p] = t
  BY <1>1 DEF IInv, Types, Bytes, Agree, Mutual, Critical
<1>3. /\ UNCHANGED <<cur, bytes, others, pipeRc, release, ports, before, object>>
      /\ msg' = [msg EXCEPT ![t] = Head(queue[p])]
      /\ queue' = [queue EXCEPT ![p] = Tail(queue[p])]
      /\ \/ /\ Tail(queue[p]) = <<>>
            /\ pc' = [pc EXCEPT ![t] = "read"] /\ mutex' = mutex
         \/ /\ Tail(queue[p]) # <<>>
            /\ pc' = [pc EXCEPT ![t] = "clone"] /\ mutex' = [mutex EXCEPT ![p] = None]
  BY <1>2 DEF Take, Goto, Unlock, listVars
<1>4. Types'
  <2>1. Head(queue[p]) \in SUBSET Sab /\ Tail(queue[p]) \in Seq(SUBSET Sab)
    BY <1>2, HeadTailFacts
  <2>2. pc' \in [Thread -> Pcs] /\ mutex' \in [Pipe -> Thread \cup {None}]
    BY <1>1, <1>3 DEF IInv, Types, Pcs
  <2>3. msg' \in [Thread -> SUBSET Sab] /\ queue' \in [Pipe -> Seq(SUBSET Sab)]
    BY <1>1, <1>3, <2>1 DEF IInv, Types
  <2> QED BY <1>3, <2>2, <2>3 DEF IInv, Types
<1>5. OnlyMoves(t) /\ pc'[t] \in {"read", "clone"}
  BY <1>3 DEF IInv, Types, OnlyMoves
<1>6. Mutual' /\ Bytes'
  <2>1. /\ Tail(queue[p]) = <<>> => pc'[t] = "read" /\ mutex'[p] = t
        /\ Tail(queue[p]) # <<>> => pc'[t] = "clone" /\ mutex'[p] = None
        /\ queue'[p] = Tail(queue[p]) /\ bytes'[p] = 1 /\ cur'[t] = cur[t]
    BY <1>1, <1>2, <1>3 DEF IInv, Types
  <2>2. \A q \in Pipe \ {p} : mutex'[q] = mutex[q] /\ queue'[q] = queue[q] /\ bytes'[q] = bytes[q]
    BY <1>1, <1>3 DEF IInv, Types
  <2>3. WorksOn(t, p) /\ pc[t] \notin Posting
    BY <1>1 DEF WorksOn, Posting
  <2>4. Recv(cur'[t]) = p
    BY <2>1
  <2> HIDE DEF p
  <2> QED BY <1>1, <1>2, <1>5, <2>1, <2>2, <2>3, <2>4, Section, Apart DEF Agree, Locked
<1>7. Handlers' /\ Releasing' /\ Idle' /\ PipeExact'
  BY <1>1, <1>3, <1>5, SameRefs DEF AtRest
<1>8. Hand'
  BY <1>1, <1>3, <1>5, HandKept DEF Posting, Taking, IInv, Types, Hand
<1> QED BY <1>4, <1>6, <1>7, <1>8 DEF IInv

LEMMA ReadInv == ASSUME IInv, NEW t \in Thread, Read(t) PROVE IInv'
<1> DEFINE p == Recv(cur[t])
<1>1. pc[t] = "read" /\ p \in Pipe /\ cur[t] \in End /\ Owner(cur[t]) = t /\ object[cur[t]] = "alive"
  BY EndFacts DEF IInv, Hand, Taking, Read
<1>2. bytes[p] = 1 /\ queue[p] = <<>> /\ mutex[p] = t
  BY <1>1 DEF IInv, Bytes, Mutual, Critical
<1>3. /\ UNCHANGED <<queue, others, pipeRc, release, cur, msg, ports, before, object>>
      /\ bytes' = [bytes EXCEPT ![p] = 0]
      /\ pc' = [pc EXCEPT ![t] = "clone"] /\ mutex' = [mutex EXCEPT ![p] = None]
  BY <1>2 DEF Read, ReadBytes, Goto, Unlock, listVars, handVars
<1>4. Types'
  BY <1>1, <1>3 DEF IInv, Types, Pcs
<1>5. OnlyMoves(t) /\ pc'[t] = "clone"
  BY <1>3 DEF IInv, Types, OnlyMoves
<1>6. Mutual' /\ Bytes'
  <2>1. mutex'[p] = None /\ queue'[p] = <<>> /\ bytes'[p] = 0
    BY <1>1, <1>2, <1>3 DEF IInv, Types
  <2>2. \A q \in Pipe \ {p} : mutex'[q] = mutex[q] /\ queue'[q] = queue[q] /\ bytes'[q] = bytes[q]
    BY <1>1, <1>3 DEF IInv, Types
  <2>3. WorksOn(t, p) /\ pc[t] \notin Posting
    BY <1>1 DEF WorksOn, Posting
  <2> HIDE DEF p
  <2> QED BY <1>1, <1>2, <1>5, <2>1, <2>2, <2>3, Section, Apart DEF Agree, Locked
<1>7. Handlers' /\ Releasing' /\ Idle' /\ PipeExact'
  BY <1>1, <1>3, <1>5, SameRefs DEF AtRest
<1>8. Hand'
  BY <1>1, <1>3, <1>5, HandKept DEF Posting, Taking, IInv, Types, Hand
<1> QED BY <1>4, <1>6, <1>7, <1>8 DEF IInv

(* The steps that take, move or give back references on pipes. *)

LEMMA RefParts ==
  ASSUME IInv, NEW p \in Pipe
  PROVE  /\ pipeRc[p] = Refs(p)
         /\ ThreadRef(p[1]) \in {0, 1}
         /\ OfObject(Outer(p), p) \in {0, 1} /\ OfObject(Inner(p), p) \in {0, 1}
         /\ OfPort(Outer(p), p) \in {0, 1} /\ OfPort(Inner(p), p) \in {0, 1}
         /\ release[Parent][p] \in Nat /\ release[p[1]][p] \in Nat
         /\ Kept(p) \in Nat
<1>1. /\ ThreadRef(p[1]) \in {0, 1}
      /\ OfObject(Outer(p), p) \in {0, 1} /\ OfObject(Inner(p), p) \in {0, 1}
      /\ OfPort(Outer(p), p) \in {0, 1} /\ OfPort(Inner(p), p) \in {0, 1}
  BY DEF ThreadRef, OfObject, OfPort
<1>2. Kept(p) \in Nat
  BY <1>1 DEF Kept
<1> QED BY <1>1, <1>2, PipeFacts, Apart DEF IInv, PipeExact, Types

LEMMA NewWorkerInv == ASSUME IInv, NEW w \in Worker, NewWorker(w) PROVE IInv'
<1> USE DEF pipeVars, sabVars, handVars, NewWorker
<1>1. /\ pc[w] = "none" /\ pc[Parent] = "js" /\ pc'[w] = "js" /\ w \in Thread
      /\ OnlyMoves(w) /\ UNCHANGED pipeVars
  BY Apart DEF IInv, Types, OnlyMoves
<1>2. /\ <<w, "outer">> \in End /\ <<w, "inner">> \in End
      /\ object[<<w, "outer">>] # "alive" /\ object[<<w, "inner">>] # "alive"
      /\ \A e \in End : e # <<w, "outer">> => object'[e] = object[e]
      /\ object'[<<w, "outer">>] = "alive"
  BY <1>1 DEF IInv, Types, Idle, End, Owner
<1>3. Types'
  BY <1>1 DEF IInv, Types, Pcs, Pipe
<1>4. Mutual' /\ Bytes'
  BY <1>1, Outside DEF Locked
<1>5. Handlers'
  BY <1>2 DEF IInv, Handlers, Types
<1>6. Releasing'
  BY <1>1 DEF IInv, Releasing, OnlyMoves
<1>7. Idle'
  <2>1. \A u \in Thread : u # w => pc'[u] = pc[u]
    BY DEF OnlyMoves, IInv, Types
  <2>2. \A e \in End : object'[e] = "alive" => pc'[Owner(e)] \notin {"none", "exit_release", "gone"}
    BY <1>1, <1>2, <2>1, EndFacts DEF IInv, Idle, Owner
  <2>3. \A v \in Worker : pc'[v] = "none" =>
          object'[<<v, "outer">>] # "alive"
    <3> TAKE v \in Worker
    <3> HAVE pc'[v] = "none"
    <3>1. v # w /\ pc[v] = "none"
      BY <1>1, <2>1, Apart
    <3>2. <<v, "outer">> \in End /\ <<v, "outer">> # <<w, "outer">>
      BY <3>1 DEF End
    <3> QED BY <1>2, <3>1, <3>2 DEF IInv, Idle
  <2> QED BY <2>2, <2>3 DEF Idle
<1>8. Hand'
  BY <1>1, <1>2, HandKept DEF Posting, Taking
<1>9. PipeExact'
  <2> SUFFICES ASSUME NEW p \in Pipe PROVE pipeRc'[p] = Refs(p)'
    BY DEF PipeExact
  <2>1. CASE p[1] = w
    <3>1. p = <<w, "down">> \/ p = <<w, "up">>
      BY <2>1 DEF Pipe
    <3>2. pipeRc'[p] = 2
      BY <3>1 DEF IInv, Types, Pipe
    <3>3. ThreadRef(p[1])' = 1
      BY <1>1, <2>1 DEF ThreadRef
    <3>4. OfObject(Outer(p), p)' = 1 /\ OfObject(Inner(p), p)' = 0
      BY <1>2, <2>1, PipeFacts DEF OfObject, Outer, Inner
    <3>5. OfPort(Outer(p), p)' = 0 /\ OfPort(Inner(p), p)' = 0
      BY <1>1, <1>2, <2>1, PipeFacts, Apart DEF OfPort, Outer, Inner, IInv, Handlers
    <3>6. release'[Parent][p] = 0 /\ release'[p[1]][p] = 0
      BY <1>1, <2>1, Apart DEF IInv, Releasing
    <3> QED BY <3>2, <3>3, <3>4, <3>5, <3>6 DEF Refs, Kept
  <2>2. CASE p[1] # w
    <3>1. pipeRc'[p] = pipeRc[p]
      BY <2>2 DEF IInv, Types, Pipe
    <3>2. ThreadRef(p[1])' = ThreadRef(p[1])
      BY <2>2, PipeFacts, Apart DEF ThreadRef, IInv, Types
    <3>3. OfObject(Outer(p), p)' = OfObject(Outer(p), p) /\ OfObject(Inner(p), p)' = OfObject(Inner(p), p)
      BY <1>2, <2>2, PipeFacts DEF OfObject, Outer, Inner
    <3>4. OfPort(Outer(p), p)' = OfPort(Outer(p), p) /\ OfPort(Inner(p), p)' = OfPort(Inner(p), p)
      BY DEF OfPort
    <3> QED BY <3>1, <3>2, <3>3, <3>4, RefParts DEF Refs, Kept
  <2> QED BY <2>1, <2>2
<1> QED BY <1>3, <1>4, <1>5, <1>6, <1>7, <1>8, <1>9 DEF IInv

LEMMA NewWorkerFailsInv == ASSUME IInv, NEW w \in Worker, NewWorkerFails(w) PROVE IInv'
<1> USE DEF pipeVars, sabVars, handVars, listVars, Goto, NewWorkerFails
<1>1. /\ pc[w] = "none" /\ pc[Parent] = "js" /\ pc'[Parent] = "release" /\ w \in Thread /\ w # Parent
      /\ OnlyMoves(Parent) /\ UNCHANGED pipeVars /\ UNCHANGED <<ports, object>>
      /\ \A u \in Thread \ {Parent} : pc'[u] = pc[u]
  BY Apart DEF IInv, Types, OnlyMoves
<1>2. Types'
  <2>1. [p \in Pipe |-> IF p[1] = w THEN 2 ELSE 0] \in [Pipe -> Nat]
    OBVIOUS
  <2>2. release' \in [Thread -> [Pipe -> Nat]] /\ pipeRc' \in [Pipe -> Nat]
    BY <2>1 DEF IInv, Types
  <2> QED BY <2>2 DEF IInv, Types, Pcs
<1>3. Mutual' /\ Bytes'
  BY <1>1, Outside, Apart DEF Locked
<1>4. Handlers'
  BY <1>1 DEF IInv, Handlers
<1>5. /\ \A p \in Pipe : release'[Parent][p] = IF p[1] = w THEN 2 ELSE 0
      /\ \A u \in Thread \ {Parent} : release'[u] = release[u]
      /\ \A p \in Pipe : pipeRc'[p] = IF p[1] = w THEN 2 ELSE pipeRc[p]
  <2>1. release' = [release EXCEPT ![Parent] = [p \in Pipe |-> IF p[1] = w THEN 2 ELSE 0]]
    OBVIOUS
  <2>2. \A p \in Pipe : p[1] = w => p = <<w, "down">> \/ p = <<w, "up">>
    BY DEF Pipe
  <2>3. <<w, "down">> \in Pipe /\ <<w, "up">> \in Pipe
    BY DEF Pipe
  <2>4. \A p \in Pipe : pipeRc'[p] = IF p[1] = w THEN 2 ELSE pipeRc[p]
    <3>1. /\ pipeRc' = [pipeRc EXCEPT ![<<w, "down">>] = 2, ![<<w, "up">>] = 2]
          /\ pipeRc \in [Pipe -> Nat]
      BY DEF IInv, Types
    <3> QED BY ONLY <2>2, <2>3, <3>1
  <2>5. release \in [Thread -> [Pipe -> Nat]] /\ Parent \in Thread
    BY Apart DEF IInv, Types
  <2> HIDE DEF NewWorkerFails
  <2> QED BY <2>1, <2>4, <2>5
<1>6. Releasing'
  BY <1>1, <1>5 DEF IInv, Releasing
<1>7. Idle'
  <2>1. \A e \in End : object'[e] = "alive" => pc'[Owner(e)] \notin {"none", "exit_release", "gone"}
    BY <1>1, EndFacts DEF IInv, Idle
  <2> QED BY <1>1, <2>1, Apart DEF IInv, Idle
<1>8. Hand'
  BY <1>1, HandKept, Apart DEF Posting, Taking
<1>9. PipeExact'
  <2> SUFFICES ASSUME NEW p \in Pipe PROVE pipeRc'[p] = Refs(p)'
    BY DEF PipeExact
  <2>1. p[1] \in Thread /\ p[1] # Parent /\ release[Parent][p] = 0
    BY <1>1, PipeFacts, Apart DEF IInv, Releasing
  <2>2. Kept(p)' = Kept(p)
    <3>1. ThreadRef(p[1])' = ThreadRef(p[1])
      BY <1>1, <2>1 DEF ThreadRef
    <3>2. /\ OfObject(Outer(p), p)' = OfObject(Outer(p), p) /\ OfObject(Inner(p), p)' = OfObject(Inner(p), p)
          /\ OfPort(Outer(p), p)' = OfPort(Outer(p), p) /\ OfPort(Inner(p), p)' = OfPort(Inner(p), p)
      BY <1>1 DEF OfObject, OfPort
    <3> QED BY <3>1, <3>2 DEF Kept
  <2> HIDE DEF NewWorkerFails
  <2>3. CASE p[1] # w
    <3>1. /\ release'[Parent][p] = 0 /\ release'[p[1]] = release[p[1]]
          /\ pipeRc'[p] = pipeRc[p] /\ release[Parent][p] = 0
      BY <1>5, <2>1, <2>3
    <3> QED BY <2>2, <3>1, RefParts DEF Refs
  <2>4. CASE p[1] = w
    <3>1. ThreadRef(p[1]) = 0 /\ object[Outer(p)] # "alive" /\ object[Inner(p)] # "alive"
      BY <1>1, <2>4, PipeFacts DEF ThreadRef, Outer, IInv, Idle
    <3>2. OfObject(Outer(p), p) = 0 /\ OfObject(Inner(p), p) = 0
      BY <3>1 DEF OfObject
    <3>3. OfPort(Outer(p), p) = 0 /\ OfPort(Inner(p), p) = 0
      BY <3>1, PipeFacts, Apart DEF OfPort, IInv, Handlers
    <3>4. release'[p[1]][p] = 0
      BY <1>1, <1>5, <2>1, <2>4 DEF IInv, Releasing
    <3>5. Kept(p)' = 0
      BY <2>2, <3>1, <3>2, <3>3 DEF Kept
    <3>6. release'[Parent][p] = 2 /\ pipeRc'[p] = 2
      BY <1>5, <2>4
    <3> QED BY <3>4, <3>5, <3>6 DEF Refs
  <2> QED BY <2>3, <2>4
<1> QED BY <1>2, <1>3, <1>4, <1>6, <1>7, <1>8, <1>9 DEF IInv

LEMMA ImportOsInv == ASSUME IInv, NEW w \in Worker, ImportOs(w) PROVE IInv'
<1> USE DEF pipeVars, sabVars, handVars, ImportOs
<1>1. /\ pc[w] = "js" /\ pc' = pc /\ w \in Thread
      /\ OnlyMoves(w) /\ UNCHANGED pipeVars
  BY Apart DEF OnlyMoves
<1>2. /\ <<w, "inner">> \in End /\ object[<<w, "inner">>] = "none"
      /\ \A e \in End : e # <<w, "inner">> => object'[e] = object[e]
      /\ object'[<<w, "inner">>] = "alive"
  BY DEF IInv, Types, End
<1>3. Types'
  <2>1. \A p \in Pipe : pipeRc[p] + 1 \in Nat /\ pipeRc[p] \in Nat
    BY DEF IInv, Types
  <2>2. pipeRc' \in [Pipe -> Nat]
    BY <2>1
  <2> QED BY <1>1, <2>2 DEF IInv, Types
<1>4. Mutual' /\ Bytes'
  BY <1>1, Outside DEF Locked
<1>5. Handlers'
  BY <1>2 DEF IInv, Handlers, Types
<1>6. Releasing'
  BY <1>1 DEF IInv, Releasing
<1>7. Idle'
  <2>1. \A e \in End : object'[e] = "alive" => pc'[Owner(e)] \notin {"none", "exit_release", "gone"}
    BY <1>1, <1>2 DEF IInv, Idle, Owner
  <2>2. \A v \in Worker : <<v, "outer">> \in End /\ <<v, "outer">> # <<w, "inner">>
    BY DEF End
  <2> QED BY <1>1, <1>2, <2>1, <2>2 DEF IInv, Idle
<1>8. Hand'
  BY <1>1, <1>2, HandKept DEF Posting, Taking
<1>9. PipeExact'
  <2> SUFFICES ASSUME NEW p \in Pipe PROVE pipeRc'[p] = Refs(p)'
    BY DEF PipeExact
  <2>1. ThreadRef(p[1])' = ThreadRef(p[1])
    BY <1>1 DEF ThreadRef
  <2>2. OfPort(Outer(p), p)' = OfPort(Outer(p), p) /\ OfPort(Inner(p), p)' = OfPort(Inner(p), p)
    BY DEF OfPort
  <2>3. OfObject(Outer(p), p)' = OfObject(Outer(p), p)
    BY <1>2, PipeFacts DEF OfObject, Outer
  <2>4. OfObject(Inner(p), p)' = OfObject(Inner(p), p) + (IF p[1] = w THEN 1 ELSE 0)
    BY <1>2, PipeFacts DEF OfObject, Inner
  <2>5. pipeRc'[p] = pipeRc[p] + (IF p[1] = w THEN 1 ELSE 0)
    BY DEF IInv, Types
  <2>6. release' = release
    OBVIOUS
  <2> QED BY <2>1, <2>2, <2>3, <2>4, <2>5, <2>6, RefParts DEF Refs, Kept
<1> QED BY <1>3, <1>4, <1>5, <1>6, <1>7, <1>8, <1>9 DEF IInv

LEMMA SetOnmessageInv ==
  ASSUME IInv, NEW t \in Thread, NEW e \in End, SetOnmessage(t, e) PROVE IInv'
<1> USE DEF pipeVars, sabVars, handVars, AddPort, SetOnmessage
<1>1. /\ pc[t] = "js" /\ pc' = pc /\ Owner(e) = t /\ object[e] = "alive"
      /\ UNCHANGED <<object, release>> /\ OnlyMoves(t) /\ UNCHANGED pipeVars
  BY DEF OnlyMoves
<1>2. \A u \in Thread, f \in End : f \in ports'[u] <=> f \in ports[u] \/ (u = t /\ f = e)
  BY DEF IInv, Types
<1>3. Recv(e) \in Pipe
  BY EndFacts
<1>4. Types'
  <2>0. /\ ports[t] \cup {e} \in SUBSET End /\ pipeRc[Recv(e)] + 1 \in Nat
        /\ ports \in [Thread -> SUBSET End] /\ pipeRc \in [Pipe -> Nat]
    BY <1>3 DEF IInv, Types
  <2>1. ports' \in [Thread -> SUBSET End]
    <3>1. ports' = ports \/ ports' = [ports EXCEPT ![t] = ports[t] \cup {e}]
      OBVIOUS
    <3> QED BY <2>0, <3>1
  <2>2. pipeRc' \in [Pipe -> Nat]
    <3>1. pipeRc' = pipeRc \/ pipeRc' = [pipeRc EXCEPT ![Recv(e)] = pipeRc[Recv(e)] + 1]
      OBVIOUS
    <3> QED BY <2>0, <3>1
  <2>3. before' \subseteq End \X End
    <3>1. before \subseteq End \X End /\ ports[t] \subseteq End
      BY DEF IInv, Types
    <3>2. before' \subseteq before \cup ports[t] \X {e}
      OBVIOUS
    <3> QED BY ONLY <3>1, <3>2, e \in End
  <2> QED BY <1>1, <2>1, <2>2, <2>3 DEF IInv, Types
<1>5. Mutual' /\ Bytes'
  BY <1>1, Outside DEF Locked
<1>6. Handlers'
  BY <1>1, <1>2, <1>4 DEF IInv, Handlers, Types
<1>7. Releasing' /\ Idle'
  BY <1>1 DEF IInv, Releasing, Idle
<1>8. Hand'
  BY <1>1, <1>4, HandKept DEF Posting, Taking, IInv, Types
<1>9. PipeExact'
  <2> SUFFICES ASSUME NEW p \in Pipe PROVE pipeRc'[p] = Refs(p)'
    BY DEF PipeExact
  <2>1. ThreadRef(p[1])' = ThreadRef(p[1])
    BY <1>1 DEF ThreadRef
  <2>2. OfObject(Outer(p), p)' = OfObject(Outer(p), p) /\ OfObject(Inner(p), p)' = OfObject(Inner(p), p)
    BY <1>1 DEF OfObject
  <2>3. CASE e \in ports[t]
    <3>1. ports' = ports /\ pipeRc' = pipeRc
      BY <2>3
    <3>2. OfPort(Outer(p), p)' = OfPort(Outer(p), p) /\ OfPort(Inner(p), p)' = OfPort(Inner(p), p)
      BY <3>1 DEF OfPort
    <3> QED BY <1>1, <2>1, <2>2, <3>1, <3>2, RefParts DEF Refs, Kept
  <2>4. CASE e \notin ports[t]
    <3>1. pipeRc'[p] = pipeRc[p] + (IF p = Recv(e) THEN 1 ELSE 0)
      BY <1>3, <2>4, RefParts DEF IInv, Types
    <3>2. CASE p # Recv(e)
      <4>1. OfPort(Outer(p), p)' = OfPort(Outer(p), p) /\ OfPort(Inner(p), p)' = OfPort(Inner(p), p)
        <5>1. \A f \in End : OfPort(f, p)' = OfPort(f, p)
          BY <1>2, <3>2, EndFacts DEF OfPort
        <5> QED BY <5>1, PipeFacts
      <4> QED BY <1>1, <2>1, <2>2, <3>1, <3>2, <4>1, RefParts DEF Refs, Kept
    <3>3. CASE p = Recv(e)
      <4>1. e \in {Outer(p), Inner(p)} /\ Outer(p) # Inner(p)
        BY <3>3, OneReader, PipeFacts
      <4>2. OfPort(e, p) = 0 /\ OfPort(e, p)' = 1
        BY <1>1, <1>2, <2>4, <3>3 DEF OfPort
      <4>3. \A f \in End : f # e => OfPort(f, p)' = OfPort(f, p)
        BY <1>2, EndFacts DEF OfPort
      <4> QED BY <1>1, <2>1, <2>2, <3>1, <3>3, <4>1, <4>2, <4>3, RefParts, PipeFacts DEF Refs, Kept
    <3> QED BY <3>2, <3>3
  <2> QED BY <2>3, <2>4
<1> QED BY <1>4, <1>5, <1>6, <1>7, <1>8, <1>9 DEF IInv

(* A thread has nothing left to give back before its release steps. *)
LEMMA NothingToRelease ==
  ASSUME IInv, NEW t \in Thread, pc[t] \notin {"release", "exit_release"}, NEW p \in Pipe
  PROVE  release[t][p] = 0
BY DEF IInv, Releasing

(* The references of end e, or of its handler alone, become references to   *)
(* be given back.                                                           *)
LEMMA GiveEnd ==
  ASSUME IInv, Types', NEW t \in Thread, NEW e \in End, OnlyMoves(t),
         UNCHANGED pipeVars, pipeRc' = pipeRc,
         pc[t] = "js", pc'[t] = "release", Owner(e) = t, object[e] = "alive",
         \A f \in End \ {e} : object'[f] = object[f],
         \A u \in Thread, f \in End : f \in ports'[u] <=> f \in ports[u] /\ f # e,
         \A u \in Thread \ {t} : release'[u] = release[u],
         \A p \in Pipe : release'[t][p] = OfObject(e, p) - OfObject(e, p)' + OfPort(e, p)
  PROVE  IInv'
<1>1. Mutual' /\ Bytes'
  BY Outside DEF Locked
<1>2. \A p \in Pipe : p[1] # e[1] => release'[t][p] = 0
  <2> SUFFICES ASSUME NEW p \in Pipe, p[1] # e[1] PROVE release'[t][p] = 0
    OBVIOUS
  <2>1. p # Recv(e) /\ p # Send(e)
    BY EndFacts
  <2>2. OfObject(e, p) = 0 /\ OfObject(e, p)' = 0 /\ OfPort(e, p) = 0
    BY <2>1 DEF OfObject, OfPort
  <2> QED BY <2>2
<1>3. Handlers'
  <2> SUFFICES ASSUME NEW u \in Thread, NEW f \in ports'[u] PROVE Owner(f) = u /\ object'[f] = "alive"
    BY DEF Handlers
  <2>1. f \in End
    BY DEF Types
  <2> QED BY <2>1 DEF IInv, Handlers
<1>4. Releasing'
  <2> SUFFICES ASSUME NEW u \in Thread, NEW p \in Pipe, release'[u][p] # 0
      PROVE  pc'[u] \in {"release", "exit_release"} /\ u \in {Parent, p[1]}
    BY DEF Releasing
  <2>1. CASE u = t
    BY <1>2, <2>1, EndFacts
  <2>2. CASE u # t
    BY <2>2 DEF IInv, Releasing, OnlyMoves
  <2> QED BY <2>1, <2>2
<1>5. Idle'
  <2>1. \A u \in Thread : pc'[u] = pc[u] \/ u = t
    BY DEF OnlyMoves
  <2>2. \A f \in End : object'[f] = "alive" => pc'[Owner(f)] \notin {"none", "exit_release", "gone"}
    BY <2>1, EndFacts DEF IInv, Idle
  <2>3. \A w \in Worker : pc'[w] = "none" => object'[<<w, "outer">>] # "alive"
    <3> TAKE w \in Worker
    <3> HAVE pc'[w] = "none"
    <3>1. pc[w] = "none" /\ w # t
      BY <2>1, Apart
    <3>2. <<w, "outer">> \in End /\ object[<<w, "outer">>] # "alive"
      BY <3>1 DEF IInv, Idle, End
    <3>3. <<w, "outer">> # e
      BY <3>2
    <3> QED BY <3>2, <3>3
  <2> QED BY <2>2, <2>3 DEF Idle
<1>6. Hand'
  <2>1. \A u \in Thread \ {t} : ports'[u] = ports[u]
    <3> SUFFICES ASSUME NEW u \in Thread \ {t} PROVE ports'[u] = ports[u]
      OBVIOUS
    <3>1. e \notin ports[u]
      BY DEF IInv, Handlers
    <3>2. ports[u] \subseteq End /\ ports'[u] \subseteq End
      BY DEF IInv, Types
    <3> QED BY <3>1, <3>2
  <2>2. \A f \in End : Owner(f) # t /\ object[f] = "alive" => object'[f] = "alive"
    OBVIOUS
  <2> QED BY <2>1, <2>2, HandKept DEF Posting, Taking
<1>7. PipeExact'
  <2> SUFFICES ASSUME NEW p \in Pipe PROVE pipeRc'[p] = Refs(p)'
    BY DEF PipeExact
  <2>1. ThreadRef(p[1])' = ThreadRef(p[1])
    BY PipeFacts, Apart DEF ThreadRef, OnlyMoves
  <2>2. \A f \in End \ {e} : OfObject(f, p)' = OfObject(f, p) /\ OfPort(f, p)' = OfPort(f, p)
    BY EndFacts DEF OfObject, OfPort
  <2>3. OfPort(e, p)' = 0
    BY EndFacts DEF OfPort
  <2>4. OfObject(e, p)' \in {0, 1}
    BY DEF OfObject
  <2>5. release[t][p] = 0
    BY NothingToRelease
  <2>6. CASE p[1] = e[1]
    <3>1. \/ e = Outer(p) /\ t = Parent
          \/ e = Inner(p) /\ t = p[1]
      <4>1. e = Outer(p) \/ e = Inner(p)
        BY <2>6, EndFacts DEF Outer, Inner
      <4> QED BY <4>1, PipeFacts
    <3>2. p[1] # Parent /\ p[1] \in Thread /\ Parent \in Thread
      BY PipeFacts, Apart
    <3>3. release'[t][p] = OfObject(e, p) - OfObject(e, p)' + OfPort(e, p)
      OBVIOUS
    <3>4. CASE e = Outer(p) /\ t = Parent
      <4>1. OfObject(Inner(p), p)' = OfObject(Inner(p), p) /\ OfPort(Inner(p), p)' = OfPort(Inner(p), p)
        BY <2>2, <3>4, PipeFacts
      <4>2. release'[p[1]][p] = release[p[1]][p]
        BY <3>2, <3>4
      <4> QED BY <2>1, <2>3, <2>4, <2>5, <3>3, <3>4, <4>1, <4>2, RefParts DEF Refs, Kept
    <3>5. CASE e = Inner(p) /\ t = p[1]
      <4>1. OfObject(Outer(p), p)' = OfObject(Outer(p), p) /\ OfPort(Outer(p), p)' = OfPort(Outer(p), p)
        BY <2>2, <3>5, PipeFacts
      <4>2. release'[Parent][p] = release[Parent][p]
        BY <3>2, <3>5
      <4>3. release[p[1]][p] = 0 /\ OfPort(Inner(p), p)' = 0 /\ OfObject(Inner(p), p)' \in {0, 1}
            /\ release'[p[1]][p] = OfObject(Inner(p), p) - OfObject(Inner(p), p)' + OfPort(Inner(p), p)
        BY <2>3, <2>4, <2>5, <3>3, <3>5
      <4> QED BY <2>1, <4>1, <4>2, <4>3, RefParts DEF Refs, Kept
    <3> QED BY <3>1, <3>4, <3>5
  <2>7. CASE p[1] # e[1]
    <3>1. Outer(p) # e /\ Inner(p) # e
      BY <2>7 DEF Outer, Inner
    <3>2. release'[Parent][p] = release[Parent][p] /\ release'[p[1]][p] = release[p[1]][p]
      BY <1>2, <2>5, <2>7, PipeFacts, Apart
    <3> QED BY <2>1, <2>2, <3>1, <3>2, RefParts, PipeFacts DEF Refs, Kept
  <2> QED BY <2>6, <2>7
<1> QED BY <1>1, <1>3, <1>4, <1>5, <1>6, <1>7 DEF IInv

LEMMA ClearOnmessageInv ==
  ASSUME IInv, NEW t \in Thread, NEW e \in End, ClearOnmessage(t, e) PROVE IInv'
<1> USE DEF pipeVars, sabVars, handVars, Goto, FreePort, ClearOnmessage
<1>1. \A p \in Pipe : OfPort(e, p) \in {0, 1} /\ OfObject(e, p) \in {0, 1}
  BY DEF OfPort, OfObject
<1>2. release' \in [Thread -> [Pipe -> Nat]]
  <2>1. release' = [release EXCEPT ![t] = [p \in Pipe |-> OfPort(e, p)]]
    OBVIOUS
  <2>2. release \in [Thread -> [Pipe -> Nat]]
    BY DEF IInv, Types
  <2>3. \A p \in Pipe : OfPort(e, p) \in Nat
    BY <1>1
  <2>4. [p \in Pipe |-> OfPort(e, p)] \in [Pipe -> Nat]
    BY ONLY <2>3
  <2> QED BY ONLY <2>1, <2>2, <2>4
<1>3. Types'
  BY <1>2 DEF IInv, Types, Pcs
<1>4. OnlyMoves(t) /\ pc'[t] = "release" /\ \A u \in Thread \ {t} : release'[u] = release[u]
  BY DEF IInv, Types, OnlyMoves
<1>5. \A p \in Pipe : release'[t][p] = OfPort(e, p) /\ OfObject(e, p)' = OfObject(e, p)
  BY DEF IInv, Types, OfObject
<1>6. \A p \in Pipe : release'[t][p] = OfObject(e, p) - OfObject(e, p)' + OfPort(e, p)
  BY <1>1, <1>5
<1>7. \A u \in Thread, f \in End : f \in ports'[u] <=> f \in ports[u] /\ f # e
  BY DEF IInv, Types, Handlers
<1> QED BY <1>3, <1>4, <1>6, <1>7, GiveEnd

LEMMA DropWorkerInv ==
  ASSUME IInv, NEW t \in Thread, NEW e \in End, DropWorker(t, e) PROVE IInv'
<1> USE DEF pipeVars, sabVars, handVars, Goto, FreePort, DropWorker
<1>1. \A p \in Pipe : OfPort(e, p) \in {0, 1} /\ OfObject(e, p) \in {0, 1}
  BY DEF OfPort, OfObject
<1>2. release' \in [Thread -> [Pipe -> Nat]]
  <2>1. [p \in Pipe |-> OfObject(e, p) + OfPort(e, p)] \in [Pipe -> Nat]
    BY <1>1
  <2> QED BY <2>1 DEF IInv, Types
<1>3. Types'
  BY <1>2 DEF IInv, Types, Pcs
<1>4. OnlyMoves(t) /\ pc'[t] = "release" /\ \A u \in Thread \ {t} : release'[u] = release[u]
  BY DEF IInv, Types, OnlyMoves
<1>5. \A p \in Pipe : release'[t][p] = OfObject(e, p) + OfPort(e, p) /\ OfObject(e, p)' = 0
  BY DEF IInv, Types, OfObject
<1>6. \A p \in Pipe : release'[t][p] = OfObject(e, p) - OfObject(e, p)' + OfPort(e, p)
  BY <1>1, <1>5
<1>7. \A u \in Thread, f \in End : f \in ports'[u] <=> f \in ports[u] /\ f # e
  BY DEF IInv, Types, Handlers
<1>8. \A f \in End \ {e} : object'[f] = object[f]
  BY DEF IInv, Types
<1> QED BY <1>3, <1>4, <1>6, <1>7, <1>8, GiveEnd

(* Who gives the last reference back finds nobody at work on the pipe.      *)
LEMMA FreePipeInv ==
  ASSUME IInv, NEW t \in Thread, NEW p \in Pipe, FreePipe(t, p) PROVE IInv'
<1> USE DEF handVars, listVars, FreePipe
<1>1. /\ UNCHANGED <<pc, cur, ports, object, mutex>> /\ OnlyMoves(t)
      /\ pc[t] \in {"release", "exit_release"}
      /\ release[t][p] \in Nat /\ release[t][p] > 0 /\ t \in {Parent, p[1]}
  <2>1. release[t][p] \in Nat /\ release[t][p] > 0
    BY DEF IInv, Types
  <2>2. release[t][p] # 0
    BY <2>1
  <2> QED BY <2>1, <2>2 DEF IInv, Releasing, OnlyMoves
<1>2. Parent # p[1]
  BY PipeFacts, Apart
<1>3. pipeRc[p] \in Nat /\ pipeRc[p] > 0
  <2>1. pipeRc[p] \in Nat
    BY DEF IInv, Types
  <2>2. CASE t = Parent
    BY <1>1, <2>1, <2>2, RefParts DEF Refs
  <2>3. CASE t = p[1]
    <3>1. release[p[1]][p] > 0
      BY <1>1, <2>3
    <3> QED BY <2>1, <3>1, RefParts DEF Refs
  <2> QED BY <1>1, <2>2, <2>3
<1>4. Types'
  <2>1. pipeRc' \in [Pipe -> Nat]
    BY <1>3 DEF IInv, Types
  <2>2. release' \in [Thread -> [Pipe -> Nat]]
    BY <1>1 DEF IInv, Types
  <2>3. queue' \in [Pipe -> Seq(SUBSET Sab)] /\ bytes' \in [Pipe -> Nat]
    <3>1. CASE pipeRc[p] = 1
      <4>1. <<>> \in Seq(SUBSET Sab)
        OBVIOUS
      <4>2. queue' = [queue EXCEPT ![p] = <<>>] /\ bytes' = [bytes EXCEPT ![p] = 0]
        BY <3>1
      <4>3. queue \in [Pipe -> Seq(SUBSET Sab)] /\ bytes \in [Pipe -> Nat]
        BY DEF IInv, Types
      <4>4. queue' \in [Pipe -> Seq(SUBSET Sab)]
        BY <4>1, <4>2, <4>3
      <4> QED BY <4>2, <4>3, <4>4
    <3>2. CASE pipeRc[p] # 1
      BY <3>2 DEF IInv, Types
    <3> QED BY <3>1, <3>2
  <2> QED BY <2>1, <2>2, <2>3 DEF IInv, Types
<1>5. Mutual'
  BY <1>1 DEF IInv, Mutual, Critical
<1>6. Bytes'
  <2>1. CASE pipeRc[p] # 1
    BY <1>1, <2>1 DEF IInv, Bytes, Agree
  <2>2. CASE pipeRc[p] = 1
    <3>1. \A e \in End : object[e] = "alive" => Recv(e) # p /\ Send(e) # p
      <4> SUFFICES ASSUME NEW e \in End, object[e] = "alive", p \in {Recv(e), Send(e)} PROVE FALSE
        OBVIOUS
      <4>1. p[1] = e[1]
        BY EndFacts
      <4>2. Refs(p) > release[Parent][p] + release[p[1]][p]
        BY <4>1, Held
      <4> QED BY <1>1, <2>2, <4>2, RefParts
    <3>2. \A u \in Thread : pc[u] \in Posting \cup Taking =>
            /\ Recv(cur[u]) \in Pipe \ {p} /\ Send(cur[u]) \in Pipe \ {p}
      BY <3>1, EndFacts DEF IInv, Hand
    <3>3. /\ bytes'[p] = 0 /\ queue'[p] = <<>>
          /\ \A q \in Pipe \ {p} : bytes'[q] = bytes[q] /\ queue'[q] = queue[q]
      BY <2>2 DEF IInv, Types
    <3>4. \A q \in Pipe : mutex'[q] = None => Agree(q)'
      BY <1>1, <3>3 DEF IInv, Bytes, Agree
    <3>5. ASSUME NEW u \in Thread
          PROVE  /\ pc'[u] = "post_wake" => Agree(Send(cur[u]))'
                 /\ pc'[u] = "post_add" => bytes'[Send(cur'[u])] = 1
                 /\ pc'[u] \in {"take_lock", "take"} => bytes'[Recv(cur'[u])] > 0
                 /\ pc'[u] = "take" => Agree(Recv(cur[u]))'
                 /\ pc'[u] = "read" => bytes'[Recv(cur'[u])] = 1 /\ queue'[Recv(cur'[u])] = <<>>
      BY <1>1, <3>2, <3>3 DEF IInv, Bytes, Agree, Posting, Taking
    <3> QED BY <3>4, <3>5 DEF Bytes
  <2> QED BY <2>1, <2>2
<1>7. Handlers' /\ Hand'
  BY <1>1 DEF IInv, Handlers, Hand
<1>8. \A u \in Thread, q \in Pipe :
         release'[u][q] = IF u = t /\ q = p THEN release[u][q] - 1 ELSE release[u][q]
  BY DEF IInv, Types
<1>9. Releasing'
  BY <1>1, <1>8 DEF IInv, Releasing
<1>10. Idle'
  <2>1. \A u \in Thread, q \in Pipe : release[u][q] = 0 => release'[u][q] = 0
    BY <1>1, <1>8
  <2> QED BY <1>1, <2>1, Apart DEF IInv, Idle
<1>11. PipeExact'
  <2> SUFFICES ASSUME NEW q \in Pipe PROVE pipeRc'[q] = Refs(q)'
    BY DEF PipeExact
  <2>1. /\ ThreadRef(q[1])' = ThreadRef(q[1])
        /\ OfObject(Outer(q), q)' = OfObject(Outer(q), q) /\ OfObject(Inner(q), q)' = OfObject(Inner(q), q)
        /\ OfPort(Outer(q), q)' = OfPort(Outer(q), q) /\ OfPort(Inner(q), q)' = OfPort(Inner(q), q)
    BY <1>1 DEF ThreadRef, OfObject, OfPort
  <2>2. release'[Parent][q] + release'[q[1]][q]
          = release[Parent][q] + release[q[1]][q] - (IF q = p THEN 1 ELSE 0)
    <3>1. q[1] \in Thread /\ Parent \in Thread /\ q[1] # Parent
      BY PipeFacts, Apart
    <3>2. release[Parent][q] \in Nat /\ release[q[1]][q] \in Nat
      BY RefParts
    <3>3. CASE q # p
      BY <1>8, <3>1, <3>2, <3>3
    <3>4. CASE q = p
      <4>1. t = Parent \/ t = q[1]
        BY <1>1, <3>4 DEF IInv, Releasing
      <4> HIDE DEF FreePipe
      <4>2. CASE t = Parent
        BY <1>8, <3>1, <3>2, <3>4, <4>2
      <4>3. CASE t = q[1]
        BY <1>8, <3>1, <3>2, <3>4, <4>3
      <4> QED BY <4>1, <4>2, <4>3
    <3> QED BY <3>3, <3>4
  <2>3. pipeRc'[q] = pipeRc[q] - (IF q = p THEN 1 ELSE 0)
    BY DEF IInv, Types
  <2>4. release'[Parent][q] \in Nat /\ release'[q[1]][q] \in Nat
    BY <1>4, PipeFacts, Apart DEF Types
  <2>5. Kept(q)' = Kept(q) /\ Kept(q) \in Nat
    BY <2>1, RefParts DEF Kept
  <2>6. ASSUME NEW d \in {0, 1}, pipeRc'[q] = pipeRc[q] - d,
               release'[Parent][q] + release'[q[1]][q] = release[Parent][q] + release[q[1]][q] - d
        PROVE  pipeRc'[q] = Refs(q)'
    <3> HIDE DEF FreePipe
    <3>1. pipeRc[q] = Kept(q) + release[Parent][q] + release[q[1]][q]
      BY RefParts DEF Refs
    <3>2. Refs(q)' = Kept(q) + release'[Parent][q] + release'[q[1]][q]
      BY <2>5 DEF Refs
    <3>3. release[Parent][q] \in Nat /\ release[q[1]][q] \in Nat
      BY RefParts
    <3> QED BY <2>4, <2>5, <2>6, <3>1, <3>2, <3>3
  <2> QED BY <2>2, <2>3, <2>6
<1> QED BY <1>4, <1>5, <1>6, <1>7, <1>9, <1>10, <1>11 DEF IInv

LEMMA ReleasedInv == ASSUME IInv, NEW t \in Thread, Released(t) PROVE IInv'
<1> USE DEF pipeVars, sabVars, handVars, listVars, Goto, Released
<1>1. /\ \/ pc[t] = "release" /\ pc'[t] = "js"
         \/ pc[t] = "exit_release" /\ pc'[t] = "gone"
      /\ OnlyMoves(t) /\ \A p \in Pipe : release[t][p] = 0
      /\ UNCHANGED <<ports, object, pipeRc, release>> /\ UNCHANGED pipeVars
  BY DEF IInv, Types, OnlyMoves
<1>2. Types'
  BY DEF IInv, Types, Pcs
<1>3. Mutual' /\ Bytes'
  BY <1>1, Outside DEF Locked
<1>4. Handlers'
  BY DEF IInv, Handlers
<1>5. Releasing'
  BY <1>1 DEF IInv, Releasing, OnlyMoves
<1>6. Idle'
  <2>1. \A u \in Thread : pc'[u] \in {"none", "exit_release", "gone"} => pc[u] \in {"none", "exit_release", "gone"}
    BY <1>1 DEF OnlyMoves
  <2>2. \A w \in Worker : pc'[w] = "none" => pc[w] = "none"
    BY <1>1, Apart DEF OnlyMoves
  <2> QED BY <2>1, <2>2, EndFacts DEF IInv, Idle
<1>7. Hand'
  BY <1>1, HandKept DEF Posting, Taking
<1>8. PipeExact'
  <2> SUFFICES ASSUME NEW p \in Pipe PROVE pipeRc'[p] = Refs(p)'
    BY DEF PipeExact
  <2>1. ThreadRef(p[1])' = ThreadRef(p[1])
    BY <1>1, PipeFacts, Apart DEF ThreadRef, OnlyMoves
  <2>2. /\ OfObject(Outer(p), p)' = OfObject(Outer(p), p) /\ OfObject(Inner(p), p)' = OfObject(Inner(p), p)
        /\ OfPort(Outer(p), p)' = OfPort(Outer(p), p) /\ OfPort(Inner(p), p)' = OfPort(Inner(p), p)
    BY <1>1 DEF OfObject, OfPort
  <2> QED BY <1>1, <2>1, <2>2, RefParts DEF Refs, Kept
<1> QED BY <1>2, <1>3, <1>4, <1>5, <1>6, <1>7, <1>8 DEF IInv

LEMMA ExitInv == ASSUME IInv, NEW t \in Thread, Exit(t) PROVE IInv'
<1> DEFINE mine(e) == Owner(e) = t
           own(p) == <<p[1], IF t = Parent THEN "outer" ELSE "inner">>
           held(p) == IF mine(own(p)) THEN OfObject(own(p), p) + OfPort(own(p), p) ELSE 0
<1>1. /\ pc[t] = "exit" /\ pc' = [pc EXCEPT ![t] = "exit_release"]
      /\ object' = [e \in End |-> IF mine(e) THEN "finalized" ELSE object[e]]
      /\ ports' = [ports EXCEPT ![t] = {}]
      /\ release' = [release EXCEPT ![t] = [p \in Pipe |-> held(p) + OfThread(t, p)]]
      /\ before' \subseteq before
      /\ UNCHANGED <<others, pipeRc, mutex, queue, bytes, cur, msg>>
  BY DEF Exit, Goto, pipeVars, handVars
<1>2. /\ OnlyMoves(t) /\ pc'[t] = "exit_release" /\ UNCHANGED pipeVars
      /\ \A u \in Thread : pc'[u] = IF u = t THEN "exit_release" ELSE pc[u]
  BY <1>1 DEF IInv, Types, OnlyMoves, pipeVars
<1>3. \A p \in Pipe : /\ held(p) \in Nat
                      /\ t \notin {Parent, p[1]} => held(p) + OfThread(t, p) = 0
                      /\ t = Parent => held(p) + OfThread(t, p) = OfObject(Outer(p), p) + OfPort(Outer(p), p)
                      /\ t = p[1] => held(p) + OfThread(t, p) = OfObject(Inner(p), p) + OfPort(Inner(p), p) + 1
  <2> SUFFICES ASSUME NEW p \in Pipe
      PROVE  /\ held(p) \in Nat
             /\ t \notin {Parent, p[1]} => held(p) + OfThread(t, p) = 0
             /\ t = Parent => held(p) + OfThread(t, p) = OfObject(Outer(p), p) + OfPort(Outer(p), p)
             /\ t = p[1] => held(p) + OfThread(t, p) = OfObject(Inner(p), p) + OfPort(Inner(p), p) + 1
    OBVIOUS
  <2>1. p[1] # Parent
    BY PipeFacts, Apart
  <2>2. \A e \in End : OfObject(e, p) \in {0, 1} /\ OfPort(e, p) \in {0, 1}
    BY DEF OfObject, OfPort
  <2>3. CASE t = Parent
    <3>1. own(p) = Outer(p) /\ mine(own(p)) /\ OfThread(t, p) = 0
      BY <2>1, <2>3, PipeFacts DEF Outer, OfThread
    <3> QED BY <2>1, <2>2, <2>3, <3>1, PipeFacts
  <2>4. CASE t = p[1]
    <3>1. own(p) = Inner(p) /\ mine(own(p)) /\ OfThread(t, p) = 1
      BY <2>1, <2>4, PipeFacts DEF Inner, OfThread
    <3> QED BY <2>1, <2>2, <2>4, <3>1, PipeFacts
  <2>5. CASE t \notin {Parent, p[1]}
    <3>1. own(p) = Inner(p) /\ ~mine(own(p)) /\ OfThread(t, p) = 0
      BY <2>5, PipeFacts DEF Inner, OfThread
    <3> QED BY <2>5, <3>1
  <2> QED BY <2>3, <2>4, <2>5
<1> HIDE DEF held
<1>4. \A p \in Pipe : OfThread(t, p) \in {0, 1}
  BY DEF OfThread
<1>5. Types'
  <2>1. [p \in Pipe |-> held(p) + OfThread(t, p)] \in [Pipe -> Nat]
    BY <1>3, <1>4
  <2>2. release' \in [Thread -> [Pipe -> Nat]]
    BY <1>1, <2>1 DEF IInv, Types
  <2>3. object' \in [End -> {"none", "alive", "finalized"}] /\ ports' \in [Thread -> SUBSET End]
    BY <1>1 DEF IInv, Types
  <2> QED BY <1>1, <2>2, <2>3 DEF IInv, Types, Pcs
<1>6. /\ \A e \in End : object'[e] = "alive" <=> object[e] = "alive" /\ Owner(e) # t
      /\ \A u \in Thread : ports'[u] = IF u = t THEN {} ELSE ports[u]
      /\ \A u \in Thread, p \in Pipe :
           release'[u][p] = IF u = t THEN held(p) + OfThread(t, p) ELSE release[u][p]
  BY <1>1 DEF IInv, Types
<1>7. Mutual' /\ Bytes'
  BY <1>1, <1>2, Outside DEF Locked
<1>8. Handlers'
  <2> SUFFICES ASSUME NEW u \in Thread, NEW f \in ports'[u] PROVE Owner(f) = u /\ object'[f] = "alive"
    BY DEF Handlers
  <2>1. u # t /\ f \in ports[u] /\ f \in End
    BY <1>6 DEF IInv, Types
  <2> QED BY <1>6, <2>1 DEF IInv, Handlers
<1>9. Releasing'
  BY <1>2, <1>3, <1>6 DEF IInv, Releasing
<1>10. Idle'
  <2>1. \A e \in End : object'[e] = "alive" => pc'[Owner(e)] \notin {"none", "exit_release", "gone"}
    BY <1>2, <1>6, EndFacts DEF IInv, Idle
  <2>2. ASSUME NEW w \in Worker, pc'[w] = "none"
        PROVE  object'[<<w, "outer">>] # "alive"
    <3>1. pc[w] = "none" /\ w # t
      BY <1>2, <2>2, Apart
    <3>2. <<w, "outer">> \in End /\ object[<<w, "outer">>] # "alive"
      BY <3>1 DEF IInv, Idle, End
    <3> QED BY <1>6, <3>2
  <2> QED BY <2>1, <2>2 DEF Idle
<1>11. Hand'
  BY <1>2, <1>6, HandKept DEF Posting, Taking
<1>12. PipeExact'
  <2> SUFFICES ASSUME NEW p \in Pipe PROVE pipeRc'[p] = Refs(p)'
    BY DEF PipeExact
  <2>1. p[1] # Parent /\ p[1] \in Thread /\ Parent \in Thread
    BY PipeFacts, Apart
  <2>2. release[t][p] = 0
    BY <1>1, NothingToRelease
  <2>3. \A e \in End : Owner(e) # t => OfObject(e, p)' = OfObject(e, p) /\ OfPort(e, p)' = OfPort(e, p)
    BY <1>6, EndFacts DEF OfObject, OfPort
  <2>4. \A e \in End : Owner(e) = t => OfObject(e, p)' = 0 /\ OfPort(e, p)' = 0
    BY <1>6, EndFacts DEF OfObject, OfPort
  <2>5. pipeRc'[p] = pipeRc[p]
    BY <1>1
  <2>6. CASE t = Parent
    <3>1. ThreadRef(p[1])' = ThreadRef(p[1])
      BY <1>2, <2>1, <2>6 DEF ThreadRef
    <3>2. /\ OfObject(Outer(p), p)' = 0 /\ OfPort(Outer(p), p)' = 0
          /\ OfObject(Inner(p), p)' = OfObject(Inner(p), p) /\ OfPort(Inner(p), p)' = OfPort(Inner(p), p)
      BY <2>1, <2>3, <2>4, <2>6, PipeFacts
    <3>3. /\ release'[Parent][p] = OfObject(Outer(p), p) + OfPort(Outer(p), p)
          /\ release'[p[1]][p] = release[p[1]][p] /\ release[Parent][p] = 0
      BY <1>3, <1>6, <2>1, <2>2, <2>6
    <3> QED BY <2>5, <3>1, <3>2, <3>3, RefParts DEF Refs, Kept
  <2>7. CASE t = p[1]
    <3>1. ThreadRef(p[1])' = 0 /\ ThreadRef(p[1]) = 1
      BY <1>1, <1>2, <2>7 DEF ThreadRef
    <3>2. /\ OfObject(Inner(p), p)' = 0 /\ OfPort(Inner(p), p)' = 0
          /\ OfObject(Outer(p), p)' = OfObject(Outer(p), p) /\ OfPort(Outer(p), p)' = OfPort(Outer(p), p)
      BY <2>1, <2>3, <2>4, <2>7, PipeFacts
    <3>3. /\ release'[p[1]][p] = OfObject(Inner(p), p) + OfPort(Inner(p), p) + 1
          /\ release'[Parent][p] = release[Parent][p] /\ release[p[1]][p] = 0
      BY <1>3, <1>6, <2>1, <2>2, <2>7
    <3> QED BY <2>5, <3>1, <3>2, <3>3, RefParts DEF Refs, Kept
  <2>8. CASE t \notin {Parent, p[1]}
    <3>1. ThreadRef(p[1])' = ThreadRef(p[1])
      BY <1>2, <2>1, <2>8 DEF ThreadRef
    <3>2. /\ OfObject(Inner(p), p)' = OfObject(Inner(p), p) /\ OfPort(Inner(p), p)' = OfPort(Inner(p), p)
          /\ OfObject(Outer(p), p)' = OfObject(Outer(p), p) /\ OfPort(Outer(p), p)' = OfPort(Outer(p), p)
      BY <2>3, <2>8, PipeFacts
    <3>3. release'[p[1]][p] = release[p[1]][p] /\ release'[Parent][p] = release[Parent][p]
      BY <1>6, <2>1, <2>8
    <3> QED BY <2>5, <3>1, <3>2, <3>3, RefParts DEF Refs, Kept
  <2> QED BY <2>6, <2>7, <2>8
<1> QED BY <1>5, <1>7, <1>8, <1>9, <1>10, <1>11, <1>12 DEF IInv

-----------------------------------------------------------------------------
(* The theorems. *)

LEMMA InitInv == Init => IInv
<1> SUFFICES ASSUME Init PROVE IInv
  OBVIOUS
<1> USE DEF Init
<1>1. Types
  <2>1. \A S : <<>> \in Seq(S)
    OBVIOUS
  <2> QED BY <2>1, Apart DEF Types, Pcs
<1>2. Handlers /\ Releasing /\ Idle /\ Hand
  BY Apart DEF Handlers, Releasing, Idle, Hand, Posting, Taking, End
<1>3. Mutual /\ Bytes
  BY Apart DEF Mutual, Critical, Bytes, Agree
<1>4. PipeExact
  <2> SUFFICES ASSUME NEW p \in Pipe PROVE pipeRc[p] = Refs(p)
    BY DEF PipeExact
  <2>1. ThreadRef(p[1]) = 0 /\ release[Parent][p] = 0 /\ release[p[1]][p] = 0
    BY PipeFacts, Apart DEF ThreadRef
  <2>2. OfObject(Outer(p), p) = 0 /\ OfObject(Inner(p), p) = 0
        /\ OfPort(Outer(p), p) = 0 /\ OfPort(Inner(p), p) = 0
    BY PipeFacts, EndFacts DEF OfObject, OfPort
  <2> QED BY <2>1, <2>2 DEF Refs, Kept
<1> QED BY <1>1, <1>2, <1>3, <1>4 DEF IInv

LEMMA NextInv == IInv /\ [Next]_vars => IInv'
<1> SUFFICES ASSUME IInv, [Next]_vars PROVE IInv'
  OBVIOUS
<1>1. CASE UNCHANGED vars
  <2>1. Types' /\ Handlers' /\ Releasing' /\ Idle' /\ Hand'
    BY <1>1 DEF vars, pipeVars, handVars, listVars, IInv, Types, Handlers, Releasing, Idle, Hand
  <2>2. Mutual' /\ Bytes'
    BY <1>1 DEF vars, pipeVars, handVars, listVars, IInv, Mutual, Critical, Bytes, Agree
  <2>3. PipeExact'
    BY <1>1 DEF vars, pipeVars, handVars, listVars, IInv, PipeExact, Refs, Kept, ThreadRef, OfObject, OfPort
  <2> QED BY <2>1, <2>2, <2>3 DEF IInv
<1>2. ASSUME NEW t \in Thread, Script(t) PROVE IInv'
  BY <1>2, NewWorkerInv, NewWorkerFailsInv, ImportOsInv, SetOnmessageInv, ClearOnmessageInv, DropWorkerInv,
     PostMessageInv, AddOtherInv, ClearOthersInv, NewSabInv, DropSabInv DEF Script
<1>3. ASSUME NEW t \in Thread, Return(t) PROVE IInv'
  BY <1>3, ReturnInv
<1>4. ASSUME NEW t \in Thread, Runtime(t) PROVE IInv'
  BY <1>4, PostLockInv, PostWakeInv, PostAddInv, NoMoreEventsInv, SelectInv,
     TakeLockInv, TakeInv, ReadInv, CloneInv, FreeMessageInv, FreePipeInv, ReleasedInv, ExitInv DEF Runtime
<1>5. ASSUME NEW t \in Thread, Serve(t) PROVE IInv'
  BY <1>5, ServeOtherInv, ServeSignalInv DEF Serve
<1> QED BY <1>1, <1>2, <1>3, <1>4, <1>5 DEF Next

THEOREM Invariance == Spec => []IInv
BY InitInv, NextInv, PTL DEF Spec

(* The pipe carries exactly one byte while the queue holds a message, and    *)
(* none while it is empty, whenever nobody is in a critical section: so      *)
(* js_os_poll's select() neither misses a message nor reports an empty queue.*)
THEOREM WakesUp == Spec => []WakeByte
<1>1. IInv => WakeByte
  BY DEF IInv, Bytes, Agree, WakeByte
<1> QED BY <1>1, Invariance, PTL

(* handle_posted_message never calls read() on an empty pipe while it holds  *)
(* the queue's mutex, and never finds the queue empty.                       *)
THEOREM NeverBlocks == Spec => []NeverBlocksLocked
<1>1. IInv => NeverBlocksLocked
  <2> SUFFICES ASSUME IInv, NEW t \in Thread
      PROVE  /\ pc[t] = "read" => bytes[Recv(cur[t])] > 0
             /\ pc[t] = "take" => queue[Recv(cur[t])] # <<>>
    BY DEF NeverBlocksLocked
  <2> QED BY DEF IInv, Bytes, Agree
<1> QED BY <1>1, Invariance, PTL

(* The atomic ref_count of a pipe never reaches zero while a thread, a       *)
(* handler or a Worker object still uses it.                                 *)
THEOREM NoUseAfterFree == Spec => []PipeAlive
<1>1. IInv => PipeAlive
  <2> SUFFICES ASSUME IInv PROVE PipeAlive
    OBVIOUS
  <2>1. ASSUME NEW e \in End, object[e] = "alive" PROVE pipeRc[Recv(e)] > 0 /\ pipeRc[Send(e)] > 0
    <3>1. Recv(e) \in Pipe /\ Send(e) \in Pipe /\ e[1] = Recv(e)[1] /\ e[1] = Send(e)[1]
      BY EndFacts
    <3>2. ASSUME NEW p \in Pipe, p[1] = e[1], p \in {Recv(e), Send(e)} PROVE pipeRc[p] > 0
      <4>1. Refs(p) > release[Parent][p] + release[p[1]][p]
        BY <2>1, <3>2, Held
      <4>2. pipeRc[p] = Refs(p) /\ release[Parent][p] \in Nat /\ release[p[1]][p] \in Nat
        BY RefParts
      <4>3. pipeRc[p] \in Nat
        BY DEF IInv, Types
      <4> QED BY <4>1, <4>2, <4>3
    <3> QED BY <3>1, <3>2
  <2>2. \A t \in Thread : \A e \in ports[t] : pipeRc[Recv(e)] > 0
    BY <2>1 DEF IInv, Types, Handlers
  <2>3. \A t \in Thread, p \in Pipe : Sends(t, p) \/ Takes(t, p) => pipeRc[p] > 0
    BY <2>1 DEF IInv, Hand, Sends, Takes, Posting, Taking
  <2> QED BY <2>1, <2>2, <2>3 DEF PipeAlive
<1> QED BY <1>1, Invariance, PTL

(* When both threads of a worker have given up their Worker objects, its two *)
(* pipes are freed: no reference is forgotten on any path.                   *)
THEOREM NothingLeaks == Spec => []PipesFreed
<1>1. IInv => PipesFreed
  <2> SUFFICES ASSUME IInv, NEW w \in Worker, NEW p \in Pipe, p[1] = w, pc[w] \in {"none", "gone"},
                      object[<<w, "outer">>] # "alive", pc[Parent] = "poll"
      PROVE  pipeRc[p] = 0
    BY DEF PipesFreed, Pipe
  <2>1. ThreadRef(p[1]) = 0
    BY DEF ThreadRef
  <2>2. object[Outer(p)] # "alive" /\ object[Inner(p)] # "alive"
    BY PipeFacts DEF Outer, IInv, Idle
  <2>3. OfObject(Outer(p), p) = 0 /\ OfObject(Inner(p), p) = 0
    BY <2>2 DEF OfObject
  <2>4. OfPort(Outer(p), p) = 0 /\ OfPort(Inner(p), p) = 0
    BY <2>2, PipeFacts, Apart DEF OfPort, IInv, Handlers
  <2>5. release[Parent][p] = 0 /\ release[p[1]][p] = 0
    BY PipeFacts, Apart, NothingToRelease
  <2> QED BY <2>1, <2>3, <2>4, <2>5, RefParts DEF Refs, Kept
<1> QED BY <1>1, Invariance, PTL

(* The byte and the queue agree, and so no thread stops with the mutex held. *)
THEOREM WakesAreExact == Spec => []WakesExact
BY WakesUp, NeverBlocks, PTL DEF WakesExact

(* Pipes live exactly as long as one of the two threads has them.            *)
THEOREM PipesAreExact == Spec => []PipesExact
BY NoUseAfterFree, NothingLeaks, PTL DEF PipesExact

-----------------------------------------------------------------------------
(* Counting the references on a buffer.                                     *)

(* A union of disjoint copies of sets, one of which changes.                *)
LEMMA TaggedChange ==
  ASSUME NEW f, NEW g, DOMAIN g = DOMAIN f, NEW x \in DOMAIN f,
         \A y \in DOMAIN f \ {x} : g[y] = f[y],
         IsFiniteSet(Tagged(f)), IsFiniteSet(f[x]), IsFiniteSet(g[x])
  PROVE  /\ IsFiniteSet(Tagged(g))
         /\ Cardinality(Tagged(g)) = Cardinality(Tagged(f)) - Cardinality(f[x]) + Cardinality(g[x])
<1> DEFINE A == {x} \X f[x]
           B == {x} \X g[x]
           R == Tagged(f) \ A
<1>1. IsFiniteSet(A) /\ Cardinality(A) = Cardinality(f[x])
  <2>1. IsFiniteSet({x}) /\ Cardinality({x}) = 1
    BY FS_Singleton
  <2>2. IsFiniteSet(A) /\ Cardinality(A) = 1 * Cardinality(f[x])
    BY <2>1, FS_Product
  <2> QED BY <2>2, FS_CardinalityType
<1>2. IsFiniteSet(B) /\ Cardinality(B) = Cardinality(g[x])
  <2>1. IsFiniteSet({x}) /\ Cardinality({x}) = 1
    BY FS_Singleton
  <2>2. IsFiniteSet(B) /\ Cardinality(B) = 1 * Cardinality(g[x])
    BY <2>1, FS_Product
  <2> QED BY <2>2, FS_CardinalityType
<1>3. A \subseteq Tagged(f)
  BY DEF Tagged
<1>4. IsFiniteSet(R) /\ Cardinality(R) = Cardinality(Tagged(f)) - Cardinality(A)
  <2>1. Tagged(f) \cap A = A
    BY <1>3
  <2> HIDE DEF A
  <2> QED BY <2>1, FS_Difference
<1>5. Tagged(g) = R \cup B
  <2>1. ASSUME NEW r \in Tagged(g) PROVE r \in R \cup B
    <3>1. PICK y \in DOMAIN f : r \in {y} \X g[y]
      BY DEF Tagged
    <3>2. CASE y = x
      BY <3>1, <3>2
    <3>3. CASE y # x
      <4>1. r \in {y} \X f[y]
        BY <3>1, <3>3
      <4>2. r \in Tagged(f)
        BY <4>1 DEF Tagged
      <4>3. r \notin A
        BY <3>1, <3>3
      <4> QED BY <4>2, <4>3
    <3> QED BY <3>2, <3>3
  <2>2. ASSUME NEW r \in R PROVE r \in Tagged(g)
    <3>1. PICK y \in DOMAIN f : r \in {y} \X f[y]
      BY DEF Tagged
    <3>2. y # x
      BY <3>1
    <3>3. r \in {y} \X g[y]
      BY <3>1, <3>2
    <3> QED BY <3>3 DEF Tagged
  <2>3. B \subseteq Tagged(g)
    BY DEF Tagged
  <2> QED BY <2>1, <2>2, <2>3
<1>6. R \cap B = {}
  <2> SUFFICES ASSUME NEW r \in R, r \in B PROVE FALSE
    OBVIOUS
  <2>1. PICK y \in DOMAIN f : r \in {y} \X f[y]
    BY DEF Tagged
  <2> QED BY <2>1
<1> HIDE DEF A, B, R
<1>7. IsFiniteSet(R \cup B) /\ Cardinality(R \cup B) = Cardinality(R) + Cardinality(B) - Cardinality({})
  BY <1>2, <1>4, <1>6, FS_Union
<1> QED
  <2>1. Cardinality({}) = 0
    BY FS_EmptySet
  <2>2. /\ Cardinality(Tagged(f)) \in Nat /\ Cardinality(f[x]) \in Nat
        /\ Cardinality(g[x]) \in Nat /\ Cardinality(R) \in Nat
    BY <1>4, FS_CardinalityType
  <2> QED BY <1>1, <1>2, <1>4, <1>5, <1>7, <2>1, <2>2

(* The places of a queue that carry s, when a message is added or taken.     *)
LEMMA InQueueFinite ==
  ASSUME NEW s, NEW q \in Seq(SUBSET Sab)
  PROVE  IsFiniteSet(InQueue(s, q)) /\ Cardinality(InQueue(s, q)) \in Nat
<1>1. DOMAIN q = 1 .. Len(q) /\ Len(q) \in Nat
  OBVIOUS
<1>2. IsFiniteSet(1 .. Len(q))
  BY <1>1, FS_Interval
<1>3. InQueue(s, q) \in SUBSET (1 .. Len(q))
  BY <1>1 DEF InQueue
<1> QED BY <1>2, <1>3, FS_Subset, FS_CardinalityType

Bit(s, m) == IF s \in m THEN 1 ELSE 0

LEMMA InQueueEmpty == ASSUME NEW s PROVE InQueue(s, <<>>) = {} /\ Cardinality(InQueue(s, <<>>)) = 0
BY FS_EmptySet DEF InQueue

LEMMA InQueueAppend ==
  ASSUME NEW s, NEW q \in Seq(SUBSET Sab), NEW m \in SUBSET Sab
  PROVE  Cardinality(InQueue(s, Append(q, m))) =
           Cardinality(InQueue(s, q)) + Bit(s, m)
<1>1. InQueue(s, Append(q, m)) = IF s \in m THEN InQueue(s, q) \cup {Len(q) + 1} ELSE InQueue(s, q)
  BY DEF InQueue
<1>2. Len(q) + 1 \notin InQueue(s, q)
  BY DEF InQueue
<1>3. IsFiniteSet(InQueue(s, q)) /\ Cardinality(InQueue(s, q)) \in Nat
  BY InQueueFinite
<1>4. Cardinality(InQueue(s, q) \cup {Len(q) + 1}) = Cardinality(InQueue(s, q)) + 1
  BY <1>2, <1>3, FS_AddElement
<1> QED BY <1>1, <1>3, <1>4 DEF Bit

LEMMA InQueueTail ==
  ASSUME NEW s, NEW q \in Seq(SUBSET Sab), q # <<>>
  PROVE  Cardinality(InQueue(s, q)) =
           Cardinality(InQueue(s, Tail(q))) + Bit(s, Head(q))
<1> DEFINE I == InQueue(s, q) \ {1}
           J == InQueue(s, Tail(q))
           h == [i \in J |-> i + 1]
<1>1. Len(q) \in Nat \ {0} /\ DOMAIN q = 1 .. Len(q)
  OBVIOUS
<1>2. Tail(q) \in Seq(SUBSET Sab) /\ Len(Tail(q)) = Len(q) - 1 /\ DOMAIN Tail(q) = 1 .. Len(q) - 1
      /\ \A i \in 1 .. Len(q) - 1 : Tail(q)[i] = q[i + 1]
  BY <1>1
<1>3. \A i : i \in J <=> i \in 1 .. Len(q) - 1 /\ s \in q[i + 1]
  BY <1>2 DEF InQueue
<1>4. \A i : i \in I <=> i \in 2 .. Len(q) /\ s \in q[i]
  BY <1>1 DEF InQueue
<1>5. h \in Bijection(J, I)
  <2> HIDE DEF I, J
  <2>1. \A i \in J : i + 1 \in I /\ i \in Nat
    BY <1>1, <1>3, <1>4
  <2>2. \A j \in I : j - 1 \in J /\ (j - 1) + 1 = j
    <3> SUFFICES ASSUME NEW j \in I PROVE j - 1 \in J /\ (j - 1) + 1 = j
      OBVIOUS
    <3>1. j \in 2 .. Len(q) /\ s \in q[j]
      BY <1>4
    <3>2. (j - 1) + 1 = j /\ j - 1 \in 1 .. Len(q) - 1
      BY <1>1, <3>1
    <3> QED BY <1>3, <3>1, <3>2
  <2>3. h \in [J -> I]
    BY <2>1
  <2>4. \A a, b \in J : h[a] = h[b] => a = b
    BY <2>1
  <2>5. \A j \in I : \E i \in J : h[i] = j
    BY <2>2
  <2> QED BY <2>3, <2>4, <2>5 DEF Bijection, Injection, Surjection, IsInjective
<1>6. IsFiniteSet(J) /\ Cardinality(J) \in Nat
  BY <1>2, InQueueFinite
<1>7. IsFiniteSet(I) /\ Cardinality(I) = Cardinality(J)
  <2>1. ExistsBijection(J, I)
    BY <1>5 DEF ExistsBijection
  <2> HIDE DEF I, J
  <2> QED BY <1>6, <2>1, FS_Bijection
<1>8. IsFiniteSet(InQueue(s, q)) /\ Cardinality(InQueue(s, q)) \in Nat
  BY InQueueFinite
<1>9. Cardinality(I) = IF 1 \in InQueue(s, q) THEN Cardinality(InQueue(s, q)) - 1 ELSE Cardinality(InQueue(s, q))
  BY <1>8, FS_RemoveElement
<1>10. 1 \in InQueue(s, q) <=> s \in Head(q)
  BY <1>1 DEF InQueue
<1>11. Cardinality(InQueue(s, q)) = Cardinality(J) + Bit(s, Head(q))
  <2> HIDE DEF I, J
  <2> QED BY <1>6, <1>7, <1>8, <1>9, <1>10 DEF Bit
<1> QED BY <1>11

-----------------------------------------------------------------------------
(* The invariant of the buffers.  A message is in the hand of a thread only  *)
(* while it posts it, or from the time it takes it off the queue to the time *)
(* it frees it: otherwise taking one would lose another.                     *)

Carrying == Posting \cup {"read", "clone", "free_message"}

SabTypes == sabRc \in [Sab -> Nat] /\ sabObj \in [Thread -> [Sab -> Nat]]

Carried == \A t \in Thread : msg[t] # {} => pc[t] \in Carrying

FinitelyHeld ==
  \A s \in Sab : IsFiniteSet(Objects(s)) /\ IsFiniteSet(Hands(s)) /\ IsFiniteSet(InQueues(s))

SabCounted ==
  \A s \in Sab :
    sabRc[s] = Cardinality(Objects(s)) + Cardinality(Hands(s)) + Cardinality(InQueues(s))

SInv ==
  /\ IInv
  /\ SabTypes
  /\ Carried
  /\ FinitelyHeld
  /\ SabCounted

(* What a step of thread t does to the three sets.                           *)
LEMMA ObjectsChange ==
  ASSUME SInv, NEW t \in Thread, NEW s \in Sab, sabObj' \in [Thread -> [Sab -> Nat]],
         \A u \in Thread \ {t} : sabObj'[u] = sabObj[u]
  PROVE  /\ IsFiniteSet(Objects(s)')
         /\ Cardinality(Objects(s)') = Cardinality(Objects(s)) - sabObj[t][s] + sabObj'[t][s]
<1> DEFINE f == [u \in Thread |-> 1 .. sabObj[u][s]]
           g == [u \in Thread |-> 1 .. sabObj'[u][s]]
<1>1. Objects(s) = Tagged(f) /\ Objects(s)' = Tagged(g)
  BY DEF Objects, Tagged
<1>2. sabObj[t][s] \in Nat /\ sabObj'[t][s] \in Nat
  BY DEF SInv, SabTypes
<1>3. /\ IsFiniteSet(f[t]) /\ Cardinality(f[t]) = sabObj[t][s]
      /\ IsFiniteSet(g[t]) /\ Cardinality(g[t]) = sabObj'[t][s]
  <2>1. ASSUME NEW n \in Nat PROVE IsFiniteSet(1 .. n) /\ Cardinality(1 .. n) = n
    <3>1. IsFiniteSet(1 .. n) /\ Cardinality(1 .. n) = IF 1 > n THEN 0 ELSE n - 1 + 1
      BY FS_Interval
    <3> QED BY <3>1
  <2> QED BY <1>2, <2>1
<1>4. DOMAIN f = Thread /\ DOMAIN g = Thread /\ \A u \in Thread \ {t} : g[u] = f[u]
  OBVIOUS
<1>5. IsFiniteSet(Tagged(f))
  BY <1>1 DEF SInv, FinitelyHeld
<1> HIDE DEF f, g
<1> QED BY <1>1, <1>3, <1>4, <1>5, TaggedChange

LEMMA HandsChange ==
  ASSUME SInv, NEW t \in Thread, NEW s \in Sab, \A u \in Thread \ {t} : msg'[u] = msg[u]
  PROVE  /\ IsFiniteSet(Hands(s)')
         /\ Cardinality(Hands(s)') = Cardinality(Hands(s)) - Bit(s, msg[t]) + Bit(s, msg'[t])
<1> DEFINE H == Hands(s)
           R == Hands(s) \ {t}
<1>1. IsFiniteSet(H) /\ Cardinality(H) \in Nat
  BY FS_CardinalityType DEF SInv, FinitelyHeld
<1>2. t \in H <=> s \in msg[t]
  BY DEF Hands
<1>3. Hands(s)' = IF s \in msg'[t] THEN R \cup {t} ELSE R
  BY DEF Hands
<1>4. t \notin R
  OBVIOUS
<1>5. IsFiniteSet(R) /\ Cardinality(R) = Cardinality(H) - Bit(s, msg[t])
  BY <1>1, <1>2, FS_RemoveElement DEF Bit
<1>6. Cardinality(R) \in Nat
  BY <1>5, FS_CardinalityType
<1> HIDE DEF R, H
<1>7. IsFiniteSet(R \cup {t}) /\ Cardinality(R \cup {t}) = Cardinality(R) + 1
  BY <1>4, <1>5, FS_AddElement
<1>8. IsFiniteSet(Hands(s)') /\ Cardinality(Hands(s)') = Cardinality(R) + Bit(s, msg'[t])
  BY <1>3, <1>5, <1>6, <1>7 DEF Bit
<1>9. Bit(s, msg[t]) \in Nat /\ Bit(s, msg'[t]) \in Nat
  BY DEF Bit
<1>10. Cardinality(Hands(s)') = Cardinality(H) - Bit(s, msg[t]) + Bit(s, msg'[t])
  BY <1>1, <1>5, <1>8, <1>9
<1> QED BY <1>8, <1>10 DEF H

LEMMA InQueuesChange ==
  ASSUME SInv, NEW p \in Pipe, NEW s \in Sab, queue' \in [Pipe -> Seq(SUBSET Sab)],
         \A r \in Pipe \ {p} : queue'[r] = queue[r]
  PROVE  /\ IsFiniteSet(InQueues(s)')
         /\ Cardinality(InQueues(s)') =
              Cardinality(InQueues(s)) - Cardinality(InQueue(s, queue[p])) + Cardinality(InQueue(s, queue'[p]))
<1> DEFINE f == [r \in Pipe |-> InQueue(s, queue[r])]
           g == [r \in Pipe |-> InQueue(s, queue'[r])]
<1>1. InQueues(s) = Tagged(f) /\ InQueues(s)' = Tagged(g)
  BY DEF InQueues, Tagged, InQueue
<1>2. queue[p] \in Seq(SUBSET Sab) /\ queue'[p] \in Seq(SUBSET Sab)
  BY DEF SInv, IInv, Types
<1>3. /\ f[p] = InQueue(s, queue[p]) /\ IsFiniteSet(f[p])
      /\ g[p] = InQueue(s, queue'[p]) /\ IsFiniteSet(g[p])
  BY <1>2, InQueueFinite
<1>4. DOMAIN f = Pipe /\ DOMAIN g = Pipe /\ \A r \in Pipe \ {p} : g[r] = f[r]
  OBVIOUS
<1>5. IsFiniteSet(Tagged(f))
  BY <1>1 DEF SInv, FinitelyHeld
<1> HIDE DEF f, g
<1> QED BY <1>1, <1>3, <1>4, <1>5, TaggedChange

(* A step of thread t that changes its objects and its message, and the      *)
(* queues by d.                                                              *)
Balanced(t, d) ==
  \A s \in Sab :
    sabRc'[s] = sabRc[s] + (sabObj'[t][s] - sabObj[t][s]) + (Bit(s, msg'[t]) - Bit(s, msg[t])) + d[s]

Others(t) ==
  \A u \in Thread \ {t} : msg'[u] = msg[u] /\ sabObj'[u] = sabObj[u] /\ pc'[u] = pc[u]

LEMMA Recount ==
  ASSUME SInv, IInv', NEW t \in Thread, Others(t), NEW d \in [Sab -> Int],
         sabObj' \in [Thread -> [Sab -> Nat]], sabRc' \in [Sab -> Int],
         msg'[t] # {} => pc'[t] \in Carrying,
         \A s \in Sab : /\ IsFiniteSet(InQueues(s)')
                        /\ Cardinality(InQueues(s)') = Cardinality(InQueues(s)) + d[s],
         Balanced(t, d)
  PROVE  SInv'
<1>1. ASSUME NEW s \in Sab
      PROVE  /\ IsFiniteSet(Objects(s)') /\ IsFiniteSet(Hands(s)') /\ IsFiniteSet(InQueues(s)')
             /\ sabRc'[s] = Cardinality(Objects(s)') + Cardinality(Hands(s)') + Cardinality(InQueues(s)')
             /\ sabRc'[s] \in Nat
  <2>1. /\ IsFiniteSet(Objects(s)')
        /\ Cardinality(Objects(s)') = Cardinality(Objects(s)) - sabObj[t][s] + sabObj'[t][s]
    BY ObjectsChange DEF Others
  <2>2. /\ IsFiniteSet(Hands(s)')
        /\ Cardinality(Hands(s)') = Cardinality(Hands(s)) - Bit(s, msg[t]) + Bit(s, msg'[t])
    BY HandsChange DEF Others
  <2>3. /\ Cardinality(Objects(s)) \in Nat /\ Cardinality(Hands(s)) \in Nat
        /\ Cardinality(InQueues(s)) \in Nat
    BY FS_CardinalityType DEF SInv, FinitelyHeld
  <2>4. /\ Cardinality(Objects(s)') \in Nat /\ Cardinality(Hands(s)') \in Nat
        /\ Cardinality(InQueues(s)') \in Nat
    BY <2>1, <2>2, FS_CardinalityType
  <2>5. sabObj[t][s] \in Nat /\ sabObj'[t][s] \in Nat /\ d[s] \in Int
    BY DEF SInv, SabTypes
  <2>6. Bit(s, msg[t]) \in Nat /\ Bit(s, msg'[t]) \in Nat
    BY DEF Bit
  <2>7. sabRc[s] = Cardinality(Objects(s)) + Cardinality(Hands(s)) + Cardinality(InQueues(s))
    BY DEF SInv, SabCounted
  <2>8. sabRc'[s] = sabRc[s] + (sabObj'[t][s] - sabObj[t][s]) + (Bit(s, msg'[t]) - Bit(s, msg[t])) + d[s]
    BY DEF Balanced
  <2>9. Cardinality(InQueues(s)') = Cardinality(InQueues(s)) + d[s]
    OBVIOUS
  <2>10. sabRc'[s] = Cardinality(Objects(s)') + Cardinality(Hands(s)') + Cardinality(InQueues(s)')
    BY <2>1, <2>2, <2>3, <2>5, <2>6, <2>7, <2>8, <2>9
  <2> QED BY <2>1, <2>2, <2>4, <2>10
<1>2. SabTypes'
  BY <1>1 DEF SabTypes
<1>3. Carried'
  BY DEF Carried, Others, SInv
<1>4. FinitelyHeld' /\ SabCounted'
  BY <1>1 DEF FinitelyHeld, SabCounted
<1> QED BY <1>2, <1>3, <1>4 DEF SInv

(* A step that leaves the queues as they are.                                *)
LEMMA RecountHeld ==
  ASSUME SInv, IInv', NEW t \in Thread, Others(t), UNCHANGED queue,
         sabObj' \in [Thread -> [Sab -> Nat]], sabRc' \in [Sab -> Int],
         msg'[t] # {} => pc'[t] \in Carrying,
         \A s \in Sab :
           sabRc'[s] = sabRc[s] + (sabObj'[t][s] - sabObj[t][s]) + (Bit(s, msg'[t]) - Bit(s, msg[t]))
  PROVE  SInv'
<1> DEFINE d == [s \in Sab |-> 0]
<1>1. d \in [Sab -> Int]
  OBVIOUS
<1>2. \A s \in Sab : IsFiniteSet(InQueues(s)') /\ Cardinality(InQueues(s)') = Cardinality(InQueues(s)) + d[s]
  <2> SUFFICES ASSUME NEW s \in Sab
      PROVE IsFiniteSet(InQueues(s)') /\ Cardinality(InQueues(s)') = Cardinality(InQueues(s)) + d[s]
    OBVIOUS
  <2>1. InQueues(s)' = InQueues(s)
    BY DEF InQueues, InQueue
  <2>2. IsFiniteSet(InQueues(s)) /\ Cardinality(InQueues(s)) \in Nat
    BY FS_CardinalityType DEF SInv, FinitelyHeld
  <2> QED BY <2>1, <2>2
<1>3. Balanced(t, d)
  <2> SUFFICES ASSUME NEW s \in Sab
      PROVE sabRc'[s] = sabRc[s] + (sabObj'[t][s] - sabObj[t][s]) + (Bit(s, msg'[t]) - Bit(s, msg[t])) + d[s]
    BY DEF Balanced
  <2>1. sabRc[s] \in Nat /\ sabObj[t][s] \in Nat /\ sabObj'[t][s] \in Nat
    BY DEF SInv, SabTypes
  <2>2. Bit(s, msg[t]) \in Nat /\ Bit(s, msg'[t]) \in Nat
    BY DEF Bit
  <2> QED BY <2>1, <2>2
<1> HIDE DEF d
<1> QED BY <1>1, <1>2, <1>3, Recount

(* A step that leaves the buffers and the messages where they are.           *)
LEMMA SameBuffers ==
  ASSUME SInv, IInv', NEW t \in Thread, UNCHANGED <<sabRc, sabObj, msg, queue>>,
         \A u \in Thread \ {t} : pc'[u] = pc[u],
         msg[t] # {} => pc'[t] \in Carrying
  PROVE  SInv'
<1>1. SabTypes' /\ Carried'
  BY DEF SInv, SabTypes, Carried
<1>2. \A s \in Sab : Objects(s)' = Objects(s) /\ Hands(s)' = Hands(s) /\ InQueues(s)' = InQueues(s)
  BY DEF Objects, Hands, InQueues, InQueue
<1>3. FinitelyHeld' /\ SabCounted'
  BY <1>2 DEF SInv, FinitelyHeld, SabCounted
<1> QED BY <1>1, <1>3 DEF SInv

-----------------------------------------------------------------------------
(* Each step keeps it.                                                      *)

LEMMA NewSabBuffers ==
  ASSUME SInv, IInv', NEW t \in Thread, NEW s \in Sab, NewSab(t, s) PROVE SInv'
<1> USE DEF NewSab, pipeVars, handVars, listVars
<1>1. SabTypes /\ msg[t] = {} /\ sabObj[t][s] = 0
  <2>1. SabTypes /\ msg[t] = {}
    BY DEF SInv, Carried, Carrying, Posting
  <2>2. Cardinality(Objects(s)) = 0
    <3>1. /\ Cardinality(Objects(s)) \in Nat /\ Cardinality(Hands(s)) \in Nat
          /\ Cardinality(InQueues(s)) \in Nat
      BY FS_CardinalityType DEF SInv, FinitelyHeld
    <3>2. 0 = Cardinality(Objects(s)) + Cardinality(Hands(s)) + Cardinality(InQueues(s))
      BY DEF SInv, SabCounted
    <3> QED BY <3>1, <3>2
  <2>3. Objects(s) = {}
    BY <2>2, FS_EmptySet DEF SInv, FinitelyHeld
  <2>4. (1 .. sabObj[t][s]) = {}
    <3> DEFINE f == [u \in Thread |-> 1 .. sabObj[u][s]]
    <3>1. ({t} \X f[t]) \subseteq Tagged(f)
      BY DEF Tagged
    <3>2. Tagged(f) = {}
      BY <2>3 DEF Objects
    <3>3. f[t] = {}
      <4> SUFFICES ASSUME NEW i \in f[t] PROVE FALSE
        OBVIOUS
      <4> HIDE DEF f
      <4>1. <<t, i>> \in {t} \X f[t]
        OBVIOUS
      <4> QED BY <3>1, <3>2, <4>1
    <3> QED BY <3>3
  <2>5. sabObj[t][s] \in Nat
    BY <2>1 DEF SabTypes
  <2>6. ~(1 <= sabObj[t][s])
    BY <2>4, <2>5
  <2> QED BY <2>1, <2>5, <2>6
<1>2. sabObj' \in [Thread -> [Sab -> Nat]] /\ sabRc' \in [Sab -> Int]
  BY <1>1 DEF SabTypes
<1>3. Others(t)
  BY <1>1 DEF Others, SabTypes
<1>4. ASSUME NEW r \in Sab
      PROVE sabRc'[r] = sabRc[r] + (sabObj'[t][r] - sabObj[t][r]) + (Bit(r, msg'[t]) - Bit(r, msg[t]))
  <2>1. sabRc[r] \in Nat /\ sabObj[t][r] \in Nat
    BY <1>1 DEF SabTypes
  <2>2. Bit(r, msg'[t]) = 0 /\ Bit(r, msg[t]) = 0
    BY <1>1 DEF Bit
  <2>3. CASE r = s
    BY <1>1, <2>1, <2>2, <2>3 DEF SabTypes
  <2>4. CASE r # s
    BY <1>1, <2>1, <2>2, <2>4 DEF SabTypes
  <2> QED BY <2>3, <2>4
<1> QED BY <1>1, <1>2, <1>3, <1>4, RecountHeld

LEMMA DropSabBuffers ==
  ASSUME SInv, IInv', NEW t \in Thread, NEW s \in Sab, DropSab(t, s) PROVE SInv'
<1> USE DEF DropSab, pipeVars, handVars, listVars
<1>1. SabTypes /\ msg[t] = {}
  BY DEF SInv, Carried, Carrying, Posting
<1>2. sabObj' \in [Thread -> [Sab -> Nat]] /\ sabRc' \in [Sab -> Int]
  <2>1. sabObj[t][s] - 1 \in Nat /\ sabObj[t] \in [Sab -> Nat] /\ sabRc[s] - 1 \in Int
    BY <1>1 DEF SabTypes
  <2> QED BY <1>1, <2>1 DEF SabTypes
<1>3. Others(t)
  BY <1>1 DEF Others, SabTypes
<1>4. ASSUME NEW r \in Sab
      PROVE sabRc'[r] = sabRc[r] + (sabObj'[t][r] - sabObj[t][r]) + (Bit(r, msg'[t]) - Bit(r, msg[t]))
  <2>1. sabRc[r] \in Nat /\ sabObj[t][r] \in Nat
    BY <1>1 DEF SabTypes
  <2>2. Bit(r, msg'[t]) = 0 /\ Bit(r, msg[t]) = 0
    BY <1>1 DEF Bit
  <2>3. CASE r = s
    BY <1>1, <2>1, <2>2, <2>3 DEF SabTypes
  <2>4. CASE r # s
    BY <1>1, <2>1, <2>2, <2>4 DEF SabTypes
  <2> QED BY <2>3, <2>4
<1> QED BY <1>1, <1>2, <1>3, <1>4, RecountHeld

LEMMA PostMessageBuffers ==
  ASSUME SInv, IInv', NEW t \in Thread, NEW e \in End, NEW m \in SUBSET Sab, PostMessage(t, e, m)
  PROVE  SInv'
<1> USE DEF PostMessage, Goto, pipeVars, listVars
<1>1. SabTypes /\ msg[t] = {} /\ Types
  BY DEF SInv, IInv, Carried, Carrying, Posting
<1>2. msg'[t] = m /\ pc'[t] = "post_lock"
  BY <1>1 DEF Types
<1>3. Others(t)
  BY <1>1 DEF Others, Types
<1>4. sabObj' \in [Thread -> [Sab -> Nat]] /\ sabRc' \in [Sab -> Int]
  BY <1>1 DEF SabTypes
<1>5. ASSUME NEW r \in Sab
      PROVE sabRc'[r] = sabRc[r] + (sabObj'[t][r] - sabObj[t][r]) + (Bit(r, msg'[t]) - Bit(r, msg[t]))
  <2>1. sabRc[r] \in Nat /\ sabObj[t][r] \in Nat /\ sabObj'[t][r] = sabObj[t][r]
    BY <1>1 DEF SabTypes
  <2>2. sabRc'[r] = sabRc[r] + Bit(r, m) /\ Bit(r, m) \in Nat /\ Bit(r, {}) = 0
    BY <1>1 DEF Bit, SabTypes
  <2> QED BY <1>1, <1>2, <2>1, <2>2
<1> QED BY <1>2, <1>3, <1>4, <1>5, RecountHeld DEF Carrying, Posting

LEMMA CloneBuffers ==
  ASSUME SInv, IInv', NEW t \in Thread, Clone(t) PROVE SInv'
<1> USE DEF Clone, Goto, pipeVars, handVars, listVars
<1>1. SabTypes /\ Types
  BY DEF SInv, IInv
<1>2. pc'[t] = "free_message"
  BY <1>1 DEF Types
<1>3. Others(t)
  BY <1>1 DEF Others, Types, SabTypes
<1>4. /\ sabObj' \in [Thread -> [Sab -> Nat]] /\ sabRc' \in [Sab -> Int]
      /\ \A r \in Sab : sabObj'[t][r] = sabObj[t][r] + Bit(r, msg[t])
                     /\ sabRc'[r] = sabRc[r] + Bit(r, msg[t])
  <2>1. [s \in Sab |-> IF s \in msg[t] THEN sabObj[t][s] + 1 ELSE sabObj[t][s]] \in [Sab -> Nat]
    BY <1>1 DEF SabTypes
  <2>2. sabObj' \in [Thread -> [Sab -> Nat]] /\ sabRc' \in [Sab -> Int]
    BY <1>1, <2>1 DEF SabTypes
  <2>3. ASSUME NEW r \in Sab
        PROVE  sabObj'[t][r] = sabObj[t][r] + Bit(r, msg[t]) /\ sabRc'[r] = sabRc[r] + Bit(r, msg[t])
    <3>1. sabObj'[t] = [s \in Sab |-> IF s \in msg[t] THEN sabObj[t][s] + 1 ELSE sabObj[t][s]]
      BY <1>1 DEF SabTypes
    <3>2. sabObj[t][r] \in Nat /\ sabRc[r] \in Nat
      BY <1>1 DEF SabTypes
    <3> QED BY <3>1, <3>2 DEF Bit
  <2> QED BY <2>2, <2>3
<1>5. ASSUME NEW r \in Sab
      PROVE sabRc'[r] = sabRc[r] + (sabObj'[t][r] - sabObj[t][r]) + (Bit(r, msg'[t]) - Bit(r, msg[t]))
  <2>1. sabRc[r] \in Nat /\ sabObj[t][r] \in Nat
    BY <1>1 DEF SabTypes
  <2>2. Bit(r, msg[t]) \in Nat /\ msg'[t] = msg[t]
    BY DEF Bit
  <2> QED BY <1>4, <2>1, <2>2
<1> QED BY <1>2, <1>3, <1>4, <1>5, RecountHeld DEF Carrying

LEMMA FreeMessageBuffers ==
  ASSUME SInv, IInv', NEW t \in Thread, FreeMessage(t) PROVE SInv'
<1> USE DEF FreeMessage, Goto, pipeVars, handVars, listVars
<1>1. SabTypes /\ Types
  BY DEF SInv, IInv
<1>2. msg'[t] = {}
  BY <1>1 DEF Types
<1>3. Others(t)
  BY <1>1 DEF Others, Types
<1>4. sabObj' \in [Thread -> [Sab -> Nat]] /\ sabRc' \in [Sab -> Int]
  BY <1>1 DEF SabTypes
<1>5. ASSUME NEW r \in Sab
      PROVE sabRc'[r] = sabRc[r] + (sabObj'[t][r] - sabObj[t][r]) + (Bit(r, msg'[t]) - Bit(r, msg[t]))
  <2>1. sabRc[r] \in Nat /\ sabObj[t][r] \in Nat /\ sabObj'[t][r] = sabObj[t][r]
    BY <1>1 DEF SabTypes
  <2>2. sabRc'[r] = sabRc[r] - Bit(r, msg[t]) /\ Bit(r, msg[t]) \in Nat /\ Bit(r, {}) = 0
    BY <1>1, <2>1 DEF Bit
  <2> QED BY <1>2, <2>1, <2>2
<1> QED BY <1>2, <1>3, <1>4, <1>5, RecountHeld

LEMMA ExitBuffers ==
  ASSUME SInv, IInv', NEW t \in Thread, Exit(t) PROVE SInv'
<1>1. SabTypes /\ Types /\ msg[t] = {}
  BY DEF SInv, IInv, Carried, Carrying, Posting, Exit, Goto
<1>2. /\ sabRc' = [s \in Sab |-> sabRc[s] - sabObj[t][s]]
      /\ sabObj' = [sabObj EXCEPT ![t] = [s \in Sab |-> 0]]
      /\ queue' = queue /\ msg' = msg /\ pc' = [pc EXCEPT ![t] = "exit_release"]
  BY DEF Exit, Goto, pipeVars, handVars
<1>3. Others(t)
  BY <1>1, <1>2 DEF Others, Types, SabTypes
<1>4. sabObj' \in [Thread -> [Sab -> Nat]] /\ sabRc' \in [Sab -> Int]
  BY <1>1, <1>2 DEF SabTypes
<1>5. ASSUME NEW r \in Sab
      PROVE sabRc'[r] = sabRc[r] + (sabObj'[t][r] - sabObj[t][r]) + (Bit(r, msg'[t]) - Bit(r, msg[t]))
  <2>1. sabRc[r] \in Nat /\ sabObj[t][r] \in Nat /\ sabObj'[t][r] = 0
    BY <1>1, <1>2 DEF SabTypes
  <2>2. Bit(r, msg'[t]) = 0 /\ Bit(r, msg[t]) = 0
    BY <1>1, <1>2 DEF Bit
  <2> QED BY <1>2, <2>1, <2>2
<1> QED BY <1>1, <1>2, <1>3, <1>4, <1>5, RecountHeld

(* The message goes from the hand to the queue, with its references.         *)
LEMMA PostAddBuffers ==
  ASSUME SInv, IInv', NEW t \in Thread, PostAdd(t) PROVE SInv'
<1> DEFINE p == Send(cur[t])
           d == [s \in Sab |-> Bit(s, msg[t])]
<1> USE DEF PostAdd, Goto, Unlock, listVars, sabVars
<1>1. SabTypes /\ Types /\ Types'
  BY DEF SInv, IInv
<1>2. p \in Pipe
  BY EndFacts DEF SInv, IInv, Hand, Posting
<1>3. queue'[p] = Append(queue[p], msg[t]) /\ \A r \in Pipe \ {p} : queue'[r] = queue[r]
  BY <1>1, <1>2 DEF Types
<1>4. queue[p] \in Seq(SUBSET Sab) /\ msg[t] \in SUBSET Sab /\ queue' \in [Pipe -> Seq(SUBSET Sab)]
  BY <1>1, <1>2 DEF Types
<1>5. msg'[t] = {} /\ Others(t)
  BY <1>1 DEF Others, Types
<1>6. d \in [Sab -> Int]
  BY DEF Bit
<1> HIDE DEF p
<1>7. ASSUME NEW s \in Sab
      PROVE  IsFiniteSet(InQueues(s)') /\ Cardinality(InQueues(s)') = Cardinality(InQueues(s)) + d[s]
  <2>1. /\ IsFiniteSet(InQueues(s)')
        /\ Cardinality(InQueues(s)') =
             Cardinality(InQueues(s)) - Cardinality(InQueue(s, queue[p])) + Cardinality(InQueue(s, queue'[p]))
    BY <1>2, <1>3, <1>4, InQueuesChange
  <2>2. Cardinality(InQueue(s, queue'[p])) = Cardinality(InQueue(s, queue[p])) + d[s]
    <3>1. Cardinality(InQueue(s, Append(queue[p], msg[t]))) = Cardinality(InQueue(s, queue[p])) + Bit(s, msg[t])
      BY <1>4, InQueueAppend
    <3>2. d[s] = Bit(s, msg[t])
      OBVIOUS
    <3> HIDE DEF d
    <3> QED BY <1>3, <3>1, <3>2
  <2>3. Cardinality(InQueue(s, queue[p])) \in Nat /\ Cardinality(InQueues(s)) \in Nat
    BY <1>4, InQueueFinite, FS_CardinalityType DEF SInv, FinitelyHeld
  <2>4. d[s] \in Int
    BY <1>6
  <2> HIDE DEF d
  <2> QED BY <2>1, <2>2, <2>3, <2>4
<1>8. Balanced(t, d)
  <2> SUFFICES ASSUME NEW s \in Sab
      PROVE sabRc'[s] = sabRc[s] + (sabObj'[t][s] - sabObj[t][s]) + (Bit(s, msg'[t]) - Bit(s, msg[t])) + d[s]
    BY DEF Balanced
  <2>1. sabRc[s] \in Nat /\ sabObj[t][s] \in Nat
    BY <1>1 DEF SabTypes
  <2>2. d[s] = Bit(s, msg[t]) /\ Bit(s, msg[t]) \in Nat /\ Bit(s, msg'[t]) = 0
    BY <1>5 DEF Bit
  <2> HIDE DEF d
  <2> QED BY <2>1, <2>2
<1> HIDE DEF d
<1>9. sabObj' \in [Thread -> [Sab -> Nat]] /\ sabRc' \in [Sab -> Int]
  BY <1>1 DEF SabTypes
<1> QED BY <1>5, <1>6, <1>7, <1>8, <1>9, Recount

(* The first message goes from the queue to the hand.                        *)
LEMMA TakeBuffers ==
  ASSUME SInv, IInv', NEW t \in Thread, Take(t) PROVE SInv'
<1> DEFINE p == Recv(cur[t])
           d == [s \in Sab |-> 0 - Bit(s, Head(queue[p]))]
<1>1. SabTypes /\ Types /\ Types' /\ pc[t] = "take" /\ msg[t] = {}
  BY DEF SInv, IInv, Take, Carried, Carrying, Posting
<1>2. p \in Pipe
  BY <1>1, EndFacts DEF SInv, IInv, Hand, Taking
<1>3. UNCHANGED sabVars /\ \A u \in Thread \ {t} : pc'[u] = pc[u]
  BY <1>1 DEF Take, Goto, Types
<1>4. CASE queue[p] = <<>>
  BY <1>1, <1>3, <1>4, SameBuffers DEF Take, sabVars
<1>5. CASE queue[p] # <<>>
  <2>1. /\ msg' = [msg EXCEPT ![t] = Head(queue[p])]
        /\ queue' = [queue EXCEPT ![p] = Tail(queue[p])]
        /\ pc'[t] \in {"read", "clone"}
    BY <1>1, <1>2, <1>5 DEF Take, Goto, Types
  <2>2. queue[p] \in Seq(SUBSET Sab) /\ queue' \in [Pipe -> Seq(SUBSET Sab)]
    BY <1>1, <1>2 DEF Types
  <2>3. queue'[p] = Tail(queue[p]) /\ \A r \in Pipe \ {p} : queue'[r] = queue[r]
    BY <1>1, <1>2, <2>1 DEF Types
  <2>4. msg'[t] = Head(queue[p]) /\ Others(t)
    BY <1>1, <1>3, <2>1 DEF Others, Types, sabVars
  <2>5. Tail(queue[p]) \in Seq(SUBSET Sab)
    BY <1>5, <2>2
  <2> HIDE DEF p
  <2>6. d \in [Sab -> Int]
    BY DEF Bit
  <2>7. ASSUME NEW s \in Sab
        PROVE  IsFiniteSet(InQueues(s)') /\ Cardinality(InQueues(s)') = Cardinality(InQueues(s)) + d[s]
    <3>1. /\ IsFiniteSet(InQueues(s)')
          /\ Cardinality(InQueues(s)') =
               Cardinality(InQueues(s)) - Cardinality(InQueue(s, queue[p])) + Cardinality(InQueue(s, queue'[p]))
      BY <1>2, <2>2, <2>3, InQueuesChange
    <3>2. Cardinality(InQueue(s, queue[p])) = Cardinality(InQueue(s, queue'[p])) + Bit(s, Head(queue[p]))
      BY <1>5, <2>2, <2>3, InQueueTail
    <3>3. Cardinality(InQueue(s, queue'[p])) \in Nat /\ Cardinality(InQueues(s)) \in Nat
      BY <2>3, <2>5, InQueueFinite, FS_CardinalityType DEF SInv, FinitelyHeld
    <3>4. d[s] = 0 - Bit(s, Head(queue[p])) /\ Bit(s, Head(queue[p])) \in Nat
      BY DEF Bit
    <3> HIDE DEF d
    <3> QED BY <3>1, <3>2, <3>3, <3>4
  <2>8. Balanced(t, d)
    <3> SUFFICES ASSUME NEW s \in Sab
        PROVE sabRc'[s] = sabRc[s] + (sabObj'[t][s] - sabObj[t][s]) + (Bit(s, msg'[t]) - Bit(s, msg[t])) + d[s]
      BY DEF Balanced
    <3>1. sabRc[s] \in Nat /\ sabObj[t][s] \in Nat
      BY <1>1 DEF SabTypes
    <3>2. d[s] = 0 - Bit(s, msg'[t]) /\ Bit(s, msg'[t]) \in Nat /\ Bit(s, msg[t]) = 0
      BY <1>1, <2>4 DEF Bit
    <3> HIDE DEF d
    <3> QED BY <1>3, <3>1, <3>2 DEF sabVars
  <2> HIDE DEF d
  <2>9. sabObj' \in [Thread -> [Sab -> Nat]] /\ sabRc' \in [Sab -> Int]
    BY <1>1, <1>3 DEF SabTypes, sabVars
  <2> QED BY <2>1, <2>4, <2>6, <2>7, <2>8, <2>9, Recount DEF Carrying
<1> QED BY <1>4, <1>5

(* The last reference to a pipe frees its messages with their references.    *)
LEMMA FreePipeBuffers ==
  ASSUME SInv, IInv', NEW t \in Thread, NEW p \in Pipe, FreePipe(t, p) PROVE SInv'
<1> DEFINE d == [s \in Sab |-> 0 - Cardinality(InQueue(s, queue[p]))]
<1>1. SabTypes /\ Types /\ Types'
  BY DEF SInv, IInv
<1>2. pc' = pc /\ sabObj' = sabObj /\ msg' = msg
  BY DEF FreePipe, handVars
<1>3. CASE pipeRc[p] # 1
  <2>1. UNCHANGED <<sabRc, sabObj, msg, queue>>
    BY <1>2, <1>3 DEF FreePipe
  <2> QED BY <1>2, <2>1, SameBuffers DEF SInv, Carried
<1>4. CASE pipeRc[p] = 1
  <2>1. /\ sabRc' = [s \in Sab |-> sabRc[s] - Cardinality(InQueue(s, queue[p]))]
        /\ queue' = [queue EXCEPT ![p] = <<>>]
    BY <1>4 DEF FreePipe
  <2>2. queue[p] \in Seq(SUBSET Sab) /\ queue' \in [Pipe -> Seq(SUBSET Sab)]
    BY <1>1 DEF Types
  <2>3. queue'[p] = <<>> /\ \A r \in Pipe \ {p} : queue'[r] = queue[r]
    BY <1>1, <2>1 DEF Types
  <2>4. \A s \in Sab : Cardinality(InQueue(s, queue[p])) \in Nat
    BY <2>2, InQueueFinite
  <2>5. d \in [Sab -> Int] /\ \A s \in Sab : d[s] = 0 - Cardinality(InQueue(s, queue[p]))
    BY <2>4
  <2> HIDE DEF d
  <2>6. ASSUME NEW s \in Sab
        PROVE  IsFiniteSet(InQueues(s)') /\ Cardinality(InQueues(s)') = Cardinality(InQueues(s)) + d[s]
    <3>1. /\ IsFiniteSet(InQueues(s)')
          /\ Cardinality(InQueues(s)') =
               Cardinality(InQueues(s)) - Cardinality(InQueue(s, queue[p])) + Cardinality(InQueue(s, queue'[p]))
      BY <2>2, <2>3, InQueuesChange
    <3>2. Cardinality(InQueue(s, queue'[p])) = 0
      BY <2>3, InQueueEmpty
    <3>3. Cardinality(InQueues(s)) \in Nat
      BY FS_CardinalityType DEF SInv, FinitelyHeld
    <3> QED BY <2>4, <2>5, <3>1, <3>2, <3>3
  <2>7. Balanced(t, d)
    <3> SUFFICES ASSUME NEW s \in Sab
        PROVE sabRc'[s] = sabRc[s] + (sabObj'[t][s] - sabObj[t][s]) + (Bit(s, msg'[t]) - Bit(s, msg[t])) + d[s]
      BY DEF Balanced
    <3>1. sabRc[s] \in Nat /\ sabObj[t][s] \in Nat /\ sabObj'[t][s] = sabObj[t][s]
      BY <1>1, <1>2 DEF SabTypes
    <3>2. Bit(s, msg[t]) \in Nat /\ msg'[t] = msg[t]
      BY <1>2 DEF Bit
    <3> QED BY <2>1, <2>4, <2>5, <3>1, <3>2
  <2>8. sabObj' \in [Thread -> [Sab -> Nat]] /\ sabRc' \in [Sab -> Int]
    BY <1>1, <1>2, <2>1, <2>4 DEF SabTypes
  <2>9. Others(t) /\ (msg'[t] # {} => pc'[t] \in Carrying)
    BY <1>2 DEF Others, SInv, Carried
  <2> QED BY <2>5, <2>6, <2>7, <2>8, <2>9, Recount
<1> QED BY <1>3, <1>4

LEMMA SInvInit == Init => SInv
<1> SUFFICES ASSUME Init PROVE SInv
  OBVIOUS
<1> USE DEF Init
<1>1. IInv
  BY InitInv
<1>2. SabTypes /\ Carried
  BY DEF SabTypes, Carried
<1>3. ASSUME NEW s \in Sab PROVE Objects(s) = {} /\ Hands(s) = {} /\ InQueues(s) = {} /\ sabRc[s] = 0
  <2>1. Objects(s) = {}
    <3>1. \A t \in Thread : (1 .. sabObj[t][s]) = {}
      OBVIOUS
    <3> QED BY <3>1 DEF Objects, Tagged
  <2>2. InQueues(s) = {}
    <3>1. \A p \in Pipe : InQueue(s, queue[p]) = {}
      BY InQueueEmpty
    <3> QED BY <3>1 DEF InQueues, Tagged
  <2> QED BY <2>1, <2>2 DEF Hands
<1>4. FinitelyHeld /\ SabCounted
  <2>1. IsFiniteSet({}) /\ Cardinality({}) = 0 /\ 0 = 0 + 0 + 0
    BY FS_EmptySet
  <2>2. ASSUME NEW s \in Sab
        PROVE  /\ IsFiniteSet(Objects(s)) /\ IsFiniteSet(Hands(s)) /\ IsFiniteSet(InQueues(s))
               /\ sabRc[s] = Cardinality(Objects(s)) + Cardinality(Hands(s)) + Cardinality(InQueues(s))
    <3>1. Objects(s) = {} /\ Hands(s) = {} /\ InQueues(s) = {} /\ sabRc[s] = 0
      BY <1>3
    <3> QED BY ONLY <2>1, <3>1
  <2> QED BY <2>2 DEF FinitelyHeld, SabCounted
<1> QED BY <1>1, <1>2, <1>4 DEF SInv

(* The steps that leave buffers and messages where they are.                 *)
LEMMA ScriptBuffers ==
  ASSUME SInv, IInv', NEW t \in Thread, Script(t) PROVE SInv'
<1> USE DEF pipeVars, sabVars, handVars, listVars, Goto
<1>1. Types /\ (pc[t] = "js" => msg[t] = {}) /\ \A u \in Thread : pc[u] = "none" => msg[u] = {}
  BY DEF SInv, IInv, Carried, Carrying, Posting
<1>2. ASSUME NEW w \in Worker, NewWorker(w) PROVE SInv'
  <2>1. w \in Thread /\ msg[w] = {} /\ UNCHANGED <<sabRc, sabObj, msg, queue>>
        /\ \A u \in Thread \ {w} : pc'[u] = pc[u]
    BY <1>1, <1>2, Apart DEF NewWorker, Types
  <2> QED BY <2>1, SameBuffers
<1>3. ASSUME t \in Worker, ImportOs(t) PROVE SInv'
  BY <1>1, <1>3, SameBuffers DEF ImportOs
<1>4. ASSUME NEW e \in End, SetOnmessage(t, e) PROVE SInv'
  BY <1>1, <1>4, SameBuffers DEF SetOnmessage
<1>5. ASSUME NEW e \in End, ClearOnmessage(t, e) \/ DropWorker(t, e) PROVE SInv'
  BY <1>1, <1>5, SameBuffers DEF ClearOnmessage, DropWorker, Types
<1>6. ASSUME AddOther(t) \/ ClearOthers(t) PROVE SInv'
  BY <1>1, <1>6, SameBuffers DEF AddOther, ClearOthers
<1>7. ASSUME t = Parent, NEW w \in Worker, NewWorkerFails(w) PROVE SInv'
  BY <1>1, <1>7, SameBuffers DEF NewWorkerFails, Types
<1> QED BY <1>2, <1>3, <1>4, <1>5, <1>6, <1>7, PostMessageBuffers, NewSabBuffers, DropSabBuffers DEF Script

LEMMA RuntimeBuffers ==
  ASSUME SInv, IInv', NEW t \in Thread, Runtime(t) PROVE SInv'
<1> USE DEF pipeVars, sabVars, handVars, listVars, Goto
<1>1. Types /\ (msg[t] # {} => pc[t] \in Carrying)
  BY DEF SInv, IInv, Carried
<1>2. ASSUME PostLock(t) \/ PostWake(t) PROVE SInv'
  BY <1>1, <1>2, SameBuffers DEF PostLock, PostWake, Types, Carrying, Posting
<1>3. ASSUME NoMoreEvents(t) PROVE SInv'
  BY <1>1, <1>3, SameBuffers DEF NoMoreEvents, Types, Carrying, Posting
<1>4. ASSUME NEW e \in End, Select(t, e) PROVE SInv'
  BY <1>1, <1>4, SameBuffers DEF Select, Types, Carrying, Posting
<1>5. ASSUME TakeLock(t) PROVE SInv'
  BY <1>1, <1>5, SameBuffers DEF TakeLock, Types, Carrying, Posting
<1>6. ASSUME Read(t) PROVE SInv'
  BY <1>1, <1>6, SameBuffers DEF Read, Types, Carrying, Posting
<1>7. ASSUME Released(t) PROVE SInv'
  BY <1>1, <1>7, SameBuffers DEF Released, Types, Carrying, Posting
<1> QED BY <1>2, <1>3, <1>4, <1>5, <1>6, <1>7, PostAddBuffers, TakeBuffers, CloneBuffers,
       FreeMessageBuffers, FreePipeBuffers, ExitBuffers DEF Runtime

LEMMA SInvNext == SInv /\ [Next]_vars => SInv'
<1> SUFFICES ASSUME SInv, [Next]_vars PROVE SInv'
  OBVIOUS
<1>1. IInv'
  BY NextInv DEF SInv
<1>2. CASE UNCHANGED vars
  BY <1>1, <1>2, Apart, SameBuffers DEF vars, pipeVars, sabVars, handVars, SInv, Carried
<1>3. ASSUME NEW t \in Thread, Return(t) PROVE SInv'
  BY <1>1, <1>3, SameBuffers
     DEF Return, Goto, pipeVars, sabVars, handVars, SInv, IInv, Types, Carried, Carrying, Posting
<1>4. ASSUME NEW t \in Thread, Serve(t) PROVE SInv'
  <2>1. Parent \in Thread /\ \A u \in Thread : pc[u] = "poll" => msg[u] = {}
    BY Apart DEF SInv, Carried, Carrying, Posting
  <2> QED BY <1>1, <1>4, <2>1, SameBuffers
          DEF Serve, ServeOther, ServeSignal, Goto, pipeVars, sabVars, handVars, SInv, IInv, Types
<1> QED BY <1>1, <1>2, <1>3, <1>4, ScriptBuffers, RuntimeBuffers DEF Next

(* The reference count of a shared buffer is the number of SharedArrayBuffer *)
(* objects on it plus the number of messages that carry it, in a queue or in *)
(* a thread's hand: it is freed exactly when nobody has it.                  *)
THEOREM BuffersAreExact == Spec => []SabExact
<1>1. SInv => SabExact
  BY DEF SInv, SabExact, SabCounted, SabTypes, IInv, Types, TypeOK
<1> QED BY <1>1, SInvInit, SInvNext, PTL DEF Spec
=============================================================================
