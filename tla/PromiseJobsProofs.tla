-------------------------- MODULE PromiseJobsProofs --------------------------
(***************************************************************************)
(* Promises and their jobs, for any number of promises, operations and     *)
(* items: each is settled by the one way it was resolved, what follows it  *)
(* does so truly, and no reaction is forgotten, repeated or out of order.  *)
(*                                                                         *)
(* The invariant, Good, is a predicate of the values of the variables and  *)
(* not of the variables: most actions settle, register or take a job and   *)
(* then do more, and the lemmas about each of these parts compose.         *)
(***************************************************************************)
EXTENDS PromiseJobs, FiniteSetTheorems, SequenceTheorems, TLAPS

-----------------------------------------------------------------------------
(* Sequences, element by element. *)

Longer(s, t, e) ==
  /\ Len(t) = Len(s) + 1 /\ DOMAIN t = 1..(Len(s) + 1)
  /\ \A i \in DOMAIN s : t[i] = s[i]
  /\ t[Len(s) + 1] = e

Shorter(s, t) ==
  /\ Len(t) = Len(s) - 1 /\ DOMAIN t = 1..(Len(s) - 1)
  /\ \A i \in DOMAIN t : t[i] = s[i + 1]

Front(s, t) ==
  /\ Len(t) = Len(s) - 1 /\ DOMAIN t = 1..(Len(s) - 1)
  /\ \A i \in DOMAIN t : t[i] = s[i]

Changed(s, t, i, e) ==
  /\ Len(t) = Len(s) /\ DOMAIN t = DOMAIN s
  /\ t[i] = e /\ \A k \in DOMAIN s : k # i => t[k] = s[k]

Joined(s, u, t) ==
  /\ Len(t) = Len(s) + Len(u) /\ DOMAIN t = 1..(Len(s) + Len(u))
  /\ \A i \in DOMAIN s : t[i] = s[i]
  /\ \A i \in DOMAIN u : t[Len(s) + i] = u[i]

LEMMA Domain ==
  ASSUME NEW T, NEW s \in Seq(T)
  PROVE  Len(s) \in Nat /\ DOMAIN s = 1..Len(s) /\ \A i \in DOMAIN s : s[i] \in T
  BY LenProperties, ElementOfSeq

LEMMA AppendIs ==
  ASSUME NEW T, NEW s \in Seq(T), NEW e \in T
  PROVE  Append(s, e) \in Seq(T) /\ Longer(s, Append(s, e), e)
  BY AppendProperties, LenProperties DEF Longer

LEMMA TailIs ==
  ASSUME NEW T, NEW s \in Seq(T), s # <<>>
  PROVE  Tail(s) \in Seq(T) /\ Shorter(s, Tail(s)) /\ Head(s) = s[1] /\ 1 \in DOMAIN s
<1>1. Len(s) \in Nat \ {0}
  BY EmptySeq
<1>2. Tail(s) \in Seq(T) /\ Len(Tail(s)) = Len(s) - 1 /\ \A i \in 1..Len(Tail(s)) : Tail(s)[i] = s[i + 1]
  BY HeadTailProperties
<1>3. DOMAIN Tail(s) = 1..Len(Tail(s)) /\ DOMAIN s = 1..Len(s)
  BY <1>2, LenProperties
<1> QED BY <1>1, <1>2, <1>3 DEF Shorter

LEMMA FrontIs ==
  ASSUME NEW T, NEW s \in Seq(T), s # <<>>
  PROVE  /\ SubSeq(s, 1, Len(s) - 1) \in Seq(T) /\ Front(s, SubSeq(s, 1, Len(s) - 1))
         /\ Len(s) \in DOMAIN s
<1> DEFINE t == SubSeq(s, 1, Len(s) - 1)
<1>1. Len(s) \in Nat \ {0} /\ DOMAIN s = 1..Len(s) /\ \A i \in 1..Len(s) : s[i] \in T
  BY EmptySeq, LenProperties, ElementOfSeq
<1>2. \A i \in 1..(Len(s) - 1) : s[i] \in T
  BY <1>1
<1>3. /\ t \in Seq(T) /\ Len(t) = IF 1 <= Len(s) - 1 THEN Len(s) - 1 - 1 + 1 ELSE 0
      /\ \A i \in 1..(Len(s) - 1 - 1 + 1) : t[i] = s[1 + i - 1]
  BY <1>1, <1>2, SubSeqProperties
<1>4. DOMAIN t = 1..Len(t)
  BY <1>3, LenProperties
<1>5. Len(t) = Len(s) - 1
  BY <1>1, <1>3
<1>6. \A i \in 1..(Len(s) - 1) : t[i] = s[i]
  BY <1>1, <1>3
<1> QED BY <1>1, <1>3, <1>4, <1>5, <1>6 DEF Front

LEMMA ExceptIs ==
  ASSUME NEW T, NEW s \in Seq(T), NEW i \in DOMAIN s, NEW e \in T
  PROVE  [s EXCEPT ![i] = e] \in Seq(T) /\ Changed(s, [s EXCEPT ![i] = e], i, e)
<1>1. DOMAIN s = 1..Len(s)
  BY LenProperties
<1>2. [s EXCEPT ![i] = e] \in Seq(T) /\ Len([s EXCEPT ![i] = e]) = Len(s)
  BY <1>1, ExceptSeq
<1> QED BY <1>1, <1>2 DEF Changed

LEMMA ConcatIs ==
  ASSUME NEW T, NEW s \in Seq(T), NEW u \in Seq(T)
  PROVE  s \o u \in Seq(T) /\ Joined(s, u, s \o u)
<1>1. Len(s) \in Nat /\ DOMAIN s = 1..Len(s) /\ Len(u) \in Nat /\ DOMAIN u = 1..Len(u)
  BY LenProperties
<1>2. /\ s \o u \in Seq(T) /\ Len(s \o u) = Len(s) + Len(u)
      /\ \A i \in 1..(Len(s) + Len(u)) : (s \o u)[i] = IF i <= Len(s) THEN s[i] ELSE u[i - Len(s)]
  BY ConcatProperties
<1>3. DOMAIN (s \o u) = 1..(Len(s) + Len(u))
  BY <1>2, LenProperties
<1>4. \A i \in DOMAIN s : (s \o u)[i] = s[i]
  BY <1>1, <1>2
<1>5. ASSUME NEW i \in DOMAIN u
      PROVE  (s \o u)[Len(s) + i] = u[i]
  <2>1. Len(s) + i \in 1..(Len(s) + Len(u)) /\ ~(Len(s) + i <= Len(s)) /\ Len(s) + i - Len(s) = i
    BY <1>1
  <2> QED BY <2>1, <1>2
<1> QED BY <1>2, <1>3, <1>4, <1>5 DEF Joined

-----------------------------------------------------------------------------
(* What the tables are made of. *)

Simple == {"undefined", "user", "finally", "value", "throw"}
Callables == [fn : Simple \cup {"resolve", "reject", "asyncResolve", "asyncReject", "element", "rejectElement"},
              of : Nat, at : Int]
ReactionData == [cap : Nat, onFul : Callables, onRej : Callables, n : Nat]
JSPromiseData == [state : {"pending", "fulfilled", "rejected"}, result : Int, reactions : Seq(ReactionData),
                  handled : BOOLEAN, lock : Nat, registered : Nat, told : {"nothing", "unhandled", "handled"}]
PairData == [promise : Nat, resolved : BOOLEAN, async : BOOLEAN, follows : Nat]
ComboData == [type : CombinatorTypes, cap : Nat, remaining : Int, n : Nat,
              called : SUBSET ({"element", "rejectElement"} \X Nat), answered : SUBSET Nat, foreign : SUBSET Nat]
ReactionJobs == [job : {"reaction"}, promise : Nat, cap : Nat, n : Nat, handler : Callables, rej : BOOLEAN, arg : Int]
ThenableJobs == [job : {"thenable"}, promise : Nat, arg : Int]
JobData == ReactionJobs \cup ThenableJobs
FrameData == [call : UserCalls \cup {"native", "toFinally", "all"}, of : Nat, rej : BOOLEAN, arg : Int]
CallData == [n : Nat, with : [rej : BOOLEAN, value : Int]]

Types(ps, prs, cbs, js, st, kn, hd, cs) ==
  /\ ps \in Seq(JSPromiseData) /\ prs \in Seq(PairData) /\ cbs \in Seq(ComboData)
  /\ js \in Seq(JobData) /\ st \in Seq(FrameData)
  /\ kn \subseteq DOMAIN ps /\ hd \subseteq Callables
  /\ cs \in Seq(Seq(CallData)) /\ Len(cs) = Len(ps)

\* fulfill_or_reject_promise, and perform_promise_then, on the data of a promise.
Outcome(s, rej, v) ==
  [s EXCEPT !.state = IF rej THEN "rejected" ELSE "fulfilled",
            !.result = v, !.reactions = <<>>,
            !.told = IF rej /\ ~s.handled THEN "unhandled" ELSE @]
Reaction(s, cap, onFul, onRej) == [cap |-> cap, onFul |-> onFul, onRej |-> onRej, n |-> s.registered + 1]
Seen(s) == [s EXCEPT !.handled = TRUE, !.registered = @ + 1]
Waiting(s, r) == [Seen(s) EXCEPT !.reactions = Append(@, r)]
Handled(s) ==
  [Seen(s) EXCEPT
     !.told = IF s.state = "rejected" /\ ~s.handled THEN "handled" ELSE @]
Reactions(s, p, rej, v) == [i \in DOMAIN s.reactions |-> ReactionJob(p, s.reactions[i], rej, v)]

LEMMA OutcomeIs ==
  ASSUME NEW s \in JSPromiseData, NEW rej \in BOOLEAN, NEW v \in Int
  PROVE  LET t == Outcome(s, rej, v) IN
         /\ t \in JSPromiseData /\ t.state = (IF rej THEN "rejected" ELSE "fulfilled")
         /\ t.result = v /\ t.reactions = <<>> /\ t.handled = s.handled /\ t.lock = s.lock
         /\ t.registered = s.registered /\ t.told = IF rej /\ ~s.handled THEN "unhandled" ELSE s.told
<1>1. <<>> \in Seq(ReactionData)
  BY EmptySeq
<1> QED BY <1>1 DEF Outcome, JSPromiseData

LEMMA SeenIs ==
  ASSUME NEW s \in JSPromiseData
  PROVE  LET t == Seen(s) IN
         /\ t \in JSPromiseData /\ t.state = s.state /\ t.result = s.result
         /\ t.reactions = s.reactions /\ t.handled = TRUE /\ t.lock = s.lock
         /\ t.registered = s.registered + 1 /\ t.told = s.told
<1> DEFINE w == [s EXCEPT !.handled = TRUE]
<1>1. s.registered \in Nat /\ s.registered + 1 \in Nat
  BY DEF JSPromiseData
<1>2. /\ w \in JSPromiseData /\ w.state = s.state /\ w.result = s.result
      /\ w.reactions = s.reactions /\ w.handled = TRUE /\ w.lock = s.lock
      /\ w.registered = s.registered /\ w.told = s.told
  BY DEF JSPromiseData
<1>3. Seen(s) = [w EXCEPT !.registered = s.registered + 1]
  BY <1>2 DEF Seen, JSPromiseData
<1> HIDE DEF w
<1> QED BY <1>1, <1>2, <1>3 DEF JSPromiseData

LEMMA WaitingIs ==
  ASSUME NEW s \in JSPromiseData, NEW r \in ReactionData
  PROVE  LET t == Waiting(s, r) IN
         /\ t \in JSPromiseData /\ t.state = s.state /\ t.result = s.result
         /\ t.reactions = Append(s.reactions, r) /\ t.handled = TRUE /\ t.lock = s.lock
         /\ t.registered = s.registered + 1 /\ t.told = s.told
<1>1. s.reactions \in Seq(ReactionData)
  BY DEF JSPromiseData
<1>2. Append(s.reactions, r) \in Seq(ReactionData)
  BY <1>1, AppendProperties
<1> DEFINE w == Seen(s)
<1>3. /\ w \in JSPromiseData /\ w.state = s.state /\ w.result = s.result
      /\ w.reactions = s.reactions /\ w.handled = TRUE /\ w.lock = s.lock
      /\ w.registered = s.registered + 1 /\ w.told = s.told
  BY SeenIs
<1>4. Waiting(s, r) = [w EXCEPT !.reactions = Append(s.reactions, r)]
  BY <1>3 DEF Waiting
<1> HIDE DEF w
<1> QED BY <1>2, <1>3, <1>4 DEF JSPromiseData

LEMMA HandledIs ==
  ASSUME NEW s \in JSPromiseData
  PROVE  LET t == Handled(s) IN
         /\ t \in JSPromiseData /\ t.state = s.state /\ t.result = s.result
         /\ t.reactions = s.reactions /\ t.handled = TRUE /\ t.lock = s.lock
         /\ t.registered = s.registered + 1
         /\ t.told = IF s.state = "rejected" /\ ~s.handled THEN "handled" ELSE s.told
<1> DEFINE w == Seen(s)
<1>1. /\ w \in JSPromiseData /\ w.state = s.state /\ w.result = s.result
      /\ w.reactions = s.reactions /\ w.handled = TRUE /\ w.lock = s.lock
      /\ w.registered = s.registered + 1 /\ w.told = s.told
  BY SeenIs
<1>2. Handled(s) = [w EXCEPT !.told = IF s.state = "rejected" /\ ~s.handled THEN "handled" ELSE @]
  BY DEF Handled
<1> HIDE DEF w
<1> QED BY <1>1, <1>2 DEF JSPromiseData

LEMMA ReactionIs ==
  ASSUME NEW s \in JSPromiseData, NEW cap \in Nat, NEW f \in Callables, NEW g \in Callables
  PROVE  LET r == Reaction(s, cap, f, g) IN
         r \in ReactionData /\ r.cap = cap /\ r.onFul = f /\ r.onRej = g /\ r.n = s.registered + 1
  BY DEF Reaction, ReactionData, JSPromiseData

LEMMA ReactionJobIs ==
  ASSUME NEW p \in Nat, NEW r \in ReactionData, NEW rej \in BOOLEAN, NEW v \in Int
  PROVE  LET j == ReactionJob(p, r, rej, v) IN
         /\ j \in ReactionJobs /\ j \in JobData
         /\ j.job = "reaction" /\ j.promise = p /\ j.cap = r.cap /\ j.n = r.n
         /\ j.handler = (IF rej THEN r.onRej ELSE r.onFul) /\ j.rej = rej /\ j.arg = v
  BY DEF ReactionJob, ReactionData, JobData, ReactionJobs

LEMMA ThenableJobIs ==
  ASSUME NEW p \in Nat, NEW v \in Int
  PROVE  LET j == ThenableJob(p, v) IN
         j \in JobData /\ j.job = "thenable" /\ j.promise = p /\ j.arg = v
  BY DEF ThenableJob, JobData, ThenableJobs

LEMMA ReactionsIs ==
  ASSUME NEW s \in JSPromiseData, NEW p \in Nat, NEW rej \in BOOLEAN, NEW v \in Int
  PROVE  LET u == Reactions(s, p, rej, v) IN
         /\ u \in Seq(JobData) /\ Len(u) = Len(s.reactions) /\ DOMAIN u = DOMAIN s.reactions
         /\ \A i \in DOMAIN u :
              /\ s.reactions[i] \in ReactionData /\ u[i] \in ReactionJobs
              /\ u[i].job = "reaction" /\ u[i].promise = p /\ u[i].cap = s.reactions[i].cap
              /\ u[i].n = s.reactions[i].n /\ u[i].rej = rej /\ u[i].arg = v
              /\ u[i].handler = IF rej THEN s.reactions[i].onRej ELSE s.reactions[i].onFul
<1> DEFINE u == Reactions(s, p, rej, v)
<1>1. s.reactions \in Seq(ReactionData)
  BY DEF JSPromiseData
<1>2. Len(s.reactions) \in Nat /\ DOMAIN s.reactions = 1..Len(s.reactions)
      /\ \A i \in DOMAIN s.reactions : s.reactions[i] \in ReactionData
  BY <1>1, Domain
<1>3. u = [i \in 1..Len(s.reactions) |-> ReactionJob(p, s.reactions[i], rej, v)]
  BY <1>2 DEF Reactions
<1>4. \A i \in 1..Len(s.reactions) : ReactionJob(p, s.reactions[i], rej, v) \in JobData
  BY <1>2, ReactionJobIs
<1>5. u \in Seq(JobData)
  BY <1>2, <1>3, <1>4, IsASeq
<1>6. Len(u) = Len(s.reactions) /\ DOMAIN u = DOMAIN s.reactions
  BY <1>2, <1>3, <1>5, LenProperties
<1>7. ASSUME NEW i \in DOMAIN u
      PROVE  /\ s.reactions[i] \in ReactionData /\ u[i] \in ReactionJobs
             /\ u[i].job = "reaction" /\ u[i].promise = p /\ u[i].cap = s.reactions[i].cap
             /\ u[i].n = s.reactions[i].n /\ u[i].rej = rej /\ u[i].arg = v
             /\ u[i].handler = IF rej THEN s.reactions[i].onRej ELSE s.reactions[i].onFul
  <2>1. u[i] = ReactionJob(p, s.reactions[i], rej, v) /\ s.reactions[i] \in ReactionData
    BY <1>2, <1>3, <1>6
  <2> QED BY <2>1, ReactionJobIs
<1> QED BY <1>5, <1>6, <1>7

-----------------------------------------------------------------------------
(* The inductive invariant, of the values of the variables.  x is the pair *)
(* that the engine has in hand between two parts of a step, or 0.          *)

Values(ps) == Collected..Len(ps)

\* The functions of a capability, of a combinator and those the program has.
Public(prs, f) == f \in DOMAIN prs /\ ~prs[f].async /\ prs[f].follows = Plain
Capability(prs, f) == f = 0 \/ Public(prs, f)

Ful(cbs, c, i) ==
  IF cbs[c].type \in {"any", "race"} THEN Fn("resolve", cbs[c].cap, 0) ELSE Fn("element", c, i)
Rej(cbs, c, i) ==
  CASE cbs[c].type \in {"all", "race"} -> Fn("reject", cbs[c].cap, 0)
    [] cbs[c].type = "allSettled" -> Fn("rejectElement", c, i)
    [] OTHER -> Fn("element", c, i)

Code(ps, h) == h.fn \in Simple /\ h.at \in Values(ps)
Native(cbs, c) == (1..cbs[c].n) \ cbs[c].foreign

\* The two handlers of a reaction on q.
Handlers(ps, prs, cbs, q, ful, rej) ==
  \/ Code(ps, ful) /\ Code(ps, rej)
  \/ \E f \in DOMAIN prs : prs[f].async /\ ful = Resume(f) /\ rej = ResumeThrow(f)
  \/ \E f \in DOMAIN prs : prs[f].follows = q /\ ful = Fn("resolve", f, 0) /\ rej = Fn("reject", f, 0)
  \/ \E c \in DOMAIN cbs : \E i \in Native(cbs, c) : ful = Ful(cbs, c, i) /\ rej = Rej(cbs, c, i)

\* The one that is called when q has been rejected, or fulfilled.
Handler(ps, prs, cbs, q, rej, h) ==
  \/ Code(ps, h)
  \/ \E f \in DOMAIN prs : prs[f].async /\ h = IF rej THEN ResumeThrow(f) ELSE Resume(f)
  \/ \E f \in DOMAIN prs : prs[f].follows = q /\ h = Fn(IF rej THEN "reject" ELSE "resolve", f, 0)
  \/ \E c \in DOMAIN cbs : \E i \in Native(cbs, c) : h = IF rej THEN Rej(cbs, c, i) ELSE Ful(cbs, c, i)

ReactionOk(ps, prs, cbs, p, r) == Capability(prs, r.cap) /\ Handlers(ps, prs, cbs, p, r.onFul, r.onRej)

PromiseOk(ps, prs, cbs, p) ==
  /\ ps[p].result \in Values(ps) /\ ps[p].lock <= Len(ps) /\ ps[p].lock # p
  /\ ps[p].state = "fulfilled" => ps[p].result <= 0
  /\ ps[p].state # "pending" => ps[p].reactions = <<>>
  /\ ps[p].told = "unhandled" <=> ps[p].state = "rejected" /\ ~ps[p].handled
  /\ \A i \in DOMAIN ps[p].reactions : ReactionOk(ps, prs, cbs, p, ps[p].reactions[i])

JobOk(ps, prs, cbs, j) ==
  /\ j.promise \in DOMAIN ps /\ j.arg \in Values(ps)
  /\ j.job = "thenable" => j.arg = Thenable \/ (j.arg > 0 /\ j.arg # j.promise)
  /\ j.job = "reaction" => Capability(prs, j.cap) /\ Handler(ps, prs, cbs, j.promise, j.rej, j.handler)

FrameOk(ps, prs, cbs, e) ==
  /\ e.arg \in Values(ps)
  /\ e.call \in {"handler", "native", "onFinally", "toFinally"} => Capability(prs, e.of)
  /\ e.call = "foreignThen" => Public(prs, e.of)
  /\ e.call = "getThen" => e.of \in DOMAIN prs
  /\ e.call = "async" => e.of \in DOMAIN prs /\ prs[e.of].async
  /\ e.call \in {"all", "itemThen"} => e.of \in DOMAIN cbs

HeldOk(prs, cbs, h) ==
  \/ \E f \in DOMAIN prs : Public(prs, f) /\ h \in Resolving(f)
  \/ \E c \in DOMAIN cbs : \E i \in cbs[c].foreign : h \in {Ful(cbs, c, i), Rej(cbs, c, i)}

PairOk(ps, e) == e.promise \in DOMAIN ps /\ e.follows <= Len(ps) /\ (e.async => e.follows = Plain)

Refs(ps, prs, cbs, js, st, hd) ==
  /\ \A p \in DOMAIN ps : PromiseOk(ps, prs, cbs, p)
  /\ \A f \in DOMAIN prs : PairOk(ps, prs[f])
  /\ \A c \in DOMAIN cbs : Public(prs, cbs[c].cap)
  /\ \A i \in DOMAIN js : JobOk(ps, prs, cbs, js[i])
  /\ \A i \in DOMAIN st : FrameOk(ps, prs, cbs, st[i])
  /\ \A h \in hd : HeldOk(prs, cbs, h)

Below(st) ==
  /\ \A i \in DOMAIN st : st[i].call = "itemThen" =>
       i > 1 /\ st[i - 1].call = "all" /\ st[i - 1].of = st[i].of
  /\ \A i, k \in DOMAIN st : st[i].call = "all" /\ st[k].call = "all" /\ st[i].of = st[k].of => i = k

\* The ways to settle a promise exclude each other, and one is left exactly
\* while it is pending.
ByPair(prs, p, f) == prs[f].promise = p /\ ~prs[f].resolved
ByGetter(prs, st, p, i) == st[i].call = "getThen" /\ prs[st[i].of].promise = p
ByJob(js, p, i) == js[i].job = "thenable" /\ js[i].promise = p

Ways(ps, prs, js, st, p) ==
  /\ \A f, g \in DOMAIN prs : ByPair(prs, p, f) /\ ByPair(prs, p, g) => f = g
  /\ \A i, k \in DOMAIN st : ByGetter(prs, st, p, i) /\ ByGetter(prs, st, p, k) => i = k
  /\ \A i, k \in DOMAIN js : ByJob(js, p, i) /\ ByJob(js, p, k) => i = k
  /\ \A f \in DOMAIN prs, i \in DOMAIN st : ~(ByPair(prs, p, f) /\ ByGetter(prs, st, p, i))
  /\ \A f \in DOMAIN prs, i \in DOMAIN js : ~(ByPair(prs, p, f) /\ ByJob(js, p, i))
  /\ \A i \in DOMAIN st, k \in DOMAIN js : ~(ByGetter(prs, st, p, i) /\ ByJob(js, p, k))
  /\ ps[p].state = "pending" <=>
       \/ \E f \in DOMAIN prs : ByPair(prs, p, f)
       \/ \E i \in DOMAIN st : ByGetter(prs, st, p, i)
       \/ \E i \in DOMAIN js : ByJob(js, p, i)

\* The reactions of a promise wait, or are queued, in order; s is its data
\* and c what was called so far.
Of(js, p, i) == js[i].job = "reaction" /\ js[i].promise = p
Ordered(s, js, c, p) ==
  /\ Len(c) <= s.registered
  /\ s.state = "pending" =>
       /\ c = <<>> /\ Len(s.reactions) = s.registered
       /\ \A i \in DOMAIN s.reactions : s.reactions[i].n = i
       /\ \A i \in DOMAIN js : ~Of(js, p, i)
  /\ s.state # "pending" =>
       /\ \A i \in DOMAIN js : Of(js, p, i) =>
            /\ js[i].rej = (s.state = "rejected") /\ js[i].arg = s.result
            /\ js[i].n \in (Len(c) + 1)..s.registered
       /\ \A i, k \in DOMAIN js : Of(js, p, i) /\ Of(js, p, k) /\ i < k => js[i].n < js[k].n
       /\ \A n \in (Len(c) + 1)..s.registered : \E i \in DOMAIN js : Of(js, p, i) /\ js[i].n = n

\* What follows a promise waits for it, and keeps its outcome.
Done(ps, q) == ps[q].state # "pending"
Awaited(ps, js, f, q) ==
  \/ \E i \in DOMAIN ps[q].reactions : ps[q].reactions[i].onFul = Fn("resolve", f, 0)
  \/ \E i \in DOMAIN js : Of(js, q, i) /\ js[i].handler \in Resolving(f)
Follower(ps, prs, js, x, f) ==
  ~prs[f].resolved /\ prs[f].follows # Plain =>
    /\ ps[prs[f].promise].lock = prs[f].follows
    /\ f # x => Awaited(ps, js, f, prs[f].follows)
Adopts(ps, js, i) ==
  js[i].job = "thenable" /\ js[i].arg # Thenable => ps[js[i].promise].lock = js[i].arg
Locked(ps, prs, js, p) ==
  LET q == ps[p].lock IN
  q # Plain =>
    /\ Done(ps, p) => Done(ps, q)
         /\ (ps[q].result # Thenable => ps[p].state = ps[q].state /\ ps[p].result = ps[q].result)
    /\ ~Done(ps, p) =>
         \/ \E i \in DOMAIN js : ByJob(js, p, i) /\ js[i].arg = q
         \/ \E f \in DOMAIN prs : ByPair(prs, p, f) /\ prs[f].follows = q
         \/ Done(ps, q) /\ ps[q].result = Thenable
Following(ps, prs, js, x) ==
  /\ \A f \in DOMAIN prs : Follower(ps, prs, js, x, f)
  /\ \A i \in DOMAIN js : Adopts(ps, js, i)
  /\ \A p \in DOMAIN ps : Locked(ps, prs, js, p)

\* What is left of a combinator: its items that have not answered, and the
\* loop.
Loops(st, c) == \E i \in DOMAIN st : st[i].call = "all" /\ st[i].of = c
ItemsCounted(e, loops) ==
  /\ e.n <= MaxItems /\ e.foreign \subseteq 1..e.n
  /\ e.called \subseteq {"element", "rejectElement"} \X (1..e.n)
  /\ e.type = "race" => e.remaining = 1 /\ e.called = {}
  /\ e.type # "race" =>
       /\ e.remaining + Cardinality(e.called) - e.n \in {0, 1}
       /\ loops => e.remaining + Cardinality(e.called) - e.n = 1
Counts(cbs, st) == \A c \in DOMAIN cbs : ItemsCounted(cbs[c], Loops(st, c))

Good(ps, prs, cbs, js, st, kn, hd, cs, x) ==
  /\ Types(ps, prs, cbs, js, st, kn, hd, cs)
  /\ Refs(ps, prs, cbs, js, st, hd)
  /\ Below(st)
  /\ \A p \in DOMAIN ps : Ways(ps, prs, js, st, p)
  /\ \A p \in DOMAIN ps : Ordered(ps[p], js, cs[p], p)
  /\ Following(ps, prs, js, x)
  /\ Counts(cbs, st)
  /\ x \in 0..Len(prs)

\* Tables only grow.
Grows(ps, prs, cbs, qs, qrs, ebs) ==
  /\ Len(ps) <= Len(qs) /\ DOMAIN ps \subseteq DOMAIN qs
  /\ DOMAIN prs \subseteq DOMAIN qrs
  /\ \A f \in DOMAIN prs : /\ qrs[f].promise = prs[f].promise
                           /\ qrs[f].async = prs[f].async /\ qrs[f].follows = prs[f].follows
  /\ DOMAIN cbs \subseteq DOMAIN ebs
  /\ \A c \in DOMAIN cbs : /\ ebs[c].type = cbs[c].type /\ ebs[c].cap = cbs[c].cap
                           /\ cbs[c].foreign \subseteq ebs[c].foreign
                           /\ Native(cbs, c) \subseteq Native(ebs, c)

LEMMA GrowsRefs ==
  ASSUME NEW ps, NEW prs, NEW cbs, NEW qs, NEW qrs, NEW ebs,
         Len(ps) \in Nat, Len(qs) \in Nat, Grows(ps, prs, cbs, qs, qrs, ebs)
  PROVE  /\ Values(ps) \subseteq Values(qs)
         /\ \A f : Public(prs, f) => Public(qrs, f)
         /\ \A f : Capability(prs, f) => Capability(qrs, f)
         /\ \A h : Code(ps, h) => Code(qs, h)
         /\ \A q, g, h : Handlers(ps, prs, cbs, q, g, h) => Handlers(qs, qrs, ebs, q, g, h)
         /\ \A q, rej, h : Handler(ps, prs, cbs, q, rej, h) => Handler(qs, qrs, ebs, q, rej, h)
         /\ \A p, r : ReactionOk(ps, prs, cbs, p, r) => ReactionOk(qs, qrs, ebs, p, r)
         /\ \A e : PairOk(ps, e) /\ e.follows \in Nat => PairOk(qs, e)
         /\ \A j : JobOk(ps, prs, cbs, j) => JobOk(qs, qrs, ebs, j)
         /\ \A e : FrameOk(ps, prs, cbs, e) => FrameOk(qs, qrs, ebs, e)
         /\ \A h : HeldOk(prs, cbs, h) => HeldOk(qrs, ebs, h)
<1>1. Values(ps) \subseteq Values(qs)
  BY DEF Values, Grows
<1>2. ASSUME NEW f, Public(prs, f) PROVE Public(qrs, f)
  BY <1>2 DEF Public, Grows
<1>3. ASSUME NEW f, Capability(prs, f) PROVE Capability(qrs, f)
  BY <1>2, <1>3 DEF Capability
<1>4. ASSUME NEW h, Code(ps, h) PROVE Code(qs, h)
  BY <1>1, <1>4 DEF Code
<1>5. \A c \in DOMAIN cbs : \A i : Ful(cbs, c, i) = Ful(ebs, c, i) /\ Rej(cbs, c, i) = Rej(ebs, c, i)
  BY DEF Ful, Rej, Grows
<1>6. ASSUME NEW q, NEW g, NEW h, Handlers(ps, prs, cbs, q, g, h) PROVE Handlers(qs, qrs, ebs, q, g, h)
  <2>1. CASE Code(ps, g) /\ Code(ps, h)
    BY <2>1, <1>4 DEF Handlers
  <2>2. CASE \E f \in DOMAIN prs : prs[f].async /\ g = Resume(f) /\ h = ResumeThrow(f)
    BY <2>2 DEF Handlers, Grows
  <2>3. CASE \E f \in DOMAIN prs : prs[f].follows = q /\ g = Fn("resolve", f, 0) /\ h = Fn("reject", f, 0)
    BY <2>3 DEF Handlers, Grows
  <2>4. CASE \E c \in DOMAIN cbs : \E i \in Native(cbs, c) : g = Ful(cbs, c, i) /\ h = Rej(cbs, c, i)
    <3>1. PICK c \in DOMAIN cbs : \E i \in Native(cbs, c) : g = Ful(cbs, c, i) /\ h = Rej(cbs, c, i)
      BY <2>4
    <3>2. PICK i \in Native(cbs, c) : g = Ful(cbs, c, i) /\ h = Rej(cbs, c, i)
      BY <3>1
    <3>3. c \in DOMAIN ebs /\ i \in Native(ebs, c) /\ g = Ful(ebs, c, i) /\ h = Rej(ebs, c, i)
      BY <3>2, <1>5 DEF Grows
    <3> QED BY <3>3 DEF Handlers
  <2> QED BY <1>6, <2>1, <2>2, <2>3, <2>4 DEF Handlers
<1>7. ASSUME NEW q, NEW rej, NEW h, Handler(ps, prs, cbs, q, rej, h) PROVE Handler(qs, qrs, ebs, q, rej, h)
  <2>1. CASE Code(ps, h)
    BY <2>1, <1>4 DEF Handler
  <2>2. CASE \E f \in DOMAIN prs : prs[f].async /\ h = IF rej THEN ResumeThrow(f) ELSE Resume(f)
    BY <2>2 DEF Handler, Grows
  <2>3. CASE \E f \in DOMAIN prs : prs[f].follows = q /\ h = Fn(IF rej THEN "reject" ELSE "resolve", f, 0)
    BY <2>3 DEF Handler, Grows
  <2>4. CASE \E c \in DOMAIN cbs : \E i \in Native(cbs, c) : h = IF rej THEN Rej(cbs, c, i) ELSE Ful(cbs, c, i)
    <3>1. PICK c \in DOMAIN cbs : \E i \in Native(cbs, c) : h = IF rej THEN Rej(cbs, c, i) ELSE Ful(cbs, c, i)
      BY <2>4
    <3>2. PICK i \in Native(cbs, c) : h = IF rej THEN Rej(cbs, c, i) ELSE Ful(cbs, c, i)
      BY <3>1
    <3>3. c \in DOMAIN ebs /\ i \in Native(ebs, c) /\ h = IF rej THEN Rej(ebs, c, i) ELSE Ful(ebs, c, i)
      BY <3>2, <1>5 DEF Grows
    <3> QED BY <3>3 DEF Handler
  <2> QED BY <1>7, <2>1, <2>2, <2>3, <2>4 DEF Handler
<1>8. ASSUME NEW p, NEW r, ReactionOk(ps, prs, cbs, p, r) PROVE ReactionOk(qs, qrs, ebs, p, r)
  BY <1>3, <1>6, <1>8 DEF ReactionOk
<1>9. ASSUME NEW j, JobOk(ps, prs, cbs, j) PROVE JobOk(qs, qrs, ebs, j)
  BY <1>1, <1>3, <1>7, <1>9 DEF JobOk, Grows
<1>10. ASSUME NEW e, FrameOk(ps, prs, cbs, e) PROVE FrameOk(qs, qrs, ebs, e)
  BY <1>1, <1>2, <1>3, <1>10 DEF FrameOk, Grows
<1>11. ASSUME NEW h, HeldOk(prs, cbs, h) PROVE HeldOk(qrs, ebs, h)
  <2>1. CASE \E f \in DOMAIN prs : Public(prs, f) /\ h \in Resolving(f)
    BY <2>1, <1>2 DEF HeldOk, Grows
  <2>2. CASE \E c \in DOMAIN cbs : \E i \in cbs[c].foreign : h \in {Ful(cbs, c, i), Rej(cbs, c, i)}
    BY <2>2, <1>5 DEF HeldOk, Grows
  <2> QED BY <1>11, <2>1, <2>2 DEF HeldOk
<1>12. ASSUME NEW e, PairOk(ps, e), e.follows \in Nat PROVE PairOk(qs, e)
  BY <1>12 DEF PairOk, Grows
<1> QED BY <1>1, <1>2, <1>3, <1>4, <1>6, <1>7, <1>8, <1>9, <1>10, <1>11, <1>12

LEMMA Facts ==
  ASSUME NEW ps, NEW prs, NEW cbs, NEW js, NEW st, NEW kn, NEW hd, NEW cs,
         Types(ps, prs, cbs, js, st, kn, hd, cs)
  PROVE  /\ Len(ps) \in Nat /\ DOMAIN ps = 1..Len(ps) /\ \A p \in DOMAIN ps : ps[p] \in JSPromiseData
         /\ Len(prs) \in Nat /\ DOMAIN prs = 1..Len(prs) /\ \A f \in DOMAIN prs : prs[f] \in PairData
         /\ Len(cbs) \in Nat /\ DOMAIN cbs = 1..Len(cbs) /\ \A c \in DOMAIN cbs : cbs[c] \in ComboData
         /\ Len(js) \in Nat /\ DOMAIN js = 1..Len(js) /\ \A i \in DOMAIN js : js[i] \in JobData
         /\ Len(st) \in Nat /\ DOMAIN st = 1..Len(st) /\ \A i \in DOMAIN st : st[i] \in FrameData
         /\ DOMAIN cs = DOMAIN ps /\ \A p \in DOMAIN ps : cs[p] \in Seq(CallData)
<1>1. /\ ps \in Seq(JSPromiseData) /\ prs \in Seq(PairData) /\ cbs \in Seq(ComboData)
      /\ js \in Seq(JobData) /\ st \in Seq(FrameData) /\ cs \in Seq(Seq(CallData)) /\ Len(cs) = Len(ps)
  BY DEF Types
<1>2. Len(ps) \in Nat /\ DOMAIN ps = 1..Len(ps) /\ \A p \in DOMAIN ps : ps[p] \in JSPromiseData
  BY <1>1, Domain
<1>3. Len(prs) \in Nat /\ DOMAIN prs = 1..Len(prs) /\ \A f \in DOMAIN prs : prs[f] \in PairData
  BY <1>1, Domain
<1>4. Len(cbs) \in Nat /\ DOMAIN cbs = 1..Len(cbs) /\ \A c \in DOMAIN cbs : cbs[c] \in ComboData
  BY <1>1, Domain
<1>5. Len(js) \in Nat /\ DOMAIN js = 1..Len(js) /\ \A i \in DOMAIN js : js[i] \in JobData
  BY <1>1, Domain
<1>6. Len(st) \in Nat /\ DOMAIN st = 1..Len(st) /\ \A i \in DOMAIN st : st[i] \in FrameData
  BY <1>1, Domain
<1>7. DOMAIN cs = 1..Len(cs) /\ \A p \in DOMAIN cs : cs[p] \in Seq(CallData)
  BY <1>1, Domain
<1> QED BY <1>1, <1>2, <1>3, <1>4, <1>5, <1>6, <1>7

\* What refers to a promise or a pair refers to one that there is.
LEMMA Targets ==
  ASSUME NEW ps, NEW prs, NEW cbs, NEW js, NEW st, NEW kn, NEW hd, NEW cs,
         Types(ps, prs, cbs, js, st, kn, hd, cs), Refs(ps, prs, cbs, js, st, hd)
  PROVE  /\ \A f \in DOMAIN prs : prs[f].promise \in DOMAIN ps
         /\ \A f \in DOMAIN prs : prs[f].follows # Plain => prs[f].follows \in DOMAIN ps
         /\ \A p \in DOMAIN ps : ps[p].lock # Plain => ps[p].lock \in DOMAIN ps
         /\ \A i \in DOMAIN js : js[i].promise \in DOMAIN ps
         /\ \A i \in DOMAIN st : st[i].call = "getThen" => st[i].of \in DOMAIN prs
<1>1. /\ Len(ps) \in Nat /\ DOMAIN ps = 1..Len(ps)
      /\ \A p \in DOMAIN ps : ps[p] \in JSPromiseData
      /\ \A f \in DOMAIN prs : prs[f] \in PairData
  BY Facts
<1>2. ASSUME NEW f \in DOMAIN prs
      PROVE  prs[f].promise \in DOMAIN ps /\ (prs[f].follows # Plain => prs[f].follows \in DOMAIN ps)
  <2>1. PairOk(ps, prs[f]) /\ prs[f].follows \in Nat
    BY <1>1 DEF Refs, PairData
  <2> QED BY <1>1, <2>1 DEF PairOk, Plain
<1>3. ASSUME NEW p \in DOMAIN ps, ps[p].lock # Plain PROVE ps[p].lock \in DOMAIN ps
  <2>1. PromiseOk(ps, prs, cbs, p) /\ ps[p].lock \in Nat
    BY <1>1 DEF Refs, JSPromiseData
  <2> QED BY <1>1, <1>3, <2>1 DEF PromiseOk, Plain
<1>4. \A i \in DOMAIN js : js[i].promise \in DOMAIN ps
  BY DEF Refs, JobOk
<1>5. \A i \in DOMAIN st : st[i].call = "getThen" => st[i].of \in DOMAIN prs
  BY DEF Refs, FrameOk
<1> QED BY <1>2, <1>3, <1>4, <1>5

\* The ways to settle a promise that a step leaves alone, but for the jobs
\* in front of its own.
LEMMA SameWays ==
  ASSUME NEW ps, NEW prs, NEW js, NEW st, NEW qs, NEW qrs, NEW ks, NEW su, NEW p, NEW d \in Nat,
         DOMAIN js \subseteq Int, DOMAIN ks \subseteq Int,
         Ways(ps, prs, js, st, p), qs[p].state = ps[p].state,
         \A f \in DOMAIN prs : ByPair(prs, p, f) => f \in DOMAIN qrs /\ ByPair(qrs, p, f),
         \A f \in DOMAIN qrs : ByPair(qrs, p, f) => f \in DOMAIN prs /\ ByPair(prs, p, f),
         \A i \in DOMAIN st : ByGetter(prs, st, p, i) => i \in DOMAIN su /\ ByGetter(qrs, su, p, i),
         \A i \in DOMAIN su : ByGetter(qrs, su, p, i) => i \in DOMAIN st /\ ByGetter(prs, st, p, i),
         \A i \in DOMAIN js : ByJob(js, p, i) => i - d \in DOMAIN ks /\ ByJob(ks, p, i - d),
         \A i \in DOMAIN ks : ByJob(ks, p, i) => i + d \in DOMAIN js /\ ByJob(js, p, i + d)
  PROVE  Ways(qs, qrs, ks, su, p)
<1>1. \A f, g \in DOMAIN qrs : ByPair(qrs, p, f) /\ ByPair(qrs, p, g) => f = g
  BY DEF Ways
<1>2. \A i, k \in DOMAIN su : ByGetter(qrs, su, p, i) /\ ByGetter(qrs, su, p, k) => i = k
  BY DEF Ways
<1>3. ASSUME NEW i \in DOMAIN ks, NEW k \in DOMAIN ks, ByJob(ks, p, i), ByJob(ks, p, k)
      PROVE  i = k
  <2>1. i + d = k + d
    BY <1>3 DEF Ways
  <2> QED BY <2>1
<1>4. \A f \in DOMAIN qrs, i \in DOMAIN su : ~(ByPair(qrs, p, f) /\ ByGetter(qrs, su, p, i))
  BY DEF Ways
<1>5. \A f \in DOMAIN qrs, i \in DOMAIN ks : ~(ByPair(qrs, p, f) /\ ByJob(ks, p, i))
  BY DEF Ways
<1>6. \A i \in DOMAIN su, k \in DOMAIN ks : ~(ByGetter(qrs, su, p, i) /\ ByJob(ks, p, k))
  BY DEF Ways
<1>7. (\E f \in DOMAIN prs : ByPair(prs, p, f)) <=> (\E f \in DOMAIN qrs : ByPair(qrs, p, f))
  OBVIOUS
<1>8. (\E i \in DOMAIN st : ByGetter(prs, st, p, i)) <=> (\E i \in DOMAIN su : ByGetter(qrs, su, p, i))
  OBVIOUS
<1>9. (\E i \in DOMAIN js : ByJob(js, p, i)) <=> (\E i \in DOMAIN ks : ByJob(ks, p, i))
  OBVIOUS
<1> QED BY <1>1, <1>2, <1>3, <1>4, <1>5, <1>6, <1>7, <1>8, <1>9 DEF Ways

\* js_new_promise_capability.
LEMMA Make ==
  ASSUME NEW ps, NEW prs, NEW cbs, NEW js, NEW st, NEW kn, NEW hd, NEW cs, NEW x,
         Good(ps, prs, cbs, js, st, kn, hd, cs, x),
         NEW e \in PairData, e.promise = Len(ps) + 1, ~e.resolved, e.follows = Plain,
         NEW y, y = (IF e.async THEN Len(prs) + 1 ELSE x), e.async => x = 0
  PROVE  Good(Append(ps, Pending), Append(prs, e), cbs, js, st, kn, hd, Append(cs, <<>>), y)
<1> DEFINE qs == Append(ps, Pending)
           qrs == Append(prs, e)
           ds == Append(cs, <<>>)
<1>1. /\ Types(ps, prs, cbs, js, st, kn, hd, cs) /\ Refs(ps, prs, cbs, js, st, hd)
      /\ x \in 0..Len(prs)
  BY DEF Good
<1>2. /\ Len(ps) \in Nat /\ DOMAIN ps = 1..Len(ps) /\ \A p \in DOMAIN ps : ps[p] \in JSPromiseData
      /\ Len(prs) \in Nat /\ DOMAIN prs = 1..Len(prs) /\ \A f \in DOMAIN prs : prs[f] \in PairData
      /\ DOMAIN cs = DOMAIN ps
  BY <1>1, Facts
<1>3. Pending \in JSPromiseData
  <2>1. <<>> \in Seq(ReactionData)
    BY EmptySeq
  <2> QED BY <2>1 DEF Pending, JSPromiseData, Plain
<1>4. qs \in Seq(JSPromiseData) /\ Longer(ps, qs, Pending)
  BY <1>1, <1>3, AppendIs DEF Types
<1>5. qrs \in Seq(PairData) /\ Longer(prs, qrs, e)
  BY <1>1, AppendIs DEF Types
<1>6. ds \in Seq(Seq(CallData)) /\ Longer(cs, ds, <<>>)
  <2>1. <<>> \in Seq(CallData)
    BY EmptySeq
  <2> QED BY <1>1, <2>1, AppendIs DEF Types
<1> HIDE DEF qs, qrs, ds
<1>7. Types(qs, qrs, cbs, js, st, kn, hd, ds)
  BY <1>1, <1>2, <1>4, <1>5, <1>6 DEF Types, Longer
<1>8. Grows(ps, prs, cbs, qs, qrs, cbs)
  BY <1>2, <1>4, <1>5 DEF Grows, Longer
<1>9. Refs(qs, qrs, cbs, js, st, hd)
  <2>1. Len(qs) \in Nat
    BY <1>2, <1>4 DEF Longer
  <2> HIDE DEF Good
  <2>2. /\ Values(ps) \subseteq Values(qs)
        /\ \A f : Public(prs, f) => Public(qrs, f)
        /\ \A p, r : ReactionOk(ps, prs, cbs, p, r) => ReactionOk(qs, qrs, cbs, p, r)
        /\ \A g : PairOk(ps, g) /\ g.follows \in Nat => PairOk(qs, g)
        /\ \A j : JobOk(ps, prs, cbs, j) => JobOk(qs, qrs, cbs, j)
        /\ \A f : FrameOk(ps, prs, cbs, f) => FrameOk(qs, qrs, cbs, f)
        /\ \A h : HeldOk(prs, cbs, h) => HeldOk(qrs, cbs, h)
    BY <1>2, <1>8, <2>1, GrowsRefs
  <2>3. ASSUME NEW p \in DOMAIN ps PROVE PromiseOk(qs, qrs, cbs, p)
    <3>1. PromiseOk(ps, prs, cbs, p) /\ qs[p] = ps[p] /\ ps[p].lock \in Nat
      BY <1>1, <1>2, <1>4 DEF Refs, Longer, JSPromiseData
    <3> QED BY <1>2, <1>4, <2>2, <3>1 DEF PromiseOk, Longer
  <2>4. PromiseOk(qs, qrs, cbs, Len(ps) + 1)
    BY <1>2, <1>4 DEF PromiseOk, Pending, Longer, Values, Plain, Collected
  <2>5. \A p \in DOMAIN qs : p \in DOMAIN ps \/ p = Len(ps) + 1
    BY <1>2, <1>4 DEF Longer
  <2>6. \A f \in DOMAIN qrs : PairOk(qs, qrs[f])
    <3> SUFFICES ASSUME NEW f \in DOMAIN qrs
                 PROVE  PairOk(qs, qrs[f])
      OBVIOUS
    <3>1. CASE f \in DOMAIN prs
      <4>1. qrs[f] = prs[f] /\ PairOk(ps, prs[f]) /\ prs[f].follows \in Nat
        BY <3>1, <1>1, <1>2, <1>5 DEF Refs, Longer, PairData
      <4> QED BY <4>1, <2>2
    <3>2. CASE f = Len(prs) + 1
      BY <3>2, <1>2, <1>4, <1>5 DEF Longer, Plain, PairOk
    <3> QED BY <1>2, <1>5, <3>1, <3>2 DEF Longer
  <2> QED BY <1>1, <2>2, <2>3, <2>4, <2>5, <2>6 DEF Refs
<1>10. /\ \A f \in DOMAIN prs : qrs[f] = prs[f]
       /\ qrs[Len(prs) + 1] = e /\ Len(prs) + 1 \in DOMAIN qrs
       /\ \A f \in DOMAIN qrs : f \in DOMAIN prs \/ f = Len(prs) + 1
  BY <1>2, <1>5 DEF Longer
<1>11. /\ \A p \in DOMAIN ps : qs[p] = ps[p] /\ ds[p] = cs[p]
       /\ qs[Len(ps) + 1] = Pending /\ ds[Len(ps) + 1] = <<>>
       /\ Len(ps) + 1 \notin DOMAIN ps
       /\ \A p \in DOMAIN qs : p \in DOMAIN ps \/ p = Len(ps) + 1
  <2>1. Len(cs) = Len(ps)
    BY <1>1 DEF Types
  <2>2. \A p \in DOMAIN ps : qs[p] = ps[p] /\ ds[p] = cs[p]
    BY <1>2, <1>4, <1>6 DEF Longer
  <2>3. qs[Len(ps) + 1] = Pending /\ ds[Len(ps) + 1] = <<>>
    BY <2>1, <1>4, <1>6 DEF Longer
  <2>4. Len(ps) + 1 \notin DOMAIN ps /\ DOMAIN qs = 1..(Len(ps) + 1)
    BY <1>2, <1>4 DEF Longer
  <2> QED BY <2>2, <2>3, <2>4, <1>2
<1>12. /\ \A f \in DOMAIN prs : prs[f].promise \in DOMAIN ps
       /\ \A i \in DOMAIN js : js[i].promise \in DOMAIN ps
       /\ \A i \in DOMAIN st : st[i].call = "getThen" => st[i].of \in DOMAIN prs
  BY <1>1, Targets
<1>13. ASSUME NEW p \in DOMAIN qs PROVE Ways(qs, qrs, js, st, p)
  <2>1. \A i \in DOMAIN st : ByGetter(qrs, st, p, i) <=> ByGetter(prs, st, p, i)
    BY <1>10, <1>12 DEF ByGetter
  <2>2. CASE p \in DOMAIN ps
    <3>1. \A f \in DOMAIN prs : ByPair(qrs, p, f) <=> ByPair(prs, p, f)
      BY <1>10 DEF ByPair
    <3>2. ~ByPair(qrs, p, Len(prs) + 1)
      BY <2>2, <1>10, <1>11 DEF ByPair
    <3>3. Ways(ps, prs, js, st, p)
      BY <2>2 DEF Good
    <3>4. DOMAIN js \subseteq Int
      BY <1>1, Facts
    <3>5. \A i \in DOMAIN js : i - 0 = i /\ i + 0 = i
      BY <3>4
    <3>6. \A f \in DOMAIN prs : f \in DOMAIN qrs
      BY <1>8 DEF Grows
    <3>7. qs[p].state = ps[p].state
      BY <2>2, <1>11
    <3>8. \A f \in DOMAIN qrs : ByPair(qrs, p, f) => f \in DOMAIN prs
      BY <3>2, <1>10
    <3> QED BY <2>1, <3>1, <3>3, <3>4, <3>5, <3>6, <3>7, <3>8, SameWays
  <2>3. CASE p = Len(ps) + 1
    <3>1. \A f \in DOMAIN prs : ~ByPair(qrs, p, f)
      BY <2>3, <1>10, <1>11, <1>12 DEF ByPair
    <3>2. ByPair(qrs, p, Len(prs) + 1)
      BY <2>3, <1>10 DEF ByPair
    <3>3. \A i \in DOMAIN st : ~ByGetter(qrs, st, p, i)
      BY <2>3, <1>10, <1>11, <1>12 DEF ByGetter
    <3>4. \A i \in DOMAIN js : ~ByJob(js, p, i)
      BY <2>3, <1>11, <1>12 DEF ByJob
    <3>5. qs[p].state = "pending"
      BY <2>3, <1>11 DEF Pending
    <3> QED BY <3>1, <3>2, <3>3, <3>4, <3>5, <1>10 DEF Ways
  <2> QED BY <2>2, <2>3, <1>11
<1>14. ASSUME NEW p \in DOMAIN qs PROVE Ordered(qs[p], js, ds[p], p)
  <2>1. CASE p \in DOMAIN ps
    BY <2>1, <1>11 DEF Good
  <2>2. CASE p = Len(ps) + 1
    <3>1. \A i \in DOMAIN js : ~Of(js, p, i)
      BY <2>2, <1>11, <1>12 DEF Of
    <3>2. Len(<<>>) = 0 /\ DOMAIN <<>> = {}
      OBVIOUS
    <3> QED BY <2>2, <3>1, <3>2, <1>11 DEF Ordered, Pending
  <2> QED BY <2>1, <2>2, <1>11
<1>15. Following(qs, qrs, js, y)
  <2>1. \A f \in DOMAIN prs : prs[f].follows # Plain => prs[f].follows \in DOMAIN ps
    BY <1>1, Targets
  <2>2. \A p \in DOMAIN ps : ps[p].lock # Plain => ps[p].lock \in DOMAIN ps
    BY <1>1, Targets
  <2>3. Following(ps, prs, js, x)
    BY DEF Good
  <2>4. ASSUME NEW f \in DOMAIN qrs PROVE Follower(qs, qrs, js, y, f)
    <3>1. CASE f \in DOMAIN prs
      <4>1. f # y => f # x
        BY <3>1, <1>2
      <4>2. Follower(ps, prs, js, x, f)
        BY <3>1, <2>3 DEF Following
      <4> QED BY <3>1, <4>1, <4>2, <1>10, <1>11, <1>12, <2>1 DEF Follower, Awaited
    <3>2. CASE f = Len(prs) + 1
      BY <3>2, <1>10 DEF Follower
    <3> QED BY <3>1, <3>2, <1>10
  <2>5. \A i \in DOMAIN js : Adopts(qs, js, i)
    BY <2>3, <1>11, <1>12 DEF Following, Adopts
  <2>6. ASSUME NEW p \in DOMAIN qs PROVE Locked(qs, qrs, js, p)
    <3>1. CASE p \in DOMAIN ps
      <4>1. Locked(ps, prs, js, p) /\ qs[p] = ps[p]
        BY <3>1, <2>3, <1>11 DEF Following
      <4>2. CASE ps[p].lock # Plain
        <5>1. qs[ps[p].lock] = ps[ps[p].lock]
          BY <4>2, <3>1, <2>2, <1>11
        <5>2. \A f \in DOMAIN prs : f \in DOMAIN qrs /\ (ByPair(qrs, p, f) <=> ByPair(prs, p, f)) /\ qrs[f] = prs[f]
          BY <1>8, <1>10 DEF ByPair, Grows
        <5> QED BY <4>1, <5>1, <5>2 DEF Locked, Done
      <4>3. CASE ps[p].lock = Plain
        BY <4>1, <4>3 DEF Locked
      <4> QED BY <4>2, <4>3
    <3>2. CASE p = Len(ps) + 1
      BY <3>2, <1>11 DEF Locked, Pending
    <3> QED BY <3>1, <3>2, <1>11
  <2> QED BY <2>4, <2>5, <2>6 DEF Following
<1>16. y \in 0..Len(qrs)
  BY <1>1, <1>2, <1>5 DEF Longer
<1>17. Good(qs, qrs, cbs, js, st, kn, hd, ds, y)
  BY <1>7, <1>9, <1>13, <1>14, <1>15, <1>16 DEF Good
<1> QED BY <1>17 DEF qs, qrs, ds

\* The jobs of a promise that a step leaves alone.
LEMMA SameOrder ==
  ASSUME NEW s, NEW js, NEW c, NEW p, NEW ks, NEW d \in Nat,
         DOMAIN js \subseteq Int, DOMAIN ks \subseteq Int,
         Ordered(s, js, c, p),
         \A i \in DOMAIN js : Of(js, p, i) => i - d \in DOMAIN ks /\ ks[i - d] = js[i],
         \A i \in DOMAIN ks : Of(ks, p, i) => i + d \in DOMAIN js /\ js[i + d] = ks[i]
  PROVE  Ordered(s, ks, c, p)
<1>1. \A i \in DOMAIN ks : Of(ks, p, i) => Of(js, p, i + d)
  BY DEF Of
<1>2. CASE s.state = "pending"
  BY <1>1, <1>2 DEF Ordered
<1>3. CASE s.state # "pending"
  <2>1. \A i \in DOMAIN ks : Of(ks, p, i) =>
          /\ ks[i].rej = (s.state = "rejected") /\ ks[i].arg = s.result
          /\ ks[i].n \in (Len(c) + 1)..s.registered
    BY <1>1, <1>3 DEF Ordered
  <2>2. ASSUME NEW i \in DOMAIN ks, NEW k \in DOMAIN ks, Of(ks, p, i), Of(ks, p, k), i < k
        PROVE  ks[i].n < ks[k].n
    <3>1. i + d < k + d /\ Of(js, p, i + d) /\ Of(js, p, k + d) /\ i + d \in DOMAIN js /\ k + d \in DOMAIN js
      BY <2>2, <1>1
    <3>2. js[i + d].n < js[k + d].n
      BY <3>1, <1>3 DEF Ordered
    <3> QED BY <2>2, <3>2
  <2>3. ASSUME NEW n \in (Len(c) + 1)..s.registered
        PROVE  \E i \in DOMAIN ks : Of(ks, p, i) /\ ks[i].n = n
    <3>1. PICK i \in DOMAIN js : Of(js, p, i) /\ js[i].n = n
      BY <1>3 DEF Ordered
    <3>2. i - d \in DOMAIN ks /\ ks[i - d] = js[i]
      BY <3>1
    <3> QED BY <3>1, <3>2 DEF Of
  <2>4. Len(c) <= s.registered
    BY DEF Ordered
  <2> QED BY <1>3, <2>1, <2>2, <2>3, <2>4 DEF Ordered
<1> QED BY <1>2, <1>3

\* The value of an await that is not an object.
Ready == [Pending EXCEPT !.state = "fulfilled"]

LEMMA MakeReady ==
  ASSUME NEW ps, NEW prs, NEW cbs, NEW js, NEW st, NEW kn, NEW hd, NEW cs, NEW x,
         Good(ps, prs, cbs, js, st, kn, hd, cs, x)
  PROVE  Good(Append(ps, Ready), prs, cbs, js, st, kn, hd, Append(cs, <<>>), x)
<1> DEFINE qs == Append(ps, Ready)
           ds == Append(cs, <<>>)
<1>1. /\ Types(ps, prs, cbs, js, st, kn, hd, cs) /\ Refs(ps, prs, cbs, js, st, hd)
      /\ x \in 0..Len(prs)
  BY DEF Good
<1>2. /\ Len(ps) \in Nat /\ DOMAIN ps = 1..Len(ps) /\ \A p \in DOMAIN ps : ps[p] \in JSPromiseData
      /\ Len(prs) \in Nat /\ DOMAIN prs = 1..Len(prs) /\ \A f \in DOMAIN prs : prs[f] \in PairData
      /\ DOMAIN cs = DOMAIN ps
  BY <1>1, Facts
<1>3. /\ Ready \in JSPromiseData /\ Ready.state = "fulfilled" /\ Ready.result = Plain
      /\ Ready.reactions = <<>> /\ Ready.lock = Plain /\ Ready.registered = 0 /\ Ready.told = "nothing"
  <2>1. <<>> \in Seq(ReactionData)
    BY EmptySeq
  <2>2. /\ Pending \in JSPromiseData /\ Pending.result = Plain
        /\ Pending.reactions = <<>> /\ Pending.lock = Plain /\ Pending.registered = 0 /\ Pending.told = "nothing"
    BY <2>1 DEF Pending, JSPromiseData, Plain
  <2> QED BY <2>2 DEF Ready, JSPromiseData
<1>4. qs \in Seq(JSPromiseData) /\ Longer(ps, qs, Ready)
  BY <1>1, <1>3, AppendIs DEF Types
<1>5. ds \in Seq(Seq(CallData)) /\ Longer(cs, ds, <<>>)
  <2>1. <<>> \in Seq(CallData)
    BY EmptySeq
  <2> QED BY <1>1, <2>1, AppendIs DEF Types
<1> HIDE DEF qs, ds
<1>6. Types(qs, prs, cbs, js, st, kn, hd, ds)
  BY <1>1, <1>2, <1>4, <1>5 DEF Types, Longer
<1>7. Grows(ps, prs, cbs, qs, prs, cbs)
  BY <1>2, <1>4 DEF Grows, Longer
<1>8. /\ \A p \in DOMAIN ps : qs[p] = ps[p] /\ ds[p] = cs[p]
      /\ qs[Len(ps) + 1] = Ready /\ ds[Len(ps) + 1] = <<>>
      /\ Len(ps) + 1 \notin DOMAIN ps
      /\ \A p \in DOMAIN qs : p \in DOMAIN ps \/ p = Len(ps) + 1
  <2>1. Len(cs) = Len(ps)
    BY <1>1 DEF Types
  <2>2. \A p \in DOMAIN ps : qs[p] = ps[p] /\ ds[p] = cs[p]
    BY <1>2, <1>4, <1>5 DEF Longer
  <2>3. qs[Len(ps) + 1] = Ready /\ ds[Len(ps) + 1] = <<>>
    BY <2>1, <1>4, <1>5 DEF Longer
  <2>4. Len(ps) + 1 \notin DOMAIN ps /\ DOMAIN qs = 1..(Len(ps) + 1)
    BY <1>2, <1>4 DEF Longer
  <2> QED BY <2>2, <2>3, <2>4, <1>2
<1>9. Refs(qs, prs, cbs, js, st, hd)
  <2>1. Len(qs) \in Nat
    BY <1>2, <1>4 DEF Longer
  <2>2. /\ Values(ps) \subseteq Values(qs)
        /\ \A p, r : ReactionOk(ps, prs, cbs, p, r) => ReactionOk(qs, prs, cbs, p, r)
        /\ \A g : PairOk(ps, g) /\ g.follows \in Nat => PairOk(qs, g)
        /\ \A j : JobOk(ps, prs, cbs, j) => JobOk(qs, prs, cbs, j)
        /\ \A f : FrameOk(ps, prs, cbs, f) => FrameOk(qs, prs, cbs, f)
    BY <1>2, <1>7, <2>1, GrowsRefs
  <2>3. ASSUME NEW p \in DOMAIN ps PROVE PromiseOk(qs, prs, cbs, p)
    <3>1. PromiseOk(ps, prs, cbs, p) /\ qs[p] = ps[p] /\ ps[p].lock \in Nat
      BY <1>1, <1>2, <1>4 DEF Refs, Longer, JSPromiseData
    <3> QED BY <1>2, <1>4, <2>2, <3>1 DEF PromiseOk, Longer
  <2>4. PromiseOk(qs, prs, cbs, Len(ps) + 1)
    BY <1>2, <1>3, <1>4 DEF PromiseOk, Longer, Values, Plain, Collected
  <2>5. \A f \in DOMAIN prs : PairOk(qs, prs[f])
    BY <1>1, <1>2, <2>2 DEF Refs, PairData
  <2> QED BY <1>1, <1>8, <2>2, <2>3, <2>4, <2>5 DEF Refs
<1>10. /\ \A f \in DOMAIN prs : prs[f].promise \in DOMAIN ps
       /\ \A i \in DOMAIN js : js[i].promise \in DOMAIN ps
       /\ \A i \in DOMAIN st : st[i].call = "getThen" => st[i].of \in DOMAIN prs
  BY <1>1, Targets
<1>11. ASSUME NEW p \in DOMAIN qs PROVE Ways(qs, prs, js, st, p)
  <2>1. CASE p \in DOMAIN ps
    <3>1. Ways(ps, prs, js, st, p) /\ qs[p].state = ps[p].state
      BY <2>1, <1>8 DEF Good
    <3> QED BY <3>1 DEF Ways
  <2>2. CASE p = Len(ps) + 1
    <3>1. \A f \in DOMAIN prs : ~ByPair(prs, p, f)
      BY <2>2, <1>8, <1>10 DEF ByPair
    <3>2. \A i \in DOMAIN st : ~ByGetter(prs, st, p, i)
      BY <2>2, <1>8, <1>10 DEF ByGetter
    <3>3. \A i \in DOMAIN js : ~ByJob(js, p, i)
      BY <2>2, <1>8, <1>10 DEF ByJob
    <3>4. qs[p].state # "pending"
      BY <2>2, <1>3, <1>8
    <3> QED BY <3>1, <3>2, <3>3, <3>4 DEF Ways
  <2> QED BY <2>1, <2>2, <1>8
<1>12. ASSUME NEW p \in DOMAIN qs PROVE Ordered(qs[p], js, ds[p], p)
  <2>1. CASE p \in DOMAIN ps
    BY <2>1, <1>8 DEF Good
  <2>2. CASE p = Len(ps) + 1
    <3>1. \A i \in DOMAIN js : ~Of(js, p, i)
      BY <2>2, <1>8, <1>10 DEF Of
    <3>2. Len(<<>>) = 0 /\ (0 + 1)..0 = {}
      OBVIOUS
    <3>3. qs[p] = Ready /\ ds[p] = <<>>
      BY <2>2, <1>8
    <3> QED BY <3>1, <3>2, <3>3, <1>3 DEF Ordered
  <2> QED BY <2>1, <2>2, <1>8
<1>13. Following(qs, prs, js, x)
  <2>1. \A f \in DOMAIN prs : prs[f].follows # Plain => prs[f].follows \in DOMAIN ps
    BY <1>1, Targets
  <2>2. \A p \in DOMAIN ps : ps[p].lock # Plain => ps[p].lock \in DOMAIN ps
    BY <1>1, Targets
  <2>3. Following(ps, prs, js, x)
    BY DEF Good
  <2>4. ASSUME NEW f \in DOMAIN prs PROVE Follower(qs, prs, js, x, f)
    <3>1. Follower(ps, prs, js, x, f)
      BY <2>3 DEF Following
    <3> QED BY <3>1, <1>8, <1>10, <2>1 DEF Follower, Awaited
  <2>5. \A i \in DOMAIN js : Adopts(qs, js, i)
    BY <2>3, <1>8, <1>10 DEF Following, Adopts
  <2>6. ASSUME NEW p \in DOMAIN qs PROVE Locked(qs, prs, js, p)
    <3>1. CASE p \in DOMAIN ps
      <4>1. Locked(ps, prs, js, p) /\ qs[p] = ps[p]
        BY <3>1, <2>3, <1>8 DEF Following
      <4>2. CASE ps[p].lock # Plain
        <5>1. qs[ps[p].lock] = ps[ps[p].lock]
          BY <4>2, <3>1, <2>2, <1>8
        <5> QED BY <4>1, <5>1 DEF Locked, Done
      <4>3. CASE ps[p].lock = Plain
        BY <4>1, <4>3 DEF Locked
      <4> QED BY <4>2, <4>3
    <3>2. CASE p = Len(ps) + 1
      BY <3>2, <1>3, <1>8 DEF Locked
    <3> QED BY <3>1, <3>2, <1>8
  <2> QED BY <2>4, <2>5, <2>6 DEF Following
<1>14. Good(qs, prs, cbs, js, st, kn, hd, ds, x)
  BY <1>1, <1>6, <1>9, <1>11, <1>12, <1>13 DEF Good
<1> QED BY <1>14 DEF qs, ds

\* What becomes of the pair in hand when the handlers g and h are registered on p.
Takes(prs, p, g, h, x, y) ==
  \/ y = x /\ g.fn # "asyncResolve"
  \/ /\ y = 0 /\ x \in DOMAIN prs /\ prs[x].follows = p /\ ~prs[x].async
     /\ g = Fn("resolve", x, 0) /\ h = Fn("reject", x, 0)
  \/ /\ y = 0 /\ x \in DOMAIN prs /\ prs[x].follows = Plain /\ prs[x].async
     /\ g = Resume(x) /\ h = ResumeThrow(x)

LEMMA HandlersHandle ==
  ASSUME NEW ps, NEW prs, NEW cbs, NEW q, NEW g, NEW h, NEW rej \in BOOLEAN,
         Handlers(ps, prs, cbs, q, g, h)
  PROVE  Handler(ps, prs, cbs, q, rej, IF rej THEN h ELSE g)
<1>1. CASE Code(ps, g) /\ Code(ps, h)
  BY <1>1 DEF Handler
<1>2. CASE \E f \in DOMAIN prs : prs[f].async /\ g = Resume(f) /\ h = ResumeThrow(f)
  BY <1>2 DEF Handler
<1>3. CASE \E f \in DOMAIN prs : prs[f].follows = q /\ g = Fn("resolve", f, 0) /\ h = Fn("reject", f, 0)
  BY <1>3 DEF Handler
<1>4. CASE \E c \in DOMAIN cbs : \E i \in Native(cbs, c) : g = Ful(cbs, c, i) /\ h = Rej(cbs, c, i)
  BY <1>4 DEF Handler
<1> QED BY <1>1, <1>2, <1>3, <1>4 DEF Handlers

\* perform_promise_then on a pending promise ...
LEMMA RegisterWaits ==
  ASSUME NEW ps, NEW prs, NEW cbs, NEW js, NEW st, NEW kn, NEW hd, NEW cs, NEW x,
         Good(ps, prs, cbs, js, st, kn, hd, cs, x),
         NEW p \in DOMAIN ps, ps[p].state = "pending",
         NEW cap \in Nat, NEW g \in Callables, NEW h \in Callables,
         Capability(prs, cap), Handlers(ps, prs, cbs, p, g, h),
         NEW y, Takes(prs, p, g, h, x, y)
  PROVE  Good([ps EXCEPT ![p] = Waiting(ps[p], Reaction(ps[p], cap, g, h))],
              prs, cbs, js, st, kn, hd, cs, y)
<1> DEFINE s == ps[p]
           r == Reaction(s, cap, g, h)
           t == Waiting(s, r)
           qs == [ps EXCEPT ![p] = t]
<1>1. /\ Types(ps, prs, cbs, js, st, kn, hd, cs) /\ Refs(ps, prs, cbs, js, st, hd)
      /\ x \in 0..Len(prs)
  BY DEF Good
<1>2. /\ Len(ps) \in Nat /\ DOMAIN ps = 1..Len(ps) /\ s \in JSPromiseData
      /\ Len(prs) \in Nat /\ DOMAIN prs = 1..Len(prs)
      /\ s.reactions \in Seq(ReactionData) /\ s.registered \in Nat
  BY <1>1, Facts DEF JSPromiseData
<1>3. r \in ReactionData /\ r.cap = cap /\ r.onFul = g /\ r.onRej = h /\ r.n = s.registered + 1
  BY <1>2, ReactionIs
<1>4. /\ t \in JSPromiseData /\ t.state = s.state /\ t.result = s.result
      /\ t.reactions = Append(s.reactions, r) /\ t.handled = TRUE /\ t.lock = s.lock
      /\ t.registered = s.registered + 1 /\ t.told = s.told
  BY <1>2, <1>3, WaitingIs
<1>5. Longer(s.reactions, t.reactions, r) /\ Len(s.reactions) \in Nat /\ DOMAIN s.reactions = 1..Len(s.reactions)
  BY <1>2, <1>3, <1>4, AppendIs, Domain
<1>6. qs \in Seq(JSPromiseData) /\ Changed(ps, qs, p, t)
  BY <1>1, <1>4, ExceptIs DEF Types
<1> HIDE DEF qs, t, r, s
<1>7. /\ DOMAIN qs = DOMAIN ps /\ Len(qs) = Len(ps) /\ qs[p] = t /\ ps[p] = s
      /\ \A q \in DOMAIN ps : q # p => qs[q] = ps[q]
  BY <1>6 DEF Changed, s
<1>8. \A q \in DOMAIN ps : /\ qs[q].state = ps[q].state /\ qs[q].result = ps[q].result
                           /\ qs[q].lock = ps[q].lock
  BY <1>4, <1>7
<1>9. Types(qs, prs, cbs, js, st, kn, hd, cs)
  BY <1>1, <1>6, <1>7 DEF Types
<1>10. \A i \in DOMAIN t.reactions :
         \/ i \in DOMAIN s.reactions /\ t.reactions[i] = s.reactions[i]
         \/ i = Len(s.reactions) + 1 /\ t.reactions[i] = r
  BY <1>5 DEF Longer
<1>11. Refs(qs, prs, cbs, js, st, hd)
  <2>1. Grows(ps, prs, cbs, qs, prs, cbs)
    BY <1>2, <1>7 DEF Grows
  <2>2. /\ Values(ps) \subseteq Values(qs)
        /\ \A a : Capability(prs, a) => Capability(prs, a)
        /\ \A q, a, b : Handlers(ps, prs, cbs, q, a, b) => Handlers(qs, prs, cbs, q, a, b)
        /\ \A q, a : ReactionOk(ps, prs, cbs, q, a) => ReactionOk(qs, prs, cbs, q, a)
        /\ \A a : PairOk(ps, a) /\ a.follows \in Nat => PairOk(qs, a)
        /\ \A j : JobOk(ps, prs, cbs, j) => JobOk(qs, prs, cbs, j)
        /\ \A a : FrameOk(ps, prs, cbs, a) => FrameOk(qs, prs, cbs, a)
    BY <1>2, <1>7, <2>1, GrowsRefs
  <2>3. ASSUME NEW q \in DOMAIN ps, q # p PROVE PromiseOk(qs, prs, cbs, q)
    <3>1. PromiseOk(ps, prs, cbs, q) /\ qs[q] = ps[q]
      BY <2>3, <1>1, <1>7 DEF Refs
    <3> QED BY <1>7, <2>2, <3>1 DEF PromiseOk
  <2>4. PromiseOk(qs, prs, cbs, p)
    <3>1. PromiseOk(ps, prs, cbs, p) /\ s.state = "pending"
      BY <1>1, <1>7 DEF Refs
    <3>2. ReactionOk(qs, prs, cbs, p, r)
      BY <1>3, <2>2 DEF ReactionOk
    <3>3. \A i \in DOMAIN t.reactions : ReactionOk(qs, prs, cbs, p, t.reactions[i])
      BY <1>7, <1>10, <2>2, <3>1, <3>2 DEF PromiseOk
    <3> QED BY <1>4, <1>7, <2>2, <3>1, <3>3 DEF PromiseOk
  <2>5. \A f \in DOMAIN prs : PairOk(qs, prs[f])
    BY <1>1, <1>7 DEF Refs, PairOk
  <2> QED BY <1>1, <1>7, <2>2, <2>3, <2>4, <2>5 DEF Refs
<1>12. ASSUME NEW q \in DOMAIN qs PROVE Ways(qs, prs, js, st, q)
  <2>1. Ways(ps, prs, js, st, q) /\ qs[q].state = ps[q].state
    BY <1>7, <1>8 DEF Good
  <2> QED BY <2>1 DEF Ways
<1>13. ASSUME NEW q \in DOMAIN qs PROVE Ordered(qs[q], js, cs[q], q)
  <2>1. Ordered(ps[q], js, cs[q], q)
    BY <1>7 DEF Good
  <2>2. CASE q # p
    BY <2>1, <2>2, <1>7
  <2>3. CASE q = p
    <3>1. Ordered(s, js, cs[p], p) /\ s.state = "pending"
      BY <2>1, <2>3, <1>7
    <3>2. Len(t.reactions) = Len(s.reactions) + 1 /\ Len(s.reactions) = s.registered /\ cs[p] = <<>>
      BY <3>1, <1>5 DEF Ordered, Longer
    <3>3. \A i \in DOMAIN t.reactions : t.reactions[i].n = i
      BY <3>1, <3>2, <1>3, <1>10 DEF Ordered
    <3>4. Len(cs[p]) <= t.registered
      BY <3>1, <3>2, <1>2, <1>4 DEF Ordered
    <3> QED BY <2>3, <3>1, <3>2, <3>3, <3>4, <1>4, <1>7 DEF Ordered
  <2> QED BY <2>2, <2>3
<1>14. Following(qs, prs, js, y)
  <2>1. Following(ps, prs, js, x)
    BY DEF Good
  <2>2. ASSUME NEW f, NEW q \in DOMAIN ps, Awaited(ps, js, f, q) PROVE Awaited(qs, js, f, q)
    <3>1. CASE \E i \in DOMAIN ps[q].reactions : ps[q].reactions[i].onFul = Fn("resolve", f, 0)
      <4>1. PICK i \in DOMAIN ps[q].reactions : ps[q].reactions[i].onFul = Fn("resolve", f, 0)
        BY <3>1
      <4>2. i \in DOMAIN qs[q].reactions /\ qs[q].reactions[i] = ps[q].reactions[i]
        <5>1. CASE q = p
          BY <4>1, <5>1, <1>5, <1>7 DEF Longer
        <5>2. CASE q # p
          BY <4>1, <5>2, <1>7
        <5> QED BY <5>1, <5>2
      <4> QED BY <4>1, <4>2 DEF Awaited
    <3>2. CASE \E i \in DOMAIN js : Of(js, q, i) /\ js[i].handler \in Resolving(f)
      BY <3>2 DEF Awaited
    <3> QED BY <2>2, <3>1, <3>2 DEF Awaited
  <2>3. ASSUME NEW f \in DOMAIN prs PROVE Follower(qs, prs, js, y, f)
    <3>1. Follower(ps, prs, js, x, f)
      BY <2>1 DEF Following
    <3>2. SUFFICES ASSUME ~prs[f].resolved, prs[f].follows # Plain
                   PROVE  /\ qs[prs[f].promise].lock = prs[f].follows
                          /\ f # y => Awaited(qs, js, f, prs[f].follows)
      BY DEF Follower
    <3>3. prs[f].promise \in DOMAIN ps /\ prs[f].follows \in DOMAIN ps
      BY <3>2, <1>1, Targets
    <3>4. qs[prs[f].promise].lock = prs[f].follows
      BY <3>1, <3>2, <3>3, <1>8 DEF Follower
    <3>5. CASE f # x
      BY <3>1, <3>2, <3>3, <3>4, <3>5, <2>2 DEF Follower
    <3>6. CASE f = x /\ y # x
      <4>1. prs[f].follows = p /\ g = Fn("resolve", f, 0)
        BY <3>2, <3>6 DEF Takes
      <4>2. Len(s.reactions) + 1 \in DOMAIN t.reactions /\ t.reactions[Len(s.reactions) + 1] = r
        BY <1>5 DEF Longer
      <4> QED BY <3>4, <4>1, <4>2, <1>3, <1>7 DEF Awaited
    <3> QED BY <3>4, <3>5, <3>6
  <2>4. \A i \in DOMAIN js : Adopts(qs, js, i)
    BY <2>1, <1>1, <1>8 DEF Following, Adopts, Refs, JobOk
  <2>5. ASSUME NEW q \in DOMAIN qs PROVE Locked(qs, prs, js, q)
    <3>1. Locked(ps, prs, js, q) /\ qs[q].lock = ps[q].lock /\ qs[q].state = ps[q].state /\ qs[q].result = ps[q].result
      BY <2>1, <1>7, <1>8 DEF Following
    <3>2. CASE ps[q].lock # Plain
      <4>1. ps[q].lock \in DOMAIN ps
        BY <3>2, <1>1, <1>7, Targets
      <4> QED BY <3>1, <4>1, <1>8 DEF Locked, Done
    <3>3. CASE ps[q].lock = Plain
      BY <3>1, <3>3 DEF Locked
    <3> QED BY <3>2, <3>3
  <2> QED BY <2>3, <2>4, <2>5 DEF Following
<1>15. y \in 0..Len(prs)
  BY <1>1, <1>2 DEF Takes
<1>16. Good(qs, prs, cbs, js, st, kn, hd, cs, y)
  BY <1>9, <1>11, <1>12, <1>13, <1>14, <1>15 DEF Good
<1> QED BY <1>16 DEF qs, t, r, s

\* ... and on a settled one.
LEMMA RegisterQueues ==
  ASSUME NEW ps, NEW prs, NEW cbs, NEW js, NEW st, NEW kn, NEW hd, NEW cs, NEW x,
         Good(ps, prs, cbs, js, st, kn, hd, cs, x),
         NEW p \in DOMAIN ps, ps[p].state # "pending",
         NEW cap \in Nat, NEW g \in Callables, NEW h \in Callables,
         Capability(prs, cap), Handlers(ps, prs, cbs, p, g, h),
         NEW y, Takes(prs, p, g, h, x, y)
  PROVE  Good([ps EXCEPT ![p] = Handled(ps[p])], prs, cbs,
              Append(js, ReactionJob(p, Reaction(ps[p], cap, g, h), ps[p].state = "rejected", ps[p].result)),
              st, kn, hd, cs, y)
<1> DEFINE s == ps[p]
           r == Reaction(s, cap, g, h)
           t == Handled(s)
           qs == [ps EXCEPT ![p] = t]
           j == ReactionJob(p, r, s.state = "rejected", s.result)
           ks == Append(js, j)
<1>1. /\ Types(ps, prs, cbs, js, st, kn, hd, cs) /\ Refs(ps, prs, cbs, js, st, hd)
      /\ x \in 0..Len(prs)
  BY DEF Good
<1>2. /\ Len(ps) \in Nat /\ DOMAIN ps = 1..Len(ps) /\ s \in JSPromiseData /\ p \in Nat
      /\ Len(prs) \in Nat /\ DOMAIN prs = 1..Len(prs)
      /\ Len(js) \in Nat /\ DOMAIN js = 1..Len(js)
      /\ s.registered \in Nat /\ s.result \in Int /\ cs[p] \in Seq(CallData)
  BY <1>1, Facts DEF JSPromiseData
<1>3. r \in ReactionData /\ r.cap = cap /\ r.onFul = g /\ r.onRej = h /\ r.n = s.registered + 1
  BY <1>2, ReactionIs
<1>4. /\ t \in JSPromiseData /\ t.state = s.state /\ t.result = s.result
      /\ t.reactions = s.reactions /\ t.handled = TRUE /\ t.lock = s.lock
      /\ t.registered = s.registered + 1
      /\ t.told = IF s.state = "rejected" /\ ~s.handled THEN "handled" ELSE s.told
  BY <1>2, HandledIs
<1> DEFINE rej == s.state = "rejected"
<1>5. /\ j \in JobData /\ j.job = "reaction" /\ j.promise = p /\ j.cap = cap /\ j.n = s.registered + 1
      /\ j.handler = (IF rej THEN h ELSE g) /\ j.rej = rej /\ j.arg = s.result
  <2>1. rej \in BOOLEAN
    OBVIOUS
  <2>2. j = ReactionJob(p, r, rej, s.result)
    OBVIOUS
  <2> HIDE DEF r, rej, s, j
  <2> QED BY <1>2, <1>3, <2>1, <2>2, ReactionJobIs
<1>6. qs \in Seq(JSPromiseData) /\ Changed(ps, qs, p, t)
  BY <1>1, <1>4, ExceptIs DEF Types
<1>7. ks \in Seq(JobData) /\ Longer(js, ks, j)
  BY <1>1, <1>5, AppendIs DEF Types
<1>8. rej <=> s.state = "rejected"
  OBVIOUS
<1>9. s.state # "pending"
  OBVIOUS
<1> HIDE DEF qs, t, r, s, j, ks, rej
<1>10. /\ DOMAIN qs = DOMAIN ps /\ Len(qs) = Len(ps) /\ qs[p] = t /\ ps[p] = s
       /\ \A q \in DOMAIN ps : q # p => qs[q] = ps[q]
  BY <1>6 DEF Changed, s
<1>11. \A q \in DOMAIN ps : /\ qs[q].state = ps[q].state /\ qs[q].result = ps[q].result
                            /\ qs[q].lock = ps[q].lock /\ qs[q].reactions = ps[q].reactions
  BY <1>4, <1>10
<1>12. /\ \A i \in DOMAIN js : i \in DOMAIN ks /\ ks[i] = js[i]
       /\ Len(js) + 1 \in DOMAIN ks /\ ks[Len(js) + 1] = j
       /\ \A i \in DOMAIN ks : i \in DOMAIN js \/ i = Len(js) + 1
       /\ DOMAIN js \subseteq Int /\ DOMAIN ks \subseteq Int
       /\ \A i \in DOMAIN ks : i + 0 = i /\ i - 0 = i
  BY <1>2, <1>7 DEF Longer
<1>13. Types(qs, prs, cbs, ks, st, kn, hd, cs)
  BY <1>1, <1>6, <1>7, <1>10 DEF Types
<1>14. Refs(qs, prs, cbs, ks, st, hd)
  <2>1. Grows(ps, prs, cbs, qs, prs, cbs)
    BY <1>2, <1>10 DEF Grows
  <2>2. /\ Values(ps) \subseteq Values(qs)
        /\ \A q, a : ReactionOk(ps, prs, cbs, q, a) => ReactionOk(qs, prs, cbs, q, a)
        /\ \A i : JobOk(ps, prs, cbs, i) => JobOk(qs, prs, cbs, i)
        /\ \A a : FrameOk(ps, prs, cbs, a) => FrameOk(qs, prs, cbs, a)
    BY <1>2, <1>10, <2>1, GrowsRefs
  <2>3. ASSUME NEW q \in DOMAIN ps, q # p PROVE PromiseOk(qs, prs, cbs, q)
    <3>1. PromiseOk(ps, prs, cbs, q) /\ qs[q] = ps[q]
      BY <2>3, <1>1, <1>10 DEF Refs
    <3> QED BY <1>10, <2>2, <3>1 DEF PromiseOk
  <2>4. PromiseOk(ps, prs, cbs, p)
    BY <1>1 DEF Refs
  <2>5. PromiseOk(qs, prs, cbs, p)
    BY <1>4, <1>9, <1>10, <2>2, <2>4 DEF PromiseOk
  <2>6. JobOk(ps, prs, cbs, j)
    <3>1. rej \in BOOLEAN
      BY DEF rej
    <3>2. Handler(ps, prs, cbs, p, rej, j.handler)
      BY <1>5, <3>1, HandlersHandle
    <3> QED BY <1>5, <1>10, <2>4, <3>2 DEF JobOk, PromiseOk
  <2>7. \A f \in DOMAIN prs : PairOk(qs, prs[f])
    BY <1>1, <1>10 DEF Refs, PairOk
  <2>8. \A i \in DOMAIN ks : JobOk(qs, prs, cbs, ks[i])
    BY <1>1, <1>12, <2>2, <2>6 DEF Refs
  <2> QED BY <1>1, <1>10, <2>2, <2>3, <2>5, <2>7, <2>8 DEF Refs
<1>15. ASSUME NEW q \in DOMAIN qs PROVE Ways(qs, prs, ks, st, q)
  <2>1. Ways(ps, prs, js, st, q) /\ qs[q].state = ps[q].state
    BY <1>10, <1>11 DEF Good
  <2>2. /\ \A i \in DOMAIN js : ByJob(js, q, i) => i - 0 \in DOMAIN ks /\ ByJob(ks, q, i - 0)
        /\ \A i \in DOMAIN ks : ByJob(ks, q, i) => i + 0 \in DOMAIN js /\ ByJob(js, q, i + 0)
    BY <1>5, <1>12 DEF ByJob
  <2> QED BY <2>1, <2>2, <1>12, SameWays
<1>16. ASSUME NEW q \in DOMAIN qs PROVE Ordered(qs[q], ks, cs[q], q)
  <2>1. Ordered(ps[q], js, cs[q], q)
    BY <1>10 DEF Good
  <2>2. CASE q # p
    <3>1. /\ \A i \in DOMAIN js : Of(js, q, i) => i - 0 \in DOMAIN ks /\ ks[i - 0] = js[i]
          /\ \A i \in DOMAIN ks : Of(ks, q, i) => i + 0 \in DOMAIN js /\ js[i + 0] = ks[i]
      BY <2>2, <1>5, <1>12 DEF Of
    <3>2. Ordered(ps[q], ks, cs[q], q)
      BY <2>1, <3>1, <1>12, SameOrder
    <3> QED BY <2>2, <3>2, <1>10
  <2>3. CASE q = p
    <3>1. Ordered(s, js, cs[p], p)
      BY <2>1, <2>3, <1>10
    <3>2. Len(cs[p]) \in Nat /\ Len(cs[p]) <= s.registered
      BY <3>1, <1>2, Domain DEF Ordered
    <3>3. \A i \in DOMAIN js : Of(js, p, i) =>
            js[i].rej = (s.state = "rejected") /\ js[i].arg = s.result /\ js[i].n \in (Len(cs[p]) + 1)..s.registered
      BY <3>1, <1>9 DEF Ordered
    <3>4. \A i \in DOMAIN ks : Of(ks, p, i) =>
            /\ ks[i].rej = (t.state = "rejected") /\ ks[i].arg = t.result
            /\ ks[i].n \in (Len(cs[p]) + 1)..t.registered
      <4> SUFFICES ASSUME NEW i \in DOMAIN ks, Of(ks, p, i)
                   PROVE  /\ ks[i].rej = (t.state = "rejected") /\ ks[i].arg = t.result
                          /\ ks[i].n \in (Len(cs[p]) + 1)..t.registered
        OBVIOUS
      <4>1. CASE i \in DOMAIN js
        <5>1. ks[i] = js[i] /\ Of(js, p, i)
          BY <4>1, <1>12 DEF Of
        <5> QED BY <4>1, <5>1, <3>2, <3>3, <1>2, <1>4
      <4>2. CASE i = Len(js) + 1
        <5>1. ks[i] = j
          BY <4>2, <1>12
        <5> QED BY <5>1, <3>2, <1>2, <1>4, <1>5 DEF rej
      <4> QED BY <4>1, <4>2, <1>12
    <3>5. ASSUME NEW i \in DOMAIN ks, NEW k \in DOMAIN ks, Of(ks, p, i), Of(ks, p, k), i < k
          PROVE  ks[i].n < ks[k].n
      <4>1. i \in DOMAIN js /\ ks[i] = js[i]
        BY <3>5, <1>2, <1>7, <1>12 DEF Longer
      <4>2. Of(js, p, i)
        BY <3>5, <4>1 DEF Of
      <4>3. CASE k \in DOMAIN js
        BY <3>1, <3>5, <4>1, <4>2, <4>3, <1>9, <1>12 DEF Ordered, Of
      <4>4. CASE k = Len(js) + 1
        <5>1. ks[k].n = s.registered + 1
          BY <4>4, <1>5, <1>12
        <5> QED BY <4>1, <4>2, <5>1, <3>2, <3>3, <1>2
      <4> QED BY <4>3, <4>4, <1>12
    <3>6. ASSUME NEW n \in (Len(cs[p]) + 1)..t.registered PROVE \E i \in DOMAIN ks : Of(ks, p, i) /\ ks[i].n = n
      <4>1. CASE n = s.registered + 1
        BY <4>1, <1>5, <1>12 DEF Of
      <4>2. CASE n # s.registered + 1
        <5>1. n \in (Len(cs[p]) + 1)..s.registered
          BY <4>2, <3>2, <1>2, <1>4
        <5>2. PICK i \in DOMAIN js : Of(js, p, i) /\ js[i].n = n
          BY <5>1, <3>1, <1>9 DEF Ordered
        <5> QED BY <5>2, <1>12 DEF Of
      <4> QED BY <4>1, <4>2
    <3>7. Len(cs[p]) <= t.registered
      BY <3>2, <1>2, <1>4
    <3> QED BY <2>3, <3>4, <3>5, <3>6, <3>7, <1>4, <1>9, <1>10 DEF Ordered
  <2> QED BY <2>2, <2>3
<1>17. Following(qs, prs, ks, y)
  <2>1. Following(ps, prs, js, x)
    BY DEF Good
  <2>2. ASSUME NEW f, NEW q \in DOMAIN ps, Awaited(ps, js, f, q) PROVE Awaited(qs, ks, f, q)
    BY <2>2, <1>11, <1>12 DEF Awaited, Of
  <2>3. ASSUME NEW f \in DOMAIN prs PROVE Follower(qs, prs, ks, y, f)
    <3>1. Follower(ps, prs, js, x, f)
      BY <2>1 DEF Following
    <3>2. SUFFICES ASSUME ~prs[f].resolved, prs[f].follows # Plain
                   PROVE  /\ qs[prs[f].promise].lock = prs[f].follows
                          /\ f # y => Awaited(qs, ks, f, prs[f].follows)
      BY DEF Follower
    <3>3. prs[f].promise \in DOMAIN ps /\ prs[f].follows \in DOMAIN ps
      BY <3>2, <1>1, Targets
    <3>4. qs[prs[f].promise].lock = prs[f].follows
      BY <3>1, <3>2, <3>3, <1>11 DEF Follower
    <3>5. CASE f # x
      BY <3>1, <3>2, <3>3, <3>4, <3>5, <2>2 DEF Follower
    <3>6. CASE f = x /\ y # x
      <4>1. prs[f].follows = p /\ g = Fn("resolve", f, 0) /\ h = Fn("reject", f, 0)
        BY <3>2, <3>6 DEF Takes
      <4>2. Of(ks, p, Len(js) + 1) /\ ks[Len(js) + 1].handler \in Resolving(f)
        BY <4>1, <1>5, <1>12 DEF Of, Resolving
      <4> QED BY <3>4, <4>1, <4>2, <1>12 DEF Awaited
    <3> QED BY <3>4, <3>5, <3>6
  <2>4. \A i \in DOMAIN ks : Adopts(qs, ks, i)
    BY <2>1, <1>1, <1>5, <1>11, <1>12 DEF Following, Adopts, Refs, JobOk
  <2>5. ASSUME NEW q \in DOMAIN qs PROVE Locked(qs, prs, ks, q)
    <3>1. Locked(ps, prs, js, q) /\ qs[q].lock = ps[q].lock /\ qs[q].state = ps[q].state /\ qs[q].result = ps[q].result
      BY <2>1, <1>10, <1>11 DEF Following
    <3>2. CASE ps[q].lock # Plain
      <4>1. ps[q].lock \in DOMAIN ps
        BY <3>2, <1>1, <1>10, Targets
      <4>2. \A i \in DOMAIN js : ByJob(js, q, i) => i \in DOMAIN ks /\ ByJob(ks, q, i) /\ ks[i] = js[i]
        BY <1>12 DEF ByJob
      <4> QED BY <3>1, <4>1, <4>2, <1>11 DEF Locked, Done
    <3>3. CASE ps[q].lock = Plain
      BY <3>1, <3>3 DEF Locked
    <3> QED BY <3>2, <3>3
  <2> QED BY <2>3, <2>4, <2>5 DEF Following
<1>18. y \in 0..Len(prs)
  BY <1>1, <1>2 DEF Takes
<1>19. Good(qs, prs, cbs, ks, st, kn, hd, cs, y)
  BY <1>13, <1>14, <1>15, <1>16, <1>17, <1>18 DEF Good
<1> QED BY <1>19 DEF qs, t, r, s, j, ks, rej

\* What a handler is, by its function.
LEMMA HandlerCases ==
  ASSUME NEW ps, NEW prs, NEW cbs, NEW q, NEW rej, NEW h, Handler(ps, prs, cbs, q, rej, h),
         \A c \in DOMAIN cbs : Public(prs, cbs[c].cap) /\ cbs[c].type \in CombinatorTypes
  PROVE  /\ h.fn \in Simple => h.at \in Values(ps)
         /\ h.fn \in {"asyncResolve", "asyncReject"} =>
              h.of \in DOMAIN prs /\ prs[h.of].async /\ h = IF rej THEN ResumeThrow(h.of) ELSE Resume(h.of)
         /\ h.fn \in {"resolve", "reject"} =>
              h.of \in DOMAIN prs /\ (Public(prs, h.of) \/ (prs[h.of].follows = q /\ (h.fn = "reject" <=> rej)))
         /\ h.fn \in {"element", "rejectElement"} =>
              /\ h.of \in DOMAIN cbs /\ h.at \in Native(cbs, h.of) /\ cbs[h.of].type # "race"
              /\ h.fn = "rejectElement" => cbs[h.of].type = "allSettled"
<1>1. CASE Code(ps, h)
  BY <1>1 DEF Code, Simple
<1>2. CASE \E f \in DOMAIN prs : prs[f].async /\ h = IF rej THEN ResumeThrow(f) ELSE Resume(f)
  <2>1. PICK f \in DOMAIN prs : prs[f].async /\ h = IF rej THEN ResumeThrow(f) ELSE Resume(f)
    BY <1>2
  <2> QED BY <2>1 DEF Resume, ResumeThrow, Fn, Simple
<1>3. CASE \E f \in DOMAIN prs : prs[f].follows = q /\ h = Fn(IF rej THEN "reject" ELSE "resolve", f, 0)
  <2>1. PICK f \in DOMAIN prs : prs[f].follows = q /\ h = Fn(IF rej THEN "reject" ELSE "resolve", f, 0)
    BY <1>3
  <2> QED BY <2>1 DEF Fn, Simple
<1>4. CASE \E c \in DOMAIN cbs : \E i \in Native(cbs, c) : h = IF rej THEN Rej(cbs, c, i) ELSE Ful(cbs, c, i)
  <2>1. PICK c \in DOMAIN cbs : \E i \in Native(cbs, c) : h = IF rej THEN Rej(cbs, c, i) ELSE Ful(cbs, c, i)
    BY <1>4
  <2>2. PICK i \in Native(cbs, c) : h = IF rej THEN Rej(cbs, c, i) ELSE Ful(cbs, c, i)
    BY <2>1
  <2>3. Public(prs, cbs[c].cap) /\ cbs[c].cap \in DOMAIN prs /\ cbs[c].type \in {"all", "allSettled", "any", "race"}
    BY DEF Public, CombinatorTypes
  <2>4. CASE rej
    <3>1. CASE cbs[c].type \in {"all", "race"}
      <4>1. h = Fn("reject", cbs[c].cap, 0)
        BY <2>2, <2>4, <3>1 DEF Rej
      <4> QED BY <4>1, <2>3 DEF Fn, Simple
    <3>2. CASE cbs[c].type = "allSettled"
      <4>1. h = Fn("rejectElement", c, i)
        BY <2>2, <2>4, <3>2 DEF Rej
      <4> QED BY <4>1, <2>2, <3>2 DEF Fn, Simple
    <3>3. CASE cbs[c].type = "any"
      <4>1. h = Fn("element", c, i)
        BY <2>2, <2>4, <3>3 DEF Rej
      <4> QED BY <4>1, <2>2, <3>3 DEF Fn, Simple
    <3> QED BY <2>3, <3>1, <3>2, <3>3
  <2>5. CASE ~rej
    <3>1. CASE cbs[c].type \in {"any", "race"}
      <4>1. h = Fn("resolve", cbs[c].cap, 0)
        BY <2>2, <2>5, <3>1 DEF Ful
      <4> QED BY <4>1, <2>3 DEF Fn, Simple
    <3>2. CASE cbs[c].type \notin {"any", "race"}
      <4>1. h = Fn("element", c, i)
        BY <2>2, <2>5, <3>2 DEF Ful
      <4> QED BY <4>1, <2>2, <3>2 DEF Fn, Simple
    <3> QED BY <3>1, <3>2
  <2> QED BY <2>4, <2>5
<1> QED BY <1>1, <1>2, <1>3, <1>4 DEF Handler

\* The pair that the handler of a job puts in hand.
Hand(prs, h) ==
  IF \/ h.fn \in {"asyncResolve", "asyncReject"}
     \/ h.fn \in {"resolve", "reject"} /\ h.of \in DOMAIN prs /\ prs[h.of].follows # Plain
  THEN h.of ELSE 0

Entry(j) == [n |-> j.n, with |-> [rej |-> j.rej, value |-> j.arg]]

\* JS_ExecutePendingJob takes a job of promise_reaction_job.
LEMMA TakeReaction ==
  ASSUME NEW ps, NEW prs, NEW cbs, NEW js, NEW st, NEW kn, NEW hd, NEW cs,
         Good(ps, prs, cbs, js, st, kn, hd, cs, 0),
         js # <<>>, Head(js).job = "reaction"
  PROVE  LET j == Head(js) IN
         /\ Good(ps, prs, cbs, Tail(js), st, kn, hd,
                 [cs EXCEPT ![j.promise] = Append(cs[j.promise], Entry(j))], Hand(prs, j.handler))
         /\ j.promise \in DOMAIN ps /\ j \in ReactionJobs /\ JobOk(ps, prs, cbs, j)
         /\ ps[j.promise].state = (IF j.rej THEN "rejected" ELSE "fulfilled")
         /\ ps[j.promise].result = j.arg
         /\ j.n = Len(cs[j.promise]) + 1 /\ j.n <= ps[j.promise].registered
<1> DEFINE j == Head(js)
           p == j.promise
           ks == Tail(js)
           c == Append(cs[p], Entry(j))
           ds == [cs EXCEPT ![p] = c]
           y == Hand(prs, j.handler)
<1>1. Types(ps, prs, cbs, js, st, kn, hd, cs) /\ Refs(ps, prs, cbs, js, st, hd)
  BY DEF Good
<1>2. /\ Len(js) \in Nat /\ DOMAIN js = 1..Len(js) /\ \A i \in DOMAIN js : js[i] \in JobData
      /\ DOMAIN cs = DOMAIN ps /\ \A q \in DOMAIN ps : cs[q] \in Seq(CallData) /\ ps[q] \in JSPromiseData
      /\ DOMAIN prs = 1..Len(prs) /\ Len(prs) \in Nat
      /\ \A a \in DOMAIN cbs : cbs[a] \in ComboData
  BY <1>1, Facts
<1>3. ks \in Seq(JobData) /\ Shorter(js, ks) /\ j = js[1] /\ 1 \in DOMAIN js
  BY <1>1, TailIs DEF Types
<1>4. j \in ReactionJobs /\ j.job = "reaction" /\ j.n \in Nat /\ j.rej \in BOOLEAN /\ j.arg \in Int
  <2>1. j \in ReactionJobs
    BY <1>2, <1>3 DEF JobData, ThenableJobs
  <2> QED BY <2>1 DEF ReactionJobs
<1>5. p \in DOMAIN ps /\ JobOk(ps, prs, cbs, j) /\ Handler(ps, prs, cbs, p, j.rej, j.handler)
  BY <1>1, <1>3, <1>4 DEF Refs, JobOk
<1>6. Ordered(ps[p], js, cs[p], p) /\ Of(js, p, 1)
  BY <1>3, <1>4, <1>5 DEF Good, Of
<1>7. ps[p].state # "pending" /\ ps[p].state \in {"pending", "fulfilled", "rejected"} /\ ps[p].registered \in Nat
  BY <1>2, <1>3, <1>5, <1>6 DEF Ordered, JSPromiseData
<1>8. j.rej = (ps[p].state = "rejected") /\ j.arg = ps[p].result /\ j.n \in (Len(cs[p]) + 1)..ps[p].registered
  BY <1>3, <1>6, <1>7 DEF Ordered
<1>9. Len(cs[p]) \in Nat
  BY <1>2, <1>5, Domain
<1>10. j.n = Len(cs[p]) + 1
  <2>1. Len(cs[p]) + 1 \in (Len(cs[p]) + 1)..ps[p].registered
    BY <1>7, <1>8, <1>9
  <2>2. PICK i \in DOMAIN js : Of(js, p, i) /\ js[i].n = Len(cs[p]) + 1
    BY <2>1, <1>6, <1>7 DEF Ordered
  <2>3. CASE i = 1
    BY <2>2, <2>3, <1>3
  <2>4. CASE i # 1
    <3>1. 1 < i
      BY <2>4, <1>2
    <3>2. js[1].n < js[i].n
      BY <3>1, <2>2, <1>3, <1>6, <1>7 DEF Ordered
    <3> QED BY <3>2, <2>2, <1>3, <1>4, <1>8, <1>9
  <2> QED BY <2>3, <2>4
<1>11. c \in Seq(CallData) /\ Longer(cs[p], c, Entry(j))
  <2>1. Entry(j) \in CallData
    BY <1>4 DEF Entry, CallData
  <2> QED BY <2>1, <1>2, <1>5, AppendIs
<1>12. ds \in Seq(Seq(CallData)) /\ Changed(cs, ds, p, c)
  BY <1>1, <1>2, <1>5, <1>11, ExceptIs DEF Types
<1> HIDE DEF ds, c, ks, j
<1>13. /\ \A i \in DOMAIN ks : i + 1 \in DOMAIN js /\ ks[i] = js[i + 1]
       /\ \A i \in DOMAIN js : i # 1 => i - 1 \in DOMAIN ks /\ ks[i - 1] = js[i]
       /\ DOMAIN js \subseteq Int /\ DOMAIN ks \subseteq Int
  <2>1. DOMAIN ks = 1..(Len(js) - 1) /\ \A i \in DOMAIN ks : ks[i] = js[i + 1]
    BY <1>3 DEF Shorter
  <2>2. \A i \in DOMAIN js : i # 1 => i - 1 \in DOMAIN ks /\ i - 1 + 1 = i
    BY <2>1, <1>2
  <2> QED BY <2>1, <2>2, <1>2
<1>14. Types(ps, prs, cbs, ks, st, kn, hd, ds)
  BY <1>1, <1>3, <1>12 DEF Types, Changed
<1>15. Refs(ps, prs, cbs, ks, st, hd)
  BY <1>1, <1>13 DEF Refs
<1>16. ASSUME NEW q \in DOMAIN ps PROVE Ways(ps, prs, ks, st, q)
  <2>1. Ways(ps, prs, js, st, q)
    BY DEF Good
  <2>2. ~ByJob(js, q, 1)
    BY <1>3, <1>4 DEF ByJob
  <2>3. /\ \A i \in DOMAIN js : ByJob(js, q, i) => i - 1 \in DOMAIN ks /\ ByJob(ks, q, i - 1)
        /\ \A i \in DOMAIN ks : ByJob(ks, q, i) => i + 1 \in DOMAIN js /\ ByJob(js, q, i + 1)
    BY <2>2, <1>13 DEF ByJob
  <2> QED BY <2>1, <2>3, <1>13, SameWays
<1>17. ASSUME NEW q \in DOMAIN ps PROVE Ordered(ps[q], ks, ds[q], q)
  <2>1. Ordered(ps[q], js, cs[q], q)
    BY DEF Good
  <2>2. CASE q # p
    <3>1. ~Of(js, q, 1)
      BY <2>2, <1>3 DEF Of
    <3>2. /\ \A i \in DOMAIN js : Of(js, q, i) => i - 1 \in DOMAIN ks /\ ks[i - 1] = js[i]
          /\ \A i \in DOMAIN ks : Of(ks, q, i) => i + 1 \in DOMAIN js /\ js[i + 1] = ks[i]
      BY <3>1, <1>13 DEF Of
    <3>3. Ordered(ps[q], ks, cs[q], q)
      BY <2>1, <3>2, <1>13, SameOrder
    <3> QED BY <2>2, <3>3, <1>2, <1>12 DEF Changed
  <2>3. CASE q = p
    <3>1. ds[q] = c /\ Len(c) = j.n
      BY <2>3, <1>2, <1>5, <1>10, <1>11, <1>12 DEF Changed, Longer
    <3>2. ASSUME NEW i \in DOMAIN ks, Of(ks, p, i)
          PROVE  /\ i + 1 \in DOMAIN js /\ Of(js, p, i + 1) /\ js[i + 1] = ks[i]
                 /\ ks[i].rej = (ps[p].state = "rejected") /\ ks[i].arg = ps[p].result
                 /\ ks[i].n \in (j.n + 1)..ps[p].registered
      <4>1. i + 1 \in DOMAIN js /\ Of(js, p, i + 1) /\ js[i + 1] = ks[i] /\ 1 < i + 1
        BY <3>2, <1>3, <1>13 DEF Of, Shorter
      <4>2. js[1].n < js[i + 1].n
        BY <4>1, <1>3, <1>6, <1>7 DEF Ordered
      <4>3. /\ ks[i].rej = (ps[p].state = "rejected") /\ ks[i].arg = ps[p].result
            /\ ks[i].n \in (Len(cs[p]) + 1)..ps[p].registered
        BY <4>1, <1>6, <1>7 DEF Ordered
      <4>4. ks[i].n \in (j.n + 1)..ps[p].registered
        BY <4>1, <4>2, <4>3, <1>3, <1>9, <1>10
      <4> QED BY <4>1, <4>3, <4>4
    <3>3. \A i, k \in DOMAIN ks : Of(ks, p, i) /\ Of(ks, p, k) /\ i < k => ks[i].n < ks[k].n
      <4> SUFFICES ASSUME NEW i \in DOMAIN ks, NEW k \in DOMAIN ks, Of(ks, p, i), Of(ks, p, k), i < k
                   PROVE  ks[i].n < ks[k].n
        OBVIOUS
      <4>1. i + 1 < k + 1
        BY <1>13
      <4>2. js[i + 1].n < js[k + 1].n
        BY <4>1, <3>2, <1>6, <1>7 DEF Ordered
      <4> QED BY <4>2, <3>2
    <3>4. ASSUME NEW n \in (j.n + 1)..ps[p].registered PROVE \E i \in DOMAIN ks : Of(ks, p, i) /\ ks[i].n = n
      <4>1. n \in (Len(cs[p]) + 1)..ps[p].registered /\ n # j.n
        BY <1>4, <1>7, <1>9, <1>10
      <4>2. PICK i \in DOMAIN js : Of(js, p, i) /\ js[i].n = n
        BY <4>1, <1>6, <1>7 DEF Ordered
      <4>3. i # 1
        BY <4>1, <4>2, <1>3
      <4> QED BY <4>2, <4>3, <1>13 DEF Of
    <3>5. Len(ds[q]) <= ps[p].registered
      BY <3>1, <1>7, <1>8, <1>9
    <3> QED BY <2>3, <3>1, <3>2, <3>3, <3>4, <3>5, <1>7 DEF Ordered
  <2> QED BY <2>2, <2>3
<1>18. Following(ps, prs, ks, y)
  <2>1. Following(ps, prs, js, 0)
    BY DEF Good
  <2>2. ASSUME NEW f \in DOMAIN prs PROVE Follower(ps, prs, ks, y, f)
    <3>1. Follower(ps, prs, js, 0, f) /\ f # 0
      BY <2>1, <1>2 DEF Following
    <3>2. SUFFICES ASSUME ~prs[f].resolved, prs[f].follows # Plain, f # y
                   PROVE  Awaited(ps, ks, f, prs[f].follows)
      BY <3>1 DEF Follower
    <3>3. Awaited(ps, js, f, prs[f].follows)
      BY <3>1, <3>2 DEF Follower
    <3>4. CASE \E i \in DOMAIN js : Of(js, prs[f].follows, i) /\ js[i].handler \in Resolving(f)
      <4>1. PICK i \in DOMAIN js : Of(js, prs[f].follows, i) /\ js[i].handler \in Resolving(f)
        BY <3>4
      <4>2. i # 1
        <5>1. SUFFICES ASSUME i = 1 PROVE FALSE
          OBVIOUS
        <5>2. j.handler.fn \in {"resolve", "reject"} /\ j.handler.of = f
          BY <4>1, <5>1, <1>3 DEF Resolving, Fn
        <5> QED BY <5>2, <3>2 DEF Hand
      <4> QED BY <4>1, <4>2, <1>13 DEF Awaited, Of
    <3> QED BY <3>3, <3>4 DEF Awaited
  <2>3. \A i \in DOMAIN ks : Adopts(ps, ks, i)
    BY <2>1, <1>13 DEF Following, Adopts
  <2>4. ASSUME NEW q \in DOMAIN ps PROVE Locked(ps, prs, ks, q)
    <3>1. Locked(ps, prs, js, q)
      BY <2>1 DEF Following
    <3>2. \A i \in DOMAIN js : ByJob(js, q, i) => i - 1 \in DOMAIN ks /\ ByJob(ks, q, i - 1) /\ ks[i - 1] = js[i]
      BY <1>3, <1>4, <1>13 DEF ByJob
    <3> QED BY <3>1, <3>2 DEF Locked
  <2> QED BY <2>2, <2>3, <2>4 DEF Following
<1>19. y \in 0..Len(prs)
  <2>1. \A a \in DOMAIN cbs : Public(prs, cbs[a].cap) /\ cbs[a].type \in CombinatorTypes
    BY <1>1, <1>2 DEF Refs, ComboData
  <2>2. j.handler.fn \in {"asyncResolve", "asyncReject"} => j.handler.of \in DOMAIN prs
    BY <2>1, <1>5, HandlerCases
  <2> QED BY <2>2, <1>2 DEF Hand
<1>20. Good(ps, prs, cbs, ks, st, kn, hd, ds, y)
  BY <1>14, <1>15, <1>16, <1>17, <1>18, <1>19 DEF Good
<1>21. ps[p].state = (IF j.rej THEN "rejected" ELSE "fulfilled") /\ ps[p].result = j.arg
  BY <1>7, <1>8
<1>22. j.n <= ps[p].registered
  BY <1>7, <1>8, <1>9
<1> QED BY <1>4, <1>5, <1>10, <1>20, <1>21, <1>22 DEF ds, c, ks, j

\* ... and one of js_promise_resolve_thenable_job, which makes a pair.
LEMMA TakeThenable ==
  ASSUME NEW ps, NEW prs, NEW cbs, NEW js, NEW st, NEW kn, NEW hd, NEW cs,
         Good(ps, prs, cbs, js, st, kn, hd, cs, 0),
         js # <<>>, Head(js).job = "thenable",
         NEW e \in PairData, e.promise = Head(js).promise, ~e.resolved, ~e.async,
         e.follows = (IF Head(js).arg = Thenable THEN Plain ELSE Head(js).arg),
         NEW y, y = (IF e.follows = Plain THEN 0 ELSE Len(prs) + 1)
  PROVE  /\ Good(ps, Append(prs, e), cbs, Tail(js), st, kn, hd, cs, y)
         /\ Head(js).promise \in DOMAIN ps
         /\ Head(js).arg # Thenable => Head(js).arg \in DOMAIN ps
<1> DEFINE j == Head(js)
           p == j.promise
           ks == Tail(js)
           qrs == Append(prs, e)
<1>1. Types(ps, prs, cbs, js, st, kn, hd, cs) /\ Refs(ps, prs, cbs, js, st, hd)
  BY DEF Good
<1>2. /\ Len(js) \in Nat /\ DOMAIN js = 1..Len(js) /\ \A i \in DOMAIN js : js[i] \in JobData
      /\ DOMAIN prs = 1..Len(prs) /\ Len(prs) \in Nat
      /\ DOMAIN ps = 1..Len(ps) /\ Len(ps) \in Nat
  BY <1>1, Facts
<1>3. ks \in Seq(JobData) /\ Shorter(js, ks) /\ j = js[1] /\ 1 \in DOMAIN js
  BY <1>1, TailIs DEF Types
<1>4. j.job = "thenable" /\ j.arg \in Int /\ j.promise \in Nat
  BY <1>2, <1>3 DEF JobData, ThenableJobs, ReactionJobs
<1>5. /\ p \in DOMAIN ps /\ JobOk(ps, prs, cbs, j)
      /\ j.arg = Thenable \/ (j.arg > 0 /\ j.arg \in DOMAIN ps /\ j.arg # p)
  BY <1>1, <1>2, <1>3, <1>4 DEF Refs, JobOk, Values
<1>6. qrs \in Seq(PairData) /\ Longer(prs, qrs, e)
  BY <1>1, AppendIs DEF Types
<1>7. \A f \in DOMAIN prs : prs[f] \in PairData
  BY <1>1, Facts
<1>8. ByJob(js, p, 1)
  BY <1>3, <1>4 DEF ByJob
<1> HIDE DEF ks, j, qrs
<1>9. /\ \A i \in DOMAIN ks : i + 1 \in DOMAIN js /\ ks[i] = js[i + 1]
      /\ \A i \in DOMAIN js : i # 1 => i - 1 \in DOMAIN ks /\ ks[i - 1] = js[i]
      /\ DOMAIN js \subseteq Int /\ DOMAIN ks \subseteq Int
      /\ \A i \in DOMAIN ks : i + 1 # 1
  <2>1. DOMAIN ks = 1..(Len(js) - 1) /\ \A i \in DOMAIN ks : ks[i] = js[i + 1]
    BY <1>3 DEF Shorter
  <2>2. \A i \in DOMAIN js : i # 1 => i - 1 \in DOMAIN ks /\ i - 1 + 1 = i
    BY <2>1, <1>2
  <2> QED BY <2>1, <2>2, <1>2
<1>10. /\ \A f \in DOMAIN prs : f \in DOMAIN qrs /\ qrs[f] = prs[f]
       /\ qrs[Len(prs) + 1] = e /\ Len(prs) + 1 \in DOMAIN qrs /\ Len(prs) + 1 \notin DOMAIN prs
       /\ \A f \in DOMAIN qrs : f \in DOMAIN prs \/ f = Len(prs) + 1
  BY <1>2, <1>6 DEF Longer
<1>11. Types(ps, qrs, cbs, ks, st, kn, hd, cs)
  BY <1>1, <1>3, <1>6 DEF Types
<1>12. Refs(ps, qrs, cbs, ks, st, hd)
  <2>1. Grows(ps, prs, cbs, ps, qrs, cbs)
    BY <1>2, <1>10 DEF Grows
  <2>2. /\ \A f : Public(prs, f) => Public(qrs, f)
        /\ \A q, r : ReactionOk(ps, prs, cbs, q, r) => ReactionOk(ps, qrs, cbs, q, r)
        /\ \A i : JobOk(ps, prs, cbs, i) => JobOk(ps, qrs, cbs, i)
        /\ \A f : FrameOk(ps, prs, cbs, f) => FrameOk(ps, qrs, cbs, f)
        /\ \A h : HeldOk(prs, cbs, h) => HeldOk(qrs, cbs, h)
    BY <1>2, <2>1, GrowsRefs
  <2>3. \A q \in DOMAIN ps : PromiseOk(ps, qrs, cbs, q)
    BY <1>1, <2>2 DEF Refs, PromiseOk
  <2>4. PairOk(ps, e)
    BY <1>2, <1>5 DEF PairOk, Plain, j
  <2>5. \A f \in DOMAIN qrs : PairOk(ps, qrs[f])
    BY <1>1, <1>10, <2>4 DEF Refs
  <2>6. \A i \in DOMAIN ks : JobOk(ps, qrs, cbs, ks[i])
    BY <1>1, <1>9, <2>2 DEF Refs
  <2> QED BY <1>1, <2>2, <2>3, <2>5, <2>6 DEF Refs
<1>13. /\ e.promise = p /\ ~e.resolved
       /\ \A i \in DOMAIN st : st[i].call = "getThen" => st[i].of \in DOMAIN prs
  BY <1>1, Targets DEF j
<1>14. \A q \in DOMAIN ps : /\ \A f \in DOMAIN prs : ByPair(qrs, q, f) <=> ByPair(prs, q, f)
                            /\ \A i \in DOMAIN st : ByGetter(qrs, st, q, i) <=> ByGetter(prs, st, q, i)
  BY <1>10, <1>13 DEF ByPair, ByGetter
<1>15. ASSUME NEW q \in DOMAIN ps PROVE Ways(ps, qrs, ks, st, q)
  <2>1. Ways(ps, prs, js, st, q)
    BY DEF Good
  <2>2. CASE q # p
    <3>1. ~ByJob(js, q, 1)
      BY <2>2, <1>3 DEF ByJob
    <3>2. ~ByPair(qrs, q, Len(prs) + 1)
      BY <2>2, <1>10, <1>13 DEF ByPair
    <3>3. /\ \A i \in DOMAIN js : ByJob(js, q, i) => i - 1 \in DOMAIN ks /\ ByJob(ks, q, i - 1)
          /\ \A i \in DOMAIN ks : ByJob(ks, q, i) => i + 1 \in DOMAIN js /\ ByJob(js, q, i + 1)
      BY <3>1, <1>9 DEF ByJob
    <3>4. /\ \A f \in DOMAIN prs : ByPair(prs, q, f) => f \in DOMAIN qrs /\ ByPair(qrs, q, f)
          /\ \A f \in DOMAIN qrs : ByPair(qrs, q, f) => f \in DOMAIN prs /\ ByPair(prs, q, f)
      BY <3>2, <1>10, <1>14
    <3>5. /\ \A i \in DOMAIN st : ByGetter(prs, st, q, i) => i \in DOMAIN st /\ ByGetter(qrs, st, q, i)
          /\ \A i \in DOMAIN st : ByGetter(qrs, st, q, i) => i \in DOMAIN st /\ ByGetter(prs, st, q, i)
      BY <1>14
    <3> QED BY <2>1, <3>3, <3>4, <3>5, <1>9, SameWays
  <2>3. CASE q = p
    <3>1. /\ \A f \in DOMAIN prs : ~ByPair(prs, q, f)
          /\ \A i \in DOMAIN st : ~ByGetter(prs, st, q, i)
          /\ ps[q].state = "pending"
      BY <2>1, <2>3, <1>3, <1>8 DEF Ways
    <3>2. \A i \in DOMAIN ks : ~ByJob(ks, q, i)
      <4> SUFFICES ASSUME NEW i \in DOMAIN ks, ByJob(ks, q, i) PROVE FALSE
        OBVIOUS
      <4>1. i + 1 \in DOMAIN js /\ ByJob(js, q, i + 1) /\ i + 1 # 1
        BY <1>9 DEF ByJob
      <4> QED BY <4>1, <2>1, <2>3, <1>3, <1>8 DEF Ways
    <3>3. ByPair(qrs, q, Len(prs) + 1) /\ \A f \in DOMAIN qrs : ByPair(qrs, q, f) => f = Len(prs) + 1
      BY <2>3, <3>1, <1>10, <1>13, <1>14 DEF ByPair
    <3>4. \A i \in DOMAIN st : ~ByGetter(qrs, st, q, i)
      BY <3>1, <1>14
    <3> QED BY <3>1, <3>2, <3>3, <3>4, <1>10 DEF Ways
  <2> QED BY <2>2, <2>3
<1>16. ASSUME NEW q \in DOMAIN ps PROVE Ordered(ps[q], ks, cs[q], q)
  <2>1. Ordered(ps[q], js, cs[q], q)
    BY DEF Good
  <2>2. ~Of(js, q, 1)
    BY <1>3, <1>4 DEF Of
  <2>3. /\ \A i \in DOMAIN js : Of(js, q, i) => i - 1 \in DOMAIN ks /\ ks[i - 1] = js[i]
        /\ \A i \in DOMAIN ks : Of(ks, q, i) => i + 1 \in DOMAIN js /\ js[i + 1] = ks[i]
    BY <2>2, <1>9 DEF Of
  <2> QED BY <2>1, <2>3, <1>9, SameOrder
<1>17. Following(ps, qrs, ks, y)
  <2>1. Following(ps, prs, js, 0)
    BY DEF Good
  <2>2. ASSUME NEW f \in DOMAIN qrs PROVE Follower(ps, qrs, ks, y, f)
    <3>1. CASE f \in DOMAIN prs
      <4>1. Follower(ps, prs, js, 0, f) /\ f # 0 /\ qrs[f] = prs[f]
        BY <3>1, <2>1, <1>2, <1>10 DEF Following
      <4>2. ASSUME ~prs[f].resolved, prs[f].follows # Plain PROVE Awaited(ps, ks, f, prs[f].follows)
        <5>1. Awaited(ps, js, f, prs[f].follows)
          BY <4>1, <4>2 DEF Follower
        <5>2. \A i \in DOMAIN js : Of(js, prs[f].follows, i) => i - 1 \in DOMAIN ks /\ ks[i - 1] = js[i]
          BY <1>3, <1>4, <1>9 DEF Of
        <5> QED BY <5>1, <5>2 DEF Awaited, Of
      <4> QED BY <4>1, <4>2 DEF Follower
    <3>2. CASE f = Len(prs) + 1
      <4>1. CASE e.follows = Plain
        BY <3>2, <4>1, <1>10 DEF Follower
      <4>2. CASE e.follows # Plain
        <5>1. ps[p].lock = e.follows
          BY <4>2, <2>1, <1>3, <1>4 DEF Following, Adopts, j
        <5> QED BY <3>2, <4>2, <5>1, <1>10, <1>13 DEF Follower
      <4> QED BY <4>1, <4>2
    <3> QED BY <3>1, <3>2, <1>10
  <2>3. \A i \in DOMAIN ks : Adopts(ps, ks, i)
    BY <2>1, <1>9 DEF Following, Adopts
  <2>4. ASSUME NEW q \in DOMAIN ps PROVE Locked(ps, qrs, ks, q)
    <3>1. Locked(ps, prs, js, q)
      BY <2>1 DEF Following
    <3>2. CASE q # p
      <4>1. \A i \in DOMAIN js : ByJob(js, q, i) => i - 1 \in DOMAIN ks /\ ByJob(ks, q, i - 1) /\ ks[i - 1] = js[i]
        BY <3>2, <1>3, <1>9 DEF ByJob
      <4> QED BY <3>1, <4>1, <1>10, <1>14 DEF Locked
    <3>3. CASE q = p
      <4>1. SUFFICES ASSUME ps[p].lock # Plain PROVE Locked(ps, qrs, ks, p)
        BY <3>3 DEF Locked
      <4>2. Ways(ps, prs, js, st, p)
        BY <1>5 DEF Good
      <4>3. ps[p].state = "pending"
        BY <4>2, <1>3, <1>8 DEF Ways
      <4>4. CASE \E i \in DOMAIN js : ByJob(js, p, i) /\ js[i].arg = ps[p].lock
        <5>1. j.arg = ps[p].lock
          BY <4>2, <4>4, <1>3, <1>8 DEF Ways
        <5>2. ps[p].lock # Thenable
          <6>1. ps[p] \in JSPromiseData
            BY <1>1, <1>5, Facts
          <6>2. ps[p].lock \in Nat
            BY <6>1 DEF JSPromiseData
          <6> QED BY <6>2 DEF Thenable
        <5>3. e.follows = ps[p].lock
          BY <5>1, <5>2 DEF j
        <5> QED BY <4>1, <4>3, <5>3, <1>10, <1>13 DEF Locked, ByPair, Done
      <4>5. ~\E f \in DOMAIN prs : ByPair(prs, p, f)
        BY <4>2, <1>3, <1>8 DEF Ways
      <4>6. CASE Done(ps, ps[p].lock) /\ ps[ps[p].lock].result = Thenable
        BY <4>1, <4>3, <4>6 DEF Locked, Done
      <4> QED BY <3>1, <3>3, <4>1, <4>3, <4>4, <4>5, <4>6 DEF Locked, Done
    <3> QED BY <3>2, <3>3
  <2> QED BY <2>2, <2>3, <2>4 DEF Following
<1>18. y \in 0..Len(qrs)
  BY <1>2, <1>6 DEF Longer
<1>19. Good(ps, qrs, cbs, ks, st, kn, hd, cs, y)
  BY <1>11, <1>12, <1>15, <1>16, <1>17, <1>18 DEF Good
<1> QED BY <1>5, <1>19 DEF ks, j, qrs

Used(e) == [e EXCEPT !.resolved = TRUE]

\* The two ways to settle a promise that its resolving functions go: the
\* pair f is used, or the getter on top of the stack comes back.
UsesPair(prs, st, p, f, x, qrs, su) ==
  /\ f \in DOMAIN prs /\ ~prs[f].resolved /\ prs[f].promise = p /\ x \in {0, f}
  /\ qrs = [prs EXCEPT ![f] = Used(prs[f])] /\ su = st
EndsGetter(prs, st, p, x, qrs, su) ==
  /\ st # <<>> /\ st[Len(st)].call = "getThen" /\ prs[st[Len(st)].of].promise = p /\ x = 0
  /\ qrs = prs /\ su = SubSeq(st, 1, Len(st) - 1)

LEMMA UsedIs ==
  ASSUME NEW e \in PairData
  PROVE  /\ Used(e) \in PairData /\ Used(e).resolved /\ Used(e).promise = e.promise
         /\ Used(e).async = e.async /\ Used(e).follows = e.follows
  BY DEF Used, PairData

LEMMA FrontBelow ==
  ASSUME NEW cbs, NEW st \in Seq(FrameData), st # <<>>, Below(st), Counts(cbs, st),
         NEW su \in Seq(FrameData), Front(st, su)
  PROVE  /\ Below(su) /\ Counts(cbs, su)
         /\ \A i \in DOMAIN su : i \in DOMAIN st /\ su[i] = st[i] /\ i # Len(st)
         /\ \A i \in DOMAIN st : i # Len(st) => i \in DOMAIN su
         /\ Len(st) \in DOMAIN st
<1>1. Front(st, su) /\ Len(st) \in DOMAIN st
  BY FrontIs
<1>2. Len(st) \in Nat /\ DOMAIN st = 1..Len(st)
  BY LenProperties
<1>3. /\ \A i \in DOMAIN su : i \in DOMAIN st /\ su[i] = st[i] /\ i # Len(st)
      /\ \A i \in DOMAIN st : i # Len(st) => i \in DOMAIN su
      /\ \A i \in DOMAIN su : i > 1 => i - 1 \in DOMAIN su
  BY <1>1, <1>2 DEF Front
<1>4. Below(su)
  <2>1. ASSUME NEW i \in DOMAIN su, su[i].call = "itemThen"
        PROVE  i > 1 /\ su[i - 1].call = "all" /\ su[i - 1].of = su[i].of
    <3>1. i \in DOMAIN st /\ st[i].call = "itemThen"
      BY <2>1, <1>3
    <3>2. i > 1 /\ st[i - 1].call = "all" /\ st[i - 1].of = st[i].of
      BY <3>1 DEF Below
    <3> QED BY <3>2, <1>3
  <2>2. \A i, k \in DOMAIN su : su[i].call = "all" /\ su[k].call = "all" /\ su[i].of = su[k].of => i = k
    BY <1>3 DEF Below
  <2> QED BY <2>1, <2>2 DEF Below
<1>5. \A c : Loops(su, c) => Loops(st, c)
  BY <1>3 DEF Loops
<1>6. Counts(cbs, su)
  BY <1>5 DEF Counts, ItemsCounted
<1> QED BY <1>1, <1>3, <1>4, <1>6

LEMMA WayUsed ==
  ASSUME NEW ps, NEW prs, NEW cbs, NEW js, NEW st, NEW kn, NEW hd, NEW cs, NEW x,
         Good(ps, prs, cbs, js, st, kn, hd, cs, x),
         NEW p, NEW f, NEW qrs, NEW su,
         UsesPair(prs, st, p, f, x, qrs, su) \/ EndsGetter(prs, st, p, x, qrs, su)
  PROVE  /\ qrs \in Seq(PairData) /\ Len(qrs) = Len(prs) /\ DOMAIN qrs = DOMAIN prs
         /\ su \in Seq(FrameData) /\ Below(su) /\ Counts(cbs, su)
         /\ Grows(ps, prs, cbs, ps, qrs, cbs)
         /\ p \in DOMAIN ps /\ ps[p].state = "pending"
         /\ \A g \in DOMAIN prs : ~qrs[g].resolved => ~prs[g].resolved /\ prs[g].promise # p
         /\ \A g \in DOMAIN prs : qrs[g].promise = prs[g].promise /\ qrs[g].follows = prs[g].follows
         /\ \A i \in DOMAIN su : i \in DOMAIN st /\ su[i] = st[i]
         /\ \A q \in DOMAIN ps : q # p => \A g \in DOMAIN prs : ByPair(qrs, q, g) <=> ByPair(prs, q, g)
         /\ \A q \in DOMAIN ps : q # p => \A i \in DOMAIN su : ByGetter(qrs, su, q, i) <=> ByGetter(prs, st, q, i)
         /\ \A q \in DOMAIN ps : q # p => \A i \in DOMAIN st : ByGetter(prs, st, q, i) => i \in DOMAIN su
         /\ \A g \in DOMAIN qrs : ~ByPair(qrs, p, g)
         /\ \A i \in DOMAIN su : ~ByGetter(qrs, su, p, i)
         /\ \A i \in DOMAIN js : ~ByJob(js, p, i)
<1>1. /\ Types(ps, prs, cbs, js, st, kn, hd, cs) /\ Refs(ps, prs, cbs, js, st, hd)
      /\ Below(st) /\ Counts(cbs, st) /\ prs \in Seq(PairData) /\ st \in Seq(FrameData)
  BY DEF Good, Types
<1>2. /\ \A g \in DOMAIN prs : prs[g] \in PairData
      /\ \A g \in DOMAIN prs : prs[g].promise \in DOMAIN ps
      /\ \A i \in DOMAIN st : st[i].call = "getThen" => st[i].of \in DOMAIN prs
      /\ Len(ps) \in Nat
  BY <1>1, Facts, Targets
<1>3. CASE UsesPair(prs, st, p, f, x, qrs, su)
  <2>1. /\ f \in DOMAIN prs /\ ~prs[f].resolved /\ prs[f].promise = p
        /\ qrs = [prs EXCEPT ![f] = Used(prs[f])] /\ su = st
    BY <1>3 DEF UsesPair
  <2>2. /\ Used(prs[f]) \in PairData /\ Used(prs[f]).resolved /\ Used(prs[f]).promise = prs[f].promise
        /\ Used(prs[f]).async = prs[f].async /\ Used(prs[f]).follows = prs[f].follows
    BY <1>2, <2>1, UsedIs
  <2>3. qrs \in Seq(PairData) /\ Changed(prs, qrs, f, Used(prs[f]))
    BY <1>1, <2>1, <2>2, ExceptIs
  <2>4. /\ DOMAIN qrs = DOMAIN prs /\ Len(qrs) = Len(prs) /\ qrs[f] = Used(prs[f])
        /\ \A g \in DOMAIN prs : g # f => qrs[g] = prs[g]
    BY <2>3 DEF Changed
  <2>5. /\ \A g \in DOMAIN prs : qrs[g].promise = prs[g].promise
        /\ \A g \in DOMAIN prs : qrs[g].follows = prs[g].follows
        /\ \A g \in DOMAIN prs : qrs[g].async = prs[g].async
        /\ qrs[f].resolved
    BY <2>2, <2>4
  <2>6. p \in DOMAIN ps /\ Ways(ps, prs, js, st, p) /\ ByPair(prs, p, f)
    BY <1>2, <2>1 DEF Good, ByPair
  <2>7. ps[p].state = "pending" /\ \A g \in DOMAIN prs : ByPair(prs, p, g) => g = f
    BY <2>1, <2>6 DEF Ways
  <2>8. \A g \in DOMAIN prs : ~qrs[g].resolved => ~prs[g].resolved /\ prs[g].promise # p
    BY <2>4, <2>5, <2>7 DEF ByPair
  <2>9. \A q \in DOMAIN ps : q # p => \A g \in DOMAIN prs : ByPair(qrs, q, g) <=> ByPair(prs, q, g)
    BY <2>1, <2>4, <2>5 DEF ByPair
  <2>10. \A g \in DOMAIN qrs : ~ByPair(qrs, p, g)
    BY <2>4, <2>5, <2>8 DEF ByPair
  <2>11. \A q, i : i \in DOMAIN st => (ByGetter(qrs, su, q, i) <=> ByGetter(prs, st, q, i))
    BY <1>2, <2>1, <2>5 DEF ByGetter
  <2>12. /\ \A i \in DOMAIN st : ~ByGetter(prs, st, p, i)
         /\ \A i \in DOMAIN js : ~ByJob(js, p, i)
    BY <2>1, <2>6 DEF Ways
  <2>13. Grows(ps, prs, cbs, ps, qrs, cbs)
    BY <1>2, <2>4, <2>5 DEF Grows
  <2> QED BY <1>1, <2>1, <2>3, <2>4, <2>5, <2>6, <2>7, <2>8, <2>9, <2>10, <2>11, <2>12, <2>13
<1>4. CASE EndsGetter(prs, st, p, x, qrs, su)
  <2> DEFINE n == Len(st)
  <2>1. st # <<>> /\ st[n].call = "getThen" /\ prs[st[n].of].promise = p /\ qrs = prs /\ su = SubSeq(st, 1, n - 1)
    BY <1>4 DEF EndsGetter
  <2> HIDE DEF n
  <2>0. st # <<>> /\ su = SubSeq(st, 1, Len(st) - 1) /\ n = Len(st)
    BY <2>1 DEF n
  <2>2. /\ su \in Seq(FrameData) /\ Below(su) /\ Counts(cbs, su)
        /\ \A i \in DOMAIN su : i \in DOMAIN st /\ su[i] = st[i] /\ i # n
        /\ \A i \in DOMAIN st : i # n => i \in DOMAIN su
        /\ n \in DOMAIN st
    <3>1. /\ st \in Seq(FrameData) /\ Below(st) /\ Counts(cbs, st) /\ st # <<>>
      BY <1>1, <2>0
    <3>2. su \in Seq(FrameData) /\ Front(st, su)
      BY <2>0, <3>1, FrontIs
    <3>3. /\ Below(su) /\ Counts(cbs, su)
          /\ \A i \in DOMAIN su : i \in DOMAIN st /\ su[i] = st[i] /\ i # Len(st)
          /\ \A i \in DOMAIN st : i # Len(st) => i \in DOMAIN su
          /\ Len(st) \in DOMAIN st
      BY <3>1, <3>2, FrontBelow
    <3> QED BY <3>2, <3>3, <2>0
  <2>3. p \in DOMAIN ps /\ ByGetter(prs, st, p, n)
    BY <1>2, <2>1, <2>2 DEF ByGetter
  <2>4. Ways(ps, prs, js, st, p)
    BY <2>3 DEF Good
  <2>5. /\ ps[p].state = "pending"
        /\ \A g \in DOMAIN prs : ~ByPair(prs, p, g)
        /\ \A i \in DOMAIN st : ByGetter(prs, st, p, i) => i = n
        /\ \A i \in DOMAIN js : ~ByJob(js, p, i)
    BY <2>2, <2>3, <2>4 DEF Ways
  <2>6. \A g \in DOMAIN prs : ~qrs[g].resolved => ~prs[g].resolved /\ prs[g].promise # p
    BY <2>1, <2>5 DEF ByPair
  <2>7. \A q : \A i \in DOMAIN su : ByGetter(qrs, su, q, i) <=> ByGetter(prs, st, q, i)
    BY <2>1, <2>2 DEF ByGetter
  <2>8. \A q \in DOMAIN ps : q # p => \A i \in DOMAIN st : ByGetter(prs, st, q, i) => i \in DOMAIN su
    BY <2>1, <2>2 DEF ByGetter
  <2>9. \A i \in DOMAIN su : ~ByGetter(qrs, su, p, i)
    BY <2>2, <2>5, <2>7
  <2>10. Grows(ps, prs, cbs, ps, prs, cbs)
    BY <1>2 DEF Grows
  <2> QED BY <1>1, <2>1, <2>2, <2>3, <2>5, <2>6, <2>7, <2>8, <2>9, <2>10
<1> QED BY <1>3, <1>4

LEMMA FollowHandlers ==
  ASSUME NEW ps, NEW prs, NEW cbs, NEW q, NEW g, NEW h, NEW f,
         Handlers(ps, prs, cbs, q, g, h), g = Fn("resolve", f, 0), prs[f].follows # Plain,
         \A c \in DOMAIN cbs : Public(prs, cbs[c].cap)
  PROVE  h = Fn("reject", f, 0)
<1>1. CASE Code(ps, g) /\ Code(ps, h)
  BY <1>1 DEF Code, Simple, Fn
<1>2. CASE \E a \in DOMAIN prs : prs[a].async /\ g = Resume(a) /\ h = ResumeThrow(a)
  BY <1>2 DEF Resume, Fn
<1>3. CASE \E a \in DOMAIN prs : prs[a].follows = q /\ g = Fn("resolve", a, 0) /\ h = Fn("reject", a, 0)
  BY <1>3 DEF Fn
<1>4. CASE \E c \in DOMAIN cbs : \E i \in Native(cbs, c) : g = Ful(cbs, c, i) /\ h = Rej(cbs, c, i)
  <2>1. PICK c \in DOMAIN cbs : \E i \in Native(cbs, c) : g = Ful(cbs, c, i)
    BY <1>4
  <2>2. PICK i : g = Ful(cbs, c, i)
    BY <2>1
  <2>3. g.fn = "resolve" /\ g.of = f
    BY DEF Fn
  <2>4. cbs[c].cap = f
    BY <2>2, <2>3 DEF Ful, Fn
  <2> QED BY <2>4 DEF Public
<1> QED BY <1>1, <1>2, <1>3, <1>4 DEF Handlers

\* What a pair that follows a promise is called with.
FollowsTruly(ps, prs, f, rej, v) ==
  prs[f].follows # Plain =>
    LET q == prs[f].follows IN
    ps[q].state = (IF rej THEN "rejected" ELSE "fulfilled") /\ ps[q].result = v

\* fulfill_or_reject_promise.
LEMMA Settles ==
  ASSUME NEW ps, NEW prs, NEW cbs, NEW js, NEW st, NEW kn, NEW hd, NEW cs, NEW x,
         Good(ps, prs, cbs, js, st, kn, hd, cs, x),
         NEW p, NEW f, NEW qrs, NEW su, NEW rej \in BOOLEAN, NEW v,
         \/ UsesPair(prs, st, p, f, x, qrs, su) /\ FollowsTruly(ps, prs, f, rej, v)
         \/ EndsGetter(prs, st, p, x, qrs, su),
         v \in Values(ps), rej \/ v <= 0
  PROVE  Good([ps EXCEPT ![p] = Outcome(ps[p], rej, v)], qrs, cbs,
              js \o Reactions(ps[p], p, rej, v), su, kn, hd, cs, 0)
<1> DEFINE s == ps[p]
           t == Outcome(s, rej, v)
           qs == [ps EXCEPT ![p] = t]
           u == Reactions(s, p, rej, v)
           ks == js \o u
<1>1. /\ Types(ps, prs, cbs, js, st, kn, hd, cs) /\ Refs(ps, prs, cbs, js, st, hd)
  BY DEF Good
<1>2. /\ qrs \in Seq(PairData) /\ Len(qrs) = Len(prs) /\ DOMAIN qrs = DOMAIN prs
      /\ su \in Seq(FrameData) /\ Below(su) /\ Counts(cbs, su)
      /\ Grows(ps, prs, cbs, ps, qrs, cbs)
      /\ p \in DOMAIN ps /\ ps[p].state = "pending"
      /\ \A g \in DOMAIN prs : ~qrs[g].resolved => ~prs[g].resolved /\ prs[g].promise # p
      /\ \A g \in DOMAIN prs : qrs[g].promise = prs[g].promise /\ qrs[g].follows = prs[g].follows
      /\ \A i \in DOMAIN su : i \in DOMAIN st /\ su[i] = st[i]
      /\ \A q \in DOMAIN ps : q # p => \A g \in DOMAIN prs : ByPair(qrs, q, g) <=> ByPair(prs, q, g)
      /\ \A q \in DOMAIN ps : q # p => \A i \in DOMAIN su : ByGetter(qrs, su, q, i) <=> ByGetter(prs, st, q, i)
      /\ \A q \in DOMAIN ps : q # p => \A i \in DOMAIN st : ByGetter(prs, st, q, i) => i \in DOMAIN su
      /\ \A g \in DOMAIN qrs : ~ByPair(qrs, p, g)
      /\ \A i \in DOMAIN su : ~ByGetter(qrs, su, p, i)
      /\ \A i \in DOMAIN js : ~ByJob(js, p, i)
  BY WayUsed
<1>3. /\ Len(ps) \in Nat /\ DOMAIN ps = 1..Len(ps) /\ s \in JSPromiseData /\ p \in Nat
      /\ Len(js) \in Nat /\ DOMAIN js = 1..Len(js) /\ v \in Int
      /\ Len(prs) \in Nat /\ DOMAIN prs = 1..Len(prs)
  BY <1>1, <1>2, Facts DEF Values, Collected
<1>4. /\ t \in JSPromiseData /\ t.state = (IF rej THEN "rejected" ELSE "fulfilled")
      /\ t.result = v /\ t.reactions = <<>> /\ t.handled = s.handled /\ t.lock = s.lock
      /\ t.registered = s.registered /\ t.told = IF rej /\ ~s.handled THEN "unhandled" ELSE s.told
  BY <1>3, OutcomeIs
<1>5. /\ u \in Seq(JobData) /\ Len(u) = Len(s.reactions) /\ DOMAIN u = DOMAIN s.reactions
      /\ \A i \in DOMAIN u :
           /\ s.reactions[i] \in ReactionData /\ u[i] \in ReactionJobs
           /\ u[i].job = "reaction" /\ u[i].promise = p /\ u[i].cap = s.reactions[i].cap
           /\ u[i].n = s.reactions[i].n /\ u[i].rej = rej /\ u[i].arg = v
           /\ u[i].handler = IF rej THEN s.reactions[i].onRej ELSE s.reactions[i].onFul
  BY <1>3, ReactionsIs
<1>6. qs \in Seq(JSPromiseData) /\ Changed(ps, qs, p, t)
  BY <1>1, <1>2, <1>4, ExceptIs DEF Types
<1>7. ks \in Seq(JobData) /\ Joined(js, u, ks)
  BY <1>1, <1>5, ConcatIs DEF Types
<1>8. s = ps[p]
  OBVIOUS
<1> HIDE DEF qs, t, u, ks, s
<1>9. /\ DOMAIN qs = DOMAIN ps /\ Len(qs) = Len(ps) /\ qs[p] = t
      /\ \A q \in DOMAIN ps : q # p => qs[q] = ps[q]
      /\ t.state # "pending" /\ s.state = "pending"
  BY <1>2, <1>4, <1>6, <1>8 DEF Changed
<1>10. Len(u) \in Nat /\ DOMAIN u = 1..Len(u)
  BY <1>5, LenProperties
<1>11. /\ \A i \in DOMAIN js : i \in DOMAIN ks /\ ks[i] = js[i]
       /\ \A i \in DOMAIN u : Len(js) + i \in DOMAIN ks /\ ks[Len(js) + i] = u[i]
       /\ DOMAIN js \subseteq Int /\ DOMAIN ks \subseteq Int /\ DOMAIN u \subseteq Int
       /\ \A i \in DOMAIN ks : i \in DOMAIN js \/ (i - Len(js) \in DOMAIN u /\ ks[i] = u[i - Len(js)])
  <2>1. DOMAIN ks = 1..(Len(js) + Len(u))
    BY <1>7 DEF Joined
  <2>2. /\ \A i \in DOMAIN js : ks[i] = js[i]
        /\ \A i \in DOMAIN u : ks[Len(js) + i] = u[i]
    BY <1>7 DEF Joined
  <2>3. \A i \in DOMAIN u : Len(js) + i \in DOMAIN ks
    BY <2>1, <1>3, <1>10
  <2>4. \A i \in DOMAIN ks : i \notin DOMAIN js => i - Len(js) \in DOMAIN u /\ Len(js) + (i - Len(js)) = i
    BY <2>1, <1>3, <1>10
  <2>5. \A i \in DOMAIN js : i \in DOMAIN ks
    BY <2>1, <1>3, <1>10
  <2> QED BY <2>1, <2>2, <2>3, <2>4, <2>5, <1>3, <1>10
<1>12. /\ Types(qs, qrs, cbs, ks, su, kn, hd, cs)
  BY <1>1, <1>2, <1>6, <1>7, <1>9 DEF Types
<1>13. Refs(qs, qrs, cbs, ks, su, hd)
  <2>1. Grows(ps, prs, cbs, qs, qrs, cbs)
    BY <1>2, <1>3, <1>9 DEF Grows
  <2>2. /\ Values(ps) \subseteq Values(qs)
        /\ \A g : Public(prs, g) => Public(qrs, g)
        /\ \A q, r : ReactionOk(ps, prs, cbs, q, r) => ReactionOk(qs, qrs, cbs, q, r)
        /\ \A g : PairOk(ps, g) /\ g.follows \in Nat => PairOk(qs, g)
        /\ \A i : JobOk(ps, prs, cbs, i) => JobOk(qs, qrs, cbs, i)
        /\ \A e : FrameOk(ps, prs, cbs, e) => FrameOk(qs, qrs, cbs, e)
        /\ \A h : HeldOk(prs, cbs, h) => HeldOk(qrs, cbs, h)
    BY <1>3, <1>9, <2>1, GrowsRefs
  <2>3. ASSUME NEW q \in DOMAIN ps, q # p PROVE PromiseOk(qs, qrs, cbs, q)
    <3>1. PromiseOk(ps, prs, cbs, q) /\ qs[q] = ps[q]
      BY <2>3, <1>1, <1>9 DEF Refs
    <3> QED BY <1>9, <2>2, <3>1 DEF PromiseOk
  <2>4. PromiseOk(ps, prs, cbs, p)
    BY <1>1, <1>2 DEF Refs
  <2>5. PromiseOk(qs, qrs, cbs, p)
    <3>1. v \in Values(qs)
      BY <2>2
    <3>2. t.told = "unhandled" <=> t.state = "rejected" /\ ~t.handled
      BY <2>4, <1>4, <1>8, <1>9 DEF PromiseOk
    <3>3. \A i \in DOMAIN t.reactions : ReactionOk(qs, qrs, cbs, p, t.reactions[i])
      BY <1>4
    <3>4. t.state = "fulfilled" => t.result <= 0
      BY <1>4
    <3>5. t.lock <= Len(qs) /\ t.lock # p
      BY <2>4, <1>4, <1>8, <1>9 DEF PromiseOk
    <3>6. t.state # "pending" => t.reactions = <<>>
      BY <1>4
    <3> QED BY <1>4, <1>9, <3>1, <3>2, <3>3, <3>4, <3>5, <3>6 DEF PromiseOk
  <2>6. ASSUME NEW i \in DOMAIN u PROVE JobOk(ps, prs, cbs, u[i])
    <3>1. ReactionOk(ps, prs, cbs, p, s.reactions[i])
      BY <2>4, <1>5, <1>8 DEF PromiseOk
    <3>2. Capability(prs, u[i].cap) /\ Handler(ps, prs, cbs, p, rej, u[i].handler)
      BY <3>1, <1>5, HandlersHandle DEF ReactionOk
    <3> QED BY <3>2, <1>2, <1>5 DEF JobOk
  <2>7. \A g \in DOMAIN prs : PairOk(qs, qrs[g])
    <3>1. \A g \in DOMAIN prs : PairOk(ps, prs[g]) /\ qrs[g].async = prs[g].async
      BY <1>1, <1>2 DEF Refs, Grows
    <3> QED BY <3>1, <1>2, <1>9 DEF PairOk
  <2>8. \A i \in DOMAIN ks : JobOk(qs, qrs, cbs, ks[i])
    BY <1>1, <1>11, <2>2, <2>6 DEF Refs
  <2> QED BY <1>1, <1>2, <1>9, <2>2, <2>3, <2>5, <2>7, <2>8 DEF Refs
<1>14. ASSUME NEW q \in DOMAIN qs PROVE Ways(qs, qrs, ks, su, q)
  <2>1. /\ \A i \in DOMAIN js : ByJob(js, q, i) => i - 0 \in DOMAIN ks /\ ByJob(ks, q, i - 0)
        /\ \A i \in DOMAIN ks : ByJob(ks, q, i) => i + 0 \in DOMAIN js /\ ByJob(js, q, i + 0)
    <3>1. \A i \in DOMAIN ks : i + 0 = i /\ i - 0 = i
      BY <1>11
    <3> QED BY <3>1, <1>5, <1>11 DEF ByJob
  <2>2. CASE q # p
    <3>1. Ways(ps, prs, js, st, q) /\ qs[q].state = ps[q].state
      BY <2>2, <1>9 DEF Good
    <3>2. /\ \A g \in DOMAIN prs : ByPair(prs, q, g) => g \in DOMAIN qrs /\ ByPair(qrs, q, g)
          /\ \A g \in DOMAIN qrs : ByPair(qrs, q, g) => g \in DOMAIN prs /\ ByPair(prs, q, g)
          /\ \A i \in DOMAIN st : ByGetter(prs, st, q, i) => i \in DOMAIN su /\ ByGetter(qrs, su, q, i)
          /\ \A i \in DOMAIN su : ByGetter(qrs, su, q, i) => i \in DOMAIN st /\ ByGetter(prs, st, q, i)
      BY <2>2, <1>2, <1>9
    <3> QED BY <2>1, <3>1, <3>2, <1>11, SameWays
  <2>3. CASE q = p
    <3>1. \A i \in DOMAIN ks : ~ByJob(ks, p, i)
      BY <2>1, <2>3, <1>2, <1>11
    <3> QED BY <2>3, <3>1, <1>2, <1>9 DEF Ways
  <2> QED BY <2>2, <2>3
<1>15. ASSUME NEW q \in DOMAIN qs PROVE Ordered(qs[q], ks, cs[q], q)
  <2>1. Ordered(ps[q], js, cs[q], q)
    BY <1>9 DEF Good
  <2>2. CASE q # p
    <3>1. /\ \A i \in DOMAIN js : Of(js, q, i) => i - 0 \in DOMAIN ks /\ ks[i - 0] = js[i]
          /\ \A i \in DOMAIN ks : Of(ks, q, i) => i + 0 \in DOMAIN js /\ js[i + 0] = ks[i]
      <4>1. \A i \in DOMAIN ks : i + 0 = i /\ i - 0 = i
        BY <1>11
      <4> QED BY <2>2, <4>1, <1>5, <1>11 DEF Of
    <3>2. Ordered(ps[q], ks, cs[q], q)
      BY <2>1, <3>1, <1>11, SameOrder
    <3> QED BY <2>2, <3>2, <1>9
  <2>3. CASE q = p
    <3>1. /\ cs[p] = <<>> /\ Len(s.reactions) = s.registered
          /\ \A i \in DOMAIN s.reactions : s.reactions[i].n = i
          /\ \A i \in DOMAIN js : ~Of(js, p, i)
      BY <2>1, <2>3, <1>8, <1>9 DEF Ordered
    <3>2. Len(cs[p]) = 0
      BY <3>1
    <3>3. \A i \in DOMAIN ks : Of(ks, p, i) =>
            i - Len(js) \in DOMAIN u /\ ks[i].n = i - Len(js) /\ ks[i].rej = rej /\ ks[i].arg = v
      BY <3>1, <1>5, <1>11 DEF Of
    <3>4. \A i \in DOMAIN ks : Of(ks, p, i) =>
            /\ ks[i].rej = (t.state = "rejected") /\ ks[i].arg = t.result
            /\ ks[i].n \in (Len(cs[p]) + 1)..t.registered
      <4>1. DOMAIN u = 1..t.registered
        BY <3>1, <1>4, <1>5, <1>10
      <4>2. rej = (t.state = "rejected")
        BY <1>4
      <4> QED BY <3>2, <3>3, <4>1, <4>2, <1>4
    <3>5. ASSUME NEW i \in DOMAIN ks, NEW k \in DOMAIN ks, Of(ks, p, i), Of(ks, p, k), i < k
          PROVE  ks[i].n < ks[k].n
      <4>1. ks[i].n = i - Len(js) /\ ks[k].n = k - Len(js) /\ i \in Int /\ k \in Int
        BY <3>3, <3>5, <1>11
      <4> QED BY <3>5, <4>1, <1>3
    <3>6. ASSUME NEW n \in (Len(cs[p]) + 1)..t.registered PROVE \E i \in DOMAIN ks : Of(ks, p, i) /\ ks[i].n = n
      <4>1. n \in DOMAIN u /\ n \in DOMAIN s.reactions
        BY <3>1, <3>2, <1>4, <1>5, <1>10
      <4>2. Len(js) + n \in DOMAIN ks /\ ks[Len(js) + n] = u[n]
        BY <4>1, <1>11
      <4>3. u[n].job = "reaction" /\ u[n].promise = p /\ u[n].n = n
        BY <3>1, <4>1, <1>5
      <4> QED BY <4>2, <4>3 DEF Of
    <3>7. Len(cs[p]) <= t.registered
      BY <3>1, <3>2, <1>4, <1>5, <1>10
    <3> QED BY <2>3, <3>4, <3>5, <3>6, <3>7, <1>9 DEF Ordered
  <2> QED BY <2>2, <2>3
<1>16. Following(qs, qrs, ks, 0)
  <2>1. Following(ps, prs, js, x)
    BY DEF Good
  <2>2. ASSUME NEW g \in DOMAIN qrs PROVE Follower(qs, qrs, ks, 0, g)
    <3>1. g \in DOMAIN prs /\ Follower(ps, prs, js, x, g)
      BY <2>1, <1>2 DEF Following
    <3>2. SUFFICES ASSUME ~qrs[g].resolved, prs[g].follows # Plain
                   PROVE  /\ qs[prs[g].promise].lock = prs[g].follows
                          /\ Awaited(qs, ks, g, prs[g].follows)
      BY <3>1, <1>2 DEF Follower
    <3>3. ~prs[g].resolved /\ prs[g].promise # p /\ prs[g].promise \in DOMAIN ps /\ prs[g].follows \in DOMAIN ps
      BY <3>1, <3>2, <1>1, <1>2, Targets
    <3>4. g # x
      BY <3>1, <3>3, <1>3 DEF UsesPair, EndsGetter
    <3>5. ps[prs[g].promise].lock = prs[g].follows /\ Awaited(ps, js, g, prs[g].follows)
      BY <3>1, <3>2, <3>3, <3>4 DEF Follower
    <3>6. CASE \E i \in DOMAIN js : Of(js, prs[g].follows, i) /\ js[i].handler \in Resolving(g)
      <4>1. Awaited(qs, ks, g, prs[g].follows)
        BY <3>6, <1>11 DEF Awaited, Of
      <4> QED BY <3>3, <3>5, <4>1, <1>9
    <3>7. CASE \E i \in DOMAIN ps[prs[g].follows].reactions :
                 ps[prs[g].follows].reactions[i].onFul = Fn("resolve", g, 0)
      <4>1. CASE prs[g].follows # p
        BY <3>3, <3>5, <3>7, <4>1, <1>9 DEF Awaited
      <4>2. CASE prs[g].follows = p
        <5>1. PICK i \in DOMAIN s.reactions : s.reactions[i].onFul = Fn("resolve", g, 0)
          BY <3>7, <4>2, <1>8
        <5>2. Handlers(ps, prs, cbs, p, s.reactions[i].onFul, s.reactions[i].onRej)
          BY <5>1, <1>1, <1>2, <1>8 DEF Refs, PromiseOk, ReactionOk
        <5>3. \A c \in DOMAIN cbs : Public(prs, cbs[c].cap)
          BY <1>1 DEF Refs
        <5>4. s.reactions[i].onRej = Fn("reject", g, 0)
          BY <3>2, <5>1, <5>2, <5>3, FollowHandlers
        <5>5. /\ Len(js) + i \in DOMAIN ks /\ ks[Len(js) + i] = u[i]
              /\ u[i].job = "reaction" /\ u[i].promise = p
              /\ u[i].handler \in Resolving(g)
          BY <5>1, <5>4, <1>5, <1>11 DEF Resolving
        <5>6. Awaited(qs, ks, g, p)
          BY <5>5 DEF Awaited, Of
        <5> QED BY <3>3, <3>5, <4>2, <5>6, <1>9
      <4> QED BY <4>1, <4>2
    <3> QED BY <3>5, <3>6, <3>7 DEF Awaited
  <2>3. ASSUME NEW i \in DOMAIN ks, ks[i].job = "thenable", ks[i].arg # Thenable
        PROVE  qs[ks[i].promise].lock = ks[i].arg
    <3>1. i \in DOMAIN js /\ ks[i] = js[i]
      BY <2>3, <1>5, <1>11
    <3>2. ks[i].promise \in DOMAIN ps /\ ks[i].promise # p
      BY <2>3, <3>1, <1>1, <1>2, Targets DEF ByJob
    <3> QED BY <2>1, <2>3, <3>1, <3>2, <1>9 DEF Following, Adopts
  <2>4. ASSUME NEW q \in DOMAIN qs PROVE Locked(qs, qrs, ks, q)
    <3>1. q \in DOMAIN ps /\ Locked(ps, prs, js, q)
      BY <2>1, <1>9 DEF Following
    <3> DEFINE o == ps[q].lock
    <3>2. qs[q].lock = o
      BY <3>1, <1>4, <1>8, <1>9
    <3>3. SUFFICES ASSUME o # Plain PROVE Locked(qs, qrs, ks, q)
      BY <3>2 DEF Locked
    <3>4. o \in DOMAIN ps /\ o # q
      BY <3>1, <3>3, <1>1, Targets DEF Refs, PromiseOk
    <3> HIDE DEF o
    <3>5. CASE q # p
      <4>1. qs[q] = ps[q]
        BY <3>1, <3>5, <1>9
      <4>2. Done(ps, o) => o # p /\ qs[o] = ps[o]
        BY <3>4, <1>2, <1>9 DEF Done
      <4>3. Done(ps, q) => Done(qs, o) /\ (qs[o].result # Thenable => qs[q].state = qs[o].state /\ qs[q].result = qs[o].result)
        BY <3>1, <3>3, <4>1, <4>2 DEF Locked, Done, o
      <4>4. ~Done(ps, q) =>
              \/ \E i \in DOMAIN ks : ByJob(ks, q, i) /\ ks[i].arg = o
              \/ \E g \in DOMAIN qrs : ByPair(qrs, q, g) /\ qrs[g].follows = o
              \/ Done(qs, o) /\ qs[o].result = Thenable
        <5>1. SUFFICES ASSUME ~Done(ps, q)
                       PROVE  \/ \E i \in DOMAIN ks : ByJob(ks, q, i) /\ ks[i].arg = o
                              \/ \E g \in DOMAIN qrs : ByPair(qrs, q, g) /\ qrs[g].follows = o
                              \/ Done(qs, o) /\ qs[o].result = Thenable
          OBVIOUS
        <5>2. CASE \E i \in DOMAIN js : ByJob(js, q, i) /\ js[i].arg = o
          BY <5>2, <1>11 DEF ByJob
        <5>3. CASE \E g \in DOMAIN prs : ByPair(prs, q, g) /\ prs[g].follows = o
          BY <5>3, <3>1, <3>5, <1>2
        <5>4. CASE Done(ps, o) /\ ps[o].result = Thenable
          BY <5>4, <4>2 DEF Done
        <5> QED BY <3>1, <3>3, <5>1, <5>2, <5>3, <5>4 DEF Locked, o
      <4> QED BY <3>2, <4>1, <4>3, <4>4 DEF Locked, Done
    <3>6. CASE q = p
      <4>1. qs[o] = ps[o] /\ qs[p] = t
        BY <3>4, <3>6, <1>9
      <4>2. CASE \E g \in DOMAIN prs : ByPair(prs, p, g) /\ prs[g].follows = o
        <5>1. PICK g \in DOMAIN prs : ByPair(prs, p, g) /\ prs[g].follows = o
          BY <4>2
        <5>2. Ways(ps, prs, js, st, p)
          BY <1>2 DEF Good
        <5>3. CASE UsesPair(prs, st, p, f, x, qrs, su) /\ FollowsTruly(ps, prs, f, rej, v)
          <6>1. f \in DOMAIN prs /\ ByPair(prs, p, f)
            BY <5>3 DEF UsesPair, ByPair
          <6>2. g = f
            BY <5>1, <5>2, <6>1 DEF Ways
          <6>3. ps[o].state = t.state /\ ps[o].result = t.result
            BY <5>1, <5>3, <6>2, <3>3, <1>4 DEF FollowsTruly
          <6> QED BY <3>2, <3>6, <4>1, <6>3, <1>9 DEF Locked, Done
        <5>4. CASE EndsGetter(prs, st, p, x, qrs, su)
          <6>1. qrs = prs
            BY <5>4 DEF EndsGetter
          <6> QED BY <5>1, <6>1, <1>2
        <5> QED BY <5>3, <5>4
      <4>3. CASE Done(ps, o) /\ ps[o].result = Thenable
        BY <3>2, <3>6, <4>1, <4>3, <1>9 DEF Locked, Done
      <4>4. \A i \in DOMAIN js : ~ByJob(js, p, i)
        BY <1>2
      <4>5. ~Done(ps, p)
        BY <1>2 DEF Done
      <4> QED BY <3>1, <3>3, <3>6, <4>2, <4>3, <4>4, <4>5 DEF Locked, o
    <3> QED BY <3>5, <3>6
  <2> QED BY <2>2, <2>3, <2>4 DEF Following, Adopts
<1>17. Good(qs, qrs, cbs, ks, su, kn, hd, cs, 0)
  <2>1. 0 \in 0..Len(qrs)
    BY <1>2, <1>3
  <2> QED BY <2>1, <1>2, <1>12, <1>13, <1>14, <1>15, <1>16 DEF Good
<1> QED BY <1>17 DEF qs, t, u, ks, s

Locking(s, v) == [s EXCEPT !.lock = v]

\* js_promise_resolve_function_call with a promise, or when the getter has
\* given a function.
LEMMA QueuesThenable ==
  ASSUME NEW ps, NEW prs, NEW cbs, NEW js, NEW st, NEW kn, NEW hd, NEW cs, NEW x,
         Good(ps, prs, cbs, js, st, kn, hd, cs, x),
         NEW p, NEW f, NEW qrs, NEW su, NEW v, NEW qs,
         \/ /\ UsesPair(prs, st, p, f, x, qrs, su) /\ prs[f].follows = Plain
            /\ v \in DOMAIN ps /\ v # p /\ qs = [ps EXCEPT ![p] = Locking(ps[p], v)]
         \/ EndsGetter(prs, st, p, x, qrs, su) /\ v = Thenable /\ qs = ps
  PROVE  Good(qs, qrs, cbs, Append(js, ThenableJob(p, v)), su, kn, hd, cs, 0)
<1> DEFINE j == ThenableJob(p, v)
           ks == Append(js, j)
<1>1. /\ Types(ps, prs, cbs, js, st, kn, hd, cs) /\ Refs(ps, prs, cbs, js, st, hd)
  BY DEF Good
<1>2. /\ qrs \in Seq(PairData) /\ Len(qrs) = Len(prs) /\ DOMAIN qrs = DOMAIN prs
      /\ su \in Seq(FrameData) /\ Below(su) /\ Counts(cbs, su)
      /\ Grows(ps, prs, cbs, ps, qrs, cbs)
      /\ p \in DOMAIN ps /\ ps[p].state = "pending"
      /\ \A g \in DOMAIN prs : ~qrs[g].resolved => ~prs[g].resolved /\ prs[g].promise # p
      /\ \A g \in DOMAIN prs : qrs[g].promise = prs[g].promise /\ qrs[g].follows = prs[g].follows
      /\ \A i \in DOMAIN su : i \in DOMAIN st /\ su[i] = st[i]
      /\ \A q \in DOMAIN ps : q # p => \A g \in DOMAIN prs : ByPair(qrs, q, g) <=> ByPair(prs, q, g)
      /\ \A q \in DOMAIN ps : q # p => \A i \in DOMAIN su : ByGetter(qrs, su, q, i) <=> ByGetter(prs, st, q, i)
      /\ \A q \in DOMAIN ps : q # p => \A i \in DOMAIN st : ByGetter(prs, st, q, i) => i \in DOMAIN su
      /\ \A g \in DOMAIN qrs : ~ByPair(qrs, p, g)
      /\ \A i \in DOMAIN su : ~ByGetter(qrs, su, p, i)
      /\ \A i \in DOMAIN js : ~ByJob(js, p, i)
  BY WayUsed
<1>3. /\ Len(ps) \in Nat /\ DOMAIN ps = 1..Len(ps) /\ ps[p] \in JSPromiseData /\ p \in Nat
      /\ Len(js) \in Nat /\ DOMAIN js = 1..Len(js)
      /\ Len(prs) \in Nat /\ DOMAIN prs = 1..Len(prs)
  BY <1>1, <1>2, Facts
<1>4. v \in Int /\ v \in Values(ps) /\ (v = Thenable \/ (v > 0 /\ v # p))
  BY <1>3 DEF Values, Collected, Thenable
<1>5. j \in JobData /\ j.job = "thenable" /\ j.promise = p /\ j.arg = v
  BY <1>3, <1>4, ThenableJobIs
<1>6. ks \in Seq(JobData) /\ Longer(js, ks, j)
  BY <1>1, <1>5, AppendIs DEF Types
<1>7. /\ qs \in Seq(JSPromiseData) /\ DOMAIN qs = DOMAIN ps /\ Len(qs) = Len(ps)
      /\ \A q \in DOMAIN ps : q # p => qs[q] = ps[q]
      /\ qs[p].state = ps[p].state /\ qs[p].result = ps[p].result /\ qs[p].reactions = ps[p].reactions
      /\ qs[p].handled = ps[p].handled /\ qs[p].told = ps[p].told /\ qs[p].registered = ps[p].registered
      /\ qs[p].lock = IF v = Thenable THEN ps[p].lock ELSE v
  <2>1. CASE qs = ps /\ v = Thenable
    BY <2>1, <1>1 DEF Types
  <2>2. CASE v \in DOMAIN ps /\ qs = [ps EXCEPT ![p] = Locking(ps[p], v)]
    <3>1. v \in Nat /\ v # Thenable
      BY <2>2, <1>3 DEF Thenable
    <3> DEFINE s == ps[p]
               t == Locking(s, v)
    <3>2. /\ t \in JSPromiseData /\ t.state = s.state /\ t.result = s.result /\ t.reactions = s.reactions
          /\ t.handled = s.handled /\ t.told = s.told /\ t.registered = s.registered /\ t.lock = v
      <4>1. s \in JSPromiseData
        BY <1>3
      <4> HIDE DEF s
      <4> QED BY <3>1, <4>1 DEF Locking, JSPromiseData
    <3>3. [ps EXCEPT ![p] = t] \in Seq(JSPromiseData) /\ Changed(ps, [ps EXCEPT ![p] = t], p, t)
      BY <1>1, <1>2, <3>2, ExceptIs DEF Types
    <3> QED BY <2>2, <3>1, <3>2, <3>3 DEF Changed
  <2> QED BY <2>1, <2>2
<1> HIDE DEF ks, j
<1>8. /\ \A i \in DOMAIN js : i \in DOMAIN ks /\ ks[i] = js[i]
      /\ Len(js) + 1 \in DOMAIN ks /\ ks[Len(js) + 1] = j
      /\ \A i \in DOMAIN ks : i \in DOMAIN js \/ i = Len(js) + 1
      /\ DOMAIN js \subseteq Int /\ DOMAIN ks \subseteq Int
      /\ \A i \in DOMAIN ks : i + 0 = i /\ i - 0 = i
  BY <1>3, <1>6 DEF Longer
<1>9. Types(qs, qrs, cbs, ks, su, kn, hd, cs)
  BY <1>1, <1>2, <1>6, <1>7 DEF Types
<1>10. Refs(qs, qrs, cbs, ks, su, hd)
  <2>1. Grows(ps, prs, cbs, qs, qrs, cbs)
    BY <1>2, <1>3, <1>7 DEF Grows
  <2>2. /\ Values(ps) \subseteq Values(qs)
        /\ \A g : Public(prs, g) => Public(qrs, g)
        /\ \A q, r : ReactionOk(ps, prs, cbs, q, r) => ReactionOk(qs, qrs, cbs, q, r)
        /\ \A i : JobOk(ps, prs, cbs, i) => JobOk(qs, qrs, cbs, i)
        /\ \A e : FrameOk(ps, prs, cbs, e) => FrameOk(qs, qrs, cbs, e)
        /\ \A h : HeldOk(prs, cbs, h) => HeldOk(qrs, cbs, h)
    BY <1>3, <1>7, <2>1, GrowsRefs
  <2>3. ASSUME NEW q \in DOMAIN ps, q # p PROVE PromiseOk(qs, qrs, cbs, q)
    <3>1. PromiseOk(ps, prs, cbs, q) /\ qs[q] = ps[q]
      BY <2>3, <1>1, <1>7 DEF Refs
    <3> QED BY <1>7, <2>2, <3>1 DEF PromiseOk
  <2>4. PromiseOk(qs, qrs, cbs, p)
    <3>1. PromiseOk(ps, prs, cbs, p)
      BY <1>1, <1>2 DEF Refs
    <3>2. qs[p].lock <= Len(qs) /\ qs[p].lock # p
      BY <3>1, <1>3, <1>4, <1>7 DEF PromiseOk, Values
    <3> QED BY <1>7, <2>2, <3>1, <3>2 DEF PromiseOk
  <2>5. \A g \in DOMAIN prs : PairOk(qs, qrs[g])
    <3>1. \A g \in DOMAIN prs : PairOk(ps, prs[g]) /\ qrs[g].async = prs[g].async
      BY <1>1, <1>2 DEF Refs, Grows
    <3> QED BY <3>1, <1>2, <1>7 DEF PairOk
  <2>6. JobOk(ps, prs, cbs, j)
    BY <1>2, <1>4, <1>5 DEF JobOk
  <2>7. \A i \in DOMAIN ks : JobOk(qs, qrs, cbs, ks[i])
    BY <1>1, <1>8, <2>2, <2>6 DEF Refs
  <2> QED BY <1>1, <1>2, <1>7, <2>2, <2>3, <2>4, <2>5, <2>7 DEF Refs
<1>11. ASSUME NEW q \in DOMAIN qs PROVE Ways(qs, qrs, ks, su, q)
  <2>1. q \in DOMAIN ps /\ Ways(ps, prs, js, st, q) /\ qs[q].state = ps[q].state
    BY <1>7 DEF Good
  <2>2. CASE q # p
    <3>1. /\ \A g \in DOMAIN prs : ByPair(prs, q, g) => g \in DOMAIN qrs /\ ByPair(qrs, q, g)
          /\ \A g \in DOMAIN qrs : ByPair(qrs, q, g) => g \in DOMAIN prs /\ ByPair(prs, q, g)
          /\ \A i \in DOMAIN st : ByGetter(prs, st, q, i) => i \in DOMAIN su /\ ByGetter(qrs, su, q, i)
          /\ \A i \in DOMAIN su : ByGetter(qrs, su, q, i) => i \in DOMAIN st /\ ByGetter(prs, st, q, i)
      BY <2>1, <2>2, <1>2
    <3>2. /\ \A i \in DOMAIN js : ByJob(js, q, i) => i - 0 \in DOMAIN ks /\ ByJob(ks, q, i - 0)
          /\ \A i \in DOMAIN ks : ByJob(ks, q, i) => i + 0 \in DOMAIN js /\ ByJob(js, q, i + 0)
      BY <2>2, <1>5, <1>8 DEF ByJob
    <3> QED BY <2>1, <3>1, <3>2, <1>8, SameWays
  <2>3. CASE q = p
    <3>1. \A i \in DOMAIN ks : ByJob(ks, p, i) => i = Len(js) + 1
      BY <1>2, <1>8 DEF ByJob
    <3>2. ByJob(ks, p, Len(js) + 1)
      BY <1>5, <1>8 DEF ByJob
    <3> QED BY <2>3, <3>1, <3>2, <1>2, <1>7, <1>8 DEF Ways
  <2> QED BY <2>2, <2>3
<1>12. ASSUME NEW q \in DOMAIN qs PROVE Ordered(qs[q], ks, cs[q], q)
  <2>1. Ordered(ps[q], js, cs[q], q)
    BY <1>7 DEF Good
  <2>2. /\ \A i \in DOMAIN js : Of(js, q, i) => i - 0 \in DOMAIN ks /\ ks[i - 0] = js[i]
        /\ \A i \in DOMAIN ks : Of(ks, q, i) => i + 0 \in DOMAIN js /\ js[i + 0] = ks[i]
    BY <1>5, <1>8 DEF Of
  <2>3. Ordered(ps[q], ks, cs[q], q)
    BY <2>1, <2>2, <1>8, SameOrder
  <2>4. /\ qs[q].state = ps[q].state /\ qs[q].result = ps[q].result
        /\ qs[q].reactions = ps[q].reactions /\ qs[q].registered = ps[q].registered
    BY <1>7
  <2> QED BY <2>3, <2>4 DEF Ordered
<1>13. Following(qs, qrs, ks, 0)
  <2>1. Following(ps, prs, js, x)
    BY DEF Good
  <2>2. \A q \in DOMAIN ps : /\ qs[q].state = ps[q].state /\ qs[q].result = ps[q].result
                             /\ qs[q].reactions = ps[q].reactions
    BY <1>7
  <2>3. ASSUME NEW g \in DOMAIN qrs PROVE Follower(qs, qrs, ks, 0, g)
    <3>1. g \in DOMAIN prs /\ Follower(ps, prs, js, x, g)
      BY <2>1, <1>2 DEF Following
    <3>2. SUFFICES ASSUME ~qrs[g].resolved, prs[g].follows # Plain
                   PROVE  /\ qs[prs[g].promise].lock = prs[g].follows
                          /\ Awaited(qs, ks, g, prs[g].follows)
      BY <3>1, <1>2 DEF Follower
    <3>3. ~prs[g].resolved /\ prs[g].promise # p /\ prs[g].promise \in DOMAIN ps /\ prs[g].follows \in DOMAIN ps
      BY <3>1, <3>2, <1>1, <1>2, Targets
    <3>4. g # x
      BY <3>1, <3>3, <1>3 DEF UsesPair, EndsGetter
    <3>5. ps[prs[g].promise].lock = prs[g].follows /\ Awaited(ps, js, g, prs[g].follows)
      BY <3>1, <3>2, <3>3, <3>4 DEF Follower
    <3>6. Awaited(qs, ks, g, prs[g].follows)
      BY <3>3, <3>5, <2>2, <1>8 DEF Awaited, Of
    <3> QED BY <3>3, <3>5, <3>6, <1>7
  <2>4. ASSUME NEW i \in DOMAIN ks, ks[i].job = "thenable", ks[i].arg # Thenable
        PROVE  qs[ks[i].promise].lock = ks[i].arg
    <3>1. CASE i \in DOMAIN js
      <4>1. ks[i] = js[i] /\ ks[i].promise \in DOMAIN ps /\ ks[i].promise # p
        BY <2>4, <3>1, <1>1, <1>2, <1>8, Targets DEF ByJob
      <4> QED BY <2>1, <2>4, <3>1, <4>1, <1>7 DEF Following, Adopts
    <3>2. CASE i = Len(js) + 1
      BY <2>4, <3>2, <1>5, <1>7, <1>8
    <3> QED BY <3>1, <3>2, <1>8
  <2>5. ASSUME NEW q \in DOMAIN qs PROVE Locked(qs, qrs, ks, q)
    <3>1. q \in DOMAIN ps /\ Locked(ps, prs, js, q)
      BY <2>1, <1>7 DEF Following
    <3>2. ASSUME q # p PROVE Locked(qs, qrs, ks, q)
      <4>1. qs[q] = ps[q]
        BY <3>1, <3>2, <1>7
      <4>2. SUFFICES ASSUME ps[q].lock # Plain PROVE Locked(qs, qrs, ks, q)
        BY <4>1 DEF Locked
      <4>3. ps[q].lock \in DOMAIN ps
        BY <3>1, <4>2, <1>1, Targets
      <4>4. \A i \in DOMAIN js : ByJob(js, q, i) => i \in DOMAIN ks /\ ByJob(ks, q, i) /\ ks[i] = js[i]
        BY <1>8 DEF ByJob
      <4>5. \A g \in DOMAIN prs : ByPair(prs, q, g) => g \in DOMAIN qrs /\ ByPair(qrs, q, g) /\ qrs[g].follows = prs[g].follows
        BY <3>1, <3>2, <1>2
      <4> QED BY <3>1, <4>1, <4>2, <4>3, <4>4, <4>5, <2>2 DEF Locked, Done
    <3>3. ASSUME q = p, v # Thenable PROVE Locked(qs, qrs, ks, q)
      <4>1. ByJob(ks, p, Len(js) + 1) /\ ks[Len(js) + 1].arg = v /\ qs[p].lock = v /\ ~Done(qs, p)
        BY <3>3, <1>2, <1>5, <1>7, <1>8 DEF ByJob, Done
      <4> QED BY <3>3, <4>1, <1>8 DEF Locked
    <3>4. ASSUME q = p, v = Thenable PROVE Locked(qs, qrs, ks, q)
      <4>1. SUFFICES ASSUME ps[p].lock # Plain PROVE Locked(qs, qrs, ks, p)
        BY <3>4, <1>7 DEF Locked
      <4>2. EndsGetter(prs, st, p, x, qrs, su) /\ ps[p].lock \in DOMAIN ps
        <5>1. Thenable \notin DOMAIN ps
          BY <1>3 DEF Thenable
        <5>2. ps[p].lock \in DOMAIN ps
          BY <4>1, <1>1, <1>2, Targets
        <5> QED BY <3>4, <5>1, <5>2
      <4>3. \A g \in DOMAIN prs : ~ByPair(prs, p, g)
        BY <4>2, <1>2 DEF EndsGetter
      <4>4. Done(ps, ps[p].lock) /\ ps[ps[p].lock].result = Thenable
        BY <3>1, <3>4, <4>1, <4>3, <1>2 DEF Locked, Done
      <4> QED BY <3>4, <4>2, <4>4, <2>2, <1>2, <1>7 DEF Locked, Done
    <3> QED BY <3>2, <3>3, <3>4
  <2> QED BY <2>3, <2>4, <2>5 DEF Following, Adopts
<1>14. 0 \in 0..Len(qrs)
  BY <1>2, <1>3
<1>15. Good(qs, qrs, cbs, ks, su, kn, hd, cs, 0)
  BY <1>2, <1>9, <1>10, <1>11, <1>12, <1>13, <1>14 DEF Good
<1> QED BY <1>15 DEF ks, j

\* A pair that has been used before is let go of.
LEMMA UsedBefore ==
  ASSUME NEW ps, NEW prs, NEW cbs, NEW js, NEW st, NEW kn, NEW hd, NEW cs, NEW x,
         Good(ps, prs, cbs, js, st, kn, hd, cs, x),
         x = 0 \/ prs[x].resolved
  PROVE  Good(ps, prs, cbs, js, st, kn, hd, cs, 0)
<1>1. Types(ps, prs, cbs, js, st, kn, hd, cs) /\ x \in 0..Len(prs)
  BY DEF Good
<1>2. DOMAIN prs = 1..Len(prs) /\ Len(prs) \in Nat
  BY <1>1, Facts
<1>3. Following(ps, prs, js, x)
  BY DEF Good
<1>4. ASSUME NEW f \in DOMAIN prs PROVE Follower(ps, prs, js, 0, f)
  BY <1>3, <1>2 DEF Following, Follower
<1>5. Following(ps, prs, js, 0)
  BY <1>3, <1>4 DEF Following
<1> QED BY <1>2, <1>5 DEF Good

\* The stack, but for getters.
LEMMA Push ==
  ASSUME NEW ps, NEW prs, NEW cbs, NEW js, NEW st, NEW kn, NEW hd, NEW cs, NEW x,
         Good(ps, prs, cbs, js, st, kn, hd, cs, x),
         NEW e \in FrameData, FrameOk(ps, prs, cbs, e), e.call \notin {"getThen", "all"},
         e.call = "itemThen" => st # <<>> /\ st[Len(st)].call = "all" /\ st[Len(st)].of = e.of,
         NEW y, IF e.call = "async" THEN e.of = x /\ y = 0 /\ prs[x].follows = Plain ELSE y = x
  PROVE  Good(ps, prs, cbs, js, Append(st, e), kn, hd, cs, y)
<1> DEFINE su == Append(st, e)
<1>1. /\ Types(ps, prs, cbs, js, st, kn, hd, cs) /\ Refs(ps, prs, cbs, js, st, hd) /\ x \in 0..Len(prs)
      /\ Below(st) /\ Counts(cbs, st)
  BY DEF Good
<1>2. DOMAIN prs = 1..Len(prs) /\ Len(prs) \in Nat /\ DOMAIN st = 1..Len(st) /\ Len(st) \in Nat
  BY <1>1, Facts
<1>3. su \in Seq(FrameData) /\ Longer(st, su, e)
  BY <1>1, AppendIs DEF Types
<1> HIDE DEF su
<1>4. /\ \A i \in DOMAIN st : i \in DOMAIN su /\ su[i] = st[i]
      /\ Len(st) + 1 \in DOMAIN su /\ su[Len(st) + 1] = e
      /\ \A i \in DOMAIN su : i \in DOMAIN st \/ i = Len(st) + 1
      /\ \A i \in DOMAIN st : i > 1 => i - 1 \in DOMAIN st
  BY <1>2, <1>3 DEF Longer
<1>5. Types(ps, prs, cbs, js, su, kn, hd, cs)
  BY <1>1, <1>3 DEF Types
<1>6. Refs(ps, prs, cbs, js, su, hd)
  BY <1>1, <1>4 DEF Refs
<1>7. Below(su)
  <2>1. ASSUME NEW i \in DOMAIN su, su[i].call = "itemThen"
        PROVE  i > 1 /\ su[i - 1].call = "all" /\ su[i - 1].of = su[i].of
    <3>1. CASE i \in DOMAIN st
      BY <2>1, <3>1, <1>1, <1>4 DEF Below
    <3>2. CASE i = Len(st) + 1
      <4>1. st # <<>> /\ st[Len(st)].call = "all" /\ st[Len(st)].of = e.of
        BY <2>1, <3>2, <1>4
      <4>2. Len(st) # 0
        BY <1>1, <4>1, EmptySeq DEF Types
      <4>3. Len(st) \in DOMAIN st /\ i - 1 = Len(st) /\ i > 1
        BY <3>2, <4>2, <1>2
      <4> QED BY <3>2, <4>1, <4>3, <1>4
    <3> QED BY <3>1, <3>2, <1>4
  <2>2. \A i, k \in DOMAIN su : su[i].call = "all" /\ su[k].call = "all" /\ su[i].of = su[k].of => i = k
    BY <1>1, <1>4 DEF Below
  <2> QED BY <2>1, <2>2 DEF Below
<1>8. \A c : Loops(su, c) => Loops(st, c)
  BY <1>4 DEF Loops
<1>9. Counts(cbs, su)
  BY <1>1, <1>8 DEF Counts, ItemsCounted
<1>10. ASSUME NEW p \in DOMAIN ps PROVE Ways(ps, prs, js, su, p)
  <2>1. Ways(ps, prs, js, st, p)
    BY DEF Good
  <2>2. /\ \A i \in DOMAIN st : ByGetter(prs, st, p, i) => i \in DOMAIN su /\ ByGetter(prs, su, p, i)
        /\ \A i \in DOMAIN su : ByGetter(prs, su, p, i) => i \in DOMAIN st /\ ByGetter(prs, st, p, i)
    BY <1>4 DEF ByGetter
  <2> QED BY <2>1, <2>2 DEF Ways
<1>11. Following(ps, prs, js, y)
  <2>1. Following(ps, prs, js, x)
    BY DEF Good
  <2>2. ASSUME NEW f \in DOMAIN prs PROVE Follower(ps, prs, js, y, f)
    BY <2>1, <1>2 DEF Following, Follower
  <2> QED BY <2>1, <2>2 DEF Following
<1>12. y \in 0..Len(prs)
  BY <1>1, <1>2
<1>13. Good(ps, prs, cbs, js, su, kn, hd, cs, y)
  BY <1>5, <1>6, <1>7, <1>9, <1>10, <1>11, <1>12 DEF Good
<1> QED BY <1>13 DEF su

LEMMA Pop ==
  ASSUME NEW ps, NEW prs, NEW cbs, NEW js, NEW st, NEW kn, NEW hd, NEW cs,
         Good(ps, prs, cbs, js, st, kn, hd, cs, 0),
         st # <<>>, st[Len(st)].call # "getThen",
         NEW y, y = IF st[Len(st)].call = "async" THEN st[Len(st)].of ELSE 0
  PROVE  /\ Good(ps, prs, cbs, js, SubSeq(st, 1, Len(st) - 1), kn, hd, cs, y)
         /\ FrameOk(ps, prs, cbs, st[Len(st)]) /\ st[Len(st)] \in FrameData
<1> DEFINE n == Len(st)
           su == SubSeq(st, 1, n - 1)
<1>1. /\ Types(ps, prs, cbs, js, st, kn, hd, cs) /\ Refs(ps, prs, cbs, js, st, hd)
      /\ st \in Seq(FrameData) /\ Below(st) /\ Counts(cbs, st)
  BY DEF Good, Types
<1>2. DOMAIN prs = 1..Len(prs) /\ Len(prs) \in Nat
  BY <1>1, Facts
<1>3. su \in Seq(FrameData) /\ Front(st, su) /\ n \in DOMAIN st /\ st # <<>> /\ n = Len(st)
  BY <1>1, FrontIs
<1> HIDE DEF su
<1>4. /\ Below(su) /\ Counts(cbs, su)
      /\ \A i \in DOMAIN su : i \in DOMAIN st /\ su[i] = st[i] /\ i # n
      /\ \A i \in DOMAIN st : i # n => i \in DOMAIN su
  BY ONLY <1>1, <1>3, FrontBelow DEF n
<1>5. st[n].call # "getThen" /\ y = IF st[n].call = "async" THEN st[n].of ELSE 0
  OBVIOUS
<1> HIDE DEF n
<1>6. FrameOk(ps, prs, cbs, st[n]) /\ st[n] \in FrameData
  BY <1>1, <1>3, Domain DEF Refs
<1>7. Types(ps, prs, cbs, js, su, kn, hd, cs) /\ Refs(ps, prs, cbs, js, su, hd)
  BY <1>1, <1>3, <1>4 DEF Types, Refs
<1>8. ASSUME NEW p \in DOMAIN ps PROVE Ways(ps, prs, js, su, p)
  <2>1. Ways(ps, prs, js, st, p)
    BY DEF Good
  <2>2. /\ \A i \in DOMAIN st : ByGetter(prs, st, p, i) => i \in DOMAIN su /\ ByGetter(prs, su, p, i)
        /\ \A i \in DOMAIN su : ByGetter(prs, su, p, i) => i \in DOMAIN st /\ ByGetter(prs, st, p, i)
    BY <1>4, <1>5 DEF ByGetter
  <2> QED BY <2>1, <2>2 DEF Ways
<1>9. Following(ps, prs, js, y)
  <2>1. Following(ps, prs, js, 0)
    BY DEF Good
  <2>2. ASSUME NEW f \in DOMAIN prs PROVE Follower(ps, prs, js, y, f)
    BY <2>1, <1>2 DEF Following, Follower
  <2> QED BY <2>1, <2>2 DEF Following
<1>10. y \in 0..Len(prs)
  BY <1>2, <1>5, <1>6 DEF FrameOk
<1>11. Good(ps, prs, cbs, js, su, kn, hd, cs, y)
  BY <1>4, <1>7, <1>8, <1>9, <1>10 DEF Good
<1> QED BY <1>6, <1>11 DEF su, n

\* What the program gets a reference to.
LEMMA Gives ==
  ASSUME NEW ps, NEW prs, NEW cbs, NEW js, NEW st, NEW kn, NEW hd, NEW cs, NEW x,
         Good(ps, prs, cbs, js, st, kn, hd, cs, x),
         NEW km, km \subseteq kn \cup DOMAIN ps,
         NEW he, \A h \in he : h \in hd \/ (h \in Callables /\ HeldOk(prs, cbs, h))
  PROVE  Good(ps, prs, cbs, js, st, km, he, cs, x)
<1>1. /\ Types(ps, prs, cbs, js, st, kn, hd, cs) /\ Refs(ps, prs, cbs, js, st, hd)
  BY DEF Good
<1>2. Types(ps, prs, cbs, js, st, km, he, cs)
  BY <1>1 DEF Types
<1>3. Refs(ps, prs, cbs, js, st, he)
  BY <1>1 DEF Refs
<1> QED BY <1>2, <1>3 DEF Good

\* js_promise_resolve_function_call looks up then on a thenable.
LEMMA AsksGetter ==
  ASSUME NEW ps, NEW prs, NEW cbs, NEW js, NEW st, NEW kn, NEW hd, NEW cs, NEW x,
         Good(ps, prs, cbs, js, st, kn, hd, cs, x),
         NEW p, NEW f, NEW qrs, UsesPair(prs, st, p, f, x, qrs, st),
         FollowsTruly(ps, prs, f, FALSE, Thenable)
  PROVE  Good(ps, qrs, cbs, js, Append(st, Frame("getThen", f)), kn, hd, cs, 0)
<1> DEFINE e == Frame("getThen", f)
           su == Append(st, e)
<1>1. /\ Types(ps, prs, cbs, js, st, kn, hd, cs) /\ Refs(ps, prs, cbs, js, st, hd)
      /\ Below(st) /\ Counts(cbs, st)
  BY DEF Good
<1>2. /\ qrs \in Seq(PairData) /\ Len(qrs) = Len(prs) /\ DOMAIN qrs = DOMAIN prs
      /\ Grows(ps, prs, cbs, ps, qrs, cbs)
      /\ p \in DOMAIN ps /\ ps[p].state = "pending"
      /\ \A g \in DOMAIN prs : ~qrs[g].resolved => ~prs[g].resolved /\ prs[g].promise # p
      /\ \A g \in DOMAIN prs : qrs[g].promise = prs[g].promise /\ qrs[g].follows = prs[g].follows
      /\ \A q \in DOMAIN ps : q # p => \A g \in DOMAIN prs : ByPair(qrs, q, g) <=> ByPair(prs, q, g)
      /\ \A g \in DOMAIN qrs : ~ByPair(qrs, p, g)
      /\ \A i \in DOMAIN st : ~ByGetter(qrs, st, p, i)
      /\ \A i \in DOMAIN js : ~ByJob(js, p, i)
  BY WayUsed
<1>3. /\ Len(ps) \in Nat /\ DOMAIN prs = 1..Len(prs) /\ Len(prs) \in Nat
      /\ DOMAIN st = 1..Len(st) /\ Len(st) \in Nat
  BY <1>1, Facts
<1>4. f \in DOMAIN prs /\ ~prs[f].resolved /\ prs[f].promise = p /\ x \in {0, f}
  BY DEF UsesPair
<1>5. e \in FrameData /\ e.call = "getThen" /\ e.of = f /\ e.arg = Plain
  BY <1>3, <1>4 DEF Frame, FrameData, UserCalls, Plain
<1>6. su \in Seq(FrameData) /\ Longer(st, su, e)
  BY <1>1, <1>5, AppendIs DEF Types
<1> HIDE DEF su, e
<1>7. /\ \A i \in DOMAIN st : i \in DOMAIN su /\ su[i] = st[i]
      /\ Len(st) + 1 \in DOMAIN su /\ su[Len(st) + 1] = e
      /\ \A i \in DOMAIN su : i \in DOMAIN st \/ i = Len(st) + 1
      /\ \A i \in DOMAIN st : i > 1 => i - 1 \in DOMAIN st
  BY <1>3, <1>6 DEF Longer
<1>8. Types(ps, qrs, cbs, js, su, kn, hd, cs)
  BY <1>1, <1>2, <1>6 DEF Types
<1>9. Refs(ps, qrs, cbs, js, su, hd)
  <2>1. /\ \A g : Public(prs, g) => Public(qrs, g)
        /\ \A q, r : ReactionOk(ps, prs, cbs, q, r) => ReactionOk(ps, qrs, cbs, q, r)
        /\ \A i : JobOk(ps, prs, cbs, i) => JobOk(ps, qrs, cbs, i)
        /\ \A i : FrameOk(ps, prs, cbs, i) => FrameOk(ps, qrs, cbs, i)
        /\ \A h : HeldOk(prs, cbs, h) => HeldOk(qrs, cbs, h)
    BY <1>2, <1>3, GrowsRefs
  <2>2. \A q \in DOMAIN ps : PromiseOk(ps, qrs, cbs, q)
    BY <1>1, <2>1 DEF Refs, PromiseOk
  <2>3. \A g \in DOMAIN prs : PairOk(ps, qrs[g])
    <3>1. \A g \in DOMAIN prs : PairOk(ps, prs[g]) /\ qrs[g].async = prs[g].async
      BY <1>1, <1>2 DEF Refs, Grows
    <3> QED BY <3>1, <1>2 DEF PairOk
  <2>4. FrameOk(ps, prs, cbs, e)
    BY <1>3, <1>4, <1>5 DEF FrameOk, Values, Plain, Collected
  <2> QED BY <1>1, <1>2, <1>7, <2>1, <2>2, <2>3, <2>4 DEF Refs
<1>10. Below(su)
  <2>1. ASSUME NEW i \in DOMAIN su, su[i].call = "itemThen"
        PROVE  i > 1 /\ su[i - 1].call = "all" /\ su[i - 1].of = su[i].of
    BY <2>1, <1>1, <1>5, <1>7 DEF Below
  <2>2. \A i, k \in DOMAIN su : su[i].call = "all" /\ su[k].call = "all" /\ su[i].of = su[k].of => i = k
    BY <1>1, <1>5, <1>7 DEF Below
  <2> QED BY <2>1, <2>2 DEF Below
<1>11. \A c : Loops(su, c) => Loops(st, c)
  BY <1>5, <1>7 DEF Loops
<1>12. Counts(cbs, su)
  BY <1>1, <1>11 DEF Counts, ItemsCounted
<1>13. \A i \in DOMAIN st : st[i].call = "getThen" => st[i].of \in DOMAIN prs
  BY <1>1, Targets
<1>14. ASSUME NEW q \in DOMAIN ps PROVE Ways(ps, qrs, js, su, q)
  <2>1. Ways(ps, prs, js, st, q)
    BY DEF Good
  <2>2. \A i \in DOMAIN st : ByGetter(qrs, su, q, i) <=> ByGetter(prs, st, q, i)
    BY <1>2, <1>7, <1>13 DEF ByGetter
  <2>3. CASE q # p
    <3>1. ~ByGetter(qrs, su, q, Len(st) + 1)
      BY <2>3, <1>2, <1>4, <1>5, <1>7 DEF ByGetter
    <3>2. /\ \A i \in DOMAIN st : ByGetter(prs, st, q, i) => i \in DOMAIN su /\ ByGetter(qrs, su, q, i)
          /\ \A i \in DOMAIN su : ByGetter(qrs, su, q, i) => i \in DOMAIN st /\ ByGetter(prs, st, q, i)
      BY <2>2, <3>1, <1>7
    <3>3. /\ \A g \in DOMAIN prs : ByPair(prs, q, g) => g \in DOMAIN qrs /\ ByPair(qrs, q, g)
          /\ \A g \in DOMAIN qrs : ByPair(qrs, q, g) => g \in DOMAIN prs /\ ByPair(prs, q, g)
      BY <2>3, <1>2
    <3> QED BY <2>1, <3>2, <3>3 DEF Ways
  <2>4. CASE q = p
    <3>1. ByGetter(qrs, su, p, Len(st) + 1)
      BY <1>2, <1>4, <1>5, <1>7 DEF ByGetter
    <3>2. \A i \in DOMAIN su : ByGetter(qrs, su, p, i) => i = Len(st) + 1
      BY <1>2, <1>7 DEF ByGetter
    <3> QED BY <2>4, <3>1, <3>2, <1>2, <1>7 DEF Ways
  <2> QED BY <2>3, <2>4
<1>15. Following(ps, qrs, js, 0)
  <2>1. Following(ps, prs, js, x)
    BY DEF Good
  <2>2. ASSUME NEW g \in DOMAIN qrs PROVE Follower(ps, qrs, js, 0, g)
    <3>1. Follower(ps, prs, js, x, g) /\ g \in DOMAIN prs
      BY <2>1, <1>2 DEF Following
    <3>2. ~qrs[g].resolved => ~prs[g].resolved /\ g # x
      BY <3>1, <1>2, <1>3, <1>4
    <3> QED BY <3>1, <3>2, <1>2 DEF Follower
  <2>3. ASSUME NEW q \in DOMAIN ps PROVE Locked(ps, qrs, js, q)
    <3>1. Locked(ps, prs, js, q)
      BY <2>1 DEF Following
    <3>2. CASE q # p
      BY <3>1, <3>2, <1>2 DEF Locked
    <3>3. CASE q = p
      <4>1. SUFFICES ASSUME ps[p].lock # Plain PROVE Locked(ps, qrs, js, p)
        BY <3>3 DEF Locked
      <4>2. ~Done(ps, p)
        BY <1>2 DEF Done
      <4>3. CASE \E g \in DOMAIN prs : ByPair(prs, p, g) /\ prs[g].follows = ps[p].lock
        <5>1. PICK g \in DOMAIN prs : ByPair(prs, p, g) /\ prs[g].follows = ps[p].lock
          BY <4>3
        <5>2. Ways(ps, prs, js, st, p) /\ ByPair(prs, p, f)
          BY <1>2, <1>4 DEF Good, ByPair
        <5>3. g = f
          BY <5>1, <5>2, <1>4 DEF Ways
        <5>4. Done(ps, ps[p].lock) /\ ps[ps[p].lock].result = Thenable
          BY <5>1, <5>3, <4>1 DEF FollowsTruly, Done
        <5> QED BY <4>2, <5>4 DEF Locked
      <4>4. CASE Done(ps, ps[p].lock) /\ ps[ps[p].lock].result = Thenable
        BY <4>2, <4>4 DEF Locked
      <4> QED BY <3>1, <3>3, <4>1, <4>2, <4>3, <4>4, <1>2 DEF Locked
    <3> QED BY <3>2, <3>3
  <2> QED BY <2>1, <2>2, <2>3 DEF Following
<1>16. 0 \in 0..Len(qrs)
  BY <1>2, <1>3
<1>17. Good(ps, qrs, cbs, js, su, kn, hd, cs, 0)
  BY <1>8, <1>9, <1>10, <1>12, <1>14, <1>15, <1>16 DEF Good
<1> QED BY <1>17 DEF su, e

\* The set of elements that were called is finite.
LEMMA CalledFinite ==
  ASSUME NEW e \in ComboData, NEW l, ItemsCounted(e, l)
  PROVE  /\ IsFiniteSet(e.called) /\ Cardinality(e.called) \in Nat
         /\ Cardinality(e.called) <= 2 * e.n /\ e.n \in Nat /\ e.remaining \in Int
<1> DEFINE F == {"element", "rejectElement"}
           I == 1..e.n
<1>1. e.n \in Nat /\ e.remaining \in Int /\ e.called \subseteq F \X I
  BY DEF ComboData, ItemsCounted
<1>2. IsFiniteSet(I) /\ Cardinality(I) = e.n
  <2>1. IsFiniteSet(1..e.n) /\ Cardinality(1..e.n) = IF 1 > e.n THEN 0 ELSE e.n - 1 + 1
    BY <1>1, FS_Interval
  <2> QED BY <2>1, <1>1
<1>3. IsFiniteSet(F) /\ Cardinality(F) = 2
  <2>1. IsFiniteSet({"element"}) /\ Cardinality({"element"}) = 1
    BY FS_Singleton
  <2>2. F = {"element"} \cup {"rejectElement"} /\ "rejectElement" \notin {"element"}
    OBVIOUS
  <2>3. IsFiniteSet({"element"} \cup {"rejectElement"}) /\ Cardinality({"element"} \cup {"rejectElement"}) = 1 + 1
    BY <2>1, <2>2, FS_AddElement
  <2> QED BY <2>2, <2>3
<1> HIDE DEF F, I
<1>4. IsFiniteSet(F \X I) /\ Cardinality(F \X I) = 2 * e.n
  BY <1>1, <1>2, <1>3, FS_Product
<1>5. IsFiniteSet(e.called) /\ Cardinality(e.called) <= Cardinality(F \X I)
  BY <1>1, <1>4, FS_Subset
<1>6. Cardinality(e.called) \in Nat
  BY <1>5, FS_CardinalityType
<1> QED BY <1>1, <1>4, <1>5, <1>6

\* A combinator counts something.
LEMMA ComboChanges ==
  ASSUME NEW ps, NEW prs, NEW cbs, NEW js, NEW st, NEW kn, NEW hd, NEW cs, NEW x,
         Good(ps, prs, cbs, js, st, kn, hd, cs, x),
         NEW c \in DOMAIN cbs, NEW e \in ComboData,
         e.type = cbs[c].type, e.cap = cbs[c].cap, cbs[c].foreign \subseteq e.foreign,
         (1..cbs[c].n) \ cbs[c].foreign \subseteq (1..e.n) \ e.foreign,
         ItemsCounted(e, Loops(st, c))
  PROVE  Good(ps, prs, [cbs EXCEPT ![c] = e], js, st, kn, hd, cs, x)
<1> DEFINE ebs == [cbs EXCEPT ![c] = e]
<1>1. /\ Types(ps, prs, cbs, js, st, kn, hd, cs) /\ Refs(ps, prs, cbs, js, st, hd)
      /\ cbs \in Seq(ComboData) /\ Counts(cbs, st)
  BY DEF Good, Types
<1>2. ebs \in Seq(ComboData) /\ Changed(cbs, ebs, c, e)
  BY <1>1, ExceptIs
<1> HIDE DEF ebs
<1>3. /\ DOMAIN ebs = DOMAIN cbs /\ ebs[c] = e
      /\ \A d \in DOMAIN cbs : d # c => ebs[d] = cbs[d]
  BY <1>2 DEF Changed
<1>4. Len(ps) \in Nat
  BY <1>1, Facts
<1>5. Grows(ps, prs, cbs, ps, prs, ebs)
  BY <1>3 DEF Grows, Native
<1>6. Types(ps, prs, ebs, js, st, kn, hd, cs)
  BY <1>1, <1>2 DEF Types
<1>7. Refs(ps, prs, ebs, js, st, hd)
  <2>1. /\ \A p, r : ReactionOk(ps, prs, cbs, p, r) => ReactionOk(ps, prs, ebs, p, r)
        /\ \A j : JobOk(ps, prs, cbs, j) => JobOk(ps, prs, ebs, j)
        /\ \A f : FrameOk(ps, prs, cbs, f) => FrameOk(ps, prs, ebs, f)
        /\ \A h : HeldOk(prs, cbs, h) => HeldOk(prs, ebs, h)
    BY <1>4, <1>5, GrowsRefs
  <2>2. \A p \in DOMAIN ps : PromiseOk(ps, prs, ebs, p)
    BY <1>1, <2>1 DEF Refs, PromiseOk
  <2>3. \A d \in DOMAIN ebs : Public(prs, ebs[d].cap)
    BY <1>1, <1>3 DEF Refs
  <2> QED BY <1>1, <2>1, <2>2, <2>3 DEF Refs
<1>8. Counts(ebs, st)
  BY <1>1, <1>3 DEF Counts
<1>9. Good(ps, prs, ebs, js, st, kn, hd, cs, x)
  BY <1>6, <1>7, <1>8 DEF Good
<1> QED BY <1>9 DEF ebs

\* js_promise_all_resolve_element: the element el, of item i, is called.
Answer(e, el, i) ==
  [e EXCEPT !.called = @ \cup {el}, !.answered = @ \cup {i}, !.remaining = @ - 1]

LEMMA AnswerIs ==
  ASSUME NEW b \in ComboData, NEW el, NEW i \in Nat,
         b.called \cup {el} \in SUBSET ({"element", "rejectElement"} \X Nat)
  PROVE  LET e == Answer(b, el, i) IN
         /\ e \in ComboData /\ e.type = b.type /\ e.cap = b.cap /\ e.foreign = b.foreign /\ e.n = b.n
         /\ e.called = b.called \cup {el} /\ e.answered = b.answered \cup {i}
         /\ e.remaining = b.remaining - 1
<1> DEFINE u == [b EXCEPT !.called = b.called \cup {el}]
           w == [u EXCEPT !.answered = b.answered \cup {i}]
<1>1. /\ u \in ComboData /\ u.type = b.type /\ u.cap = b.cap /\ u.foreign = b.foreign /\ u.n = b.n
      /\ u.called = b.called \cup {el} /\ u.answered = b.answered /\ u.remaining = b.remaining
  BY DEF ComboData
<1>2. Answer(b, el, i) = [w EXCEPT !.remaining = b.remaining - 1]
  BY <1>1 DEF Answer, ComboData
<1> HIDE DEF u
<1>3. /\ w \in ComboData /\ w.type = b.type /\ w.cap = b.cap /\ w.foreign = b.foreign /\ w.n = b.n
      /\ w.called = b.called \cup {el} /\ w.answered = b.answered \cup {i} /\ w.remaining = b.remaining
  <2>1. b.answered \cup {i} \in SUBSET Nat
    BY DEF ComboData
  <2> QED BY <1>1, <2>1 DEF ComboData
<1>4. b.remaining - 1 \in Int
  BY DEF ComboData
<1> HIDE DEF w
<1> QED BY <1>2, <1>3, <1>4 DEF ComboData

LEMMA Answers ==
  ASSUME NEW ps, NEW prs, NEW cbs, NEW js, NEW st, NEW kn, NEW hd, NEW cs, NEW x,
         Good(ps, prs, cbs, js, st, kn, hd, cs, x),
         NEW c \in DOMAIN cbs, NEW i \in 1..cbs[c].n, NEW fn \in {"element", "rejectElement"},
         <<fn, i>> \notin cbs[c].called, cbs[c].type # "race"
  PROVE  Good(ps, prs, [cbs EXCEPT ![c] = Answer(cbs[c], <<fn, i>>, i)], js, st, kn, hd, cs, x)
<1> DEFINE b == cbs[c]
           el == <<fn, i>>
           e == Answer(b, el, i)
<1>1. Types(ps, prs, cbs, js, st, kn, hd, cs) /\ Counts(cbs, st)
  BY DEF Good
<1>2. b \in ComboData /\ ItemsCounted(b, Loops(st, c))
  BY <1>1, Facts DEF Counts
<1>3. el \in {"element", "rejectElement"} \X (1..b.n) /\ el \notin b.called /\ i \in 1..b.n /\ b.type # "race"
  OBVIOUS
<1> HIDE DEF b, el
<1>4. /\ IsFiniteSet(b.called) /\ Cardinality(b.called) \in Nat /\ b.n \in Nat /\ b.remaining \in Int
  BY <1>2, CalledFinite
<1>5. el \in {"element", "rejectElement"} \X Nat /\ i \in Nat
  BY <1>3, <1>4
<1>6. b.called \cup {el} \in SUBSET ({"element", "rejectElement"} \X Nat)
  BY <1>2, <1>5 DEF ComboData
<1>7. /\ e \in ComboData /\ e.type = b.type /\ e.cap = b.cap /\ e.foreign = b.foreign /\ e.n = b.n
      /\ e.called = b.called \cup {el} /\ e.remaining = b.remaining - 1
  BY <1>2, <1>5, <1>6, AnswerIs
<1> HIDE DEF e
<1>8. Cardinality(e.called) = Cardinality(b.called) + 1
  BY <1>3, <1>4, <1>7, FS_AddElement
<1>9. e.remaining + Cardinality(e.called) - e.n = b.remaining + Cardinality(b.called) - b.n
  BY <1>4, <1>7, <1>8
<1>10. ItemsCounted(e, Loops(st, c))
  BY <1>2, <1>3, <1>7, <1>9 DEF ItemsCounted
<1>11. e.type = cbs[c].type /\ e.cap = cbs[c].cap /\ e.foreign = cbs[c].foreign /\ e.n = cbs[c].n
  BY <1>7 DEF b
<1>12. Good(ps, prs, [cbs EXCEPT ![c] = e], js, st, kn, hd, cs, x)
  BY <1>7, <1>10, <1>11, ComboChanges
<1> QED BY <1>12 DEF e, b, el

\* The loop comes to one more item, of a promise of the engine or not.
Count(e, foreign) ==
  [e EXCEPT !.n = @ + 1, !.remaining = IF e.type = "race" THEN @ ELSE @ + 1,
            !.foreign = @ \cup foreign]

LEMMA CountIs ==
  ASSUME NEW b \in ComboData, NEW foreign \in SUBSET Nat
  PROVE  LET e == Count(b, foreign) IN
         /\ e \in ComboData /\ e.type = b.type /\ e.cap = b.cap /\ e.n = b.n + 1
         /\ e.foreign = b.foreign \cup foreign /\ e.called = b.called /\ e.answered = b.answered
         /\ e.remaining = IF b.type = "race" THEN b.remaining ELSE b.remaining + 1
<1> DEFINE u == [b EXCEPT !.n = b.n + 1]
           r == IF b.type = "race" THEN b.remaining ELSE b.remaining + 1
           w == [u EXCEPT !.remaining = r]
<1>1. /\ u \in ComboData /\ u.type = b.type /\ u.cap = b.cap /\ u.foreign = b.foreign /\ u.n = b.n + 1
      /\ u.called = b.called /\ u.answered = b.answered /\ u.remaining = b.remaining
  BY DEF ComboData
<1>2. Count(b, foreign) = [w EXCEPT !.foreign = b.foreign \cup foreign]
  BY <1>1 DEF Count, ComboData
<1> HIDE DEF u
<1>3. r \in Int
  BY DEF ComboData
<1> HIDE DEF r
<1>4. /\ w \in ComboData /\ w.type = b.type /\ w.cap = b.cap /\ w.foreign = b.foreign /\ w.n = b.n + 1
      /\ w.called = b.called /\ w.answered = b.answered /\ w.remaining = r
  BY <1>1, <1>3 DEF ComboData
<1> HIDE DEF w
<1>5. b.foreign \cup foreign \in SUBSET Nat
  BY DEF ComboData
<1>6. LET e == Count(b, foreign) IN
         /\ e \in ComboData /\ e.type = b.type /\ e.cap = b.cap /\ e.n = b.n + 1
         /\ e.foreign = b.foreign \cup foreign /\ e.called = b.called /\ e.answered = b.answered
         /\ e.remaining = r
  BY <1>2, <1>4, <1>5 DEF ComboData
<1> QED BY <1>6 DEF r

LEMMA CountsItem ==
  ASSUME NEW ps, NEW prs, NEW cbs, NEW js, NEW st, NEW kn, NEW hd, NEW cs, NEW x,
         Good(ps, prs, cbs, js, st, kn, hd, cs, x),
         NEW c \in DOMAIN cbs, cbs[c].n < MaxItems,
         NEW foreign, foreign \in {{}, {cbs[c].n + 1}}
  PROVE  LET e == Count(cbs[c], foreign) IN
         /\ Good(ps, prs, [cbs EXCEPT ![c] = e], js, st, kn, hd, cs, x)
         /\ e.n = cbs[c].n + 1 /\ e.type = cbs[c].type /\ e.cap = cbs[c].cap
         /\ e.foreign = cbs[c].foreign \cup foreign
         /\ cbs[c].n + 1 \in (1..e.n) \ cbs[c].foreign
<1> DEFINE b == cbs[c]
           e == Count(b, foreign)
<1>1. Types(ps, prs, cbs, js, st, kn, hd, cs) /\ Counts(cbs, st)
  BY DEF Good
<1>2. b \in ComboData /\ ItemsCounted(b, Loops(st, c)) /\ b.n < MaxItems
  BY <1>1, Facts DEF Counts
<1>3. foreign \in {{}, {b.n + 1}}
  OBVIOUS
<1> HIDE DEF b
<1>4. /\ IsFiniteSet(b.called) /\ Cardinality(b.called) \in Nat /\ b.n \in Nat /\ b.remaining \in Int
  BY <1>2, CalledFinite
<1>5. foreign \in SUBSET Nat /\ b.foreign \subseteq 1..b.n
  BY <1>2, <1>3, <1>4 DEF ComboData, ItemsCounted
<1>6. /\ e \in ComboData /\ e.type = b.type /\ e.cap = b.cap /\ e.n = b.n + 1
      /\ e.foreign = b.foreign \cup foreign /\ e.called = b.called
      /\ e.remaining = IF b.type = "race" THEN b.remaining ELSE b.remaining + 1
  BY <1>2, <1>5, CountIs
<1> HIDE DEF e
<1>7. MaxItems \in Nat
  BY PromiseAssumption
<1>8. ItemsCounted(e, Loops(st, c))
  <2>1. e.n <= MaxItems /\ e.foreign \subseteq 1..e.n
    <3>1. e.n = b.n + 1 /\ b.n + 1 \in 1..(b.n + 1) /\ 1..b.n \subseteq 1..(b.n + 1) /\ b.n + 1 <= MaxItems
      BY <1>2, <1>4, <1>6, <1>7
    <3> QED BY <1>3, <1>5, <1>6, <3>1
  <2>2. e.called \subseteq {"element", "rejectElement"} \X (1..e.n)
    <3>1. 1..b.n \subseteq 1..e.n
      BY <1>4, <1>6
    <3> QED BY <3>1, <1>2, <1>6 DEF ItemsCounted
  <2>3. e.type = "race" => e.remaining = 1 /\ e.called = {}
    BY <1>2, <1>6 DEF ItemsCounted
  <2>4. e.type # "race" => e.remaining + Cardinality(e.called) - e.n = b.remaining + Cardinality(b.called) - b.n
    BY <1>4, <1>6
  <2> QED BY <1>2, <1>6, <2>1, <2>2, <2>3, <2>4 DEF ItemsCounted
<1>9. (1..b.n) \ b.foreign \subseteq (1..e.n) \ e.foreign
  BY <1>3, <1>4, <1>6
<1>10. b.n + 1 \in (1..e.n) \ b.foreign
  BY <1>4, <1>5, <1>6
<1>11. e.type = cbs[c].type /\ e.cap = cbs[c].cap /\ cbs[c].foreign \subseteq e.foreign
       /\ (1..cbs[c].n) \ cbs[c].foreign \subseteq (1..e.n) \ e.foreign
  BY <1>6, <1>9 DEF b
<1>12. Good(ps, prs, [cbs EXCEPT ![c] = e], js, st, kn, hd, cs, x)
  BY <1>6, <1>8, <1>11, ComboChanges
<1> QED BY <1>6, <1>10, <1>12 DEF e, b

\* js_promise_all begins.
NewCombo(type, f) ==
  [type |-> type, cap |-> f, remaining |-> 1, n |-> 0, called |-> {}, answered |-> {}, foreign |-> {}]

LEMMA LoopStarts ==
  ASSUME NEW ps, NEW prs, NEW cbs, NEW js, NEW st, NEW kn, NEW hd, NEW cs, NEW x,
         Good(ps, prs, cbs, js, st, kn, hd, cs, x),
         NEW type \in CombinatorTypes, NEW f, Public(prs, f)
  PROVE  Good(ps, prs, Append(cbs, NewCombo(type, f)), js, Append(st, Frame("all", Len(cbs) + 1)),
              kn, hd, cs, x)
<1> DEFINE b == NewCombo(type, f)
           n == Len(cbs) + 1
           ebs == Append(cbs, b)
           e == Frame("all", n)
           su == Append(st, e)
<1>1. /\ Types(ps, prs, cbs, js, st, kn, hd, cs) /\ Refs(ps, prs, cbs, js, st, hd)
      /\ cbs \in Seq(ComboData) /\ st \in Seq(FrameData) /\ Counts(cbs, st) /\ Below(st)
  BY DEF Good, Types
<1>2. /\ Len(ps) \in Nat /\ DOMAIN prs = 1..Len(prs) /\ Len(prs) \in Nat
      /\ DOMAIN st = 1..Len(st) /\ Len(st) \in Nat /\ DOMAIN cbs = 1..Len(cbs) /\ Len(cbs) \in Nat
  BY <1>1, Facts
<1>3. f \in Nat
  BY <1>2 DEF Public
<1>4. /\ b \in ComboData /\ b.type = type /\ b.cap = f /\ b.remaining = 1 /\ b.n = 0
      /\ b.called = {} /\ b.foreign = {}
  BY <1>3 DEF NewCombo, ComboData
<1>5. e \in FrameData /\ e.call = "all" /\ e.of = n /\ e.arg = Plain
  BY <1>2 DEF Frame, FrameData, UserCalls, Plain
<1>6. ebs \in Seq(ComboData) /\ Longer(cbs, ebs, b)
  BY <1>1, <1>4, AppendIs
<1>7. su \in Seq(FrameData) /\ Longer(st, su, e)
  BY <1>1, <1>5, AppendIs
<1>8. n = Len(cbs) + 1 /\ n \notin DOMAIN cbs
  BY <1>2
<1> HIDE DEF su, ebs, e, b, n
<1>9. /\ \A i \in DOMAIN st : i \in DOMAIN su /\ su[i] = st[i]
      /\ Len(st) + 1 \in DOMAIN su /\ su[Len(st) + 1] = e
      /\ \A i \in DOMAIN su : i \in DOMAIN st \/ i = Len(st) + 1
      /\ \A i \in DOMAIN st : i > 1 => i - 1 \in DOMAIN st
  BY <1>2, <1>7 DEF Longer
<1>10. /\ \A c \in DOMAIN cbs : c \in DOMAIN ebs /\ ebs[c] = cbs[c]
       /\ n \in DOMAIN ebs /\ ebs[n] = b
       /\ \A c \in DOMAIN ebs : c \in DOMAIN cbs \/ c = n
  BY <1>2, <1>6, <1>8 DEF Longer
<1>11. Types(ps, prs, ebs, js, su, kn, hd, cs)
  BY <1>1, <1>6, <1>7 DEF Types
<1>12. Grows(ps, prs, cbs, ps, prs, ebs)
  BY <1>2, <1>10 DEF Grows, Native
<1>13. Refs(ps, prs, ebs, js, su, hd)
  <2>1. /\ \A p, r : ReactionOk(ps, prs, cbs, p, r) => ReactionOk(ps, prs, ebs, p, r)
        /\ \A j : JobOk(ps, prs, cbs, j) => JobOk(ps, prs, ebs, j)
        /\ \A g : FrameOk(ps, prs, cbs, g) => FrameOk(ps, prs, ebs, g)
        /\ \A h : HeldOk(prs, cbs, h) => HeldOk(prs, ebs, h)
    BY <1>2, <1>12, GrowsRefs
  <2>2. \A p \in DOMAIN ps : PromiseOk(ps, prs, ebs, p)
    BY <1>1, <2>1 DEF Refs, PromiseOk
  <2>3. \A d \in DOMAIN ebs : Public(prs, ebs[d].cap)
    BY <1>1, <1>4, <1>10 DEF Refs
  <2>4. FrameOk(ps, prs, ebs, e)
    BY <1>2, <1>5, <1>10 DEF FrameOk, Values, Plain, Collected
  <2> QED BY <1>1, <1>9, <2>1, <2>2, <2>3, <2>4 DEF Refs
<1>14. \A i \in DOMAIN st : st[i].call = "all" => st[i].of # n
  BY <1>1, <1>8 DEF Refs, FrameOk
<1>15. Below(su)
  <2>1. ASSUME NEW i \in DOMAIN su, su[i].call = "itemThen"
        PROVE  i > 1 /\ su[i - 1].call = "all" /\ su[i - 1].of = su[i].of
    BY <2>1, <1>1, <1>5, <1>9 DEF Below
  <2>2. \A i, k \in DOMAIN su : su[i].call = "all" /\ su[k].call = "all" /\ su[i].of = su[k].of => i = k
    BY <1>1, <1>5, <1>9, <1>14 DEF Below
  <2> QED BY <2>1, <2>2 DEF Below
<1>16. Counts(ebs, su)
  <2>1. ASSUME NEW c \in DOMAIN cbs PROVE ItemsCounted(ebs[c], Loops(su, c))
    <3>1. Loops(su, c) => Loops(st, c)
      BY <1>5, <1>8, <1>9 DEF Loops
    <3> QED BY <3>1, <1>1, <1>10 DEF Counts, ItemsCounted
  <2>2. ItemsCounted(b, Loops(su, n))
    <3>1. Cardinality(b.called) = 0
      BY <1>4, FS_EmptySet
    <3>2. b.remaining + Cardinality(b.called) - b.n = 1 /\ 0 <= MaxItems
      BY <3>1, <1>4, PromiseAssumption
    <3> QED BY <3>2, <1>4 DEF ItemsCounted
  <2> QED BY <2>1, <2>2, <1>10 DEF Counts
<1>17. ASSUME NEW p \in DOMAIN ps PROVE Ways(ps, prs, js, su, p)
  <2>1. Ways(ps, prs, js, st, p)
    BY DEF Good
  <2>2. /\ \A i \in DOMAIN st : ByGetter(prs, st, p, i) => i \in DOMAIN su /\ ByGetter(prs, su, p, i)
        /\ \A i \in DOMAIN su : ByGetter(prs, su, p, i) => i \in DOMAIN st /\ ByGetter(prs, st, p, i)
    BY <1>5, <1>9 DEF ByGetter
  <2> QED BY <2>1, <2>2 DEF Ways
<1>18. Good(ps, prs, ebs, js, su, kn, hd, cs, x)
  BY <1>11, <1>13, <1>15, <1>16, <1>17 DEF Good
<1> QED BY <1>18 DEF ebs, su, b, e, n

\* After the loop the extra one is taken off.
LoopOver(e) == [e EXCEPT !.remaining = IF e.type = "race" THEN @ ELSE @ - 1]

LEMMA LoopEnds ==
  ASSUME NEW ps, NEW prs, NEW cbs, NEW js, NEW st, NEW kn, NEW hd, NEW cs,
         Good(ps, prs, cbs, js, st, kn, hd, cs, 0),
         st # <<>>, st[Len(st)].call = "all", NEW c, c = st[Len(st)].of
  PROVE  /\ c \in DOMAIN cbs /\ Public(prs, cbs[c].cap)
         /\ Good(ps, prs, [cbs EXCEPT ![c] = LoopOver(cbs[c])], js, SubSeq(st, 1, Len(st) - 1), kn, hd, cs, 0)
<1> DEFINE n == Len(st)
           su == SubSeq(st, 1, n - 1)
           b == cbs[c]
           e == LoopOver(b)
<1>1. /\ Types(ps, prs, cbs, js, st, kn, hd, cs) /\ Refs(ps, prs, cbs, js, st, hd)
      /\ st \in Seq(FrameData) /\ Counts(cbs, st) /\ Below(st)
  BY DEF Good, Types
<1>2. su \in Seq(FrameData) /\ Front(st, su) /\ n \in DOMAIN st /\ st # <<>> /\ n = Len(st)
  BY <1>1, FrontIs
<1>3. Good(ps, prs, cbs, js, su, kn, hd, cs, 0) /\ FrameOk(ps, prs, cbs, st[n])
  <2>1. st[n].call # "getThen" /\ 0 = IF st[n].call = "async" THEN st[n].of ELSE 0
    OBVIOUS
  <2> QED BY <2>1, Pop
<1>4. st[n].call = "all" /\ st[n].of = c
  OBVIOUS
<1> HIDE DEF su
<1>5. \A i \in DOMAIN su : i \in DOMAIN st /\ su[i] = st[i] /\ i # n
  BY ONLY <1>1, <1>2, FrontBelow DEF n
<1> HIDE DEF n
<1>6. ~Loops(su, c) /\ Loops(st, c)
  BY <1>1, <1>2, <1>4, <1>5 DEF Loops, Below
<1>7. c \in DOMAIN cbs
  BY <1>3, <1>4 DEF FrameOk
<1>8. b \in ComboData /\ ItemsCounted(b, Loops(st, c)) /\ Public(prs, b.cap)
  BY <1>1, <1>7, Facts DEF Counts, Refs
<1> HIDE DEF b
<1>9. IsFiniteSet(b.called) /\ Cardinality(b.called) \in Nat /\ b.n \in Nat /\ b.remaining \in Int
  BY <1>8, CalledFinite
<1>10. /\ e \in ComboData /\ e.type = b.type /\ e.cap = b.cap /\ e.n = b.n
       /\ e.foreign = b.foreign /\ e.called = b.called
       /\ e.remaining = IF b.type = "race" THEN b.remaining ELSE b.remaining - 1
  <2> DEFINE r == IF b.type = "race" THEN b.remaining ELSE b.remaining - 1
  <2>1. r \in Int
    BY <1>9
  <2>2. e = [b EXCEPT !.remaining = r]
    BY DEF LoopOver
  <2> HIDE DEF r, e
  <2>3. /\ e \in ComboData /\ e.type = b.type /\ e.cap = b.cap /\ e.n = b.n
        /\ e.foreign = b.foreign /\ e.called = b.called /\ e.remaining = r
    BY <1>8, <2>1, <2>2 DEF ComboData
  <2> QED BY <2>3 DEF r
<1> HIDE DEF e
<1>11. ItemsCounted(e, Loops(su, c))
  <2>1. e.type # "race" => e.remaining + Cardinality(e.called) - e.n = 0
    <3>1. b.type # "race" => b.remaining + Cardinality(b.called) - b.n = 1
      BY <1>6, <1>8 DEF ItemsCounted
    <3> QED BY <3>1, <1>9, <1>10
  <2> QED BY <2>1, <1>6, <1>8, <1>10 DEF ItemsCounted
<1>12. /\ e.type = cbs[c].type /\ e.cap = cbs[c].cap /\ cbs[c].foreign \subseteq e.foreign
       /\ (1..cbs[c].n) \ cbs[c].foreign \subseteq (1..e.n) \ e.foreign
  BY <1>10 DEF b
<1>13. Good(ps, prs, [cbs EXCEPT ![c] = e], js, su, kn, hd, cs, 0)
  BY <1>3, <1>7, <1>10, <1>11, <1>12, ComboChanges
<1> QED BY <1>7, <1>8, <1>13 DEF e, b, su, n

-----------------------------------------------------------------------------
(* What the operators of PromiseJobs do with a state that is good.         *)

LEMMA Performs ==
  ASSUME NEW ps, NEW prs, NEW cbs, NEW js, NEW st, NEW kn, NEW hd, NEW cs, NEW x,
         Good(ps, prs, cbs, js, st, kn, hd, cs, x),
         NEW p \in DOMAIN ps, NEW cap \in Nat, NEW g \in Callables, NEW h \in Callables,
         Capability(prs, cap), Handlers(ps, prs, cbs, p, g, h),
         NEW y, Takes(prs, p, g, h, x, y),
         PerformThen(ps, js, p, cap, g, h)
  PROVE  Good(promises', prs, cbs, jobs', st, kn, hd, cs, y)
<1>1. CASE ps[p].state = "pending"
  <2>1. /\ promises' = [ps EXCEPT ![p] = Waiting(ps[p], Reaction(ps[p], cap, g, h))]
        /\ jobs' = js
    BY <1>1 DEF PerformThen, Waiting, Seen, Reaction
  <2> QED BY <1>1, <2>1, RegisterWaits
<1>2. CASE ps[p].state # "pending"
  <2>1. /\ promises' = [ps EXCEPT ![p] = Handled(ps[p])]
        /\ jobs' = Append(js, ReactionJob(p, Reaction(ps[p], cap, g, h), ps[p].state = "rejected", ps[p].result))
    BY <1>2 DEF PerformThen, Handled, Seen, Reaction
  <2> QED BY <1>2, <2>1, RegisterQueues
<1> QED BY <1>1, <1>2

\* What settling does to a promise, and to none, or one.
Touched(s, t) ==
  /\ t.registered = s.registered
  /\ \/ t.state = s.state /\ t.result = s.result
     \/ s.state = "pending" /\ t.state # "pending" /\ t.result \in Int
Touches ==
  /\ DOMAIN promises' = DOMAIN promises
  /\ \A p \in DOMAIN promises : Touched(promises[p], promises'[p])

LEMMA TouchesNone ==
  ASSUME promises' = promises
  PROVE  Touches
  BY DEF Touches, Touched

LEMMA TouchesOne ==
  ASSUME NEW p, NEW t, promises' = [promises EXCEPT ![p] = t], Touched(promises[p], t)
  PROVE  Touches
  BY DEF Touches, Touched

LEMMA OutcomeTouches ==
  ASSUME NEW s \in JSPromiseData, s.state = "pending", NEW rej \in BOOLEAN, NEW v \in Int
  PROVE  Touched(s, Outcome(s, rej, v))
  BY OutcomeIs DEF Touched

LEMMA LockingTouches ==
  ASSUME NEW s \in JSPromiseData, NEW v
  PROVE  Touched(s, Locking(s, v))
  BY DEF Touched, Locking, JSPromiseData

LEMMA SettleIs ==
  ASSUME NEW js, NEW p, NEW rej, NEW v, Settle(js, p, rej, v)
  PROVE  /\ promises' = [promises EXCEPT ![p] = Outcome(promises[p], rej, v)]
         /\ jobs' = js \o Reactions(promises[p], p, rej, v)
  BY DEF Settle, Outcome, Reactions

LEMMA Resolves ==
  ASSUME NEW cbs, NEW js, NEW st, NEW kn, NEW hd, NEW cs, NEW x,
         Good(promises, pairs, cbs, js, st, kn, hd, cs, x),
         NEW f \in DOMAIN pairs, x \in {0, f},
         NEW rej \in BOOLEAN, NEW v \in Values(promises), FollowsTruly(promises, pairs, f, rej, v),
         CallResolving(js, st, f, rej, v)
  PROVE  Good(promises', pairs', cbs, jobs', stack', kn, hd, cs, 0) /\ Touches
<1> DEFINE p == pairs[f].promise
<1>1. CASE pairs[f].resolved
  <2>1. jobs' = js /\ stack' = st /\ promises' = promises /\ pairs' = pairs
    BY <1>1 DEF CallResolving
  <2>2. x = 0 \/ pairs[x].resolved
    BY <1>1
  <2>3. Good(promises, pairs, cbs, js, st, kn, hd, cs, 0)
    BY <2>2, UsedBefore
  <2> QED BY <2>1, <2>3, TouchesNone
<1>2. CASE ~pairs[f].resolved
  <2>1. pairs' = [pairs EXCEPT ![f] = Used(pairs[f])] /\ ResolveWith(js, st, f, rej, v)
    BY <1>2 DEF CallResolving, Used
  <2>2. UsesPair(pairs, st, p, f, x, pairs', st)
    BY <1>2, <2>1 DEF UsesPair
  <2>3. /\ Types(promises, pairs, cbs, js, st, kn, hd, cs) /\ Refs(promises, pairs, cbs, js, st, hd)
    BY DEF Good
  <2>4. Len(promises) \in Nat /\ DOMAIN promises = 1..Len(promises) /\ Promises = DOMAIN promises /\ v \in Int
    BY <2>3, Facts DEF Promises, Values, Collected
  <2>5. v > 0 /\ ~rej => pairs[f].follows = Plain
    <3>1. SUFFICES ASSUME v > 0, ~rej, pairs[f].follows # Plain PROVE FALSE
      OBVIOUS
    <3>2. pairs[f].follows \in DOMAIN promises
      BY <2>3, <3>1, Targets
    <3>3. promises[pairs[f].follows].state = "fulfilled" /\ promises[pairs[f].follows].result = v
      BY <3>1 DEF FollowsTruly
    <3>4. v <= 0
      BY <2>3, <3>2, <3>3 DEF Refs, PromiseOk
    <3> QED BY <2>4, <3>1, <3>4
  <2>0. promises[p] \in JSPromiseData /\ promises[p].state = "pending"
    BY <2>2, <2>3, WayUsed, Facts
  <2> HIDE DEF p
  <2>6. CASE (rej \/ v \in {Plain, TypeErr, Collected}) /\ Settle(js, p, rej, v) /\ stack' = st
    <3>1. /\ promises' = [promises EXCEPT ![p] = Outcome(promises[p], rej, v)]
          /\ jobs' = js \o Reactions(promises[p], p, rej, v)
      BY <2>6, SettleIs
    <3>2. rej \/ v <= 0
      BY <2>6 DEF Plain, TypeErr, Collected
    <3>3. Good([promises EXCEPT ![p] = Outcome(promises[p], rej, v)], pairs', cbs,
              js \o Reactions(promises[p], p, rej, v), st, kn, hd, cs, 0)
      BY <2>2, <3>2, Settles
    <3> QED BY <2>0, <2>4, <2>6, <3>1, <3>3, OutcomeTouches, TouchesOne
  <2>7. CASE ~rej /\ v = p /\ Settle(js, p, TRUE, TypeErr) /\ stack' = st
    <3>1. /\ promises' = [promises EXCEPT ![p] = Outcome(promises[p], TRUE, TypeErr)]
          /\ jobs' = js \o Reactions(promises[p], p, TRUE, TypeErr)
      BY <2>7 DEF Settle, Outcome, Reactions
    <3>2. v > 0
      <4>1. p \in DOMAIN promises
        BY <2>3, Targets DEF p
      <4> QED BY <4>1, <2>4, <2>7
    <3>3. FollowsTruly(promises, pairs, f, TRUE, TypeErr)
      BY <2>5, <2>7, <3>2 DEF FollowsTruly
    <3>4. TypeErr \in Values(promises)
      BY <2>4 DEF Values, TypeErr, Collected
    <3>5. Good([promises EXCEPT ![p] = Outcome(promises[p], TRUE, TypeErr)], pairs', cbs,
              js \o Reactions(promises[p], p, TRUE, TypeErr), st, kn, hd, cs, 0)
      BY <2>2, <3>3, <3>4, Settles
    <3>6. Touched(promises[p], Outcome(promises[p], TRUE, TypeErr))
      <4>1. TRUE \in BOOLEAN /\ TypeErr \in Int
        BY DEF TypeErr
      <4> QED BY ONLY <2>0, <4>1, OutcomeTouches, Zenon
    <3> QED BY <2>7, <3>1, <3>5, <3>6, TouchesOne
  <2>8. CASE /\ ~rej /\ v \in Promises \ {p} /\ jobs' = Append(js, ThenableJob(p, v))
             /\ promises' = [promises EXCEPT ![p].lock = v] /\ stack' = st
    <3>1. promises' = [promises EXCEPT ![p] = Locking(promises[p], v)]
      BY <2>8 DEF Locking
    <3>2. v > 0 /\ v \in DOMAIN promises /\ v # p
      BY <2>8, <2>4
    <3>3. pairs[f].follows = Plain
      BY <2>5, <2>8, <3>2
    <3>4. Good(promises', pairs', cbs, Append(js, ThenableJob(p, v)), st, kn, hd, cs, 0)
      BY <2>2, <3>1, <3>2, <3>3, QueuesThenable
    <3> QED BY <2>0, <2>8, <3>1, <3>4, LockingTouches, TouchesOne
  <2>9. CASE /\ ~rej /\ v = Thenable /\ stack' = Append(st, Frame("getThen", f))
             /\ jobs' = js /\ promises' = promises
    <3>1. FollowsTruly(promises, pairs, f, FALSE, Thenable)
      BY <2>9 DEF FollowsTruly
    <3>2. Good(promises, pairs', cbs, js, Append(st, Frame("getThen", f)), kn, hd, cs, 0)
      BY <2>2, <3>1, AsksGetter
    <3> QED BY <2>9, <3>2, TouchesNone
  <2> QED BY <2>1, <2>6, <2>7, <2>8, <2>9 DEF ResolveWith, p
<1> QED BY <1>1, <1>2

LEMMA CallsCapability ==
  ASSUME NEW cbs, NEW js, NEW st, NEW kn, NEW hd, NEW cs, NEW x,
         Good(promises, pairs, cbs, js, st, kn, hd, cs, x),
         NEW cap, x \in {0, cap}, Capability(pairs, cap) \/ (cap \in DOMAIN pairs /\ pairs[cap].async),
         NEW rej \in BOOLEAN, NEW v \in Values(promises),
         CallCapability(js, st, cap, rej, v)
  PROVE  Good(promises', pairs', cbs, jobs', stack', kn, hd, cs, 0) /\ Touches
<1>1. CASE cap = 0
  <2>1. jobs' = js /\ stack' = st /\ promises' = promises /\ pairs' = pairs
    BY <1>1 DEF CallCapability
  <2> QED BY <1>1, <2>1, TouchesNone
<1>2. CASE cap # 0
  <2>1. cap \in DOMAIN pairs
    BY <1>2 DEF Capability, Public
  <2>2. pairs[cap].follows = Plain
    <3>1. PairOk(promises, pairs[cap])
      BY <2>1 DEF Good, Refs
    <3> QED BY <1>2, <3>1 DEF Capability, Public, PairOk
  <2>3. FollowsTruly(promises, pairs, cap, rej, v)
    BY <2>2 DEF FollowsTruly
  <2>4. CallResolving(js, st, cap, rej, v)
    BY <1>2 DEF CallCapability
  <2> QED BY <2>1, <2>3, <2>4, Resolves
<1> QED BY <1>1, <1>2

LEMMA CallsElement ==
  ASSUME NEW js, NEW st, NEW kn, NEW hd, NEW cs,
         Good(promises, pairs, combos, js, st, kn, hd, cs, 0),
         NEW h, h.fn \in {"element", "rejectElement"}, h.of \in DOMAIN combos,
         h.at \in 1..combos[h.of].n, combos[h.of].type # "race",
         NEW v, CallElement(js, st, h, v)
  PROVE  Good(promises', pairs', combos', jobs', stack', kn, hd, cs, 0) /\ Touches
<1> DEFINE c == combos[h.of]
           element == <<h.fn, h.at>>
           e == Answer(c, element, h.at)
<1>1. CASE element \in c.called
  <2>1. jobs' = js /\ stack' = st /\ promises' = promises /\ pairs' = pairs /\ combos' = combos
    BY <1>1 DEF CallElement
  <2> QED BY <2>1, TouchesNone
<1>2. CASE element \notin c.called
  <2>1. /\ combos' = [combos EXCEPT ![h.of] = e]
        /\ \/ c.remaining = 1 /\ CallResolving(js, st, c.cap, c.type = "any", Collected)
           \/ c.remaining # 1 /\ jobs' = js /\ stack' = st /\ UNCHANGED <<promises, pairs>>
    BY <1>2 DEF CallElement, Answer
  <2>2. Good(promises, pairs, combos', js, st, kn, hd, cs, 0)
    BY <1>2, <2>1, Answers
  <2>3. Public(pairs, c.cap) /\ Types(promises, pairs, combos', js, st, kn, hd, cs)
    BY <2>2 DEF Good, Refs
  <2>4. c.cap \in DOMAIN pairs /\ FollowsTruly(promises, pairs, c.cap, c.type = "any", Collected)
    BY <2>3 DEF Public, FollowsTruly
  <2>5. Collected \in Values(promises) /\ (c.type = "any") \in BOOLEAN
    BY <2>3, Facts DEF Values, Collected
  <2>6. CASE CallResolving(js, st, c.cap, c.type = "any", Collected)
    BY <2>2, <2>4, <2>5, <2>6, Resolves
  <2>7. CASE jobs' = js /\ stack' = st /\ UNCHANGED <<promises, pairs>>
    BY <2>2, <2>7, TouchesNone
  <2> QED BY <2>1, <2>6, <2>7
<1> QED BY <1>1, <1>2

Inv == Good(promises, pairs, combos, jobs, stack, known, held, calls, 0)

LEMMA FreshOnes ==
  ASSUME NEW ps, NEW prs, NEW cbs, NEW js, NEW st, NEW kn, NEW hd, NEW cs,
         Types(ps, prs, cbs, js, st, kn, hd, cs),
         NEW s \in JSPromiseData, NEW e \in PairData
  PROVE  /\ Len(ps) + 1 \in DOMAIN Append(ps, s) /\ Append(ps, s)[Len(ps) + 1] = s
         /\ Len(prs) + 1 \in DOMAIN Append(prs, e) /\ Append(prs, e)[Len(prs) + 1] = e
         /\ Len(Append(ps, s)) = Len(ps) + 1 /\ Len(Append(prs, e)) = Len(prs) + 1
         /\ DOMAIN ps \subseteq DOMAIN Append(ps, s)
         /\ \A p \in DOMAIN ps : Append(ps, s)[p] = ps[p]
         /\ Grows(ps, prs, cbs, Append(ps, s), Append(prs, e), cbs)
         /\ Grows(ps, prs, cbs, Append(ps, s), prs, cbs)
         /\ Grows(ps, prs, cbs, ps, Append(prs, e), cbs)
<1> DEFINE qs == Append(ps, s)
           qrs == Append(prs, e)
<1>1. /\ Len(ps) \in Nat /\ DOMAIN ps = 1..Len(ps) /\ Len(prs) \in Nat /\ DOMAIN prs = 1..Len(prs)
  BY Facts
<1>2. Longer(ps, qs, s) /\ Longer(prs, qrs, e)
  BY AppendIs DEF Types
<1> HIDE DEF qs, qrs
<1>3. /\ Len(ps) + 1 \in DOMAIN qs /\ qs[Len(ps) + 1] = s /\ Len(prs) + 1 \in DOMAIN qrs /\ qrs[Len(prs) + 1] = e
      /\ Len(qs) = Len(ps) + 1 /\ Len(qrs) = Len(prs) + 1
      /\ DOMAIN ps \subseteq DOMAIN qs /\ DOMAIN prs \subseteq DOMAIN qrs
      /\ \A p \in DOMAIN ps : qs[p] = ps[p]
      /\ \A f \in DOMAIN prs : qrs[f] = prs[f]
  BY <1>1, <1>2 DEF Longer
<1>4. Grows(ps, prs, cbs, qs, qrs, cbs) /\ Grows(ps, prs, cbs, qs, prs, cbs) /\ Grows(ps, prs, cbs, ps, qrs, cbs)
  BY <1>1, <1>3 DEF Grows
<1> QED BY <1>3, <1>4 DEF qs, qrs

LEMMA PendingIs ==
  /\ Pending \in JSPromiseData /\ Ready \in JSPromiseData
  /\ Pending.state = "pending" /\ Ready.state = "fulfilled" /\ Ready.result = Plain
  /\ Pending.registered = 0 /\ Ready.registered = 0
<1>1. <<>> \in Seq(ReactionData)
  BY EmptySeq
<1>2. /\ Pending \in JSPromiseData /\ Pending.state = "pending" /\ Pending.result = Plain
      /\ Pending.registered = 0
  BY <1>1 DEF Pending, JSPromiseData, Plain
<1>3. /\ Ready \in JSPromiseData /\ Ready.state = "fulfilled" /\ Ready.result = Plain
      /\ Ready.registered = 0
  BY <1>2 DEF Ready, JSPromiseData
<1> QED BY <1>2, <1>3

LEMMA NewPairIs ==
  ASSUME NEW p \in Nat
  PROVE  LET e == NewPair(p) IN
         /\ e \in PairData /\ e.promise = p /\ ~e.resolved /\ e.async = FALSE /\ e.follows = Plain
  BY DEF NewPair, PairData, Plain

\* A new promise with its pair.
LEMMA MakesOne ==
  ASSUME NEW ps, NEW prs, NEW cbs, NEW js, NEW st, NEW kn, NEW hd, NEW cs, NEW x,
         Good(ps, prs, cbs, js, st, kn, hd, cs, x)
  PROVE  /\ Good(Append(ps, Pending), Append(prs, NewPair(Len(ps) + 1)), cbs, js, st, kn, hd, Append(cs, <<>>), x)
         /\ Public(Append(prs, NewPair(Len(ps) + 1)), Len(prs) + 1)
         /\ Len(ps) + 1 \in DOMAIN Append(ps, Pending)
         /\ Len(ps) \in Nat /\ Len(prs) \in Nat /\ DOMAIN ps \subseteq DOMAIN Append(ps, Pending)
         /\ Grows(ps, prs, cbs, Append(ps, Pending), Append(prs, NewPair(Len(ps) + 1)), cbs)
<1> DEFINE e == NewPair(Len(ps) + 1)
<1>1. Types(ps, prs, cbs, js, st, kn, hd, cs)
  BY DEF Good
<1>2. Len(ps) \in Nat /\ Len(prs) \in Nat
  BY <1>1, Facts
<1>3. e \in PairData /\ e.promise = Len(ps) + 1 /\ ~e.resolved /\ e.async = FALSE /\ e.follows = Plain
  <2>1. Len(ps) + 1 \in Nat
    BY <1>2
  <2> QED BY <2>1, NewPairIs
<1> HIDE DEF e
<1>4. Good(Append(ps, Pending), Append(prs, e), cbs, js, st, kn, hd, Append(cs, <<>>), x)
  <2>1. x = IF e.async THEN Len(prs) + 1 ELSE x
    BY <1>3
  <2> QED BY <1>3, <2>1, Make
<1>5. /\ Len(prs) + 1 \in DOMAIN Append(prs, e) /\ Append(prs, e)[Len(prs) + 1] = e
      /\ Len(ps) + 1 \in DOMAIN Append(ps, Pending) /\ DOMAIN ps \subseteq DOMAIN Append(ps, Pending)
      /\ Grows(ps, prs, cbs, Append(ps, Pending), Append(prs, e), cbs)
  BY <1>1, <1>3, FreshOnes, PendingIs
<1>6. Public(Append(prs, e), Len(prs) + 1)
  BY <1>3, <1>5 DEF Public
<1> QED BY <1>2, <1>4, <1>5, <1>6 DEF e

LEMMA PerformDomain ==
  ASSUME NEW ps, NEW js, NEW p, NEW cap, NEW g, NEW h, PerformThen(ps, js, p, cap, g, h)
  PROVE  DOMAIN promises' = DOMAIN ps
  BY DEF PerformThen

\* js_promise_then
LEMMA Thens ==
  ASSUME NEW cbs, NEW js, NEW st, NEW kn, NEW hd,
         Good(promises, pairs, cbs, js, st, kn, hd, calls, 0),
         NEW p \in DOMAIN promises, NEW g \in Callables, NEW h \in Callables,
         Handlers(promises, pairs, cbs, p, g, h), g.fn # "asyncResolve",
         Then(js, p, g, h)
  PROVE  /\ Good(promises', pairs', cbs, jobs', st, kn, hd, calls', 0)
         /\ Fresh \in DOMAIN promises'
<1> DEFINE ps == Append(promises, Pending)
           prs == Append(pairs, NewPair(Fresh))
           cs == Append(calls, <<>>)
<1>1. /\ PerformThen(ps, js, p, FreshPair, g, h) /\ pairs' = prs /\ calls' = cs
  BY DEF Then, WithFresh
<1>2. /\ Good(ps, prs, cbs, js, st, kn, hd, cs, 0) /\ Public(prs, FreshPair)
      /\ Fresh \in DOMAIN ps /\ p \in DOMAIN ps /\ FreshPair \in Nat
      /\ Grows(promises, pairs, cbs, ps, prs, cbs) /\ Len(promises) \in Nat
  BY MakesOne DEF Fresh, FreshPair
<1>3. Len(ps) \in Nat
  BY <1>2, Facts DEF Good
<1> HIDE DEF ps, prs, cs
<1>4. Handlers(ps, prs, cbs, p, g, h)
  BY <1>2, <1>3, GrowsRefs
<1>5. Capability(prs, FreshPair) /\ Takes(prs, p, g, h, 0, 0)
  BY <1>2 DEF Capability, Takes
<1>6. Good(promises', prs, cbs, jobs', st, kn, hd, cs, 0)
  BY <1>1, <1>2, <1>4, <1>5, Performs
<1>7. Fresh \in DOMAIN promises'
  BY <1>1, <1>2, PerformDomain
<1> QED BY <1>1, <1>6, <1>7

-----------------------------------------------------------------------------
(* What the program does. *)

LEMMA ConstructStep ==
  ASSUME Inv, Construct
  PROVE  Inv'
<1> DEFINE prs == Append(pairs, NewPair(Fresh))
<1>1. /\ promises' = Append(promises, Pending) /\ pairs' = prs
      /\ calls' = Append(calls, <<>>) /\ known' = known \cup {Fresh} /\ held' = held \cup Resolving(FreshPair)
      /\ combos' = combos /\ jobs' = jobs /\ stack' = stack
  BY DEF Construct, WithFresh
<1>2. /\ Good(Append(promises, Pending), prs, combos, jobs, stack, known, held, Append(calls, <<>>), 0)
      /\ Public(prs, FreshPair) /\ Fresh \in DOMAIN Append(promises, Pending) /\ FreshPair \in Nat
  BY MakesOne DEF Inv, Fresh, FreshPair
<1> HIDE DEF prs
<1>3. \A h \in Resolving(FreshPair) : h \in Callables /\ HeldOk(prs, combos, h)
  BY <1>2 DEF Resolving, Fn, Callables, HeldOk, Public
<1>4. Good(Append(promises, Pending), prs, combos, jobs, stack, known', held', Append(calls, <<>>), 0)
  <2>1. known' \subseteq known \cup DOMAIN Append(promises, Pending)
    BY <1>1, <1>2
  <2>2. \A h \in held' : h \in held \/ (h \in Callables /\ HeldOk(prs, combos, h))
    BY <1>1, <1>3
  <2> QED BY <1>2, <2>1, <2>2, Gives
<1> QED BY <1>1, <1>4 DEF Inv

LEMMA ThenOfStep ==
  ASSUME Inv, NEW p \in known, NEW g \in Callables, NEW h \in Callables,
         Code(promises, g), Code(promises, h), ThenOf(p, g, h)
  PROVE  Inv'
<1>1. p \in DOMAIN promises
  BY DEF Inv, Good, Types
<1>2. Handlers(promises, pairs, combos, p, g, h) /\ g.fn # "asyncResolve"
  BY DEF Handlers, Code, Simple
<1>3. Then(jobs, p, g, h) /\ known' = known \cup {Fresh} /\ combos' = combos /\ stack' = stack /\ held' = held
  BY DEF ThenOf
<1>4. Good(promises', pairs', combos, jobs', stack, known, held, calls', 0) /\ Fresh \in DOMAIN promises'
  BY <1>1, <1>2, <1>3, Thens DEF Inv
<1>5. known' \subseteq known \cup DOMAIN promises'
  BY <1>3, <1>4
<1>6. Good(promises', pairs', combos, jobs', stack, known', held, calls', 0)
  BY <1>4, <1>5, Gives
<1> QED BY <1>3, <1>6 DEF Inv

LEMMA FramesIs ==
  ASSUME NEW call, call \in UserCalls \cup {"native", "toFinally", "all"}, NEW of \in Nat
  PROVE  LET e == Frame(call, of) IN
         e \in FrameData /\ e.call = call /\ e.of = of /\ e.arg = Plain /\ e.rej = FALSE
  BY DEF Frame, FrameData, Plain

LEMMA CallAsyncStep ==
  ASSUME Inv, CallAsync
  PROVE  Inv'
<1> DEFINE e == [NewPair(Fresh) EXCEPT !.async = TRUE]
           ps == Append(promises, Pending)
           prs == Append(pairs, e)
           cs == Append(calls, <<>>)
           m == Frame("async", FreshPair)
<1>1. /\ promises' = ps /\ pairs' = prs /\ calls' = cs /\ stack' = Append(stack, m)
      /\ known' = known \cup {Fresh} /\ combos' = combos /\ jobs' = jobs /\ held' = held
  BY DEF CallAsync, WithFresh
<1>2. Types(promises, pairs, combos, jobs, stack, known, held, calls)
  BY DEF Inv, Good
<1>3. Len(promises) \in Nat /\ Len(pairs) \in Nat
  BY <1>2, Facts
<1>4. e \in PairData /\ e.promise = Len(promises) + 1 /\ ~e.resolved /\ e.async /\ e.follows = Plain
  <2> DEFINE b == NewPair(Fresh)
  <2>1. Fresh \in Nat /\ Fresh = Len(promises) + 1
    BY <1>3 DEF Fresh
  <2>2. b \in PairData /\ b.promise = Fresh /\ ~b.resolved /\ b.async = FALSE /\ b.follows = Plain
    BY <2>1, NewPairIs
  <2> HIDE DEF b
  <2>3. /\ [b EXCEPT !.async = TRUE] \in PairData /\ [b EXCEPT !.async = TRUE].async
        /\ [b EXCEPT !.async = TRUE].promise = b.promise /\ [b EXCEPT !.async = TRUE].follows = b.follows
        /\ [b EXCEPT !.async = TRUE].resolved = b.resolved
    BY <2>2 DEF PairData
  <2> QED BY <2>1, <2>2, <2>3 DEF b
<1> HIDE DEF e
<1>5. /\ FreshPair \in DOMAIN prs /\ prs[FreshPair] = e /\ Fresh \in DOMAIN ps /\ Len(ps) = Len(promises) + 1
  BY <1>2, <1>4, FreshOnes, PendingIs DEF Fresh, FreshPair
<1>6. Good(ps, prs, combos, jobs, stack, known, held, cs, FreshPair)
  <2>1. FreshPair = IF e.async THEN Len(pairs) + 1 ELSE 0
    BY <1>4 DEF FreshPair
  <2> QED BY <1>4, <2>1, Make DEF Inv
<1>7. m \in FrameData /\ m.call = "async" /\ m.of = FreshPair /\ m.arg = Plain
  BY <1>3 DEF Frame, FrameData, UserCalls, Plain, FreshPair
<1> HIDE DEF m, prs, ps, cs
<1>8. FrameOk(ps, prs, combos, m)
  BY <1>3, <1>4, <1>5, <1>7 DEF FrameOk, Values, Plain, Collected
<1>9. Good(ps, prs, combos, jobs, Append(stack, m), known, held, cs, 0)
  BY <1>4, <1>5, <1>6, <1>7, <1>8, Push
<1>10. Good(ps, prs, combos, jobs, Append(stack, m), known', held, cs, 0)
  <2>1. known' \subseteq known \cup DOMAIN ps
    BY <1>1, <1>5
  <2> QED BY <1>9, <2>1, Gives
<1> QED BY <1>1, <1>10 DEF Inv

LEMMA HeldCases ==
  ASSUME NEW prs, NEW cbs, NEW h, HeldOk(prs, cbs, h),
         \A c \in DOMAIN cbs : Public(prs, cbs[c].cap) /\ cbs[c].type \in CombinatorTypes
  PROVE  /\ h.fn \in {"resolve", "reject", "element", "rejectElement"}
         /\ h.fn \in {"resolve", "reject"} => Public(prs, h.of)
         /\ h.fn \in {"element", "rejectElement"} =>
              /\ h.of \in DOMAIN cbs /\ h.at \in cbs[h.of].foreign /\ cbs[h.of].type # "race"
              /\ h.fn = "rejectElement" => cbs[h.of].type = "allSettled"
<1>1. CASE \E f \in DOMAIN prs : Public(prs, f) /\ h \in Resolving(f)
  BY <1>1 DEF Resolving, Fn
<1>2. CASE \E c \in DOMAIN cbs : \E i \in cbs[c].foreign : h \in {Ful(cbs, c, i), Rej(cbs, c, i)}
  <2>1. PICK c \in DOMAIN cbs : \E i \in cbs[c].foreign : h \in {Ful(cbs, c, i), Rej(cbs, c, i)}
    BY <1>2
  <2>2. PICK i \in cbs[c].foreign : h \in {Ful(cbs, c, i), Rej(cbs, c, i)}
    BY <2>1
  <2>3. \/ h = Fn("resolve", cbs[c].cap, 0) \/ h = Fn("reject", cbs[c].cap, 0)
        \/ h = Fn("element", c, i) /\ cbs[c].type # "race"
        \/ h = Fn("rejectElement", c, i) /\ cbs[c].type = "allSettled"
    BY <2>2 DEF Ful, Rej, CombinatorTypes
  <2> QED BY <2>2, <2>3 DEF Fn
<1> QED BY <1>1, <1>2 DEF HeldOk

LEMMA CallHeldStep ==
  ASSUME Inv, NEW h \in held, NEW v \in Given, CallHeld(h, v)
  PROVE  Inv' /\ Touches
<1>1. /\ Types(promises, pairs, combos, jobs, stack, known, held, calls)
      /\ Refs(promises, pairs, combos, jobs, stack, held) /\ Counts(combos, stack)
  BY DEF Inv, Good
<1>2. HeldOk(pairs, combos, h) /\ \A c \in DOMAIN combos : Public(pairs, combos[c].cap) /\ combos[c].type \in CombinatorTypes
  BY <1>1, Facts DEF Refs, ComboData
<1>3. /\ h.fn \in {"resolve", "reject", "element", "rejectElement"}
      /\ h.fn \in {"resolve", "reject"} => Public(pairs, h.of)
      /\ h.fn \in {"element", "rejectElement"} =>
           h.of \in DOMAIN combos /\ h.at \in combos[h.of].foreign /\ combos[h.of].type # "race"
  BY <1>2, HeldCases
<1>4. v \in Values(promises)
  <2>1. known \subseteq 1..Len(promises) /\ Len(promises) \in Nat
    BY <1>1, Facts DEF Types
  <2> QED BY <2>1 DEF Given, Values, Plain, Thenable, Collected
<1>5. CallNative(jobs, stack, h, v) /\ known' = known /\ held' = held /\ calls' = calls
  BY DEF CallHeld
<1>6. CASE h.fn \in {"resolve", "reject"}
  <2>1. CallResolving(jobs, stack, h.of, h.fn = "reject", v) /\ combos' = combos
    BY <1>5, <1>6 DEF CallNative
  <2>2. h.of \in DOMAIN pairs /\ FollowsTruly(promises, pairs, h.of, h.fn = "reject", v) /\ (h.fn = "reject") \in BOOLEAN
    BY <1>3, <1>6 DEF Public, FollowsTruly
  <2>3. Good(promises', pairs', combos, jobs', stack', known, held, calls, 0) /\ Touches
    BY <1>4, <2>1, <2>2, Resolves DEF Inv
  <2> QED BY <1>5, <2>1, <2>3 DEF Inv
<1>7. CASE h.fn \in {"element", "rejectElement"}
  <2>1. CallElement(jobs, stack, h, v)
    BY <1>5, <1>7 DEF CallNative
  <2>2. h.at \in 1..combos[h.of].n
    BY <1>1, <1>3, <1>7 DEF Counts, ItemsCounted
  <2>3. Good(promises', pairs', combos', jobs', stack', known, held, calls, 0) /\ Touches
    BY <1>3, <1>7, <2>1, <2>2, CallsElement DEF Inv
  <2> QED BY <1>5, <2>3 DEF Inv
<1> QED BY <1>3, <1>6, <1>7

\* The call on top comes back; y is its pair, if it is of an async function.
LEMMA Back ==
  ASSUME Inv, stack # <<>>, Top.call # "getThen",
         NEW y, y = IF Top.call = "async" THEN Top.of ELSE 0
  PROVE  /\ Good(promises, pairs, combos, jobs, Callers, known, held, calls, y)
         /\ FrameOk(promises, pairs, combos, Top) /\ Top \in FrameData
<1>1. stack[Len(stack)].call # "getThen" /\ y = IF stack[Len(stack)].call = "async" THEN stack[Len(stack)].of ELSE 0
  BY DEF Top
<1> QED BY <1>1, Pop DEF Inv, Callers, Top

LEMMA ResumeIs ==
  ASSUME NEW f \in Nat
  PROVE  /\ Resume(f) \in Callables /\ ResumeThrow(f) \in Callables
         /\ Resume(f).fn = "asyncResolve" /\ ResumeThrow(f).fn = "asyncReject"
  BY DEF Resume, ResumeThrow, Fn, Callables

LEMMA AwaitStep ==
  ASSUME Inv, NEW v, Await(v)
  PROVE  Inv'
<1> DEFINE f == Top.of
           g == Resume(f)
           h == ResumeThrow(f)
<1>1. /\ Top.call = "async" /\ stack' = Callers /\ stack # <<>>
      /\ pairs' = pairs /\ combos' = combos /\ known' = known /\ held' = held
      /\ \/ /\ v \in known /\ PerformThen(promises, jobs, v, 0, g, h) /\ calls' = calls
         \/ /\ v = Plain /\ PerformThen(Append(promises, Ready), jobs, Fresh, 0, g, h)
            /\ calls' = Append(calls, <<>>)
  BY DEF Await, Operation, Ready
<1>2. Good(promises, pairs, combos, jobs, Callers, known, held, calls, f) /\ FrameOk(promises, pairs, combos, Top)
  <2>1. f = IF Top.call = "async" THEN Top.of ELSE 0
    BY <1>1
  <2> HIDE DEF f
  <2> QED BY <1>1, <2>1, Back
<1>3. f \in DOMAIN pairs /\ pairs[f].async
  BY <1>1, <1>2 DEF FrameOk
<1>4. /\ Types(promises, pairs, combos, jobs, Callers, known, held, calls)
      /\ Refs(promises, pairs, combos, jobs, Callers, held)
  BY <1>2 DEF Good
<1>5. pairs[f].follows = Plain /\ f \in Nat /\ f # 0
  BY <1>3, <1>4, Facts DEF Refs, PairOk
<1>6. g \in Callables /\ h \in Callables
  BY <1>5, ResumeIs
<1>7. \A ps, q : Handlers(ps, pairs, combos, q, g, h)
  BY <1>3 DEF Handlers
<1>8. \A q : Takes(pairs, q, g, h, f, 0)
  BY <1>3, <1>5 DEF Takes
<1>9. Capability(pairs, 0)
  BY DEF Capability
<1> HIDE DEF f, g, h
<1>10. CASE v \in known /\ PerformThen(promises, jobs, v, 0, g, h) /\ calls' = calls
  <2>1. v \in DOMAIN promises
    BY <1>4, <1>10 DEF Types
  <2>2. Good(promises', pairs, combos, jobs', Callers, known, held, calls, 0)
    BY <1>2, <1>6, <1>7, <1>8, <1>9, <1>10, <2>1, Performs
  <2> QED BY <1>1, <1>10, <2>2 DEF Inv
<1>11. CASE PerformThen(Append(promises, Ready), jobs, Fresh, 0, g, h) /\ calls' = Append(calls, <<>>)
  <2> DEFINE ps == Append(promises, Ready)
             cs == Append(calls, <<>>)
  <2>1. Good(ps, pairs, combos, jobs, Callers, known, held, cs, f)
    BY <1>2, MakeReady
  <2>2. Fresh \in DOMAIN ps
    <3>1. NewPair(1) \in PairData
      BY NewPairIs
    <3> QED BY <1>4, <3>1, FreshOnes, PendingIs DEF Fresh
  <2>3. PerformThen(ps, jobs, Fresh, 0, g, h) /\ calls' = cs
    BY <1>11
  <2> HIDE DEF ps, cs
  <2>4. Good(promises', pairs, combos, jobs', Callers, known, held, cs, 0)
    BY <1>6, <1>7, <1>8, <1>9, <2>1, <2>2, <2>3, Performs
  <2> QED BY <1>1, <2>3, <2>4 DEF Inv
<1> QED BY <1>1, <1>10, <1>11

-----------------------------------------------------------------------------
(* The combinators. *)

LEMMA CombineStep ==
  ASSUME Inv, NEW type \in CombinatorTypes, Combine(type)
  PROVE  Inv'
<1> DEFINE ps == Append(promises, Pending)
           prs == Append(pairs, NewPair(Fresh))
           cs == Append(calls, <<>>)
           ebs == Append(combos, NewCombo(type, FreshPair))
           su == Append(stack, Frame("all", Len(combos) + 1))
<1>1. /\ promises' = ps /\ pairs' = prs /\ calls' = cs /\ combos' = ebs /\ stack' = su
      /\ known' = known \cup {Fresh} /\ jobs' = jobs /\ held' = held
  BY DEF Combine, WithFresh, NewCombo
<1>2. /\ Good(ps, prs, combos, jobs, stack, known, held, cs, 0)
      /\ Public(prs, FreshPair) /\ Fresh \in DOMAIN ps
  BY MakesOne DEF Inv, Fresh, FreshPair
<1> HIDE DEF ps, prs, cs
<1>3. Good(ps, prs, ebs, jobs, su, known, held, cs, 0)
  BY <1>2, LoopStarts
<1> HIDE DEF ebs, su
<1>4. known' \subseteq known \cup DOMAIN ps
  BY <1>1, <1>2
<1>5. Good(ps, prs, ebs, jobs, su, known', held, cs, 0)
  BY <1>3, <1>4, Gives
<1> QED BY <1>1, <1>5 DEF Inv

LEMMA CountedIs ==
  ASSUME NEW c \in DOMAIN combos, combos \in Seq(ComboData)
  PROVE  /\ Counted(c) = [combos EXCEPT ![c] = Count(combos[c], {})]
         /\ [Counted(c) EXCEPT ![c].foreign = @ \cup {combos[c].n + 1}]
              = [combos EXCEPT ![c] = Count(combos[c], {combos[c].n + 1})]
<1> DEFINE b == combos[c]
<1>1. b \in ComboData
  BY Domain
<1>2. b.foreign \cup {} = b.foreign
  OBVIOUS
<1> HIDE DEF b
<1>3. Counted(c) = [combos EXCEPT ![c] = [b EXCEPT !.n = b.n + 1, !.remaining = IF b.type = "race" THEN b.remaining ELSE b.remaining + 1]]
  BY <1>1 DEF Counted, ComboData, b
<1> DEFINE d == [b EXCEPT !.n = b.n + 1, !.remaining = IF b.type = "race" THEN b.remaining ELSE b.remaining + 1]
<1>4. d.foreign = b.foreign /\ d = [d EXCEPT !.foreign = b.foreign]
  BY <1>1 DEF ComboData
<1>5. /\ Count(b, {}) = [d EXCEPT !.foreign = b.foreign \cup {}]
      /\ Count(b, {b.n + 1}) = [d EXCEPT !.foreign = b.foreign \cup {b.n + 1}]
  BY <1>1 DEF Count, ComboData
<1> HIDE DEF d
<1>6. Counted(c) = [combos EXCEPT ![c] = d]
  BY <1>3 DEF d
<1>7. Count(b, {}) = d
  BY <1>2, <1>4, <1>5
<1>8. [Counted(c) EXCEPT ![c].foreign = @ \cup {combos[c].n + 1}] = [combos EXCEPT ![c] = Count(b, {b.n + 1})]
  BY <1>4, <1>5, <1>6 DEF b
<1> QED BY <1>6, <1>7, <1>8 DEF b

LEMMA HandlersOfItem ==
  ASSUME NEW c \in DOMAIN combos, NEW ebs, ebs[c].type = combos[c].type, ebs[c].cap = combos[c].cap, NEW i
  PROVE  OnFulfilled(c, i) = Ful(ebs, c, i) /\ OnRejected(c, i) = Rej(ebs, c, i)
  BY DEF OnFulfilled, OnRejected, Ful, Rej

LEMMA FulRejCallable ==
  ASSUME NEW cbs, NEW c \in Nat, NEW i \in Nat, cbs[c] \in ComboData
  PROVE  /\ Ful(cbs, c, i) \in Callables /\ Rej(cbs, c, i) \in Callables
         /\ Ful(cbs, c, i).fn # "asyncResolve"
  BY DEF Ful, Rej, Fn, Callables, ComboData, CombinatorTypes

LEMMA ItemIsPromiseStep ==
  ASSUME Inv, NEW p \in known, ItemIsPromise(p)
  PROVE  Inv'
<1>1. PICK c \in DOMAIN combos :
        /\ NextItem(c)
        /\ Then(jobs, p, OnFulfilled(c, combos[c].n + 1), OnRejected(c, combos[c].n + 1))
        /\ combos' = Counted(c)
        /\ stack' = stack /\ known' = known /\ held' = held
  BY DEF ItemIsPromise
<1> DEFINE i == combos[c].n + 1
           e == Count(combos[c], {})
           ebs == [combos EXCEPT ![c] = e]
<1>2. /\ Types(promises, pairs, combos, jobs, stack, known, held, calls) /\ combos \in Seq(ComboData)
      /\ p \in DOMAIN promises /\ Counts(combos, stack) /\ combos[c].n < MaxItems
  BY <1>1 DEF Inv, Good, Types, NextItem
<1>3. /\ Good(promises, pairs, ebs, jobs, stack, known, held, calls, 0)
      /\ e.n = i /\ e.type = combos[c].type /\ e.cap = combos[c].cap
      /\ e.foreign = combos[c].foreign \cup {}
      /\ i \in (1..e.n) \ combos[c].foreign
  BY <1>2, CountsItem DEF Inv
<1>4. combos' = ebs
  BY <1>1, <1>2, CountedIs
<1>5. ebs[c] = e /\ c \in DOMAIN ebs /\ ebs[c] \in ComboData /\ c \in Nat /\ i \in Nat
  <2>1. ebs[c] = e /\ c \in DOMAIN ebs
    OBVIOUS
  <2>2. ebs[c] \in ComboData /\ DOMAIN ebs = 1..Len(ebs) /\ Len(ebs) \in Nat
    BY <1>3, <2>1, Facts DEF Good
  <2>3. e.n \in Nat
    BY <2>1, <2>2 DEF ComboData
  <2> QED BY <1>3, <2>1, <2>2, <2>3
<1> HIDE DEF ebs, e, i
<1>6. OnFulfilled(c, i) = Ful(ebs, c, i) /\ OnRejected(c, i) = Rej(ebs, c, i)
  BY <1>3, <1>5, HandlersOfItem
<1>7. Then(jobs, p, Ful(ebs, c, i), Rej(ebs, c, i))
  BY <1>1, <1>6 DEF i
<1>8. /\ Ful(ebs, c, i) \in Callables /\ Rej(ebs, c, i) \in Callables
      /\ Ful(ebs, c, i).fn # "asyncResolve"
  BY <1>5, FulRejCallable
<1>9. i \in Native(ebs, c)
  BY <1>3, <1>5 DEF Native
<1>10. Handlers(promises, pairs, ebs, p, Ful(ebs, c, i), Rej(ebs, c, i))
  BY <1>5, <1>9 DEF Handlers
<1>11. Good(promises', pairs', ebs, jobs', stack, known, held, calls', 0)
  BY <1>2, <1>3, <1>7, <1>8, <1>10, Thens
<1> QED BY <1>1, <1>4, <1>11 DEF Inv

LEMMA ItemIsForeignStep ==
  ASSUME Inv, ItemIsForeign
  PROVE  Inv' /\ Touches
<1>1. PICK c \in DOMAIN combos :
        /\ NextItem(c)
        /\ held' = held \cup {OnFulfilled(c, combos[c].n + 1), OnRejected(c, combos[c].n + 1)}
        /\ combos' = [Counted(c) EXCEPT ![c].foreign = @ \cup {combos[c].n + 1}]
        /\ stack' = Append(stack, Frame("itemThen", c))
        /\ promises' = promises /\ pairs' = pairs /\ jobs' = jobs /\ known' = known /\ calls' = calls
  BY DEF ItemIsForeign
<1> DEFINE i == combos[c].n + 1
           e == Count(combos[c], {i})
           ebs == [combos EXCEPT ![c] = e]
           m == Frame("itemThen", c)
<1>2. /\ Types(promises, pairs, combos, jobs, stack, known, held, calls) /\ combos \in Seq(ComboData)
      /\ combos[c].n < MaxItems
  BY <1>1 DEF Inv, Good, Types, NextItem
<1>3. /\ Good(promises, pairs, ebs, jobs, stack, known, held, calls, 0)
      /\ e.n = i /\ e.type = combos[c].type /\ e.cap = combos[c].cap
      /\ e.foreign = combos[c].foreign \cup {i}
      /\ i \in (1..e.n) \ combos[c].foreign
  BY <1>2, CountsItem DEF Inv
<1>4. combos' = ebs
  BY <1>1, <1>2, CountedIs
<1>5. ebs[c] = e /\ c \in DOMAIN ebs /\ ebs[c] \in ComboData /\ c \in Nat /\ i \in Nat
  <2>1. ebs[c] = e /\ c \in DOMAIN ebs
    OBVIOUS
  <2> HIDE DEF ebs, e
  <2>2. ebs[c] \in ComboData /\ DOMAIN ebs = 1..Len(ebs) /\ Len(ebs) \in Nat
    BY <1>3, <2>1, Facts DEF Good
  <2>3. e.n \in Nat
    BY <2>1, <2>2 DEF ComboData
  <2> QED BY <1>3, <2>1, <2>2, <2>3
<1>6. held' = held \cup {OnFulfilled(c, i), OnRejected(c, i)}
  BY <1>1
<1> HIDE DEF ebs, e, i
<1>7. OnFulfilled(c, i) = Ful(ebs, c, i) /\ OnRejected(c, i) = Rej(ebs, c, i)
  BY <1>3, <1>5, HandlersOfItem
<1>8. /\ Ful(ebs, c, i) \in Callables /\ Rej(ebs, c, i) \in Callables
  BY <1>5, FulRejCallable
<1>9. i \in ebs[c].foreign
  BY <1>3, <1>5
<1>10. \A h \in {Ful(ebs, c, i), Rej(ebs, c, i)} : h \in Callables /\ HeldOk(pairs, ebs, h)
  BY <1>5, <1>8, <1>9 DEF HeldOk
<1>11. Good(promises, pairs, ebs, jobs, stack, known, held', calls, 0)
  <2>1. \A h \in held' : h \in held \/ (h \in Callables /\ HeldOk(pairs, ebs, h))
    BY <1>6, <1>7, <1>10
  <2>2. known \subseteq known \cup DOMAIN promises
    OBVIOUS
  <2> QED BY <1>3, <2>1, <2>2, Gives
<1>12. m \in FrameData /\ m.call = "itemThen" /\ m.of = c /\ m.arg = Plain
  BY <1>5 DEF Frame, FrameData, UserCalls, Plain
<1> HIDE DEF m
<1>13. FrameOk(promises, pairs, ebs, m)
  BY <1>2, <1>5, <1>12, Facts DEF FrameOk, Values, Plain, Collected
<1>14. stack # <<>> /\ stack[Len(stack)].call = "all" /\ stack[Len(stack)].of = m.of
  BY <1>1, <1>12 DEF NextItem, OnTop, Top
<1>15. Good(promises, pairs, ebs, jobs, Append(stack, m), known, held', calls, 0)
  BY <1>11, <1>12, <1>13, <1>14, Push
<1> QED BY <1>1, <1>4, <1>15, TouchesNone DEF Inv, m

LEMMA ItemsEndStep ==
  ASSUME Inv, ItemsEnd
  PROVE  Inv' /\ Touches
<1>1. PICK c \in DOMAIN combos :
        /\ OnTop("all") /\ Top.of = c
        /\ \/ /\ combos[c].type = "race"
              /\ stack' = Callers /\ UNCHANGED <<promises, pairs, combos, jobs>>
           \/ /\ combos[c].type # "race"
              /\ combos' = [combos EXCEPT ![c].remaining = @ - 1]
              /\ \/ /\ combos[c].remaining = 1
                    /\ CallResolving(jobs, Callers, combos[c].cap, combos[c].type = "any", Collected)
                 \/ /\ combos[c].remaining # 1
                    /\ stack' = Callers /\ UNCHANGED <<promises, pairs, jobs>>
        /\ known' = known /\ held' = held /\ calls' = calls
  BY DEF ItemsEnd
<1> DEFINE ebs == [combos EXCEPT ![c] = LoopOver(combos[c])]
<1>2. Good(promises, pairs, ebs, jobs, Callers, known, held, calls, 0) /\ Public(pairs, combos[c].cap)
  <2>1. stack # <<>> /\ stack[Len(stack)].call = "all" /\ c = stack[Len(stack)].of
    BY <1>1 DEF OnTop, Top
  <2> QED BY <2>1, LoopEnds DEF Inv, Callers
<1>3. Types(promises, pairs, combos, jobs, stack, known, held, calls) /\ combos \in Seq(ComboData)
  BY DEF Inv, Good, Types
<1>4. combos' = ebs
  <2>1. CASE combos[c].type = "race"
    <3>1. combos[c] \in ComboData
      BY <1>3, Facts
    <3>2. LoopOver(combos[c]) = combos[c]
      BY <2>1, <3>1 DEF LoopOver, ComboData
    <3>3. ebs = combos
      BY <1>3, <3>2, ExceptIs, Facts
    <3> QED BY <1>1, <2>1, <3>3
  <2>2. CASE combos[c].type # "race"
    BY <1>1, <2>2 DEF LoopOver
  <2> QED BY <2>1, <2>2
<1> HIDE DEF ebs
<1>5. CASE stack' = Callers /\ UNCHANGED <<promises, pairs, jobs>>
  BY <1>1, <1>2, <1>4, <1>5, TouchesNone DEF Inv
<1>6. CASE CallResolving(jobs, Callers, combos[c].cap, combos[c].type = "any", Collected)
  <2>1. /\ combos[c].cap \in DOMAIN pairs /\ (combos[c].type = "any") \in BOOLEAN
        /\ FollowsTruly(promises, pairs, combos[c].cap, combos[c].type = "any", Collected)
    BY <1>2 DEF Public, FollowsTruly
  <2>2. Collected \in Values(promises)
    BY <1>3, Facts DEF Values, Collected
  <2>3. Good(promises', pairs', ebs, jobs', stack', known, held, calls, 0) /\ Touches
    BY <1>2, <1>6, <2>1, <2>2, Resolves
  <2> QED BY <1>1, <1>4, <2>3 DEF Inv
<1> QED BY <1>1, <1>5, <1>6

LEMMA TwoMore ==
  ASSUME NEW T, NEW s \in Seq(T), NEW a \in T, NEW b \in T
  PROVE  s \o <<a, b>> = Append(Append(s, a), b)
<1> DEFINE u == <<a, b>>
           t == s \o u
           r == Append(s, a)
           w == Append(r, b)
<1>1. u \in Seq(T) /\ Len(u) = 2 /\ DOMAIN u = 1..2 /\ u[1] = a /\ u[2] = b
  OBVIOUS
<1>2. Len(s) \in Nat /\ DOMAIN s = 1..Len(s)
  BY LenProperties
<1> HIDE DEF u
<1>3. t \in Seq(T) /\ Joined(s, u, t)
  BY <1>1, ConcatIs
<1>4. r \in Seq(T) /\ Longer(s, r, a)
  BY AppendIs
<1> HIDE DEF r, t
<1>5. w \in Seq(T) /\ Longer(r, w, b)
  BY <1>4, AppendIs
<1> HIDE DEF w
<1>6. Len(t) = Len(w) /\ Len(t) = Len(s) + 2 /\ Len(r) = Len(s) + 1 /\ DOMAIN r = 1..(Len(s) + 1)
  BY <1>1, <1>2, <1>3, <1>4, <1>5 DEF Joined, Longer
<1>7. /\ \A i \in 1..Len(s) : t[i] = s[i] /\ w[i] = s[i]
      /\ t[Len(s) + 1] = a /\ t[Len(s) + 2] = b
      /\ w[Len(s) + 1] = a /\ w[Len(s) + 2] = b
  <2>1. \A i \in 1..Len(s) : t[i] = s[i]
    BY <1>2, <1>3 DEF Joined
  <2>2. t[Len(s) + 1] = a /\ t[Len(s) + 2] = b
    BY <1>1, <1>3 DEF Joined
  <2>3. \A i \in 1..Len(s) : i \in DOMAIN r /\ r[i] = s[i]
    BY <1>2, <1>4, <1>6 DEF Longer
  <2>4. \A i \in 1..Len(s) : w[i] = s[i]
    BY <1>5, <2>3 DEF Longer
  <2>5. w[Len(s) + 1] = a /\ w[Len(s) + 2] = b
    <3>1. Len(s) + 1 \in DOMAIN r /\ r[Len(s) + 1] = a /\ Len(r) + 1 = Len(s) + 2
      BY <1>2, <1>4, <1>6 DEF Longer
    <3> QED BY <1>5, <3>1 DEF Longer
  <2> QED BY <2>1, <2>2, <2>4, <2>5
<1>8. \A i \in 1..Len(t) : i \in 1..Len(s) \/ i = Len(s) + 1 \/ i = Len(s) + 2
  BY <1>2, <1>6
<1>9. \A i \in 1..Len(t) : t[i] = w[i]
  BY <1>7, <1>8
<1>10. t = w
  BY <1>3, <1>5, <1>6, <1>9, SeqEqual
<1> QED BY <1>10 DEF t, u, w, r

LEMMA FrontOfFront ==
  ASSUME NEW T, NEW s \in Seq(T), Len(s) > 1
  PROVE  LET u == SubSeq(s, 1, Len(s) - 1) IN
         /\ SubSeq(u, 1, Len(u) - 1) = SubSeq(s, 1, Len(s) - 2)
         /\ u # <<>> /\ Len(u) = Len(s) - 1 /\ u[Len(u)] = s[Len(s) - 1]
<1> DEFINE n == Len(s)
           u == SubSeq(s, 1, n - 1)
           w == SubSeq(u, 1, n - 2)
           t == SubSeq(s, 1, n - 2)
<1>1. n \in Nat /\ n > 1 /\ s # <<>> /\ DOMAIN s = 1..n /\ \A i \in 1..n : s[i] \in T
  BY LenProperties, ElementOfSeq, EmptySeq
<1>2. u \in Seq(T) /\ Front(s, u)
  BY <1>1, FrontIs
<1> HIDE DEF u
<1>3. Len(u) = n - 1 /\ DOMAIN u = 1..(n - 1) /\ \A i \in 1..(n - 1) : u[i] = s[i]
  BY <1>2 DEF Front
<1>4. u # <<>>
  BY <1>1, <1>3
<1>5. SubSeq(u, 1, Len(u) - 1) \in Seq(T) /\ Front(u, SubSeq(u, 1, Len(u) - 1))
  BY <1>2, <1>4, FrontIs
<1>6. Len(u) - 1 = n - 2 /\ w = SubSeq(u, 1, Len(u) - 1)
  BY <1>1, <1>3
<1>7. w \in Seq(T) /\ Len(w) = n - 2 /\ \A i \in 1..(n - 2) : w[i] = u[i]
  BY <1>5, <1>6 DEF Front
<1> HIDE DEF w
<1>8. \A i \in 1..(n - 2) : s[i] \in T /\ i \in 1..(n - 1)
  BY <1>1
<1>9. t \in Seq(T) /\ Len(t) = n - 2 /\ \A i \in 1..(n - 2) : t[i] = s[i]
  <2>1. \A i \in 1..(n - 2) : s[i] \in T
    BY <1>8
  <2>2. /\ t \in Seq(T) /\ Len(t) = IF 1 <= n - 2 THEN n - 2 - 1 + 1 ELSE 0
        /\ \A i \in 1..(n - 2 - 1 + 1) : t[i] = s[1 + i - 1]
    BY <1>1, <2>1, SubSeqProperties
  <2> QED BY <1>1, <2>2
<1> HIDE DEF t
<1>10. \A i \in 1..Len(w) : w[i] = t[i]
  BY <1>3, <1>7, <1>8, <1>9
<1>11. w = t
  BY <1>7, <1>9, <1>10, SeqEqual
<1>12. u[n - 1] = s[n - 1]
  BY <1>1, <1>3
<1> QED BY <1>3, <1>4, <1>6, <1>11, <1>12 DEF t, u, n

-----------------------------------------------------------------------------
(* A function of the program comes back. *)

LEMMA InvTypes ==
  ASSUME Inv
  PROVE  /\ Types(promises, pairs, combos, jobs, stack, known, held, calls)
         /\ Refs(promises, pairs, combos, jobs, stack, held)
         /\ Len(promises) \in Nat /\ DOMAIN promises = 1..Len(promises)
         /\ known \subseteq DOMAIN promises /\ stack \in Seq(FrameData)
         /\ \A v \in Given : v \in Values(promises) /\ (v = Plain \/ v = Thenable \/ v \in DOMAIN promises)
         /\ Plain \in Values(promises) /\ Thenable \in Values(promises)
<1>1. /\ Types(promises, pairs, combos, jobs, stack, known, held, calls)
      /\ Refs(promises, pairs, combos, jobs, stack, held)
  BY DEF Inv, Good
<1>2. Len(promises) \in Nat /\ DOMAIN promises = 1..Len(promises) /\ known \subseteq DOMAIN promises
      /\ stack \in Seq(FrameData)
  BY <1>1, Facts DEF Types
<1> QED BY <1>1, <1>2 DEF Given, Values, Plain, Thenable, Collected

LEMMA DropStep ==
  ASSUME Inv, ScriptEnds \/ ResultDropped
  PROVE  Inv' /\ Touches
<1>1. /\ stack # <<>> /\ Top.call \in {"script", "foreignThen", "itemThen"} /\ stack' = Callers
      /\ promises' = promises /\ pairs' = pairs /\ combos' = combos /\ jobs' = jobs
      /\ known' = known /\ held' = held /\ calls' = calls
  BY DEF ScriptEnds, ResultDropped, Returns
<1>2. Good(promises, pairs, combos, jobs, Callers, known, held, calls, 0)
  <2>1. Top.call # "getThen" /\ 0 = IF Top.call = "async" THEN Top.of ELSE 0
    BY <1>1
  <2> QED BY <1>1, <2>1, Back
<1> QED BY <1>1, <1>2, TouchesNone DEF Inv

LEMMA ToCapabilityStep ==
  ASSUME Inv, stack # <<>>, Top.call \in {"handler", "async", "native", "toFinally", "onFinally"},
         NEW rej \in BOOLEAN, NEW v \in Values(promises),
         CallCapability(jobs, Callers, Top.of, rej, v),
         UNCHANGED <<combos, known, held, calls>>
  PROVE  Inv' /\ Touches
<1> DEFINE y == IF Top.call = "async" THEN Top.of ELSE 0
<1>1. Good(promises, pairs, combos, jobs, Callers, known, held, calls, y) /\ FrameOk(promises, pairs, combos, Top)
  BY Back
<1>2. y \in {0, Top.of}
  OBVIOUS
<1> HIDE DEF y
<1>3. Capability(pairs, Top.of) \/ (Top.of \in DOMAIN pairs /\ pairs[Top.of].async)
  BY <1>1 DEF FrameOk
<1>4. Good(promises', pairs', combos, jobs', stack', known, held, calls, 0) /\ Touches
  BY <1>1, <1>2, <1>3, CallsCapability
<1> QED BY <1>4 DEF Inv

LEMMA ResultStep ==
  ASSUME Inv,
         \/ \E v \in Given : ResultToCapability(FALSE, v)
         \/ ResultToCapability(TRUE, Plain) \/ NativeReturns \/ FinallyEnds \/ FinallyThrows(Plain)
  PROVE  Inv' /\ Touches
<1>1. ASSUME NEW v \in Given, ResultToCapability(FALSE, v) PROVE Inv' /\ Touches
  <2>1. v \in Values(promises)
    BY InvTypes
  <2>2. /\ stack # <<>> /\ Top.call \in {"handler", "async", "native", "toFinally", "onFinally"}
        /\ CallCapability(jobs, Callers, Top.of, FALSE, v) /\ UNCHANGED <<combos, known, held, calls>>
    BY <1>1 DEF ResultToCapability, Returns
  <2> QED BY <2>1, <2>2, ToCapabilityStep
<1>2. CASE ResultToCapability(TRUE, Plain)
  <2>1. Plain \in Values(promises)
    BY InvTypes
  <2>2. /\ stack # <<>> /\ Top.call \in {"handler", "async", "native", "toFinally", "onFinally"}
        /\ CallCapability(jobs, Callers, Top.of, TRUE, Plain) /\ UNCHANGED <<combos, known, held, calls>>
    BY <1>2 DEF ResultToCapability, Returns
  <2> QED BY <2>1, <2>2, ToCapabilityStep
<1>3. CASE NativeReturns
  <2>1. Plain \in Values(promises)
    BY InvTypes
  <2>2. /\ stack # <<>> /\ Top.call \in {"handler", "async", "native", "toFinally", "onFinally"}
        /\ CallCapability(jobs, Callers, Top.of, FALSE, Plain) /\ UNCHANGED <<combos, known, held, calls>>
    BY <1>3 DEF NativeReturns, Returns
  <2> QED BY <2>1, <2>2, ToCapabilityStep
<1>4. CASE FinallyEnds
  <2>1. /\ stack # <<>> /\ Top.call = "toFinally"
        /\ CallCapability(jobs, Callers, Top.of, FALSE, Top.arg) /\ UNCHANGED <<combos, known, held, calls>>
    BY <1>4 DEF FinallyEnds, Returns
  <2>2. Top.arg \in Values(promises)
    <3>1. Top.call # "getThen" /\ 0 = IF Top.call = "async" THEN Top.of ELSE 0
      BY <2>1
    <3>2. FrameOk(promises, pairs, combos, Top)
      BY <2>1, <3>1, Back
    <3> QED BY <3>2 DEF FrameOk
  <2> QED BY <2>1, <2>2, ToCapabilityStep
<1>5. CASE FinallyThrows(Plain)
  <2>1. Plain \in Values(promises)
    BY InvTypes
  <2>2. /\ stack # <<>> /\ Top.call \in {"handler", "async", "native", "toFinally", "onFinally"}
        /\ CallCapability(jobs, Callers, Top.of, TRUE, Plain) /\ UNCHANGED <<combos, known, held, calls>>
    BY <1>5 DEF FinallyThrows, Returns
  <2> QED BY <2>1, <2>2, ToCapabilityStep
<1> QED BY <1>1, <1>2, <1>3, <1>4, <1>5

LEMMA ThrowsStep ==
  ASSUME Inv, Throws(Plain)
  PROVE  Inv' /\ Touches
<1>1. /\ stack # <<>> /\ Top.call = "foreignThen" /\ CallResolving(jobs, Callers, Top.of, TRUE, Plain)
      /\ combos' = combos /\ known' = known /\ held' = held /\ calls' = calls
  BY DEF Throws, Returns
<1>2. Good(promises, pairs, combos, jobs, Callers, known, held, calls, 0) /\ FrameOk(promises, pairs, combos, Top)
  <2>1. Top.call # "getThen" /\ 0 = IF Top.call = "async" THEN Top.of ELSE 0
    BY <1>1
  <2> QED BY <1>1, <2>1, Back
<1>3. Top.of \in DOMAIN pairs /\ FollowsTruly(promises, pairs, Top.of, TRUE, Plain) /\ Plain \in Values(promises)
  BY <1>1, <1>2, InvTypes DEF FrameOk, Public, FollowsTruly
<1>4. Good(promises', pairs', combos, jobs', stack', known, held, calls, 0) /\ Touches
  BY <1>1, <1>2, <1>3, Resolves
<1> QED BY <1>1, <1>4 DEF Inv

LEMMA ItemThrowsStep ==
  ASSUME Inv, ItemThrows(Plain)
  PROVE  Inv' /\ Touches
<1> DEFINE n == Len(stack)
           su == SubSeq(stack, 1, n - 2)
<1>1. /\ stack # <<>> /\ Top.call = "itemThen" /\ CallResolving(jobs, su, combos[Top.of].cap, TRUE, Plain)
      /\ combos' = combos /\ known' = known /\ held' = held /\ calls' = calls
  BY DEF ItemThrows, Returns
<1>2. Good(promises, pairs, combos, jobs, Callers, known, held, calls, 0) /\ FrameOk(promises, pairs, combos, Top)
  <2>1. Top.call # "getThen" /\ 0 = IF Top.call = "async" THEN Top.of ELSE 0
    BY <1>1
  <2> QED BY <1>1, <2>1, Back
<1>3. n > 1 /\ stack[n - 1].call = "all"
  <2>1. Below(stack) /\ stack \in Seq(FrameData)
    BY InvTypes DEF Inv, Good
  <2>2. n \in DOMAIN stack
    BY <1>1, <2>1, FrontIs
  <2> QED BY <1>1, <2>1, <2>2 DEF Below, Top
<1>4. /\ SubSeq(Callers, 1, Len(Callers) - 1) = su /\ Callers # <<>>
      /\ Callers[Len(Callers)] = stack[n - 1]
  <2>1. stack \in Seq(FrameData)
    BY InvTypes
  <2> QED BY <1>3, <2>1, FrontOfFront DEF Callers
<1> HIDE DEF su, n
<1>5. Good(promises, pairs, combos, jobs, su, known, held, calls, 0)
  <2>1. /\ Callers[Len(Callers)].call # "getThen"
        /\ 0 = IF Callers[Len(Callers)].call = "async" THEN Callers[Len(Callers)].of ELSE 0
    BY <1>3, <1>4
  <2>2. Good(promises, pairs, combos, jobs, SubSeq(Callers, 1, Len(Callers) - 1), known, held, calls, 0)
    BY <1>2, <1>4, <2>1, Pop
  <2> QED BY <1>4, <2>2
<1> DEFINE f == combos[Top.of].cap
<1>6. Public(pairs, f)
  BY <1>1, <1>2 DEF FrameOk, Good, Refs
<1>7. f \in DOMAIN pairs /\ FollowsTruly(promises, pairs, f, TRUE, Plain) /\ Plain \in Values(promises)
  BY <1>6, InvTypes DEF Public, FollowsTruly
<1>8. CallResolving(jobs, su, f, TRUE, Plain)
  BY <1>1
<1> HIDE DEF f
<1>9. Good(promises', pairs', combos, jobs', stack', known, held, calls, 0) /\ Touches
  BY <1>5, <1>7, <1>8, Resolves
<1> QED BY <1>1, <1>9 DEF Inv

LEMMA GetterStep ==
  ASSUME Inv, GetterThrows(Plain) \/ GetterGivesNoFunction \/ GetterGivesFunction
  PROVE  Inv' /\ Touches
<1> DEFINE p == pairs[Top.of].promise
<1>1. /\ stack # <<>> /\ Top.call = "getThen" /\ stack' = Callers
      /\ pairs' = pairs /\ combos' = combos /\ known' = known /\ held' = held /\ calls' = calls
      /\ \/ Settle(jobs, p, TRUE, Plain)
         \/ Settle(jobs, p, FALSE, Thenable)
         \/ jobs' = Append(jobs, ThenableJob(p, Thenable)) /\ promises' = promises
  BY DEF GetterThrows, GetterGivesNoFunction, GetterGivesFunction, Returns
<1>2. EndsGetter(pairs, stack, p, 0, pairs, Callers)
  BY <1>1 DEF EndsGetter, Top, Callers
<1>3. Plain \in Values(promises) /\ Thenable \in Values(promises) /\ Thenable <= 0
  BY InvTypes DEF Thenable
<1> HIDE DEF p
<1>7. promises[p] \in JSPromiseData /\ promises[p].state = "pending"
  <2>1. Good(promises, pairs, combos, jobs, stack, known, held, calls, 0)
    BY DEF Inv
  <2>2. p \in DOMAIN promises /\ promises[p].state = "pending"
    <3>1. UsesPair(pairs, stack, p, 0, 0, pairs, Callers) \/ EndsGetter(pairs, stack, p, 0, pairs, Callers)
      BY <1>2
    <3> QED BY <2>1, <3>1, WayUsed
  <2>3. Types(promises, pairs, combos, jobs, stack, known, held, calls)
    BY <2>1 DEF Good
  <2> QED BY <2>2, <2>3, Facts
<1>4. CASE Settle(jobs, p, TRUE, Plain)
  <2>1. /\ promises' = [promises EXCEPT ![p] = Outcome(promises[p], TRUE, Plain)]
        /\ jobs' = jobs \o Reactions(promises[p], p, TRUE, Plain)
    BY <1>4 DEF Settle, Outcome, Reactions
  <2>2. Good([promises EXCEPT ![p] = Outcome(promises[p], TRUE, Plain)], pairs, combos,
             jobs \o Reactions(promises[p], p, TRUE, Plain), Callers, known, held, calls, 0)
    BY <1>2, <1>3, Settles DEF Inv
  <2>3. TRUE \in BOOLEAN /\ FALSE \in BOOLEAN /\ Plain \in Int /\ Thenable \in Int
    BY DEF Plain, Thenable
  <2>4. Touched(promises[p], Outcome(promises[p], TRUE, Plain))
    BY ONLY <1>7, <2>3, OutcomeTouches, Zenon
  <2>5. Touches
    BY <2>1, <2>4, TouchesOne
  <2> QED BY <1>1, <2>1, <2>2, <2>5 DEF Inv
<1>5. CASE Settle(jobs, p, FALSE, Thenable)
  <2>1. /\ promises' = [promises EXCEPT ![p] = Outcome(promises[p], FALSE, Thenable)]
        /\ jobs' = jobs \o Reactions(promises[p], p, FALSE, Thenable)
    BY <1>5 DEF Settle, Outcome, Reactions
  <2>2. Good([promises EXCEPT ![p] = Outcome(promises[p], FALSE, Thenable)], pairs, combos,
             jobs \o Reactions(promises[p], p, FALSE, Thenable), Callers, known, held, calls, 0)
    BY <1>2, <1>3, Settles DEF Inv
  <2>3. TRUE \in BOOLEAN /\ FALSE \in BOOLEAN /\ Plain \in Int /\ Thenable \in Int
    BY DEF Plain, Thenable
  <2>4. Touched(promises[p], Outcome(promises[p], FALSE, Thenable))
    BY ONLY <1>7, <2>3, OutcomeTouches, Zenon
  <2>5. Touches
    BY <2>1, <2>4, TouchesOne
  <2> QED BY <1>1, <2>1, <2>2, <2>5 DEF Inv
<1>6. CASE jobs' = Append(jobs, ThenableJob(p, Thenable)) /\ promises' = promises
  <2>1. Good(promises, pairs, combos, Append(jobs, ThenableJob(p, Thenable)), Callers, known, held, calls, 0)
    BY <1>2, QueuesThenable DEF Inv
  <2> QED BY <1>1, <1>6, <2>1, TouchesNone DEF Inv
<1> QED BY <1>1, <1>4, <1>5, <1>6

LEMMA FinallyReturnsStep ==
  ASSUME Inv, NEW v \in known \cup {Plain}, FinallyReturns(v)
  PROVE  Inv'
<1> DEFINE thunk == Fn(IF Top.rej THEN "throw" ELSE "value", 0, Top.arg)
           made == Append(promises, Ready)
<1>1. /\ stack # <<>> /\ Top.call = "onFinally"
      /\ combos' = combos /\ known' = known /\ held' = held
      /\ \/ /\ v \in known /\ Then(jobs, v, thunk, Undefined)
            /\ stack' = Append(Callers, [Frame("toFinally", Top.of) EXCEPT !.arg = Fresh])
         \/ /\ v = Plain
            /\ PerformThen(Append(made, Pending), jobs, Fresh, FreshPair, thunk, Undefined)
            /\ pairs' = Append(pairs, NewPair(Fresh + 1))
            /\ calls' = calls \o <<<<>>, <<>>>>
            /\ stack' = Append(Callers, [Frame("toFinally", Top.of) EXCEPT !.arg = Fresh + 1])
  BY DEF FinallyReturns, Returns, Then, Ready
<1>2. /\ Good(promises, pairs, combos, jobs, Callers, known, held, calls, 0)
      /\ FrameOk(promises, pairs, combos, Top) /\ Top \in FrameData
  <2>1. Top.call # "getThen" /\ 0 = IF Top.call = "async" THEN Top.of ELSE 0
    BY <1>1
  <2> QED BY <1>1, <2>1, Back
<1>3. Top.arg \in Values(promises) /\ Capability(pairs, Top.of) /\ Top.of \in Nat /\ Top.arg \in Int
  BY <1>1, <1>2 DEF FrameOk, FrameData
<1>4. /\ known \subseteq DOMAIN promises /\ Len(promises) \in Nat /\ DOMAIN promises = 1..Len(promises)
      /\ Plain \in Values(promises)
  BY InvTypes
<1>5. /\ thunk \in Callables /\ Undefined \in Callables /\ thunk.fn # "asyncResolve"
      /\ Code(promises, thunk) /\ Code(promises, Undefined)
  <2>1. 0 \in Values(promises)
    BY <1>4 DEF Plain
  <2> QED BY <1>3, <2>1 DEF Fn, Undefined, Callables, Simple, Code
<1> HIDE DEF thunk
<1>6. ASSUME NEW q \in Nat
      PROVE  LET m == [Frame("toFinally", Top.of) EXCEPT !.arg = q] IN
             m \in FrameData /\ m.call = "toFinally" /\ m.of = Top.of /\ m.arg = q
  <2> DEFINE b == Frame("toFinally", Top.of)
  <2>1. b \in FrameData /\ b.call = "toFinally" /\ b.of = Top.of
    BY <1>3 DEF Frame, FrameData, Plain
  <2> HIDE DEF b
  <2>2. [b EXCEPT !.arg = q] \in FrameData /\ [b EXCEPT !.arg = q].call = b.call
        /\ [b EXCEPT !.arg = q].of = b.of /\ [b EXCEPT !.arg = q].arg = q
    BY <2>1 DEF FrameData
  <2> QED BY <2>1, <2>2 DEF b
<1>7. CASE /\ v \in known /\ Then(jobs, v, thunk, Undefined)
           /\ stack' = Append(Callers, [Frame("toFinally", Top.of) EXCEPT !.arg = Fresh])
  <2> DEFINE m == [Frame("toFinally", Top.of) EXCEPT !.arg = Fresh]
  <2>1. /\ Good(promises', pairs', combos, jobs', Callers, known, held, calls', 0)
        /\ Fresh \in DOMAIN promises'
    <3>1. Handlers(promises, pairs, combos, v, thunk, Undefined) /\ v \in DOMAIN promises
      BY <1>4, <1>5, <1>7 DEF Handlers
    <3> QED BY <1>2, <1>5, <1>7, <3>1, Thens
  <2>2. Capability(pairs', Top.of)
    <3>1. pairs' = Append(pairs, NewPair(Fresh))
      BY <1>7 DEF Then
    <3>2. /\ Grows(promises, pairs, combos, Append(promises, Pending), pairs', combos)
          /\ DOMAIN promises \subseteq DOMAIN Append(promises, Pending)
      BY <1>2, <3>1, MakesOne DEF Fresh
    <3>3. Good(Append(promises, Pending), Append(pairs, NewPair(Len(promises) + 1)), combos, jobs, Callers, known, held, Append(calls, <<>>), 0)
      BY <1>2, MakesOne
    <3>4. Len(Append(promises, Pending)) \in Nat
      BY <3>3, Facts DEF Good
    <3> QED BY <1>3, <1>4, <3>2, <3>4, GrowsRefs
  <2>3. Fresh \in Nat
    BY <1>4 DEF Fresh
  <2>4. m \in FrameData /\ m.call = "toFinally" /\ m.of = Top.of /\ m.arg = Fresh
    BY <1>6, <2>3
  <2> HIDE DEF m
  <2>5. FrameOk(promises', pairs', combos, m)
    <3>1. DOMAIN promises' = 1..Len(promises') /\ Len(promises') \in Nat
      BY <2>1, Facts DEF Good
    <3> QED BY <2>1, <2>2, <2>4, <3>1 DEF FrameOk, Values, Collected
  <2>6. Good(promises', pairs', combos, jobs', Append(Callers, m), known, held, calls', 0)
    BY <2>1, <2>4, <2>5, Push
  <2> QED BY <1>1, <1>7, <2>6 DEF Inv, m
<1>8. CASE /\ PerformThen(Append(made, Pending), jobs, Fresh, FreshPair, thunk, Undefined)
           /\ pairs' = Append(pairs, NewPair(Fresh + 1))
           /\ calls' = calls \o <<<<>>, <<>>>>
           /\ stack' = Append(Callers, [Frame("toFinally", Top.of) EXCEPT !.arg = Fresh + 1])
  <2> DEFINE m == [Frame("toFinally", Top.of) EXCEPT !.arg = Fresh + 1]
             ps == Append(made, Pending)
             prs == Append(pairs, NewPair(Fresh + 1))
             ds == Append(calls, <<>>)
             cs == Append(ds, <<>>)
  <2>1. Good(made, pairs, combos, jobs, Callers, known, held, ds, 0)
    BY <1>2, MakeReady
  <2>2. Len(made) + 1 = Fresh + 1 /\ Fresh \in DOMAIN made /\ Len(made) \in Nat
    <3>1. Types(promises, pairs, combos, jobs, Callers, known, held, calls)
      BY <1>2 DEF Good
    <3>2. NewPair(1) \in PairData
      BY NewPairIs
    <3>3. Len(made) = Len(promises) + 1 /\ Fresh \in DOMAIN made
      BY <3>1, <3>2, FreshOnes, PendingIs DEF Fresh
    <3> QED BY <3>3, <1>4 DEF Fresh
  <2> HIDE DEF made
  <2>3. /\ Good(ps, prs, combos, jobs, Callers, known, held, cs, 0)
        /\ Public(prs, FreshPair) /\ Fresh + 1 \in DOMAIN ps /\ FreshPair \in Nat
        /\ Fresh \in DOMAIN ps /\ Grows(made, pairs, combos, ps, prs, combos)
    <3> DEFINE pr == Append(pairs, NewPair(Len(made) + 1))
    <3>1. /\ Good(ps, pr, combos, jobs, Callers, known, held, cs, 0)
          /\ Public(pr, Len(pairs) + 1) /\ Len(made) + 1 \in DOMAIN ps /\ Len(pairs) \in Nat
          /\ DOMAIN made \subseteq DOMAIN ps /\ Grows(made, pairs, combos, ps, pr, combos)
      BY <2>1, MakesOne
    <3>2. pr = prs
      BY <2>2
    <3> HIDE DEF pr, ps, prs, cs
    <3> QED BY <2>2, <3>1, <3>2 DEF FreshPair
  <2>4. calls' = cs
    <3>1. calls \in Seq(Seq(CallData)) /\ <<>> \in Seq(CallData)
      BY InvTypes, EmptySeq DEF Types
    <3> QED BY <1>8, <3>1, TwoMore
  <2>5. Len(ps) \in Nat /\ DOMAIN ps = 1..Len(ps)
    BY <2>3, Facts DEF Good
  <2> HIDE DEF ps, prs, cs, ds
  <2>6. Code(ps, thunk) /\ Code(ps, Undefined)
    <3>1. Grows(promises, pairs, combos, made, pairs, combos)
      <4>1. Types(promises, pairs, combos, jobs, Callers, known, held, calls)
        BY <1>2 DEF Good
      <4>2. NewPair(1) \in PairData
        BY NewPairIs
      <4> QED BY <4>1, <4>2, FreshOnes, PendingIs DEF made
    <3>2. Code(made, thunk) /\ Code(made, Undefined)
      BY <1>4, <1>5, <2>2, <3>1, GrowsRefs
    <3> QED BY <2>2, <2>3, <2>5, <3>2, GrowsRefs
  <2>7. Capability(prs, Top.of)
    BY <1>3, <2>2, <2>3, <2>5, GrowsRefs
  <2>8. /\ Handlers(ps, prs, combos, Fresh, thunk, Undefined) /\ Takes(prs, Fresh, thunk, Undefined, 0, 0)
        /\ Capability(prs, FreshPair)
    BY <1>5, <2>3, <2>6 DEF Handlers, Takes, Capability
  <2>9. PerformThen(ps, jobs, Fresh, FreshPair, thunk, Undefined)
    BY <1>8 DEF ps
  <2>10. Good(promises', prs, combos, jobs', Callers, known, held, cs, 0) /\ DOMAIN promises' = DOMAIN ps
    BY <1>5, <2>3, <2>8, <2>9, Performs, PerformDomain
  <2>11. Fresh + 1 \in Nat
    BY <1>4 DEF Fresh
  <2>12. m \in FrameData /\ m.call = "toFinally" /\ m.of = Top.of /\ m.arg = Fresh + 1
    BY <1>6, <2>11
  <2> HIDE DEF m
  <2>13. FrameOk(promises', prs, combos, m)
    <3>1. DOMAIN promises' = 1..Len(promises') /\ Len(promises') \in Nat
      BY <2>10, Facts DEF Good
    <3> QED BY <2>3, <2>7, <2>10, <2>12, <3>1 DEF FrameOk, Values, Collected
  <2>14. Good(promises', prs, combos, jobs', Append(Callers, m), known, held, cs, 0)
    BY <2>10, <2>12, <2>13, Push
  <2> QED BY <1>1, <1>8, <2>4, <2>14 DEF Inv, m, prs
<1> QED BY <1>1, <1>7, <1>8

-----------------------------------------------------------------------------
(* JS_ExecutePendingJob *)

\* What is known when the job of a reaction begins.
LEMMA ReactionBegins ==
  ASSUME Inv, NEW fns, IsReaction(fns)
  PROVE  /\ Good(promises, pairs, combos, Rest, <<>>, known, held, Called, Hand(pairs, Job.handler))
         /\ stack = <<>> /\ Job.handler.fn \in fns
         /\ Job.promise \in DOMAIN promises /\ Job \in ReactionJobs
         /\ promises[Job.promise].state = (IF Job.rej THEN "rejected" ELSE "fulfilled")
         /\ promises[Job.promise].result = Job.arg
         /\ Job.arg \in Values(promises) /\ Capability(pairs, Job.cap)
         /\ Job.handler.fn \in Simple => Job.handler.at \in Values(promises)
         /\ Job.handler.fn \in {"asyncResolve", "asyncReject"} =>
              Job.handler.of \in DOMAIN pairs /\ pairs[Job.handler.of].async
         /\ Job.handler.fn \in {"resolve", "reject"} =>
              /\ Job.handler.of \in DOMAIN pairs
              /\ Public(pairs, Job.handler.of)
                   \/ (pairs[Job.handler.of].follows = Job.promise /\ (Job.handler.fn = "reject" <=> Job.rej))
         /\ Job.handler.fn \in {"element", "rejectElement"} =>
              /\ Job.handler.of \in DOMAIN combos /\ Job.handler.at \in Native(combos, Job.handler.of)
              /\ combos[Job.handler.of].type # "race"
<1>1. stack = <<>> /\ jobs # <<>> /\ Head(jobs).job = "reaction" /\ Job.handler.fn \in fns
  BY DEF IsReaction, Job
<1>2. Good(promises, pairs, combos, jobs, <<>>, known, held, calls, 0)
  BY <1>1 DEF Inv
<1>3. /\ Good(promises, pairs, combos, Tail(jobs), <<>>, known, held,
              [calls EXCEPT ![Job.promise] = Append(calls[Job.promise], Entry(Job))], Hand(pairs, Job.handler))
      /\ Job.promise \in DOMAIN promises /\ Job \in ReactionJobs /\ JobOk(promises, pairs, combos, Job)
      /\ promises[Job.promise].state = (IF Job.rej THEN "rejected" ELSE "fulfilled")
      /\ promises[Job.promise].result = Job.arg
  BY <1>1, <1>2, TakeReaction DEF Job
<1>4. Called = [calls EXCEPT ![Job.promise] = Append(calls[Job.promise], Entry(Job))]
  BY DEF Called, Entry
<1>5. /\ Job.arg \in Values(promises) /\ Capability(pairs, Job.cap)
      /\ Handler(promises, pairs, combos, Job.promise, Job.rej, Job.handler)
  BY <1>3 DEF JobOk, ReactionJobs
<1>6. \A c \in DOMAIN combos : Public(pairs, combos[c].cap) /\ combos[c].type \in CombinatorTypes
  BY <1>2, Facts DEF Good, Refs, ComboData
<1>7. /\ Job.handler.fn \in Simple => Job.handler.at \in Values(promises)
      /\ Job.handler.fn \in {"asyncResolve", "asyncReject"} =>
           Job.handler.of \in DOMAIN pairs /\ pairs[Job.handler.of].async
      /\ Job.handler.fn \in {"resolve", "reject"} =>
           /\ Job.handler.of \in DOMAIN pairs
           /\ Public(pairs, Job.handler.of)
                \/ (pairs[Job.handler.of].follows = Job.promise /\ (Job.handler.fn = "reject" <=> Job.rej))
      /\ Job.handler.fn \in {"element", "rejectElement"} =>
           /\ Job.handler.of \in DOMAIN combos /\ Job.handler.at \in Native(combos, Job.handler.of)
           /\ combos[Job.handler.of].type # "race"
  BY <1>5, <1>6, HandlerCases
<1> QED BY <1>1, <1>3, <1>4, <1>5, <1>7 DEF Rest

LEMMA ReactionPassesStep ==
  ASSUME Inv, ReactionPasses
  PROVE  Inv' /\ Touches
<1> DEFINE none == Job.handler.fn = "undefined"
           rej == IF none THEN Job.rej ELSE Job.handler.fn = "throw"
           v == IF none THEN Job.arg ELSE Job.handler.at
<1>1. /\ IsReaction({"undefined", "value", "throw"}) /\ CallCapability(Rest, <<>>, Job.cap, rej, v)
      /\ calls' = Called /\ combos' = combos /\ known' = known /\ held' = held
  BY DEF ReactionPasses
<1>2. /\ Good(promises, pairs, combos, Rest, <<>>, known, held, Called, Hand(pairs, Job.handler))
      /\ Job.handler.fn \in {"undefined", "value", "throw"} /\ Job \in ReactionJobs
      /\ Job.arg \in Values(promises) /\ Capability(pairs, Job.cap)
      /\ Job.handler.fn \in Simple => Job.handler.at \in Values(promises)
  BY <1>1, ReactionBegins
<1>3. Hand(pairs, Job.handler) = 0
  BY <1>2 DEF Hand
<1>4. rej \in BOOLEAN /\ v \in Values(promises)
  BY <1>2 DEF ReactionJobs, Simple
<1> HIDE DEF rej, v
<1>5. Good(promises', pairs', combos, jobs', stack', known, held, Called, 0) /\ Touches
  BY <1>1, <1>2, <1>3, <1>4, CallsCapability
<1> QED BY <1>1, <1>5 DEF Inv

LEMMA ReactionCallsProgramStep ==
  ASSUME Inv, ReactionCallsProgram
  PROVE  Inv' /\ Touches
<1> DEFINE m == CASE Job.handler.fn = "user" -> Frame("handler", Job.cap)
                  [] Job.handler.fn = "finally" ->
                       [call |-> "onFinally", of |-> Job.cap, rej |-> Job.rej, arg |-> Job.arg]
                  [] OTHER -> Frame("async", Job.handler.of)
           x == Hand(pairs, Job.handler)
<1>1. /\ IsReaction({"user", "asyncResolve", "asyncReject", "finally"}) /\ stack' = <<m>>
      /\ known' = known \cup ({Job.arg} \cap Promises) /\ jobs' = Rest /\ calls' = Called
      /\ promises' = promises /\ pairs' = pairs /\ combos' = combos /\ held' = held
  BY DEF ReactionCallsProgram
<1>2. /\ Good(promises, pairs, combos, Rest, <<>>, known, held, Called, x)
      /\ Job.handler.fn \in {"user", "asyncResolve", "asyncReject", "finally"} /\ Job \in ReactionJobs
      /\ Job.arg \in Values(promises) /\ Capability(pairs, Job.cap)
      /\ Job.handler.fn \in {"asyncResolve", "asyncReject"} =>
           Job.handler.of \in DOMAIN pairs /\ pairs[Job.handler.of].async
  BY <1>1, ReactionBegins
<1>3. /\ Job.cap \in Nat /\ Job.rej \in BOOLEAN /\ Job.arg \in Int /\ Job.handler \in Callables /\ Job.handler.of \in Nat
  BY <1>2 DEF ReactionJobs, Callables
<1>4. Plain \in Values(promises)
  BY InvTypes
<1>5. CASE Job.handler.fn = "user"
  <2>1. m = Frame("handler", Job.cap) /\ x = 0
    BY <1>5 DEF Hand
  <2> HIDE DEF m, x
  <2>2. m \in FrameData /\ m.call = "handler" /\ m.of = Job.cap /\ m.arg = Plain
    BY <1>3, <2>1 DEF Frame, FrameData, UserCalls, Plain
  <2>3. FrameOk(promises, pairs, combos, m)
    BY <1>2, <1>4, <2>2 DEF FrameOk
  <2>4. Good(promises, pairs, combos, Rest, Append(<<>>, m), known, held, Called, 0)
    BY <1>2, <2>1, <2>2, <2>3, Push
  <2>5. Append(<<>>, m) = <<m>> /\ known' \subseteq known \cup DOMAIN promises
    BY <1>1 DEF Promises
  <2>6. Good(promises, pairs, combos, Rest, <<m>>, known', held, Called, 0)
    BY <2>4, <2>5, Gives
  <2> QED BY <1>1, <2>6, TouchesNone DEF Inv
<1>6. CASE Job.handler.fn = "finally"
  <2>1. m = [call |-> "onFinally", of |-> Job.cap, rej |-> Job.rej, arg |-> Job.arg] /\ x = 0
    BY <1>6 DEF Hand
  <2> HIDE DEF m, x
  <2>2. m \in FrameData /\ m.call = "onFinally" /\ m.of = Job.cap /\ m.arg = Job.arg
    BY <1>3, <2>1 DEF FrameData, UserCalls
  <2>3. FrameOk(promises, pairs, combos, m)
    BY <1>2, <2>2 DEF FrameOk
  <2>4. Good(promises, pairs, combos, Rest, Append(<<>>, m), known, held, Called, 0)
    BY <1>2, <2>1, <2>2, <2>3, Push
  <2>5. Append(<<>>, m) = <<m>> /\ known' \subseteq known \cup DOMAIN promises
    BY <1>1 DEF Promises
  <2>6. Good(promises, pairs, combos, Rest, <<m>>, known', held, Called, 0)
    BY <2>4, <2>5, Gives
  <2> QED BY <1>1, <2>6, TouchesNone DEF Inv
<1>7. CASE Job.handler.fn \in {"asyncResolve", "asyncReject"}
  <2>1. m = Frame("async", Job.handler.of) /\ x = Job.handler.of
    BY <1>7 DEF Hand
  <2> HIDE DEF m, x
  <2>2. m \in FrameData /\ m.call = "async" /\ m.of = x /\ m.arg = Plain
    BY <1>3, <2>1 DEF Frame, FrameData, UserCalls, Plain
  <2>3. FrameOk(promises, pairs, combos, m)
    BY <1>2, <1>4, <1>7, <2>1, <2>2 DEF FrameOk
  <2>4. pairs[x].follows = Plain
    <3>1. PairOk(promises, pairs[x]) /\ pairs[x].async
      BY <1>2, <1>7, <2>1 DEF Good, Refs
    <3> QED BY <3>1 DEF PairOk
  <2>5. Good(promises, pairs, combos, Rest, Append(<<>>, m), known, held, Called, 0)
    BY <1>2, <2>2, <2>3, <2>4, Push
  <2>6. Append(<<>>, m) = <<m>> /\ known' \subseteq known \cup DOMAIN promises
    BY <1>1 DEF Promises
  <2>7. Good(promises, pairs, combos, Rest, <<m>>, known', held, Called, 0)
    BY <2>5, <2>6, Gives
  <2> QED BY <1>1, <2>7, TouchesNone DEF Inv
<1> QED BY <1>2, <1>5, <1>6, <1>7

LEMMA ReactionCallsNativeStep ==
  ASSUME Inv, ReactionCallsNative
  PROVE  Inv' /\ Touches
<1> DEFINE m == Frame("native", Job.cap)
           x == Hand(pairs, Job.handler)
           h == Job.handler
<1>1. /\ IsReaction({"resolve", "reject", "element", "rejectElement"}) /\ CallNative(Rest, <<m>>, h, Job.arg)
      /\ calls' = Called /\ known' = known /\ held' = held
  BY DEF ReactionCallsNative
<1>2. /\ Good(promises, pairs, combos, Rest, <<>>, known, held, Called, x)
      /\ h.fn \in {"resolve", "reject", "element", "rejectElement"} /\ Job \in ReactionJobs
      /\ promises[Job.promise].state = (IF Job.rej THEN "rejected" ELSE "fulfilled")
      /\ promises[Job.promise].result = Job.arg
      /\ Job.arg \in Values(promises) /\ Capability(pairs, Job.cap)
      /\ h.fn \in {"resolve", "reject"} =>
           /\ h.of \in DOMAIN pairs
           /\ Public(pairs, h.of) \/ (pairs[h.of].follows = Job.promise /\ (h.fn = "reject" <=> Job.rej))
      /\ h.fn \in {"element", "rejectElement"} =>
           /\ h.of \in DOMAIN combos /\ h.at \in Native(combos, h.of)
           /\ combos[h.of].type # "race"
  BY <1>1, ReactionBegins
<1>3. Job.cap \in Nat /\ Plain \in Values(promises) /\ Job.rej \in BOOLEAN
  BY <1>2, InvTypes DEF ReactionJobs
<1>4. m \in FrameData /\ m.call = "native" /\ m.of = Job.cap /\ m.arg = Plain
  BY <1>3 DEF Frame, FrameData, UserCalls, Plain
<1>5. x = IF \/ h.fn \in {"asyncResolve", "asyncReject"}
             \/ h.fn \in {"resolve", "reject"} /\ h.of \in DOMAIN pairs /\ pairs[h.of].follows # Plain
          THEN h.of ELSE 0
  BY DEF Hand
<1> HIDE DEF m, x, h
<1>6. FrameOk(promises, pairs, combos, m)
  BY <1>2, <1>3, <1>4 DEF FrameOk
<1>7. Good(promises, pairs, combos, Rest, <<m>>, known, held, Called, x)
  <2>1. Good(promises, pairs, combos, Rest, Append(<<>>, m), known, held, Called, x)
    BY <1>2, <1>4, <1>6, Push
  <2>2. Append(<<>>, m) = <<m>>
    OBVIOUS
  <2> QED BY <2>1, <2>2
<1>8. CASE h.fn \in {"resolve", "reject"}
  <2>1. CallResolving(Rest, <<m>>, h.of, h.fn = "reject", Job.arg) /\ combos' = combos
    BY <1>1, <1>8 DEF CallNative
  <2>2. x \in {0, h.of} /\ h.of \in DOMAIN pairs /\ (h.fn = "reject") \in BOOLEAN
    BY <1>2, <1>5, <1>8
  <2>3. FollowsTruly(promises, pairs, h.of, h.fn = "reject", Job.arg)
    BY <1>2, <1>3, <1>8 DEF FollowsTruly, Public
  <2>4. Good(promises', pairs', combos, jobs', stack', known, held, Called, 0) /\ Touches
    BY <1>2, <1>7, <2>1, <2>2, <2>3, Resolves
  <2> QED BY <1>1, <2>1, <2>4 DEF Inv
<1>9. CASE h.fn \in {"element", "rejectElement"}
  <2>1. CallElement(Rest, <<m>>, h, Job.arg)
    BY <1>1, <1>9 DEF CallNative
  <2>2. x = 0 /\ h.at \in 1..combos[h.of].n
    BY <1>2, <1>5, <1>9 DEF Native
  <2>3. Good(promises', pairs', combos', jobs', stack', known, held, Called, 0) /\ Touches
    BY <1>2, <1>7, <1>9, <2>1, <2>2, CallsElement
  <2> QED BY <1>1, <2>3 DEF Inv
<1> QED BY <1>2, <1>8, <1>9

LEMMA ThenableIsPromiseStep ==
  ASSUME Inv, ThenableIsPromise
  PROVE  Inv'
<1> DEFINE e == [NewPair(Job.promise) EXCEPT !.follows = Job.arg]
           qrs == Append(pairs, e)
           ps == Append(promises, Pending)
           prs == Append(qrs, NewPair(Fresh))
           cs == Append(calls, <<>>)
           g == Fn("resolve", FreshPair, 0)
           h == Fn("reject", FreshPair, 0)
<1>1. /\ stack = <<>> /\ jobs # <<>> /\ Head(jobs).job = "thenable" /\ Job.arg # Thenable
      /\ pairs' = pairs \o <<e, NewPair(Fresh)>>
      /\ PerformThen(ps, Rest, Job.arg, FreshPair + 1, g, h)
      /\ calls' = cs /\ combos' = combos /\ stack' = stack /\ known' = known /\ held' = held
  BY DEF ThenableIsPromise, IsThenable, Job, WithFresh
<1>2. /\ Types(promises, pairs, combos, jobs, stack, known, held, calls)
      /\ Refs(promises, pairs, combos, jobs, stack, held)
      /\ Len(promises) \in Nat /\ DOMAIN promises = 1..Len(promises)
  BY InvTypes
<1>3. Len(pairs) \in Nat /\ pairs \in Seq(PairData)
  BY <1>2, Facts DEF Types
<1>4. Job \in JobData /\ JobOk(promises, pairs, combos, Job) /\ Job.job = "thenable"
  <2>1. jobs \in Seq(JobData)
    BY <1>2 DEF Types
  <2>2. 1 \in DOMAIN jobs /\ Head(jobs) = jobs[1]
    BY <1>1, <2>1, TailIs
  <2> QED BY <1>1, <1>2, <2>1, <2>2, Domain DEF Refs, Job
<1>5. Job.promise \in DOMAIN promises /\ Job.arg > 0 /\ Job.arg \in Values(promises)
  BY <1>1, <1>4 DEF JobOk
<1>6. Job.promise \in Nat /\ Job.arg \in Nat /\ Job.arg # Plain /\ Job.arg \in DOMAIN promises
  BY <1>2, <1>5 DEF Values, Plain, Collected
<1>7. e \in PairData /\ e.promise = Job.promise /\ ~e.resolved /\ ~e.async /\ e.follows = Job.arg
  <2> DEFINE b == NewPair(Job.promise)
  <2>1. b \in PairData /\ b.promise = Job.promise /\ ~b.resolved /\ b.async = FALSE
    BY <1>6, NewPairIs
  <2> HIDE DEF b
  <2>2. /\ [b EXCEPT !.follows = Job.arg] \in PairData /\ [b EXCEPT !.follows = Job.arg].follows = Job.arg
        /\ [b EXCEPT !.follows = Job.arg].promise = b.promise /\ [b EXCEPT !.follows = Job.arg].async = b.async
        /\ [b EXCEPT !.follows = Job.arg].resolved = b.resolved
    BY <1>6, <2>1 DEF PairData
  <2> QED BY <2>1, <2>2 DEF b
<1>8. pairs' = prs
  <2>1. NewPair(Fresh) \in PairData
    <3>1. Fresh \in Nat
      BY <1>2 DEF Fresh
    <3> QED BY <3>1, NewPairIs
  <2> HIDE DEF e
  <2> QED BY <1>1, <1>3, <1>7, <2>1, TwoMore
<1> HIDE DEF e
<1>9. Good(promises, qrs, combos, Rest, stack, known, held, calls, FreshPair)
  <2>1. /\ e.follows = (IF Head(jobs).arg = Thenable THEN Plain ELSE Head(jobs).arg)
        /\ FreshPair = (IF e.follows = Plain THEN 0 ELSE Len(pairs) + 1)
        /\ e.promise = Head(jobs).promise
    BY <1>1, <1>6, <1>7 DEF Job, FreshPair
  <2> QED BY <1>1, <1>7, <2>1, TakeThenable DEF Inv, Rest
<1>10. FreshPair \in DOMAIN qrs /\ qrs[FreshPair] = e /\ Len(qrs) + 1 = FreshPair + 1
  BY <1>2, <1>3, <1>7, FreshOnes, PendingIs DEF FreshPair
<1> HIDE DEF qrs
<1>11. /\ Good(ps, prs, combos, Rest, stack, known, held, cs, FreshPair)
       /\ Public(prs, FreshPair + 1) /\ Job.arg \in DOMAIN ps
       /\ Grows(promises, qrs, combos, ps, prs, combos)
  BY <1>6, <1>9, <1>10, MakesOne DEF Fresh
<1> HIDE DEF ps, prs, cs
<1>12. FreshPair \in DOMAIN prs /\ prs[FreshPair].follows = Job.arg /\ ~prs[FreshPair].async
  BY <1>7, <1>10, <1>11 DEF Grows
<1>13. Handlers(ps, prs, combos, Job.arg, g, h) /\ Takes(prs, Job.arg, g, h, FreshPair, 0)
  BY <1>12 DEF Handlers, Takes
<1>14. g \in Callables /\ h \in Callables /\ FreshPair + 1 \in Nat /\ Capability(prs, FreshPair + 1)
  BY <1>3, <1>11 DEF Fn, Callables, FreshPair, Capability
<1> HIDE DEF g, h
<1>15. Good(promises', prs, combos, jobs', stack, known, held, cs, 0)
  BY <1>1, <1>11, <1>13, <1>14, Performs
<1> QED BY <1>1, <1>8, <1>15 DEF Inv

LEMMA ThenableIsForeignStep ==
  ASSUME Inv, ThenableIsForeign
  PROVE  Inv' /\ Touches
<1> DEFINE e == NewPair(Job.promise)
           prs == Append(pairs, e)
           m == Frame("foreignThen", FreshPair)
<1>1. /\ stack = <<>> /\ jobs # <<>> /\ Head(jobs).job = "thenable" /\ Job.arg = Thenable
      /\ pairs' = prs /\ held' = held \cup Resolving(FreshPair) /\ stack' = <<m>>
      /\ jobs' = Rest /\ promises' = promises /\ combos' = combos /\ known' = known /\ calls' = calls
  BY DEF ThenableIsForeign, IsThenable, Job
<1>2. /\ Types(promises, pairs, combos, jobs, stack, known, held, calls)
      /\ Refs(promises, pairs, combos, jobs, stack, held)
      /\ Len(promises) \in Nat /\ DOMAIN promises = 1..Len(promises) /\ Plain \in Values(promises)
  BY InvTypes
<1>3. Len(pairs) \in Nat /\ pairs \in Seq(PairData)
  BY <1>2, Facts DEF Types
<1>4. Job.promise \in Nat
  <2>1. jobs \in Seq(JobData)
    BY <1>2 DEF Types
  <2>2. 1 \in DOMAIN jobs /\ Head(jobs) = jobs[1]
    BY <1>1, <2>1, TailIs
  <2> QED BY <1>2, <2>2 DEF Refs, JobOk, Job
<1>5. e \in PairData /\ e.promise = Job.promise /\ ~e.resolved /\ e.async = FALSE /\ e.follows = Plain
  BY <1>4, NewPairIs
<1> HIDE DEF e
<1>6. Good(promises, prs, combos, Rest, stack, known, held, calls, 0)
  <2>1. /\ e.follows = (IF Head(jobs).arg = Thenable THEN Plain ELSE Head(jobs).arg)
        /\ 0 = (IF e.follows = Plain THEN 0 ELSE Len(pairs) + 1)
        /\ e.promise = Head(jobs).promise
    BY <1>1, <1>5 DEF Job
  <2> QED BY <1>1, <1>5, <2>1, TakeThenable DEF Inv, Rest
<1>7. FreshPair \in DOMAIN prs /\ prs[FreshPair] = e /\ FreshPair \in Nat
  BY <1>2, <1>3, <1>5, FreshOnes, PendingIs DEF FreshPair
<1>8. Public(prs, FreshPair)
  BY <1>5, <1>7 DEF Public
<1> HIDE DEF prs
<1>9. \A h \in Resolving(FreshPair) : h \in Callables /\ HeldOk(prs, combos, h)
  BY <1>7, <1>8 DEF Resolving, Fn, Callables, HeldOk
<1>10. Good(promises, prs, combos, Rest, stack, known, held', calls, 0)
  <2>1. known \subseteq known \cup DOMAIN promises
    OBVIOUS
  <2>2. \A h \in held' : h \in held \/ (h \in Callables /\ HeldOk(prs, combos, h))
    BY <1>1, <1>9
  <2> QED BY <1>6, <2>1, <2>2, Gives
<1>11. m \in FrameData /\ m.call = "foreignThen" /\ m.of = FreshPair /\ m.arg = Plain
  BY <1>7 DEF Frame, FrameData, UserCalls, Plain
<1> HIDE DEF m
<1>12. FrameOk(promises, prs, combos, m)
  BY <1>2, <1>8, <1>11 DEF FrameOk
<1>13. Good(promises, prs, combos, Rest, Append(stack, m), known, held', calls, 0)
  BY <1>10, <1>11, <1>12, Push
<1>14. Append(stack, m) = <<m>>
  BY <1>1
<1> QED BY <1>1, <1>13, <1>14, TouchesNone DEF Inv

LEMMA InitIsGood ==
  ASSUME Init
  PROVE  Inv
<1> DEFINE m == Frame("script", 0)
<1>1. /\ promises = [p \in 1..Made |-> Pending] /\ pairs = [p \in 1..Made |-> NewPair(p)]
      /\ calls = [p \in 1..Made |-> <<>>] /\ known = 1..Made
      /\ held = UNION {Resolving(p) : p \in 1..Made}
      /\ combos = <<>> /\ jobs = <<>> /\ stack = <<m>>
  BY DEF Init
<1>2. Made \in Nat /\ Pending \in JSPromiseData /\ <<>> \in Seq(CallData)
  BY PromiseAssumption, PendingIs, EmptySeq
<1>3. ASSUME NEW p \in 1..Made
      PROVE  /\ NewPair(p) \in PairData /\ NewPair(p).promise = p /\ ~NewPair(p).resolved
             /\ NewPair(p).async = FALSE /\ NewPair(p).follows = Plain
  <2>1. p \in Nat
    BY <1>2
  <2> QED BY <2>1, NewPairIs
<1>4. m \in FrameData /\ m.call = "script" /\ m.arg = Plain
  BY DEF Frame, FrameData, UserCalls, Plain
<1> HIDE DEF m
<1>5. promises \in Seq(JSPromiseData) /\ Len(promises) = Made /\ DOMAIN promises = 1..Made
  BY <1>1, <1>2, IsASeq, LenProperties
<1>6. pairs \in Seq(PairData) /\ Len(pairs) = Made /\ DOMAIN pairs = 1..Made
  <2>0. \A p \in 1..Made : NewPair(p) \in PairData
    BY <1>3
  <2>1. [p \in 1..Made |-> NewPair(p)] \in Seq(PairData)
    BY <1>2, <2>0, IsASeq
  <2>2. Len([p \in 1..Made |-> NewPair(p)]) = Made
    BY <1>2, <2>1, LenProperties
  <2> QED BY <1>1, <2>1, <2>2
<1>7. calls \in Seq(Seq(CallData)) /\ Len(calls) = Made
  BY <1>1, <1>2, IsASeq, LenProperties
<1>8. /\ combos \in Seq(ComboData) /\ DOMAIN combos = {} /\ jobs \in Seq(JobData) /\ DOMAIN jobs = {}
      /\ stack \in Seq(FrameData) /\ DOMAIN stack = {1} /\ stack[1] = m
  BY <1>1, <1>4
<1>9. /\ \A p \in DOMAIN promises : promises[p] = Pending /\ calls[p] = <<>>
      /\ \A f \in DOMAIN pairs : /\ pairs[f].promise = f /\ ~pairs[f].resolved
                                 /\ pairs[f].async = FALSE /\ pairs[f].follows = Plain
  BY <1>1, <1>3, <1>5, <1>6
<1>10. \A h \in held : \E f \in DOMAIN pairs : Public(pairs, f) /\ h \in Resolving(f)
  BY <1>1, <1>6, <1>9 DEF Public
<1>11. held \subseteq Callables
  <2>1. \A f \in DOMAIN pairs : Resolving(f) \subseteq Callables
    BY <1>2, <1>6 DEF Resolving, Fn, Callables
  <2> QED BY <1>10, <2>1
<1>12. Types(promises, pairs, combos, jobs, stack, known, held, calls)
  BY <1>1, <1>5, <1>6, <1>7, <1>8, <1>11 DEF Types
<1>13. Plain \in Values(promises) /\ Plain <= Len(promises) /\ \A p \in DOMAIN promises : p # Plain
  BY <1>2, <1>5 DEF Values, Plain, Collected
<1>14. Refs(promises, pairs, combos, jobs, stack, held)
  <2>1. /\ Pending.result = Plain /\ Pending.lock = Plain /\ Pending.state = "pending" /\ Pending.told = "nothing"
        /\ Pending.reactions = <<>>
    BY DEF Pending
  <2>2. \A p \in DOMAIN promises : PromiseOk(promises, pairs, combos, p)
    BY <1>9, <1>13, <2>1 DEF PromiseOk
  <2>3. \A f \in DOMAIN pairs : PairOk(promises, pairs[f])
    BY <1>5, <1>6, <1>9, <1>13 DEF PairOk
  <2>4. FrameOk(promises, pairs, combos, m)
    BY <1>4, <1>13 DEF FrameOk
  <2>5. \A h \in held : HeldOk(pairs, combos, h)
    BY <1>10 DEF HeldOk
  <2> QED BY <1>8, <2>2, <2>3, <2>4, <2>5 DEF Refs
<1>15. Below(stack)
  BY <1>4, <1>8 DEF Below
<1>16. ASSUME NEW p \in DOMAIN promises PROVE Ways(promises, pairs, jobs, stack, p)
  <2>1. Pending.state = "pending"
    BY DEF Pending
  <2>2. p \in DOMAIN pairs /\ ByPair(pairs, p, p) /\ \A f \in DOMAIN pairs : ByPair(pairs, p, f) => f = p
    BY <1>5, <1>6, <1>9 DEF ByPair
  <2>3. \A i \in DOMAIN stack : ~ByGetter(pairs, stack, p, i)
    BY <1>4, <1>8 DEF ByGetter
  <2> QED BY <1>8, <1>9, <2>1, <2>2, <2>3 DEF Ways
<1>17. ASSUME NEW p \in DOMAIN promises PROVE Ordered(promises[p], jobs, calls[p], p)
  <2>1. Pending.state = "pending" /\ Pending.registered = 0 /\ Pending.reactions = <<>>
    BY DEF Pending
  <2>2. Len(calls[p]) = 0 /\ calls[p] = <<>> /\ Len(Pending.reactions) = 0 /\ DOMAIN Pending.reactions = {}
    BY <1>9, <2>1
  <2> QED BY <1>8, <1>9, <2>1, <2>2 DEF Ordered
<1>18. Following(promises, pairs, jobs, 0)
  <2>1. Pending.lock = Plain
    BY DEF Pending
  <2> QED BY <1>8, <1>9, <2>1 DEF Following, Follower, Adopts, Locked
<1>19. Counts(combos, stack)
  BY <1>8 DEF Counts
<1>20. 0 \in 0..Len(pairs)
  BY <1>2, <1>6
<1> QED BY <1>12, <1>14, <1>15, <1>16, <1>17, <1>18, <1>19, <1>20 DEF Inv, Good

LEMMA ProgramStep ==
  ASSUME Inv, Program
  PROVE  Inv'
<1>1. CASE Construct
  BY <1>1, ConstructStep
<1>2. CASE CallAsync
  BY <1>2, CallAsyncStep
<1>3. ASSUME NEW h \in held, NEW v \in IF h.fn = "resolve" THEN Given ELSE {Plain}, CallHeld(h, v) PROVE Inv'
  <2>1. v \in Given
    BY <1>3 DEF Given
  <2> QED BY <1>3, <2>1, CallHeldStep
<1>4. Plain \in Values(promises)
  BY InvTypes
<1>5. ASSUME NEW p \in known, Finally(p) PROVE Inv'
  <2> DEFINE g == Fn("finally", 0, 0)
             h == Fn("finally", 0, 1)
  <2>1. g \in Callables /\ h \in Callables /\ g.fn = "finally" /\ h.fn = "finally" /\ g.at = 0 /\ h.at = 1
    BY DEF Fn, Callables, Simple
  <2>2. 0 \in Values(promises) /\ 1 \in Values(promises)
    <3>1. p \in 1..Len(promises) /\ Len(promises) \in Nat
      BY <1>5, InvTypes
    <3> QED BY <3>1 DEF Values, Collected
  <2>3. ThenOf(p, g, h)
    BY <1>5 DEF Finally
  <2> HIDE DEF g, h
  <2>4. Code(promises, g) /\ Code(promises, h)
    BY <2>1, <2>2 DEF Code, Simple
  <2> QED BY <2>1, <2>3, <2>4, ThenOfStep
<1>6. /\ User \in Callables /\ Undefined \in Callables /\ Code(promises, User) /\ Code(promises, Undefined)
  <2>1. 0 \in Values(promises)
    BY <1>4 DEF Plain
  <2> QED BY <2>1 DEF User, Undefined, Fn, Callables, Simple, Code
<1>7. ASSUME NEW p \in known, ThenOf(p, User, Undefined) \/ ThenOf(p, Undefined, User) PROVE Inv'
  BY <1>6, <1>7, ThenOfStep
<1>8. ASSUME NEW v, Await(v) PROVE Inv'
  BY <1>8, AwaitStep
<1>9. ASSUME NEW type \in CombinatorTypes, Combine(type) PROVE Inv'
  BY <1>9, CombineStep
<1> QED BY <1>1, <1>2, <1>3, <1>5, <1>7, <1>8, <1>9 DEF Program

LEMMA CombinatorStep ==
  ASSUME Inv, Combinator
  PROVE  Inv'
  BY ItemIsForeignStep, ItemsEndStep, ItemIsPromiseStep DEF Combinator

LEMMA ReturnStep ==
  ASSUME Inv, Return
  PROVE  Inv'
<1>1. ASSUME ScriptEnds \/ ResultDropped PROVE Inv'
  BY <1>1, DropStep
<1>2. ASSUME \/ \E v \in Given : ResultToCapability(FALSE, v)
             \/ ResultToCapability(TRUE, Plain) \/ NativeReturns \/ FinallyEnds \/ FinallyThrows(Plain)
      PROVE  Inv'
  BY <1>2, ResultStep
<1>3. ASSUME Throws(Plain) PROVE Inv'
  BY <1>3, ThrowsStep
<1>4. ASSUME ItemThrows(Plain) PROVE Inv'
  BY <1>4, ItemThrowsStep
<1>5. ASSUME GetterThrows(Plain) \/ GetterGivesNoFunction \/ GetterGivesFunction PROVE Inv'
  BY <1>5, GetterStep
<1>6. ASSUME NEW v \in known \cup {Plain}, FinallyReturns(v) PROVE Inv'
  BY <1>6, FinallyReturnsStep
<1> QED BY <1>1, <1>2, <1>3, <1>4, <1>5, <1>6 DEF Return

LEMMA RunJobStep ==
  ASSUME Inv, RunJob
  PROVE  Inv'
  BY ReactionPassesStep, ReactionCallsProgramStep, ReactionCallsNativeStep, ThenableIsPromiseStep,
     ThenableIsForeignStep DEF RunJob

LEMMA StepIsGood ==
  ASSUME Inv, [Next]_vars
  PROVE  Inv'
<1>1. CASE UNCHANGED vars
  BY <1>1 DEF vars, Inv
<1> QED BY <1>1, ProgramStep, CombinatorStep, ReturnStep, RunJobStep DEF Next

\* The operations of the program are counted up to the bound.
LEMMA OpsCounted ==
  ASSUME ops \in 0..MaxOps, [Next]_vars
  PROVE  ops' \in 0..MaxOps
<1>1. Operation => ops' \in 0..MaxOps
  BY PromiseAssumption DEF Operation
<1>2. Program => Operation
  <2>1. ASSUME NEW p, NEW g, NEW h, ThenOf(p, g, h) PROVE Operation
    BY <2>1 DEF ThenOf
  <2>2. \A p : Finally(p) => Operation
    BY <2>1 DEF Finally
  <2>3. /\ Construct => Operation
        /\ CallAsync => Operation
        /\ \A h, v : CallHeld(h, v) => Operation
        /\ \A v : Await(v) => Operation
        /\ \A type : Combine(type) => Operation
    BY DEF Construct, CallAsync, CallHeld, Await, Combine
  <2> QED BY <2>1, <2>2, <2>3 DEF Program
<1>3. Combinator => ops' = ops
  BY DEF Combinator, ItemIsForeign, ItemsEnd, ItemIsPromise
<1>4. Return => ops' = ops
  <2>1. /\ ScriptEnds \/ ResultDropped \/ NativeReturns \/ FinallyEnds => ops' = ops
        /\ GetterGivesNoFunction \/ GetterGivesFunction => ops' = ops
        /\ \A rej, v : ResultToCapability(rej, v) => ops' = ops
        /\ \A v : Throws(v) \/ ItemThrows(v) \/ GetterThrows(v) => ops' = ops
        /\ \A v : FinallyReturns(v) => ops' = ops
        /\ \A v : FinallyThrows(v) => ops' = ops
    BY DEF ScriptEnds, ResultDropped, NativeReturns, FinallyEnds, GetterGivesNoFunction, GetterGivesFunction,
           ResultToCapability, Throws, ItemThrows, GetterThrows, FinallyReturns, FinallyThrows
  <2> QED BY <2>1 DEF Return
<1>5. RunJob => ops' = ops
  BY DEF RunJob, ReactionPasses, ReactionCallsProgram, ReactionCallsNative, ThenableIsPromise, ThenableIsForeign
<1> QED BY <1>1, <1>2, <1>3, <1>4, <1>5 DEF Next, vars

\* The inductive invariant of PromiseJobs.
IInv == Inv /\ ops \in 0..MaxOps

\* Whatever is called in whatever order, jobs, reactions, pairs, calls and
\* functions the program has stay what the invariant says.
THEOREM InvariantAlways == Spec => []IInv
<1>1. Init => IInv
  <2>1. ASSUME Init PROVE ops \in 0..MaxOps
    BY <2>1, PromiseAssumption DEF Init
  <2> QED BY <2>1, InitIsGood DEF IInv
<1>2. IInv /\ [Next]_vars => IInv'
  BY StepIsGood, OpsCounted DEF IInv
<1> QED BY <1>1, <1>2, PTL DEF Spec

-----------------------------------------------------------------------------
(* What it means. *)

LEMMA AtMostOne ==
  ASSUME NEW S, \A a, b \in S : a = b
  PROVE  Cardinality(S) = IF S = {} THEN 0 ELSE 1
<1>1. CASE S = {}
  BY <1>1, FS_EmptySet
<1>2. CASE S # {}
  <2>1. PICK a \in S : TRUE
    BY <1>2
  <2>2. S = {a}
    BY <2>1
  <2> QED BY <1>2, <2>2, FS_Singleton
<1> QED BY <1>1, <1>2

LEMMA TypeOKHolds ==
  ASSUME IInv
  PROVE  TypeOK
<1>1. /\ Types(promises, pairs, combos, jobs, stack, known, held, calls)
      /\ Refs(promises, pairs, combos, jobs, stack, held) /\ Counts(combos, stack) /\ ops \in 0..MaxOps
  BY DEF IInv, Inv, Good
<1>2. /\ \A p \in DOMAIN promises : promises[p] \in JSPromiseData
      /\ \A f \in DOMAIN pairs : pairs[f] \in PairData
      /\ \A c \in DOMAIN combos : combos[c] \in ComboData
      /\ Len(promises) \in Nat /\ DOMAIN promises = 1..Len(promises)
  BY <1>1, Facts
<1>3. ASSUME NEW p \in DOMAIN promises
      PROVE  /\ promises[p].state \in {"pending", "fulfilled", "rejected"}
             /\ promises[p].result \in {Plain, Thenable, TypeErr, Collected} \cup Promises
             /\ promises[p].state # "pending" => promises[p].reactions = <<>>
             /\ promises[p].told = "unhandled" <=> promises[p].state = "rejected" /\ ~promises[p].handled
  <2>1. PromiseOk(promises, pairs, combos, p) /\ promises[p] \in JSPromiseData
    BY <1>1, <1>2 DEF Refs
  <2>2. promises[p].state \in {"pending", "fulfilled", "rejected"}
    BY <2>1 DEF JSPromiseData
  <2>3. promises[p].result \in Values(promises)
    BY <2>1 DEF PromiseOk
  <2>4. promises[p].result \in {Plain, Thenable, TypeErr, Collected} \cup Promises
    BY <1>2, <2>3 DEF Values, Plain, Thenable, TypeErr, Collected, Promises
  <2> QED BY <2>1, <2>2, <2>4 DEF PromiseOk
<1>4. \A f \in DOMAIN pairs : pairs[f].promise \in Promises /\ pairs[f].resolved \in BOOLEAN
  BY <1>1, <1>2 DEF Refs, PairOk, PairData, Promises
<1>5. ASSUME NEW c \in DOMAIN combos PROVE combos[c].remaining \in -MaxItems..(MaxItems + 1)
  <2> DEFINE b == combos[c]
  <2>1. b \in ComboData /\ ItemsCounted(b, Loops(stack, c)) /\ MaxItems \in Nat
    BY <1>1, <1>2, PromiseAssumption DEF Counts
  <2> HIDE DEF b
  <2>2. /\ Cardinality(b.called) \in Nat /\ Cardinality(b.called) <= 2 * b.n /\ b.n \in Nat /\ b.remaining \in Int
    BY <2>1, CalledFinite
  <2>3. b.n <= MaxItems /\ (b.remaining = 1 \/ b.remaining + Cardinality(b.called) - b.n \in {0, 1})
    BY <2>1 DEF ItemsCounted
  <2>4. b.remaining \in -MaxItems..(MaxItems + 1)
    BY <2>1, <2>2, <2>3
  <2> QED BY <2>4 DEF b
<1>6. known \subseteq Promises /\ Len(calls) = Len(promises)
  BY <1>1 DEF Types, Promises
<1> QED BY <1>1, <1>3, <1>4, <1>5, <1>6 DEF TypeOK, Promises

LEMMA OneWayHolds ==
  ASSUME IInv
  PROVE  OneWay
<1>1. SUFFICES ASSUME NEW p \in DOMAIN promises
               PROVE  WaysToSettle(p) = IF promises[p].state = "pending" THEN 1 ELSE 0
  BY DEF OneWay, Promises
<1> DEFINE A == {f \in DOMAIN pairs : pairs[f].promise = p /\ ~pairs[f].resolved}
           B == {i \in DOMAIN stack : stack[i].call = "getThen" /\ pairs[stack[i].of].promise = p}
           C == {i \in DOMAIN jobs : jobs[i].job = "thenable" /\ jobs[i].promise = p}
<1>2. Ways(promises, pairs, jobs, stack, p)
  BY DEF IInv, Inv, Good
<1>3. \A f, g \in A : f = g
  BY <1>2 DEF Ways, ByPair
<1>4. \A f, g \in B : f = g
  BY <1>2 DEF Ways, ByGetter
<1>5. \A f, g \in C : f = g
  BY <1>2 DEF Ways, ByJob
<1>6. A = {} \/ B = {}
  BY <1>2 DEF Ways, ByPair, ByGetter
<1>7. A = {} \/ C = {}
  BY <1>2 DEF Ways, ByPair, ByJob
<1>8. B = {} \/ C = {}
  BY <1>2 DEF Ways, ByGetter, ByJob
<1>9. promises[p].state = "pending" <=> A # {} \/ B # {} \/ C # {}
  BY <1>2 DEF Ways, ByPair, ByGetter, ByJob
<1>10. WaysToSettle(p) = Cardinality(A) + Cardinality(B) + Cardinality(C)
  BY DEF WaysToSettle
<1> HIDE DEF A, B, C
<1>11. /\ Cardinality(A) = IF A = {} THEN 0 ELSE 1
       /\ Cardinality(B) = IF B = {} THEN 0 ELSE 1
       /\ Cardinality(C) = IF C = {} THEN 0 ELSE 1
  BY <1>3, <1>4, <1>5, AtMostOne
<1> QED BY <1>6, <1>7, <1>8, <1>9, <1>10, <1>11

LEMMA FollowsHolds ==
  ASSUME IInv
  PROVE  Follows
<1>1. \A p \in DOMAIN promises : Locked(promises, pairs, jobs, p)
  BY DEF IInv, Inv, Good, Following
<1> QED BY <1>1 DEF Follows, Locked, Done, Settled, SameOutcome, Promises

\* A promise is settled by the one way it was resolved, and by what that says.
THEOREM SettledOnce == Spec => []SettlesExact
<1>1. IInv => SettlesExact
  BY TypeOKHolds, OneWayHolds, FollowsHolds DEF SettlesExact
<1> QED BY <1>1, InvariantAlways, PTL

LEMMA NothingForgottenHolds ==
  ASSUME IInv
  PROVE  NothingForgotten
<1>1. SUFFICES ASSUME jobs = <<>>, NEW p \in DOMAIN promises
               PROVE  /\ Settled(p) => Len(calls[p]) = promises[p].registered
                      /\ promises[p].lock # Plain /\ Settled(promises[p].lock)
                           /\ promises[promises[p].lock].result # Thenable => Settled(p)
  BY DEF NothingForgotten, Promises
<1>2. /\ Types(promises, pairs, combos, jobs, stack, known, held, calls)
      /\ Refs(promises, pairs, combos, jobs, stack, held)
      /\ Ordered(promises[p], jobs, calls[p], p)
      /\ Locked(promises, pairs, jobs, p)
      /\ \A f \in DOMAIN pairs : Follower(promises, pairs, jobs, 0, f)
  BY DEF IInv, Inv, Good, Following
<1>3. DOMAIN jobs = {} /\ DOMAIN pairs = 1..Len(pairs)
  BY <1>1, <1>2, Facts
<1>4. ASSUME Settled(p) PROVE Len(calls[p]) = promises[p].registered
  <2>1. /\ Len(calls[p]) <= promises[p].registered
        /\ \A n \in (Len(calls[p]) + 1)..promises[p].registered : FALSE
    BY <1>2, <1>3, <1>4 DEF Ordered, Settled
  <2>2. Len(calls[p]) \in Nat /\ promises[p].registered \in Nat
    <3>1. calls[p] \in Seq(CallData) /\ promises[p] \in JSPromiseData
      BY <1>2, Facts
    <3> QED BY <3>1, LenProperties DEF JSPromiseData
  <2> QED BY <2>1, <2>2
<1>5. ASSUME promises[p].lock # Plain, Settled(promises[p].lock), promises[promises[p].lock].result # Thenable,
             ~Settled(p)
      PROVE  FALSE
  <2> DEFINE q == promises[p].lock
  <2>1. q \in DOMAIN promises
    BY <1>2, <1>5, Targets
  <2>2. PICK f \in DOMAIN pairs : ByPair(pairs, p, f) /\ pairs[f].follows = q
    BY <1>2, <1>3, <1>5 DEF Locked, Done, Settled
  <2>3. f # 0 /\ ~pairs[f].resolved
    BY <1>3, <2>2 DEF ByPair
  <2>4. Awaited(promises, jobs, f, q)
    BY <1>2, <1>5, <2>2, <2>3 DEF Follower
  <2>5. promises[q].reactions = <<>>
    BY <1>2, <1>5, <2>1 DEF Refs, PromiseOk, Settled
  <2>6. DOMAIN promises[q].reactions = {}
    BY <2>5
  <2> QED BY <1>3, <2>4, <2>6 DEF Awaited
<1> QED BY <1>4, <1>5

\* When nothing is left to run, every reaction on a settled promise was
\* called, and what follows a settled promise is settled.
THEOREM NothingIsForgotten == Spec => []NothingForgotten
  BY InvariantAlways, NothingForgottenHolds, PTL

-----------------------------------------------------------------------------
(* What AbstractPromise sees of a step.                                    *)

LEMMA UnsettledIs == \A rej, v : Unsettled # [rej |-> rej, value |-> v]
<1>1. DOMAIN Unsettled = {"unsettled"} /\ \A rej, v : DOMAIN [rej |-> rej, value |-> v] = {"rej", "value"}
  BY DEF Unsettled
<1>2. "rej" \notin {"unsettled"}
  OBVIOUS
<1> QED BY <1>1, <1>2

\* q is not there, is new, is settled or left alone, has one more reaction,
\* or calls the next one.
Moved(q) ==
  \/ q \notin DOMAIN promises /\ q \notin DOMAIN promises'
  \/ /\ q \notin DOMAIN promises /\ q \in DOMAIN promises'
     /\ calls'[q] = <<>> /\ promises'[q].registered \in {0, 1}
  \/ /\ q \in DOMAIN promises /\ q \in DOMAIN promises'
     /\ \/ calls'[q] = calls[q] /\ Touched(promises[q], promises'[q])
        \/ /\ calls'[q] = calls[q] /\ promises'[q].registered = promises[q].registered + 1
           /\ promises'[q].state = promises[q].state /\ promises'[q].result = promises[q].result
        \/ /\ promises[q].state # "pending" /\ promises'[q].state = promises[q].state
           /\ promises'[q].result = promises[q].result /\ promises'[q].registered = promises[q].registered
           /\ Len(calls[q]) < promises[q].registered
           /\ calls'[q] = Append(calls[q], [n |-> Len(calls[q]) + 1,
                with |-> [rej |-> promises[q].state = "rejected", value |-> promises[q].result]])

OutcomeOf(ps, q) ==
  IF q \in DOMAIN ps /\ ps[q].state # "pending"
  THEN [rej |-> ps[q].state = "rejected", value |-> ps[q].result] ELSE Unsettled
RegisteredOf(ps, q) == IF q \in DOMAIN ps THEN ps[q].registered ELSE 0
CalledOf(ps, cs, q) == IF q \in DOMAIN ps THEN cs[q] ELSE <<>>

LEMMA MoveIs ==
  ASSUME NEW q, Moved(q), q \in DOMAIN promises' => promises'[q].result \in Int
  PROVE  LET o == OutcomeOf(promises, q)
             o1 == OutcomeOf(promises', q)
             r == RegisteredOf(promises, q)
             r1 == RegisteredOf(promises', q)
             c == CalledOf(promises, calls, q)
             c1 == CalledOf(promises', calls', q) IN
         \/ o1 = o /\ r1 = r /\ c1 = c
         \/ o = Unsettled /\ o1 \in [rej : BOOLEAN, value : Int] /\ r1 \in {r, r + 1} /\ c1 = c
         \/ o1 = o /\ r1 = r + 1 /\ c1 = c
         \/ /\ o # Unsettled /\ o1 = o /\ Len(c) < r /\ r1 = r
            /\ c1 = Append(c, [n |-> Len(c) + 1, with |-> o])
<1> DEFINE o == OutcomeOf(promises, q)
           o1 == OutcomeOf(promises', q)
           r == RegisteredOf(promises, q)
           r1 == RegisteredOf(promises', q)
           c == CalledOf(promises, calls, q)
           c1 == CalledOf(promises', calls', q)
<1>1. CASE q \notin DOMAIN promises /\ q \notin DOMAIN promises'
  BY <1>1 DEF OutcomeOf, RegisteredOf, CalledOf
<1>2. CASE /\ q \notin DOMAIN promises /\ q \in DOMAIN promises'
           /\ calls'[q] = <<>> /\ promises'[q].registered \in {0, 1}
  <2>1. o = Unsettled /\ r = 0 /\ c = <<>>
    BY <1>2 DEF OutcomeOf, RegisteredOf, CalledOf
  <2>2. c1 = c /\ r1 \in {r, r + 1} /\ r + 1 = 1
    BY <1>2, <2>1 DEF RegisteredOf, CalledOf
  <2>3. o1 = Unsettled \/ o1 \in [rej : BOOLEAN, value : Int]
    BY <1>2 DEF OutcomeOf
  <2> QED BY <2>1, <2>2, <2>3
<1>3. CASE q \in DOMAIN promises /\ q \in DOMAIN promises' /\ calls'[q] = calls[q] /\ Touched(promises[q], promises'[q])
  <2>1. c1 = c /\ r1 = r
    BY <1>3 DEF Touched, RegisteredOf, CalledOf
  <2>2. CASE promises'[q].state = promises[q].state /\ promises'[q].result = promises[q].result
    BY <1>3, <2>1, <2>2 DEF OutcomeOf
  <2>3. CASE promises[q].state = "pending" /\ promises'[q].state # "pending"
    <3>1. o = Unsettled /\ o1 \in [rej : BOOLEAN, value : Int]
      BY <1>3, <2>3 DEF OutcomeOf
    <3> QED BY <2>1, <3>1
  <2> QED BY <1>3, <2>2, <2>3 DEF Touched
<1>4. CASE /\ q \in DOMAIN promises /\ q \in DOMAIN promises'
           /\ calls'[q] = calls[q] /\ promises'[q].registered = promises[q].registered + 1
           /\ promises'[q].state = promises[q].state /\ promises'[q].result = promises[q].result
  BY <1>4 DEF OutcomeOf, RegisteredOf, CalledOf
<1>5. CASE /\ q \in DOMAIN promises /\ q \in DOMAIN promises'
           /\ promises[q].state # "pending" /\ promises'[q].state = promises[q].state
           /\ promises'[q].result = promises[q].result /\ promises'[q].registered = promises[q].registered
           /\ Len(calls[q]) < promises[q].registered
           /\ calls'[q] = Append(calls[q], [n |-> Len(calls[q]) + 1,
                with |-> [rej |-> promises[q].state = "rejected", value |-> promises[q].result]])
  <2>1. o = [rej |-> promises[q].state = "rejected", value |-> promises[q].result] /\ o1 = o
    BY <1>5 DEF OutcomeOf
  <2>2. o # Unsettled
    BY <2>1, UnsettledIs
  <2>3. c = calls[q] /\ r = promises[q].registered /\ r1 = r /\ c1 = calls'[q]
    BY <1>5 DEF RegisteredOf, CalledOf
  <2>4. Len(c) < r /\ c1 = Append(c, [n |-> Len(c) + 1, with |-> o])
    <3> HIDE DEF o, o1, c, c1, r, r1
    <3> QED BY <1>5, <2>1, <2>3
  <2> QED BY <2>1, <2>2, <2>3, <2>4
<1> QED BY <1>1, <1>2, <1>3, <1>4, <1>5 DEF Moved

LEMMA MovesRefine ==
  ASSUME \A q : Moved(q), Inv'
  PROVE  Promised!Next
<1>1. SUFFICES ASSUME NEW q \in 1..Bound
               PROVE  Promised!Stays(q) \/ Promised!Settle(q) \/ Promised!Register(q) \/ Promised!Call(q)
  BY DEF Promised!Next
<1>2. q \in DOMAIN promises' => promises'[q].result \in Int
  <2>1. Types(promises', pairs', combos', jobs', stack', known', held', calls')
    BY DEF Inv, Good
  <2>2. \A p \in DOMAIN promises' : promises'[p] \in JSPromiseData
    BY <2>1, Facts
  <2> QED BY <2>2 DEF JSPromiseData
<1> DEFINE o == OutcomeOf(promises, q)
           o1 == OutcomeOf(promises', q)
           r == RegisteredOf(promises, q)
           r1 == RegisteredOf(promises', q)
           c == CalledOf(promises, calls, q)
           c1 == CalledOf(promises', calls', q)
<1>3. \/ o1 = o /\ r1 = r /\ c1 = c
      \/ o = Unsettled /\ o1 \in [rej : BOOLEAN, value : Int] /\ r1 \in {r, r + 1} /\ c1 = c
      \/ o1 = o /\ r1 = r + 1 /\ c1 = c
      \/ /\ o # Unsettled /\ o1 = o /\ Len(c) < r /\ r1 = r
         /\ c1 = Append(c, [n |-> Len(c) + 1, with |-> o])
  BY <1>2, MoveIs
<1> HIDE DEF o, o1, r, r1, c, c1
<1>4. Promised!Stays(q) <=> o1 = o /\ r1 = r /\ c1 = c
  BY DEF Promised!Stays, o, o1, r, r1, c, c1, OutcomeOf, RegisteredOf, CalledOf, Promises, Settled
<1>5. Promised!Settle(q) <=> o = Unsettled /\ o1 \in [rej : BOOLEAN, value : Int] /\ r1 \in {r, r + 1} /\ c1 = c
  BY DEF Promised!Settle, Promised!Outcome, o, o1, r, r1, c, c1, OutcomeOf, RegisteredOf, CalledOf, Promises, Settled
<1>6. Promised!Register(q) <=> o1 = o /\ r1 = r + 1 /\ c1 = c
  BY DEF Promised!Register, o, o1, r, r1, c, c1, OutcomeOf, RegisteredOf, CalledOf, Promises, Settled
<1>7. Promised!Call(q) <=> /\ o # Unsettled /\ o1 = o /\ Len(c) < r /\ r1 = r
                           /\ c1 = Append(c, [n |-> Len(c) + 1, with |-> o])
  BY DEF Promised!Call, o, o1, r, r1, c, c1, OutcomeOf, RegisteredOf, CalledOf, Promises, Settled
<1> QED BY <1>3, <1>4, <1>5, <1>6, <1>7

-----------------------------------------------------------------------------
(* Settling, calling, making and registering are such moves.               *)

LEMMA TouchMoves ==
  ASSUME Touches, calls' = calls
  PROVE  \A q : Moved(q)
  BY DEF Touches, Moved

LEMMA CallMoves ==
  ASSUME Inv, NEW fns, IsReaction(fns), Touches, calls' = Called
  PROVE  \A q : Moved(q)
<1> DEFINE p == Job.promise
<1>1. /\ p \in DOMAIN promises /\ Job \in ReactionJobs
      /\ promises[p].state = (IF Job.rej THEN "rejected" ELSE "fulfilled") /\ promises[p].result = Job.arg
      /\ Job.n = Len(calls[p]) + 1 /\ Job.n <= promises[p].registered
  <2>1. jobs # <<>> /\ Head(jobs).job = "reaction"
    BY DEF IsReaction, Job
  <2>2. Good(promises, pairs, combos, jobs, stack, known, held, calls, 0)
    BY DEF Inv
  <2>3. LET j == Head(jobs) IN
        /\ Good(promises, pairs, combos, Tail(jobs), stack, known, held,
                [calls EXCEPT ![j.promise] = Append(calls[j.promise], Entry(j))], Hand(pairs, j.handler))
        /\ j.promise \in DOMAIN promises /\ j \in ReactionJobs /\ JobOk(promises, pairs, combos, j)
        /\ promises[j.promise].state = (IF j.rej THEN "rejected" ELSE "fulfilled")
        /\ promises[j.promise].result = j.arg
        /\ j.n = Len(calls[j.promise]) + 1 /\ j.n <= promises[j.promise].registered
    BY ONLY <2>1, <2>2, TakeReaction, Zenon
  <2> QED BY <2>3 DEF Job
<1>2. Job.rej \in BOOLEAN /\ DOMAIN calls = DOMAIN promises /\ Len(calls[p]) \in Nat /\ promises[p].registered \in Nat
  <2>1. Types(promises, pairs, combos, jobs, stack, known, held, calls)
    BY DEF Inv, Good
  <2>2. DOMAIN calls = DOMAIN promises /\ calls[p] \in Seq(CallData) /\ promises[p] \in JSPromiseData
    BY <1>1, <2>1, Facts
  <2> QED BY <1>1, <2>2, LenProperties DEF ReactionJobs, JSPromiseData
<1>3. Job.rej = (promises[p].state = "rejected") /\ promises[p].state # "pending"
  BY <1>1, <1>2
<1>4. /\ \A q \in DOMAIN calls : q # p => calls'[q] = calls[q]
      /\ calls'[p] = Append(calls[p], [n |-> Len(calls[p]) + 1,
           with |-> [rej |-> promises[p].state = "rejected", value |-> promises[p].result]])
  BY <1>1, <1>2, <1>3 DEF Called
<1>5. Len(calls[p]) < promises[p].registered
  BY <1>1, <1>2
<1>6. /\ DOMAIN promises' = DOMAIN promises
      /\ \A q \in DOMAIN promises : Touched(promises[q], promises'[q])
  BY DEF Touches
<1>7. /\ promises'[p].state = promises[p].state /\ promises'[p].result = promises[p].result
      /\ promises'[p].registered = promises[p].registered
  BY <1>1, <1>3, <1>6 DEF Touched
<1> HIDE DEF p
<1>8. Moved(p)
  BY <1>1, <1>3, <1>4, <1>5, <1>6, <1>7 DEF Moved
<1>9. \A q : q # p => Moved(q)
  BY <1>2, <1>4, <1>6 DEF Moved
<1> QED BY <1>8, <1>9

\* A table with the promises and new ones, and what was called of them.
Extends(ps, cs) ==
  /\ ps \in Seq(JSPromiseData) /\ DOMAIN promises \subseteq DOMAIN ps
  /\ \A q \in DOMAIN promises : ps[q] = promises[q] /\ cs[q] = calls[q]
  /\ \A q \in DOMAIN ps \ DOMAIN promises : ps[q].registered = 0 /\ cs[q] = <<>>

LEMMA MakeMoves ==
  ASSUME NEW ps, NEW cs, Extends(ps, cs), promises' = ps, calls' = cs
  PROVE  \A q : Moved(q)
  BY DEF Extends, Moved, Touched

LEMMA PerformMoves ==
  ASSUME NEW ps, NEW cs, Extends(ps, cs), calls' = cs,
         NEW js, NEW p \in DOMAIN ps, NEW cap, NEW g, NEW h, PerformThen(ps, js, p, cap, g, h)
  PROVE  \A q : Moved(q)
<1> DEFINE s == ps[p]
<1>1. s \in JSPromiseData
  BY Domain DEF Extends
<1>2. /\ DOMAIN promises' = DOMAIN ps /\ \A q \in DOMAIN ps : q # p => promises'[q] = ps[q]
      /\ promises'[p].state = s.state /\ promises'[p].result = s.result
      /\ promises'[p].registered = s.registered + 1
  <2>1. CASE s.state = "pending"
    <3> DEFINE r == Reaction(s, cap, g, h)
    <3>1. promises' = [ps EXCEPT ![p] = Waiting(s, r)]
      BY <2>1 DEF PerformThen, Waiting, Seen, Reaction
    <3>2. Waiting(s, r).state = s.state /\ Waiting(s, r).result = s.result /\ Waiting(s, r).registered = s.registered + 1
      <4> HIDE DEF r
      <4>1. /\ Seen(s) \in JSPromiseData /\ Seen(s).state = s.state /\ Seen(s).result = s.result
            /\ Seen(s).registered = s.registered + 1
        BY <1>1, SeenIs
      <4> QED BY <4>1 DEF Waiting, JSPromiseData
    <3> QED BY <3>1, <3>2
  <2>2. CASE s.state # "pending"
    <3>1. promises' = [ps EXCEPT ![p] = Handled(s)]
      BY <2>2 DEF PerformThen, Handled, Seen
    <3>2. Handled(s).state = s.state /\ Handled(s).result = s.result /\ Handled(s).registered = s.registered + 1
      BY <1>1, HandledIs
    <3> QED BY <3>1, <3>2
  <2> QED BY <2>1, <2>2
<1>3. s.registered \in Nat
  BY <1>1 DEF JSPromiseData
<1>4. ASSUME NEW q PROVE Moved(q)
  <2>1. CASE q \notin DOMAIN ps
    BY <1>2, <2>1 DEF Extends, Moved
  <2>2. CASE q \in DOMAIN ps /\ q # p
    BY <1>2, <2>2 DEF Extends, Moved, Touched
  <2>3. CASE q = p
    BY <1>2, <1>3, <2>3 DEF Extends, Moved
  <2> QED BY <2>1, <2>2, <2>3
<1> QED BY <1>4

LEMMA ExtendsSelf ==
  ASSUME Inv
  PROVE  Extends(promises, calls)
  BY DEF Inv, Good, Types, Extends

LEMMA ExtendsMore ==
  ASSUME NEW ps, NEW cs, Extends(ps, cs), cs \in Seq(Seq(CallData)), Len(cs) = Len(ps),
         NEW s \in JSPromiseData, s.registered = 0
  PROVE  /\ Extends(Append(ps, s), Append(cs, <<>>))
         /\ Append(cs, <<>>) \in Seq(Seq(CallData)) /\ Len(Append(cs, <<>>)) = Len(Append(ps, s))
<1> DEFINE qs == Append(ps, s)
           ds == Append(cs, <<>>)
<1>1. /\ ps \in Seq(JSPromiseData) /\ <<>> \in Seq(CallData)
      /\ DOMAIN ps = 1..Len(ps) /\ DOMAIN cs = 1..Len(ps) /\ Len(ps) \in Nat
  BY EmptySeq, LenProperties DEF Extends
<1>2. /\ qs \in Seq(JSPromiseData) /\ Longer(ps, qs, s)
      /\ ds \in Seq(Seq(CallData)) /\ Longer(cs, ds, <<>>)
  BY <1>1, AppendIs
<1> HIDE DEF qs, ds
<1>3. DOMAIN promises \subseteq DOMAIN qs
  BY <1>1, <1>2 DEF Longer, Extends
<1>4. \A q \in DOMAIN promises : qs[q] = promises[q] /\ ds[q] = calls[q]
  BY <1>1, <1>2 DEF Longer, Extends
<1>5. ASSUME NEW q \in DOMAIN qs \ DOMAIN promises PROVE qs[q].registered = 0 /\ ds[q] = <<>>
  <2>1. CASE q \in DOMAIN ps
    BY <1>1, <1>2, <2>1 DEF Longer, Extends
  <2>2. CASE q \notin DOMAIN ps
    <3>1. q \in 1..(Len(ps) + 1) /\ q \notin 1..Len(ps) /\ Len(cs) = Len(ps)
      BY <1>1, <1>2, <2>2 DEF Longer
    <3>2. q = Len(ps) + 1
      BY ONLY <1>1, <3>1
    <3> QED BY <1>2, <3>1, <3>2 DEF Longer
  <2> QED BY <2>1, <2>2
<1>6. Len(ds) = Len(qs)
  BY <1>2 DEF Longer
<1> QED BY <1>2, <1>3, <1>4, <1>5, <1>6 DEF Extends, qs, ds

LEMMA ExtendsOne ==
  ASSUME Inv, NEW s \in JSPromiseData, s.registered = 0
  PROVE  /\ Extends(Append(promises, s), Append(calls, <<>>))
         /\ Append(calls, <<>>) \in Seq(Seq(CallData)) /\ Len(Append(calls, <<>>)) = Len(Append(promises, s))
<1>1. calls \in Seq(Seq(CallData)) /\ Len(calls) = Len(promises)
  BY DEF Inv, Good, Types
<1> QED BY <1>1, ExtendsSelf, ExtendsMore

-----------------------------------------------------------------------------
(* Every action moves promises so.                                         *)

LEMMA MakesMoves ==
  ASSUME Inv, promises' = Append(promises, Pending), calls' = Append(calls, <<>>)
  PROVE  \A q : Moved(q)
  BY PendingIs, ExtendsOne, MakeMoves

LEMMA ThenMoves ==
  ASSUME Inv, NEW js, NEW p \in DOMAIN promises, NEW g, NEW h, Then(js, p, g, h)
  PROVE  \A q : Moved(q)
<1>1. PerformThen(Append(promises, Pending), js, p, FreshPair, g, h) /\ calls' = Append(calls, <<>>)
  BY DEF Then, WithFresh
<1>2. Extends(Append(promises, Pending), Append(calls, <<>>))
  BY PendingIs, ExtendsOne
<1>3. p \in DOMAIN Append(promises, Pending)
  BY <1>2 DEF Extends
<1> QED BY <1>1, <1>2, <1>3, PerformMoves

LEMMA AwaitMoves ==
  ASSUME Inv, NEW v, Await(v)
  PROVE  \A q : Moved(q)
<1> DEFINE g == Resume(Top.of)
           h == ResumeThrow(Top.of)
<1>1. \/ v \in known /\ PerformThen(promises, jobs, v, 0, g, h) /\ calls' = calls
      \/ PerformThen(Append(promises, Ready), jobs, Fresh, 0, g, h) /\ calls' = Append(calls, <<>>)
  BY DEF Await, Ready
<1> HIDE DEF g, h
<1>2. CASE v \in known /\ PerformThen(promises, jobs, v, 0, g, h) /\ calls' = calls
  <2>1. v \in DOMAIN promises
    BY <1>2, InvTypes
  <2> QED BY <1>2, <2>1, ExtendsSelf, PerformMoves
<1>3. CASE PerformThen(Append(promises, Ready), jobs, Fresh, 0, g, h) /\ calls' = Append(calls, <<>>)
  <2>1. Extends(Append(promises, Ready), Append(calls, <<>>))
    BY PendingIs, ExtendsOne
  <2>2. Fresh \in DOMAIN Append(promises, Ready)
    <3>1. Ready \in JSPromiseData /\ promises \in Seq(JSPromiseData) /\ Len(promises) \in Nat
      BY PendingIs, InvTypes DEF Types
    <3> QED BY <3>1, AppendIs DEF Longer, Fresh
  <2> QED BY <1>3, <2>1, <2>2, PerformMoves
<1> QED BY <1>1, <1>2, <1>3

LEMMA FinallyReturnsMoves ==
  ASSUME Inv, NEW v \in known \cup {Plain}, FinallyReturns(v)
  PROVE  \A q : Moved(q)
<1> DEFINE thunk == Fn(IF Top.rej THEN "throw" ELSE "value", 0, Top.arg)
           made == Append(promises, Ready)
           ds == Append(calls, <<>>)
           ps == Append(made, Pending)
           cs == Append(ds, <<>>)
<1>1. \/ v \in known /\ Then(jobs, v, thunk, Undefined)
      \/ PerformThen(ps, jobs, Fresh, FreshPair, thunk, Undefined) /\ calls' = calls \o <<<<>>, <<>>>>
  BY DEF FinallyReturns, Then, Ready
<1> HIDE DEF thunk
<1>2. CASE v \in known /\ Then(jobs, v, thunk, Undefined)
  <2>1. v \in DOMAIN promises
    BY <1>2, InvTypes
  <2> QED BY <1>2, <2>1, ThenMoves
<1>3. CASE PerformThen(ps, jobs, Fresh, FreshPair, thunk, Undefined) /\ calls' = calls \o <<<<>>, <<>>>>
  <2>1. calls' = cs
    <3>1. calls \in Seq(Seq(CallData)) /\ <<>> \in Seq(CallData)
      BY InvTypes, EmptySeq DEF Types
    <3> QED BY <1>3, <3>1, TwoMore
  <2>2. Extends(made, ds) /\ ds \in Seq(Seq(CallData)) /\ Len(ds) = Len(made)
    BY PendingIs, ExtendsOne
  <2>3. Fresh \in DOMAIN made /\ made \in Seq(JSPromiseData)
    <3>1. Ready \in JSPromiseData /\ promises \in Seq(JSPromiseData) /\ Len(promises) \in Nat
      BY PendingIs, InvTypes DEF Types
    <3> QED BY <3>1, AppendIs DEF Longer, Fresh
  <2> HIDE DEF made, ds
  <2>4. Extends(ps, cs)
    BY <2>2, PendingIs, ExtendsMore
  <2>5. Fresh \in DOMAIN ps
    BY <2>3, PendingIs, AppendIs, Domain DEF Longer
  <2> HIDE DEF ps, cs
  <2> QED BY <1>3, <2>1, <2>4, <2>5, PerformMoves
<1> QED BY <1>1, <1>2, <1>3

LEMMA ThenableIsPromiseMoves ==
  ASSUME Inv, ThenableIsPromise
  PROVE  \A q : Moved(q)
<1> DEFINE ps == Append(promises, Pending)
           g == Fn("resolve", FreshPair, 0)
           h == Fn("reject", FreshPair, 0)
<1>1. /\ jobs # <<>> /\ Job.job = "thenable" /\ Job.arg # Thenable
      /\ PerformThen(ps, Rest, Job.arg, FreshPair + 1, g, h) /\ calls' = Append(calls, <<>>)
  BY DEF ThenableIsPromise, IsThenable, WithFresh
<1>2. Job.arg \in DOMAIN promises
  <2>1. jobs \in Seq(JobData) /\ Refs(promises, pairs, combos, jobs, stack, held) /\ DOMAIN promises = 1..Len(promises)
        /\ Len(promises) \in Nat
    BY InvTypes DEF Types
  <2>2. JobOk(promises, pairs, combos, Job)
    <3>1. 1 \in DOMAIN jobs /\ Job = jobs[1]
      BY <1>1, <2>1, TailIs DEF Job
    <3> QED BY <2>1, <3>1 DEF Refs
  <2> QED BY <1>1, <2>1, <2>2 DEF JobOk, Values, Collected
<1>3. Extends(ps, Append(calls, <<>>))
  BY PendingIs, ExtendsOne
<1>4. Job.arg \in DOMAIN ps
  BY <1>2, <1>3 DEF Extends
<1> HIDE DEF ps, g, h
<1> QED BY <1>1, <1>3, <1>4, PerformMoves

LEMMA ProgramMoves ==
  ASSUME Inv, Program
  PROVE  \A q : Moved(q)
<1>0. known \subseteq DOMAIN promises
  BY InvTypes
<1>1. ASSUME Construct \/ CallAsync \/ \E type \in CombinatorTypes : Combine(type)
      PROVE  \A q : Moved(q)
  <2>1. promises' = Append(promises, Pending) /\ calls' = Append(calls, <<>>)
    BY <1>1 DEF Construct, CallAsync, Combine, WithFresh
  <2> QED BY <2>1, MakesMoves
<1>2. ASSUME NEW h \in held, NEW v \in IF h.fn = "resolve" THEN Given ELSE {Plain}, CallHeld(h, v)
      PROVE  \A q : Moved(q)
  <2>1. v \in Given
    BY DEF Given
  <2>2. Touches
    BY <1>2, <2>1, CallHeldStep
  <2>3. calls' = calls
    BY <1>2 DEF CallHeld
  <2> QED BY <2>2, <2>3, TouchMoves
<1>3. ASSUME NEW p \in known, NEW g, NEW h, ThenOf(p, g, h) PROVE \A q : Moved(q)
  <2>1. Then(jobs, p, g, h) /\ p \in DOMAIN promises
    BY <1>0, <1>3 DEF ThenOf
  <2> QED BY <2>1, ThenMoves
<1>4. ASSUME NEW p \in known, Finally(p) PROVE \A q : Moved(q)
  BY <1>3, <1>4 DEF Finally
<1>5. ASSUME NEW v, Await(v) PROVE \A q : Moved(q)
  BY <1>5, AwaitMoves
<1> QED BY <1>1, <1>2, <1>3, <1>4, <1>5 DEF Program

LEMMA CombinatorMoves ==
  ASSUME Inv, Combinator
  PROVE  \A q : Moved(q)
<1>1. CASE ItemIsForeign \/ ItemsEnd
  <2>1. Touches
    BY <1>1, ItemIsForeignStep, ItemsEndStep
  <2>2. calls' = calls
    BY <1>1 DEF ItemIsForeign, ItemsEnd
  <2> QED BY <2>1, <2>2, TouchMoves
<1>2. ASSUME NEW p \in known, ItemIsPromise(p) PROVE \A q : Moved(q)
  <2>1. PICK c \in DOMAIN combos : LET i == combos[c].n + 1 IN Then(jobs, p, OnFulfilled(c, i), OnRejected(c, i))
    BY <1>2 DEF ItemIsPromise
  <2>2. p \in DOMAIN promises
    BY <1>2, InvTypes
  <2> QED BY <2>1, <2>2, ThenMoves
<1> QED BY <1>1, <1>2 DEF Combinator

LEMMA ReturnMoves ==
  ASSUME Inv, Return
  PROVE  \A q : Moved(q)
<1>1. ASSUME NEW v \in known \cup {Plain}, FinallyReturns(v) PROVE \A q : Moved(q)
  BY <1>1, FinallyReturnsMoves
<1>2. CASE ScriptEnds \/ ResultDropped
  <2>1. Touches /\ calls' = calls
    BY <1>2, DropStep DEF ScriptEnds, ResultDropped
  <2> QED BY <2>1, TouchMoves
<1>3. CASE \/ \E v \in Given : ResultToCapability(FALSE, v)
           \/ ResultToCapability(TRUE, Plain) \/ NativeReturns \/ FinallyEnds \/ FinallyThrows(Plain)
  <2>1. Touches
    BY <1>3, ResultStep
  <2>2. calls' = calls
    BY <1>3 DEF ResultToCapability, NativeReturns, FinallyEnds, FinallyThrows
  <2> QED BY <2>1, <2>2, TouchMoves
<1>4. CASE Throws(Plain) \/ ItemThrows(Plain)
  <2>1. Touches
    BY <1>4, ThrowsStep, ItemThrowsStep
  <2>2. calls' = calls
    BY <1>4 DEF Throws, ItemThrows
  <2> QED BY <2>1, <2>2, TouchMoves
<1>5. CASE GetterThrows(Plain) \/ GetterGivesNoFunction \/ GetterGivesFunction
  <2>1. Touches
    BY <1>5, GetterStep
  <2>2. calls' = calls
    BY <1>5 DEF GetterThrows, GetterGivesNoFunction, GetterGivesFunction
  <2> QED BY <2>1, <2>2, TouchMoves
<1> QED BY <1>1, <1>2, <1>3, <1>4, <1>5 DEF Return

LEMMA RunJobMoves ==
  ASSUME Inv, RunJob
  PROVE  \A q : Moved(q)
<1>1. CASE ReactionPasses
  <2>1. Touches /\ calls' = Called /\ \E fns : IsReaction(fns)
    BY <1>1, ReactionPassesStep DEF ReactionPasses
  <2> QED BY <2>1, CallMoves
<1>2. CASE ReactionCallsProgram
  <2>1. Touches /\ calls' = Called /\ \E fns : IsReaction(fns)
    BY <1>2, ReactionCallsProgramStep DEF ReactionCallsProgram
  <2> QED BY <2>1, CallMoves
<1>3. CASE ReactionCallsNative
  <2>1. Touches /\ calls' = Called /\ \E fns : IsReaction(fns)
    BY <1>3, ReactionCallsNativeStep DEF ReactionCallsNative
  <2> QED BY <2>1, CallMoves
<1>4. CASE ThenableIsPromise
  BY <1>4, ThenableIsPromiseMoves
<1>5. CASE ThenableIsForeign
  <2>1. Touches /\ calls' = calls
    BY <1>5, ThenableIsForeignStep DEF ThenableIsForeign
  <2> QED BY <2>1, TouchMoves
<1> QED BY <1>1, <1>2, <1>3, <1>4, <1>5 DEF RunJob

LEMMA StepRefines ==
  ASSUME Inv, [Next]_vars
  PROVE  [Promised!Next]_(Promised!vars)
<1>1. CASE Next
  <2>1. \A q : Moved(q)
    BY <1>1, ProgramMoves, CombinatorMoves, ReturnMoves, RunJobMoves DEF Next
  <2>2. Inv'
    BY StepIsGood
  <2> QED BY <2>1, <2>2, MovesRefine
<1>2. CASE UNCHANGED vars
  <2>1. UNCHANGED <<promises, calls>>
    BY <1>2 DEF vars
  <2>2. UNCHANGED <<promises, calls>> => UNCHANGED Promised!vars
    BY DEF Promised!vars, Promises, Settled
  <2> QED BY <2>1, <2>2
<1> QED BY <1>1, <1>2

LEMMA InitRefines ==
  ASSUME Init
  PROVE  Promised!Init
<1>1. /\ promises = [p \in 1..Made |-> Pending] /\ calls = [p \in 1..Made |-> <<>>]
      /\ Pending.state = "pending" /\ Pending.registered = 0
  BY PendingIs DEF Init
<1>2. /\ DOMAIN promises = 1..Made
      /\ \A p \in DOMAIN promises :
           promises[p].state = "pending" /\ promises[p].registered = 0 /\ calls[p] = <<>>
  BY <1>1
<1> QED BY <1>2 DEF Promised!Init, Promises, Settled

\* Whatever order resolutions, thens and jobs come in, each promise is
\* settled at most once, and each reaction on it is called once, after that,
\* with its outcome, in the order of registration.
THEOREM KeepsPromises == Spec => ImplementsPromise
<1>1. Init => Promised!Init
  BY InitRefines
<1>2. IInv /\ [Next]_vars => [Promised!Next]_(Promised!vars)
  BY StepRefines DEF IInv
<1> QED BY <1>1, <1>2, InvariantAlways, PTL DEF Spec, ImplementsPromise, Promised!Spec

-----------------------------------------------------------------------------
(* Async functions: the body of f runs in call i, or waits for reaction n  *)
(* of p, which may be queued.                                              *)

RunsIn(st, f, i) == i \in DOMAIN st /\ st[i].call = "async" /\ st[i].of = f
WaitsIn(s, f, n) == \E i \in DOMAIN s.reactions : s.reactions[i].n = n /\ s.reactions[i].onFul = Resume(f)
Queued(js, f, p, n) ==
  \E i \in DOMAIN js : Of(js, p, i) /\ js[i].n = n /\ js[i].handler \in {Resume(f), ResumeThrow(f)}
Waits(ps, js, f, p, n) == (p \in DOMAIN ps /\ WaitsIn(ps[p], f, n)) \/ Queued(js, f, p, n)

\* Until its end it does so exactly once.
Turn(ps, js, st, resolved, f) ==
  \/ /\ resolved
     /\ \A i : ~RunsIn(st, f, i)
     /\ \A p, n : ~Waits(ps, js, f, p, n)
  \/ /\ ~resolved
     /\ \E i : \A k : RunsIn(st, f, k) <=> k = i
     /\ \A p, n : ~Waits(ps, js, f, p, n)
  \/ /\ ~resolved
     /\ \A i : ~RunsIn(st, f, i)
     /\ \E p, n : \A q, m : Waits(ps, js, f, q, m) <=> q = p /\ m = n
Turns == \A f \in DOMAIN pairs : pairs[f].async => Turn(promises, jobs, stack, pairs[f].resolved, f)

\* The same bodies run in two lists of calls, or wait in two tables.
SameRuns(st, su) == \A f, i : RunsIn(su, f, i) <=> RunsIn(st, f, i)
SameWaits(ps, js, qs, ks) == \A f, p, n : Waits(qs, ks, f, p, n) <=> Waits(ps, js, f, p, n)

LEMMA FnsDiffer ==
  /\ \A f, g : (Resume(f) = Resume(g) <=> f = g) /\ (ResumeThrow(f) = ResumeThrow(g) <=> f = g)
  /\ \A f, g : Resume(f) # ResumeThrow(g)
  /\ \A f : Resume(f).fn = "asyncResolve" /\ ResumeThrow(f).fn = "asyncReject"
  /\ \A f : Resume(f).of = f /\ ResumeThrow(f).of = f
  BY DEF Resume, ResumeThrow, Fn

\* Both handlers of a reaction resume a body, or none.
Paired(g, h) == \A f : (g = Resume(f) <=> h = ResumeThrow(f)) /\ g # ResumeThrow(f) /\ h # Resume(f)

LEMMA HandlersPaired ==
  ASSUME NEW ps, NEW prs, NEW cbs, NEW q, NEW g, NEW h, Handlers(ps, prs, cbs, q, g, h)
  PROVE  Paired(g, h)
<1>1. CASE Code(ps, g) /\ Code(ps, h)
  BY <1>1, FnsDiffer DEF Code, Simple, Paired
<1>2. CASE \E f \in DOMAIN prs : prs[f].async /\ g = Resume(f) /\ h = ResumeThrow(f)
  BY <1>2, FnsDiffer DEF Paired
<1>3. CASE \E f \in DOMAIN prs : prs[f].follows = q /\ g = Fn("resolve", f, 0) /\ h = Fn("reject", f, 0)
  <2>1. g.fn = "resolve" /\ h.fn = "reject"
    BY <1>3 DEF Fn
  <2> QED BY <2>1, FnsDiffer DEF Paired
<1>4. CASE \E c \in DOMAIN cbs : \E i \in Native(cbs, c) : g = Ful(cbs, c, i) /\ h = Rej(cbs, c, i)
  <2>0. PICK c \in DOMAIN cbs : \E i \in Native(cbs, c) : g = Ful(cbs, c, i) /\ h = Rej(cbs, c, i)
    BY <1>4
  <2>1. PICK i \in Native(cbs, c) : g = Ful(cbs, c, i) /\ h = Rej(cbs, c, i)
    BY <2>0
  <2>2. g.fn \in {"resolve", "element"}
    BY <2>1 DEF Ful, Fn
  <2>3. h.fn \in {"reject", "element", "rejectElement"}
    BY <2>1 DEF Rej, Fn
  <2> QED BY <2>2, <2>3, FnsDiffer DEF Paired
<1> QED BY <1>1, <1>2, <1>3, <1>4 DEF Handlers

LEMMA ReactionsPaired ==
  ASSUME Inv, NEW p \in DOMAIN promises, NEW i \in DOMAIN promises[p].reactions
  PROVE  Paired(promises[p].reactions[i].onFul, promises[p].reactions[i].onRej)
<1>1. ReactionOk(promises, pairs, combos, p, promises[p].reactions[i])
  BY DEF Inv, Good, Refs, PromiseOk
<1> QED BY <1>1, HandlersPaired DEF ReactionOk

LEMMA QueuedInTwo ==
  ASSUME NEW js \in Seq(JobData), NEW u \in Seq(JobData), NEW f, NEW p, NEW n
  PROVE  Queued(js \o u, f, p, n) <=> Queued(js, f, p, n) \/ Queued(u, f, p, n)
<1> DEFINE ks == js \o u
<1>1. /\ Joined(js, u, ks) /\ Len(js) \in Nat /\ DOMAIN js = 1..Len(js)
      /\ Len(u) \in Nat /\ DOMAIN u = 1..Len(u)
  BY ConcatIs, LenProperties
<1> HIDE DEF ks
<1>2. /\ \A i \in DOMAIN js : i \in DOMAIN ks /\ ks[i] = js[i]
      /\ \A i \in DOMAIN u : Len(js) + i \in DOMAIN ks /\ ks[Len(js) + i] = u[i]
  BY <1>1 DEF Joined
<1>3. ASSUME NEW i \in DOMAIN ks
      PROVE  \/ i \in DOMAIN js /\ ks[i] = js[i]
             \/ i - Len(js) \in DOMAIN u /\ ks[i] = u[i - Len(js)]
  <2>1. i \in 1..(Len(js) + Len(u))
    BY <1>1 DEF Joined
  <2>2. CASE i \in DOMAIN js
    BY <1>2, <2>2
  <2>3. CASE i \notin DOMAIN js
    <3>1. i - Len(js) \in 1..Len(u) /\ Len(js) + (i - Len(js)) = i
      BY <1>1, <2>1, <2>3
    <3> QED BY <1>1, <1>2, <3>1
  <2> QED BY <2>2, <2>3
<1>4. Queued(js, f, p, n) => Queued(ks, f, p, n)
  BY <1>2 DEF Queued, Of
<1>5. Queued(u, f, p, n) => Queued(ks, f, p, n)
  BY <1>2 DEF Queued, Of
<1>6. Queued(ks, f, p, n) => Queued(js, f, p, n) \/ Queued(u, f, p, n)
  BY <1>3 DEF Queued, Of
<1> QED BY <1>4, <1>5, <1>6 DEF ks

LEMMA QueuedLast ==
  ASSUME NEW js \in Seq(JobData), NEW j \in JobData, NEW f, NEW p, NEW n
  PROVE  Queued(Append(js, j), f, p, n) <=>
           Queued(js, f, p, n) \/ (/\ j.job = "reaction" /\ j.promise = p /\ j.n = n
                                   /\ j.handler \in {Resume(f), ResumeThrow(f)})
<1> DEFINE ks == Append(js, j)
<1>1. Longer(js, ks, j) /\ Len(js) \in Nat /\ DOMAIN js = 1..Len(js)
  BY AppendIs, LenProperties
<1> HIDE DEF ks
<1>2. /\ \A i \in DOMAIN js : i \in DOMAIN ks /\ ks[i] = js[i]
      /\ Len(js) + 1 \in DOMAIN ks /\ ks[Len(js) + 1] = j
      /\ \A i \in DOMAIN ks : i \in DOMAIN js \/ i = Len(js) + 1
  BY <1>1 DEF Longer
<1> QED BY <1>2 DEF Queued, Of, ks

\* Reactions that are queued go on waiting.
LEMMA SettleWaits ==
  ASSUME Inv, NEW js \in Seq(JobData), NEW p \in DOMAIN promises, NEW rej \in BOOLEAN, NEW v \in Int,
         Settle(js, p, rej, v)
  PROVE  SameWaits(promises, js, promises', jobs')
<1> DEFINE s == promises[p]
           u == Reactions(s, p, rej, v)
<1>1. /\ Len(promises) \in Nat /\ DOMAIN promises = 1..Len(promises) /\ s \in JSPromiseData
      /\ p \in Nat
  <2>1. Types(promises, pairs, combos, jobs, stack, known, held, calls)
    BY DEF Inv, Good
  <2> QED BY <2>1, Facts
<1>2. promises' = [promises EXCEPT ![p] = Outcome(s, rej, v)] /\ jobs' = js \o u
  BY SettleIs
<1>3. Outcome(s, rej, v).reactions = <<>>
  BY <1>1, OutcomeIs
<1>4. /\ u \in Seq(JobData) /\ Len(u) = Len(s.reactions) /\ DOMAIN u = DOMAIN s.reactions
      /\ \A i \in DOMAIN u :
           /\ u[i].job = "reaction" /\ u[i].promise = p /\ u[i].n = s.reactions[i].n
           /\ u[i].handler = IF rej THEN s.reactions[i].onRej ELSE s.reactions[i].onFul
  BY <1>1, ReactionsIs
<1>5. \A i \in DOMAIN s.reactions : Paired(s.reactions[i].onFul, s.reactions[i].onRej)
  BY ReactionsPaired
<1> HIDE DEF u
<1>6. Joined(js, u, jobs') /\ Len(js) \in Nat /\ DOMAIN js = 1..Len(js) /\ DOMAIN u = 1..Len(u) /\ Len(u) \in Nat
  BY <1>2, <1>4, ConcatIs, LenProperties
<1>7. \A i \in DOMAIN u : Paired(s.reactions[i].onFul, s.reactions[i].onRej)
  BY <1>4, <1>5
<1>8. \A f : \A i \in DOMAIN u : u[i].handler \in {Resume(f), ResumeThrow(f)} <=> s.reactions[i].onFul = Resume(f)
  BY <1>4, <1>7 DEF Paired
<1>9. \A f, n : Queued(u, f, p, n) <=> WaitsIn(s, f, n)
  BY <1>4, <1>8 DEF Queued, Of, WaitsIn
<1>10. \A f, q, n : q # p => ~Queued(u, f, q, n)
  BY <1>4 DEF Queued, Of
<1>11. \A f, q, n : Queued(jobs', f, q, n) <=> Queued(js, f, q, n) \/ Queued(u, f, q, n)
  BY <1>2, <1>4, QueuedInTwo
<1>12. \A f, n : ~WaitsIn(promises'[p], f, n)
  <2>1. promises'[p].reactions = <<>> /\ DOMAIN <<>> = {}
    BY <1>2, <1>3
  <2> QED BY <2>1 DEF WaitsIn
<1>13. DOMAIN promises' = DOMAIN promises /\ \A q \in DOMAIN promises : q # p => promises'[q] = promises[q]
  BY <1>2
<1> HIDE DEF s
<1>14. ASSUME NEW f, NEW q, NEW n PROVE Waits(promises', jobs', f, q, n) <=> Waits(promises, js, f, q, n)
  <2>1. CASE q = p
    BY <1>9, <1>11, <1>12, <1>13, <2>1 DEF Waits, s
  <2>2. CASE q # p
    BY <1>10, <1>11, <1>13, <2>2 DEF Waits
  <2> QED BY <2>1, <2>2
<1> QED BY <1>14 DEF SameWaits

\* One that is registered on p waits, if it is an await.
LEMMA PerformWaits ==
  ASSUME NEW ps, NEW js \in Seq(JobData), NEW p \in Nat, p \in DOMAIN ps, ps[p] \in JSPromiseData,
         NEW cap \in Nat, NEW g \in Callables, NEW h \in Callables, Paired(g, h),
         PerformThen(ps, js, p, cap, g, h)
  PROVE  \A f, q, n : Waits(promises', jobs', f, q, n) <=>
           Waits(ps, js, f, q, n) \/ (q = p /\ n = ps[p].registered + 1 /\ g = Resume(f))
<1> DEFINE s == ps[p]
           r == Reaction(s, cap, g, h)
<1>1. r \in ReactionData /\ r.onFul = g /\ r.onRej = h /\ r.n = s.registered + 1
  BY ReactionIs
<1>2. s.reactions \in Seq(ReactionData) /\ s.registered \in Nat /\ s.result \in Int
  BY DEF JSPromiseData
<1> DEFINE k == s.registered + 1
<1>3. CASE s.state = "pending"
  <2>1. promises' = [ps EXCEPT ![p] = Waiting(s, r)] /\ jobs' = js
    BY <1>3 DEF PerformThen, Waiting, Seen, Reaction
  <2>2. Waiting(s, r).reactions = Append(s.reactions, r)
    BY <1>1, WaitingIs
  <2>3. Longer(s.reactions, Append(s.reactions, r), r) /\ Len(s.reactions) \in Nat /\ DOMAIN s.reactions = 1..Len(s.reactions)
    BY <1>1, <1>2, AppendIs, LenProperties
  <2> DEFINE rs == Append(s.reactions, r)
  <2>4. /\ \A i \in DOMAIN s.reactions : i \in DOMAIN rs /\ rs[i] = s.reactions[i]
        /\ Len(s.reactions) + 1 \in DOMAIN rs /\ rs[Len(s.reactions) + 1] = r
        /\ \A i \in DOMAIN rs : i \in DOMAIN s.reactions \/ i = Len(s.reactions) + 1
    <3> HIDE DEF rs
    <3> QED BY <2>3 DEF Longer, rs
  <2>5. promises'[p].reactions = rs
    BY <2>1, <2>2
  <2> HIDE DEF rs, r, s
  <2>6. \A f, n : WaitsIn(promises'[p], f, n) <=> WaitsIn(s, f, n) \/ (n = r.n /\ g = Resume(f))
    BY <1>1, <2>4, <2>5 DEF WaitsIn
  <2>7. DOMAIN promises' = DOMAIN ps /\ \A q \in DOMAIN ps : q # p => promises'[q] = ps[q]
    BY <2>1
  <2>8. ASSUME NEW f, NEW q, NEW n
        PROVE  Waits(promises', jobs', f, q, n) <=>
                 Waits(ps, js, f, q, n) \/ (q = p /\ n = s.registered + 1 /\ g = Resume(f))
    <3>1. CASE q = p
      BY <1>1, <2>1, <2>6, <2>7, <3>1 DEF Waits, s
    <3>2. CASE q # p
      BY <2>1, <2>7, <3>2 DEF Waits
    <3> QED BY <3>1, <3>2
  <2> QED BY <2>8 DEF s
<1>4. CASE s.state # "pending"
  <2> DEFINE j == ReactionJob(p, r, s.state = "rejected", s.result)
  <2>1. promises' = [ps EXCEPT ![p] = Handled(s)] /\ jobs' = Append(js, j)
    BY <1>4 DEF PerformThen, Handled, Seen, Reaction
  <2>2. Handled(s).reactions = s.reactions
    BY HandledIs
  <2>3. /\ j \in JobData /\ j.job = "reaction" /\ j.promise = p /\ j.n = r.n
        /\ j.handler = IF s.state = "rejected" THEN r.onRej ELSE r.onFul
    <3> DEFINE rej == s.state = "rejected"
    <3>1. rej \in BOOLEAN
      OBVIOUS
    <3>2. j = ReactionJob(p, r, rej, s.result)
      OBVIOUS
    <3> HIDE DEF j, r, s, rej
    <3>3. /\ j \in JobData /\ j.job = "reaction" /\ j.promise = p /\ j.n = r.n
          /\ j.handler = IF rej THEN r.onRej ELSE r.onFul
      BY <1>1, <1>2, <3>1, <3>2, ReactionJobIs
    <3> QED BY <3>3 DEF rej
  <2>4. /\ DOMAIN promises' = DOMAIN ps /\ \A q \in DOMAIN ps : q # p => promises'[q] = ps[q]
        /\ promises'[p].reactions = s.reactions
    BY <2>1, <2>2
  <2> HIDE DEF j, r, s
  <2>5. \A f : j.handler \in {Resume(f), ResumeThrow(f)} <=> g = Resume(f)
    BY <1>1, <2>3 DEF Paired
  <2>6. \A f, q, n : Queued(jobs', f, q, n) <=> Queued(js, f, q, n) \/ (q = p /\ n = r.n /\ g = Resume(f))
    BY <2>1, <2>3, <2>5, QueuedLast
  <2>7. ASSUME NEW f, NEW q, NEW n
        PROVE  Waits(promises', jobs', f, q, n) <=>
                 Waits(ps, js, f, q, n) \/ (q = p /\ n = s.registered + 1 /\ g = Resume(f))
    <3>1. CASE q = p
      BY <1>1, <2>4, <2>6, <3>1 DEF Waits, s, WaitsIn
    <3>2. CASE q # p
      BY <2>4, <2>6, <3>2 DEF Waits
    <3> QED BY <3>1, <3>2
  <2> QED BY <2>7 DEF s
<1> QED BY <1>3, <1>4

LEMMA NewWaits ==
  ASSUME NEW ps \in Seq(JSPromiseData), NEW s \in JSPromiseData, s.reactions = <<>>, NEW js
  PROVE  SameWaits(ps, js, Append(ps, s), js)
<1> DEFINE qs == Append(ps, s)
<1>1. Longer(ps, qs, s) /\ DOMAIN ps = 1..Len(ps) /\ Len(ps) \in Nat
  BY AppendIs, LenProperties
<1> HIDE DEF qs
<1>2. /\ \A i \in DOMAIN ps : i \in DOMAIN qs /\ qs[i] = ps[i]
      /\ \A i \in DOMAIN qs : i \in DOMAIN ps \/ qs[i] = s
  BY <1>1 DEF Longer
<1>3. \A f, n : ~WaitsIn(s, f, n)
  <2>1. DOMAIN s.reactions = {}
    OBVIOUS
  <2> QED BY <2>1 DEF WaitsIn
<1> QED BY <1>2, <1>3 DEF SameWaits, Waits, qs

-----------------------------------------------------------------------------
(* Parts of a step that leave async functions alone.                       *)

LEMMA PushRuns ==
  ASSUME NEW st \in Seq(FrameData), NEW m \in FrameData
  PROVE  \A f, i : RunsIn(Append(st, m), f, i) <=>
                     RunsIn(st, f, i) \/ (i = Len(st) + 1 /\ m.call = "async" /\ m.of = f)
<1> DEFINE su == Append(st, m)
<1>1. Longer(st, su, m) /\ DOMAIN st = 1..Len(st) /\ Len(st) \in Nat
  BY AppendIs, LenProperties
<1> HIDE DEF su
<1>2. /\ \A i \in DOMAIN st : i \in DOMAIN su /\ su[i] = st[i]
      /\ Len(st) + 1 \in DOMAIN su /\ su[Len(st) + 1] = m
      /\ \A i \in DOMAIN su : i \in DOMAIN st \/ i = Len(st) + 1
  BY <1>1 DEF Longer
<1> QED BY <1>2 DEF RunsIn, su

LEMMA PopRuns ==
  ASSUME NEW st \in Seq(FrameData), st # <<>>
  PROVE  \A f, i : RunsIn(SubSeq(st, 1, Len(st) - 1), f, i) <=> RunsIn(st, f, i) /\ i # Len(st)
<1> DEFINE su == SubSeq(st, 1, Len(st) - 1)
<1>1. Front(st, su) /\ DOMAIN st = 1..Len(st) /\ Len(st) \in Nat
  BY FrontIs, LenProperties
<1> HIDE DEF su
<1>2. \A i : i \in DOMAIN su <=> i \in DOMAIN st /\ i # Len(st)
  BY <1>1 DEF Front
<1>3. \A i \in DOMAIN su : su[i] = st[i]
  BY <1>1 DEF Front
<1> QED BY <1>2, <1>3 DEF RunsIn, su

LEMMA QuietTop ==
  ASSUME NEW st \in Seq(FrameData), st # <<>>, st[Len(st)].call # "async"
  PROVE  SameRuns(st, SubSeq(st, 1, Len(st) - 1))
<1>1. \A f, i : RunsIn(st, f, i) => i # Len(st)
  BY DEF RunsIn
<1> QED BY <1>1, PopRuns DEF SameRuns

LEMMA HeadQueued ==
  ASSUME NEW js \in Seq(JobData), js # <<>>, NEW f, NEW p, NEW n
  PROVE  Queued(js, f, p, n) <=>
           Queued(Tail(js), f, p, n) \/ (/\ Head(js).job = "reaction" /\ Head(js).promise = p /\ Head(js).n = n
                                         /\ Head(js).handler \in {Resume(f), ResumeThrow(f)})
<1> DEFINE ks == Tail(js)
<1>1. /\ Shorter(js, ks) /\ Head(js) = js[1] /\ 1 \in DOMAIN js /\ DOMAIN js = 1..Len(js) /\ Len(js) \in Nat
  BY TailIs, LenProperties
<1> HIDE DEF ks
<1>2. /\ \A i \in DOMAIN ks : i + 1 \in DOMAIN js /\ js[i + 1] = ks[i]
      /\ \A i \in DOMAIN js : i = 1 \/ (i - 1 \in DOMAIN ks /\ ks[i - 1] = js[i])
  <2>1. \A i \in DOMAIN ks : i + 1 \in DOMAIN js /\ js[i + 1] = ks[i]
    BY <1>1 DEF Shorter
  <2>2. ASSUME NEW i \in DOMAIN js, i # 1 PROVE i - 1 \in DOMAIN ks /\ ks[i - 1] = js[i]
    <3>1. i - 1 \in 1..(Len(js) - 1) /\ (i - 1) + 1 = i
      BY <1>1, <2>2
    <3> QED BY <1>1, <3>1 DEF Shorter
  <2> QED BY <2>1, <2>2
<1> QED BY <1>1, <1>2 DEF Queued, Of, ks

LEMMA QuietHead ==
  ASSUME NEW ps, NEW js \in Seq(JobData), js # <<>>,
         Head(js).job # "reaction" \/ Head(js).handler.fn \notin {"asyncResolve", "asyncReject"}
  PROVE  SameWaits(ps, js, ps, Tail(js))
<1>1. \A f, p, n : Queued(js, f, p, n) <=> Queued(Tail(js), f, p, n)
  <2> SUFFICES ASSUME NEW f, NEW p, NEW n PROVE Queued(js, f, p, n) <=> Queued(Tail(js), f, p, n)
    OBVIOUS
  <2>1. ~(Head(js).job = "reaction" /\ Head(js).handler \in {Resume(f), ResumeThrow(f)})
    BY FnsDiffer
  <2> QED BY <2>1, HeadQueued
<1> QED BY <1>1 DEF SameWaits, Waits

\* The flag of f is set, if it was not.
Consumes(f) ==
  \/ pairs' = pairs /\ (f # 0 => pairs[f].resolved)
  \/ f \in DOMAIN pairs /\ pairs' = [pairs EXCEPT ![f] = Used(pairs[f])]

LEMMA ResolvesSame ==
  ASSUME Inv, NEW js \in Seq(JobData), NEW st \in Seq(FrameData),
         NEW f \in DOMAIN pairs, NEW rej \in BOOLEAN, NEW v \in Int, CallResolving(js, st, f, rej, v)
  PROVE  SameRuns(st, stack') /\ SameWaits(promises, js, promises', jobs') /\ Consumes(f)
<1> DEFINE p == pairs[f].promise
<1>1. /\ Len(promises) \in Nat /\ DOMAIN promises = 1..Len(promises) /\ p \in DOMAIN promises /\ p \in Nat
      /\ promises[p] \in JSPromiseData /\ f \in Nat
  <2>1. /\ Types(promises, pairs, combos, jobs, stack, known, held, calls)
        /\ Refs(promises, pairs, combos, jobs, stack, held)
    BY DEF Inv, Good
  <2>2. p \in DOMAIN promises
    BY <2>1 DEF Refs, PairOk
  <2> QED BY <2>1, <2>2, Facts
<1>2. CASE pairs[f].resolved
  <2>1. jobs' = js /\ stack' = st /\ promises' = promises /\ pairs' = pairs
    BY <1>2 DEF CallResolving
  <2> QED BY <1>2, <2>1 DEF SameRuns, SameWaits, Consumes
<1>3. CASE ~pairs[f].resolved
  <2>1. pairs' = [pairs EXCEPT ![f] = Used(pairs[f])] /\ ResolveWith(js, st, f, rej, v)
    BY <1>3 DEF CallResolving, Used
  <2>2. Consumes(f)
    BY <2>1 DEF Consumes
  <2> HIDE DEF p
  <2>3. ASSUME NEW r \in BOOLEAN, NEW w \in Int, Settle(js, p, r, w), stack' = st
        PROVE  SameRuns(st, stack') /\ SameWaits(promises, js, promises', jobs')
    BY <1>1, <2>3, SettleWaits DEF SameRuns
  <2>4. CASE Settle(js, p, rej, v) /\ stack' = st
    BY <2>2, <2>3, <2>4
  <2>5. CASE Settle(js, p, TRUE, TypeErr) /\ stack' = st
    <3>1. TRUE \in BOOLEAN /\ TypeErr \in Int
      BY DEF TypeErr
    <3> QED BY <2>2, <2>3, <2>5, <3>1
  <2>6. CASE jobs' = Append(js, ThenableJob(p, v)) /\ promises' = [promises EXCEPT ![p].lock = v] /\ stack' = st
    <3>1. ThenableJob(p, v) \in JobData /\ ThenableJob(p, v).job = "thenable"
      BY <1>1, ThenableJobIs
    <3>2. \A g, q, n : Queued(jobs', g, q, n) <=> Queued(js, g, q, n)
      BY <2>6, <3>1, QueuedLast
    <3>3. promises' = [promises EXCEPT ![p] = Locking(promises[p], v)]
      BY <2>6 DEF Locking
    <3>4. Locking(promises[p], v).reactions = promises[p].reactions
      BY <1>1 DEF Locking, JSPromiseData
    <3>5. /\ DOMAIN promises' = DOMAIN promises
          /\ \A q \in DOMAIN promises : promises'[q].reactions = promises[q].reactions
      BY <3>3, <3>4
    <3>6. SameWaits(promises, js, promises', jobs')
      BY <3>2, <3>5 DEF SameWaits, Waits, WaitsIn
    <3> QED BY <2>2, <2>6, <3>6 DEF SameRuns
  <2>7. CASE stack' = Append(st, Frame("getThen", f)) /\ jobs' = js /\ promises' = promises
    <3>1. Frame("getThen", f) \in FrameData /\ Frame("getThen", f).call = "getThen"
      BY <1>1 DEF Frame, FrameData, UserCalls, Plain
    <3> QED BY <2>2, <2>7, <3>1, PushRuns DEF SameRuns, SameWaits
  <2> QED BY <2>1, <2>4, <2>5, <2>6, <2>7 DEF ResolveWith, p
<1> QED BY <1>2, <1>3

LEMMA CapabilitySame ==
  ASSUME Inv, NEW js \in Seq(JobData), NEW st \in Seq(FrameData),
         NEW cap, cap = 0 \/ cap \in DOMAIN pairs, NEW rej \in BOOLEAN, NEW v \in Int,
         CallCapability(js, st, cap, rej, v)
  PROVE  SameRuns(st, stack') /\ SameWaits(promises, js, promises', jobs') /\ Consumes(cap)
<1>1. CASE cap = 0
  BY <1>1 DEF CallCapability, SameRuns, SameWaits, Consumes
<1>2. CASE cap # 0
  BY <1>2, ResolvesSame DEF CallCapability
<1> QED BY <1>1, <1>2

\* No async function is called, or comes to its end.
SameBodies(prs, qrs) ==
  /\ \A f \in DOMAIN prs : prs[f].async => f \in DOMAIN qrs /\ qrs[f].async /\ qrs[f].resolved = prs[f].resolved
  /\ \A f \in DOMAIN qrs : qrs[f].async => f \in DOMAIN prs /\ prs[f].async

\* The part of a step that begins with the jobs js and the calls st.
Quiet(js, st) ==
  /\ SameRuns(st, stack') /\ SameWaits(promises, js, promises', jobs')
  /\ SameBodies(pairs, pairs')

LEMMA ConsumesQuiet ==
  ASSUME NEW js, NEW st, SameRuns(st, stack'), SameWaits(promises, js, promises', jobs'),
         NEW f, Capability(pairs, f), Consumes(f), pairs \in Seq(PairData)
  PROVE  Quiet(js, st)
<1>1. CASE pairs' = pairs
  BY <1>1 DEF Quiet, SameBodies
<1>2. CASE f \in DOMAIN pairs /\ pairs' = [pairs EXCEPT ![f] = Used(pairs[f])]
  <2>1. pairs[f] \in PairData /\ 0 \notin DOMAIN pairs
    BY <1>2, Domain
  <2>2. Used(pairs[f]).async = pairs[f].async /\ ~pairs[f].async
    BY <1>2, <2>1 DEF Used, PairData, Capability, Public
  <2> QED BY <1>2, <2>2 DEF Quiet, SameBodies
<1> QED BY <1>1, <1>2 DEF Consumes

LEMMA NativeQuiet ==
  ASSUME Inv, NEW js \in Seq(JobData), NEW st \in Seq(FrameData), NEW v \in Int, NEW h,
         h.fn \in {"resolve", "reject"} => h.of \in DOMAIN pairs /\ ~pairs[h.of].async,
         h.fn \in {"element", "rejectElement"} => h.of \in DOMAIN combos,
         CallNative(js, st, h, v)
  PROVE  Quiet(js, st)
<1>0. pairs \in Seq(PairData) /\ \A c \in DOMAIN combos : Public(pairs, combos[c].cap)
  BY DEF Inv, Good, Types, Refs
<1>1. ASSUME NEW f \in DOMAIN pairs, ~pairs[f].async, NEW rej \in BOOLEAN, NEW w \in Int,
             CallResolving(js, st, f, rej, w)
      PROVE  Quiet(js, st)
  <2>1. SameRuns(st, stack') /\ SameWaits(promises, js, promises', jobs') /\ Consumes(f)
    BY <1>1, ResolvesSame
  <2>2. CASE pairs' = pairs
    BY <2>1, <2>2 DEF Quiet, SameBodies
  <2>3. CASE pairs' = [pairs EXCEPT ![f] = Used(pairs[f])]
    <3>1. Used(pairs[f]).async = pairs[f].async
      BY <1>0, Domain DEF Used, PairData
    <3> QED BY <1>1, <2>1, <2>3, <3>1 DEF Quiet, SameBodies
  <2> QED BY <2>1, <2>2, <2>3 DEF Consumes
<1>2. CASE h.fn \in {"resolve", "reject"}
  <2>1. CallResolving(js, st, h.of, h.fn = "reject", v) /\ (h.fn = "reject") \in BOOLEAN
    BY <1>2 DEF CallNative
  <2> QED BY <1>1, <1>2, <2>1
<1>3. CASE h.fn \in {"element", "rejectElement"}
  <2> DEFINE c == combos[h.of]
  <2>1. Public(pairs, c.cap)
    BY <1>0, <1>3
  <2>2. \/ CallResolving(js, st, c.cap, c.type = "any", Collected)
        \/ jobs' = js /\ stack' = st /\ UNCHANGED <<promises, pairs>>
    BY <1>3 DEF CallNative, CallElement
  <2>3. CASE CallResolving(js, st, c.cap, c.type = "any", Collected)
    <3>1. (c.type = "any") \in BOOLEAN /\ Collected \in Int /\ c.cap \in DOMAIN pairs /\ ~pairs[c.cap].async
      BY <2>1 DEF Collected, Public
    <3> HIDE DEF c
    <3> QED BY <1>1, <2>3, <3>1
  <2>4. CASE jobs' = js /\ stack' = st /\ UNCHANGED <<promises, pairs>>
    BY <2>4 DEF Quiet, SameBodies, SameRuns, SameWaits
  <2> QED BY <2>2, <2>3, <2>4
<1> QED BY <1>2, <1>3 DEF CallNative

LEMMA IsOver ==
  ASSUME NEW ps, NEW js, NEW st, NEW e, NEW f, e,
         \A i : ~RunsIn(st, f, i), \A p, n : ~Waits(ps, js, f, p, n)
  PROVE  Turn(ps, js, st, e, f)
  BY DEF Turn

LEMMA IsRunning ==
  ASSUME NEW ps, NEW js, NEW st, NEW e, NEW f, ~e, NEW i,
         \A k : RunsIn(st, f, k) <=> k = i, \A p, n : ~Waits(ps, js, f, p, n)
  PROVE  Turn(ps, js, st, e, f)
  BY DEF Turn

LEMMA IsWaiting ==
  ASSUME NEW ps, NEW js, NEW st, NEW e, NEW f, ~e, NEW p, NEW n,
         \A i : ~RunsIn(st, f, i), \A q, m : Waits(ps, js, f, q, m) <=> q = p /\ m = n
  PROVE  Turn(ps, js, st, e, f)
  BY DEF Turn

LEMMA SameTurn ==
  ASSUME NEW ps, NEW js, NEW st, NEW qs, NEW ks, NEW su, NEW e, NEW f,
         \A i : RunsIn(su, f, i) <=> RunsIn(st, f, i),
         \A p, n : Waits(qs, ks, f, p, n) <=> Waits(ps, js, f, p, n),
         Turn(ps, js, st, e, f)
  PROVE  Turn(qs, ks, su, e, f)
<1>1. \A i : RunsIn(su, f, i) <=> RunsIn(st, f, i)
  OBVIOUS
<1>2. \A p, n : Waits(qs, ks, f, p, n) <=> Waits(ps, js, f, p, n)
  OBVIOUS
<1>3. CASE e /\ (\A i : ~RunsIn(st, f, i)) /\ (\A p, n : ~Waits(ps, js, f, p, n))
  BY <1>1, <1>2, <1>3 DEF Turn
<1>4. CASE ~e /\ (\E i : \A k : RunsIn(st, f, k) <=> k = i) /\ (\A p, n : ~Waits(ps, js, f, p, n))
  <2>1. PICK i : \A k : RunsIn(st, f, k) <=> k = i
    BY <1>4
  <2>2. \A k : RunsIn(su, f, k) <=> k = i
    BY <1>1, <2>1
  <2>3. \A p, n : ~Waits(qs, ks, f, p, n)
    BY <1>2, <1>4
  <2> QED BY <1>4, <2>2, <2>3, IsRunning
<1>5. CASE ~e /\ (\A i : ~RunsIn(st, f, i)) /\ (\E p, n : \A q, m : Waits(ps, js, f, q, m) <=> q = p /\ m = n)
  <2>1. PICK p, n : \A q, m : Waits(ps, js, f, q, m) <=> q = p /\ m = n
    BY <1>5
  <2>2. \A q, m : Waits(qs, ks, f, q, m) <=> q = p /\ m = n
    BY <1>2, <2>1
  <2>3. \A i : ~RunsIn(su, f, i)
    BY <1>1, <1>5
  <2>4. ~e
    BY <1>5
  <2> QED BY ONLY <2>2, <2>3, <2>4, IsWaiting
<1> QED BY <1>3, <1>4, <1>5 DEF Turn

LEMMA QuietTurns ==
  ASSUME Turns, NEW js, NEW st, Quiet(js, st), SameRuns(stack, st), SameWaits(promises, jobs, promises, js)
  PROVE  Turns'
<1>1. SameRuns(stack, stack') /\ SameWaits(promises, jobs, promises', jobs')
  BY DEF Quiet, SameBodies, SameRuns, SameWaits
<1>2. SUFFICES ASSUME NEW f \in DOMAIN pairs', pairs'[f].async
               PROVE  Turn(promises', jobs', stack', pairs'[f].resolved, f)
  BY DEF Turns
<1>3. f \in DOMAIN pairs /\ pairs[f].async /\ pairs'[f].resolved = pairs[f].resolved
  BY <1>2 DEF Quiet, SameBodies
<1>4. Turn(promises, jobs, stack, pairs[f].resolved, f)
  BY <1>3 DEF Turns
<1>5. /\ \A i : RunsIn(stack', f, i) <=> RunsIn(stack, f, i)
      /\ \A p, n : Waits(promises', jobs', f, p, n) <=> Waits(promises, jobs, f, p, n)
  BY <1>1 DEF SameRuns, SameWaits
<1> QED BY <1>3, <1>4, <1>5, SameTurn

LEMMA SameRunsTwice ==
  ASSUME NEW st, NEW su, NEW sv, SameRuns(st, su), SameRuns(su, sv)
  PROVE  SameRuns(st, sv)
  BY DEF SameRuns

LEMMA SameWaitsTwice ==
  ASSUME NEW ps, NEW js, NEW qs, NEW ks, NEW us, NEW ls, SameWaits(ps, js, qs, ks), SameWaits(qs, ks, us, ls)
  PROVE  SameWaits(ps, js, us, ls)
  BY DEF SameWaits

LEMMA SameItself ==
  /\ \A st : SameRuns(st, st)
  /\ \A ps, js : SameWaits(ps, js, ps, js)
  /\ \A prs : SameBodies(prs, prs)
  BY DEF SameRuns, SameWaits, SameBodies

LEMMA MoreBodies ==
  ASSUME NEW prs \in Seq(PairData), NEW e \in PairData, ~e.async
  PROVE  SameBodies(prs, Append(prs, e))
<1> DEFINE qrs == Append(prs, e)
<1>1. Longer(prs, qrs, e) /\ DOMAIN prs = 1..Len(prs) /\ Len(prs) \in Nat
  BY AppendIs, LenProperties
<1> HIDE DEF qrs
<1>2. /\ \A i \in DOMAIN prs : i \in DOMAIN qrs /\ qrs[i] = prs[i]
      /\ \A i \in DOMAIN qrs : i \in DOMAIN prs \/ qrs[i] = e
  BY <1>1 DEF Longer
<1> QED BY <1>2 DEF SameBodies, qrs

LEMMA SameBodiesTwice ==
  ASSUME NEW prs, NEW qrs, NEW rrs, SameBodies(prs, qrs), SameBodies(qrs, rrs)
  PROVE  SameBodies(prs, rrs)
  BY DEF SameBodies

\* Who runs or waits is a call of an async function.
LEMMA Bodies ==
  ASSUME Inv, NEW f, (\E i : RunsIn(stack, f, i)) \/ (\E p, n : Waits(promises, jobs, f, p, n))
  PROVE  f \in DOMAIN pairs /\ pairs[f].async
<1>1. /\ Types(promises, pairs, combos, jobs, stack, known, held, calls)
      /\ Refs(promises, pairs, combos, jobs, stack, held)
  BY DEF Inv, Good
<1>2. \A c \in DOMAIN combos : Public(pairs, combos[c].cap) /\ combos[c].type \in CombinatorTypes
  BY <1>1, Facts DEF Refs, ComboData
<1>3. CASE \E i : RunsIn(stack, f, i)
  BY <1>1, <1>3 DEF RunsIn, Refs, FrameOk
<1>4. ASSUME NEW p \in DOMAIN promises, NEW n, WaitsIn(promises[p], f, n)
      PROVE  f \in DOMAIN pairs /\ pairs[f].async
  <2>1. PICK i \in DOMAIN promises[p].reactions : promises[p].reactions[i].onFul = Resume(f)
    BY <1>4 DEF WaitsIn
  <2>2. ReactionOk(promises, pairs, combos, p, promises[p].reactions[i])
    BY <1>1 DEF Refs, PromiseOk
  <2> DEFINE g == promises[p].reactions[i].onFul
             h == promises[p].reactions[i].onRej
  <2>3. Handlers(promises, pairs, combos, p, g, h)
    BY <2>2 DEF ReactionOk
  <2> HIDE DEF g, h
  <2>4. FALSE \in BOOLEAN /\ Handler(promises, pairs, combos, p, FALSE, g)
    BY <2>3, HandlersHandle
  <2>5. g.fn \in {"asyncResolve", "asyncReject"} => g.of \in DOMAIN pairs /\ pairs[g.of].async
    BY ONLY <1>2, <2>4, HandlerCases
  <2> QED BY <2>1, <2>5, FnsDiffer DEF g
<1>5. ASSUME NEW p, NEW n, Queued(jobs, f, p, n)
      PROVE  f \in DOMAIN pairs /\ pairs[f].async
  <2>1. PICK i \in DOMAIN jobs : Of(jobs, p, i) /\ jobs[i].handler \in {Resume(f), ResumeThrow(f)}
    BY <1>5 DEF Queued
  <2> DEFINE j == jobs[i]
  <2>2. Handler(promises, pairs, combos, j.promise, j.rej, j.handler)
    BY <1>1, <2>1 DEF Refs, JobOk, Of
  <2>3. j.handler.fn \in {"asyncResolve", "asyncReject"} /\ j.handler.of = f
    BY <2>1, FnsDiffer
  <2> HIDE DEF j
  <2>4. j.handler.of \in DOMAIN pairs /\ pairs[j.handler.of].async
    BY ONLY <1>2, <2>2, <2>3, HandlerCases
  <2> QED BY <2>3, <2>4
<1> QED BY <1>3, <1>4, <1>5 DEF Waits

\* Handlers that are not those of an await.
Other(g, h) == Paired(g, h) /\ \A f : g # Resume(f)

LEMMA OtherIs ==
  ASSUME NEW ps, NEW prs, NEW cbs, NEW q, NEW g, NEW h, Handlers(ps, prs, cbs, q, g, h), g.fn # "asyncResolve"
  PROVE  Other(g, h)
  BY HandlersPaired, FnsDiffer DEF Other

LEMMA PerformOther ==
  ASSUME NEW ps, NEW js \in Seq(JobData), NEW p \in Nat, p \in DOMAIN ps, ps[p] \in JSPromiseData,
         NEW cap \in Nat, NEW g \in Callables, NEW h \in Callables, Other(g, h),
         PerformThen(ps, js, p, cap, g, h)
  PROVE  SameWaits(ps, js, promises', jobs')
<1>1. \A f, q, n : Waits(promises', jobs', f, q, n) <=>
           Waits(ps, js, f, q, n) \/ (q = p /\ n = ps[p].registered + 1 /\ g = Resume(f))
  BY PerformWaits DEF Other
<1> QED BY <1>1 DEF Other, SameWaits

\* then makes a promise that nothing waits for, and registers.
LEMMA ThenOther ==
  ASSUME Inv, NEW js \in Seq(JobData), NEW p \in DOMAIN promises, NEW g \in Callables, NEW h \in Callables,
         Other(g, h), Then(js, p, g, h)
  PROVE  SameWaits(promises, js, promises', jobs') /\ SameBodies(pairs, pairs')
<1>1. Types(promises, pairs, combos, jobs, stack, known, held, calls)
  BY DEF Inv, Good
<1>2. /\ promises \in Seq(JSPromiseData) /\ pairs \in Seq(PairData) /\ Len(promises) \in Nat /\ Len(pairs) \in Nat
      /\ DOMAIN promises = 1..Len(promises) /\ promises[p] \in JSPromiseData
  BY <1>1, Facts DEF Types
<1>3. Fresh \in Nat /\ FreshPair \in Nat /\ p \in Nat
  BY <1>2 DEF Fresh, FreshPair
<1>4. /\ NewPair(Fresh) \in PairData /\ ~NewPair(Fresh).async /\ Pending \in JSPromiseData /\ Pending.reactions = <<>>
  BY <1>3, NewPairIs, PendingIs DEF Pending
<1>5. PerformThen(WithFresh, js, p, FreshPair, g, h) /\ pairs' = Append(pairs, NewPair(Fresh))
  BY DEF Then
<1> DEFINE ps == WithFresh
<1>6. p \in DOMAIN ps /\ ps[p] = promises[p]
  BY <1>1, <1>4, FreshOnes DEF WithFresh
<1>7. SameWaits(promises, js, ps, js)
  BY <1>2, <1>4, NewWaits DEF WithFresh
<1>8. PerformThen(ps, js, p, FreshPair, g, h)
  BY <1>5
<1> HIDE DEF ps
<1>9. SameWaits(ps, js, promises', jobs')
  BY <1>2, <1>3, <1>6, <1>8, PerformOther
<1>10. SameWaits(promises, js, promises', jobs')
  BY <1>7, <1>9, SameWaitsTwice
<1> QED BY <1>2, <1>4, <1>5, <1>10, MoreBodies

-----------------------------------------------------------------------------
(* The steps that leave async functions alone.                             *)

LEMMA InvSeqs ==
  ASSUME Inv
  PROVE  /\ promises \in Seq(JSPromiseData) /\ pairs \in Seq(PairData) /\ jobs \in Seq(JobData)
         /\ stack \in Seq(FrameData) /\ Len(promises) \in Nat /\ Len(pairs) \in Nat
         /\ DOMAIN promises = 1..Len(promises) /\ \A p \in DOMAIN promises : promises[p] \in JSPromiseData
         /\ DOMAIN pairs = 1..Len(pairs) /\ \A f \in DOMAIN pairs : pairs[f] \in PairData
<1>1. Types(promises, pairs, combos, jobs, stack, known, held, calls)
  BY DEF Inv, Good
<1> QED BY <1>1, Facts DEF Types

LEMMA StillQuiet ==
  ASSUME Turns, SameRuns(stack, stack'), SameWaits(promises, jobs, promises', jobs'), SameBodies(pairs, pairs')
  PROVE  Turns'
<1>1. Quiet(jobs, stack)
  BY DEF Quiet
<1>2. SameRuns(stack, stack) /\ SameWaits(promises, jobs, promises, jobs)
  BY SameItself
<1> QED BY <1>1, <1>2, QuietTurns

LEMMA ConstructTurns ==
  ASSUME Inv, Turns, Construct
  PROVE  Turns'
<1>1. /\ promises' = Append(promises, Pending) /\ pairs' = Append(pairs, NewPair(Fresh))
      /\ jobs' = jobs /\ stack' = stack
  BY DEF Construct, WithFresh
<1>2. Fresh \in Nat
  BY InvSeqs DEF Fresh
<1>3. NewPair(Fresh) \in PairData /\ ~NewPair(Fresh).async /\ Pending \in JSPromiseData /\ Pending.reactions = <<>>
  BY <1>2, NewPairIs, PendingIs DEF Pending
<1>4. SameBodies(pairs, pairs')
  BY <1>1, <1>3, InvSeqs, MoreBodies
<1>5. SameWaits(promises, jobs, promises', jobs')
  BY <1>1, <1>3, InvSeqs, NewWaits
<1>6. SameRuns(stack, stack')
  BY <1>1, SameItself
<1> QED BY <1>4, <1>5, <1>6, StillQuiet

LEMMA CombineTurns ==
  ASSUME Inv, Turns, NEW type \in CombinatorTypes, Combine(type)
  PROVE  Turns'
<1> DEFINE m == Frame("all", Len(combos) + 1)
<1>1. /\ promises' = Append(promises, Pending) /\ pairs' = Append(pairs, NewPair(Fresh))
      /\ jobs' = jobs /\ stack' = Append(stack, m)
  BY DEF Combine, WithFresh
<1>2. Fresh \in Nat /\ Len(combos) + 1 \in Nat
  <2>1. Len(combos) \in Nat
    BY Facts DEF Inv, Good
  <2> QED BY <2>1, InvSeqs DEF Fresh
<1>3. NewPair(Fresh) \in PairData /\ ~NewPair(Fresh).async /\ Pending \in JSPromiseData /\ Pending.reactions = <<>>
  BY <1>2, NewPairIs, PendingIs DEF Pending
<1>4. SameBodies(pairs, pairs')
  BY <1>1, <1>3, InvSeqs, MoreBodies
<1>5. SameWaits(promises, jobs, promises', jobs')
  BY <1>1, <1>3, InvSeqs, NewWaits
<1>6. m \in FrameData /\ m.call = "all"
  BY <1>2 DEF Frame, FrameData, Plain
<1> HIDE DEF m
<1>7. SameRuns(stack, stack')
  BY <1>1, <1>6, InvSeqs, PushRuns DEF SameRuns
<1> QED BY <1>4, <1>5, <1>7, StillQuiet

LEMMA ThenOfTurns ==
  ASSUME Inv, Turns, NEW p \in known, NEW g \in Callables, NEW h \in Callables,
         Code(promises, g), Code(promises, h), ThenOf(p, g, h)
  PROVE  Turns'
<1>1. p \in DOMAIN promises
  BY DEF Inv, Good, Types
<1>2. Handlers(promises, pairs, combos, p, g, h) /\ g.fn # "asyncResolve"
  BY DEF Handlers, Code, Simple
<1>3. Then(jobs, p, g, h) /\ stack' = stack
  BY DEF ThenOf
<1>4. SameWaits(promises, jobs, promises', jobs') /\ SameBodies(pairs, pairs')
  BY <1>1, <1>2, <1>3, OtherIs, ThenOther, InvSeqs
<1>5. SameRuns(stack, stack')
  BY <1>3, SameItself
<1> QED BY <1>4, <1>5, StillQuiet

LEMMA CallHeldTurns ==
  ASSUME Inv, Turns, NEW h \in held, NEW v \in Given, CallHeld(h, v)
  PROVE  Turns'
<1>1. /\ Types(promises, pairs, combos, jobs, stack, known, held, calls)
      /\ Refs(promises, pairs, combos, jobs, stack, held)
  BY DEF Inv, Good
<1>2. HeldOk(pairs, combos, h) /\ \A c \in DOMAIN combos : Public(pairs, combos[c].cap) /\ combos[c].type \in CombinatorTypes
  BY <1>1, Facts DEF Refs, ComboData
<1>3. /\ h.fn \in {"resolve", "reject"} => Public(pairs, h.of)
      /\ h.fn \in {"element", "rejectElement"} => h.of \in DOMAIN combos
  BY <1>2, HeldCases
<1>4. v \in Int
  BY InvTypes DEF Values, Collected
<1>5. CallNative(jobs, stack, h, v)
  BY DEF CallHeld
<1>6. Quiet(jobs, stack)
  BY <1>3, <1>4, <1>5, InvSeqs, NativeQuiet DEF Public
<1> QED BY <1>6, SameItself, QuietTurns

LEMMA ItemIsPromiseTurns ==
  ASSUME Inv, Turns, NEW p \in known, ItemIsPromise(p)
  PROVE  Turns'
<1>1. PICK c \in DOMAIN combos : NextItem(c) /\ Then(jobs, p, OnFulfilled(c, combos[c].n + 1), OnRejected(c, combos[c].n + 1))
        /\ stack' = stack
  BY DEF ItemIsPromise
<1>2. /\ Types(promises, pairs, combos, jobs, stack, known, held, calls) /\ p \in DOMAIN promises
      /\ combos[c] \in ComboData /\ c \in Nat /\ combos[c].n + 1 \in Nat
  <2>1. Types(promises, pairs, combos, jobs, stack, known, held, calls)
    BY DEF Inv, Good
  <2>2. combos[c] \in ComboData /\ DOMAIN combos = 1..Len(combos) /\ Len(combos) \in Nat
    BY <2>1, Facts
  <2>3. combos[c].n \in Nat /\ c \in Nat
    BY <2>2 DEF ComboData
  <2>4. p \in DOMAIN promises
    BY <2>1 DEF Types
  <2> QED BY <2>1, <2>2, <2>3, <2>4
<1> DEFINE i == combos[c].n + 1
           g == OnFulfilled(c, i)
           h == OnRejected(c, i)
<1>3. g = Ful(combos, c, i) /\ h = Rej(combos, c, i)
  BY HandlersOfItem
<1>4. g \in Callables /\ h \in Callables
  BY <1>2, <1>3, FulRejCallable
<1>5. /\ g.fn \in {"resolve", "element"} /\ h.fn \in {"reject", "element", "rejectElement"}
  BY <1>3 DEF Ful, Rej, Fn
<1>6. Then(jobs, p, g, h)
  BY <1>1
<1> HIDE DEF g, h
<1>7. Other(g, h)
  BY <1>5, FnsDiffer DEF Other, Paired
<1>8. SameWaits(promises, jobs, promises', jobs') /\ SameBodies(pairs, pairs')
  BY <1>2, <1>4, <1>6, <1>7, ThenOther, InvSeqs
<1> QED BY <1>1, <1>8, StillQuiet, SameItself

LEMMA ItemIsForeignTurns ==
  ASSUME Inv, Turns, ItemIsForeign
  PROVE  Turns'
<1>1. PICK c \in DOMAIN combos : stack' = Append(stack, Frame("itemThen", c)) /\ UNCHANGED <<promises, pairs, jobs>>
  BY DEF ItemIsForeign
<1>2. c \in Nat
  <2>1. Len(combos) \in Nat /\ DOMAIN combos = 1..Len(combos)
    BY Facts DEF Inv, Good
  <2> QED BY <2>1
<1>3. Frame("itemThen", c) \in FrameData /\ Frame("itemThen", c).call = "itemThen"
  BY <1>2 DEF Frame, FrameData, UserCalls, Plain
<1>4. SameRuns(stack, stack')
  BY <1>1, <1>3, InvSeqs, PushRuns DEF SameRuns
<1> QED BY <1>1, <1>4, StillQuiet, SameItself

LEMMA CallersQuiet ==
  ASSUME Inv, stack # <<>>, Top.call # "async"
  PROVE  SameRuns(stack, Callers) /\ Callers \in Seq(FrameData)
  BY InvSeqs, QuietTop, FrontIs DEF Top, Callers

LEMMA ItemsEndTurns ==
  ASSUME Inv, Turns, ItemsEnd
  PROVE  Turns'
<1>1. PICK c \in DOMAIN combos :
         /\ OnTop("all")
         /\ \/ stack' = Callers /\ UNCHANGED <<promises, pairs, jobs>>
            \/ CallResolving(jobs, Callers, combos[c].cap, combos[c].type = "any", Collected)
  BY DEF ItemsEnd
<1>2. SameRuns(stack, Callers) /\ Callers \in Seq(FrameData)
  BY <1>1, CallersQuiet DEF OnTop
<1>3. CASE stack' = Callers /\ UNCHANGED <<promises, pairs, jobs>>
  BY <1>2, <1>3, StillQuiet, SameItself
<1>4. CASE CallResolving(jobs, Callers, combos[c].cap, combos[c].type = "any", Collected)
  <2>1. Public(pairs, combos[c].cap)
    BY DEF Inv, Good, Refs
  <2>2. (combos[c].type = "any") \in BOOLEAN /\ Collected \in Int /\ combos[c].cap \in DOMAIN pairs
    BY <2>1 DEF Collected, Public
  <2> DEFINE f == combos[c].cap
             any == combos[c].type = "any"
  <2>3. CallResolving(jobs, Callers, f, any, Collected) /\ f \in DOMAIN pairs /\ any \in BOOLEAN /\ Capability(pairs, f)
    BY <1>4, <2>1, <2>2 DEF Capability
  <2> HIDE DEF f, any
  <2>4. SameRuns(Callers, stack') /\ SameWaits(promises, jobs, promises', jobs') /\ Consumes(f)
    BY <1>2, <2>2, <2>3, InvSeqs, ResolvesSame
  <2>5. Quiet(jobs, Callers)
    BY <2>3, <2>4, InvSeqs, ConsumesQuiet
  <2> QED BY <1>2, <2>5, QuietTurns, SameItself
<1> QED BY <1>1, <1>3, <1>4

LEMMA DropTurns ==
  ASSUME Inv, Turns, ScriptEnds \/ ResultDropped
  PROVE  Turns'
<1>1. /\ stack # <<>> /\ Top.call \in {"script", "foreignThen", "itemThen"}
      /\ stack' = Callers /\ UNCHANGED <<promises, pairs, jobs>>
  BY DEF ScriptEnds, ResultDropped, Returns
<1>2. SameRuns(stack, Callers)
  BY <1>1, CallersQuiet
<1> QED BY <1>1, <1>2, StillQuiet, SameItself

LEMMA CallableTop ==
  ASSUME Inv, stack # <<>>
  PROVE  FrameOk(promises, pairs, combos, Top) /\ Top \in FrameData
<1>1. stack \in Seq(FrameData) /\ Refs(promises, pairs, combos, jobs, stack, held)
  BY InvTypes
<1>2. Len(stack) \in DOMAIN stack
  BY <1>1, FrontIs
<1> QED BY <1>1, <1>2, Domain DEF Refs, Top

\* A capability that is called after the call on top, or after a job.
LEMMA CapabilityTurns ==
  ASSUME Inv, Turns, NEW js \in Seq(JobData), NEW st \in Seq(FrameData),
         SameRuns(stack, st), SameWaits(promises, jobs, promises, js),
         NEW cap, Capability(pairs, cap), NEW rej \in BOOLEAN, NEW v \in Int,
         CallCapability(js, st, cap, rej, v)
  PROVE  Turns'
<1>1. cap = 0 \/ cap \in DOMAIN pairs
  BY DEF Capability, Public
<1>2. SameRuns(st, stack') /\ SameWaits(promises, js, promises', jobs') /\ Consumes(cap)
  BY <1>1, CapabilitySame
<1>3. Quiet(js, st)
  BY <1>2, InvSeqs, ConsumesQuiet
<1> QED BY <1>3, QuietTurns

LEMMA ToCapabilityTurns ==
  ASSUME Inv, Turns, stack # <<>>, Top.call \in {"handler", "native", "toFinally", "onFinally"},
         NEW rej \in BOOLEAN, NEW v \in Int, CallCapability(jobs, Callers, Top.of, rej, v)
  PROVE  Turns'
<1>1. Capability(pairs, Top.of)
  BY CallableTop DEF FrameOk
<1>2. SameRuns(stack, Callers) /\ Callers \in Seq(FrameData)
  BY CallersQuiet
<1>3. jobs \in Seq(JobData) /\ SameWaits(promises, jobs, promises, jobs)
  BY InvSeqs, SameItself
<1> DEFINE cap == Top.of
<1>4. Capability(pairs, cap) /\ CallCapability(jobs, Callers, cap, rej, v)
  BY <1>1
<1> HIDE DEF cap
<1> QED BY <1>2, <1>3, <1>4, CapabilityTurns

LEMMA EndTurns ==
  ASSUME Inv, Turns,
         \/ Top.call = "handler" /\ \E v \in Given : ResultToCapability(FALSE, v)
         \/ Top.call = "handler" /\ ResultToCapability(TRUE, Plain)
         \/ NativeReturns \/ FinallyEnds \/ FinallyThrows(Plain)
  PROVE  Turns'
<1>0. Plain \in Int /\ TRUE \in BOOLEAN /\ FALSE \in BOOLEAN /\ \A v \in Given : v \in Int
  BY InvTypes DEF Values, Collected, Plain
<1>1. ASSUME NEW v \in Given, Top.call = "handler", ResultToCapability(FALSE, v) PROVE Turns'
  <2>1. stack # <<>> /\ CallCapability(jobs, Callers, Top.of, FALSE, v)
    BY <1>1 DEF ResultToCapability, Returns
  <2> QED BY <1>0, <1>1, <2>1, ToCapabilityTurns
<1>2. CASE Top.call = "handler" /\ ResultToCapability(TRUE, Plain)
  <2>1. stack # <<>> /\ CallCapability(jobs, Callers, Top.of, TRUE, Plain)
    BY <1>2 DEF ResultToCapability, Returns
  <2> QED BY <1>0, <1>2, <2>1, ToCapabilityTurns
<1>3. CASE NativeReturns
  <2>1. stack # <<>> /\ Top.call = "native" /\ CallCapability(jobs, Callers, Top.of, FALSE, Plain)
    BY <1>3 DEF NativeReturns, Returns
  <2> QED BY <1>0, <2>1, ToCapabilityTurns
<1>4. CASE FinallyEnds
  <2>1. stack # <<>> /\ Top.call = "toFinally" /\ CallCapability(jobs, Callers, Top.of, FALSE, Top.arg)
    BY <1>4 DEF FinallyEnds, Returns
  <2> DEFINE v == Top.arg
  <2>2. v \in Int /\ CallCapability(jobs, Callers, Top.of, FALSE, v)
    BY <2>1, CallableTop DEF FrameData
  <2> HIDE DEF v
  <2> QED BY <1>0, <2>1, <2>2, ToCapabilityTurns
<1>5. CASE FinallyThrows(Plain)
  <2>1. stack # <<>> /\ Top.call = "onFinally" /\ CallCapability(jobs, Callers, Top.of, TRUE, Plain)
    BY <1>5 DEF FinallyThrows, Returns
  <2> QED BY <1>0, <2>1, ToCapabilityTurns
<1> QED BY <1>1, <1>2, <1>3, <1>4, <1>5

LEMMA ThrowsTurns ==
  ASSUME Inv, Turns, Throws(Plain)
  PROVE  Turns'
<1>1. /\ stack # <<>> /\ Top.call = "foreignThen"
      /\ CallResolving(jobs, Callers, Top.of, TRUE, Plain)
  BY DEF Throws, Returns
<1> DEFINE cap == Top.of
<1>2. Public(pairs, cap)
  BY <1>1, CallableTop DEF FrameOk
<1>3. SameRuns(stack, Callers) /\ Callers \in Seq(FrameData)
  BY <1>1, CallersQuiet
<1>4. Capability(pairs, cap) /\ CallCapability(jobs, Callers, cap, TRUE, Plain)
  <2>1. cap # 0
    BY <1>2, InvSeqs DEF Public
  <2> QED BY <1>1, <1>2, <2>1 DEF Capability, CallCapability
<1>5. Plain \in Int /\ TRUE \in BOOLEAN /\ jobs \in Seq(JobData) /\ SameWaits(promises, jobs, promises, jobs)
  BY InvSeqs, SameItself DEF Plain
<1> HIDE DEF cap
<1> QED BY <1>3, <1>4, <1>5, CapabilityTurns

LEMMA ItemThrowsTurns ==
  ASSUME Inv, Turns, ItemThrows(Plain)
  PROVE  Turns'
<1> DEFINE n == Len(stack)
           su == SubSeq(stack, 1, n - 2)
           cap == combos[Top.of].cap
<1>1. stack # <<>> /\ Top.call = "itemThen" /\ CallResolving(jobs, su, cap, TRUE, Plain)
  BY DEF ItemThrows, Returns
<1>2. n > 1 /\ stack[n - 1].call = "all"
  <2>1. Below(stack) /\ stack \in Seq(FrameData)
    BY InvTypes DEF Inv, Good
  <2>2. n \in DOMAIN stack
    BY <1>1, <2>1, FrontIs
  <2> QED BY <1>1, <2>1, <2>2 DEF Below, Top
<1>3. /\ SubSeq(Callers, 1, Len(Callers) - 1) = su /\ Callers # <<>>
      /\ Callers[Len(Callers)] = stack[n - 1]
  <2>1. stack \in Seq(FrameData)
    BY InvTypes
  <2> QED BY <1>2, <2>1, FrontOfFront DEF Callers
<1> HIDE DEF su, n
<1>4. SameRuns(stack, Callers) /\ Callers \in Seq(FrameData)
  BY <1>1, CallersQuiet
<1>5. SameRuns(Callers, su) /\ su \in Seq(FrameData)
  <2>1. Callers[Len(Callers)].call # "async"
    BY <1>2, <1>3
  <2>2. SameRuns(Callers, SubSeq(Callers, 1, Len(Callers) - 1))
    BY <1>3, <1>4, <2>1, QuietTop
  <2>3. SubSeq(Callers, 1, Len(Callers) - 1) \in Seq(FrameData)
    BY <1>3, <1>4, FrontIs
  <2> QED BY <1>3, <2>2, <2>3
<1>6. SameRuns(stack, su)
  BY <1>4, <1>5, SameRunsTwice
<1>7. Public(pairs, cap)
  <2>1. Top.of \in DOMAIN combos
    BY <1>1, CallableTop DEF FrameOk
  <2> QED BY <2>1 DEF Inv, Good, Refs
<1>8. Capability(pairs, cap) /\ CallCapability(jobs, su, cap, TRUE, Plain)
  <2>1. cap # 0
    BY <1>7, InvSeqs DEF Public
  <2> QED BY <1>1, <1>7, <2>1 DEF Capability, CallCapability
<1>9. Plain \in Int /\ TRUE \in BOOLEAN /\ jobs \in Seq(JobData) /\ SameWaits(promises, jobs, promises, jobs)
  BY InvSeqs, SameItself DEF Plain
<1> HIDE DEF cap
<1> QED BY <1>5, <1>6, <1>8, <1>9, CapabilityTurns

LEMMA GetterTurns ==
  ASSUME Inv, Turns, GetterThrows(Plain) \/ GetterGivesNoFunction \/ GetterGivesFunction
  PROVE  Turns'
<1> DEFINE p == pairs[Top.of].promise
<1>1. /\ stack # <<>> /\ Top.call = "getThen" /\ stack' = Callers /\ pairs' = pairs
      /\ \/ Settle(jobs, p, TRUE, Plain) \/ Settle(jobs, p, FALSE, Thenable)
         \/ jobs' = Append(jobs, ThenableJob(p, Thenable)) /\ promises' = promises
  BY DEF GetterThrows, GetterGivesNoFunction, GetterGivesFunction, Returns
<1>2. SameRuns(stack, Callers)
  BY <1>1, CallersQuiet
<1>3. p \in DOMAIN promises /\ p \in Nat
  <2>1. Top.of \in DOMAIN pairs
    BY <1>1, CallableTop DEF FrameOk
  <2>2. pairs[Top.of].promise \in DOMAIN promises
    BY <2>1 DEF Inv, Good, Refs, PairOk
  <2> QED BY <2>2, InvSeqs
<1>4. Plain \in Int /\ Thenable \in Int /\ TRUE \in BOOLEAN /\ FALSE \in BOOLEAN
  BY DEF Plain, Thenable
<1> HIDE DEF p
<1>5. CASE Settle(jobs, p, TRUE, Plain)
  <2>1. SameWaits(promises, jobs, promises', jobs')
    BY <1>3, <1>4, <1>5, InvSeqs, SettleWaits
  <2> QED BY <1>1, <1>2, <2>1, StillQuiet, SameItself
<1>6. CASE Settle(jobs, p, FALSE, Thenable)
  <2>1. SameWaits(promises, jobs, promises', jobs')
    BY <1>3, <1>4, <1>6, InvSeqs, SettleWaits
  <2> QED BY <1>1, <1>2, <2>1, StillQuiet, SameItself
<1>7. CASE jobs' = Append(jobs, ThenableJob(p, Thenable)) /\ promises' = promises
  <2> DEFINE j == ThenableJob(p, Thenable)
  <2>1. j \in JobData /\ j.job = "thenable"
    BY <1>3, <1>4, ThenableJobIs
  <2> HIDE DEF j
  <2>2. \A g, q, n : Queued(Append(jobs, j), g, q, n) <=> Queued(jobs, g, q, n)
    BY <2>1, InvSeqs, QueuedLast
  <2>3. SameWaits(promises, jobs, promises', jobs')
    BY <1>7, <2>2 DEF SameWaits, Waits, j
  <2> QED BY <1>1, <1>2, <2>3, StillQuiet, SameItself
<1> QED BY <1>1, <1>5, <1>6, <1>7

LEMMA FinallyReturnsTurns ==
  ASSUME Inv, Turns, NEW v \in known \cup {Plain}, FinallyReturns(v)
  PROVE  Turns'
<1> DEFINE thunk == Fn(IF Top.rej THEN "throw" ELSE "value", 0, Top.arg)
           made == Append(promises, Ready)
<1>1. /\ stack # <<>> /\ Top.call = "onFinally"
      /\ \/ /\ v \in known /\ Then(jobs, v, thunk, Undefined)
            /\ stack' = Append(Callers, [Frame("toFinally", Top.of) EXCEPT !.arg = Fresh])
         \/ /\ PerformThen(Append(made, Pending), jobs, Fresh, FreshPair, thunk, Undefined)
            /\ pairs' = Append(pairs, NewPair(Fresh + 1))
            /\ stack' = Append(Callers, [Frame("toFinally", Top.of) EXCEPT !.arg = Fresh + 1])
  BY DEF FinallyReturns, Returns, Then, Ready
<1>2. Top \in FrameData
  BY <1>1, CallableTop
<1>3. Top.of \in Nat /\ Top.arg \in Int
  BY <1>2 DEF FrameData
<1>4. /\ thunk \in Callables /\ Undefined \in Callables /\ thunk.fn \in {"throw", "value"} /\ Undefined.fn = "undefined"
  BY <1>3 DEF Fn, Undefined, Callables, Simple
<1> HIDE DEF thunk
<1>5. Other(thunk, Undefined)
  BY <1>4, FnsDiffer DEF Other, Paired
<1>6. ASSUME NEW q \in Nat
      PROVE  [Frame("toFinally", Top.of) EXCEPT !.arg = q] \in FrameData
             /\ [Frame("toFinally", Top.of) EXCEPT !.arg = q].call = "toFinally"
  <2> DEFINE b == Frame("toFinally", Top.of)
  <2>1. b \in FrameData /\ b.call = "toFinally"
    BY <1>3 DEF Frame, FrameData, Plain
  <2> HIDE DEF b
  <2>2. [b EXCEPT !.arg = q] \in FrameData /\ [b EXCEPT !.arg = q].call = b.call
    BY <2>1 DEF FrameData
  <2> QED BY <2>1, <2>2 DEF b
<1>7. SameRuns(stack, Callers) /\ Callers \in Seq(FrameData)
  BY <1>1, CallersQuiet
<1>8. Fresh \in Nat /\ Fresh + 1 \in Nat /\ FreshPair \in Nat
  BY InvSeqs DEF Fresh, FreshPair
<1>9. SameRuns(stack, stack')
  <2>1. ASSUME NEW m \in FrameData, m.call = "toFinally", stack' = Append(Callers, m)
        PROVE  SameRuns(stack, stack')
    <3>1. SameRuns(Callers, stack')
      BY <1>7, <2>1, PushRuns DEF SameRuns
    <3> QED BY <1>7, <3>1, SameRunsTwice
  <2>2. \/ stack' = Append(Callers, [Frame("toFinally", Top.of) EXCEPT !.arg = Fresh])
        \/ stack' = Append(Callers, [Frame("toFinally", Top.of) EXCEPT !.arg = Fresh + 1])
    BY <1>1
  <2> QED BY <1>6, <1>8, <2>1, <2>2
<1>10. CASE v \in known /\ Then(jobs, v, thunk, Undefined)
  <2>1. v \in DOMAIN promises
    BY <1>10 DEF Inv, Good, Types
  <2>2. SameWaits(promises, jobs, promises', jobs') /\ SameBodies(pairs, pairs')
    BY <1>4, <1>5, <1>10, <2>1, ThenOther, InvSeqs
  <2> QED BY <1>9, <2>2, StillQuiet
<1>11. CASE /\ PerformThen(Append(made, Pending), jobs, Fresh, FreshPair, thunk, Undefined)
            /\ pairs' = Append(pairs, NewPair(Fresh + 1))
  <2> DEFINE ps == Append(made, Pending)
  <2>1. /\ Pending \in JSPromiseData /\ Pending.reactions = <<>> /\ Ready \in JSPromiseData /\ Ready.reactions = <<>>
    BY PendingIs DEF Pending, Ready
  <2>2. made \in Seq(JSPromiseData) /\ Longer(promises, made, Ready)
    BY <2>1, InvSeqs, AppendIs
  <2>3. SameWaits(promises, jobs, made, jobs)
    BY <2>1, InvSeqs, NewWaits
  <2> HIDE DEF made
  <2>4. ps \in Seq(JSPromiseData) /\ Longer(made, ps, Pending) /\ SameWaits(made, jobs, ps, jobs)
    BY <2>1, <2>2, AppendIs, NewWaits
  <2>5. PerformThen(ps, jobs, Fresh, FreshPair, thunk, Undefined)
    BY <1>11
  <2> HIDE DEF ps
  <2>6. Fresh \in DOMAIN ps /\ ps[Fresh] \in JSPromiseData
    <3>1. Len(made) \in Nat /\ Len(made) = Fresh /\ DOMAIN ps = 1..(Len(made) + 1)
      BY <2>2, <2>4, InvSeqs DEF Longer, Fresh
    <3>2. Fresh \in DOMAIN ps
      BY <1>8, <3>1, InvSeqs DEF Fresh
    <3> QED BY <2>4, <3>2, Domain
  <2>7. SameWaits(ps, jobs, promises', jobs')
    BY <1>4, <1>5, <1>8, <2>5, <2>6, InvSeqs, PerformOther
  <2>8. SameWaits(promises, jobs, promises', jobs')
    BY <2>3, <2>4, <2>7, SameWaitsTwice
  <2>9. SameBodies(pairs, pairs')
    <3>1. NewPair(Fresh + 1) \in PairData /\ ~NewPair(Fresh + 1).async
      BY <1>8, NewPairIs
    <3> QED BY <1>11, <3>1, InvSeqs, MoreBodies
  <2> QED BY <1>9, <2>8, <2>9, StillQuiet
<1> QED BY <1>1, <1>10, <1>11

LEMMA OneRuns ==
  ASSUME NEW m \in FrameData, stack = <<>>
  PROVE  /\ <<m>> \in Seq(FrameData)
         /\ \A f, i : ~RunsIn(stack, f, i)
         /\ \A f, i : RunsIn(<<m>>, f, i) <=> i = 1 /\ m.call = "async" /\ m.of = f
  BY DEF RunsIn

LEMMA OneQuiet ==
  ASSUME NEW m \in FrameData, stack = <<>>, m.call # "async"
  PROVE  SameRuns(stack, <<m>>) /\ <<m>> \in Seq(FrameData)
  BY OneRuns DEF SameRuns

\* The oldest job is taken, and does not resume a body.
LEMMA RestQuiet ==
  ASSUME Inv, jobs # <<>>, Job.job # "reaction" \/ Job.handler.fn \notin {"asyncResolve", "asyncReject"}
  PROVE  SameWaits(promises, jobs, promises, Rest) /\ Rest \in Seq(JobData)
  BY InvSeqs, QuietHead, TailIs DEF Job, Rest

LEMMA ReactionPassesTurns ==
  ASSUME Inv, Turns, ReactionPasses
  PROVE  Turns'
<1> DEFINE none == Job.handler.fn = "undefined"
           rej == IF none THEN Job.rej ELSE Job.handler.fn = "throw"
           v == IF none THEN Job.arg ELSE Job.handler.at
           cap == Job.cap
<1>1. IsReaction({"undefined", "value", "throw"}) /\ CallCapability(Rest, <<>>, cap, rej, v)
  BY DEF ReactionPasses
<1>2. stack = <<>> /\ Job.handler.fn \in {"undefined", "value", "throw"} /\ Job \in ReactionJobs /\ Capability(pairs, cap)
  BY <1>1, ReactionBegins
<1>3. jobs # <<>>
  BY <1>1 DEF IsReaction
<1>4. SameWaits(promises, jobs, promises, Rest) /\ Rest \in Seq(JobData)
  BY <1>2, <1>3, RestQuiet
<1>5. rej \in BOOLEAN /\ v \in Int
  BY <1>2 DEF ReactionJobs, Callables
<1>6. SameRuns(stack, <<>>) /\ <<>> \in Seq(FrameData)
  BY <1>2, SameItself, EmptySeq
<1> HIDE DEF rej, v, cap, none
<1> QED BY <1>1, <1>2, <1>4, <1>5, <1>6, CapabilityTurns

LEMMA ReactionCallsNativeTurns ==
  ASSUME Inv, Turns, ReactionCallsNative
  PROVE  Turns'
<1> DEFINE m == Frame("native", Job.cap)
           h == Job.handler
           v == Job.arg
           st == <<m>>
<1>1. IsReaction({"resolve", "reject", "element", "rejectElement"}) /\ CallNative(Rest, st, h, v)
  BY DEF ReactionCallsNative
<1>2. /\ stack = <<>> /\ h.fn \in {"resolve", "reject", "element", "rejectElement"} /\ Job \in ReactionJobs
      /\ Job.promise \in DOMAIN promises
      /\ h.fn \in {"resolve", "reject"} =>
           h.of \in DOMAIN pairs /\ (Public(pairs, h.of) \/ pairs[h.of].follows = Job.promise)
      /\ h.fn \in {"element", "rejectElement"} => h.of \in DOMAIN combos
  BY <1>1, ReactionBegins
<1>3. jobs # <<>>
  BY <1>1 DEF IsReaction
<1>4. SameWaits(promises, jobs, promises, Rest) /\ Rest \in Seq(JobData)
  BY <1>2, <1>3, RestQuiet
<1>5. m \in FrameData /\ m.call = "native" /\ v \in Int
  BY <1>2 DEF ReactionJobs, Frame, FrameData, Plain
<1>6. h.fn \in {"resolve", "reject"} => h.of \in DOMAIN pairs /\ ~pairs[h.of].async
  <2> SUFFICES ASSUME h.fn \in {"resolve", "reject"} PROVE h.of \in DOMAIN pairs /\ ~pairs[h.of].async
    OBVIOUS
  <2>1. h.of \in DOMAIN pairs /\ (Public(pairs, h.of) \/ pairs[h.of].follows = Job.promise)
    BY <1>2
  <2>2. Job.promise # 0
    BY <1>2, InvSeqs
  <2>3. PairOk(promises, pairs[h.of])
    BY <2>1 DEF Inv, Good, Refs
  <2> QED BY <2>1, <2>2, <2>3 DEF PairOk, Public, Plain
<1> HIDE DEF m, h, v
<1>7. SameRuns(stack, st) /\ st \in Seq(FrameData)
  BY <1>2, <1>5, OneQuiet
<1> HIDE DEF st
<1>8. Quiet(Rest, st)
  BY <1>1, <1>2, <1>4, <1>5, <1>6, <1>7, NativeQuiet
<1> QED BY <1>4, <1>7, <1>8, QuietTurns

\* The promise and the argument of a thenable job.
LEMMA ThenableBegins ==
  ASSUME Inv, IsThenable
  PROVE  /\ stack = <<>> /\ jobs # <<>> /\ Job.job = "thenable"
         /\ Job.promise \in DOMAIN promises /\ Job.promise \in Nat
         /\ Job.arg # Thenable => Job.arg \in DOMAIN promises /\ Job.arg \in Nat
         /\ SameWaits(promises, jobs, promises, Rest) /\ Rest \in Seq(JobData)
<1>1. stack = <<>> /\ jobs # <<>> /\ Job.job = "thenable"
  BY DEF IsThenable
<1>2. SameWaits(promises, jobs, promises, Rest) /\ Rest \in Seq(JobData)
  BY <1>1, RestQuiet
<1>3. JobOk(promises, pairs, combos, Job)
  <2>1. jobs \in Seq(JobData) /\ Refs(promises, pairs, combos, jobs, stack, held)
    BY InvSeqs DEF Inv, Good
  <2>2. 1 \in DOMAIN jobs /\ Head(jobs) = jobs[1]
    BY <1>1, <2>1, TailIs
  <2> QED BY <2>1, <2>2 DEF Refs, Job
<1>4. Job.promise \in DOMAIN promises /\ (Job.arg # Thenable => Job.arg > 0 /\ Job.arg \in Values(promises))
  BY <1>1, <1>3 DEF JobOk
<1>5. Job.arg # Thenable => Job.arg \in DOMAIN promises /\ Job.arg \in Nat
  BY <1>4, InvSeqs DEF Values, Collected
<1> QED BY <1>1, <1>2, <1>4, <1>5, InvSeqs

LEMMA ThenableIsPromiseTurns ==
  ASSUME Inv, Turns, ThenableIsPromise
  PROVE  Turns'
<1> DEFINE e == [NewPair(Job.promise) EXCEPT !.follows = Job.arg]
           g == Fn("resolve", FreshPair, 0)
           h == Fn("reject", FreshPair, 0)
           a == Job.arg
           ps == Append(promises, Pending)
<1>1. /\ IsThenable /\ a # Thenable
      /\ pairs' = pairs \o <<e, NewPair(Fresh)>>
      /\ PerformThen(ps, Rest, a, FreshPair + 1, g, h)
      /\ stack' = stack
  BY DEF ThenableIsPromise, WithFresh
<1>2. /\ Job.promise \in Nat /\ a \in DOMAIN promises /\ a \in Nat
      /\ SameWaits(promises, jobs, promises, Rest) /\ Rest \in Seq(JobData)
  BY <1>1, ThenableBegins
<1>3. Fresh \in Nat /\ FreshPair \in Nat /\ FreshPair + 1 \in Nat
  BY InvSeqs DEF Fresh, FreshPair
<1>4. e \in PairData /\ ~e.async
  <2> DEFINE b == NewPair(Job.promise)
  <2>1. b \in PairData /\ b.async = FALSE
    BY <1>2, NewPairIs
  <2> HIDE DEF b
  <2>2. [b EXCEPT !.follows = a] \in PairData /\ [b EXCEPT !.follows = a].async = b.async
    BY <1>2, <2>1 DEF PairData
  <2> QED BY <2>1, <2>2 DEF b
<1> HIDE DEF e
<1>5. SameBodies(pairs, pairs')
  <2>1. NewPair(Fresh) \in PairData /\ ~NewPair(Fresh).async
    BY <1>3, NewPairIs
  <2> DEFINE d == NewPair(Fresh)
             qrs == Append(pairs, e)
  <2>2. pairs' = Append(qrs, d)
    <3>1. pairs' = pairs \o <<e, d>> /\ d \in PairData
      BY <1>1, <2>1
    <3>2. pairs \in Seq(PairData) /\ e \in PairData
      BY <1>4, InvSeqs
    <3> HIDE DEF d
    <3>3. pairs \o <<e, d>> = Append(Append(pairs, e), d)
      BY ONLY <3>1, <3>2, TwoMore
    <3> QED BY <3>1, <3>3
  <2>3. d \in PairData /\ ~d.async
    BY <2>1
  <2> HIDE DEF d
  <2>4. SameBodies(pairs, qrs) /\ qrs \in Seq(PairData)
    BY <1>4, InvSeqs, MoreBodies, AppendIs
  <2> HIDE DEF qrs
  <2>5. SameBodies(qrs, pairs')
    BY <2>2, <2>3, <2>4, MoreBodies
  <2> QED BY <2>4, <2>5, SameBodiesTwice
<1>6. Pending \in JSPromiseData /\ Pending.reactions = <<>>
  BY PendingIs DEF Pending
<1>7. SameWaits(promises, Rest, ps, Rest)
  BY <1>6, InvSeqs, NewWaits
<1>8. a \in DOMAIN ps /\ ps[a] \in JSPromiseData
  <2>1. ps \in Seq(JSPromiseData) /\ Longer(promises, ps, Pending)
    BY <1>6, InvSeqs, AppendIs
  <2>2. a \in DOMAIN ps
    <3> HIDE DEF ps, a
    <3> QED BY <1>2, <2>1, InvSeqs DEF Longer
  <2> HIDE DEF ps
  <2> QED BY <2>1, <2>2, Domain
<1>9. g \in Callables /\ h \in Callables /\ g.fn = "resolve" /\ h.fn = "reject"
  BY <1>3 DEF Fn, Callables
<1> HIDE DEF g, h, ps, a
<1>10. Other(g, h)
  BY <1>9, FnsDiffer DEF Other, Paired
<1>11. SameWaits(ps, Rest, promises', jobs')
  BY <1>1, <1>2, <1>3, <1>8, <1>9, <1>10, PerformOther
<1>12. SameWaits(promises, jobs, promises', jobs')
  BY <1>2, <1>7, <1>11, SameWaitsTwice
<1> QED BY <1>1, <1>5, <1>12, StillQuiet, SameItself

LEMMA ThenableIsForeignTurns ==
  ASSUME Inv, Turns, ThenableIsForeign
  PROVE  Turns'
<1> DEFINE m == Frame("foreignThen", FreshPair)
           e == NewPair(Job.promise)
<1>1. /\ IsThenable /\ pairs' = Append(pairs, e) /\ stack' = <<m>> /\ jobs' = Rest /\ promises' = promises
  BY DEF ThenableIsForeign
<1>2. stack = <<>> /\ Job.promise \in Nat /\ SameWaits(promises, jobs, promises, Rest)
  BY <1>1, ThenableBegins
<1>3. FreshPair \in Nat
  BY InvSeqs DEF FreshPair
<1>4. m \in FrameData /\ m.call = "foreignThen"
  BY <1>3 DEF Frame, FrameData, UserCalls, Plain
<1>5. e \in PairData /\ ~e.async
  BY <1>2, NewPairIs
<1> HIDE DEF m, e
<1>6. SameRuns(stack, stack')
  BY <1>1, <1>2, <1>4, OneQuiet
<1>7. SameBodies(pairs, pairs')
  BY <1>1, <1>5, InvSeqs, MoreBodies
<1> QED BY <1>1, <1>2, <1>6, <1>7, StillQuiet

-----------------------------------------------------------------------------
(* The steps of an async function. *)

LEMMA CallAsyncTurns ==
  ASSUME Inv, Turns, CallAsync
  PROVE  Turns'
<1> DEFINE e == [NewPair(Fresh) EXCEPT !.async = TRUE]
           m == Frame("async", FreshPair)
<1>1. /\ promises' = Append(promises, Pending) /\ pairs' = Append(pairs, e)
      /\ stack' = Append(stack, m) /\ jobs' = jobs
  BY DEF CallAsync, WithFresh
<1>2. Fresh \in Nat /\ FreshPair \in Nat /\ FreshPair \notin DOMAIN pairs
  BY InvSeqs DEF Fresh, FreshPair
<1>3. e \in PairData /\ ~e.resolved
  <2> DEFINE b == NewPair(Fresh)
  <2>1. b \in PairData /\ ~b.resolved
    BY <1>2, NewPairIs
  <2> HIDE DEF b
  <2>2. [b EXCEPT !.async = TRUE] \in PairData /\ [b EXCEPT !.async = TRUE].resolved = b.resolved
    BY <2>1 DEF PairData
  <2> QED BY <2>1, <2>2 DEF b
<1>4. m \in FrameData /\ m.call = "async" /\ m.of = FreshPair
  BY <1>2 DEF Frame, FrameData, UserCalls, Plain
<1> HIDE DEF e, m
<1>5. SameWaits(promises, jobs, promises', jobs')
  <2>1. Pending \in JSPromiseData /\ Pending.reactions = <<>>
    BY PendingIs DEF Pending
  <2> QED BY <1>1, <2>1, InvSeqs, NewWaits
<1>6. \A f, i : RunsIn(stack', f, i) <=> RunsIn(stack, f, i) \/ (i = Len(stack) + 1 /\ f = FreshPair)
  BY <1>1, <1>4, InvSeqs, PushRuns
<1>7. /\ \A f \in DOMAIN pairs : f \in DOMAIN pairs' /\ pairs'[f] = pairs[f]
      /\ \A f \in DOMAIN pairs' : f \in DOMAIN pairs \/ (f = FreshPair /\ pairs'[f] = e)
  <2>1. Longer(pairs, pairs', e)
    BY <1>1, <1>3, InvSeqs, AppendIs
  <2> QED BY <2>1, InvSeqs DEF Longer, FreshPair
<1>8. SUFFICES ASSUME NEW f \in DOMAIN pairs', pairs'[f].async
               PROVE  Turn(promises', jobs', stack', pairs'[f].resolved, f)
  BY DEF Turns
<1>9. CASE f \in DOMAIN pairs
  <2>1. f # FreshPair /\ pairs'[f] = pairs[f]
    BY <1>2, <1>7, <1>9
  <2>2. Turn(promises, jobs, stack, pairs'[f].resolved, f)
    BY <1>8, <1>9, <2>1 DEF Turns
  <2>3. \A i : RunsIn(stack', f, i) <=> RunsIn(stack, f, i)
    BY <1>6, <2>1
  <2>4. \A p, n : Waits(promises', jobs', f, p, n) <=> Waits(promises, jobs, f, p, n)
    BY <1>5 DEF SameWaits
  <2> QED BY <2>2, <2>3, <2>4, SameTurn
<1>10. CASE f \notin DOMAIN pairs
  <2>1. f = FreshPair /\ ~pairs'[f].resolved
    BY <1>3, <1>7, <1>8, <1>10
  <2>2. (\A i : ~RunsIn(stack, f, i)) /\ (\A p, n : ~Waits(promises, jobs, f, p, n))
    BY <1>10, Bodies
  <2>3. \A k : RunsIn(stack', f, k) <=> k = Len(stack) + 1
    BY <1>6, <2>1, <2>2
  <2>4. \A p, n : ~Waits(promises', jobs', f, p, n)
    BY <1>5, <2>2 DEF SameWaits
  <2> QED BY <2>1, <2>3, <2>4, IsRunning
<1> QED BY <1>9, <1>10

\* The body on top: it does not wait, and does not run once more.
LEMMA BodyOnTop ==
  ASSUME Inv, Turns, stack # <<>>, Top.call = "async"
  PROVE  /\ Top.of \in DOMAIN pairs /\ pairs[Top.of].async /\ ~pairs[Top.of].resolved
         /\ \A i : ~RunsIn(Callers, Top.of, i)
         /\ \A p, n : ~Waits(promises, jobs, Top.of, p, n)
         /\ \A f, i : f # Top.of => (RunsIn(Callers, f, i) <=> RunsIn(stack, f, i))
         /\ Callers \in Seq(FrameData)
<1> DEFINE f == Top.of
           l == Len(stack)
<1>1. f \in DOMAIN pairs /\ pairs[f].async
  BY CallableTop DEF FrameOk
<1>2. stack \in Seq(FrameData) /\ l \in DOMAIN stack /\ Callers \in Seq(FrameData)
  BY InvSeqs, FrontIs DEF Callers
<1>3. RunsIn(stack, f, l) /\ \A g : RunsIn(stack, g, l) => g = f
  BY <1>2 DEF RunsIn, Top
<1>4. Turn(promises, jobs, stack, pairs[f].resolved, f)
  BY <1>1 DEF Turns
<1>5. \A g, i : RunsIn(Callers, g, i) <=> RunsIn(stack, g, i) /\ i # l
  BY <1>2, PopRuns DEF Callers
<1> HIDE DEF f, l
<1>6. ~pairs[f].resolved /\ (\E i : \A k : RunsIn(stack, f, k) <=> k = i) /\ (\A p, n : ~Waits(promises, jobs, f, p, n))
  BY <1>3, <1>4 DEF Turn
<1>7. \A k : RunsIn(stack, f, k) => k = l
  BY <1>3, <1>6
<1>8. \A i : ~RunsIn(Callers, f, i)
  BY <1>5, <1>7
<1>9. \A g, i : g # f => (RunsIn(Callers, g, i) <=> RunsIn(stack, g, i))
  BY <1>3, <1>5
<1> QED BY <1>1, <1>2, <1>6, <1>8, <1>9 DEF f

LEMMA AwaitTurns ==
  ASSUME Inv, Turns, NEW v, Await(v)
  PROVE  Turns'
<1> DEFINE f == Top.of
           g == Resume(f)
           h == ResumeThrow(f)
           made == Append(promises, Ready)
<1>1. /\ stack # <<>> /\ Top.call = "async" /\ stack' = Callers /\ pairs' = pairs
      /\ \/ v \in known /\ PerformThen(promises, jobs, v, 0, g, h)
         \/ PerformThen(made, jobs, Fresh, 0, g, h)
  BY DEF Await, Operation, Ready
<1>2. /\ f \in DOMAIN pairs /\ ~pairs[f].resolved
      /\ \A i : ~RunsIn(Callers, f, i)
      /\ \A p, n : ~Waits(promises, jobs, f, p, n)
      /\ \A e, i : e # f => (RunsIn(Callers, e, i) <=> RunsIn(stack, e, i))
  BY <1>1, BodyOnTop
<1> HIDE DEF f
<1>3. f \in Nat
  BY <1>2, InvSeqs
<1>4. g \in Callables /\ h \in Callables /\ Paired(g, h) /\ \A e : g = Resume(e) <=> e = f
  BY <1>3, ResumeIs, FnsDiffer DEF Paired
<1> HIDE DEF g, h
<1> DEFINE JoinsAt(p, n) == \A e, q, m : Waits(promises', jobs', e, q, m) <=>
                              Waits(promises, jobs, e, q, m) \/ (q = p /\ m = n /\ e = f)
<1>5. \E p, n : JoinsAt(p, n)
  <2>1. ASSUME NEW ps \in Seq(JSPromiseData), NEW p \in DOMAIN ps, p \in Nat, SameWaits(promises, jobs, ps, jobs),
               PerformThen(ps, jobs, p, 0, g, h)
        PROVE  \E n : JoinsAt(p, n)
    <3>1. ps[p] \in JSPromiseData /\ 0 \in Nat /\ jobs \in Seq(JobData)
      BY <2>1, InvSeqs, Domain
    <3>2. \A e, q, m : Waits(promises', jobs', e, q, m) <=>
                   Waits(ps, jobs, e, q, m) \/ (q = p /\ m = ps[p].registered + 1 /\ g = Resume(e))
      BY ONLY <1>4, <2>1, <3>1, PerformWaits
    <3>3. JoinsAt(p, ps[p].registered + 1)
      BY <1>4, <2>1, <3>2 DEF SameWaits
    <3> HIDE DEF JoinsAt
    <3> QED BY <3>3
  <2>2. CASE v \in known /\ PerformThen(promises, jobs, v, 0, g, h)
    <3>1. v \in DOMAIN promises /\ v \in Nat
      BY <2>2, InvSeqs DEF Inv, Good, Types
    <3> HIDE DEF JoinsAt
    <3> QED BY <2>1, <2>2, <3>1, InvSeqs, SameItself
  <2>3. CASE PerformThen(made, jobs, Fresh, 0, g, h)
    <3>1. Ready \in JSPromiseData /\ Ready.reactions = <<>>
      BY PendingIs DEF Ready, Pending
    <3>2. made \in Seq(JSPromiseData) /\ Longer(promises, made, Ready) /\ SameWaits(promises, jobs, made, jobs)
      BY <3>1, InvSeqs, AppendIs, NewWaits
    <3> HIDE DEF made
    <3>3. Fresh \in DOMAIN made /\ Fresh \in Nat
      BY <3>2, InvSeqs DEF Longer, Fresh
    <3> HIDE DEF JoinsAt
    <3> QED BY <2>1, <2>3, <3>2, <3>3
  <2> QED BY <1>1, <2>2, <2>3
<1>6. PICK p, n : JoinsAt(p, n)
  <2> HIDE DEF JoinsAt
  <2> QED BY <1>5
<1>7. SUFFICES ASSUME NEW e \in DOMAIN pairs, pairs[e].async
               PROVE  Turn(promises', jobs', stack', pairs[e].resolved, e)
  BY <1>1 DEF Turns
<1>8. CASE e = f
  <2>1. \A q, m : Waits(promises', jobs', e, q, m) <=> q = p /\ m = n
    BY <1>2, <1>6, <1>8
  <2>2. ~pairs[e].resolved /\ \A i : ~RunsIn(stack', e, i)
    BY <1>1, <1>2, <1>8
  <2> QED BY <2>1, <2>2, IsWaiting
<1>9. CASE e # f
  <2>1. \A q, m : Waits(promises', jobs', e, q, m) <=> Waits(promises, jobs, e, q, m)
    BY <1>6, <1>9
  <2>2. \A i : RunsIn(stack', e, i) <=> RunsIn(stack, e, i)
    BY <1>1, <1>2, <1>9
  <2>3. Turn(promises, jobs, stack, pairs[e].resolved, e)
    BY <1>7 DEF Turns
  <2> QED BY <2>1, <2>2, <2>3, SameTurn
<1> QED BY <1>8, <1>9

\* The body comes to its end.
LEMMA BodyEnds ==
  ASSUME Inv, Turns, NEW rej \in BOOLEAN, NEW v \in Int,
         Top.call = "async", ResultToCapability(rej, v)
  PROVE  Turns'
<1> DEFINE f == Top.of
<1>1. stack # <<>> /\ CallCapability(jobs, Callers, f, rej, v)
  BY DEF ResultToCapability, Returns
<1>2. /\ f \in DOMAIN pairs /\ ~pairs[f].resolved
      /\ \A i : ~RunsIn(Callers, f, i)
      /\ \A p, n : ~Waits(promises, jobs, f, p, n)
      /\ \A e, i : e # f => (RunsIn(Callers, e, i) <=> RunsIn(stack, e, i))
      /\ Callers \in Seq(FrameData)
  BY <1>1, BodyOnTop
<1> HIDE DEF f
<1>3. SameRuns(Callers, stack') /\ SameWaits(promises, jobs, promises', jobs') /\ Consumes(f)
  BY <1>1, <1>2, InvSeqs, CapabilitySame
<1>4. pairs' = [pairs EXCEPT ![f] = Used(pairs[f])]
  <2>1. f # 0
    BY <1>2, InvSeqs
  <2> QED BY <1>2, <1>3, <2>1 DEF Consumes
<1>5. Used(pairs[f]).resolved
  BY <1>2, InvSeqs, UsedIs
<1>6. SUFFICES ASSUME NEW e \in DOMAIN pairs', pairs'[e].async
               PROVE  Turn(promises', jobs', stack', pairs'[e].resolved, e)
  BY DEF Turns
<1>7. \A q, m : Waits(promises', jobs', e, q, m) <=> Waits(promises, jobs, e, q, m)
  BY <1>3 DEF SameWaits
<1>8. \A i : RunsIn(stack', e, i) <=> RunsIn(Callers, e, i)
  BY <1>3 DEF SameRuns
<1>9. CASE e = f
  <2>1. pairs'[e].resolved
    BY <1>2, <1>4, <1>5, <1>9
  <2>2. (\A i : ~RunsIn(stack', e, i)) /\ (\A q, m : ~Waits(promises', jobs', e, q, m))
    BY <1>2, <1>7, <1>8, <1>9
  <2> QED BY <2>1, <2>2, IsOver
<1>10. CASE e # f
  <2>1. e \in DOMAIN pairs /\ pairs'[e] = pairs[e]
    BY <1>4, <1>10
  <2>2. Turn(promises, jobs, stack, pairs'[e].resolved, e)
    BY <1>6, <2>1 DEF Turns
  <2>3. \A i : RunsIn(stack', e, i) <=> RunsIn(stack, e, i)
    BY <1>2, <1>8, <1>10
  <2> QED BY <1>7, <2>2, <2>3, SameTurn
<1> QED BY <1>9, <1>10

LEMMA ReactionCallsProgramTurns ==
  ASSUME Inv, Turns, ReactionCallsProgram
  PROVE  Turns'
<1> DEFINE h == Job.handler
           f == h.of
           p == Job.promise
           n == Job.n
           fns == {"user", "asyncResolve", "asyncReject", "finally"}
           m == CASE h.fn = "user" -> Frame("handler", Job.cap)
                  [] h.fn = "finally" -> [call |-> "onFinally", of |-> Job.cap, rej |-> Job.rej, arg |-> Job.arg]
                  [] OTHER -> Frame("async", f)
<1>1. /\ IsReaction(fns) /\ stack' = <<m>> /\ jobs' = Rest /\ promises' = promises /\ pairs' = pairs
  BY DEF ReactionCallsProgram
<1>2. /\ stack = <<>> /\ h.fn \in fns /\ Job \in ReactionJobs
      /\ p \in DOMAIN promises /\ promises[p].state # "pending"
      /\ h.fn \in {"asyncResolve", "asyncReject"} => f \in DOMAIN pairs /\ pairs[f].async
  BY <1>1, ReactionBegins
<1>3. jobs # <<>>
  BY <1>1 DEF IsReaction
<1>4. /\ h \in Callables /\ f \in Nat /\ Job.cap \in Nat /\ Job.rej \in BOOLEAN /\ Job.arg \in Int
      /\ Job.job = "reaction" /\ n \in Nat
  BY <1>2 DEF ReactionJobs, Callables
<1>5. CASE h.fn \in {"user", "finally"}
  <2>1. m \in FrameData /\ m.call # "async"
    <3>1. CASE h.fn = "user"
      <4>1. m = Frame("handler", Job.cap)
        BY <3>1
      <4> HIDE DEF m
      <4> QED BY <1>4, <4>1 DEF Frame, FrameData, UserCalls, Plain
    <3>2. CASE h.fn = "finally"
      <4>1. m = [call |-> "onFinally", of |-> Job.cap, rej |-> Job.rej, arg |-> Job.arg]
        BY <3>2
      <4> HIDE DEF m
      <4> QED BY <1>4, <4>1 DEF FrameData, UserCalls
    <3> QED BY <1>5, <3>1, <3>2
  <2> HIDE DEF m
  <2>2. SameRuns(stack, stack')
    BY <1>1, <1>2, <2>1, OneQuiet
  <2>3. SameWaits(promises, jobs, promises', jobs')
    BY <1>1, <1>3, <1>5, RestQuiet
  <2> QED BY <1>1, <2>2, <2>3, StillQuiet, SameItself
<1>6. CASE h.fn \in {"asyncResolve", "asyncReject"}
  <2>1. m = Frame("async", f)
    BY <1>6
  <2>2. m \in FrameData /\ m.call = "async" /\ m.of = f
    BY <1>4, <2>1 DEF Frame, FrameData, UserCalls, Plain
  <2>3. h \in {Resume(f), ResumeThrow(f)}
    <3>1. JobOk(promises, pairs, combos, Job)
      <4>1. jobs \in Seq(JobData) /\ Refs(promises, pairs, combos, jobs, stack, held)
        BY InvSeqs DEF Inv, Good
      <4>2. 1 \in DOMAIN jobs /\ Head(jobs) = jobs[1]
        BY <1>3, <4>1, TailIs
      <4> QED BY <4>1, <4>2 DEF Refs, Job
    <3>2. Handler(promises, pairs, combos, p, Job.rej, h)
      BY <1>4, <3>1 DEF JobOk
    <3>3. \A c \in DOMAIN combos : Public(pairs, combos[c].cap) /\ combos[c].type \in CombinatorTypes
      BY Facts DEF Inv, Good, Refs, ComboData
    <3> HIDE DEF h
    <3>4. h = IF Job.rej THEN ResumeThrow(h.of) ELSE Resume(h.of)
      BY ONLY <1>6, <3>2, <3>3, HandlerCases
    <3> QED BY <3>4
  <2> HIDE DEF m
  <2>4. \A e, i : RunsIn(stack', e, i) <=> i = 1 /\ e = f
    BY <1>1, <1>2, <2>2, OneRuns
  <2>5. \A e, i : ~RunsIn(stack, e, i)
    BY <1>2 DEF RunsIn
  <2>6. \A e, q, k : Queued(jobs, e, q, k) <=>
                       Queued(Rest, e, q, k) \/ (p = q /\ n = k /\ h \in {Resume(e), ResumeThrow(e)})
    BY <1>3, <1>4, InvSeqs, HeadQueued DEF Job, Rest
  <2> HIDE DEF h, f
  <2>7. \A e : h \in {Resume(e), ResumeThrow(e)} <=> e = f
    BY <2>3, FnsDiffer
  <2>8. ~Queued(Rest, f, p, n)
    <3>1. /\ Shorter(jobs, Rest) /\ Job = jobs[1] /\ 1 \in DOMAIN jobs
          /\ DOMAIN jobs = 1..Len(jobs) /\ Len(jobs) \in Nat
      BY <1>3, InvSeqs, TailIs, LenProperties DEF Rest, Job
    <3>2. Ordered(promises[p], jobs, calls[p], p)
      BY <1>2 DEF Inv, Good
    <3>3. ASSUME NEW i \in DOMAIN Rest, Of(Rest, p, i), Rest[i].n = n PROVE FALSE
      <4>1. i + 1 \in DOMAIN jobs /\ jobs[i + 1] = Rest[i] /\ 1 < i + 1
        BY <3>1 DEF Shorter
      <4>2. Of(jobs, p, 1) /\ Of(jobs, p, i + 1)
        BY <1>4, <3>1, <3>3, <4>1 DEF Of
      <4>3. jobs[1].n < jobs[i + 1].n
        BY <1>2, <3>1, <3>2, <4>1, <4>2 DEF Ordered
      <4> QED BY <1>4, <3>1, <3>3, <4>1, <4>3
    <3> QED BY <3>3 DEF Queued
  <2>9. \A e, k : ~WaitsIn(promises[p], e, k)
    <3>1. PromiseOk(promises, pairs, combos, p)
      BY <1>2 DEF Inv, Good, Refs
    <3>2. DOMAIN promises[p].reactions = {}
      BY <1>2, <3>1 DEF PromiseOk
    <3> QED BY <3>2 DEF WaitsIn
  <2> HIDE DEF p, n
  <2>10. Turn(promises, jobs, stack, pairs[f].resolved, f)
    BY <1>2, <1>6 DEF Turns, f
  <2>11. Waits(promises, jobs, f, p, n)
    BY <2>6, <2>7 DEF Waits
  <2>12. ~pairs[f].resolved /\ \A q, k : Waits(promises, jobs, f, q, k) => q = p /\ k = n
    BY <2>5, <2>10, <2>11 DEF Turn
  <2>13. \A q, k : ~Waits(promises', jobs', f, q, k)
    <3>1. ASSUME NEW q, NEW k, Waits(promises, Rest, f, q, k) PROVE FALSE
      <4>1. Waits(promises, jobs, f, q, k)
        BY <2>6, <3>1 DEF Waits
      <4>2. q = p /\ k = n
        BY <2>12, <4>1
      <4> QED BY <2>8, <2>9, <3>1, <4>2 DEF Waits
    <3> QED BY <1>1, <3>1
  <2>14. SUFFICES ASSUME NEW e \in DOMAIN pairs, pairs[e].async
                  PROVE  Turn(promises', jobs', stack', pairs[e].resolved, e)
    BY <1>1 DEF Turns
  <2>15. CASE e = f
    <3>1. \A k : RunsIn(stack', e, k) <=> k = 1
      BY <2>4, <2>15
    <3>2. ~pairs[e].resolved /\ \A q, k : ~Waits(promises', jobs', e, q, k)
      BY <2>12, <2>13, <2>15
    <3> QED BY <3>1, <3>2, IsRunning
  <2>16. CASE e # f
    <3>1. \A k : RunsIn(stack', e, k) <=> RunsIn(stack, e, k)
      BY <2>4, <2>5, <2>16
    <3>2. \A q, k : Waits(promises', jobs', e, q, k) <=> Waits(promises, jobs, e, q, k)
      BY <1>1, <2>6, <2>7, <2>16 DEF Waits
    <3>3. Turn(promises, jobs, stack, pairs[e].resolved, e)
      BY <2>14 DEF Turns
    <3> QED BY <3>1, <3>2, <3>3, SameTurn
  <2> QED BY <2>15, <2>16
<1> QED BY <1>2, <1>5, <1>6

LEMMA TurnsFirst ==
  ASSUME Init
  PROVE  Turns
  BY DEF Init, Turns, NewPair

LEMMA ProgramTurns ==
  ASSUME Inv, Turns, Program
  PROVE  Turns'
<1>1. CASE Construct
  BY <1>1, ConstructTurns
<1>2. CASE CallAsync
  BY <1>2, CallAsyncTurns
<1>3. ASSUME NEW h \in held, NEW v \in IF h.fn = "resolve" THEN Given ELSE {Plain}, CallHeld(h, v) PROVE Turns'
  <2>1. v \in Given
    BY <1>3 DEF Given
  <2> QED BY <1>3, <2>1, CallHeldTurns
<1>4. Plain \in Values(promises)
  BY InvTypes
<1>5. ASSUME NEW p \in known, Finally(p) PROVE Turns'
  <2> DEFINE g == Fn("finally", 0, 0)
             h == Fn("finally", 0, 1)
  <2>1. g \in Callables /\ h \in Callables /\ g.fn = "finally" /\ h.fn = "finally" /\ g.at = 0 /\ h.at = 1
    BY DEF Fn, Callables, Simple
  <2>2. 0 \in Values(promises) /\ 1 \in Values(promises)
    <3>1. p \in 1..Len(promises) /\ Len(promises) \in Nat
      BY <1>5, InvTypes
    <3> QED BY <3>1 DEF Values, Collected
  <2>3. ThenOf(p, g, h)
    BY <1>5 DEF Finally
  <2> HIDE DEF g, h
  <2>4. Code(promises, g) /\ Code(promises, h)
    BY <2>1, <2>2 DEF Code, Simple
  <2> QED BY <2>1, <2>3, <2>4, ThenOfTurns
<1>6. /\ User \in Callables /\ Undefined \in Callables /\ Code(promises, User) /\ Code(promises, Undefined)
  <2>1. 0 \in Values(promises)
    BY <1>4 DEF Plain
  <2> QED BY <2>1 DEF User, Undefined, Fn, Callables, Simple, Code
<1>7. ASSUME NEW p \in known, ThenOf(p, User, Undefined) \/ ThenOf(p, Undefined, User) PROVE Turns'
  BY <1>6, <1>7, ThenOfTurns
<1>8. ASSUME NEW v, Await(v) PROVE Turns'
  BY <1>8, AwaitTurns
<1>9. ASSUME NEW type \in CombinatorTypes, Combine(type) PROVE Turns'
  BY <1>9, CombineTurns
<1> QED BY <1>1, <1>2, <1>3, <1>5, <1>7, <1>8, <1>9 DEF Program

LEMMA ReturnTurns ==
  ASSUME Inv, Turns, Return
  PROVE  Turns'
<1>1. CASE ScriptEnds \/ ResultDropped
  BY <1>1, DropTurns
<1>2. CASE NativeReturns \/ FinallyEnds \/ FinallyThrows(Plain)
  BY <1>2, EndTurns
<1>3. ASSUME NEW rej \in BOOLEAN, NEW v \in Given, rej => v = Plain, ResultToCapability(rej, v) PROVE Turns'
  <2>1. Top.call \in {"handler", "async"} /\ v \in Int
    BY <1>3, InvTypes DEF ResultToCapability, Returns, Values, Collected
  <2>2. CASE Top.call = "async"
    BY <1>3, <2>1, <2>2, BodyEnds
  <2>3. CASE Top.call = "handler"
    BY <1>3, <2>3, EndTurns
  <2> QED BY <2>1, <2>2, <2>3
<1>4. CASE Throws(Plain)
  BY <1>4, ThrowsTurns
<1>5. CASE ItemThrows(Plain)
  BY <1>5, ItemThrowsTurns
<1>6. CASE GetterThrows(Plain) \/ GetterGivesNoFunction \/ GetterGivesFunction
  BY <1>6, GetterTurns
<1>7. ASSUME NEW v \in known \cup {Plain}, FinallyReturns(v) PROVE Turns'
  BY <1>7, FinallyReturnsTurns
<1>8. Plain \in Given /\ TRUE \in BOOLEAN /\ FALSE \in BOOLEAN
  BY DEF Given
<1>9. ASSUME \E v \in Given : ResultToCapability(FALSE, v) PROVE Turns'
  BY <1>3, <1>8, <1>9
<1>10. ASSUME ResultToCapability(TRUE, Plain) PROVE Turns'
  BY <1>3, <1>8, <1>10
<1> QED BY <1>1, <1>2, <1>4, <1>5, <1>6, <1>7, <1>9, <1>10 DEF Return

LEMMA StepTurns ==
  ASSUME Inv, Turns, [Next]_vars
  PROVE  Turns'
<1>1. CASE UNCHANGED vars
  BY <1>1, StillQuiet, SameItself DEF vars
<1>2. CASE Combinator
  BY <1>2, ItemIsForeignTurns, ItemsEndTurns, ItemIsPromiseTurns DEF Combinator
<1>3. CASE RunJob
  BY <1>3, ReactionPassesTurns, ReactionCallsProgramTurns, ReactionCallsNativeTurns, ThenableIsPromiseTurns,
     ThenableIsForeignTurns DEF RunJob
<1> QED BY <1>1, <1>2, <1>3, ProgramTurns, ReturnTurns DEF Next

LEMMA ResumesOnceHolds ==
  ASSUME IInv, Turns
  PROVE  ResumesOnce
<1>1. SUFFICES ASSUME NEW f \in DOMAIN pairs, pairs[f].async
               PROVE  Resumptions(f) = IF pairs[f].resolved THEN 0 ELSE 1
  BY DEF ResumesOnce
<1> DEFINE A == {i \in DOMAIN stack : stack[i].call = "async" /\ stack[i].of = f}
           At(p) == {i \in DOMAIN promises[p].reactions : promises[p].reactions[i].onFul = Resume(f)}
           B == UNION {{p} \X At(p) : p \in Promises}
           C == {i \in DOMAIN jobs : jobs[i].job = "reaction" /\ jobs[i].handler \in {Resume(f), ResumeThrow(f)}}
<1>2. Resumptions(f) = Cardinality(A) + Cardinality(B) + Cardinality(C)
  BY DEF Resumptions
<1>3. Inv /\ Turn(promises, jobs, stack, pairs[f].resolved, f)
  BY <1>1 DEF IInv, Turns
<1>4. \A i : i \in A <=> RunsIn(stack, f, i)
  BY DEF RunsIn
<1>5. ASSUME NEW b \in B
      PROVE  \E p \in DOMAIN promises : \E i \in DOMAIN promises[p].reactions :
               /\ b = <<p, i>> /\ promises[p].state = "pending" /\ promises[p].reactions[i].onFul = Resume(f)
               /\ WaitsIn(promises[p], f, i)
  <2>1. PICK p \in Promises : b \in {p} \X At(p)
    BY <1>5
  <2>2. PICK i \in At(p) : b = <<p, i>>
    BY <2>1
  <2>3. p \in DOMAIN promises /\ PromiseOk(promises, pairs, combos, p) /\ Ordered(promises[p], jobs, calls[p], p)
    BY <1>3 DEF Promises, Inv, Good, Refs
  <2>4. promises[p].state = "pending"
    <3>1. promises[p].reactions # <<>>
      BY <2>2
    <3> QED BY <2>3, <3>1 DEF PromiseOk
  <2>5. promises[p].reactions[i].n = i
    BY <2>2, <2>3, <2>4 DEF Ordered
  <2> QED BY <2>2, <2>3, <2>4, <2>5 DEF WaitsIn
<1>6. ASSUME NEW i \in C
      PROVE  Of(jobs, jobs[i].promise, i) /\ Queued(jobs, f, jobs[i].promise, jobs[i].n)
  BY <1>6 DEF Queued, Of
<1>7. ASSUME NEW p, NEW n, Waits(promises, jobs, f, p, n)
      PROVE  B # {} \/ C # {}
  <2>1. CASE p \in DOMAIN promises /\ WaitsIn(promises[p], f, n)
    <3>1. PICK i \in DOMAIN promises[p].reactions : promises[p].reactions[i].onFul = Resume(f)
      BY <2>1 DEF WaitsIn
    <3>2. <<p, i>> \in {p} \X At(p)
      BY <3>1
    <3>3. <<p, i>> \in B
      BY <2>1, <3>2 DEF Promises
    <3> QED BY <3>3
  <2>2. CASE Queued(jobs, f, p, n)
    BY <2>2 DEF Queued, Of
  <2> QED BY <1>7, <2>1, <2>2 DEF Waits
<1> HIDE DEF A, B, C
<1>8. ASSUME \A p, n : ~Waits(promises, jobs, f, p, n) PROVE B = {} /\ C = {}
  <2>1. B = {}
    BY <1>5, <1>8 DEF Waits
  <2>2. C = {}
    BY <1>6, <1>8 DEF Waits
  <2> QED BY <2>1, <2>2
<1>9. Cardinality({}) = 0
  BY FS_EmptySet
<1>10. CASE pairs[f].resolved
  <2>1. A = {} /\ B = {} /\ C = {}
    BY <1>3, <1>4, <1>8, <1>10 DEF Turn
  <2> QED BY <1>2, <1>9, <1>10, <2>1
<1>11. CASE /\ ~pairs[f].resolved /\ (\E i : \A k : RunsIn(stack, f, k) <=> k = i)
            /\ \A p, n : ~Waits(promises, jobs, f, p, n)
  <2>1. PICK i : \A k : RunsIn(stack, f, k) <=> k = i
    BY <1>11
  <2>2. A = {i}
    BY <1>4, <2>1
  <2>3. B = {} /\ C = {}
    BY <1>8, <1>11
  <2>4. Cardinality(A) = 1
    BY <2>2, FS_Singleton
  <2> QED BY <1>2, <1>9, <1>11, <2>3, <2>4
<1>12. CASE /\ ~pairs[f].resolved /\ (\A i : ~RunsIn(stack, f, i))
            /\ \E p, n : \A q, m : Waits(promises, jobs, f, q, m) <=> q = p /\ m = n
  <2>1. PICK p, n : \A q, m : Waits(promises, jobs, f, q, m) <=> q = p /\ m = n
    BY <1>12
  <2>2. A = {}
    BY <1>4, <1>12
  <2>3. ASSUME NEW b \in B PROVE b = <<p, n>> /\ promises[p].state = "pending" /\ p \in DOMAIN promises
    <3>1. PICK q \in DOMAIN promises : \E i \in DOMAIN promises[q].reactions :
            b = <<q, i>> /\ promises[q].state = "pending" /\ WaitsIn(promises[q], f, i)
      BY <1>5
    <3>2. PICK i \in DOMAIN promises[q].reactions :
            b = <<q, i>> /\ promises[q].state = "pending" /\ WaitsIn(promises[q], f, i)
      BY <3>1
    <3>3. Waits(promises, jobs, f, q, i)
      BY <3>2 DEF Waits
    <3>4. q = p /\ i = n
      BY <2>1, <3>3
    <3> QED BY <3>2, <3>4
  <2>4. \A i \in C : Of(jobs, p, i) /\ jobs[i].n = n /\ i \in DOMAIN jobs
    BY <1>6, <2>1 DEF Waits, C
  <2>5. \A i \in C : p \in DOMAIN promises /\ Ordered(promises[p], jobs, calls[p], p)
    BY <1>3, <2>4 DEF Inv, Good, Refs, JobOk, Of
  <2>6. DOMAIN jobs \subseteq Int
    BY <1>3, InvSeqs, LenProperties
  <2>7. \A i \in C : promises[p].state # "pending"
    BY <2>4, <2>5 DEF Ordered
  <2>8. \A i, k \in C : i = k
    <3> SUFFICES ASSUME NEW i \in C, NEW k \in C, i < k PROVE FALSE
      BY <2>4, <2>6
    <3>1. jobs[i].n < jobs[k].n
      BY <2>4, <2>5, <2>7 DEF Ordered
    <3>2. jobs[i].n = n /\ jobs[k].n = n /\ jobs[i].n \in Nat
      <4>1. jobs[i] \in ReactionJobs
        BY <1>3, <2>4, InvSeqs, Domain DEF Of, JobData, ThenableJobs
      <4> QED BY <2>4, <4>1 DEF ReactionJobs
    <3> QED BY <3>1, <3>2
  <2>9. B = {} \/ C = {}
    BY <2>3, <2>7
  <2>10. B # {} \/ C # {}
    BY <1>7, <2>1
  <2>11. Cardinality(B) = (IF B = {} THEN 0 ELSE 1) /\ Cardinality(C) = (IF C = {} THEN 0 ELSE 1)
    <3>1. \A a, b \in B : a = b
      BY <2>3
    <3> QED BY <2>8, <3>1, AtMostOne
  <2> QED BY <1>2, <1>9, <1>12, <2>2, <2>9, <2>10, <2>11
<1> QED BY <1>3, <1>10, <1>11, <1>12 DEF Turn

\* An async function that has not come to its end runs, waits for one
\* promise, or is resumed by one job, and never two of these.
THEOREM ResumedOnce == Spec => []ResumesOnce
<1>1. Init => Turns
  BY TurnsFirst
<1>2. IInv /\ Turns /\ [Next]_vars => Turns'
  BY StepTurns DEF IInv
<1>3. IInv /\ Turns => ResumesOnce
  BY ResumesOnceHolds
<1> QED BY <1>1, <1>2, <1>3, InvariantAlways, PTL DEF Spec
=============================================================================
