----------------------------- MODULE AsyncProofs -----------------------------
(***************************************************************************)
(* What stands on promises.  First the combinators, all, allSettled and    *)
(* any, on the invariant of PromiseJobsProofs: for any number of items and *)
(* whatever calls their functions, they count right and give their values  *)
(* when every item has answered.  Then asynchronous generators, for any    *)
(* number of requests and awaits: each request gets its own answer, once   *)
(* and in order.                                                           *)
(***************************************************************************)
EXTENDS PromiseJobsProofs, AsyncGenerator

(***************************************************************************)
(* The combinators.  What is left to come for an item of allSettled is a   *)
(* reaction that waits or a job that is queued, and the invariant Gathers  *)
(* says of the one combinator what it counted, what it waits for, and that *)
(* nothing holds its value before it is over.                              *)
(***************************************************************************)

\* Reaction n on p has the handlers g and h, and waits, or is queued.
RegisteredBy(s, g, n) == \E i \in DOMAIN s.reactions : s.reactions[i].n = n /\ s.reactions[i].onFul = g
QueuedBy(js, g, h, p, n) == \E i \in DOMAIN js : Of(js, p, i) /\ js[i].n = n /\ js[i].handler \in {g, h}
Expects(ps, js, g, h, p, n) == (p \in DOMAIN ps /\ RegisteredBy(ps[p], g, n)) \/ QueuedBy(js, g, h, p, n)

\* g and h only occur as the two handlers of one reaction.
Together(a, b, g, h) == (a = g <=> b = h) /\ a # h /\ b # g
AllTogether(ps, g, h) ==
  \A p \in DOMAIN ps : \A i \in DOMAIN ps[p].reactions :
    Together(ps[p].reactions[i].onFul, ps[p].reactions[i].onRej, g, h)

-----------------------------------------------------------------------------
El(c, i) == Fn("element", c, i)
RejEl(c, i) == Fn("rejectElement", c, i)
Settling == {c \in DOMAIN combos : combos[c].type = "allSettled"}
BothCalled(e) == \E i \in e.foreign : {<<"element", i>>, <<"rejectElement", i>>} \subseteq e.called
Twice(e) == e.type = "allSettled" /\ BothCalled(e)
Over(st, c, e) == (~Loops(st, c) /\ e.answered = 1..e.n) \/ Twice(e)

\* What a combinator has counted, and what is left while it is not settled.
Answering(e) ==
  /\ e.answered = {x[2] : x \in e.called}
  /\ e.type # "allSettled" => \A x \in e.called : x[1] = "element"
  /\ \A i \in (1..e.n) \ e.foreign : ~(<<"element", i>> \in e.called /\ <<"rejectElement", i>> \in e.called)
Left(e, resolved, loops) ==
  e.type # "race" /\ ~resolved =>
    e.remaining > 0 /\ e.remaining = e.n - Cardinality(e.called) + (IF loops THEN 1 ELSE 0)

\* An item of allSettled is expected once, and then not yet answered.
ItemOnce(ps, js, e, c, i) ==
  \/ \A p, n : ~Expects(ps, js, El(c, i), RejEl(c, i), p, n)
  \/ /\ i \notin e.answered
     /\ \E p, n : \A q, m : Expects(ps, js, El(c, i), RejEl(c, i), q, m) <=> q = p /\ m = n

\* Nothing holds the value of a combinator.
CleanPromises(ps) == \A p \in DOMAIN ps :
  /\ ps[p].result # Collected
  /\ \A i \in DOMAIN ps[p].reactions :
       ps[p].reactions[i].onFul.at # Collected /\ ps[p].reactions[i].onRej.at # Collected
CleanJobs(js) == \A i \in DOMAIN js :
  js[i].arg # Collected /\ (js[i].job = "reaction" => js[i].handler.at # Collected)
CleanStack(st) == \A i \in DOMAIN st : st[i].arg # Collected
Clean(ps, js, st) == CleanPromises(ps) /\ CleanJobs(js) /\ CleanStack(st)

Counting ==
  \A c \in DOMAIN combos :
    /\ Answering(combos[c])
    /\ Left(combos[c], pairs[combos[c].cap].resolved, Loops(stack, c))
ItemsOnce == \A c \in Settling : \A i \in Native(combos, c) : ItemOnce(promises, jobs, combos[c], c, i)
Spread ==
  Clean(promises, jobs, stack) \/ (combos # <<>> /\ \A c \in DOMAIN combos : Over(stack, c, combos[c]))
Gathers == Len(combos) <= 1 /\ Counting /\ ItemsOnce /\ Spread

-----------------------------------------------------------------------------
(* What registering, queueing and taking a job does to what an item expects. *)

LEMMA QueuedByInTwo ==
  ASSUME NEW js \in Seq(JobData), NEW u \in Seq(JobData), NEW g, NEW h, NEW p, NEW n
  PROVE  QueuedBy(js \o u, g, h, p, n) <=> QueuedBy(js, g, h, p, n) \/ QueuedBy(u, g, h, p, n)
<1> DEFINE ks == js \o u
<1>1. /\ Joined(js, u, ks) /\ Len(js) \in Nat /\ DOMAIN js = 1..Len(js)
      /\ Len(u) \in Nat /\ DOMAIN u = 1..Len(u)
  BY ConcatIs, LenProperties
<1> HIDE DEF ks
<1>2. /\ \A i \in DOMAIN js : i \in DOMAIN ks /\ ks[i] = js[i]
      /\ \A i \in DOMAIN u : Len(js) + i \in DOMAIN ks /\ ks[Len(js) + i] = u[i]
  BY <1>1 DEF Joined
<1>3. ASSUME NEW i \in DOMAIN ks
      PROVE  \/ i \in DOMAIN js /\ ks[i] = js[i]
             \/ i - Len(js) \in DOMAIN u /\ ks[i] = u[i - Len(js)]
  <2>1. i \in 1..(Len(js) + Len(u))
    BY <1>1 DEF Joined
  <2>2. CASE i \in DOMAIN js
    BY <1>2, <2>2
  <2>3. CASE i \notin DOMAIN js
    <3>1. i - Len(js) \in 1..Len(u) /\ Len(js) + (i - Len(js)) = i
      BY <1>1, <2>1, <2>3
    <3> QED BY <1>1, <1>2, <3>1
  <2> QED BY <2>2, <2>3
<1>4. QueuedBy(js, g, h, p, n) => QueuedBy(ks, g, h, p, n)
  BY <1>2 DEF QueuedBy, Of
<1>5. QueuedBy(u, g, h, p, n) => QueuedBy(ks, g, h, p, n)
  BY <1>2 DEF QueuedBy, Of
<1>6. QueuedBy(ks, g, h, p, n) => QueuedBy(js, g, h, p, n) \/ QueuedBy(u, g, h, p, n)
  BY <1>3 DEF QueuedBy, Of
<1> QED BY <1>4, <1>5, <1>6 DEF ks

LEMMA QueuedByLast ==
  ASSUME NEW js \in Seq(JobData), NEW j \in JobData, NEW g, NEW h, NEW p, NEW n
  PROVE  QueuedBy(Append(js, j), g, h, p, n) <=>
           QueuedBy(js, g, h, p, n) \/ (/\ j.job = "reaction" /\ j.promise = p /\ j.n = n
                                   /\ j.handler \in {g, h})
<1> DEFINE ks == Append(js, j)
<1>1. Longer(js, ks, j) /\ Len(js) \in Nat /\ DOMAIN js = 1..Len(js)
  BY AppendIs, LenProperties
<1> HIDE DEF ks
<1>2. /\ \A i \in DOMAIN js : i \in DOMAIN ks /\ ks[i] = js[i]
      /\ Len(js) + 1 \in DOMAIN ks /\ ks[Len(js) + 1] = j
      /\ \A i \in DOMAIN ks : i \in DOMAIN js \/ i = Len(js) + 1
  BY <1>1 DEF Longer
<1> QED BY <1>2 DEF QueuedBy, Of, ks

LEMMA QueuedByHead ==
  ASSUME NEW js \in Seq(JobData), js # <<>>, NEW g, NEW h, NEW p, NEW n
  PROVE  QueuedBy(js, g, h, p, n) <=>
           QueuedBy(Tail(js), g, h, p, n) \/ (/\ Head(js).job = "reaction" /\ Head(js).promise = p /\ Head(js).n = n
                                         /\ Head(js).handler \in {g, h})
<1> DEFINE ks == Tail(js)
<1>1. /\ Shorter(js, ks) /\ Head(js) = js[1] /\ 1 \in DOMAIN js /\ DOMAIN js = 1..Len(js) /\ Len(js) \in Nat
  BY TailIs, LenProperties
<1> HIDE DEF ks
<1>2. /\ \A i \in DOMAIN ks : i + 1 \in DOMAIN js /\ js[i + 1] = ks[i]
      /\ \A i \in DOMAIN js : i = 1 \/ (i - 1 \in DOMAIN ks /\ ks[i - 1] = js[i])
  <2>1. \A i \in DOMAIN ks : i + 1 \in DOMAIN js /\ js[i + 1] = ks[i]
    BY <1>1 DEF Shorter
  <2>2. ASSUME NEW i \in DOMAIN js, i # 1 PROVE i - 1 \in DOMAIN ks /\ ks[i - 1] = js[i]
    <3>1. i - 1 \in 1..(Len(js) - 1) /\ (i - 1) + 1 = i
      BY <1>1, <2>2
    <3> QED BY <1>1, <3>1 DEF Shorter
  <2> QED BY <2>1, <2>2
<1> QED BY <1>1, <1>2 DEF QueuedBy, Of, ks

\* Reactions that are queued are still expected.
LEMMA SettleExpects ==
  ASSUME Inv, NEW js \in Seq(JobData), NEW p \in DOMAIN promises, NEW rej \in BOOLEAN, NEW v \in Int,
         Settle(js, p, rej, v), NEW g, NEW h, AllTogether(promises, g, h)
  PROVE  \A q, n : Expects(promises', jobs', g, h, q, n) <=> Expects(promises, js, g, h, q, n)
<1> DEFINE s == promises[p]
           u == Reactions(s, p, rej, v)
<1>1. /\ Len(promises) \in Nat /\ DOMAIN promises = 1..Len(promises) /\ s \in JSPromiseData
      /\ p \in Nat
  <2>1. Types(promises, pairs, combos, jobs, stack, known, held, calls)
    BY DEF Inv, Good
  <2> QED BY <2>1, Facts
<1>2. promises' = [promises EXCEPT ![p] = Outcome(s, rej, v)] /\ jobs' = js \o u
  <2>1. /\ promises' = [promises EXCEPT ![p] = Outcome(promises[p], rej, v)]
        /\ jobs' = js \o Reactions(promises[p], p, rej, v)
    BY DEF Settle, Outcome, Reactions
  <2> QED BY <2>1
<1>3. Outcome(s, rej, v).reactions = <<>>
  BY <1>1, OutcomeIs
<1>4. /\ u \in Seq(JobData) /\ DOMAIN u = DOMAIN s.reactions
      /\ \A i \in DOMAIN u :
           /\ u[i].job = "reaction" /\ u[i].promise = p /\ u[i].n = s.reactions[i].n
           /\ u[i].handler = IF rej THEN s.reactions[i].onRej ELSE s.reactions[i].onFul
  BY <1>1, ReactionsIs
<1>5. \A i \in DOMAIN u : Together(s.reactions[i].onFul, s.reactions[i].onRej, g, h)
  BY <1>4 DEF AllTogether
<1> HIDE DEF u
<1>6. \A i \in DOMAIN u : u[i].handler \in {g, h} <=> s.reactions[i].onFul = g
  BY <1>4, <1>5 DEF Together
<1>7. \A n : QueuedBy(u, g, h, p, n) <=> RegisteredBy(s, g, n)
  BY <1>4, <1>6 DEF QueuedBy, Of, RegisteredBy
<1>8. \A q, n : q # p => ~QueuedBy(u, g, h, q, n)
  BY <1>4 DEF QueuedBy, Of
<1>9. \A q, n : QueuedBy(jobs', g, h, q, n) <=> QueuedBy(js, g, h, q, n) \/ QueuedBy(u, g, h, q, n)
  BY <1>2, <1>4, QueuedByInTwo
<1>10. \A n : ~RegisteredBy(promises'[p], g, n)
  <2>1. promises'[p].reactions = <<>> /\ DOMAIN <<>> = {}
    BY <1>2, <1>3
  <2> QED BY <2>1 DEF RegisteredBy
<1>11. DOMAIN promises' = DOMAIN promises /\ \A q \in DOMAIN promises : q # p => promises'[q] = promises[q]
  BY <1>2
<1> HIDE DEF s
<1>12. ASSUME NEW q, NEW n PROVE Expects(promises', jobs', g, h, q, n) <=> Expects(promises, js, g, h, q, n)
  <2>1. CASE q = p
    BY <1>7, <1>9, <1>10, <1>11, <2>1 DEF Expects, s
  <2>2. CASE q # p
    BY <1>8, <1>9, <1>11, <2>2 DEF Expects
  <2> QED BY <2>1, <2>2
<1> QED BY <1>12

\* One that is registered on p is expected, if its handler is g.
LEMMA PerformExpects ==
  ASSUME NEW ps, NEW js \in Seq(JobData), NEW p \in Nat, p \in DOMAIN ps, ps[p] \in JSPromiseData,
         NEW cap \in Nat, NEW a \in Callables, NEW b \in Callables, NEW g, NEW h, Together(a, b, g, h),
         PerformThen(ps, js, p, cap, a, b)
  PROVE  \A q, n : Expects(promises', jobs', g, h, q, n) <=>
           Expects(ps, js, g, h, q, n) \/ (q = p /\ n = ps[p].registered + 1 /\ a = g)
<1> DEFINE s == ps[p]
           r == Reaction(s, cap, a, b)
<1>1. r \in ReactionData /\ r.onFul = a /\ r.onRej = b /\ r.n = s.registered + 1
  BY ReactionIs
<1>2. s.reactions \in Seq(ReactionData) /\ s.registered \in Nat /\ s.result \in Int
  BY DEF JSPromiseData
<1> DEFINE k == s.registered + 1
<1>3. CASE s.state = "pending"
  <2>1. promises' = [ps EXCEPT ![p] = Waiting(s, r)] /\ jobs' = js
    BY <1>3 DEF PerformThen, Waiting, Seen, Reaction
  <2>2. Waiting(s, r).reactions = Append(s.reactions, r)
    BY <1>1, WaitingIs
  <2>3. Longer(s.reactions, Append(s.reactions, r), r) /\ Len(s.reactions) \in Nat /\ DOMAIN s.reactions = 1..Len(s.reactions)
    BY <1>1, <1>2, AppendIs, LenProperties
  <2> DEFINE rs == Append(s.reactions, r)
  <2>4. /\ \A i \in DOMAIN s.reactions : i \in DOMAIN rs /\ rs[i] = s.reactions[i]
        /\ Len(s.reactions) + 1 \in DOMAIN rs /\ rs[Len(s.reactions) + 1] = r
        /\ \A i \in DOMAIN rs : i \in DOMAIN s.reactions \/ i = Len(s.reactions) + 1
    <3> HIDE DEF rs
    <3> QED BY <2>3 DEF Longer, rs
  <2>5. promises'[p].reactions = rs
    BY <2>1, <2>2
  <2> HIDE DEF rs, r, s
  <2>6. \A n : RegisteredBy(promises'[p], g, n) <=> RegisteredBy(s, g, n) \/ (n = r.n /\ a = g)
    BY <1>1, <2>4, <2>5 DEF RegisteredBy
  <2>7. DOMAIN promises' = DOMAIN ps /\ \A q \in DOMAIN ps : q # p => promises'[q] = ps[q]
    BY <2>1
  <2>8. ASSUME NEW q, NEW n
        PROVE  Expects(promises', jobs', g, h, q, n) <=>
                 Expects(ps, js, g, h, q, n) \/ (q = p /\ n = s.registered + 1 /\ a = g)
    <3>1. CASE q = p
      BY <1>1, <2>1, <2>6, <2>7, <3>1 DEF Expects, s
    <3>2. CASE q # p
      BY <2>1, <2>7, <3>2 DEF Expects
    <3> QED BY <3>1, <3>2
  <2> QED BY <2>8 DEF s
<1>4. CASE s.state # "pending"
  <2> DEFINE j == ReactionJob(p, r, s.state = "rejected", s.result)
  <2>1. promises' = [ps EXCEPT ![p] = Handled(s)] /\ jobs' = Append(js, j)
    BY <1>4 DEF PerformThen, Handled, Seen, Reaction
  <2>2. Handled(s).reactions = s.reactions
    BY HandledIs
  <2>3. /\ j \in JobData /\ j.job = "reaction" /\ j.promise = p /\ j.n = r.n
        /\ j.handler = IF s.state = "rejected" THEN r.onRej ELSE r.onFul
    <3> DEFINE rej == s.state = "rejected"
    <3>1. rej \in BOOLEAN
      OBVIOUS
    <3>2. j = ReactionJob(p, r, rej, s.result)
      OBVIOUS
    <3> HIDE DEF j, r, s, rej
    <3>3. /\ j \in JobData /\ j.job = "reaction" /\ j.promise = p /\ j.n = r.n
          /\ j.handler = IF rej THEN r.onRej ELSE r.onFul
      BY <1>1, <1>2, <3>1, <3>2, ReactionJobIs
    <3> QED BY <3>3 DEF rej
  <2>4. /\ DOMAIN promises' = DOMAIN ps /\ \A q \in DOMAIN ps : q # p => promises'[q] = ps[q]
        /\ promises'[p].reactions = s.reactions
    BY <2>1, <2>2
  <2> HIDE DEF j, r, s
  <2>5. j.handler \in {g, h} <=> a = g
    BY <1>1, <2>3 DEF Together
  <2>6. \A q, n : QueuedBy(jobs', g, h, q, n) <=> QueuedBy(js, g, h, q, n) \/ (q = p /\ n = r.n /\ a = g)
    BY <2>1, <2>3, <2>5, QueuedByLast
  <2>7. ASSUME NEW q, NEW n
        PROVE  Expects(promises', jobs', g, h, q, n) <=>
                 Expects(ps, js, g, h, q, n) \/ (q = p /\ n = s.registered + 1 /\ a = g)
    <3>1. CASE q = p
      BY <1>1, <2>4, <2>6, <3>1 DEF Expects, s, RegisteredBy
    <3>2. CASE q # p
      BY <2>4, <2>6, <3>2 DEF Expects
    <3> QED BY <3>1, <3>2
  <2> QED BY <2>7 DEF s
<1> QED BY <1>3, <1>4

LEMMA NewExpects ==
  ASSUME NEW ps \in Seq(JSPromiseData), NEW s \in JSPromiseData, s.reactions = <<>>, NEW js, NEW g, NEW h
  PROVE  \A p, n : Expects(Append(ps, s), js, g, h, p, n) <=> Expects(ps, js, g, h, p, n)
<1> DEFINE qs == Append(ps, s)
<1>1. Longer(ps, qs, s) /\ DOMAIN ps = 1..Len(ps) /\ Len(ps) \in Nat
  BY AppendIs, LenProperties
<1> HIDE DEF qs
<1>2. /\ \A i \in DOMAIN ps : i \in DOMAIN qs /\ qs[i] = ps[i]
      /\ \A i \in DOMAIN qs : i \in DOMAIN ps \/ qs[i] = s
  BY <1>1 DEF Longer
<1>3. \A n : ~RegisteredBy(s, g, n)
  <2>1. DOMAIN s.reactions = {}
    OBVIOUS
  <2> QED BY <2>1 DEF RegisteredBy
<1> QED BY <1>2, <1>3 DEF Expects, qs

-----------------------------------------------------------------------------
(* The parts that most actions are made of leave what the items expect. *)

LEMMA ElementsDiffer ==
  /\ \A c, i, d, k : (El(c, i) = El(d, k) <=> c = d /\ i = k) /\ (RejEl(c, i) = RejEl(d, k) <=> c = d /\ i = k)
  /\ \A c, i, d, k : El(c, i) # RejEl(d, k)
  /\ \A c, i : El(c, i).fn = "element" /\ El(c, i).of = c /\ El(c, i).at = i
  /\ \A c, i : RejEl(c, i).fn = "rejectElement" /\ RejEl(c, i).of = c /\ RejEl(c, i).at = i
  BY DEF El, RejEl, Fn

\* Both handlers of a reaction are those of one item of allSettled, or none.
LEMMA HandlersTogether ==
  ASSUME NEW ps, NEW prs, NEW cbs, NEW q, NEW a, NEW b, Handlers(ps, prs, cbs, q, a, b),
         NEW c \in DOMAIN cbs, cbs[c].type = "allSettled", NEW i
  PROVE  Together(a, b, El(c, i), RejEl(c, i))
<1>1. CASE Code(ps, a) /\ Code(ps, b)
  BY <1>1, ElementsDiffer DEF Code, Simple, Together
<1>2. CASE \E f \in DOMAIN prs : prs[f].async /\ a = Resume(f) /\ b = ResumeThrow(f)
  BY <1>2, ElementsDiffer, FnsDiffer DEF Together
<1>3. CASE \E f \in DOMAIN prs : prs[f].follows = q /\ a = Fn("resolve", f, 0) /\ b = Fn("reject", f, 0)
  <2>1. a.fn = "resolve" /\ b.fn = "reject"
    BY <1>3 DEF Fn
  <2> QED BY <2>1, ElementsDiffer DEF Together
<1>4. CASE \E d \in DOMAIN cbs : \E k \in Native(cbs, d) : a = Ful(cbs, d, k) /\ b = Rej(cbs, d, k)
  <2>1. PICK d \in DOMAIN cbs : \E k \in Native(cbs, d) : a = Ful(cbs, d, k) /\ b = Rej(cbs, d, k)
    BY <1>4
  <2>2. PICK k \in Native(cbs, d) : a = Ful(cbs, d, k) /\ b = Rej(cbs, d, k)
    BY <2>1
  <2>3. CASE cbs[d].type = "allSettled"
    <3>1. a = El(d, k) /\ b = RejEl(d, k)
      BY <2>2, <2>3 DEF Ful, Rej, El, RejEl
    <3> QED BY <3>1, ElementsDiffer DEF Together
  <2>4. CASE cbs[d].type # "allSettled"
    <3>1. a.fn = "resolve" \/ a = El(d, k)
      BY <2>2 DEF Ful, El, Fn
    <3>2. b.fn = "reject" \/ b = El(d, k)
      BY <2>2, <2>4 DEF Rej, El, Fn
    <3> QED BY <2>4, <3>1, <3>2, ElementsDiffer DEF Together
  <2> QED BY <2>3, <2>4
<1> QED BY <1>1, <1>2, <1>3, <1>4 DEF Handlers

LEMMA ItemsTogether ==
  ASSUME Inv, NEW c \in Settling, NEW i
  PROVE  AllTogether(promises, El(c, i), RejEl(c, i))
<1>1. ASSUME NEW p \in DOMAIN promises, NEW k \in DOMAIN promises[p].reactions
      PROVE  Together(promises[p].reactions[k].onFul, promises[p].reactions[k].onRej, El(c, i), RejEl(c, i))
  <2>1. ReactionOk(promises, pairs, combos, p, promises[p].reactions[k])
    BY DEF Inv, Good, Refs, PromiseOk
  <2> QED BY <2>1, HandlersTogether DEF ReactionOk, Settling
<1> QED BY <1>1 DEF AllTogether

\* Only native items are expected.
LEMMA ExpectedIsNative ==
  ASSUME Inv, NEW c \in Settling, NEW i, NEW p, NEW n, Expects(promises, jobs, El(c, i), RejEl(c, i), p, n)
  PROVE  i \in Native(combos, c)
<1>1. /\ Refs(promises, pairs, combos, jobs, stack, held)
      /\ \A d \in DOMAIN combos : Public(pairs, combos[d].cap) /\ combos[d].type \in CombinatorTypes
  BY Facts DEF Inv, Good, Refs, ComboData
<1>2. CASE p \in DOMAIN promises /\ RegisteredBy(promises[p], El(c, i), n)
  <2>1. PICK k \in DOMAIN promises[p].reactions : promises[p].reactions[k].onFul = El(c, i)
    BY <1>2 DEF RegisteredBy
  <2>2. ReactionOk(promises, pairs, combos, p, promises[p].reactions[k])
    BY <1>1, <1>2 DEF Refs, PromiseOk
  <2> DEFINE g == promises[p].reactions[k].onFul
             h == promises[p].reactions[k].onRej
  <2>3. Handlers(promises, pairs, combos, p, g, h)
    BY <2>2 DEF ReactionOk
  <2> HIDE DEF g, h
  <2>4. FALSE \in BOOLEAN /\ Handler(promises, pairs, combos, p, FALSE, g)
    BY <2>3, HandlersHandle
  <2>5. g.fn \in {"element", "rejectElement"} => g.at \in Native(combos, g.of)
    BY ONLY <1>1, <2>4, HandlerCases
  <2> QED BY <2>1, <2>5, ElementsDiffer DEF g
<1>3. CASE QueuedBy(jobs, El(c, i), RejEl(c, i), p, n)
  <2>1. PICK k \in DOMAIN jobs : Of(jobs, p, k) /\ jobs[k].handler \in {El(c, i), RejEl(c, i)}
    BY <1>3 DEF QueuedBy
  <2> DEFINE j == jobs[k]
  <2>2. Handler(promises, pairs, combos, j.promise, j.rej, j.handler)
    BY <1>1, <2>1 DEF Refs, JobOk, Of
  <2>3. j.handler.fn \in {"element", "rejectElement"} /\ j.handler.of = c /\ j.handler.at = i
    BY <2>1, ElementsDiffer
  <2> HIDE DEF j
  <2>4. j.handler.at \in Native(combos, j.handler.of)
    BY ONLY <1>1, <2>2, <2>3, HandlerCases
  <2> QED BY <2>3, <2>4
<1> QED BY <1>2, <1>3 DEF Expects

-----------------------------------------------------------------------------
(* Parts of a step that leave combinators alone.                           *)

\* The same items of allSettled are expected; the same loops are in progress.
SameItems(ps, js, qs, ks) ==
  \A c \in Settling : \A i, p, n :
    Expects(qs, ks, El(c, i), RejEl(c, i), p, n) <=> Expects(ps, js, El(c, i), RejEl(c, i), p, n)
SameLoops(st, su) == \A c : Loops(su, c) <=> Loops(st, c)

LEMMA LeadsItself ==
  /\ \A ps, js : SameItems(ps, js, ps, js)
  /\ \A st : SameLoops(st, st)
  BY DEF SameItems, SameLoops

LEMMA SameItemsTwice ==
  ASSUME NEW ps, NEW js, NEW qs, NEW ks, NEW us, NEW ls, SameItems(ps, js, qs, ks), SameItems(qs, ks, us, ls)
  PROVE  SameItems(ps, js, us, ls)
  BY DEF SameItems

LEMMA SameLoopsTwice ==
  ASSUME NEW st, NEW su, NEW sv, SameLoops(st, su), SameLoops(su, sv)
  PROVE  SameLoops(st, sv)
  BY DEF SameLoops

LEMMA PopLeads ==
  ASSUME NEW st \in Seq(FrameData), st # <<>>
  PROVE  /\ st[Len(st)].call # "all" => SameLoops(st, SubSeq(st, 1, Len(st) - 1))
         /\ CleanStack(st) => st[Len(st)].arg # Collected /\ CleanStack(SubSeq(st, 1, Len(st) - 1))
<1> DEFINE su == SubSeq(st, 1, Len(st) - 1)
<1>1. Front(st, su) /\ DOMAIN st = 1..Len(st) /\ Len(st) \in DOMAIN st
  BY FrontIs, LenProperties
<1> HIDE DEF su
<1>2. /\ \A i : i \in DOMAIN su <=> i \in DOMAIN st /\ i # Len(st)
      /\ \A i \in DOMAIN su : su[i] = st[i]
  BY <1>1 DEF Front
<1>3. st[Len(st)].call # "all" => SameLoops(st, su)
  BY <1>2 DEF SameLoops, Loops
<1>4. CleanStack(st) => st[Len(st)].arg # Collected /\ CleanStack(su)
  BY <1>1, <1>2 DEF CleanStack
<1> QED BY <1>3, <1>4 DEF su

LEMMA PushLeads ==
  ASSUME NEW st \in Seq(FrameData), NEW m \in FrameData
  PROVE  /\ m.call # "all" => SameLoops(st, Append(st, m))
         /\ CleanStack(st) /\ m.arg # Collected => CleanStack(Append(st, m))
<1> DEFINE su == Append(st, m)
<1>1. Longer(st, su, m) /\ DOMAIN st = 1..Len(st) /\ Len(st) \in Nat
  BY AppendIs, LenProperties
<1> HIDE DEF su
<1>2. /\ \A i \in DOMAIN st : i \in DOMAIN su /\ su[i] = st[i]
      /\ \A i \in DOMAIN su : i \in DOMAIN st \/ su[i] = m
  BY <1>1 DEF Longer
<1>3. m.call # "all" => SameLoops(st, su)
  BY <1>2 DEF SameLoops, Loops
<1>4. CleanStack(st) /\ m.arg # Collected => CleanStack(su)
  BY <1>2 DEF CleanStack
<1> QED BY <1>3, <1>4 DEF su

IsElement(h) == h.fn \in {"element", "rejectElement"}

LEMMA TailLeads ==
  ASSUME NEW ps, NEW js \in Seq(JobData), js # <<>>
  PROVE  /\ (Head(js).job = "reaction" => ~IsElement(Head(js).handler)) => SameItems(ps, js, ps, Tail(js))
         /\ CleanJobs(js) =>
              /\ Head(js).arg # Collected /\ CleanJobs(Tail(js))
              /\ Head(js).job = "reaction" => Head(js).handler.at # Collected
<1>1. ASSUME Head(js).job = "reaction" => ~IsElement(Head(js).handler)
      PROVE  SameItems(ps, js, ps, Tail(js))
  <2> SUFFICES ASSUME NEW c, NEW i, NEW p, NEW n
               PROVE  QueuedBy(js, El(c, i), RejEl(c, i), p, n) <=> QueuedBy(Tail(js), El(c, i), RejEl(c, i), p, n)
    BY DEF SameItems, Expects
  <2>1. ~(Head(js).job = "reaction" /\ Head(js).handler \in {El(c, i), RejEl(c, i)})
    BY <1>1, ElementsDiffer DEF IsElement
  <2> DEFINE g == El(c, i)
             h == RejEl(c, i)
  <2>2. ~(Head(js).job = "reaction" /\ Head(js).handler \in {g, h})
    BY <2>1
  <2> HIDE DEF g, h
  <2>3. QueuedBy(js, g, h, p, n) <=> QueuedBy(Tail(js), g, h, p, n)
    BY <2>2, QueuedByHead
  <2> QED BY <2>3 DEF g, h
<1>2. Shorter(js, Tail(js)) /\ DOMAIN js = 1..Len(js) /\ Len(js) \in Nat /\ Head(js) = js[1] /\ 1 \in DOMAIN js
  BY TailIs, LenProperties
<1> DEFINE ks == Tail(js)
<1>3. \A i \in DOMAIN ks : i + 1 \in DOMAIN js /\ js[i + 1] = ks[i]
  <2>1. Shorter(js, ks)
    BY <1>2
  <2> HIDE DEF ks
  <2> QED BY <1>2, <2>1 DEF Shorter
<1> HIDE DEF ks
<1>4. CleanJobs(js) =>
        /\ Head(js).arg # Collected /\ CleanJobs(ks)
        /\ Head(js).job = "reaction" => Head(js).handler.at # Collected
  BY <1>2, <1>3 DEF CleanJobs
<1> QED BY <1>1, <1>4 DEF ks

\* A thenable job is queued.
LEMMA QueueLeads ==
  ASSUME NEW ps, NEW js \in Seq(JobData), NEW j \in JobData, j.job = "thenable"
  PROVE  /\ SameItems(ps, js, ps, Append(js, j))
         /\ CleanJobs(js) /\ j.arg # Collected => CleanJobs(Append(js, j))
<1>1. \A g, h, p, n : QueuedBy(Append(js, j), g, h, p, n) <=> QueuedBy(js, g, h, p, n)
  BY QueuedByLast
<1> DEFINE ks == Append(js, j)
<1>2. Longer(js, ks, j) /\ DOMAIN js = 1..Len(js) /\ Len(js) \in Nat
  BY AppendIs, LenProperties
<1>3. \A g, h, p, n : QueuedBy(ks, g, h, p, n) <=> QueuedBy(js, g, h, p, n)
  BY <1>1
<1> HIDE DEF ks
<1>4. \A i \in DOMAIN ks : (i \in DOMAIN js /\ ks[i] = js[i]) \/ ks[i] = j
  BY <1>2 DEF Longer
<1>5. CleanJobs(js) /\ j.arg # Collected => CleanJobs(ks)
  BY <1>4 DEF CleanJobs
<1> QED BY <1>3, <1>5 DEF SameItems, Expects, ks

LEMMA NewLeads ==
  ASSUME NEW ps \in Seq(JSPromiseData), NEW s \in JSPromiseData, s.reactions = <<>>, s.result # Collected,
         NEW js
  PROVE  SameItems(ps, js, Append(ps, s), js) /\ (CleanPromises(ps) => CleanPromises(Append(ps, s)))
<1> DEFINE qs == Append(ps, s)
<1>1. \A g, h, p, n : Expects(qs, js, g, h, p, n) <=> Expects(ps, js, g, h, p, n)
  BY NewExpects
<1>2. Longer(ps, qs, s) /\ DOMAIN ps = 1..Len(ps) /\ Len(ps) \in Nat
  BY AppendIs, LenProperties
<1> HIDE DEF qs
<1>3. \A i \in DOMAIN qs : (i \in DOMAIN ps /\ qs[i] = ps[i]) \/ qs[i] = s
  BY <1>2 DEF Longer
<1>4. DOMAIN s.reactions = {}
  OBVIOUS
<1>5. CleanPromises(ps) => CleanPromises(qs)
  BY <1>3, <1>4 DEF CleanPromises
<1> QED BY <1>1, <1>5 DEF SameItems, qs

LEMMA SettleLeads ==
  ASSUME Inv, NEW js \in Seq(JobData), NEW p \in DOMAIN promises, NEW rej \in BOOLEAN, NEW v \in Int,
         Settle(js, p, rej, v)
  PROVE  /\ SameItems(promises, js, promises', jobs')
         /\ CleanPromises(promises) /\ CleanJobs(js) /\ v # Collected => CleanPromises(promises') /\ CleanJobs(jobs')
<1>1. SameItems(promises, js, promises', jobs')
  <2> SUFFICES ASSUME NEW c \in Settling, NEW i
               PROVE  \A q, n : Expects(promises', jobs', El(c, i), RejEl(c, i), q, n) <=>
                                Expects(promises, js, El(c, i), RejEl(c, i), q, n)
    BY DEF SameItems
  <2> DEFINE g == El(c, i)
             h == RejEl(c, i)
  <2>1. AllTogether(promises, g, h)
    BY ItemsTogether
  <2> HIDE DEF g, h
  <2>2. \A q, n : Expects(promises', jobs', g, h, q, n) <=> Expects(promises, js, g, h, q, n)
    BY <2>1, SettleExpects
  <2> QED BY <2>2 DEF g, h
<1> DEFINE s == promises[p]
           o == Outcome(s, rej, v)
           u == Reactions(s, p, rej, v)
<1>2. s \in JSPromiseData /\ p \in Nat
  BY InvSeqs
<1>3. promises' = [promises EXCEPT ![p] = o] /\ jobs' = js \o u
  <2>1. /\ promises' = [promises EXCEPT ![p] = Outcome(promises[p], rej, v)]
        /\ jobs' = js \o Reactions(promises[p], p, rej, v)
    BY DEF Settle, Outcome, Reactions
  <2> QED BY <2>1
<1>4. o.reactions = <<>> /\ o.result = v
  BY <1>2, OutcomeIs
<1>5. /\ u \in Seq(JobData) /\ DOMAIN u = DOMAIN s.reactions
      /\ \A i \in DOMAIN u : u[i].handler = IF rej THEN s.reactions[i].onRej ELSE s.reactions[i].onFul
      /\ \A i \in DOMAIN u : u[i].arg = v
  BY <1>2, ReactionsIs DEF Reactions, ReactionJob
<1> HIDE DEF o, u
<1>6. CleanPromises(promises) /\ v # Collected => CleanPromises(promises') /\ CleanJobs(u)
  <2> SUFFICES ASSUME CleanPromises(promises), v # Collected PROVE CleanPromises(promises') /\ CleanJobs(u)
    OBVIOUS
  <2>1. DOMAIN o.reactions = {}
    BY <1>4
  <2>2. \A q \in DOMAIN promises' : (q \in DOMAIN promises /\ promises'[q] = promises[q]) \/ promises'[q] = o
    BY <1>3
  <2>3. CleanPromises(promises')
    BY <1>4, <2>1, <2>2 DEF CleanPromises
  <2>4. \A i \in DOMAIN u : u[i].handler.at # Collected
    BY <1>5 DEF CleanPromises
  <2> QED BY <1>5, <2>3, <2>4 DEF CleanJobs
<1>7. CleanJobs(js) /\ CleanJobs(u) => CleanJobs(jobs')
  <2> DEFINE ks == js \o u
  <2>1. /\ Joined(js, u, ks) /\ Len(js) \in Nat /\ DOMAIN js = 1..Len(js)
        /\ Len(u) \in Nat /\ DOMAIN u = 1..Len(u)
    BY <1>5, ConcatIs, LenProperties
  <2> HIDE DEF ks
  <2>2. ASSUME NEW i \in DOMAIN ks
        PROVE  (i \in DOMAIN js /\ ks[i] = js[i]) \/ (\E k \in DOMAIN u : ks[i] = u[k])
    <3>1. i \in 1..(Len(js) + Len(u))
      BY <2>1 DEF Joined
    <3>2. CASE i \in DOMAIN js
      BY <2>1, <3>2 DEF Joined
    <3>3. CASE i \notin DOMAIN js
      <4>1. i - Len(js) \in 1..Len(u) /\ Len(js) + (i - Len(js)) = i
        BY <2>1, <3>1, <3>3
      <4> DEFINE k == i - Len(js)
      <4>2. k \in DOMAIN u /\ ks[Len(js) + k] = u[k]
        BY <2>1, <4>1 DEF Joined
      <4> QED BY <4>1, <4>2
    <3> QED BY <3>2, <3>3
  <2> QED BY <1>3, <2>2 DEF CleanJobs, ks
<1> QED BY <1>1, <1>6, <1>7

LEMMA PerformClean ==
  ASSUME NEW ps, NEW js \in Seq(JobData), NEW p \in Nat, p \in DOMAIN ps, ps[p] \in JSPromiseData,
         NEW cap \in Nat, NEW a \in Callables, NEW b \in Callables,
         PerformThen(ps, js, p, cap, a, b),
         CleanPromises(ps), CleanJobs(js), a.at # Collected, b.at # Collected
  PROVE  CleanPromises(promises') /\ CleanJobs(jobs')
<1> DEFINE s == ps[p]
           r == Reaction(s, cap, a, b)
<1>1. r \in ReactionData /\ r.onFul = a /\ r.onRej = b
  <2>1. s \in JSPromiseData
    OBVIOUS
  <2>2. \A x \in JSPromiseData : LET y == Reaction(x, cap, a, b) IN
          y \in ReactionData /\ y.onFul = a /\ y.onRej = b
    BY DEF Reaction, ReactionData, JSPromiseData
  <2> QED BY <2>1, <2>2
<1>2. s.reactions \in Seq(ReactionData) /\ s.registered \in Nat /\ s.result \in Int
  BY DEF JSPromiseData
<1>3. CASE s.state = "pending"
  <2> DEFINE rs == Append(s.reactions, r)
             w == Waiting(s, r)
  <2>1. promises' = [ps EXCEPT ![p] = w] /\ jobs' = js
    BY <1>3 DEF PerformThen, Waiting, Seen, Reaction
  <2>2. w.reactions = rs /\ w.result = s.result
    BY <1>1, WaitingIs
  <2>3. Longer(s.reactions, rs, r) /\ Len(s.reactions) \in Nat /\ DOMAIN s.reactions = 1..Len(s.reactions)
    BY <1>1, <1>2, AppendIs, LenProperties
  <2> HIDE DEF rs, w, r
  <2>4. \A i \in DOMAIN rs : (i \in DOMAIN s.reactions /\ rs[i] = s.reactions[i]) \/ rs[i] = r
    BY <2>3 DEF Longer
  <2>5. \A i \in DOMAIN rs : rs[i].onFul.at # Collected /\ rs[i].onRej.at # Collected
    BY <1>1, <2>4 DEF CleanPromises
  <2>6. \A q \in DOMAIN promises' : (q \in DOMAIN ps /\ promises'[q] = ps[q]) \/ promises'[q] = w
    BY <2>1
  <2>7. s.result # Collected
    BY DEF CleanPromises
  <2> QED BY <2>1, <2>2, <2>5, <2>6, <2>7 DEF CleanPromises
<1>4. CASE s.state # "pending"
  <2> DEFINE j == ReactionJob(p, r, s.state = "rejected", s.result)
             w == Handled(s)
  <2>1. promises' = [ps EXCEPT ![p] = w] /\ jobs' = Append(js, j)
    BY <1>4 DEF PerformThen, Handled, Seen, Reaction
  <2>2. w.reactions = s.reactions /\ w.result = s.result
    BY HandledIs
  <2>3. j \in JobData /\ j.handler \in {a, b} /\ j.arg = s.result
    <3> DEFINE rej == s.state = "rejected"
    <3>1. rej \in BOOLEAN
      OBVIOUS
    <3>2. j = ReactionJob(p, r, rej, s.result)
      OBVIOUS
    <3> HIDE DEF j, r, s, rej
    <3>3. j \in JobData /\ j.handler = (IF rej THEN r.onRej ELSE r.onFul) /\ j.arg = s.result
      BY <1>1, <1>2, <3>1, <3>2, ReactionJobIs DEF ReactionJob
    <3> QED BY <1>1, <3>3
  <2>4. s.result # Collected /\ \A i \in DOMAIN s.reactions :
           s.reactions[i].onFul.at # Collected /\ s.reactions[i].onRej.at # Collected
    BY DEF CleanPromises
  <2> HIDE DEF j, w, r, s
  <2>5. \A q \in DOMAIN promises' : (q \in DOMAIN ps /\ promises'[q] = ps[q]) \/ promises'[q] = w
    BY <2>1
  <2>6. CleanPromises(promises')
    BY <2>2, <2>4, <2>5 DEF CleanPromises
  <2> DEFINE ks == Append(js, j)
  <2>7. Longer(js, ks, j) /\ DOMAIN js = 1..Len(js) /\ Len(js) \in Nat
    BY <2>3, AppendIs, LenProperties
  <2> HIDE DEF ks
  <2>8. \A i \in DOMAIN ks : (i \in DOMAIN js /\ ks[i] = js[i]) \/ ks[i] = j
    BY <2>7 DEF Longer
  <2>9. j.arg # Collected /\ j.handler.at # Collected
    BY <2>3, <2>4
  <2>10. CleanJobs(ks)
    BY <2>8, <2>9 DEF CleanJobs
  <2> QED BY <2>1, <2>6, <2>10 DEF ks
<1> QED BY <1>3, <1>4

\* A reaction that is not that of an item.
LEMMA PerformLeads ==
  ASSUME NEW ps, NEW js \in Seq(JobData), NEW p \in Nat, p \in DOMAIN ps, ps[p] \in JSPromiseData,
         NEW cap \in Nat, NEW a \in Callables, NEW b \in Callables,
         PerformThen(ps, js, p, cap, a, b), ~IsElement(a), ~IsElement(b)
  PROVE  SameItems(ps, js, promises', jobs')
<1> SUFFICES ASSUME NEW c, NEW i
             PROVE  \A q, n : Expects(promises', jobs', El(c, i), RejEl(c, i), q, n) <=>
                              Expects(ps, js, El(c, i), RejEl(c, i), q, n)
  BY DEF SameItems
<1> DEFINE g == El(c, i)
           h == RejEl(c, i)
<1>1. a # g /\ b # g /\ a # h /\ b # h
  BY ElementsDiffer DEF IsElement
<1> HIDE DEF g, h
<1>2. Together(a, b, g, h)
  BY <1>1 DEF Together
<1>3. \A q, n : Expects(promises', jobs', g, h, q, n) <=>
           Expects(ps, js, g, h, q, n) \/ (q = p /\ n = ps[p].registered + 1 /\ a = g)
  BY <1>2, PerformExpects
<1> QED BY <1>1, <1>3 DEF g, h

LEMMA ResolvesLeads ==
  ASSUME Inv, NEW js \in Seq(JobData), NEW st \in Seq(FrameData),
         NEW f \in DOMAIN pairs, NEW rej \in BOOLEAN, NEW v \in Int, CallResolving(js, st, f, rej, v)
  PROVE  /\ SameItems(promises, js, promises', jobs') /\ SameLoops(st, stack') /\ Consumes(f)
         /\ Clean(promises, js, st) /\ v # Collected => Clean(promises', jobs', stack')
<1> DEFINE p == pairs[f].promise
<1>1. p \in DOMAIN promises /\ p \in Nat /\ f \in Nat /\ promises[p] \in JSPromiseData
  <2>1. p \in DOMAIN promises
    BY DEF Inv, Good, Refs, PairOk
  <2> QED BY <2>1, InvSeqs
<1>2. CASE pairs[f].resolved
  <2>1. jobs' = js /\ stack' = st /\ promises' = promises /\ pairs' = pairs
    BY <1>2 DEF CallResolving
  <2> QED BY <1>2, <2>1, LeadsItself DEF Consumes
<1>3. CASE ~pairs[f].resolved
  <2>1. pairs' = [pairs EXCEPT ![f] = Used(pairs[f])] /\ ResolveWith(js, st, f, rej, v)
    BY <1>3 DEF CallResolving, Used
  <2>2. Consumes(f)
    BY <2>1 DEF Consumes
  <2> HIDE DEF p
  <2>3. ASSUME NEW r \in BOOLEAN, NEW w \in Int, v # Collected => w # Collected,
               Settle(js, p, r, w), stack' = st
        PROVE  /\ SameItems(promises, js, promises', jobs') /\ SameLoops(st, stack')
               /\ Clean(promises, js, st) /\ v # Collected => Clean(promises', jobs', stack')
    <3>1. /\ SameItems(promises, js, promises', jobs')
          /\ CleanPromises(promises) /\ CleanJobs(js) /\ w # Collected => CleanPromises(promises') /\ CleanJobs(jobs')
      BY <1>1, <2>3, SettleLeads
    <3> QED BY <2>3, <3>1, LeadsItself DEF Clean
  <2>4. CASE Settle(js, p, rej, v) /\ stack' = st
    BY <2>2, <2>3, <2>4
  <2>5. CASE Settle(js, p, TRUE, TypeErr) /\ stack' = st
    <3>1. TRUE \in BOOLEAN /\ TypeErr \in Int /\ TypeErr # Collected
      BY DEF TypeErr, Collected
    <3> QED BY <2>2, <2>3, <2>5, <3>1
  <2>6. CASE jobs' = Append(js, ThenableJob(p, v)) /\ promises' = [promises EXCEPT ![p].lock = v] /\ stack' = st
    <3> DEFINE j == ThenableJob(p, v)
    <3>1. j \in JobData /\ j.job = "thenable" /\ j.arg = v
      BY <1>1, ThenableJobIs DEF ThenableJob
    <3>2. jobs' = Append(js, j)
      BY <2>6
    <3> HIDE DEF j
    <3>3. SameItems(promises, js, promises, jobs') /\ (CleanJobs(js) /\ v # Collected => CleanJobs(jobs'))
      BY <3>1, <3>2, QueueLeads
    <3>4. promises' = [promises EXCEPT ![p] = Locking(promises[p], v)]
      BY <2>6 DEF Locking
    <3>5. Locking(promises[p], v).reactions = promises[p].reactions /\ Locking(promises[p], v).result = promises[p].result
      BY <1>1 DEF Locking, JSPromiseData
    <3>6. /\ DOMAIN promises' = DOMAIN promises
          /\ \A q \in DOMAIN promises : promises'[q].reactions = promises[q].reactions
          /\ \A q \in DOMAIN promises : promises'[q].result = promises[q].result
      BY <3>4, <3>5
    <3>7. SameItems(promises, jobs', promises', jobs')
      BY <3>6 DEF SameItems, Expects, RegisteredBy
    <3>8. CleanPromises(promises) => CleanPromises(promises')
      BY <3>6 DEF CleanPromises
    <3>9. SameItems(promises, js, promises', jobs')
      BY <3>3, <3>7, SameItemsTwice
    <3> QED BY <2>2, <2>6, <3>3, <3>8, <3>9, LeadsItself DEF Clean
  <2>7. CASE stack' = Append(st, Frame("getThen", f)) /\ jobs' = js /\ promises' = promises
    <3> DEFINE m == Frame("getThen", f)
    <3>1. m \in FrameData /\ m.call = "getThen" /\ m.arg # Collected
      BY <1>1 DEF Frame, FrameData, UserCalls, Plain, Collected
    <3>2. stack' = Append(st, m)
      BY <2>7
    <3> HIDE DEF m
    <3>3. SameLoops(st, stack') /\ (CleanStack(st) => CleanStack(stack'))
      BY <3>1, <3>2, PushLeads
    <3> QED BY <2>2, <2>7, <3>3, LeadsItself DEF Clean
  <2> QED BY <2>1, <2>4, <2>5, <2>6, <2>7 DEF ResolveWith, p
<1> QED BY <1>2, <1>3

LEMMA CapabilityLeads ==
  ASSUME Inv, NEW js \in Seq(JobData), NEW st \in Seq(FrameData),
         NEW cap, cap = 0 \/ cap \in DOMAIN pairs, NEW rej \in BOOLEAN, NEW v \in Int,
         CallCapability(js, st, cap, rej, v)
  PROVE  /\ SameItems(promises, js, promises', jobs') /\ SameLoops(st, stack') /\ Consumes(cap)
         /\ Clean(promises, js, st) /\ v # Collected => Clean(promises', jobs', stack')
<1>1. CASE cap = 0
  <2>1. jobs' = js /\ stack' = st /\ promises' = promises /\ pairs' = pairs
    BY <1>1 DEF CallCapability
  <2> QED BY <1>1, <2>1, LeadsItself DEF Consumes
<1>2. CASE cap # 0
  BY <1>2, ResolvesLeads DEF CallCapability
<1> QED BY <1>1, <1>2

\* The flag of a pair is never reset.
Flags(prs, qrs) == \A f \in DOMAIN prs : f \in DOMAIN qrs /\ (prs[f].resolved => qrs[f].resolved)

LEMMA FlagsItself == \A prs : Flags(prs, prs)
  BY DEF Flags

LEMMA ConsumesFlags ==
  ASSUME pairs \in Seq(PairData), NEW f, Consumes(f)
  PROVE  Flags(pairs, pairs')
<1>1. CASE pairs' = pairs
  BY <1>1, FlagsItself
<1>2. CASE f \in DOMAIN pairs /\ pairs' = [pairs EXCEPT ![f] = Used(pairs[f])]
  <2>1. Used(pairs[f]).resolved
    BY <1>2, Domain DEF Used, PairData
  <2> QED BY <1>2, <2>1 DEF Flags
<1> QED BY <1>1, <1>2 DEF Consumes

LEMMA MoreFlags ==
  ASSUME NEW prs \in Seq(PairData), NEW e \in PairData
  PROVE  Flags(prs, Append(prs, e))
<1> DEFINE qrs == Append(prs, e)
<1>1. Longer(prs, qrs, e) /\ DOMAIN prs = 1..Len(prs) /\ Len(prs) \in Nat
  BY AppendIs, LenProperties
<1> HIDE DEF qrs
<1>2. \A i \in DOMAIN prs : i \in DOMAIN qrs /\ qrs[i] = prs[i]
  BY <1>1 DEF Longer
<1> QED BY <1>2 DEF Flags, qrs

\* then makes a promise that nothing is registered on, and registers.
LEMMA ThenLeads ==
  ASSUME Inv, NEW js \in Seq(JobData), NEW p \in DOMAIN promises, NEW a \in Callables, NEW b \in Callables,
         Then(js, p, a, b)
  PROVE  /\ ~IsElement(a) /\ ~IsElement(b) => SameItems(promises, js, promises', jobs')
         /\ CleanPromises(promises) /\ CleanJobs(js) /\ a.at # Collected /\ b.at # Collected =>
              CleanPromises(promises') /\ CleanJobs(jobs')
         /\ Flags(pairs, pairs')
<1>1. Types(promises, pairs, combos, jobs, stack, known, held, calls)
  BY DEF Inv, Good
<1>2. Fresh \in Nat /\ FreshPair \in Nat /\ p \in Nat
  BY InvSeqs DEF Fresh, FreshPair
<1>3. /\ NewPair(Fresh) \in PairData /\ Pending \in JSPromiseData /\ Pending.reactions = <<>> /\ Pending.result # Collected
  <2>1. Pending.reactions = <<>> /\ Pending.result = Plain
    BY DEF Pending
  <2>2. NewPair(Fresh) \in PairData
    BY <1>2, NewPairIs
  <2> QED BY <2>1, <2>2, PendingIs DEF Plain, Collected
<1>4. PerformThen(WithFresh, js, p, FreshPair, a, b) /\ pairs' = Append(pairs, NewPair(Fresh))
  BY DEF Then
<1> DEFINE ps == WithFresh
<1>5. p \in DOMAIN ps /\ ps[p] = promises[p] /\ ps[p] \in JSPromiseData
  BY <1>1, <1>3, FreshOnes, InvSeqs DEF WithFresh
<1>6. SameItems(promises, js, ps, js) /\ (CleanPromises(promises) => CleanPromises(ps))
  BY <1>3, InvSeqs, NewLeads DEF WithFresh
<1>7. PerformThen(ps, js, p, FreshPair, a, b)
  BY <1>4
<1> HIDE DEF ps
<1>8. ~IsElement(a) /\ ~IsElement(b) => SameItems(ps, js, promises', jobs')
  BY <1>2, <1>5, <1>7, PerformLeads
<1>9. CleanPromises(ps) /\ CleanJobs(js) /\ a.at # Collected /\ b.at # Collected =>
        CleanPromises(promises') /\ CleanJobs(jobs')
  BY <1>2, <1>5, <1>7, PerformClean
<1>10. ~IsElement(a) /\ ~IsElement(b) => SameItems(promises, js, promises', jobs')
  BY <1>6, <1>8, SameItemsTwice
<1>11. Flags(pairs, pairs')
  BY <1>3, <1>4, InvSeqs, MoreFlags
<1> QED BY <1>6, <1>9, <1>10, <1>11

-----------------------------------------------------------------------------
(* The steps that leave combinators alone keep what they gathered.         *)

LEMMA ItemIsOut ==
  ASSUME NEW ps, NEW js, NEW e, NEW c, NEW i, \A p, n : ~Expects(ps, js, El(c, i), RejEl(c, i), p, n)
  PROVE  ItemOnce(ps, js, e, c, i)
  BY DEF ItemOnce

LEMMA ItemIsIn ==
  ASSUME NEW ps, NEW js, NEW e, NEW c, NEW i, i \notin e.answered, NEW p, NEW n,
         \A q, m : Expects(ps, js, El(c, i), RejEl(c, i), q, m) <=> q = p /\ m = n
  PROVE  ItemOnce(ps, js, e, c, i)
  BY DEF ItemOnce

LEMMA SameItem ==
  ASSUME NEW ps, NEW js, NEW qs, NEW ks, NEW e, NEW d, NEW c, NEW i,
         \A p, n : Expects(qs, ks, El(c, i), RejEl(c, i), p, n) <=> Expects(ps, js, El(c, i), RejEl(c, i), p, n),
         i \notin e.answered => i \notin d.answered,
         ItemOnce(ps, js, e, c, i)
  PROVE  ItemOnce(qs, ks, d, c, i)
<1>1. \A p, n : Expects(qs, ks, El(c, i), RejEl(c, i), p, n) <=> Expects(ps, js, El(c, i), RejEl(c, i), p, n)
  OBVIOUS
<1>2. CASE \A p, n : ~Expects(ps, js, El(c, i), RejEl(c, i), p, n)
  BY <1>1, <1>2, ItemIsOut
<1>3. CASE /\ i \notin e.answered
           /\ \E p, n : \A q, m : Expects(ps, js, El(c, i), RejEl(c, i), q, m) <=> q = p /\ m = n
  <2>1. PICK p, n : \A q, m : Expects(ps, js, El(c, i), RejEl(c, i), q, m) <=> q = p /\ m = n
    BY <1>3
  <2>2. \A q, m : Expects(qs, ks, El(c, i), RejEl(c, i), q, m) <=> q = p /\ m = n
    BY <1>1, <2>1
  <2>3. i \notin d.answered
    BY <1>3
  <2> QED BY ONLY <2>2, <2>3, ItemIsIn
<1> QED BY <1>2, <1>3 DEF ItemOnce

\* A step that does nothing to the combinator, nor to what it counts on.
Calm ==
  /\ combos' = combos
  /\ SameItems(promises, jobs, promises', jobs') /\ SameLoops(stack, stack') /\ Flags(pairs, pairs')
  /\ Clean(promises, jobs, stack) => Clean(promises', jobs', stack')

LEMMA CalmKeeps ==
  ASSUME Inv, Gathers, Calm
  PROVE  Gathers'
<1>1. combos' = combos /\ Settling' = Settling
  BY DEF Calm, Settling
<1>2. \A c : Loops(stack', c) <=> Loops(stack, c)
  BY DEF Calm, SameLoops
<1>3. Counting'
  <2> SUFFICES ASSUME NEW c \in DOMAIN combos
               PROVE  /\ Answering(combos[c])
                      /\ Left(combos[c], pairs'[combos[c].cap].resolved, Loops(stack', c))
    BY <1>1 DEF Counting
  <2>1. Answering(combos[c]) /\ Left(combos[c], pairs[combos[c].cap].resolved, Loops(stack, c))
    BY DEF Gathers, Counting
  <2>2. combos[c].cap \in DOMAIN pairs
    BY DEF Inv, Good, Refs, Public
  <2>3. pairs[combos[c].cap].resolved => pairs'[combos[c].cap].resolved
    BY <2>2 DEF Calm, Flags
  <2>4. Loops(stack', c) <=> Loops(stack, c)
    BY <1>2
  <2> QED BY <2>1, <2>3, <2>4 DEF Left
<1>4. ItemsOnce'
  <2> SUFFICES ASSUME NEW c \in Settling, NEW i \in Native(combos, c)
               PROVE  ItemOnce(promises', jobs', combos[c], c, i)
    BY <1>1 DEF ItemsOnce
  <2>1. ItemOnce(promises, jobs, combos[c], c, i)
    BY DEF Gathers, ItemsOnce
  <2>2. \A p, n : Expects(promises', jobs', El(c, i), RejEl(c, i), p, n) <=>
                  Expects(promises, jobs, El(c, i), RejEl(c, i), p, n)
    BY DEF Calm, SameItems
  <2> QED BY <2>1, <2>2, SameItem
<1>5. Spread'
  <2>1. CASE Clean(promises, jobs, stack)
    BY <2>1 DEF Calm, Spread
  <2>2. CASE combos # <<>> /\ \A c \in DOMAIN combos : Over(stack, c, combos[c])
    BY <1>1, <1>2, <2>2 DEF Spread, Over
  <2> QED BY <2>1, <2>2 DEF Gathers, Spread
<1>6. (Len(combos) <= 1)'
  BY <1>1 DEF Gathers
<1> QED BY <1>3, <1>4, <1>5, <1>6 DEF Gathers

\* A capability that is called after the call on top, or after a job.
LEMMA CapabilityCalm ==
  ASSUME Inv, NEW js \in Seq(JobData), NEW st \in Seq(FrameData),
         SameItems(promises, jobs, promises, js), SameLoops(stack, st),
         NEW cap, cap = 0 \/ cap \in DOMAIN pairs, NEW rej \in BOOLEAN, NEW v \in Int,
         Clean(promises, jobs, stack) => CleanJobs(js) /\ CleanStack(st) /\ v # Collected,
         CallCapability(js, st, cap, rej, v), combos' = combos
  PROVE  Calm
<1>1. /\ SameItems(promises, js, promises', jobs') /\ SameLoops(st, stack') /\ Consumes(cap)
      /\ Clean(promises, js, st) /\ v # Collected => Clean(promises', jobs', stack')
  BY CapabilityLeads
<1>2. SameItems(promises, jobs, promises', jobs')
  BY <1>1, SameItemsTwice
<1>3. SameLoops(stack, stack')
  BY <1>1, SameLoopsTwice
<1>4. Flags(pairs, pairs')
  BY <1>1, InvSeqs, ConsumesFlags
<1>5. Clean(promises, jobs, stack) => Clean(promises', jobs', stack')
  BY <1>1 DEF Clean
<1> QED BY <1>2, <1>3, <1>4, <1>5 DEF Calm

\* The value is not that of a combinator: what the program has.
LEMMA GivenClean ==
  ASSUME Inv, NEW v \in Given
  PROVE  v \in Int /\ v # Collected
<1>1. known \subseteq 1..Len(promises) /\ Len(promises) \in Nat
  BY InvSeqs DEF Inv, Good, Types
<1> QED BY <1>1 DEF Given, Plain, Thenable, Collected

LEMMA CallersLead ==
  ASSUME Inv, stack # <<>>
  PROVE  /\ Top.call # "all" => SameLoops(stack, Callers)
         /\ CleanStack(stack) => Top.arg # Collected /\ CleanStack(Callers)
         /\ Callers \in Seq(FrameData)
  BY InvSeqs, PopLeads, FrontIs DEF Top, Callers

LEMMA RestLead ==
  ASSUME Inv, jobs # <<>>
  PROVE  /\ (Job.job = "reaction" => ~IsElement(Job.handler)) => SameItems(promises, jobs, promises, Rest)
         /\ CleanJobs(jobs) =>
              /\ Job.arg # Collected /\ CleanJobs(Rest)
              /\ Job.job = "reaction" => Job.handler.at # Collected
         /\ Rest \in Seq(JobData)
  BY InvSeqs, TailLeads, TailIs DEF Job, Rest

LEMMA OneLeads ==
  ASSUME NEW m \in FrameData, m.call # "all", stack = <<>>
  PROVE  /\ SameLoops(stack, <<m>>) /\ (m.arg # Collected => CleanStack(<<m>>)) /\ <<m>> \in Seq(FrameData)
         /\ SameLoops(stack, <<>>) /\ CleanStack(<<>>) /\ <<>> \in Seq(FrameData)
  BY EmptySeq DEF SameLoops, Loops, CleanStack

-----------------------------------------------------------------------------
(* The actions that do nothing to the combinator: each is calm. *)

LEMMA ConstructCalm ==
  ASSUME Inv, Construct
  PROVE  Calm
<1>1. /\ promises' = Append(promises, Pending) /\ pairs' = Append(pairs, NewPair(Fresh))
      /\ jobs' = jobs /\ stack' = stack /\ combos' = combos
  BY DEF Construct, WithFresh
<1>2. NewPair(Fresh) \in PairData
  <2>1. Fresh \in Nat
    BY InvSeqs DEF Fresh
  <2> QED BY <2>1, NewPairIs
<1>3. Pending \in JSPromiseData /\ Pending.reactions = <<>> /\ Pending.result # Collected
  BY PendingIs DEF Pending, Plain, Collected
<1>4. SameItems(promises, jobs, promises', jobs') /\ (CleanPromises(promises) => CleanPromises(promises'))
  BY <1>1, <1>3, InvSeqs, NewLeads
<1>5. Flags(pairs, pairs')
  BY <1>1, <1>2, InvSeqs, MoreFlags
<1>6. SameLoops(stack, stack')
  BY <1>1, LeadsItself
<1> QED BY <1>1, <1>4, <1>5, <1>6 DEF Calm, Clean

LEMMA CallAsyncCalm ==
  ASSUME Inv, CallAsync
  PROVE  Calm
<1> DEFINE e == [NewPair(Fresh) EXCEPT !.async = TRUE]
           m == Frame("async", FreshPair)
<1>1. /\ promises' = Append(promises, Pending) /\ pairs' = Append(pairs, e)
      /\ stack' = Append(stack, m) /\ jobs' = jobs /\ combos' = combos
  BY DEF CallAsync, WithFresh
<1>2. Fresh \in Nat /\ FreshPair \in Nat
  BY InvSeqs DEF Fresh, FreshPair
<1>3. e \in PairData
  <2> DEFINE b == NewPair(Fresh)
  <2>1. b \in PairData
    BY <1>2, NewPairIs
  <2> HIDE DEF b
  <2>2. [b EXCEPT !.async = TRUE] \in PairData
    BY <2>1 DEF PairData
  <2> QED BY <2>2 DEF b
<1>4. m \in FrameData /\ m.call = "async" /\ m.arg # Collected
  BY <1>2 DEF Frame, FrameData, UserCalls, Plain, Collected
<1>5. Pending \in JSPromiseData /\ Pending.reactions = <<>> /\ Pending.result # Collected
  BY PendingIs DEF Pending, Plain, Collected
<1> HIDE DEF e, m
<1>6. SameItems(promises, jobs, promises', jobs') /\ (CleanPromises(promises) => CleanPromises(promises'))
  BY <1>1, <1>5, InvSeqs, NewLeads
<1>7. Flags(pairs, pairs')
  BY <1>1, <1>3, InvSeqs, MoreFlags
<1>8. SameLoops(stack, stack') /\ (CleanStack(stack) => CleanStack(stack'))
  BY <1>1, <1>4, InvSeqs, PushLeads
<1> QED BY <1>1, <1>6, <1>7, <1>8 DEF Calm, Clean

LEMMA ThenOfCalm ==
  ASSUME Inv, NEW p \in known, NEW g \in Callables, NEW h \in Callables,
         ~IsElement(g), ~IsElement(h), g.at # Collected, h.at # Collected, ThenOf(p, g, h)
  PROVE  Calm
<1>1. p \in DOMAIN promises
  BY InvTypes
<1>2. Then(jobs, p, g, h) /\ stack' = stack /\ combos' = combos
  BY DEF ThenOf
<1>3. jobs \in Seq(JobData)
  BY InvSeqs
<1>4. /\ SameItems(promises, jobs, promises', jobs')
      /\ CleanPromises(promises) /\ CleanJobs(jobs) => CleanPromises(promises') /\ CleanJobs(jobs')
      /\ Flags(pairs, pairs')
  BY <1>1, <1>2, <1>3, ThenLeads
<1> QED BY <1>2, <1>4, LeadsItself DEF Calm, Clean

LEMMA AwaitCalm ==
  ASSUME Inv, NEW v, Await(v)
  PROVE  Calm
<1> DEFINE f == Top.of
           g == Resume(f)
           h == ResumeThrow(f)
           made == Append(promises, Ready)
<1>1. /\ stack # <<>> /\ Top.call = "async" /\ stack' = Callers /\ pairs' = pairs /\ combos' = combos
      /\ \/ v \in known /\ PerformThen(promises, jobs, v, 0, g, h)
         \/ PerformThen(made, jobs, Fresh, 0, g, h)
  BY DEF Await, Operation, Ready
<1>2. f \in Nat
  BY <1>1, CallableTop DEF FrameData
<1> HIDE DEF f
<1>3. g \in Callables /\ h \in Callables /\ ~IsElement(g) /\ ~IsElement(h) /\ g.at # Collected /\ h.at # Collected
  BY <1>2, ResumeIs DEF IsElement, Resume, ResumeThrow, Fn, Collected
<1> HIDE DEF g, h
<1>4. SameLoops(stack, stack') /\ (CleanStack(stack) => CleanStack(stack'))
  BY <1>1, CallersLead
<1>5. ASSUME NEW ps \in Seq(JSPromiseData), NEW p \in DOMAIN ps, p \in Nat, SameItems(promises, jobs, ps, jobs),
             CleanPromises(promises) => CleanPromises(ps), PerformThen(ps, jobs, p, 0, g, h)
      PROVE  Calm
  <2>1. ps[p] \in JSPromiseData /\ 0 \in Nat /\ jobs \in Seq(JobData)
    BY <1>5, InvSeqs, Domain
  <2>2. SameItems(ps, jobs, promises', jobs')
    BY ONLY <1>3, <1>5, <2>1, PerformLeads
  <2>3. CleanPromises(ps) /\ CleanJobs(jobs) => CleanPromises(promises') /\ CleanJobs(jobs')
    BY ONLY <1>3, <1>5, <2>1, PerformClean
  <2>4. SameItems(promises, jobs, promises', jobs')
    BY <1>5, <2>2, SameItemsTwice
  <2> QED BY <1>1, <1>4, <1>5, <2>3, <2>4, FlagsItself DEF Calm, Clean
<1>6. CASE v \in known /\ PerformThen(promises, jobs, v, 0, g, h)
  <2>1. v \in DOMAIN promises /\ v \in Nat
    BY <1>6, InvTypes
  <2> QED BY <1>5, <1>6, <2>1, InvSeqs, LeadsItself
<1>7. CASE PerformThen(made, jobs, Fresh, 0, g, h)
  <2>1. Ready \in JSPromiseData /\ Ready.reactions = <<>> /\ Ready.result # Collected
    BY PendingIs DEF Ready, Pending, Plain, Collected
  <2>2. /\ made \in Seq(JSPromiseData) /\ Longer(promises, made, Ready) /\ SameItems(promises, jobs, made, jobs)
        /\ CleanPromises(promises) => CleanPromises(made)
    BY <2>1, InvSeqs, AppendIs, NewLeads
  <2> HIDE DEF made
  <2>3. Fresh \in DOMAIN made /\ Fresh \in Nat
    BY <2>2, InvSeqs DEF Longer, Fresh
  <2> QED BY <1>5, <1>7, <2>2, <2>3
<1> QED BY <1>1, <1>6, <1>7

LEMMA DropCalm ==
  ASSUME Inv, ScriptEnds \/ ResultDropped
  PROVE  Calm
<1>1. /\ stack # <<>> /\ Top.call \in {"script", "foreignThen", "itemThen"}
      /\ stack' = Callers /\ promises' = promises /\ pairs' = pairs /\ jobs' = jobs /\ combos' = combos
  BY DEF ScriptEnds, ResultDropped, Returns
<1>2. SameLoops(stack, stack') /\ (CleanStack(stack) => CleanStack(stack'))
  BY <1>1, CallersLead
<1> QED BY <1>1, <1>2, LeadsItself, FlagsItself DEF Calm, Clean

\* What comes back goes to a capability.
LEMMA ReturnCalm ==
  ASSUME Inv, stack # <<>>, Top.call \in {"handler", "async", "native", "toFinally", "onFinally", "foreignThen"},
         NEW rej \in BOOLEAN, NEW v \in Int, v # Collected \/ v = Top.arg,
         NEW cap, cap = Top.of, CallCapability(jobs, Callers, cap, rej, v), combos' = combos
  PROVE  Calm
<1>1. FrameOk(promises, pairs, combos, Top)
  BY CallableTop
<1>2. cap = 0 \/ cap \in DOMAIN pairs
  BY <1>1 DEF FrameOk, Capability, Public
<1>3. /\ SameLoops(stack, Callers) /\ Callers \in Seq(FrameData)
      /\ CleanStack(stack) => Top.arg # Collected /\ CleanStack(Callers)
  BY CallersLead
<1>4. jobs \in Seq(JobData) /\ SameItems(promises, jobs, promises, jobs)
  BY InvSeqs, LeadsItself
<1>5. Clean(promises, jobs, stack) => CleanJobs(jobs) /\ CleanStack(Callers) /\ v # Collected
  BY <1>3 DEF Clean
<1> QED BY <1>2, <1>3, <1>4, <1>5, CapabilityCalm

LEMMA ReturnsCalm ==
  ASSUME Inv,
         \/ \E v \in Given : ResultToCapability(FALSE, v)
         \/ ResultToCapability(TRUE, Plain)
         \/ NativeReturns \/ FinallyEnds \/ FinallyThrows(Plain) \/ Throws(Plain)
  PROVE  Calm
<1>0. TRUE \in BOOLEAN /\ FALSE \in BOOLEAN /\ Plain \in Int /\ Plain # Collected
  BY DEF Plain, Collected
<1> DEFINE cap == Top.of
<1>1. ASSUME NEW rej \in BOOLEAN, NEW v \in Int, v # Collected, ResultToCapability(rej, v) PROVE Calm
  <2>1. /\ stack # <<>> /\ Top.call \in {"handler", "async"} /\ CallCapability(jobs, Callers, cap, rej, v)
        /\ combos' = combos /\ cap = Top.of
    BY <1>1 DEF ResultToCapability, Returns
  <2> HIDE DEF cap
  <2> QED BY <1>1, <2>1, ReturnCalm
<1>2. ASSUME NEW v \in Given, ResultToCapability(FALSE, v) PROVE Calm
  BY <1>0, <1>1, <1>2, GivenClean
<1>3. CASE ResultToCapability(TRUE, Plain)
  BY <1>0, <1>1, <1>3
<1>4. CASE NativeReturns
  <2>1. /\ stack # <<>> /\ Top.call = "native" /\ CallCapability(jobs, Callers, cap, FALSE, Plain)
        /\ combos' = combos /\ cap = Top.of
    BY <1>4 DEF NativeReturns, Returns
  <2> HIDE DEF cap
  <2> QED BY <1>0, <2>1, ReturnCalm
<1>5. CASE FinallyEnds
  <2> DEFINE v == Top.arg
  <2>1. /\ stack # <<>> /\ Top.call = "toFinally" /\ CallCapability(jobs, Callers, cap, FALSE, v)
        /\ combos' = combos /\ cap = Top.of /\ v = Top.arg
    BY <1>5 DEF FinallyEnds, Returns
  <2>2. v \in Int
    BY <2>1, CallableTop DEF FrameData
  <2> HIDE DEF v, cap
  <2> QED BY <1>0, <2>1, <2>2, ReturnCalm
<1>6. CASE FinallyThrows(Plain)
  <2>1. /\ stack # <<>> /\ Top.call = "onFinally" /\ CallCapability(jobs, Callers, cap, TRUE, Plain)
        /\ combos' = combos /\ cap = Top.of
    BY <1>6 DEF FinallyThrows, Returns
  <2> HIDE DEF cap
  <2> QED BY <1>0, <2>1, ReturnCalm
<1>7. CASE Throws(Plain)
  <2>1. /\ stack # <<>> /\ Top.call = "foreignThen" /\ CallResolving(jobs, Callers, cap, TRUE, Plain)
        /\ combos' = combos /\ cap = Top.of
    BY <1>7 DEF Throws, Returns
  <2>2. cap # 0
    BY <2>1, CallableTop, InvSeqs DEF FrameOk, Public
  <2>3. CallCapability(jobs, Callers, cap, TRUE, Plain)
    BY <2>1, <2>2 DEF CallCapability
  <2> HIDE DEF cap
  <2> QED BY <1>0, <2>1, <2>3, ReturnCalm
<1> QED BY <1>2, <1>3, <1>4, <1>5, <1>6, <1>7

LEMMA GetterCalm ==
  ASSUME Inv, GetterThrows(Plain) \/ GetterGivesNoFunction \/ GetterGivesFunction
  PROVE  Calm
<1> DEFINE p == pairs[Top.of].promise
<1>1. /\ stack # <<>> /\ Top.call = "getThen" /\ stack' = Callers /\ pairs' = pairs /\ combos' = combos
      /\ \/ Settle(jobs, p, TRUE, Plain) \/ Settle(jobs, p, FALSE, Thenable)
         \/ jobs' = Append(jobs, ThenableJob(p, Thenable)) /\ promises' = promises
  BY DEF GetterThrows, GetterGivesNoFunction, GetterGivesFunction, Returns
<1>2. SameLoops(stack, stack') /\ (CleanStack(stack) => CleanStack(stack'))
  BY <1>1, CallersLead
<1>3. p \in DOMAIN promises /\ p \in Nat
  <2>1. Top.of \in DOMAIN pairs
    BY <1>1, CallableTop DEF FrameOk
  <2>2. pairs[Top.of].promise \in DOMAIN promises
    BY <2>1 DEF Inv, Good, Refs, PairOk
  <2> QED BY <2>2, InvSeqs
<1>4. /\ Plain \in Int /\ Thenable \in Int /\ TRUE \in BOOLEAN /\ FALSE \in BOOLEAN
      /\ Plain # Collected /\ Thenable # Collected
  BY DEF Plain, Thenable, Collected
<1> HIDE DEF p
<1>5. ASSUME NEW rej \in BOOLEAN, NEW v \in Int, v # Collected, Settle(jobs, p, rej, v) PROVE Calm
  <2>1. /\ SameItems(promises, jobs, promises', jobs')
        /\ CleanPromises(promises) /\ CleanJobs(jobs) => CleanPromises(promises') /\ CleanJobs(jobs')
    BY <1>3, <1>5, InvSeqs, SettleLeads
  <2> QED BY <1>1, <1>2, <2>1, FlagsItself DEF Calm, Clean
<1>6. CASE jobs' = Append(jobs, ThenableJob(p, Thenable)) /\ promises' = promises
  <2> DEFINE j == ThenableJob(p, Thenable)
  <2>1. j \in JobData /\ j.job = "thenable" /\ j.arg # Collected
    BY <1>3, <1>4, ThenableJobIs DEF ThenableJob
  <2>2. jobs' = Append(jobs, j)
    BY <1>6
  <2> HIDE DEF j
  <2>3. SameItems(promises, jobs, promises, jobs') /\ (CleanJobs(jobs) => CleanJobs(jobs'))
    BY <2>1, <2>2, InvSeqs, QueueLeads
  <2> QED BY <1>1, <1>2, <1>6, <2>3, FlagsItself DEF Calm, Clean
<1> QED BY <1>1, <1>4, <1>5, <1>6

LEMMA FinallyReturnsCalm ==
  ASSUME Inv, NEW v \in known \cup {Plain}, FinallyReturns(v)
  PROVE  Calm
<1> DEFINE thunk == Fn(IF Top.rej THEN "throw" ELSE "value", 0, Top.arg)
           made == Append(promises, Ready)
<1>1. /\ stack # <<>> /\ Top.call = "onFinally" /\ combos' = combos
      /\ \/ /\ v \in known /\ Then(jobs, v, thunk, Undefined)
            /\ stack' = Append(Callers, [Frame("toFinally", Top.of) EXCEPT !.arg = Fresh])
         \/ /\ PerformThen(Append(made, Pending), jobs, Fresh, FreshPair, thunk, Undefined)
            /\ pairs' = Append(pairs, NewPair(Fresh + 1))
            /\ stack' = Append(Callers, [Frame("toFinally", Top.of) EXCEPT !.arg = Fresh + 1])
  BY DEF FinallyReturns, Returns, Then, Ready
<1>2. Top \in FrameData
  BY <1>1, CallableTop
<1>3. Top.of \in Nat /\ Top.arg \in Int
  BY <1>2 DEF FrameData
<1>4. /\ thunk \in Callables /\ Undefined \in Callables /\ ~IsElement(thunk) /\ ~IsElement(Undefined)
      /\ thunk.at = Top.arg /\ Undefined.at # Collected
  BY <1>3 DEF Fn, Undefined, Callables, Simple, IsElement, Collected
<1> HIDE DEF thunk
<1>5. ASSUME NEW q \in Nat
      PROVE  [Frame("toFinally", Top.of) EXCEPT !.arg = q] \in FrameData
             /\ [Frame("toFinally", Top.of) EXCEPT !.arg = q].call = "toFinally"
             /\ [Frame("toFinally", Top.of) EXCEPT !.arg = q].arg = q
  <2> DEFINE b == Frame("toFinally", Top.of)
  <2>1. b \in FrameData /\ b.call = "toFinally"
    BY <1>3 DEF Frame, FrameData, Plain
  <2> HIDE DEF b
  <2>2. [b EXCEPT !.arg = q] \in FrameData /\ [b EXCEPT !.arg = q].call = b.call /\ [b EXCEPT !.arg = q].arg = q
    BY <2>1 DEF FrameData
  <2> QED BY <2>1, <2>2 DEF b
<1>6. /\ SameLoops(stack, Callers) /\ Callers \in Seq(FrameData)
      /\ CleanStack(stack) => Top.arg # Collected /\ CleanStack(Callers)
  BY <1>1, CallersLead
<1>7. Fresh \in Nat /\ Fresh + 1 \in Nat /\ FreshPair \in Nat
  BY InvSeqs DEF Fresh, FreshPair
<1>8. SameLoops(stack, stack') /\ (CleanStack(stack) => CleanStack(stack'))
  <2>1. ASSUME NEW m \in FrameData, m.call = "toFinally", m.arg # Collected, stack' = Append(Callers, m)
        PROVE  SameLoops(stack, stack') /\ (CleanStack(stack) => CleanStack(stack'))
    <3>1. SameLoops(Callers, stack') /\ (CleanStack(Callers) => CleanStack(stack'))
      BY <1>6, <2>1, PushLeads
    <3> QED BY <1>6, <3>1, SameLoopsTwice
  <2>2. \E q \in Nat : stack' = Append(Callers, [Frame("toFinally", Top.of) EXCEPT !.arg = q])
    BY <1>1, <1>7
  <2>3. PICK q \in Nat : stack' = Append(Callers, [Frame("toFinally", Top.of) EXCEPT !.arg = q])
    BY <2>2
  <2>4. q # Collected
    BY DEF Collected
  <2> QED BY <1>5, <2>1, <2>3, <2>4
<1>9. jobs \in Seq(JobData)
  BY InvSeqs
<1>10. CASE v \in known /\ Then(jobs, v, thunk, Undefined)
  <2>1. v \in DOMAIN promises
    BY <1>10, InvTypes
  <2>2. /\ SameItems(promises, jobs, promises', jobs') /\ Flags(pairs, pairs')
        /\ CleanPromises(promises) /\ CleanJobs(jobs) /\ thunk.at # Collected =>
             CleanPromises(promises') /\ CleanJobs(jobs')
    BY <1>4, <1>9, <1>10, <2>1, ThenLeads
  <2> QED BY <1>1, <1>4, <1>6, <1>8, <2>2 DEF Calm, Clean
<1>11. CASE /\ PerformThen(Append(made, Pending), jobs, Fresh, FreshPair, thunk, Undefined)
            /\ pairs' = Append(pairs, NewPair(Fresh + 1))
  <2> DEFINE ps == Append(made, Pending)
  <2>1. /\ Pending \in JSPromiseData /\ Pending.reactions = <<>> /\ Pending.result # Collected
        /\ Ready \in JSPromiseData /\ Ready.reactions = <<>> /\ Ready.result # Collected
    BY PendingIs DEF Pending, Ready, Plain, Collected
  <2>2. made \in Seq(JSPromiseData) /\ Longer(promises, made, Ready)
    BY <2>1, InvSeqs, AppendIs
  <2>3. SameItems(promises, jobs, made, jobs) /\ (CleanPromises(promises) => CleanPromises(made))
    BY <2>1, InvSeqs, NewLeads
  <2> HIDE DEF made
  <2>4. /\ ps \in Seq(JSPromiseData) /\ Longer(made, ps, Pending) /\ SameItems(made, jobs, ps, jobs)
        /\ CleanPromises(made) => CleanPromises(ps)
    BY <2>1, <2>2, AppendIs, NewLeads
  <2>5. PerformThen(ps, jobs, Fresh, FreshPair, thunk, Undefined)
    BY <1>11
  <2> HIDE DEF ps
  <2>6. Fresh \in DOMAIN ps /\ ps[Fresh] \in JSPromiseData
    <3>1. Len(made) \in Nat /\ Len(made) = Fresh /\ DOMAIN ps = 1..(Len(made) + 1)
      BY <2>2, <2>4, InvSeqs DEF Longer, Fresh
    <3>2. Fresh \in DOMAIN ps
      BY <1>7, <3>1, InvSeqs DEF Fresh
    <3> QED BY <2>4, <3>2, Domain
  <2>7. SameItems(ps, jobs, promises', jobs')
    BY <1>4, <1>7, <1>9, <2>5, <2>6, PerformLeads
  <2>8. CleanPromises(ps) /\ CleanJobs(jobs) /\ thunk.at # Collected => CleanPromises(promises') /\ CleanJobs(jobs')
    BY <1>4, <1>7, <1>9, <2>5, <2>6, PerformClean
  <2>9. SameItems(promises, jobs, promises', jobs')
    BY <2>3, <2>4, <2>7, SameItemsTwice
  <2>10. Flags(pairs, pairs')
    <3>1. NewPair(Fresh + 1) \in PairData
      BY <1>7, NewPairIs
    <3> QED BY <1>11, <3>1, InvSeqs, MoreFlags
  <2> QED BY <1>1, <1>4, <1>6, <1>8, <2>3, <2>4, <2>8, <2>9, <2>10 DEF Calm, Clean
<1> QED BY <1>1, <1>10, <1>11

LEMMA ReactionPassesCalm ==
  ASSUME Inv, ReactionPasses
  PROVE  Calm
<1> DEFINE none == Job.handler.fn = "undefined"
           rej == IF none THEN Job.rej ELSE Job.handler.fn = "throw"
           v == IF none THEN Job.arg ELSE Job.handler.at
           cap == Job.cap
           st == <<>>
<1>1. IsReaction({"undefined", "value", "throw"}) /\ CallCapability(Rest, st, cap, rej, v) /\ combos' = combos
  BY DEF ReactionPasses
<1>2. stack = <<>> /\ Job.handler.fn \in {"undefined", "value", "throw"} /\ Job \in ReactionJobs /\ Capability(pairs, cap)
  BY <1>1, ReactionBegins
<1>3. jobs # <<>> /\ ~IsElement(Job.handler) /\ Job.job = "reaction"
  BY <1>1, <1>2 DEF IsReaction, IsElement
<1>4. /\ SameItems(promises, jobs, promises, Rest) /\ Rest \in Seq(JobData)
      /\ CleanJobs(jobs) => Job.arg # Collected /\ CleanJobs(Rest) /\ Job.handler.at # Collected
  BY <1>3, RestLead
<1>5. rej \in BOOLEAN /\ v \in Int /\ (CleanJobs(jobs) => v # Collected) /\ (cap = 0 \/ cap \in DOMAIN pairs)
  BY <1>2, <1>4 DEF ReactionJobs, Callables, Capability, Public
<1>6. SameLoops(stack, st) /\ CleanStack(st) /\ st \in Seq(FrameData)
  BY <1>2, EmptySeq, LeadsItself DEF CleanStack
<1> HIDE DEF rej, v, cap, none, st
<1>7. Clean(promises, jobs, stack) => CleanJobs(Rest) /\ CleanStack(st) /\ v # Collected
  BY <1>4, <1>5, <1>6 DEF Clean
<1> QED BY <1>1, <1>4, <1>5, <1>6, <1>7, CapabilityCalm

LEMMA ReactionCallsProgramCalm ==
  ASSUME Inv, ReactionCallsProgram
  PROVE  Calm
<1> DEFINE h == Job.handler
           fns == {"user", "asyncResolve", "asyncReject", "finally"}
           m == CASE h.fn = "user" -> Frame("handler", Job.cap)
                  [] h.fn = "finally" -> [call |-> "onFinally", of |-> Job.cap, rej |-> Job.rej, arg |-> Job.arg]
                  [] OTHER -> Frame("async", h.of)
<1>1. /\ IsReaction(fns) /\ stack' = <<m>> /\ jobs' = Rest /\ promises' = promises /\ pairs' = pairs
      /\ combos' = combos
  BY DEF ReactionCallsProgram
<1>2. stack = <<>> /\ h.fn \in fns /\ Job \in ReactionJobs
  BY <1>1, ReactionBegins
<1>3. jobs # <<>> /\ ~IsElement(h)
  BY <1>1, <1>2 DEF IsReaction, IsElement
<1>4. /\ SameItems(promises, jobs, promises, Rest)
      /\ CleanJobs(jobs) => Job.arg # Collected /\ CleanJobs(Rest)
  BY <1>3, RestLead
<1>5. h \in Callables /\ h.of \in Nat /\ Job.cap \in Nat /\ Job.rej \in BOOLEAN /\ Job.arg \in Int
  BY <1>2 DEF ReactionJobs, Callables
<1>6. m \in FrameData /\ m.call # "all" /\ m.arg \in {Plain, Job.arg}
  <2>1. CASE h.fn = "user"
    <3>1. m = Frame("handler", Job.cap)
      BY <2>1
    <3> HIDE DEF m
    <3> QED BY <1>5, <3>1 DEF Frame, FrameData, UserCalls, Plain
  <2>2. CASE h.fn = "finally"
    <3>1. m = [call |-> "onFinally", of |-> Job.cap, rej |-> Job.rej, arg |-> Job.arg]
      BY <2>2
    <3> HIDE DEF m
    <3> QED BY <1>5, <3>1 DEF FrameData, UserCalls
  <2>3. CASE h.fn \in {"asyncResolve", "asyncReject"}
    <3>1. m = Frame("async", h.of)
      BY <2>3
    <3> HIDE DEF m
    <3> QED BY <1>5, <3>1 DEF Frame, FrameData, UserCalls, Plain
  <2> QED BY <1>2, <2>1, <2>2, <2>3
<1> HIDE DEF m, h
<1>7. SameLoops(stack, stack') /\ (m.arg # Collected => CleanStack(stack'))
  BY <1>1, <1>2, <1>6, OneLeads
<1>8. CleanJobs(jobs) => CleanStack(stack') /\ CleanJobs(jobs')
  BY <1>1, <1>4, <1>6, <1>7 DEF Plain, Collected
<1> QED BY <1>1, <1>4, <1>7, <1>8, FlagsItself DEF Calm, Clean

\* A resolving function, called by the program or as a handler.
LEMMA CallHeldCalm ==
  ASSUME Inv, NEW h \in held, NEW v \in Given, CallHeld(h, v), ~IsElement(h)
  PROVE  Calm
<1>1. HeldOk(pairs, combos, h) /\ \A c \in DOMAIN combos : Public(pairs, combos[c].cap) /\ combos[c].type \in CombinatorTypes
  BY InvTypes, Facts DEF Refs, ComboData
<1>2. h.fn \in {"resolve", "reject"} /\ Public(pairs, h.of)
  BY <1>1, HeldCases DEF IsElement
<1> DEFINE cap == h.of
           rej == h.fn = "reject"
<1>3. CallResolving(jobs, stack, cap, rej, v) /\ combos' = combos /\ cap \in DOMAIN pairs /\ rej \in BOOLEAN
  BY <1>2 DEF CallHeld, CallNative, Public
<1>4. cap # 0
  BY <1>3, InvSeqs
<1> HIDE DEF cap, rej
<1>5. CallCapability(jobs, stack, cap, rej, v)
  BY <1>3, <1>4 DEF CallCapability
<1>6. v \in Int /\ v # Collected
  BY GivenClean
<1>7. Clean(promises, jobs, stack) => CleanJobs(jobs) /\ CleanStack(stack) /\ v # Collected
  BY <1>6 DEF Clean
<1> QED BY <1>3, <1>5, <1>6, <1>7, InvSeqs, LeadsItself, CapabilityCalm

LEMMA ReactionCallsNativeCalm ==
  ASSUME Inv, ReactionCallsNative, ~IsElement(Job.handler)
  PROVE  Calm
<1> DEFINE m == Frame("native", Job.cap)
           cap == Job.handler.of
           rej == Job.handler.fn = "reject"
           v == Job.arg
           st == <<m>>
<1>1. IsReaction({"resolve", "reject", "element", "rejectElement"}) /\ CallNative(Rest, st, Job.handler, v)
  BY DEF ReactionCallsNative
<1>2. /\ stack = <<>> /\ Job.handler.fn \in {"resolve", "reject", "element", "rejectElement"} /\ Job \in ReactionJobs
      /\ Job.handler.fn \in {"resolve", "reject"} => cap \in DOMAIN pairs
  BY <1>1, ReactionBegins
<1>3. jobs # <<>> /\ Job.handler.fn \in {"resolve", "reject"} /\ cap \in DOMAIN pairs /\ rej \in BOOLEAN
  BY <1>1, <1>2 DEF IsReaction, IsElement
<1>4. CallResolving(Rest, st, cap, rej, v) /\ combos' = combos
  BY <1>1, <1>3 DEF CallNative
<1>5. m \in FrameData /\ m.call # "all" /\ m.arg # Collected /\ v \in Int
  BY <1>2 DEF ReactionJobs, Frame, FrameData, Plain, Collected
<1>6. /\ SameItems(promises, jobs, promises, Rest) /\ Rest \in Seq(JobData)
      /\ CleanJobs(jobs) => v # Collected /\ CleanJobs(Rest)
  BY <1>3, RestLead
<1>7. cap # 0
  BY <1>3, InvSeqs
<1> HIDE DEF m, cap, rej, v
<1>8. SameLoops(stack, st) /\ CleanStack(st) /\ st \in Seq(FrameData)
  BY <1>2, <1>5, OneLeads
<1> HIDE DEF st
<1>9. CallCapability(Rest, st, cap, rej, v)
  BY <1>4, <1>7 DEF CallCapability
<1>10. Clean(promises, jobs, stack) => CleanJobs(Rest) /\ CleanStack(st) /\ v # Collected
  BY <1>6, <1>8 DEF Clean
<1> QED BY <1>3, <1>4, <1>5, <1>6, <1>8, <1>9, <1>10, CapabilityCalm

LEMMA ThenableRest ==
  ASSUME Inv, IsThenable
  PROVE  /\ SameItems(promises, jobs, promises, Rest) /\ Rest \in Seq(JobData)
         /\ CleanJobs(jobs) => CleanJobs(Rest)
<1>1. jobs # <<>> /\ Job.job = "thenable"
  BY DEF IsThenable
<1> QED BY <1>1, RestLead

LEMMA ThenableIsPromiseCalm ==
  ASSUME Inv, ThenableIsPromise
  PROVE  Calm
<1> DEFINE e == [NewPair(Job.promise) EXCEPT !.follows = Job.arg]
           d == NewPair(Fresh)
           g == Fn("resolve", FreshPair, 0)
           h == Fn("reject", FreshPair, 0)
           a == Job.arg
           ps == Append(promises, Pending)
<1>1. /\ IsThenable /\ a # Thenable
      /\ pairs' = pairs \o <<e, d>>
      /\ PerformThen(ps, Rest, a, FreshPair + 1, g, h)
      /\ stack' = stack /\ combos' = combos
  BY DEF ThenableIsPromise, WithFresh
<1>2. Job.promise \in Nat /\ a \in DOMAIN promises /\ a \in Nat
  BY <1>1, ThenableBegins
<1>3. Fresh \in Nat /\ FreshPair \in Nat /\ FreshPair + 1 \in Nat
  BY InvSeqs DEF Fresh, FreshPair
<1>4. e \in PairData /\ d \in PairData
  <2> DEFINE b == NewPair(Job.promise)
  <2>1. b \in PairData
    BY <1>2, NewPairIs
  <2> HIDE DEF b
  <2>2. [b EXCEPT !.follows = a] \in PairData
    BY <1>2, <2>1 DEF PairData
  <2>3. d \in PairData
    BY <1>3, NewPairIs
  <2> QED BY <2>2, <2>3 DEF b
<1> HIDE DEF e, d
<1>5. Flags(pairs, pairs')
  <2> DEFINE qrs == Append(pairs, e)
  <2>1. pairs' = Append(qrs, d)
    <3>1. pairs \in Seq(PairData)
      BY InvSeqs
    <3>2. pairs \o <<e, d>> = Append(Append(pairs, e), d)
      BY ONLY <1>4, <3>1, TwoMore
    <3> QED BY <1>1, <3>2
  <2>2. Flags(pairs, qrs) /\ qrs \in Seq(PairData)
    BY <1>4, InvSeqs, MoreFlags, AppendIs
  <2> HIDE DEF qrs
  <2>3. Flags(qrs, pairs')
    BY <1>4, <2>1, <2>2, MoreFlags
  <2> QED BY <2>2, <2>3 DEF Flags
<1>6. Pending \in JSPromiseData /\ Pending.reactions = <<>> /\ Pending.result # Collected
  BY PendingIs DEF Pending, Plain, Collected
<1>7. SameItems(promises, Rest, ps, Rest) /\ (CleanPromises(promises) => CleanPromises(ps))
  BY <1>6, InvSeqs, NewLeads
<1>8. a \in DOMAIN ps /\ ps[a] \in JSPromiseData
  <2>1. ps \in Seq(JSPromiseData) /\ Longer(promises, ps, Pending)
    BY <1>6, InvSeqs, AppendIs
  <2>2. a \in DOMAIN ps
    <3> HIDE DEF ps, a
    <3> QED BY <1>2, <2>1, InvSeqs DEF Longer
  <2> HIDE DEF ps
  <2> QED BY <2>1, <2>2, Domain
<1>9. g \in Callables /\ h \in Callables /\ ~IsElement(g) /\ ~IsElement(h) /\ g.at # Collected /\ h.at # Collected
  BY <1>3 DEF Fn, Callables, IsElement, Collected
<1>10. SameItems(promises, jobs, promises, Rest) /\ Rest \in Seq(JobData) /\ (CleanJobs(jobs) => CleanJobs(Rest))
  BY <1>1, ThenableRest
<1> HIDE DEF g, h, ps, a
<1>11. SameItems(ps, Rest, promises', jobs')
  BY <1>1, <1>2, <1>3, <1>8, <1>9, <1>10, PerformLeads
<1>12. CleanPromises(ps) /\ CleanJobs(Rest) => CleanPromises(promises') /\ CleanJobs(jobs')
  BY <1>1, <1>2, <1>3, <1>8, <1>9, <1>10, PerformClean
<1>13. SameItems(promises, jobs, promises', jobs')
  BY <1>7, <1>10, <1>11, SameItemsTwice
<1> QED BY <1>1, <1>5, <1>7, <1>10, <1>12, <1>13, LeadsItself DEF Calm, Clean

LEMMA ThenableIsForeignCalm ==
  ASSUME Inv, ThenableIsForeign
  PROVE  Calm
<1> DEFINE m == Frame("foreignThen", FreshPair)
           e == NewPair(Job.promise)
<1>1. /\ IsThenable /\ pairs' = Append(pairs, e) /\ stack' = <<m>> /\ jobs' = Rest /\ promises' = promises
      /\ combos' = combos
  BY DEF ThenableIsForeign
<1>2. stack = <<>> /\ Job.promise \in Nat
  BY <1>1, ThenableBegins
<1>3. FreshPair \in Nat
  BY InvSeqs DEF FreshPair
<1>4. m \in FrameData /\ m.call # "all" /\ m.arg # Collected
  BY <1>3 DEF Frame, FrameData, UserCalls, Plain, Collected
<1>5. e \in PairData
  BY <1>2, NewPairIs
<1> HIDE DEF m, e
<1>6. SameLoops(stack, stack') /\ CleanStack(stack')
  BY <1>1, <1>2, <1>4, OneLeads
<1>7. Flags(pairs, pairs')
  BY <1>1, <1>5, InvSeqs, MoreFlags
<1>8. SameItems(promises, jobs, promises, Rest) /\ (CleanJobs(jobs) => CleanJobs(Rest))
  BY <1>1, ThenableRest
<1> QED BY <1>1, <1>6, <1>7, <1>8 DEF Calm, Clean

-----------------------------------------------------------------------------
(***************************************************************************)
(* What a combinator counted.  No item is called twice, unless a foreign   *)
(* promise called both of its functions.                                   *)
(***************************************************************************)

\* Unless a foreign promise called both of its functions, no item is called twice.
LEMMA CalledOnce ==
  ASSUME NEW e \in ComboData, NEW l, ItemsCounted(e, l), Answering(e), ~Twice(e)
  PROVE  /\ Cardinality(e.called) <= e.n
         /\ Cardinality(e.called) = e.n => e.answered = 1..e.n
<1> DEFINE S == e.called
           T == e.answered
           f == [x \in S |-> x[2]]
<1>1. IsFiniteSet(S) /\ Cardinality(S) \in Nat /\ e.n \in Nat
  BY CalledFinite
<1>2. /\ S \subseteq {"element", "rejectElement"} \X (1..e.n)
      /\ e.foreign \subseteq 1..e.n
  BY DEF ItemsCounted
<1>3. T = {x[2] : x \in S}
  BY DEF Answering
<1>4. ASSUME NEW x \in S, NEW y \in S, x[2] = y[2] PROVE x = y
  <2>1. /\ x[1] \in {"element", "rejectElement"} /\ x = <<x[1], x[2]>> /\ x[2] \in 1..e.n
        /\ y[1] \in {"element", "rejectElement"} /\ y = <<y[1], y[2]>>
    BY <1>2
  <2>2. CASE e.type # "allSettled"
    <3>1. x[1] = "element" /\ y[1] = "element"
      BY <2>2 DEF Answering
    <3> QED BY <1>4, <2>1, <3>1
  <2>3. CASE e.type = "allSettled"
    <3>1. ~BothCalled(e)
      BY <2>3 DEF Twice
    <3>2. ~(<<"element", x[2]>> \in S /\ <<"rejectElement", x[2]>> \in S)
      <4>1. CASE x[2] \in e.foreign
        BY <3>1, <4>1 DEF BothCalled
      <4>2. CASE x[2] \notin e.foreign
        BY <2>1, <4>2 DEF Answering
      <4> QED BY <4>1, <4>2
    <3> QED BY <1>4, <2>1, <3>2
  <2> QED BY <2>2, <2>3
<1>5. f \in [S -> T] /\ \A t \in T : \E x \in S : f[x] = t
  BY <1>3
<1>6. \A x, y \in S : f[x] = f[y] => x = y
  BY <1>4
<1>7. T \in SUBSET (1..e.n)
  BY <1>2, <1>3
<1> HIDE DEF f, S, T
<1>8. f \in Surjection(S, T) /\ f \in Injection(S, T)
  BY <1>5, <1>6 DEF Injection, Surjection, IsInjective
<1>9. IsFiniteSet(T) /\ Cardinality(T) = Cardinality(S)
  BY <1>1, <1>8, FS_Surjection
<1>10. IsFiniteSet(1..e.n) /\ Cardinality(1..e.n) = e.n
  <2>1. 1 \in Int /\ e.n \in Int
    BY <1>1
  <2>2. IsFiniteSet(1..e.n) /\ Cardinality(1..e.n) = IF 1 > e.n THEN 0 ELSE e.n - 1 + 1
    BY ONLY <2>1, FS_Interval
  <2> QED BY <1>1, <2>2
<1>11. Cardinality(T) <= Cardinality(1..e.n) /\ (Cardinality(1..e.n) = Cardinality(T) => 1..e.n = T)
  BY <1>7, <1>10, FS_Subset
<1> QED BY <1>9, <1>10, <1>11 DEF S, T

\* More items and more calls: what was called twice stays so.
LEMMA TwiceStays ==
  ASSUME NEW b, NEW e, Twice(b),
         e.type = b.type, b.foreign \subseteq e.foreign, b.called \subseteq e.called
  PROVE  Twice(e)
  BY DEF Twice, BothCalled

\* What is known of the combinator c, which is the only one.
Alone(c) == c \in DOMAIN combos /\ \A d \in DOMAIN combos : d = c

LEMMA TheOne ==
  ASSUME Inv, Gathers, NEW c \in DOMAIN combos
  PROVE  /\ Alone(c) /\ combos \in Seq(ComboData) /\ c \in Nat /\ combos[c] \in ComboData
         /\ Public(pairs, combos[c].cap) /\ combos[c].cap \in DOMAIN pairs
         /\ ItemsCounted(combos[c], Loops(stack, c))
         /\ Answering(combos[c]) /\ Left(combos[c], pairs[combos[c].cap].resolved, Loops(stack, c))
         /\ combos[c].type = "allSettled" =>
              c \in Settling /\ \A i \in Native(combos, c) : ItemOnce(promises, jobs, combos[c], c, i)
         /\ Clean(promises, jobs, stack) \/ Over(stack, c, combos[c])
<1>1. Types(promises, pairs, combos, jobs, stack, known, held, calls) /\ Counts(combos, stack)
  BY DEF Inv, Good
<1>2. /\ Len(combos) \in Nat /\ DOMAIN combos = 1..Len(combos) /\ combos[c] \in ComboData
      /\ combos \in Seq(ComboData)
  BY <1>1, Facts DEF Types
<1>3. Alone(c) /\ c \in Nat
  BY <1>2 DEF Alone, Gathers
<1>4. Public(pairs, combos[c].cap) /\ combos[c].cap \in DOMAIN pairs
  BY DEF Inv, Good, Refs, Public
<1>5. ItemsCounted(combos[c], Loops(stack, c))
  BY <1>1 DEF Counts
<1>6. Answering(combos[c]) /\ Left(combos[c], pairs[combos[c].cap].resolved, Loops(stack, c))
  BY DEF Gathers, Counting
<1>7. combos[c].type = "allSettled" =>
        c \in Settling /\ \A i \in Native(combos, c) : ItemOnce(promises, jobs, combos[c], c, i)
  BY DEF Gathers, ItemsOnce, Settling
<1>8. Clean(promises, jobs, stack) \/ Over(stack, c, combos[c])
  BY DEF Gathers, Spread
<1> QED BY <1>2, <1>3, <1>4, <1>5, <1>6, <1>7, <1>8

\* A step that changes it.
LEMMA OneChanges ==
  ASSUME NEW c, Alone(c), Gathers, NEW e, combos' = [combos EXCEPT ![c] = e], combos \in Seq(ComboData), e \in ComboData,
         Answering(e), Left(e, pairs'[e.cap].resolved, Loops(stack', c)),
         e.type = "allSettled" =>
           \A i \in (1..e.n) \ e.foreign : ItemOnce(promises', jobs', e, c, i),
         Clean(promises', jobs', stack') \/ Over(stack', c, e)
  PROVE  Gathers'
<1>1. Changed(combos, combos', c, e)
  BY ExceptIs DEF Alone
<1>2. DOMAIN combos' = DOMAIN combos /\ combos'[c] = e /\ c \in DOMAIN combos' /\ \A d \in DOMAIN combos' : d = c
  BY <1>1 DEF Changed, Alone
<1>3. (Len(combos) <= 1)'
  BY <1>1 DEF Changed, Gathers
<1>4. Counting'
  BY <1>2 DEF Counting
<1>5. ItemsOnce'
  BY <1>2 DEF ItemsOnce, Settling, Native
<1>6. combos' # <<>>
  BY <1>2
<1>7. Spread'
  BY <1>2, <1>6 DEF Spread
<1> QED BY <1>3, <1>4, <1>5, <1>7 DEF Gathers

-----------------------------------------------------------------------------
(* The combinator does what it does, and Gathers is kept. *)

LEMMA OneStays ==
  ASSUME NEW c, Alone(c), Gathers, combos' = combos, combos \in Seq(ComboData), combos[c] \in ComboData,
         Answering(combos[c]), Left(combos[c], pairs'[combos[c].cap].resolved, Loops(stack', c)),
         combos[c].type = "allSettled" =>
           \A i \in (1..combos[c].n) \ combos[c].foreign : ItemOnce(promises', jobs', combos[c], c, i),
         Clean(promises', jobs', stack') \/ Over(stack', c, combos[c])
  PROVE  Gathers'
<1> DEFINE e == combos[c]
<1>1. combos' = [combos EXCEPT ![c] = e]
  <2>1. [combos EXCEPT ![c] = combos[c]] = combos
    BY Domain
  <2> QED BY <2>1
<1>2. /\ e \in ComboData /\ Answering(e) /\ Left(e, pairs'[e.cap].resolved, Loops(stack', c))
      /\ e.type = "allSettled" => \A i \in (1..e.n) \ e.foreign : ItemOnce(promises', jobs', e, c, i)
      /\ Clean(promises', jobs', stack') \/ Over(stack', c, e)
  OBVIOUS
<1> HIDE DEF e
<1> QED BY <1>1, <1>2, OneChanges

LEMMA SameOnce ==
  ASSUME NEW c \in Settling, NEW qs, NEW ks, SameItems(promises, jobs, qs, ks),
         NEW i, NEW e, NEW d, ItemOnce(promises, jobs, e, c, i), i \notin e.answered => i \notin d.answered
  PROVE  ItemOnce(qs, ks, d, c, i)
<1>1. \A p, n : Expects(qs, ks, El(c, i), RejEl(c, i), p, n) <=>
                Expects(promises, jobs, El(c, i), RejEl(c, i), p, n)
  BY DEF SameItems
<1> QED BY <1>1, SameItem

\* The loop is the call on top.
LEMMA LoopOnTop ==
  ASSUME Inv, NEW c, OnTop("all"), Top.of = c
  PROVE  /\ stack # <<>> /\ Loops(stack, c) /\ ~Loops(Callers, c) /\ Callers \in Seq(FrameData)
<1>1. stack \in Seq(FrameData) /\ Below(stack) /\ Counts(combos, stack)
  BY InvSeqs DEF Inv, Good
<1>2. stack # <<>> /\ stack[Len(stack)].call = "all" /\ stack[Len(stack)].of = c
  BY DEF OnTop, Top
<1>3. Callers \in Seq(FrameData) /\ Front(stack, Callers) /\ Len(stack) \in DOMAIN stack
  BY <1>1, <1>2, FrontIs DEF Callers
<1>4. \A i \in DOMAIN Callers : i \in DOMAIN stack /\ Callers[i] = stack[i] /\ i # Len(stack)
  BY ONLY <1>1, <1>2, <1>3, FrontBelow
<1> QED BY <1>1, <1>2, <1>3, <1>4 DEF Loops, Below

LEMMA CombineGathers ==
  ASSUME Inv, Gathers, NEW type \in CombinatorTypes, Combine(type)
  PROVE  Gathers'
<1> DEFINE m == Frame("all", 1)
           b == NewCombo(type, FreshPair)
<1>1. /\ combos = <<>> /\ promises' = Append(promises, Pending) /\ jobs' = jobs
      /\ stack' = Append(stack, m) /\ combos' = <<b>>
  <2>1. combos = <<>>
    BY DEF Combine, NoCombinator
  <2>2. Len(combos) + 1 = 1 /\ Append(combos, b) = <<b>>
    BY <2>1
  <2> QED BY <2>1, <2>2 DEF Combine, NewCombo, WithFresh
<1>2. m \in FrameData /\ m.call = "all" /\ m.of = 1 /\ m.arg # Collected
  BY DEF Frame, FrameData, Plain, Collected
<1>3. /\ b.type = type /\ b.remaining = 1 /\ b.n = 0 /\ b.called = {} /\ b.answered = {} /\ b.foreign = {}
  BY DEF NewCombo
<1> HIDE DEF b, m
<1>4. DOMAIN combos' = {1} /\ combos'[1] = b /\ combos' # <<>> /\ Len(combos') = 1
  BY <1>1
<1>5. Clean(promises, jobs, stack)
  BY <1>1 DEF Gathers, Spread
<1>6. Clean(promises', jobs', stack')
  <2>1. Pending \in JSPromiseData /\ Pending.reactions = <<>> /\ Pending.result # Collected
    BY PendingIs DEF Pending, Plain, Collected
  <2>2. CleanPromises(promises')
    BY <1>1, <1>5, <2>1, InvSeqs, NewLeads DEF Clean
  <2>3. CleanStack(stack')
    BY <1>1, <1>2, <1>5, InvSeqs, PushLeads DEF Clean
  <2> QED BY <1>1, <1>5, <2>2, <2>3 DEF Clean
<1>7. Loops(stack', 1)
  <2> DEFINE su == Append(stack, m)
  <2>1. Longer(stack, su, m) /\ Len(stack) \in Nat
    BY <1>2, InvSeqs, AppendIs, LenProperties
  <2> HIDE DEF su
  <2>2. Len(stack) + 1 \in DOMAIN su /\ su[Len(stack) + 1] = m
    BY <2>1 DEF Longer
  <2> QED BY <1>1, <1>2, <2>2 DEF Loops, su
<1>8. Counting'
  <2>1. Answering(b)
    BY <1>3 DEF Answering
  <2>2. Cardinality(b.called) = 0
    BY <1>3, FS_EmptySet
  <2>3. \A r : Left(b, r, Loops(stack', 1))
    BY <1>3, <1>7, <2>2 DEF Left
  <2> QED BY <1>4, <2>1, <2>3 DEF Counting
<1>9. ItemsOnce'
  <2>1. Native(combos', 1) = {}
    BY <1>3, <1>4 DEF Native
  <2> QED BY <1>4, <2>1 DEF ItemsOnce, Settling
<1> QED BY <1>4, <1>6, <1>8, <1>9 DEF Gathers, Spread

LEMMA ItemIsForeignGathers ==
  ASSUME Inv, Gathers, ItemIsForeign
  PROVE  Gathers'
<1>1. PICK c \in DOMAIN combos :
        /\ NextItem(c)
        /\ combos' = [Counted(c) EXCEPT ![c].foreign = @ \cup {combos[c].n + 1}]
        /\ stack' = Append(stack, Frame("itemThen", c))
        /\ promises' = promises /\ pairs' = pairs /\ jobs' = jobs
  BY DEF ItemIsForeign
<1> DEFINE b == combos[c]
           i == b.n + 1
           e == Count(b, {i})
           m == Frame("itemThen", c)
<1>2. /\ Alone(c) /\ combos \in Seq(ComboData) /\ c \in Nat /\ b \in ComboData
      /\ ItemsCounted(b, Loops(stack, c))
      /\ Answering(b) /\ Left(b, pairs[b.cap].resolved, Loops(stack, c))
      /\ b.type = "allSettled" =>
           c \in Settling /\ \A k \in Native(combos, c) : ItemOnce(promises, jobs, b, c, k)
      /\ Clean(promises, jobs, stack) \/ Over(stack, c, b)
  BY TheOne
<1>3. combos' = [combos EXCEPT ![c] = e]
  BY <1>1, <1>2, CountedIs
<1>4. OnTop("all") /\ Top.of = c
  BY <1>1 DEF NextItem
<1>5. Loops(stack, c)
  BY <1>4, LoopOnTop
<1>6. m \in FrameData /\ m.call = "itemThen" /\ m.arg # Collected
  BY <1>2 DEF Frame, FrameData, UserCalls, Plain, Collected
<1>7. Native(combos, c) = (1..b.n) \ b.foreign
  BY DEF Native
<1> HIDE DEF m
<1>8. SameLoops(stack, stack') /\ (CleanStack(stack) => CleanStack(stack'))
  BY <1>1, <1>6, InvSeqs, PushLeads DEF m
<1>9. Loops(stack', c)
  BY <1>5, <1>8 DEF SameLoops
<1> HIDE DEF b
<1>10. b.n \in Nat /\ b.remaining \in Int /\ Cardinality(b.called) \in Nat /\ b.foreign \subseteq 1..b.n
  BY <1>2, CalledFinite DEF ItemsCounted
<1>11. {i} \in SUBSET Nat
  BY <1>10
<1>12. /\ e \in ComboData /\ e.type = b.type /\ e.cap = b.cap /\ e.n = b.n + 1
       /\ e.foreign = b.foreign \cup {i} /\ e.called = b.called /\ e.answered = b.answered
       /\ e.remaining = IF b.type = "race" THEN b.remaining ELSE b.remaining + 1
  BY <1>2, <1>11, CountIs
<1> HIDE DEF e
<1>13. (1..e.n) \ e.foreign = (1..b.n) \ b.foreign
  BY <1>10, <1>12
<1>14. Answering(e)
  BY <1>2, <1>12, <1>13 DEF Answering
<1>15. Left(e, pairs'[e.cap].resolved, Loops(stack', c))
  <2>1. Left(b, pairs[b.cap].resolved, TRUE)
    BY <1>2, <1>5 DEF Left
  <2> QED BY <1>1, <1>9, <1>10, <1>12, <2>1 DEF Left
<1>16. ASSUME e.type = "allSettled", NEW k \in (1..e.n) \ e.foreign
       PROVE  ItemOnce(promises', jobs', e, c, k)
  <2>1. c \in Settling /\ ItemOnce(promises, jobs, b, c, k)
    BY <1>2, <1>7, <1>12, <1>13, <1>16
  <2> QED BY <1>1, <1>12, <2>1, LeadsItself, SameOnce
<1>17. Clean(promises', jobs', stack') \/ Over(stack', c, e)
  <2>1. CASE Clean(promises, jobs, stack)
    BY <1>1, <1>8, <2>1 DEF Clean
  <2>2. CASE Over(stack, c, b)
    <3>1. Twice(b)
      BY <1>5, <2>2 DEF Over
    <3>2. Twice(e)
      BY <1>12, <3>1, TwiceStays
    <3> QED BY <3>2 DEF Over
  <2> QED BY <1>2, <2>1, <2>2
<1> QED BY <1>2, <1>3, <1>12, <1>14, <1>15, <1>16, <1>17, OneChanges

LEMMA LoopOverIs ==
  ASSUME NEW b \in ComboData, b.type # "race"
  PROVE  LET e == LoopOver(b) IN
         /\ e \in ComboData /\ e.type = b.type /\ e.cap = b.cap /\ e.n = b.n
         /\ e.foreign = b.foreign /\ e.called = b.called /\ e.answered = b.answered
         /\ e.remaining = b.remaining - 1
<1> DEFINE r == b.remaining - 1
           e == LoopOver(b)
<1>1. r \in Int
  BY DEF ComboData
<1>2. e = [b EXCEPT !.remaining = r]
  BY DEF LoopOver
<1> HIDE DEF r, e
<1>3. /\ e \in ComboData /\ e.type = b.type /\ e.cap = b.cap /\ e.n = b.n
      /\ e.foreign = b.foreign /\ e.called = b.called /\ e.answered = b.answered /\ e.remaining = r
  BY <1>1, <1>2 DEF ComboData
<1> QED BY <1>3 DEF r, e

\* When nothing is left, every item has answered.
LEMMA AllAnswered ==
  ASSUME NEW e \in ComboData, NEW l, ItemsCounted(e, l), Answering(e), Cardinality(e.called) = e.n
  PROVE  e.answered = 1..e.n \/ Twice(e)
  BY CalledOnce

LEMMA ItemsEndGathers ==
  ASSUME Inv, Gathers, ItemsEnd
  PROVE  Gathers'
<1>1. PICK c \in DOMAIN combos :
        /\ OnTop("all") /\ Top.of = c
        /\ \/ /\ combos[c].type = "race"
              /\ stack' = Callers /\ promises' = promises /\ pairs' = pairs /\ jobs' = jobs /\ combos' = combos
           \/ /\ combos[c].type # "race"
              /\ combos' = [combos EXCEPT ![c].remaining = @ - 1]
              /\ \/ /\ combos[c].remaining = 1
                    /\ CallResolving(jobs, Callers, combos[c].cap, combos[c].type = "any", Collected)
                 \/ /\ combos[c].remaining # 1
                    /\ stack' = Callers /\ promises' = promises /\ pairs' = pairs /\ jobs' = jobs
  BY DEF ItemsEnd
<1> DEFINE b == combos[c]
           e == LoopOver(b)
<1>2. /\ Alone(c) /\ combos \in Seq(ComboData) /\ c \in Nat /\ b \in ComboData /\ b.cap \in DOMAIN pairs
      /\ ItemsCounted(b, Loops(stack, c))
      /\ Answering(b) /\ Left(b, pairs[b.cap].resolved, Loops(stack, c))
      /\ b.type = "allSettled" =>
           c \in Settling /\ \A k \in Native(combos, c) : ItemOnce(promises, jobs, b, c, k)
      /\ Clean(promises, jobs, stack) \/ Over(stack, c, b)
  BY TheOne
<1>3. stack # <<>> /\ Loops(stack, c) /\ ~Loops(Callers, c) /\ Callers \in Seq(FrameData)
  BY <1>1, LoopOnTop
<1>4. CleanStack(stack) => CleanStack(Callers)
  BY <1>3, CallersLead
<1>5. Native(combos, c) = (1..b.n) \ b.foreign
  BY DEF Native
<1>6. CASE b.type = "race"
  <2>1. stack' = Callers /\ promises' = promises /\ pairs' = pairs /\ jobs' = jobs /\ combos' = combos
    BY <1>1, <1>6
  <2>2. ~Over(stack, c, b)
    BY <1>3, <1>6 DEF Over, Twice
  <2>3. Clean(promises', jobs', stack')
    BY <1>2, <1>4, <2>1, <2>2 DEF Clean
  <2>4. Left(b, pairs'[b.cap].resolved, Loops(stack', c)) /\ b.type # "allSettled"
    BY <1>6 DEF Left
  <2> QED BY <1>2, <2>1, <2>3, <2>4, OneStays
<1>7. CASE b.type # "race"
  <2>1. /\ combos' = [combos EXCEPT ![c] = e]
        /\ \/ b.remaining = 1 /\ CallResolving(jobs, Callers, b.cap, b.type = "any", Collected)
           \/ /\ b.remaining # 1
              /\ stack' = Callers /\ promises' = promises /\ pairs' = pairs /\ jobs' = jobs
    BY <1>1, <1>7 DEF LoopOver
  <2> HIDE DEF b
  <2>2. /\ e \in ComboData /\ e.type = b.type /\ e.cap = b.cap /\ e.n = b.n
        /\ e.foreign = b.foreign /\ e.called = b.called /\ e.answered = b.answered
        /\ e.remaining = b.remaining - 1
    BY <1>2, <1>7, LoopOverIs
  <2> HIDE DEF e
  <2>3. b.n \in Nat /\ b.remaining \in Int /\ Cardinality(b.called) \in Nat
    BY <1>2, CalledFinite
  <2>4. Answering(e)
    BY <1>2, <2>2 DEF Answering
  <2>5. b.remaining + Cardinality(b.called) - b.n = 1
    BY <1>2, <1>3, <1>7 DEF ItemsCounted
  <2>6. CASE b.remaining = 1
    <3> DEFINE f == b.cap
               any == b.type = "any"
    <3>1. CallResolving(jobs, Callers, f, any, Collected) /\ f \in DOMAIN pairs /\ any \in BOOLEAN /\ Collected \in Int
      BY <1>2, <2>1, <2>6 DEF Collected
    <3> HIDE DEF f, any
    <3>2. SameItems(promises, jobs, promises', jobs') /\ SameLoops(Callers, stack') /\ Consumes(f)
      BY <1>3, <3>1, InvSeqs, ResolvesLeads
    <3>3. pairs'[f].resolved
      <4>1. f # 0 /\ pairs[f] \in PairData
        BY <3>1, InvSeqs
      <4> QED BY <3>1, <3>2, <4>1 DEF Consumes, Used, PairData
    <3>4. Left(e, pairs'[e.cap].resolved, Loops(stack', c))
      BY <2>2, <3>3 DEF Left, f
    <3>5. b.answered = 1..b.n \/ Twice(b)
      <4>1. Cardinality(b.called) = b.n
        BY <2>3, <2>5, <2>6
      <4> QED BY <1>2, <4>1, AllAnswered
    <3>6. Over(stack', c, e)
      <4>1. Twice(b) => Twice(e)
        BY <2>2, TwiceStays
      <4> QED BY <1>3, <2>2, <3>2, <3>5, <4>1 DEF Over, SameLoops
    <3>7. ASSUME e.type = "allSettled", NEW k \in (1..e.n) \ e.foreign
          PROVE  ItemOnce(promises', jobs', e, c, k)
      <4>1. c \in Settling /\ ItemOnce(promises, jobs, b, c, k)
        BY <1>2, <1>5, <2>2, <3>7 DEF b
      <4> QED BY <2>2, <3>2, <4>1, SameOnce
    <3> QED BY <1>2, <2>1, <2>2, <2>4, <3>4, <3>6, <3>7, OneChanges
  <2>7. CASE b.remaining # 1
    <3>1. stack' = Callers /\ promises' = promises /\ pairs' = pairs /\ jobs' = jobs
      BY <2>1, <2>7
    <3>2. Left(e, pairs'[e.cap].resolved, Loops(stack', c))
      <4>1. pairs[b.cap].resolved \/ b.remaining > 0
        BY <1>2, <1>7 DEF Left, b
      <4>2. ~Loops(stack', c) /\ pairs'[e.cap] = pairs[b.cap]
        BY <1>3, <2>2, <3>1
      <4>3. CASE pairs[b.cap].resolved
        BY <4>2, <4>3 DEF Left
      <4>4. CASE b.remaining > 0
        <5>1. e.remaining > 0 /\ e.remaining = e.n - Cardinality(e.called) + 0
          BY <2>2, <2>3, <2>5, <2>7, <4>4
        <5> QED BY <4>2, <5>1 DEF Left
      <4> QED BY <4>1, <4>3, <4>4
    <3>3. ASSUME e.type = "allSettled", NEW k \in (1..e.n) \ e.foreign
          PROVE  ItemOnce(promises', jobs', e, c, k)
      <4>1. c \in Settling /\ ItemOnce(promises, jobs, b, c, k)
        BY <1>2, <1>5, <2>2, <3>3 DEF b
      <4> QED BY <2>2, <3>1, <4>1, LeadsItself, SameOnce
    <3>4. Clean(promises', jobs', stack') \/ Over(stack', c, e)
      <4>1. CASE Clean(promises, jobs, stack)
        BY <1>4, <3>1, <4>1 DEF Clean
      <4>2. CASE Over(stack, c, b)
        <5>1. Twice(b)
          BY <1>3, <4>2 DEF Over
        <5>2. Twice(e)
          BY <2>2, <5>1, TwiceStays
        <5> QED BY <5>2 DEF Over
      <4> QED BY <1>2, <4>1, <4>2
    <3> QED BY <1>2, <2>1, <2>2, <2>4, <3>2, <3>3, <3>4, OneChanges
  <2> QED BY <2>6, <2>7
<1> QED BY <1>6, <1>7

LEMMA ItemThrowsGathers ==
  ASSUME Inv, Gathers, ItemThrows(Plain)
  PROVE  Gathers'
<1> DEFINE n == Len(stack)
           su == SubSeq(stack, 1, n - 2)
           c == Top.of
           b == combos[c]
           cap == b.cap
<1>1. stack # <<>> /\ Top.call = "itemThen" /\ CallResolving(jobs, su, cap, TRUE, Plain) /\ combos' = combos
  BY DEF ItemThrows, Returns
<1>2. n > 1 /\ stack[n - 1].call = "all" /\ stack[n - 1].of = c /\ n - 1 \in DOMAIN stack
  <2>1. Below(stack) /\ stack \in Seq(FrameData)
    BY InvTypes DEF Inv, Good
  <2>2. n \in DOMAIN stack /\ DOMAIN stack = 1..n /\ n \in Nat
    BY <1>1, <2>1, FrontIs, LenProperties
  <2>3. n > 1 /\ stack[n - 1].call = "all" /\ stack[n - 1].of = c
    BY <1>1, <2>1, <2>2 DEF Below, Top
  <2> QED BY <2>2, <2>3
<1>3. Loops(stack, c)
  BY <1>2 DEF Loops
<1>4. SubSeq(Callers, 1, Len(Callers) - 1) = su /\ Callers # <<>>
  <2>1. stack \in Seq(FrameData)
    BY InvTypes
  <2> QED BY <1>2, <2>1, FrontOfFront DEF Callers
<1> HIDE DEF su, n
<1>5. Callers \in Seq(FrameData) /\ (CleanStack(stack) => CleanStack(Callers))
  BY <1>1, CallersLead
<1>6. su \in Seq(FrameData) /\ (CleanStack(stack) => CleanStack(su))
  <2>1. CleanStack(Callers) => CleanStack(SubSeq(Callers, 1, Len(Callers) - 1))
    BY <1>4, <1>5, PopLeads
  <2>2. SubSeq(Callers, 1, Len(Callers) - 1) \in Seq(FrameData)
    BY <1>4, <1>5, FrontIs
  <2> QED BY <1>4, <1>5, <2>1, <2>2
<1>7. c \in DOMAIN combos
  BY <1>1, CallableTop DEF FrameOk
<1> HIDE DEF c
<1>8. /\ Alone(c) /\ combos \in Seq(ComboData) /\ c \in Nat /\ b \in ComboData /\ cap \in DOMAIN pairs
      /\ Answering(b)
      /\ b.type = "allSettled" =>
           c \in Settling /\ \A k \in Native(combos, c) : ItemOnce(promises, jobs, b, c, k)
      /\ Clean(promises, jobs, stack) \/ Over(stack, c, b)
  BY <1>7, TheOne
<1>9. Native(combos, c) = (1..b.n) \ b.foreign
  BY DEF Native
<1>10. TRUE \in BOOLEAN /\ Plain \in Int /\ Plain # Collected
  BY DEF Plain, Collected
<1> DEFINE f == cap
<1>11. CallResolving(jobs, su, f, TRUE, Plain) /\ f \in DOMAIN pairs
  BY <1>1, <1>8 DEF c
<1> HIDE DEF f
<1>12. /\ SameItems(promises, jobs, promises', jobs') /\ SameLoops(su, stack') /\ Consumes(f)
       /\ Clean(promises, jobs, su) => Clean(promises', jobs', stack')
  BY <1>6, <1>10, <1>11, InvSeqs, ResolvesLeads
<1>13. pairs'[f].resolved
  <2>1. f # 0 /\ pairs[f] \in PairData
    BY <1>11, InvSeqs
  <2> QED BY <1>11, <1>12, <2>1 DEF Consumes, Used, PairData
<1>14. Left(b, pairs'[b.cap].resolved, Loops(stack', c))
  BY <1>13 DEF Left, f
<1>15. ASSUME b.type = "allSettled", NEW k \in (1..b.n) \ b.foreign
       PROVE  ItemOnce(promises', jobs', b, c, k)
  <2>1. c \in Settling /\ ItemOnce(promises, jobs, b, c, k)
    BY <1>8, <1>9, <1>15
  <2> HIDE DEF b
  <2> QED BY <1>12, <2>1, SameOnce
<1>16. Clean(promises', jobs', stack') \/ Over(stack', c, b)
  <2>1. CASE Clean(promises, jobs, stack)
    BY <1>6, <1>12, <2>1 DEF Clean
  <2>2. CASE Over(stack, c, b)
    BY <1>3, <2>2 DEF Over
  <2> QED BY <1>8, <2>1, <2>2
<1> QED BY <1>1, <1>8, <1>14, <1>15, <1>16, OneStays

LEMMA ThenExpects ==
  ASSUME Inv, NEW js \in Seq(JobData), NEW p \in DOMAIN promises, NEW a \in Callables, NEW b \in Callables,
         Then(js, p, a, b), NEW g, NEW h, Together(a, b, g, h)
  PROVE  \A q, n : Expects(promises', jobs', g, h, q, n) <=>
           Expects(promises, js, g, h, q, n) \/ (q = p /\ n = promises[p].registered + 1 /\ a = g)
<1>1. Types(promises, pairs, combos, jobs, stack, known, held, calls)
  BY DEF Inv, Good
<1>2. Fresh \in Nat /\ FreshPair \in Nat /\ p \in Nat
  BY InvSeqs DEF Fresh, FreshPair
<1>3. NewPair(Fresh) \in PairData /\ Pending \in JSPromiseData /\ Pending.reactions = <<>>
  <2>1. Pending.reactions = <<>>
    BY DEF Pending
  <2>2. NewPair(Fresh) \in PairData
    BY <1>2, NewPairIs
  <2> QED BY <2>1, <2>2, PendingIs
<1> DEFINE ps == WithFresh
<1>4. p \in DOMAIN ps /\ ps[p] = promises[p] /\ ps[p] \in JSPromiseData
  BY <1>1, <1>3, FreshOnes, InvSeqs DEF WithFresh
<1>5. \A q, n : Expects(ps, js, g, h, q, n) <=> Expects(promises, js, g, h, q, n)
  BY <1>3, InvSeqs, NewExpects DEF WithFresh
<1>6. PerformThen(ps, js, p, FreshPair, a, b)
  BY DEF Then
<1> HIDE DEF ps
<1>7. \A q, n : Expects(promises', jobs', g, h, q, n) <=>
           Expects(ps, js, g, h, q, n) \/ (q = p /\ n = ps[p].registered + 1 /\ a = g)
  BY <1>2, <1>4, <1>6, PerformExpects
<1> QED BY <1>4, <1>5, <1>7

LEMMA ItemIsPromiseGathers ==
  ASSUME Inv, Gathers, NEW p \in known, ItemIsPromise(p)
  PROVE  Gathers'
<1>1. PICK c \in DOMAIN combos :
        /\ NextItem(c)
        /\ Then(jobs, p, OnFulfilled(c, combos[c].n + 1), OnRejected(c, combos[c].n + 1))
        /\ combos' = Counted(c) /\ stack' = stack
  BY DEF ItemIsPromise
<1> DEFINE b == combos[c]
           i == b.n + 1
           e == Count(b, {})
           g == OnFulfilled(c, i)
           h == OnRejected(c, i)
<1>2. /\ Alone(c) /\ combos \in Seq(ComboData) /\ c \in Nat /\ b \in ComboData /\ b.cap \in DOMAIN pairs
      /\ ItemsCounted(b, Loops(stack, c))
      /\ Answering(b) /\ Left(b, pairs[b.cap].resolved, Loops(stack, c))
      /\ b.type = "allSettled" =>
           c \in Settling /\ \A k \in Native(combos, c) : ItemOnce(promises, jobs, b, c, k)
      /\ Clean(promises, jobs, stack) \/ Over(stack, c, b)
  BY TheOne
<1>3. combos' = [combos EXCEPT ![c] = e]
  BY <1>1, <1>2, CountedIs
<1>4. OnTop("all") /\ Top.of = c /\ Then(jobs, p, g, h)
  BY <1>1 DEF NextItem
<1>5. Loops(stack, c)
  BY <1>4, LoopOnTop
<1>6. Native(combos, c) = (1..b.n) \ b.foreign
  BY DEF Native
<1>7. p \in DOMAIN promises
  BY InvTypes
<1>8. b.n \in Nat /\ b.remaining \in Int /\ Cardinality(b.called) \in Nat /\ i \in Nat
  BY <1>2, CalledFinite
<1>9. /\ g = Ful(combos, c, i) /\ h = Rej(combos, c, i) /\ g \in Callables /\ h \in Callables
      /\ g.at # Collected /\ h.at # Collected
      /\ b.type = "allSettled" => g = El(c, i) /\ h = RejEl(c, i)
  <2>1. g = Ful(combos, c, i) /\ h = Rej(combos, c, i)
    BY HandlersOfItem
  <2>2. g \in Callables /\ h \in Callables
    BY <1>2, <1>8, <2>1, FulRejCallable
  <2>3. b.type = "allSettled" => g = El(c, i) /\ h = RejEl(c, i)
    BY <2>1 DEF Ful, Rej, El, RejEl
  <2>4. g.at \in {0, i} /\ h.at \in {0, i}
    BY <2>1 DEF Ful, Rej, Fn
  <2>5. 0 # Collected /\ i # Collected
    BY <1>8 DEF Collected
  <2> QED BY <2>1, <2>2, <2>3, <2>4, <2>5
<1> HIDE DEF b, g, h
<1>10. /\ b.foreign \subseteq 1..b.n /\ b.called \subseteq {"element", "rejectElement"} \X (1..b.n)
       /\ b.answered \subseteq 1..b.n
  <2>1. b.called \subseteq {"element", "rejectElement"} \X (1..b.n)
    BY <1>2 DEF ItemsCounted
  <2>2. b.answered = {x[2] : x \in b.called}
    BY <1>2 DEF Answering
  <2>3. \A x \in b.called : x[2] \in 1..b.n
    BY <2>1
  <2> QED BY <1>2, <2>1, <2>2, <2>3 DEF ItemsCounted
<1>11. /\ e \in ComboData /\ e.type = b.type /\ e.cap = b.cap /\ e.n = b.n + 1
       /\ e.foreign = b.foreign \cup {} /\ e.called = b.called /\ e.answered = b.answered
       /\ e.remaining = IF b.type = "race" THEN b.remaining ELSE b.remaining + 1
  <2>1. {} \in SUBSET Nat
    OBVIOUS
  <2> QED BY <1>2, <2>1, CountIs
<1> HIDE DEF e
<1>12. /\ (1..e.n) \ e.foreign = ((1..b.n) \ b.foreign) \cup {i}
       /\ i \notin 1..b.n
  BY <1>8, <1>10, <1>11
<1>13. Answering(e)
  <2>1. <<"element", i>> \notin b.called
    BY <1>10, <1>12
  <2> QED BY <1>2, <1>11, <1>12, <2>1 DEF Answering
<1>14. Flags(pairs, pairs')
       /\ (CleanPromises(promises) /\ CleanJobs(jobs) => CleanPromises(promises') /\ CleanJobs(jobs'))
  BY <1>4, <1>7, <1>9, InvSeqs, ThenLeads
<1>15. Left(e, pairs'[e.cap].resolved, Loops(stack', c))
  <2>1. pairs[b.cap].resolved => pairs'[e.cap].resolved
    BY <1>2, <1>11, <1>14 DEF Flags
  <2>2. Loops(stack', c)
    BY <1>1, <1>5
  <2>3. Left(b, pairs[b.cap].resolved, TRUE)
    BY <1>2, <1>5 DEF Left
  <2> QED BY <1>8, <1>11, <2>1, <2>2, <2>3 DEF Left
<1>16. ASSUME e.type = "allSettled", NEW k \in (1..e.n) \ e.foreign
       PROVE  ItemOnce(promises', jobs', e, c, k)
  <2> DEFINE s == promises[p].registered + 1
             gk == El(c, k)
             hk == RejEl(c, k)
  <2>1. c \in Settling /\ g = El(c, i) /\ h = RejEl(c, i)
    BY <1>2, <1>9, <1>11, <1>16
  <2>2. Together(g, h, gk, hk) /\ (g = gk <=> k = i)
    BY <2>1, ElementsDiffer DEF Together
  <2> HIDE DEF gk, hk, s
  <2>3. \A q, n : Expects(promises', jobs', gk, hk, q, n) <=>
           Expects(promises, jobs, gk, hk, q, n) \/ (q = p /\ n = s /\ g = gk)
    BY <1>4, <1>7, <1>9, <2>2, InvSeqs, ThenExpects DEF s
  <2>4. CASE k = i
    <3>1. k \notin Native(combos, c)
      BY <1>6, <1>12, <2>4 DEF b
    <3>2. \A q, n : ~Expects(promises, jobs, gk, hk, q, n)
      BY <2>1, <3>1, ExpectedIsNative DEF gk, hk
    <3>3. \A q, n : Expects(promises', jobs', gk, hk, q, n) <=> q = p /\ n = s
      BY <2>2, <2>3, <2>4, <3>2
    <3>4. \A q, n : Expects(promises', jobs', El(c, k), RejEl(c, k), q, n) <=> q = p /\ n = s
      BY <3>3 DEF gk, hk
    <3>5. k \notin e.answered
      BY <1>10, <1>11, <1>12, <2>4
    <3> HIDE DEF s
    <3> QED BY ONLY <3>4, <3>5, ItemIsIn
  <2>5. CASE k # i
    <3>1. ItemOnce(promises, jobs, b, c, k)
      BY <1>2, <1>6, <1>11, <1>12, <1>16, <2>5 DEF b
    <3>2. \A q, n : Expects(promises', jobs', El(c, k), RejEl(c, k), q, n) <=>
                    Expects(promises, jobs, El(c, k), RejEl(c, k), q, n)
      BY <2>2, <2>3, <2>5 DEF gk, hk
    <3> QED BY <1>11, <3>1, <3>2, SameItem
  <2> QED BY <2>4, <2>5
<1>17. Clean(promises', jobs', stack') \/ Over(stack', c, e)
  <2>1. CASE Clean(promises, jobs, stack)
    BY <1>1, <1>14, <2>1 DEF Clean
  <2>2. CASE Over(stack, c, b)
    <3>1. Twice(b)
      BY <1>5, <2>2 DEF Over
    <3>2. Twice(e)
      BY <1>11, <3>1, TwiceStays
    <3> QED BY <3>2 DEF Over
  <2> QED BY <1>2, <2>1, <2>2
<1> QED BY <1>2, <1>3, <1>11, <1>13, <1>15, <1>16, <1>17, OneChanges

-----------------------------------------------------------------------------
(* An element function is called, by a job or by the program. *)

\* What is true when an element h is called, by the program or by a job that
\* is taken off jobs: js and st are the jobs and the calls then.
Calling(h, js, st) ==
  /\ IsElement(h) /\ h.of \in DOMAIN combos /\ combos[h.of].type # "race" /\ h.at \in 1..combos[h.of].n
  /\ h.fn = "rejectElement" => combos[h.of].type = "allSettled"
  /\ SameLoops(stack, st)
  /\ Clean(promises, jobs, stack) => Clean(promises, js, st)
  /\ combos[h.of].type = "allSettled" => \A i : i # h.at => \A q, n :
       Expects(promises, js, El(h.of, i), RejEl(h.of, i), q, n)
         <=> Expects(promises, jobs, El(h.of, i), RejEl(h.of, i), q, n)
  /\ combos[h.of].type = "allSettled" /\ h.at \in Native(combos, h.of) =>
       /\ h.at \notin combos[h.of].answered
       /\ \A q, n : ~Expects(promises, js, El(h.of, h.at), RejEl(h.of, h.at), q, n)

\* The items after it.
LEMMA CallingItems ==
  ASSUME NEW h, NEW js, NEW st, Calling(h, js, st),
         NEW c, c = h.of, c \in Settling, NEW k \in Native(combos, c),
         ItemOnce(promises, jobs, combos[c], c, k), SameItems(promises, js, promises', jobs'),
         NEW d, k # h.at /\ k \notin combos[c].answered => k \notin d.answered
  PROVE  ItemOnce(promises', jobs', d, c, k)
<1>1. combos[c].type = "allSettled"
  BY DEF Settling
<1>2. \A q, n : Expects(promises', jobs', El(c, k), RejEl(c, k), q, n) <=>
                Expects(promises, js, El(c, k), RejEl(c, k), q, n)
  BY DEF SameItems
<1>3. CASE k = h.at
  <2>1. \A q, n : ~Expects(promises, js, El(c, k), RejEl(c, k), q, n)
    BY <1>1, <1>3 DEF Calling
  <2>2. \A q, n : ~Expects(promises', jobs', El(c, k), RejEl(c, k), q, n)
    BY <1>2, <2>1
  <2> QED BY ONLY <2>2, ItemIsOut
<1>4. CASE k # h.at
  <2>1. \A q, n : Expects(promises, js, El(c, k), RejEl(c, k), q, n) <=>
                  Expects(promises, jobs, El(c, k), RejEl(c, k), q, n)
    BY <1>1, <1>4 DEF Calling
  <2>2. \A q, n : Expects(promises', jobs', El(c, k), RejEl(c, k), q, n) <=>
                  Expects(promises, jobs, El(c, k), RejEl(c, k), q, n)
    BY <1>2, <2>1
  <2> DEFINE b == combos[c]
  <2>3. ItemOnce(promises, jobs, b, c, k) /\ (k \notin b.answered => k \notin d.answered)
    BY <1>4
  <2> HIDE DEF b
  <2> QED BY ONLY <2>2, <2>3, SameItem
<1> QED BY <1>3, <1>4

LEMMA AnswerAnswers ==
  ASSUME NEW h, NEW js, NEW st, Calling(h, js, st), NEW b, b = combos[h.of], b \in ComboData, Answering(b),
         NEW e, e.type = b.type, e.n = b.n, e.foreign = b.foreign,
         e.called = b.called \cup {<<h.fn, h.at>>}, e.answered = b.answered \cup {h.at}
  PROVE  Answering(e)
<1> DEFINE el == <<h.fn, h.at>>
<1>1. el[1] = h.fn /\ el[2] = h.at /\ h.fn \in {"element", "rejectElement"}
  BY DEF Calling, IsElement
<1>2. b.answered = {x[2] : x \in b.called}
  BY DEF Answering
<1> HIDE DEF el
<1>3. e.called = b.called \cup {el}
  BY DEF el
<1>4. e.answered = {x[2] : x \in e.called}
  BY <1>1, <1>2, <1>3
<1>5. e.type # "allSettled" => \A x \in e.called : x[1] = "element"
  BY <1>1, <1>3 DEF Answering, Calling
<1>6. ASSUME NEW k \in (1..e.n) \ e.foreign,
             <<"element", k>> \in e.called, <<"rejectElement", k>> \in e.called
      PROVE  FALSE
  <2>1. b.type = "allSettled"
    <3>1. <<"rejectElement", k>>[1] = "rejectElement"
      OBVIOUS
    <3> QED BY <1>5, <1>6, <3>1
  <2>2. CASE k = h.at
    <3>1. k \in Native(combos, h.of)
      BY <1>6, <2>2 DEF Native
    <3>2. h.at \notin b.answered
      BY <2>1, <2>2, <3>1 DEF Calling
    <3>3. <<"element", k>>[2] = k /\ <<"rejectElement", k>>[2] = k /\ <<"element", k>> # <<"rejectElement", k>>
      OBVIOUS
    <3>4. <<"element", k>> \notin b.called /\ <<"rejectElement", k>> \notin b.called
      BY <1>2, <2>2, <3>2, <3>3
    <3> QED BY <1>3, <1>6, <3>3, <3>4
  <2>3. CASE k # h.at
    <3>1. <<"element", k>> \in b.called /\ <<"rejectElement", k>> \in b.called
      BY <1>6, <2>3
    <3> QED BY <1>6, <3>1 DEF Answering
  <2> QED BY <2>2, <2>3
<1> QED BY <1>4, <1>5, <1>6 DEF Answering

LEMMA ElementGathers ==
  ASSUME Inv, Gathers, Inv', NEW js \in Seq(JobData), NEW st \in Seq(FrameData),
         NEW h, Calling(h, js, st), NEW v, CallElement(js, st, h, v)
  PROVE  Gathers'
<1> DEFINE c == h.of
           i == h.at
           el == <<h.fn, i>>
           b == combos[c]
           e == Answer(b, el, i)
<1>1. c \in DOMAIN combos /\ i \in 1..b.n /\ b.type # "race" /\ h.fn \in {"element", "rejectElement"}
  BY DEF Calling, IsElement
<1>2. SameLoops(stack, st) /\ (Clean(promises, jobs, stack) => Clean(promises, js, st))
  BY DEF Calling
<1>3. \/ /\ el \in b.called
         /\ jobs' = js /\ stack' = st /\ promises' = promises /\ pairs' = pairs /\ combos' = combos
      \/ /\ el \notin b.called /\ combos' = [combos EXCEPT ![c] = e]
         /\ \/ b.remaining = 1 /\ CallResolving(js, st, b.cap, b.type = "any", Collected)
            \/ /\ b.remaining # 1
               /\ jobs' = js /\ stack' = st /\ promises' = promises /\ pairs' = pairs
  BY DEF CallElement, Answer
<1> HIDE DEF c
<1>4. /\ Alone(c) /\ combos \in Seq(ComboData) /\ c \in Nat /\ b \in ComboData /\ b.cap \in DOMAIN pairs
      /\ ItemsCounted(b, Loops(stack, c))
      /\ Answering(b) /\ Left(b, pairs[b.cap].resolved, Loops(stack, c))
      /\ b.type = "allSettled" =>
           c \in Settling /\ \A k \in Native(combos, c) : ItemOnce(promises, jobs, b, c, k)
      /\ Clean(promises, jobs, stack) \/ Over(stack, c, b)
  BY <1>1, TheOne
<1>5. Native(combos, c) = (1..b.n) \ b.foreign
  BY DEF Native
<1>6. ASSUME b.type = "allSettled", NEW k \in (1..b.n) \ b.foreign, SameItems(promises, js, promises', jobs'),
             NEW d, k # i /\ k \notin b.answered => k \notin d.answered
      PROVE  ItemOnce(promises', jobs', d, c, k)
  <2>1. c \in Settling /\ k \in Native(combos, c) /\ ItemOnce(promises, jobs, combos[c], c, k) /\ c = h.of
    BY <1>4, <1>5, <1>6 DEF c
  <2>2. k # h.at /\ k \notin combos[c].answered => k \notin d.answered
    BY <1>6
  <2> HIDE DEF b, i, e
  <2> QED BY <1>6, <2>1, <2>2, CallingItems
<1>7. CASE el \in b.called
  <2>1. jobs' = js /\ stack' = st /\ promises' = promises /\ pairs' = pairs /\ combos' = combos
    BY <1>3, <1>7
  <2>2. SameItems(promises, js, promises', jobs')
    BY <2>1, LeadsItself
  <2>3. b.type = "allSettled" => \A k \in (1..b.n) \ b.foreign : ItemOnce(promises', jobs', b, c, k)
    BY <1>6, <2>2
  <2>4. Left(b, pairs'[b.cap].resolved, Loops(stack', c))
    BY <1>2, <1>4, <2>1 DEF Left, SameLoops
  <2>5. Clean(promises', jobs', stack') \/ Over(stack', c, b)
    BY <1>2, <1>4, <2>1 DEF Over, SameLoops
  <2> QED BY <1>4, <2>1, <2>3, <2>4, <2>5, OneStays
<1>8. CASE el \notin b.called
  <2>1. /\ combos' = [combos EXCEPT ![c] = e]
        /\ \/ b.remaining = 1 /\ CallResolving(js, st, b.cap, b.type = "any", Collected)
           \/ /\ b.remaining # 1
              /\ jobs' = js /\ stack' = st /\ promises' = promises /\ pairs' = pairs
    BY <1>3, <1>8
  <2>2. b = combos[h.of]
    BY DEF c
  <2>3. combos'[c] = e /\ c \in DOMAIN combos'
    <3> HIDE DEF e
    <3> QED BY <1>1, <2>1
  <2> HIDE DEF b
  <2>4. b.n \in Nat /\ b.remaining \in Int /\ Cardinality(b.called) \in Nat /\ IsFiniteSet(b.called)
    BY <1>4, CalledFinite
  <2>5. i \in Nat /\ b.called \cup {el} \in SUBSET ({"element", "rejectElement"} \X Nat)
    <3>1. i \in Nat
      BY <1>1, <2>4 DEF b
    <3>2. el \in {"element", "rejectElement"} \X Nat
      BY <1>1, <3>1
    <3>3. b.called \in SUBSET ({"element", "rejectElement"} \X Nat)
      BY <1>4 DEF ComboData
    <3> HIDE DEF el
    <3> QED BY <3>1, <3>2, <3>3
  <2>6. /\ e \in ComboData /\ e.type = b.type /\ e.cap = b.cap /\ e.foreign = b.foreign /\ e.n = b.n
        /\ e.called = b.called \cup {el} /\ e.answered = b.answered \cup {i}
        /\ e.remaining = b.remaining - 1
    <3>1. b \in ComboData
      BY <1>4
    <3> HIDE DEF el, i
    <3> QED BY ONLY <3>1, <2>5, AnswerIs DEF e
  <2> HIDE DEF e
  <2>7. Answering(e)
    BY <1>4, <2>2, <2>6, AnswerAnswers
  <2>8. Cardinality(e.called) = Cardinality(b.called) + 1
    <3> HIDE DEF el
    <3> QED BY <1>8, <2>4, <2>6, FS_AddElement
  <2>9. ASSUME SameItems(promises, js, promises', jobs'), e.type = "allSettled", NEW k \in (1..e.n) \ e.foreign
        PROVE  ItemOnce(promises', jobs', e, c, k)
    <3>1. b.type = "allSettled" /\ k \in (1..b.n) \ b.foreign /\ (k # i /\ k \notin b.answered => k \notin e.answered)
      BY <2>6, <2>9
    <3> QED BY <1>6, <2>9, <3>1
  <2>10. CASE b.remaining = 1
    <3> DEFINE f == b.cap
               any == b.type = "any"
    <3>1. CallResolving(js, st, f, any, Collected) /\ f \in DOMAIN pairs /\ any \in BOOLEAN /\ Collected \in Int
      BY <1>4, <2>1, <2>10 DEF Collected
    <3> HIDE DEF f, any
    <3>2. SameItems(promises, js, promises', jobs') /\ SameLoops(st, stack') /\ Consumes(f)
      BY <3>1, ResolvesLeads
    <3>3. pairs'[f].resolved
      <4>1. f # 0 /\ pairs[f] \in PairData
        BY <3>1, InvSeqs
      <4> QED BY <3>1, <3>2, <4>1 DEF Consumes, Used, PairData
    <3>4. Left(e, pairs'[e.cap].resolved, Loops(stack', c))
      BY <2>6, <3>3 DEF Left, f
    <3>5. ItemsCounted(e, Loops(stack', c))
      <4>1. Counts(combos', stack')
        BY DEF Inv, Good
      <4> QED BY <2>3, <4>1 DEF Counts
    <3>6. Loops(stack', c) <=> Loops(stack, c)
      BY <1>2, <3>2 DEF SameLoops
    <3>7. Over(stack', c, e)
      <4>1. CASE Twice(e)
        BY <4>1 DEF Over
      <4>2. CASE ~Twice(e)
        <5>1. Cardinality(e.called) <= e.n /\ (Cardinality(e.called) = e.n => e.answered = 1..e.n)
          BY <2>6, <2>7, <3>5, <4>2, CalledOnce
        <5>2. /\ b.remaining + Cardinality(b.called) - b.n \in {0, 1}
              /\ Loops(stack, c) => b.remaining + Cardinality(b.called) - b.n = 1
          BY <1>1, <1>4 DEF ItemsCounted, b
        <5>3. Cardinality(e.called) = e.n /\ b.remaining + Cardinality(b.called) - b.n = 0
          BY <2>4, <2>6, <2>8, <2>10, <5>1, <5>2
        <5>4. ~Loops(stack', c)
          BY <3>6, <5>2, <5>3
        <5> QED BY <5>1, <5>3, <5>4 DEF Over
      <4> QED BY <4>1, <4>2
    <3> QED BY <1>4, <2>1, <2>6, <2>7, <2>9, <3>2, <3>4, <3>7, OneChanges
  <2>11. CASE b.remaining # 1
    <3>1. jobs' = js /\ stack' = st /\ promises' = promises /\ pairs' = pairs
      BY <2>1, <2>11
    <3>2. SameItems(promises, js, promises', jobs')
      BY <3>1, LeadsItself
    <3>3. (Loops(stack', c) <=> Loops(stack, c)) /\ pairs'[e.cap] = pairs[b.cap]
      BY <1>2, <2>6, <3>1 DEF SameLoops
    <3>4. Left(e, pairs'[e.cap].resolved, Loops(stack', c))
      <4>1. CASE pairs[b.cap].resolved
        BY <3>3, <4>1 DEF Left
      <4>2. CASE ~pairs[b.cap].resolved
        <5> DEFINE l == IF Loops(stack, c) THEN 1 ELSE 0
        <5>1. b.remaining > 0 /\ b.remaining = b.n - Cardinality(b.called) + l
          BY <1>1, <1>4, <4>2 DEF Left, b
        <5>2. l \in Int /\ l = IF Loops(stack', c) THEN 1 ELSE 0
          BY <3>3
        <5> HIDE DEF l
        <5>3. e.remaining > 0 /\ e.remaining = e.n - Cardinality(e.called) + l
          BY <2>4, <2>6, <2>8, <2>11, <5>1, <5>2
        <5> QED BY <5>2, <5>3 DEF Left
      <4> QED BY <4>1, <4>2
    <3>5. Clean(promises', jobs', stack') \/ Over(stack', c, e)
      <4>1. CASE Clean(promises, jobs, stack)
        BY <1>2, <3>1, <4>1
      <4>2. CASE Over(stack, c, b)
        <5>1. b.answered = 1..b.n => e.answered = 1..e.n
          BY <1>1, <2>6 DEF b
        <5>2. Twice(b) => Twice(e)
          BY <2>6, TwiceStays
        <5> QED BY <3>3, <4>2, <5>1, <5>2 DEF Over
      <4> QED BY <1>4, <4>1, <4>2
    <3> QED BY <1>4, <2>1, <2>6, <2>7, <2>9, <3>2, <3>4, <3>5, OneChanges
  <2> QED BY <2>10, <2>11
<1> QED BY <1>7, <1>8

LEMMA CallHeldGathers ==
  ASSUME Inv, Gathers, Inv', NEW h \in held, NEW v \in Given, CallHeld(h, v)
  PROVE  Gathers'
<1>1. CASE ~IsElement(h)
  BY <1>1, CallHeldCalm, CalmKeeps
<1>2. CASE IsElement(h)
  <2>1. HeldOk(pairs, combos, h) /\ \A c \in DOMAIN combos : Public(pairs, combos[c].cap) /\ combos[c].type \in CombinatorTypes
    BY InvTypes, Facts DEF Refs, ComboData
  <2>2. /\ h.of \in DOMAIN combos /\ h.at \in combos[h.of].foreign /\ combos[h.of].type # "race"
        /\ h.fn = "rejectElement" => combos[h.of].type = "allSettled"
    BY <1>2, <2>1, HeldCases DEF IsElement
  <2>3. h.at \in 1..combos[h.of].n
    BY <2>2 DEF Inv, Good, Counts, ItemsCounted
  <2>4. h.at \notin Native(combos, h.of)
    BY <2>2 DEF Native
  <2>5. Calling(h, jobs, stack)
    BY <1>2, <2>2, <2>3, <2>4, LeadsItself DEF Calling
  <2>6. CallElement(jobs, stack, h, v)
    BY <1>2 DEF CallHeld, CallNative, IsElement
  <2> QED BY <2>5, <2>6, InvSeqs, ElementGathers
<1> QED BY <1>1, <1>2

\* The job that is taken was the only one for its item.
LEMMA JobIsItem ==
  ASSUME Inv, Gathers, stack = <<>>, jobs # <<>>, Job \in ReactionJobs, IsElement(Job.handler),
         NEW c, c = Job.handler.of, NEW i, i = Job.handler.at, c \in Settling, i \in Native(combos, c),
         Job.promise \in DOMAIN promises, promises[Job.promise].state # "pending"
  PROVE  /\ i \notin combos[c].answered
         /\ \A q, n : ~Expects(promises, Rest, El(c, i), RejEl(c, i), q, n)
<1> DEFINE g == El(c, i)
           h == RejEl(c, i)
           p == Job.promise
           n == Job.n
<1>1. Job.job = "reaction" /\ n \in Nat /\ Job.handler \in {g, h}
  <2>1. Job.job = "reaction" /\ n \in Nat /\ Job.handler \in Callables
    BY DEF ReactionJobs
  <2>2. Job.handler = Fn(Job.handler.fn, c, i)
    BY <2>1 DEF Callables, Fn
  <2> QED BY <2>1, <2>2 DEF El, RejEl, IsElement
<1>2. ItemOnce(promises, jobs, combos[c], c, i)
  BY DEF Gathers, ItemsOnce
<1>3. \A q, k : QueuedBy(jobs, g, h, q, k) <=> QueuedBy(Rest, g, h, q, k) \/ (p = q /\ n = k)
  <2> HIDE DEF g, h, p, n
  <2>1. \A q, k : QueuedBy(jobs, g, h, q, k) <=>
                    QueuedBy(Rest, g, h, q, k) \/ (/\ Job.job = "reaction" /\ Job.promise = q /\ Job.n = k
                                                   /\ Job.handler \in {g, h})
    BY InvSeqs, QueuedByHead DEF Rest, Job
  <2> QED BY <1>1, <2>1 DEF p, n
<1> HIDE DEF g, h
<1>4. ~QueuedBy(Rest, g, h, p, n)
  <2>1. /\ Shorter(jobs, Rest) /\ Job = jobs[1] /\ 1 \in DOMAIN jobs
        /\ DOMAIN jobs = 1..Len(jobs) /\ Len(jobs) \in Nat
    BY InvSeqs, TailIs, LenProperties DEF Rest, Job
  <2>2. Ordered(promises[p], jobs, calls[p], p)
    BY DEF Inv, Good
  <2>3. ASSUME NEW k \in DOMAIN Rest, Of(Rest, p, k), Rest[k].n = n PROVE FALSE
    <3>1. k + 1 \in DOMAIN jobs /\ jobs[k + 1] = Rest[k] /\ 1 < k + 1
      BY <2>1 DEF Shorter
    <3>2. Of(jobs, p, 1) /\ Of(jobs, p, k + 1)
      BY <1>1, <2>1, <2>3, <3>1 DEF Of
    <3>3. jobs[1].n < jobs[k + 1].n
      BY <2>1, <2>2, <3>1, <3>2 DEF Ordered
    <3> QED BY <1>1, <2>1, <2>3, <3>1, <3>3
  <2> QED BY <2>3 DEF QueuedBy
<1>5. \A k : ~RegisteredBy(promises[p], g, k)
  <2>1. PromiseOk(promises, pairs, combos, p)
    BY DEF Inv, Good, Refs
  <2>2. DOMAIN promises[p].reactions = {}
    BY <2>1 DEF PromiseOk
  <2> QED BY <2>2 DEF RegisteredBy
<1> HIDE DEF p, n
<1>6. Expects(promises, jobs, g, h, p, n)
  BY <1>3 DEF Expects
<1>7. /\ i \notin combos[c].answered
      /\ \E r, s : \A q, k : Expects(promises, jobs, g, h, q, k) <=> q = r /\ k = s
  BY <1>2, <1>6 DEF ItemOnce, g, h
<1>8. PICK r, s : \A q, k : Expects(promises, jobs, g, h, q, k) <=> q = r /\ k = s
  BY <1>7
<1>9. ASSUME NEW q, NEW k, Expects(promises, Rest, g, h, q, k) PROVE FALSE
  <2>1. Expects(promises, jobs, g, h, q, k)
    BY <1>3, <1>9 DEF Expects
  <2>2. q = p /\ k = n
    BY <1>6, <1>8, <2>1
  <2> QED BY <1>4, <1>5, <1>9, <2>2 DEF Expects
<1> QED BY <1>7, <1>9 DEF g, h

LEMMA ReactionCallsNativeGathers ==
  ASSUME Inv, Gathers, Inv', ReactionCallsNative
  PROVE  Gathers'
<1>1. CASE ~IsElement(Job.handler)
  BY <1>1, ReactionCallsNativeCalm, CalmKeeps
<1>2. CASE IsElement(Job.handler)
  <2> DEFINE m == Frame("native", Job.cap)
             h == Job.handler
             c == h.of
             st == <<m>>
  <2>1. IsReaction({"resolve", "reject", "element", "rejectElement"}) /\ CallNative(Rest, st, h, Job.arg)
    BY DEF ReactionCallsNative
  <2>2. /\ stack = <<>> /\ Job \in ReactionJobs
        /\ Job.promise \in DOMAIN promises /\ promises[Job.promise].state # "pending"
        /\ c \in DOMAIN combos /\ h.at \in Native(combos, c) /\ combos[c].type # "race"
    BY <1>2, <2>1, ReactionBegins DEF IsElement
  <2>3. jobs # <<>> /\ CallElement(Rest, st, h, Job.arg)
    BY <1>2, <2>1 DEF IsReaction, IsElement, CallNative
  <2>4. h.fn = "rejectElement" => combos[c].type = "allSettled"
    <3>1. JobOk(promises, pairs, combos, Job)
      <4>1. jobs \in Seq(JobData) /\ Refs(promises, pairs, combos, jobs, stack, held)
        BY InvSeqs DEF Inv, Good
      <4>2. 1 \in DOMAIN jobs /\ Head(jobs) = jobs[1]
        BY <2>3, <4>1, TailIs
      <4> QED BY <4>1, <4>2 DEF Refs, Job
    <3>2. Handler(promises, pairs, combos, Job.promise, Job.rej, h)
      BY <2>2, <3>1 DEF JobOk, ReactionJobs
    <3>3. \A d \in DOMAIN combos : Public(pairs, combos[d].cap) /\ combos[d].type \in CombinatorTypes
      BY Facts DEF Inv, Good, Refs, ComboData
    <3>4. h.fn \in {"element", "rejectElement"}
      BY <1>2 DEF IsElement
    <3> HIDE DEF h
    <3> QED BY ONLY <3>2, <3>3, <3>4, HandlerCases
  <2>5. m \in FrameData /\ m.call # "all" /\ m.arg # Collected
    BY <2>2 DEF ReactionJobs, Frame, FrameData, Plain, Collected
  <2> HIDE DEF m
  <2>6. SameLoops(stack, st) /\ CleanStack(st) /\ st \in Seq(FrameData)
    BY <2>2, <2>5, OneLeads
  <2>7. Rest \in Seq(JobData) /\ (CleanJobs(jobs) => CleanJobs(Rest))
    BY <2>3, RestLead
  <2>8. Clean(promises, jobs, stack) => Clean(promises, Rest, st)
    BY <2>6, <2>7 DEF Clean
  <2> HIDE DEF st
  <2>9. ASSUME NEW i, i # h.at, NEW q, NEW n
        PROVE  Expects(promises, Rest, El(c, i), RejEl(c, i), q, n)
                 <=> Expects(promises, jobs, El(c, i), RejEl(c, i), q, n)
    <3> DEFINE gi == El(c, i)
               hi == RejEl(c, i)
    <3>1. h \notin {gi, hi}
      BY <2>9, ElementsDiffer
    <3> HIDE DEF gi, hi
    <3>2. QueuedBy(jobs, gi, hi, q, n) <=> QueuedBy(Rest, gi, hi, q, n)
      BY <2>3, <3>1, InvSeqs, QueuedByHead DEF Rest, Job
    <3> QED BY <3>2 DEF Expects, gi, hi
  <2>10. ASSUME combos[c].type = "allSettled"
         PROVE  /\ h.at \notin combos[c].answered
                /\ \A q, n : ~Expects(promises, Rest, El(c, h.at), RejEl(c, h.at), q, n)
    <3>1. c \in Settling
      BY <2>2, <2>10 DEF Settling
    <3>2. c = Job.handler.of /\ h.at = Job.handler.at
      OBVIOUS
    <3> DEFINE i == h.at
    <3>3. i = Job.handler.at /\ i \in Native(combos, c)
      BY <2>2
    <3> HIDE DEF i, c, h
    <3>4. /\ i \notin combos[c].answered
          /\ \A q, n : ~Expects(promises, Rest, El(c, i), RejEl(c, i), q, n)
      BY <1>2, <2>2, <2>3, <3>1, <3>2, <3>3, JobIsItem
    <3> QED BY <3>4 DEF i
  <2>11. h.at \in 1..combos[c].n
    BY <2>2 DEF Native
  <2>12. Calling(h, Rest, st)
    <3> HIDE DEF h
    <3>1. IsElement(h)
      BY <1>2 DEF h
    <3> QED BY <3>1, <2>2, <2>4, <2>6, <2>8, <2>9, <2>10, <2>11 DEF Calling
  <2> HIDE DEF h
  <2> QED BY <2>3, <2>6, <2>7, <2>12, ElementGathers
<1> QED BY <1>1, <1>2

-----------------------------------------------------------------------------
(* Every step keeps Gathers, and what a combinator gathered is exact. *)

LEMMA GathersFirst ==
  ASSUME Init
  PROVE  Gathers
<1>1. combos = <<>> /\ jobs = <<>> /\ stack = <<Frame("script", 0)>> /\ promises = [p \in 1..Made |-> Pending]
  BY DEF Init
<1>2. Counting /\ ItemsOnce /\ Len(combos) <= 1
  BY <1>1 DEF Counting, ItemsOnce, Settling
<1>3. CleanPromises(promises)
  <2>1. Pending.result # Collected /\ DOMAIN Pending.reactions = {}
    BY DEF Pending, Plain, Collected
  <2> QED BY <1>1, <2>1 DEF CleanPromises
<1>4. CleanJobs(jobs) /\ CleanStack(stack)
  BY <1>1 DEF CleanJobs, CleanStack, Frame, Plain, Collected
<1> QED BY <1>2, <1>3, <1>4 DEF Gathers, Spread, Clean

LEMMA ProgramGathers ==
  ASSUME Inv, Gathers, Inv', Program
  PROVE  Gathers'
<1>1. CASE Construct \/ CallAsync
  BY <1>1, ConstructCalm, CallAsyncCalm, CalmKeeps
<1>2. ASSUME NEW h \in held, NEW v \in IF h.fn = "resolve" THEN Given ELSE {Plain}, CallHeld(h, v) PROVE Gathers'
  <2>1. v \in Given
    BY <1>2 DEF Given
  <2> QED BY <1>2, <2>1, CallHeldGathers
<1>3. ASSUME NEW p \in known, Finally(p) PROVE Gathers'
  <2> DEFINE g == Fn("finally", 0, 0)
             h == Fn("finally", 0, 1)
  <2>1. /\ g \in Callables /\ h \in Callables /\ ~IsElement(g) /\ ~IsElement(h)
        /\ g.at # Collected /\ h.at # Collected
    BY DEF Fn, Callables, Simple, IsElement, Collected
  <2>2. ThenOf(p, g, h)
    BY <1>3 DEF Finally
  <2> HIDE DEF g, h
  <2> QED BY <1>3, <2>1, <2>2, ThenOfCalm, CalmKeeps
<1>4. /\ User \in Callables /\ Undefined \in Callables /\ ~IsElement(User) /\ ~IsElement(Undefined)
      /\ User.at # Collected /\ Undefined.at # Collected
  BY DEF User, Undefined, Fn, Callables, Simple, IsElement, Collected
<1>5. ASSUME NEW p \in known, ThenOf(p, User, Undefined) \/ ThenOf(p, Undefined, User) PROVE Gathers'
  BY <1>4, <1>5, ThenOfCalm, CalmKeeps
<1>6. ASSUME NEW v, Await(v) PROVE Gathers'
  BY <1>6, AwaitCalm, CalmKeeps
<1>7. ASSUME NEW type \in CombinatorTypes, Combine(type) PROVE Gathers'
  BY <1>7, CombineGathers
<1> QED BY <1>1, <1>2, <1>3, <1>5, <1>6, <1>7 DEF Program

LEMMA ReturnGathers ==
  ASSUME Inv, Gathers, Return
  PROVE  Gathers'
<1>1. CASE ScriptEnds \/ ResultDropped
  BY <1>1, DropCalm, CalmKeeps
<1>2. CASE \/ \E v \in Given : ResultToCapability(FALSE, v)
           \/ ResultToCapability(TRUE, Plain)
           \/ NativeReturns \/ FinallyEnds \/ FinallyThrows(Plain) \/ Throws(Plain)
  BY <1>2, ReturnsCalm, CalmKeeps
<1>3. CASE ItemThrows(Plain)
  BY <1>3, ItemThrowsGathers
<1>4. CASE GetterThrows(Plain) \/ GetterGivesNoFunction \/ GetterGivesFunction
  BY <1>4, GetterCalm, CalmKeeps
<1>5. ASSUME NEW v \in known \cup {Plain}, FinallyReturns(v) PROVE Gathers'
  BY <1>5, FinallyReturnsCalm, CalmKeeps
<1> QED BY <1>1, <1>2, <1>3, <1>4, <1>5 DEF Return

LEMMA StepGathers ==
  ASSUME Inv, Gathers, Inv', [Next]_vars
  PROVE  Gathers'
<1>1. CASE UNCHANGED vars
  <2>1. Calm
    BY <1>1, LeadsItself, FlagsItself DEF vars, Calm
  <2> QED BY <2>1, CalmKeeps
<1>2. CASE Combinator
  BY <1>2, ItemIsForeignGathers, ItemsEndGathers, ItemIsPromiseGathers DEF Combinator
<1>3. CASE RunJob
  <2>1. CASE ReactionPasses \/ ReactionCallsProgram \/ ThenableIsPromise \/ ThenableIsForeign
    BY <2>1, ReactionPassesCalm, ReactionCallsProgramCalm, ThenableIsPromiseCalm, ThenableIsForeignCalm, CalmKeeps
  <2> QED BY <1>3, <2>1, ReactionCallsNativeGathers DEF RunJob
<1> QED BY <1>1, <1>2, <1>3, ProgramGathers, ReturnGathers DEF Next

LEMMA CombinatorsExactHolds ==
  ASSUME Inv, Gathers
  PROVE  CombinatorsExact
<1> SUFFICES ASSUME NEW c \in DOMAIN combos
             PROVE  LET complete == ~Looping(c) /\ combos[c].answered = 1..combos[c].n IN
                    /\ promises[pairs[combos[c].cap].promise].result = Collected
                         => complete \/ (combos[c].type = "allSettled" /\ CalledBoth(c))
                    /\ combos[c].type # "race" /\ complete => pairs[combos[c].cap].resolved
  BY DEF CombinatorsExact
<1> DEFINE b == combos[c]
           f == b.cap
           q == pairs[f].promise
<1>1. /\ b \in ComboData /\ f \in DOMAIN pairs
      /\ ItemsCounted(b, Loops(stack, c))
      /\ Answering(b) /\ Left(b, pairs[f].resolved, Loops(stack, c))
      /\ Clean(promises, jobs, stack) \/ Over(stack, c, b)
  BY TheOne
<1>2. Looping(c) <=> Loops(stack, c)
  BY DEF Looping, Loops
<1>3. q \in DOMAIN promises
  BY <1>1 DEF Inv, Good, Refs, PairOk
<1> HIDE DEF q, f, b
<1>4. promises[q].result = Collected => Over(stack, c, b)
  BY <1>1, <1>3 DEF Clean, CleanPromises
<1>5. ASSUME b.type # "race", ~Loops(stack, c), b.answered = 1..b.n PROVE pairs[f].resolved
  <2> SUFFICES ASSUME ~pairs[f].resolved PROVE FALSE
    OBVIOUS
  <2>1. b.remaining > 0 /\ b.remaining = b.n - Cardinality(b.called) + 0
    BY <1>1, <1>5 DEF Left
  <2>2. IsFiniteSet(b.called) /\ Cardinality(b.called) \in Nat /\ b.n \in Nat
    BY <1>1, CalledFinite
  <2> DEFINE S == b.called
             T == b.answered
             g == [x \in S |-> x[2]]
  <2>3. T = {x[2] : x \in S}
    BY <1>1 DEF Answering
  <2>4. g \in [S -> T] /\ \A t \in T : \E x \in S : g[x] = t
    BY <2>3
  <2>5. IsFiniteSet(S)
    BY <2>2
  <2> HIDE DEF g, S, T
  <2>6. g \in Surjection(S, T)
    BY <2>4 DEF Surjection
  <2>7. Cardinality(T) <= Cardinality(S)
    BY <2>5, <2>6, FS_Surjection
  <2>8. Cardinality(1..b.n) = b.n
    <3>1. 1 \in Int /\ b.n \in Int
      BY <2>2
    <3>2. Cardinality(1..b.n) = IF 1 > b.n THEN 0 ELSE b.n - 1 + 1
      BY ONLY <3>1, FS_Interval
    <3> QED BY <2>2, <3>2
  <2> QED BY <1>5, <2>1, <2>2, <2>7, <2>8 DEF S, T
<1>6. CalledBoth(c) <=> BothCalled(b)
  BY DEF CalledBoth, BothCalled, b
<1> QED BY <1>2, <1>4, <1>5, <1>6 DEF Over, Twice, q, f, b

\* all, allSettled and any give their array or error when every item has
\* answered and not before, whatever is called in which order; only where a
\* foreign item of allSettled called both of its functions may the array
\* come early.
THEOREM CombinatorsGather == Spec => []CombinatorsExact
<1>1. Init => Gathers
  BY GathersFirst
<1>2. IInv /\ IInv' /\ Gathers /\ [Next]_vars => Gathers'
  BY StepGathers DEF IInv
<1>3. IInv /\ Gathers => CombinatorsExact
  BY CombinatorsExactHolds DEF IInv
<1> QED BY <1>1, <1>2, <1>3, InvariantAlways, PTL DEF Spec

-----------------------------------------------------------------------------
(***************************************************************************)
(* Asynchronous generators.  The inductive invariant ties the places where *)
(* a generator may be held up (its body, an await, an awaited return) to   *)
(* its state, and gives the numbers of the requests in the queue.  That a  *)
(* getter may call the generator in the middle of the loop costs it one    *)
(* exception, overtaken: what is known of an await holds until then.       *)
(***************************************************************************)

(* The newest Len(queue) requests are queued, the others answered. *)
Answered1 == asked - Len(queue)

InOrderOfRequest ==
  /\ Answered1 \in 0..asked
  /\ \A i \in 1..Len(queue) : queue[i].id = Answered1 + i
  /\ \A r \in Requests : answer[r] # "none" <=> r <= Answered1

(* What holds the generator up goes with its state. *)
Held ==
  /\ ~overtaken => pc # "aborted" /\ (awaiting > 0 => awaiting = 1 /\ state = "executing" /\ pc = "code")
  /\ returning = IF state = "awaiting_return" THEN 1 ELSE 0
  /\ pc = "body" => state = "executing"
  /\ state = "awaiting_return" => queue # <<>>
  /\ hasFunc <=> ~Closed

GeneratorInv == GeneratorTypeOK /\ InOrderOfRequest /\ Held /\ OwnAnswer

-----------------------------------------------------------------------------
LEMMA HeadFacts ==
  ASSUME NEW S, NEW s \in Seq(S), s # <<>>
  PROVE  Len(s) \in Nat \ {0} /\ 1 \in 1..Len(s) /\ Head(s) = s[1] /\ s[1] \in S
OBVIOUS

(* The oldest request. *)
LEMMA OldestFacts ==
  ASSUME GeneratorTypeOK, queue # <<>>
  PROVE  /\ Next1 = queue[1] /\ 1 \in 1..Len(queue) /\ Len(queue) \in Nat \ {0}
         /\ Next1 \in [id : Requests, type : Type]
         /\ Next1.id \in Requests /\ Next1.id \in 0..MaxRequests
<1>1. queue \in Seq([id : Requests, type : Type])
  BY DEF GeneratorTypeOK
<1>2. /\ Len(queue) \in Nat \ {0} /\ 1 \in 1..Len(queue) /\ Next1 = queue[1]
      /\ queue[1] \in [id : Requests, type : Type]
  BY <1>1, HeadFacts DEF Next1
<1> QED BY <1>2, BoundsAssumption DEF Requests

(* An answer takes the oldest request off the queue. *)
LEMMA AnswerFacts ==
  ASSUME GeneratorInv, queue # <<>>, NEW a \in {"value", "done", "error"}, AnswerOldest(a),
         asked' = asked
  PROVE  /\ queue' \in Seq([id : Requests, type : Type])
         /\ answer' \in [Requests -> {"none", "value", "done", "error"}]
         /\ InOrderOfRequest'
<1>1. /\ queue \in Seq([id : Requests, type : Type]) /\ Len(queue) \in Nat \ {0}
      /\ queue' = Tail(queue) /\ asked \in Nat
      /\ answer \in [Requests -> {"none", "value", "done", "error"}]
  BY BoundsAssumption DEF GeneratorInv, GeneratorTypeOK, AnswerOldest
<1>2. /\ queue' \in Seq([id : Requests, type : Type])
      /\ Len(queue') = Len(queue) - 1
      /\ \A i \in 1..Len(queue') : queue'[i] = queue[i + 1]
  BY <1>1
<1>3. Answered1' = Answered1 + 1 /\ Answered1 \in Nat /\ Answered1' \in 0..asked
  BY <1>1, <1>2 DEF GeneratorInv, InOrderOfRequest, Answered1
<1>4. Next1.id = Answered1 + 1 /\ Next1.id \in Requests
  <2>1. Next1 = queue[1] /\ 1 \in 1..Len(queue) /\ Next1.id \in Requests
    BY OldestFacts DEF GeneratorInv
  <2>2. queue[1].id = Answered1 + 1
    BY <2>1 DEF GeneratorInv, InOrderOfRequest
  <2> QED BY <2>1, <2>2
<1>5. /\ answer' \in [Requests -> {"none", "value", "done", "error"}]
      /\ \A r \in Requests : answer'[r] = IF r = Answered1 + 1 THEN a ELSE answer[r]
  BY <1>1, <1>4 DEF AnswerOldest
<1>6. \A i \in 1..Len(queue') : queue'[i].id = Answered1' + i
  <2> SUFFICES ASSUME NEW i \in 1..Len(queue') PROVE queue'[i].id = Answered1' + i
    OBVIOUS
  <2>1. i + 1 \in 1..Len(queue) /\ queue'[i] = queue[i + 1]
    BY <1>1, <1>2
  <2>2. queue[i + 1].id = Answered1 + (i + 1)
    BY <2>1 DEF GeneratorInv, InOrderOfRequest
  <2> QED BY <2>1, <2>2, <1>3
<1>7. \A r \in Requests : answer'[r] # "none" <=> r <= Answered1'
  <2> SUFFICES ASSUME NEW r \in Requests PROVE answer'[r] # "none" <=> r <= Answered1'
    OBVIOUS
  <2>1. r \in Nat /\ (answer[r] # "none" <=> r <= Answered1)
    BY DEF GeneratorInv, InOrderOfRequest, Requests
  <2> QED BY <2>1, <1>3, <1>5
<1> QED BY <1>2, <1>3, <1>5, <1>6, <1>7 DEF InOrderOfRequest

(* A step that touches neither the queue nor the answers keeps their order. *)
LEMMA OrderedKept ==
  ASSUME InOrderOfRequest, UNCHANGED <<queue, answer, asked>> PROVE InOrderOfRequest'
BY DEF InOrderOfRequest, Answered1

-----------------------------------------------------------------------------
LEMMA InitInv == GeneratorInit => GeneratorInv
<1> SUFFICES ASSUME GeneratorInit PROVE GeneratorInv
  OBVIOUS
<1>1. GeneratorTypeOK
  <2>1. <<>> \in Seq({"again", "leave"}) /\ <<>> \in Seq([id : Requests, type : Type])
    OBVIOUS
  <2>2. getters \in Seq({"again", "leave"}) /\ queue \in Seq([id : Requests, type : Type])
    BY <2>1, Zenon DEF GeneratorInit
  <2>3. answer \in [Requests -> {"none", "value", "done", "error"}]
    BY DEF GeneratorInit
  <2>4. /\ awaiting \in Nat /\ returning \in Nat
        /\ asked \in 0..MaxRequests /\ current \in 0..MaxRequests /\ awaits \in 0..MaxAwaits
    BY BoundsAssumption DEF GeneratorInit
  <2>5. state \in {"suspended_start", "executing"} /\ hasFunc \in BOOLEAN /\ overtaken \in BOOLEAN /\ pc = "code"
    BY DEF GeneratorInit
  <2> QED BY <2>2, <2>3, <2>4, <2>5 DEF GeneratorTypeOK
<1>2. InOrderOfRequest
  <2>1. Len(queue) = 0 /\ Answered1 = 0 /\ asked = 0
    <3>1. asked = 0
      BY DEF GeneratorInit
    <3>2. Len(queue) = 0
      <4>1. queue = <<>>
        BY DEF GeneratorInit
      <4> QED BY <4>1
    <3> QED BY <3>1, <3>2 DEF Answered1
  <2>2. \A r \in Requests : answer[r] = "none" /\ ~(r <= 0)
    BY BoundsAssumption DEF GeneratorInit, Requests
  <2> QED BY <2>1, <2>2 DEF InOrderOfRequest
<1>3. Held /\ OwnAnswer
  BY DEF GeneratorInit, Held, OwnAnswer, Closed
<1> QED BY <1>1, <1>2, <1>3 DEF GeneratorInv

LEMMA CallInv == ASSUME GeneratorInv, NEW t \in Type, Call(t) PROVE GeneratorInv'
<1> DEFINE r == [id |-> asked + 1, type |-> t]
<1>1. /\ queue \in Seq([id : Requests, type : Type]) /\ Len(queue) \in Nat
      /\ asked \in Nat /\ asked < MaxRequests /\ MaxRequests \in Nat
      /\ queue' = Append(queue, r) /\ asked' = asked + 1
      /\ UNCHANGED <<state, hasFunc, getters, awaiting, returning, answer, current, awaits, overtaken>>
  BY BoundsAssumption DEF GeneratorInv, GeneratorTypeOK, Call
<1>2. r \in [id : Requests, type : Type]
  BY <1>1 DEF Requests
<1>3. /\ queue' \in Seq([id : Requests, type : Type])
      /\ Len(queue') = Len(queue) + 1 /\ queue' # <<>>
      /\ queue'[Len(queue) + 1] = r
      /\ \A i \in 1..Len(queue) : queue'[i] = queue[i]
  BY <1>1, <1>2
<1>4. GeneratorTypeOK'
  <2>1. pc' \in {"code", "loop", "body", "aborted"}
    BY DEF GeneratorInv, GeneratorTypeOK, Call
  <2>2. asked' \in 0..MaxRequests
    BY <1>1
  <2> QED BY <1>1, <1>3, <2>1, <2>2 DEF GeneratorInv, GeneratorTypeOK
<1>5. InOrderOfRequest'
  <2>1. Answered1' = Answered1 /\ Answered1 \in 0..asked
    BY <1>1, <1>3 DEF GeneratorInv, InOrderOfRequest, Answered1
  <2>2. ASSUME NEW i \in 1..Len(queue') PROVE queue'[i].id = Answered1' + i
    <3>1. CASE i \in 1..Len(queue)
      BY <3>1, <2>1, <1>3 DEF GeneratorInv, InOrderOfRequest
    <3>2. CASE i = Len(queue) + 1
      BY <3>2, <2>1, <1>1, <1>3 DEF Answered1
    <3> QED BY <3>1, <3>2, <1>1, <1>3
  <2>3. Answered1' \in 0..asked'
    BY <1>1, <2>1
  <2>4. \A q \in Requests : answer[q] # "none" <=> q <= Answered1
    BY DEF GeneratorInv, InOrderOfRequest
  <2>5. \A q \in Requests : answer'[q] # "none" <=> q <= Answered1'
    BY <1>1, <2>1, <2>4
  <2> QED BY <2>2, <2>3, <2>5 DEF InOrderOfRequest
<1>6. Held'
  BY <1>1, <1>3 DEF GeneratorInv, Held, Call, Closed, GeneratorTypeOK
<1>7. OwnAnswer'
  <2> SUFFICES ASSUME state = "executing" PROVE queue' # <<>> /\ Next1'.id = current
    BY <1>1 DEF OwnAnswer
  <2>1. queue # <<>> /\ Next1.id = current
    BY DEF GeneratorInv, OwnAnswer
  <2>2. Next1' = Next1
    BY <2>1, <1>1, <1>3 DEF Next1
  <2> QED BY <2>1, <2>2, <1>3
<1> QED BY <1>4, <1>5, <1>6, <1>7 DEF GeneratorInv

(* The stack of the answers in progress. *)
LEMMA StackFacts ==
  ASSUME NEW s \in Seq({"again", "leave"})
  PROVE  /\ \A a \in {"again", "leave"} : <<a>> \o s \in Seq({"again", "leave"})
         /\ s # <<>> => Tail(s) \in Seq({"again", "leave"})
OBVIOUS

(* The steps that answer nobody. *)
LEMMA LoopInv ==
  ASSUME GeneratorInv,
         \/ QueueEmpty \/ ContinueAfterAwait \/ ReturnPending \/ ResumeBody
         \/ CloseUnstarted \/ CompletedReturn \/ BodyAwaits
         \/ GetterReturns \/ AwaitEnds \/ AwaitAborts
  PROVE  GeneratorInv'
<1> USE DEF QueueEmpty, ContinueAfterAwait, ReturnPending, ResumeBody, CloseUnstarted,
            CompletedReturn, BodyAwaits, GetterReturns, AwaitEnds, AwaitAborts, AtLoop, AtRest, Complete
<1>1. UNCHANGED <<queue, answer, asked>>
  OBVIOUS
<1>2. queue # <<>> => Next1.id \in 0..MaxRequests
  <2> SUFFICES ASSUME queue # <<>> PROVE Next1.id \in 0..MaxRequests
    OBVIOUS
  <2> QED BY OldestFacts DEF GeneratorInv
<1>3. GeneratorTypeOK'
  <2>1. current' \in 0..MaxRequests
    BY <1>2 DEF GeneratorInv, GeneratorTypeOK
  <2>2. awaits' \in 0..MaxAwaits
    BY BoundsAssumption DEF GeneratorInv, GeneratorTypeOK
  <2>3. getters' \in Seq({"again", "leave"})
    <3>1. getters \in Seq({"again", "leave"})
      BY DEF GeneratorInv, GeneratorTypeOK
    <3>2. getters' = getters \/ (getters # <<>> /\ getters' = Tail(getters))
      OBVIOUS
    <3> QED BY <3>1, <3>2, StackFacts
  <2>4. awaiting' \in Nat /\ returning' \in Nat
    BY DEF GeneratorInv, GeneratorTypeOK
  <2> QED BY <1>1, <2>1, <2>2, <2>3, <2>4 DEF GeneratorInv, GeneratorTypeOK, Suspended
<1>4. InOrderOfRequest'
  BY <1>1, OrderedKept DEF GeneratorInv
<1>5. Held'
  BY <1>1 DEF GeneratorInv, Held, GeneratorTypeOK, Closed, Suspended, OwnAnswer
<1>6. OwnAnswer'
  BY <1>1 DEF GeneratorInv, OwnAnswer, Next1, Held
<1> QED BY <1>3, <1>4, <1>5, <1>6 DEF GeneratorInv

(* The steps that answer the oldest request. *)
LEMMA AnsweringInv ==
  ASSUME GeneratorInv,
         \/ CompletedNext \/ CompletedThrow
         \/ \E s \in Suspended : BodyYields(s)
         \/ BodyReturns \/ BodyThrows \/ ReturnEnds
  PROVE  GeneratorInv'
<1> USE DEF CompletedNext, CompletedThrow, BodyYields, BodyReturns, BodyThrows, ReturnEnds,
            AtLoop, AtRest, Complete, Resolve, Reject
<1>1. queue # <<>> /\ state \in {"executing", "awaiting_return", "completed"}
  BY DEF GeneratorInv, GeneratorTypeOK, Held, OwnAnswer
<1>2. \E a \in {"value", "done", "error"} : AnswerOldest(a)
  OBVIOUS
<1>3. UNCHANGED <<asked, current, awaiting, awaits, overtaken>>
  OBVIOUS
<1>4. /\ queue' \in Seq([id : Requests, type : Type])
      /\ answer' \in [Requests -> {"none", "value", "done", "error"}]
      /\ InOrderOfRequest'
  BY <1>1, <1>2, <1>3, AnswerFacts
<1>5. getters' \in Seq({"again", "leave"})
  <2>1. getters \in Seq({"again", "leave"})
    BY DEF GeneratorInv, GeneratorTypeOK
  <2>2. getters' = getters \/ \E a \in {"again", "leave"} : getters' = <<a>> \o getters
    OBVIOUS
  <2> QED BY <2>1, <2>2, StackFacts
<1>6. pc' \in {"code", "loop"} /\ returning' \in Nat
  BY DEF GeneratorInv, GeneratorTypeOK
<1>7. GeneratorTypeOK'
  BY <1>3, <1>4, <1>5, <1>6 DEF GeneratorInv, GeneratorTypeOK, Suspended
<1>8. Held'
  BY <1>1, <1>3, <1>6 DEF GeneratorInv, GeneratorTypeOK, Held, Closed, Suspended
<1>9. OwnAnswer'
  BY <1>1 DEF GeneratorInv, GeneratorTypeOK, Held, OwnAnswer, Suspended
<1> QED BY <1>4, <1>7, <1>8, <1>9 DEF GeneratorInv

LEMMA NextInv == GeneratorInv /\ [GeneratorNext]_generatorVars => GeneratorInv'
<1> SUFFICES ASSUME GeneratorInv, [GeneratorNext]_generatorVars PROVE GeneratorInv'
  OBVIOUS
<1>1. CASE UNCHANGED generatorVars
  BY <1>1, OrderedKept DEF generatorVars, GeneratorInv, GeneratorTypeOK, Held, OwnAnswer, Closed, Next1
<1>2. CASE \E t \in Type : Call(t)
  BY <1>2, CallInv
<1>3. CASE Loop \/ Body \/ GetterReturns \/ GeneratorJob
  BY <1>3, LoopInv, AnsweringInv DEF Loop, Body, GeneratorJob
<1> QED BY <1>1, <1>2, <1>3 DEF GeneratorNext

THEOREM Invariance == GeneratorSpec => []GeneratorInv
BY InitInv, NextInv, PTL DEF GeneratorSpec

(* Every variable of a generator keeps to its range. *)
THEOREM TypeCorrect == GeneratorSpec => []GeneratorTypeOK
<1>1. GeneratorInv => GeneratorTypeOK
  BY DEF GeneratorInv
<1> QED BY <1>1, Invariance, PTL

(* While no loop went on after a getter that had brought the body to an      *)
(* await, the assertions of js_async_generator_resolve_function cannot fail; *)
(* the queue is never read empty, and func_state is there exactly until the  *)
(* generator has ended.                                                      *)
THEOREM AssertionsNeverFail == GeneratorSpec => []AssertsHold
<1>1. GeneratorInv => AssertsHold
  BY DEF GeneratorInv, GeneratorTypeOK, Held, OwnAnswer, AssertsHold, Closed
<1> QED BY <1>1, Invariance, PTL

(* Requests are answered once each, in the order they were made, also by the *)
(* loops that getters of "then" nest in each other.                          *)
THEOREM InOrder == GeneratorSpec => []AnswersInOrder
<1>1. GeneratorInv => AnswersInOrder
  <2> SUFFICES ASSUME GeneratorInv PROVE AnswersInOrder
    OBVIOUS
  <2>1. Answered1 \in 0..asked /\ Len(queue) = asked - Answered1
    BY DEF GeneratorInv, GeneratorTypeOK, InOrderOfRequest, Answered1
  <2> QED BY <2>1 DEF GeneratorInv, InOrderOfRequest, AnswersInOrder
<1> QED BY <1>1, Invariance, PTL

(* What the body yields answers the request that resumed it.                 *)
THEOREM AnswersItsOwn == GeneratorSpec => []OwnAnswer
<1>1. GeneratorInv => OwnAnswer
  BY DEF GeneratorInv
<1> QED BY <1>1, Invariance, PTL

(* A generator that has ended stays so and yields nothing more, whatever is  *)
(* queued or awaited when it ends.                                           *)
THEOREM StaysClosed == GeneratorSpec => ClosedForGood
<1>1. ASSUME GeneratorInv, [GeneratorNext]_generatorVars, Closed
      PROVE  Closed' /\ \A r \in Requests : answer'[r] = "value" => answer[r] = "value"
  <2>1. CASE UNCHANGED generatorVars
    BY <1>1, <2>1 DEF generatorVars, Closed
  <2>2. pc # "body" /\ state # "executing"
    BY <1>1 DEF GeneratorInv, Held, Closed
  <2>7. CASE GetterReturns
    BY <1>1, <2>7 DEF GetterReturns, Closed
  <2>3. CASE \E t \in Type : Call(t)
    BY <1>1, <2>3 DEF Call, Closed
  <2>4. CASE Loop
    BY <1>1, <2>2, <2>4
       DEF Loop, QueueEmpty, ContinueAfterAwait, ReturnPending, ResumeBody, CloseUnstarted,
           CompletedNext, CompletedThrow, CompletedReturn, AtLoop, Closed, Suspended,
           Resolve, Reject, AnswerOldest, GeneratorInv, GeneratorTypeOK
  <2>5. CASE GeneratorJob
    BY <1>1, <2>2, <2>5
       DEF GeneratorJob, AwaitEnds, AwaitAborts, ReturnEnds, Closed,
           Resolve, Reject, AnswerOldest, GeneratorInv, GeneratorTypeOK
  <2>6. CASE Body
    BY <2>2, <2>6 DEF Body, BodyAwaits, BodyYields, BodyReturns, BodyThrows
  <2> QED BY <1>1, <2>1, <2>3, <2>4, <2>5, <2>6, <2>7 DEF GeneratorNext
<1>2. GeneratorInv /\ [GeneratorNext]_generatorVars => [Closed => Closed' /\ \A r \in Requests : answer'[r] = "value" => answer[r] = "value"]_generatorVars
  BY <1>1
<1> QED BY <1>2, Invariance, PTL DEF GeneratorSpec, ClosedForGood

(* Each request gets its own answer, once and in order.                     *)
THEOREM AnswersAreExact == GeneratorSpec => []AnswersExact
BY TypeCorrect, InOrder, AnswersItsOwn, PTL DEF AnswersExact
=============================================================================
