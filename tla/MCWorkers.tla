----------------------------- MODULE MCWorkers ------------------------------
(***************************************************************************)
(* A main thread that listens to two workers, so that the order of its     *)
(* port_list matters.  Only some scripts are kept.  The first worker and   *)
(* the main thread send each other messages, and the second worker, which  *)
(* is started when the first one listens, does nothing but post.  Handlers *)
(* are kept, except that the main thread may set that of the first worker  *)
(* anew, behind that of the second one.  What the runtime does, Return and *)
(* their fairness are those of WorkerPipe.                                 *)
(***************************************************************************)
EXTENDS WorkerPipe

CONSTANTS w1, w2

Outer(w) == <<w, "outer">>

\* The script step to the primed state is one of those.
Kept ==
  /\ pc'[w2] # "none" => ports[w1] # {} /\ (Outer(w1) \in ports[Parent] \/ pc[w2] # "none")
  /\ \A t \in Thread : pc'[t] = "release" =>
       /\ t = Parent /\ pc[w2] # "none"
       /\ Outer(w2) \in ports'[Parent] /\ UNCHANGED object
  /\ ports'[w2] = {} /\ \A t \in Thread : others'[t] => t = w1
  /\ \A t \in Thread : pc'[t] = "post_lock" /\ pc[t] = "js" =>
       cur'[t] # Outer(w2) /\ queue[Send(cur'[t])] = <<>>

MCNext ==
  \E t \in Thread :
    pc[Parent] # "gone" /\ ((Script(t) /\ Kept) \/ Return(t) \/ Runtime(t) \/ Serve(t))

MCFairSpec == Init /\ [][MCNext]_vars /\ Fairness
=============================================================================
