--------------------------- MODULE AbstractPromise ---------------------------
(***************************************************************************)
(* What promises promise: each is settled at most once, and each reaction  *)
(* registered on it is called once, after it is settled, with its outcome, *)
(* in the order of registration.  There are no jobs, no resolving          *)
(* functions and no flags.  Different promises may move in one step.       *)
(***************************************************************************)
EXTENDS Integers, Sequences

CONSTANTS Promise, Value, Unsettled

VARIABLES
  outcome,     \* Unsettled, or what the promise was settled with
  registered,  \* the number of reactions registered so far
  called       \* what each reaction called so far was called with

vars == <<outcome, registered, called>>

Outcome == [rej : BOOLEAN, value : Value]

Init ==
  /\ outcome = [p \in Promise |-> Unsettled]
  /\ registered = [p \in Promise |-> 0]
  /\ called = [p \in Promise |-> <<>>]

Stays(p) ==
  /\ outcome'[p] = outcome[p]
  /\ registered'[p] = registered[p]
  /\ called'[p] = called[p]

\* A promise that is made settled may have its first reaction at once.
Settle(p) ==
  /\ outcome[p] = Unsettled /\ outcome'[p] \in Outcome
  /\ registered'[p] \in {registered[p], registered[p] + 1}
  /\ called'[p] = called[p]

Register(p) ==
  /\ outcome'[p] = outcome[p]
  /\ registered'[p] = registered[p] + 1
  /\ called'[p] = called[p]

\* The next reaction: with the outcome, and not before there is one.
Call(p) ==
  /\ outcome[p] # Unsettled /\ outcome'[p] = outcome[p]
  /\ Len(called[p]) < registered[p] /\ registered'[p] = registered[p]
  /\ called'[p] = Append(called[p], [n |-> Len(called[p]) + 1, with |-> outcome[p]])

Next == \A p \in Promise : Stays(p) \/ Settle(p) \/ Register(p) \/ Call(p)

Spec == Init /\ [][Next]_vars
=============================================================================
