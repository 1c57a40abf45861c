---------------------------- MODULE MCModuleEval ----------------------------
(* Three modules: every graph of imports on them, in every order.  Names    *)
(* do not matter, so that the modules may be taken by number of imports.    *)
EXTENDS ModuleEval

CONSTANTS a, b, c

MCModule == {a, b, c}
MCInit ==
  /\ Init
  /\ Len(requests[a]) >= Len(requests[b])
  /\ Len(requests[b]) >= Len(requests[c])

MCFairSpec ==
  /\ MCInit
  /\ [][Next]_vars
  /\ WF_vars(Job)
  /\ \A m \in Module : WF_vars(BodyEnds(m))
=============================================================================
