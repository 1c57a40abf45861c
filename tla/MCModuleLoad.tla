---------------------------- MODULE MCModuleLoad ----------------------------
(* Three names: every graph of imports on them, and every set of missing   *)
(* files.                                                                  *)
EXTENDS ModuleLoad, TLC

Symmetry == Permutations(Name)
=============================================================================
