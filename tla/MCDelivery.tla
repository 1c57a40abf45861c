----------------------------- MODULE MCDelivery -----------------------------
(***************************************************************************)
(* The two ways to a package, side by side: a behaviour is one of the      *)
(* scripts run by hand or one of the workflow, and the other one does not  *)
(* start.  The scripts of every package, and one tag of each of two        *)
(* families.                                                               *)
(***************************************************************************)
EXTENDS BuildScripts, ReleasePipeline, TLC

CONSTANTS v, py

MCTag    == {v, py}
MCFamily == (v :> "v") @@ (py :> "python-v")
MCKeys   == {"valid", "invalid"}
MCTwo    == {"ffmpeg", "python"}
MCAll    == {"ffmpeg", "python", "quickjs"}

VARIABLE way

mcVars == <<buildVars, vars, way>>

MCInit ==
  /\ BuildInit /\ Init
  /\ way \in {"scripts", "workflow"} /\ (way = "workflow" => package = "quickjs")

MCNext ==
  /\ \/ way = "scripts" /\ BuildNext /\ UNCHANGED vars
     \/ way = "workflow" /\ Next /\ UNCHANGED buildVars
  /\ UNCHANGED way

MCSpec == MCInit /\ [][MCNext]_mcVars
=============================================================================
