------------------------------ MODULE MCGraphs ------------------------------
(***************************************************************************)
(* The two orchestration graphs for TLC.  A conversation is started with   *)
(* one of them (main.py:848-891) and keeps it; they share no state, so a   *)
(* behaviour moves the one it has chosen.                                  *)
(***************************************************************************)
EXTENDS PlanGraph, MultiAgent

VARIABLE graph

MCRequests == {"do p", "; ;"}

MCSplit == ("do p" :> <<"p", "q">>) @@ ("; ;" :> <<>>)

MCLlmPlans ==
  LET run == [kind |-> "command", text |-> "p"]
      ask == [kind |-> "business", text |-> "q"]
  IN  UNION {[1..n -> {run, ask}] : n \in 0..2}

GraphsInit == 
  /\ graph \in {"plan", "multi"}
  /\ Init /\ MultiInit
  /\ graph = "multi" => messages = <<Human("a")>>

GraphsNext ==
  /\ graph' = graph
  /\ \/ graph = "plan" /\ Next /\ UNCHANGED multiVars
     \/ graph = "multi" /\ MultiNext /\ UNCHANGED vars

GraphsSpec == GraphsInit /\ [][GraphsNext]_<<graph, vars, multiVars>>

\* The variables of both graphs keep their types.
GraphsTyped == TypeOK /\ MultiTypeOK
=============================================================================
