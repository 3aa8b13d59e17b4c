------------------------------ MODULE MCPoolEnd ------------------------------
(***************************************************************************)
(* The two ways in which a pool ends, side by side: close and join, in     *)
(* Pool, and terminate, in Terminate.  They share no state in these        *)
(* modules, so a behaviour is one of one of them; part says which.         *)
(***************************************************************************)
EXTENDS Pool, Terminate

VARIABLE part

EndInit == part \in {"close", "terminate"} /\ Init /\ TmInit

EndNext ==
  /\ UNCHANGED part
  /\ \/ part = "close" /\ Next /\ UNCHANGED tmVars
     \/ part = "terminate" /\ TmNext /\ UNCHANGED vars

EndSpec ==
  /\ EndInit /\ [][EndNext]_<<part, vars, tmVars>>
  /\ part = "close" => Fairness
  /\ TmFairness
=============================================================================
