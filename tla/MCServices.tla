----------------------------- MODULE MCServices -----------------------------
(***************************************************************************)
(* What surrounds the pool's core, side by side: the results of map and    *)
(* imap, time limits, the restart limit, processes, the fork server and    *)
(* managers.  They share no state in these modules, so a behaviour is one  *)
(* of one of them; part says which.                                        *)
(***************************************************************************)
EXTENDS Results, TimeLimits, Restarts, Processes, ForkServer, Managers

\* The limits of the burst at the start, and of the pool: starts, and in what time.
MCMaxR == [burst |-> 3, pool |-> 2]
MCMaxT == [burst |-> 1, pool |-> 2]

VARIABLE part

poolVars == <<resVars, tlVars, rsVars>>
procVars == <<prVars, fsVars, mgVars>>

SvcInit ==
  /\ part \in {"results", "limits", "restarts", "processes", "forkserver",
               "managers"}
  /\ ResInit /\ TlInit /\ RsInit /\ PrInit /\ FsInit /\ MgInit
  /\ part # "limits" => tlSynack = FALSE

SvcNext ==
  /\ UNCHANGED part
  /\ \/ part = "results" /\ ResNext /\ UNCHANGED <<tlVars, rsVars, procVars>>
     \/ part = "limits" /\ TlNext /\ UNCHANGED <<resVars, rsVars, procVars>>
     \/ part = "restarts" /\ RsNext /\ UNCHANGED <<resVars, tlVars, procVars>>
     \/ part = "processes" /\ PrNext /\ UNCHANGED <<poolVars, fsVars, mgVars>>
     \/ part = "forkserver" /\ FsNext /\ UNCHANGED <<poolVars, prVars, mgVars>>
     \/ part = "managers" /\ MgNext /\ UNCHANGED <<poolVars, prVars, fsVars>>

SvcSpec ==
  /\ SvcInit /\ [][SvcNext]_<<part, poolVars, procVars>>
  /\ ResFairness /\ TlFairness /\ FsFairness /\ MgFairness
=============================================================================
