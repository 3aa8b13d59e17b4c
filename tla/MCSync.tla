------------------------------- MODULE MCSync -------------------------------
(***************************************************************************)
(* What processes share: Condition over three processes and, side by side  *)
(* with it, Event, SemLock, the semaphore tracker, the connections and     *)
(* their authentication, the resource sharer and the heap of shared        *)
(* memory.  They share no state in these modules, so a behaviour is one of *)
(* one of them; part says which.                                           *)
(***************************************************************************)
EXTENDS Condition, Event, SemLock, SemTracker, Connection, Handshake, Sharer, Heap

\* A short message, one longer than the pipe, an empty one.
MCPayloads == <<1, 4, 0>>

VARIABLE part

primitiveVars == <<vars, eventVars, semLockVars, stVars>>
ipcVars == <<cnVars, hsVars, shVars, heapVars>>

SyncInit ==
  /\ part \in {"condition", "event", "semlock", "tracker", "connection", "handshake",
               "sharer", "heap"}
  /\ Init /\ EventInit /\ SemInit /\ StInit /\ CnInit /\ HsInit /\ ShInit /\ HeapInit
  /\ part # "semlock" => semKind = "mutex"
  /\ part # "handshake" => hsKey = [s \in Sides |-> CHOOSE k \in Keys : TRUE]

SyncNext ==
  /\ UNCHANGED part
  /\ \/ part = "condition" /\ Next /\ UNCHANGED <<eventVars, semLockVars, stVars, ipcVars>>
     \/ part = "event" /\ EventNext /\ UNCHANGED <<vars, semLockVars, stVars, ipcVars>>
     \/ part = "semlock" /\ SemNext /\ UNCHANGED <<vars, eventVars, stVars, ipcVars>>
     \/ part = "tracker" /\ StNext /\ UNCHANGED <<vars, eventVars, semLockVars, ipcVars>>
     \/ part = "connection" /\ CnNext /\ UNCHANGED <<primitiveVars, hsVars, shVars, heapVars>>
     \/ part = "handshake" /\ HsNext /\ UNCHANGED <<primitiveVars, cnVars, shVars, heapVars>>
     \/ part = "sharer" /\ ShNext /\ UNCHANGED <<primitiveVars, cnVars, hsVars, heapVars>>
     \/ part = "heap" /\ HeapNext /\ UNCHANGED <<primitiveVars, cnVars, hsVars, shVars>>

SyncSpec ==
  /\ SyncInit /\ [][SyncNext]_<<part, primitiveVars, ipcVars>>
  /\ Fairness /\ StFairness /\ CnFairness /\ HsFairness /\ ShFairness /\ HeapFairness
=============================================================================
