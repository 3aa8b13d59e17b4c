----------------------------- MODULE PoolProofs -----------------------------
(* Theorems about the pool of module Pool, for every value of its constants. *)
EXTENDS Pool, FiniteSetTheorems, TLAPS

(***************************************************************************)
(* Type correctness                                                        *)
(***************************************************************************)

\* A set of workers is finite.
LEMMA PidsFinite ==
  ASSUME NEW S, S \subseteq Pids
  PROVE  IsFiniteSet(S) /\ Cardinality(S) \in Nat
<1>1. IsFiniteSet(Pids)
  BY PoolAssumption, FS_Interval DEF Pids
<1> QED
  BY <1>1, FS_Subset, FS_CardinalityType

\* The messages put on the queues of tasks are well formed.
LEMMA TaskFacts ==
  /\ Sentinel \in TaskMsgs
  /\ \A j \in Jobs : Task(j) \in TaskMsgs
BY DEF TaskMsgs

\* Appending to a queue and taking its head keep the type of a queue.
LEMMA QueueFacts ==
  ASSUME NEW S, NEW q \in Seq(S)
  PROVE  /\ \A x \in S : Append(q, x) \in Seq(S)
         /\ q # <<>> => Tail(q) \in Seq(S)
OBVIOUS

\* A message on a queue of tasks that is not the sentinel carries a job.
LEMMA TaskHead ==
  ASSUME NEW q \in Seq(TaskMsgs), q # <<>>, Head(q) # Sentinel
  PROVE  Head(q).job \in Jobs
BY DEF TaskMsgs, Task

\* The messages put on the outqueue are well formed.
LEMMA OutFacts ==
  /\ \A j \in Jobs, p \in Pids :
       Msg("ACK", j, p) \in OutMsgs /\ Msg("READY", j, p) \in OutMsgs
  /\ \A p \in Pids :
       Msg("DEATH", NoJob, p) \in OutMsgs /\ Msg("PART", NoJob, p) \in OutMsgs
  /\ Msg("NONE", NoJob, NoPid) \in OutMsgs
BY DEF OutMsgs, Msg

\* What the ResultHandler finds in the messages on the outqueue.
LEMMA OutHead ==
  ASSUME NEW q \in Seq(OutMsgs), q # <<>>
  PROVE  /\ Head(q).type \in {"ACK", "READY"} =>
              Head(q).job \in Jobs /\ Head(q).pid \in Pids
         /\ Head(q).type = "DEATH" => Head(q).pid \in Pids
<1>1. Head(q) \in OutMsgs
  OBVIOUS
<1> QED
  BY <1>1 DEF OutMsgs

\* A step of worker p that puts a message, ends the worker or is the effect of
\* a signal on it: the worker stays or goes on to control point c, and writes
\* nothing, a message in part, or one of its own.
Sends(p, c) ==
  \/ /\ c \notin {"run", "sent"} /\ UNCHANGED wjob
     /\ \/ UNCHANGED outqueue
        \/ outqueue' = Append(outqueue, Msg("PART", NoJob, p))
        \/ outqueue' = Append(outqueue, Msg("DEATH", NoJob, p))
  \/ /\ wpc[p] = "got" /\ c \in {"run", "exited"}
     /\ outqueue' = Append(outqueue, Msg("ACK", wjob[p], p))
     /\ UNCHANGED wjob
  \/ /\ wpc[p] = "run" /\ c \in {"sent", "exited"}
     /\ outqueue' = Append(outqueue, Msg("READY", wjob[p], p))
     /\ wjob' = [wjob EXCEPT ![p] = NoJob]

Points == {"run", "sent", "ensure", "death", "dying", "exited"}

Turns(p) ==
  \/ UNCHANGED <<wpc, outqueue, wjob>>
  \/ /\ wpc[p] \in Alive
     /\ \E c \in Points :
          /\ c = "run" => wpc[p] = "got"
          /\ wpc' = [wpc EXCEPT ![p] = c]
          /\ Sends(p, c)

\* A kill is such a step ...
LEMMA KillTurns ==
  ASSUME TypeOK, NEW p \in Pids, wpc[p] \in Alive, Killed(p)
  PROVE  Turns(p)
<1>1. wpc' = [wpc EXCEPT ![p] = "exited"]
  BY DEF Killed
<1>2. Sends(p, "exited")
  <2>1. CASE UNCHANGED <<outqueue, wjob>>
    BY <2>1 DEF Sends
  <2>2. CASE DiesInPut(p)
    <3>1. CASE outqueue' = Append(outqueue, Msg("PART", NoJob, p)) /\ UNCHANGED wjob
      BY <3>1 DEF Sends
    <3>2. CASE /\ outqueue' = Append(outqueue, Outgoing(p))
               /\ wjob' = [wjob EXCEPT ![p] = IF wpc[p] = "run" THEN NoJob ELSE @]
      <4>1. CASE wpc[p] = "run"
        BY <3>2, <4>1 DEF Sends, Outgoing
      <4>2. CASE wpc[p] # "run"
        <5>1. wjob' = wjob
          BY <3>2, <4>2 DEF TypeOK, WorkerType
        <5> QED
          BY <2>2, <3>2, <4>2, <5>1 DEF Sends, Outgoing, DiesInPut
      <4> QED
        BY <4>1, <4>2
    <3> QED
      BY <2>1, <2>2, <3>1, <3>2 DEF DiesInPut
  <2>3. CASE DiesAtCounter(p)
    BY <2>1, <2>3 DEF DiesAtCounter
  <2> QED
    BY <2>1, <2>2, <2>3 DEF Killed
<1> QED
  BY <1>1, <1>2 DEF Turns, Points

\* ... and so is TERM_SIGNAL ...
LEMMA TermTurns ==
  ASSUME TypeOK, NEW p \in Pids, TermEffect(p)
  PROVE  Turns(p)
<1>1. CASE Killed(p) /\ wpc[p] \in Serving \cup {"ensure"}
  BY <1>1, KillTurns DEF Alive
<1>2. CASE UNCHANGED <<wpc, outqueue, wjob>>
  BY <1>2 DEF Turns
<1>3. CASE /\ wpc[p] \in Alive
           /\ \E c \in {"ensure", "death", "exited"} : wpc' = [wpc EXCEPT ![p] = c]
           /\ UNCHANGED <<outqueue, wjob>>
  BY <1>3 DEF Turns, Sends, Points
<1> QED
  BY <1>1, <1>2, <1>3 DEF TermEffect, Alive

\* ... and each put.
LEMMA PutTurns ==
  ASSUME TypeOK, NEW p \in Pids, WorkerAck(p) \/ WorkerReady(p) \/ WorkerDeath(p)
  PROVE  Turns(p)
BY DEF WorkerAck, WorkerReady, WorkerDeath, Put, Outgoing, Turns, Sends, Points,
       Alive, Serving

\* What such a step writes has the type of the outqueue.
LEMMA TurnType ==
  ASSUME TypeOK, NEW p \in Pids, Turns(p)
  PROVE  outqueue' \in Seq(OutMsgs)
<1>1. wpc[p] \in {"got", "run"} => wjob[p] \in Jobs
  BY DEF TypeOK, WorkerType
<1>2. \/ outqueue' = outqueue
      \/ outqueue' = Append(outqueue, Msg("PART", NoJob, p))
      \/ outqueue' = Append(outqueue, Msg("DEATH", NoJob, p))
      \/ wjob[p] \in Jobs /\ outqueue' = Append(outqueue, Msg("ACK", wjob[p], p))
      \/ wjob[p] \in Jobs /\ outqueue' = Append(outqueue, Msg("READY", wjob[p], p))
  BY <1>1 DEF Turns, Sends
<1>3. outqueue' = outqueue \/ \E m \in OutMsgs : outqueue' = Append(outqueue, m)
  BY <1>2, OutFacts
<1>4. outqueue \in Seq(OutMsgs)
  BY DEF TypeOK, QueueType
<1> QED
  BY <1>3, <1>4

\* A kill keeps the type of the workers ...
LEMMA KillType ==
  ASSUME TypeOK, NEW p \in Pids, Killed(p),
         UNCHANGED <<pool, completed, fired, ensured>>
  PROVE  WorkerType'
<1>1. /\ wpc' = [wpc EXCEPT ![p] = "exited"] /\ UNCHANGED rlock
      /\ wlock' \in Pids \cup {NoPid} /\ locked' \subseteq Pids
      /\ wjob' = wjob \/ wjob' = [wjob EXCEPT ![p] = NoJob]
         \/ wjob' = [wjob EXCEPT ![p] = @]
  BY DEF Killed, DiesInPut, DiesAtCounter, TypeOK, WorkerType
<1> QED
  BY <1>1 DEF TypeOK, WorkerType, Alive, Serving

\* ... and so does TERM_SIGNAL.
LEMMA TermType ==
  ASSUME TypeOK, NEW p \in Pids, TermEffect(p),
         UNCHANGED <<pool, completed, ensured>>
  PROVE  WorkerType'
<1>1. CASE Killed(p) /\ UNCHANGED fired
  BY <1>1, KillType
<1>2. CASE /\ wpc' = wpc \/ \E c \in {"ensure", "death", "exited"} :
                              wpc' = [wpc EXCEPT ![p] = c]
           /\ rlock' \in {rlock, NoPid} /\ fired' \in {fired, fired \cup {p}}
           /\ UNCHANGED <<wjob, wlock, locked>>
  BY <1>2 DEF TypeOK, WorkerType, Alive, Serving
<1> QED
  BY <1>1, <1>2 DEF TermEffect

\* The type of variables that a step leaves alone is preserved.
LEMMA Frames ==
  ASSUME TypeOK
  PROVE  /\ UNCHANGED envVars => EnvType'
         /\ UNCHANGED slotVars => SlotType'
         /\ UNCHANGED jobVars => JobType'
         /\ UNCHANGED queueVars => QueueType'
         /\ UNCHANGED <<pool, workerVars>> => WorkerType'
         /\ UNCHANGED creditVars => CreditType'
         /\ UNCHANGED thVars => ThType'
         /\ UNCHANGED rhVars => RhType'
         /\ UNCHANGED supVars => SupType'
<1> USE DEF TypeOK
<1>1. UNCHANGED envVars => EnvType'
  BY DEF EnvType, envVars, boundVars
<1>2. UNCHANGED slotVars => SlotType'
  BY DEF SlotType, slotVars
<1>3. UNCHANGED jobVars => JobType'
  BY DEF JobType, jobVars
<1>4. UNCHANGED queueVars => QueueType'
  BY DEF QueueType, queueVars
<1>5. UNCHANGED <<pool, workerVars>> => WorkerType'
  BY DEF WorkerType, workerVars
<1>6. UNCHANGED creditVars => CreditType'
  BY DEF CreditType, creditVars
<1>7. UNCHANGED thVars => ThType'
  BY DEF ThType, thVars
<1>8. UNCHANGED rhVars => RhType'
  BY DEF RhType, rhVars
<1>9. UNCHANGED supVars => SupType'
  BY DEF SupType, supVars
<1> QED
  BY <1>1, <1>2, <1>3, <1>4, <1>5, <1>6, <1>7, <1>8, <1>9

\* Looking a job up keeps the types.
LEMMA LookupType ==
  ASSUME TypeOK, NEW j \in Jobs, Lookup(j),
         UNCHANGED <<limit, rhFin>>, rhOwner' \in Pids \cup {NoPid}
  PROVE  SlotType' /\ RhType'
BY DEF TypeOK, SlotType, RhType, Lookup, Release, RhNext

\* The type invariant holds initially.
LEMMA TypeInit == Init => TypeOK
<1> SUFFICES ASSUME Init PROVE TypeOK
  OBVIOUS
<1>1. EnvType /\ SlotType /\ JobType
  BY PoolAssumption DEF Init, EnvType, SlotType, JobType, Values
<1>2. taskqueue = <<>> /\ inqueue = <<>> /\ outqueue = <<>>
  BY DEF Init
<1>3. QueueType
  BY <1>2 DEF QueueType
<1>4. ThType /\ SupType
  BY DEF Init, ThType, SupType
<1>6. RhType
  BY Zenon DEF Init, RhType
<1>5. WorkerType /\ CreditType
  BY PoolAssumption DEF Init, WorkerType, CreditType, Pids, Alive, Serving
<1> QED
  BY <1>1, <1>3, <1>4, <1>5, <1>6 DEF TypeOK

\* Every step preserves the type invariant.
LEMMA TypeNext == TypeOK /\ [Next]_vars => TypeOK'
<1> SUFFICES ASSUME TypeOK, [Next]_vars PROVE TypeOK'
  OBVIOUS
<1>1. ASSUME NEW j \in Jobs, ApplyCheck(j) PROVE TypeOK'
  <2>1. EnvType'
    BY <1>1 DEF TypeOK, ApplyCheck, EnvType, boundVars
  <2> QED
    BY <1>1, <2>1, Frames DEF TypeOK, ApplyCheck, threadVars, workerVars
<1>2. ASSUME NEW j \in Jobs, ApplySubmit(j) PROVE TypeOK'
  <2>1. EnvType'
    BY <1>2 DEF TypeOK, ApplySubmit, EnvType, boundVars
  <2>2. SlotType'
    BY <1>2 DEF TypeOK, ApplySubmit, SlotType
  <2>3. JobType'
    BY <1>2 DEF TypeOK, ApplySubmit, JobType
  <2>4. QueueType'
    BY <1>2, TaskFacts DEF TypeOK, ApplySubmit, QueueType
  <2> QED
    BY <1>2, <2>1, <2>2, <2>3, <2>4, Frames DEF TypeOK, ApplySubmit,
       threadVars, workerVars
<1>3. ASSUME Close PROVE TypeOK'
  <2>1. EnvType'
    BY <1>3 DEF TypeOK, Close, EnvType, boundVars
  <2>2. SlotType'
    BY <1>3 DEF TypeOK, Close, SlotType, Clear
  <2>3. QueueType'
    BY <1>3, TaskFacts DEF TypeOK, Close, QueueType
  <2> QED
    BY <1>3, <2>1, <2>2, <2>3, Frames DEF TypeOK, Close, threadVars,
       workerVars
<1>4. ASSUME Grow PROVE TypeOK'
  <2>1. EnvType'
    BY <1>4 DEF TypeOK, Grow, EnvType
  <2>2. SlotType'
    BY <1>4 DEF TypeOK, Grow, SlotType
  <2> QED
    BY <1>4, <2>1, <2>2, Frames DEF TypeOK, Grow, threadVars, workerVars
<1>5. ASSUME ShrinkBegin PROVE TypeOK'
  <2>1. EnvType'
    BY <1>5 DEF TypeOK, ShrinkBegin, EnvType, WorkerType
  <2>2. SlotType'
    BY <1>5 DEF TypeOK, ShrinkBegin, SlotType
  <2> QED
    BY <1>5, <2>1, <2>2, Frames DEF TypeOK, ShrinkBegin, threadVars,
       workerVars
<1>6. ASSUME ShrinkTerminate PROVE TypeOK'
  <2>0. shrinking \in Pids /\ TermEffect(shrinking)
    BY <1>6 DEF ShrinkTerminate, TypeOK, EnvType
  <2>1. EnvType'
    BY <1>6 DEF TypeOK, ShrinkTerminate, EnvType, NoPid, boundVars
  <2>2. SlotType'
    BY <1>6 DEF TypeOK, ShrinkTerminate, SlotType
  <2>3. QueueType'
    BY <1>6, <2>0, TermTurns, TurnType DEF TypeOK, ShrinkTerminate, QueueType
  <2>4. WorkerType'
    BY <1>6, <2>0, TermType DEF ShrinkTerminate
  <2> QED
    BY <1>6, <2>1, <2>2, <2>3, <2>4, Frames DEF TypeOK, ShrinkTerminate,
       threadVars, workerVars
<1>7. ASSUME NEW p \in Pids, TerminateJob(p) PROVE TypeOK'
  <2>1. EnvType'
    BY <1>7 DEF TypeOK, TerminateJob, EnvType
  <2>2. QueueType'
    BY <1>7, TermTurns, TurnType DEF TypeOK, TerminateJob, QueueType
  <2>3. WorkerType'
    BY <1>7, TermType DEF TerminateJob
  <2> QED
    BY <1>7, <2>1, <2>2, <2>3, Frames DEF TypeOK, TerminateJob,
       threadVars, workerVars
<1>8. ASSUME NEW p \in Pids, WorkerLock(p) PROVE TypeOK'
  <2>1. WorkerType'
    BY <1>8 DEF TypeOK, WorkerLock, WorkerType, Alive, Serving
  <2> QED
    BY <1>8, <2>1, Frames DEF TypeOK, WorkerLock, threadVars, workerVars
<1>9. ASSUME NEW p \in Pids, WorkerReceive(p) PROVE TypeOK'
  <2>1. QueueType'
    BY <1>9 DEF TypeOK, WorkerReceive, QueueType
  <2>2. WorkerType'
    BY <1>9, TaskHead DEF TypeOK, WorkerReceive, WorkerType, Alive,
       Serving, QueueType
  <2> QED
    BY <1>9, <2>1, <2>2, Frames DEF TypeOK, WorkerReceive, threadVars,
       workerVars
<1>10. ASSUME NEW p \in Pids, WorkerAck(p) PROVE TypeOK'
  <2>1. QueueType'
    BY <1>10, PutTurns, TurnType DEF TypeOK, WorkerAck, QueueType
  <2>2. WorkerType'
    BY <1>10 DEF TypeOK, WorkerAck, WorkerType, Alive, Serving
  <2> QED
    BY <1>10, <2>1, <2>2, Frames DEF TypeOK, WorkerAck, threadVars,
       workerVars
<1>11. ASSUME NEW p \in Pids, WorkerReady(p) PROVE TypeOK'
  <2>1. QueueType'
    BY <1>11, PutTurns, TurnType DEF TypeOK, WorkerReady, QueueType
  <2>2. WorkerType'
    BY <1>11 DEF TypeOK, WorkerReady, WorkerType, Alive, Serving
  <2> QED
    BY <1>11, <2>1, <2>2, Frames DEF TypeOK, WorkerReady, threadVars,
       workerVars
<1>12. ASSUME NEW p \in Pids, WorkerEnsure(p) PROVE TypeOK'
  <2>1. WorkerType'
    BY <1>12 DEF TypeOK, WorkerEnsure, WorkerType, Alive, Serving
  <2> QED
    BY <1>12, <2>1, Frames DEF TypeOK, WorkerEnsure, threadVars,
       workerVars
<1>13. ASSUME NEW p \in Pids, WorkerEnsureTimeout(p) PROVE TypeOK'
  <2>1. WorkerType'
    BY <1>13 DEF TypeOK, WorkerEnsureTimeout, WorkerType, Alive, Serving
  <2> QED
    BY <1>13, <2>1, Frames DEF TypeOK, WorkerEnsureTimeout, threadVars,
       workerVars
<1>14. ASSUME NEW p \in Pids, WorkerExit(p) PROVE TypeOK'
  <2>1. WorkerType'
    BY <1>14 DEF TypeOK, WorkerExit, WorkerType, Alive, Serving
  <2> QED
    BY <1>14, <2>1, Frames DEF TypeOK, WorkerExit, threadVars, workerVars
<1>15. ASSUME NEW p \in Pids, WorkerCrash(p) PROVE TypeOK'
  <2>1. EnvType'
    BY <1>15 DEF TypeOK, WorkerCrash, EnvType
  <2>2. WorkerType'
    BY <1>15, KillType DEF WorkerCrash
  <2>3. QueueType'
    BY <1>15, KillTurns, TurnType DEF TypeOK, WorkerCrash, QueueType
  <2> QED
    BY <1>15, <2>1, <2>2, <2>3, Frames DEF TypeOK, WorkerCrash, threadVars,
       workerVars
<1>16. ASSUME ThPut PROVE TypeOK'
  <2>1. JobType'
    BY <1>16, TaskHead DEF TypeOK, ThPut, JobType, QueueType, Set, Values
  <2>2. QueueType'
    BY <1>16, TaskHead, TaskFacts, QueueFacts DEF TypeOK, ThPut,
       QueueType
  <2> QED
    BY <1>16, <2>1, <2>2, Frames DEF TypeOK, ThPut, threadVars,
       workerVars
<1>17. ASSUME ThTellResultHandler PROVE TypeOK'
  <2>1. QueueType'
    BY <1>17, OutFacts DEF TypeOK, ThTellResultHandler, QueueType
  <2>2. ThType'
    BY <1>17 DEF TypeOK, ThTellResultHandler, ThType
  <2> QED
    BY <1>17, <2>1, <2>2, Frames DEF TypeOK, ThTellResultHandler,
       threadVars, workerVars
<1>18. ASSUME ThTellWorkers PROVE TypeOK'
  <2>1. QueueType'
    BY <1>18, TaskFacts, QueueFacts DEF TypeOK, ThTellWorkers, QueueType
  <2>2. ThType'
    BY <1>18 DEF TypeOK, ThTellWorkers, ThType
  <2> QED
    BY <1>18, <2>1, <2>2, Frames DEF TypeOK, ThTellWorkers, threadVars,
       workerVars
<1>19. ASSUME RhOnAck PROVE TypeOK'
  <2>1. JobType'
    BY <1>19, OutHead DEF TypeOK, RhOnAck, JobType, QueueType, RhTakes,
       Ack
  <2>2. QueueType'
    BY <1>19 DEF TypeOK, RhOnAck, QueueType, RhTakes
  <2>3. CreditType'
    BY <1>19, OutHead DEF TypeOK, RhOnAck, CreditType, QueueType, RhTakes
  <2>4. RhType'
    BY <1>19 DEF TypeOK, RhOnAck, RhType, RhTakes, RhNext
  <2> QED
    BY <1>19, <2>1, <2>2, <2>3, <2>4, Frames DEF TypeOK, RhOnAck,
       threadVars, workerVars
<1>20. ASSUME RhOnReady PROVE TypeOK'
  <2> DEFINE j == Head(outqueue).job
             owner == {p \in Pids : workerTask[p] = j}
  <2>1. QueueType'
    BY <1>20 DEF TypeOK, RhOnReady, QueueType, RhTakes
  <2>2. CreditType'
    BY <1>20 DEF TypeOK, RhOnReady, CreditType
  <2>3. j \in Jobs /\ owner \subseteq Pids
    BY <1>20, OutHead DEF RhOnReady, RhTakes, TypeOK, QueueType
  <2>4. /\ UNCHANGED <<limit, rhFin>>
        /\ \/ Lookup(j) /\ UNCHANGED rhOwner
           \/ /\ rhPc' = "credit" /\ rhJob' = j /\ rhOwner' \in owner
              /\ UNCHANGED putlock
    BY <1>20 DEF RhOnReady
  <2> HIDE DEF j, owner
  <2>5. SlotType' /\ RhType'
    BY <2>3, <2>4, LookupType DEF TypeOK, SlotType, RhType
  <2> QED
    BY <1>20, <2>1, <2>2, <2>5, Frames DEF TypeOK, RhOnReady,
       threadVars, workerVars
<1>21. ASSUME RhSet PROVE TypeOK'
  <2>1. JobType'
    BY <1>21 DEF TypeOK, RhSet, JobType, RhType, Set, Values
  <2>2. RhType'
    BY <1>21 DEF TypeOK, RhSet, RhType, RhNext
  <2> QED
    BY <1>21, <2>1, <2>2, Frames DEF TypeOK, RhSet, threadVars,
       workerVars
<1>22. ASSUME RhOnDeath PROVE TypeOK'
  <2>1. QueueType'
    BY <1>22 DEF TypeOK, RhOnDeath, QueueType, RhTakes
  <2>2. WorkerType'
    BY <1>22 DEF TypeOK, RhOnDeath, WorkerType, Alive, Serving
  <2>3. RhType'
    BY <1>22 DEF TypeOK, RhOnDeath, RhType, RhNext
  <2> QED
    BY <1>22, <2>1, <2>2, <2>3, Frames DEF TypeOK, RhOnDeath, threadVars,
       workerVars
<1>23. ASSUME RhOnSentinel PROVE TypeOK'
  <2>1. QueueType'
    BY <1>23 DEF TypeOK, RhOnSentinel, QueueType, RhTakes
  <2>2. RhType'
    BY <1>23 DEF TypeOK, RhOnSentinel, RhType
  <2> QED
    BY <1>23, <2>1, <2>2, Frames DEF TypeOK, RhOnSentinel, threadVars,
       workerVars
<1>24. ASSUME NEW j \in Jobs, RhMarkLost(j) PROVE TypeOK'
  <2>1. JobType'
    BY <1>24 DEF TypeOK, RhMarkLost, JobType, Set, Values
  <2> QED
    BY <1>24, <2>1, Frames DEF TypeOK, RhMarkLost, threadVars, workerVars
<1>25. ASSUME RhJoin PROVE TypeOK'
  <2>1. JobType'
    BY <1>25 DEF TypeOK, RhJoin, JobType, Drop, Values
  <2>2. WorkerType'
    BY <1>25 DEF TypeOK, RhJoin, WorkerType, Drop, workerVars
  <2>3. CreditType'
    BY <1>25 DEF TypeOK, RhJoin, CreditType, Drop
  <2>4. RhType'
    BY <1>25 DEF TypeOK, RhJoin, RhType
  <2> QED
    BY <1>25, <2>1, <2>2, <2>3, <2>4, Frames DEF TypeOK, RhJoin,
       threadVars, workerVars
<1>26. ASSUME RhPollTimeout PROVE TypeOK'
  <2>1. RhType'
    BY <1>26 DEF TypeOK, RhPollTimeout, RhType
  <2> QED
    BY <1>26, <2>1, Frames DEF TypeOK, RhPollTimeout, threadVars,
       workerVars
<1>27. ASSUME RhJoinCrash PROVE TypeOK'
  <2>1. WorkerType'
    BY <1>27 DEF TypeOK, RhJoinCrash, WorkerType, workerVars
  <2>2. RhType'
    BY <1>27 DEF TypeOK, RhJoinCrash, RhType
  <2> QED
    BY <1>27, <2>1, <2>2, Frames DEF TypeOK, RhJoinCrash, threadVars,
       workerVars
<1>28. ASSUME RhFinish PROVE TypeOK'
  <2>1. QueueType'
    BY <1>28 DEF TypeOK, RhFinish, QueueType
  <2>2. RhType'
    BY <1>28 DEF TypeOK, RhFinish, RhType
  <2> QED
    BY <1>28, <2>1, <2>2, Frames DEF TypeOK, RhFinish, threadVars,
       workerVars
<1>29. ASSUME SupWake PROVE TypeOK'
  <2>1. SupType'
    BY <1>29 DEF TypeOK, SupWake, SupType, Overdue, JobType
  <2> QED
    BY <1>29, <2>1, Frames DEF TypeOK, SupWake, threadVars, workerVars
<1>30. ASSUME NEW j \in Jobs, SupMarkLost(j) PROVE TypeOK'
  <2>1. JobType'
    BY <1>30 DEF TypeOK, SupMarkLost, JobType, Set, Values
  <2>2. SupType'
    BY <1>30 DEF TypeOK, SupMarkLost, SupType
  <2> QED
    BY <1>30, <2>1, <2>2, Frames DEF TypeOK, SupMarkLost, threadVars,
       workerVars
<1>31. ASSUME SupJoin PROVE TypeOK'
  <2>1. JobType'
    BY <1>31 DEF TypeOK, SupJoin, JobType, Drop, Values
  <2>2. WorkerType'
    BY <1>31 DEF TypeOK, SupJoin, WorkerType, Drop, workerVars
  <2>3. CreditType'
    BY <1>31 DEF TypeOK, SupJoin, CreditType, Drop
  <2>4. SupType'
    BY <1>31, PidsFinite DEF TypeOK, SupJoin, SupType, Exited,
       WorkerType, EnvType, envVars
  <2> QED
    BY <1>31, <2>1, <2>2, <2>3, <2>4, Frames DEF TypeOK, SupJoin,
       threadVars, workerVars
<1>32. ASSUME SupCheck PROVE TypeOK'
  <2>1. SupType'
    BY <1>32 DEF TypeOK, SupCheck, SupType
  <2> QED
    BY <1>32, <2>1, Frames DEF TypeOK, SupCheck, threadVars, workerVars
<1>33. ASSUME SupAppend PROVE TypeOK'
  <2>1. WorkerType'
    BY <1>33 DEF TypeOK, SupAppend, WorkerType, Alive, Serving
  <2>2. SupType'
    BY <1>33 DEF TypeOK, SupAppend, SupType
  <2> QED
    BY <1>33, <2>1, <2>2, Frames DEF TypeOK, SupAppend, threadVars,
       workerVars
<1>34. ASSUME SupStart PROVE TypeOK'
  <2>1. WorkerType'
    BY <1>34 DEF TypeOK, SupStart, WorkerType, SupType, Alive, Serving
  <2>2. SupType'
    BY <1>34 DEF TypeOK, SupStart, SupType
  <2> QED
    BY <1>34, <2>1, <2>2, Frames DEF TypeOK, SupStart, threadVars,
       workerVars
<1>35. ASSUME SupRegister PROVE TypeOK'
  <2>1. CreditType'
    BY <1>35 DEF TypeOK, SupRegister, CreditType, SupType
  <2>2. SupType'
    BY <1>35 DEF TypeOK, SupRegister, SupType
  <2> QED
    BY <1>35, <2>1, <2>2, Frames DEF TypeOK, SupRegister, threadVars,
       workerVars
<1>36. ASSUME SupRelease PROVE TypeOK'
  <2>1. SlotType'
    BY <1>36 DEF TypeOK, SupRelease, SlotType, Release
  <2>2. SupType'
    BY <1>36 DEF TypeOK, SupRelease, SupType
  <2> QED
    BY <1>36, <2>1, <2>2, Frames DEF TypeOK, SupRelease, threadVars,
       workerVars
<1>37. ASSUME NEW j \in Jobs, LostTimeout(j) PROVE TypeOK'
  <2>1. JobType'
    BY <1>37 DEF TypeOK, LostTimeout, JobType
  <2> QED
    BY <1>37, <2>1, Frames DEF TypeOK, LostTimeout, threadVars,
       workerVars
<1>38. CASE UNCHANGED vars
  BY <1>38, Frames DEF TypeOK, vars, threadVars
<1>39. ASSUME SupAssertFails PROVE TypeOK'
  <2>1. SupType'
    BY <1>39 DEF TypeOK, SupAssertFails, SupType
  <2> QED
    BY <1>39, <2>1, Frames DEF TypeOK, SupAssertFails, threadVars, workerVars
<1>40. ASSUME NEW p \in Pids, WorkerCount(p) PROVE TypeOK'
  <2>1. WorkerType'
    BY <1>40 DEF TypeOK, WorkerCount, WorkerType, Alive, Serving
  <2> QED
    BY <1>40, <2>1, Frames DEF TypeOK, WorkerCount, threadVars
<1>41. ASSUME NEW p \in Pids, WorkerAbandon(p) PROVE TypeOK'
  <2>1. WorkerType'
    BY <1>41 DEF TypeOK, WorkerAbandon, WorkerType, Alive, Serving
  <2> QED
    BY <1>41, <2>1, Frames DEF TypeOK, WorkerAbandon, threadVars
<1>42. ASSUME NEW p \in Pids, WorkerDeath(p) PROVE TypeOK'
  <2>1. QueueType'
    BY <1>42, PutTurns, TurnType DEF TypeOK, WorkerDeath, QueueType
  <2>2. WorkerType'
    BY <1>42 DEF TypeOK, WorkerDeath, WorkerType, Alive, Serving
  <2> QED
    BY <1>42, <2>1, <2>2, Frames DEF TypeOK, WorkerDeath, threadVars,
       workerVars
<1>43. ASSUME RhOnPart PROVE TypeOK'
  <2>1. QueueType'
    BY <1>43 DEF TypeOK, RhOnPart, QueueType, RhTakes
  <2>2. RhType'
    BY <1>43 DEF TypeOK, RhOnPart, RhType
  <2> QED
    BY <1>43, <2>1, <2>2, Frames DEF TypeOK, RhOnPart, threadVars, workerVars
<1>44. ASSUME RhCredit PROVE TypeOK'
  <2>1. CreditType'
    BY <1>44 DEF TypeOK, RhCredit, CreditType
  <2>2. SlotType' /\ RhType'
    <3>1. CASE rhPc' = "stuck" /\ UNCHANGED <<rhJob, rhOwner, putlock, limit, rhFin>>
      BY <3>1 DEF TypeOK, SlotType, RhType
    <3>2. CASE Lookup(rhJob) /\ rhOwner' = NoPid /\ UNCHANGED <<limit, rhFin>>
      BY <1>44, <3>2, LookupType DEF RhCredit, TypeOK, RhType
    <3> QED
      BY <1>44, <3>1, <3>2 DEF RhCredit
  <2> QED
    BY <1>44, <2>1, <2>2, Frames DEF TypeOK, RhCredit, threadVars, workerVars
<1>45. ASSUME RhCreditFails PROVE TypeOK'
  <2>1. RhType'
    BY <1>45 DEF TypeOK, RhCreditFails, RhType, RhNext
  <2> QED
    BY <1>45, <2>1, Frames DEF TypeOK, RhCreditFails, threadVars, workerVars
<1> QED
  BY <1>1, <1>2, <1>3, <1>4, <1>5, <1>6, <1>7, <1>8, <1>9, <1>10, <1>11,
     <1>12, <1>13, <1>14, <1>15, <1>16, <1>17, <1>18, <1>19, <1>20, <1>21,
     <1>22, <1>23, <1>24, <1>25, <1>26, <1>27, <1>28, <1>29, <1>30, <1>31,
     <1>32, <1>33, <1>34, <1>35, <1>36, <1>37, <1>38, <1>39, <1>40, <1>41,
     <1>42, <1>43, <1>44, <1>45 DEF Next, ClientStep, WorkerStep, ThStep,
     RhStep, SupStep

\* TypeOK is an invariant of the pool.
THEOREM TypeCorrect == Spec => []TypeOK
BY TypeInit, TypeNext, PTL DEF Spec

(***************************************************************************)
(* The cache drains                                                        *)
(***************************************************************************)

\* Only submitted jobs are in the cache or accepted.
CacheSubmitted == \A j \in cache \cup accepted : client[j] = "submitted"

CacheInv == CacheSubmitted /\ CacheDrained

\* The steps that leave the result objects alone preserve CacheInv.
LEMMA CacheFrame ==
  ASSUME CacheInv, TypeOK, UNCHANGED <<cache, accepted, value>>,
         \A j \in Jobs : client[j] = "submitted" => client'[j] = "submitted"
  PROVE  CacheInv'
BY DEF CacheInv, CacheSubmitted, CacheDrained, Ready, TypeOK, JobType

\* _set keeps it: an accepted job leaves the cache.
LEMMA CacheSet ==
  ASSUME CacheInv, TypeOK, NEW j \in Jobs, NEW v, Set(j, v),
         UNCHANGED <<accepted, client>>
  PROVE  CacheInv'
BY DEF CacheInv, CacheSubmitted, CacheDrained, Ready, TypeOK, JobType, Set

\* So does dropping exited workers: the jobs finished there leave the cache.
LEMMA CacheDrop ==
  ASSUME CacheInv, TypeOK, NEW gone, Drop(gone), UNCHANGED <<accepted, client>>
  PROVE  CacheInv'
<1>1. CASE gone = {}
  BY <1>1, CacheFrame DEF Drop
<1>2. CASE gone # {}
  <2> DEFINE cut == {j \in cache : /\ workerPid[j] \notin (pool \ gone) \cup {NoPid}
                                  /\ workerPid[j] \in gone \cap terminated}
  <2>1. /\ value' = [j \in Jobs |-> IF j \in cut /\ ~Ready(j) THEN "terminated"
                                                            ELSE value[j]]
        /\ cache' = cache \ {j \in cut : ~Ready(j) /\ j \in accepted}
    BY <1>2 DEF Drop
  <2> HIDE DEF cut
  <2> QED
    BY <2>1 DEF CacheInv, CacheSubmitted, CacheDrained, Ready, TypeOK, JobType
<1> QED
  BY <1>1, <1>2

\* Every step preserves CacheInv.
LEMMA CacheNext == TypeOK /\ CacheInv /\ [Next]_vars => CacheInv'
<1> SUFFICES ASSUME TypeOK, CacheInv, [Next]_vars PROVE CacheInv'
  OBVIOUS
<1>1. ASSUME NEW j \in Jobs, ApplyCheck(j) PROVE CacheInv'
  BY <1>1, CacheFrame DEF ApplyCheck, jobVars, TypeOK, EnvType
<1>2. ASSUME NEW j \in Jobs, ApplySubmit(j) PROVE CacheInv'
  BY <1>2 DEF ApplySubmit, CacheInv, CacheSubmitted, CacheDrained, Ready,
     TypeOK, JobType, EnvType
<1>3. ASSUME Close PROVE CacheInv'
  BY <1>3, CacheFrame DEF Close, jobVars, envVars
<1>4. ASSUME Grow PROVE CacheInv'
  BY <1>4, CacheFrame DEF Grow, jobVars, envVars
<1>5. ASSUME ShrinkBegin PROVE CacheInv'
  BY <1>5, CacheFrame DEF ShrinkBegin, jobVars, envVars
<1>6. ASSUME ShrinkTerminate PROVE CacheInv'
  BY <1>6, CacheFrame DEF ShrinkTerminate, jobVars, envVars
<1>7. ASSUME NEW p \in Pids, TerminateJob(p) PROVE CacheInv'
  BY <1>7, CacheFrame DEF TerminateJob, jobVars, envVars
<1>8. ASSUME NEW p \in Pids, WorkerLock(p) PROVE CacheInv'
  BY <1>8, CacheFrame DEF WorkerLock, jobVars, envVars
<1>9. ASSUME NEW p \in Pids, WorkerReceive(p) PROVE CacheInv'
  BY <1>9, CacheFrame DEF WorkerReceive, jobVars, envVars
<1>10. ASSUME NEW p \in Pids, WorkerAck(p) PROVE CacheInv'
  BY <1>10, CacheFrame DEF WorkerAck, jobVars, envVars
<1>11. ASSUME NEW p \in Pids, WorkerReady(p) PROVE CacheInv'
  BY <1>11, CacheFrame DEF WorkerReady, jobVars, envVars
<1>12. ASSUME NEW p \in Pids, WorkerEnsure(p) PROVE CacheInv'
  BY <1>12, CacheFrame DEF WorkerEnsure, jobVars, envVars
<1>13. ASSUME NEW p \in Pids, WorkerEnsureTimeout(p) PROVE CacheInv'
  BY <1>13, CacheFrame DEF WorkerEnsureTimeout, jobVars, envVars
<1>14. ASSUME NEW p \in Pids, WorkerExit(p) PROVE CacheInv'
  BY <1>14, CacheFrame DEF WorkerExit, jobVars, envVars
<1>15. ASSUME NEW p \in Pids, WorkerCrash(p) PROVE CacheInv'
  BY <1>15, CacheFrame DEF WorkerCrash, jobVars, envVars
<1>16. ASSUME ThPut PROVE CacheInv'
  <2>1. /\ (TaskJob \in Jobs /\ Set(TaskJob, "putfail")) \/ UNCHANGED <<value, cache>>
        /\ UNCHANGED <<accepted, client>>
    BY <1>16 DEF ThPut, envVars, TypeOK, JobType
  <2> QED
    BY <2>1, CacheSet, CacheFrame
<1>17. ASSUME ThTellResultHandler PROVE CacheInv'
  BY <1>17, CacheFrame DEF ThTellResultHandler, jobVars, envVars
<1>18. ASSUME ThTellWorkers PROVE CacheInv'
  BY <1>18, CacheFrame DEF ThTellWorkers, jobVars, envVars
<1>19. ASSUME RhOnAck PROVE CacheInv'
  <2> DEFINE j == Head(outqueue).job
  <2>1. j \in Jobs
    BY <1>19, OutHead DEF RhOnAck, RhTakes, TypeOK, QueueType
  <2>2. /\ IF j \in cache THEN Ack(j, Head(outqueue).pid)
                          ELSE UNCHANGED <<accepted, workerPid, cache>>
        /\ UNCHANGED <<value, client>>
    BY <1>19 DEF RhOnAck, envVars
  <2> QED
    BY <2>1, <2>2 DEF CacheInv, CacheSubmitted, CacheDrained, Ready, TypeOK,
       JobType, Ack
<1>20. ASSUME RhOnReady PROVE CacheInv'
  BY <1>20, CacheFrame DEF RhOnReady, jobVars, envVars
<1>21. ASSUME RhSet PROVE CacheInv'
  BY <1>21, CacheSet DEF RhSet, envVars, TypeOK, RhType
<1>22. ASSUME RhOnDeath PROVE CacheInv'
  BY <1>22, CacheFrame DEF RhOnDeath, jobVars, envVars
<1>23. ASSUME RhOnSentinel PROVE CacheInv'
  BY <1>23, CacheFrame DEF RhOnSentinel, jobVars, envVars
<1>24. ASSUME NEW j \in Jobs, RhMarkLost(j) PROVE CacheInv'
  BY <1>24, CacheSet DEF RhMarkLost, envVars
<1>25. ASSUME RhJoin PROVE CacheInv'
  BY <1>25, CacheDrop DEF RhJoin, envVars
<1>26. ASSUME RhPollTimeout PROVE CacheInv'
  BY <1>26, CacheFrame DEF RhPollTimeout, jobVars, envVars
<1>27. ASSUME RhJoinCrash PROVE CacheInv'
  BY <1>27, CacheFrame DEF RhJoinCrash, jobVars, envVars
<1>28. ASSUME RhFinish PROVE CacheInv'
  BY <1>28, CacheFrame DEF RhFinish, jobVars, envVars
<1>29. ASSUME SupWake PROVE CacheInv'
  BY <1>29, CacheFrame DEF SupWake, jobVars, envVars
<1>30. ASSUME NEW j \in Jobs, SupMarkLost(j) PROVE CacheInv'
  BY <1>30, CacheSet DEF SupMarkLost, envVars
<1>31. ASSUME SupJoin PROVE CacheInv'
  BY <1>31, CacheDrop DEF SupJoin, envVars
<1>32. ASSUME SupCheck PROVE CacheInv'
  BY <1>32, CacheFrame DEF SupCheck, jobVars, envVars
<1>33. ASSUME SupAppend PROVE CacheInv'
  BY <1>33, CacheFrame DEF SupAppend, jobVars, envVars
<1>34. ASSUME SupStart PROVE CacheInv'
  BY <1>34, CacheFrame DEF SupStart, jobVars, envVars
<1>35. ASSUME SupRegister PROVE CacheInv'
  BY <1>35, CacheFrame DEF SupRegister, jobVars, envVars
<1>36. ASSUME SupRelease PROVE CacheInv'
  BY <1>36, CacheFrame DEF SupRelease, jobVars, envVars
<1>37. ASSUME NEW j \in Jobs, LostTimeout(j) PROVE CacheInv'
  BY <1>37, CacheFrame DEF LostTimeout, jobVars, envVars
<1>38. CASE UNCHANGED vars
  BY <1>38, CacheFrame DEF vars, jobVars, envVars
<1>39. ASSUME SupAssertFails PROVE CacheInv'
  BY <1>39, CacheFrame DEF SupAssertFails, jobVars, envVars
<1>40. ASSUME NEW p \in Pids, WorkerCount(p) PROVE CacheInv'
  BY <1>40, CacheFrame DEF WorkerCount, jobVars, envVars
<1>41. ASSUME NEW p \in Pids, WorkerAbandon(p) PROVE CacheInv'
  BY <1>41, CacheFrame DEF WorkerAbandon, jobVars, envVars
<1>42. ASSUME NEW p \in Pids, WorkerDeath(p) PROVE CacheInv'
  BY <1>42, CacheFrame DEF WorkerDeath, jobVars, envVars
<1>43. ASSUME RhOnPart PROVE CacheInv'
  BY <1>43, CacheFrame DEF RhOnPart, jobVars, envVars
<1>44. ASSUME RhCredit PROVE CacheInv'
  BY <1>44, CacheFrame DEF RhCredit, jobVars, envVars
<1>45. ASSUME RhCreditFails PROVE CacheInv'
  BY <1>45, CacheFrame DEF RhCreditFails, jobVars, envVars
<1> QED
  BY <1>1, <1>2, <1>3, <1>4, <1>5, <1>6, <1>7, <1>8, <1>9, <1>10, <1>11,
     <1>12, <1>13, <1>14, <1>15, <1>16, <1>17, <1>18, <1>19, <1>20, <1>21,
     <1>22, <1>23, <1>24, <1>25, <1>26, <1>27, <1>28, <1>29, <1>30, <1>31,
     <1>32, <1>33, <1>34, <1>35, <1>36, <1>37, <1>38, <1>39, <1>40, <1>41,
     <1>42, <1>43, <1>44, <1>45 DEF Next, ClientStep, WorkerStep, ThStep,
     RhStep, SupStep

\* No finished job stays in the cache: CacheDrained is an invariant.
THEOREM CacheDrains == Spec => []CacheDrained
<1>1. Init => CacheInv
  BY DEF Init, CacheInv, CacheSubmitted, CacheDrained
<1> QED
  BY <1>1, TypeCorrect, CacheNext, PTL DEF Spec, CacheInv

(***************************************************************************)
(* A lost worker has exited                                                *)
(*                                                                         *)
(* LossIsReal is not inductive: a second ACK for a flagged job, from a     *)
(* worker that lives, would falsify it.  Life says that a job passes       *)
(* through taskqueue, inqueue, a worker, an ACK and its result object one  *)
(* after the other and never twice; Proc relates the pool's list to the    *)
(* processes there are.                                                    *)
(***************************************************************************)

Has(q, j) == \E i \in DOMAIN q : q[i] = Task(j)
Once(q) == \A i, k \in DOMAIN q : q[i] = q[k] /\ q[i] # Sentinel => i = k
IsAck(m, j) == m.type = "ACK" /\ m.job = j
HasAck(q, j) == \E i \in DOMAIN q : IsAck(q[i], j)
OnceAck(q) ==
  \A i, k \in DOMAIN q :
    q[i].type = "ACK" /\ q[k].type = "ACK" /\ q[i].job = q[k].job => i = k
Held(j) == \E p \in Pids : wpc[p] = "got" /\ wjob[p] = j
Known(j) == workerPid[j] # NoPid
Submitted(j) == client[j] = "submitted"

\* The stages of a job exclude each other.
Stages ==
  \A j \in Jobs :
    /\ Has(taskqueue, j) =>
         /\ ~Has(inqueue, j) /\ ~Held(j) /\ ~HasAck(outqueue, j) /\ ~Known(j)
         /\ Submitted(j)
    /\ Has(inqueue, j) =>
         ~Held(j) /\ ~HasAck(outqueue, j) /\ ~Known(j) /\ Submitted(j)
    /\ Held(j) => ~HasAck(outqueue, j) /\ ~Known(j) /\ Submitted(j)
    /\ HasAck(outqueue, j) => ~Known(j) /\ Submitted(j)
    /\ Known(j) => Submitted(j)

HeldOnce ==
  \A p, q \in Pids :
    wpc[p] = "got" /\ wpc[q] = "got" /\ wjob[p] = wjob[q] => p = q

Life ==
  /\ Stages /\ HeldOnce
  /\ Once(taskqueue) /\ Once(inqueue) /\ OnceAck(outqueue)

\* A task is not the sentinel, and different jobs have different tasks.
LEMMA TaskDistinct ==
  \A j \in Jobs : /\ Task(j) # Sentinel /\ Task(j).job = j
                  /\ \A k \in Jobs : Task(j) = Task(k) => j = k
BY DEF Task, Sentinel

\* What appending to and taking from a queue of tasks does.
LEMMA TaskQueue ==
  ASSUME NEW q \in Seq(TaskMsgs)
  PROVE  /\ \A j \in Jobs, m \in TaskMsgs :
              Has(Append(q, m), j) => Has(q, j) \/ m = Task(j)
         /\ \A j \in Jobs : Once(q) /\ ~Has(q, j) => Once(Append(q, Task(j)))
         /\ Once(q) => Once(Append(q, Sentinel))
         /\ q # <<>> =>
              /\ \A j \in Jobs : Has(Tail(q), j) => Has(q, j)
              /\ Once(q) => Once(Tail(q))
              /\ \A j \in Jobs : Once(q) /\ Head(q) = Task(j) => ~Has(Tail(q), j)
              /\ \A j \in Jobs : Head(q) = Task(j) => Has(q, j)
              /\ Head(q) # Sentinel => Head(q) = Task(Head(q).job)
<1>1. ASSUME NEW j \in Jobs, NEW m \in TaskMsgs, Has(Append(q, m), j)
      PROVE  Has(q, j) \/ m = Task(j)
  BY <1>1 DEF Has
<1>2. ASSUME NEW j \in Jobs, Once(q), ~Has(q, j)
      PROVE  Once(Append(q, Task(j)))
  BY <1>2 DEF Once, Has
<1>3. ASSUME Once(q) PROVE Once(Append(q, Sentinel))
  BY <1>3 DEF Once
<1>4. ASSUME q # <<>>, NEW j \in Jobs, Has(Tail(q), j) PROVE Has(q, j)
  BY <1>4 DEF Has
<1>5. ASSUME q # <<>>, Once(q) PROVE Once(Tail(q))
  BY <1>5 DEF Once
<1>6. ASSUME q # <<>>, NEW j \in Jobs, Once(q), Head(q) = Task(j)
      PROVE  ~Has(Tail(q), j)
  <2>1. q[1] = Task(j) /\ Task(j) # Sentinel
    BY <1>6, TaskDistinct
  <2> SUFFICES ASSUME NEW i \in DOMAIN Tail(q), Tail(q)[i] = Task(j)
               PROVE  FALSE
    BY DEF Has
  <2>2. i + 1 \in DOMAIN q /\ q[i + 1] = Task(j) /\ 1 \in DOMAIN q /\ i + 1 # 1
    BY <1>6
  <2> QED
    BY <2>1, <2>2, <1>6 DEF Once
<1>7. ASSUME q # <<>>, NEW j \in Jobs, Head(q) = Task(j) PROVE Has(q, j)
  <2>1. 1 \in DOMAIN q /\ q[1] = Task(j)
    BY <1>7
  <2> QED
    BY <2>1 DEF Has
<1>8. ASSUME q # <<>>, Head(q) # Sentinel PROVE Head(q) = Task(Head(q).job)
  <2>1. Head(q) \in TaskMsgs
    BY <1>8
  <2> QED
    BY <1>8, <2>1, TaskDistinct DEF TaskMsgs
<1> QED
  BY <1>1, <1>2, <1>3, <1>4, <1>5, <1>6, <1>7, <1>8

\* What appending to and taking from the outqueue does.
LEMMA OutQueue ==
  ASSUME NEW q \in Seq(OutMsgs)
  PROVE  /\ \A j, m : HasAck(Append(q, m), j) => HasAck(q, j) \/ IsAck(m, j)
         /\ \A m : /\ OnceAck(q)
                   /\ m.type = "ACK" => ~HasAck(q, m.job)
                   => OnceAck(Append(q, m))
         /\ q # <<>> =>
              /\ \A j : HasAck(Tail(q), j) => HasAck(q, j)
              /\ OnceAck(q) => OnceAck(Tail(q))
              /\ \A j : OnceAck(q) /\ IsAck(Head(q), j)
                       => HasAck(q, j) /\ ~HasAck(Tail(q), j)
<1>1. ASSUME NEW j, NEW m, HasAck(Append(q, m), j)
      PROVE  HasAck(q, j) \/ IsAck(m, j)
  BY <1>1 DEF HasAck
<1>2. ASSUME NEW m, OnceAck(q), m.type = "ACK" => ~HasAck(q, m.job)
      PROVE  OnceAck(Append(q, m))
  BY <1>2 DEF HasAck, OnceAck, IsAck
<1>3. ASSUME q # <<>>, NEW j, HasAck(Tail(q), j) PROVE HasAck(q, j)
  BY <1>3 DEF HasAck
<1>4. ASSUME q # <<>>, OnceAck(q) PROVE OnceAck(Tail(q))
  <2>1. \A i \in DOMAIN Tail(q) : i + 1 \in DOMAIN q /\ Tail(q)[i] = q[i + 1]
    BY <1>4
  <2>2. DOMAIN Tail(q) \subseteq Nat
    BY <1>4
  <2> QED
    BY <2>1, <2>2, <1>4 DEF OnceAck
<1>5. ASSUME q # <<>>, NEW j, OnceAck(q), IsAck(Head(q), j)
      PROVE  HasAck(q, j) /\ ~HasAck(Tail(q), j)
  <2>1. 1 \in DOMAIN q /\ IsAck(q[1], j)
    BY <1>5
  <2>2. HasAck(q, j)
    BY <2>1 DEF HasAck
  <2>3. ASSUME NEW i \in DOMAIN Tail(q), IsAck(Tail(q)[i], j) PROVE FALSE
    <3>1. i + 1 \in DOMAIN q /\ IsAck(q[i + 1], j) /\ i + 1 # 1
      BY <1>5, <2>3
    <3> QED
      BY <3>1, <2>1, <1>5 DEF OnceAck, IsAck
  <2> QED
    BY <2>2, <2>3 DEF HasAck
<1> QED
  BY <1>1, <1>2, <1>3, <1>4, <1>5

\* Life is preserved when no stage of a job is entered.
LEMMA LifeFrame ==
  ASSUME Life, TypeOK,
         UNCHANGED <<taskqueue, inqueue, workerPid>>,
         \/ outqueue' = outqueue
         \/ outqueue' = <<>>
         \/ outqueue # <<>> /\ outqueue' = Tail(outqueue)
         \/ \E m : m.type # "ACK" /\ outqueue' = Append(outqueue, m),
         \A p \in Pids : wpc'[p] = "got" => wpc[p] = "got" /\ wjob'[p] = wjob[p],
         \A j \in Jobs : Submitted(j) => Submitted(j)'
  PROVE  Life'
<1>1. /\ \A j : HasAck(outqueue', j) => HasAck(outqueue, j)
      /\ OnceAck(outqueue')
  <2>1. CASE outqueue' = outqueue
    BY <2>1 DEF Life
  <2>2. CASE outqueue' = <<>>
    BY <2>2 DEF HasAck, OnceAck
  <2>3. CASE outqueue # <<>> /\ outqueue' = Tail(outqueue)
    BY <2>3, OutQueue DEF Life, TypeOK, QueueType
  <2>4. CASE \E m : m.type # "ACK" /\ outqueue' = Append(outqueue, m)
    <3>1. PICK m : m.type # "ACK" /\ outqueue' = Append(outqueue, m)
      BY <2>4
    <3>2. \A j : ~IsAck(m, j)
      BY <3>1 DEF IsAck
    <3> QED
      BY <3>1, <3>2, OutQueue DEF Life, TypeOK, QueueType
  <2> QED
    BY <2>1, <2>2, <2>3, <2>4
<1>2. \A j \in Jobs : Held(j)' => Held(j)
  BY DEF Held
<1>3. HeldOnce'
  BY DEF HeldOnce, Life
<1>4. \A j \in Jobs : Known(j)' = Known(j)
  BY DEF Known
<1>5. Stages'
  BY <1>1, <1>2, <1>4 DEF Stages, Life
<1> QED
  BY <1>1, <1>3, <1>5 DEF Life

\* A worker that puts a message, ends or gets a signal preserves Life: the one
\* message that matters is the ACK of the job it has just taken.
LEMMA LifeTurn ==
  ASSUME Life, TypeOK, NEW p \in Pids, Turns(p),
         UNCHANGED <<taskqueue, inqueue, workerPid, client>>
  PROVE  Life'
<1>1. CASE \/ UNCHANGED <<outqueue, wjob>>
           \/ outqueue' = Append(outqueue, Msg("PART", NoJob, p)) /\ UNCHANGED wjob
           \/ outqueue' = Append(outqueue, Msg("DEATH", NoJob, p)) /\ UNCHANGED wjob
           \/ /\ wpc[p] = "run"
              /\ outqueue' = Append(outqueue, Msg("READY", wjob[p], p))
              /\ wjob' = [wjob EXCEPT ![p] = NoJob]
  <2>1. \A j : \A type \in {"PART", "DEATH", "READY"} : Msg(type, j, p).type # "ACK"
    BY DEF Msg
  <2>2. \/ outqueue' = outqueue
        \/ \E m : m.type # "ACK" /\ outqueue' = Append(outqueue, m)
    BY <1>1, <2>1
  <2>3. \A q \in Pids : wpc'[q] = "got" => wpc[q] = "got" /\ wjob'[q] = wjob[q]
    BY <1>1 DEF Turns, Points, TypeOK, WorkerType
  <2> QED
    BY <2>2, <2>3, LifeFrame DEF Submitted
<1>2. CASE /\ wpc[p] = "got" /\ wjob' = wjob
           /\ \E c \in Points : c # "got" /\ wpc' = [wpc EXCEPT ![p] = c]
           /\ outqueue' = Append(outqueue, Msg("ACK", wjob[p], p))
  <2>2. PICK j \in Jobs : j = wjob[p]
    BY <1>2 DEF TypeOK, WorkerType
  <2>1. /\ wpc[p] = "got" /\ wjob' = wjob
        /\ \E c \in Points : c # "got" /\ wpc' = [wpc EXCEPT ![p] = c]
        /\ outqueue' = Append(outqueue, Msg("ACK", j, p))
        /\ UNCHANGED <<taskqueue, inqueue, workerPid, client>>
    BY <1>2, <2>2
  <2>3. Held(j)
    BY <2>1, <2>2 DEF Held
  <2>4. ~HasAck(outqueue, j) /\ ~Known(j) /\ Submitted(j)
        /\ ~Has(taskqueue, j) /\ ~Has(inqueue, j)
    BY <2>3 DEF Life, Stages
  <2>5. (\A k \in Jobs : Held(k)' => Held(k)) /\ ~Held(j)'
    BY <2>1, <2>2 DEF Held, HeldOnce, Life, TypeOK, WorkerType
  <2>6. HeldOnce'
    BY <2>1 DEF HeldOnce, Life, TypeOK, WorkerType
  <2>7. Msg("ACK", j, p).job = j /\ \A k : IsAck(Msg("ACK", j, p), k) => k = j
    BY DEF IsAck, Msg
  <2>8. /\ \A k \in Jobs : HasAck(outqueue', k) => HasAck(outqueue, k) \/ k = j
        /\ OnceAck(outqueue')
    <3>1. outqueue \in Seq(OutMsgs) /\ OnceAck(outqueue)
      BY DEF Life, TypeOK, QueueType
    <3>2. ASSUME NEW k \in Jobs, HasAck(outqueue', k)
          PROVE  HasAck(outqueue, k) \/ k = j
      <4>1. HasAck(outqueue, k) \/ IsAck(Msg("ACK", j, p), k)
        BY <2>1, <3>1, <3>2, OutQueue
      <4> QED
        BY <4>1, <2>7
    <3>3. OnceAck(Append(outqueue, Msg("ACK", j, p)))
      BY <2>4, <2>7, <3>1, OutQueue
    <3> QED
      BY <2>1, <3>2, <3>3
  <2>9. \A k \in Jobs : Known(k)' = Known(k) /\ Submitted(k)' = Submitted(k)
    BY <2>1 DEF Known, Submitted
  <2>10. Stages'
    BY <2>1, <2>4, <2>5, <2>8, <2>9 DEF Stages, Life
  <2> QED
    BY <2>1, <2>6, <2>8, <2>10 DEF Life
<1> QED
  BY <1>1, <1>2 DEF Turns, Sends

\* Every step preserves Life.
LEMMA LifeNext == TypeOK /\ Life /\ [Next]_vars => Life'
<1> SUFFICES ASSUME TypeOK, Life, [Next]_vars PROVE Life'
  OBVIOUS
<1>1. ASSUME NEW j \in Jobs, ApplyCheck(j) PROVE Life'
  BY <1>1, LifeFrame DEF ApplyCheck, queueVars, jobVars, workerVars, Submitted,
     TypeOK, EnvType
<1>2. ASSUME NEW j \in Jobs, ApplySubmit(j) PROVE Life'
  <2>1. /\ taskqueue' = Append(taskqueue, Task(j))
        /\ UNCHANGED <<inqueue, outqueue, workerPid, wpc, wjob>>
        /\ ~Submitted(j) /\ Submitted(j)'
        /\ \A k \in Jobs : Submitted(k) => Submitted(k)'
    BY <1>2 DEF ApplySubmit, workerVars, Submitted, TypeOK, EnvType
  <2>2. ~Has(taskqueue, j) /\ ~Has(inqueue, j) /\ ~Held(j)
        /\ ~HasAck(outqueue, j) /\ ~Known(j)
    BY <2>1 DEF Life, Stages
  <2>3. /\ \A k \in Jobs : Has(taskqueue', k) => Has(taskqueue, k) \/ k = j
        /\ Once(taskqueue')
    BY <2>1, <2>2, TaskQueue, TaskFacts, TaskDistinct DEF Life, TypeOK, QueueType
  <2>4. \A k \in Jobs : Held(k)' = Held(k) /\ Known(k)' = Known(k)
    BY <2>1 DEF Held, Known
  <2>5. HeldOnce'
    BY <2>1 DEF HeldOnce, Life
  <2>6. Stages'
    BY <2>1, <2>2, <2>3, <2>4 DEF Stages, Life
  <2> QED
    BY <2>1, <2>3, <2>5, <2>6 DEF Life
<1>3. ASSUME Close PROVE Life'
  <2>1. /\ taskqueue' = Append(taskqueue, Sentinel)
        /\ UNCHANGED <<inqueue, outqueue, workerPid, wpc, wjob, client>>
    BY <1>3 DEF Close, workerVars, jobVars
  <2>2. /\ \A k \in Jobs : Has(taskqueue', k) => Has(taskqueue, k)
        /\ Once(taskqueue')
    BY <2>1, TaskQueue, TaskFacts, TaskDistinct DEF Life, TypeOK, QueueType
  <2>3. \A k \in Jobs : /\ Held(k)' = Held(k) /\ Known(k)' = Known(k)
                        /\ Submitted(k)' = Submitted(k)
    BY <2>1 DEF Held, Known, Submitted
  <2>4. HeldOnce'
    BY <2>1 DEF HeldOnce, Life
  <2>5. Stages'
    BY <2>1, <2>2, <2>3 DEF Stages, Life
  <2> QED
    BY <2>1, <2>2, <2>4, <2>5 DEF Life
<1>4. ASSUME Grow PROVE Life'
  BY <1>4, LifeFrame DEF Grow, queueVars, jobVars, workerVars, envVars,
     Submitted
<1>5. ASSUME ShrinkBegin PROVE Life'
  BY <1>5, LifeFrame DEF ShrinkBegin, queueVars, jobVars, workerVars, envVars,
     Submitted
<1>6. ASSUME ShrinkTerminate PROVE Life'
  <2>1. shrinking \in Pids /\ Turns(shrinking)
    BY <1>6, TermTurns DEF ShrinkTerminate, TypeOK, EnvType
  <2> QED
    BY <1>6, <2>1, LifeTurn DEF ShrinkTerminate, jobVars
<1>7. ASSUME NEW p \in Pids, TerminateJob(p) PROVE Life'
  BY <1>7, TermTurns, LifeTurn DEF TerminateJob, jobVars
<1>8. ASSUME NEW p \in Pids, WorkerLock(p) PROVE Life'
  <2>1. \A q \in Pids : wpc'[q] = "got" => wpc[q] = "got" /\ wjob'[q] = wjob[q]
    BY <1>8 DEF WorkerLock, TypeOK, WorkerType, SupType
  <2> QED
    BY <1>8, <2>1, LifeFrame DEF WorkerLock, queueVars, jobVars, envVars, Submitted
<1>9. ASSUME NEW p \in Pids, WorkerReceive(p) PROVE Life'
  <2>1. /\ inqueue # <<>> /\ inqueue' = Tail(inqueue)
        /\ UNCHANGED <<taskqueue, outqueue, workerPid, client>>
    BY <1>9 DEF WorkerReceive, jobVars, envVars
  <2>2. /\ \A k \in Jobs : Has(inqueue', k) => Has(inqueue, k)
        /\ Once(inqueue')
    BY <2>1, TaskQueue DEF Life, TypeOK, QueueType
  <2>3. \A k \in Jobs : Known(k)' = Known(k) /\ Submitted(k)' = Submitted(k)
    BY <2>1 DEF Known, Submitted
  <2>4. CASE Head(inqueue) = Sentinel
    <3>1. /\ \A q \in Pids : wpc'[q] = "got" => wpc[q] = "got"
          /\ wjob' = wjob
      BY <1>9, <2>4 DEF WorkerReceive, TypeOK, WorkerType
    <3>2. (\A k \in Jobs : Held(k)' => Held(k)) /\ HeldOnce'
      BY <3>1 DEF Held, HeldOnce, Life
    <3>3. Stages'
      BY <2>1, <2>2, <2>3, <3>2 DEF Stages, Life
    <3> QED
      BY <2>1, <2>2, <3>2, <3>3 DEF Life
  <2>5. CASE Head(inqueue) # Sentinel
    <3> DEFINE j == Head(inqueue).job
    <3>1. j \in Jobs /\ Head(inqueue) = Task(j)
      BY <2>1, <2>5, TaskHead, TaskQueue DEF TypeOK, QueueType
    <3>2. wpc' = [wpc EXCEPT ![p] = "got"] /\ wjob' = [wjob EXCEPT ![p] = j]
      BY <1>9, <2>5 DEF WorkerReceive
    <3> HIDE DEF j
    <3>3. Has(inqueue, j) /\ ~Has(inqueue', j)
      BY <2>1, <3>1, TaskQueue DEF Life, TypeOK, QueueType
    <3>4. ~Held(j) /\ ~HasAck(outqueue, j) /\ ~Known(j) /\ Submitted(j)
          /\ ~Has(taskqueue, j)
      BY <3>1, <3>3 DEF Life, Stages
    <3>5. \A k \in Jobs : Held(k)' => Held(k) \/ k = j
      BY <3>2 DEF Held, TypeOK, WorkerType
    <3>6. HeldOnce'
      BY <3>2, <3>4 DEF Held, HeldOnce, Life, TypeOK, WorkerType
    <3>7. Stages'
      BY <2>1, <2>2, <2>3, <3>1, <3>3, <3>4, <3>5 DEF Stages, Life
    <3> QED
      BY <2>1, <2>2, <3>6, <3>7 DEF Life
  <2> QED
    BY <2>4, <2>5
<1>10. ASSUME NEW p \in Pids, WorkerAck(p) PROVE Life'
  BY <1>10, PutTurns, LifeTurn DEF WorkerAck, jobVars, envVars
<1>11. ASSUME NEW p \in Pids, WorkerReady(p) PROVE Life'
  BY <1>11, PutTurns, LifeTurn DEF WorkerReady, jobVars, envVars
<1>12. ASSUME NEW p \in Pids, WorkerEnsure(p) PROVE Life'
  <2>1. \A q \in Pids : wpc'[q] = "got" => wpc[q] = "got" /\ wjob'[q] = wjob[q]
    BY <1>12 DEF WorkerEnsure, TypeOK, WorkerType
  <2> QED
    BY <1>12, <2>1, LifeFrame DEF WorkerEnsure, queueVars, jobVars, envVars, Submitted
<1>13. ASSUME NEW p \in Pids, WorkerEnsureTimeout(p) PROVE Life'
  <2>1. \A q \in Pids : wpc'[q] = "got" => wpc[q] = "got" /\ wjob'[q] = wjob[q]
    BY <1>13 DEF WorkerEnsureTimeout, TypeOK, WorkerType
  <2> QED
    BY <1>13, <2>1, LifeFrame DEF WorkerEnsureTimeout, queueVars, jobVars, envVars,
       Submitted
<1>14. ASSUME NEW p \in Pids, WorkerExit(p) PROVE Life'
  <2>1. \A q \in Pids : wpc'[q] = "got" => wpc[q] = "got" /\ wjob'[q] = wjob[q]
    BY <1>14 DEF WorkerExit, TypeOK, WorkerType, SupType
  <2> QED
    BY <1>14, <2>1, LifeFrame DEF WorkerExit, queueVars, jobVars, envVars, Submitted
<1>15. ASSUME NEW p \in Pids, WorkerCrash(p) PROVE Life'
  BY <1>15, KillTurns, LifeTurn DEF WorkerCrash, jobVars
<1>16. ASSUME ThPut PROVE Life'
  <2> DEFINE j == Head(taskqueue).job
  <2>1. /\ taskqueue # <<>> /\ taskqueue' = Tail(taskqueue)
        /\ inqueue' = inqueue \/ inqueue' = Append(inqueue, Task(j))
        /\ UNCHANGED <<outqueue, workerPid, wpc, wjob, client>>
    BY <1>16 DEF ThPut, workerVars, envVars
  <2>2. j \in Jobs /\ Head(taskqueue) = Task(j)
    BY <1>16, TaskHead, TaskQueue DEF ThPut, TypeOK, QueueType
  <2> HIDE DEF j
  <2>3. /\ \A k \in Jobs : Has(taskqueue', k) => Has(taskqueue, k)
        /\ ~Has(taskqueue', j) /\ Has(taskqueue, j) /\ Once(taskqueue')
    BY <2>1, <2>2, TaskQueue DEF Life, TypeOK, QueueType
  <2>4. ~Has(inqueue, j)
    BY <2>2, <2>3 DEF Life, Stages
  <2>5. /\ \A k \in Jobs : Has(inqueue', k) => Has(inqueue, k) \/ k = j
        /\ Once(inqueue')
    <3>1. inqueue \in Seq(TaskMsgs) /\ Once(inqueue)
      BY DEF Life, TypeOK, QueueType
    <3>2. CASE inqueue' = inqueue
      BY <3>1, <3>2
    <3>3. CASE inqueue' = Append(inqueue, Task(j))
      BY <2>2, <2>4, <3>1, <3>3, TaskQueue, TaskFacts, TaskDistinct
    <3> QED
      BY <2>1, <3>2, <3>3
  <2>6. \A k \in Jobs : /\ Held(k)' = Held(k) /\ Known(k)' = Known(k)
                        /\ Submitted(k)' = Submitted(k)
    BY <2>1 DEF Held, Known, Submitted
  <2>7. HeldOnce'
    BY <2>1 DEF HeldOnce, Life
  <2>8. Stages'
    BY <2>1, <2>2, <2>3, <2>5, <2>6 DEF Stages, Life
  <2> QED
    BY <2>1, <2>3, <2>5, <2>7, <2>8 DEF Life
<1>17. ASSUME ThTellResultHandler PROVE Life'
  <2>1. /\ taskqueue # <<>> /\ taskqueue' = Tail(taskqueue)
        /\ outqueue' = Append(outqueue, Msg("NONE", NoJob, NoPid))
        /\ UNCHANGED <<inqueue, workerPid, wpc, wjob, client>>
    BY <1>17 DEF ThTellResultHandler, workerVars, jobVars, envVars
  <2>2. /\ \A k \in Jobs : Has(taskqueue', k) => Has(taskqueue, k)
        /\ Once(taskqueue')
    BY <2>1, TaskQueue DEF Life, TypeOK, QueueType
  <2>3. \A k \in Jobs : /\ Held(k)' = Held(k) /\ Known(k)' = Known(k)
                        /\ Submitted(k)' = Submitted(k)
    BY <2>1 DEF Held, Known, Submitted
  <2>4. HeldOnce'
    BY <2>1 DEF HeldOnce, Life
  <2>5. \A k : ~IsAck(Msg("NONE", NoJob, NoPid), k)
    BY DEF IsAck, Msg
  <2>6. Msg("NONE", NoJob, NoPid).type # "ACK"
    BY DEF Msg
  <2>7. /\ \A k \in Jobs : HasAck(outqueue', k) => HasAck(outqueue, k)
        /\ OnceAck(outqueue')
    BY <2>1, <2>5, <2>6, OutQueue DEF Life, TypeOK, QueueType
  <2>8. Stages'
    BY <2>1, <2>2, <2>3, <2>7 DEF Stages, Life
  <2> QED
    BY <2>1, <2>2, <2>4, <2>7, <2>8 DEF Life
<1>18. ASSUME ThTellWorkers PROVE Life'
  <2>1. /\ inqueue' = inqueue \/ inqueue' = Append(inqueue, Sentinel)
        /\ UNCHANGED <<taskqueue, outqueue, workerPid, wpc, wjob, client>>
    BY <1>18 DEF ThTellWorkers, workerVars, jobVars, envVars
  <2>2. /\ \A k \in Jobs : Has(inqueue', k) => Has(inqueue, k)
        /\ Once(inqueue')
    <3>1. inqueue \in Seq(TaskMsgs) /\ Once(inqueue)
      BY DEF Life, TypeOK, QueueType
    <3>2. CASE inqueue' = inqueue
      BY <3>1, <3>2
    <3>3. CASE inqueue' = Append(inqueue, Sentinel)
      BY <3>1, <3>3, TaskQueue, TaskFacts, TaskDistinct
    <3> QED
      BY <2>1, <3>2, <3>3
  <2>3. \A k \in Jobs : /\ Held(k)' = Held(k) /\ Known(k)' = Known(k)
                        /\ Submitted(k)' = Submitted(k)
    BY <2>1 DEF Held, Known, Submitted
  <2>4. HeldOnce'
    BY <2>1 DEF HeldOnce, Life
  <2>5. Stages'
    BY <2>1, <2>2, <2>3 DEF Stages, Life
  <2> QED
    BY <2>1, <2>2, <2>4, <2>5 DEF Life
<1>19. ASSUME RhOnAck PROVE Life'
  <2> DEFINE j == Head(outqueue).job
  <2>1. /\ outqueue # <<>> /\ outqueue' = Tail(outqueue)
        /\ IsAck(Head(outqueue), j)
        /\ UNCHANGED <<taskqueue, inqueue, client, wpc, wjob>>
    BY <1>19 DEF RhOnAck, RhTakes, workerVars, envVars, IsAck
  <2>2. j \in Jobs
    BY <1>19, OutHead DEF RhOnAck, RhTakes, TypeOK, QueueType
  <2>3. \A k \in Jobs : k # j => workerPid'[k] = workerPid[k]
    BY <1>19 DEF RhOnAck, Ack, TypeOK, JobType
  <2> HIDE DEF j
  <2>4. /\ \A k : HasAck(outqueue', k) => HasAck(outqueue, k)
        /\ HasAck(outqueue, j) /\ ~HasAck(outqueue', j) /\ OnceAck(outqueue')
    BY <2>1, OutQueue DEF Life, TypeOK, QueueType
  <2>5. ~Held(j) /\ Submitted(j) /\ ~Has(taskqueue, j) /\ ~Has(inqueue, j)
    BY <2>2, <2>4 DEF Life, Stages
  <2>6. \A k \in Jobs : Held(k)' = Held(k) /\ Submitted(k)' = Submitted(k)
    BY <2>1 DEF Held, Submitted
  <2>7. \A k \in Jobs : k # j => Known(k)' = Known(k)
    BY <2>3 DEF Known
  <2>8. HeldOnce'
    BY <2>1 DEF HeldOnce, Life
  <2>9. Stages'
    BY <2>1, <2>2, <2>4, <2>5, <2>6, <2>7 DEF Stages, Life
  <2> QED
    BY <2>1, <2>4, <2>8, <2>9 DEF Life
<1>20. ASSUME RhOnReady PROVE Life'
  BY <1>20, LifeFrame DEF RhOnReady, RhTakes, jobVars, workerVars, envVars, Submitted
<1>21. ASSUME RhSet PROVE Life'
  BY <1>21, LifeFrame DEF RhSet, queueVars, jobVars, workerVars, envVars,
     Submitted
<1>22. ASSUME RhOnDeath PROVE Life'
  <2>1. \A q \in Pids : wpc'[q] = "got" => wpc[q] = "got" /\ wjob'[q] = wjob[q]
    BY <1>22 DEF RhOnDeath, TypeOK, WorkerType
  <2> QED
    BY <1>22, <2>1, LifeFrame DEF RhOnDeath, RhTakes, jobVars, envVars, Submitted
<1>23. ASSUME RhOnSentinel PROVE Life'
  BY <1>23, LifeFrame DEF RhOnSentinel, RhTakes, jobVars, workerVars, envVars, Submitted
<1>24. ASSUME NEW j \in Jobs, RhMarkLost(j) PROVE Life'
  BY <1>24, LifeFrame DEF RhMarkLost, queueVars, jobVars, workerVars, envVars,
     Submitted
<1>25. ASSUME RhJoin PROVE Life'
  BY <1>25, LifeFrame DEF RhJoin, queueVars, jobVars, workerVars, envVars,
     Submitted
<1>26. ASSUME RhPollTimeout PROVE Life'
  BY <1>26, LifeFrame DEF RhPollTimeout, queueVars, jobVars, workerVars, envVars,
     Submitted
<1>27. ASSUME RhJoinCrash PROVE Life'
  BY <1>27, LifeFrame DEF RhJoinCrash, queueVars, jobVars, workerVars, envVars,
     Submitted
<1>28. ASSUME RhFinish PROVE Life'
  BY <1>28, LifeFrame DEF RhFinish, queueVars, jobVars, workerVars, envVars,
     Submitted
<1>29. ASSUME SupWake PROVE Life'
  BY <1>29, LifeFrame DEF SupWake, queueVars, jobVars, workerVars, envVars,
     Submitted
<1>30. ASSUME NEW j \in Jobs, SupMarkLost(j) PROVE Life'
  BY <1>30, LifeFrame DEF SupMarkLost, queueVars, jobVars, workerVars, envVars,
     Submitted
<1>31. ASSUME SupJoin PROVE Life'
  BY <1>31, LifeFrame DEF SupJoin, queueVars, jobVars, workerVars, envVars,
     Submitted
<1>32. ASSUME SupCheck PROVE Life'
  BY <1>32, LifeFrame DEF SupCheck, queueVars, jobVars, workerVars, envVars,
     Submitted
<1>33. ASSUME SupAppend PROVE Life'
  <2>1. \A q \in Pids : wpc'[q] = "got" => wpc[q] = "got" /\ wjob'[q] = wjob[q]
    BY <1>33 DEF SupAppend, TypeOK, WorkerType, SupType
  <2> QED
    BY <1>33, <2>1, LifeFrame DEF SupAppend, queueVars, jobVars, envVars, Submitted
<1>34. ASSUME SupStart PROVE Life'
  <2>1. \A q \in Pids : wpc'[q] = "got" => wpc[q] = "got" /\ wjob'[q] = wjob[q]
    BY <1>34 DEF SupStart, TypeOK, WorkerType, SupType
  <2> QED
    BY <1>34, <2>1, LifeFrame DEF SupStart, queueVars, jobVars, envVars, Submitted
<1>35. ASSUME SupRegister PROVE Life'
  BY <1>35, LifeFrame DEF SupRegister, queueVars, jobVars, workerVars, envVars,
     Submitted
<1>36. ASSUME SupRelease PROVE Life'
  BY <1>36, LifeFrame DEF SupRelease, queueVars, jobVars, workerVars, envVars,
     Submitted
<1>37. ASSUME NEW j \in Jobs, LostTimeout(j) PROVE Life'
  BY <1>37, LifeFrame DEF LostTimeout, queueVars, jobVars, workerVars, envVars,
     Submitted
<1>38. CASE UNCHANGED vars
  BY <1>38, LifeFrame DEF vars, queueVars, jobVars, workerVars, envVars, Submitted
<1>39. ASSUME SupAssertFails PROVE Life'
  BY <1>39, LifeFrame DEF SupAssertFails, queueVars, jobVars, workerVars,
     envVars, Submitted
<1>40. ASSUME NEW p \in Pids, WorkerCount(p) PROVE Life'
  <2>1. \A q \in Pids : wpc'[q] = "got" => wpc[q] = "got" /\ wjob'[q] = wjob[q]
    BY <1>40 DEF WorkerCount, TypeOK, WorkerType
  <2> QED
    BY <1>40, <2>1, LifeFrame DEF WorkerCount, queueVars, jobVars, envVars, Submitted
<1>41. ASSUME NEW p \in Pids, WorkerAbandon(p) PROVE Life'
  <2>1. \A q \in Pids : wpc'[q] = "got" => wpc[q] = "got" /\ wjob'[q] = wjob[q]
    BY <1>41 DEF WorkerAbandon, TypeOK, WorkerType
  <2> QED
    BY <1>41, <2>1, LifeFrame DEF WorkerAbandon, queueVars, jobVars, envVars, Submitted
<1>42. ASSUME NEW p \in Pids, WorkerDeath(p) PROVE Life'
  BY <1>42, PutTurns, LifeTurn DEF WorkerDeath, jobVars, envVars
<1>43. ASSUME RhOnPart PROVE Life'
  BY <1>43, LifeFrame DEF RhOnPart, RhTakes, jobVars, workerVars, envVars, Submitted
<1>44. ASSUME RhCredit PROVE Life'
  BY <1>44, LifeFrame DEF RhCredit, queueVars, jobVars, workerVars, envVars,
     Submitted
<1>45. ASSUME RhCreditFails PROVE Life'
  BY <1>45, LifeFrame DEF RhCreditFails, queueVars, jobVars, workerVars, envVars,
     Submitted
<1> QED
  BY <1>1, <1>2, <1>3, <1>4, <1>5, <1>6, <1>7, <1>8, <1>9, <1>10, <1>11,
     <1>12, <1>13, <1>14, <1>15, <1>16, <1>17, <1>18, <1>19, <1>20, <1>21,
     <1>22, <1>23, <1>24, <1>25, <1>26, <1>27, <1>28, <1>29, <1>30, <1>31,
     <1>32, <1>33, <1>34, <1>35, <1>36, <1>37, <1>38, <1>39, <1>40, <1>41,
     <1>42, <1>43, <1>44, <1>45 DEF Next, ClientStep, WorkerStep, ThStep,
     RhStep, SupStep

\* A worker that has been started, or that has exited, stays so.
Started(p) == wpc[p] \notin {"new", "unstarted"}
Grows ==
  \A p \in Pids :
    /\ Started(p) => Started(p)'
    /\ wpc[p] = "exited" => wpc'[p] = "exited"

\* Only live workers move.
LiveMoves ==
  \A p \in Pids :
    \/ wpc'[p] = wpc[p]
    \/ wpc[p] \in Alive /\ wpc'[p] \in Alive \cup {"exited"}

\* The workers that are not in the list are gone or yet to come (the dropped
\* process of RhJoinCrash ends the program), the one about to be started is
\* not started, and an ACK or a job's worker pid names a started worker.
PoolLive ==
  rhPc # "crashed" => \A p \in Pids \ pool : wpc[p] \in {"new", "exited"}
Starting == supPc = "start" => wpc[supPid] = "unstarted"
AckStarted ==
  \A i \in DOMAIN outqueue :
    outqueue[i].type = "ACK" => Started(outqueue[i].pid)
KnownStarted == \A j \in Jobs : Known(j) => Started(workerPid[j])
ProcInv == PoolLive /\ Starting /\ AckStarted /\ KnownStarted

\* The message written to the outqueue, if any, is no ACK of an unstarted worker.
NoStray(m) == m.type = "ACK" => m.pid \in Pids /\ Started(m.pid)
OutStep ==
  \/ outqueue' = outqueue
  \/ outqueue' = <<>>
  \/ outqueue # <<>> /\ outqueue' = Tail(outqueue)
  \/ \E m : outqueue' = Append(outqueue, m) /\ NoStray(m)

\* A message on the outqueue other than a sentinel names a worker.
LEMMA OutPids ==
  ASSUME NEW q \in Seq(OutMsgs)
  PROVE  \A i \in DOMAIN q : q[i].type = "ACK" => q[i].pid \in Pids
<1>1. \A i \in DOMAIN q : q[i] \in OutMsgs
  OBVIOUS
<1>2. \A m \in OutMsgs : m.type = "ACK" => m.pid \in Pids
  BY DEF OutMsgs
<1> QED
  BY <1>1, <1>2

\* AckStarted survives taking from the outqueue and adding what OutStep allows.
LEMMA AckStep ==
  ASSUME AckStarted, TypeOK, Grows, OutStep
  PROVE  AckStarted'
<1>1. \A i \in DOMAIN outqueue : NoStray(outqueue[i])
  BY OutPids DEF AckStarted, NoStray, TypeOK, QueueType
<1>2. \A i \in DOMAIN outqueue' : NoStray(outqueue'[i])
  <2>1. CASE outqueue' = outqueue
    BY <1>1, <2>1
  <2>2. CASE outqueue' = <<>>
    BY <2>2
  <2>3. CASE outqueue # <<>> /\ outqueue' = Tail(outqueue)
    <3>1. \A i \in DOMAIN Tail(outqueue) :
            i + 1 \in DOMAIN outqueue /\ Tail(outqueue)[i] = outqueue[i + 1]
      BY <2>3 DEF TypeOK, QueueType
    <3> QED
      BY <1>1, <2>3, <3>1
  <2>4. CASE \E m : outqueue' = Append(outqueue, m) /\ NoStray(m)
    <3>1. PICK m : outqueue' = Append(outqueue, m) /\ NoStray(m)
      BY <2>4
    <3>2. \A i \in DOMAIN Append(outqueue, m) :
            \/ i \in DOMAIN outqueue /\ Append(outqueue, m)[i] = outqueue[i]
            \/ Append(outqueue, m)[i] = m
      BY DEF TypeOK, QueueType
    <3> QED
      BY <1>1, <3>1, <3>2
  <2> QED
    BY <2>1, <2>2, <2>3, <2>4 DEF OutStep
<1> QED
  BY <1>2 DEF AckStarted, NoStray, Grows, Started

\* The steps that neither create nor start a worker nor handle an ACK.
LEMMA ProcFrame ==
  ASSUME ProcInv, TypeOK, LiveMoves, OutStep, workerPid' = workerPid,
         rhPc # "crashed",
         \/ rhPc' = "crashed"
         \/ \A p \in Pids \ pool' : p \in pool => wpc[p] = "exited",
         supPc' = "start" => supPc = "start" /\ supPid' = supPid
  PROVE  ProcInv' /\ Grows
<1>1. Grows
  BY DEF Grows, Started, LiveMoves, Alive, Serving
<1>2. PoolLive'
  BY DEF PoolLive, ProcInv, LiveMoves, Alive, Serving
<1>3. Starting'
  BY DEF Starting, ProcInv, LiveMoves, Alive, Serving, TypeOK, SupType
<1>4. AckStarted'
  BY <1>1, AckStep DEF ProcInv
<1>5. KnownStarted'
  BY <1>1 DEF KnownStarted, Known, ProcInv, Grows, Started, TypeOK, JobType
<1> QED
  BY <1>1, <1>2, <1>3, <1>4, <1>5 DEF ProcInv

\* In particular those that leave all workers alone.
LEMMA ProcQuiet ==
  ASSUME ProcInv, TypeOK, rhPc # "crashed", UNCHANGED <<wpc, workerPid>>,
         \/ outqueue' = outqueue
         \/ outqueue' = <<>>
         \/ outqueue # <<>> /\ outqueue' = Tail(outqueue),
         pool' = pool \/ rhPc' = "crashed",
         supPc' = "start" => supPc = "start" /\ supPid' = supPid
  PROVE  ProcInv' /\ Grows
<1>1. LiveMoves
  BY DEF LiveMoves
<1>2. OutStep
  BY DEF OutStep
<1> QED
  BY <1>1, <1>2, ProcFrame

\* A worker that puts a message, ends or gets a signal was live, and an ACK that
\* it writes is its own.
LEMMA TurnMoves ==
  ASSUME TypeOK, NEW p \in Pids, Turns(p)
  PROVE  LiveMoves /\ OutStep
<1>1. LiveMoves
  BY DEF Turns, Points, LiveMoves, TypeOK, WorkerType, Alive, Serving
<1>2. ASSUME NEW type \in {"PART", "DEATH", "READY"}, NEW j
      PROVE  NoStray(Msg(type, j, p))
  BY DEF NoStray, Msg
<1>3. wpc[p] = "got" => NoStray(Msg("ACK", wjob[p], p))
  BY DEF NoStray, Msg, Started
<1>4. OutStep
  BY <1>2, <1>3 DEF Turns, Sends, OutStep
<1> QED
  BY <1>1, <1>4

\* Every step preserves ProcInv, and workers only move forward.
LEMMA ProcNext ==
  TypeOK /\ ProcInv /\ rhPc # "crashed" /\ [Next]_vars => ProcInv' /\ Grows
<1> SUFFICES ASSUME TypeOK, ProcInv, rhPc # "crashed", [Next]_vars
             PROVE  ProcInv' /\ Grows
  OBVIOUS
<1>1. ASSUME NEW j \in Jobs, ApplyCheck(j) PROVE ProcInv' /\ Grows
  BY <1>1, ProcQuiet DEF ApplyCheck, workerVars, jobVars, queueVars,
     threadVars, supVars
<1>2. ASSUME NEW j \in Jobs, ApplySubmit(j) PROVE ProcInv' /\ Grows
  BY <1>2, ProcQuiet DEF ApplySubmit, workerVars, jobVars, queueVars,
     threadVars, supVars
<1>3. ASSUME Close PROVE ProcInv' /\ Grows
  BY <1>3, ProcQuiet DEF Close, workerVars, jobVars, queueVars,
     threadVars, supVars
<1>4. ASSUME Grow PROVE ProcInv' /\ Grows
  BY <1>4, ProcQuiet DEF Grow, workerVars, jobVars, queueVars,
     threadVars, supVars
<1>5. ASSUME ShrinkBegin PROVE ProcInv' /\ Grows
  BY <1>5, ProcQuiet DEF ShrinkBegin, workerVars, jobVars, queueVars,
     threadVars, supVars
<1>6. ASSUME ShrinkTerminate PROVE ProcInv' /\ Grows
  <2>1. shrinking \in Pids /\ Turns(shrinking)
    BY <1>6, TermTurns DEF ShrinkTerminate, TypeOK, EnvType
  <2> QED
    BY <1>6, <2>1, TurnMoves, ProcFrame DEF ShrinkTerminate, jobVars, threadVars,
       supVars
<1>7. ASSUME NEW p \in Pids, TerminateJob(p) PROVE ProcInv' /\ Grows
  BY <1>7, TermTurns, TurnMoves, ProcFrame DEF TerminateJob, jobVars, threadVars,
     supVars
<1>8. ASSUME NEW p \in Pids, WorkerLock(p) PROVE ProcInv' /\ Grows
  <2>1. LiveMoves
    BY <1>8 DEF WorkerLock, LiveMoves, TypeOK, WorkerType, Alive, Serving
  <2>2. OutStep
    BY <1>8 DEF WorkerLock, OutStep, queueVars
  <2> QED
    BY <1>8, <2>1, <2>2, ProcFrame DEF WorkerLock, jobVars, threadVars, supVars
<1>9. ASSUME NEW p \in Pids, WorkerReceive(p) PROVE ProcInv' /\ Grows
  <2>1. LiveMoves
    BY <1>9 DEF WorkerReceive, LiveMoves, TypeOK, WorkerType, Alive, Serving
  <2>2. OutStep
    BY <1>9 DEF WorkerReceive, OutStep, queueVars
  <2> QED
    BY <1>9, <2>1, <2>2, ProcFrame DEF WorkerReceive, jobVars, threadVars, supVars
<1>10. ASSUME NEW p \in Pids, WorkerAck(p) PROVE ProcInv' /\ Grows
  BY <1>10, PutTurns, TurnMoves, ProcFrame DEF WorkerAck, jobVars, threadVars,
     supVars
<1>11. ASSUME NEW p \in Pids, WorkerReady(p) PROVE ProcInv' /\ Grows
  BY <1>11, PutTurns, TurnMoves, ProcFrame DEF WorkerReady, jobVars, threadVars,
     supVars
<1>12. ASSUME NEW p \in Pids, WorkerEnsure(p) PROVE ProcInv' /\ Grows
  <2>1. LiveMoves
    BY <1>12 DEF WorkerEnsure, LiveMoves, TypeOK, WorkerType, Alive, Serving
  <2>2. OutStep
    BY <1>12 DEF WorkerEnsure, OutStep, queueVars
  <2> QED
    BY <1>12, <2>1, <2>2, ProcFrame DEF WorkerEnsure, jobVars, threadVars, supVars
<1>13. ASSUME NEW p \in Pids, WorkerEnsureTimeout(p) PROVE ProcInv' /\ Grows
  <2>1. LiveMoves
    BY <1>13 DEF WorkerEnsureTimeout, LiveMoves, TypeOK, WorkerType, Alive, Serving
  <2>2. OutStep
    BY <1>13 DEF WorkerEnsureTimeout, OutStep, queueVars
  <2> QED
    BY <1>13, <2>1, <2>2, ProcFrame DEF WorkerEnsureTimeout, jobVars, threadVars, supVars
<1>14. ASSUME NEW p \in Pids, WorkerExit(p) PROVE ProcInv' /\ Grows
  <2>1. LiveMoves
    BY <1>14 DEF WorkerExit, LiveMoves, TypeOK, WorkerType, Alive, Serving
  <2>2. OutStep
    BY <1>14 DEF WorkerExit, OutStep, queueVars
  <2> QED
    BY <1>14, <2>1, <2>2, ProcFrame DEF WorkerExit, jobVars, threadVars, supVars
<1>15. ASSUME NEW p \in Pids, WorkerCrash(p) PROVE ProcInv' /\ Grows
  BY <1>15, KillTurns, TurnMoves, ProcFrame DEF WorkerCrash, jobVars, threadVars,
     supVars
<1>16. ASSUME ThPut PROVE ProcInv' /\ Grows
  BY <1>16, ProcQuiet DEF ThPut, workerVars, jobVars, queueVars,
     threadVars, supVars
<1>17. ASSUME ThTellResultHandler PROVE ProcInv' /\ Grows
  <2> DEFINE m == Msg("NONE", NoJob, NoPid)
  <2>1. LiveMoves
    BY <1>17 DEF ThTellResultHandler, LiveMoves, workerVars, TypeOK, WorkerType, Alive,
       Serving
  <2>2. NoStray(m)
    BY DEF Msg, NoStray
  <2>3. outqueue' = Append(outqueue, m)
    BY <1>17 DEF ThTellResultHandler
  <2> HIDE DEF m
  <2>4. OutStep
    BY <2>2, <2>3 DEF OutStep
  <2> QED
    BY <1>17, <2>1, <2>4, ProcFrame DEF ThTellResultHandler, jobVars, threadVars, supVars
<1>18. ASSUME ThTellWorkers PROVE ProcInv' /\ Grows
  BY <1>18, ProcQuiet DEF ThTellWorkers, workerVars, jobVars, queueVars,
     threadVars, supVars
<1>19. ASSUME RhOnAck PROVE ProcInv' /\ Grows
  <2> DEFINE j == Head(outqueue).job
             p == Head(outqueue).pid
  <2>1. /\ outqueue # <<>> /\ Head(outqueue).type = "ACK"
        /\ outqueue' = Tail(outqueue)
        /\ UNCHANGED <<wpc, pool, supPc, supPid>>
        /\ workerPid' = [workerPid EXCEPT ![j] = p] \/ workerPid' = workerPid
        /\ rhPc' # "crashed"
    BY <1>19 DEF RhOnAck, RhTakes, Ack, RhNext, workerVars, supVars
  <2>2. Started(p) /\ p \in Pids /\ j \in Jobs
    <3>1. 1 \in DOMAIN outqueue /\ Head(outqueue) = outqueue[1]
      BY <2>1 DEF TypeOK, QueueType
    <3> QED
      BY <2>1, <3>1, OutHead DEF ProcInv, AckStarted, TypeOK, QueueType
  <2>3. Grows
    BY <2>1 DEF Grows, Started
  <2>4. AckStarted'
    BY <2>1, <2>3, AckStep DEF ProcInv, OutStep
  <2>5. PoolLive' /\ Starting'
    BY <2>1 DEF ProcInv, PoolLive, Starting
  <2> HIDE DEF j, p
  <2>6. \A k \in Jobs : workerPid'[k] = workerPid[k] \/ workerPid'[k] = p
    BY <2>1, <2>2 DEF TypeOK, JobType
  <2>7. KnownStarted'
    BY <2>1, <2>2, <2>6 DEF ProcInv, KnownStarted, Known, Started
  <2> QED
    BY <2>3, <2>4, <2>5, <2>7 DEF ProcInv
<1>20. ASSUME RhOnReady PROVE ProcInv' /\ Grows
  BY <1>20, ProcQuiet DEF RhOnReady, RhTakes, workerVars, jobVars, queueVars,
     threadVars, supVars
<1>21. ASSUME RhSet PROVE ProcInv' /\ Grows
  BY <1>21, ProcQuiet DEF RhSet, workerVars, jobVars, queueVars,
     threadVars, supVars
<1>22. ASSUME RhOnDeath PROVE ProcInv' /\ Grows
  <2>1. LiveMoves
    BY <1>22 DEF RhOnDeath, LiveMoves, TypeOK, WorkerType, Alive, Serving
  <2>2. OutStep
    BY <1>22 DEF RhOnDeath, RhTakes, OutStep, queueVars
  <2> QED
    BY <1>22, <2>1, <2>2, ProcFrame DEF RhOnDeath, jobVars, threadVars, supVars
<1>23. ASSUME RhOnSentinel PROVE ProcInv' /\ Grows
  BY <1>23, ProcQuiet DEF RhOnSentinel, RhTakes, workerVars, jobVars, queueVars,
     threadVars, supVars
<1>24. ASSUME NEW j \in Jobs, RhMarkLost(j) PROVE ProcInv' /\ Grows
  BY <1>24, ProcQuiet DEF RhMarkLost, workerVars, jobVars, queueVars,
     threadVars, supVars
<1>25. ASSUME RhJoin PROVE ProcInv' /\ Grows
  <2>1. \A p \in Pids \ pool' : p \in pool => wpc[p] = "exited"
    BY <1>25 DEF RhJoin, Drop, Exited
  <2>2. LiveMoves /\ OutStep
    BY <1>25 DEF RhJoin, LiveMoves, OutStep, workerVars, queueVars
  <2> QED
    BY <1>25, <2>1, <2>2, ProcFrame DEF RhJoin, supVars
<1>26. ASSUME RhPollTimeout PROVE ProcInv' /\ Grows
  BY <1>26, ProcQuiet DEF RhPollTimeout, workerVars, jobVars, queueVars,
     threadVars, supVars
<1>27. ASSUME RhJoinCrash PROVE ProcInv' /\ Grows
  BY <1>27, ProcQuiet DEF RhJoinCrash, workerVars, jobVars, queueVars,
     threadVars, supVars
<1>28. ASSUME RhFinish PROVE ProcInv' /\ Grows
  BY <1>28, ProcQuiet DEF RhFinish, workerVars, jobVars, queueVars,
     threadVars, supVars
<1>29. ASSUME SupWake PROVE ProcInv' /\ Grows
  BY <1>29, ProcQuiet DEF SupWake, workerVars, jobVars, queueVars,
     threadVars, supVars
<1>30. ASSUME NEW j \in Jobs, SupMarkLost(j) PROVE ProcInv' /\ Grows
  BY <1>30, ProcQuiet DEF SupMarkLost, workerVars, jobVars, queueVars,
     threadVars, supVars
<1>31. ASSUME SupJoin PROVE ProcInv' /\ Grows
  <2>1. \A p \in Pids \ pool' : p \in pool => wpc[p] = "exited"
    BY <1>31 DEF SupJoin, Drop, Exited
  <2>2. LiveMoves /\ OutStep
    BY <1>31 DEF SupJoin, LiveMoves, OutStep, workerVars, queueVars
  <2> QED
    BY <1>31, <2>1, <2>2, ProcFrame DEF SupJoin, supVars
<1>32. ASSUME SupCheck PROVE ProcInv' /\ Grows
  BY <1>32, ProcQuiet DEF SupCheck, workerVars, jobVars, queueVars,
     threadVars, supVars
<1>33. ASSUME SupAppend PROVE ProcInv' /\ Grows
  <2>1. PICK p \in Pids :
          /\ wpc[p] = "new" /\ supPid' = p
          /\ wpc' = [wpc EXCEPT ![p] = "unstarted"]
          /\ pool' = pool \cup {p}
    BY <1>33 DEF SupAppend
  <2>2. Grows
    BY <2>1 DEF Grows, Started, TypeOK, WorkerType
  <2>3. PoolLive'
    BY <1>33, <2>1 DEF SupAppend, PoolLive, ProcInv, rhVars, TypeOK, WorkerType
  <2>4. Starting'
    BY <2>1 DEF Starting, TypeOK, WorkerType
  <2>5. AckStarted'
    BY <1>33, <2>2, AckStep DEF SupAppend, ProcInv, OutStep, queueVars
  <2>6. KnownStarted'
    BY <1>33, <2>2 DEF SupAppend, ProcInv, KnownStarted, Known, Grows, jobVars,
       TypeOK, JobType
  <2> QED
    BY <2>2, <2>3, <2>4, <2>5, <2>6 DEF ProcInv
<1>34. ASSUME SupStart PROVE ProcInv' /\ Grows
  <2>1. /\ supPid \in Pids /\ wpc[supPid] = "unstarted"
        /\ wpc' = [wpc EXCEPT ![supPid] = "idle"]
    BY <1>34 DEF SupStart, ProcInv, Starting, TypeOK, SupType
  <2>2. Grows
    BY <2>1 DEF Grows, Started, TypeOK, WorkerType
  <2>3. PoolLive'
    BY <1>34, <2>1 DEF SupStart, PoolLive, ProcInv, rhVars, TypeOK, WorkerType
  <2>4. Starting'
    BY <1>34 DEF SupStart, Starting
  <2>5. AckStarted'
    BY <1>34, <2>2, AckStep DEF SupStart, ProcInv, OutStep, queueVars
  <2>6. KnownStarted'
    BY <1>34, <2>2 DEF SupStart, ProcInv, KnownStarted, Known, Grows, jobVars,
       TypeOK, JobType
  <2> QED
    BY <2>2, <2>3, <2>4, <2>5, <2>6 DEF ProcInv
<1>35. ASSUME SupRegister PROVE ProcInv' /\ Grows
  BY <1>35, ProcQuiet DEF SupRegister, workerVars, jobVars, queueVars,
     threadVars, supVars
<1>36. ASSUME SupRelease PROVE ProcInv' /\ Grows
  BY <1>36, ProcQuiet DEF SupRelease, workerVars, jobVars, queueVars,
     threadVars, supVars
<1>37. ASSUME NEW j \in Jobs, LostTimeout(j) PROVE ProcInv' /\ Grows
  BY <1>37, ProcQuiet DEF LostTimeout, workerVars, jobVars, queueVars,
     threadVars, supVars
<1>38. CASE UNCHANGED vars
  BY <1>38, ProcQuiet DEF vars, workerVars, jobVars, queueVars, threadVars,
     supVars
<1>39. ASSUME SupAssertFails PROVE ProcInv' /\ Grows
  BY <1>39, ProcQuiet DEF SupAssertFails, workerVars, jobVars, queueVars,
     threadVars, supVars
<1>40. ASSUME NEW p \in Pids, WorkerCount(p) PROVE ProcInv' /\ Grows
  <2>1. LiveMoves
    BY <1>40 DEF WorkerCount, LiveMoves, TypeOK, WorkerType, Alive, Serving
  <2>2. OutStep
    BY <1>40 DEF WorkerCount, OutStep, queueVars
  <2> QED
    BY <1>40, <2>1, <2>2, ProcFrame DEF WorkerCount, jobVars, threadVars, supVars
<1>41. ASSUME NEW p \in Pids, WorkerAbandon(p) PROVE ProcInv' /\ Grows
  <2>1. LiveMoves
    BY <1>41 DEF WorkerAbandon, LiveMoves, TypeOK, WorkerType, Alive, Serving
  <2>2. OutStep
    BY <1>41 DEF WorkerAbandon, OutStep, queueVars
  <2> QED
    BY <1>41, <2>1, <2>2, ProcFrame DEF WorkerAbandon, jobVars, threadVars, supVars
<1>42. ASSUME NEW p \in Pids, WorkerDeath(p) PROVE ProcInv' /\ Grows
  BY <1>42, PutTurns, TurnMoves, ProcFrame DEF WorkerDeath, jobVars, threadVars,
     supVars
<1>43. ASSUME RhOnPart PROVE ProcInv' /\ Grows
  BY <1>43, ProcQuiet DEF RhOnPart, RhTakes, workerVars, jobVars, queueVars,
     threadVars, supVars
<1>44. ASSUME RhCredit PROVE ProcInv' /\ Grows
  BY <1>44, ProcQuiet DEF RhCredit, workerVars, jobVars, queueVars,
     threadVars, supVars
<1>45. ASSUME RhCreditFails PROVE ProcInv' /\ Grows
  BY <1>45, ProcQuiet DEF RhCreditFails, workerVars, jobVars, queueVars,
     threadVars, supVars
<1> QED
  BY <1>1, <1>2, <1>3, <1>4, <1>5, <1>6, <1>7, <1>8, <1>9, <1>10, <1>11,
     <1>12, <1>13, <1>14, <1>15, <1>16, <1>17, <1>18, <1>19, <1>20, <1>21,
     <1>22, <1>23, <1>24, <1>25, <1>26, <1>27, <1>28, <1>29, <1>30, <1>31,
     <1>32, <1>33, <1>34, <1>35, <1>36, <1>37, <1>38, <1>39, <1>40, <1>41,
     <1>42, <1>43, <1>44, <1>45 DEF Next, ClientStep, WorkerStep, ThStep,
     RhStep, SupStep

\* A flagged job's worker has exited, and the Supervisor marks flagged jobs.
LossInv == LossIsReal /\ \A j \in supMark : lost[j] # "no"

\* The steps that leave result objects and flags alone.
LEMMA LossFrame ==
  ASSUME LossInv, TypeOK, Grows, UNCHANGED <<workerPid, value, lost>>,
         supMark' \subseteq supMark
  PROVE  LossInv'
BY DEF LossInv, LossIsReal, Grows, TypeOK, JobType, SupType

\* Setting a result other than a loss, or the loss of a flagged job.
LEMMA LossSet ==
  ASSUME LossInv, TypeOK, Grows, NEW j \in Jobs, NEW v, Set(j, v),
         v \notin {"lost", "terminated"} \/ lost[j] # "no",
         UNCHANGED <<workerPid, lost>>, supMark' \subseteq supMark
  PROVE  LossInv'
BY DEF LossInv, LossIsReal, Grows, Set, TypeOK, JobType, SupType

\* Dropping exited workers flags the jobs of exited workers only.
LEMMA LossDrop ==
  ASSUME LossInv, ProcInv, TypeOK, rhPc # "crashed", Grows, Drop(Exited),
         UNCHANGED <<workerPid, supMark>>
  PROVE  LossInv'
<1> DEFINE orphan == {j \in cache :
                        workerPid[j] \notin (pool \ Exited) \cup {NoPid}}
<1>1. \A j \in orphan : Known(j) /\ wpc[workerPid[j]] = "exited"
  BY DEF ProcInv, PoolLive, KnownStarted, Known, Started, Exited, TypeOK, JobType
<1>2. /\ \A j \in Jobs : lost'[j] = lost[j] \/ (j \in orphan /\ lost'[j] = "fresh")
      /\ \A j \in Jobs : value'[j] = value[j] \/ j \in orphan
  BY DEF Drop
<1> HIDE DEF orphan
<1>3. \A j \in Jobs : Known(j) /\ wpc[workerPid[j]] = "exited"
                     => Known(j)' /\ wpc'[workerPid'[j]] = "exited"
  BY DEF Known, Grows, TypeOK, JobType
<1>4. LossIsReal'
  BY <1>1, <1>2, <1>3 DEF LossInv, LossIsReal, Known
<1>5. \A j \in supMark' : lost'[j] # "no"
  BY <1>2 DEF LossInv, TypeOK, SupType
<1> QED
  BY <1>4, <1>5 DEF LossInv

\* Every step preserves LossInv.
LEMMA LossNext ==
  /\ TypeOK /\ Life /\ ProcInv /\ LossInv /\ rhPc # "crashed"
  /\ [Next]_vars
  => LossInv'
<1> SUFFICES ASSUME TypeOK, Life, ProcInv, LossInv, rhPc # "crashed", [Next]_vars
             PROVE  LossInv'
  OBVIOUS
<1>0. Grows
  BY ProcNext
<1>1. ASSUME NEW j \in Jobs, ApplyCheck(j) PROVE LossInv'
  BY <1>1, <1>0, LossFrame DEF ApplyCheck, jobVars, threadVars, supVars
<1>2. ASSUME NEW j \in Jobs, ApplySubmit(j) PROVE LossInv'
  BY <1>2, <1>0, LossFrame DEF ApplySubmit, jobVars, threadVars, supVars
<1>3. ASSUME Close PROVE LossInv'
  BY <1>3, <1>0, LossFrame DEF Close, jobVars, threadVars, supVars
<1>4. ASSUME Grow PROVE LossInv'
  BY <1>4, <1>0, LossFrame DEF Grow, jobVars, threadVars, supVars
<1>5. ASSUME ShrinkBegin PROVE LossInv'
  BY <1>5, <1>0, LossFrame DEF ShrinkBegin, jobVars, threadVars, supVars
<1>6. ASSUME ShrinkTerminate PROVE LossInv'
  BY <1>6, <1>0, LossFrame DEF ShrinkTerminate, jobVars, threadVars, supVars
<1>7. ASSUME NEW p \in Pids, TerminateJob(p) PROVE LossInv'
  BY <1>7, <1>0, LossFrame DEF TerminateJob, jobVars, threadVars, supVars
<1>8. ASSUME NEW p \in Pids, WorkerLock(p) PROVE LossInv'
  BY <1>8, <1>0, LossFrame DEF WorkerLock, jobVars, threadVars, supVars
<1>9. ASSUME NEW p \in Pids, WorkerReceive(p) PROVE LossInv'
  BY <1>9, <1>0, LossFrame DEF WorkerReceive, jobVars, threadVars, supVars
<1>10. ASSUME NEW p \in Pids, WorkerAck(p) PROVE LossInv'
  BY <1>10, <1>0, LossFrame DEF WorkerAck, jobVars, threadVars, supVars
<1>11. ASSUME NEW p \in Pids, WorkerReady(p) PROVE LossInv'
  BY <1>11, <1>0, LossFrame DEF WorkerReady, jobVars, threadVars, supVars
<1>12. ASSUME NEW p \in Pids, WorkerEnsure(p) PROVE LossInv'
  BY <1>12, <1>0, LossFrame DEF WorkerEnsure, jobVars, threadVars, supVars
<1>13. ASSUME NEW p \in Pids, WorkerEnsureTimeout(p) PROVE LossInv'
  BY <1>13, <1>0, LossFrame DEF WorkerEnsureTimeout, jobVars, threadVars, supVars
<1>14. ASSUME NEW p \in Pids, WorkerExit(p) PROVE LossInv'
  BY <1>14, <1>0, LossFrame DEF WorkerExit, jobVars, threadVars, supVars
<1>15. ASSUME NEW p \in Pids, WorkerCrash(p) PROVE LossInv'
  BY <1>15, <1>0, LossFrame DEF WorkerCrash, jobVars, threadVars, supVars
<1>16. ASSUME ThPut PROVE LossInv'
  <2>1. CASE UNCHANGED <<value, cache>>
    BY <1>16, <2>1, <1>0, LossFrame DEF ThPut, threadVars, supVars
  <2>2. CASE TaskJob \in Jobs /\ Set(TaskJob, "putfail")
    BY <1>16, <2>2, <1>0, LossSet DEF ThPut, threadVars, supVars
  <2> QED
    BY <1>16, <2>1, <2>2 DEF ThPut, TypeOK, JobType
<1>17. ASSUME ThTellResultHandler PROVE LossInv'
  BY <1>17, <1>0, LossFrame DEF ThTellResultHandler, jobVars, threadVars, supVars
<1>18. ASSUME ThTellWorkers PROVE LossInv'
  BY <1>18, <1>0, LossFrame DEF ThTellWorkers, jobVars, threadVars, supVars
<1>19. ASSUME RhOnAck PROVE LossInv'
  <2> DEFINE j == Head(outqueue).job
  <2>1. /\ j \in Jobs /\ HasAck(outqueue, j)
        /\ UNCHANGED <<value, lost, wpc, supMark>>
        /\ \A k \in Jobs : k # j => workerPid'[k] = workerPid[k]
    <3>1. j \in Jobs /\ 1 \in DOMAIN outqueue /\ IsAck(outqueue[1], j)
      BY <1>19, OutHead DEF RhOnAck, RhTakes, IsAck, TypeOK, QueueType
    <3> QED
      BY <1>19, <3>1 DEF RhOnAck, Ack, HasAck, workerVars, supVars, TypeOK, JobType
  <2> HIDE DEF j
  <2>2. ~Known(j)
    BY <2>1 DEF Life, Stages
  <2>3. lost[j] = "no" /\ value[j] \notin {"lost", "terminated"}
    BY <2>1, <2>2 DEF LossInv, LossIsReal, Known
  <2> QED
    BY <2>1, <2>3 DEF LossInv, LossIsReal
<1>20. ASSUME RhOnReady PROVE LossInv'
  BY <1>20, <1>0, LossFrame DEF RhOnReady, jobVars, threadVars, supVars
<1>21. ASSUME RhSet PROVE LossInv'
  BY <1>21, <1>0, LossSet DEF RhSet, supVars, TypeOK, RhType
<1>22. ASSUME RhOnDeath PROVE LossInv'
  BY <1>22, <1>0, LossFrame DEF RhOnDeath, jobVars, threadVars, supVars
<1>23. ASSUME RhOnSentinel PROVE LossInv'
  BY <1>23, <1>0, LossFrame DEF RhOnSentinel, jobVars, threadVars, supVars
<1>24. ASSUME NEW j \in Jobs, RhMarkLost(j) PROVE LossInv'
  BY <1>24, <1>0, LossSet DEF RhMarkLost, Overdue, threadVars, supVars
<1>25. ASSUME RhJoin PROVE LossInv'
  BY <1>25, <1>0, LossDrop DEF RhJoin, supVars
<1>26. ASSUME RhPollTimeout PROVE LossInv'
  BY <1>26, <1>0, LossFrame DEF RhPollTimeout, jobVars, threadVars, supVars
<1>27. ASSUME RhJoinCrash PROVE LossInv'
  BY <1>27, <1>0, LossFrame DEF RhJoinCrash, jobVars, threadVars, supVars
<1>28. ASSUME RhFinish PROVE LossInv'
  BY <1>28, <1>0, LossFrame DEF RhFinish, jobVars, threadVars, supVars
<1>29. ASSUME SupWake PROVE LossInv'
  <2>1. UNCHANGED <<workerPid, value, lost, wpc>> /\ supMark' \subseteq supMark \cup Overdue
    BY <1>29 DEF SupWake, jobVars, workerVars
  <2>2. LossIsReal'
    BY <2>1 DEF LossInv, LossIsReal
  <2> QED
    BY <2>1, <2>2 DEF LossInv, Overdue
<1>30. ASSUME NEW j \in Jobs, SupMarkLost(j) PROVE LossInv'
  <2>1. lost[j] # "no" /\ supMark' \subseteq supMark
    BY <1>30 DEF SupMarkLost, LossInv
  <2> QED
    BY <1>30, <2>1, <1>0, LossSet DEF SupMarkLost
<1>31. ASSUME SupJoin PROVE LossInv'
  BY <1>31, <1>0, LossDrop DEF SupJoin, supVars
<1>32. ASSUME SupCheck PROVE LossInv'
  BY <1>32, <1>0, LossFrame DEF SupCheck, jobVars, threadVars, supVars
<1>33. ASSUME SupAppend PROVE LossInv'
  BY <1>33, <1>0, LossFrame DEF SupAppend, jobVars, threadVars, supVars
<1>34. ASSUME SupStart PROVE LossInv'
  BY <1>34, <1>0, LossFrame DEF SupStart, jobVars, threadVars, supVars
<1>35. ASSUME SupRegister PROVE LossInv'
  BY <1>35, <1>0, LossFrame DEF SupRegister, jobVars, threadVars, supVars
<1>36. ASSUME SupRelease PROVE LossInv'
  BY <1>36, <1>0, LossFrame DEF SupRelease, jobVars, threadVars, supVars
<1>37. ASSUME NEW j \in Jobs, LostTimeout(j) PROVE LossInv'
  BY <1>37 DEF LostTimeout, LossInv, LossIsReal, threadVars, supVars,
     workerVars, TypeOK, JobType, SupType
<1>38. CASE UNCHANGED vars
  BY <1>38, <1>0, LossFrame DEF vars, jobVars, threadVars, supVars
<1>39. ASSUME SupAssertFails PROVE LossInv'
  BY <1>39, <1>0, LossFrame DEF SupAssertFails, jobVars, threadVars, supVars
<1>40. ASSUME NEW p \in Pids, WorkerCount(p) PROVE LossInv'
  BY <1>40, <1>0, LossFrame DEF WorkerCount, jobVars, threadVars, supVars
<1>41. ASSUME NEW p \in Pids, WorkerAbandon(p) PROVE LossInv'
  BY <1>41, <1>0, LossFrame DEF WorkerAbandon, jobVars, threadVars, supVars
<1>42. ASSUME NEW p \in Pids, WorkerDeath(p) PROVE LossInv'
  BY <1>42, <1>0, LossFrame DEF WorkerDeath, jobVars, threadVars, supVars
<1>43. ASSUME RhOnPart PROVE LossInv'
  BY <1>43, <1>0, LossFrame DEF RhOnPart, jobVars, threadVars, supVars
<1>44. ASSUME RhCredit PROVE LossInv'
  BY <1>44, <1>0, LossFrame DEF RhCredit, jobVars, threadVars, supVars
<1>45. ASSUME RhCreditFails PROVE LossInv'
  BY <1>45, <1>0, LossFrame DEF RhCreditFails, jobVars, threadVars, supVars
<1> QED
  BY <1>1, <1>2, <1>3, <1>4, <1>5, <1>6, <1>7, <1>8, <1>9, <1>10, <1>11,
     <1>12, <1>13, <1>14, <1>15, <1>16, <1>17, <1>18, <1>19, <1>20, <1>21,
     <1>22, <1>23, <1>24, <1>25, <1>26, <1>27, <1>28, <1>29, <1>30, <1>31,
     <1>32, <1>33, <1>34, <1>35, <1>36, <1>37, <1>38, <1>39, <1>40, <1>41,
     <1>42, <1>43, <1>44, <1>45 DEF Next, ClientStep, WorkerStep, ThStep,
     RhStep, SupStep

LossAll == Life /\ ProcInv /\ LossInv

\* The three parts of the inductive invariant hold initially ...
LEMMA LossInit == Init => LossAll
<1> SUFFICES ASSUME Init PROVE LossAll
  OBVIOUS
<1>1. taskqueue = <<>> /\ inqueue = <<>> /\ outqueue = <<>>
  BY DEF Init
<1>2. Once(taskqueue) /\ Once(inqueue) /\ OnceAck(outqueue)
  BY <1>1 DEF Once, OnceAck
<1>3. \A j \in Jobs :
        ~Has(taskqueue, j) /\ ~Has(inqueue, j) /\ ~HasAck(outqueue, j)
  BY <1>1 DEF Has, HasAck
<1>4. \A p \in Pids : wpc[p] \in {"idle", "new"}
  BY DEF Init
<1>5. \A j \in Jobs : ~Held(j) /\ ~Known(j)
  BY <1>4 DEF Init, Held, Known
<1>6. HeldOnce
  BY <1>4 DEF HeldOnce
<1>7. Life
  BY <1>2, <1>3, <1>5, <1>6 DEF Life, Stages
<1>8. PoolLive /\ Starting
  BY PoolAssumption DEF Init, PoolLive, Starting, Pids
<1>9. AckStarted /\ KnownStarted
  BY <1>1, <1>5 DEF AckStarted, KnownStarted
<1>10. LossInv
  BY DEF Init, LossInv, LossIsReal
<1> QED
  BY <1>7, <1>8, <1>9, <1>10 DEF LossAll, ProcInv

\* ... and always.
LEMMA LossesHold == Spec => []LossAll
<1>1. TypeOK /\ LossAll /\ [Next]_vars => LossAll'
  <2> SUFFICES ASSUME TypeOK, LossAll, [Next]_vars PROVE LossAll'
    OBVIOUS
  <2>1. CASE rhPc # "crashed"
    BY <2>1, LifeNext, ProcNext, LossNext DEF LossAll
  <2>2. CASE rhPc = "crashed"
    <3>1. UNCHANGED vars
      BY <2>2 DEF Next
    <3>2. UNCHANGED <<supPc, supMark, supPid, rhPc, pool, wpc, outqueue,
                      workerPid, value, lost>>
      BY <3>1 DEF vars, threadVars, supVars, rhVars, workerVars, queueVars, jobVars
    <3>3. Life'
      BY LifeNext DEF LossAll
    <3>4. ProcInv'
      BY <3>2 DEF LossAll, ProcInv, PoolLive, Starting, AckStarted,
         KnownStarted, Known, Started
    <3>5. LossInv'
      BY <3>2 DEF LossAll, LossInv, LossIsReal
    <3> QED
      BY <3>3, <3>4, <3>5 DEF LossAll
  <2> QED
    BY <2>1, <2>2
<1> QED
  BY <1>1, LossInit, TypeCorrect, PTL DEF Spec

\* No worker is declared lost while it lives: LossIsReal is an invariant.
THEOREM LossesAreReal == Spec => []LossIsReal
BY LossesHold, PTL DEF LossAll, LossInv

=============================================================================
