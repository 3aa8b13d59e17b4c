--------------------------- MODULE PoolSlotProofs ---------------------------
(***************************************************************************)
(* More theorems about the pool of module Pool, for every value of its     *)
(* constants: where each job is, and where each slot of the putlock is.    *)
(***************************************************************************)
EXTENDS PoolProofs

(***************************************************************************)
(* Queues                                                                  *)
(***************************************************************************)

\* The messages in a queue.
Msgs(q) == {q[i] : i \in DOMAIN q}

IsReady(m, j) == m.type = "READY" /\ m.job = j
HasReady(q, j) == \E m \in Msgs(q) : IsReady(m, j)
ReadyBy(q, j, p) == \E m \in Msgs(q) : IsReady(m, j) /\ m.pid = p

\* There is one READY for a job, and its ACK is handled before it.
OnceReady(q) ==
  \A i, k \in DOMAIN q :
    q[i].type = "READY" /\ q[k].type = "READY" /\ q[i].job = q[k].job => i = k
AckOrder(q) ==
  \A i, k \in DOMAIN q : q[i].type = "ACK" /\ IsReady(q[k], q[i].job) => i < k

\* Which messages appending to a queue and taking its head leave in it.
LEMMA MsgsFacts ==
  ASSUME NEW S, NEW q \in Seq(S)
  PROVE  /\ Msgs(<<>>) = {}
         /\ Msgs(q) \subseteq S
         /\ \A m : Msgs(Append(q, m)) = Msgs(q) \cup {m}
         /\ q # <<>> => Msgs(q) = {Head(q)} \cup Msgs(Tail(q))
<1>1. Msgs(<<>>) = {} /\ Msgs(q) \subseteq S
  BY DEF Msgs
<1>2. ASSUME NEW m PROVE Msgs(Append(q, m)) = Msgs(q) \cup {m}
  <2>1. /\ DOMAIN Append(q, m) = 1 .. Len(q) + 1 /\ DOMAIN q = 1 .. Len(q)
        /\ Len(q) \in Nat
        /\ \A i \in 1 .. Len(q) : Append(q, m)[i] = q[i]
        /\ Append(q, m)[Len(q) + 1] = m
    OBVIOUS
  <2>2. \A i \in 1 .. Len(q) + 1 : i \in 1 .. Len(q) \/ i = Len(q) + 1
    BY <2>1
  <2>3. 1 .. Len(q) \subseteq 1 .. Len(q) + 1 /\ Len(q) + 1 \in 1 .. Len(q) + 1
    BY <2>1
  <2> DEFINE r == Append(q, m)
  <2>4. /\ DOMAIN r = 1 .. Len(q) + 1 /\ r[Len(q) + 1] = m
        /\ \A i \in 1 .. Len(q) : r[i] = q[i]
    BY <2>1
  <2> HIDE DEF r
  <2>5. Msgs(r) = Msgs(q) \cup {m}
    BY <2>1, <2>2, <2>3, <2>4 DEF Msgs
  <2> QED
    BY <2>5 DEF r
<1>3. ASSUME q # <<>> PROVE Msgs(q) = {Head(q)} \cup Msgs(Tail(q))
  <2>1. /\ DOMAIN q = 1 .. Len(q) /\ DOMAIN Tail(q) = 1 .. Len(q) - 1
        /\ Len(q) \in Nat /\ Len(q) >= 1 /\ Head(q) = q[1]
        /\ \A i \in 1 .. Len(q) - 1 : Tail(q)[i] = q[i + 1]
    BY <1>3
  <2>2. \A i \in 1 .. Len(q) :
          i = 1 \/ (i - 1 \in 1 .. Len(q) - 1 /\ Tail(q)[i - 1] = q[i])
    BY <2>1
  <2>3. \A i \in 1 .. Len(q) - 1 : i + 1 \in 1 .. Len(q)
    BY <2>1
  <2>4. 1 \in 1 .. Len(q)
    BY <2>1
  <2> DEFINE t == Tail(q)
  <2>5. /\ DOMAIN t = 1 .. Len(q) - 1
        /\ \A i \in 1 .. Len(q) - 1 : t[i] = q[i + 1]
        /\ \A i \in 1 .. Len(q) :
             i = 1 \/ (i - 1 \in 1 .. Len(q) - 1 /\ t[i - 1] = q[i])
    BY <2>1, <2>2
  <2> HIDE DEF t
  <2>6. ASSUME NEW x \in Msgs(q) PROVE x \in {q[1]} \cup Msgs(t)
    <3>1. PICK i \in 1 .. Len(q) : x = q[i]
      BY <2>1, <2>6 DEF Msgs
    <3> QED
      BY <3>1, <2>5 DEF Msgs
  <2>7. ASSUME NEW x \in {q[1]} \cup Msgs(t) PROVE x \in Msgs(q)
    <3>1. CASE x = q[1]
      BY <3>1, <2>1, <2>4 DEF Msgs
    <3>2. CASE x \in Msgs(t)
      <4>1. PICK i \in 1 .. Len(q) - 1 : x = t[i]
        BY <3>2, <2>5 DEF Msgs
      <4> QED
        BY <4>1, <2>1, <2>3, <2>5 DEF Msgs
    <3> QED
      BY <3>1, <3>2, <2>7
  <2>8. Msgs(q) = {q[1]} \cup Msgs(t)
    BY <2>6, <2>7
  <2> QED
    BY <2>1, <2>8 DEF t
<1> QED
  BY <1>1, <1>2, <1>3

\* A queue of tasks has a task, and the outqueue an ACK, as a message.
LEMMA HasIsMsg ==
  \A q, j : /\ Has(q, j) <=> Task(j) \in Msgs(q)
            /\ HasAck(q, j) <=> \E m \in Msgs(q) : IsAck(m, j)
BY DEF Has, HasAck, Msgs

\* What appending to the outqueue does to the order of its messages.
LEMMA OutAppend ==
  ASSUME NEW q \in Seq(OutMsgs), NEW m
  PROVE  /\ OnceReady(q) /\ (m.type = "READY" => ~HasReady(q, m.job))
              => OnceReady(Append(q, m))
         /\ AckOrder(q) /\ (m.type = "ACK" => ~HasReady(q, m.job))
              /\ ~(m.type = "ACK" /\ m.type = "READY")
              => AckOrder(Append(q, m))
<1>1. /\ DOMAIN Append(q, m) = 1 .. Len(q) + 1 /\ DOMAIN q = 1 .. Len(q)
      /\ Len(q) \in Nat
      /\ \A i \in 1 .. Len(q) : Append(q, m)[i] = q[i]
      /\ Append(q, m)[Len(q) + 1] = m
  OBVIOUS
<1>2. \A i \in DOMAIN q : q[i] \in Msgs(q)
  BY DEF Msgs
<1>3. ASSUME OnceReady(q), m.type = "READY" => ~HasReady(q, m.job)
      PROVE  OnceReady(Append(q, m))
  BY <1>1, <1>2, <1>3 DEF OnceReady, HasReady, IsReady
<1>4. ASSUME AckOrder(q), m.type = "ACK" => ~HasReady(q, m.job),
             ~(m.type = "ACK" /\ m.type = "READY")
      PROVE  AckOrder(Append(q, m))
  BY <1>1, <1>2, <1>4 DEF AckOrder, HasReady, IsReady
<1> QED
  BY <1>3, <1>4

\* What taking from the outqueue does to it.
LEMMA OutTail ==
  ASSUME NEW q \in Seq(OutMsgs), q # <<>>
  PROVE  /\ OnceReady(q) => OnceReady(Tail(q))
         /\ AckOrder(q) => AckOrder(Tail(q))
         /\ \A j : OnceReady(q) /\ IsReady(Head(q), j) => ~HasReady(Tail(q), j)
         /\ \A j : AckOrder(q) /\ IsReady(Head(q), j) => ~HasAck(q, j)
<1>1. /\ DOMAIN q = 1 .. Len(q) /\ DOMAIN Tail(q) = 1 .. Len(q) - 1
      /\ Len(q) \in Nat /\ Len(q) >= 1 /\ Head(q) = q[1]
      /\ \A i \in 1 .. Len(q) - 1 : Tail(q)[i] = q[i + 1]
  OBVIOUS
<1>2. OnceReady(q) => OnceReady(Tail(q))
  <2>1. \A i \in DOMAIN Tail(q) : i + 1 \in DOMAIN q /\ Tail(q)[i] = q[i + 1]
    BY <1>1
  <2>2. DOMAIN Tail(q) \subseteq Nat
    BY <1>1
  <2> QED
    BY <2>1, <2>2 DEF OnceReady
<1>3. AckOrder(q) => AckOrder(Tail(q))
  <2>1. \A i \in DOMAIN Tail(q) : i + 1 \in DOMAIN q /\ Tail(q)[i] = q[i + 1]
    BY <1>1
  <2>2. DOMAIN Tail(q) \subseteq Nat
    BY <1>1
  <2> QED
    BY <2>1, <2>2 DEF AckOrder
<1>4. ASSUME NEW j, OnceReady(q), IsReady(Head(q), j)
      PROVE  ~HasReady(Tail(q), j)
  BY <1>1, <1>4 DEF OnceReady, HasReady, IsReady, Msgs
<1>5. ASSUME NEW j, AckOrder(q), IsReady(Head(q), j)
      PROVE  ~HasAck(q, j)
  BY <1>1, <1>5 DEF AckOrder, HasAck, IsReady, IsAck
<1> QED
  BY <1>2, <1>3, <1>4, <1>5

(***************************************************************************)
(* Each job is in one place                                                *)
(*                                                                         *)
(* JobInOnePlace is not inductive.  SpotInv says in addition that the      *)
(* places of a job exclude each other and hold it once, that a worker and  *)
(* the ResultHandler overwrite no job they have, and that no job is        *)
(* anywhere before it is submitted.                                        *)
(***************************************************************************)

Taken(j) == \E p \in Pids : wjob[p] = j

\* The places of a job exclude each other, and only a submitted job is in one.
Spots ==
  \A j \in Jobs :
    /\ Has(taskqueue, j) =>
         /\ ~Has(inqueue, j) /\ ~Taken(j) /\ ~HasReady(outqueue, j)
         /\ rhJob # j /\ Submitted(j)
    /\ Has(inqueue, j) =>
         ~Taken(j) /\ ~HasReady(outqueue, j) /\ rhJob # j /\ Submitted(j)
    /\ Taken(j) => ~HasReady(outqueue, j) /\ rhJob # j /\ Submitted(j)
    /\ HasReady(outqueue, j) => rhJob # j /\ Submitted(j)
    /\ rhJob = j => Submitted(j)

TakenOnce == \A p, q \in Pids : wjob[p] = wjob[q] /\ wjob[p] # NoJob => p = q

\* A worker that waits for a task has none, and the ResultHandler has a job
\* only while it handles its READY: neither overwrites one.
Empty == {"new", "unstarted", "idle", "recv", "sent"}
Handing == {"credit", "set", "stuck"}
HandsFree ==
  /\ \A p \in Pids : wpc[p] \in Empty => wjob[p] = NoJob
  /\ rhPc \notin Handing => rhJob = NoJob

\* A job that was pickled and is neither finished nor lost is somewhere.
Somewhere(j) ==
  \/ Has(taskqueue, j) \/ Has(inqueue, j) \/ Taken(j)
  \/ HasReady(outqueue, j) \/ rhJob = j
Kept ==
  \A j \in Jobs :
    Submitted(j) /\ ~Ready(j) /\ j \notin Unpicklable /\ lost[j] = "no" => Somewhere(j)

SpotInv == Spots /\ TakenOnce /\ HandsFree /\ OnceReady(outqueue) /\ Kept

\* While the ResultHandler looks at a worker's counter, that is the worker of the
\* job it has; once the worker is dropped, the job is finished or flagged as lost.
PendInv ==
  rhPc = "credit" =>
    /\ workerPid[rhJob] = rhOwner
    /\ rhOwner \in counters \/ Ready(rhJob) \/ lost[rhJob] # "no"

\* The steps that leave the messages on the queues and every job where it is.
OutCalm ==
  \/ outqueue' = outqueue
  \/ /\ outqueue # <<>> /\ outqueue' = Tail(outqueue)
     /\ Head(outqueue).type \notin {"ACK", "READY"}
  \/ \E m : m.type \in {"DEATH", "NONE", "PART"} /\ outqueue' = Append(outqueue, m)
JobsCalm ==
  /\ \A j \in Jobs : Submitted(j)' = Submitted(j)
  /\ \A j \in Jobs : Ready(j) => Ready(j)'
  /\ \A j \in Jobs : lost'[j] = "no" => lost[j] = "no"
  /\ cache' \subseteq cache
  /\ \A j \in cache \ cache' : Ready(j)' /\ j \in accepted
  /\ UNCHANGED <<accepted, workerPid>>
WorkersCalm ==
  \A p \in Pids : /\ wpc'[p] \in Empty => wpc[p] \in Empty
                  /\ wpc'[p] = "run" => wpc[p] = "run"
HandlerCalm ==
  /\ rhPc' \notin Handing => rhPc \notin Handing
  /\ rhPc' = "set" => rhPc = "set"
  /\ rhPc = "set" => rhPc' = "set"
Calm ==
  /\ UNCHANGED <<taskqueue, inqueue, wjob, rhJob>>
  /\ OutCalm /\ JobsCalm /\ WorkersCalm /\ HandlerCalm

\* The steps in which worker p puts a message, dies or gets a signal, and what it
\* may do then that is not calm: write a whole ACK or READY.
Putting(p) ==
  \/ WorkerAck(p) \/ WorkerReady(p) \/ WorkerDeath(p) \/ WorkerCrash(p)
  \/ TerminateJob(p) \/ (shrinking = p /\ ShrinkTerminate)
Acks(p) ==
  /\ wpc[p] = "got" /\ UNCHANGED wjob
  /\ \E c \in {"run", "exited"} : wpc' = [wpc EXCEPT ![p] = c]
  /\ outqueue' = Append(outqueue, Msg("ACK", wjob[p], p))
Readies(p) ==
  /\ wpc[p] = "run" /\ wjob' = [wjob EXCEPT ![p] = NoJob]
  /\ \E c \in {"sent", "exited"} : wpc' = [wpc EXCEPT ![p] = c]
  /\ outqueue' = Append(outqueue, Msg("READY", wjob[p], p))

\* The others.
Busy ==
  \/ \E j \in Jobs : ApplySubmit(j)
  \/ Close \/ ThPut \/ ThTellResultHandler \/ ThTellWorkers
  \/ (\E p \in Pids : WorkerReceive(p))
  \/ (\E p \in Pids : Putting(p) /\ (Acks(p) \/ Readies(p)))
  \/ RhOnAck \/ RhOnReady \/ RhCredit \/ RhCreditFails \/ RhSet \/ RhFinish

\* What a putting worker leaves alone.
LEMMA PuttingKeeps ==
  ASSUME TypeOK, NEW p \in Pids, Putting(p)
  PROVE  /\ Turns(p)
         /\ UNCHANGED <<client, jobVars, taskqueue, inqueue, rhVars>>
<1>1. CASE WorkerAck(p) \/ WorkerReady(p) \/ WorkerDeath(p)
  <2>1. UNCHANGED <<client, jobVars, taskqueue, inqueue, rhVars>>
    BY <1>1 DEF WorkerAck, WorkerReady, WorkerDeath, envVars, threadVars
  <2> QED
    BY <1>1, <2>1, PutTurns
<1>2. CASE WorkerCrash(p)
  <2>1. UNCHANGED <<client, jobVars, taskqueue, inqueue, rhVars>>
    BY <1>2 DEF WorkerCrash, threadVars
  <2>2. wpc[p] \in Alive /\ Killed(p)
    BY <1>2 DEF WorkerCrash
  <2> QED
    BY <2>1, <2>2, KillTurns
<1>3. CASE TerminateJob(p)
  BY <1>3, TermTurns DEF TerminateJob, threadVars
<1>4. CASE shrinking = p /\ ShrinkTerminate
  BY <1>4, TermTurns DEF ShrinkTerminate, threadVars
<1> QED
  BY <1>1, <1>2, <1>3, <1>4 DEF Putting

\* So such a step is calm or busy.
LEMMA PuttingCalm ==
  ASSUME TypeOK, NEW p \in Pids, Putting(p)
  PROVE  Calm \/ Acks(p) \/ Readies(p)
<1>a. Turns(p) /\ UNCHANGED <<client, jobVars, taskqueue, inqueue, rhVars>>
  BY PuttingKeeps
<1>b. /\ UNCHANGED <<taskqueue, inqueue, rhJob>> /\ JobsCalm /\ HandlerCalm
  BY <1>a DEF JobsCalm, HandlerCalm, jobVars, rhVars, Submitted, Ready
<1>1. CASE UNCHANGED <<wpc, outqueue, wjob>>
  BY <1>b, <1>1 DEF Calm, OutCalm, WorkersCalm
<1>2. ASSUME NEW c \in Points, c \notin {"run", "sent"}, wpc' = [wpc EXCEPT ![p] = c],
             UNCHANGED wjob,
             \/ UNCHANGED outqueue
             \/ outqueue' = Append(outqueue, Msg("PART", NoJob, p))
             \/ outqueue' = Append(outqueue, Msg("DEATH", NoJob, p))
      PROVE  Calm
  <2>1. WorkersCalm
    BY <1>2 DEF WorkersCalm, Points, Empty, TypeOK, WorkerType
  <2>2. \A type \in {"PART", "DEATH"} : Msg(type, NoJob, p).type \in {"DEATH", "NONE", "PART"}
    BY DEF Msg
  <2>3. OutCalm
    BY <1>2, <2>2 DEF OutCalm
  <2> QED
    BY <1>b, <1>2, <2>1, <2>3 DEF Calm
<1>3. CASE /\ wpc[p] = "got" /\ UNCHANGED wjob
           /\ \E c \in {"run", "exited"} : wpc' = [wpc EXCEPT ![p] = c]
           /\ outqueue' = Append(outqueue, Msg("ACK", wjob[p], p))
  BY <1>3 DEF Acks
<1>4. CASE /\ wpc[p] = "run" /\ wjob' = [wjob EXCEPT ![p] = NoJob]
           /\ \E c \in {"sent", "exited"} : wpc' = [wpc EXCEPT ![p] = c]
           /\ outqueue' = Append(outqueue, Msg("READY", wjob[p], p))
  BY <1>4 DEF Readies
<1> QED
  BY <1>a, <1>1, <1>2, <1>3, <1>4 DEF Turns, Sends

\* So is a step that leaves result objects, queues and workers alone ...
LEMMA QuietCalm ==
  ASSUME UNCHANGED <<client, jobVars, queueVars, wpc, wjob, rhJob>>,
         HandlerCalm
  PROVE  Calm
BY DEF Calm, OutCalm, JobsCalm, WorkersCalm, jobVars, queueVars, Submitted, Ready

\* ... the end of a result object that is set ...
LEMMA SetCalm ==
  ASSUME TypeOK, NEW j \in Jobs, NEW v, v # "unset", Set(j, v),
         UNCHANGED <<client, accepted, workerPid, lost>>
  PROVE  JobsCalm
BY DEF JobsCalm, Set, Ready, TypeOK, JobType, Submitted

\* ... and dropping workers.
LEMMA DropCalm ==
  ASSUME TypeOK, NEW gone, Drop(gone), UNCHANGED <<client, accepted, workerPid>>
  PROVE  JobsCalm
<1>1. CASE gone = {}
  BY <1>1 DEF Drop, JobsCalm, Submitted, Ready
<1>2. CASE gone # {}
  <2> DEFINE cut == {j \in cache : /\ workerPid[j] \notin (pool \ gone) \cup {NoPid}
                                  /\ workerPid[j] \in gone \cap terminated}
  <2>1. /\ value' = [j \in Jobs |-> IF j \in cut /\ ~Ready(j) THEN "terminated"
                                                            ELSE value[j]]
        /\ cache' = cache \ {j \in cut : ~Ready(j) /\ j \in accepted}
        /\ \A j \in Jobs : lost'[j] = "fresh" \/ lost'[j] = lost[j]
    BY <1>2 DEF Drop
  <2> HIDE DEF cut
  <2> QED
    BY <2>1 DEF JobsCalm, Ready, Submitted, TypeOK, JobType
<1> QED
  BY <1>1, <1>2

\* Every step is calm or busy.
LEMMA CalmOrBusy ==
  ASSUME TypeOK, ProcInv, [Next]_vars
  PROVE  Calm \/ Busy
<1>1. CASE UNCHANGED vars
  BY <1>1, QuietCalm DEF vars, envVars, jobVars, queueVars, workerVars, rhVars, threadVars,
     HandlerCalm
<1>2. ASSUME NEW j \in Jobs, ApplyCheck(j) PROVE Calm
  <2>1. \A k \in Jobs : Submitted(k)' = Submitted(k)
    BY <1>2 DEF ApplyCheck, Submitted, TypeOK, EnvType
  <2> QED
    BY <1>2, <2>1 DEF ApplyCheck, Calm, HandlerCalm, OutCalm, JobsCalm, WorkersCalm, Ready,
       jobVars, queueVars, workerVars, threadVars, rhVars
<1>3. ASSUME Grow PROVE Calm
  BY <1>3, QuietCalm DEF Grow, vars, envVars, jobVars, queueVars, workerVars, rhVars,
     threadVars, HandlerCalm
<1>4. ASSUME ShrinkBegin PROVE Calm
  BY <1>4, QuietCalm DEF ShrinkBegin, vars, envVars, jobVars, queueVars, workerVars,
     rhVars, threadVars, HandlerCalm
<1>5. ASSUME RhPollTimeout PROVE Calm
  BY <1>5, QuietCalm DEF RhPollTimeout, Handing, vars, envVars, jobVars, queueVars,
     workerVars, rhVars, threadVars, HandlerCalm
<1>6. ASSUME RhJoinCrash PROVE Calm
  BY <1>6, QuietCalm DEF RhJoinCrash, Handing, vars, envVars, jobVars, queueVars,
     workerVars, rhVars, threadVars, HandlerCalm
<1>7. ASSUME SupWake PROVE Calm
  BY <1>7, QuietCalm DEF SupWake, vars, envVars, jobVars, queueVars, workerVars, rhVars,
     threadVars, HandlerCalm
<1>8. ASSUME SupCheck PROVE Calm
  BY <1>8, QuietCalm DEF SupCheck, vars, envVars, jobVars, queueVars, workerVars,
     rhVars, threadVars, HandlerCalm
<1>9. ASSUME SupAssertFails PROVE Calm
  BY <1>9, QuietCalm DEF SupAssertFails, vars, envVars, jobVars, queueVars, workerVars,
     rhVars, threadVars, HandlerCalm
<1>10. ASSUME SupRegister PROVE Calm
  BY <1>10, QuietCalm DEF SupRegister, vars, envVars, jobVars, queueVars, workerVars,
     rhVars, threadVars, HandlerCalm
<1>11. ASSUME SupRelease PROVE Calm
  BY <1>11, QuietCalm DEF SupRelease, vars, envVars, jobVars, queueVars, workerVars,
     rhVars, threadVars, HandlerCalm
<1>12. ASSUME NEW p \in Pids, Putting(p) PROVE Calm \/ Busy
  BY <1>12, PuttingCalm DEF Busy
<1>13. ASSUME ShrinkTerminate PROVE Calm \/ Busy
  <2>1. shrinking \in Pids /\ Putting(shrinking)
    BY <1>13 DEF ShrinkTerminate, Putting, TypeOK, EnvType, NoPid
  <2> QED
    BY <2>1, <1>12
<1>14. ASSUME NEW p \in Pids, WorkerLock(p) PROVE Calm
  <2>1. WorkersCalm
    BY <1>14 DEF WorkerLock, WorkersCalm, Empty, Alive, Serving, TypeOK, WorkerType
  <2> QED
    BY <1>14, <2>1 DEF WorkerLock, Calm, HandlerCalm, OutCalm, JobsCalm, Ready, Submitted, jobVars,
       queueVars, threadVars, rhVars, envVars
<1>15. ASSUME NEW p \in Pids, WorkerCount(p) PROVE Calm
  <2>1. WorkersCalm
    BY <1>15 DEF WorkerCount, WorkersCalm, Empty, Alive, Serving, TypeOK, WorkerType
  <2> QED
    BY <1>15, <2>1 DEF WorkerCount, Calm, HandlerCalm, OutCalm, JobsCalm, Ready, Submitted, jobVars,
       queueVars, threadVars, rhVars, envVars
<1>16. ASSUME NEW p \in Pids, WorkerExit(p) PROVE Calm
  <2>1. WorkersCalm
    BY <1>16 DEF WorkerExit, WorkersCalm, Empty, Alive, Serving, TypeOK, WorkerType
  <2> QED
    BY <1>16, <2>1 DEF WorkerExit, Calm, HandlerCalm, OutCalm, JobsCalm, Ready, Submitted, jobVars,
       queueVars, threadVars, rhVars, envVars
<1>17. ASSUME NEW p \in Pids, WorkerAbandon(p) PROVE Calm
  <2>1. WorkersCalm
    BY <1>17 DEF WorkerAbandon, WorkersCalm, Empty, Alive, Serving, TypeOK, WorkerType
  <2> QED
    BY <1>17, <2>1 DEF WorkerAbandon, Calm, HandlerCalm, OutCalm, JobsCalm, Ready, Submitted, jobVars,
       queueVars, threadVars, rhVars, envVars
<1>18. ASSUME NEW p \in Pids, WorkerEnsure(p) PROVE Calm
  <2>1. WorkersCalm
    BY <1>18 DEF WorkerEnsure, WorkersCalm, Empty, Alive, Serving, TypeOK, WorkerType
  <2> QED
    BY <1>18, <2>1 DEF WorkerEnsure, Calm, HandlerCalm, OutCalm, JobsCalm, Ready, Submitted, jobVars,
       queueVars, threadVars, rhVars, envVars
<1>19. ASSUME NEW p \in Pids, WorkerEnsureTimeout(p) PROVE Calm
  <2>1. WorkersCalm
    BY <1>19 DEF WorkerEnsureTimeout, WorkersCalm, Empty, Alive, Serving, TypeOK, WorkerType
  <2> QED
    BY <1>19, <2>1 DEF WorkerEnsureTimeout, Calm, HandlerCalm, OutCalm, JobsCalm, Ready, Submitted, jobVars,
       queueVars, threadVars, rhVars, envVars
<1>20. ASSUME RhOnDeath PROVE Calm
  <2>1. WorkersCalm
    BY <1>20 DEF RhOnDeath, WorkersCalm, Empty, TypeOK, WorkerType
  <2>2. OutCalm
    BY <1>20 DEF RhOnDeath, RhTakes, OutCalm
  <2>3. HandlerCalm
    BY <1>20 DEF RhOnDeath, RhTakes, RhNext, HandlerCalm, Handing
  <2> QED
    BY <1>20, <2>1, <2>2, <2>3 DEF RhOnDeath, Calm, HandlerCalm, JobsCalm, Ready, Submitted,
       jobVars, envVars
<1>21. ASSUME RhOnSentinel PROVE Calm
  <2>1. WorkersCalm
    BY <1>21 DEF RhOnSentinel, WorkersCalm, workerVars
  <2>2. OutCalm
    BY <1>21 DEF RhOnSentinel, RhTakes, OutCalm
  <2> QED
    BY <1>21, <2>1, <2>2 DEF RhOnSentinel, Calm, HandlerCalm, JobsCalm, Ready, Submitted,
       jobVars, envVars, workerVars
<1>22. ASSUME NEW j \in Jobs, RhMarkLost(j) PROVE Calm
  <2>1. JobsCalm
    BY <1>22, SetCalm DEF RhMarkLost, envVars
  <2> QED
    BY <1>22, <2>1 DEF RhMarkLost, Calm, HandlerCalm, OutCalm, WorkersCalm, queueVars, workerVars,
       threadVars, rhVars
<1>23. ASSUME NEW j \in Jobs, SupMarkLost(j) PROVE Calm
  <2>1. JobsCalm
    BY <1>23, SetCalm DEF SupMarkLost, envVars
  <2> QED
    BY <1>23, <2>1 DEF SupMarkLost, Calm, HandlerCalm, OutCalm, WorkersCalm, queueVars, workerVars,
       threadVars, rhVars
<1>24. ASSUME RhJoin PROVE Calm
  <2>1. JobsCalm
    BY <1>24, DropCalm DEF RhJoin, envVars
  <2>2. /\ UNCHANGED <<taskqueue, inqueue, outqueue, wpc, wjob, rhJob>>
        /\ HandlerCalm
    BY <1>24 DEF RhJoin, queueVars, workerVars, rhVars, HandlerCalm, Handing
  <2> QED
    BY <2>1, <2>2 DEF Calm, OutCalm, WorkersCalm
<1>25. ASSUME SupJoin PROVE Calm
  <2>1. JobsCalm
    BY <1>25, DropCalm DEF SupJoin, envVars
  <2>2. /\ UNCHANGED <<taskqueue, inqueue, outqueue, wpc, wjob, rhJob>>
        /\ HandlerCalm
    BY <1>25 DEF SupJoin, queueVars, workerVars, rhVars, HandlerCalm
  <2> QED
    BY <2>1, <2>2 DEF Calm, OutCalm, WorkersCalm
<1>26. ASSUME SupAppend PROVE Calm
  <2>1. WorkersCalm
    BY <1>26 DEF SupAppend, WorkersCalm, Empty, TypeOK, WorkerType
  <2> QED
    BY <1>26, <2>1 DEF SupAppend, Calm, HandlerCalm, OutCalm, JobsCalm, Ready, Submitted, jobVars,
       queueVars, rhVars, envVars
<1>27. ASSUME SupStart PROVE Calm
  <2>1. wpc[supPid] = "unstarted" /\ wpc' = [wpc EXCEPT ![supPid] = "idle"]
    BY <1>27 DEF SupStart, ProcInv, Starting
  <2>2. WorkersCalm
    BY <2>1 DEF WorkersCalm, Empty, TypeOK, WorkerType
  <2> QED
    BY <1>27, <2>2 DEF SupStart, Calm, HandlerCalm, OutCalm, JobsCalm, Ready, Submitted, jobVars,
       queueVars, rhVars, envVars
<1>28. ASSUME NEW j \in Jobs, LostTimeout(j) PROVE Calm
  BY <1>28 DEF LostTimeout, Calm, HandlerCalm, OutCalm, JobsCalm, WorkersCalm, Ready, Submitted,
     queueVars, workerVars, threadVars, rhVars, envVars
<1>29. ASSUME RhOnPart PROVE Calm
  <2>1. WorkersCalm
    BY <1>29 DEF RhOnPart, WorkersCalm, workerVars
  <2>2. OutCalm
    BY <1>29 DEF RhOnPart, RhTakes, OutCalm
  <2>3. HandlerCalm
    BY <1>29 DEF RhOnPart, RhTakes, HandlerCalm, Handing
  <2> QED
    BY <1>29, <2>1, <2>2, <2>3 DEF RhOnPart, Calm, HandlerCalm, JobsCalm, Ready, Submitted,
       jobVars, envVars, workerVars
<1> QED
  BY <1>1, <1>2, <1>3, <1>4, <1>5, <1>6, <1>7, <1>8, <1>9, <1>10, <1>11, <1>12, <1>13,
     <1>14, <1>15, <1>16, <1>17, <1>18, <1>19, <1>20, <1>21, <1>22, <1>23, <1>24, <1>25,
     <1>26, <1>27, <1>28, <1>29
  DEF Busy, Putting, Next, ClientStep, WorkerStep, ThStep, RhStep, SupStep

\* What a calm outqueue keeps.
LEMMA OutCalmKeeps ==
  ASSUME TypeOK, OutCalm
  PROVE  /\ \A m : m.type \in {"ACK", "READY"} =>
              (m \in Msgs(outqueue') <=> m \in Msgs(outqueue))
         /\ \A j : HasReady(outqueue', j) <=> HasReady(outqueue, j)
         /\ \A j : HasAck(outqueue', j) <=> HasAck(outqueue, j)
         /\ \A j, p : ReadyBy(outqueue', j, p) <=> ReadyBy(outqueue, j, p)
         /\ OnceReady(outqueue) => OnceReady(outqueue')
         /\ AckOrder(outqueue) => AckOrder(outqueue')
<1>0. outqueue \in Seq(OutMsgs)
  BY DEF TypeOK, QueueType
<1>1. \A m : m.type \in {"ACK", "READY"} =>
         (m \in Msgs(outqueue') <=> m \in Msgs(outqueue))
  <2>1. CASE outqueue' = outqueue
    BY <2>1
  <2>2. CASE /\ outqueue # <<>> /\ outqueue' = Tail(outqueue)
             /\ Head(outqueue).type \notin {"ACK", "READY"}
    <3>1. Msgs(outqueue) = {Head(outqueue)} \cup Msgs(outqueue')
      BY <1>0, <2>2, MsgsFacts
    <3> QED
      BY <2>2, <3>1
  <2>3. ASSUME NEW x, x.type \in {"DEATH", "NONE", "PART"}, outqueue' = Append(outqueue, x)
        PROVE  \A m : m.type \in {"ACK", "READY"} =>
                 (m \in Msgs(outqueue') <=> m \in Msgs(outqueue))
    <3>1. Msgs(outqueue') = Msgs(outqueue) \cup {x}
      BY <1>0, <2>3, MsgsFacts
    <3> QED
      BY <2>3, <3>1
  <2> QED
    BY <2>1, <2>2, <2>3 DEF OutCalm
<1>2. /\ OnceReady(outqueue) => OnceReady(outqueue')
      /\ AckOrder(outqueue) => AckOrder(outqueue')
  BY <1>0, OutAppend, OutTail DEF OutCalm
<1>3. /\ \A j : HasReady(outqueue', j) <=> HasReady(outqueue, j)
      /\ \A j, p : ReadyBy(outqueue', j, p) <=> ReadyBy(outqueue, j, p)
  BY <1>1 DEF HasReady, ReadyBy, IsReady
<1>4. \A j : HasAck(outqueue', j) <=> HasAck(outqueue, j)
  BY <1>1, HasIsMsg DEF IsAck
<1> QED
  BY <1>1, <1>2, <1>3, <1>4

\* Whatever moves no job keeps SpotInv.
LEMMA SpotFrame ==
  ASSUME TypeOK, SpotInv,
         \A j \in Jobs : /\ Has(taskqueue', j) <=> Has(taskqueue, j)
                         /\ Has(inqueue', j) <=> Has(inqueue, j)
                         /\ HasReady(outqueue', j) <=> HasReady(outqueue, j)
                         /\ Submitted(j)' = Submitted(j)
                         /\ Ready(j) => Ready(j)'
                         /\ lost'[j] = "no" => lost[j] = "no",
         OnceReady(outqueue'),
         UNCHANGED <<wjob, rhJob>>,
         \A p \in Pids : wpc'[p] \in Empty => wpc[p] \in Empty,
         rhPc' \notin Handing => rhPc \notin Handing
  PROVE  SpotInv'
<1>1. \A j \in Jobs : Taken(j)' <=> Taken(j)
  BY DEF Taken
<1>2. Spots'
  BY <1>1 DEF SpotInv, Spots
<1>3. TakenOnce' /\ HandsFree'
  BY DEF SpotInv, TakenOnce, HandsFree
<1>4. Kept'
  BY <1>1 DEF SpotInv, Kept, Somewhere
<1> QED
  BY <1>2, <1>3, <1>4 DEF SpotInv

\* So does the ResultHandler when it is done with a job that is finished or lost.
LEMMA SpotDone ==
  ASSUME SpotInv, rhJob' = NoJob,
         UNCHANGED <<taskqueue, inqueue, outqueue, wjob, wpc, client, lost>>,
         \A j \in Jobs : Ready(j) => Ready(j)',
         \A j \in Jobs : rhJob = j => Ready(j)' \/ lost[j] # "no"
  PROVE  SpotInv'
<1>1. \A j \in Jobs : (Taken(j)' <=> Taken(j)) /\ Submitted(j)' = Submitted(j)
  BY DEF Taken, Submitted
<1>2. Spots'
  BY <1>1, PoolAssumption DEF SpotInv, Spots
<1>3. TakenOnce' /\ HandsFree'
  BY DEF SpotInv, TakenOnce, HandsFree
<1>4. Kept'
  <2> SUFFICES ASSUME NEW j \in Jobs, Submitted(j)', ~Ready(j)', j \notin Unpicklable,
                      lost'[j] = "no"
               PROVE  Somewhere(j)'
    BY DEF Kept
  <2>1. Submitted(j) /\ ~Ready(j) /\ rhJob # j /\ lost[j] = "no"
    BY <1>1
  <2>2. Somewhere(j)
    BY <2>1 DEF SpotInv, Kept
  <2> QED
    BY <1>1, <2>1, <2>2 DEF Somewhere
<1> QED
  BY <1>2, <1>3, <1>4 DEF SpotInv

\* What appending a task or a sentinel, and taking the head, do to a queue of
\* tasks.
LEMMA TaskMoves ==
  ASSUME NEW q \in Seq(TaskMsgs)
  PROVE  /\ \A j, k \in Jobs : Has(Append(q, Task(k)), j) <=> Has(q, j) \/ j = k
         /\ \A j \in Jobs : Has(Append(q, Sentinel), j) <=> Has(q, j)
         /\ q # <<>> => \A j \in Jobs : Has(q, j) <=> Has(Tail(q), j) \/ Head(q) = Task(j)
<1>1. \A j, k \in Jobs : Has(Append(q, Task(k)), j) <=> Has(q, j) \/ j = k
  BY MsgsFacts, HasIsMsg, TaskDistinct
<1>2. \A j \in Jobs : Has(Append(q, Sentinel), j) <=> Has(q, j)
  BY MsgsFacts, HasIsMsg, TaskDistinct
<1>3. q # <<>> => \A j \in Jobs : Has(q, j) <=> Has(Tail(q), j) \/ Head(q) = Task(j)
  BY MsgsFacts, HasIsMsg
<1> QED
  BY <1>1, <1>2, <1>3

\* An unfinished job is in the cache.
Cached == \A j \in Jobs : Submitted(j) /\ ~Ready(j) => j \in cache

\* Every step preserves SpotInv.
LEMMA SpotNext ==
  TypeOK /\ ProcInv /\ Life /\ Cached /\ PendInv /\ SpotInv /\ [Next]_vars => SpotInv'
<1> SUFFICES ASSUME TypeOK, ProcInv, Life, Cached, PendInv, SpotInv, [Next]_vars
             PROVE  SpotInv'
  OBVIOUS
<1>a. /\ taskqueue \in Seq(TaskMsgs) /\ inqueue \in Seq(TaskMsgs)
      /\ outqueue \in Seq(OutMsgs)
      /\ Once(taskqueue) /\ Once(inqueue) /\ OnceReady(outqueue)
  BY DEF TypeOK, QueueType, Life, SpotInv
<1>1. CASE Calm
  <2>1. /\ \A j : HasReady(outqueue', j) <=> HasReady(outqueue, j)
        /\ OnceReady(outqueue')
    BY <1>1, <1>a, OutCalmKeeps DEF Calm
  <2> QED
    BY <1>1, <2>1, SpotFrame DEF Calm, HandlerCalm, JobsCalm, WorkersCalm
<1>2. ASSUME NEW j \in Jobs, ApplySubmit(j) PROVE SpotInv'
  <2>1. /\ taskqueue' = Append(taskqueue, Task(j)) /\ ~Submitted(j) /\ Submitted(j)'
        /\ \A k \in Jobs : k # j => Submitted(k)' = Submitted(k)
        /\ UNCHANGED <<inqueue, outqueue, wjob, wpc, rhJob, rhPc, value, lost>>
    BY <1>2 DEF ApplySubmit, Submitted, TypeOK, EnvType, workerVars, threadVars,
       rhVars
  <2>2. \A k \in Jobs : Has(taskqueue', k) <=> Has(taskqueue, k) \/ k = j
    BY <1>a, <2>1, TaskMoves
  <2>3. /\ ~Has(taskqueue, j) /\ ~Has(inqueue, j) /\ ~Taken(j)
        /\ ~HasReady(outqueue, j) /\ rhJob # j
    BY <2>1 DEF SpotInv, Spots
  <2>4. \A k \in Jobs : Taken(k)' <=> Taken(k)
    BY <2>1 DEF Taken
  <2>5. Spots'
    BY <2>1, <2>2, <2>3, <2>4 DEF SpotInv, Spots
  <2>6. Kept'
    BY <2>1, <2>2, <2>4 DEF SpotInv, Kept, Somewhere, Ready
  <2> QED
    BY <2>1, <2>5, <2>6 DEF SpotInv, TakenOnce, HandsFree
<1>3. ASSUME Close PROVE SpotInv'
  <2>1. /\ taskqueue' = Append(taskqueue, Sentinel)
        /\ UNCHANGED <<inqueue, outqueue, wjob, wpc, rhJob, rhPc, value, lost, client>>
    BY <1>3 DEF Close, workerVars, threadVars, rhVars, jobVars
  <2>2. \A k \in Jobs : Has(taskqueue', k) <=> Has(taskqueue, k)
    BY <1>a, <2>1, TaskMoves
  <2> QED
    BY <1>a, <2>1, <2>2, SpotFrame DEF Submitted, Ready
<1>4. ASSUME ThPut PROVE SpotInv'
  <2>1. PICK j \in Jobs : Head(taskqueue) = Task(j)
    BY <1>4, <1>a, TaskHead, TaskQueue DEF ThPut
  <2>2. Head(taskqueue).job = j
    BY <2>1, TaskDistinct
  <2>3. /\ taskqueue # <<>> /\ taskqueue' = Tail(taskqueue)
        /\ j \notin Unpicklable => inqueue' = Append(inqueue, Task(j))
        /\ j \in Unpicklable => inqueue' = inqueue
        /\ UNCHANGED <<outqueue, wjob, wpc, rhJob, rhPc, lost, client>>
    BY <1>4, <2>2 DEF ThPut, workerVars, threadVars, rhVars, envVars
  <2>4. \A k \in Jobs : Ready(k) => Ready(k)'
    BY <1>4 DEF ThPut, Set, Ready, TypeOK, JobType
  <2>5. /\ Has(taskqueue, j) /\ ~Has(taskqueue', j)
        /\ \A k \in Jobs : k # j => (Has(taskqueue', k) <=> Has(taskqueue, k))
    BY <1>a, <2>1, <2>3, TaskMoves, TaskQueue, TaskDistinct
  <2>6. \A k \in Jobs : Has(inqueue', k) <=> Has(inqueue, k)
                                             \/ (k = j /\ j \notin Unpicklable)
    <3>1. CASE j \in Unpicklable
      BY <2>3, <3>1
    <3>2. CASE j \notin Unpicklable
      <4>1. inqueue' = Append(inqueue, Task(j))
        BY <2>3, <3>2
      <4>2. \A k \in Jobs : Has(Append(inqueue, Task(j)), k) <=> Has(inqueue, k) \/ k = j
        BY <1>a, TaskMoves
      <4> QED
        BY <3>2, <4>1, <4>2
    <3> QED
      BY <3>1, <3>2
  <2>7. \A k \in Jobs : (Taken(k)' <=> Taken(k)) /\ Submitted(k)' = Submitted(k)
    BY <2>3 DEF Taken, Submitted
  <2>8. Spots'
    BY <2>3, <2>5, <2>6, <2>7 DEF SpotInv, Spots
  <2>9. Kept'
    BY <2>3, <2>4, <2>5, <2>6, <2>7 DEF SpotInv, Kept, Somewhere
  <2> QED
    BY <2>3, <2>8, <2>9 DEF SpotInv, TakenOnce, HandsFree
<1>5. ASSUME ThTellResultHandler PROVE SpotInv'
  <2>1. /\ taskqueue # <<>> /\ taskqueue' = Tail(taskqueue) /\ Head(taskqueue) = Sentinel
        /\ outqueue' = Append(outqueue, Msg("NONE", NoJob, NoPid))
        /\ UNCHANGED <<inqueue, wjob, wpc, rhJob, rhPc, value, lost, client>>
    BY <1>5 DEF ThTellResultHandler, workerVars, rhVars, envVars, jobVars
  <2>2. \A k \in Jobs : Has(taskqueue', k) <=> Has(taskqueue, k)
    BY <1>a, <2>1, TaskMoves, TaskDistinct
  <2>3. Msg("NONE", NoJob, NoPid).type \in {"DEATH", "NONE", "PART"}
    BY DEF Msg
  <2>4. OutCalm
    BY <2>1, <2>3 DEF OutCalm
  <2>5. /\ \A j : HasReady(outqueue', j) <=> HasReady(outqueue, j)
        /\ OnceReady(outqueue')
    BY <2>4, <1>a, OutCalmKeeps
  <2> QED
    BY <2>1, <2>2, <2>5, SpotFrame DEF Submitted, Ready
<1>6. ASSUME ThTellWorkers PROVE SpotInv'
  <2>1. /\ inqueue' = inqueue \/ inqueue' = Append(inqueue, Sentinel)
        /\ UNCHANGED <<taskqueue, outqueue, wjob, wpc, rhJob, rhPc, value, lost, client>>
    BY <1>6 DEF ThTellWorkers, workerVars, rhVars, envVars, jobVars
  <2>2. \A k \in Jobs : Has(inqueue', k) <=> Has(inqueue, k)
    <3>1. CASE inqueue' = inqueue
      BY <3>1
    <3>2. CASE inqueue' = Append(inqueue, Sentinel)
      BY <1>a, <3>2, TaskMoves
    <3> QED
      BY <2>1, <3>1, <3>2
  <2> QED
    BY <1>a, <2>1, <2>2, SpotFrame DEF Submitted, Ready
<1>7. ASSUME NEW p \in Pids, WorkerReceive(p) PROVE SpotInv'
  <2>1. /\ inqueue # <<>> /\ inqueue' = Tail(inqueue) /\ wpc[p] = "recv"
        /\ UNCHANGED <<taskqueue, outqueue, rhJob, rhPc, value, lost, client>>
    BY <1>7 DEF WorkerReceive, jobVars, envVars, threadVars, rhVars
  <2>2. wjob[p] = NoJob
    BY <2>1 DEF SpotInv, HandsFree, Empty
  <2>3. CASE Head(inqueue) = Sentinel
    <3>1. wjob' = wjob /\ \A q \in Pids : wpc'[q] \in Empty => wpc[q] \in Empty
      BY <1>7, <2>3 DEF WorkerReceive, TypeOK, WorkerType, Empty
    <3>2. \A k \in Jobs : Has(inqueue', k) <=> Has(inqueue, k)
      BY <1>a, <2>1, <2>3, TaskMoves, TaskDistinct
    <3> QED
      BY <1>a, <2>1, <3>1, <3>2, SpotFrame DEF Submitted, Ready
  <2>4. CASE Head(inqueue) # Sentinel
    <3>1. PICK j \in Jobs : Head(inqueue) = Task(j)
      BY <2>1, <2>4, <1>a, TaskHead, TaskQueue
    <3>2. wpc' = [wpc EXCEPT ![p] = "got"] /\ wjob' = [wjob EXCEPT ![p] = j]
      BY <1>7, <2>4, <3>1, TaskDistinct DEF WorkerReceive
    <3>3. /\ Has(inqueue, j) /\ ~Has(inqueue', j)
          /\ \A k \in Jobs : k # j => (Has(inqueue', k) <=> Has(inqueue, k))
      BY <1>a, <2>1, <3>1, TaskMoves, TaskQueue, TaskDistinct
    <3>4. ~Taken(j) /\ ~Has(taskqueue, j) /\ ~HasReady(outqueue, j) /\ rhJob # j
          /\ Submitted(j)
      BY <3>3 DEF SpotInv, Spots
    <3>5. /\ \A q \in Pids : wjob'[q] = IF q = p THEN j ELSE wjob[q]
          /\ \A q \in Pids : wpc'[q] = IF q = p THEN "got" ELSE wpc[q]
      BY <3>2 DEF TypeOK, WorkerType
    <3>6. j # NoJob
      BY PoolAssumption
    <3>7. \A k \in Jobs : Taken(k)' <=> Taken(k) \/ k = j
      BY <2>2, <3>5, PoolAssumption DEF Taken
    <3>8. Spots'
      BY <2>1, <3>3, <3>4, <3>7 DEF SpotInv, Spots, Submitted
    <3>9. TakenOnce' /\ HandsFree'
      BY <2>1, <3>4, <3>5 DEF SpotInv, TakenOnce, HandsFree, Taken, Empty
    <3>10. Kept'
      BY <2>1, <3>3, <3>7 DEF SpotInv, Kept, Somewhere, Submitted, Ready
    <3> QED
      BY <2>1, <3>8, <3>9, <3>10 DEF SpotInv
  <2> QED
    BY <2>3, <2>4
<1>8. ASSUME NEW p \in Pids, Putting(p), Acks(p) PROVE SpotInv'
  <2> DEFINE m == Msg("ACK", wjob[p], p)
  <2>1. /\ outqueue' = Append(outqueue, m) /\ m.type = "ACK"
        /\ UNCHANGED <<taskqueue, inqueue, wjob, rhJob, rhPc, value, lost, client>>
        /\ \A q \in Pids : wpc'[q] \in Empty => wpc[q] \in Empty
    BY <1>8, PuttingKeeps DEF Acks, jobVars, rhVars, Msg, Empty, TypeOK, WorkerType
  <2> HIDE DEF m
  <2>2. Msgs(outqueue') = Msgs(outqueue) \cup {m}
    BY <1>a, <2>1, MsgsFacts
  <2>3. \A j \in Jobs : HasReady(outqueue', j) <=> HasReady(outqueue, j)
    BY <2>1, <2>2 DEF HasReady, IsReady
  <2>4. OnceReady(outqueue')
    BY <1>a, <2>1, OutAppend
  <2> QED
    BY <2>1, <2>3, <2>4, SpotFrame DEF Submitted, Ready
<1>9. ASSUME NEW p \in Pids, Putting(p), Readies(p) PROVE SpotInv'
  <2>1. PICK j \in Jobs : j = wjob[p]
    BY <1>9 DEF Readies, TypeOK, WorkerType
  <2>2. PICK m : m = Msg("READY", j, p)
    OBVIOUS
  <2>3. m.type = "READY" /\ m.job = j
    BY <2>2 DEF Msg
  <2>4. /\ outqueue' = Append(outqueue, m)
        /\ UNCHANGED <<taskqueue, inqueue, rhJob, rhPc, value, lost, client>>
    BY <1>9, <2>1, <2>2, PuttingKeeps DEF Readies, jobVars, rhVars
  <2>5. /\ \A q \in Pids : wjob'[q] = IF q = p THEN NoJob ELSE wjob[q]
        /\ \A q \in Pids : q # p => wpc'[q] = wpc[q]
    BY <1>9 DEF Readies, TypeOK, WorkerType
  <2>6. Taken(j)
    BY <2>1 DEF Taken
  <2>7. ~HasReady(outqueue, j) /\ rhJob # j /\ Submitted(j)
        /\ ~Has(taskqueue, j) /\ ~Has(inqueue, j)
    BY <2>6 DEF SpotInv, Spots
  <2>8. \A k \in Jobs : Taken(k)' <=> Taken(k) /\ k # j
    BY <2>1, <2>5, PoolAssumption DEF Taken, SpotInv, TakenOnce
  <2>9. Msgs(outqueue') = Msgs(outqueue) \cup {m}
    BY <1>a, <2>4, MsgsFacts
  <2>10. \A k \in Jobs : HasReady(outqueue', k) <=> HasReady(outqueue, k) \/ k = j
    BY <2>3, <2>9 DEF HasReady, IsReady
  <2>11. OnceReady(outqueue')
    BY <1>a, <2>3, <2>4, <2>7, OutAppend
  <2>12. Spots'
    BY <2>4, <2>7, <2>8, <2>10 DEF SpotInv, Spots, Submitted
  <2>13. TakenOnce' /\ HandsFree'
    BY <2>4, <2>5 DEF SpotInv, TakenOnce, HandsFree
  <2>14. Kept'
    BY <2>4, <2>8, <2>10 DEF SpotInv, Kept, Somewhere, Submitted, Ready
  <2> QED
    BY <2>11, <2>12, <2>13, <2>14 DEF SpotInv
<1>10. ASSUME RhOnAck PROVE SpotInv'
  <2>1. /\ outqueue # <<>> /\ outqueue' = Tail(outqueue) /\ Head(outqueue).type = "ACK"
        /\ UNCHANGED <<taskqueue, inqueue, wjob, wpc, rhJob, value, lost, client>>
        /\ rhPc \notin Handing
    BY <1>10 DEF RhOnAck, RhTakes, Handing, envVars, workerVars
  <2>2. Msgs(outqueue) = {Head(outqueue)} \cup Msgs(outqueue')
    BY <1>a, <2>1, MsgsFacts
  <2>3. \A j \in Jobs : HasReady(outqueue', j) <=> HasReady(outqueue, j)
    BY <2>1, <2>2 DEF HasReady, IsReady
  <2>4. OnceReady(outqueue')
    BY <1>a, <2>1, OutTail
  <2> QED
    BY <2>1, <2>3, <2>4, SpotFrame DEF Submitted, Ready
<1>11. ASSUME RhOnReady PROVE SpotInv'
  <2>1. PICK j \in Jobs : j = Head(outqueue).job
    BY <1>11, <1>a, OutHead DEF RhOnReady, RhTakes
  <2>2. /\ outqueue # <<>> /\ outqueue' = Tail(outqueue) /\ IsReady(Head(outqueue), j)
        /\ UNCHANGED <<taskqueue, inqueue, wjob, wpc, value, lost, client>>
        /\ rhPc = "poll"
    BY <1>11, <2>1 DEF RhOnReady, RhTakes, envVars, workerVars, jobVars, IsReady
  <2>3. Msgs(outqueue) = {Head(outqueue)} \cup Msgs(outqueue')
    BY <1>a, <2>2, MsgsFacts
  <2>4. OnceReady(outqueue') /\ ~HasReady(outqueue', j) /\ HasReady(outqueue, j)
    BY <1>a, <2>2, <2>3, OutTail DEF HasReady
  <2>5. \A k \in Jobs : k # j => (HasReady(outqueue', k) <=> HasReady(outqueue, k))
    BY <2>2, <2>3 DEF HasReady, IsReady
  <2>6. /\ ~Has(taskqueue, j) /\ ~Has(inqueue, j) /\ ~Taken(j) /\ Submitted(j)
        /\ rhJob = NoJob
    BY <2>2, <2>4 DEF SpotInv, Spots, HandsFree, Handing
  <2>7. \A k \in Jobs : /\ Taken(k)' <=> Taken(k)
                        /\ Submitted(k)' = Submitted(k) /\ Ready(k)' = Ready(k)
    BY <2>2 DEF Taken, Submitted, Ready
  <2>8. CASE rhPc' \in Handing /\ rhJob' = j
    <3>2. Spots'
      BY <2>2, <2>4, <2>5, <2>6, <2>7, <2>8 DEF SpotInv, Spots
    <3>3. Kept'
      BY <2>2, <2>5, <2>6, <2>7, <2>8, PoolAssumption DEF SpotInv, Kept, Somewhere
    <3> QED
      BY <2>2, <2>4, <2>8, <3>2, <3>3 DEF SpotInv, TakenOnce, HandsFree
  <2>9. CASE j \notin cache /\ rhJob' = NoJob
    <3>2. Ready(j)
      BY <2>6, <2>9 DEF Cached
    <3>3. Spots'
      BY <2>2, <2>4, <2>5, <2>6, <2>7, <2>9, PoolAssumption DEF SpotInv, Spots
    <3>4. Kept'
      BY <2>2, <2>5, <2>6, <2>7, <2>9, <3>2 DEF SpotInv, Kept, Somewhere
    <3> QED
      BY <2>2, <2>4, <2>6, <2>9, <3>3, <3>4 DEF SpotInv, TakenOnce, HandsFree
  <2> QED
    BY <1>11, <2>1, <2>8, <2>9 DEF RhOnReady, Lookup, Handing
<1>12. ASSUME RhSet PROVE SpotInv'
  <2>1. /\ rhPc = "set" /\ rhJob' = NoJob /\ Set(rhJob, "result")
        /\ UNCHANGED <<taskqueue, inqueue, outqueue, wjob, wpc, client, lost>>
    BY <1>12 DEF RhSet, queueVars, workerVars, envVars
  <2>2. rhJob \in Jobs
    BY <2>1 DEF TypeOK, RhType
  <2>3. \A k \in Jobs : Ready(k)' <=> Ready(k) \/ k = rhJob
    <3>1. \A k \in Jobs : value'[k] = IF k = rhJob THEN "result" ELSE value[k]
      BY <2>1, <2>2 DEF Set, TypeOK, JobType
    <3> QED
      BY <3>1 DEF Ready
  <2> QED
    BY <2>1, <2>3, SpotDone
<1>14. ASSUME RhCreditFails PROVE SpotInv'
  <2>1. /\ rhPc = "credit" /\ rhOwner \notin counters /\ rhJob' = NoJob
        /\ UNCHANGED <<taskqueue, inqueue, outqueue, wjob, wpc, client, lost, value>>
    BY <1>14 DEF RhCreditFails, queueVars, workerVars, jobVars, envVars
  <2>2. Ready(rhJob) \/ lost[rhJob] # "no"
    BY <2>1 DEF PendInv
  <2> QED
    BY <2>1, <2>2, SpotDone DEF Ready
<1>15. ASSUME RhCredit PROVE SpotInv'
  <2>1. /\ rhPc = "credit" /\ rhJob \in Jobs
        /\ UNCHANGED <<taskqueue, inqueue, outqueue, wjob, wpc, client, lost, value>>
        /\ \/ rhPc' \in Handing /\ rhJob' = rhJob
           \/ rhJob \notin cache /\ rhJob' = NoJob
    BY <1>15 DEF RhCredit, Lookup, Handing, queueVars, workerVars, jobVars, envVars,
       TypeOK, RhType
  <2>2. CASE rhPc' \in Handing /\ rhJob' = rhJob
    BY <1>a, <2>1, <2>2, SpotFrame DEF Submitted, Ready
  <2>3. CASE rhJob \notin cache /\ rhJob' = NoJob
    <3>1. Submitted(rhJob)
      BY <2>1 DEF SpotInv, Spots
    <3>2. Ready(rhJob)
      BY <2>1, <2>3, <3>1 DEF Cached
    <3> QED
      BY <2>1, <2>3, <3>2, SpotDone DEF Ready
  <2> QED
    BY <2>1, <2>2, <2>3
<1>13. ASSUME RhFinish PROVE SpotInv'
  <2>1. /\ cache = {} \/ outqueue = <<>>
        /\ outqueue' = <<>> /\ rhPc = "poll" /\ rhPc' = "done"
        /\ UNCHANGED <<taskqueue, inqueue, wjob, wpc, rhJob, value, lost, client>>
    BY <1>13 DEF RhFinish, envVars, jobVars, workerVars
  <2>2. OnceReady(outqueue') /\ \A j : ~HasReady(outqueue', j)
    BY <2>1 DEF OnceReady, HasReady, Msgs
  <2>3. \A k \in Jobs : /\ Taken(k)' <=> Taken(k)
                        /\ Submitted(k)' = Submitted(k) /\ Ready(k)' = Ready(k)
    BY <2>1 DEF Taken, Submitted, Ready
  <2>4. Spots'
    BY <2>1, <2>2, <2>3 DEF SpotInv, Spots
  <2>5. Kept'
    <3>1. CASE cache = {}
      BY <2>3, <3>1 DEF Cached, Kept
    <3>2. CASE outqueue = <<>>
      BY <2>1, <2>3, <3>2 DEF SpotInv, Kept, Somewhere
    <3> QED
      BY <2>1, <3>1, <3>2
  <2> QED
    BY <2>1, <2>2, <2>4, <2>5 DEF SpotInv, TakenOnce, HandsFree, Handing
<1> QED
  BY <1>1, <1>2, <1>3, <1>4, <1>5, <1>6, <1>7, <1>8, <1>9, <1>10, <1>11, <1>12,
     <1>13, <1>14, <1>15, CalmOrBusy DEF Busy

\* A job leaves the cache only when it is finished.
LEMMA CachedNext == TypeOK /\ ProcInv /\ Cached /\ [Next]_vars => Cached'
<1> SUFFICES ASSUME TypeOK, ProcInv, Cached, [Next]_vars PROVE Cached'
  OBVIOUS
<1>1. CASE Calm
  BY <1>1 DEF Calm, JobsCalm, Cached
<1>2. ASSUME NEW j \in Jobs, ApplySubmit(j) PROVE Cached'
  <2>1. /\ cache' = cache \cup {j} /\ value' = value
        /\ \A k \in Jobs : k # j => Submitted(k)' = Submitted(k)
    BY <1>2 DEF ApplySubmit, Submitted, TypeOK, EnvType
  <2> QED
    BY <2>1 DEF Cached, Ready
<1>3. CASE UNCHANGED <<cache, value, client>>
  BY <1>3 DEF Cached, Ready, Submitted
<1>4. ASSUME NEW j, NEW v, v # "unset", Set(j, v), client' = client, j \in Jobs
      PROVE  Cached'
  <2>1. /\ \A k \in Jobs : value'[k] = IF k = j THEN v ELSE value[k]
        /\ \A k \in Jobs : k # j /\ k \in cache => k \in cache'
    BY <1>4 DEF Set, TypeOK, JobType
  <2> QED
    BY <1>4, <2>1 DEF Cached, Ready, Submitted
<1>5. ASSUME ThPut PROVE Cached'
  <2>1. \/ UNCHANGED <<cache, value>>
        \/ TaskJob \in cache /\ Set(TaskJob, "putfail")
    BY <1>5 DEF ThPut
  <2>2. client' = client
    BY <1>5 DEF ThPut, envVars
  <2> QED
    BY <2>1, <2>2, <1>3, <1>4 DEF TypeOK, JobType
<1>6. ASSUME RhOnAck PROVE Cached'
  <2>1. /\ UNCHANGED <<value, client>>
        /\ \A k \in cache : ~Ready(k) => k \in cache'
    BY <1>6 DEF RhOnAck, Ack, envVars
  <2> QED
    BY <2>1 DEF Cached, Ready, Submitted
<1>7. ASSUME RhSet PROVE Cached'
  <2>1. /\ Set(rhJob, "result") /\ rhJob \in Jobs /\ client' = client
    BY <1>7 DEF RhSet, envVars, TypeOK, RhType
  <2> QED
    BY <2>1, <1>4
<1>8. ASSUME \/ Close \/ ThTellResultHandler \/ ThTellWorkers
             \/ RhOnReady \/ RhCredit \/ RhCreditFails \/ RhFinish
      PROVE  Cached'
  BY <1>3, <1>8 DEF Close, ThTellResultHandler, ThTellWorkers, RhOnReady, RhCredit,
     RhCreditFails, RhFinish, envVars, jobVars
<1>9. ASSUME NEW p \in Pids, WorkerReceive(p) \/ Putting(p) PROVE Cached'
  BY <1>3, <1>9, PuttingKeeps DEF WorkerReceive, envVars, jobVars
<1> QED
  BY <1>1, <1>2, <1>5, <1>6, <1>7, <1>8, <1>9, CalmOrBusy DEF Busy

\* The places of a job as SpotInv counts them: none, or one.
LEMMA SpotPlaces ==
  ASSUME TypeOK, Life, SpotInv, NEW j \in Jobs
  PROVE  /\ Cardinality(Places(j)) <= 1
         /\ Somewhere(j) => Places(j) # {}
<1> DEFINE tq == {<<"taskqueue", i>> : i \in {k \in DOMAIN taskqueue : taskqueue[k] = Task(j)}}
           iq == {<<"inqueue", i>> : i \in {k \in DOMAIN inqueue : inqueue[k] = Task(j)}}
           wk == {<<"worker", p>> : p \in {q \in Pids : wjob[q] = j}}
           rd == {<<"ready", i>> : i \in {k \in DOMAIN outqueue :
                    outqueue[k].type = "READY" /\ outqueue[k].job = j}}
           rh == IF rhJob = j THEN {<<"handler", 0>>} ELSE {}
<1>1. Places(j) = tq \cup iq \cup wk \cup rd \cup rh
  BY DEF Places
<1>2. /\ tq # {} <=> Has(taskqueue, j)
      /\ iq # {} <=> Has(inqueue, j)
  BY DEF Has
<1>3. wk # {} <=> Taken(j)
  BY DEF Taken
<1>4. rd # {} <=> HasReady(outqueue, j)
  BY DEF HasReady, IsReady, Msgs
<1>5. rh # {} <=> rhJob = j
  OBVIOUS
<1>6. \A x, y \in tq : x = y
  BY TaskDistinct DEF Life, Once
<1>7. \A x, y \in iq : x = y
  BY TaskDistinct DEF Life, Once
<1>8. \A x, y \in wk : x = y
  BY PoolAssumption DEF SpotInv, TakenOnce
<1>9. \A x, y \in rd : x = y
  BY DEF SpotInv, OnceReady
<1>10. \A x, y \in rh : x = y
  OBVIOUS
<1> HIDE DEF tq, iq, wk, rd, rh
<1>11. \A x, y \in Places(j) : x = y
  <2>1. /\ Has(taskqueue, j) => iq = {} /\ wk = {} /\ rd = {} /\ rh = {}
        /\ Has(inqueue, j) => wk = {} /\ rd = {} /\ rh = {}
        /\ Taken(j) => rd = {} /\ rh = {}
        /\ HasReady(outqueue, j) => rh = {}
    BY <1>2, <1>3, <1>4, <1>5 DEF SpotInv, Spots
  <2>2. CASE tq # {}
    <3>1. Places(j) = tq
      BY <1>1, <1>2, <2>1, <2>2
    <3> QED
      BY <3>1, <1>6
  <2>3. CASE tq = {} /\ iq # {}
    <3>1. Places(j) = iq
      BY <1>1, <1>2, <2>1, <2>3
    <3> QED
      BY <3>1, <1>7
  <2>4. CASE tq = {} /\ iq = {} /\ wk # {}
    <3>1. Places(j) = wk
      BY <1>1, <1>3, <2>1, <2>4
    <3> QED
      BY <3>1, <1>8
  <2>5. CASE tq = {} /\ iq = {} /\ wk = {} /\ rd # {}
    <3>1. Places(j) = rd
      BY <1>1, <1>4, <2>1, <2>5
    <3> QED
      BY <3>1, <1>9
  <2>6. CASE tq = {} /\ iq = {} /\ wk = {} /\ rd = {}
    <3>1. Places(j) = rh
      BY <1>1, <2>6
    <3> QED
      BY <3>1, <1>10
  <2> QED
    BY <2>2, <2>3, <2>4, <2>5, <2>6
<1>12. Cardinality(Places(j)) <= 1
  <2>1. CASE Places(j) = {}
    BY <2>1, FS_EmptySet
  <2>2. CASE Places(j) # {}
    <3>1. PICK x : x \in Places(j)
      BY <2>2
    <3>2. Places(j) = {x}
      BY <3>1, <1>11
    <3>3. Cardinality({x}) = 1
      BY FS_Singleton
    <3> QED
      BY <3>2, <3>3
  <2> QED
    BY <2>1, <2>2
<1>13. Somewhere(j) => Places(j) # {}
  BY <1>1, <1>2, <1>3, <1>4, <1>5 DEF Somewhere
<1> QED
  BY <1>12, <1>13

SpotAll == Cached /\ SpotInv

\* It holds initially: no job is submitted.
LEMMA SpotInit == Init => SpotAll
<1> SUFFICES ASSUME Init PROVE SpotAll
  OBVIOUS
<1>1. taskqueue = <<>> /\ inqueue = <<>> /\ outqueue = <<>>
  BY DEF Init
<1>2. OnceReady(outqueue) /\ \A j : ~HasReady(outqueue, j)
  BY <1>1 DEF OnceReady, HasReady, Msgs
<1>3. \A j : ~Has(taskqueue, j) /\ ~Has(inqueue, j)
  BY <1>1 DEF Has
<1>4. /\ \A p \in Pids : wjob[p] = NoJob
      /\ rhJob = NoJob /\ rhPc = "poll"
      /\ \A j \in Jobs : client[j] = "new"
  BY DEF Init
<1>5. \A j \in Jobs : ~Taken(j) /\ ~Submitted(j)
  BY <1>4, PoolAssumption DEF Taken, Submitted
<1> QED
  BY <1>2, <1>3, <1>4, <1>5, PoolAssumption
  DEF SpotAll, Cached, SpotInv, Spots, TakenOnce, HandsFree, Kept

(***************************************************************************)
(* ACKs and READYs come from the worker that has the job                   *)
(***************************************************************************)

Holds(j, p) == wjob[p] = j \/ ReadyBy(outqueue, j, p)

\* A job that runs, or has run, was acknowledged, or will be before its READY is
\* handled.
RunAcked ==
  /\ \A p \in Pids : wpc[p] = "run" => HasAck(outqueue, wjob[p]) \/ wjob[p] \in accepted
  /\ \A j \in Jobs : HasReady(outqueue, j) => HasAck(outqueue, j) \/ j \in accepted

\* An ACK comes from the worker that holds the job or has sent its READY, and
\* so does a job's worker pid.
AckBacked ==
  \A m \in Msgs(outqueue) : m.type = "ACK" => Holds(m.job, m.pid)
KnownBacked ==
  \A j \in Jobs, p \in Pids : Known(j) /\ Holds(j, p) => workerPid[j] = p

\* A job has its worker pid from the moment it is accepted, and until then it
\* is in the cache.
AcceptedKnown == \A j \in Jobs : j \in accepted <=> Known(j)
Unacked == \A j \in Jobs : Submitted(j) /\ ~Known(j) => j \in cache

AckInv ==
  /\ AckOrder(outqueue) /\ RunAcked /\ AckBacked /\ KnownBacked
  /\ AcceptedKnown /\ Unacked

\* Only one worker has a job.
LEMMA HoldsOnce ==
  ASSUME SpotInv, NEW j \in Jobs, NEW p \in Pids, NEW q \in Pids,
         Holds(j, p), Holds(j, q)
  PROVE  p = q
<1>1. CASE wjob[p] = j /\ wjob[q] = j
  BY <1>1, PoolAssumption DEF SpotInv, TakenOnce
<1>2. CASE ReadyBy(outqueue, j, p) /\ ReadyBy(outqueue, j, q)
  <2>1. PICK i \in DOMAIN outqueue : IsReady(outqueue[i], j) /\ outqueue[i].pid = p
    BY <1>2 DEF ReadyBy, Msgs
  <2>2. PICK k \in DOMAIN outqueue : IsReady(outqueue[k], j) /\ outqueue[k].pid = q
    BY <1>2 DEF ReadyBy, Msgs
  <2> QED
    BY <2>1, <2>2 DEF SpotInv, OnceReady, IsReady
<1>3. \A r \in Pids : wjob[r] = j => ~HasReady(outqueue, j)
  BY DEF SpotInv, Spots, Taken
<1>4. \A r \in Pids : ReadyBy(outqueue, j, r) => HasReady(outqueue, j)
  BY DEF ReadyBy, HasReady
<1> QED
  BY <1>1, <1>2, <1>3, <1>4 DEF Holds

\* Whatever leaves workers, messages and acceptance alone keeps AckInv.
LEMMA AckFrame ==
  ASSUME AckInv, UNCHANGED <<accepted, workerPid, wjob>>,
         \A m : m.type \in {"ACK", "READY"} =>
           (m \in Msgs(outqueue') <=> m \in Msgs(outqueue)),
         AckOrder(outqueue'),
         \A p \in Pids : wpc'[p] = "run" => wpc[p] = "run",
         \A j \in Jobs : Submitted(j)' = Submitted(j),
         \A j \in cache \ cache' : j \in accepted
  PROVE  AckInv'
<1>1. /\ \A j : HasReady(outqueue', j) <=> HasReady(outqueue, j)
      /\ \A j, p : ReadyBy(outqueue', j, p) <=> ReadyBy(outqueue, j, p)
  BY DEF HasReady, ReadyBy, IsReady
<1>2. \A j : HasAck(outqueue', j) <=> HasAck(outqueue, j)
  BY HasIsMsg DEF IsAck
<1>3. \A j, p : Holds(j, p)' <=> Holds(j, p)
  BY <1>1 DEF Holds
<1>4. RunAcked'
  BY <1>1, <1>2 DEF AckInv, RunAcked
<1>5. AckBacked'
  BY <1>3 DEF AckInv, AckBacked
<1>6. KnownBacked' /\ AcceptedKnown'
  BY <1>3 DEF AckInv, KnownBacked, AcceptedKnown, Known
<1>7. Unacked'
  BY DEF AckInv, Unacked, AcceptedKnown, Known
<1> QED
  BY <1>4, <1>5, <1>6, <1>7 DEF AckInv

\* Every step preserves AckInv.
LEMMA AckNext ==
  TypeOK /\ ProcInv /\ Life /\ SpotInv /\ AckInv /\ [Next]_vars => AckInv'
<1> SUFFICES ASSUME TypeOK, ProcInv, Life, SpotInv, AckInv, [Next]_vars
             PROVE  AckInv'
  OBVIOUS
<1>a. /\ taskqueue \in Seq(TaskMsgs) /\ inqueue \in Seq(TaskMsgs)
      /\ outqueue \in Seq(OutMsgs) /\ AckOrder(outqueue)
  BY DEF TypeOK, QueueType, AckInv
<1>1. CASE Calm
  <2>1. /\ \A m : m.type \in {"ACK", "READY"} =>
             (m \in Msgs(outqueue') <=> m \in Msgs(outqueue))
        /\ AckOrder(outqueue')
    BY <1>1, <1>a, OutCalmKeeps DEF Calm
  <2> QED
    BY <1>1, <2>1, AckFrame DEF Calm, JobsCalm, WorkersCalm
<1>2. ASSUME NEW j \in Jobs, ApplySubmit(j) PROVE AckInv'
  <2>1. /\ UNCHANGED <<outqueue, wjob, wpc, accepted, workerPid>>
        /\ cache' = cache \cup {j}
        /\ \A k \in Jobs : k # j => Submitted(k)' = Submitted(k)
    BY <1>2 DEF ApplySubmit, Submitted, TypeOK, EnvType, workerVars
  <2>2. Unacked'
    BY <2>1 DEF AckInv, Unacked, Known
  <2> QED
    BY <2>1, <2>2 DEF AckInv, RunAcked, AckBacked, KnownBacked, AcceptedKnown,
       Holds, Known
<1>3. ASSUME UNCHANGED <<outqueue, wjob, wpc, accepted, workerPid, cache, client>>
      PROVE  AckInv'
  BY <1>3, <1>a, AckFrame DEF Submitted
<1>4. ASSUME Close \/ ThTellWorkers \/ RhCredit \/ RhCreditFails PROVE AckInv'
  BY <1>3, <1>4 DEF Close, ThTellWorkers, RhCredit, RhCreditFails, workerVars, jobVars,
     queueVars, envVars
<1>5. ASSUME ThPut PROVE AckInv'
  <2>1. /\ UNCHANGED <<outqueue, wjob, wpc, accepted, workerPid, client>>
        /\ \A j \in cache \ cache' : j \in accepted
    BY <1>5 DEF ThPut, Set, workerVars, envVars
  <2> QED
    BY <2>1, <1>a, AckFrame DEF Submitted
<1>6. ASSUME ThTellResultHandler PROVE AckInv'
  <2> DEFINE x == Msg("NONE", NoJob, NoPid)
  <2>1. /\ outqueue' = Append(outqueue, x) /\ x.type = "NONE"
        /\ UNCHANGED <<wjob, wpc, accepted, workerPid, cache, client>>
    BY <1>6 DEF ThTellResultHandler, workerVars, envVars, jobVars, Msg
  <2> HIDE DEF x
  <2>2. Msgs(outqueue') = Msgs(outqueue) \cup {x} /\ AckOrder(outqueue')
    BY <1>a, <2>1, MsgsFacts, OutAppend
  <2> QED
    BY <2>1, <2>2, AckFrame DEF Submitted
<1>7. ASSUME NEW p \in Pids, WorkerReceive(p) PROVE AckInv'
  <2>1. /\ inqueue # <<>> /\ wpc[p] = "recv"
        /\ UNCHANGED <<outqueue, accepted, workerPid, cache, client>>
    BY <1>7 DEF WorkerReceive, jobVars, envVars
  <2>2. CASE Head(inqueue) = Sentinel
    <3>1. wjob' = wjob /\ \A q \in Pids : wpc'[q] = "run" => wpc[q] = "run"
      BY <1>7, <2>2 DEF WorkerReceive, TypeOK, WorkerType
    <3> QED
      BY <1>a, <2>1, <3>1, AckFrame DEF Submitted
  <2>3. CASE Head(inqueue) # Sentinel
    <3>1. PICK j \in Jobs : Head(inqueue) = Task(j)
      BY <2>1, <2>3, <1>a, TaskHead, TaskQueue
    <3>2. wpc' = [wpc EXCEPT ![p] = "got"] /\ wjob' = [wjob EXCEPT ![p] = j]
      BY <1>7, <2>3, <3>1, TaskDistinct DEF WorkerReceive
    <3>3. /\ \A q \in Pids : wjob'[q] = IF q = p THEN j ELSE wjob[q]
          /\ \A q \in Pids : wpc'[q] = IF q = p THEN "got" ELSE wpc[q]
      BY <3>2 DEF TypeOK, WorkerType
    <3>4. Has(inqueue, j)
      BY <1>a, <2>1, <3>1, TaskQueue
    <3>5. ~Known(j) /\ wjob[p] = NoJob
      BY <2>1, <3>4 DEF Life, Stages, SpotInv, HandsFree, Empty
    <3>6. \A k \in Jobs, q \in Pids : Holds(k, q)' <=> Holds(k, q) \/ (k = j /\ q = p)
      BY <2>1, <3>3, <3>5, PoolAssumption DEF Holds
    <3>7. RunAcked'
      BY <2>1, <3>3 DEF AckInv, RunAcked
    <3>8. AckBacked'
      <4>1. \A m \in Msgs(outqueue) : m.type = "ACK" => m.job \in Jobs /\ m.pid \in Pids
        BY <1>a, MsgsFacts DEF OutMsgs
      <4> QED
        BY <2>1, <3>6, <4>1 DEF AckInv, AckBacked
    <3>9. KnownBacked' /\ AcceptedKnown' /\ Unacked'
      BY <2>1, <3>5, <3>6 DEF AckInv, KnownBacked, AcceptedKnown, Unacked, Known,
         Submitted
    <3> QED
      BY <1>a, <2>1, <3>7, <3>8, <3>9 DEF AckInv
  <2> QED
    BY <2>2, <2>3
<1>8. ASSUME NEW p \in Pids, Putting(p), Acks(p) PROVE AckInv'
  <2>1. PICK j \in Jobs : j = wjob[p]
    BY <1>8 DEF Acks, TypeOK, WorkerType
  <2>2. PICK m : m = Msg("ACK", j, p)
    OBVIOUS
  <2>3. m.type = "ACK" /\ m.job = j /\ m.pid = p
    BY <2>2 DEF Msg
  <2>4. /\ outqueue' = Append(outqueue, m)
        /\ UNCHANGED <<wjob, accepted, workerPid, cache, client>>
        /\ \A q \in Pids : q # p => wpc'[q] = wpc[q]
    BY <1>8, <2>1, <2>2, PuttingKeeps DEF Acks, jobVars, TypeOK, WorkerType
  <2>5. Msgs(outqueue') = Msgs(outqueue) \cup {m}
    BY <1>a, <2>4, MsgsFacts
  <2>6. Taken(j)
    BY <2>1 DEF Taken
  <2>7. ~HasReady(outqueue, j)
    BY <2>6 DEF SpotInv, Spots
  <2>8. AckOrder(outqueue')
    BY <1>a, <2>3, <2>4, <2>7, OutAppend
  <2>9. \A k : /\ HasReady(outqueue', k) <=> HasReady(outqueue, k)
               /\ HasAck(outqueue', k) <=> HasAck(outqueue, k) \/ k = j
               /\ \A q : Holds(k, q)' <=> Holds(k, q)
    BY <2>3, <2>4, <2>5, HasIsMsg DEF HasReady, Holds, ReadyBy, IsReady, IsAck
  <2>10. RunAcked'
    BY <2>1, <2>4, <2>9 DEF AckInv, RunAcked
  <2>11. AckBacked'
    BY <2>1, <2>3, <2>5, <2>9 DEF AckInv, AckBacked, Holds
  <2>12. KnownBacked' /\ AcceptedKnown' /\ Unacked'
    BY <2>4, <2>9 DEF AckInv, KnownBacked, AcceptedKnown, Unacked, Known, Submitted
  <2> QED
    BY <2>8, <2>10, <2>11, <2>12 DEF AckInv
<1>9. ASSUME NEW p \in Pids, Putting(p), Readies(p) PROVE AckInv'
  <2>1. PICK j \in Jobs : j = wjob[p]
    BY <1>9 DEF Readies, TypeOK, WorkerType
  <2>2. PICK m : m = Msg("READY", j, p)
    OBVIOUS
  <2>3. m.type = "READY" /\ m.job = j /\ m.pid = p
    BY <2>2 DEF Msg
  <2>4. /\ outqueue' = Append(outqueue, m) /\ wpc[p] = "run"
        /\ UNCHANGED <<accepted, workerPid, cache, client>>
        /\ \A q \in Pids : wjob'[q] = IF q = p THEN NoJob ELSE wjob[q]
        /\ wpc'[p] # "run" /\ \A q \in Pids : q # p => wpc'[q] = wpc[q]
    BY <1>9, <2>1, <2>2, PuttingKeeps DEF Readies, jobVars, TypeOK, WorkerType
  <2>5. Msgs(outqueue') = Msgs(outqueue) \cup {m}
    BY <1>a, <2>4, MsgsFacts
  <2>6. AckOrder(outqueue')
    BY <1>a, <2>3, <2>4, OutAppend
  <2>7. \A k : /\ HasReady(outqueue', k) <=> HasReady(outqueue, k) \/ k = j
               /\ HasAck(outqueue', k) <=> HasAck(outqueue, k)
               /\ \A q : ReadyBy(outqueue', k, q) <=> ReadyBy(outqueue, k, q)
                                                      \/ (k = j /\ q = p)
    BY <2>3, <2>5, HasIsMsg DEF HasReady, ReadyBy, IsReady, IsAck
  <2>8. \A k \in Jobs, q \in Pids : Holds(k, q)' <=> Holds(k, q)
    BY <2>1, <2>4, <2>7, PoolAssumption DEF Holds
  <2>9. RunAcked'
    BY <2>1, <2>4, <2>7 DEF AckInv, RunAcked
  <2>10. AckBacked'
    <3>1. \A x \in Msgs(outqueue) : x.type = "ACK" => x.job \in Jobs /\ x.pid \in Pids
      BY <1>a, MsgsFacts DEF OutMsgs
    <3> QED
      BY <2>3, <2>5, <2>8, <3>1 DEF AckInv, AckBacked
  <2>11. KnownBacked' /\ AcceptedKnown' /\ Unacked'
    BY <2>4, <2>8 DEF AckInv, KnownBacked, AcceptedKnown, Unacked, Known, Submitted
  <2> QED
    BY <2>6, <2>9, <2>10, <2>11 DEF AckInv
<1>10. ASSUME RhOnAck PROVE AckInv'
  <2>1. PICK j \in Jobs, p \in Pids : j = Head(outqueue).job /\ p = Head(outqueue).pid
    BY <1>10, <1>a, OutHead DEF RhOnAck, RhTakes
  <2>2. /\ outqueue # <<>> /\ outqueue' = Tail(outqueue) /\ IsAck(Head(outqueue), j)
        /\ UNCHANGED <<wjob, wpc, value, client>>
    BY <1>10, <2>1 DEF RhOnAck, RhTakes, envVars, workerVars, IsAck
  <2>3. Msgs(outqueue) = {Head(outqueue)} \cup Msgs(outqueue') /\ AckOrder(outqueue')
    BY <1>a, <2>2, MsgsFacts, OutTail
  <2>4. HasAck(outqueue, j)
    BY <2>2, <2>3, HasIsMsg
  <2>5. ~Known(j) /\ Submitted(j)
    BY <2>4 DEF Life, Stages
  <2>6. Holds(j, p)
    BY <2>1, <2>2, <2>3 DEF AckInv, AckBacked, IsAck
  <2>7. j \in cache
    BY <2>5 DEF AckInv, Unacked
  <2>8. /\ accepted' = accepted \cup {j}
        /\ workerPid' = [workerPid EXCEPT ![j] = p]
        /\ \A k \in Jobs : k # j => (k \in cache' <=> k \in cache)
    BY <1>10, <2>1, <2>7 DEF RhOnAck, Ack
  <2>9. \A k \in Jobs : workerPid'[k] = IF k = j THEN p ELSE workerPid[k]
    BY <2>8 DEF TypeOK, JobType
  <2>10. \A k : /\ HasReady(outqueue', k) <=> HasReady(outqueue, k)
                /\ HasAck(outqueue, k) => HasAck(outqueue', k) \/ k = j
                /\ \A q : Holds(k, q)' <=> Holds(k, q)
    BY <2>2, <2>3, HasIsMsg DEF HasReady, Holds, ReadyBy, IsReady, IsAck
  <2>11. RunAcked'
    BY <2>2, <2>8, <2>10 DEF AckInv, RunAcked
  <2>12. AckBacked'
    BY <2>3, <2>10 DEF AckInv, AckBacked
  <2>13. KnownBacked'
    <3>1. ASSUME NEW k \in Jobs, NEW q \in Pids, Known(k)', Holds(k, q)'
          PROVE  workerPid'[k] = q
      <4>1. CASE k = j
        BY <3>1, <4>1, <2>6, <2>9, <2>10, HoldsOnce
      <4>2. CASE k # j
        BY <3>1, <4>2, <2>9, <2>10 DEF AckInv, KnownBacked, Known
      <4> QED
        BY <4>1, <4>2
    <3> QED
      BY <3>1 DEF KnownBacked
  <2>14. p # NoPid
    BY DEF Pids, NoPid
  <2>15. AcceptedKnown' /\ Unacked'
    BY <2>2, <2>8, <2>9, <2>14 DEF AckInv, AcceptedKnown, Unacked, Known, Submitted
  <2> QED
    BY <2>3, <2>11, <2>12, <2>13, <2>15 DEF AckInv
<1>11. ASSUME RhOnReady PROVE AckInv'
  <2>1. PICK j \in Jobs : j = Head(outqueue).job
    BY <1>11, <1>a, OutHead DEF RhOnReady, RhTakes
  <2>2. /\ outqueue # <<>> /\ outqueue' = Tail(outqueue) /\ IsReady(Head(outqueue), j)
        /\ UNCHANGED <<wjob, wpc, accepted, workerPid, cache, client>>
    BY <1>11, <2>1 DEF RhOnReady, RhTakes, envVars, workerVars, jobVars, IsReady
  <2>3. Msgs(outqueue) = {Head(outqueue)} \cup Msgs(outqueue') /\ AckOrder(outqueue')
    BY <1>a, <2>2, MsgsFacts, OutTail
  <2>4. ~HasAck(outqueue, j)
    BY <1>a, <2>2, OutTail
  <2>5. \A k : /\ HasReady(outqueue', k) => HasReady(outqueue, k)
               /\ HasAck(outqueue', k) <=> HasAck(outqueue, k)
               /\ \A q : Holds(k, q)' => Holds(k, q)
               /\ \A q : Holds(k, q) => Holds(k, q)' \/ k = j
    BY <2>2, <2>3, HasIsMsg DEF HasReady, Holds, ReadyBy, IsReady, IsAck
  <2>6. RunAcked'
    BY <2>2, <2>5 DEF AckInv, RunAcked
  <2>7. AckBacked'
    <3>1. \A m \in Msgs(outqueue') : m.type = "ACK" => m.job # j
      BY <2>3, <2>4, HasIsMsg DEF IsAck
    <3> QED
      BY <2>3, <2>5, <3>1 DEF AckInv, AckBacked
  <2>8. KnownBacked' /\ AcceptedKnown' /\ Unacked'
    BY <2>2, <2>5 DEF AckInv, KnownBacked, AcceptedKnown, Unacked, Known, Submitted
  <2> QED
    BY <2>3, <2>6, <2>7, <2>8 DEF AckInv
<1>12. ASSUME RhSet PROVE AckInv'
  <2>1. /\ UNCHANGED <<outqueue, wjob, wpc, accepted, workerPid, client>>
        /\ \A j \in cache \ cache' : j \in accepted
    BY <1>12 DEF RhSet, Set, workerVars, envVars, queueVars
  <2> QED
    BY <2>1, <1>a, AckFrame DEF Submitted
<1>13. ASSUME RhFinish PROVE AckInv'
  <2>1. /\ cache = {} \/ outqueue = <<>>
        /\ outqueue' = <<>>
        /\ UNCHANGED <<wjob, wpc, client, cache, accepted, workerPid>>
    BY <1>13 DEF RhFinish, envVars, jobVars, workerVars
  <2>2. CASE outqueue = <<>>
    BY <2>1, <2>2, <1>3
  <2>3. CASE cache = {}
    <3>1. Msgs(outqueue') = {} /\ AckOrder(outqueue')
      BY <2>1 DEF AckOrder, Msgs
    <3>2. \A k : ~HasReady(outqueue', k) /\ (\A q : Holds(k, q)' => Holds(k, q))
      BY <2>1, <3>1 DEF HasReady, Holds, ReadyBy
    <3>3. RunAcked'
      <4>1. ASSUME NEW p \in Pids, wpc[p] = "run" PROVE wjob[p] \in accepted
        <5>1. wjob[p] \in Jobs /\ Taken(wjob[p])
          BY <4>1 DEF TypeOK, WorkerType, Taken
        <5>2. Submitted(wjob[p])
          BY <5>1 DEF SpotInv, Spots
        <5> QED
          BY <2>3, <5>1, <5>2 DEF AckInv, Unacked, AcceptedKnown
      <4> QED
        BY <2>1, <3>2, <4>1 DEF RunAcked
    <3>4. AckBacked'
      BY <3>1 DEF AckBacked
    <3>5. KnownBacked' /\ AcceptedKnown' /\ Unacked'
      BY <2>1, <3>2 DEF AckInv, KnownBacked, AcceptedKnown, Unacked, Known, Submitted
    <3> QED
      BY <3>1, <3>3, <3>4, <3>5 DEF AckInv
  <2> QED
    BY <2>1, <2>2, <2>3
<1> QED
  BY <1>1, <1>2, <1>4, <1>5, <1>6, <1>7, <1>8, <1>9, <1>10, <1>11, <1>12, <1>13,
     CalmOrBusy DEF Busy

(***************************************************************************)
(* Workers leave after their results were read                             *)
(*                                                                         *)
(* EnsuredConsumed is not inductive: a worker leaves when its counter      *)
(* reaches its number of results, so every one of them must have been      *)
(* credited to that worker or be still unread.  CreditInv counts them.     *)
(***************************************************************************)

\* What the ResultHandler has recorded for a worker is a job of that worker.
TaskKnown == \A p \in Pids : workerTask[p] \in Jobs => workerPid[workerTask[p]] = p

\* The results of a worker that are unread, the one the ResultHandler is about to
\* credit to it, and the one it has not counted yet.
Unread(p) == {j \in Jobs : ReadyBy(outqueue, j, p)}
Due(p) == IF rhPc = "credit" /\ rhOwner = p THEN 1 ELSE 0
Uncounted(p) == IF wpc[p] = "sent" THEN 1 ELSE 0
Counted ==
  \A p \in Pids \ fired : wpc[p] # "exited" =>
    counter[p] + Due(p) + Cardinality(Unread(p)) <= completed[p] + Uncounted(p)
Leaving == {"death", "dying", "exited"}
EnsuredRead ==
  \A p \in ensured \ fired : wpc[p] \in Leaving /\ Unread(p) = {}

CreditInv == TaskKnown /\ Counted /\ EnsuredRead

\* Only finitely many jobs have been submitted.
SubmittedJobs == {j \in Jobs : Submitted(j)}
SubmittedFinite == IsFiniteSet(SubmittedJobs)

\* Jobs are submitted one at a time.
LEMMA FiniteNext ==
  TypeOK /\ ProcInv /\ SubmittedFinite /\ [Next]_vars => SubmittedFinite'
<1> SUFFICES ASSUME TypeOK, ProcInv, SubmittedFinite, [Next]_vars
             PROVE  SubmittedFinite'
  OBVIOUS
<1>1. CASE \A j \in Jobs : Submitted(j)' = Submitted(j)
  <2>1. SubmittedJobs' = SubmittedJobs
    BY <1>1 DEF SubmittedJobs
  <2> QED
    BY <2>1 DEF SubmittedFinite
<1>2. ASSUME NEW j \in Jobs, ApplySubmit(j) PROVE SubmittedFinite'
  <2>1. SubmittedJobs' = SubmittedJobs \cup {j}
    BY <1>2 DEF ApplySubmit, SubmittedJobs, Submitted, TypeOK, EnvType
  <2> QED
    BY <2>1, FS_AddElement DEF SubmittedFinite
<1>3. CASE Calm
  BY <1>1, <1>3 DEF Calm, JobsCalm
<1>4. ASSUME UNCHANGED client PROVE SubmittedFinite'
  BY <1>1, <1>4 DEF Submitted
<1>5. ASSUME NEW p \in Pids, WorkerReceive(p) \/ Putting(p)
      PROVE  SubmittedFinite'
  BY <1>4, <1>5, PuttingKeeps DEF WorkerReceive, envVars
<1>6. ASSUME \/ Close \/ ThPut \/ ThTellResultHandler \/ ThTellWorkers
             \/ RhOnAck \/ RhOnReady \/ RhCredit \/ RhCreditFails \/ RhSet \/ RhFinish
      PROVE  SubmittedFinite'
  BY <1>4, <1>6 DEF Close, ThPut, ThTellResultHandler, ThTellWorkers, RhOnAck,
     RhOnReady, RhCredit, RhCreditFails, RhSet, RhFinish, envVars
<1> QED
  BY <1>2, <1>3, <1>5, <1>6, CalmOrBusy DEF Busy

\* Only a worker that sends a result adds one to the unread ones.
LEMMA ReadysRead ==
  ASSUME TypeOK, ProcInv, [Next]_vars, \A p \in Pids : ~Readies(p)
  PROVE  \A j, p : ReadyBy(outqueue', j, p) => ReadyBy(outqueue, j, p)
<1>a. outqueue \in Seq(OutMsgs)
  BY DEF TypeOK, QueueType
<1>1. CASE Calm
  BY <1>1, OutCalmKeeps DEF Calm
<1>2. CASE outqueue' = outqueue
  BY <1>2
<1>3. CASE outqueue # <<>> /\ outqueue' = Tail(outqueue)
  BY <1>3, <1>a, MsgsFacts DEF ReadyBy
<1>4. CASE outqueue' = <<>>
  BY <1>4 DEF ReadyBy, Msgs
<1>5. ASSUME NEW m, outqueue' = Append(outqueue, m), m.type # "READY"
      PROVE  \A j, p : ReadyBy(outqueue', j, p) => ReadyBy(outqueue, j, p)
  <2>1. Msgs(outqueue') = Msgs(outqueue) \cup {m}
    BY <1>a, <1>5, MsgsFacts
  <2> QED
    BY <1>5, <2>1 DEF ReadyBy, IsReady
<1>6. ASSUME NEW j \in Jobs, ApplySubmit(j) PROVE outqueue' = outqueue
  BY <1>6 DEF ApplySubmit
<1>7. ASSUME Close \/ ThPut \/ ThTellWorkers \/ RhCredit \/ RhCreditFails \/ RhSet
      PROVE  outqueue' = outqueue
  BY <1>7 DEF Close, ThPut, ThTellWorkers, RhCredit, RhCreditFails, RhSet, queueVars
<1>8. ASSUME ThTellResultHandler
      PROVE  \E m : m.type # "READY" /\ outqueue' = Append(outqueue, m)
  <2>1. Msg("NONE", NoJob, NoPid).type # "READY"
    BY DEF Msg
  <2> QED
    BY <1>8, <2>1 DEF ThTellResultHandler
<1>9. ASSUME NEW p \in Pids, Acks(p)
      PROVE  \E m : m.type # "READY" /\ outqueue' = Append(outqueue, m)
  <2>1. Msg("ACK", wjob[p], p).type # "READY"
    BY DEF Msg
  <2> QED
    BY <1>9, <2>1 DEF Acks
<1>10. ASSUME NEW p \in Pids, WorkerReceive(p) PROVE outqueue' = outqueue
  BY <1>10 DEF WorkerReceive
<1>11. ASSUME RhOnAck \/ RhOnReady PROVE outqueue # <<>> /\ outqueue' = Tail(outqueue)
  BY <1>11 DEF RhOnAck, RhOnReady, RhTakes
<1>12. ASSUME RhFinish PROVE outqueue' = <<>>
  BY <1>12 DEF RhFinish
<1> QED
  BY <1>1, <1>2, <1>3, <1>4, <1>5, <1>6, <1>7, <1>8, <1>9, <1>10, <1>11, <1>12,
     CalmOrBusy DEF Busy

\* A worker's unread results are finitely many.
LEMMA UnreadFinite ==
  ASSUME SpotInv, SubmittedFinite, NEW p \in Pids
  PROVE  IsFiniteSet(Unread(p)) /\ Cardinality(Unread(p)) \in Nat
<1>1. Unread(p) \subseteq SubmittedJobs
  BY DEF SpotInv, Spots, Unread, SubmittedJobs, ReadyBy, HasReady
<1> QED
  BY <1>1, FS_Subset, FS_CardinalityType DEF SubmittedFinite

\* Workers that no signal interrupted move forwards, and none counts a result.
Moves ==
  /\ fired \subseteq fired'
  /\ \A p \in Pids \ fired' :
       /\ wpc'[p] # "exited" => wpc[p] # "exited" /\ (wpc[p] = "sent" => wpc'[p] = "sent")
       /\ wpc[p] \in Leaving => wpc'[p] \in Leaving

\* on_ready clears the entry of a worker in worker_tasks, nothing sets one; and it
\* takes no READY of a worker that is to be credited.
Forgets ==
  \A p \in Pids : workerTask'[p] = workerTask[p] \/ workerTask'[p] = NoJob
Waits == rhPc' = "credit" => rhPc = "credit" /\ rhOwner' = rhOwner

\* The steps that read results or move a worker without counting, and keep the
\* books, preserve CreditInv ...
LEMMA CreditFrame ==
  ASSUME TypeOK, SpotInv, SubmittedFinite, CreditInv,
         UNCHANGED <<counter, completed, ensured, workerPid>>, Moves, Forgets, Waits,
         \A j, p : ReadyBy(outqueue', j, p) => ReadyBy(outqueue, j, p)
  PROVE  CreditInv'
<1>1. TaskKnown'
  BY PoolAssumption DEF Forgets, CreditInv, TaskKnown
<1>2. \A p \in Pids : Unread(p)' \subseteq Unread(p)
  BY DEF Unread
<1>3. \A p \in Pids : /\ Cardinality(Unread(p)) \in Nat
                      /\ Cardinality(Unread(p)') \in Nat
                      /\ Cardinality(Unread(p)') <= Cardinality(Unread(p))
  BY <1>2, UnreadFinite, FS_Subset, FS_CardinalityType
<1>4. Counted'
  <2> SUFFICES ASSUME NEW p \in Pids \ fired', wpc'[p] # "exited"
               PROVE  counter'[p] + Due(p)' + Cardinality(Unread(p)')
                        <= completed'[p] + Uncounted(p)'
    BY DEF Counted
  <2>1. /\ p \in Pids \ fired /\ wpc[p] # "exited"
        /\ wpc[p] = "sent" => wpc'[p] = "sent"
    BY DEF Moves
  <2>2. counter[p] + Due(p) + Cardinality(Unread(p)) <= completed[p] + Uncounted(p)
    BY <2>1 DEF CreditInv, Counted
  <2>3. Uncounted(p) \in Nat /\ Uncounted(p)' \in Nat /\ Uncounted(p) <= Uncounted(p)'
    BY <2>1 DEF Uncounted
  <2>4. counter[p] \in Nat /\ completed[p] \in Nat
    BY DEF TypeOK, CreditType, WorkerType
  <2>5. Due(p) \in Nat /\ Due(p)' \in Nat /\ Due(p)' <= Due(p)
    BY DEF Due, Waits
  <2> QED
    BY <1>3, <2>2, <2>3, <2>4, <2>5
<1>5. EnsuredRead'
  BY <1>2 DEF CreditInv, EnsuredRead, Moves, TypeOK, WorkerType
<1> QED
  BY <1>1, <1>4, <1>5 DEF CreditInv

\* ... and so does the worker that sends a result, which it has not counted yet,
\* unless it dies of it.
LEMMA CreditSend ==
  ASSUME TypeOK, SpotInv, SubmittedFinite, CreditInv,
         UNCHANGED <<counter, completed, ensured, workerPid>>, Moves, Forgets, Waits,
         NEW p \in Pids, Readies(p)
  PROVE  CreditInv'
<1>0. /\ counter \in [Pids -> Nat] /\ completed \in [Pids -> Nat]
      /\ outqueue \in Seq(OutMsgs) /\ wpc \in [Pids -> {"new", "unstarted", "exited"} \cup Alive]
      /\ ensured \subseteq Pids
  BY DEF TypeOK, CreditType, WorkerType, QueueType
<1>1. PICK j \in Jobs : j = wjob[p]
  BY DEF Readies, TypeOK, WorkerType
<1>2. PICK m : m = Msg("READY", j, p)
  OBVIOUS
<1>3. m.type = "READY" /\ m.job = j /\ m.pid = p
  BY <1>2 DEF Msg
<1>4. /\ outqueue' = Append(outqueue, m) /\ wpc[p] = "run"
      /\ wpc'[p] \in {"sent", "exited"}
      /\ \A q \in Pids : q # p => wpc'[q] = wpc[q]
  BY <1>0, <1>1, <1>2 DEF Readies
<1>5. Msgs(outqueue') = Msgs(outqueue) \cup {m}
  BY <1>0, <1>4, MsgsFacts
<1>6. /\ Unread(p)' = Unread(p) \cup {j}
      /\ \A q \in Pids : q # p => Unread(q)' = Unread(q)
  BY <1>3, <1>5 DEF Unread, ReadyBy, IsReady
<1>7. /\ Cardinality(Unread(p)) \in Nat /\ Cardinality(Unread(p)') \in Nat
      /\ Cardinality(Unread(p)') <= Cardinality(Unread(p)) + 1
  <2>1. IsFiniteSet(Unread(p)) /\ Cardinality(Unread(p)) \in Nat
    BY UnreadFinite
  <2>2. Cardinality(Unread(p) \cup {j}) =
          IF j \in Unread(p) THEN Cardinality(Unread(p)) ELSE Cardinality(Unread(p)) + 1
    BY <2>1, FS_AddElement
  <2> QED
    BY <1>6, <2>1, <2>2
<1>8. Counted'
  <2> SUFFICES ASSUME NEW q \in Pids \ fired', wpc'[q] # "exited"
               PROVE  counter[q] + Due(q)' + Cardinality(Unread(q)')
                        <= completed[q] + Uncounted(q)'
    BY DEF Counted
  <2>1. wpc[q] # "exited" /\ q \notin fired
    BY <1>4 DEF Moves
  <2>2. counter[q] + Due(q) + Cardinality(Unread(q)) <= completed[q] + Uncounted(q)
    BY <2>1 DEF CreditInv, Counted
  <2>3. Due(q) \in Nat /\ Due(q)' \in Nat /\ Due(q)' <= Due(q)
    BY DEF Due, Waits
  <2>4. Cardinality(Unread(q)) \in Nat
    BY UnreadFinite
  <2>5. CASE q = p
    <3>1. Uncounted(q) = 0 /\ Uncounted(q)' = 1
      BY <1>4, <2>5 DEF Uncounted
    <3> QED
      BY <1>7, <2>2, <2>3, <2>5, <3>1, <1>0
  <2>6. CASE q # p
    <3>1. Uncounted(q)' = Uncounted(q) /\ Unread(q)' = Unread(q) /\ Uncounted(q) \in Nat
      BY <1>4, <1>6, <2>6 DEF Uncounted
    <3>2. Cardinality(Unread(q)') = Cardinality(Unread(q))
      BY <3>1
    <3> QED
      BY <2>2, <2>3, <2>4, <3>1, <3>2, <1>0
  <2> QED
    BY <2>5, <2>6
<1>9. EnsuredRead'
  BY <1>0, <1>4, <1>6 DEF CreditInv, EnsuredRead, Leaving, Moves
<1>10. TaskKnown'
  BY PoolAssumption DEF Forgets, CreditInv, TaskKnown
<1> QED
  BY <1>8, <1>9, <1>10 DEF CreditInv

\* TERM_SIGNAL moves its worker on, which does not count any more, and so do a put
\* and a kill.
LEMMA PuttingMoves ==
  ASSUME TypeOK, NEW p \in Pids, Putting(p)
  PROVE  Moves
<1>1. CASE WorkerAck(p) \/ WorkerReady(p) \/ WorkerDeath(p)
  BY <1>1 DEF WorkerAck, WorkerReady, WorkerDeath, Moves, Leaving, TypeOK, WorkerType
<1>2. CASE Killed(p) /\ fired \subseteq fired'
  BY <1>2 DEF Killed, Moves, Leaving, TypeOK, WorkerType
<1>3. CASE TermEffect(p)
  BY <1>2, <1>3 DEF TermEffect, Moves, Leaving, Serving, Alive, TypeOK, WorkerType
<1> QED
  BY <1>1, <1>2, <1>3 DEF Putting, WorkerCrash, TerminateJob, ShrinkTerminate

\* Every step preserves CreditInv.
LEMMA CreditNext ==
  /\ TypeOK /\ ProcInv /\ Life /\ SpotInv /\ AckInv /\ SubmittedFinite /\ CreditInv
  /\ [Next]_vars
  => CreditInv'
<1> SUFFICES ASSUME TypeOK, ProcInv, Life, SpotInv, AckInv, SubmittedFinite, CreditInv,
                    [Next]_vars
             PROVE  CreditInv'
  OBVIOUS
<1>0. /\ counter \in [Pids -> Nat] /\ completed \in [Pids -> Nat]
      /\ wpc \in [Pids -> {"new", "unstarted", "exited"} \cup Alive]
      /\ outqueue \in Seq(OutMsgs)
      /\ ensured \subseteq Pids
  BY DEF TypeOK, CreditType, WorkerType, QueueType
<1>a. /\ UNCHANGED workerTask => Forgets
      /\ UNCHANGED <<rhPc, rhOwner>> => Waits
      /\ UNCHANGED <<wpc, fired>> => Moves
  BY DEF Forgets, Waits, Moves
<1>b. \A p \in Pids : Due(p) \in Nat /\ Uncounted(p) \in Nat
  BY DEF Due, Uncounted
<1>c. ASSUME UNCHANGED <<counter, completed, ensured, workerPid>>, Moves, Forgets, Waits
      PROVE  CreditInv'
  <2>1. CASE \E p \in Pids : Readies(p)
    BY <1>c, <2>1, CreditSend
  <2>2. CASE \A p \in Pids : ~Readies(p)
    BY <1>c, <2>2, ReadysRead, CreditFrame
  <2> QED
    BY <2>1, <2>2
<1>d. ASSUME UNCHANGED <<workerVars, workerPid, counter>>, Forgets, Waits
      PROVE  CreditInv'
  BY <1>a, <1>c, <1>d DEF workerVars
<1>1. CASE UNCHANGED vars
  BY <1>1, <1>a, <1>d DEF vars, workerVars, creditVars, jobVars, threadVars, rhVars
<1>2. ASSUME NEW j \in Jobs, \/ ApplyCheck(j) \/ ApplySubmit(j) \/ RhMarkLost(j)
                             \/ SupMarkLost(j) \/ LostTimeout(j)
      PROVE  CreditInv'
  BY <1>2, <1>a, <1>d DEF ApplyCheck, ApplySubmit, RhMarkLost, SupMarkLost,
     LostTimeout, creditVars, jobVars, threadVars, rhVars
<1>3. ASSUME \/ Close \/ Grow \/ ShrinkBegin \/ ThPut \/ ThTellResultHandler
             \/ ThTellWorkers
      PROVE  CreditInv'
  BY <1>3, <1>a, <1>d DEF Close, Grow, ShrinkBegin, ThPut, ThTellResultHandler,
     ThTellWorkers, creditVars, jobVars, threadVars, rhVars
<1>4. ASSUME \/ RhSet \/ RhOnSentinel \/ RhOnPart \/ RhCreditFails \/ RhPollTimeout
             \/ RhJoinCrash \/ RhFinish
      PROVE  CreditInv'
  <2>1. Waits
    BY <1>4 DEF RhSet, RhOnSentinel, RhOnPart, RhCreditFails, RhPollTimeout,
       RhJoinCrash, RhFinish, RhNext, Waits
  <2>2. UNCHANGED <<workerVars, workerPid, counter, workerTask>>
    BY <1>4 DEF RhSet, RhOnSentinel, RhOnPart, RhCreditFails, RhPollTimeout,
       RhJoinCrash, RhFinish, creditVars, jobVars
  <2> QED
    BY <2>1, <2>2, <1>a, <1>d
<1>5. ASSUME SupWake \/ SupCheck \/ SupAssertFails \/ SupRegister \/ SupRelease
      PROVE  CreditInv'
  BY <1>5, <1>a, <1>d DEF SupWake, SupCheck, SupAssertFails, SupRegister,
     SupRelease, creditVars, jobVars, rhVars
<1>6. ASSUME RhJoin \/ SupJoin PROVE CreditInv'
  <2>1. Drop(Exited) /\ UNCHANGED <<workerVars, workerPid, counter>> /\ Waits
    BY <1>6 DEF RhJoin, SupJoin, Waits, rhVars
  <2>2. Forgets
    BY <2>1 DEF Drop, Forgets
  <2> QED
    BY <2>1, <2>2, <1>d
<1>8. ASSUME NEW p \in Pids, Putting(p) PROVE CreditInv'
  <2>1. UNCHANGED <<counter, completed, ensured, workerPid, workerTask, rhPc, rhOwner>>
    BY <1>8, PuttingKeeps DEF Putting, WorkerAck, WorkerReady, WorkerDeath, WorkerCrash,
       TerminateJob, ShrinkTerminate, creditVars, jobVars, rhVars
  <2> QED
    BY <1>8, <2>1, <1>a, <1>c, PuttingMoves
<1>9. ASSUME ShrinkTerminate PROVE CreditInv'
  <2>1. shrinking \in Pids /\ Putting(shrinking)
    BY <1>9 DEF ShrinkTerminate, Putting, TypeOK, EnvType, NoPid
  <2> QED
    BY <2>1, <1>8
<1>10. ASSUME NEW p \in Pids, NEW pc, wpc' = [wpc EXCEPT ![p] = pc],
              UNCHANGED <<fired, counter, completed, ensured, workerPid, workerTask>>, Waits,
              \/ pc = "exited"
              \/ wpc[p] \notin {"sent", "death", "dying", "exited"}
       PROVE  CreditInv'
  <2>1. Moves
    BY <1>10, <1>0 DEF Moves, Leaving
  <2> QED
    BY <1>10, <2>1, <1>a, <1>c
<1>11. ASSUME NEW p \in Pids, \/ WorkerLock(p) \/ WorkerReceive(p) \/ WorkerAbandon(p)
                              \/ WorkerEnsureTimeout(p) \/ WorkerExit(p)
       PROVE  CreditInv'
  <2>1. PICK pc : /\ wpc' = [wpc EXCEPT ![p] = pc]
                  /\ pc = "exited" \/ wpc[p] \notin {"sent", "death", "dying", "exited"}
    BY <1>11 DEF WorkerLock, WorkerReceive, WorkerAbandon, WorkerEnsureTimeout, WorkerExit
  <2>2. UNCHANGED <<fired, counter, completed, ensured, workerPid, workerTask, rhPc, rhOwner>>
    BY <1>11 DEF WorkerLock, WorkerReceive, WorkerAbandon, WorkerEnsureTimeout, WorkerExit,
       creditVars, jobVars, threadVars, rhVars
  <2> QED
    BY <2>1, <2>2, <1>a, <1>10
<1>13. ASSUME RhOnDeath PROVE CreditInv'
  <2>1. PICK p \in Pids : p = Head(outqueue).pid
    BY <1>13, <1>0, OutHead DEF RhOnDeath, RhTakes
  <2>2. /\ wpc' = [wpc EXCEPT ![p] = "exited"] \/ wpc' = wpc
        /\ UNCHANGED <<fired, counter, completed, ensured, workerPid, workerTask>>
        /\ Waits
    BY <1>13, <2>1 DEF RhOnDeath, RhNext, Waits, creditVars, jobVars
  <2>3. CASE wpc' = wpc
    BY <2>2, <2>3, <1>a, <1>c
  <2> QED
    BY <2>2, <2>3, <1>10
<1>14. ASSUME SupAppend PROVE CreditInv'
  <2>1. PICK p \in Pids : wpc[p] = "new" /\ wpc' = [wpc EXCEPT ![p] = "unstarted"]
    BY <1>14 DEF SupAppend
  <2>2. UNCHANGED <<fired, counter, completed, ensured, workerPid, workerTask, rhPc, rhOwner>>
    BY <1>14 DEF SupAppend, creditVars, jobVars, rhVars
  <2> QED
    BY <2>1, <2>2, <1>a, <1>10
<1>15. ASSUME SupStart PROVE CreditInv'
  <2>1. supPid \in Pids /\ wpc[supPid] = "unstarted" /\ wpc' = [wpc EXCEPT ![supPid] = "idle"]
    BY <1>15 DEF SupStart, ProcInv, Starting, TypeOK, SupType
  <2>2. UNCHANGED <<fired, counter, completed, ensured, workerPid, workerTask, rhPc, rhOwner>>
    BY <1>15 DEF SupStart, creditVars, jobVars, rhVars
  <2> QED
    BY <2>1, <2>2, <1>a, <1>10
<1>16. ASSUME NEW p \in Pids, WorkerEnsure(p) PROVE CreditInv'
  <2>1. /\ wpc[p] = "ensure" /\ counter[p] >= completed[p]
        /\ ensured' = ensured \cup {p}
        /\ \A q \in Pids : wpc'[q] = IF q = p THEN "death" ELSE wpc[q]
        /\ UNCHANGED <<fired, counter, completed, workerPid, workerTask, outqueue, rhPc,
                       rhOwner>>
    BY <1>16, <1>0 DEF WorkerEnsure, creditVars, jobVars, queueVars, threadVars, rhVars
  <2>3. \A q \in Pids : Unread(q)' = Unread(q) /\ Due(q)' = Due(q)
    BY <2>1 DEF Unread, Due
  <2>4. p \notin fired => Unread(p) = {}
    <3>1. SUFFICES ASSUME p \notin fired PROVE Unread(p) = {}
      OBVIOUS
    <3>a. counter[p] + Due(p) + Cardinality(Unread(p)) <= completed[p] + Uncounted(p)
      BY <2>1, <3>1 DEF CreditInv, Counted
    <3>b. Uncounted(p) = 0 /\ completed[p] \in Nat
      BY <2>1, <1>0 DEF Uncounted
    <3>2. counter[p] + Due(p) + Cardinality(Unread(p)) <= completed[p]
      BY <3>a, <3>b
    <3>3. IsFiniteSet(Unread(p)) /\ Cardinality(Unread(p)) = 0
      BY <3>2, <2>1, <1>0, <1>b, UnreadFinite
    <3> QED
      BY <3>3, FS_EmptySet
  <2>5. EnsuredRead'
    BY <1>0, <2>1, <2>3, <2>4 DEF CreditInv, EnsuredRead, Leaving
  <2>6. TaskKnown'
    BY <2>1 DEF CreditInv, TaskKnown
  <2>7. Counted'
    BY <2>1, <2>3 DEF CreditInv, Counted, Uncounted
  <2> QED
    BY <2>5, <2>6, <2>7 DEF CreditInv
<1>17. ASSUME NEW p \in Pids, WorkerCount(p) PROVE CreditInv'
  <2>1. /\ wpc[p] = "sent" /\ wpc'[p] \in {"idle", "ensure"}
        /\ \A q \in Pids : q # p => wpc'[q] = wpc[q]
        /\ \A q \in Pids : completed'[q] = IF q = p THEN completed[q] + 1 ELSE completed[q]
        /\ UNCHANGED <<fired, ensured, counter, workerPid, workerTask, outqueue, rhPc,
                       rhOwner>>
    BY <1>17, <1>0 DEF WorkerCount, creditVars, jobVars, queueVars, threadVars, rhVars
  <2>2. \A q \in Pids : Unread(q)' = Unread(q) /\ Due(q)' = Due(q)
    BY <2>1 DEF Unread, Due
  <2>3. Counted'
    <3> SUFFICES ASSUME NEW q \in Pids \ fired, wpc'[q] # "exited"
                 PROVE  counter[q] + Due(q) + Cardinality(Unread(q))
                          <= completed'[q] + Uncounted(q)'
      BY <2>1, <2>2 DEF Counted
    <3>1. wpc[q] # "exited"
      BY <2>1
    <3>2. counter[q] + Due(q) + Cardinality(Unread(q)) <= completed[q] + Uncounted(q)
      BY <3>1 DEF CreditInv, Counted
    <3>3. completed[q] + Uncounted(q) = completed'[q] + Uncounted(q)'
      <4>1. completed[q] \in Nat
        BY <1>0
      <4>2. CASE q = p
        <5>1. Uncounted(q) = 1 /\ Uncounted(q)' = 0 /\ completed'[q] = completed[q] + 1
          BY <2>1, <4>2 DEF Uncounted
        <5> QED
          BY <4>1, <5>1
      <4>3. CASE q # p
        <5>1. Uncounted(q) = Uncounted(q)' /\ completed'[q] = completed[q]
          BY <2>1, <4>3 DEF Uncounted
        <5> QED
          BY <5>1
      <4> QED
        BY <4>2, <4>3
    <3> QED
      BY <3>2, <3>3
  <2>4. EnsuredRead' /\ TaskKnown'
    BY <1>0, <2>1, <2>2 DEF CreditInv, EnsuredRead, TaskKnown, Leaving
  <2> QED
    BY <2>3, <2>4 DEF CreditInv
<1>19. ASSUME RhOnAck PROVE CreditInv'
  <2>1. PICK j \in Jobs, p \in Pids : j = Head(outqueue).job /\ p = Head(outqueue).pid
    BY <1>19, <1>0, OutHead DEF RhOnAck, RhTakes
  <2>2. /\ outqueue # <<>> /\ IsAck(Head(outqueue), j)
        /\ workerTask' = [workerTask EXCEPT ![p] = j]
        /\ UNCHANGED <<wpc, fired, ensured, completed, counter>>
        /\ outqueue' = Tail(outqueue) /\ rhPc = "poll" /\ rhPc' # "credit"
    BY <1>19, <2>1 DEF RhOnAck, RhTakes, RhNext, workerVars, IsAck
  <2>3. HasAck(outqueue, j)
    BY <1>0, <2>2, MsgsFacts, HasIsMsg
  <2>4. ~Known(j) /\ Submitted(j)
    BY <2>3 DEF Life, Stages
  <2>5. j \in cache
    BY <2>4 DEF AckInv, Unacked
  <2>6. workerPid' = [workerPid EXCEPT ![j] = p]
    BY <1>19, <2>1, <2>5 DEF RhOnAck, Ack
  <2>7. /\ \A k \in Jobs : workerPid'[k] = IF k = j THEN p ELSE workerPid[k]
        /\ \A q \in Pids : workerTask'[q] = IF q = p THEN j ELSE workerTask[q]
    BY <2>2, <2>6 DEF TypeOK, JobType, CreditType
  <2>8. \A q \in Pids : workerTask[q] # j
    <3>1. \A q \in Pids : q # NoPid
      BY DEF Pids, NoPid
    <3> QED
      BY <2>4, <3>1 DEF CreditInv, TaskKnown, Known
  <2>9. TaskKnown'
    BY <2>7, <2>8 DEF CreditInv, TaskKnown
  <2>10. \A q \in Pids : Unread(q)' \subseteq Unread(q) /\ Due(q)' = Due(q)
    BY <1>0, <2>2, MsgsFacts DEF Unread, ReadyBy, Due
  <2>11. Counted'
    <3> SUFFICES ASSUME NEW q \in Pids \ fired, wpc[q] # "exited"
                 PROVE  counter[q] + Due(q)' + Cardinality(Unread(q)')
                          <= completed[q] + Uncounted(q)'
      BY <2>2 DEF Counted
    <3>1. Uncounted(q)' = Uncounted(q) /\ Due(q)' = Due(q) /\ Due(q) \in Nat
      BY <1>b, <2>2, <2>10 DEF Uncounted
    <3>2. /\ Cardinality(Unread(q)) \in Nat /\ Cardinality(Unread(q)') \in Nat
          /\ Cardinality(Unread(q)') <= Cardinality(Unread(q))
      BY <2>10, UnreadFinite, FS_Subset, FS_CardinalityType
    <3>3. counter[q] + Due(q) + Cardinality(Unread(q)) <= completed[q] + Uncounted(q)
      BY DEF CreditInv, Counted
    <3>4. Uncounted(q) \in Nat
      BY DEF Uncounted
    <3> QED
      BY <3>1, <3>2, <3>3, <3>4, <1>0
  <2>12. EnsuredRead'
    BY <1>0, <2>2, <2>10 DEF CreditInv, EnsuredRead
  <2> QED
    BY <2>9, <2>11, <2>12 DEF CreditInv
<1>20. ASSUME RhOnReady PROVE CreditInv'
  <2>1. PICK j \in Jobs, p \in Pids : j = Head(outqueue).job /\ p = Head(outqueue).pid
    BY <1>20, <1>0, OutHead DEF RhOnReady, RhTakes
  <2>2. /\ outqueue # <<>> /\ outqueue' = Tail(outqueue) /\ IsReady(Head(outqueue), j)
        /\ Head(outqueue).pid = p
        /\ \A q \in Pids : workerTask'[q] = IF workerTask[q] = j THEN NoJob ELSE workerTask[q]
        /\ rhPc = "poll"
        /\ rhPc' = "credit" => rhOwner' \in Pids /\ workerTask[rhOwner'] = j
        /\ UNCHANGED <<wpc, fired, ensured, completed, counter, workerPid>>
    BY <1>20, <2>1 DEF RhOnReady, RhTakes, Lookup, RhNext, workerVars, jobVars, IsReady
  <2>3. Msgs(outqueue) = {Head(outqueue)} \cup Msgs(outqueue')
        /\ ~HasReady(outqueue', j)
    BY <1>0, <2>2, MsgsFacts, OutTail DEF SpotInv
  <2>4. ReadyBy(outqueue, j, p)
    BY <2>2, <2>3 DEF ReadyBy
  <2>5. /\ j \in Unread(p) /\ Unread(p)' = Unread(p) \ {j}
        /\ \A q \in Pids : Unread(q)' \subseteq Unread(q)
    BY <2>2, <2>3, <2>4 DEF Unread, ReadyBy, HasReady, IsReady
  <2>6. \A q \in Pids : workerTask[q] = j => q = p
    <3>1. ASSUME NEW q \in Pids, workerTask[q] = j PROVE q = p
      <4>1. workerPid[j] = q /\ Known(j)
        BY <3>1 DEF CreditInv, TaskKnown, Known, Pids, NoPid
      <4>2. workerPid[j] = p
        BY <2>4, <4>1 DEF AckInv, KnownBacked, Holds
      <4> QED
        BY <4>1, <4>2
    <3> QED
      BY <3>1
  <2>7. Due(p)' \in {0, 1} /\ \A q \in Pids : Due(q) = 0 /\ (q # p => Due(q)' = 0)
    BY <2>2, <2>6 DEF Due
  <2>8. TaskKnown'
    BY <2>2, PoolAssumption DEF CreditInv, TaskKnown
  <2>9. EnsuredRead'
    BY <1>0, <2>2, <2>5 DEF CreditInv, EnsuredRead
  <2>10. Counted'
    <3> SUFFICES ASSUME NEW q \in Pids \ fired, wpc[q] # "exited"
                 PROVE  counter[q] + Due(q)' + Cardinality(Unread(q)')
                          <= completed[q] + Uncounted(q)'
      BY <2>2 DEF Counted
    <3>1. Uncounted(q)' = Uncounted(q)
      BY <2>2 DEF Uncounted
    <3>2. counter[q] + Due(q) + Cardinality(Unread(q)) <= completed[q] + Uncounted(q)
      BY DEF CreditInv, Counted
    <3>3. Uncounted(q) \in Nat /\ counter[q] \in Nat /\ completed[q] \in Nat
      BY <1>0, <1>b
    <3>4. /\ Cardinality(Unread(q)) \in Nat /\ Cardinality(Unread(q)') \in Nat
          /\ Cardinality(Unread(q)') <= Cardinality(Unread(q))
      BY <2>5, UnreadFinite, FS_Subset, FS_CardinalityType
    <3>5. CASE q = p
      <4>1. Cardinality(Unread(p)') = Cardinality(Unread(p)) - 1
        BY <2>5, UnreadFinite, FS_RemoveElement
      <4>2. Cardinality(Unread(q)') = Cardinality(Unread(q)) - 1
        BY <3>5, <4>1
      <4>3. Due(q) = 0 /\ Due(q)' \in {0, 1}
        BY <2>7, <3>5
      <4> QED
        BY <3>1, <3>2, <3>3, <3>4, <4>2, <4>3
    <3>6. CASE q # p
      BY <2>7, <3>1, <3>2, <3>3, <3>4, <3>6
    <3> QED
      BY <3>5, <3>6
  <2> QED
    BY <2>8, <2>9, <2>10 DEF CreditInv
<1>21. ASSUME RhCredit PROVE CreditInv'
  <2>1. /\ rhPc = "credit" /\ rhPc' # "credit" /\ rhOwner \in Pids
        /\ \/ counter' = counter
           \/ counter' = [counter EXCEPT ![rhOwner] = @ + 1]
        /\ UNCHANGED <<wpc, fired, ensured, completed, workerPid, workerTask, outqueue>>
    BY <1>21 DEF RhCredit, Lookup, RhNext, workerVars, jobVars, queueVars, TypeOK, RhType
  <2>2. \A q \in Pids : Unread(q)' = Unread(q) /\ Uncounted(q)' = Uncounted(q)
    BY <2>1 DEF Unread, Uncounted
  <2>3. \A q \in Pids : counter'[q] + Due(q)' <= counter[q] + Due(q)
                        /\ counter'[q] \in Nat /\ Due(q)' = 0
    BY <1>0, <2>1 DEF Due
  <2>4. Counted'
    <3> SUFFICES ASSUME NEW q \in Pids \ fired, wpc[q] # "exited"
                 PROVE  counter'[q] + Due(q)' + Cardinality(Unread(q))
                          <= completed[q] + Uncounted(q)
      BY <2>1, <2>2 DEF Counted
    <3>1. counter[q] + Due(q) + Cardinality(Unread(q)) <= completed[q] + Uncounted(q)
      BY DEF CreditInv, Counted
    <3>2. /\ Uncounted(q) \in Nat /\ counter[q] \in Nat /\ completed[q] \in Nat
          /\ Due(q) \in Nat /\ Cardinality(Unread(q)) \in Nat
      BY <1>0, <1>b, UnreadFinite
    <3> QED
      BY <2>3, <3>1, <3>2
  <2>5. EnsuredRead' /\ TaskKnown'
    BY <1>0, <2>1, <2>2 DEF CreditInv, EnsuredRead, TaskKnown
  <2> QED
    BY <2>4, <2>5 DEF CreditInv
<1> QED
  BY <1>1, <1>2, <1>3, <1>4, <1>5, <1>6, <1>8, <1>9, <1>11, <1>13, <1>14, <1>15,
     <1>16, <1>17, <1>19, <1>20, <1>21
  DEF Next, ClientStep, WorkerStep, ThStep, RhStep, SupStep, Putting

\* The worker the ResultHandler is about to credit is that of the job it has, and
\* stays so while neither the job nor the worker is forgotten ...
LEMMA PendFrame ==
  ASSUME TypeOK, PendInv, UNCHANGED workerPid, counters \subseteq counters',
         rhPc' = "credit" => UNCHANGED <<rhPc, rhJob, rhOwner>>,
         \A j \in Jobs : (Ready(j) => Ready(j)') /\ (lost'[j] = "no" => lost[j] = "no")
  PROVE  PendInv'
BY DEF PendInv, TypeOK, RhType

\* ... and when the worker is dropped, its unfinished job is flagged or finished.
LEMMA PendDrop ==
  ASSUME TypeOK, Cached, SpotInv, PendInv, NEW gone, Drop(gone), UNCHANGED workerPid,
         rhPc' = "credit" => UNCHANGED <<rhPc, rhJob, rhOwner>>
  PROVE  PendInv'
<1> SUFFICES ASSUME rhPc' = "credit"
             PROVE  /\ workerPid[rhJob] = rhOwner
                    /\ rhOwner \in counters' \/ Ready(rhJob)' \/ lost'[rhJob] # "no"
  BY DEF PendInv
<1>1. /\ rhJob \in Jobs /\ rhOwner \in Pids /\ workerPid[rhJob] = rhOwner
      /\ rhOwner \in counters \/ Ready(rhJob) \/ lost[rhJob] # "no"
  BY DEF PendInv, TypeOK, RhType
<1>2. /\ rhOwner # NoPid
      /\ value \in [Jobs -> Values] /\ lost \in [Jobs -> {"no", "fresh", "elapsed"}]
      /\ ~Ready(rhJob) => rhJob \in cache
  BY <1>1 DEF Pids, NoPid, TypeOK, JobType, SpotInv, Spots, Cached
<1>3. CASE gone = {}
  BY <1>1, <1>3 DEF Drop, Ready
<1>4. CASE gone # {}
  <2> DEFINE orphan == {j \in cache : workerPid[j] \notin (pool \ gone) \cup {NoPid}}
             cut == {j \in orphan : workerPid[j] \in gone \cap terminated}
  <2>1. /\ counters' = counters \ gone
        /\ lost' = [j \in Jobs |-> IF j \in orphan \ cut /\ ~Ready(j) THEN "fresh" ELSE lost[j]]
        /\ value' = [j \in Jobs |-> IF j \in cut /\ ~Ready(j) THEN "terminated" ELSE value[j]]
    BY <1>4 DEF Drop
  <2>2. rhOwner \in gone /\ ~Ready(rhJob) => rhJob \in orphan
    BY <1>1, <1>2
  <2> HIDE DEF orphan, cut
  <2>3. /\ lost'[rhJob] = IF rhJob \in orphan \ cut /\ ~Ready(rhJob) THEN "fresh" ELSE lost[rhJob]
        /\ value'[rhJob] = IF rhJob \in cut /\ ~Ready(rhJob) THEN "terminated" ELSE value[rhJob]
    BY <1>1, <2>1
  <2> QED
    BY <1>1, <2>1, <2>2, <2>3 DEF Ready
<1> QED
  BY <1>3, <1>4

\* Every step preserves PendInv.
LEMMA PendNext ==
  TypeOK /\ Cached /\ SpotInv /\ CreditInv /\ PendInv /\ [Next]_vars => PendInv'
<1> SUFFICES ASSUME TypeOK, Cached, SpotInv, CreditInv, PendInv, [Next]_vars
             PROVE  PendInv'
  OBVIOUS
<1>a. ASSUME rhPc' # "credit" PROVE PendInv'
  BY <1>a DEF PendInv
<1>b. ASSUME UNCHANGED <<rhPc, rhJob, rhOwner, workerPid, counters, value, lost>>
      PROVE  PendInv'
  BY <1>b, PendFrame DEF Ready
<1>c. ASSUME UNCHANGED <<rhPc, rhJob, rhOwner, workerPid, counters, lost>>,
             NEW j \in Jobs, NEW v, v # "unset", Set(j, v)
      PROVE  PendInv'
  <2>1. \A k \in Jobs : Ready(k) => Ready(k)'
    BY <1>c DEF Set, Ready, TypeOK, JobType
  <2> QED
    BY <1>c, <2>1, PendFrame
<1>1. CASE UNCHANGED vars
  BY <1>1, <1>b DEF vars, creditVars, jobVars, threadVars, rhVars
<1>2. ASSUME NEW j \in Jobs, ApplyCheck(j) \/ ApplySubmit(j) PROVE PendInv'
  BY <1>2, <1>b DEF ApplyCheck, ApplySubmit, creditVars, jobVars, threadVars, rhVars
<1>3. ASSUME \/ Close \/ Grow \/ ShrinkBegin \/ ThTellResultHandler \/ ThTellWorkers
             \/ SupWake \/ SupCheck \/ SupAppend \/ SupAssertFails \/ SupStart
             \/ SupRelease
      PROVE  PendInv'
  BY <1>3, <1>b DEF Close, Grow, ShrinkBegin, ThTellResultHandler, ThTellWorkers,
     SupWake, SupCheck, SupAppend, SupAssertFails, SupStart, SupRelease,
     creditVars, jobVars, threadVars, rhVars
<1>4. ASSUME NEW p \in Pids, Putting(p) PROVE PendInv'
  <2>1. UNCHANGED counters
    BY <1>4 DEF Putting, WorkerAck, WorkerReady, WorkerDeath, WorkerCrash, TerminateJob,
       ShrinkTerminate, creditVars
  <2> QED
    BY <1>4, <2>1, <1>b, PuttingKeeps DEF jobVars, rhVars
<1>5. ASSUME ShrinkTerminate PROVE PendInv'
  <2>1. shrinking \in Pids /\ Putting(shrinking)
    BY <1>5 DEF ShrinkTerminate, Putting, TypeOK, EnvType, NoPid
  <2> QED
    BY <2>1, <1>4
<1>6. ASSUME NEW p \in Pids, \/ WorkerLock(p) \/ WorkerReceive(p) \/ WorkerAbandon(p)
                             \/ WorkerCount(p) \/ WorkerEnsure(p)
                             \/ WorkerEnsureTimeout(p) \/ WorkerExit(p)
      PROVE  PendInv'
  BY <1>6, <1>b DEF WorkerLock, WorkerReceive, WorkerAbandon, WorkerCount, WorkerEnsure,
     WorkerEnsureTimeout, WorkerExit, creditVars, jobVars, threadVars, rhVars
<1>7. ASSUME ThPut PROVE PendInv'
  <2>1. /\ UNCHANGED <<rhPc, rhJob, rhOwner, workerPid, counters, lost>>
        /\ UNCHANGED value \/ (TaskJob \in cache /\ Set(TaskJob, "putfail"))
    BY <1>7 DEF ThPut, creditVars, threadVars, rhVars
  <2> QED
    BY <2>1, <1>b, <1>c DEF TypeOK, JobType
<1>8. ASSUME NEW j \in Jobs, RhMarkLost(j) \/ SupMarkLost(j) PROVE PendInv'
  BY <1>8, <1>c DEF RhMarkLost, SupMarkLost, creditVars, threadVars, rhVars
<1>9. ASSUME NEW j \in Jobs, LostTimeout(j) PROVE PendInv'
  <2>1. /\ UNCHANGED <<rhPc, rhJob, rhOwner, workerPid, counters, value>>
        /\ \A k \in Jobs : lost'[k] = "no" => lost[k] = "no"
    BY <1>9 DEF LostTimeout, creditVars, threadVars, rhVars, TypeOK, JobType
  <2> QED
    BY <2>1, PendFrame DEF Ready
<1>10. ASSUME \/ RhOnAck \/ RhOnPart \/ RhCredit \/ RhCreditFails \/ RhSet \/ RhOnDeath
              \/ RhOnSentinel \/ RhPollTimeout \/ RhJoinCrash \/ RhFinish \/ RhJoin
       PROVE  PendInv'
  BY <1>10, <1>a DEF RhOnAck, RhOnPart, RhCredit, Lookup, RhCreditFails, RhSet, RhOnDeath,
     RhOnSentinel, RhPollTimeout, RhJoinCrash, RhFinish, RhJoin, RhNext, RhTakes
<1>11. ASSUME RhOnReady PROVE PendInv'
  <2>1. PICK j \in Jobs : j = Head(outqueue).job
    BY <1>11, OutHead DEF RhOnReady, RhTakes, TypeOK, QueueType
  <2>2. /\ UNCHANGED <<workerPid, counters>>
        /\ rhPc' = "credit" => /\ rhJob' = j
                               /\ rhOwner' \in {p \in Pids : workerTask[p] = j} \cap counters
    BY <1>11, <2>1 DEF RhOnReady, Lookup, RhNext, jobVars
  <2> QED
    BY <2>1, <2>2 DEF PendInv, CreditInv, TaskKnown
<1>12. ASSUME SupJoin PROVE PendInv'
  BY <1>12, PendDrop DEF SupJoin, rhVars
<1>13. ASSUME SupRegister PROVE PendInv'
  <2>1. /\ UNCHANGED <<rhPc, rhJob, rhOwner, workerPid, value, lost>>
        /\ counters \subseteq counters'
    BY <1>13 DEF SupRegister, jobVars, rhVars
  <2> QED
    BY <2>1, PendFrame DEF Ready
<1> QED
  BY <1>1, <1>2, <1>3, <1>4, <1>5, <1>6, <1>7, <1>8, <1>9, <1>10, <1>11, <1>12, <1>13
  DEF Next, ClientStep, WorkerStep, ThStep, RhStep, SupStep, Putting

Books == SpotAll /\ PendInv /\ AckInv /\ SubmittedFinite /\ CreditInv

\* The books are right initially: nothing is submitted, sent or counted.
LEMMA BooksInit == Init => Books
<1> SUFFICES ASSUME Init PROVE Books
  OBVIOUS
<1>1. outqueue = <<>>
  BY DEF Init
<1>2. /\ Msgs(outqueue) = {} /\ AckOrder(outqueue)
      /\ \A j : ~HasReady(outqueue, j) /\ ~HasAck(outqueue, j)
      /\ \A j, p : ~ReadyBy(outqueue, j, p)
  BY <1>1 DEF Msgs, AckOrder, HasReady, HasAck, ReadyBy
<1>3. /\ \A p \in Pids : /\ wjob[p] = NoJob /\ workerTask[p] = NoJob
                         /\ wpc[p] \in {"idle", "new"}
                         /\ counter[p] = 0 /\ completed[p] = 0
      /\ \A j \in Jobs : ~Submitted(j) /\ ~Known(j)
      /\ accepted = {} /\ ensured = {}
  BY DEF Init, Submitted, Known
<1>4. AckInv
  BY <1>2, <1>3, PoolAssumption
  DEF AckInv, RunAcked, AckBacked, KnownBacked, AcceptedKnown, Unacked
<1>5. SubmittedFinite
  <2>1. SubmittedJobs = {}
    BY <1>3 DEF SubmittedJobs
  <2> QED
    BY <2>1, FS_EmptySet DEF SubmittedFinite
<1>6. /\ \A p \in Pids : /\ Unread(p) = {} /\ Cardinality(Unread(p)) = 0
                         /\ Uncounted(p) = 0 /\ Due(p) = 0
      /\ PendInv
  BY <1>2, <1>3, FS_EmptySet DEF Unread, Uncounted, Due, Init, PendInv
<1>7. CreditInv
  BY <1>3, <1>6, PoolAssumption DEF CreditInv, TaskKnown, Counted, EnsuredRead
<1> QED
  BY <1>4, <1>5, <1>6, <1>7, SpotInit DEF Books

\* They stay so.
LEMMA BooksNext == TypeOK /\ LossAll /\ Books /\ [Next]_vars => Books'
BY SpotNext, CachedNext, PendNext, AckNext, FiniteNext, CreditNext DEF LossAll, Books, SpotAll

\* So the books are right throughout.
LEMMA BooksHold == Spec => []Books
BY BooksInit, BooksNext, TypeCorrect, LossesHold, PTL DEF Spec

\* A job is never duplicated and never vanishes on its way through the queues, the
\* workers and the ResultHandler, unless it is flagged as lost with its worker,
\* whatever dies: JobInOnePlace is an invariant.
THEOREM JobsAreInOnePlace == Spec => []JobInOnePlace
<1>1. TypeOK /\ LossAll /\ Books => JobInOnePlace
  BY SpotPlaces DEF LossAll, Books, SpotAll, JobInOnePlace, SpotInv, Kept, Submitted
<1> QED
  BY <1>1, TypeCorrect, LossesHold, BooksHold, PTL

\* A closing pool loses and invents no job, declares no live worker lost, and its
\* workers leave only after the ResultHandler has read their results: ShutdownSafe
\* is an invariant.
THEOREM ClosingIsSafe == Spec => []ShutdownSafe
<1>1. TypeOK /\ Books => EnsuredConsumed
  <2> SUFFICES ASSUME TypeOK, Books, NEW p \in ensured \ fired, NEW i \in DOMAIN outqueue,
                      outqueue[i].type = "READY", outqueue[i].pid = p
               PROVE  FALSE
    BY DEF EnsuredConsumed
  <2>1. outqueue[i] \in Msgs(outqueue) /\ outqueue[i] \in OutMsgs
    BY DEF Msgs, TypeOK, QueueType
  <2>2. outqueue[i].job \in Jobs
    BY <2>1 DEF OutMsgs
  <2>3. outqueue[i].job \in Unread(p)
    BY <2>1, <2>2 DEF Unread, ReadyBy, IsReady
  <2> QED
    BY <2>3 DEF Books, CreditInv, EnsuredRead
<1> QED
  BY <1>1, TypeCorrect, BooksHold, LossesAreReal, JobsAreInOnePlace, PTL DEF ShutdownSafe

(***************************************************************************)
(* No slot of the putlock is lost                                          *)
(*                                                                         *)
(* SlotsConserved is not inductive: whether release is capped, and whether *)
(* a READY frees a slot, depends on which jobs still owe one.  Balance     *)
(* counts those, and the workers that were joined while they had one.      *)
(***************************************************************************)

\* The sentinels and the ResultHandler's shutdown come with close().
ClosedInv ==
  state = "RUN" =>
    /\ ~rhFin /\ rhPc # "join" /\ thPc = "get"
    /\ Sentinel \notin Msgs(taskqueue)
    /\ \A m \in Msgs(outqueue) : m.type # "NONE"

\* The Supervisor has given back all slots before it joins again, and shrink
\* has counted itself before it takes a slot.
RoundInv ==
  /\ supPc \in {"sleep", "join"} => supRel = 0
  /\ shrinking # NoPid => shrinks > 0

\* A job is flagged or given up only when its worker has left the list.
DroppedInv ==
  \A j \in Jobs :
    lost[j] # "no" \/ value[j] \in {"lost", "terminated"} => workerPid[j] \notin pool

\* Only a submitted job has a result.
ReadySubmitted == \A j \in Jobs : Ready(j) => Submitted(j)

\* Whatever closes nothing and sends no sentinel keeps ClosedInv.
LEMMA ClosedFrame ==
  ASSUME ClosedInv, UNCHANGED <<state, rhFin, thPc>>,
         rhPc' = "join" => rhPc = "join" \/ rhFin,
         Sentinel \in Msgs(taskqueue') => Sentinel \in Msgs(taskqueue),
         \A m \in Msgs(outqueue') : m \in Msgs(outqueue) \/ m.type # "NONE"
  PROVE  ClosedInv'
BY DEF ClosedInv

\* Every step preserves ClosedInv.
LEMMA ClosedNext == TypeOK /\ ClosedInv /\ [Next]_vars => ClosedInv'
<1> SUFFICES ASSUME TypeOK, ClosedInv, [Next]_vars PROVE ClosedInv'
  OBVIOUS
<1>a. taskqueue \in Seq(TaskMsgs) /\ outqueue \in Seq(OutMsgs)
  BY DEF TypeOK, QueueType
<1>b. ASSUME UNCHANGED <<state, rhFin, rhPc, thPc, taskqueue, outqueue>> PROVE ClosedInv'
  BY <1>b DEF ClosedInv
<1>c. ASSUME state' = state, rhPc = "join" \/ rhFin \/ thPc # "get" PROVE ClosedInv'
  BY <1>c DEF ClosedInv
<1>d. ASSUME UNCHANGED <<state, rhFin, rhPc, thPc, taskqueue>>,
             NEW j, NEW p, NEW type, type # "NONE",
             outqueue' = outqueue \/ outqueue' = Append(outqueue, Msg(type, j, p))
      PROVE  ClosedInv'
  <2>1. CASE outqueue' = outqueue
    BY <1>d, <2>1, <1>b
  <2>2. CASE outqueue' = Append(outqueue, Msg(type, j, p))
    <3>1. Msgs(outqueue') = Msgs(outqueue) \cup {Msg(type, j, p)}
      BY <1>a, <2>2, MsgsFacts
    <3>2. Msg(type, j, p).type = type
      BY DEF Msg
    <3> QED
      BY <1>d, <3>1, <3>2, ClosedFrame
  <2> QED
    BY <1>d, <2>1, <2>2
<1>e. ASSUME UNCHANGED <<state, rhFin, thPc, taskqueue>>,
             outqueue # <<>>, outqueue' = Tail(outqueue),
             rhPc' \in {"credit", "set", "stuck", RhNext}
      PROVE  ClosedInv'
  <2>1. Msgs(outqueue') \subseteq Msgs(outqueue)
    BY <1>a, <1>e, MsgsFacts
  <2> QED
    BY <1>e, <2>1, ClosedFrame DEF RhNext
<1>1. CASE UNCHANGED vars
  BY <1>1, <1>b DEF vars, envVars, threadVars, rhVars, thVars, queueVars
<1>2. ASSUME NEW j \in Jobs, ApplyCheck(j) \/ LostTimeout(j)
      PROVE  ClosedInv'
  BY <1>2, <1>b DEF ApplyCheck, LostTimeout, envVars, threadVars, rhVars, thVars,
     queueVars
<1>3. ASSUME NEW j \in Jobs, SupMarkLost(j) \/ RhMarkLost(j)
      PROVE  ClosedInv'
  BY <1>3, <1>b DEF SupMarkLost, RhMarkLost, envVars, threadVars, rhVars, thVars,
     queueVars
<1>4. ASSUME Grow \/ ShrinkBegin PROVE ClosedInv'
  BY <1>4, <1>b DEF Grow, ShrinkBegin, threadVars, rhVars, thVars, queueVars
<1>5. ASSUME \/ SupWake \/ SupJoin \/ SupCheck \/ SupAppend \/ SupAssertFails
             \/ SupStart \/ SupRegister \/ SupRelease
      PROVE  ClosedInv'
  BY <1>5, <1>b DEF SupWake, SupJoin, SupCheck, SupAppend, SupAssertFails, SupStart,
     SupRegister, SupRelease, envVars, rhVars, thVars, queueVars
<1>6. ASSUME NEW p \in Pids, \/ WorkerLock(p) \/ WorkerReceive(p) \/ WorkerAbandon(p)
                             \/ WorkerCount(p) \/ WorkerEnsure(p)
                             \/ WorkerEnsureTimeout(p) \/ WorkerExit(p)
      PROVE  ClosedInv'
  BY <1>6, <1>b DEF WorkerLock, WorkerReceive, WorkerAbandon, WorkerCount, WorkerEnsure,
     WorkerEnsureTimeout, WorkerExit, envVars, threadVars, rhVars, thVars, queueVars
<1>7. ASSUME NEW p \in Pids, Putting(p) PROVE ClosedInv'
  <2>1. Turns(p) /\ UNCHANGED <<taskqueue, rhPc, rhFin>>
    BY <1>7, PuttingKeeps DEF rhVars
  <2>2. UNCHANGED <<state, thPc>>
    BY <1>7 DEF Putting, WorkerAck, WorkerReady, WorkerDeath, WorkerCrash, TerminateJob,
       ShrinkTerminate, envVars, threadVars, thVars
  <2>3. \E type \in {"PART", "DEATH", "ACK", "READY"}, j \in {NoJob, wjob[p]} :
          outqueue' = outqueue \/ outqueue' = Append(outqueue, Msg(type, j, p))
    BY <2>1 DEF Turns, Sends
  <2> QED
    BY <2>1, <2>2, <2>3, <1>d
<1>8. ASSUME ShrinkTerminate PROVE ClosedInv'
  <2>1. shrinking \in Pids /\ Putting(shrinking)
    BY <1>8 DEF ShrinkTerminate, Putting, TypeOK, EnvType, NoPid
  <2> QED
    BY <2>1, <1>7
<1>13. ASSUME Close PROVE ClosedInv'
  BY <1>13 DEF Close, ClosedInv
<1>14. ASSUME NEW j \in Jobs, ApplySubmit(j) PROVE ClosedInv'
  <2>1. /\ taskqueue' = Append(taskqueue, Task(j))
        /\ UNCHANGED <<state, rhFin, rhPc, thPc, outqueue>>
    BY <1>14 DEF ApplySubmit, threadVars, rhVars, thVars
  <2>2. Msgs(taskqueue') = Msgs(taskqueue) \cup {Task(j)}
    BY <1>a, <2>1, MsgsFacts
  <2> QED
    BY <2>1, <2>2, TaskDistinct, ClosedFrame
<1>15. ASSUME ThPut PROVE ClosedInv'
  <2>1. /\ taskqueue # <<>> /\ taskqueue' = Tail(taskqueue)
        /\ UNCHANGED <<state, rhFin, rhPc, thPc, outqueue>>
    BY <1>15 DEF ThPut, envVars, threadVars, rhVars, thVars
  <2>2. Msgs(taskqueue') \subseteq Msgs(taskqueue)
    BY <1>a, <2>1, MsgsFacts
  <2> QED
    BY <2>1, <2>2, ClosedFrame
<1>16. ASSUME ThTellResultHandler PROVE ClosedInv'
  <2>1. Sentinel \in Msgs(taskqueue) /\ state' = state
    BY <1>16, <1>a, MsgsFacts DEF ThTellResultHandler, envVars
  <2> QED
    BY <2>1 DEF ClosedInv
<1>17. ASSUME ThTellWorkers PROVE ClosedInv'
  BY <1>17, <1>c DEF ThTellWorkers, envVars
<1>18. ASSUME RhOnAck \/ RhOnDeath \/ RhOnPart PROVE ClosedInv'
  BY <1>18, <1>e DEF RhOnAck, RhOnDeath, RhOnPart, RhTakes, envVars, thVars
<1>19. ASSUME RhOnReady PROVE ClosedInv'
  BY <1>19, <1>e DEF RhOnReady, Lookup, RhTakes, envVars, thVars
<1>20. ASSUME RhSet \/ RhCredit \/ RhCreditFails PROVE ClosedInv'
  BY <1>20, ClosedFrame DEF RhSet, RhCredit, Lookup, RhCreditFails, RhNext, envVars,
     thVars, queueVars
<1>21. ASSUME RhOnSentinel PROVE ClosedInv'
  <2>1. outqueue # <<>> /\ Head(outqueue).type = "NONE" /\ state' = state
    BY <1>21 DEF RhOnSentinel, RhTakes, envVars
  <2>2. Head(outqueue) \in Msgs(outqueue)
    BY <1>a, <2>1, MsgsFacts
  <2> QED
    BY <2>1, <2>2 DEF ClosedInv
<1>22. ASSUME RhJoin \/ RhJoinCrash \/ RhPollTimeout \/ RhFinish PROVE ClosedInv'
  BY <1>22, <1>c DEF RhJoin, RhJoinCrash, RhPollTimeout, RhFinish, envVars
<1> QED
  BY <1>1, <1>2, <1>3, <1>4, <1>5, <1>6, <1>7, <1>8, <1>13, <1>14, <1>15, <1>16, <1>17,
     <1>18, <1>19, <1>20, <1>21, <1>22
  DEF Next, ClientStep, WorkerStep, ThStep, RhStep, SupStep, Putting

\* Every step preserves RoundInv.
LEMMA RoundNext == TypeOK /\ RoundInv /\ [Next]_vars => RoundInv'
<1> SUFFICES ASSUME TypeOK, RoundInv, [Next]_vars PROVE RoundInv'
  OBVIOUS
<1>a. ASSUME UNCHANGED <<supPc, supRel, shrinking, shrinks>> PROVE RoundInv'
  BY <1>a DEF RoundInv
<1>1. CASE UNCHANGED vars
  BY <1>1, <1>a DEF vars, envVars, boundVars, threadVars, supVars
<1>2. ASSUME NEW j \in Jobs, ApplyCheck(j) \/ ApplySubmit(j) \/ LostTimeout(j) \/ RhMarkLost(j)
      PROVE  RoundInv'
  BY <1>2, <1>a DEF ApplyCheck, ApplySubmit, LostTimeout, RhMarkLost, envVars, boundVars,
     threadVars, supVars
<1>3. ASSUME Close \/ Grow PROVE RoundInv'
  BY <1>3, <1>a DEF Close, Grow, boundVars, threadVars, supVars
<1>4. ASSUME ShrinkBegin PROVE RoundInv'
  BY <1>4 DEF ShrinkBegin, RoundInv, threadVars, supVars, TypeOK, EnvType
<1>5. ASSUME ShrinkTerminate PROVE RoundInv'
  BY <1>5 DEF ShrinkTerminate, RoundInv, threadVars, supVars, boundVars
<1>6. ASSUME NEW p \in Pids, TerminateJob(p) PROVE RoundInv'
  BY <1>6, <1>a DEF TerminateJob, threadVars, supVars
<1>7. ASSUME NEW p \in Pids, WorkerStep(p) \/ WorkerCrash(p) PROVE RoundInv'
  BY <1>7, <1>a DEF WorkerStep, WorkerLock, WorkerReceive, WorkerAck, WorkerReady,
     WorkerAbandon, WorkerCount, WorkerEnsure, WorkerEnsureTimeout, WorkerDeath,
     WorkerExit, WorkerCrash, envVars, boundVars,
     threadVars, supVars
<1>8. ASSUME ThStep PROVE RoundInv'
  BY <1>8, <1>a DEF ThStep, ThPut, ThTellResultHandler, ThTellWorkers, envVars, boundVars,
     threadVars, supVars
<1>9. ASSUME \/ RhOnAck \/ RhOnReady \/ RhCredit \/ RhCreditFails \/ RhSet
             \/ RhOnDeath \/ RhOnPart \/ RhOnSentinel
             \/ RhJoin \/ RhPollTimeout \/ RhJoinCrash \/ RhFinish
      PROVE  RoundInv'
  BY <1>9, <1>a DEF RhOnAck, RhOnReady, RhCredit, RhCreditFails, RhSet, RhOnDeath,
     RhOnPart, RhOnSentinel, RhJoin,
     RhPollTimeout, RhJoinCrash, RhFinish, envVars, boundVars, supVars
<1>10. ASSUME NEW j \in Jobs, SupMarkLost(j) PROVE RoundInv'
  BY <1>10, <1>a DEF SupMarkLost, envVars, boundVars
<1>11. ASSUME SupWake \/ SupJoin \/ SupCheck \/ SupAppend PROVE RoundInv'
  BY <1>11 DEF SupWake, SupJoin, SupCheck, SupAppend, RoundInv, envVars, boundVars
<1>12. ASSUME SupAssertFails \/ SupStart \/ SupRegister PROVE RoundInv'
  BY <1>12 DEF SupAssertFails, SupStart, SupRegister, RoundInv, envVars, boundVars
<1>13. ASSUME SupRelease PROVE RoundInv'
  BY <1>13 DEF SupRelease, RoundInv, envVars, boundVars, TypeOK, SupType
<1> QED
  BY <1>1, <1>2, <1>3, <1>4, <1>5, <1>6, <1>7, <1>8, <1>9, <1>10, <1>11, <1>12, <1>13
  DEF Next, ClientStep, RhStep, SupStep

FlagInv == DroppedInv /\ ReadySubmitted

\* Whatever leaves flags, results and worker pids alone keeps FlagInv.
LEMMA FlagFrame ==
  ASSUME FlagInv, UNCHANGED <<lost, value, workerPid>>, pool' \subseteq pool,
         \A j \in Jobs : Submitted(j) => Submitted(j)'
  PROVE  FlagInv'
BY DEF FlagInv, DroppedInv, ReadySubmitted, Ready

\* _set keeps it, if the job is submitted, and flagged if it is given up.
LEMMA FlagSet ==
  ASSUME FlagInv, TypeOK, NEW j \in Jobs, NEW v, Set(j, v), Submitted(j),
         v \in {"lost", "terminated"} => lost[j] # "no",
         UNCHANGED <<lost, workerPid, pool, client>>
  PROVE  FlagInv'
<1>1. \A k \in Jobs : value'[k] = IF k = j THEN v ELSE value[k]
  BY DEF Set, TypeOK, JobType
<1> QED
  BY <1>1 DEF FlagInv, DroppedInv, ReadySubmitted, Ready, Submitted

\* So does dropping workers: the jobs that are flagged lose theirs.
LEMMA FlagDrop ==
  ASSUME FlagInv, CacheInv, TypeOK, NEW gone, Drop(gone), UNCHANGED <<workerPid, client>>
  PROVE  FlagInv'
<1>1. CASE gone = {}
  BY <1>1, FlagFrame DEF Drop, Submitted
<1>2. CASE gone # {}
  <2> DEFINE orphan == {j \in cache : workerPid[j] \notin (pool \ gone) \cup {NoPid}}
  <2>1. /\ \A j \in Jobs : lost'[j] = lost[j] \/ j \in orphan
        /\ \A j \in Jobs : value'[j] = value[j] \/ j \in orphan
        /\ pool' = pool \ gone
    BY <1>2 DEF Drop
  <2>2. \A j \in orphan : workerPid[j] \notin pool' /\ Submitted(j)
    BY <2>1 DEF CacheInv, CacheSubmitted, Submitted
  <2> HIDE DEF orphan
  <2> QED
    BY <2>1, <2>2 DEF FlagInv, DroppedInv, ReadySubmitted, Ready, Submitted
<1> QED
  BY <1>1, <1>2

\* Every step preserves FlagInv.
LEMMA FlagNext ==
  /\ TypeOK /\ LossAll /\ CacheInv /\ SpotInv /\ FlagInv
  /\ [Next]_vars
  => FlagInv'
<1> SUFFICES ASSUME TypeOK, LossAll, CacheInv, SpotInv, FlagInv, [Next]_vars
             PROVE  FlagInv'
  OBVIOUS
<1>a. ASSUME UNCHANGED <<lost, value, workerPid, pool, client>> PROVE FlagInv'
  BY <1>a, FlagFrame DEF Submitted
<1>b. \A j \in cache : j \in Jobs /\ Submitted(j)
  BY DEF CacheInv, CacheSubmitted, Submitted, TypeOK, JobType
<1>c. \A j \in Jobs : lost[j] # "no" => Known(j) /\ Submitted(j)
  BY DEF LossAll, LossInv, LossIsReal, Life, Stages, Known
<1>1. CASE UNCHANGED vars
  BY <1>1, <1>a DEF vars, envVars, jobVars
<1>2. ASSUME NEW j \in Jobs, ApplyCheck(j) \/ ApplySubmit(j) PROVE FlagInv'
  <2>1. UNCHANGED <<lost, value, workerPid, pool>>
    BY <1>2 DEF ApplyCheck, ApplySubmit, jobVars
  <2>2. \A k \in Jobs : Submitted(k) => Submitted(k)'
    BY <1>2 DEF ApplyCheck, ApplySubmit, Submitted, TypeOK, EnvType
  <2> QED
    BY <2>1, <2>2, FlagFrame
<1>3. ASSUME Close \/ Grow \/ ShrinkBegin \/ ShrinkTerminate PROVE FlagInv'
  BY <1>3, <1>a DEF Close, Grow, ShrinkBegin, ShrinkTerminate, jobVars
<1>4. ASSUME NEW p \in Pids, TerminateJob(p) \/ WorkerStep(p) \/ WorkerCrash(p)
      PROVE  FlagInv'
  BY <1>4, <1>a DEF TerminateJob, WorkerStep, WorkerLock, WorkerReceive, WorkerAck,
     WorkerReady, WorkerAbandon, WorkerCount, WorkerEnsure, WorkerEnsureTimeout,
     WorkerDeath, WorkerExit, WorkerCrash,
     envVars, jobVars
<1>5. ASSUME ThPut PROVE FlagInv'
  <2>1. /\ UNCHANGED <<lost, workerPid, pool, client>>
        /\ value' = value \/ (TaskJob \in cache /\ Set(TaskJob, "putfail"))
    BY <1>5 DEF ThPut, envVars
  <2>2. CASE value' = value
    BY <2>1, <2>2, <1>a
  <2>3. CASE TaskJob \in cache /\ Set(TaskJob, "putfail")
    BY <2>1, <2>3, <1>b, FlagSet
  <2> QED
    BY <2>1, <2>2, <2>3
<1>6. ASSUME \/ ThTellResultHandler \/ ThTellWorkers \/ RhOnReady \/ RhOnDeath
             \/ RhCredit \/ RhCreditFails \/ RhOnPart \/ RhOnSentinel \/ RhPollTimeout \/ RhFinish
      PROVE  FlagInv'
  BY <1>6, <1>a DEF ThTellResultHandler, ThTellWorkers, RhOnReady, RhOnDeath,
     RhCredit, RhCreditFails, RhOnPart, RhOnSentinel, RhPollTimeout, RhFinish, envVars, jobVars
<1>7. ASSUME RhJoinCrash PROVE FlagInv'
  <2>1. pool' \subseteq pool /\ UNCHANGED <<lost, value, workerPid, client>>
    BY <1>7 DEF RhJoinCrash, envVars, jobVars
  <2> QED
    BY <2>1, FlagFrame DEF Submitted
<1>8. ASSUME \/ SupWake \/ SupCheck \/ SupAssertFails \/ SupStart \/ SupRegister \/ SupRelease
      PROVE  FlagInv'
  BY <1>8, <1>a DEF SupWake, SupCheck, SupAssertFails, SupStart, SupRegister, SupRelease,
     envVars, jobVars
<1>9. ASSUME RhOnAck PROVE FlagInv'
  <2>1. PICK j \in Jobs, p \in Pids : j = Head(outqueue).job /\ p = Head(outqueue).pid
    BY <1>9, OutHead DEF RhOnAck, RhTakes, TypeOK, QueueType
  <2>2. /\ outqueue # <<>> /\ IsAck(Head(outqueue), j)
        /\ UNCHANGED <<lost, value, pool, client>>
        /\ workerPid' = workerPid \/ workerPid' = [workerPid EXCEPT ![j] = p]
    BY <1>9, <2>1 DEF RhOnAck, RhTakes, Ack, envVars, IsAck
  <2>3. HasAck(outqueue, j)
    BY <2>2, MsgsFacts, HasIsMsg DEF TypeOK, QueueType
  <2>4. ~Known(j)
    BY <2>3 DEF LossAll, Life, Stages
  <2>5. lost[j] = "no" /\ value[j] \notin {"lost", "terminated"}
    BY <2>4 DEF LossAll, LossInv, LossIsReal, Known
  <2>6. \A k \in Jobs : k # j => workerPid'[k] = workerPid[k]
    BY <2>2 DEF TypeOK, JobType
  <2> QED
    BY <2>2, <2>5, <2>6 DEF FlagInv, DroppedInv, ReadySubmitted, Ready, Submitted
<1>10. ASSUME RhSet PROVE FlagInv'
  <2>1. /\ Set(rhJob, "result") /\ rhJob \in Jobs
        /\ UNCHANGED <<lost, workerPid, pool, client>>
    BY <1>10 DEF RhSet, envVars, TypeOK, RhType
  <2>2. Submitted(rhJob)
    BY <2>1 DEF SpotInv, Spots
  <2> QED
    BY <2>1, <2>2, FlagSet
<1>11. ASSUME NEW j \in Jobs, RhMarkLost(j) PROVE FlagInv'
  BY <1>11, <1>b, FlagSet DEF RhMarkLost, Overdue, envVars
<1>12. ASSUME NEW j \in Jobs, SupMarkLost(j) PROVE FlagInv'
  <2>1. lost[j] # "no"
    BY <1>12 DEF SupMarkLost, LossAll, LossInv
  <2> QED
    BY <1>12, <1>c, <2>1, FlagSet DEF SupMarkLost, envVars
<1>13. ASSUME RhJoin \/ SupJoin PROVE FlagInv'
  <2>1. Drop(Exited) /\ UNCHANGED <<workerPid, client>>
    BY <1>13 DEF RhJoin, SupJoin, envVars
  <2> QED
    BY <2>1, FlagDrop
<1>14. ASSUME NEW j \in Jobs, LostTimeout(j) PROVE FlagInv'
  <2>1. /\ UNCHANGED <<value, workerPid, pool, client>> /\ lost[j] # "no"
        /\ \A k \in Jobs : k # j => lost'[k] = lost[k]
    BY <1>14 DEF LostTimeout, envVars, TypeOK, JobType
  <2> QED
    BY <2>1 DEF FlagInv, DroppedInv, ReadySubmitted, Ready, Submitted
<1>15. ASSUME SupAppend PROVE FlagInv'
  <2>1. PICK p \in Pids : wpc[p] = "new" /\ pool' = pool \cup {p}
    BY <1>15 DEF SupAppend
  <2>2. UNCHANGED <<lost, value, workerPid, client>>
    BY <1>15 DEF SupAppend, envVars, jobVars
  <2>3. \A j \in Jobs : Known(j) => workerPid[j] # p
    BY <2>1 DEF LossAll, ProcInv, KnownStarted, Started
  <2>4. \A j \in Jobs : lost[j] # "no" \/ value[j] \in {"lost", "terminated"} => Known(j)
    BY DEF LossAll, LossInv, LossIsReal, Known
  <2> QED
    BY <2>1, <2>2, <2>3, <2>4 DEF FlagInv, DroppedInv, ReadySubmitted, Ready, Submitted
<1> QED
  BY <1>1, <1>2, <1>3, <1>4, <1>5, <1>6, <1>7, <1>8, <1>9, <1>10, <1>11, <1>12, <1>13,
     <1>14, <1>15 DEF Next, ClientStep, ThStep, RhStep, SupStep

\* The job whose slot on_ready has given back and whose result it is about to set,
\* the jobs whose slot was not given back by their READY, the worker a job was or
\* is with, the workers joined while they had such a job, and the balance.
Freed(j) == rhPc = "set" /\ rhJob = j
Owing == {j \in Jobs : Submitted(j) /\ value[j] # "result" /\ ~Freed(j)}
By(j, p) == Holds(j, p) \/ workerPid[j] = p
Paid == {p \in Pids \ pool : \E j \in Owing : By(j, p)}
Counts == PutLocks /\ state = "RUN" /\ shrinks = 0
Balance ==
  Counts => limit + Cardinality(Paid) <= putlock + supRel + Cardinality(Owing)

\* The values of a function on a finite set are no more than its arguments.
LEMMA ImageBound ==
  ASSUME NEW S, IsFiniteSet(S), NEW T, NEW f, \A t \in T : \E x \in S : f[x] = t
  PROVE  IsFiniteSet(T) /\ Cardinality(T) \in Nat /\ Cardinality(T) <= Cardinality(S)
<1>1. PICK D : D = {x \in S : f[x] \in T}
  OBVIOUS
<1>2. IsFiniteSet(D) /\ Cardinality(D) \in Nat /\ Cardinality(D) <= Cardinality(S)
  BY <1>1, FS_Subset, FS_CardinalityType
<1>3. PICK g : g = [x \in D |-> f[x]]
  OBVIOUS
<1>4. g \in Surjection(D, T)
  BY <1>1, <1>3 DEF Surjection
<1>5. IsFiniteSet(T) /\ Cardinality(T) <= Cardinality(D)
  BY <1>2, <1>4, FS_Surjection
<1> QED
  BY <1>2, <1>5, FS_CardinalityType

\* A job was with one worker only.
LEMMA ByOnce ==
  ASSUME SpotInv, AckInv, NEW j \in Jobs, NEW p \in Pids, NEW q \in Pids,
         By(j, p), By(j, q)
  PROVE  p = q
<1>1. workerPid[j] \in Pids => Known(j)
  BY DEF Known, Pids, NoPid
<1> QED
  BY <1>1, HoldsOnce DEF By, AckInv, KnownBacked

\* So no more workers had some jobs than there are jobs.
LEMMA WorkersBound ==
  ASSUME SpotInv, AckInv, NEW S, S \subseteq Jobs, IsFiniteSet(S),
         NEW T, T \subseteq Pids, \A p \in T : \E j \in S : By(j, p)
  PROVE  IsFiniteSet(T) /\ Cardinality(T) \in Nat /\ Cardinality(T) <= Cardinality(S)
<1>1. PICK f : f = [j \in S |-> CHOOSE p \in Pids : By(j, p)]
  OBVIOUS
<1>2. ASSUME NEW p \in T PROVE \E j \in S : f[j] = p
  <2>1. PICK j \in S : By(j, p)
    OBVIOUS
  <2>2. f[j] \in Pids /\ By(j, f[j])
    BY <1>1, <2>1
  <2> QED
    BY <2>1, <2>2, ByOnce
<1> QED
  BY <1>2, ImageBound

\* In particular the workers joined with a slot.
LEMMA Sizes ==
  ASSUME SpotInv, AckInv, SubmittedFinite
  PROVE  /\ IsFiniteSet(Owing) /\ Cardinality(Owing) \in Nat
         /\ IsFiniteSet(Paid) /\ Cardinality(Paid) \in Nat
         /\ Cardinality(Paid) <= Cardinality(Owing)
<1>1. Owing \subseteq SubmittedJobs
  BY DEF Owing, SubmittedJobs
<1>2. IsFiniteSet(Owing) /\ Cardinality(Owing) \in Nat
  BY <1>1, FS_Subset, FS_CardinalityType DEF SubmittedFinite
<1>3. /\ Owing \subseteq Jobs /\ Paid \subseteq Pids
      /\ \A p \in Paid : \E j \in Owing : By(j, p)
  BY DEF Owing, Paid
<1> QED
  BY <1>2, <1>3, WorkersBound

Sound == TypeOK /\ SpotInv /\ PendInv /\ AckInv /\ SubmittedFinite /\ Balance

\* Whatever moves no slot keeps the balance, ...
LEMMA BalanceFrame ==
  ASSUME Sound, UNCHANGED <<limit, putlock, supRel, state, shrinks>>,
         Owing' = Owing, Paid' \subseteq Paid
  PROVE  Balance'
<1>1. /\ limit \in Int /\ putlock \in Int /\ supRel \in Nat
      /\ Cardinality(Owing) \in Nat /\ Cardinality(Paid) \in Nat
  BY Sizes DEF Sound, TypeOK, SlotType, SupType
<1>2. Cardinality(Paid') \in Nat /\ Cardinality(Paid') <= Cardinality(Paid)
  BY Sizes, FS_Subset, FS_CardinalityType DEF Sound
<1>3. Counts' => Counts
  BY DEF Counts
<1> QED
  BY <1>1, <1>2, <1>3 DEF Sound, Balance

\* ... and so does a job that owes its slot again.
LEMMA BalanceGrows ==
  ASSUME Sound, UNCHANGED <<limit, putlock, supRel, state, shrinks, pool>>,
         NEW j \in Jobs, j \notin Owing, Owing' = Owing \cup {j},
         \A k \in Jobs, p \in Pids : By(k, p)' => By(k, p)
  PROVE  Balance'
<1>1. /\ limit \in Int /\ putlock \in Int /\ supRel \in Nat
      /\ IsFiniteSet(Owing) /\ Cardinality(Owing) \in Nat
      /\ IsFiniteSet(Paid) /\ Cardinality(Paid) \in Nat
  BY Sizes DEF Sound, TypeOK, SlotType, SupType
<1>2. Cardinality(Owing') = Cardinality(Owing) + 1
  BY <1>1, FS_AddElement
<1>3. PICK q : q = CHOOSE p \in Pids : By(j, p)
  OBVIOUS
<1>4. Paid' \subseteq Paid \cup {q}
  <2>1. ASSUME NEW p \in Paid' PROVE p \in Paid \cup {q}
    <3>1. PICK k \in Owing \cup {j} : By(k, p)
      BY DEF Paid, Owing
    <3>2. p \in Pids \ pool
      BY DEF Paid
    <3>3. CASE k \in Owing
      BY <3>1, <3>2, <3>3 DEF Paid
    <3>4. CASE k = j
      <4>1. q \in Pids /\ By(j, q)
        BY <1>3, <3>1, <3>2, <3>4
      <4>2. p = q
        BY <3>1, <3>2, <3>4, <4>1, ByOnce DEF Sound
      <4> QED
        BY <4>2
    <3> QED
      BY <3>3, <3>4
  <2> QED
    BY <2>1
<1>5. IsFiniteSet(Paid \cup {q}) /\ Cardinality(Paid \cup {q}) \in Nat
      /\ Cardinality(Paid \cup {q}) <= Cardinality(Paid) + 1
  <2>1. /\ IsFiniteSet(Paid \cup {q})
        /\ Cardinality(Paid \cup {q}) =
             IF q \in Paid THEN Cardinality(Paid) ELSE Cardinality(Paid) + 1
    BY <1>1, FS_AddElement
  <2> QED
    BY <1>1, <2>1
<1>6. Cardinality(Paid') \in Nat /\ Cardinality(Paid') <= Cardinality(Paid \cup {q})
  BY <1>4, <1>5, FS_Subset, FS_CardinalityType
<1>7. Counts' => Counts
  BY DEF Counts
<1> QED
  BY <1>1, <1>2, <1>5, <1>6, <1>7 DEF Sound, Balance

\* Calm steps leave the jobs with their workers.
LEMMA CalmBy ==
  ASSUME TypeOK, Calm
  PROVE  /\ \A j \in Jobs, p \in Pids : By(j, p)' <=> By(j, p)
         /\ (\A j \in Jobs : value'[j] = "result" <=> value[j] = "result") => Owing' = Owing
<1>1. \A j, p : ReadyBy(outqueue', j, p) <=> ReadyBy(outqueue, j, p)
  BY OutCalmKeeps DEF Calm
<1>2. \A j \in Jobs, p \in Pids : By(j, p)' <=> By(j, p)
  BY <1>1 DEF Calm, JobsCalm, By, Holds
<1>3. ASSUME \A j \in Jobs : value'[j] = "result" <=> value[j] = "result"
      PROVE  Owing' = Owing
  BY <1>3 DEF Calm, JobsCalm, HandlerCalm, Owing, Freed
<1> QED
  BY <1>2, <1>3

\* The calm steps that neither take nor give slots.
LEMMA CalmBalance ==
  ASSUME Sound, Calm, UNCHANGED <<limit, putlock, supRel, state, shrinks>>,
         \A j \in Jobs : value'[j] = "result" <=> value[j] = "result",
         pool \subseteq pool'
  PROVE  Balance'
<1>1. /\ Owing' = Owing
      /\ \A j \in Jobs, p \in Pids : By(j, p)' <=> By(j, p)
  BY CalmBy DEF Sound
<1>2. Paid' \subseteq Paid
  <2> SUFFICES ASSUME NEW p \in Paid' PROVE p \in Paid
    OBVIOUS
  <2>1. p \in Pids \ pool /\ \E j \in Owing : By(j, p)'
    BY <1>1 DEF Paid
  <2> QED
    BY <1>1, <2>1 DEF Paid, Owing
<1> QED
  BY <1>1, <1>2, BalanceFrame

\* A READY that finds its job in the cache finds it unfinished: the ACK, which
\* came first, removes a finished job.
LEMMA ReadyFresh ==
  ASSUME TypeOK, CacheInv, SpotInv, AckInv, NEW j \in Jobs, j \in cache,
         outqueue # <<>>, IsReady(Head(outqueue), j)
  PROVE  ~Ready(j) /\ Submitted(j)
<1>0. outqueue \in Seq(OutMsgs)
  BY DEF TypeOK, QueueType
<1>1. Head(outqueue) \in Msgs(outqueue)
  BY <1>0, MsgsFacts
<1>2. HasReady(outqueue, j)
  BY <1>1 DEF HasReady
<1>3. ~HasAck(outqueue, j)
  BY <1>0, OutTail DEF AckInv
<1>4. j \in accepted
  BY <1>2, <1>3 DEF AckInv, RunAcked
<1> QED
  BY <1>2, <1>4 DEF CacheInv, CacheDrained, SpotInv, Spots

\* So does the job whose worker it has credited.
LEMMA CreditFresh ==
  ASSUME TypeOK, CacheInv, SpotInv, PendInv, AckInv, rhPc = "credit", rhJob \in cache
  PROVE  ~Ready(rhJob) /\ Submitted(rhJob)
<1>1. rhJob \in Jobs /\ rhOwner \in Pids /\ workerPid[rhJob] = rhOwner
  BY DEF PendInv, TypeOK, RhType
<1>2. Known(rhJob)
  BY <1>1 DEF Known, Pids, NoPid
<1> QED
  BY <1>1, <1>2 DEF AckInv, AcceptedKnown, CacheInv, CacheDrained, SpotInv, Spots

\* Every step preserves the balance.
LEMMA BalanceNext ==
  /\ LossAll /\ CacheInv /\ ClosedInv /\ RoundInv /\ FlagInv /\ Sound
  /\ [Next]_vars
  => Balance'
<1> SUFFICES ASSUME LossAll, CacheInv, ClosedInv, RoundInv, FlagInv, Sound, [Next]_vars
             PROVE  Balance'
  OBVIOUS
<1>a. /\ limit \in Int /\ putlock \in Int /\ supRel \in Nat
      /\ IsFiniteSet(Owing) /\ Cardinality(Owing) \in Nat
      /\ IsFiniteSet(Paid) /\ Cardinality(Paid) \in Nat
      /\ Cardinality(Paid) <= Cardinality(Owing)
      /\ TypeOK /\ SpotInv /\ PendInv /\ AckInv /\ outqueue \in Seq(OutMsgs)
      /\ inqueue \in Seq(TaskMsgs)
      /\ ProcInv /\ Life
  BY Sizes DEF Sound, TypeOK, SlotType, SupType, QueueType, LossAll
<1>b. Counts => limit + Cardinality(Paid) <= putlock + supRel + Cardinality(Owing)
  BY DEF Sound, Balance
<1>c. ASSUME state' = state, shrinks' = shrinks, rhPc = "join" \/ rhFin \/ shrinks # 0
      PROVE  Balance'
  BY <1>c DEF Balance, Counts, ClosedInv
<1>d. ASSUME Calm, UNCHANGED <<slotVars, supRel, state, shrinks, value, pool>>
      PROVE  Balance'
  BY <1>d, CalmBalance DEF slotVars
<1>e. ASSUME NEW j \in Jobs, NEW v, Set(j, v), v # "result", Submitted(j),
             UNCHANGED <<slotVars, supRel, state, shrinks, pool, rhPc, rhJob, client>>,
             \A k \in Jobs, p \in Pids : By(k, p)' <=> By(k, p)
      PROVE  Balance'
  <2>1. \A k \in Jobs : value'[k] = IF k = j THEN v ELSE value[k]
    BY <1>a, <1>e DEF Set, TypeOK, JobType
  <2>2. CASE value[j] = "result" /\ ~Freed(j)
    <3>1. j \notin Owing /\ Owing' = Owing \cup {j}
      BY <1>e, <2>1, <2>2 DEF Owing, Submitted, Freed
    <3> QED
      BY <1>e, <3>1, BalanceGrows DEF slotVars
  <2>3. CASE value[j] # "result" \/ Freed(j)
    <3>1. Owing' = Owing
      BY <1>e, <2>1, <2>3 DEF Owing, Submitted, Freed
    <3>2. Paid' \subseteq Paid
      BY <1>e, <3>1 DEF Paid, Owing
    <3> QED
      BY <1>e, <3>1, <3>2, BalanceFrame DEF slotVars
  <2> QED
    BY <2>2, <2>3
<1>1. ASSUME Calm, UNCHANGED vars PROVE Balance'
  BY <1>1, <1>d DEF vars, envVars, boundVars, threadVars, supVars, jobVars
<1>2. ASSUME NEW j \in Jobs, Calm, ApplyCheck(j) \/ LostTimeout(j) PROVE Balance'
  BY <1>2, <1>d DEF ApplyCheck, LostTimeout, envVars, boundVars, threadVars, supVars,
     jobVars
<1>3. ASSUME NEW p \in Pids, Calm,
             \/ WorkerLock(p) \/ WorkerAbandon(p) \/ WorkerCount(p) \/ WorkerExit(p)
             \/ WorkerEnsure(p) \/ WorkerEnsureTimeout(p)
      PROVE  Balance'
  BY <1>3, <1>d DEF WorkerLock, WorkerAbandon, WorkerCount, WorkerExit,
     WorkerEnsure, WorkerEnsureTimeout, envVars, boundVars, threadVars, supVars, jobVars
<1>4. ASSUME Calm, RhOnDeath \/ RhOnSentinel \/ RhOnPart PROVE Balance'
  BY <1>4, <1>d DEF RhOnDeath, RhOnSentinel, RhOnPart, envVars, boundVars, supVars, jobVars
<1>5. ASSUME Calm, SupWake \/ SupCheck \/ SupAssertFails \/ SupStart \/ SupRegister
      PROVE  Balance'
  BY <1>5, <1>d DEF SupWake, SupCheck, SupAssertFails, SupStart, SupRegister, envVars,
     boundVars, jobVars
<1>6. ASSUME Calm, SupAppend PROVE Balance'
  <2>1. pool \subseteq pool' /\ UNCHANGED <<limit, putlock, supRel, state, shrinks, value>>
    BY <1>6 DEF SupAppend, envVars, boundVars, jobVars, slotVars
  <2> QED
    BY <1>6, <2>1, CalmBalance
<1>7. ASSUME RhPollTimeout \/ RhJoinCrash \/ RhJoin \/ RhFinish PROVE Balance'
  BY <1>7, <1>c DEF RhPollTimeout, RhJoinCrash, RhJoin, RhFinish, envVars, boundVars
<1>8. ASSUME NEW j \in Jobs, RhMarkLost(j) PROVE Balance'
  BY <1>8, <1>c DEF RhMarkLost, envVars, boundVars
<1>9. ASSUME ShrinkBegin PROVE Balance'
  <2>1. shrinks' # 0
    BY <1>9, <1>a DEF ShrinkBegin, TypeOK, EnvType
  <2> QED
    BY <2>1 DEF Balance, Counts
<1>10. ASSUME ShrinkTerminate PROVE Balance'
  <2>1. shrinks # 0 /\ shrinks' = shrinks
    BY <1>10, <1>a DEF ShrinkTerminate, RoundInv, boundVars, TypeOK, EnvType
  <2> QED
    BY <2>1 DEF Balance, Counts
<1>11. ASSUME Close PROVE Balance'
  BY <1>11 DEF Close, Balance, Counts
<1>12. ASSUME Calm, Grow PROVE Balance'
  <2>1. /\ limit' = limit + 1 /\ putlock' = putlock + 1
        /\ UNCHANGED <<supRel, state, shrinks, value, pool>>
    BY <1>12 DEF Grow, threadVars, supVars, jobVars
  <2>2. Owing' = Owing /\ \A j \in Jobs, p \in Pids : By(j, p)' <=> By(j, p)
    BY <1>12, <1>a, <2>1, CalmBy
  <2>3. Paid' = Paid
    BY <2>1, <2>2 DEF Paid, Owing
  <2> QED
    BY <1>a, <1>b, <2>1, <2>2, <2>3 DEF Balance, Counts
<1>13. ASSUME NEW j \in Jobs, Calm, SupMarkLost(j) PROVE Balance'
  <2>1. lost[j] # "no"
    BY <1>13 DEF SupMarkLost, LossAll, LossInv
  <2>2. Submitted(j)
    BY <2>1 DEF LossAll, LossInv, LossIsReal, Life, Stages, Known
  <2>3. \A k \in Jobs, p \in Pids : By(k, p)' <=> By(k, p)
    BY <1>13, <1>a, CalmBy
  <2>4. /\ Set(j, "lost")
        /\ UNCHANGED <<slotVars, supRel, state, shrinks, pool, rhPc, rhJob, client>>
    BY <1>13 DEF SupMarkLost, envVars, boundVars, rhVars
  <2> QED
    BY <2>2, <2>3, <2>4, <1>e
<1>14. ASSUME Calm, SupJoin PROVE Balance'
  <2>1. /\ Drop(Exited) /\ supRel' = Cardinality(Exited) /\ supPc = "join"
        /\ UNCHANGED <<limit, putlock, state, shrinks>>
    BY <1>14 DEF SupJoin, envVars, boundVars, slotVars
  <2>2. supRel = 0
    BY <2>1 DEF RoundInv
  <2>3. pool' = pool \ Exited
    BY <2>1 DEF Drop
  <2>4. \A k \in Jobs : value'[k] = value[k] \/ ("unset" = value[k] /\ value'[k] = "terminated")
    BY <2>1 DEF Drop, Ready
  <2>5. Owing' = Owing /\ \A k \in Jobs, p \in Pids : By(k, p)' <=> By(k, p)
    BY <1>14, <1>a, <2>4, CalmBy
  <2>6. Paid' \subseteq Paid \cup Exited
    BY <2>3, <2>5 DEF Paid, Owing
  <2>7. IsFiniteSet(Exited) /\ Cardinality(Exited) \in Nat
    BY <1>a, PidsFinite DEF Exited, TypeOK, WorkerType
  <2>8. Cardinality(Paid \cap Exited) \in Nat
    BY <1>a, FS_Intersection, FS_CardinalityType
  <2>9. /\ IsFiniteSet(Paid \cup Exited)
        /\ Cardinality(Paid \cup Exited) =
             Cardinality(Paid) + Cardinality(Exited) - Cardinality(Paid \cap Exited)
    BY <1>a, <2>7, FS_Union
  <2>10. /\ Cardinality(Paid') \in Nat
         /\ Cardinality(Paid') <= Cardinality(Paid \cup Exited)
    BY <2>6, <2>9, FS_Subset, FS_CardinalityType
  <2>11. Cardinality(Paid') <= Cardinality(Paid) + Cardinality(Exited)
    BY <1>a, <2>7, <2>8, <2>9, <2>10
  <2>12. Counts' => Counts
    BY <2>1 DEF Counts
  <2> QED
    BY <1>a, <1>b, <2>1, <2>2, <2>5, <2>7, <2>10, <2>11, <2>12 DEF Balance
<1>15. ASSUME Calm, SupRelease PROVE Balance'
  <2>1. /\ UNCHANGED <<limit, state, shrinks, value, pool>>
        /\ \/ Release /\ supRel > 0 /\ supRel' = supRel - 1
           \/ UNCHANGED <<putlock, supRel>>
    BY <1>15 DEF SupRelease, envVars, boundVars, jobVars
  <2>2. Owing' = Owing /\ \A j \in Jobs, p \in Pids : By(j, p)' <=> By(j, p)
    BY <1>15, <1>a, <2>1, CalmBy
  <2>3. Paid' = Paid
    BY <2>1, <2>2 DEF Paid, Owing
  <2>4. Counts' => Counts
    BY <2>1 DEF Counts
  <2>5. CASE UNCHANGED <<putlock, supRel>>
    BY <1>b, <2>1, <2>2, <2>3, <2>4, <2>5 DEF Balance
  <2>6. CASE Release /\ supRel > 0 /\ supRel' = supRel - 1
    <3>1. CASE putlock < limit
      <4>1. putlock' = putlock + 1
        BY <2>6, <3>1 DEF Release
      <4> QED
        BY <1>a, <1>b, <2>1, <2>2, <2>3, <2>4, <2>6, <4>1 DEF Balance
    <3>2. CASE ~(putlock < limit)
      <4>1. putlock' = putlock
        BY <2>6, <3>2 DEF Release
      <4> QED
        BY <1>a, <2>1, <2>2, <2>3, <2>6, <3>2, <4>1 DEF Balance
    <3> QED
      BY <3>1, <3>2
  <2> QED
    BY <2>1, <2>5, <2>6
<1>16. ASSUME NEW j \in Jobs, ApplySubmit(j) PROVE Balance'
  <2>1. /\ PutLocks => putlock' = putlock - 1
        /\ UNCHANGED <<limit, supRel, state, shrinks, value, pool, rhPc, rhJob,
                       workerPid, wjob, outqueue>>
        /\ ~Submitted(j) /\ Submitted(j)'
        /\ \A k \in Jobs : k # j => Submitted(k)' = Submitted(k)
    BY <1>16, <1>a DEF ApplySubmit, threadVars, supVars, rhVars, workerVars, boundVars,
       Submitted, TypeOK, EnvType
  <2>2. ~Ready(j) /\ rhJob # j
    BY <1>a, <2>1 DEF FlagInv, ReadySubmitted, SpotInv, Spots
  <2>3. j \notin Owing /\ Owing' = Owing \cup {j}
    BY <2>1, <2>2 DEF Owing, Ready, Freed
  <2>4. Cardinality(Owing') = Cardinality(Owing) + 1
    BY <1>a, <2>3, FS_AddElement
  <2>5. \A k \in Jobs, p \in Pids : By(k, p)' <=> By(k, p)
    BY <2>1 DEF By, Holds
  <2>6. \A p \in Pids : ~By(j, p)
    <3>1. ~Known(j) /\ ~Taken(j) /\ ~HasReady(outqueue, j)
      BY <1>a, <2>1 DEF Life, Stages, SpotInv, Spots
    <3>2. \A p \in Pids : p # NoPid
      BY DEF Pids, NoPid
    <3> QED
      BY <3>1, <3>2 DEF By, Holds, Known, Taken, HasReady, ReadyBy
  <2>7. Paid' = Paid
    BY <2>1, <2>3, <2>5, <2>6 DEF Paid, Owing
  <2>8. Counts' => Counts /\ PutLocks
    BY <2>1 DEF Counts
  <2> QED
    BY <1>a, <1>b, <2>1, <2>4, <2>7, <2>8 DEF Balance
<1>17. ASSUME ThPut PROVE Balance'
  <2>1. /\ UNCHANGED <<slotVars, supRel, state, shrinks, pool, rhPc, rhJob, client,
                       workerPid, wjob, outqueue>>
        /\ value' = value \/ (TaskJob \in cache /\ Set(TaskJob, "putfail"))
    BY <1>17 DEF ThPut, envVars, boundVars, threadVars, supVars, rhVars, workerVars
  <2>2. \A k \in Jobs, p \in Pids : By(k, p)' <=> By(k, p)
    BY <2>1 DEF By, Holds
  <2>3. CASE value' = value
    <3>1. Owing' = Owing
      BY <2>1, <2>3 DEF Owing, Submitted, Freed
    <3>2. Paid' \subseteq Paid
      BY <2>1, <2>2, <3>1 DEF Paid, Owing
    <3> QED
      BY <2>1, <3>1, <3>2, BalanceFrame DEF slotVars
  <2>4. CASE TaskJob \in cache /\ Set(TaskJob, "putfail")
    <3>1. TaskJob \in Jobs /\ Submitted(TaskJob)
      BY <1>a, <2>4 DEF CacheInv, CacheSubmitted, Submitted, TypeOK, JobType
    <3> QED
      BY <2>1, <2>2, <2>4, <3>1, <1>e
  <2> QED
    BY <2>1, <2>3, <2>4
<1>f. ASSUME UNCHANGED <<limit, putlock, supRel, state, shrinks, pool, client, value>>,
             \A k \in Jobs : Freed(k)' <=> Freed(k),
             \A k \in Jobs, p \in Pids \ pool : By(k, p)' => By(k, p)
      PROVE  Balance'
  <2>1. Owing' = Owing
    BY <1>f DEF Owing, Submitted
  <2>2. Paid' \subseteq Paid
    BY <1>f, <2>1 DEF Paid, Owing
  <2> QED
    BY <1>f, <2>1, <2>2, BalanceFrame
<1>g. ASSUME UNCHANGED <<rhPc, rhJob>> \/ (rhPc # "set" /\ rhPc' # "set")
      PROVE  \A k \in Jobs : Freed(k)' <=> Freed(k)
  BY <1>g DEF Freed
<1>h. ASSUME NEW m, m.type # "READY", outqueue' = Append(outqueue, m),
             UNCHANGED <<limit, putlock, supRel, state, shrinks, pool, rhPc, rhJob, client,
                         value, workerPid, wjob>>
      PROVE  Balance'
  <2>1. Msgs(outqueue') = Msgs(outqueue) \cup {m}
    BY <1>a, <1>h, MsgsFacts
  <2>2. \A k \in Jobs, p \in Pids : By(k, p)' => By(k, p)
    BY <1>h, <2>1 DEF By, Holds, ReadyBy, IsReady
  <2> QED
    BY <1>h, <2>2, <1>f, <1>g
<1>i. ASSUME NEW j \in Jobs, Lookup(j), rhPc # "set",
             j \in cache => ~Ready(j) /\ Submitted(j),
             UNCHANGED <<limit, supRel, state, shrinks, pool, client, value>>,
             \A k \in Jobs, q \in Pids : By(k, q)' => By(k, q)
      PROVE  Balance'
  <2>1. CASE j \notin cache
    <3>1. UNCHANGED putlock /\ rhPc' # "set"
      BY <1>i, <2>1 DEF Lookup, RhNext
    <3> QED
      BY <1>i, <3>1, <1>f, <1>g
  <2>2. CASE j \in cache
    <3>1. rhPc' = "set" /\ rhJob' = j /\ Release /\ ~Ready(j) /\ Submitted(j)
      BY <1>i, <2>2 DEF Lookup
    <3>2. \A k \in Jobs : ~Freed(k) /\ (Freed(k)' <=> k = j)
      BY <1>i, <3>1 DEF Freed
    <3>3. j \in Owing /\ Owing' = Owing \ {j}
      BY <1>i, <3>1, <3>2 DEF Owing, Submitted, Ready
    <3>4. Cardinality(Owing') = Cardinality(Owing) - 1
      BY <1>a, <3>3, FS_RemoveElement
    <3>5. Paid' \subseteq Paid
      BY <1>i, <3>3 DEF Paid, Owing
    <3>6. Cardinality(Paid') \in Nat /\ Cardinality(Paid') <= Cardinality(Paid)
      BY <1>a, <3>5, FS_Subset, FS_CardinalityType
    <3>7. Counts' => Counts
      BY <1>i DEF Counts
    <3>8. CASE putlock < limit
      <4>1. putlock' = putlock + 1
        BY <3>1, <3>8 DEF Release
      <4> QED
        BY <1>a, <1>b, <1>i, <3>4, <3>6, <3>7, <4>1 DEF Balance
    <3>9. CASE ~(putlock < limit)
      <4>1. putlock' = putlock
        BY <3>1, <3>9 DEF Release
      <4>2. Cardinality(Paid') <= Cardinality(Owing')
        <5>1. /\ Owing' \subseteq Jobs /\ IsFiniteSet(Owing') /\ Paid' \subseteq Pids
              /\ \A q \in Paid' : \E k \in Owing' : By(k, q)
          <6>a. Owing \subseteq Jobs
            BY DEF Owing
          <6>b. IsFiniteSet(Owing \ {j})
            BY <1>a, FS_RemoveElement
          <6>1. Owing' \subseteq Jobs /\ IsFiniteSet(Owing')
            BY <3>3, <6>a, <6>b
          <6>2. Paid' \subseteq Pids /\ \A q \in Paid' : \E k \in Owing' : By(k, q)'
            BY DEF Paid
          <6> QED
            BY <1>i, <6>1, <6>2
        <5> QED
          BY <1>a, <5>1, WorkersBound
      <4> QED
        BY <1>a, <1>i, <3>4, <3>6, <3>9, <4>1, <4>2 DEF Balance
    <3> QED
      BY <3>8, <3>9
  <2> QED
    BY <2>1, <2>2
<1>18. ASSUME ThTellResultHandler PROVE Balance'
  <2>1. /\ UNCHANGED <<limit, putlock, supRel, state, shrinks, pool, rhPc, rhJob, client,
                       value, workerPid, wjob>>
        /\ outqueue' = Append(outqueue, Msg("NONE", NoJob, NoPid))
    BY <1>18 DEF ThTellResultHandler, envVars, boundVars, slotVars, supVars, rhVars,
       workerVars, jobVars
  <2>2. Msg("NONE", NoJob, NoPid).type # "READY"
    BY DEF Msg
  <2> QED
    BY <2>1, <2>2, <1>h
<1>19. ASSUME ThTellWorkers PROVE Balance'
  <2>1. UNCHANGED <<limit, putlock, supRel, state, shrinks, pool, rhPc, rhJob, client, value,
                    workerPid, wjob, outqueue>>
    BY <1>19 DEF ThTellWorkers, envVars, boundVars, slotVars, supVars, rhVars,
       workerVars, jobVars
  <2>2. \A k \in Jobs, p \in Pids : By(k, p)' => By(k, p)
    BY <2>1 DEF By, Holds
  <2> QED
    BY <2>1, <2>2, <1>f, <1>g
<1>20. ASSUME NEW p \in Pids, WorkerReceive(p), rhPc # "crashed" PROVE Balance'
  <2>1. /\ UNCHANGED <<limit, putlock, supRel, state, shrinks, pool, rhPc, rhJob, client,
                       value, workerPid, outqueue>>
        /\ \A q \in Pids : q # p => wjob'[q] = wjob[q]
        /\ wpc[p] = "recv"
    BY <1>20, <1>a DEF WorkerReceive, envVars, boundVars, slotVars, threadVars, supVars,
       rhVars, jobVars, TypeOK, WorkerType
  <2>2. p \in pool
    BY <1>20, <1>a, <2>1 DEF ProcInv, PoolLive
  <2>3. \A k \in Jobs, q \in Pids \ pool : By(k, q)' => By(k, q)
    BY <2>1, <2>2 DEF By, Holds
  <2> QED
    BY <2>1, <2>3, <1>f, <1>g
<1>21. ASSUME NEW p \in Pids, Putting(p), Acks(p) \/ Readies(p),
              UNCHANGED <<limit, putlock, supRel, state, shrinks, pool>>
       PROVE  Balance'
  <2>1. UNCHANGED <<rhPc, rhJob, client, value, workerPid>>
    BY <1>21, <1>a, PuttingKeeps DEF jobVars, rhVars
  <2>2. CASE Acks(p)
    <3>1. Msg("ACK", wjob[p], p).type # "READY"
      BY DEF Msg
    <3> QED
      BY <1>21, <2>1, <2>2, <3>1, <1>h DEF Acks
  <2>3. CASE Readies(p)
    <3>1. PICK m : m = Msg("READY", wjob[p], p)
      OBVIOUS
    <3>2. m.type = "READY" /\ m.job = wjob[p] /\ m.pid = p
      BY <3>1 DEF Msg
    <3>3. /\ outqueue' = Append(outqueue, m)
          /\ \A q \in Pids : wjob'[q] = IF q = p THEN NoJob ELSE wjob[q]
      BY <2>3, <1>a, <3>1 DEF Readies, TypeOK, WorkerType
    <3>4. Msgs(outqueue') = Msgs(outqueue) \cup {m}
      BY <1>a, <3>3, MsgsFacts
    <3>5. \A k, q : ReadyBy(outqueue', k, q) => ReadyBy(outqueue, k, q)
                                                \/ (k = wjob[p] /\ q = p)
      BY <3>2, <3>4 DEF ReadyBy, IsReady
    <3>6. \A k \in Jobs, q \in Pids : By(k, q)' => By(k, q)
      BY <2>1, <3>3, <3>5, PoolAssumption DEF By, Holds
    <3> QED
      BY <1>21, <2>1, <3>6, <1>f, <1>g
  <2> QED
    BY <1>21, <2>2, <2>3
<1>22. ASSUME NEW p \in Pids, Putting(p), Calm \/ Acks(p) \/ Readies(p) PROVE Balance'
  <2>1. CASE ShrinkTerminate
    BY <2>1, <1>10
  <2>2. CASE ~ShrinkTerminate
    <3>1. UNCHANGED <<limit, putlock, supRel, state, shrinks, pool>>
      BY <1>22, <2>2 DEF Putting, WorkerAck, WorkerReady, WorkerDeath, WorkerCrash,
         TerminateJob, envVars, boundVars, slotVars, threadVars, supVars
    <3>2. UNCHANGED value
      BY <1>22, <1>a, PuttingKeeps DEF jobVars
    <3> QED
      BY <1>22, <3>1, <3>2, <1>d, <1>21 DEF slotVars
  <2> QED
    BY <2>1, <2>2
<1>23. ASSUME RhOnAck PROVE Balance'
  <2>1. PICK j \in Jobs, p \in Pids : j = Head(outqueue).job /\ p = Head(outqueue).pid
    BY <1>23, <1>a, OutHead DEF RhOnAck, RhTakes
  <2>2. /\ outqueue # <<>> /\ outqueue' = Tail(outqueue) /\ Head(outqueue).type = "ACK"
        /\ UNCHANGED <<limit, putlock, supRel, state, shrinks, pool, client, value, wjob>>
        /\ rhPc # "set" /\ rhPc' # "set"
        /\ workerPid' = workerPid \/ workerPid' = [workerPid EXCEPT ![j] = p]
    BY <1>23, <2>1 DEF RhOnAck, RhTakes, RhNext, Ack, envVars, boundVars, slotVars, supVars,
       workerVars
  <2>3. Msgs(outqueue) = {Head(outqueue)} \cup Msgs(outqueue')
    BY <1>a, <2>2, MsgsFacts
  <2>4. Holds(j, p)
    BY <1>a, <2>1, <2>2, <2>3 DEF AckInv, AckBacked
  <2>5. \A k, q : Holds(k, q)' => Holds(k, q)
    BY <2>2, <2>3 DEF Holds, ReadyBy
  <2>6. \A k \in Jobs : workerPid'[k] = workerPid[k] \/ (k = j /\ workerPid'[k] = p)
    BY <1>a, <2>2 DEF TypeOK, JobType
  <2>7. \A k \in Jobs, q \in Pids : By(k, q)' => By(k, q)
    BY <2>4, <2>5, <2>6 DEF By
  <2> QED
    BY <2>2, <2>7, <1>f, <1>g
<1>24. ASSUME RhOnReady PROVE Balance'
  <2>1. PICK j \in Jobs : j = Head(outqueue).job
    BY <1>24, <1>a, OutHead DEF RhOnReady, RhTakes
  <2>2. /\ outqueue # <<>> /\ outqueue' = Tail(outqueue) /\ IsReady(Head(outqueue), j)
        /\ UNCHANGED <<limit, supRel, state, shrinks, pool, client, value, wjob, workerPid>>
        /\ rhPc = "poll"
        /\ Lookup(j) \/ (rhPc' = "credit" /\ UNCHANGED putlock)
    BY <1>24, <2>1 DEF RhOnReady, RhTakes, envVars, boundVars, supVars, workerVars,
       jobVars, IsReady
  <2>3. Msgs(outqueue) = {Head(outqueue)} \cup Msgs(outqueue')
    BY <1>a, <2>2, MsgsFacts
  <2>4. \A k \in Jobs, q \in Pids : By(k, q)' => By(k, q)
    BY <2>2, <2>3 DEF By, Holds, ReadyBy
  <2>5. CASE Lookup(j)
    <3>1. j \in cache => ~Ready(j) /\ Submitted(j)
      BY <1>a, <2>2, ReadyFresh
    <3> QED
      BY <2>2, <2>4, <2>5, <3>1, <1>i
  <2>6. CASE rhPc' = "credit" /\ UNCHANGED putlock
    BY <2>2, <2>4, <2>6, <1>f, <1>g
  <2> QED
    BY <2>2, <2>5, <2>6
<1>j. ASSUME RhCredit \/ RhCreditFails PROVE Balance'
  <2>1. /\ UNCHANGED <<limit, supRel, state, shrinks, pool, client, value, wjob, workerPid,
                       outqueue>>
        /\ rhPc = "credit"
        /\ Lookup(rhJob) \/ (rhPc' # "set" /\ UNCHANGED putlock)
    BY <1>j DEF RhCredit, RhCreditFails, RhNext, envVars, boundVars, slotVars, supVars,
       workerVars, jobVars, queueVars
  <2>2. \A k \in Jobs, q \in Pids : By(k, q)' => By(k, q)
    BY <2>1 DEF By, Holds
  <2>3. CASE Lookup(rhJob)
    <3>1. rhJob \in Jobs
      BY <1>a, <2>1 DEF TypeOK, RhType
    <3>2. rhJob \in cache => ~Ready(rhJob) /\ Submitted(rhJob)
      BY <1>a, <2>1, CreditFresh
    <3> QED
      BY <2>1, <2>2, <2>3, <3>1, <3>2, <1>i
  <2>4. CASE rhPc' # "set" /\ UNCHANGED putlock
    BY <2>1, <2>2, <2>4, <1>f, <1>g
  <2> QED
    BY <2>1, <2>3, <2>4
<1>25. ASSUME RhSet PROVE Balance'
  <2>1. /\ UNCHANGED <<limit, putlock, supRel, state, shrinks, pool, client, wjob, workerPid,
                       outqueue>>
        /\ rhJob \in Jobs /\ rhPc = "set" /\ rhPc' # "set"
        /\ Set(rhJob, "result")
    BY <1>25, <1>a DEF RhSet, RhNext, envVars, boundVars, slotVars, supVars, workerVars,
       queueVars, TypeOK, RhType
  <2>2. \A k \in Jobs : value'[k] = IF k = rhJob THEN "result" ELSE value[k]
    BY <1>a, <2>1 DEF Set, TypeOK, JobType
  <2>3. Owing' = Owing
    BY <2>1, <2>2 DEF Owing, Submitted, Freed
  <2>4. Paid' \subseteq Paid
    BY <2>1, <2>3 DEF Paid, Owing, By, Holds
  <2> QED
    BY <2>1, <2>3, <2>4, BalanceFrame
<1>26. ASSUME Busy, rhPc # "crashed" PROVE Balance'
  BY <1>11, <1>16, <1>17, <1>18, <1>19, <1>20, <1>22, <1>23, <1>24, <1>j, <1>25, <1>7,
     <1>26
  DEF Busy
<1>27. ASSUME Calm, ClientStep, ~Busy PROVE Balance'
  BY <1>2, <1>9, <1>10, <1>12, <1>22, <1>27 DEF ClientStep, Busy, Putting
<1>28. ASSUME Calm, NEW p \in Pids, WorkerStep(p) \/ WorkerCrash(p), ~Busy PROVE Balance'
  BY <1>3, <1>22, <1>28 DEF WorkerStep, Busy, Putting
<1>29. ASSUME Calm, RhStep, ~Busy PROVE Balance'
  BY <1>4, <1>7, <1>8, <1>29 DEF RhStep, Busy
<1>30. ASSUME Calm, SupStep PROVE Balance'
  BY <1>5, <1>6, <1>13, <1>14, <1>15, <1>30 DEF SupStep
<1>31. ThStep => Busy
  BY DEF ThStep, Busy
<1>32. CASE UNCHANGED vars
  <2>1. Calm
    BY <1>32, QuietCalm DEF vars, envVars, threadVars, rhVars, workerVars, HandlerCalm
  <2> QED
    BY <2>1, <1>1, <1>32
<1>33. CASE Next
  BY <1>2, <1>26, <1>27, <1>28, <1>29, <1>30, <1>31, <1>33, <1>a, CalmOrBusy DEF Next
<1> QED
  BY <1>32, <1>33

SlotAll ==
  CacheInv /\ Books /\ ClosedInv /\ RoundInv /\ FlagInv /\ Balance

\* The slots are balanced initially: the semaphore holds them all.
LEMMA SlotInit == Init => SlotAll
<1> SUFFICES ASSUME Init PROVE SlotAll
  OBVIOUS
<1>1. CacheInv
  BY DEF Init, CacheInv, CacheSubmitted, CacheDrained
<1>2. Msgs(taskqueue) = {} /\ Msgs(outqueue) = {}
  BY DEF Init, Msgs
<1>3. ClosedInv
  BY <1>2 DEF Init, ClosedInv
<1>4. RoundInv
  BY DEF Init, RoundInv
<1>5. FlagInv
  BY DEF Init, FlagInv, DroppedInv, ReadySubmitted, Ready
<1>6. Owing = {} /\ Paid = {}
  BY DEF Init, Owing, Paid, Submitted
<1>7. Balance
  <2>1. limit = putlock /\ supRel = 0 /\ limit \in Int
    BY PoolAssumption DEF Init
  <2> QED
    BY <1>6, <2>1, FS_EmptySet DEF Balance
<1> QED
  BY <1>1, <1>3, <1>4, <1>5, <1>7, BooksInit DEF SlotAll

\* They stay balanced.
LEMMA SlotNext == TypeOK /\ LossAll /\ SlotAll /\ [Next]_vars => SlotAll'
<1> SUFFICES ASSUME TypeOK, LossAll, SlotAll, [Next]_vars PROVE SlotAll'
  OBVIOUS
<1>1. Sound /\ SpotInv /\ Books /\ CacheInv /\ ClosedInv /\ RoundInv /\ FlagInv
  BY DEF SlotAll, Books, SpotAll, Sound
<1>2. Books' /\ CacheInv'
  BY <1>1, BooksNext, CacheNext
<1>3. ClosedInv' /\ RoundInv' /\ FlagInv'
  BY <1>1, ClosedNext, RoundNext, FlagNext
<1>4. Balance'
  BY <1>1, BalanceNext
<1> QED
  BY <1>2, <1>3, <1>4 DEF SlotAll

\* A balance of the slots says that none is lost: the jobs given up owe theirs to
\* the joined workers they were with, but for one whose result is being set.
LEMMA BalanceConserves == TypeOK /\ LossAll /\ SlotAll => SlotsConserved
<1> SUFFICES ASSUME TypeOK, LossAll, SlotAll, Counts
             PROVE  LET gone == {j \in Jobs : value[j] \in {"lost", "terminated"}} IN
                    limit + Cardinality({workerPid[j] : j \in gone})
                      <= putlock + supRel + Cardinality(gone) + Cardinality({j \in Jobs :
                           /\ client[j] = "submitted"
                           /\ ~Ready(j) \/ value[j] = "putfail"})
  BY DEF SlotsConserved, Counts
<1>1. PICK gone : gone = {j \in Jobs : value[j] \in {"lost", "terminated"}}
  OBVIOUS
<1>2. PICK open : open = {j \in Jobs : client[j] = "submitted"
                                       /\ (~Ready(j) \/ value[j] = "putfail")}
  OBVIOUS
<1>3. PICK at : at = {workerPid[j] : j \in gone}
  OBVIOUS
<1>0. /\ SpotInv /\ AckInv /\ SubmittedFinite /\ ReadySubmitted /\ DroppedInv
      /\ limit \in Int /\ putlock \in Int /\ supRel \in Nat
      /\ limit + Cardinality(Paid) <= putlock + supRel + Cardinality(Owing)
  BY DEF SlotAll, Books, SpotAll, FlagInv, Balance, TypeOK, SlotType, SupType
<1>4. gone \subseteq SubmittedJobs /\ open \subseteq SubmittedJobs
  BY <1>0, <1>1, <1>2 DEF ReadySubmitted, Ready, SubmittedJobs, Submitted
<1>5. /\ IsFiniteSet(gone) /\ Cardinality(gone) \in Nat
      /\ IsFiniteSet(open) /\ Cardinality(open) \in Nat
      /\ IsFiniteSet(Owing) /\ Cardinality(Owing) \in Nat
      /\ IsFiniteSet(Paid) /\ Cardinality(Paid) \in Nat
  BY <1>0, <1>4, Sizes, FS_Subset, FS_CardinalityType DEF SubmittedFinite
<1>6. PICK kept : kept = gone \cap Owing
  OBVIOUS
<1>7. PICK set : set = gone \ Owing
  OBVIOUS
<1>8. /\ IsFiniteSet(kept) /\ Cardinality(kept) \in Nat
      /\ IsFiniteSet(set) /\ Cardinality(set) \in Nat
      /\ Cardinality(set) = Cardinality(gone) - Cardinality(kept)
  BY <1>5, <1>6, <1>7, FS_Difference, FS_Intersection, FS_CardinalityType
<1>9. Cardinality(Owing) <= Cardinality(kept) + Cardinality(open)
  <2>1. Owing \subseteq kept \cup open
    BY <1>1, <1>2, <1>6 DEF Owing, Ready, Submitted, TypeOK, JobType, Values
  <2>2. /\ IsFiniteSet(kept \cup open)
        /\ Cardinality(kept \cup open) =
             Cardinality(kept) + Cardinality(open) - Cardinality(kept \cap open)
    BY <1>5, <1>8, FS_Union
  <2>3. Cardinality(kept \cap open) \in Nat
    BY <1>8, FS_Intersection, FS_CardinalityType
  <2>4. Cardinality(Owing) <= Cardinality(kept \cup open)
    BY <2>1, <2>2, FS_Subset
  <2>5. Cardinality(kept \cup open) \in Nat
    BY <2>2, FS_CardinalityType
  <2> QED
    BY <1>5, <1>8, <2>2, <2>3, <2>4, <2>5
<1>10. PICK rest : rest = {workerPid[j] : j \in set}
  OBVIOUS
<1>11. IsFiniteSet(rest) /\ Cardinality(rest) \in Nat /\ Cardinality(rest) <= Cardinality(set)
  <2>1. \A t \in rest : \E x \in set : workerPid[x] = t
    BY <1>10
  <2> QED
    BY <1>8, <2>1, ImageBound
<1>12. at \subseteq Paid \cup rest
  <2> SUFFICES ASSUME NEW j \in gone PROVE workerPid[j] \in Paid \cup rest
    BY <1>3
  <2>1. CASE j \in set
    BY <1>10, <2>1
  <2>2. CASE j \notin set
    <3>1. j \in Owing /\ j \in Jobs /\ value[j] \in {"lost", "terminated"}
      BY <1>1, <1>7, <2>2
    <3>2. workerPid[j] \in Pids \ pool
      BY <1>0, <3>1 DEF DroppedInv, LossAll, LossInv, LossIsReal, TypeOK, JobType
    <3> QED
      BY <3>1, <3>2 DEF Paid, By
  <2> QED
    BY <2>1, <2>2
<1>13. Cardinality(at) \in Nat /\ Cardinality(at) <= Cardinality(Paid) + Cardinality(rest)
  <2>1. /\ IsFiniteSet(Paid \cup rest)
        /\ Cardinality(Paid \cup rest) =
             Cardinality(Paid) + Cardinality(rest) - Cardinality(Paid \cap rest)
    BY <1>5, <1>11, FS_Union
  <2>2. Cardinality(Paid \cap rest) \in Nat
    BY <1>5, FS_Intersection, FS_CardinalityType
  <2>3. Cardinality(at) \in Nat /\ Cardinality(at) <= Cardinality(Paid \cup rest)
    BY <1>12, <2>1, FS_Subset, FS_CardinalityType
  <2> QED
    BY <1>5, <1>11, <2>1, <2>2, <2>3
<1>14. limit + Cardinality(at) <= putlock + supRel + Cardinality(gone) + Cardinality(open)
  BY <1>0, <1>5, <1>8, <1>9, <1>11, <1>13
<1> QED
  BY <1>1, <1>2, <1>3, <1>14

\* No slot of the putlock is lost while the pool runs and is not shrunk, but those of
\* tasks that could not be pickled and of further jobs lost with one worker:
\* SlotsConserved is an invariant.
THEOREM SlotsAreConserved == Spec => []SlotsConserved
BY SlotInit, SlotNext, BalanceConserves, TypeCorrect, LossesHold, PTL DEF Spec

\* Types, cache, losses, places and slots together: PoolSafe is an invariant.
THEOREM PoolIsSafe == Spec => []PoolSafe
BY TypeCorrect, CacheDrains, LossesAreReal, JobsAreInOnePlace, SlotsAreConserved, PTL
DEF PoolSafe

==============================================================================
