-------------------------------- MODULE Pool --------------------------------
(***************************************************************************)
(* The process pool of billiard/pool.py with its helper threads, for jobs  *)
(* submitted by apply_async: the client threads, the TaskHandler, the      *)
(* worker processes, the ResultHandler and the Supervisor, which share the *)
(* job cache, the queues, the list of workers and the putlock semaphore.   *)
(*                                                                         *)
(* One action is one step of one thread or process between two points at   *)
(* which another one can observe or change the state it uses.  The values  *)
(* of arguments and results are left out: "result" stands for whatever the *)
(* function returned or raised.                                            *)
(***************************************************************************)
EXTENDS Integers, Sequences, FiniteSets

CONSTANTS
  Jobs,         \* the jobs the client threads submit, one apply_async each
  NoJob,        \* stands for no job
  Unpicklable,  \* the jobs whose task cannot be written to the inqueue
  TaskJob,      \* the job whose number happens to be the constant TASK, or NoJob
  Processes,    \* Pool(processes=...)
  MaxTasks,     \* Pool(maxtasksperchild=...), 0 for None
  PutLocks,     \* Pool(putlocks=...): apply_async waits for a slot
  MayLeave,     \* a job may make its worker leave: SystemExit, memory limit
  MaxPid,       \* bound: worker processes ever created
  MaxCrash,     \* bound: workers killed from outside (SIGKILL, segfault)
  MaxTerm,      \* bound: calls of terminate_job
  MaxGrow,      \* bound: calls of grow
  MaxShrink,    \* bound: calls of shrink
  MayClose      \* whether close() is called

ASSUME PoolAssumption ==
  /\ NoJob \notin Jobs
  /\ Unpicklable \subseteq Jobs /\ TaskJob \in Jobs \cup {NoJob}
  /\ Processes \in Nat /\ MaxTasks \in Nat
  /\ MaxPid \in Nat /\ Processes <= MaxPid
  /\ MaxCrash \in Nat /\ MaxTerm \in Nat /\ MaxGrow \in Nat /\ MaxShrink \in Nat
  /\ PutLocks \in BOOLEAN /\ MayLeave \in BOOLEAN /\ MayClose \in BOOLEAN

Pids == 1..MaxPid
NoPid == 0

VARIABLES
  state,       \* Pool._state: "RUN" or "CLOSE"
  processes,   \* Pool._processes
  putlock,     \* LaxBoundedSemaphore._value
  limit,       \* LaxBoundedSemaphore._initial_value
  client,      \* job -> where its apply_async call is
  cache,       \* keys of Pool._cache
  accepted,    \* jobs with ApplyResult._accepted
  workerPid,   \* job -> ApplyResult._worker_pid
  value,       \* job -> ApplyResult._value; "unset" until the event is set
  lost,        \* job -> _worker_lost: "no", "fresh", or "elapsed" when older
               \* than _lost_worker_timeout
  taskqueue,   \* Pool._taskqueue, written by clients, read by TaskHandler
  inqueue,     \* the pipe from TaskHandler to the workers
  outqueue,    \* the pipe from the workers to ResultHandler
  rlock,       \* holder of inqueue._rlock
  wlock,       \* the worker that was killed while it held outqueue._wlock
  locked,      \* workers killed while they held the lock of their counter
  pool,        \* Pool._pool: the processes in it, listed by creation
  wpc, wjob, completed,   \* worker -> control point, last task, completed
  counter,     \* worker -> its shared on_ready_counter
  counters,    \* keys of _on_ready_counters (and of _poolctrl)
  workerTask,  \* worker -> job: ResultHandler's worker_tasks/task_workers
  fired,       \* workers whose handler for TERM_SIGNAL has run
  terminated,  \* workers with _job_terminated
  thPc, thIdx,            \* TaskHandler
  rhPc, rhFin, rhJob, rhOwner,   \* ResultHandler
  supPc, supMark, supNew, supRel, supPid,   \* Supervisor
  shrinking,   \* worker that shrink() is about to terminate
  crashes, terms, grows, shrinks,   \* how often each bounded event happened
  ensured      \* history: workers that left because all was consumed

jobVars    == <<cache, accepted, workerPid, value, lost>>
slotVars   == <<putlock, limit>>
queueVars  == <<taskqueue, inqueue, outqueue>>
workerVars == <<wpc, wjob, completed, rlock, wlock, locked, fired, ensured>>
creditVars == <<counter, counters, workerTask>>
supVars    == <<supPc, supMark, supNew, supRel, supPid>>
thVars     == <<thPc, thIdx>>
rhVars     == <<rhPc, rhFin, rhJob, rhOwner>>
threadVars == <<thVars, rhVars, supVars>>
boundVars  == <<crashes, terms, grows, shrinks>>
envVars    == <<state, processes, client, shrinking, terminated, boundVars>>
vars == <<envVars, threadVars, slotVars, jobVars, queueVars, pool,
          workerVars, creditVars>>

Ready(j) == value[j] # "unset"

Task(j) == [type |-> "TASK", job |-> j]
Sentinel == [type |-> "NONE", job |-> NoJob]

\* Messages on the outqueue; "PART" is one that was only written in part.  The
\* pid of a READY is not in the real message: it only identifies the sender
\* for the properties.
Msg(type, j, p) == [type |-> type, job |-> j, pid |-> p]

(***************************************************************************)
(* ApplyResult                                                             *)
(***************************************************************************)

\* Mutant of Set: the test of _accepted is inverted.
SetInverted(j, v) ==
  /\ value' = [value EXCEPT ![j] = v]
  /\ cache' = IF j \in accepted THEN cache ELSE cache \ {j}

\* ApplyResult._set, under the job's mutex.
Set(j, v) ==
  /\ value' = [value EXCEPT ![j] = v]
  /\ cache' = IF j \in accepted THEN cache \ {j} ELSE cache

\* ApplyResult._ack, under the job's mutex, without synack and callbacks.
Ack(j, p) ==
  /\ accepted' = accepted \cup {j}
  /\ workerPid' = [workerPid EXCEPT ![j] = p]
  /\ cache' = IF Ready(j) THEN cache \ {j} ELSE cache

(***************************************************************************)
(* LaxBoundedSemaphore                                                     *)
(***************************************************************************)

\* LaxBoundedSemaphore.release
Release == putlock' = IF putlock < limit THEN putlock + 1 ELSE putlock

\* LaxBoundedSemaphore.clear
Clear == putlock' = IF putlock < limit THEN limit ELSE putlock

(***************************************************************************)
(* Client threads                                                          *)
(***************************************************************************)

\* apply_async up to the wait for a slot.
ApplyCheck(j) ==
  /\ client[j] = "new"
  /\ client' = [client EXCEPT ![j] = IF state = "RUN" THEN "checked"
                                                      ELSE "refused"]
  /\ UNCHANGED <<threadVars, slotVars, jobVars, queueVars, workerVars,
                 creditVars, boundVars, state, processes, pool, terminated,
                 shrinking>>

\* The rest of apply_async: take a slot, enter the cache, queue the task.
ApplySubmit(j) ==
  /\ client[j] = "checked"
  /\ IF PutLocks THEN putlock > 0 /\ putlock' = putlock - 1
                 ELSE UNCHANGED putlock
  /\ client' = [client EXCEPT ![j] = "submitted"]
  /\ cache' = cache \cup {j}
  /\ taskqueue' = Append(taskqueue, Task(j))
  /\ UNCHANGED <<threadVars, workerVars, creditVars, boundVars, state,
                 processes, limit, accepted, workerPid, value, lost,
                 inqueue, outqueue, pool, terminated, shrinking>>

\* close()
Close ==
  /\ MayClose
  /\ state = "RUN"
  /\ state' = "CLOSE"
  /\ Clear
  /\ taskqueue' = Append(taskqueue, Sentinel)
  /\ UNCHANGED <<threadVars, jobVars, workerVars, creditVars, boundVars,
                 processes, limit, client, inqueue, outqueue, pool,
                 terminated, shrinking>>

\* grow(1)
Grow ==
  /\ grows < MaxGrow
  /\ grows' = grows + 1
  /\ processes' = processes + 1
  /\ limit' = limit + 1
  /\ putlock' = putlock + 1
  /\ UNCHANGED <<threadVars, jobVars, queueVars, workerVars, creditVars,
                 state, client, pool, terminated, shrinking, crashes, terms,
                 shrinks>>

\* _worker_active: some job in the cache was accepted by this worker.
WorkerActive(p) == \E j \in cache : workerPid[j] = p

\* shrink(1) up to the blocking acquire of LaxBoundedSemaphore.shrink, for
\* the first worker that _iterinactive yields.
ShrinkBegin ==
  /\ shrinks < MaxShrink
  /\ shrinking = NoPid
  /\ \E p \in pool :
       /\ ~WorkerActive(p)
       /\ \A q \in pool : q < p => WorkerActive(q)
       /\ shrinking' = p
  /\ shrinks' = shrinks + 1
  /\ processes' = processes - 1
  /\ limit' = limit - 1
  /\ UNCHANGED <<threadVars, jobVars, queueVars, workerVars, creditVars,
                 state, putlock, client, pool, terminated, crashes, terms,
                 grows>>

(***************************************************************************)
(* Worker processes                                                        *)
(***************************************************************************)

Serving   == {"idle", "recv", "got", "run", "sent"}
Alive     == Serving \cup {"ensure", "death", "dying"}

\* What worker p writes to the outqueue next.
Outgoing(p) ==
  IF wpc[p] = "got" THEN Msg("ACK", wjob[p], p)
  ELSE IF wpc[p] = "run" THEN Msg("READY", wjob[p], p)
  ELSE Msg("DEATH", NoJob, p)

\* SimpleQueue.put on the outqueue.  Taking the write lock, writing and giving
\* the lock back are one step: while its holder lives the others only wait.
Put(p) ==
  /\ wlock = NoPid
  /\ outqueue' = Append(outqueue, Outgoing(p))

\* A worker dies inside put: nobody gives the write lock back, and its message
\* was not written yet, or in part, or completely.
DiesInPut(p) ==
  /\ wpc[p] \in {"got", "run", "death"}
  /\ wlock = NoPid
  /\ wlock' = p
  /\ \/ UNCHANGED <<outqueue, wjob>>
     \/ outqueue' = Append(outqueue, Msg("PART", NoJob, p)) /\ UNCHANGED wjob
     \/ /\ outqueue' = Append(outqueue, Outgoing(p))
        /\ wjob' = [wjob EXCEPT ![p] = IF wpc[p] = "run" THEN NoJob ELSE @]
  /\ UNCHANGED locked

\* A worker dies while it reads its on_ready_counter, under that one's lock.
DiesAtCounter(p) ==
  /\ wpc[p] = "ensure"
  /\ locked' = locked \cup {p}
  /\ UNCHANGED <<outqueue, wjob, wlock>>

\* Worker p is killed at once, with whatever locks it holds; a read lock, too,
\* stays taken.
Killed(p) ==
  /\ wpc' = [wpc EXCEPT ![p] = "exited"]
  /\ \/ UNCHANGED <<outqueue, wjob, wlock, locked>>
     \/ DiesInPut(p)
     \/ DiesAtCounter(p)
  /\ UNCHANGED rlock

\* TERM_SIGNAL reaches worker p.  The first time its handler raises
\* SystemExit: a lock held is released, a job at hand is abandoned without a
\* result and workloop's finally clause waits for the counter - unless the job
\* swallows the exception and goes on.  A worker already waiting goes on to
\* its DEATH message.  The handler has then been reset to the default, so a
\* second signal kills.  While the DEATH message is put the signal is blocked;
\* just before that, and after it, it ends the worker.
TermEffect(p) ==
  \/ /\ wpc[p] \in Serving /\ p \notin fired
     /\ \/ /\ wpc' = [wpc EXCEPT ![p] = "ensure"]
           /\ rlock' = IF rlock = p THEN NoPid ELSE rlock
        \/ wpc[p] = "run" /\ UNCHANGED <<wpc, rlock>>
     /\ fired' = fired \cup {p}
     /\ UNCHANGED <<outqueue, wjob, wlock, locked>>
  \/ /\ wpc[p] = "ensure" /\ p \notin fired
     /\ wpc' = [wpc EXCEPT ![p] = "death"]
     /\ fired' = fired \cup {p}
     /\ UNCHANGED <<outqueue, wjob, rlock, wlock, locked>>
  \/ /\ wpc[p] \in Serving \cup {"ensure"} /\ p \in fired
     /\ Killed(p)
     /\ UNCHANGED fired
  \/ /\ wpc[p] \in {"death", "dying"}
     /\ wpc' = [wpc EXCEPT ![p] = "exited"]
     /\ UNCHANGED <<fired, outqueue, wjob, rlock, wlock, locked>>
  \/ /\ wpc[p] = "death" \/ wpc[p] \notin Alive
     /\ UNCHANGED <<wpc, fired, outqueue, wjob, rlock, wlock, locked>>

\* The rest of shrink: the slot is taken and the worker terminated.
ShrinkTerminate ==
  /\ shrinking # NoPid
  /\ putlock > 0
  /\ putlock' = putlock - 1
  /\ shrinking' = NoPid
  /\ TermEffect(shrinking)
  /\ UNCHANGED <<threadVars, jobVars, creditVars, boundVars, state,
                 processes, limit, client, taskqueue, inqueue, pool,
                 completed, ensured, terminated>>

\* terminate_job(pid): signal the worker if it is in the pool, and mark it.
TerminateJob(p) ==
  /\ terms < MaxTerm
  /\ terms' = terms + 1
  /\ p \in pool
  /\ wpc[p] # "unstarted"
  /\ TermEffect(p)
  /\ terminated' = terminated \cup {p}
  /\ UNCHANGED <<threadVars, slotVars, jobVars, creditVars, state,
                 processes, client, taskqueue, inqueue, pool, completed,
                 ensured, shrinking, crashes, grows, shrinks>>

\* wait_for_job: SimpleQueue.get_payload takes the read lock ...
WorkerLock(p) ==
  /\ wpc[p] = "idle"
  /\ rlock = NoPid
  /\ rlock' = p
  /\ wpc' = [wpc EXCEPT ![p] = "recv"]
  /\ UNCHANGED <<envVars, threadVars, slotVars, jobVars, queueVars,
                 creditVars, pool, wjob, completed, wlock, locked, fired,
                 ensured>>

\* Mutant of WorkerReceive: the message is read but not consumed.
WorkerReceivePeeks(p) ==
  /\ wpc[p] = "recv"
  /\ inqueue # <<>>
  /\ rlock' = NoPid
  /\ wpc' = [wpc EXCEPT ![p] = "got"]
  /\ wjob' = [wjob EXCEPT ![p] = Head(inqueue).job]
  /\ UNCHANGED <<envVars, threadVars, slotVars, jobVars, queueVars,
                 creditVars, pool, completed, wlock, locked, fired, ensured>>

\* ... and holds it while it blocks for a message.  A sentinel makes the
\* worker leave its loop.
WorkerReceive(p) ==
  /\ wpc[p] = "recv"
  /\ inqueue # <<>>
  /\ inqueue' = Tail(inqueue)
  /\ rlock' = NoPid
  /\ IF Head(inqueue) = Sentinel
     THEN wpc' = [wpc EXCEPT ![p] = "ensure"] /\ UNCHANGED wjob
     ELSE /\ wpc' = [wpc EXCEPT ![p] = "got"]
          /\ wjob' = [wjob EXCEPT ![p] = Head(inqueue).job]
  /\ UNCHANGED <<envVars, threadVars, slotVars, jobVars, creditVars,
                 taskqueue, outqueue, pool, completed, wlock, locked, fired,
                 ensured>>

\* put((ACK, ...)), after which the job runs.
WorkerAck(p) ==
  /\ wpc[p] = "got"
  /\ Put(p)
  /\ wpc' = [wpc EXCEPT ![p] = "run"]
  /\ UNCHANGED <<envVars, threadVars, slotVars, jobVars, creditVars,
                 taskqueue, inqueue, pool, wjob, completed, rlock, wlock,
                 locked, fired, ensured>>

\* The job ends: put((READY, ...)).
WorkerReady(p) ==
  /\ wpc[p] = "run"
  /\ Put(p)
  /\ wpc' = [wpc EXCEPT ![p] = "sent"]
  /\ wjob' = [wjob EXCEPT ![p] = NoJob]
  /\ UNCHANGED <<envVars, threadVars, slotVars, jobVars, creditVars,
                 taskqueue, inqueue, pool, completed, rlock, wlock, locked,
                 fired, ensured>>

\* The job raises in a worker whose handler for TERM_SIGNAL has run: whatever
\* the exception, nothing is reported and the worker leaves.
WorkerAbandon(p) ==
  /\ wpc[p] = "run"
  /\ p \in fired
  /\ wpc' = [wpc EXCEPT ![p] = "ensure"]
  /\ UNCHANGED <<envVars, threadVars, slotVars, jobVars, queueVars,
                 creditVars, pool, wjob, completed, rlock, wlock, locked,
                 fired, ensured>>

\* It is counted, then the worker goes back to the loop, or leaves it when
\* maxtasks is reached, the memory limit exceeded or the job raised SystemExit.
WorkerCount(p) ==
  /\ wpc[p] = "sent"
  /\ completed' = [completed EXCEPT ![p] = @ + 1]
  /\ \/ /\ completed[p] + 1 # MaxTasks
        /\ wpc' = [wpc EXCEPT ![p] = "idle"]
     \/ /\ MayLeave \/ completed[p] + 1 = MaxTasks
        /\ wpc' = [wpc EXCEPT ![p] = "ensure"]
  /\ UNCHANGED <<envVars, threadVars, slotVars, jobVars, queueVars,
                 creditVars, pool, wjob, rlock, wlock, locked, fired, ensured>>

\* Mutant of WorkerEnsure: off by one.
WorkerEnsureEarly(p) ==
  /\ wpc[p] = "ensure"
  /\ counter[p] + 1 >= completed[p]
  /\ ensured' = ensured \cup {p}
  /\ wpc' = [wpc EXCEPT ![p] = "death"]
  /\ UNCHANGED <<envVars, threadVars, slotVars, jobVars, queueVars,
                 creditVars, pool, wjob, completed, rlock, wlock, locked,
                 fired>>

\* _ensure_messages_consumed finds the counter caught up; _do_exit follows.
WorkerEnsure(p) ==
  /\ wpc[p] = "ensure"
  /\ counter[p] >= completed[p]
  /\ ensured' = ensured \cup {p}
  /\ wpc' = [wpc EXCEPT ![p] = "death"]
  /\ UNCHANGED <<envVars, threadVars, slotVars, jobVars, queueVars,
                 creditVars, pool, wjob, completed, rlock, wlock, locked,
                 fired>>

\* The same when all retries of _ensure_messages_consumed are used up.
WorkerEnsureTimeout(p) ==
  /\ wpc[p] = "ensure"
  /\ counter[p] < completed[p]
  /\ wpc' = [wpc EXCEPT ![p] = "death"]
  /\ UNCHANGED <<envVars, threadVars, slotVars, jobVars, queueVars,
                 creditVars, pool, wjob, completed, rlock, wlock, locked,
                 fired, ensured>>

\* _do_exit: put((DEATH, ...)), with TERM_SIGNAL blocked.
WorkerDeath(p) ==
  /\ wpc[p] = "death"
  /\ Put(p)
  /\ wpc' = [wpc EXCEPT ![p] = "dying"]
  /\ UNCHANGED <<envVars, threadVars, slotVars, jobVars, creditVars,
                 taskqueue, inqueue, pool, wjob, completed, rlock, wlock,
                 locked, fired, ensured>>

\* os._exit, one second after the DEATH message.
WorkerExit(p) ==
  /\ wpc[p] = "dying"
  /\ wpc' = [wpc EXCEPT ![p] = "exited"]
  /\ UNCHANGED <<envVars, threadVars, slotVars, jobVars, queueVars,
                 creditVars, pool, wjob, completed, rlock, wlock, locked,
                 fired, ensured>>

\* The worker is killed from outside.
WorkerCrash(p) ==
  /\ crashes < MaxCrash
  /\ wpc[p] \in Alive
  /\ crashes' = crashes + 1
  /\ Killed(p)
  /\ UNCHANGED <<threadVars, slotVars, jobVars, creditVars, taskqueue,
                 inqueue, state, processes, client, pool, completed, fired,
                 ensured, terminated, shrinking, terms, grows, shrinks>>

(***************************************************************************)
(* TaskHandler                                                             *)
(***************************************************************************)

\* One round of body: pass the next task on.  When it cannot be pickled, body
\* takes the first two fields of the message for the job and its index: the
\* first is TASK, so the job of that number is failed if it is in the cache,
\* and the one whose task it was is left as it is.
ThPut ==
  /\ thPc = "get"
  /\ taskqueue # <<>>
  /\ Head(taskqueue) # Sentinel
  /\ taskqueue' = Tail(taskqueue)
  /\ LET j == Head(taskqueue).job IN
     IF j \in Unpicklable
     THEN /\ IF TaskJob \in cache THEN Set(TaskJob, "putfail")
                                  ELSE UNCHANGED <<value, cache>>
          /\ UNCHANGED inqueue
     ELSE /\ inqueue' = Append(inqueue, Task(j))
          /\ UNCHANGED <<value, cache>>
  /\ UNCHANGED <<envVars, threadVars, slotVars, workerVars, creditVars,
                 accepted, workerPid, lost, outqueue, pool>>

\* The sentinel ends body; tell_others first tells the ResultHandler, which
\* takes the write lock of the outqueue ...
ThTellResultHandler ==
  /\ thPc = "get"
  /\ wlock = NoPid
  /\ taskqueue # <<>>
  /\ Head(taskqueue) = Sentinel
  /\ taskqueue' = Tail(taskqueue)
  /\ outqueue' = Append(outqueue, Msg("NONE", NoJob, NoPid))
  /\ thPc' = "tell"
  /\ UNCHANGED <<envVars, slotVars, jobVars, workerVars, creditVars, rhVars,
                 supVars, inqueue, pool, thIdx>>

\* ... and then writes one sentinel for each process in the list, which the
\* Supervisor may be changing under the iteration.
ThTellWorkers ==
  /\ thPc = "tell"
  /\ IF thIdx < Cardinality(pool)
     THEN /\ inqueue' = Append(inqueue, Sentinel)
          /\ thIdx' = thIdx + 1
          /\ UNCHANGED thPc
     ELSE /\ thPc' = "done"
          /\ UNCHANGED <<inqueue, thIdx>>
  /\ UNCHANGED <<envVars, slotVars, jobVars, workerVars, creditVars, rhVars,
                 supVars, taskqueue, outqueue, pool>>

(***************************************************************************)
(* ResultHandler                                                           *)
(***************************************************************************)

\* Where the thread goes after a message: back to poll in body, on to
\* join_exited_workers in finish_at_shutdown.
RhNext == IF rhFin THEN "join" ELSE "poll"

RhTakes(type) ==
  /\ rhPc = "poll"
  /\ rhFin => cache # {}
  /\ outqueue # <<>>
  /\ Head(outqueue).type = type
  /\ outqueue' = Tail(outqueue)

\* on_ack
RhOnAck ==
  /\ RhTakes("ACK")
  /\ LET j == Head(outqueue).job
         p == Head(outqueue).pid
     IN /\ workerTask' = [workerTask EXCEPT ![p] = j]
        /\ IF j \in cache THEN Ack(j, p)
                          ELSE UNCHANGED <<accepted, workerPid, cache>>
  /\ rhPc' = RhNext
  /\ UNCHANGED <<envVars, slotVars, workerVars, thVars, supVars, value,
                 lost, taskqueue, inqueue, pool, counter, counters, rhFin,
                 rhJob, rhOwner>>

\* Half a message: recv blocks for the rest of it, which never comes.
RhOnPart ==
  /\ RhTakes("PART")
  /\ rhPc' = "stuck"
  /\ UNCHANGED <<envVars, slotVars, jobVars, workerVars, creditVars, thVars,
                 supVars, taskqueue, inqueue, pool, rhFin, rhJob, rhOwner>>

\* The end of on_ready but for _set: look the job up, free its slot.
Lookup(j) ==
  IF j \in cache
  THEN /\ rhPc' = "set" /\ rhJob' = j
       /\ IF Ready(j) THEN UNCHANGED putlock ELSE Release
  ELSE rhPc' = RhNext /\ rhJob' = NoJob /\ UNCHANGED putlock

\* on_ready up to the test of _on_ready_counters: the worker recorded for the
\* job is looked up and its record removed.
RhOnReady ==
  /\ RhTakes("READY")
  /\ LET j == Head(outqueue).job
         owner == {p \in Pids : workerTask[p] = j} IN
     /\ workerTask' = [p \in Pids |-> IF p \in owner THEN NoJob
                                                     ELSE workerTask[p]]
     /\ IF owner \cap counters = {}
        THEN Lookup(j) /\ UNCHANGED rhOwner
        ELSE /\ rhPc' = "credit" /\ rhJob' = j
             /\ rhOwner' \in owner \cap counters
             /\ UNCHANGED putlock
  /\ UNCHANGED <<envVars, jobVars, workerVars, thVars, supVars, limit,
                 taskqueue, inqueue, pool, counter, counters, rhFin>>

\* The counter is read from _on_ready_counters, locked and incremented.  If
\* its worker died with its lock the thread waits for ever.
RhCredit ==
  /\ rhPc = "credit"
  /\ rhOwner \in counters
  /\ IF rhOwner \in locked
     THEN rhPc' = "stuck" /\ UNCHANGED <<counter, rhJob, rhOwner, putlock>>
     ELSE /\ counter' = [counter EXCEPT ![rhOwner] = @ + 1]
          /\ rhOwner' = NoPid
          /\ Lookup(rhJob)
  /\ UNCHANGED <<envVars, jobVars, queueVars, workerVars, thVars, supVars,
                 limit, pool, counters, workerTask, rhFin>>

\* The worker has been dropped since the test: on_state_change catches the
\* KeyError and the rest of on_ready, the result with it, is skipped.
RhCreditFails ==
  /\ rhPc = "credit"
  /\ rhOwner \notin counters
  /\ rhPc' = RhNext
  /\ rhJob' = NoJob
  /\ rhOwner' = NoPid
  /\ UNCHANGED <<envVars, slotVars, jobVars, queueVars, workerVars,
                 creditVars, thVars, supVars, pool, rhFin>>

\* item._set at the end of on_ready.
RhSet ==
  /\ rhPc = "set"
  /\ Set(rhJob, "result")
  /\ rhPc' = RhNext
  /\ rhJob' = NoJob
  /\ UNCHANGED <<envVars, slotVars, queueVars, workerVars, creditVars,
                 thVars, supVars, accepted, workerPid, lost, pool, rhFin,
                 rhOwner>>

\* on_death: TERM_SIGNAL to a worker that sent DEATH and may still be there.
RhOnDeath ==
  /\ RhTakes("DEATH")
  /\ LET p == Head(outqueue).pid IN
     wpc' = IF wpc[p] = "dying" THEN [wpc EXCEPT ![p] = "exited"] ELSE wpc
  /\ rhPc' = RhNext
  /\ UNCHANGED <<envVars, slotVars, jobVars, creditVars, thVars, supVars,
                 taskqueue, inqueue, pool, wjob, completed, rlock, wlock,
                 locked, fired, ensured, rhFin, rhJob, rhOwner>>

\* The sentinel: body ends and finish_at_shutdown begins.
RhOnSentinel ==
  /\ RhTakes("NONE")
  /\ rhFin' = TRUE
  /\ UNCHANGED <<envVars, slotVars, jobVars, workerVars, creditVars, thVars,
                 supVars, taskqueue, inqueue, pool, rhPc, rhJob, rhOwner>>

(***************************************************************************)
(* _join_exited_workers, called by the Supervisor and, in the shutdown     *)
(* loop, by the ResultHandler.                                             *)
(***************************************************************************)

Exited == {p \in pool : wpc[p] = "exited"}

\* Jobs whose lost worker is older than _lost_worker_timeout.
Overdue == {j \in cache : ~Ready(j) /\ lost[j] = "elapsed"}

\* Mutant of Drop: jobs of workers that are still there are flagged, too.
DropFlagsAll(gone) ==
  LET held == {j \in cache : workerPid[j] # NoPid}
  IN /\ pool' = pool \ gone
     /\ counters' = counters \ gone
     /\ workerTask' = [p \in Pids |-> IF p \in gone THEN NoJob
                                                    ELSE workerTask[p]]
     /\ lost' = IF gone = {} THEN lost
                ELSE [j \in Jobs |-> IF j \in held THEN "fresh" ELSE lost[j]]
     /\ UNCHANGED <<value, cache>>


\* The workers in gone are joined and dropped, and every job in the cache that
\* was accepted by a worker no longer in the pool is flagged as lost (the
\* time starts anew) or, when terminate_job hit that worker, set at once.
Drop(gone) ==
  LET left   == pool \ gone
      orphan == {j \in cache : workerPid[j] \notin left \cup {NoPid}}
      cut    == {j \in orphan : workerPid[j] \in gone \cap terminated}
  IN /\ pool' = left
     /\ counters' = counters \ gone
     /\ workerTask' = [p \in Pids |-> IF p \in gone THEN NoJob
                                                    ELSE workerTask[p]]
     /\ IF gone = {} THEN UNCHANGED <<lost, value, cache>>
        ELSE /\ lost' = [j \in Jobs |->
                           IF j \in orphan \ cut /\ ~Ready(j) THEN "fresh"
                                                              ELSE lost[j]]
             /\ value' = [j \in Jobs |->
                            IF j \in cut /\ ~Ready(j) THEN "terminated"
                                                      ELSE value[j]]
             /\ cache' = cache \ {j \in cut : ~Ready(j) /\ j \in accepted}

\* Time passes: the flag of a lost job gets older than _lost_worker_timeout.
LostTimeout(j) ==
  /\ lost[j] = "fresh"
  /\ lost' = [lost EXCEPT ![j] = "elapsed"]
  /\ UNCHANGED <<envVars, threadVars, slotVars, queueVars, workerVars,
                 creditVars, cache, accepted, workerPid, value, pool>>

\* join_exited_workers(shutdown=True) in finish_at_shutdown.  One overdue job
\* is marked per step; then the exited workers are dropped.
RhMarkLost(j) ==
  /\ rhPc = "join"
  /\ j \in Overdue
  /\ Set(j, "lost")
  /\ UNCHANGED <<envVars, threadVars, slotVars, queueVars, workerVars,
                 creditVars, accepted, workerPid, lost, pool>>

RhJoin ==
  /\ rhPc = "join"
  /\ Overdue = {}
  /\ \A p \in pool : wpc[p] # "unstarted"
  /\ Exited \subseteq counters
  /\ Drop(Exited)
  /\ rhPc' = "poll"
  /\ UNCHANGED <<envVars, slotVars, queueVars, workerVars, thVars, supVars,
                 accepted, workerPid, counter, rhFin, rhJob, rhOwner>>

\* poll times out: the loop goes on to join_exited_workers, which finds
\* something to do or raises WorkersJoined; the loop then only waits for its
\* five seconds to pass (RhFinish).
RhPollTimeout ==
  /\ rhPc = "poll"
  /\ rhFin
  /\ cache # {}
  /\ pool # {} \/ Overdue # {}
  /\ outqueue = <<>>
  /\ rhPc' = "join"
  /\ UNCHANGED <<envVars, slotVars, jobVars, queueVars, workerVars,
                 creditVars, thVars, supVars, pool, rhFin, rhJob, rhOwner>>

\* A worker that the Supervisor has appended but not started looks exited to
\* _join_exited_workers (popen is None), and one it has not yet registered is
\* missing from _poolctrl: the KeyError ends the thread, PoolThread.run calls
\* os._exit.
RhJoinCrash ==
  /\ rhPc = "join"
  /\ Overdue = {}
  /\ \E p \in pool :
       /\ wpc[p] = "unstarted" \/ (p \in Exited /\ p \notin counters)
       /\ pool' = pool \ {p}
  /\ rhPc' = "crashed"
  /\ UNCHANGED <<envVars, slotVars, jobVars, queueVars, workerVars,
                 creditVars, thVars, supVars, rhFin, rhJob, rhOwner>>

\* Mutant of RhFinish: without the five seconds' limit.
RhFinishWaits ==
  /\ rhPc = "poll"
  /\ rhFin
  /\ cache = {}
  /\ rhPc' = "done"
  /\ outqueue' = <<>>
  /\ UNCHANGED <<envVars, slotVars, jobVars, workerVars, creditVars, thVars,
                 supVars, taskqueue, inqueue, pool, rhFin, rhJob, rhOwner>>

\* finish_at_shutdown ends: the cache is empty, or all workers have been
\* joined for five seconds and nothing more was written.
RhFinish ==
  /\ rhPc = "poll"
  /\ rhFin
  /\ \/ cache = {}
     \/ pool = {} /\ outqueue = <<>>
  /\ rhPc' = "done"
  /\ outqueue' = <<>>
  /\ UNCHANGED <<envVars, slotVars, jobVars, workerVars, creditVars, thVars,
                 supVars, taskqueue, inqueue, pool, rhFin, rhJob, rhOwner>>

(***************************************************************************)
(* Supervisor                                                              *)
(***************************************************************************)

\* The loop test of body; then the list of overdue jobs is made ...
SupWake ==
  /\ supPc = "sleep"
  /\ IF state = "RUN" THEN supPc' = "join" /\ supMark' = Overdue
                      ELSE supPc' = "done" /\ UNCHANGED supMark
  /\ UNCHANGED <<envVars, slotVars, jobVars, queueVars, workerVars,
                 creditVars, thVars, rhVars, pool, supNew, supRel, supPid>>

\* ... and each one marked, whatever has become of it since.
SupMarkLost(j) ==
  /\ supPc = "join"
  /\ j \in supMark
  /\ Set(j, "lost")
  /\ supMark' = supMark \ {j}
  /\ UNCHANGED <<envVars, slotVars, queueVars, workerVars, creditVars,
                 thVars, rhVars, accepted, workerPid, lost, pool, supPc,
                 supNew, supRel, supPid>>

\* Mutant of SupJoin: the number of joined workers is dropped.
SupJoinKeepsSlots ==
  /\ supPc = "join"
  /\ supMark = {}
  /\ Drop(Exited)
  /\ supRel' = 0
  /\ supNew' = processes - Cardinality(pool \ Exited)
  /\ supPc' = "populate"
  /\ UNCHANGED <<envVars, slotVars, queueVars, workerVars, thVars, rhVars,
                 accepted, workerPid, counter, supMark, supPid>>

\* The rest of _join_exited_workers, and the size of the gap to repopulate.
SupJoin ==
  /\ supPc = "join"
  /\ supMark = {}
  /\ Drop(Exited)
  /\ supRel' = Cardinality(Exited)
  /\ supNew' = processes - Cardinality(pool \ Exited)
  /\ supPc' = "populate"
  /\ UNCHANGED <<envVars, slotVars, queueVars, workerVars, thVars, rhVars,
                 accepted, workerPid, counter, supMark, supPid>>

\* _repopulate_pool: the state is tested ...
SupCheck ==
  /\ supPc = "populate"
  /\ supNew > 0
  /\ state = "RUN"
  /\ supNew' = supNew - 1
  /\ supPc' = "create"
  /\ UNCHANGED <<envVars, slotVars, jobVars, queueVars, workerVars,
                 creditVars, thVars, rhVars, pool, supMark, supRel, supPid>>

\* ... _avail_index asserts that the list has room, and
\* _create_worker_process builds the worker and appends it.  The pid stands
\* for the Process object, which is not started yet.
SupAppend ==
  /\ supPc = "create"
  /\ Cardinality(pool) < processes
  /\ \E p \in Pids :
       /\ wpc[p] = "new"
       /\ \A q \in Pids : wpc[q] = "new" => p <= q
       /\ pool' = pool \cup {p}
       /\ wpc' = [wpc EXCEPT ![p] = "unstarted"]
       /\ supPid' = p
  /\ supPc' = "start"
  /\ UNCHANGED <<envVars, slotVars, jobVars, queueVars, creditVars, thVars,
                 rhVars, wjob, completed, rlock, wlock, locked, fired, ensured,
                 supMark, supNew, supRel>>

\* A shrink since the gap was computed makes the assertion of _avail_index
\* fail: PoolThread.run calls os._exit.
SupAssertFails ==
  /\ supPc = "create"
  /\ Cardinality(pool) >= processes
  /\ supPc' = "crashed"
  /\ UNCHANGED <<envVars, slotVars, jobVars, queueVars, workerVars,
                 creditVars, thVars, rhVars, pool, supMark, supNew, supRel,
                 supPid>>

\* w.start()
SupStart ==
  /\ supPc = "start"
  /\ wpc' = [wpc EXCEPT ![supPid] = "idle"]
  /\ supPc' = "register"
  /\ UNCHANGED <<envVars, slotVars, jobVars, queueVars, creditVars, thVars,
                 rhVars, pool, wjob, completed, rlock, wlock, locked, fired,
                 ensured, supMark, supNew, supRel, supPid>>

\* The entries in _poolctrl and _on_ready_counters.
SupRegister ==
  /\ supPc = "register"
  /\ counters' = counters \cup {supPid}
  /\ supPid' = NoPid
  /\ supPc' = "populate"
  /\ UNCHANGED <<envVars, slotVars, jobVars, queueVars, workerVars, thVars,
                 rhVars, pool, counter, workerTask, supMark, supNew, supRel>>

\* The end of _maintain_pool: one putlock.release per joined worker.
SupRelease ==
  /\ supPc = "populate"
  /\ supNew <= 0 \/ state # "RUN"
  /\ IF supRel > 0
     THEN Release /\ supRel' = supRel - 1 /\ UNCHANGED <<supPc, supNew>>
     ELSE /\ supPc' = "sleep" /\ supNew' = 0
          /\ UNCHANGED <<putlock, supRel>>
  /\ UNCHANGED <<envVars, jobVars, queueVars, workerVars, creditVars,
                 thVars, rhVars, limit, pool, supMark, supPid>>

(***************************************************************************)
(* The specification                                                       *)
(***************************************************************************)

\* Pool.__init__ has started the workers and then the three threads.
Init ==
  /\ state = "RUN" /\ processes = Processes
  /\ putlock = Processes /\ limit = Processes
  /\ client = [j \in Jobs |-> "new"]
  /\ cache = {} /\ accepted = {}
  /\ workerPid = [j \in Jobs |-> NoPid]
  /\ value = [j \in Jobs |-> "unset"]
  /\ lost = [j \in Jobs |-> "no"]
  /\ taskqueue = <<>> /\ inqueue = <<>> /\ outqueue = <<>>
  /\ rlock = NoPid /\ wlock = NoPid /\ locked = {}
  /\ pool = 1..Processes
  /\ wpc = [p \in Pids |-> IF p <= Processes THEN "idle" ELSE "new"]
  /\ wjob = [p \in Pids |-> NoJob]
  /\ completed = [p \in Pids |-> 0]
  /\ counter = [p \in Pids |-> 0]
  /\ counters = 1..Processes
  /\ workerTask = [p \in Pids |-> NoJob]
  /\ terminated = {}
  /\ thPc = "get" /\ thIdx = 0
  /\ rhPc = "poll" /\ rhFin = FALSE /\ rhJob = NoJob /\ rhOwner = NoPid
  /\ supPc = "sleep" /\ supMark = {} /\ supNew = 0 /\ supRel = 0
  /\ supPid = NoPid
  /\ shrinking = NoPid
  /\ crashes = 0 /\ terms = 0 /\ grows = 0 /\ shrinks = 0
  /\ fired = {} /\ ensured = {}

ClientStep ==
  \/ \E j \in Jobs : ApplyCheck(j) \/ ApplySubmit(j)
  \/ Close \/ Grow \/ ShrinkBegin \/ ShrinkTerminate
  \/ \E p \in Pids : TerminateJob(p)

WorkerStep(p) ==
  \/ WorkerLock(p) \/ WorkerReceive(p) \/ WorkerAck(p) \/ WorkerReady(p)
  \/ WorkerAbandon(p) \/ WorkerCount(p) \/ WorkerEnsure(p)
  \/ WorkerEnsureTimeout(p) \/ WorkerDeath(p) \/ WorkerExit(p)

ThStep == ThPut \/ ThTellResultHandler \/ ThTellWorkers

RhStep ==
  \/ RhOnAck \/ RhOnReady \/ RhCredit \/ RhCreditFails \/ RhSet
  \/ RhOnDeath \/ RhOnSentinel \/ RhOnPart
  \/ (\E j \in Jobs : RhMarkLost(j))
  \/ RhJoin \/ RhPollTimeout \/ RhJoinCrash \/ RhFinish

SupStep ==
  \/ SupWake \/ (\E j \in Jobs : SupMarkLost(j)) \/ SupJoin
  \/ SupCheck \/ SupAppend \/ SupAssertFails \/ SupStart \/ SupRegister
  \/ SupRelease

\* os._exit in the ResultHandler or the Supervisor ends the program.
Next ==
  /\ rhPc # "crashed" /\ supPc # "crashed"
  /\ \/ ClientStep
     \/ \E p \in Pids : WorkerStep(p) \/ WorkerCrash(p)
     \/ ThStep \/ RhStep \/ SupStep
     \/ \E j \in Jobs : LostTimeout(j)

Spec == Init /\ [][Next]_vars

\* Threads and live workers keep running, time passes, a started apply_async
\* or shrink goes on once its semaphore lets it.
Fairness ==
  /\ WF_vars(\E j \in Jobs : ApplySubmit(j))
  /\ WF_vars(\E j \in Jobs : LostTimeout(j))
  /\ \A p \in Pids : WF_vars(WorkerStep(p))
  /\ WF_vars(ShrinkTerminate)
  /\ WF_vars(ThStep) /\ WF_vars(RhStep) /\ WF_vars(SupStep)

FairSpec == Spec /\ Fairness

(***************************************************************************)
(* Properties                                                              *)
(***************************************************************************)

Values == {"unset", "result", "putfail", "lost", "terminated"}
TaskMsgs == {Task(j) : j \in Jobs} \cup {Sentinel}
OutMsgs == [type : {"ACK", "READY"}, job : Jobs, pid : Pids]
           \cup [type : {"DEATH", "PART"}, job : {NoJob}, pid : Pids]
           \cup [type : {"NONE"}, job : {NoJob}, pid : {NoPid}]

EnvType ==
  /\ state \in {"RUN", "CLOSE"} /\ processes \in Int
  /\ client \in [Jobs -> {"new", "checked", "refused", "submitted"}]
  /\ shrinking \in Pids \cup {NoPid} /\ terminated \subseteq Pids
  /\ crashes \in Nat /\ terms \in Nat /\ grows \in Nat /\ shrinks \in Nat
SlotType == putlock \in Int /\ limit \in Int
JobType ==
  /\ cache \subseteq Jobs /\ accepted \subseteq Jobs
  /\ workerPid \in [Jobs -> Pids \cup {NoPid}]
  /\ value \in [Jobs -> Values]
  /\ lost \in [Jobs -> {"no", "fresh", "elapsed"}]
QueueType ==
  /\ taskqueue \in Seq(TaskMsgs) /\ inqueue \in Seq(TaskMsgs)
  /\ outqueue \in Seq(OutMsgs)
WorkerType ==
  /\ pool \subseteq Pids
  /\ wpc \in [Pids -> {"new", "unstarted", "exited"} \cup Alive]
  /\ wjob \in [Pids -> Jobs \cup {NoJob}]
  /\ \A p \in Pids : wpc[p] \in {"got", "run"} => wjob[p] \in Jobs
  /\ completed \in [Pids -> Nat]
  /\ rlock \in Pids \cup {NoPid}
  /\ wlock \in Pids \cup {NoPid} /\ locked \subseteq Pids
  /\ fired \subseteq Pids /\ ensured \subseteq Pids
CreditType ==
  /\ counter \in [Pids -> Nat] /\ counters \subseteq Pids
  /\ workerTask \in [Pids -> Jobs \cup {NoJob}]
ThType == thPc \in {"get", "tell", "done"} /\ thIdx \in Nat
RhType ==
  /\ rhPc \in {"poll", "credit", "set", "join", "done", "stuck", "crashed"}
  /\ rhFin \in BOOLEAN
  /\ rhJob \in Jobs \cup {NoJob} /\ (rhPc \in {"credit", "set"} => rhJob \in Jobs)
  /\ rhOwner \in Pids \cup {NoPid} /\ (rhPc = "credit" => rhOwner \in Pids)
SupType ==
  /\ supPc \in {"sleep", "join", "populate", "create", "start", "register",
               "done", "crashed"}
  /\ supMark \subseteq Jobs /\ supNew \in Int /\ supRel \in Nat
  /\ supPid \in Pids \cup {NoPid}
  /\ supPc \in {"start", "register"} => supPid \in Pids

\* Every variable has its type; a worker with a job at hand, a result being
\* set and a worker being started are known.
TypeOK ==
  /\ EnvType /\ SlotType /\ JobType /\ QueueType /\ WorkerType /\ CreditType
  /\ ThType /\ RhType /\ SupType

\* The cache holds no finished job: whichever of the ACK and the result, the
\* loss or the termination of a job is handled last removes its entry.
CacheDrained == \A j \in cache : ~(j \in accepted /\ Ready(j))

\* No worker is declared lost while it lives: a job is flagged, or finished
\* as lost or terminated, only after the worker that accepted it has exited.
LossIsReal ==
  \A j \in Jobs :
    lost[j] # "no" \/ value[j] \in {"lost", "terminated"}
      => workerPid[j] # NoPid /\ wpc[workerPid[j]] = "exited"

\* The places a job's task or result can be in: the two queues of tasks, the
\* worker that took it, the READY message, the ResultHandler.
Places(j) ==
  {<<"taskqueue", i>> :
     i \in {k \in DOMAIN taskqueue : taskqueue[k] = Task(j)}}
  \cup {<<"inqueue", i>> : i \in {k \in DOMAIN inqueue : inqueue[k] = Task(j)}}
  \cup {<<"worker", p>> : p \in {q \in Pids : wjob[q] = j}}
  \cup {<<"ready", i>> : i \in {k \in DOMAIN outqueue :
          outqueue[k].type = "READY" /\ outqueue[k].job = j}}
  \cup (IF rhJob = j THEN {<<"handler", 0>>} ELSE {})

\* A job is never duplicated and never vanishes: at any time it is in at most
\* one place, so it runs at most once, and while it is unfinished it is in
\* one (possibly with a worker that died), unless it could not be pickled or
\* its worker has gone and it is flagged as lost: on_ready drops the result of
\* a worker that is dropped while it looks at that worker's counter.
JobInOnePlace ==
  \A j \in Jobs :
    /\ Cardinality(Places(j)) <= 1
    /\ client[j] = "submitted" /\ ~Ready(j) /\ j \notin Unpicklable
       /\ lost[j] = "no"
         => Places(j) # {}

\* _ensure_messages_consumed keeps its promise for workers that TERM_SIGNAL did
\* not interrupt: one that leaves because its on_ready_counter has caught up
\* has no READY left in the outqueue.
EnsuredConsumed ==
  \A p \in ensured \ fired : \A i \in DOMAIN outqueue :
    ~(outqueue[i].type = "READY" /\ outqueue[i].pid = p)

\* When the pool is closed while workers are recycled and killed, losses are real,
\* each job is in one place, and a worker leaves only after ResultHandler has
\* consumed its results.
ShutdownSafe ==
  /\ LossIsReal
  /\ JobInOnePlace
  /\ EnsuredConsumed

\* No slot of the putlock is lost while the pool runs and shrink is not called:
\* what the semaphore holds, what unfinished jobs hold and what _maintain_pool
\* is about to give back for joined workers adds up to the limit.  Two kinds of
\* slots are never given back: those of jobs failed by a task that could not be
\* pickled, and, as a joined worker gives back one slot, those of the second job
\* and on that were lost with the same worker (it had died on a job while the
\* READY of an earlier one was still unread).
SlotsConserved ==
  PutLocks /\ state = "RUN" /\ shrinks = 0 =>
    LET gone == {j \in Jobs : value[j] \in {"lost", "terminated"}} IN
    limit + Cardinality({workerPid[j] : j \in gone})
      <= putlock + supRel + Cardinality(gone) + Cardinality({j \in Jobs :
           /\ client[j] = "submitted"
           /\ ~Ready(j) \/ value[j] = "putfail"})

\* The pool's books stay right when it is resized and jobs are terminated: the
\* cache drains, losses are real, each job is in one place, no slot is lost.
PoolSafe ==
  /\ TypeOK
  /\ CacheDrained
  /\ LossIsReal
  /\ JobInOnePlace
  /\ SlotsConserved

\* A worker was killed while it held the write lock of the outqueue or the lock
\* of its own counter: "would leave outq locked", as _do_exit has it.
Severed == wlock # NoPid \/ locked # {}

\* The worker that accepted job j lives, but may wait for such a lock, or the
\* ResultHandler may.
CutOff(j) ==
  Severed /\ workerPid[j] \in pool /\ wpc[workerPid[j]] # "exited"

\* The jobs the pool owes an answer: while no worker was killed, all that were
\* submitted; later those accepted by a worker in its list, unless they are
\* cut off, and those flagged as lost.
Owed ==
  {j \in Jobs : /\ client[j] = "submitted" /\ ~Ready(j)
                /\ \/ crashes = 0
                   \/ workerPid[j] \in pool /\ ~CutOff(j)
                   \/ lost[j] # "no"}


\* close() lets the pool finish once tell_others has written a sentinel for
\* every worker that still serves: all workers and threads end, so join()
\* returns, and every task handed over is finished, or flagged as lost when its
\* worker gave up waiting for its result to be consumed and was dropped while
\* on_ready looked at its counter: the shutdown does not wait for the flag to
\* get old.
CloseDrains ==
  /\ thPc = "done" /\ supPc \in {"sleep", "done"}
  /\ Cardinality({p \in Pids : wpc[p] \in Serving})
       <= Cardinality({i \in DOMAIN inqueue : inqueue[i] = Sentinel})
  ~>
  /\ rhPc = "done" /\ supPc = "done"
  /\ \A p \in Pids : wpc[p] \in {"new", "exited"}
  /\ \A j \in Jobs : client[j] = "submitted" =>
       \/ Ready(j) \/ lost[j] # "no"
       \/ \E i \in DOMAIN taskqueue : taskqueue[i] = Task(j)

(***************************************************************************)
(* Statements of the documentation that the code does not keep             *)
(***************************************************************************)

\* Documentation of close(): "Once all the tasks have been completed the
\* worker processes will exit."  The tasks in the inqueue do get completed.
ClosedTasksComplete ==
  \A j \in Jobs :
    state = "CLOSE" /\ (\E i \in DOMAIN inqueue : inqueue[i] = Task(j))
      ~> Ready(j)

\* Comment in _join_exited_workers: a job whose worker has gone is marked with
\* WorkerLostError after _lost_worker_timeout; no accepted job hangs.
AcceptedNeverHangs == \A j \in Jobs : j \in accepted ~> Ready(j)

\* The assertion of _avail_index, len(self._pool) < self._processes, holds
\* whenever the Supervisor evaluates it.
AvailIndexAsserted == supPc # "crashed"

=============================================================================
