------------------------------ MODULE Terminate ------------------------------
(***************************************************************************)
(* Pool.terminate of billiard/pool.py: _terminate_pool against the threads *)
(* and the workers that it stops.  The list _pool is shared: Supervisor    *)
(* and, once it shuts down, ResultHandler delete from it while the caller  *)
(* iterates over it.  A message is one unit of the pipe of the inqueue,    *)
(* and reading from it takes its _rlock, which an idle worker holds while  *)
(* it waits.                                                               *)
(***************************************************************************)
EXTENDS Integers, Sequences, FiniteSets

CONSTANTS
  TmSize,       \* _processes
  TmPids,       \* bound: the workers that can be created, numbered from 1
  TmTasks,      \* bound: tasks put before the pool is terminated
  TmCapacity,   \* messages that fit in the pipe of the inqueue
  NoTmPid       \* stands for no worker

ASSUME TerminateAssumption ==
  /\ TmSize \in Nat \ {0} /\ TmTasks \in Nat
  /\ TmPids \in Nat /\ TmPids >= TmSize
  /\ TmCapacity \in Nat /\ TmCapacity > TmSize    \* no task is larger than the pipe
  /\ NoTmPid \notin 1..TmPids

Caller == TmPids + 1     \* the caller of terminate as a holder of _rlock

VARIABLES
  tmCaller,    \* where the caller is in terminate
  tmAt,        \* its position in the list it iterates over
  tmChanged,   \* the list changed under an iteration, or grew after tell_others
  tmPool,      \* _pool: the workers in order
  tmLast,      \* the last worker created
  tmWorker,    \* worker -> "none", "wait", "hold", "busy" or "dead"
  tmSent,      \* workers to which TERM_SIGNAL is on its way
  tmDeaf,      \* workers whose job has swallowed the SystemExit of TERM_SIGNAL
  tmRlock,     \* holder of inqueue._rlock
  tmLeft,      \* tasks still in the taskqueue
  tmInq,       \* the inqueue: "task" or "none" (a sentinel)
  tmOut,       \* the outqueue: "ready" or "none"
  tmCache,     \* number of jobs in _cache
  tmTh, tmSup, tmRh,   \* the three threads
  tmTold       \* sentinels that TaskHandler has written for the workers

tmSigVars == <<tmSent, tmDeaf>>
tmPoolVars == <<tmPool, tmLast, tmWorker, tmSigVars, tmRlock>>
tmQueueVars == <<tmLeft, tmInq, tmOut, tmCache, tmTold>>
tmVars == <<tmCaller, tmAt, tmChanged, tmPoolVars, tmQueueVars, tmTh, tmSup, tmRh>>

TmAlive(w) == tmWorker[w] \in {"wait", "hold", "busy"}
TmRunning == tmCaller = "running"      \* _state of the pool and its threads is RUN

TmInit ==
  /\ tmCaller = "new" /\ tmAt = 0 /\ tmChanged = FALSE
  /\ tmPool = <<>> /\ tmLast = 0
  /\ tmWorker = [w \in 1..TmPids |-> "none"]
  /\ tmSent = {} /\ tmDeaf = {}
  /\ tmRlock = NoTmPid
  /\ tmLeft = 0 /\ tmInq = <<>> /\ tmOut = <<>> /\ tmCache = 0 /\ tmTold = 0
  /\ tmTh = "none" /\ tmSup = "none" /\ tmRh = "none"

\* Pool.__init__, and n calls of apply_async.
TmCreate(n) ==
  /\ tmCaller = "new"
  /\ tmCaller' = "running"
  /\ tmPool' = [i \in 1..TmSize |-> i] /\ tmLast' = TmSize
  /\ tmWorker' = [w \in 1..TmPids |-> IF w <= TmSize THEN "wait" ELSE "none"]
  /\ tmLeft' = n /\ tmCache' = n
  /\ tmTh' = "get" /\ tmSup' = "run" /\ tmRh' = "run"
  /\ UNCHANGED <<tmAt, tmChanged, tmSigVars, tmRlock, tmInq, tmOut, tmTold>>

(***************************************************************************)
(* Workers                                                                 *)
(***************************************************************************)

TmLock(w) ==
  /\ tmWorker[w] = "wait" /\ tmRlock = NoTmPid
  /\ tmRlock' = w
  /\ tmWorker' = [tmWorker EXCEPT ![w] = "hold"]
  /\ UNCHANGED <<tmCaller, tmAt, tmChanged, tmPool, tmLast, tmSigVars, tmQueueVars, tmTh, tmSup,
                 tmRh>>

\* A task is read, or a sentinel, at which the worker leaves.
TmReceive(w) ==
  /\ tmWorker[w] = "hold" /\ tmInq # <<>>
  /\ tmInq' = Tail(tmInq)
  /\ tmRlock' = NoTmPid
  /\ tmWorker' = [tmWorker EXCEPT ![w] = IF Head(tmInq) = "task" THEN "busy" ELSE "dead"]
  /\ UNCHANGED <<tmTold, tmCaller, tmAt, tmChanged, tmPool, tmLast, tmSigVars, tmLeft, tmOut,
                 tmCache, tmTh, tmSup, tmRh>>

\* The result is written; the worker goes on, or leaves (maxtasksperchild).
TmFinish(w) ==
  /\ tmWorker[w] = "busy"
  /\ tmOut' = Append(tmOut, "ready")
  /\ \E next \in {"wait", "dead"} : tmWorker' = [tmWorker EXCEPT ![w] = next]
  /\ UNCHANGED <<tmTold, tmCaller, tmAt, tmChanged, tmPool, tmLast, tmSigVars, tmRlock, tmLeft,
                 tmInq, tmCache, tmTh, tmSup, tmRh>>

\* The end of a worker by TERM_SIGNAL: its handler raises SystemExit, a lock is
\* released as the stack unwinds, a job at hand stays without a result, and
\* after _ensure_messages_consumed and _do_exit the process ends.
TmExit(w) ==
  /\ w \in tmSent /\ TmAlive(w)
  /\ tmWorker' = [tmWorker EXCEPT ![w] = "dead"]
  /\ tmRlock' = IF tmRlock = w THEN NoTmPid ELSE tmRlock
  /\ UNCHANGED <<tmCaller, tmAt, tmChanged, tmPool, tmLast, tmSigVars, tmQueueVars, tmTh, tmSup,
                 tmRh>>

\* The job that the worker runs swallows the exception and goes on.
TmSwallow(w) ==
  /\ w \in tmSent /\ tmWorker[w] = "busy"
  /\ tmSent' = tmSent \ {w}
  /\ tmDeaf' = tmDeaf \cup {w}
  /\ UNCHANGED <<tmCaller, tmAt, tmChanged, tmPool, tmLast, tmWorker, tmRlock, tmQueueVars, tmTh,
                 tmSup, tmRh>>

\* Later any exception of its job makes such a worker leave without a word.
TmAbandon(w) ==
  /\ w \in tmDeaf /\ tmWorker[w] = "busy"
  /\ tmWorker' = [tmWorker EXCEPT ![w] = "dead"]
  /\ UNCHANGED <<tmCaller, tmAt, tmChanged, tmPool, tmLast, tmSigVars, tmRlock, tmQueueVars, tmTh,
                 tmSup, tmRh>>

(***************************************************************************)
(* TaskHandler, Supervisor, ResultHandler                                  *)
(***************************************************************************)

\* A task is taken and _state is RUN, or the handler goes on to tell_others.
ThGet ==
  /\ tmTh = "get"
  /\ \/ /\ TmRunning /\ tmLeft > 0
        /\ tmLeft' = tmLeft - 1 /\ tmTh' = "put"
        /\ UNCHANGED tmOut
     \/ /\ ~TmRunning
        /\ tmTh' = "tell"
        /\ tmOut' = Append(tmOut, "none")
        /\ UNCHANGED tmLeft
  /\ UNCHANGED <<tmCaller, tmAt, tmChanged, tmTold, tmPoolVars, tmInq, tmCache, tmSup, tmRh>>

ThPutTask ==
  /\ tmTh = "put" /\ Len(tmInq) < TmCapacity
  /\ tmInq' = Append(tmInq, "task")
  /\ tmTh' = "get"
  /\ UNCHANGED <<tmTold, tmCaller, tmAt, tmChanged, tmPoolVars, tmLeft, tmOut, tmCache, tmSup, tmRh>>

\* tell_others: one sentinel for each worker in the list.
ThTellOne ==
  /\ tmTh = "tell"
  /\ IF tmTold < Len(tmPool)
     THEN /\ Len(tmInq) < TmCapacity
          /\ tmInq' = Append(tmInq, "none")
          /\ tmTold' = tmTold + 1 /\ UNCHANGED tmTh
     ELSE tmTh' = "done" /\ UNCHANGED <<tmInq, tmTold>>
  /\ UNCHANGED <<tmCaller, tmAt, tmChanged, tmPoolVars, tmLeft, tmOut, tmCache, tmSup, tmRh>>

\* s without the workers that have exited, in order.
TmKept(s) ==
  LET kept[i \in 0..Len(s)] ==
        IF i = 0 THEN <<>>
        ELSE IF TmAlive(s[i]) THEN Append(kept[i - 1], s[i])
        ELSE kept[i - 1]
  IN  kept[Len(s)]

\* _join_exited_workers: the workers that have exited are deleted.
TmJoinExited ==
  /\ tmPool' = TmKept(tmPool)
  /\ tmChanged' = (tmChanged \/ ((tmCaller = "loop" \/ tmTh = "tell") /\ tmPool' # tmPool))

TmSupRound ==
  /\ tmSup = "run"
  /\ IF TmRunning THEN TmJoinExited /\ tmSup' = "repopulate"
     ELSE tmSup' = "done" /\ UNCHANGED <<tmPool, tmChanged>>
  /\ UNCHANGED <<tmCaller, tmAt, tmLast, tmWorker, tmSigVars, tmRlock, tmQueueVars, tmTh, tmRh>>

\* _repopulate_pool: the test of _state ...
TmSupCheck ==
  /\ tmSup = "repopulate"
  /\ tmSup' = IF TmRunning /\ Len(tmPool) < TmSize /\ tmLast < TmPids THEN "create"
              ELSE "run"
  /\ UNCHANGED <<tmCaller, tmAt, tmChanged, tmPoolVars, tmQueueVars, tmTh, tmRh>>

\* ... and _create_worker_process, which may come after terminate() has begun.
TmSupCreate ==
  /\ tmSup = "create"
  /\ tmLast' = tmLast + 1
  /\ tmPool' = Append(tmPool, tmLast + 1)
  /\ tmWorker' = [tmWorker EXCEPT ![tmLast + 1] = "wait"]
  /\ tmSup' = "repopulate"
  /\ tmChanged' = (tmChanged \/ tmTh \in {"tell", "done"})
  /\ UNCHANGED <<tmCaller, tmAt, tmSigVars, tmRlock, tmQueueVars, tmTh, tmRh>>

\* body: results until the sentinel.
TmRhBody ==
  /\ tmRh = "run" /\ tmOut # <<>>
  /\ tmOut' = Tail(tmOut)
  /\ IF Head(tmOut) = "none" THEN tmRh' = "finish" /\ UNCHANGED tmCache
     ELSE tmCache' = tmCache - 1 /\ UNCHANGED tmRh
  /\ UNCHANGED <<tmTold, tmCaller, tmAt, tmChanged, tmPoolVars, tmLeft, tmInq, tmTh, tmSup>>

\* Mutant of TmRhFinish: the handler waits for the cache to be drained, whether
\* or not there is a worker left.
TmRhFinishDrained ==
  /\ tmRh = "finish"
  /\ \/ /\ tmCache = 0
        /\ tmRh' = "done"
        /\ UNCHANGED <<tmPool, tmChanged, tmOut, tmCache>>
     \/ /\ tmCache > 0
        /\ IF tmOut = <<>> THEN UNCHANGED <<tmOut, tmCache>>
           ELSE /\ tmOut' = Tail(tmOut)
                /\ tmCache' = IF Head(tmOut) = "ready" THEN tmCache - 1 ELSE tmCache
        /\ TmJoinExited
        /\ UNCHANGED tmRh
  /\ UNCHANGED <<tmTold, tmCaller, tmAt, tmLast, tmWorker, tmSigVars, tmRlock, tmLeft, tmInq,
                 tmTh, tmSup>>

\* finish_at_shutdown: as long as a job is in the cache, take a result and join
\* the workers that have exited; leave 5 s after there is no worker (then any
\* result that was written has been read).  Marking jobs as lost, which lets it
\* end sooner, is left out.
TmRhFinish ==
  /\ tmRh = "finish"
  /\ \/ /\ tmCache = 0 \/ (tmPool = <<>> /\ tmOut = <<>>)
        /\ tmRh' = "done"
        /\ UNCHANGED <<tmPool, tmChanged, tmOut, tmCache>>
     \/ /\ tmCache > 0
        /\ IF tmOut = <<>> THEN UNCHANGED <<tmOut, tmCache>>
           ELSE /\ tmOut' = Tail(tmOut)
                /\ tmCache' = IF Head(tmOut) = "ready" THEN tmCache - 1 ELSE tmCache
        /\ TmJoinExited
        /\ UNCHANGED tmRh
  /\ UNCHANGED <<tmTold, tmCaller, tmAt, tmLast, tmWorker, tmSigVars, tmRlock, tmLeft, tmInq,
                 tmTh, tmSup>>

(***************************************************************************)
(* The caller                                                              *)
(***************************************************************************)

\* terminate, and the beginning of _terminate_pool: the flags of the pool, of
\* Supervisor and of TaskHandler, and the sentinel of the taskqueue.
TmTerminate ==
  /\ tmCaller = "running"
  /\ tmCaller' = "lock"
  /\ UNCHANGED <<tmAt, tmChanged, tmPoolVars, tmQueueVars, tmTh, tmSup, tmRh>>

\* _help_stuff_finish: _rlock is taken, for good, ...
TmHelpLock ==
  /\ tmCaller = "lock" /\ tmRlock = NoTmPid
  /\ tmRlock' = Caller
  /\ tmCaller' = "drain"
  /\ UNCHANGED <<tmAt, tmChanged, tmPool, tmLast, tmWorker, tmSigVars, tmQueueVars, tmTh, tmSup,
                 tmRh>>

\* ... and messages are removed while TaskHandler lives and there are any.
\* Then ResultHandler gets its sentinel.
TmHelpDrain ==
  /\ tmCaller = "drain"
  /\ IF tmTh # "done" /\ tmInq # <<>>
     THEN tmInq' = Tail(tmInq) /\ UNCHANGED <<tmCaller, tmOut>>
     ELSE /\ tmCaller' = "joinsup"
          /\ tmOut' = Append(tmOut, "none")
          /\ UNCHANGED tmInq
  /\ UNCHANGED <<tmTold, tmAt, tmChanged, tmPoolVars, tmLeft, tmCache, tmTh, tmSup, tmRh>>

\* Mutant of TmJoinSup: Supervisor is not waited for.
TmJoinSupNot ==
  /\ tmCaller = "joinsup"
  /\ tmCaller' = "loop" /\ tmAt' = 1
  /\ UNCHANGED <<tmChanged, tmPoolVars, tmQueueVars, tmTh, tmSup, tmRh>>

\* stop_if_not_current(worker_handler): no worker is added from here on.
TmJoinSup ==
  /\ tmCaller = "joinsup" /\ tmSup = "done"
  /\ tmCaller' = "loop" /\ tmAt' = 1
  /\ UNCHANGED <<tmChanged, tmPoolVars, tmQueueVars, tmTh, tmSup, tmRh>>

\* for p in pool: if p._is_alive(): p.terminate(), which only sends TERM_SIGNAL
TmLoop ==
  /\ tmCaller = "loop"
  /\ IF tmAt <= Len(tmPool)
     THEN /\ tmSent' = tmSent \cup {w \in 1..TmPids : w = tmPool[tmAt] /\ TmAlive(w)}
          /\ tmAt' = tmAt + 1 /\ UNCHANGED tmCaller
     ELSE /\ tmCaller' = "jointh" /\ UNCHANGED <<tmAt, tmSent>>
  /\ UNCHANGED <<tmChanged, tmPool, tmLast, tmWorker, tmDeaf, tmRlock, tmQueueVars, tmTh, tmSup,
                 tmRh>>

\* The other threads are joined, and then the workers that are left.
TmJoinRest ==
  /\ \/ tmCaller = "jointh" /\ tmTh = "done" /\ tmCaller' = "joinrh"
     \/ tmCaller = "joinrh" /\ tmRh = "done" /\ tmCaller' = "joinworkers"
     \/ /\ tmCaller = "joinworkers" /\ \A i \in DOMAIN tmPool : ~TmAlive(tmPool[i])
        /\ tmCaller' = "returned"
  /\ UNCHANGED <<tmAt, tmChanged, tmPoolVars, tmQueueVars, tmTh, tmSup, tmRh>>

TmCallerStep == TmHelpLock \/ TmHelpDrain \/ TmJoinSup \/ TmLoop \/ TmJoinRest
TmThStep == ThGet \/ ThPutTask \/ ThTellOne
TmSupStep == TmSupRound \/ TmSupCheck \/ TmSupCreate
TmRhStep == TmRhBody \/ TmRhFinish
TmWorkerStep(w) == TmLock(w) \/ TmReceive(w) \/ TmExit(w)

TmNext ==
  \/ \E n \in 0..TmTasks : TmCreate(n)
  \/ TmTerminate \/ TmCallerStep \/ TmThStep \/ TmSupStep \/ TmRhStep
  \/ \E w \in 1..TmPids : TmWorkerStep(w) \/ TmFinish(w) \/ TmSwallow(w) \/ TmAbandon(w)

TmSpec == TmInit /\ [][TmNext]_tmVars

\* The threads run.  Whoever waits for _rlock gets it at some time (workers do
\* not take it back for ever); no task is obliged to end.
TmProgress ==
  TmCallerStep \/ TmThStep \/ TmSupStep \/ TmRhStep \/ \E w \in 1..TmPids : TmWorkerStep(w)
TmFairness == SF_tmVars(TmHelpLock) /\ WF_tmVars(TmProgress)

(***************************************************************************)
(* Properties                                                              *)
(***************************************************************************)

\* Once terminate() has returned no worker is alive or will be started, also
\* not one that Supervisor was creating when terminate() was called.
NoWorkerSurvives ==
  tmCaller = "returned" => \A w \in 1..TmPids : ~TmAlive(w)

\* terminate() returns, whoever holds _rlock, however full the inqueue is and
\* whatever the workers run, in two cases excepted.  A job that swallows the
\* SystemExit of TERM_SIGNAL leaves its worker alive: nothing signals it again,
\* and it is joined without a time limit.  And the list of workers may change
\* at a bad moment: a deletion while terminate() iterates over it skips a worker,
\* which is then waited for in vain; one while tell_others does, or a worker
\* created after it, leaves a worker without a sentinel, which then holds _rlock.
TerminateReturns ==
  tmCaller = "lock" ~> tmCaller = "returned" \/ tmChanged \/ tmDeaf # {}

=============================================================================
