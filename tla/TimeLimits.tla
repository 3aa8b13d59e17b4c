----------------------------- MODULE TimeLimits -----------------------------
(***************************************************************************)
(* Soft and hard time limits of billiard/pool.py: ApplyResult, the         *)
(* TimeoutHandler thread that scans a copy of the job cache, the signals   *)
(* it sends to workers, and the confirmation of an ACK (synack) by which a *)
(* cancelled job is refused.  ResultHandler, TimeoutHandler, the caller    *)
(* and the workers interleave; only ApplyResult._mutex orders them.  What  *)
(* happens to a job whose worker is lost is in Pool; there is no           *)
(* replacement of workers here.                                            *)
(***************************************************************************)
EXTENDS Integers, Sequences

CONSTANTS
  TlJobs,      \* jobs of apply_async with a soft and a hard limit
  TlWorkers,   \* workers
  NoTlJob,     \* stands for no job, and for no worker
  BadAccept,   \* the jobs whose accept callback raises
  Stubborn     \* the jobs whose function survives SIGTERM

ASSUME TimeLimitsAssumption ==
  /\ NoTlJob \notin TlJobs \cup TlWorkers
  /\ BadAccept \subseteq TlJobs /\ Stubborn \subseteq TlJobs

VARIABLES
  tlSynack,     \* the pool was made with synack
  tlInq, tlOut, \* inqueue: the jobs; outqueue: the messages, the first of which
                \* ResultHandler may have in hand
  tlFound,      \* on_ready has found the job of that message in the cache
  tlSyn,        \* worker -> the answer in its synq: "none", "ACK" or "NACK"
  tlPc,         \* worker -> "idle", "syn", "run", "dead" or "gone" (joined)
  tlWork,       \* worker -> its job
  tlSig,        \* worker -> a soft-limit signal is pending
  tlNew,        \* the jobs not submitted yet
  tlCache,      \* the jobs in _cache
  tlCancelled, tlAccepted,   \* jobs with _cancelled, _accepted
  tlPid,        \* job -> _worker_pid
  tlAge,        \* job -> time since _time_accepted: 0, past the soft limit 1, past both 2
  tlResult,     \* job -> "none", or the kind of _value
  tlInTime,     \* the jobs whose result came before their hard limit
  tlSoftCb,     \* job -> calls of the timeout callback with soft=True
  tlHandler,    \* TimeoutHandler: "sleep", "scan", "soft", "set", "term" or "kill"
  tlCopy,       \* the copy of the cache that is still to be scanned
  tlDirty,      \* dirty: the jobs that were warned
  tlAt          \* the job at hand

tlJobVars == <<tlNew, tlCancelled, tlAccepted, tlPid, tlAge>>
tlWorkerVars == <<tlPc, tlWork, tlSig, tlSyn>>
tlValueVars == <<tlCache, tlResult, tlInTime>>
tlScanVars == <<tlHandler, tlCopy, tlDirty, tlAt>>
tlVars == <<tlSynack, tlFound, tlInq, tlOut, tlJobVars, tlWorkerVars, tlValueVars, tlSoftCb,
            tlScanVars>>

tlReady(j) == tlResult[j] # "none"

TlInit ==
  /\ tlSynack \in BOOLEAN
  /\ tlInq = <<>> /\ tlOut = <<>> /\ tlFound = FALSE
  /\ tlSyn = [w \in TlWorkers |-> "none"]
  /\ tlPc = [w \in TlWorkers |-> "idle"]
  /\ tlWork = [w \in TlWorkers |-> NoTlJob]
  /\ tlSig = [w \in TlWorkers |-> FALSE]
  /\ tlNew = TlJobs
  /\ tlCache = {} /\ tlCancelled = {} /\ tlAccepted = {} /\ tlInTime = {}
  /\ tlPid = [j \in TlJobs |-> NoTlJob]
  /\ tlAge = [j \in TlJobs |-> 0]
  /\ tlResult = [j \in TlJobs |-> "none"]
  /\ tlSoftCb = [j \in TlJobs |-> 0]
  /\ tlHandler = "sleep" /\ tlCopy = {} /\ tlDirty = {} /\ tlAt = NoTlJob

\* ApplyResult._set with a value of that kind.
TlSet(j, kind) ==
  /\ tlResult' = [tlResult EXCEPT ![j] = kind]
  /\ tlCache' = IF j \in tlAccepted THEN tlCache \ {j} ELSE tlCache

(***************************************************************************)
(* The caller and the workers                                              *)
(***************************************************************************)

TlSubmit(j) ==
  /\ j \in tlNew
  /\ tlNew' = tlNew \ {j}
  /\ tlCache' = tlCache \cup {j}
  /\ tlInq' = Append(tlInq, j)
  /\ UNCHANGED <<tlSynack, tlFound, tlOut, tlCancelled, tlAccepted, tlPid, tlAge, tlWorkerVars,
                 tlResult, tlInTime, tlSoftCb, tlScanVars>>

\* ApplyResult._cancel; without synack nothing reads the flag.
TlCancel(j) ==
  /\ tlSynack /\ j \in tlCache \ tlCancelled
  /\ tlCancelled' = tlCancelled \cup {j}
  /\ UNCHANGED <<tlSynack, tlFound, tlInq, tlOut, tlNew, tlAccepted, tlPid, tlAge, tlWorkerVars,
                 tlValueVars, tlSoftCb, tlScanVars>>

\* workloop: a job is read and acknowledged; with synack the worker waits.
TlTake(w) ==
  /\ tlPc[w] = "idle" /\ tlInq # <<>> /\ ~tlSig[w]
  /\ tlInq' = Tail(tlInq)
  /\ tlWork' = [tlWork EXCEPT ![w] = Head(tlInq)]
  /\ tlOut' = Append(tlOut, [type |-> "ACK", job |-> Head(tlInq), from |-> w, kind |-> "none"])
  /\ tlPc' = [tlPc EXCEPT ![w] = IF tlSynack THEN "syn" ELSE "run"]
  /\ UNCHANGED <<tlSynack, tlFound, tlSig, tlSyn, tlJobVars, tlValueVars, tlSoftCb, tlScanVars>>

\* wait_for_syn: a NACK sends the worker back for the next job.
WaitForSyn(w) ==
  /\ tlPc[w] = "syn" /\ tlSyn[w] # "none" /\ ~tlSig[w]
  /\ tlPc' = [tlPc EXCEPT ![w] = IF tlSyn[w] = "NACK" THEN "idle" ELSE "run"]
  /\ tlSyn' = [tlSyn EXCEPT ![w] = "none"]
  /\ UNCHANGED <<tlSynack, tlFound, tlInq, tlOut, tlWork, tlSig, tlJobVars, tlValueVars, tlSoftCb,
                 tlScanVars>>

\* The function ends and READY is written.
TlFinish(w) ==
  /\ tlPc[w] = "run" /\ ~tlSig[w]
  /\ tlPc' = [tlPc EXCEPT ![w] = "idle"]
  /\ tlOut' = Append(tlOut, [type |-> "READY", job |-> tlWork[w], from |-> w, kind |-> "value"])
  /\ UNCHANGED <<tlSynack, tlFound, tlInq, tlWork, tlSig, tlSyn, tlJobVars, tlValueVars, tlSoftCb,
                 tlScanVars>>

\* soft_timeout_sighandler: the exception is raised wherever the worker is.  In
\* the function it becomes its result, or is caught there; outside it ends the
\* worker.
TlSignal(w) ==
  /\ tlSig[w] /\ tlPc[w] \in {"idle", "syn", "run"}
  /\ tlSig' = [tlSig EXCEPT ![w] = FALSE]
  /\ \/ /\ tlPc[w] = "run"
        /\ tlPc' = [tlPc EXCEPT ![w] = "idle"]
        /\ tlOut' = Append(tlOut, [type |-> "READY", job |-> tlWork[w], from |-> w,
                                   kind |-> "soft"])
     \/ tlPc[w] = "run" /\ UNCHANGED <<tlPc, tlOut>>
     \/ /\ tlPc[w] # "run"
        /\ tlPc' = [tlPc EXCEPT ![w] = "dead"]
        /\ UNCHANGED tlOut
  /\ UNCHANGED <<tlSynack, tlFound, tlInq, tlWork, tlSyn, tlJobVars, tlValueVars, tlSoftCb,
                 tlScanVars>>

\* _join_exited_workers removes the worker from the pool.
TlJoin(w) ==
  /\ tlPc[w] = "dead"
  /\ tlPc' = [tlPc EXCEPT ![w] = "gone"]
  /\ UNCHANGED <<tlSynack, tlFound, tlInq, tlOut, tlWork, tlSig, tlSyn, tlJobVars, tlValueVars,
                 tlSoftCb, tlScanVars>>

\* _time_accepted recedes.
TlElapse(j) ==
  /\ tlPid[j] # NoTlJob /\ tlAge[j] < 2
  /\ tlAge' = [tlAge EXCEPT ![j] = @ + 1]
  /\ UNCHANGED <<tlSynack, tlFound, tlInq, tlOut, tlNew, tlCancelled, tlAccepted, tlPid,
                 tlWorkerVars, tlValueVars, tlSoftCb, tlScanVars>>

(***************************************************************************)
(* ResultHandler                                                           *)
(***************************************************************************)

\* on_ack and ApplyResult._ack.  If the accept callback raises, the clause
\* "except self._propagate_errors" raises AttributeError in turn, which on_ack
\* ignores: no answer is sent.
TlOnAck ==
  /\ tlOut # <<>> /\ Head(tlOut).type = "ACK"
  /\ LET j == Head(tlOut).job
         w == Head(tlOut).from
         refused == j \in tlCancelled /\ tlSynack
     IN
     /\ tlAccepted' = IF j \in tlCache THEN tlAccepted \cup {j} ELSE tlAccepted
     /\ IF j \in tlCache /\ ~refused
        THEN /\ tlPid' = [tlPid EXCEPT ![j] = w]
             /\ tlCache' = IF tlReady(j) THEN tlCache \ {j} ELSE tlCache
        ELSE UNCHANGED <<tlPid, tlCache>>
     /\ tlSyn' = IF ~tlSynack \/ j \notin tlCache THEN tlSyn
                 ELSE IF refused THEN [tlSyn EXCEPT ![w] = "NACK"]
                 ELSE IF j \in BadAccept THEN tlSyn
                 ELSE [tlSyn EXCEPT ![w] = "ACK"]
  /\ tlOut' = Tail(tlOut)
  /\ UNCHANGED <<tlSynack, tlFound, tlInq, tlNew, tlCancelled, tlAge, tlPc, tlWork, tlSig,
                 tlResult, tlInTime, tlSoftCb, tlScanVars>>

\* on_ready: the job is looked up in the cache ...
TlOnReady ==
  /\ tlOut # <<>> /\ Head(tlOut).type = "READY" /\ ~tlFound
  /\ IF Head(tlOut).job \in tlCache THEN tlFound' = TRUE /\ UNCHANGED tlOut
     ELSE tlOut' = Tail(tlOut) /\ UNCHANGED tlFound
  /\ UNCHANGED <<tlSynack, tlInq, tlJobVars, tlWorkerVars, tlValueVars, tlSoftCb, tlScanVars>>

\* ... and its result is set, also if the hard limit has struck in between.
TlReadySet ==
  /\ tlFound
  /\ LET j == Head(tlOut).job IN
     /\ TlSet(j, Head(tlOut).kind)
     /\ tlInTime' = IF tlAge[j] < 2 /\ ~tlReady(j) THEN tlInTime \cup {j} ELSE tlInTime
  /\ tlFound' = FALSE /\ tlOut' = Tail(tlOut)
  /\ UNCHANGED <<tlSynack, tlInq, tlJobVars, tlWorkerVars, tlSoftCb, tlScanVars>>

(***************************************************************************)
(* TimeoutHandler                                                          *)
(***************************************************************************)

\* A round begins: the cache is copied.  (A round over an empty cache does
\* nothing.)
ScanBegin ==
  /\ tlHandler = "sleep" /\ tlCache # {}
  /\ tlHandler' = "scan"
  /\ tlCopy' = tlCache
  /\ tlDirty' = tlDirty \cap tlCache
  /\ UNCHANGED <<tlSynack, tlFound, tlInq, tlOut, tlJobVars, tlWorkerVars, tlValueVars, tlSoftCb,
                 tlAt>>

\* Nothing to do for j: no limit has passed, it is ready, or it was warned.
ScanSkip(j) ==
  /\ tlHandler = "scan" /\ j \in tlCopy
  /\ \/ tlAge[j] = 0
     \/ tlAge[j] = 2 /\ tlReady(j)
     \/ tlAge[j] = 1 /\ j \in tlDirty
  /\ tlCopy' = tlCopy \ {j}
  /\ UNCHANGED <<tlSynack, tlFound, tlInq, tlOut, tlJobVars, tlWorkerVars, tlValueVars, tlSoftCb,
                 tlHandler, tlDirty, tlAt>>

\* on_soft_timeout: the process is looked up, the callback is called ...
ScanSoft(j) ==
  /\ tlHandler = "scan" /\ j \in tlCopy
  /\ tlAge[j] = 1 /\ j \notin tlDirty
  /\ tlCopy' = tlCopy \ {j}
  /\ tlDirty' = tlDirty \cup {j}
  /\ IF tlPc[tlPid[j]] # "gone"
     THEN /\ tlSoftCb' = [tlSoftCb EXCEPT ![j] = @ + 1]
          /\ tlHandler' = "soft" /\ tlAt' = j
     ELSE UNCHANGED <<tlSoftCb, tlHandler, tlAt>>
  /\ UNCHANGED <<tlSynack, tlFound, tlInq, tlOut, tlJobVars, tlWorkerVars, tlValueVars>>

\* ... and the signal is sent, whatever the worker does by now.
SoftKill ==
  /\ tlHandler = "soft"
  /\ tlSig' = [tlSig EXCEPT ![tlPid[tlAt]] = tlPc[tlPid[tlAt]] \in {"idle", "syn", "run"}]
  /\ tlHandler' = "scan"
  /\ UNCHANGED <<tlSynack, tlFound, tlInq, tlOut, tlJobVars, tlPc, tlWork, tlSyn, tlValueVars,
                 tlSoftCb, tlCopy, tlDirty, tlAt>>

\* Mutant of ScanHard: a job that is ready is timed out too.
ScanHardAny(j) ==
  /\ tlHandler = "scan" /\ j \in tlCopy
  /\ tlAge[j] = 2
  /\ tlCopy' = tlCopy \ {j}
  /\ tlHandler' = "set" /\ tlAt' = j
  /\ UNCHANGED <<tlSynack, tlFound, tlInq, tlOut, tlJobVars, tlWorkerVars, tlValueVars, tlSoftCb,
                 tlDirty>>

\* on_hard_timeout: the job is not ready, ...
ScanHard(j) ==
  /\ tlHandler = "scan" /\ j \in tlCopy
  /\ tlAge[j] = 2 /\ ~tlReady(j)
  /\ tlCopy' = tlCopy \ {j}
  /\ tlHandler' = "set" /\ tlAt' = j
  /\ UNCHANGED <<tlSynack, tlFound, tlInq, tlOut, tlJobVars, tlWorkerVars, tlValueVars, tlSoftCb,
                 tlDirty>>

\* Mutant of HardSet: a worker that is gone is found before the job is set.
HardSetLate ==
  /\ tlHandler = "set"
  /\ IF tlPc[tlPid[tlAt]] = "gone" THEN UNCHANGED <<tlResult, tlCache>> ELSE TlSet(tlAt, "hard")
  /\ tlHandler' = IF tlPc[tlPid[tlAt]] = "gone" THEN "scan" ELSE "term"
  /\ UNCHANGED <<tlSynack, tlFound, tlInq, tlOut, tlJobVars, tlWorkerVars, tlInTime, tlSoftCb,
                 tlCopy, tlDirty, tlAt>>

\* ... it is set to TimeLimitExceeded (a result may have come since), the
\* callback is called and the process is looked up ...
HardSet ==
  /\ tlHandler = "set"
  /\ TlSet(tlAt, "hard")
  /\ tlHandler' = IF tlPc[tlPid[tlAt]] = "gone" THEN "scan" ELSE "term"
  /\ UNCHANGED <<tlSynack, tlFound, tlInq, tlOut, tlJobVars, tlWorkerVars, tlInTime, tlSoftCb,
                 tlCopy, tlDirty, tlAt>>

\* ... it is sent SIGTERM, with its group: a worker unwinds to its exit and
\* reports nothing, unless the function it runs survives that.
HardTerm ==
  /\ tlHandler = "term"
  /\ LET w == tlPid[tlAt] IN
     tlPc' = IF tlPc[w] \in {"idle", "syn"} \/ (tlPc[w] = "run" /\ tlWork[w] \notin Stubborn)
             THEN [tlPc EXCEPT ![w] = "dead"] ELSE tlPc
  /\ tlHandler' = "kill"
  /\ UNCHANGED <<tlSynack, tlFound, tlInq, tlOut, tlJobVars, tlWork, tlSig, tlSyn, tlValueVars,
                 tlSoftCb, tlCopy, tlDirty, tlAt>>

\* ... and SIGKILL if it has not exited within 0.1 s.
HardKill ==
  /\ tlHandler = "kill"
  /\ LET w == tlPid[tlAt] IN
     tlPc' = IF tlPc[w] = "gone" THEN tlPc ELSE [tlPc EXCEPT ![w] = "dead"]
  /\ tlHandler' = "scan"
  /\ UNCHANGED <<tlSynack, tlFound, tlInq, tlOut, tlJobVars, tlWork, tlSig, tlSyn, tlValueVars,
                 tlSoftCb, tlCopy, tlDirty, tlAt>>

\* The round is over: sleep for a second.
ScanEnd ==
  /\ tlHandler = "scan" /\ tlCopy = {}
  /\ tlHandler' = "sleep"
  /\ UNCHANGED <<tlSynack, tlFound, tlInq, tlOut, tlJobVars, tlWorkerVars, tlValueVars, tlSoftCb,
                 tlCopy, tlDirty, tlAt>>

TlScan ==
  \/ ScanBegin \/ ScanEnd \/ SoftKill \/ HardSet \/ HardTerm \/ HardKill
  \/ \E j \in TlJobs : ScanSkip(j) \/ ScanSoft(j) \/ ScanHard(j)
TlOnMessage == TlOnAck \/ TlOnReady \/ TlReadySet

TlNext ==
  \/ \E j \in TlJobs : TlSubmit(j) \/ TlCancel(j) \/ TlElapse(j)
  \/ \E w \in TlWorkers :
       TlTake(w) \/ WaitForSyn(w) \/ TlFinish(w) \/ TlSignal(w) \/ TlJoin(w)
  \/ TlOnMessage \/ TlScan

TlSpec == TlInit /\ [][TlNext]_tlVars

\* The handler goes on; and so do time, the result handler and the workers that
\* wait for a confirmation or got a signal.  No function is obliged to end.
TlProgress ==
  \/ TlOnMessage
  \/ \E j \in TlJobs : TlElapse(j)
  \/ \E w \in TlWorkers : WaitForSyn(w) \/ TlSignal(w)
TlFairness == WF_tlVars(TlScan) /\ WF_tlVars(TlProgress)

(***************************************************************************)
(* Properties                                                              *)
(***************************************************************************)

\* A result that arrived before the hard limit is never replaced by
\* TimeLimitExceeded, although the handler works on a copy of the cache that
\* still holds the job.
EarlyResultKept == \A j \in tlInTime : tlResult[j] # "hard"

\* The soft-limit callback is called once per job, over all rounds of the
\* handler and however the cache changes between them.
SoftOnce == \A j \in TlJobs : tlSoftCb[j] <= 1

\* With synack no worker runs a job whose cancellation came before its ACK was
\* handled: it runs a job only if the parent has recorded it as its worker.
ConfirmedBeforeRun ==
  tlSynack => \A w \in TlWorkers : tlPc[w] = "run" => tlPid[tlWork[w]] = w

\* The hard limit leaves a job alone that has finished in time.  The soft one is
\* promised less: its callback is called once at most, and that may be for a job
\* that has finished since the cache was copied.  And a worker that needs a
\* confirmation runs nothing without it.
LimitsSafe ==
  /\ EarlyResultKept
  /\ SoftOnce
  /\ ConfirmedBeforeRun

\* A job that has been accepted becomes ready: by its own result, or by the
\* hard limit if the function never ends.
HardLimitEnds ==
  LET waits == {j \in TlJobs : tlPid[j] # NoTlJob /\ ~tlReady(j)}
  IN waits # {} ~> waits = {}

\* A worker whose job exceeded the hard limit does not go on running it, not
\* even if the function survives SIGTERM.
HardLimitStops ==
  LET over == {w \in TlWorkers : tlPc[w] = "run" /\ tlResult[tlWork[w]] = "hard"}
  IN over # {} ~> over = {}

\* A worker that waits for the confirmation of a job gets one, or is ended,
\* unless the accept callback of that job raised.
SynAnswered ==
  \A w \in TlWorkers :
    tlPc[w] = "syn" ~> tlPc[w] # "syn" \/ tlWork[w] \in BadAccept

\* Nobody waits for ever for a function that does not end, nor for an answer to
\* an ACK, and the function is stopped.
LimitsLive ==
  /\ HardLimitEnds
  /\ HardLimitStops
  /\ SynAnswered

=============================================================================
