------------------------------ MODULE Condition ------------------------------
(***************************************************************************)
(* The condition variable of billiard/synchronize.py: a lock and three     *)
(* semaphores shared by processes that wait, with or without a timeout,    *)
(* and notify.  One action is one operation on a semaphore, the points at  *)
(* which processes that do not hold the lock interleave with one that      *)
(* does; wait() does not hold it while it sleeps and while it wakes up.    *)
(***************************************************************************)
EXTENDS Integers, FiniteSets

CONSTANTS
  Procs,       \* the processes that share the condition
  NoProc,      \* stands for no process
  MaxDepth,    \* bound: how deep the RLock is taken; 1 behaves as Lock
  MaxTimeout,  \* bound: waits that end by their timeout or by a signal
  MaxCrash     \* bound: processes killed

ASSUME ConditionAssumption ==
  /\ IsFiniteSet(Procs) /\ NoProc \notin Procs
  /\ MaxDepth \in Nat \ {0} /\ MaxTimeout \in Nat /\ MaxCrash \in Nat

VARIABLES
  owner, depth,   \* _lock: who holds it, and SemLock.count of the holder
  sleeping,       \* _sleeping_count
  woken,          \* _woken_count
  waitSem,        \* _wait_semaphore
  pc,             \* process -> where it is in wait, notify or notify_all
  count,          \* process -> count in wait
  op,             \* process -> "one" in notify, "all" in notify_all
  sleepers,       \* process -> sleepers it has to await in notify, notify_all
  dead,           \* processes that were killed
  timeouts,       \* waits that timed out so far
  asleep          \* history: processes asleep when the last notify began

semVars  == <<sleeping, woken, waitSem>>
lockVars == <<owner, depth>>
envVars  == <<dead, timeouts>>
vars == <<semVars, lockVars, pc, count, op, sleepers, envVars, asleep>>

\* The control points of a process in wait before _woken_count.release, and in
\* notify or notify_all.
WaitPcs   == {"unlock", "sleep", "wakeup"}
NotifyPcs == {"rezero", "subtract", "grab", "post", "await", "clear"}

Waiting   == {p \in Procs : pc[p] \in WaitPcs}
Sleepers  == {p \in Procs : pc[p] = "sleep"}

Goto(p, l) == pc' = [pc EXCEPT ![p] = l]
At(p, l) == p \notin dead /\ pc[p] = l

\* notify or notify_all returns; its locals are gone.
Return(p) ==
  /\ Goto(p, "idle")
  /\ op' = [op EXCEPT ![p] = "one"]
  /\ asleep' = 0

(***************************************************************************)
(* The lock                                                                *)
(***************************************************************************)

\* SemLock.acquire
Acquire(p) ==
  /\ At(p, "idle")
  /\ \/ owner = NoProc /\ owner' = p /\ depth' = 1
     \/ owner = p /\ depth < MaxDepth /\ depth' = depth + 1 /\ UNCHANGED owner
  /\ UNCHANGED <<semVars, pc, count, op, sleepers, envVars, asleep>>

\* SemLock.release
Release(p) ==
  /\ At(p, "idle")
  /\ owner = p
  /\ depth' = depth - 1
  /\ owner' = IF depth = 1 THEN NoProc ELSE owner
  /\ UNCHANGED <<semVars, pc, count, op, sleepers, envVars, asleep>>

(***************************************************************************)
(* wait                                                                    *)
(***************************************************************************)

\* _sleeping_count.release()
WaitBegin(p) ==
  /\ At(p, "idle")
  /\ owner = p
  /\ sleeping' = sleeping + 1
  /\ Goto(p, "unlock")
  /\ UNCHANGED <<woken, waitSem, lockVars, count, op, sleepers, envVars, asleep>>

\* The lock is released as often as it was taken.
WaitUnlock(p) ==
  /\ At(p, "unlock")
  /\ count' = [count EXCEPT ![p] = depth]
  /\ depth' = 0
  /\ owner' = NoProc
  /\ Goto(p, "sleep")
  /\ UNCHANGED <<semVars, op, sleepers, envVars, asleep>>

\* _wait_semaphore.acquire succeeds ...
WaitNotified(p) ==
  /\ At(p, "sleep")
  /\ waitSem > 0
  /\ waitSem' = waitSem - 1
  /\ Goto(p, "wakeup")
  /\ UNCHANGED <<sleeping, woken, lockVars, count, op, sleepers, envVars, asleep>>

\* ... or times out, or is interrupted by a signal whose handler raises.
WaitTimeout(p) ==
  /\ At(p, "sleep")
  /\ timeouts < MaxTimeout
  /\ timeouts' = timeouts + 1
  /\ Goto(p, "wakeup")
  /\ UNCHANGED <<semVars, lockVars, count, op, sleepers, dead, asleep>>

\* Mutant of WaitWoken: only a process that was notified says so.
WaitWokenSilently(p) ==
  /\ At(p, "wakeup")
  /\ woken' = IF timeouts = 0 THEN woken + 1 ELSE woken
  /\ Goto(p, "relock")
  /\ UNCHANGED <<sleeping, waitSem, lockVars, count, op, sleepers, envVars, asleep>>

\* _woken_count.release() in the finally clause
WaitWoken(p) ==
  /\ At(p, "wakeup")
  /\ woken' = woken + 1
  /\ Goto(p, "relock")
  /\ UNCHANGED <<sleeping, waitSem, lockVars, count, op, sleepers, envVars, asleep>>

\* The lock is taken again, as often as before.
WaitRelock(p) ==
  /\ At(p, "relock")
  /\ owner = NoProc
  /\ owner' = p
  /\ depth' = count[p]
  /\ count' = [count EXCEPT ![p] = 0]
  /\ Goto(p, "idle")
  /\ UNCHANGED <<semVars, op, sleepers, envVars, asleep>>

(***************************************************************************)
(* notify and notify_all                                                   *)
(***************************************************************************)

\* assert not self._wait_semaphore.acquire(False)
NotifyBegin(p, o) ==
  /\ At(p, "idle")
  /\ owner = p
  /\ op' = [op EXCEPT ![p] = o]
  /\ asleep' = Cardinality(Sleepers)
  /\ IF waitSem > 0 THEN waitSem' = waitSem - 1 /\ Goto(p, "failed")
                    ELSE UNCHANGED waitSem /\ Goto(p, "rezero")
  /\ UNCHANGED <<sleeping, woken, lockVars, count, sleepers, envVars>>

\* The test of the loop: _woken_count.acquire(False)
NotifyRezero(p) ==
  /\ At(p, "rezero")
  /\ IF woken > 0 THEN woken' = woken - 1 /\ Goto(p, "subtract")
                  ELSE UNCHANGED woken /\ Goto(p, "grab")
  /\ UNCHANGED <<sleeping, waitSem, lockVars, count, op, sleepers, envVars, asleep>>

\* Its body: res = _sleeping_count.acquire(False), assert res
NotifySubtract(p) ==
  /\ At(p, "subtract")
  /\ IF sleeping > 0 THEN sleeping' = sleeping - 1 /\ Goto(p, "rezero")
                     ELSE UNCHANGED sleeping /\ Goto(p, "failed")
  /\ UNCHANGED <<woken, waitSem, lockVars, count, op, sleepers, envVars, asleep>>

\* _sleeping_count.acquire(False): try grabbing a sleeper.
NotifyGrab(p) ==
  /\ At(p, "grab")
  /\ \/ /\ sleeping > 0
        /\ sleeping' = sleeping - 1
        /\ Goto(p, "post")
        /\ UNCHANGED <<op, asleep>>
     \/ /\ sleeping = 0 /\ sleepers[p] > 0
        /\ Goto(p, "await")
        /\ UNCHANGED <<sleeping, op, asleep>>
     \/ /\ sleeping = 0 /\ sleepers[p] = 0
        /\ Return(p)
        /\ UNCHANGED sleeping
  /\ UNCHANGED <<woken, waitSem, lockVars, count, sleepers, envVars>>

\* Mutant of NotifyPost: notify goes on grabbing, too.
NotifyPostAgain(p) ==
  /\ At(p, "post")
  /\ waitSem' = waitSem + 1
  /\ sleepers' = [sleepers EXCEPT ![p] = @ + 1]
  /\ Goto(p, "grab")
  /\ UNCHANGED <<sleeping, woken, lockVars, count, op, envVars, asleep>>

\* _wait_semaphore.release(): wake one up; notify_all goes on grabbing.
NotifyPost(p) ==
  /\ At(p, "post")
  /\ waitSem' = waitSem + 1
  /\ sleepers' = [sleepers EXCEPT ![p] = @ + 1]
  /\ Goto(p, IF op[p] = "all" THEN "grab" ELSE "await")
  /\ UNCHANGED <<sleeping, woken, lockVars, count, op, envVars, asleep>>

\* _woken_count.acquire(), once for each sleeper grabbed
NotifyAwait(p) ==
  /\ At(p, "await")
  /\ woken > 0
  /\ woken' = woken - 1
  /\ sleepers' = [sleepers EXCEPT ![p] = @ - 1]
  /\ Goto(p, IF sleepers[p] = 1 THEN "clear" ELSE "await")
  /\ UNCHANGED <<sleeping, waitSem, lockVars, count, op, envVars, asleep>>

\* Mutant of NotifyClear: _wait_semaphore is not rezeroed.
NotifyClearNothing(p) ==
  /\ At(p, "clear")
  /\ Return(p)
  /\ UNCHANGED <<semVars, lockVars, count, sleepers, envVars>>

\* _wait_semaphore.acquire(False): once in notify, until it fails in
\* notify_all.
NotifyClear(p) ==
  /\ At(p, "clear")
  /\ waitSem' = IF waitSem > 0 THEN waitSem - 1 ELSE waitSem
  /\ IF op[p] = "all" /\ waitSem > 0 THEN UNCHANGED <<pc, op, asleep>>
                                      ELSE Return(p)
  /\ UNCHANGED <<sleeping, woken, lockVars, count, sleepers, envVars>>

\* A process is killed; what it held or counted stays as it is.
Crash(p) ==
  /\ p \notin dead
  /\ Cardinality(dead) < MaxCrash
  /\ dead' = dead \cup {p}
  /\ UNCHANGED <<semVars, lockVars, pc, count, op, sleepers, timeouts, asleep>>

(***************************************************************************)
(* The specification                                                       *)
(***************************************************************************)

Init ==
  /\ owner = NoProc /\ depth = 0
  /\ sleeping = 0 /\ woken = 0 /\ waitSem = 0
  /\ pc = [p \in Procs |-> "idle"]
  /\ count = [p \in Procs |-> 0]
  /\ op = [p \in Procs |-> "one"]
  /\ sleepers = [p \in Procs |-> 0]
  /\ dead = {} /\ timeouts = 0 /\ asleep = 0

\* What a process does by itself once it has called wait ...
WaitStep(p) ==
  \/ WaitUnlock(p) \/ WaitNotified(p) \/ WaitWoken(p) \/ WaitRelock(p)

\* ... and once it has called notify or notify_all.
NotifyStep(p) ==
  \/ NotifyRezero(p) \/ NotifySubtract(p) \/ NotifyGrab(p) \/ NotifyPost(p)
  \/ NotifyAwait(p) \/ NotifyClear(p)

Next ==
  \E p \in Procs :
    \/ Acquire(p) \/ Release(p) \/ WaitBegin(p) \/ WaitTimeout(p)
    \/ (\E o \in {"one", "all"} : NotifyBegin(p, o))
    \/ WaitStep(p) \/ NotifyStep(p) \/ Crash(p)

Spec == Init /\ [][Next]_vars

\* A process that is inside wait or notify and not blocked goes on.
Fairness ==
  \A p \in Procs : WF_vars(WaitStep(p)) /\ WF_vars(NotifyStep(p))

FairSpec == Spec /\ Fairness

(***************************************************************************)
(* Properties                                                              *)
(***************************************************************************)

\* Every variable has its type.
TypeOK ==
  /\ owner \in Procs \cup {NoProc} /\ depth \in Nat
  /\ sleeping \in Nat /\ woken \in Nat /\ waitSem \in Nat
  /\ pc \in [Procs -> {"idle", "relock", "failed"} \cup WaitPcs \cup NotifyPcs]
  /\ count \in [Procs -> Nat]
  /\ op \in [Procs -> {"one", "all"}]
  /\ sleepers \in [Procs -> Nat]
  /\ dead \subseteq Procs /\ timeouts \in Nat /\ asleep \in Nat

\* The sleepers that a notify in progress has grabbed and not yet seen wake up,
\* and the woken one it has not yet subtracted from _sleeping_count.
Grabbed ==
  IF owner = NoProc THEN 0
  ELSE sleepers[owner] + (IF pc[owner] = "post" THEN 1 ELSE 0)
Unsubtracted == IF owner # NoProc /\ pc[owner] = "subtract" THEN 1 ELSE 0

\* The two counters always account for the processes inside wait: no wait that
\* times out next to a notify is counted twice or forgotten, so the number of
\* waiters that __repr__ computes is right between notifications.
SleepersAccounted ==
  sleeping + Grabbed = Cardinality(Waiting) + woken + Unsubtracted

\* The assertions of notify and notify_all never fail: no notification left a
\* token in _wait_semaphore, and every woken sleeper was counted as sleeping.
AssertionsHold == \A p \in Procs : pc[p] # "failed"

\* A token is only there while the notification that posted it is running, so
\* a wait that begins later can never be woken by it.
NoStaleToken == waitSem > 0 => owner # NoProc /\ pc[owner] \in NotifyPcs

\* notify_all wakes everybody: when it has awaited its sleepers, nobody is
\* left asleep, although waits may time out all the while.
NotifyAllWakesAll ==
  \A p \in Procs : pc[p] = "clear" /\ op[p] = "all" => Waiting = {}

\* notify wakes exactly one of the processes that were asleep when it began,
\* as long as no wait ever timed out.
NotifyWakesOne ==
  \A p \in Procs : pc[p] = "clear" /\ op[p] = "one" /\ timeouts = 0 =>
    Cardinality(Sleepers) = asleep - 1

\* wait, notify and notify_all never disturb each other, whoever times out or is
\* killed: the counters account for every sleeper, no assertion fails, no token is
\* left for a later wait, and a notification wakes whom it should.
ConditionSafe ==
  /\ TypeOK
  /\ SleepersAccounted
  /\ AssertionsHold
  /\ NoStaleToken
  /\ NotifyAllWakesAll
  /\ NotifyWakesOne

\* notify and notify_all return, whatever waits time out, unless a process is
\* killed.
NotifyReturns ==
  \A p \in Procs : pc[p] \in NotifyPcs ~> pc[p] = "idle" \/ dead # {}

(***************************************************************************)
(* Refinement: the condition implements the monitor                        *)
(***************************************************************************)

\* A process sleeps from the release of the lock until its acquire of
\* _wait_semaphore ends, and is awake until it has the lock again.
Phase(p) ==
  IF pc[p] = "sleep" THEN "asleep"
  ELSE IF pc[p] \in {"wakeup", "relock"} THEN "awake" ELSE "out"

Notification ==
  IF owner # NoProc /\ pc[owner] \in NotifyPcs THEN op[owner] ELSE "none"

\* Once notify has posted its token, that token is what can wake somebody.
Wakes ==
  IF Notification = "none" THEN 0
  ELSE IF op[owner] = "one" /\ pc[owner] \in {"await", "clear"} THEN waitSem
  ELSE 1

Mon == INSTANCE Monitor WITH
  Users <- Procs, Nobody <- NoProc, holder <- owner,
  phase <- [p \in Procs |-> Phase(p)], notifying <- Notification,
  wakes <- Wakes, expired <- timeouts

\* Every step of wait, notify and notify_all is a step of the monitor or none:
\* a sleeper wakes only by its timeout or inside a notification, notify never
\* wakes two, and notify_all does not return while anybody sleeps.
ImplementsMonitor == Mon!MonSpec

=============================================================================
