-------------------------------- MODULE Event --------------------------------
(***************************************************************************)
(* Event of billiard/synchronize.py: a flag (a semaphore of 0 or 1) under  *)
(* a condition variable, used by several processes.  The condition is the  *)
(* abstract Monitor.  A method holds the lock from its first to its last   *)
(* statement except while it sleeps, so what it does in between is a step. *)
(***************************************************************************)
EXTENDS Monitor

CONSTANT MaxExpired   \* bound: waits that time out

VARIABLES
  evFlag,   \* value of the semaphore _flag
  evPc,     \* user -> the method it is in, and where
  evRes,    \* user -> what its last wait returned: "none", "true" or "false"
  evWhy     \* history: user -> reasons for the last wait to return False

eventVars == <<monVars, evFlag, evPc, evRes, evWhy>>

EvGoto(u, l) == evPc' = [evPc EXCEPT ![u] = l]

EventInit ==
  /\ MonInit
  /\ evFlag = 0
  /\ evPc = [u \in Users |-> "idle"]
  /\ evRes = [u \in Users |-> "none"]
  /\ evWhy = [u \in Users |-> {}]

\* with self._cond, at the start of each method
EvEnter(u, method) ==
  /\ evPc[u] = "idle"
  /\ MonLock(u)
  /\ EvGoto(u, method)
  /\ evRes' = [evRes EXCEPT ![u] = "none"]
  /\ evWhy' = [evWhy EXCEPT ![u] = {}]
  /\ UNCHANGED evFlag

\* The end of the with statement
EvLeave(u) ==
  /\ evPc[u] = "leave"
  /\ MonUnlock(u)
  /\ EvGoto(u, "idle")
  /\ UNCHANGED <<evFlag, evRes, evWhy>>

\* is_set: the flag is taken and put back.
EvIsSet(u) ==
  /\ evPc[u] = "is_set"
  /\ EvGoto(u, "leave")
  /\ UNCHANGED <<monVars, evFlag, evRes, evWhy>>

\* Mutant of EvSet: only one of the waiters is notified.
EvSetNotifiesOne(u) ==
  /\ evPc[u] = "set"
  /\ evFlag' = 1
  /\ MonNotify(u, "one")
  /\ EvGoto(u, "notify")
  /\ UNCHANGED <<evRes, evWhy>>

\* set: the flag becomes 1, then notify_all begins ...
EvSet(u) ==
  /\ evPc[u] = "set"
  /\ evFlag' = 1
  /\ MonNotify(u, "all")
  /\ EvGoto(u, "notify")
  /\ UNCHANGED <<evRes, evWhy>>

\* ... and returns.
EvNotified(u) ==
  /\ evPc[u] = "notify"
  /\ MonReturn(u)
  /\ EvGoto(u, "leave")
  /\ UNCHANGED <<evFlag, evRes, evWhy>>

\* clear
EvClear(u) ==
  /\ evPc[u] = "clear"
  /\ evFlag' = 0
  /\ evWhy' = [v \in Users |->
                 IF evPc[v] = "sleep" THEN evWhy[v] \cup {"cleared"} ELSE evWhy[v]]
  /\ EvGoto(u, "leave")
  /\ UNCHANGED <<monVars, evRes>>

\* wait returns at once if the flag is set, else it calls _cond.wait ...
EvWait(u) ==
  /\ evPc[u] = "wait"
  /\ \/ evFlag = 1 /\ EvGoto(u, "test") /\ UNCHANGED monVars
     \/ evFlag = 0 /\ EvGoto(u, "sleep") /\ MonWait(u)
  /\ UNCHANGED <<evFlag, evRes, evWhy>>

EvWoken(u) ==
  /\ evPc[u] = "sleep"
  /\ MonWake(u)
  /\ UNCHANGED <<evFlag, evPc, evRes, evWhy>>

EvTimeout(u) ==
  /\ evPc[u] = "sleep"
  /\ expired < MaxExpired
  /\ MonTimeout(u)
  /\ evWhy' = [evWhy EXCEPT ![u] = @ \cup {"expired"}]
  /\ UNCHANGED <<evFlag, evPc, evRes>>

EvRelock(u) ==
  /\ evPc[u] = "sleep"
  /\ MonRelock(u)
  /\ EvGoto(u, "test")
  /\ UNCHANGED <<evFlag, evRes, evWhy>>

\* ... and in either case looks at the flag again.
EvTest(u) ==
  /\ evPc[u] = "test"
  /\ evRes' = [evRes EXCEPT ![u] = IF evFlag = 1 THEN "true" ELSE "false"]
  /\ EvGoto(u, "leave")
  /\ UNCHANGED <<monVars, evFlag, evWhy>>

EventNext ==
  \E u \in Users :
    \/ \E m \in {"is_set", "set", "clear", "wait"} : EvEnter(u, m)
    \/ EvLeave(u) \/ EvIsSet(u) \/ EvSet(u) \/ EvNotified(u) \/ EvClear(u)
    \/ EvWait(u) \/ EvWoken(u) \/ EvTimeout(u) \/ EvRelock(u) \/ EvTest(u)

EventSpec == EventInit /\ [][EventNext]_eventVars

\* No waiter misses a set(): nobody sleeps while the flag is set, except
\* inside the notify_all that is about to wake everybody.
EventNoLostWakeup == evFlag = 1 /\ Asleep # {} => notifying = "all"

\* wait returns False only if its time was up or somebody cleared the event
\* while it slept (a set() followed by a clear() before the waiter has the lock
\* again); a plain set() is always seen.
EventFalseExplained == \A u \in Users : evRes[u] = "false" => evWhy[u] # {}

\* A set() reaches every waiter: none sleeps on, and none returns False for it.
EventSafe ==
  /\ EventNoLostWakeup
  /\ EventFalseExplained

=============================================================================
