------------------------------- MODULE Monitor -------------------------------
(***************************************************************************)
(* What a condition variable promises its users, without the semaphores it *)
(* is built from: a lock, a set of sleepers, and a notification that wakes *)
(* one or all of them while its caller holds the lock.  Condition is shown *)
(* to implement this specification; Event is written on top of it.         *)
(***************************************************************************)
EXTENDS Integers

CONSTANTS
  Users,    \* the processes that share the condition variable
  Nobody    \* stands for no process

ASSUME MonitorAssumption == Nobody \notin Users

VARIABLES
  holder,     \* who holds the lock
  phase,      \* user -> "out", "asleep" in wait, or "awake" in wait
  notifying,  \* the notification under way: "none", "one" or "all"
  wakes,      \* 1 while that notification may wake another sleeper, else 0
  expired     \* how many waits have timed out

monVars == <<holder, phase, notifying, wakes, expired>>

Asleep == {u \in Users : phase[u] = "asleep"}

MonInit ==
  /\ holder = Nobody
  /\ phase = [u \in Users |-> "out"]
  /\ notifying = "none" /\ wakes = 0 /\ expired = 0

MonLock(u) ==
  /\ phase[u] = "out" /\ holder = Nobody
  /\ holder' = u
  /\ UNCHANGED <<phase, notifying, wakes, expired>>

MonUnlock(u) ==
  /\ holder = u /\ notifying = "none"
  /\ holder' = Nobody
  /\ UNCHANGED <<phase, notifying, wakes, expired>>

\* wait gives up the lock and goes to sleep in one step.
MonWait(u) ==
  /\ holder = u /\ notifying = "none"
  /\ holder' = Nobody
  /\ phase' = [phase EXCEPT ![u] = "asleep"]
  /\ UNCHANGED <<notifying, wakes, expired>>

\* Only a notification under way wakes a sleeper, and notify only one.
MonWake(u) ==
  /\ phase[u] = "asleep"
  /\ notifying # "none" /\ wakes = 1
  /\ phase' = [phase EXCEPT ![u] = "awake"]
  /\ wakes' = IF notifying = "one" THEN 0 ELSE 1
  /\ UNCHANGED <<holder, notifying, expired>>

MonTimeout(u) ==
  /\ phase[u] = "asleep"
  /\ phase' = [phase EXCEPT ![u] = "awake"]
  /\ expired' = expired + 1
  /\ UNCHANGED <<holder, notifying, wakes>>

MonRelock(u) ==
  /\ phase[u] = "awake" /\ holder = Nobody
  /\ holder' = u
  /\ phase' = [phase EXCEPT ![u] = "out"]
  /\ UNCHANGED <<notifying, wakes, expired>>

MonNotify(u, kind) ==
  /\ holder = u /\ notifying = "none"
  /\ notifying' = kind
  /\ wakes' = 1
  /\ UNCHANGED <<holder, phase, expired>>

\* notify_all returns when nobody sleeps any more; notify when it has woken
\* one of those that sleep, if there are any and no wait ever timed out.
MonReturn(u) ==
  /\ holder = u /\ notifying # "none"
  /\ notifying = "all" => Asleep = {}
  /\ notifying = "one" /\ expired = 0 /\ Asleep # {} => wakes = 0
  /\ notifying' = "none"
  /\ wakes' = 0
  /\ UNCHANGED <<holder, phase, expired>>

MonNext ==
  \E u \in Users :
    \/ MonLock(u) \/ MonUnlock(u) \/ MonWait(u) \/ MonWake(u)
    \/ MonTimeout(u) \/ MonRelock(u) \/ MonReturn(u)
    \/ \E kind \in {"one", "all"} : MonNotify(u, kind)

MonSpec == MonInit /\ [][MonNext]_monVars

=============================================================================
