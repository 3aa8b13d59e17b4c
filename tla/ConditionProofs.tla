--------------------------- MODULE ConditionProofs ---------------------------
(***************************************************************************)
(* Theorems about the condition variable of module Condition, for any      *)
(* number of processes, depth of the lock, timeouts and crashes.           *)
(***************************************************************************)
EXTENDS Condition, FiniteSetTheorems, TLAPS

\* Whoever notifies, or has announced that it will sleep, holds the lock, and
\* the lock is held by nobody else.
LockInv ==
  /\ \A p \in Procs : pc[p] \in NotifyPcs \cup {"unlock"} => owner = p
  /\ \A p \in Procs : pc[p] \in {"sleep", "wakeup", "relock"} => count[p] >= 1
  /\ owner # NoProc => pc[owner] \in NotifyPcs \cup {"idle", "unlock"}
  /\ owner # NoProc => depth >= 1

\* Where a notifier stands determines how many sleepers it waits for; once
\* notify_all has grabbed all sleepers, _sleeping_count stays zero.
NotifierInv ==
  \A p \in Procs :
    /\ sleepers[p] > 0 => pc[p] \in {"grab", "post", "await"}
    /\ pc[p] = "await" => sleepers[p] >= 1
    /\ pc[p] \in {"grab", "post"} /\ op[p] = "one" => sleepers[p] = 0
    /\ pc[p] = "await" /\ op[p] = "one" => sleepers[p] = 1
    /\ pc[p] \in {"await", "clear"} /\ op[p] = "all" => sleeping = 0

\* A token is in _wait_semaphore only while its notifier can still clear it,
\* and notify, which clears at most one, has posted at most one.
TokenInv ==
  /\ waitSem > 0 =>
       /\ owner # NoProc
       /\ pc[owner] \in {"grab", "post", "await", "clear"}
       /\ pc[owner] \in {"grab", "post"} => waitSem <= sleepers[owner]
       /\ op[owner] = "one" => waitSem <= 1

\* The inductive invariant.
IInv ==
  /\ TypeOK
  /\ LockInv
  /\ NotifierInv
  /\ TokenInv
  /\ SleepersAccounted
  /\ AssertionsHold

\* The processes inside wait can be counted, and so can those asleep.
LEMMA WaitingFinite ==
  /\ IsFiniteSet(Waiting) /\ Cardinality(Waiting) \in Nat
  /\ IsFiniteSet(Sleepers) /\ Cardinality(Sleepers) \in Nat
<1>1. Waiting \subseteq Procs /\ Sleepers \subseteq Procs
  BY DEF Waiting, Sleepers
<1> QED
  BY <1>1, ConditionAssumption, FS_Subset, FS_CardinalityType

\* Every step keeps the types.
LEMMA TypeNext ==
  ASSUME IInv, [Next]_vars
  PROVE  TypeOK'
<1> USE DEF IInv, TypeOK, WaitPcs, NotifyPcs, LockInv, NotifierInv
<1>0. CASE UNCHANGED vars
  BY <1>0 DEF vars, semVars, lockVars, envVars
<1>1. ASSUME NEW p \in Procs, Acquire(p)
     PROVE  TypeOK'
  BY <1>1
  DEF Acquire, At, Goto, semVars, lockVars, envVars
<1>2. ASSUME NEW p \in Procs, Release(p)
     PROVE  TypeOK'
  BY <1>2, ConditionAssumption
  DEF Release, At, Goto, semVars, lockVars, envVars
<1>3. ASSUME NEW p \in Procs, WaitBegin(p)
     PROVE  TypeOK'
  BY <1>3
  DEF WaitBegin, At, Goto, semVars, lockVars, envVars
<1>4. ASSUME NEW p \in Procs, WaitTimeout(p)
     PROVE  TypeOK'
  BY <1>4
  DEF WaitTimeout, At, Goto, semVars, lockVars, envVars
<1>5. ASSUME NEW p \in Procs, WaitUnlock(p)
     PROVE  TypeOK'
  BY <1>5
  DEF WaitUnlock, At, Goto, semVars, lockVars, envVars
<1>6. ASSUME NEW p \in Procs, WaitNotified(p)
     PROVE  TypeOK'
  BY <1>6
  DEF WaitNotified, At, Goto, semVars, lockVars, envVars
<1>7. ASSUME NEW p \in Procs, WaitWoken(p)
     PROVE  TypeOK'
  BY <1>7
  DEF WaitWoken, At, Goto, semVars, lockVars, envVars
<1>8. ASSUME NEW p \in Procs, WaitRelock(p)
     PROVE  TypeOK'
  BY <1>8
  DEF WaitRelock, At, Goto, semVars, lockVars, envVars
<1>9. ASSUME NEW p \in Procs, NotifyRezero(p)
     PROVE  TypeOK'
  BY <1>9
  DEF NotifyRezero, At, Goto, semVars, lockVars, envVars
<1>10. ASSUME NEW p \in Procs, NotifySubtract(p)
     PROVE  TypeOK'
  BY <1>10
  DEF NotifySubtract, At, Goto, semVars, lockVars, envVars
<1>11. ASSUME NEW p \in Procs, NotifyGrab(p)
     PROVE  TypeOK'
  BY <1>11
  DEF NotifyGrab, At, Goto, semVars, lockVars, envVars, Return
<1>12. ASSUME NEW p \in Procs, NotifyPost(p)
     PROVE  TypeOK'
  BY <1>12
  DEF NotifyPost, At, Goto, semVars, lockVars, envVars
<1>13. ASSUME NEW p \in Procs, NotifyAwait(p)
     PROVE  TypeOK'
  BY <1>13
  DEF NotifyAwait, At, Goto, semVars, lockVars, envVars
<1>14. ASSUME NEW p \in Procs, NotifyClear(p)
     PROVE  TypeOK'
  BY <1>14
  DEF NotifyClear, At, Goto, semVars, lockVars, envVars, Return
<1>15. ASSUME NEW p \in Procs, Crash(p)
     PROVE  TypeOK'
  BY <1>15
  DEF Crash, At, Goto, semVars, lockVars, envVars
<1>16. ASSUME NEW p \in Procs, NEW o \in {"one", "all"}, NotifyBegin(p, o)
     PROVE  TypeOK'
  BY <1>16, WaitingFinite
  DEF NotifyBegin, At, Goto, semVars, lockVars, envVars
<1> QED
  BY <1>0, <1>1, <1>2, <1>3, <1>4, <1>5, <1>6, <1>7, <1>8, <1>9, <1>10, <1>11, <1>12,
     <1>13, <1>14, <1>15, <1>16 DEF Next, WaitStep, NotifyStep

\* Every step keeps AssertionsHold: notify finds no token, and a sleeper for
\* every process that has woken.
LEMMA AssertNext ==
  ASSUME IInv, [Next]_vars
  PROVE  AssertionsHold'
<1> USE DEF IInv, TypeOK, WaitPcs, NotifyPcs, LockInv, NotifierInv, TokenInv, AssertionsHold
<1>0. CASE UNCHANGED vars
  BY <1>0 DEF vars, semVars, lockVars, envVars
<1>1. ASSUME NEW p \in Procs, Acquire(p)
     PROVE  AssertionsHold'
  BY <1>1
  DEF Acquire, At, Goto, semVars, lockVars, envVars
<1>2. ASSUME NEW p \in Procs, Release(p)
     PROVE  AssertionsHold'
  BY <1>2
  DEF Release, At, Goto, semVars, lockVars, envVars
<1>3. ASSUME NEW p \in Procs, WaitBegin(p)
     PROVE  AssertionsHold'
  BY <1>3
  DEF WaitBegin, At, Goto, semVars, lockVars, envVars
<1>4. ASSUME NEW p \in Procs, WaitTimeout(p)
     PROVE  AssertionsHold'
  BY <1>4
  DEF WaitTimeout, At, Goto, semVars, lockVars, envVars
<1>5. ASSUME NEW p \in Procs, WaitUnlock(p)
     PROVE  AssertionsHold'
  BY <1>5
  DEF WaitUnlock, At, Goto, semVars, lockVars, envVars
<1>6. ASSUME NEW p \in Procs, WaitNotified(p)
     PROVE  AssertionsHold'
  BY <1>6
  DEF WaitNotified, At, Goto, semVars, lockVars, envVars
<1>7. ASSUME NEW p \in Procs, WaitWoken(p)
     PROVE  AssertionsHold'
  BY <1>7
  DEF WaitWoken, At, Goto, semVars, lockVars, envVars
<1>8. ASSUME NEW p \in Procs, WaitRelock(p)
     PROVE  AssertionsHold'
  BY <1>8
  DEF WaitRelock, At, Goto, semVars, lockVars, envVars
<1>9. ASSUME NEW p \in Procs, NotifyRezero(p)
     PROVE  AssertionsHold'
  BY <1>9
  DEF NotifyRezero, At, Goto, semVars, lockVars, envVars
<1>10. ASSUME NEW p \in Procs, NotifySubtract(p)
     PROVE  AssertionsHold'
  BY <1>10, WaitingFinite, ConditionAssumption
  DEF NotifySubtract, At, Goto, semVars, lockVars, envVars, SleepersAccounted, Grabbed,
      Unsubtracted
<1>11. ASSUME NEW p \in Procs, NotifyGrab(p)
     PROVE  AssertionsHold'
  BY <1>11
  DEF NotifyGrab, At, Goto, semVars, lockVars, envVars, Return
<1>12. ASSUME NEW p \in Procs, NotifyPost(p)
     PROVE  AssertionsHold'
  BY <1>12
  DEF NotifyPost, At, Goto, semVars, lockVars, envVars
<1>13. ASSUME NEW p \in Procs, NotifyAwait(p)
     PROVE  AssertionsHold'
  BY <1>13
  DEF NotifyAwait, At, Goto, semVars, lockVars, envVars
<1>14. ASSUME NEW p \in Procs, NotifyClear(p)
     PROVE  AssertionsHold'
  BY <1>14
  DEF NotifyClear, At, Goto, semVars, lockVars, envVars, Return
<1>15. ASSUME NEW p \in Procs, Crash(p)
     PROVE  AssertionsHold'
  BY <1>15
  DEF Crash, At, Goto, semVars, lockVars, envVars
<1>16. ASSUME NEW p \in Procs, NEW o \in {"one", "all"}, NotifyBegin(p, o)
     PROVE  AssertionsHold'
  BY <1>16
  DEF NotifyBegin, At, Goto, semVars, lockVars, envVars
<1> QED
  BY <1>0, <1>1, <1>2, <1>3, <1>4, <1>5, <1>6, <1>7, <1>8, <1>9, <1>10, <1>11, <1>12,
     <1>13, <1>14, <1>15, <1>16 DEF Next, WaitStep, NotifyStep

\* Every step keeps LockInv.
LEMMA LockNext ==
  ASSUME IInv, [Next]_vars
  PROVE  LockInv'
<1> USE DEF IInv, TypeOK, WaitPcs, NotifyPcs, LockInv
<1>0. CASE UNCHANGED vars
  BY <1>0 DEF vars, semVars, lockVars, envVars
<1>1. ASSUME NEW p \in Procs, Acquire(p)
     PROVE  LockInv'
  BY <1>1, ConditionAssumption
  DEF Acquire, At, Goto, semVars, lockVars, envVars
<1>2. ASSUME NEW p \in Procs, Release(p)
     PROVE  LockInv'
  BY <1>2
  DEF Release, At, Goto, semVars, lockVars, envVars
<1>3. ASSUME NEW p \in Procs, WaitBegin(p)
     PROVE  LockInv'
  BY <1>3
  DEF WaitBegin, At, Goto, semVars, lockVars, envVars
<1>4. ASSUME NEW p \in Procs, WaitTimeout(p)
     PROVE  LockInv'
  BY <1>4
  DEF WaitTimeout, At, Goto, semVars, lockVars, envVars
<1>5. ASSUME NEW p \in Procs, WaitUnlock(p)
     PROVE  LockInv'
  BY <1>5, ConditionAssumption
  DEF WaitUnlock, At, Goto, semVars, lockVars, envVars
<1>6. ASSUME NEW p \in Procs, WaitNotified(p)
     PROVE  LockInv'
  BY <1>6
  DEF WaitNotified, At, Goto, semVars, lockVars, envVars
<1>7. ASSUME NEW p \in Procs, WaitWoken(p)
     PROVE  LockInv'
  BY <1>7
  DEF WaitWoken, At, Goto, semVars, lockVars, envVars
<1>8. ASSUME NEW p \in Procs, WaitRelock(p)
     PROVE  LockInv'
  BY <1>8, ConditionAssumption
  DEF WaitRelock, At, Goto, semVars, lockVars, envVars
<1>9. ASSUME NEW p \in Procs, NotifyRezero(p)
     PROVE  LockInv'
  BY <1>9
  DEF NotifyRezero, At, Goto, semVars, lockVars, envVars
<1>10. ASSUME NEW p \in Procs, NotifySubtract(p)
     PROVE  LockInv'
  BY <1>10, AssertNext
  DEF NotifySubtract, At, Goto, semVars, lockVars, envVars, AssertionsHold, Next,
      NotifyStep
<1>11. ASSUME NEW p \in Procs, NotifyGrab(p)
     PROVE  LockInv'
  BY <1>11
  DEF NotifyGrab, At, Goto, semVars, lockVars, envVars, Return
<1>12. ASSUME NEW p \in Procs, NotifyPost(p)
     PROVE  LockInv'
  BY <1>12
  DEF NotifyPost, At, Goto, semVars, lockVars, envVars
<1>13. ASSUME NEW p \in Procs, NotifyAwait(p)
     PROVE  LockInv'
  BY <1>13
  DEF NotifyAwait, At, Goto, semVars, lockVars, envVars
<1>14. ASSUME NEW p \in Procs, NotifyClear(p)
     PROVE  LockInv'
  BY <1>14
  DEF NotifyClear, At, Goto, semVars, lockVars, envVars, Return
<1>15. ASSUME NEW p \in Procs, Crash(p)
     PROVE  LockInv'
  BY <1>15
  DEF Crash, At, Goto, semVars, lockVars, envVars
<1>16. ASSUME NEW p \in Procs, NEW o \in {"one", "all"}, NotifyBegin(p, o)
     PROVE  LockInv'
  BY <1>16, AssertNext
  DEF NotifyBegin, At, Goto, semVars, lockVars, envVars, AssertionsHold, Next
<1> QED
  BY <1>0, <1>1, <1>2, <1>3, <1>4, <1>5, <1>6, <1>7, <1>8, <1>9, <1>10, <1>11, <1>12,
     <1>13, <1>14, <1>15, <1>16 DEF Next, WaitStep, NotifyStep

\* Every step keeps NotifierInv.
LEMMA NotifierNext ==
  ASSUME IInv, [Next]_vars
  PROVE  NotifierInv'
<1> USE DEF IInv, TypeOK, WaitPcs, NotifyPcs, LockInv, NotifierInv
<1>0. CASE UNCHANGED vars
  BY <1>0 DEF vars, semVars, lockVars, envVars
<1>1. ASSUME NEW p \in Procs, Acquire(p)
     PROVE  NotifierInv'
  BY <1>1
  DEF Acquire, At, Goto, semVars, lockVars, envVars
<1>2. ASSUME NEW p \in Procs, Release(p)
     PROVE  NotifierInv'
  BY <1>2
  DEF Release, At, Goto, semVars, lockVars, envVars
<1>3. ASSUME NEW p \in Procs, WaitBegin(p)
     PROVE  NotifierInv'
  BY <1>3
  DEF WaitBegin, At, Goto, semVars, lockVars, envVars
<1>4. ASSUME NEW p \in Procs, WaitTimeout(p)
     PROVE  NotifierInv'
  BY <1>4
  DEF WaitTimeout, At, Goto, semVars, lockVars, envVars
<1>5. ASSUME NEW p \in Procs, WaitUnlock(p)
     PROVE  NotifierInv'
  BY <1>5
  DEF WaitUnlock, At, Goto, semVars, lockVars, envVars
<1>6. ASSUME NEW p \in Procs, WaitNotified(p)
     PROVE  NotifierInv'
  BY <1>6
  DEF WaitNotified, At, Goto, semVars, lockVars, envVars
<1>7. ASSUME NEW p \in Procs, WaitWoken(p)
     PROVE  NotifierInv'
  BY <1>7
  DEF WaitWoken, At, Goto, semVars, lockVars, envVars
<1>8. ASSUME NEW p \in Procs, WaitRelock(p)
     PROVE  NotifierInv'
  BY <1>8
  DEF WaitRelock, At, Goto, semVars, lockVars, envVars
<1>9. ASSUME NEW p \in Procs, NotifyRezero(p)
     PROVE  NotifierInv'
  BY <1>9
  DEF NotifyRezero, At, Goto, semVars, lockVars, envVars
<1>10. ASSUME NEW p \in Procs, NotifySubtract(p)
     PROVE  NotifierInv'
  BY <1>10
  DEF NotifySubtract, At, Goto, semVars, lockVars, envVars
<1>11. ASSUME NEW p \in Procs, NotifyGrab(p)
     PROVE  NotifierInv'
  BY <1>11
  DEF NotifyGrab, At, Goto, semVars, lockVars, envVars, Return
<1>12. ASSUME NEW p \in Procs, NotifyPost(p)
     PROVE  NotifierInv'
  BY <1>12
  DEF NotifyPost, At, Goto, semVars, lockVars, envVars
<1>13. ASSUME NEW p \in Procs, NotifyAwait(p)
     PROVE  NotifierInv'
  BY <1>13
  DEF NotifyAwait, At, Goto, semVars, lockVars, envVars
<1>14. ASSUME NEW p \in Procs, NotifyClear(p)
     PROVE  NotifierInv'
  BY <1>14
  DEF NotifyClear, At, Goto, semVars, lockVars, envVars, Return
<1>15. ASSUME NEW p \in Procs, Crash(p)
     PROVE  NotifierInv'
  BY <1>15
  DEF Crash, At, Goto, semVars, lockVars, envVars
<1>16. ASSUME NEW p \in Procs, NEW o \in {"one", "all"}, NotifyBegin(p, o)
     PROVE  NotifierInv'
  BY <1>16
  DEF NotifyBegin, At, Goto, semVars, lockVars, envVars
<1> QED
  BY <1>0, <1>1, <1>2, <1>3, <1>4, <1>5, <1>6, <1>7, <1>8, <1>9, <1>10, <1>11, <1>12,
     <1>13, <1>14, <1>15, <1>16 DEF Next, WaitStep, NotifyStep

\* Every step keeps TokenInv.
LEMMA TokenNext ==
  ASSUME IInv, [Next]_vars
  PROVE  TokenInv'
<1> USE DEF IInv, TypeOK, WaitPcs, NotifyPcs, LockInv, NotifierInv, TokenInv
<1>0. CASE UNCHANGED vars
  BY <1>0 DEF vars, semVars, lockVars, envVars
<1>1. ASSUME NEW p \in Procs, Acquire(p)
     PROVE  TokenInv'
  BY <1>1
  DEF Acquire, At, Goto, semVars, lockVars, envVars
<1>2. ASSUME NEW p \in Procs, Release(p)
     PROVE  TokenInv'
  BY <1>2
  DEF Release, At, Goto, semVars, lockVars, envVars
<1>3. ASSUME NEW p \in Procs, WaitBegin(p)
     PROVE  TokenInv'
  BY <1>3
  DEF WaitBegin, At, Goto, semVars, lockVars, envVars
<1>4. ASSUME NEW p \in Procs, WaitTimeout(p)
     PROVE  TokenInv'
  BY <1>4
  DEF WaitTimeout, At, Goto, semVars, lockVars, envVars
<1>5. ASSUME NEW p \in Procs, WaitUnlock(p)
     PROVE  TokenInv'
  BY <1>5
  DEF WaitUnlock, At, Goto, semVars, lockVars, envVars
<1>6. ASSUME NEW p \in Procs, WaitNotified(p)
     PROVE  TokenInv'
  BY <1>6
  DEF WaitNotified, At, Goto, semVars, lockVars, envVars
<1>7. ASSUME NEW p \in Procs, WaitWoken(p)
     PROVE  TokenInv'
  BY <1>7
  DEF WaitWoken, At, Goto, semVars, lockVars, envVars
<1>8. ASSUME NEW p \in Procs, WaitRelock(p)
     PROVE  TokenInv'
  BY <1>8
  DEF WaitRelock, At, Goto, semVars, lockVars, envVars
<1>9. ASSUME NEW p \in Procs, NotifyRezero(p)
     PROVE  TokenInv'
  BY <1>9
  DEF NotifyRezero, At, Goto, semVars, lockVars, envVars
<1>10. ASSUME NEW p \in Procs, NotifySubtract(p)
     PROVE  TokenInv'
  BY <1>10
  DEF NotifySubtract, At, Goto, semVars, lockVars, envVars
<1>11. ASSUME NEW p \in Procs, NotifyGrab(p)
     PROVE  TokenInv'
  BY <1>11
  DEF NotifyGrab, At, Goto, semVars, lockVars, envVars, Return
<1>12. ASSUME NEW p \in Procs, NotifyPost(p)
     PROVE  TokenInv'
  BY <1>12, ConditionAssumption
  DEF NotifyPost, At, Goto, semVars, lockVars, envVars
<1>13. ASSUME NEW p \in Procs, NotifyAwait(p)
     PROVE  TokenInv'
  BY <1>13
  DEF NotifyAwait, At, Goto, semVars, lockVars, envVars
<1>14. ASSUME NEW p \in Procs, NotifyClear(p)
     PROVE  TokenInv'
  BY <1>14
  DEF NotifyClear, At, Goto, semVars, lockVars, envVars, Return
<1>15. ASSUME NEW p \in Procs, Crash(p)
     PROVE  TokenInv'
  BY <1>15
  DEF Crash, At, Goto, semVars, lockVars, envVars
<1>16. ASSUME NEW p \in Procs, NEW o \in {"one", "all"}, NotifyBegin(p, o)
     PROVE  TokenInv'
  BY <1>16
  DEF NotifyBegin, At, Goto, semVars, lockVars, envVars
<1> QED
  BY <1>0, <1>1, <1>2, <1>3, <1>4, <1>5, <1>6, <1>7, <1>8, <1>9, <1>10, <1>11, <1>12,
     <1>13, <1>14, <1>15, <1>16 DEF Next, WaitStep, NotifyStep

\* Every step keeps SleepersAccounted.
LEMMA AccountNext ==
  ASSUME IInv, [Next]_vars
  PROVE  SleepersAccounted'
<1> USE DEF IInv, TypeOK, WaitPcs, NotifyPcs
<1>0. CASE UNCHANGED vars
  BY <1>0 DEF vars, semVars, lockVars, envVars, SleepersAccounted, Grabbed,
     Unsubtracted, Waiting
<1>1. ASSUME NEW p \in Procs, Acquire(p)
     PROVE  SleepersAccounted'
  <2>1. Waiting' = Waiting
    BY <1>1 DEF Acquire, At, Goto, semVars, lockVars, envVars, Waiting
  <2> QED
    BY <1>1, <2>1, WaitingFinite, ConditionAssumption
    DEF Acquire, At, Goto, semVars, lockVars, envVars,
        LockInv, NotifierInv, SleepersAccounted, Grabbed, Unsubtracted
<1>2. ASSUME NEW p \in Procs, Release(p)
     PROVE  SleepersAccounted'
  <2>1. Waiting' = Waiting
    BY <1>2 DEF Release, At, Goto, semVars, lockVars, envVars, Waiting
  <2> QED
    BY <1>2, <2>1, WaitingFinite, ConditionAssumption
    DEF Release, At, Goto, semVars, lockVars, envVars,
        LockInv, NotifierInv, SleepersAccounted, Grabbed, Unsubtracted
<1>3. ASSUME NEW p \in Procs, WaitBegin(p)
     PROVE  SleepersAccounted'
  <2>1. Cardinality(Waiting') = Cardinality(Waiting) + 1
    <3>1. Waiting' = Waiting \cup {p} /\ p \notin Waiting
      BY <1>3 DEF WaitBegin, At, Goto, semVars, lockVars, envVars, Waiting
    <3> QED
      BY <3>1, WaitingFinite, FS_AddElement
  <2> QED
    BY <1>3, <2>1, WaitingFinite, ConditionAssumption
    DEF WaitBegin, At, Goto, semVars, lockVars, envVars,
        LockInv, NotifierInv, SleepersAccounted, Grabbed, Unsubtracted
<1>4. ASSUME NEW p \in Procs, WaitTimeout(p)
     PROVE  SleepersAccounted'
  <2>1. Waiting' = Waiting
    BY <1>4 DEF WaitTimeout, At, Goto, semVars, lockVars, envVars, Waiting
  <2> QED
    BY <1>4, <2>1, WaitingFinite, ConditionAssumption
    DEF WaitTimeout, At, Goto, semVars, lockVars, envVars,
        LockInv, NotifierInv, SleepersAccounted, Grabbed, Unsubtracted
<1>5. ASSUME NEW p \in Procs, WaitUnlock(p)
     PROVE  SleepersAccounted'
  <2>1. Waiting' = Waiting
    BY <1>5 DEF WaitUnlock, At, Goto, semVars, lockVars, envVars, Waiting
  <2> QED
    BY <1>5, <2>1, WaitingFinite, ConditionAssumption
    DEF WaitUnlock, At, Goto, semVars, lockVars, envVars,
        LockInv, NotifierInv, SleepersAccounted, Grabbed, Unsubtracted
<1>6. ASSUME NEW p \in Procs, WaitNotified(p)
     PROVE  SleepersAccounted'
  <2>1. Waiting' = Waiting
    BY <1>6 DEF WaitNotified, At, Goto, semVars, lockVars, envVars, Waiting
  <2> QED
    BY <1>6, <2>1, WaitingFinite, ConditionAssumption
    DEF WaitNotified, At, Goto, semVars, lockVars, envVars,
        LockInv, NotifierInv, SleepersAccounted, Grabbed, Unsubtracted
<1>7. ASSUME NEW p \in Procs, WaitWoken(p)
     PROVE  SleepersAccounted'
  <2>1. Cardinality(Waiting') = Cardinality(Waiting) - 1
    <3>1. Waiting' = Waiting \ {p} /\ p \in Waiting
      BY <1>7 DEF WaitWoken, At, Goto, semVars, lockVars, envVars, Waiting
    <3> QED
      BY <3>1, WaitingFinite, FS_RemoveElement
  <2> QED
    BY <1>7, <2>1, WaitingFinite, ConditionAssumption
    DEF WaitWoken, At, Goto, semVars, lockVars, envVars,
        LockInv, NotifierInv, SleepersAccounted, Grabbed, Unsubtracted
<1>8. ASSUME NEW p \in Procs, WaitRelock(p)
     PROVE  SleepersAccounted'
  <2>1. Waiting' = Waiting
    BY <1>8 DEF WaitRelock, At, Goto, semVars, lockVars, envVars, Waiting
  <2> QED
    BY <1>8, <2>1, WaitingFinite, ConditionAssumption
    DEF WaitRelock, At, Goto, semVars, lockVars, envVars,
        LockInv, NotifierInv, SleepersAccounted, Grabbed, Unsubtracted
<1>9. ASSUME NEW p \in Procs, NotifyRezero(p)
     PROVE  SleepersAccounted'
  <2>1. Waiting' = Waiting
    BY <1>9 DEF NotifyRezero, At, Goto, semVars, lockVars, envVars, Waiting
  <2> QED
    BY <1>9, <2>1, WaitingFinite, ConditionAssumption
    DEF NotifyRezero, At, Goto, semVars, lockVars, envVars,
        LockInv, NotifierInv, SleepersAccounted, Grabbed, Unsubtracted
<1>10. ASSUME NEW p \in Procs, NotifySubtract(p)
     PROVE  SleepersAccounted'
  <2>1. Waiting' = Waiting
    BY <1>10 DEF NotifySubtract, At, Goto, semVars, lockVars, envVars, Waiting
  <2> QED
    BY <1>10, <2>1, WaitingFinite, ConditionAssumption
    DEF NotifySubtract, At, Goto, semVars, lockVars, envVars,
        LockInv, NotifierInv, SleepersAccounted, Grabbed, Unsubtracted
<1>11. ASSUME NEW p \in Procs, NotifyGrab(p)
     PROVE  SleepersAccounted'
  <2>1. Waiting' = Waiting
    BY <1>11 DEF NotifyGrab, At, Goto, semVars, lockVars, envVars, Return, Waiting
  <2> QED
    BY <1>11, <2>1, WaitingFinite, ConditionAssumption
    DEF NotifyGrab, At, Goto, semVars, lockVars, envVars, Return,
        LockInv, NotifierInv, SleepersAccounted, Grabbed, Unsubtracted
<1>12. ASSUME NEW p \in Procs, NotifyPost(p)
     PROVE  SleepersAccounted'
  <2>1. Waiting' = Waiting
    BY <1>12 DEF NotifyPost, At, Goto, semVars, lockVars, envVars, Waiting
  <2> QED
    BY <1>12, <2>1, WaitingFinite, ConditionAssumption
    DEF NotifyPost, At, Goto, semVars, lockVars, envVars,
        LockInv, NotifierInv, SleepersAccounted, Grabbed, Unsubtracted
<1>13. ASSUME NEW p \in Procs, NotifyAwait(p)
     PROVE  SleepersAccounted'
  <2>1. Waiting' = Waiting
    BY <1>13 DEF NotifyAwait, At, Goto, semVars, lockVars, envVars, Waiting
  <2> QED
    BY <1>13, <2>1, WaitingFinite, ConditionAssumption
    DEF NotifyAwait, At, Goto, semVars, lockVars, envVars,
        LockInv, NotifierInv, SleepersAccounted, Grabbed, Unsubtracted
<1>14. ASSUME NEW p \in Procs, NotifyClear(p)
     PROVE  SleepersAccounted'
  <2>1. Waiting' = Waiting
    BY <1>14 DEF NotifyClear, At, Goto, semVars, lockVars, envVars, Return, Waiting
  <2> QED
    BY <1>14, <2>1, WaitingFinite, ConditionAssumption
    DEF NotifyClear, At, Goto, semVars, lockVars, envVars, Return,
        LockInv, NotifierInv, SleepersAccounted, Grabbed, Unsubtracted
<1>15. ASSUME NEW p \in Procs, Crash(p)
     PROVE  SleepersAccounted'
  <2>1. Waiting' = Waiting
    BY <1>15 DEF Crash, At, Goto, semVars, lockVars, envVars, Waiting
  <2> QED
    BY <1>15, <2>1, WaitingFinite, ConditionAssumption
    DEF Crash, At, Goto, semVars, lockVars, envVars,
        LockInv, NotifierInv, SleepersAccounted, Grabbed, Unsubtracted
<1>16. ASSUME NEW p \in Procs, NEW o \in {"one", "all"}, NotifyBegin(p, o)
     PROVE  SleepersAccounted'
  <2>1. Waiting' = Waiting
    BY <1>16 DEF NotifyBegin, At, Goto, semVars, lockVars, envVars, Waiting
  <2> QED
    BY <1>16, <2>1, WaitingFinite, ConditionAssumption
    DEF NotifyBegin, At, Goto, semVars, lockVars, envVars,
        LockInv, NotifierInv, SleepersAccounted, Grabbed, Unsubtracted
<1> QED
  BY <1>0, <1>1, <1>2, <1>3, <1>4, <1>5, <1>6, <1>7, <1>8, <1>9, <1>10, <1>11, <1>12,
     <1>13, <1>14, <1>15, <1>16 DEF Next, WaitStep, NotifyStep

\* The invariant holds at the start ...
LEMMA IInvInit == Init => IInv
<1> SUFFICES ASSUME Init PROVE IInv
  OBVIOUS
<1>1. Waiting = {}
  BY DEF Init, Waiting, WaitPcs
<1>2. TypeOK /\ LockInv /\ NotifierInv /\ TokenInv /\ AssertionsHold
  BY ConditionAssumption DEF Init, TypeOK, LockInv, NotifierInv, TokenInv,
     AssertionsHold, NotifyPcs, WaitPcs
<1>3. SleepersAccounted
  BY <1>1, FS_EmptySet DEF Init, SleepersAccounted, Grabbed, Unsubtracted
<1> QED
  BY <1>2, <1>3 DEF IInv

\* ... and is kept by every step.
LEMMA IInvNext == IInv /\ [Next]_vars => IInv'
BY TypeNext, LockNext, NotifierNext, TokenNext, AssertNext, AccountNext
DEF IInv

\* IInv is an invariant of the condition variable.
LEMMA IInvAlways == Spec => []IInv
BY IInvInit, IInvNext, PTL DEF Spec

\* The counters account for every process inside wait, whatever times out or
\* is killed, in any interleaving.
THEOREM Accounting == Spec => []SleepersAccounted
<1>1. IInv => SleepersAccounted
  BY DEF IInv
<1> QED
  BY <1>1, IInvAlways, PTL

\* No assertion of notify or notify_all ever fails.
THEOREM AssertionsNeverFail == Spec => []AssertionsHold
<1>1. IInv => AssertionsHold
  BY DEF IInv
<1> QED
  BY <1>1, IInvAlways, PTL

\* No token outlives the notification that posted it.
THEOREM TokensAreFresh == Spec => []NoStaleToken
<1>1. IInv => NoStaleToken
  BY DEF IInv, TokenInv, NoStaleToken, NotifyPcs
<1> QED
  BY <1>1, IInvAlways, PTL

\* When notify_all is past its wait, nobody is inside wait any more.
THEOREM AllAreWoken == Spec => []NotifyAllWakesAll
<1>1. IInv => NotifyAllWakesAll
  <2> SUFFICES ASSUME IInv, NEW p \in Procs, pc[p] = "clear", op[p] = "all"
               PROVE  Waiting = {}
    BY DEF NotifyAllWakesAll
  <2>1. owner = p /\ owner # NoProc /\ sleeping = 0 /\ sleepers[p] = 0
    BY ConditionAssumption DEF IInv, TypeOK, LockInv, NotifierInv, NotifyPcs
  <2>2. Cardinality(Waiting) = 0
    BY <2>1, WaitingFinite
    DEF IInv, TypeOK, SleepersAccounted, Grabbed, Unsubtracted
  <2> QED
    BY <2>2, WaitingFinite, FS_EmptySet
<1> QED
  BY <1>1, IInvAlways, PTL

(***************************************************************************)
(* notify wakes exactly one sleeper when no wait times out                 *)
(***************************************************************************)

Wakeups == {p \in Procs : pc[p] = "wakeup"}

\* Without timeouts every token, every process waking up and every unit of
\* _woken_count belongs to a sleeper the notifier still waits for, and notify
\* finds the processes asleep that it found when it began, but for the one
\* that took its token.
WakeInv ==
  timeouts = 0 =>
    /\ waitSem + Cardinality(Wakeups) + woken =
         (IF owner = NoProc THEN 0 ELSE sleepers[owner])
    /\ owner # NoProc => pc[owner] # "subtract"
    /\ owner # NoProc /\ op[owner] = "one" =>
         /\ pc[owner] \in {"rezero", "grab", "post"} =>
              Cardinality(Sleepers) = asleep
         /\ pc[owner] \in {"await", "clear"} =>
              Cardinality(Sleepers) + 1 = asleep + waitSem

\* The wake-ups on their way are finitely many.
LEMMA WakeupsFinite == IsFiniteSet(Wakeups) /\ Cardinality(Wakeups) \in Nat
<1>1. Wakeups \subseteq Procs
  BY DEF Wakeups
<1> QED
  BY <1>1, ConditionAssumption, FS_Subset, FS_CardinalityType

\* Every step keeps WakeInv.
LEMMA WakeNext ==
  ASSUME IInv, WakeInv, [Next]_vars
  PROVE  WakeInv'
<1> USE DEF IInv, TypeOK, WaitPcs, NotifyPcs
<1>0. CASE UNCHANGED vars
  BY <1>0 DEF vars, semVars, lockVars, envVars, WakeInv, Wakeups, Sleepers
<1>1. ASSUME NEW p \in Procs, Acquire(p)
     PROVE  WakeInv'
  <2>1. Sleepers' = Sleepers
    BY <1>1 DEF Acquire, At, Goto, semVars, lockVars, envVars, Sleepers
  <2>2. Wakeups' = Wakeups
    BY <1>1 DEF Acquire, At, Goto, semVars, lockVars, envVars, Wakeups
  <2> QED
    BY <1>1, <2>1, <2>2, WaitingFinite, WakeupsFinite, ConditionAssumption
    DEF Acquire, At, Goto, semVars, lockVars, envVars,
        LockInv, NotifierInv, TokenInv, WakeInv
<1>2. ASSUME NEW p \in Procs, Release(p)
     PROVE  WakeInv'
  <2>1. Sleepers' = Sleepers
    BY <1>2 DEF Release, At, Goto, semVars, lockVars, envVars, Sleepers
  <2>2. Wakeups' = Wakeups
    BY <1>2 DEF Release, At, Goto, semVars, lockVars, envVars, Wakeups
  <2>3. owner = p /\ p # NoProc /\ pc[p] = "idle" /\ sleepers[p] = 0
    BY <1>2, ConditionAssumption DEF Release, At, NotifierInv
  <2>4. pc' = pc /\ sleepers' = sleepers /\ owner' \in {p, NoProc}
    BY <1>2 DEF Release
  <2> QED
    BY <1>2, <2>1, <2>2, <2>3, <2>4 DEF Release, semVars, envVars, WakeInv
<1>3. ASSUME NEW p \in Procs, WaitBegin(p)
     PROVE  WakeInv'
  <2>1. Sleepers' = Sleepers
    BY <1>3 DEF WaitBegin, At, Goto, semVars, lockVars, envVars, Sleepers
  <2>2. Wakeups' = Wakeups
    BY <1>3 DEF WaitBegin, At, Goto, semVars, lockVars, envVars, Wakeups
  <2> QED
    BY <1>3, <2>1, <2>2, WaitingFinite, WakeupsFinite, ConditionAssumption
    DEF WaitBegin, At, Goto, semVars, lockVars, envVars,
        LockInv, NotifierInv, TokenInv, WakeInv
<1>4. ASSUME NEW p \in Procs, WaitTimeout(p)
     PROVE  WakeInv'
  BY <1>4 DEF WaitTimeout, WakeInv
<1>5. ASSUME NEW p \in Procs, WaitUnlock(p)
     PROVE  WakeInv'
  <2>1. Cardinality(Sleepers') = Cardinality(Sleepers) + 1
    <3>1. Sleepers' = Sleepers \cup {p} /\ p \notin Sleepers
      BY <1>5 DEF WaitUnlock, At, Goto, semVars, lockVars, envVars, Sleepers, Wakeups
    <3> QED
      BY <3>1, WaitingFinite, WakeupsFinite, FS_AddElement
  <2>2. Wakeups' = Wakeups
    BY <1>5 DEF WaitUnlock, At, Goto, semVars, lockVars, envVars, Wakeups
  <2> QED
    BY <1>5, <2>1, <2>2, WaitingFinite, WakeupsFinite, ConditionAssumption
    DEF WaitUnlock, At, Goto, semVars, lockVars, envVars,
        LockInv, NotifierInv, TokenInv, WakeInv
<1>6. ASSUME NEW p \in Procs, WaitNotified(p)
     PROVE  WakeInv'
  <2>1. Cardinality(Sleepers') = Cardinality(Sleepers) - 1
    <3>1. Sleepers' = Sleepers \ {p} /\ p \in Sleepers
      BY <1>6 DEF WaitNotified, At, Goto, semVars, lockVars, envVars, Sleepers, Wakeups
    <3> QED
      BY <3>1, WaitingFinite, WakeupsFinite, FS_RemoveElement
  <2>2. Cardinality(Wakeups') = Cardinality(Wakeups) + 1
    <3>1. Wakeups' = Wakeups \cup {p} /\ p \notin Wakeups
      BY <1>6 DEF WaitNotified, At, Goto, semVars, lockVars, envVars, Sleepers, Wakeups
    <3> QED
      BY <3>1, WaitingFinite, WakeupsFinite, FS_AddElement
  <2> QED
    BY <1>6, <2>1, <2>2, WaitingFinite, WakeupsFinite, ConditionAssumption
    DEF WaitNotified, At, Goto, semVars, lockVars, envVars,
        LockInv, NotifierInv, TokenInv, WakeInv
<1>7. ASSUME NEW p \in Procs, WaitWoken(p)
     PROVE  WakeInv'
  <2>1. Sleepers' = Sleepers
    BY <1>7 DEF WaitWoken, At, Goto, semVars, lockVars, envVars, Sleepers
  <2>2. Cardinality(Wakeups') = Cardinality(Wakeups) - 1
    <3>1. Wakeups' = Wakeups \ {p} /\ p \in Wakeups
      BY <1>7 DEF WaitWoken, At, Goto, semVars, lockVars, envVars, Sleepers, Wakeups
    <3> QED
      BY <3>1, WaitingFinite, WakeupsFinite, FS_RemoveElement
  <2> QED
    BY <1>7, <2>1, <2>2, WaitingFinite, WakeupsFinite, ConditionAssumption
    DEF WaitWoken, At, Goto, semVars, lockVars, envVars,
        LockInv, NotifierInv, TokenInv, WakeInv
<1>8. ASSUME NEW p \in Procs, WaitRelock(p)
     PROVE  WakeInv'
  <2>1. Sleepers' = Sleepers
    BY <1>8 DEF WaitRelock, At, Goto, semVars, lockVars, envVars, Sleepers
  <2>2. Wakeups' = Wakeups
    BY <1>8 DEF WaitRelock, At, Goto, semVars, lockVars, envVars, Wakeups
  <2> QED
    BY <1>8, <2>1, <2>2, WaitingFinite, WakeupsFinite, ConditionAssumption
    DEF WaitRelock, At, Goto, semVars, lockVars, envVars,
        LockInv, NotifierInv, TokenInv, WakeInv
<1>9. ASSUME NEW p \in Procs, NotifyRezero(p)
     PROVE  WakeInv'
  <2>1. Sleepers' = Sleepers
    BY <1>9 DEF NotifyRezero, At, Goto, semVars, lockVars, envVars, Sleepers
  <2>2. Wakeups' = Wakeups
    BY <1>9 DEF NotifyRezero, At, Goto, semVars, lockVars, envVars, Wakeups
  <2> QED
    BY <1>9, <2>1, <2>2, WaitingFinite, WakeupsFinite, ConditionAssumption
    DEF NotifyRezero, At, Goto, semVars, lockVars, envVars,
        LockInv, NotifierInv, TokenInv, WakeInv
<1>10. ASSUME NEW p \in Procs, NotifySubtract(p)
     PROVE  WakeInv'
  <2>1. Sleepers' = Sleepers
    BY <1>10 DEF NotifySubtract, At, Goto, semVars, lockVars, envVars, Sleepers
  <2>2. Wakeups' = Wakeups
    BY <1>10 DEF NotifySubtract, At, Goto, semVars, lockVars, envVars, Wakeups
  <2> QED
    BY <1>10, <2>1, <2>2, WaitingFinite, WakeupsFinite, ConditionAssumption
    DEF NotifySubtract, At, Goto, semVars, lockVars, envVars,
        LockInv, NotifierInv, TokenInv, WakeInv
<1>11. ASSUME NEW p \in Procs, NotifyGrab(p)
     PROVE  WakeInv'
  <2>1. Sleepers' = Sleepers
    BY <1>11 DEF NotifyGrab, At, Goto, semVars, lockVars, envVars, Return, Sleepers
  <2>2. Wakeups' = Wakeups
    BY <1>11 DEF NotifyGrab, At, Goto, semVars, lockVars, envVars, Return, Wakeups
  <2>3. owner = p /\ p # NoProc /\ pc[p] = "grab" /\ owner' = p
    BY <1>11, ConditionAssumption DEF NotifyGrab, At, lockVars, LockInv
  <2>4. op[p] = "one" => sleepers[p] = 0
    BY <2>3 DEF NotifierInv
  <2>5. CASE sleeping > 0
    BY <1>11, <2>1, <2>2, <2>3, <2>5 DEF NotifyGrab, Goto, envVars, WakeInv
  <2>6. CASE sleeping = 0 /\ sleepers[p] > 0
    BY <1>11, <2>1, <2>2, <2>3, <2>4, <2>6 DEF NotifyGrab, Goto, envVars, WakeInv
  <2>7. CASE sleeping = 0 /\ sleepers[p] = 0
    BY <1>11, <2>1, <2>2, <2>3, <2>7
    DEF NotifyGrab, Goto, Return, envVars, WakeInv
  <2> QED
    BY <2>5, <2>6, <2>7
<1>12. ASSUME NEW p \in Procs, NotifyPost(p)
     PROVE  WakeInv'
  <2>1. Sleepers' = Sleepers
    BY <1>12 DEF NotifyPost, At, Goto, semVars, lockVars, envVars, Sleepers
  <2>2. Wakeups' = Wakeups
    BY <1>12 DEF NotifyPost, At, Goto, semVars, lockVars, envVars, Wakeups
  <2> QED
    BY <1>12, <2>1, <2>2, WaitingFinite, WakeupsFinite, ConditionAssumption
    DEF NotifyPost, At, Goto, semVars, lockVars, envVars,
        LockInv, NotifierInv, TokenInv, WakeInv
<1>13. ASSUME NEW p \in Procs, NotifyAwait(p)
     PROVE  WakeInv'
  <2>1. Sleepers' = Sleepers
    BY <1>13 DEF NotifyAwait, At, Goto, semVars, lockVars, envVars, Sleepers
  <2>2. Wakeups' = Wakeups
    BY <1>13 DEF NotifyAwait, At, Goto, semVars, lockVars, envVars, Wakeups
  <2> QED
    BY <1>13, <2>1, <2>2, WaitingFinite, WakeupsFinite, ConditionAssumption
    DEF NotifyAwait, At, Goto, semVars, lockVars, envVars,
        LockInv, NotifierInv, TokenInv, WakeInv
<1>14. ASSUME NEW p \in Procs, NotifyClear(p)
     PROVE  WakeInv'
  <2>1. Sleepers' = Sleepers
    BY <1>14 DEF NotifyClear, At, Goto, semVars, lockVars, envVars, Return, Sleepers
  <2>2. Wakeups' = Wakeups
    BY <1>14 DEF NotifyClear, At, Goto, semVars, lockVars, envVars, Return, Wakeups
  <2> QED
    BY <1>14, <2>1, <2>2, WaitingFinite, WakeupsFinite, ConditionAssumption
    DEF NotifyClear, At, Goto, semVars, lockVars, envVars, Return,
        LockInv, NotifierInv, TokenInv, WakeInv
<1>15. ASSUME NEW p \in Procs, Crash(p)
     PROVE  WakeInv'
  <2>1. Sleepers' = Sleepers
    BY <1>15 DEF Crash, At, Goto, semVars, lockVars, envVars, Sleepers
  <2>2. Wakeups' = Wakeups
    BY <1>15 DEF Crash, At, Goto, semVars, lockVars, envVars, Wakeups
  <2> QED
    BY <1>15, <2>1, <2>2, WaitingFinite, WakeupsFinite, ConditionAssumption
    DEF Crash, At, Goto, semVars, lockVars, envVars,
        LockInv, NotifierInv, TokenInv, WakeInv
<1>16. ASSUME NEW p \in Procs, NEW o \in {"one", "all"}, NotifyBegin(p, o)
     PROVE  WakeInv'
  <2>1. Sleepers' = Sleepers
    BY <1>16 DEF NotifyBegin, At, Goto, semVars, lockVars, envVars, Sleepers
  <2>2. Wakeups' = Wakeups
    BY <1>16 DEF NotifyBegin, At, Goto, semVars, lockVars, envVars, Wakeups
  <2> QED
    BY <1>16, <2>1, <2>2, WaitingFinite, WakeupsFinite, ConditionAssumption
    DEF NotifyBegin, At, Goto, semVars, lockVars, envVars,
        LockInv, NotifierInv, TokenInv, WakeInv
<1> QED
  BY <1>0, <1>1, <1>2, <1>3, <1>4, <1>5, <1>6, <1>7, <1>8, <1>9, <1>10, <1>11, <1>12,
     <1>13, <1>14, <1>15, <1>16 DEF Next, WaitStep, NotifyStep

\* WakeInv holds at the start.
LEMMA WakeInit == Init => WakeInv
<1> SUFFICES ASSUME Init PROVE WakeInv
  OBVIOUS
<1>1. Wakeups = {}
  BY DEF Init, Wakeups
<1> QED
  BY <1>1, FS_EmptySet DEF Init, WakeInv

\* As long as no wait has timed out, notify wakes exactly one of the processes
\* that were asleep when it began.
THEOREM OneIsWoken == Spec => []NotifyWakesOne
<1>1. IInv /\ WakeInv => NotifyWakesOne
  <2> SUFFICES ASSUME IInv, WakeInv, NEW p \in Procs, pc[p] = "clear",
                      op[p] = "one", timeouts = 0
               PROVE  Cardinality(Sleepers) = asleep - 1
    BY DEF NotifyWakesOne
  <2>1. owner = p /\ owner # NoProc /\ sleepers[p] = 0
    BY ConditionAssumption DEF IInv, TypeOK, LockInv, NotifierInv, NotifyPcs
  <2>2. waitSem = 0
    BY <2>1, WakeupsFinite DEF IInv, TypeOK, WakeInv
  <2> QED
    BY <2>1, <2>2, WaitingFinite DEF IInv, TypeOK, WakeInv
<1>2. Init => IInv /\ WakeInv
  BY IInvInit, WakeInit
<1>3. IInv /\ WakeInv /\ [Next]_vars => (IInv /\ WakeInv)'
  BY IInvNext, WakeNext
<1> QED
  BY <1>1, <1>2, <1>3, PTL DEF Spec

\* All of it together: wait, notify and notify_all keep the counters exact, their
\* assertions true, tokens fresh, and wake whom they should.
THEOREM ConditionIsSafe == Spec => []ConditionSafe
<1>1. Spec => []TypeOK
  <2>1. IInv => TypeOK
    BY DEF IInv
  <2> QED
    BY <2>1, IInvInit, IInvNext, PTL DEF Spec
<1> QED
  BY <1>1, Accounting, AssertionsNeverFail, TokensAreFresh, AllAreWoken, OneIsWoken, PTL
  DEF ConditionSafe

(***************************************************************************)
(* The condition implements the monitor                                    *)
(***************************************************************************)

\* What the monitor sees of the processes inside wait.
Phases == [p \in Procs |-> Phase(p)]

\* A step that keeps the owner, every phase, the notification and what it may
\* still wake is not seen by the monitor.
LEMMA MonStutters ==
  ASSUME owner' = owner, timeouts' = timeouts, Phases' = Phases,
         Notification' = Notification, Wakes' = Wakes
  PROVE  UNCHANGED Mon!monVars
BY DEF Mon!monVars, Phases

\* A process that moves takes its phase along, and no other process does.
LEMMA PhaseMoves ==
  ASSUME TypeOK, NEW p \in Procs, NEW l, Goto(p, l)
  PROVE  /\ l = "sleep" => Phases' = [Phases EXCEPT ![p] = "asleep"]
         /\ l \in {"wakeup", "relock"} => Phases' = [Phases EXCEPT ![p] = "awake"]
         /\ l = "idle" => Phases' = [Phases EXCEPT ![p] = "out"]
<1>1. \A q \in Procs : pc'[q] = IF q = p THEN l ELSE pc[q]
  BY DEF TypeOK, Goto
<1>2. \A q \in Procs \ {p} : Phase(q)' = Phase(q)
  BY <1>1 DEF Phase
<1>3. /\ l = "sleep" => Phase(p)' = "asleep"
      /\ l \in {"wakeup", "relock"} => Phase(p)' = "awake"
      /\ l = "idle" => Phase(p)' = "out"
  BY <1>1 DEF Phase
<1> QED
  BY <1>2, <1>3 DEF Phases

\* A process that moves and stays inside, or outside, wait keeps every phase.
LEMMA PhasesKept ==
  ASSUME TypeOK, NEW p \in Procs, NEW l, Goto(p, l),
         pc[p] \notin {"sleep", "wakeup", "relock"},
         l \notin {"sleep", "wakeup", "relock"}
  PROVE  Phases' = Phases
<1>1. \A q \in Procs : pc'[q] = IF q = p THEN l ELSE pc[q]
  BY DEF TypeOK, Goto
<1>2. \A q \in Procs : Phase(q)' = Phase(q)
  BY <1>1 DEF Phase
<1> QED
  BY <1>2 DEF Phases

\* Whom the monitor sees asleep.
LEMMA MonAsleep == Mon!Asleep = Sleepers
BY DEF Mon!Asleep, Sleepers, Phase

\* Only a notification in await or clear can have fewer than one wake left, and
\* a token in _wait_semaphore is the wake of the notification under way.
LEMMA TokenIsWake ==
  ASSUME IInv, waitSem > 0
  PROVE  /\ owner \in Procs /\ owner # NoProc
         /\ Notification = op[owner] /\ op[owner] \in {"one", "all"}
         /\ Wakes = 1
         /\ op[owner] = "one" => pc[owner] \in {"await", "clear"} /\ waitSem = 1
<1>1. owner \in Procs /\ owner # NoProc /\ pc[owner] \in {"grab", "post", "await", "clear"}
  BY DEF IInv, TypeOK, TokenInv
<1>2. op[owner] \in {"one", "all"} /\ sleepers[owner] \in Nat
  BY <1>1 DEF IInv, TypeOK
<1>3. op[owner] = "one" => pc[owner] \in {"await", "clear"} /\ waitSem = 1
  BY <1>1, <1>2 DEF IInv, TypeOK, TokenInv, NotifierInv
<1> QED
  BY <1>1, <1>2, <1>3 DEF Notification, Wakes, NotifyPcs

\* A step of the lock is one of the monitor, or takes the lock deeper or less
\* deep, which the monitor does not see.
LEMMA MonLocks ==
  ASSUME IInv, NEW p \in Procs, Acquire(p) \/ Release(p)
  PROVE  [Mon!MonNext]_(Mon!monVars)
<1> USE DEF At, semVars, envVars
<1>1. /\ pc[p] = "idle" /\ p # NoProc /\ pc' = pc /\ op' = op
      /\ waitSem' = waitSem /\ timeouts' = timeouts
  BY ConditionAssumption DEF Acquire, Release
<1>2. Phases' = Phases
  BY <1>1 DEF Phases, Phase
<1>3. Phase(p) = "out"
  BY <1>1 DEF Phase
<1>4. CASE owner = NoProc
  <2>1. owner' = p
    BY <1>4, <1>1 DEF Acquire, Release
  <2>2. Notification = "none" /\ Wakes = 0
    BY <1>4 DEF Notification, Wakes
  <2>3. Notification' = "none" /\ Wakes' = 0
    BY <2>1, <1>1 DEF Notification, Wakes, NotifyPcs
  <2>4. Mon!MonLock(p)
    BY <2>1, <2>2, <2>3, <1>1, <1>2, <1>3, <1>4 DEF Mon!MonLock, Phases
  <2> QED
    BY <2>4 DEF Mon!MonNext
<1>5. CASE owner = p
  <2>2. Notification = "none" /\ Wakes = 0
    BY <1>5, <1>1 DEF Notification, Wakes, NotifyPcs
  <2>3. owner' \in {p, NoProc}
    BY <1>5, <1>1 DEF Acquire, Release
  <2>4. Notification' = "none" /\ Wakes' = 0
    BY <2>3, <1>1 DEF Notification, Wakes, NotifyPcs
  <2>5. CASE owner' = p
    BY <2>5, <2>2, <2>4, <1>1, <1>2, <1>5, MonStutters
  <2>6. CASE owner' = NoProc
    <3>1. Mon!MonUnlock(p)
      BY <2>6, <2>2, <2>4, <1>1, <1>2, <1>5 DEF Mon!MonUnlock, Phases
    <3> QED
      BY <3>1 DEF Mon!MonNext
  <2> QED
    BY <2>3, <2>5, <2>6
<1> QED
  BY <1>1, <1>4, <1>5 DEF Acquire, Release

\* A step of wait is one of the monitor, or the release of _sleeping_count or
\* _woken_count, which the monitor does not see.
LEMMA MonWaits ==
  ASSUME IInv, NEW p \in Procs, WaitBegin(p) \/ WaitTimeout(p) \/ WaitStep(p)
  PROVE  [Mon!MonNext]_(Mon!monVars)
<1> USE DEF At, semVars, envVars, lockVars
<1>0. TypeOK /\ p # NoProc
  BY ConditionAssumption DEF IInv
<1>1. CASE WaitBegin(p)
  <2>1. Goto(p, "unlock") /\ pc[p] = "idle" /\ owner = p
    BY <1>1 DEF WaitBegin
  <2>2. Phases' = Phases
    BY <2>1, <1>0, PhasesKept
  <2>3. pc'[p] = "unlock" /\ owner' = owner /\ op' = op /\ timeouts' = timeouts
    BY <1>1, <2>1, <1>0 DEF WaitBegin, Goto, TypeOK
  <2>4. Notification' = Notification /\ Wakes' = Wakes
    BY <2>1, <2>3, <1>0 DEF Notification, Wakes, NotifyPcs
  <2> QED
    BY <2>2, <2>3, <2>4, MonStutters
<1>2. CASE WaitUnlock(p)
  <2>1. Goto(p, "sleep") /\ pc[p] = "unlock" /\ owner' = NoProc /\ timeouts' = timeouts
    BY <1>2 DEF WaitUnlock
  <2>2. owner = p
    BY <2>1 DEF IInv, LockInv
  <2>3. Phases' = [Phases EXCEPT ![p] = "asleep"]
    BY <2>1, <1>0, PhaseMoves
  <2>4. Notification = "none" /\ Wakes = 0 /\ Notification' = "none" /\ Wakes' = 0
    BY <2>1, <2>2, <1>0 DEF Notification, Wakes, NotifyPcs
  <2>5. Mon!MonWait(p)
    BY <2>1, <2>2, <2>3, <2>4 DEF Mon!MonWait, Phases
  <2> QED
    BY <2>5 DEF Mon!MonNext
<1>3. CASE WaitNotified(p)
  <2>1. /\ Goto(p, "wakeup") /\ pc[p] = "sleep" /\ waitSem > 0 /\ waitSem' = waitSem - 1
        /\ owner' = owner /\ op' = op /\ timeouts' = timeouts
    BY <1>3 DEF WaitNotified
  <2>2. /\ owner \in Procs /\ owner # NoProc
        /\ Notification = op[owner] /\ op[owner] \in {"one", "all"}
        /\ Wakes = 1
        /\ op[owner] = "one" => pc[owner] \in {"await", "clear"} /\ waitSem = 1
    BY <2>1, TokenIsWake
  <2>3. Phases' = [Phases EXCEPT ![p] = "awake"] /\ Phase(p) = "asleep"
    BY <2>1, <1>0, PhaseMoves DEF Phase
  <2>4. pc[owner] \in NotifyPcs
    BY <2>2 DEF Notification
  <2>5. p # owner
    BY <2>4, <2>1 DEF NotifyPcs
  <2>6. pc'[owner] = pc[owner]
    BY <2>5, <2>1, <2>2, <1>0 DEF Goto, TypeOK
  <2>7. Notification' = Notification
    BY <2>6, <2>1 DEF Notification
  <2>8. Wakes' = IF Notification = "one" THEN 0 ELSE 1
    <3>1. CASE op[owner] = "one"
      BY <3>1, <2>1, <2>2, <2>6, <2>7, <1>0 DEF Wakes
    <3>2. CASE op[owner] = "all"
      BY <3>2, <2>1, <2>2, <2>6, <2>7 DEF Wakes
    <3> QED
      BY <3>1, <3>2, <2>2
  <2>9. Mon!MonWake(p)
    BY <2>1, <2>2, <2>3, <2>7, <2>8 DEF Mon!MonWake, Phases
  <2> QED
    BY <2>9 DEF Mon!MonNext
<1>4. CASE WaitTimeout(p)
  <2>1. /\ Goto(p, "wakeup") /\ pc[p] = "sleep" /\ waitSem' = waitSem
        /\ owner' = owner /\ op' = op /\ timeouts' = timeouts + 1
    BY <1>4 DEF WaitTimeout
  <2>3. Phases' = [Phases EXCEPT ![p] = "awake"] /\ Phase(p) = "asleep"
    BY <2>1, <1>0, PhaseMoves DEF Phase
  <2>5. p # owner
    BY <2>1, <1>0 DEF IInv, LockInv, NotifyPcs
  <2>6. owner # NoProc => pc'[owner] = pc[owner]
    BY <2>5, <2>1, <1>0 DEF Goto, TypeOK
  <2>7. Notification' = Notification /\ Wakes' = Wakes
    BY <2>6, <2>1 DEF Notification, Wakes
  <2>9. Mon!MonTimeout(p)
    BY <2>1, <2>3, <2>7 DEF Mon!MonTimeout, Phases
  <2> QED
    BY <2>9 DEF Mon!MonNext
<1>5. CASE WaitWoken(p)
  <2>1. /\ Goto(p, "relock") /\ pc[p] = "wakeup" /\ waitSem' = waitSem
        /\ owner' = owner /\ op' = op /\ timeouts' = timeouts
    BY <1>5 DEF WaitWoken
  <2>3. Phases' = [Phases EXCEPT ![p] = "awake"] /\ Phase(p) = "awake"
    BY <2>1, <1>0, PhaseMoves DEF Phase
  <2>4. Phases' = Phases
    BY <2>3 DEF Phases
  <2>5. p # owner
    BY <2>1, <1>0 DEF IInv, LockInv, NotifyPcs
  <2>6. owner # NoProc => pc'[owner] = pc[owner]
    BY <2>5, <2>1, <1>0 DEF Goto, TypeOK
  <2>7. Notification' = Notification /\ Wakes' = Wakes
    BY <2>6, <2>1 DEF Notification, Wakes
  <2> QED
    BY <2>1, <2>4, <2>7, MonStutters
<1>6. CASE WaitRelock(p)
  <2>1. /\ Goto(p, "idle") /\ pc[p] = "relock" /\ owner = NoProc
        /\ owner' = p /\ timeouts' = timeouts
    BY <1>6 DEF WaitRelock
  <2>2. Phases' = [Phases EXCEPT ![p] = "out"] /\ Phase(p) = "awake"
    BY <2>1, <1>0, PhaseMoves DEF Phase
  <2>3. pc'[p] = "idle"
    BY <2>1, <1>0 DEF Goto, TypeOK
  <2>4. Notification = "none" /\ Wakes = 0 /\ Notification' = "none" /\ Wakes' = 0
    BY <2>1, <2>3 DEF Notification, Wakes, NotifyPcs
  <2>5. Mon!MonRelock(p)
    BY <2>1, <2>2, <2>4 DEF Mon!MonRelock, Phases
  <2> QED
    BY <2>5 DEF Mon!MonNext
<1> QED
  BY <1>1, <1>2, <1>3, <1>4, <1>5, <1>6 DEF WaitStep

\* A notification that goes on is not seen by the monitor: what it may wake is
\* still the same.
LEMMA MonGoesOn ==
  ASSUME IInv, NEW p \in Procs, pc[p] \in NotifyPcs,
         NEW l \in NotifyPcs, Goto(p, l),
         owner' = owner, op' = op, timeouts' = timeouts,
         op[p] = "one" => /\ pc[p] \in {"await", "clear"} <=> l \in {"await", "clear"}
                          /\ l \in {"await", "clear"} => waitSem' = waitSem
  PROVE  UNCHANGED Mon!monVars
<1>0. TypeOK /\ p # NoProc /\ owner = p
  BY ConditionAssumption DEF IInv, LockInv, NotifyPcs
<1>1. Phases' = Phases
  BY <1>0, PhasesKept DEF NotifyPcs
<1>2. pc'[p] = l
  BY <1>0 DEF Goto, TypeOK
<1>3. Notification' = Notification
  BY <1>0, <1>2 DEF Notification
<1>4. op[p] \in {"one", "all"}
  BY <1>0 DEF TypeOK
<1>5. Wakes' = Wakes
  BY <1>0, <1>2, <1>3, <1>4 DEF Wakes
<1> QED
  BY <1>0, <1>1, <1>3, <1>5, MonStutters

\* A notification that returns as the monitor allows it is the monitor's return.
LEMMA MonReturns ==
  ASSUME IInv, NEW p \in Procs, pc[p] \in NotifyPcs, Return(p),
         owner' = owner, timeouts' = timeouts,
         op[p] = "all" => Sleepers = {},
         op[p] = "one" /\ timeouts = 0 /\ Sleepers # {} => Wakes = 0
  PROVE  Mon!MonNext
<1>0. TypeOK /\ p # NoProc /\ owner = p /\ Goto(p, "idle")
  BY ConditionAssumption DEF IInv, LockInv, NotifyPcs, Return
<1>1. Phases' = Phases
  BY <1>0, PhasesKept DEF NotifyPcs
<1>2. pc'[p] = "idle"
  BY <1>0 DEF Goto, TypeOK
<1>3. op[p] \in {"one", "all"} /\ Notification = op[p]
  BY <1>0 DEF TypeOK, Notification
<1>4. Notification' = "none" /\ Wakes' = 0
  BY <1>0, <1>2 DEF Notification, Wakes, NotifyPcs
<1>5. Mon!MonReturn(p)
  BY <1>0, <1>1, <1>3, <1>4, MonAsleep DEF Mon!MonReturn, Phases
<1> QED
  BY <1>5 DEF Mon!MonNext

\* Once the counters are zero and nobody is awaited, nobody sleeps.
LEMMA NoneLeft ==
  ASSUME IInv, NEW p \in Procs, owner = p, sleeping = 0, sleepers[p] = 0,
         pc[p] # "post"
  PROVE  Sleepers = {}
<1>0. p # NoProc
  BY ConditionAssumption
<1>1. Cardinality(Waiting) = 0
  BY <1>0, WaitingFinite
  DEF IInv, TypeOK, SleepersAccounted, Grabbed, Unsubtracted
<1>2. Waiting = {}
  BY <1>1, WaitingFinite, FS_EmptySet
<1> QED
  BY <1>2 DEF Waiting, Sleepers, WaitPcs

\* A step of notify or notify_all begins a notification of the monitor, goes on
\* with it, or returns from it.
LEMMA MonNotifies ==
  ASSUME IInv, WakeInv, NEW p \in Procs,
         NotifyStep(p) \/ \E o \in {"one", "all"} : NotifyBegin(p, o)
  PROVE  [Mon!MonNext]_(Mon!monVars)
<1> USE DEF At, semVars, envVars, lockVars
<1>0. TypeOK /\ p # NoProc /\ op[p] \in {"one", "all"}
  BY ConditionAssumption DEF IInv, TypeOK
<1>1. ASSUME NEW o \in {"one", "all"}, NotifyBegin(p, o)
      PROVE  Mon!MonNext
  <2>1. /\ pc[p] = "idle" /\ owner = p /\ owner' = p /\ timeouts' = timeouts
        /\ op' = [op EXCEPT ![p] = o]
    BY <1>1 DEF NotifyBegin
  <2>2. ~(waitSem > 0)
    BY <2>1, <1>0 DEF IInv, TokenInv
  <2>3. Goto(p, "rezero")
    BY <1>1, <2>2 DEF NotifyBegin
  <2>4. Phases' = Phases
    BY <2>1, <2>3, <1>0, PhasesKept
  <2>5. pc'[p] = "rezero" /\ op'[p] = o
    BY <2>1, <2>3, <1>0 DEF Goto, TypeOK
  <2>6. Notification = "none" /\ Notification' = o
    BY <2>1, <2>5, <1>0 DEF Notification, NotifyPcs
  <2>7. Wakes' = 1
    BY <2>1, <2>5, <2>6 DEF Wakes
  <2>8. Mon!MonNotify(p, o)
    BY <2>1, <2>4, <2>6, <2>7 DEF Mon!MonNotify, Phases
  <2> QED
    BY <2>8 DEF Mon!MonNext
<1>2. CASE NotifyRezero(p)
  <2>1. /\ pc[p] = "rezero" /\ owner' = owner /\ op' = op /\ timeouts' = timeouts
        /\ Goto(p, "subtract") \/ Goto(p, "grab")
    BY <1>2 DEF NotifyRezero
  <2> QED
    BY <2>1, MonGoesOn DEF NotifyPcs
<1>3. CASE NotifySubtract(p)
  <2>1. /\ pc[p] = "subtract" /\ owner' = owner /\ op' = op /\ timeouts' = timeouts
        /\ sleeping > 0 => Goto(p, "rezero")
    BY <1>3 DEF NotifySubtract
  <2>2. sleeping > 0
    <3>1. owner = p
      BY <2>1 DEF IInv, LockInv, NotifyPcs
    <3>2. sleepers[p] = 0
      BY <2>1, <1>0 DEF IInv, NotifierInv, TypeOK
    <3> QED
      BY <3>1, <3>2, <2>1, <1>0, WaitingFinite
      DEF IInv, TypeOK, SleepersAccounted, Grabbed, Unsubtracted
  <2> QED
    BY <2>1, <2>2, MonGoesOn DEF NotifyPcs
<1>4. CASE NotifyGrab(p)
  <2>1. pc[p] = "grab" /\ owner' = owner /\ timeouts' = timeouts /\ waitSem' = waitSem
    BY <1>4 DEF NotifyGrab
  <2>2. owner = p
    BY <2>1 DEF IInv, LockInv, NotifyPcs
  <2>3. CASE Goto(p, "post") /\ op' = op
    BY <2>1, <2>3, MonGoesOn DEF NotifyPcs
  <2>4. CASE sleepers[p] > 0 /\ Goto(p, "await") /\ op' = op
    <3>1. op[p] # "one"
      BY <2>1, <2>4, <1>0 DEF IInv, NotifierInv
    <3> QED
      BY <3>1, <2>1, <2>4, MonGoesOn DEF NotifyPcs
  <2>5. CASE sleeping = 0 /\ sleepers[p] = 0 /\ Return(p)
    <3>1. Sleepers = {}
      BY <2>1, <2>2, <2>5, NoneLeft
    <3> QED
      BY <3>1, <2>1, <2>5, MonReturns DEF NotifyPcs
  <2> QED
    BY <1>4, <2>3, <2>4, <2>5 DEF NotifyGrab
<1>5. CASE NotifyPost(p)
  <2>1. /\ pc[p] = "post" /\ owner' = owner /\ op' = op /\ timeouts' = timeouts
        /\ waitSem' = waitSem + 1
        /\ Goto(p, IF op[p] = "all" THEN "grab" ELSE "await")
    BY <1>5 DEF NotifyPost
  <2>2. owner = p
    BY <2>1 DEF IInv, LockInv, NotifyPcs
  <2>3. CASE op[p] = "all"
    BY <2>1, <2>3, MonGoesOn DEF NotifyPcs
  <2>4. CASE op[p] = "one"
    <3>1. Goto(p, "await") /\ pc'[p] = "await"
      BY <2>1, <2>4, <1>0 DEF Goto, TypeOK
    <3>2. waitSem = 0
      BY <2>1, <2>2, <2>4, <1>0 DEF IInv, TokenInv, NotifierInv, TypeOK
    <3>3. Phases' = Phases
      BY <2>1, <3>1, <1>0, PhasesKept
    <3>4. Notification = "one" /\ Notification' = "one"
      BY <2>1, <2>2, <2>4, <3>1, <1>0 DEF Notification, NotifyPcs
    <3>5. Wakes = 1 /\ Wakes' = 1
      BY <2>1, <2>2, <2>4, <3>1, <3>2, <3>4 DEF Wakes
    <3> QED
      BY <2>1, <3>3, <3>4, <3>5, MonStutters
  <2> QED
    BY <2>3, <2>4, <1>0
<1>6. CASE NotifyAwait(p)
  <2>1. /\ pc[p] = "await" /\ owner' = owner /\ op' = op /\ timeouts' = timeouts
        /\ waitSem' = waitSem
        /\ Goto(p, "clear") \/ Goto(p, "await")
    BY <1>6 DEF NotifyAwait
  <2> QED
    BY <2>1, MonGoesOn DEF NotifyPcs
<1>7. CASE NotifyClear(p)
  <2>1. pc[p] = "clear" /\ owner' = owner /\ timeouts' = timeouts
    BY <1>7 DEF NotifyClear
  <2>2. owner = p /\ sleepers[p] = 0
    BY <2>1, <1>0 DEF IInv, LockInv, NotifierInv, NotifyPcs, TypeOK
  <2>3. CASE op[p] = "all" /\ waitSem > 0
    <3>1. pc' = pc /\ op' = op
      BY <1>7, <2>3 DEF NotifyClear
    <3>2. Phases' = Phases /\ Notification' = Notification
      BY <3>1, <2>1 DEF Phases, Phase, Notification
    <3>3. Wakes' = Wakes
      BY <3>1, <3>2, <2>1, <2>2, <2>3 DEF Wakes
    <3> QED
      BY <3>2, <3>3, <2>1, MonStutters
  <2>4. CASE ~(op[p] = "all" /\ waitSem > 0)
    <3>1. Return(p)
      BY <1>7, <2>4 DEF NotifyClear
    <3>2. op[p] = "all" => Sleepers = {}
      <4>1. op[p] = "all" => sleeping = 0
        BY <2>1 DEF IInv, NotifierInv
      <4> QED
        BY <4>1, <2>1, <2>2, NoneLeft
    <3>3. op[p] = "one" /\ timeouts = 0 => Wakes = 0
      <4>1. timeouts = 0 => waitSem = 0
        BY <2>2, <1>0, WakeupsFinite DEF TypeOK, WakeInv
      <4> QED
        BY <4>1, <2>1, <2>2, <1>0 DEF Wakes, Notification
    <3> QED
      BY <3>1, <3>2, <3>3, <2>1, MonReturns DEF NotifyPcs
  <2> QED
    BY <2>3, <2>4
<1> QED
  BY <1>1, <1>2, <1>3, <1>4, <1>5, <1>6, <1>7 DEF NotifyStep

\* Every step of the condition is a step of the monitor, or none.
LEMMA MonStep ==
  ASSUME IInv, WakeInv, [Next]_vars
  PROVE  [Mon!MonNext]_(Mon!monVars)
<1>1. CASE UNCHANGED vars
  <2>1. /\ owner' = owner /\ pc' = pc /\ op' = op /\ waitSem' = waitSem
        /\ timeouts' = timeouts
    BY <1>1 DEF vars, semVars, lockVars, envVars
  <2> QED
    BY <2>1, MonStutters DEF Phases, Phase, Notification, Wakes
<1>2. ASSUME NEW p \in Procs, Crash(p)
      PROVE  UNCHANGED Mon!monVars
  <2>1. /\ owner' = owner /\ pc' = pc /\ op' = op /\ waitSem' = waitSem
        /\ timeouts' = timeouts
    BY <1>2 DEF Crash, semVars, lockVars
  <2> QED
    BY <2>1, MonStutters DEF Phases, Phase, Notification, Wakes
<1> QED
  BY <1>1, <1>2, MonLocks, MonWaits, MonNotifies DEF Next

\* The initial state of the condition is the monitor's.
LEMMA MonStart == Init => Mon!MonInit
<1> SUFFICES ASSUME Init PROVE Mon!MonInit
  OBVIOUS
<1>1. owner = NoProc /\ timeouts = 0 /\ \A p \in Procs : pc[p] = "idle"
  BY DEF Init
<1>2. Notification = "none" /\ Wakes = 0
  BY <1>1 DEF Notification, Wakes
<1>3. Phases = [p \in Procs |-> "out"]
  BY <1>1 DEF Phases, Phase
<1> QED
  BY <1>1, <1>2, <1>3 DEF Mon!MonInit, Phases

\* wait, notify and notify_all implement the monitor, step by step: between the
\* four semaphores of the code nothing happens that a condition variable made of
\* a lock and a set of sleepers could not do.
THEOREM ConditionImplementsMonitor == Spec => ImplementsMonitor
<1>1. Init => IInv /\ WakeInv
  BY IInvInit, WakeInit
<1>2. IInv /\ WakeInv /\ [Next]_vars => (IInv /\ WakeInv)'
  BY IInvNext, WakeNext
<1>3. IInv /\ WakeInv /\ [Next]_vars => [Mon!MonNext]_(Mon!monVars)
  BY MonStep
<1> QED
  BY <1>1, <1>2, <1>3, MonStart, PTL DEF Spec, ImplementsMonitor, Mon!MonSpec

==============================================================================
