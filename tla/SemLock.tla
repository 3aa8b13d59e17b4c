------------------------------- MODULE SemLock -------------------------------
(***************************************************************************)
(* SemLock of Modules/_billiard/semaphore.c (POSIX), the base of Lock,     *)
(* RLock, Semaphore and BoundedSemaphore.  The semaphore is shared by all  *)
(* processes; count and last_tid are fields of an object that each process *)
(* has a copy of.  A step is a piece of C code between two points where    *)
(* the GIL is given up or another process can touch the semaphore.         *)
(***************************************************************************)
EXTENDS Integers, FiniteSets

CONSTANTS
  SemProcs,     \* processes; the first to run is SemMain
  SemMain,
  SemThreads,   \* thread idents, which survive a fork
  SemMax,       \* maxvalue of the semaphore kinds
  SemDepth,     \* bound: how often one thread holds the semaphore or lock
  SemExtra      \* bound: releases without an acquire

ASSUME SemAssumption ==
  /\ SemMain \in SemProcs /\ IsFiniteSet(SemProcs)
  /\ SemMax \in Nat \ {0} /\ SemDepth \in Nat /\ SemExtra \in Nat

VARIABLES
  semKind,    \* "mutex" (RECURSIVE_MUTEX) or "semaphore"
  semValue,   \* value of the POSIX semaphore
  semCount,   \* process -> count
  semTid,     \* process -> last_tid
  semLive,    \* the <<process, thread>> pairs that exist
  semPc,      \* pair -> "idle", "wait", "try", "got" or "post"
  semHeld,    \* history: pair -> acquires not yet released
  semExtra    \* history: releases without an acquire

semLockVars == <<semKind, semValue, semCount, semTid, semLive, semPc, semHeld, semExtra>>

SemPairs == SemProcs \X SemThreads
SemLimit == IF semKind = "mutex" THEN 1 ELSE SemMax

\* ISMINE
IsMine(t) == semCount[t[1]] > 0 /\ semTid[t[1]] = t[2]

\* No thread of this process is inside release, which keeps the GIL.
HasGil(t) == \A s \in semLive : s[1] = t[1] => semPc[s] # "post"

SemGoto(t, l) == semPc' = [semPc EXCEPT ![t] = l]

SemInit ==
  /\ semKind \in {"mutex", "semaphore"}
  /\ semValue = SemLimit
  /\ semCount = [p \in SemProcs |-> 0]
  /\ semTid = [p \in SemProcs |-> CHOOSE i \in SemThreads : TRUE]
  /\ semLive = {SemMain} \X SemThreads
  /\ semPc = [t \in SemPairs |-> "idle"]
  /\ semHeld = [t \in SemPairs |-> 0]
  /\ semExtra = 0

\* Mutant of SemReacquire: the thread is not compared.
SemReacquireAny(t) ==
  /\ semPc[t] = "idle" /\ HasGil(t)
  /\ semKind = "mutex" /\ semCount[t[1]] > 0 /\ semHeld[t] < SemDepth
  /\ semCount' = [semCount EXCEPT ![t[1]] = @ + 1]
  /\ semHeld' = [semHeld EXCEPT ![t] = @ + 1]
  /\ UNCHANGED <<semKind, semValue, semTid, semLive, semPc, semExtra>>

\* semlock_acquire of a recursive mutex by its owner
SemReacquire(t) ==
  /\ semPc[t] = "idle" /\ HasGil(t)
  /\ semKind = "mutex" /\ IsMine(t) /\ semHeld[t] < SemDepth
  /\ semCount' = [semCount EXCEPT ![t[1]] = @ + 1]
  /\ semHeld' = [semHeld EXCEPT ![t] = @ + 1]
  /\ UNCHANGED <<semKind, semValue, semTid, semLive, semPc, semExtra>>

\* Otherwise it gives up the GIL and tries once, or waits (with or without a
\* timeout) ...
SemAcquire(t, how) ==
  /\ semPc[t] = "idle" /\ HasGil(t)
  /\ ~(semKind = "mutex" /\ IsMine(t)) /\ semHeld[t] < SemDepth
  /\ SemGoto(t, how)
  /\ UNCHANGED <<semKind, semValue, semCount, semTid, semLive, semHeld, semExtra>>

\* ... sem_wait or sem_trywait succeeds ...
SemTake(t) ==
  /\ semPc[t] \in {"wait", "try"}
  /\ semValue > 0
  /\ semValue' = semValue - 1
  /\ SemGoto(t, "got")
  /\ UNCHANGED <<semKind, semCount, semTid, semLive, semHeld, semExtra>>

\* ... or fails with EAGAIN or ETIMEDOUT, or a signal handler raises.
SemGiveUp(t) ==
  /\ semPc[t] \in {"wait", "try"}
  /\ semPc[t] = "try" => semValue = 0
  /\ SemGoto(t, "idle")
  /\ UNCHANGED <<semKind, semValue, semCount, semTid, semLive, semHeld, semExtra>>

\* With the GIL again: ++count, last_tid
SemRecord(t) ==
  /\ semPc[t] = "got" /\ HasGil(t)
  /\ semCount' = [semCount EXCEPT ![t[1]] = @ + 1]
  /\ semTid' = [semTid EXCEPT ![t[1]] = t[2]]
  /\ semHeld' = [semHeld EXCEPT ![t] = @ + 1]
  /\ SemGoto(t, "idle")
  /\ UNCHANGED <<semKind, semValue, semLive, semExtra>>

\* semlock_release of a recursive mutex; by anybody else it raises.
SemReleaseMutex(t) ==
  /\ semPc[t] = "idle" /\ HasGil(t)
  /\ semKind = "mutex" /\ IsMine(t)
  /\ semValue' = IF semCount[t[1]] > 1 THEN semValue ELSE semValue + 1
  /\ semCount' = [semCount EXCEPT ![t[1]] = @ - 1]
  /\ semHeld' = [semHeld EXCEPT ![t] = @ - 1]
  /\ UNCHANGED <<semKind, semTid, semLive, semPc, semExtra>>

\* semlock_release of a semaphore: sem_getvalue is compared with maxvalue ...
SemReleaseCheck(t) ==
  /\ semPc[t] = "idle" /\ HasGil(t)
  /\ semKind = "semaphore"
  /\ semValue < SemLimit
  /\ \/ semHeld[t] > 0 /\ semHeld' = [semHeld EXCEPT ![t] = @ - 1]
        /\ UNCHANGED semExtra
     \/ semHeld[t] = 0 /\ semExtra < SemExtra /\ semExtra' = semExtra + 1
        /\ UNCHANGED semHeld
  /\ SemGoto(t, "post")
  /\ UNCHANGED <<semKind, semValue, semCount, semTid, semLive>>

\* ... and only then the semaphore is posted.
SemPost(t) ==
  /\ semPc[t] = "post"
  /\ semValue' = semValue + 1
  /\ semCount' = [semCount EXCEPT ![t[1]] = @ - 1]
  /\ SemGoto(t, "idle")
  /\ UNCHANGED <<semKind, semTid, semLive, semHeld, semExtra>>

\* A thread forks: the child has a copy of the object and that thread only;
\* SemLock's _after_fork resets count.
SemFork(t, q) ==
  /\ semPc[t] = "idle" /\ HasGil(t)
  /\ \A s \in semLive : s[1] # q
  /\ semLive' = semLive \cup {<<q, t[2]>>}
  /\ semCount' = [semCount EXCEPT ![q] = 0]
  /\ semTid' = [semTid EXCEPT ![q] = semTid[t[1]]]
  /\ UNCHANGED <<semKind, semValue, semPc, semHeld, semExtra>>

SemNext ==
  \E t \in semLive :
    \/ SemReacquire(t) \/ (\E how \in {"wait", "try"} : SemAcquire(t, how))
    \/ SemTake(t) \/ SemGiveUp(t) \/ SemRecord(t)
    \/ SemReleaseMutex(t) \/ SemReleaseCheck(t) \/ SemPost(t)
    \/ \E q \in SemProcs : SemFork(t, q)

SemSpec == SemInit /\ [][SemNext]_semLockVars

\* An RLock has one owner among all threads of all processes, also after a fork
\* while it is held: a thread takes itself for the owner exactly when it has
\* acquired the lock, and the semaphore is free exactly when nobody has it.
SemOneOwner ==
  semKind = "mutex" =>
    /\ \A t \in semLive : IsMine(t) <=> semHeld[t] > 0
    /\ semValue + Cardinality({t \in semLive : IsMine(t) \/ semPc[t] = "got"}) = 1

\* The check against maxvalue and the post are not atomic, but each process is
\* past the check at most once: the value exceeds maxvalue by less than the
\* number of processes, whoever releases too often.
SemOvershoot == semValue < SemLimit + Cardinality(SemProcs)

\* Locks exclude each other over threads, processes and forks, and a semaphore
\* stays within its bound but for the race that the C code admits.
SemSafe ==
  /\ SemOneOwner
  /\ SemOvershoot

=============================================================================
