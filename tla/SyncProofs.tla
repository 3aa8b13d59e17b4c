----------------------------- MODULE SyncProofs -----------------------------
(***************************************************************************)
(* Theorems about the primitives that processes share: Event, SemLock and  *)
(* the semaphore tracker, for any number of users, threads, processes and  *)
(* names.                                                                  *)
(***************************************************************************)
EXTENDS Event, SemLock, SemTracker, FiniteSetTheorems, TLAPS

(***************************************************************************)
(* Event                                                                   *)
(***************************************************************************)

\* Every variable has its type.
EventType ==
  /\ holder \in Users \cup {Nobody}
  /\ phase \in [Users -> {"out", "asleep", "awake"}]
  /\ notifying \in {"none", "all"} /\ evFlag \in {0, 1} /\ expired \in Nat
  /\ evPc \in [Users -> {"idle", "is_set", "set", "notify", "clear", "wait", "sleep",
                         "test", "leave"}]
  /\ evRes \in [Users -> {"none", "true", "false"}]
  /\ evWhy \in [Users -> SUBSET {"cleared", "expired"}]

\* A user inside a method holds the lock unless it sleeps there, and nobody else
\* does; a notification belongs to the user that is in set().
EventLock ==
  /\ \A u \in Users : evPc[u] \notin {"idle", "sleep"} => holder = u
  /\ \A u \in Users : holder = u => evPc[u] \notin {"idle", "sleep"}
  /\ \A u \in Users : phase[u] = "out" <=> evPc[u] # "sleep"
  /\ notifying = "all" => holder # Nobody /\ evPc[holder] = "notify"
  /\ \A u \in Users : evPc[u] = "notify" => notifying = "all"

\* A notification finds the flag set; a waiter that is awake, or about to test
\* the flag, has found it set or has a reason why not.
EventReasons ==
  /\ notifying = "all" => evFlag = 1
  /\ \A u \in Users :
       phase[u] = "awake" \/ evPc[u] = "test" => evFlag = 1 \/ evWhy[u] # {}

EventInv == EventType /\ EventLock /\ EventReasons /\ EventSafe

\* The invariant holds at the start ...
LEMMA EventInvInit == EventInit => EventInv
BY MonitorAssumption
DEF EventInit, MonInit, EventInv, EventType, EventLock, EventReasons, EventSafe,
    EventNoLostWakeup, EventFalseExplained, Asleep

\* ... and is kept by every step.
LEMMA EventInvNext == EventInv /\ [EventNext]_eventVars => EventInv'
<1> SUFFICES ASSUME EventInv, [EventNext]_eventVars PROVE EventInv'
  OBVIOUS
<1> USE MonitorAssumption
    DEF EventInv, EventType, EventLock, EventReasons, EventSafe, EventNoLostWakeup,
        EventFalseExplained, Asleep, EvGoto, monVars
<1>1. CASE UNCHANGED eventVars
  BY <1>1 DEF eventVars
<1>2. ASSUME NEW u \in Users, NEW m \in {"is_set", "set", "clear", "wait"}, EvEnter(u, m)
      PROVE  EventInv'
  BY <1>2 DEF EvEnter, MonLock
<1>3. ASSUME NEW u \in Users, EvLeave(u) PROVE EventInv'
  BY <1>3 DEF EvLeave, MonUnlock
<1>4. ASSUME NEW u \in Users, EvIsSet(u) PROVE EventInv'
  BY <1>4 DEF EvIsSet
<1>5. ASSUME NEW u \in Users, EvSet(u) PROVE EventInv'
  BY <1>5 DEF EvSet, MonNotify
<1>6. ASSUME NEW u \in Users, EvNotified(u) PROVE EventInv'
  BY <1>6 DEF EvNotified, MonReturn
<1>7. ASSUME NEW u \in Users, EvClear(u) PROVE EventInv'
  BY <1>7 DEF EvClear
<1>8. ASSUME NEW u \in Users, EvWait(u) PROVE EventInv'
  BY <1>8 DEF EvWait, MonWait
<1>9. ASSUME NEW u \in Users, EvWoken(u) PROVE EventInv'
  BY <1>9 DEF EvWoken, MonWake
<1>10. ASSUME NEW u \in Users, EvTimeout(u) PROVE EventInv'
  BY <1>10 DEF EvTimeout, MonTimeout
<1>11. ASSUME NEW u \in Users, EvRelock(u) PROVE EventInv'
  BY <1>11 DEF EvRelock, MonRelock
<1>12. ASSUME NEW u \in Users, EvTest(u) PROVE EventInv'
  BY <1>12 DEF EvTest
<1> QED
  BY <1>1, <1>2, <1>3, <1>4, <1>5, <1>6, <1>7, <1>8, <1>9, <1>10, <1>11, <1>12
  DEF EventNext

\* No waiter misses a set(), and wait() returns False only for a reason, for any
\* number of users that set, clear and wait in any order.
THEOREM EventIsSafe == EventSpec => []EventSafe
<1>1. EventInv => EventSafe
  BY DEF EventInv
<1> QED
  BY <1>1, EventInvInit, EventInvNext, PTL DEF EventSpec

(***************************************************************************)
(* SemLock                                                                 *)
(***************************************************************************)

\* Every variable has its type; a thread that does not exist yet has done
\* nothing.
SemType ==
  /\ semKind \in {"mutex", "semaphore"} /\ semValue \in Nat /\ semExtra \in Nat
  /\ semCount \in [SemProcs -> Int]
  /\ semTid \in [SemProcs -> SemThreads \cup {CHOOSE i \in SemThreads : TRUE}]
  /\ semLive \subseteq SemPairs
  /\ semPc \in [SemPairs -> {"idle", "wait", "try", "got", "post"}]
  /\ semHeld \in [SemPairs -> Nat]
  /\ \A t \in SemPairs \ semLive : semHeld[t] = 0 /\ semPc[t] = "idle"

\* The threads that own a recursive mutex, or have taken the semaphore and are
\* about to record that.
Owners == {t \in semLive : IsMine(t) \/ semPc[t] = "got"}

\* A mutex has at most one of them, and then its semaphore is taken.  The thread
\* that count and last_tid name exists and has acquired the lock count times.
SemMutex ==
  semKind = "mutex" =>
    /\ \/ semValue = 1 /\ Owners = {}
       \/ semValue = 0 /\ \E t \in semLive : Owners = {t}
    /\ \A p \in SemProcs : semCount[p] >= 0 /\ (semCount[p] > 0 => <<p, semTid[p]>> \in semLive)
    /\ \A t \in semLive : semHeld[t] = IF IsMine(t) THEN semCount[t[1]] ELSE 0
    /\ \A t \in semLive : semPc[t] # "post"
    /\ \A t \in semLive : semPc[t] # "idle" => ~IsMine(t)

\* The processes that are between the check against maxvalue and the post.
Posters == {p \in SemProcs : \E s \in semLive : s[1] = p /\ semPc[s] = "post"}

\* The GIL lets one thread of a process be there at a time; the value and those
\* who are about to raise it stay below the bound.
SemPosts ==
  /\ \A s, t \in semLive : s[1] = t[1] /\ semPc[s] = "post" /\ semPc[t] = "post" => s = t
  /\ semValue + Cardinality(Posters) < SemLimit + Cardinality(SemProcs)

SemInv == SemType /\ SemMutex /\ SemPosts

\* A pair is the pair of its components.
LEMMA PairParts ==
  \A t \in SemPairs : t = <<t[1], t[2]>> /\ t[1] \in SemProcs /\ t[2] \in SemThreads
BY DEF SemPairs

\* The processes inside release can be counted.
LEMMA PostersFinite ==
  /\ IsFiniteSet(Posters) /\ Cardinality(Posters) \in Nat
  /\ Cardinality(Posters) <= Cardinality(SemProcs)
  /\ Cardinality(SemProcs) \in Nat /\ Cardinality(SemProcs) > 0
<1>1. Posters \subseteq SemProcs
  BY DEF Posters
<1>2. SemProcs # {} /\ IsFiniteSet(SemProcs)
  BY SemAssumption
<1> QED
  BY <1>1, <1>2, FS_Subset, FS_CardinalityType, FS_EmptySet

\* The invariant holds at the start.
LEMMA SemInvInit == SemInit => SemInv
<1> SUFFICES ASSUME SemInit PROVE SemInv
  OBVIOUS
<1>1. SemType
  BY SemAssumption DEF SemInit, SemType, SemPairs, SemLimit
<1>2. Owners = {} /\ Posters = {}
  BY <1>1 DEF SemInit, Owners, Posters, IsMine, SemType, SemPairs
<1>3. SemMutex
  BY <1>1, <1>2 DEF SemInit, SemMutex, SemLimit, IsMine, SemType, SemPairs
<1>4. SemPosts
  BY <1>1, <1>2, PostersFinite, FS_EmptySet, SemAssumption
  DEF SemInit, SemPosts, SemLimit, SemType, SemPairs
<1> QED
  BY <1>1, <1>3, <1>4 DEF SemInv

\* Every step keeps the types.
LEMMA SemTypeNext ==
  ASSUME SemInv, [SemNext]_semLockVars
  PROVE  SemType'
<1> USE PairParts DEF SemInv, SemType, SemGoto, SemPairs
<1>1. CASE UNCHANGED semLockVars
  BY <1>1 DEF semLockVars
<1>2. ASSUME NEW t \in semLive, SemReacquire(t) PROVE SemType'
  BY <1>2 DEF SemReacquire
<1>3. ASSUME NEW t \in semLive, NEW how \in {"wait", "try"}, SemAcquire(t, how)
      PROVE  SemType'
  BY <1>3 DEF SemAcquire
<1>4. ASSUME NEW t \in semLive, SemTake(t) PROVE SemType'
  BY <1>4 DEF SemTake
<1>5. ASSUME NEW t \in semLive, SemGiveUp(t) PROVE SemType'
  BY <1>5 DEF SemGiveUp
<1>6. ASSUME NEW t \in semLive, SemRecord(t) PROVE SemType'
  BY <1>6 DEF SemRecord
<1>7. ASSUME NEW t \in semLive, SemReleaseMutex(t) PROVE SemType'
  <2>1. semHeld[t] = semCount[t[1]] /\ semHeld[t] > 0
    BY <1>7 DEF SemReleaseMutex, SemMutex, IsMine
  <2> QED
    BY <1>7, <2>1 DEF SemReleaseMutex
<1>8. ASSUME NEW t \in semLive, SemReleaseCheck(t) PROVE SemType'
  BY <1>8 DEF SemReleaseCheck
<1>9. ASSUME NEW t \in semLive, SemPost(t) PROVE SemType'
  BY <1>9 DEF SemPost
<1>10. ASSUME NEW t \in semLive, NEW q \in SemProcs, SemFork(t, q) PROVE SemType'
  BY <1>10 DEF SemFork
<1> QED
  BY <1>1, <1>2, <1>3, <1>4, <1>5, <1>6, <1>7, <1>8, <1>9, <1>10 DEF SemNext

\* Every step keeps the ownership of a recursive mutex.
LEMMA SemMutexNext ==
  ASSUME SemInv, [SemNext]_semLockVars
  PROVE  SemMutex'
<1> USE PairParts DEF SemInv, SemType, SemGoto, SemMutex, Owners, IsMine
<1>1. CASE UNCHANGED semLockVars
  BY <1>1 DEF semLockVars
<1>2. ASSUME NEW t \in semLive, SemReacquire(t) PROVE SemMutex'
  BY <1>2 DEF SemReacquire
<1>3. ASSUME NEW t \in semLive, NEW how \in {"wait", "try"}, SemAcquire(t, how)
      PROVE  SemMutex'
  BY <1>3 DEF SemAcquire
<1>4. ASSUME NEW t \in semLive, SemTake(t) PROVE SemMutex'
  BY <1>4 DEF SemTake
<1>5. ASSUME NEW t \in semLive, SemGiveUp(t) PROVE SemMutex'
  BY <1>5 DEF SemGiveUp
<1>6. ASSUME NEW t \in semLive, SemRecord(t) PROVE SemMutex'
  <2> SUFFICES ASSUME semKind = "mutex" PROVE SemMutex'
    BY <1>6 DEF SemRecord
  <2>1. semValue = 0 /\ Owners = {t}
    BY <1>6 DEF SemRecord
  <2>2. \A s \in semLive : ~IsMine(s)
    BY <1>6, <2>1 DEF SemRecord
  <2>3. \A p \in SemProcs : semCount[p] = 0
    <3> SUFFICES ASSUME NEW p \in SemProcs, semCount[p] # 0 PROVE FALSE
      OBVIOUS
    <3>1. semCount[p] > 0 /\ <<p, semTid[p]>> \in semLive
      BY <1>6 DEF SemRecord
    <3>2. IsMine(<<p, semTid[p]>>)
      BY <3>1
    <3> QED
      BY <2>2, <3>1, <3>2
  <2>4. t \in SemPairs /\ t[1] \in SemProcs
    BY PairParts
  <2>5. \A s \in semLive : IsMine(s)' <=> s = t
    <3> SUFFICES ASSUME NEW s \in semLive PROVE IsMine(s)' <=> s = t
      OBVIOUS
    <3>1. s \in SemPairs
      OBVIOUS
    <3>2. CASE s[1] = t[1]
      BY <1>6, <2>3, <2>4, <3>1, <3>2 DEF SemRecord
    <3>3. CASE s[1] # t[1]
      BY <1>6, <2>3, <2>4, <3>1, <3>3 DEF SemRecord
    <3> QED
      BY <3>2, <3>3
  <2>6. Owners' = {t}
    BY <1>6, <2>1, <2>4, <2>5 DEF SemRecord
  <2>7. \A p \in SemProcs : semCount'[p] >= 0
                           /\ (semCount'[p] > 0 => <<p, semTid'[p]>> \in semLive')
    BY <1>6, <2>3, <2>4 DEF SemRecord
  <2>8. \A s \in semLive : semHeld'[s] = IF IsMine(s)' THEN semCount'[s[1]] ELSE 0
    BY <1>6, <2>2, <2>3, <2>4, <2>5 DEF SemRecord
  <2> QED
    BY <1>6, <2>1, <2>5, <2>6, <2>7, <2>8 DEF SemRecord
<1>7. ASSUME NEW t \in semLive, SemReleaseMutex(t) PROVE SemMutex'
  BY <1>7 DEF SemReleaseMutex
<1>8. ASSUME NEW t \in semLive, SemReleaseCheck(t) PROVE SemMutex'
  BY <1>8 DEF SemReleaseCheck
<1>9. ASSUME NEW t \in semLive, SemPost(t) PROVE SemMutex'
  BY <1>9 DEF SemPost
<1>10. ASSUME NEW t \in semLive, NEW q \in SemProcs, SemFork(t, q) PROVE SemMutex'
  <2> SUFFICES ASSUME semKind = "mutex" PROVE SemMutex'
    BY <1>10 DEF SemFork
  <2> DEFINE c == <<q, t[2]>>
  <2>1. t \in SemPairs /\ t[2] \in SemThreads
    BY PairParts
  <2>2. c \in SemPairs /\ c \notin semLive /\ c[1] = q
    BY <1>10, <2>1 DEF SemFork, SemPairs
  <2>3. \A s \in semLive : s[1] # q /\ s[1] \in SemProcs
    BY <1>10 DEF SemFork
  <2>4. \A s \in semLive : IsMine(s)' <=> IsMine(s)
    BY <1>10, <2>3 DEF SemFork
  <2>5. ~IsMine(c)' /\ semPc'[c] = "idle" /\ semHeld'[c] = 0
    BY <1>10, <2>2 DEF SemFork
  <2>6. semLive' = semLive \cup {c}
    BY <1>10 DEF SemFork
  <2>7. Owners' = Owners
    BY <1>10, <2>4, <2>5, <2>6 DEF SemFork
  <2>8. \A p \in SemProcs : semCount'[p] >= 0
                           /\ (semCount'[p] > 0 => <<p, semTid'[p]>> \in semLive')
    BY <1>10, <2>6 DEF SemFork
  <2>9. \A s \in semLive' : semHeld'[s] = IF IsMine(s)' THEN semCount'[s[1]] ELSE 0
    BY <1>10, <2>3, <2>4, <2>5, <2>6 DEF SemFork
  <2> QED
    BY <1>10, <2>4, <2>5, <2>6, <2>7, <2>8, <2>9 DEF SemFork
<1> QED
  BY <1>1, <1>2, <1>3, <1>4, <1>5, <1>6, <1>7, <1>8, <1>9, <1>10 DEF SemNext

\* Every step keeps the count of those that are about to post.
LEMMA SemPostsNext ==
  ASSUME SemInv, [SemNext]_semLockVars
  PROVE  SemPosts'
<1> USE PairParts DEF SemInv, SemType, SemGoto
<1>a. /\ IsFiniteSet(Posters) /\ Cardinality(Posters) \in Nat
      /\ Cardinality(SemProcs) \in Nat /\ Cardinality(SemProcs) > 0
      /\ SemLimit \in Nat
  BY PostersFinite, SemAssumption DEF SemLimit
<1>b. ASSUME semLive' = semLive, SemLimit' = SemLimit, semValue' <= semValue, semValue' \in Nat,
             \A s \in semLive : semPc'[s] = "post" <=> semPc[s] = "post"
      PROVE  SemPosts'
  <2>1. Posters' = Posters
    BY <1>b DEF Posters
  <2> QED
    BY <1>a, <1>b, <2>1 DEF SemPosts
<1>1. CASE UNCHANGED semLockVars
  BY <1>1, <1>b DEF semLockVars, SemLimit
<1>2. ASSUME NEW t \in semLive, SemReacquire(t) PROVE SemPosts'
  BY <1>2, <1>b DEF SemReacquire, SemLimit
<1>3. ASSUME NEW t \in semLive, NEW how \in {"wait", "try"}, SemAcquire(t, how)
      PROVE  SemPosts'
  BY <1>3, <1>b DEF SemAcquire, SemLimit
<1>4. ASSUME NEW t \in semLive, SemTake(t) PROVE SemPosts'
  BY <1>4, <1>b DEF SemTake, SemLimit
<1>5. ASSUME NEW t \in semLive, SemGiveUp(t) PROVE SemPosts'
  BY <1>5, <1>b DEF SemGiveUp, SemLimit
<1>6. ASSUME NEW t \in semLive, SemRecord(t) PROVE SemPosts'
  BY <1>6, <1>b DEF SemRecord, SemLimit
<1>7. ASSUME NEW t \in semLive, SemReleaseMutex(t) PROVE SemPosts'
  <2>1. semValue' <= 1 /\ semValue' \in Nat /\ SemLimit' = 1
    BY <1>7 DEF SemReleaseMutex, SemMutex, Owners, SemLimit
  <2>2. Posters' = {}
    BY <1>7 DEF SemReleaseMutex, SemMutex, Posters
  <2>3. Cardinality(Posters') = 0
    BY <2>2, FS_EmptySet
  <2> QED
    BY <1>7, <1>a, <2>1, <2>3 DEF SemReleaseMutex, SemMutex, SemPosts
<1>8. ASSUME NEW t \in semLive, SemReleaseCheck(t) PROVE SemPosts'
  <2>1. t[1] \notin Posters /\ t[1] \in SemProcs
    BY <1>8 DEF SemReleaseCheck, HasGil, Posters
  <2>2. Posters' = Posters \cup {t[1]}
    BY <1>8, <2>1 DEF SemReleaseCheck, Posters
  <2>3. IsFiniteSet(Posters') /\ Posters' \subseteq SemProcs
    <3>1. IsFiniteSet(Posters \cup {t[1]})
      BY <1>a, FS_AddElement
    <3> QED
      BY <2>1, <2>2, <3>1 DEF Posters
  <2>4. Cardinality(Posters') <= Cardinality(SemProcs)
    BY <2>3, FS_Subset, SemAssumption
  <2>5. Cardinality(Posters') \in Nat
    BY <2>3, FS_CardinalityType
  <2>6. semValue' < SemLimit' /\ SemLimit' = SemLimit
    BY <1>8 DEF SemReleaseCheck, SemLimit
  <2>7. semValue' \in Nat
    BY <1>8 DEF SemReleaseCheck
  <2>8. \A r, s \in semLive' :
          r[1] = s[1] /\ semPc'[r] = "post" /\ semPc'[s] = "post" => r = s
    BY <1>8 DEF SemReleaseCheck, HasGil, SemPosts
  <2> QED
    BY <1>a, <2>4, <2>5, <2>6, <2>7, <2>8 DEF SemPosts
<1>9. ASSUME NEW t \in semLive, SemPost(t) PROVE SemPosts'
  <2>1. t[1] \in Posters
    BY <1>9 DEF SemPost, Posters
  <2>2. Posters' = Posters \ {t[1]}
    BY <1>9 DEF SemPost, Posters, SemPosts
  <2>3. Cardinality(Posters') = Cardinality(Posters) - 1
    BY <1>a, <2>1, <2>2, FS_RemoveElement
  <2>4. semValue' = semValue + 1 /\ SemLimit' = SemLimit
    BY <1>9 DEF SemPost, SemLimit
  <2> QED
    BY <1>9, <1>a, <2>3, <2>4 DEF SemPost, SemPosts
<1>10. ASSUME NEW t \in semLive, NEW q \in SemProcs, SemFork(t, q) PROVE SemPosts'
  <2>1. <<q, t[2]>> \in SemPairs \ semLive
    BY <1>10 DEF SemFork, SemPairs
  <2>2. semPc[<<q, t[2]>>] = "idle"
    BY <2>1
  <2>3. Posters' = Posters
    BY <1>10, <2>2 DEF SemFork, Posters
  <2> QED
    BY <1>10, <1>a, <2>2, <2>3 DEF SemFork, SemPosts, SemLimit
<1> QED
  BY <1>1, <1>2, <1>3, <1>4, <1>5, <1>6, <1>7, <1>8, <1>9, <1>10 DEF SemNext

\* One owner of an RLock among all threads of all processes, whatever is forked
\* while it is held, and a bounded overshoot of a semaphore, for any number of
\* processes and threads.
THEOREM SemLockIsSafe == SemSpec => []SemSafe
<1>1. SemInv => SemSafe
  <2> SUFFICES ASSUME SemInv PROVE SemSafe
    OBVIOUS
  <2>1. ASSUME semKind = "mutex" PROVE semValue + Cardinality(Owners) = 1
    <3>1. CASE semValue = 1 /\ Owners = {}
      BY <3>1, FS_EmptySet
    <3>2. CASE semValue = 0 /\ \E t \in semLive : Owners = {t}
      <4>1. PICK t \in semLive : Owners = {t}
        BY <3>2
      <4>2. Cardinality({t}) = 1
        BY FS_Singleton
      <4> QED
        BY <3>2, <4>1, <4>2
    <3> QED
      BY <2>1, <3>1, <3>2 DEF SemInv, SemMutex
  <2>2. ASSUME semKind = "mutex", NEW t \in semLive PROVE IsMine(t) <=> semHeld[t] > 0
    BY <2>2, PairParts DEF SemInv, SemMutex, SemType, IsMine
  <2>3. SemOvershoot
    BY PostersFinite, SemAssumption DEF SemInv, SemPosts, SemType, SemOvershoot, SemLimit
  <2> QED
    BY <2>1, <2>2, <2>3 DEF SemSafe, SemOneOwner, Owners
<1>2. SemInv /\ [SemNext]_semLockVars => SemInv'
  BY SemTypeNext, SemMutexNext, SemPostsNext DEF SemInv
<1> QED
  BY <1>1, <1>2, SemInvInit, PTL DEF SemSpec

(***************************************************************************)
(* SemTracker                                                              *)
(***************************************************************************)

\* Every variable has its type.
StType ==
  /\ stProc \in [StProcs -> {"none", "alive", "dead"}]
  /\ stFd \in [StProcs -> StProcs \cup {NoTracker}]
  /\ stTracker \in [StProcs -> {"none", "running", "ended"}]
  /\ stPipe \in [StProcs -> Seq([cmd : {"REGISTER", "UNREGISTER"}, name : StNames])]
  /\ stCache \in [StProcs -> SUBSET StNames]
  /\ stFile \in [StNames -> {"new", "exists", "unlinked"}]
  /\ stOwner \in [StNames -> StProcs]
  /\ stUsers \in [StNames -> SUBSET StProcs]
  /\ stStep \in [StNames -> {"new", "created", "registered", "unlinked", "finished"}]

\* A process that does not run yet has no pipe; a tracker was started by the
\* process it is named after, and runs as long as a process writes to it.
StPipes ==
  /\ \A p \in StProcs : stProc[p] = "none" => stFd[p] = NoTracker
  /\ \A p \in StProcs : stTracker[p] # "none" => stFd[p] = p
  /\ \A p \in StProcs : stFd[p] # NoTracker => stTracker[stFd[p]] # "none"
  /\ \A p \in StProcs : stFd[p] # NoTracker /\ stProc[p] = "alive"
                          => stTracker[stFd[p]] = "running"

\* The message is in the pipe of t; t knows n, or will.
Told(t, c, n) ==
  \E i \in 1..Len(stPipe[t]) : stPipe[t][i].cmd = c /\ stPipe[t][i].name = n
Known(t, n) == n \in stCache[t] \/ Told(t, "REGISTER", n)

\* The file of a name, for what its owner has done.
StFiles ==
  \A n \in StNames :
    /\ stStep[n] = "new" <=> stFile[n] = "new"
    /\ stStep[n] = "created" => stFile[n] = "exists"
    /\ stStep[n] \in {"unlinked", "finished"} => stFile[n] = "unlinked"
    /\ stStep[n] # "new" => stProc[stOwner[n]] # "none"

\* A name that is not registered has no users and is known to no tracker; all
\* users of one that is write to the owner's tracker, the only one to know it;
\* and that one is told to forget it only after the owner has unlinked it.
StNameOk(n) ==
  LET t == stFd[stOwner[n]] IN
  /\ stStep[n] \in {"new", "created"} => stUsers[n] = {} /\ \A s \in StProcs : ~Known(s, n)
  /\ stStep[n] \notin {"new", "created"} =>
       /\ t # NoTracker
       /\ \A p \in stUsers[n] : stProc[p] # "none" /\ stFd[p] = t
       /\ \A s \in StProcs : Known(s, n) => s = t
  /\ stStep[n] = "registered" => Known(t, n) \/ stFile[n] = "unlinked"
  /\ stStep[n] = "registered" /\ stTracker[t] = "ended" => stFile[n] = "unlinked"
  /\ stStep[n] = "registered" /\ stFile[n] = "unlinked" => stTracker[t] = "ended"
  /\ stStep[n] \in {"new", "created", "registered", "unlinked"} =>
       \A s \in StProcs : ~Told(s, "UNREGISTER", n)

StNamesInv == \A n \in StNames : StNameOk(n)

StInv == StType /\ StPipes /\ StFiles /\ StNamesInv /\ NameKept

\* The invariant holds at the start.
LEMMA StInvInit == StInit => StInv
BY SemTrackerAssumption
DEF StInit, StInv, StType, StPipes, StFiles, StNamesInv, StNameOk, Known, Told, NameKept

\* Sending a message adds it to the pipe that p writes to, and nothing else.
LEMMA SendTold ==
  ASSUME StType, NEW p \in StProcs, NEW n \in StNames,
         NEW cmd \in {"REGISTER", "UNREGISTER"}, Send(p, cmd, n)
  PROVE  /\ stPipe' \in [StProcs -> Seq([cmd : {"REGISTER", "UNREGISTER"}, name : StNames])]
         /\ Fd(p) \in StProcs
         /\ \A s \in StProcs, c \in {"REGISTER", "UNREGISTER"}, m \in StNames :
              Told(s, c, m)' <=> Told(s, c, m) \/ (s = Fd(p) /\ c = cmd /\ m = n)
<1> DEFINE msg == [cmd |-> cmd, name |-> n]
<1>1. Fd(p) \in StProcs
  BY DEF Fd, StType
<1>2. stPipe' = [stPipe EXCEPT ![Fd(p)] = Append(@, msg)]
  BY DEF Send
<1>3. msg \in [cmd : {"REGISTER", "UNREGISTER"}, name : StNames]
  OBVIOUS
<1>4. stPipe' \in [StProcs -> Seq([cmd : {"REGISTER", "UNREGISTER"}, name : StNames])]
  <2> DEFINE Msgs == [cmd : {"REGISTER", "UNREGISTER"}, name : StNames]
  <2>1. stPipe \in [StProcs -> Seq(Msgs)] /\ msg \in Msgs
    BY <1>3 DEF StType
  <2> SUFFICES stPipe' \in [StProcs -> Seq(Msgs)]
    OBVIOUS
  <2> HIDE DEF Msgs, msg
  <2> QED
    BY <1>1, <1>2, <2>1
<1>5. ASSUME NEW s \in StProcs, NEW c \in {"REGISTER", "UNREGISTER"}, NEW m \in StNames
      PROVE  Told(s, c, m)' <=> Told(s, c, m) \/ (s = Fd(p) /\ c = cmd /\ m = n)
  <2>1. CASE s # Fd(p)
    BY <1>1, <1>2, <2>1 DEF Told, StType
  <2>2. CASE s = Fd(p)
    <3>1. stPipe'[s] = Append(stPipe[s], msg)
      BY <1>1, <1>2, <2>2 DEF StType
    <3>2. stPipe[s] \in Seq([cmd : {"REGISTER", "UNREGISTER"}, name : StNames])
      BY DEF StType
    <3>3. /\ Len(stPipe'[s]) = Len(stPipe[s]) + 1 /\ Len(stPipe[s]) \in Nat
          /\ \A i \in 1..Len(stPipe[s]) : stPipe'[s][i] = stPipe[s][i]
          /\ stPipe'[s][Len(stPipe[s]) + 1] = msg
      BY <3>1, <3>2
    <3>4. ASSUME Told(s, c, m)' PROVE Told(s, c, m) \/ (c = cmd /\ m = n)
      <4>1. PICK i \in 1..Len(stPipe'[s]) : stPipe'[s][i].cmd = c /\ stPipe'[s][i].name = m
        BY <3>4, Zenon DEF Told
      <4>2. CASE i \in 1..Len(stPipe[s])
        BY <3>2, <3>3, <4>1, <4>2 DEF Told
      <4>3. CASE i = Len(stPipe[s]) + 1
        BY <3>3, <4>1, <4>3
      <4> QED
        BY <3>3, <4>1, <4>2, <4>3
    <3>5. ASSUME Told(s, c, m) PROVE Told(s, c, m)'
      BY <3>3, <3>5 DEF Told
    <3>6. Told(s, cmd, n)'
      BY <3>3 DEF Told
    <3> QED
      BY <2>2, <3>4, <3>5, <3>6
  <2> QED
    BY <2>1, <2>2
<1> QED
  BY <1>1, <1>4, <1>5

\* Reading takes the first message from the pipe, and nothing else.
LEMMA ReadTold ==
  ASSUME StType, NEW t \in StProcs, StRead(t)
  PROVE  /\ stPipe' \in [StProcs -> Seq([cmd : {"REGISTER", "UNREGISTER"}, name : StNames])]
         /\ Head(stPipe[t]) \in [cmd : {"REGISTER", "UNREGISTER"}, name : StNames]
         /\ Told(t, Head(stPipe[t]).cmd, Head(stPipe[t]).name)
         /\ \A s \in StProcs, c \in {"REGISTER", "UNREGISTER"}, n \in StNames :
              /\ Told(s, c, n)' => Told(s, c, n)
              /\ Told(s, c, n) => Told(s, c, n)'
                                  \/ (s = t /\ Head(stPipe[t]).cmd = c /\ Head(stPipe[t]).name = n)
<1> DEFINE Msgs == [cmd : {"REGISTER", "UNREGISTER"}, name : StNames]
<1>1. stPipe[t] \in Seq(Msgs) /\ stPipe[t] # <<>>
  BY DEF StType, StRead
<1>2. stPipe' = [stPipe EXCEPT ![t] = Tail(@)]
  BY DEF StRead
<1> HIDE DEF Msgs
<1>3. /\ Len(stPipe[t]) \in Nat \ {0}
      /\ Tail(stPipe[t]) \in Seq(Msgs)
      /\ Len(Tail(stPipe[t])) = Len(stPipe[t]) - 1
      /\ \A i \in 1..Len(stPipe[t]) - 1 : Tail(stPipe[t])[i] = stPipe[t][i + 1]
      /\ Head(stPipe[t]) = stPipe[t][1] /\ Head(stPipe[t]) \in Msgs
  BY <1>1
<1>4. stPipe'[t] = Tail(stPipe[t])
  BY <1>2 DEF StType
<1>5. stPipe' \in [StProcs -> Seq(Msgs)]
  BY <1>2, <1>3 DEF StType, Msgs
<1>6. Told(t, Head(stPipe[t]).cmd, Head(stPipe[t]).name)
  BY <1>3 DEF Told
<1>7. ASSUME NEW s \in StProcs, NEW c \in {"REGISTER", "UNREGISTER"}, NEW n \in StNames
      PROVE  /\ Told(s, c, n)' => Told(s, c, n)
             /\ Told(s, c, n) => Told(s, c, n)'
                                 \/ (s = t /\ Head(stPipe[t]).cmd = c /\ Head(stPipe[t]).name = n)
  <2>1. CASE s # t
    BY <1>2, <2>1 DEF Told, StType
  <2>2. CASE s = t
    <3>1. ASSUME Told(t, c, n)' PROVE Told(t, c, n)
      <4>1. PICK i \in 1..Len(stPipe[t]) - 1 : stPipe[t][i + 1].cmd = c /\ stPipe[t][i + 1].name = n
        BY <1>3, <1>4, <3>1 DEF Told
      <4> QED
        BY <1>3, <4>1 DEF Told
    <3>2. ASSUME Told(t, c, n)
          PROVE  Told(t, c, n)' \/ (Head(stPipe[t]).cmd = c /\ Head(stPipe[t]).name = n)
      <4>1. PICK i \in 1..Len(stPipe[t]) : stPipe[t][i].cmd = c /\ stPipe[t][i].name = n
        BY <3>2 DEF Told
      <4>2. CASE i = 1
        BY <1>3, <4>1, <4>2
      <4>3. CASE i # 1
        <5>1. i - 1 \in 1..Len(Tail(stPipe[t])) /\ Tail(stPipe[t])[i - 1] = stPipe[t][i]
          BY <1>3, <4>3
        <5> QED
          BY <1>4, <4>1, <5>1 DEF Told
      <4> QED
        BY <4>2, <4>3
    <3> QED
      BY <2>2, <3>1, <3>2
  <2> QED
    BY <2>1, <2>2
<1> QED
  BY <1>3, <1>5, <1>6, <1>7 DEF Msgs

\* Every step keeps the types.
LEMMA StTypeNext ==
  ASSUME StInv, [StNext]_stVars
  PROVE  StType'
<1> USE SemTrackerAssumption DEF StInv, StType
<1>1. CASE UNCHANGED stVars
  BY <1>1 DEF stVars, stTrackerVars, stNameVars
<1>2. ASSUME NEW n \in StNames, StRegister(n) PROVE StType'
  <2>1. Send(stOwner[n], "REGISTER", n) /\ stOwner[n] \in StProcs
    BY <1>2 DEF StRegister
  <2>2. Fd(stOwner[n]) \in StProcs /\ stPipe' \in [StProcs -> Seq([cmd : {"REGISTER", "UNREGISTER"}, name : StNames])]
    BY <2>1, SendTold
  <2> QED
    BY <1>2, <2>2 DEF StRegister, Send, EnsureRunning
<1>3. ASSUME NEW n \in StNames, StUnlink(n) PROVE StType'
  BY <1>3 DEF StUnlink, stTrackerVars, stNameVars
<1>4. ASSUME NEW n \in StNames, StUnregister(n) PROVE StType'
  <2>1. Send(stOwner[n], "UNREGISTER", n) /\ stOwner[n] \in StProcs
    BY <1>4 DEF StUnregister
  <2>2. Fd(stOwner[n]) \in StProcs /\ stPipe' \in [StProcs -> Seq([cmd : {"REGISTER", "UNREGISTER"}, name : StNames])]
    BY <2>1, SendTold
  <2> QED
    BY <1>4, <2>2 DEF StUnregister, Send, EnsureRunning
<1>5. ASSUME NEW p \in StProcs, StDie(p) PROVE StType'
  BY <1>5 DEF StDie, stTrackerVars, stNameVars
<1>6. ASSUME NEW p \in StProcs, NEW n \in StNames, StCreate(p, n) PROVE StType'
  BY <1>6 DEF StCreate, stTrackerVars, stNameVars
<1>7. ASSUME NEW p \in StProcs, NEW q \in StProcs, StSpawn(p, q) PROVE StType'
  BY <1>7 DEF StSpawn, StartChild, Fd, stTrackerVars, stNameVars
<1>8. ASSUME NEW p \in StProcs, NEW q \in StProcs, StFork(p, q) PROVE StType'
  BY <1>8 DEF StFork, StartChild, stTrackerVars, stNameVars
<1>9. ASSUME NEW t \in StProcs, StRead(t) PROVE StType'
  <2>1. /\ Head(stPipe[t]) \in [cmd : {"REGISTER", "UNREGISTER"}, name : StNames]
        /\ stPipe' \in [StProcs -> Seq([cmd : {"REGISTER", "UNREGISTER"}, name : StNames])]
    BY <1>9, ReadTold
  <2>2. stCache' \in [StProcs -> SUBSET StNames]
    BY <1>9, <2>1 DEF StRead
  <2> QED
    BY <1>9, <2>1, <2>2 DEF StRead, stNameVars
<1>10. ASSUME NEW t \in StProcs, StEof(t) PROVE StType'
  BY <1>10 DEF StEof, Writers, stTrackerVars, stNameVars
<1> QED
  BY <1>1, <1>2, <1>3, <1>4, <1>5, <1>6, <1>7, <1>8, <1>9, <1>10 DEF StNext

\* Every step keeps the trackers running for those that write to them.
LEMMA StPipesNext ==
  ASSUME StInv, [StNext]_stVars
  PROVE  StPipes'
<1> USE SemTrackerAssumption DEF StInv, StType, StPipes
<1>1. CASE UNCHANGED stVars
  BY <1>1 DEF stVars, stTrackerVars, stNameVars
<1>2. ASSUME NEW n \in StNames, StRegister(n) PROVE StPipes'
  BY <1>2 DEF StRegister, Send, EnsureRunning, Fd, stTrackerVars, stNameVars
<1>3. ASSUME NEW n \in StNames, StUnlink(n) PROVE StPipes'
  BY <1>3 DEF StUnlink, stTrackerVars, stNameVars
<1>4. ASSUME NEW n \in StNames, StUnregister(n) PROVE StPipes'
  BY <1>4 DEF StUnregister, Send, EnsureRunning, Fd, stTrackerVars, stNameVars
<1>5. ASSUME NEW p \in StProcs, StDie(p) PROVE StPipes'
  BY <1>5 DEF StDie, stTrackerVars, stNameVars
<1>6. ASSUME NEW p \in StProcs, NEW n \in StNames, StCreate(p, n) PROVE StPipes'
  BY <1>6 DEF StCreate, stTrackerVars, stNameVars
<1>7. ASSUME NEW p \in StProcs, NEW q \in StProcs, StSpawn(p, q) PROVE StPipes'
  <2>1. p # q /\ stFd[q] = NoTracker /\ stTracker[q] = "none"
    BY <1>7 DEF StSpawn, StartChild
  <2>2. Fd(p) \in StProcs
    BY DEF Fd
  <2>3. stFd' = [r \in StProcs |-> IF r \in {p, q} THEN Fd(p) ELSE stFd[r]]
    BY <1>7, <2>1 DEF StSpawn
  <2>4. stProc' = [stProc EXCEPT ![q] = "alive"]
    BY <1>7 DEF StSpawn, StartChild
  <2>5. CASE stFd[p] = NoTracker
    <3>1. Fd(p) = p /\ stTracker' = [stTracker EXCEPT ![p] = "running"] /\ stTracker[p] = "none"
      BY <1>7, <2>5 DEF StSpawn, Fd
    <3>2. \A r \in StProcs : stTracker[r] # "none" => stTracker'[r] = stTracker[r]
      BY <3>1
    <3>3. \A r \in StProcs \ {p, q} : stFd'[r] = stFd[r] /\ stProc'[r] = stProc[r]
      BY <2>3, <2>4
    <3>4. stFd'[p] = p /\ stFd'[q] = p /\ stTracker'[p] = "running" /\ stTracker'[q] = "none"
      BY <2>1, <2>3, <3>1
    <3>5. stProc'[q] = "alive" /\ stProc'[p] = stProc[p]
      BY <2>1, <2>4
    <3>6. ASSUME NEW r \in StProcs
          PROVE  /\ stProc'[r] = "none" => stFd'[r] = NoTracker
                 /\ stTracker'[r] # "none" => stFd'[r] = r
                 /\ stFd'[r] # NoTracker => stTracker'[stFd'[r]] # "none"
                 /\ stFd'[r] # NoTracker /\ stProc'[r] = "alive"
                    => stTracker'[stFd'[r]] = "running"
      <4>1. CASE r = p
        BY <1>7, <3>4, <3>5, <4>1 DEF StSpawn, StartChild
      <4>2. CASE r = q
        BY <3>4, <3>5, <4>2
      <4>3. CASE r \notin {p, q}
        BY <3>1, <3>2, <3>3, <4>3
      <4> QED
        BY <4>1, <4>2, <4>3
    <3> QED
      BY <3>6
  <2>6. CASE stFd[p] # NoTracker
    <3>1. Fd(p) = stFd[p] /\ stTracker' = stTracker /\ stProc[p] = "alive"
      BY <1>7, <2>6 DEF StSpawn, StartChild, Fd
    <3> QED
      BY <2>1, <2>2, <2>3, <2>4, <2>6, <3>1
  <2> QED
    BY <2>5, <2>6
<1>8. ASSUME NEW p \in StProcs, NEW q \in StProcs, StFork(p, q) PROVE StPipes'
  BY <1>8 DEF StFork, StartChild, stTrackerVars, stNameVars
<1>9. ASSUME NEW t \in StProcs, StRead(t) PROVE StPipes'
  BY <1>9 DEF StRead, stTrackerVars, stNameVars
<1>10. ASSUME NEW t \in StProcs, StEof(t) PROVE StPipes'
  BY <1>10 DEF StEof, Writers, stTrackerVars, stNameVars
<1> QED
  BY <1>1, <1>2, <1>3, <1>4, <1>5, <1>6, <1>7, <1>8, <1>9, <1>10 DEF StNext

\* Every step keeps what the files are.
LEMMA StFilesNext ==
  ASSUME StInv, [StNext]_stVars
  PROVE  StFiles'
<1> USE SemTrackerAssumption DEF StInv, StType, StFiles, StPipes
<1>1. CASE UNCHANGED stVars
  BY <1>1 DEF stVars, stTrackerVars, stNameVars
<1>2. ASSUME NEW n \in StNames, StRegister(n) PROVE StFiles'
  BY <1>2 DEF StRegister, Send, EnsureRunning, Fd, stTrackerVars, stNameVars
<1>3. ASSUME NEW n \in StNames, StUnlink(n) PROVE StFiles'
  BY <1>3 DEF StUnlink, stTrackerVars, stNameVars
<1>4. ASSUME NEW n \in StNames, StUnregister(n) PROVE StFiles'
  BY <1>4 DEF StUnregister, Send, EnsureRunning, Fd, stTrackerVars, stNameVars
<1>5. ASSUME NEW p \in StProcs, StDie(p) PROVE StFiles'
  BY <1>5 DEF StDie, stTrackerVars, stNameVars
<1>6. ASSUME NEW p \in StProcs, NEW n \in StNames, StCreate(p, n) PROVE StFiles'
  BY <1>6 DEF StCreate, stTrackerVars, stNameVars
<1>7. ASSUME NEW p \in StProcs, NEW q \in StProcs, StSpawn(p, q) PROVE StFiles'
  BY <1>7 DEF StSpawn, StartChild, Fd, stTrackerVars, stNameVars
<1>8. ASSUME NEW p \in StProcs, NEW q \in StProcs, StFork(p, q) PROVE StFiles'
  BY <1>8 DEF StFork, StartChild, stTrackerVars, stNameVars
<1>9. ASSUME NEW t \in StProcs, StRead(t) PROVE StFiles'
  BY <1>9 DEF StRead, stTrackerVars, stNameVars
<1>10. ASSUME NEW t \in StProcs, StEof(t) PROVE StFiles'
  <2>1. \A n \in stCache[t] : stStep[n] \notin {"new", "created"}
    BY DEF StNamesInv, StNameOk, Known
  <2> QED
    BY <1>10, <2>1 DEF StEof
<1> QED
  BY <1>1, <1>2, <1>3, <1>4, <1>5, <1>6, <1>7, <1>8, <1>9, <1>10 DEF StNext

\* No step unlinks a name that a process may still open.
LEMMA NameKeptNext ==
  ASSUME StInv, [StNext]_stVars
  PROVE  NameKept'
<1> USE SemTrackerAssumption DEF StInv, StType, NameKept, Known
<1>1. CASE UNCHANGED stVars
  BY <1>1 DEF stVars, stTrackerVars, stNameVars
<1>2. ASSUME NEW n \in StNames, StRegister(n) PROVE NameKept'
  BY <1>2 DEF StRegister, Send, StFiles
<1>3. ASSUME NEW n \in StNames, StUnlink(n) PROVE NameKept'
  BY <1>3 DEF StUnlink, stTrackerVars, stNameVars
<1>4. ASSUME NEW n \in StNames, StUnregister(n) PROVE NameKept'
  BY <1>4 DEF StUnregister, Send, EnsureRunning, Fd, stTrackerVars, stNameVars
<1>5. ASSUME NEW p \in StProcs, StDie(p) PROVE NameKept'
  BY <1>5 DEF StDie, stTrackerVars, stNameVars
<1>6. ASSUME NEW p \in StProcs, NEW n \in StNames, StCreate(p, n) PROVE NameKept'
  BY <1>6 DEF StCreate, stTrackerVars, stNameVars
<1>7. ASSUME NEW p \in StProcs, NEW q \in StProcs, StSpawn(p, q) PROVE NameKept'
  BY <1>7 DEF StSpawn, StartChild, Fd, stTrackerVars, stNameVars
<1>8. ASSUME NEW p \in StProcs, NEW q \in StProcs, StFork(p, q) PROVE NameKept'
  BY <1>8 DEF StFork, StartChild, stTrackerVars, stNameVars
<1>9. ASSUME NEW t \in StProcs, StRead(t) PROVE NameKept'
  BY <1>9 DEF StRead, stTrackerVars, stNameVars
<1>10. ASSUME NEW t \in StProcs, StEof(t) PROVE NameKept'
  <2> SUFFICES ASSUME NEW n \in StNames, n \in stCache[t], stStep[n] = "registered",
                      NEW p \in stUsers[n]
               PROVE  stProc[p] = "dead"
    <3>1. \A n \in stCache[t] : stStep[n] \notin {"new", "created"}
      BY DEF StNamesInv, StNameOk
    <3> QED
      BY <1>10, <3>1 DEF StEof
  <2>1. Known(t, n)
    OBVIOUS
  <2>2. t = stFd[stOwner[n]]
    BY <2>1 DEF StNamesInv, StNameOk
  <2>3. stFd[p] = t /\ stProc[p] # "none"
    <3>1. StNameOk(n)
      BY DEF StNamesInv
    <3> QED
      BY <2>2, <3>1 DEF StNameOk
  <2> QED
    BY <1>10, <2>3 DEF StEof, Writers
<1> QED
  BY <1>1, <1>2, <1>3, <1>4, <1>5, <1>6, <1>7, <1>8, <1>9, <1>10 DEF StNext

\* A step keeps what the trackers know of a name when its owner does nothing to
\* it, pipes and trackers in use stay so, nothing is said of the name, and its
\* new users have the pipe of an old one.
LEMMA NamesKept ==
  ASSUME StInv, NEW m \in StNames,
         \A p \in StProcs : stProc[p] # "none" => stProc'[p] # "none",
         \A p \in StProcs : stFd[p] # NoTracker => stFd'[p] = stFd[p],
         \A s \in StProcs : stTracker[s] # "none" => stTracker'[s] = stTracker[s],
         stStep'[m] = stStep[m], stOwner'[m] = stOwner[m], stFile'[m] = stFile[m],
         \A u \in stUsers'[m] :
           u \in stUsers[m] \/ \E v \in stUsers[m] : stFd'[u] = stFd[v] /\ stProc'[u] # "none",
         \A s \in StProcs : /\ Known(s, m)' => Known(s, m)
                            /\ Told(s, "UNREGISTER", m)' => Told(s, "UNREGISTER", m)
                            /\ stStep[m] = "registered" /\ Known(s, m) => Known(s, m)'
  PROVE  StNameOk(m)'
<1>1. stOwner[m] \in StProcs /\ stUsers[m] \in SUBSET StProcs
  BY DEF StInv, StType
<1>2. StNameOk(m)
  BY DEF StInv, StNamesInv
<1>3. CASE stStep[m] \in {"new", "created"}
  BY <1>2, <1>3 DEF StNameOk
<1>4. CASE stStep[m] \notin {"new", "created"}
  <2>a. PICK t \in StProcs : t = stFd[stOwner[m]]
    BY <1>1, <1>2, <1>4 DEF StNameOk, StInv, StType
  <2>1. t # NoTracker /\ stFd'[stOwner'[m]] = t
    BY <1>1, <1>2, <1>4, <2>a DEF StNameOk
  <2>2. stTracker'[t] = stTracker[t]
    BY <1>1, <2>a, <2>1 DEF StInv, StPipes
  <2>3. \A u \in stUsers'[m] : stProc'[u] # "none" /\ stFd'[u] = t
    BY <1>1, <1>2, <1>4, <2>a, <2>1 DEF StNameOk
  <2>4. \A s \in StProcs : Known(s, m)' => s = t
    BY <1>2, <1>4, <2>a DEF StNameOk
  <2>5. /\ stStep[m] = "registered" => Known(t, m) \/ stFile[m] = "unlinked"
        /\ stStep[m] = "registered" => (stTracker[t] = "ended" <=> stFile[m] = "unlinked")
        /\ stStep[m] \in {"new", "created", "registered", "unlinked"} =>
             \A s \in StProcs : ~Told(s, "UNREGISTER", m)
    BY <1>2, <2>a DEF StNameOk
  <2>6. stStep[m] = "registered" /\ Known(t, m) => Known(t, m)'
    OBVIOUS
  <2> QED
    BY <1>4, <2>1, <2>2, <2>3, <2>4, <2>5, <2>6 DEF StNameOk
<1> QED
  BY <1>3, <1>4

\* In particular when there is nothing new for any tracker.
LEMMA QuietNamesKept ==
  ASSUME StInv, NEW m \in StNames,
         \A p \in StProcs : stProc[p] # "none" => stProc'[p] # "none",
         \A p \in StProcs : stFd[p] # NoTracker => stFd'[p] = stFd[p],
         \A s \in StProcs : stTracker[s] # "none" => stTracker'[s] = stTracker[s],
         stStep'[m] = stStep[m], stOwner'[m] = stOwner[m], stFile'[m] = stFile[m],
         \A u \in stUsers'[m] :
           u \in stUsers[m] \/ \E v \in stUsers[m] : stFd'[u] = stFd[v] /\ stProc'[u] # "none",
         stPipe' = stPipe, stCache' = stCache
  PROVE  StNameOk(m)'
<1>1. \A s \in StProcs : /\ Known(s, m)' <=> Known(s, m)
                         /\ Told(s, "UNREGISTER", m)' <=> Told(s, "UNREGISTER", m)
  BY DEF Known, Told
<1> QED
  BY <1>1, NamesKept

\* Every step keeps what the trackers know of the names.
LEMMA StNamesNext ==
  ASSUME StInv, [StNext]_stVars
  PROVE  StNamesInv'
<1> USE SemTrackerAssumption DEF StInv, StNamesInv
<1>1. CASE UNCHANGED stVars
  BY <1>1, QuietNamesKept DEF stVars, stNameVars, stTrackerVars, StType
<1>2. ASSUME NEW n \in StNames, StUnlink(n) PROVE StNamesInv'
  <2> SUFFICES ASSUME NEW m \in StNames PROVE StNameOk(m)'
    OBVIOUS
  <2>1. CASE m # n
    BY <1>2, <2>1, QuietNamesKept DEF StUnlink, stTrackerVars, StType
  <2>2. CASE m = n
    <3>1. StNameOk(n)
      OBVIOUS
    <3> QED
      BY <1>2, <2>2, <3>1 DEF StUnlink, StNameOk, Known, Told, stTrackerVars, StType
  <2> QED
    BY <2>1, <2>2
<1>3. ASSUME NEW p \in StProcs, StDie(p) PROVE StNamesInv'
  BY <1>3, QuietNamesKept DEF StDie, stNameVars, stTrackerVars, StType
<1>4. ASSUME NEW p \in StProcs, NEW n \in StNames, StCreate(p, n) PROVE StNamesInv'
  <2> SUFFICES ASSUME NEW m \in StNames PROVE StNameOk(m)'
    OBVIOUS
  <2>1. CASE m # n
    BY <1>4, <2>1, QuietNamesKept DEF StCreate, stTrackerVars, StType
  <2>2. CASE m = n
    <3>1. StNameOk(n) /\ stStep[n] = "new"
      BY <1>4 DEF StCreate, StFiles, StType
    <3> QED
      BY <1>4, <2>2, <3>1 DEF StCreate, StNameOk, Known, Told, stTrackerVars, StType
  <2> QED
    BY <2>1, <2>2
<1>5. ASSUME NEW n \in StNames, NEW cmd \in {"REGISTER", "UNREGISTER"}, NEW p \in StProcs,
             Send(p, cmd, n), UNCHANGED <<stProc, stCache, stFile, stOwner>>,
             NEW m \in StNames, m # n, stStep'[m] = stStep[m], stUsers'[m] = stUsers[m]
      PROVE  StNameOk(m)'
  <2>1. \A s \in StProcs, c \in {"REGISTER", "UNREGISTER"} : Told(s, c, m)' <=> Told(s, c, m)
    <3>1. \A s \in StProcs, c \in {"REGISTER", "UNREGISTER"}, k \in StNames :
            Told(s, c, k)' <=> Told(s, c, k) \/ (s = Fd(p) /\ c = cmd /\ k = n)
      <4>1. CASE cmd = "REGISTER"
        <5>1. Send(p, "REGISTER", n)
          BY <1>5, <4>1
        <5> QED
          BY <4>1, <5>1, SendTold
      <4>2. CASE cmd = "UNREGISTER"
        <5>1. Send(p, "UNREGISTER", n)
          BY <1>5, <4>2
        <5> QED
          BY <4>2, <5>1, SendTold
      <4> QED
        BY <4>1, <4>2
    <3> QED
      BY <1>5, <3>1
  <2>2. \A s \in StProcs : Known(s, m)' <=> Known(s, m)
    BY <1>5, <2>1 DEF Known, StType
  <2>3. \A r \in StProcs : stFd[r] # NoTracker => stFd'[r] = stFd[r]
    BY <1>5 DEF Send, EnsureRunning, Fd, StType
  <2>4. \A s \in StProcs : stTracker[s] # "none" => stTracker'[s] = stTracker[s]
    BY <1>5 DEF Send, EnsureRunning, StPipes, StType
  <2> QED
    BY <1>5, <2>1, <2>2, <2>3, <2>4, NamesKept
<1>6. ASSUME NEW n \in StNames, StRegister(n) PROVE StNamesInv'
  <2> SUFFICES ASSUME NEW m \in StNames PROVE StNameOk(m)'
    OBVIOUS
  <2>p. PICK p \in StProcs : p = stOwner[n]
    BY DEF StType
  <2>1. CASE m # n
    BY <2>p, <1>5, <1>6, <2>1 DEF StRegister, StType
  <2>2. CASE m = n
    <3>1. StNameOk(n) /\ stStep[n] = "created" /\ Send(p, "REGISTER", n) /\ stFile[n] = "exists"
      BY <2>p, <1>6 DEF StRegister, StFiles, StType
    <3>2. /\ \A s \in StProcs : Told(s, "REGISTER", n)' <=> s = Fd(p)
          /\ \A s \in StProcs : ~Told(s, "UNREGISTER", n)'
          /\ \A s \in StProcs : n \notin stCache'[s]
      BY <2>p, <1>6, <3>1, SendTold DEF StNameOk, Known, StRegister
    <3>3. \A s \in StProcs : Known(s, n)' <=> s = Fd(p)
      BY <2>p, <3>2 DEF Known, StType
    <3>4. Fd(p) # NoTracker /\ Fd(p) \in StProcs
      BY DEF Fd, StType
    <3>5. /\ stOwner'[n] = p /\ stUsers'[n] = {p} /\ stProc'[p] = "alive"
          /\ stStep'[n] = "registered" /\ stFile'[n] = "exists"
      BY <2>p, <1>6, <3>1 DEF StRegister, StType
    <3>6. stFd'[p] = Fd(p)
      BY <2>p, <3>1 DEF Send, EnsureRunning, StType
    <3>7. stTracker'[Fd(p)] = "running"
      <4>1. stTracker[p] \in {"none", "running", "ended"} /\ stProc[p] = "alive"
        BY <2>p, <1>6 DEF StRegister, StType
      <4> QED
        BY <2>p, <3>1, <4>1 DEF Send, EnsureRunning, Fd, StPipes, StType
    <3> QED
      BY <2>p, <2>2, <3>2, <3>3, <3>4, <3>5, <3>6, <3>7 DEF StNameOk, StType
  <2> QED
    BY <2>p, <2>1, <2>2
<1>7. ASSUME NEW n \in StNames, StUnregister(n) PROVE StNamesInv'
  <2> SUFFICES ASSUME NEW m \in StNames PROVE StNameOk(m)'
    OBVIOUS
  <2>p. PICK p \in StProcs : p = stOwner[n]
    BY DEF StType
  <2>1. CASE m # n
    BY <2>p, <1>5, <1>7, <2>1 DEF StUnregister, StType
  <2>2. CASE m = n
    <3>1. StNameOk(n) /\ stStep[n] = "unlinked" /\ Send(p, "UNREGISTER", n)
      BY <2>p, <1>7 DEF StUnregister, StType
    <3>2. \A s \in StProcs : Told(s, "REGISTER", n)' <=> Told(s, "REGISTER", n)
      BY <2>p, <3>1, SendTold
    <3>3. \A s \in StProcs : Known(s, n)' <=> Known(s, n)
      BY <2>p, <1>7, <3>2 DEF Known, StUnregister, StType
    <3>4. stFd' = stFd
      BY <2>p, <3>1 DEF Send, EnsureRunning, Fd, StNameOk, StType
    <3>5. /\ stOwner'[n] = p /\ stUsers'[n] = stUsers[n] /\ stProc' = stProc
          /\ stStep'[n] = "finished"
      BY <2>p, <1>7, <3>1 DEF StUnregister, StType
    <3> QED
      BY <2>p, <2>2, <3>1, <3>3, <3>4, <3>5 DEF StNameOk, StType
  <2> QED
    BY <2>p, <2>1, <2>2
<1>8. ASSUME NEW p \in StProcs, NEW q \in StProcs, StSpawn(p, q) PROVE StNamesInv'
  <2> SUFFICES ASSUME NEW m \in StNames PROVE StNameOk(m)'
    OBVIOUS
  <2>1. p # q /\ stFd[q] = NoTracker
    BY <1>8 DEF StSpawn, StartChild, StPipes, StType
  <2>2. stFd' = [r \in StProcs |-> IF r \in {p, q} THEN Fd(p) ELSE stFd[r]]
    BY <1>8, <2>1 DEF StSpawn, StType
  <2>3. \A s \in StProcs : stTracker[s] # "none" => stTracker'[s] = stTracker[s]
    BY <1>8 DEF StSpawn, StPipes, StType
  <2>4. \A u \in stUsers'[m] : u \in stUsers[m] \/ (u = q /\ p \in stUsers[m])
    BY <1>8 DEF StSpawn, StartChild, StType
  <2>5. p \in stUsers[m] => stFd'[q] = stFd[p] /\ stProc'[q] # "none"
    <3> SUFFICES ASSUME p \in stUsers[m] PROVE stFd'[q] = stFd[p] /\ stProc'[q] # "none"
      OBVIOUS
    <3>1. stFd[p] # NoTracker
      BY DEF StNameOk
    <3>2. stFd'[q] = stFd[p]
      BY <2>2, <3>1 DEF Fd
    <3> QED
      BY <1>8, <3>2 DEF StSpawn, StartChild, StType
  <2>6. \A r \in StProcs : stFd[r] # NoTracker => stFd'[r] = stFd[r]
    BY <2>1, <2>2 DEF Fd, StType
  <2> QED
    BY <1>8, <2>3, <2>4, <2>5, <2>6, QuietNamesKept DEF StSpawn, StartChild, StType
<1>9. ASSUME NEW p \in StProcs, NEW q \in StProcs, StFork(p, q) PROVE StNamesInv'
  <2> SUFFICES ASSUME NEW m \in StNames PROVE StNameOk(m)'
    OBVIOUS
  <2>1. p # q /\ stFd[q] = NoTracker
    BY <1>9 DEF StFork, StartChild, StPipes, StType
  <2>2. \A u \in stUsers'[m] : u \in stUsers[m] \/ (u = q /\ p \in stUsers[m])
    BY <1>9 DEF StFork, StartChild, StType
  <2>3. stFd'[q] = stFd[p] /\ stProc'[q] # "none"
    BY <1>9 DEF StFork, StartChild, StType
  <2> QED
    BY <1>9, <2>1, <2>2, <2>3, QuietNamesKept DEF StFork, StartChild, stTrackerVars,
       StType
<1>10. ASSUME NEW t \in StProcs, StRead(t) PROVE StNamesInv'
  <2> SUFFICES ASSUME NEW m \in StNames PROVE StNameOk(m)'
    OBVIOUS
  <2> DEFINE h == Head(stPipe[t])
  <2>1. /\ h \in [cmd : {"REGISTER", "UNREGISTER"}, name : StNames] /\ Told(t, h.cmd, h.name)
        /\ \A s \in StProcs, c \in {"REGISTER", "UNREGISTER"} :
              /\ Told(s, c, m)' => Told(s, c, m)
              /\ Told(s, c, m) => Told(s, c, m)' \/ (s = t /\ h.cmd = c /\ h.name = m)
    BY <1>10, ReadTold
  <2>2. stCache' = [stCache EXCEPT ![t] = IF h.cmd = "REGISTER" THEN @ \cup {h.name}
                                          ELSE @ \ {h.name}]
    BY <1>10 DEF StRead, StType
  <2> HIDE DEF h
  <2>3. \A s \in StProcs : Known(s, m)' => Known(s, m)
    BY <2>1, <2>2 DEF Known, StType
  <2>4. \A s \in StProcs : stStep[m] = "registered" /\ Known(s, m) => Known(s, m)'
    <3>1. stStep[m] = "registered" => ~(h.cmd = "UNREGISTER" /\ h.name = m)
      BY <2>1 DEF StNameOk, StType
    <3> QED
      BY <2>1, <2>2, <3>1 DEF Known, StType
  <2> QED
    BY <1>10, <2>1, <2>3, <2>4, NamesKept DEF StRead, stNameVars, StType
<1>11. ASSUME NEW t \in StProcs, StEof(t) PROVE StNamesInv'
  <2> SUFFICES ASSUME NEW m \in StNames PROVE StNameOk(m)'
    OBVIOUS
  <2>1. StNameOk(m)
    OBVIOUS
  <2>2. \A s \in StProcs : /\ Known(s, m)' <=> Known(s, m)
                           /\ Told(s, "UNREGISTER", m)' <=> Told(s, "UNREGISTER", m)
    BY <1>11 DEF StEof, Known, Told, StType
  <2>3. /\ stStep' = stStep /\ stFd' = stFd /\ stOwner' = stOwner /\ stUsers' = stUsers
        /\ stProc' = stProc /\ stTracker' = [stTracker EXCEPT ![t] = "ended"]
    BY <1>11 DEF StEof, StType
  <2>4. stFile'[m] = IF m \in stCache[t] THEN "unlinked" ELSE stFile[m]
    BY <1>11 DEF StEof, StType
  <2>5. Known(t, m) <=> m \in stCache[t]
    BY <1>11 DEF StEof, Known, Told, StType
  <2>6. stFd[stOwner[m]] \in StProcs \cup {NoTracker}
    BY DEF StType
  <2>7. CASE stStep[m] = "registered"
    BY <2>1, <2>2, <2>3, <2>4, <2>5, <2>6, <2>7 DEF StNameOk, StType
  <2>8. CASE stStep[m] # "registered"
    BY <2>1, <2>2, <2>3, <2>8 DEF StNameOk, StType
  <2> QED
    BY <2>7, <2>8
<1> QED
  BY <1>1, <1>2, <1>3, <1>4, <1>6, <1>7, <1>8, <1>9, <1>10, <1>11 DEF StNext

\* No name is unlinked while a process may still open it, and the trackers leave
\* none behind but those whose owner died before it could register them: for any
\* number of processes, spawned or forked in any order, trackers and names.
THEOREM NamesAreSafe == StSpec => []NamesSafe
<1>1. StInv => NamesSafe
  <2> SUFFICES ASSUME StInv, \A p \in StProcs : stProc[p] # "alive" /\ stTracker[p] # "running",
                      NEW n \in StNames, stFile[n] = "exists", stStep[n] # "created"
               PROVE  FALSE
    BY DEF StInv, NamesSafe, NothingLeaked
  <2> DEFINE t == stFd[stOwner[n]]
  <2>1. stStep[n] = "registered" /\ StNameOk(n)
    BY DEF StInv, StType, StFiles, StNamesInv
  <2>2. stOwner[n] \in StProcs /\ t \in StProcs /\ t # NoTracker
    BY <2>1 DEF StInv, StType, StNameOk
  <2>3. stTracker[t] = "ended"
    BY <2>2 DEF StInv, StType, StPipes
  <2> QED
    BY <2>1, <2>3 DEF StNameOk
<1>2. StInv /\ [StNext]_stVars => StInv'
  BY StTypeNext, StPipesNext, StFilesNext, NameKeptNext, StNamesNext DEF StInv
<1> QED
  BY <1>1, <1>2, StInvInit, PTL DEF StSpec

=============================================================================
