----------------------------- MODULE SemTracker -----------------------------
(***************************************************************************)
(* The semaphore tracker: billiard/semaphore_tracker.py, and SemLock of    *)
(* billiard/synchronize.py where it creates, registers and unlinks a named *)
(* semaphore (that is, when the start method is not fork: with fork the    *)
(* name is unlinked at once and never registered).  Every process of the   *)
(* program has a copy of the write end of the tracker's pipe; a process    *)
(* forked before there was a tracker starts one of its own.  A tracker is  *)
(* named after the process that started it.  Names are random, and none    *)
(* is drawn twice.                                                         *)
(***************************************************************************)
EXTENDS Integers, Sequences, FiniteSets

CONSTANTS
  StProcs,     \* processes
  StMain,      \* the first of them
  StNames,     \* names of semaphores
  NoTracker    \* stands for None

ASSUME SemTrackerAssumption == StMain \in StProcs /\ NoTracker \notin StProcs

VARIABLES
  stProc,      \* process -> "none", "alive" or "dead"
  stFd,        \* process -> the tracker whose pipe it writes to: _fd
  stTracker,   \* tracker -> "none", "running" or "ended"
  stPipe,      \* tracker -> what is written and not yet read
  stCache,     \* tracker -> the names it knows
  stFile,      \* name -> "new", "exists" or "unlinked"
  stOwner,     \* name -> the process that created it
  stUsers,     \* name -> the processes that have the semaphore
  stStep       \* name -> what its owner has done: "new", "created", "registered",
               \* "unlinked" or "finished"

stTrackerVars == <<stTracker, stPipe, stCache>>
stNameVars == <<stFile, stOwner, stUsers, stStep>>
stVars == <<stProc, stFd, stTrackerVars, stNameVars>>

StInit ==
  /\ stProc = [p \in StProcs |-> IF p = StMain THEN "alive" ELSE "none"]
  /\ stFd = [p \in StProcs |-> NoTracker]
  /\ stTracker = [p \in StProcs |-> "none"]
  /\ stPipe = [p \in StProcs |-> <<>>]
  /\ stCache = [p \in StProcs |-> {}]
  /\ stFile = [n \in StNames |-> "new"]
  /\ stOwner = [n \in StNames |-> StMain]
  /\ stUsers = [n \in StNames |-> {}]
  /\ stStep = [n \in StNames |-> "new"]

\* Mutant of Writers: the tracker is passed the write end as well.
WritersOwn(t) == {p \in StProcs : stProc[p] = "alive" /\ stFd[p] = t} \cup {t}

Writers(t) == {p \in StProcs : stProc[p] = "alive" /\ stFd[p] = t}

\* ensure_running of p: _fd and the trackers after it.
Fd(p) == IF stFd[p] = NoTracker THEN p ELSE stFd[p]
EnsureRunning(p) ==
  /\ stFd' = [stFd EXCEPT ![p] = Fd(p)]
  /\ stTracker' = IF stFd[p] = NoTracker THEN [stTracker EXCEPT ![p] = "running"] ELSE stTracker

Send(p, cmd, n) ==
  /\ EnsureRunning(p)
  /\ stPipe' = [stPipe EXCEPT ![Fd(p)] = Append(@, [cmd |-> cmd, name |-> n])]

(***************************************************************************)
(* The processes                                                           *)
(***************************************************************************)

\* SemLock.__init__ creates the semaphore ...
StCreate(p, n) ==
  /\ stProc[p] = "alive" /\ stFile[n] = "new"
  /\ stFile' = [stFile EXCEPT ![n] = "exists"]
  /\ stOwner' = [stOwner EXCEPT ![n] = p]
  /\ stStep' = [stStep EXCEPT ![n] = "created"]
  /\ UNCHANGED <<stProc, stFd, stTrackerVars, stUsers>>

\* ... and registers its name.
StRegister(n) ==
  LET p == stOwner[n] IN
  /\ stStep[n] = "created" /\ stProc[p] = "alive"
  /\ Send(p, "REGISTER", n)
  /\ stStep' = [stStep EXCEPT ![n] = "registered"]
  /\ stUsers' = [stUsers EXCEPT ![n] = {p}]
  /\ UNCHANGED <<stProc, stCache, stFile, stOwner>>

\* _cleanup, when the object is collected or its process exits: the name is
\* unlinked ...
StUnlink(n) ==
  /\ stStep[n] = "registered" /\ stProc[stOwner[n]] = "alive"
  /\ stFile' = [stFile EXCEPT ![n] = "unlinked"]
  /\ stStep' = [stStep EXCEPT ![n] = "unlinked"]
  /\ UNCHANGED <<stProc, stFd, stTrackerVars, stOwner, stUsers>>

\* ... and unregistered.
StUnregister(n) ==
  LET p == stOwner[n] IN
  /\ stStep[n] = "unlinked" /\ stProc[p] = "alive"
  /\ Send(p, "UNREGISTER", n)
  /\ stStep' = [stStep EXCEPT ![n] = "finished"]
  /\ UNCHANGED <<stProc, stCache, stFile, stOwner, stUsers>>

\* The child q of p has the semaphores of p: by inheritance, or pickled in the
\* arguments (SemLock.__getstate__ lets them be pickled for no one else).
StartChild(p, q) ==
  /\ stProc[p] = "alive" /\ stProc[q] = "none"
  /\ stProc' = [stProc EXCEPT ![q] = "alive"]
  /\ stUsers' = [n \in StNames |-> IF p \in stUsers[n] THEN stUsers[n] \cup {q} ELSE stUsers[n]]
  /\ UNCHANGED <<stFile, stOwner, stStep>>

\* Mutant of StSpawn: the child does not get the tracker's pipe.
StSpawnWithout(p, q) ==
  /\ StartChild(p, q)
  /\ EnsureRunning(p)
  /\ UNCHANGED <<stPipe, stCache>>

\* Popen._launch of popen_spawn_posix.py: the child is passed the pipe.
StSpawn(p, q) ==
  /\ StartChild(p, q)
  /\ stTracker' = IF stFd[p] = NoTracker THEN [stTracker EXCEPT ![p] = "running"] ELSE stTracker
  /\ stFd' = [stFd EXCEPT ![p] = Fd(p), ![q] = Fd(p)]
  /\ UNCHANGED <<stPipe, stCache>>

\* A child started with fork has a copy of what its parent has.
StFork(p, q) ==
  /\ StartChild(p, q)
  /\ stFd' = [stFd EXCEPT ![q] = stFd[p]]
  /\ UNCHANGED stTrackerVars

\* A process ends, perhaps killed, without or in the middle of its clean-up.
StDie(p) ==
  /\ stProc[p] = "alive"
  /\ stProc' = [stProc EXCEPT ![p] = "dead"]
  /\ UNCHANGED <<stFd, stTrackerVars, stNameVars>>

(***************************************************************************)
(* The tracker                                                             *)
(***************************************************************************)

\* main reads a line.  (To remove a name that is not there is reported only.)
StRead(t) ==
  /\ stTracker[t] = "running" /\ stPipe[t] # <<>>
  /\ LET m == Head(stPipe[t]) IN
     stCache' = [stCache EXCEPT ![t] = IF m.cmd = "REGISTER" THEN @ \cup {m.name}
                                       ELSE @ \ {m.name}]
  /\ stPipe' = [stPipe EXCEPT ![t] = Tail(@)]
  /\ UNCHANGED <<stProc, stFd, stTracker, stNameVars>>

\* main meets the end of the pipe and unlinks the names that are left.
StEof(t) ==
  /\ stTracker[t] = "running" /\ stPipe[t] = <<>> /\ Writers(t) = {}
  /\ stFile' = [n \in StNames |-> IF n \in stCache[t] THEN "unlinked" ELSE stFile[n]]
  /\ stTracker' = [stTracker EXCEPT ![t] = "ended"]
  /\ UNCHANGED <<stProc, stFd, stPipe, stCache, stOwner, stUsers, stStep>>

StNext ==
  \/ \E n \in StNames : StRegister(n) \/ StUnlink(n) \/ StUnregister(n)
  \/ \E p \in StProcs : StDie(p) \/ \E n \in StNames : StCreate(p, n)
  \/ \E p, q \in StProcs : StSpawn(p, q) \/ StFork(p, q)
  \/ \E t \in StProcs : StRead(t) \/ StEof(t)

StSpec == StInit /\ [][StNext]_stVars

\* The trackers read on.
StProgress == \E t \in StProcs : StRead(t) \/ StEof(t)
StFairness == WF_stVars(StProgress)

(***************************************************************************)
(* Properties                                                              *)
(***************************************************************************)

\* No name disappears under the processes that may still open it: a name is
\* unlinked by its owner's clean-up, or by the tracker when every process that
\* has the semaphore is dead.
NameKept ==
  \A n \in StNames :
    stFile[n] = "unlinked" /\ stStep[n] \notin {"unlinked", "finished"} =>
      \A p \in stUsers[n] : stProc[p] = "dead"

\* When all processes are gone and the trackers have ended, every semaphore name
\* left in the system is one whose owner died between sem_open and register.
NothingLeaked ==
  (\A p \in StProcs : stProc[p] # "alive" /\ stTracker[p] # "running") =>
    \A n \in StNames : stFile[n] = "exists" => stStep[n] = "created"

\* The tracker removes every name that is left behind, and none too early.
NamesSafe ==
  /\ NameKept
  /\ NothingLeaked

\* The trackers end when the processes that write to them are gone, however
\* those ended.
TrackerEnds ==
  (\A p \in StProcs : stProc[p] # "alive") ~> (\A t \in StProcs : stTracker[t] # "running")

=============================================================================
