------------------------------ MODULE Processes ------------------------------
(***************************************************************************)
(* Process objects and their children: BaseProcess of billiard/process.py  *)
(* over Popen of billiard/popen_fork.py.  The threads of the parent share  *)
(* the objects without a lock: two of them may ask for the exit code of    *)
(* one child, for which waitpid works once.  The sentinel of a child is    *)
(* the read end of a pipe that is readable when no process holds its write *)
(* end; a child forked by another thread at the wrong moment holds it too. *)
(***************************************************************************)
EXTENDS Integers, FiniteSets

CONSTANTS
  PrThreads,   \* threads of the parent
  PrObjects,   \* process objects
  NoObject,    \* stands for no object
  Outcomes     \* how the target may end: "returns", "raises", "exit" or "message"

ASSUME ProcessesAssumption ==
  NoObject \notin PrObjects /\ Outcomes \subseteq {"returns", "raises", "exit", "message"}

VARIABLES
  prLive,      \* object -> its child: "none", "running", "zombie" or "reaped"
  prStatus,    \* object -> how the child ended
  prCode,      \* object -> _popen.returncode, "none" for None
  prSentinel,  \* object -> "none", "open" or "closed": _popen.sentinel
  prClosed,    \* the objects that were closed
  prChildren,  \* _children
  prPipe,      \* the objects whose write end is open in the parent
  prHolds,     \* object -> the children that hold the write end of its pipe
  prPc,        \* thread -> "idle", "fork", "forked", "waitpid", "assign", "select"
               \* or "error"
  prAt,        \* thread -> the object of its call
  prOp         \* thread -> "start", "poll", "join", "wait" for _popen.wait(timeout),
               \* "timed" for join(timeout) or "zero" for join(0)

prChildVars == <<prLive, prStatus>>
prPipeVars == <<prPipe, prHolds>>
prThreadVars == <<prPc, prAt, prOp>>
prVars == <<prChildVars, prCode, prSentinel, prClosed, prChildren, prPipeVars, prThreadVars>>

PrInit ==
  /\ prLive = [p \in PrObjects |-> "none"]
  /\ prStatus = [p \in PrObjects |-> "none"]
  /\ prCode = [p \in PrObjects |-> "none"]
  /\ prSentinel = [p \in PrObjects |-> "none"]
  /\ prClosed = {} /\ prChildren = {} /\ prPipe = {}
  /\ prHolds = [p \in PrObjects |-> {}]
  /\ prPc = [t \in PrThreads |-> "idle"]
  /\ prAt = [t \in PrThreads |-> NoObject]
  /\ prOp = [t \in PrThreads |-> "poll"]

PrCall(t, p, op, pc) ==
  /\ prPc' = [prPc EXCEPT ![t] = pc]
  /\ prAt' = [prAt EXCEPT ![t] = p]
  /\ prOp' = [prOp EXCEPT ![t] = op]

PrReturn(t) == PrCall(t, NoObject, "poll", "idle")

Dead(p) == prLive[p] \in {"zombie", "reaped"}
Started(p) == prSentinel[p] # "none" /\ p \notin prClosed

(***************************************************************************)
(* start                                                                   *)
(***************************************************************************)

\* _cleanup polls all children; then Popen makes the pipe ...
PrStart(t, p) ==
  /\ prPc[t] = "idle" /\ prLive[p] = "none" /\ \A u \in PrThreads : prAt[u] # p
  /\ LET done == {q \in prChildren : prLive[q] = "zombie" \/ prCode[q] # "none"} IN
     /\ prLive' = [q \in PrObjects |-> IF q \in done THEN "reaped" ELSE prLive[q]]
     /\ prCode' = [q \in PrObjects |-> IF q \in done THEN prStatus[q] ELSE prCode[q]]
     /\ prChildren' = prChildren \ done
  /\ prPipe' = prPipe \cup {p}
  /\ PrCall(t, p, "start", "fork")
  /\ UNCHANGED <<prStatus, prSentinel, prClosed, prHolds>>

\* ... forks: the child inherits every write end that the parent has open ...
PrFork(t) ==
  /\ prPc[t] = "fork"
  /\ prLive' = [prLive EXCEPT ![prAt[t]] = "running"]
  /\ prHolds' = [q \in PrObjects |->
                   IF q \in prPipe THEN prHolds[q] \cup {prAt[t]} ELSE prHolds[q]]
  /\ PrCall(t, prAt[t], "start", "forked")
  /\ UNCHANGED <<prStatus, prCode, prSentinel, prClosed, prChildren, prPipe>>

\* ... and closes the parent's; the object joins _children.
PrForked(t) ==
  /\ prPc[t] = "forked"
  /\ prPipe' = prPipe \ {prAt[t]}
  /\ prSentinel' = [prSentinel EXCEPT ![prAt[t]] = "open"]
  /\ prChildren' = prChildren \cup {prAt[t]}
  /\ PrReturn(t)
  /\ UNCHANGED <<prChildVars, prCode, prClosed, prHolds>>

(***************************************************************************)
(* The child ends.                                                         *)
(***************************************************************************)

\* _bootstrap: an exception and SystemExit without argument give 1; SystemExit
\* with a message gives 0.
Bootstrap(outcome) == IF outcome \in {"returns", "message"} THEN "exit0" ELSE "exit1"

PrExit(p, status) ==
  /\ prLive[p] = "running"
  /\ prLive' = [prLive EXCEPT ![p] = "zombie"]
  /\ prStatus' = [prStatus EXCEPT ![p] = status]
  /\ prHolds' = [q \in PrObjects |-> prHolds[q] \ {p}]
  /\ UNCHANGED <<prCode, prSentinel, prClosed, prChildren, prPipe, prThreadVars>>

\* terminate: SIGTERM if there is no returncode yet.
PrTerminate(p) ==
  /\ Started(p) /\ prCode[p] = "none"
  /\ PrExit(p, "SIGTERM")

(***************************************************************************)
(* poll, join and wait(timeout)                                            *)
(***************************************************************************)

\* The calls that look at the sentinel first.
TimedOps == {"wait", "timed", "zero"}

\* poll(WNOHANG), as exitcode and is_alive call it: the child is reaped here if
\* it has ended.  (Otherwise, and if another thread has reaped it, so that
\* waitpid fails with ECHILD, poll returns None and changes nothing.)
PrPoll(t, p) ==
  /\ prPc[t] = "idle" /\ Started(p) /\ prCode[p] = "none" /\ prLive[p] = "zombie"
  /\ prLive' = [prLive EXCEPT ![p] = "reaped"]
  /\ PrCall(t, p, "poll", "assign")
  /\ UNCHANGED <<prStatus, prCode, prSentinel, prClosed, prChildren, prPipeVars>>

\* Popen.close
CloseSentinel(p) == prSentinel' = [prSentinel EXCEPT ![p] = "closed"]

\* A call for which the code is known: join() forgets the child and closes.
Joined(t) ==
  IF prOp[t] \in {"join", "timed", "zero"}
  THEN prChildren' = prChildren \ {prAt[t]} /\ CloseSentinel(prAt[t])
  ELSE UNCHANGED <<prChildren, prSentinel>>

\* join(): the exit code may be known already, whatever the timeout; without one
\* ...
PrJoin(t, p) ==
  /\ prPc[t] = "idle" /\ Started(p)
  /\ IF prCode[p] # "none"
     THEN /\ prChildren' = prChildren \ {p} /\ CloseSentinel(p)
          /\ UNCHANGED prThreadVars
     ELSE /\ PrCall(t, p, "join", "waitpid")
          /\ UNCHANGED <<prChildren, prSentinel>>
  /\ UNCHANGED <<prChildVars, prCode, prClosed, prPipeVars>>

\* Mutant of PrWaitpid: waitpid with WNOHANG.
PrWaitpidNoHang(t) ==
  LET p == prAt[t] IN
  /\ prPc[t] = "waitpid"
  /\ IF prLive[p] = "zombie"
     THEN prLive' = [prLive EXCEPT ![p] = "reaped"] /\ PrCall(t, p, prOp[t], "assign")
     ELSE PrReturn(t) /\ UNCHANGED prLive
  /\ UNCHANGED <<prStatus, prCode, prSentinel, prClosed, prChildren, prPipeVars>>

\* ... waitpid blocks until the child has ended, with timeout 0 it does not block
\* (WNOHANG).  If another thread has reaped the child, or it has not ended, the
\* call returns with nothing.
PrWaitpid(t) ==
  LET p == prAt[t] IN
  /\ prPc[t] = "waitpid" /\ (prOp[t] = "zero" \/ Dead(p))
  /\ IF prLive[p] = "zombie"
     THEN prLive' = [prLive EXCEPT ![p] = "reaped"] /\ PrCall(t, p, prOp[t], "assign")
     ELSE PrReturn(t) /\ UNCHANGED prLive
  /\ UNCHANGED <<prStatus, prCode, prSentinel, prClosed, prChildren, prPipeVars>>

\* Mutant of PrAssign: a signal is reported as an ordinary exit.
PrAssignPlain(t) ==
  LET p == prAt[t] IN
  /\ prPc[t] = "assign"
  /\ prCode' = [prCode EXCEPT ![p] = "exit0"]
  /\ UNCHANGED <<prChildren, prSentinel>>
  /\ PrReturn(t)
  /\ UNCHANGED <<prChildVars, prClosed, prPipeVars>>

\* waitpid has returned the status: returncode; join() forgets the child and
\* closes the sentinel.
PrAssign(t) ==
  LET p == prAt[t] IN
  /\ prPc[t] = "assign"
  /\ prCode' = [prCode EXCEPT ![p] = prStatus[p]]
  /\ Joined(t)
  /\ PrReturn(t)
  /\ UNCHANGED <<prChildVars, prClosed, prPipeVars>>

\* _popen.wait(timeout), as TimeoutHandler calls it, and join(timeout): the
\* sentinel is waited for ...
PrWait(t, p) ==
  /\ prPc[t] = "idle" /\ Started(p) /\ prCode[p] = "none"
  /\ \E op \in TimedOps : PrCall(t, p, op, "select")
  /\ UNCHANGED <<prChildVars, prCode, prSentinel, prClosed, prChildren, prPipeVars>>

Readable(p) == p \notin prPipe /\ prHolds[p] = {}

\* ... until it is readable, in vain, or with a TypeError if another thread has
\* closed it; a call that was in select then returns.  The exit code may be known
\* by now, and waitpid is not asked.
PrSelect(t) ==
  LET p == prAt[t] IN
  /\ prPc[t] = "select"
  /\ \/ /\ prSentinel[p] = "open" /\ Readable(p) /\ prCode[p] = "none"
        /\ PrCall(t, p, prOp[t], "waitpid") /\ UNCHANGED <<prChildren, prSentinel>>
     \/ /\ prSentinel[p] = "open" /\ Readable(p) /\ prCode[p] # "none"
        /\ Joined(t) /\ PrReturn(t)
     \/ /\ prSentinel[p] = "open" /\ ~Readable(p)
        /\ PrReturn(t) /\ UNCHANGED <<prChildren, prSentinel>>
     \/ /\ prSentinel[p] = "closed"
        /\ PrCall(t, p, prOp[t], "error") \/ PrReturn(t)
        /\ UNCHANGED <<prChildren, prSentinel>>
  /\ UNCHANGED <<prChildVars, prCode, prClosed, prPipeVars>>

\* Process.close: only of a child whose end is known.
PrClose(t, p) ==
  /\ prPc[t] = "idle" /\ Started(p) /\ prCode[p] # "none"
  /\ \A u \in PrThreads : prPc[u] = "idle" \/ prAt[u] # p    \* bound: not during another call
  /\ prClosed' = prClosed \cup {p}
  /\ prChildren' = prChildren \ {p} /\ CloseSentinel(p)
  /\ UNCHANGED <<prChildVars, prCode, prPipeVars, prThreadVars>>

PrThreadStep(t) == PrFork(t) \/ PrForked(t) \/ PrWaitpid(t) \/ PrAssign(t) \/ PrSelect(t)

PrNext ==
  \/ \E t \in PrThreads :
       \/ PrThreadStep(t)
       \/ \E p \in PrObjects :
            PrStart(t, p) \/ PrPoll(t, p) \/ PrJoin(t, p) \/ PrWait(t, p) \/ PrClose(t, p)
  \/ \E p \in PrObjects : PrTerminate(p) \/ \E o \in Outcomes : PrExit(p, Bootstrap(o))

PrSpec == PrInit /\ [][PrNext]_prVars

(***************************************************************************)
(* Properties                                                              *)
(***************************************************************************)

\* The exit code is what waitpid reported to whichever thread reaped the child;
\* a thread that came too late never makes one up.
ExitcodeTrue ==
  \A p \in PrObjects : prCode[p] # "none" => prLive[p] = "reaped" /\ prCode[p] = prStatus[p]

\* A child leaves _children, over which active_children and _cleanup go, only
\* when its end is known: none is forgotten as a zombie.
ChildrenKnown ==
  \A p \in PrObjects : Started(p) /\ p \notin prChildren => prCode[p] # "none"

\* The blocking waitpid of a call with a timeout does not block: a readable
\* sentinel means that the child has ended, also when other children are forked
\* between pipe() and close().
SentinelMeansDead ==
  \A t \in PrThreads : prPc[t] = "waitpid" /\ prOp[t] \in TimedOps => Dead(prAt[t])

\* However threads race for the status of a child, its exit code is the true one,
\* no child is forgotten, and a readable sentinel means that it has ended.
ProcessesSafe ==
  /\ ExitcodeTrue
  /\ ChildrenKnown
  /\ SentinelMeansDead

\* A call that has come to waitpid, a join() without timeout or one whose sentinel
\* was readable, returns only when the child has ended, even if another thread
\* takes its status.
JoinMeansDead ==
  [][\A t \in PrThreads :
       prPc[t] \in {"waitpid", "assign"} /\ prPc'[t] = "idle" => Dead(prAt[t])]_prVars

==============================================================================
