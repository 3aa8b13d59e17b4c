----------------------------- MODULE ForkServer -----------------------------
(***************************************************************************)
(* The fork server: billiard/forkserver.py and Popen of                    *)
(* billiard/popen_forkserver.py.  A process that wants a child connects to *)
(* the server, sends it the descriptors of two pipes, of the server's      *)
(* "alive" pipe and of the semaphore tracker, writes the process object to *)
(* one pipe and reads the child's pid and, later, its exit code from the   *)
(* other.  The server lives while any process has the write end of the     *)
(* alive pipe; a descriptor on its way through a socket keeps the pipe     *)
(* open.  Threads of the first process poll and join its children.  Any    *)
(* process may be killed, the server too.                                  *)
(***************************************************************************)
EXTENDS Integers, Sequences

CONSTANTS
  FsProcs,     \* processes
  FsMain,      \* the one that starts the server
  FsThreads,   \* its threads
  NoFsProc       \* stands for no process

ASSUME ForkServerAssumption == FsMain \in FsProcs /\ NoFsProc \notin FsProcs

Abnormal == "255"                \* the exit code of a child that wrote none
Codes == {"zero", "negative"}    \* what _bootstrap may return
Packable(code) == code # "negative"    \* as an unsigned number

VARIABLES
  fsServer,    \* "off", "running", "ended" or "killed"
  fsAlive,     \* the processes that hold the write end of the alive pipe
  fsProc,      \* process -> "none", "forked", "loading", "running" or "gone"
  fsParent,    \* process -> the one that asked for it
  fsLaunch,    \* process -> where _launch for it is: "none", "send", "write", "pid",
               \* "started" or "failed"
  fsSock,      \* process -> the connection: "none", "open", "fds", "closed", "reset"
               \* or "done"
  fsStatus,    \* process -> what is in its status pipe
  fsEnd,       \* process -> how it ended: "none", a code or Abnormal
  fsCode,      \* process -> returncode, "none" for None
  fsPc,        \* thread -> "idle", "wait", "read" or "assign"
  fsAt,        \* thread -> the child it polls
  fsGot,       \* thread -> what it read
  fsClosed     \* the children whose sentinel join() has closed

fsChildVars == <<fsProc, fsStatus, fsEnd>>
fsLaunchVars == <<fsParent, fsLaunch, fsSock>>
fsPollVars == <<fsCode, fsPc, fsAt, fsGot, fsClosed>>
fsVars == <<fsServer, fsAlive, fsChildVars, fsLaunchVars, fsPollVars>>

FsInit ==
  /\ fsServer = "off" /\ fsAlive = {}
  /\ fsProc = [p \in FsProcs |-> IF p = FsMain THEN "running" ELSE "none"]
  /\ fsParent = [p \in FsProcs |-> NoFsProc]
  /\ fsLaunch = [p \in FsProcs |-> "none"]
  /\ fsSock = [p \in FsProcs |-> "none"]
  /\ fsStatus = [p \in FsProcs |-> <<>>]
  /\ fsEnd = [p \in FsProcs |-> "none"]
  /\ fsCode = [p \in FsProcs |-> "none"]
  /\ fsPc = [t \in FsThreads |-> "idle"]
  /\ fsAt = [t \in FsThreads |-> NoFsProc]
  /\ fsGot = [t \in FsThreads |-> "none"]
  /\ fsClosed = {}

InFlight == {p \in FsProcs : fsSock[p] = "fds"}
AliveEof == fsAlive = {} /\ InFlight = {}

\* Mutant of StatusOpen: the parent does not close the child's end.
StatusOpenHere(p) ==
  \/ p \in InFlight \/ fsProc[p] \in {"loading", "running"}
  \/ fsLaunch[p] \in {"pid", "started"}

\* The write end of the status pipe of p is open somewhere.
StatusOpen(p) == p \in InFlight \/ fsProc[p] \in {"loading", "running"}

(***************************************************************************)
(* _launch in the process that asks                                        *)
(***************************************************************************)

LaunchGoes(p, from, to) ==
  /\ fsLaunch[p] = from /\ fsProc[fsParent[p]] = "running"
  /\ fsLaunch' = [fsLaunch EXCEPT ![p] = to]

\* ensure_running, which starts the server once, and connect, which is refused if
\* the server is gone.  A child has the alive pipe of its parent.
FsAsk(u, p) ==
  /\ fsProc[u] = "running" /\ fsProc[p] = "none" /\ fsLaunch[p] = "none"
  /\ fsParent' = [fsParent EXCEPT ![p] = u]
  /\ \/ /\ fsServer \in {"off", "running"}
        /\ fsServer' = "running"
        /\ fsAlive' = IF fsServer = "off" THEN {u} ELSE fsAlive
        /\ fsLaunch' = [fsLaunch EXCEPT ![p] = "send"]
        /\ fsSock' = [fsSock EXCEPT ![p] = "open"]
     \/ /\ fsServer \in {"ended", "killed"}
        /\ fsLaunch' = [fsLaunch EXCEPT ![p] = "failed"]
        /\ UNCHANGED <<fsServer, fsAlive, fsSock>>
  /\ UNCHANGED <<fsChildVars, fsPollVars>>

\* Nobody has the other ends: the child is gone, or was never forked and the
\* server is gone.
Deserted(p) == fsProc[p] = "gone" \/ fsSock[p] = "reset"

\* sendfds, and the process object is written.  Either raises if it is too late.
FsSendFds(p) ==
  /\ IF Deserted(p)
     THEN LaunchGoes(p, "send", "failed") /\ fsSock' = [fsSock EXCEPT ![p] = "done"]
     ELSE LaunchGoes(p, "send", "write") /\ fsSock' = [fsSock EXCEPT ![p] = "fds"]
  /\ UNCHANGED <<fsServer, fsAlive, fsParent, fsChildVars, fsPollVars>>

FsWrite(p) ==
  /\ LaunchGoes(p, "write", IF Deserted(p) THEN "failed" ELSE "pid")
  /\ UNCHANGED <<fsServer, fsAlive, fsParent, fsSock, fsChildVars, fsPollVars>>

\* read_unsigned: the pid, or EOFError.
FsReadPid(p) ==
  /\ \/ fsStatus[p] # <<>> /\ LaunchGoes(p, "pid", "started")
        /\ fsStatus' = [fsStatus EXCEPT ![p] = Tail(@)]
     \/ fsStatus[p] = <<>> /\ ~StatusOpen(p) /\ LaunchGoes(p, "pid", "failed")
        /\ UNCHANGED fsStatus
  /\ UNCHANGED <<fsServer, fsAlive, fsParent, fsSock, fsProc, fsEnd, fsPollVars>>

(***************************************************************************)
(* The server and its children                                             *)
(***************************************************************************)

\* main: accept and fork.
FsAccept(p) ==
  /\ fsServer = "running" /\ ~AliveEof
  /\ fsSock[p] # "none" /\ fsProc[p] = "none"
  /\ fsProc' = [fsProc EXCEPT ![p] = "forked"]
  /\ UNCHANGED <<fsServer, fsAlive, fsStatus, fsEnd, fsLaunchVars, fsPollVars>>

\* main: the alive pipe is at its end.
FsStop ==
  /\ fsServer = "running" /\ AliveEof
  /\ fsServer' = "ended"
  /\ UNCHANGED <<fsAlive, fsChildVars, fsLaunchVars, fsPollVars>>

\* The server is killed: the connections that it has not accepted are reset, and
\* the descriptors in them closed.
FsKillServer ==
  /\ fsServer = "running"
  /\ fsServer' = "killed"
  /\ fsSock' = [p \in FsProcs |->
                  IF fsProc[p] = "none" /\ fsSock[p] \in {"open", "fds"} THEN "reset" ELSE fsSock[p]]
  /\ UNCHANGED <<fsAlive, fsParent, fsLaunch, fsChildVars, fsPollVars>>

\* Process p ends as end; what it had open is closed.  A connection of which it
\* was the client is at its end, unless the descriptors are in it already.
Gone(p, end) ==
  /\ fsProc' = [fsProc EXCEPT ![p] = "gone"]
  /\ fsEnd' = [fsEnd EXCEPT ![p] = end]
  /\ fsAlive' = fsAlive \ {p}
  /\ fsSock' = [q \in FsProcs |->
                  IF fsParent[q] = p /\ fsSock[q] = "open" THEN "closed"
                  ELSE IF q = p /\ fsSock[q] = "fds" THEN "done" ELSE fsSock[q]]

\* Mutant of FsReceive: the child closes the alive pipe it was sent.
FsReceiveDrops(p) ==
  /\ fsProc[p] = "forked"
  /\ \/ /\ fsSock[p] = "fds"
        /\ fsSock' = [fsSock EXCEPT ![p] = "done"]
        /\ fsStatus' = [fsStatus EXCEPT ![p] = Append(@, "pid")]
        /\ fsProc' = [fsProc EXCEPT ![p] = "loading"]
        /\ UNCHANGED <<fsEnd, fsAlive>>
     \/ fsSock[p] = "closed" /\ Gone(p, Abnormal) /\ UNCHANGED fsStatus
  /\ UNCHANGED <<fsServer, fsParent, fsLaunch, fsPollVars>>

\* _serve_one: recvfds, then the pid is written; EOFError if the client is gone.
FsReceive(p) ==
  /\ fsProc[p] = "forked"
  /\ \/ /\ fsSock[p] = "fds"
        /\ fsSock' = [fsSock EXCEPT ![p] = "done"]
        /\ fsAlive' = fsAlive \cup {p}
        /\ fsStatus' = [fsStatus EXCEPT ![p] = Append(@, "pid")]
        /\ fsProc' = [fsProc EXCEPT ![p] = "loading"]
        /\ UNCHANGED fsEnd
     \/ fsSock[p] = "closed" /\ Gone(p, Abnormal) /\ UNCHANGED fsStatus
  /\ UNCHANGED <<fsServer, fsParent, fsLaunch, fsPollVars>>

Written(p) == fsLaunch[p] \in {"pid", "started"}

\* spawn._main: the process object is loaded; EOFError if its writer is gone.
FsLoad(p) ==
  /\ fsProc[p] = "loading"
  /\ \/ /\ Written(p) /\ fsProc' = [fsProc EXCEPT ![p] = "running"]
        /\ UNCHANGED <<fsEnd, fsAlive, fsSock>>
     \/ ~Written(p) /\ fsProc[fsParent[p]] = "gone" /\ Gone(p, Abnormal)
  /\ UNCHANGED <<fsServer, fsParent, fsLaunch, fsStatus, fsPollVars>>

\* The child is done and writes its exit code, if that can be packed.
FsFinish(p, code) ==
  /\ fsProc[p] = "running" /\ p # FsMain
  /\ IF Packable(code) THEN Gone(p, code) /\ fsStatus' = [fsStatus EXCEPT ![p] = Append(@, code)]
     ELSE Gone(p, Abnormal) /\ UNCHANGED fsStatus
  /\ UNCHANGED <<fsServer, fsParent, fsLaunch, fsPollVars>>

\* A process is killed.
FsKill(p) ==
  /\ fsProc[p] \in {"forked", "loading", "running"}
  /\ Gone(p, Abnormal)
  /\ UNCHANGED <<fsServer, fsParent, fsLaunch, fsStatus, fsPollVars>>

(***************************************************************************)
(* poll                                                                    *)
(***************************************************************************)

\* wait([sentinel])
SentinelReady(p) == fsStatus[p] # <<>> \/ ~StatusOpen(p)

PollGoes(t, pc) ==
  /\ fsProc[FsMain] = "running"
  /\ fsPc' = [fsPc EXCEPT ![t] = pc]
  /\ UNCHANGED <<fsServer, fsAlive, fsChildVars, fsLaunchVars, fsClosed>>

PollEnds(t) ==
  /\ PollGoes(t, "idle")
  /\ fsAt' = [fsAt EXCEPT ![t] = NoFsProc]
  /\ fsGot' = [fsGot EXCEPT ![t] = "none"]

\* poll() and join() begin; with WNOHANG, and a sentinel that is not ready, the
\* former returns None.
FsPoll(t, p) ==
  /\ fsPc[t] = "idle" /\ fsParent[p] = FsMain /\ fsLaunch[p] = "started" /\ fsCode[p] = "none"
  /\ \/ SentinelReady(p) /\ PollGoes(t, "read")
     \/ PollGoes(t, "wait")
  /\ fsAt' = [fsAt EXCEPT ![t] = p]
  /\ UNCHANGED <<fsCode, fsGot>>

\* join() waits until the sentinel is ready.
FsReady(t) ==
  /\ fsPc[t] = "wait" /\ SentinelReady(fsAt[t])
  /\ PollGoes(t, "read")
  /\ UNCHANGED <<fsCode, fsAt, fsGot>>

\* read_unsigned: the code, or EOFError; OSError if the sentinel has just been
\* closed.  It blocks if another thread has read the code and the child is still
\* there.
FsReadCode(t) ==
  LET p == fsAt[t] IN
  /\ fsProc[FsMain] = "running" /\ fsPc[t] = "read" /\ SentinelReady(p)
  /\ fsPc' = [fsPc EXCEPT ![t] = "assign"]
  /\ fsGot' = [fsGot EXCEPT ![t] = IF fsStatus[p] = <<>> THEN Abnormal ELSE Head(fsStatus[p])]
  /\ fsStatus' = [fsStatus EXCEPT ![p] = IF @ = <<>> THEN @ ELSE Tail(@)]
  /\ UNCHANGED <<fsServer, fsAlive, fsProc, fsEnd, fsLaunchVars, fsCode, fsAt, fsClosed>>

FsAssign(t) ==
  /\ fsPc[t] = "assign"
  /\ fsCode' = [fsCode EXCEPT ![fsAt[t]] = fsGot[t]]
  /\ PollEnds(t)

\* The end of Process.join: the sentinel is closed, whoever else uses it.  (That
\* its number may then stand for another file is left out.)
FsClose(p) ==
  /\ fsProc[FsMain] = "running"
  /\ fsParent[p] = FsMain /\ fsCode[p] # "none" /\ p \notin fsClosed
  /\ fsClosed' = fsClosed \cup {p}
  /\ UNCHANGED <<fsServer, fsAlive, fsChildVars, fsLaunchVars, fsCode, fsPc, fsAt, fsGot>>

\* A thread that comes to use a closed sentinel, or None in its place, gets an
\* exception that poll() does not catch.
FsRaise(t) ==
  /\ fsPc[t] \in {"wait", "read"} /\ fsAt[t] \in fsClosed
  /\ PollEnds(t)
  /\ UNCHANGED fsCode

FsServerStep == FsStop \/ \E p \in FsProcs : FsAccept(p)
FsLaunchStep(p) == FsSendFds(p) \/ FsWrite(p) \/ FsReadPid(p)
FsThreadStep(t) == FsReady(t) \/ FsReadCode(t) \/ FsAssign(t)

FsNext ==
  \/ FsServerStep \/ FsKillServer
  \/ \E p \in FsProcs : FsLaunchStep(p) \/ FsReceive(p) \/ FsLoad(p) \/ FsKill(p) \/ FsClose(p)
  \/ \E u, p \in FsProcs : FsAsk(u, p)
  \/ \E p \in FsProcs, code \in Codes : FsFinish(p, code)
  \/ \E t \in FsThreads : FsThreadStep(t) \/ FsRaise(t) \/ \E p \in FsProcs : FsPoll(t, p)

FsSpec == FsInit /\ [][FsNext]_fsVars

\* As long as the server, a process in start() or a thread in poll() can go on,
\* one of them does; nothing says that a child ever finishes.
FsProgress ==
  \/ FsServerStep
  \/ \E p \in FsProcs : FsLaunchStep(p) \/ FsReceive(p) \/ FsLoad(p)
  \/ \E t \in FsThreads : FsThreadStep(t)
FsFairness == WF_fsVars(FsProgress)

(***************************************************************************)
(* Properties                                                              *)
(***************************************************************************)

\* The server does not leave while a process of the program could still ask for
\* a child, also when the process that started it is long gone.
ServerStays ==
  fsServer = "ended" => \A p \in FsProcs : fsProc[p] \notin {"loading", "running"}

\* A first exit code that is not the child's own is read by one thread only
\* while another has taken the child's code and is about to assign it.
CodeNotInvented ==
  \A t \in FsThreads, p \in FsProcs :
    fsPc[t] = "assign" /\ fsAt[t] = p /\ fsGot[t] # fsEnd[p] /\ fsCode[p] = "none" =>
      \E u \in FsThreads : u # t /\ fsPc[u] = "assign" /\ fsAt[u] = p /\ fsGot[u] = fsEnd[p]

\* The server stays while it may be needed, and no exit code is made up.
ForkServerSafe ==
  /\ ServerStays
  /\ CodeNotInvented

GoneProcs == {p \in FsProcs : fsProc[p] = "gone"}

\* start() returns; or raises, because the child is gone before it told its pid,
\* or will be for want of it, or because the server has been killed.
LaunchReturns ==
  LET lost == {p \in FsProcs : fsProc[p] = "none" /\ fsServer = "killed"}
      waits == {p \in FsProcs :
                  /\ fsParent[p] \notin GoneProcs
                  /\ \/ fsLaunch[p] \in {"send", "write", "pid"}
                     \/ fsLaunch[p] = "failed" /\ p \notin GoneProcs \cup lost}
  IN waits # {} ~> waits = {}

\* A thread that polls or joins a child that has ended comes back.
PollReturns ==
  LET waits == {t \in FsThreads : fsPc[t] # "idle" /\ fsAt[t] \in GoneProcs}
  IN waits # {} ~> waits = {} \/ FsMain \in GoneProcs

\* The server ends when nobody is left, if it was not killed.
ServerEnds ==
  fsServer = "running" /\ (\A p \in FsProcs : fsProc[p] \in {"none", "gone"}) ~>
    fsServer \in {"ended", "killed"} \/ \E p \in FsProcs : fsProc[p] \notin {"none", "gone"}

\* start(), poll() and join() come back whatever process is killed, the server
\* included, and in the end the server leaves.
ForkServerLive ==
  /\ LaunchReturns
  /\ PollReturns
  /\ ServerEnds

=============================================================================
