---------------------------- MODULE ProcessProofs ----------------------------
(***************************************************************************)
(* Theorems about processes: Process objects and their children, the fork  *)
(* server and managers, for any number of threads, objects and processes.  *)
(***************************************************************************)
EXTENDS Processes, ForkServer, Managers, FiniteSetTheorems, SequenceTheorems, TLAPS

(***************************************************************************)
(* Processes                                                               *)
(***************************************************************************)

\* Every variable has its type; a thread in a call has an object.
PrType ==
  /\ prLive \in [PrObjects -> {"none", "running", "zombie", "reaped"}]
  /\ prStatus \in [PrObjects -> {"none", "exit0", "exit1", "SIGTERM"}]
  /\ prCode \in [PrObjects -> {"none", "exit0", "exit1", "SIGTERM"}]
  /\ prSentinel \in [PrObjects -> {"none", "open", "closed"}]
  /\ prClosed \subseteq PrObjects /\ prChildren \subseteq PrObjects
  /\ prPipe \subseteq PrObjects
  /\ prHolds \in [PrObjects -> SUBSET PrObjects]
  /\ prPc \in [PrThreads -> {"idle", "fork", "forked", "waitpid", "assign", "select", "error"}]
  /\ prAt \in [PrThreads -> PrObjects \cup {NoObject}]
  /\ prOp \in [PrThreads -> {"start", "poll", "join", "wait", "timed", "zero"}]
  /\ \A t \in PrThreads : prPc[t] # "idle" => prAt[t] \in PrObjects

\* A thread in start() is alone with its object, which has no sentinel yet and
\* whose pipe is open in the parent; once forked, the child is there.
PrStarting ==
  /\ \A t \in PrThreads : prPc[t] \in {"fork", "forked"} =>
       /\ \A u \in PrThreads : prAt[u] = prAt[t] => u = t
       /\ prSentinel[prAt[t]] = "none" /\ prAt[t] \in prPipe
       /\ prLive[prAt[t]] = "none" <=> prPc[t] = "fork"
  /\ \A t \in PrThreads : prAt[t] \in PrObjects /\ prSentinel[prAt[t]] = "none" =>
       prPc[t] \in {"fork", "forked"}

\* A child that is there has a known past: it holds its own pipe while it runs,
\* has a status when it has ended, and a sentinel means that it was forked.
PrPast ==
  \A p \in PrObjects :
    /\ prLive[p] = "running" => p \in prHolds[p]
    /\ Dead(p) => prStatus[p] # "none"
    /\ prLive[p] = "none" => prSentinel[p] = "none" /\ p \notin prChildren

\* The thread that reaped a child is about to assign its exit code.
PrReaping == \A t \in PrThreads : prPc[t] = "assign" => prLive[prAt[t]] = "reaped"

PrInv == PrType /\ PrStarting /\ PrPast /\ PrReaping /\ ProcessesSafe

\* The invariant holds at the start ...
LEMMA PrInvInit == PrInit => PrInv
BY ProcessesAssumption
DEF PrInit, PrInv, PrType, PrStarting, PrPast, PrReaping, ProcessesSafe, ExitcodeTrue,
    ChildrenKnown, SentinelMeansDead, Dead, Started

\* ... and is kept by every step.
LEMMA PrInvNext == PrInv /\ [PrNext]_prVars => PrInv'
<1> SUFFICES ASSUME PrInv, [PrNext]_prVars PROVE PrInv'
  OBVIOUS
<1> USE ProcessesAssumption
    DEF PrInv, PrType, PrStarting, PrPast, PrReaping, ProcessesSafe, ExitcodeTrue,
        ChildrenKnown, SentinelMeansDead, TimedOps, Dead, Started, PrCall, PrReturn,
        prChildVars, prPipeVars, prThreadVars
<1>1. CASE UNCHANGED prVars
  BY <1>1 DEF prVars
<1>2. ASSUME NEW t \in PrThreads, NEW p \in PrObjects, PrStart(t, p) PROVE PrInv'
  BY <1>2 DEF PrStart
<1>3. ASSUME NEW t \in PrThreads, PrFork(t) PROVE PrInv'
  BY <1>3 DEF PrFork
<1>4. ASSUME NEW t \in PrThreads, PrForked(t) PROVE PrInv'
  BY <1>4 DEF PrForked
<1>5. ASSUME NEW p \in PrObjects, NEW status \in {"exit0", "exit1", "SIGTERM"},
             PrExit(p, status)
      PROVE  PrInv'
  BY <1>5 DEF PrExit
<1>6. ASSUME NEW t \in PrThreads, NEW p \in PrObjects, PrPoll(t, p) PROVE PrInv'
  BY <1>6 DEF PrPoll
<1>7. ASSUME NEW t \in PrThreads, NEW p \in PrObjects, PrJoin(t, p) PROVE PrInv'
  BY <1>7 DEF PrJoin, CloseSentinel
<1>8. ASSUME NEW t \in PrThreads, PrWaitpid(t) PROVE PrInv'
  BY <1>8 DEF PrWaitpid
<1>9. ASSUME NEW t \in PrThreads, PrAssign(t) PROVE PrInv'
  BY <1>9 DEF PrAssign, Joined, CloseSentinel
<1>10. ASSUME NEW t \in PrThreads, NEW p \in PrObjects, PrWait(t, p) PROVE PrInv'
  BY <1>10 DEF PrWait
<1>11. ASSUME NEW t \in PrThreads, PrSelect(t) PROVE PrInv'
  BY <1>11 DEF PrSelect, Readable, Joined, CloseSentinel
<1>12. ASSUME NEW t \in PrThreads, NEW p \in PrObjects, PrClose(t, p) PROVE PrInv'
  BY <1>12 DEF PrClose, CloseSentinel
<1>13. ASSUME NEW p \in PrObjects, PrTerminate(p) PROVE PrInv'
  BY <1>5, <1>13 DEF PrTerminate
<1>14. ASSUME NEW p \in PrObjects, NEW o \in Outcomes, PrExit(p, Bootstrap(o)) PROVE PrInv'
  BY <1>5, <1>14 DEF Bootstrap
<1> QED
  BY <1>1, <1>2, <1>3, <1>4, <1>6, <1>7, <1>8, <1>9, <1>10, <1>11, <1>12, <1>13, <1>14
  DEF PrNext, PrThreadStep

\* However threads race for the status of a child, its exit code is the true one,
\* no child is forgotten, and a readable sentinel means that it has ended.
THEOREM ProcessesAreSafe == PrSpec => []ProcessesSafe
<1>1. PrInv => ProcessesSafe
  BY DEF PrInv
<1> QED
  BY <1>1, PrInvInit, PrInvNext, PTL DEF PrSpec

\* A call that has come to waitpid, a join() without timeout or one whose sentinel
\* was readable, returns only when the child has ended, even if another thread
\* takes its status.
THEOREM JoinAwaitsDeath == PrSpec => JoinMeansDead
<1> DEFINE Step == \A t \in PrThreads :
                     prPc[t] \in {"waitpid", "assign"} /\ prPc'[t] = "idle" => Dead(prAt[t])
<1>1. PrInv /\ [PrNext]_prVars => [Step]_prVars
  <2> SUFFICES ASSUME PrInv, PrNext, NEW t \in PrThreads,
                      prPc[t] \in {"waitpid", "assign"}, prPc'[t] = "idle"
               PROVE  Dead(prAt[t])
    OBVIOUS
  <2>1. CASE prPc[t] = "assign"
    BY <2>1 DEF PrInv, PrReaping, Dead
  <2>2. CASE prPc[t] = "waitpid"
    <3>1. PrWaitpid(t)
      BY <2>2 DEF PrNext, PrThreadStep, PrStart, PrFork, PrForked, PrExit, PrTerminate,
         PrPoll,
                  PrJoin, PrWaitpid, PrAssign, PrWait, PrSelect, PrClose, PrCall,
                  PrReturn,
                  prThreadVars, PrInv, PrType
    <3> QED
      BY <2>2, <3>1 DEF PrWaitpid, PrInv, ProcessesSafe, SentinelMeansDead, TimedOps
  <2> QED
    BY <2>1, <2>2
<1> QED
  BY <1>1, PrInvInit, PrInvNext, PTL DEF PrSpec, JoinMeansDead

(***************************************************************************)
(* ForkServer                                                              *)
(***************************************************************************)

\* What may be in a status pipe: the pid, the exit code, or both.
PidSent == <<"pid">>
CodeSent == <<"zero">>
BothSent == <<"pid", "zero">>

\* Every variable has its type.
FsType ==
  /\ fsServer \in {"off", "running", "ended", "killed"} /\ fsAlive \subseteq FsProcs
  /\ fsProc \in [FsProcs -> {"none", "forked", "loading", "running", "gone"}]
  /\ fsParent \in [FsProcs -> FsProcs \cup {NoFsProc}]
  /\ fsLaunch \in [FsProcs -> {"none", "send", "write", "pid", "started", "failed"}]
  /\ fsSock \in [FsProcs -> {"none", "open", "fds", "closed", "reset", "done"}]
  /\ fsStatus \in [FsProcs -> {<<>>, PidSent, CodeSent, BothSent}]
  /\ fsEnd \in [FsProcs -> {"none", "zero", Abnormal}]
  /\ fsCode \in [FsProcs -> {"none", "zero", Abnormal}]
  /\ fsPc \in [FsThreads -> {"idle", "wait", "read", "assign"}]
  /\ fsAt \in [FsThreads -> FsProcs \cup {NoFsProc}]
  /\ fsGot \in [FsThreads -> {"none", "zero", Abnormal}]

\* While the server serves, whoever can ask it for a child holds its alive pipe;
\* before, there is nobody but the first process, and after, nobody.
FsAliveHeld ==
  /\ fsServer = "off" => \A p \in FsProcs \ {FsMain} : fsProc[p] = "none"
  /\ fsServer = "off" => \A p \in FsProcs : fsLaunch[p] = "none"
  /\ fsServer = "running" => \A p \in FsProcs : fsProc[p] \in {"loading", "running"} => p \in fsAlive
  /\ fsServer = "ended" => AliveEof /\ ServerStays

\* Where _launch, the connection and the child are, and what is in the status
\* pipe.
FsPipe(p) ==
  /\ fsLaunch[p] # "none" => fsParent[p] \in FsProcs
  /\ fsSock[p] # "none" => fsLaunch[p] # "none"
  /\ fsSock[p] = "fds" => fsProc[p] \in {"none", "forked"} /\ fsLaunch[p] \in {"write", "pid"}
  /\ fsSock[p] = "reset" => fsProc[p] = "none" /\ fsServer = "killed"
  /\ fsProc[p] \in {"none", "forked"} =>
       /\ fsStatus[p] = <<>> /\ fsLaunch[p] # "started"
       /\ fsLaunch[p] \in {"write", "pid"} => fsSock[p] \in {"fds", "reset"}
       /\ fsLaunch[p] = "failed" => fsProc[p] = "none" /\ fsServer \in {"ended", "killed"}
  /\ fsProc[p] \in {"loading", "running"} /\ p # FsMain =>
       \/ fsLaunch[p] \in {"write", "pid"} /\ fsStatus[p] = PidSent
       \/ fsLaunch[p] = "started" /\ fsStatus[p] = <<>>
  /\ fsProc[p] = "running" /\ p # FsMain => fsLaunch[p] # "write"
  /\ fsProc[p] # "gone" <=> fsEnd[p] = "none"
  /\ fsEnd[p] = "zero" => fsLaunch[p] \in {"pid", "started"}
  /\ fsProc[p] = "gone" /\ fsLaunch[p] = "pid" =>
       fsStatus[p] \in IF fsEnd[p] = "zero" THEN {BothSent} ELSE {<<>>, PidSent}
  /\ fsProc[p] = "gone" /\ fsLaunch[p] = "started" =>
       fsStatus[p] \in IF fsEnd[p] = "zero" THEN {<<>>, CodeSent} ELSE {<<>>}
  /\ fsProc[p] = "gone" /\ fsLaunch[p] = "write" => fsStatus[p] \in {<<>>, PidSent}

\* A thread polls a child that was started; what it read is the child's code, or
\* it came after another thread.
FsPolls ==
  /\ fsProc[FsMain] \in {"running", "gone"} /\ fsLaunch[FsMain] = "none"
  /\ \A t \in FsThreads : fsPc[t] # "idle" =>
       fsAt[t] \in FsProcs /\ fsLaunch[fsAt[t]] = "started"
  /\ \A t \in FsThreads : fsPc[t] = "assign" =>
       /\ fsProc[fsAt[t]] = "gone" /\ fsGot[t] \in {fsEnd[fsAt[t]], Abnormal}
       /\ fsGot[t] # fsEnd[fsAt[t]] => fsStatus[fsAt[t]] = <<>>

\* A code that is no longer in the pipe is assigned, or a thread has it.
FsTaken ==
  \A p \in FsProcs :
    fsEnd[p] = "zero" /\ fsLaunch[p] = "started" /\ fsStatus[p] = <<>> /\ fsCode[p] = "none" =>
      \E u \in FsThreads : fsPc[u] = "assign" /\ fsAt[u] = p /\ fsGot[u] = "zero"

FsInv == FsType /\ FsAliveHeld /\ (\A p \in FsProcs : FsPipe(p)) /\ FsPolls /\ FsTaken

\* Appending "zero" to <<"pid">>.
LEMMA AppendZero == Append(<<"pid">>, "zero") = <<"pid", "zero">>
<1> DEFINE s == Append(<<"pid">>, "zero")
           S == {"pid", "zero"}
<1>1. <<"pid">> \in Seq(S) /\ <<"pid", "zero">> \in Seq(S) /\ Len(<<"pid", "zero">>) = 2
  OBVIOUS
<1>2. s \in Seq(S) /\ Len(s) = 2 /\ s[1] = "pid" /\ s[2] = "zero"
  BY <1>1
<1>3. \A i \in 1..2 : s[i] = <<"pid", "zero">>[i]
  BY <1>2
<1> HIDE DEF s, S
<1>4. \A i \in 1..Len(s) : s[i] = <<"pid", "zero">>[i]
  BY <1>2, <1>3
<1>5. s = <<"pid", "zero">>
  BY <1>1, <1>2, <1>4, SeqEqual, Zenon
<1> QED
  BY <1>5 DEF s

\* What the contents of a status pipe are not ...
LEMMA StatusDistinct ==
  /\ PidSent # <<>> /\ CodeSent # <<>> /\ BothSent # <<>>
  /\ PidSent # CodeSent /\ PidSent # BothSent /\ CodeSent # BothSent
BY DEF PidSent, CodeSent, BothSent

\* ... and what appending to it and reading from it give.
LEMMA StatusSteps ==
  /\ \A s : s = <<>> => Append(s, "pid") = PidSent /\ Append(s, "zero") = CodeSent
  /\ \A s : s = PidSent => Append(s, "zero") = BothSent /\ Tail(s) = <<>>
  /\ \A s : s = CodeSent => Tail(s) = <<>> /\ Head(s) = "zero"
  /\ \A s : s = BothSent => Tail(s) = CodeSent
<1>1. \A s : s = <<>> => Append(s, "pid") = PidSent /\ Append(s, "zero") = CodeSent
  BY DEF PidSent, CodeSent
<1>2. \A s : s = PidSent => Append(s, "zero") = BothSent /\ Tail(s) = <<>>
  BY AppendZero DEF PidSent, BothSent
<1>3. \A s : s = CodeSent => Tail(s) = <<>> /\ Head(s) = "zero"
  BY DEF CodeSent
<1>4. \A s : s = BothSent => Tail(s) = CodeSent
  BY DEF BothSent, CodeSent
<1> QED
  BY <1>1, <1>2, <1>3, <1>4

\* The invariant holds at the start.
LEMMA FsInvInit == FsInit => FsInv
BY ForkServerAssumption, StatusDistinct
DEF FsInit, FsInv, FsType, FsAliveHeld, FsPipe, FsPolls, FsTaken, Abnormal

\* It says that no exit code is invented.
LEMMA FsInvSafe == FsInv => ForkServerSafe
BY ForkServerAssumption, StatusDistinct
DEF FsInv, FsType, FsAliveHeld, FsPolls, FsTaken, FsPipe, Abnormal, ForkServerSafe,
    ServerStays,
    CodeNotInvented

\* What the steps do to the status pipe.
ReadPidEffect(p) ==
  /\ fsStatus[p] \in {PidSent, BothSent} /\ fsLaunch[p] = "pid"
  /\ fsLaunch' = [fsLaunch EXCEPT ![p] = "started"]
  /\ fsStatus' = [fsStatus EXCEPT ![p] = IF fsStatus[p] = PidSent THEN <<>> ELSE CodeSent]
  /\ UNCHANGED <<fsServer, fsAlive, fsParent, fsSock, fsProc, fsEnd, fsPollVars>>
ReceiveEffect(p) ==
  /\ fsProc[p] = "forked" /\ fsStatus[p] = <<>>
  /\ fsStatus' = [fsStatus EXCEPT ![p] = PidSent]
  /\ fsSock' = [fsSock EXCEPT ![p] = "done"]
  /\ fsAlive' = fsAlive \cup {p}
  /\ fsProc' = [fsProc EXCEPT ![p] = "loading"]
  /\ UNCHANGED <<fsEnd, fsServer, fsParent, fsLaunch, fsPollVars>>
FinishEffect(p) ==
  /\ fsProc[p] = "running" /\ p # FsMain
  /\ \/ fsLaunch[p] = "pid" /\ fsStatus[p] = PidSent
     \/ fsLaunch[p] = "started" /\ fsStatus[p] = <<>>
  /\ Gone(p, "zero")
  /\ fsStatus' = [fsStatus EXCEPT ![p] = IF fsLaunch[p] = "pid" THEN BothSent ELSE CodeSent]
  /\ UNCHANGED <<fsServer, fsParent, fsLaunch, fsPollVars>>
ReadCodeEffect(t, p) ==
  /\ fsAt[t] = p /\ fsLaunch[p] = "started" /\ fsPc[t] = "read"
  /\ fsProc[p] = "gone" /\ fsStatus[p] \in {<<>>, CodeSent}
  /\ fsStatus[p] = CodeSent => fsEnd[p] = "zero"
  /\ fsStatus' = [fsStatus EXCEPT ![p] = <<>>]
  /\ fsGot' = [fsGot EXCEPT ![t] = IF fsStatus[p] = <<>> THEN Abnormal ELSE "zero"]
  /\ fsPc' = [fsPc EXCEPT ![t] = "assign"]
  /\ UNCHANGED <<fsServer, fsAlive, fsProc, fsEnd, fsLaunchVars, fsCode, fsAt, fsClosed>>

\* Reading the pid.
LEMMA ReadPidStatus ==
  ASSUME FsInv, NEW p \in FsProcs, FsReadPid(p), fsStatus[p] # <<>>
  PROVE  ReadPidEffect(p)
<1>1. fsLaunch[p] = "pid" /\ fsLaunch' = [fsLaunch EXCEPT ![p] = "started"]
  BY DEF FsReadPid, LaunchGoes
<1>2. fsStatus[p] \in {PidSent, BothSent}
  BY <1>1, StatusDistinct, ForkServerAssumption DEF FsInv, FsType, FsPipe, FsPolls
<1>3. fsStatus' = [fsStatus EXCEPT ![p] = Tail(fsStatus[p])]
  BY DEF FsReadPid
<1>4. Tail(fsStatus[p]) = IF fsStatus[p] = PidSent THEN <<>> ELSE CodeSent
  BY <1>2, StatusSteps
<1> QED
  BY <1>1, <1>2, <1>3, <1>4 DEF ReadPidEffect, FsReadPid

\* Sending the pid.
LEMMA ReceiveStatus ==
  ASSUME FsInv, NEW p \in FsProcs, FsReceive(p), fsSock[p] = "fds"
  PROVE  ReceiveEffect(p)
<1>1. fsStatus[p] = <<>>
  BY DEF FsReceive, FsInv, FsPipe
<1>2. fsStatus' = [fsStatus EXCEPT ![p] = Append(fsStatus[p], "pid")]
  BY DEF FsReceive
<1> QED
  BY <1>1, <1>2, StatusSteps DEF ReceiveEffect, FsReceive

\* Sending the code.
LEMMA FinishStatus ==
  ASSUME FsInv, NEW p \in FsProcs, FsFinish(p, "zero")
  PROVE  FinishEffect(p)
<1>1. \/ fsLaunch[p] = "pid" /\ fsStatus[p] = PidSent
      \/ fsLaunch[p] = "started" /\ fsStatus[p] = <<>>
  BY DEF FsFinish, FsInv, FsPipe
<1>2. fsStatus' = [fsStatus EXCEPT ![p] = Append(fsStatus[p], "zero")]
  BY DEF FsFinish, Packable
<1>3. Append(fsStatus[p], "zero") = IF fsLaunch[p] = "pid" THEN BothSent ELSE CodeSent
  BY <1>1, StatusSteps
<1> QED
  BY <1>1, <1>2, <1>3 DEF FinishEffect, FsFinish, Packable

\* Reading the code: the child has ended.
LEMMA ReadCodeStatus ==
  ASSUME FsInv, NEW t \in FsThreads, FsReadCode(t)
  PROVE  \E p \in FsProcs : ReadCodeEffect(t, p)
<1>1. PICK p \in FsProcs : p = fsAt[t] /\ fsLaunch[p] = "started"
  BY DEF FsReadCode, FsInv, FsPolls
<1>2. FsPipe(p) /\ p # FsMain /\ (fsStatus[p] # <<>> \/ ~StatusOpen(p))
  BY <1>1 DEF FsInv, FsPolls, FsReadCode, SentinelReady
<1>3. fsProc[p] = "gone"
  BY <1>1, <1>2, StatusDistinct DEF FsPipe, StatusOpen, FsInv, FsType
<1>4. fsStatus[p] \in {<<>>, CodeSent} /\ (fsStatus[p] = CodeSent => fsEnd[p] = "zero")
  BY <1>1, <1>2, <1>3, StatusDistinct DEF FsPipe
<1>5. fsStatus' = [fsStatus EXCEPT ![p] = IF fsStatus[p] = <<>> THEN fsStatus[p] ELSE Tail(fsStatus[p])]
  BY <1>1 DEF FsReadCode
<1>6. fsGot' = [fsGot EXCEPT ![t] = IF fsStatus[p] = <<>> THEN Abnormal ELSE Head(fsStatus[p])]
  BY <1>1 DEF FsReadCode
<1>7. fsStatus' = [fsStatus EXCEPT ![p] = <<>>]
  BY <1>4, <1>5, StatusSteps
<1>8. fsGot' = [fsGot EXCEPT ![t] = IF fsStatus[p] = <<>> THEN Abnormal ELSE "zero"]
  BY <1>4, <1>6, StatusSteps
<1> QED
  BY <1>1, <1>3, <1>4, <1>7, <1>8 DEF ReadCodeEffect, FsReadCode

\* Every step keeps the types.
LEMMA FsTypeNext ==
  ASSUME FsInv, [FsNext]_fsVars
  PROVE  FsType'
<1> USE ForkServerAssumption, StatusDistinct
    DEF FsInv, FsType, FsPipe, FsPolls, Abnormal, fsChildVars, fsLaunchVars, fsPollVars
<1>1. CASE UNCHANGED fsVars
  BY <1>1 DEF fsVars
<1>2. CASE FsStop
  BY <1>2 DEF FsStop, AliveEof, InFlight
<1>3. ASSUME NEW p \in FsProcs, FsAccept(p) PROVE FsType'
  BY <1>3 DEF FsAccept, AliveEof, InFlight
<1>4. ASSUME NEW p \in FsProcs, FsSendFds(p) PROVE FsType'
  BY <1>4 DEF FsSendFds, LaunchGoes, Deserted
<1>5. ASSUME NEW p \in FsProcs, FsWrite(p) PROVE FsType'
  BY <1>5 DEF FsWrite, LaunchGoes, Deserted
<1>6. ASSUME NEW p \in FsProcs, FsReadPid(p) PROVE FsType'
  <2>1. CASE fsStatus[p] # <<>>
    <3>1. ReadPidEffect(p)
      BY <1>6, <2>1, ReadPidStatus
    <3> QED
      BY <3>1 DEF ReadPidEffect
  <2>2. CASE fsStatus[p] = <<>>
    BY <1>6, <2>2 DEF FsReadPid, LaunchGoes, StatusOpen, InFlight
  <2> QED
    BY <2>1, <2>2
<1>7. ASSUME NEW p \in FsProcs, FsReceive(p) PROVE FsType'
  <2>1. CASE fsSock[p] = "fds"
    <3>1. ReceiveEffect(p)
      BY <1>7, <2>1, ReceiveStatus
    <3> QED
      BY <2>1, <3>1 DEF ReceiveEffect
  <2>2. CASE fsSock[p] # "fds"
    <3>1. /\ fsProc[p] = "forked" /\ Gone(p, Abnormal)
          /\ UNCHANGED <<fsServer, fsParent, fsLaunch, fsStatus, fsPollVars>>
      BY <1>7, <2>2 DEF FsReceive
    <3> QED
      BY <3>1 DEF Gone
  <2> QED
    BY <2>1, <2>2
<1>8. ASSUME NEW p \in FsProcs, FsLoad(p) PROVE FsType'
  BY <1>8 DEF FsLoad, Gone, Written
<1>9. ASSUME NEW p \in FsProcs, FsKill(p) PROVE FsType'
  BY <1>9 DEF FsKill, Gone
<1>10. ASSUME NEW u \in FsProcs, NEW p \in FsProcs, FsAsk(u, p) PROVE FsType'
  BY <1>10 DEF FsAsk
<1>11. ASSUME NEW p \in FsProcs, NEW code \in Codes, FsFinish(p, code) PROVE FsType'
  <2>1. CASE code = "zero"
    <3>1. FinishEffect(p)
      BY <1>11, <2>1, FinishStatus
    <3> QED
      BY <3>1 DEF FinishEffect, Gone
  <2>2. CASE code = "negative"
    <3>1. /\ Gone(p, Abnormal) /\ UNCHANGED <<fsServer, fsParent, fsLaunch, fsStatus, fsPollVars>>
          /\ fsProc[p] = "running" /\ p # FsMain
      BY <1>11, <2>2 DEF FsFinish, Packable
    <3> QED
      BY <3>1 DEF Gone
  <2> QED
    BY <2>1, <2>2 DEF Codes
<1>12. ASSUME NEW t \in FsThreads, FsReady(t) PROVE FsType'
  BY <1>12 DEF FsReady, PollGoes
<1>13. ASSUME NEW t \in FsThreads, FsReadCode(t) PROVE FsType'
  <2>1. PICK p \in FsProcs : ReadCodeEffect(t, p)
    BY <1>13, ReadCodeStatus
  <2> QED
    BY <2>1 DEF ReadCodeEffect
<1>14. ASSUME NEW t \in FsThreads, FsAssign(t) PROVE FsType'
  BY <1>14 DEF FsAssign, PollEnds, PollGoes
<1>15. ASSUME NEW t \in FsThreads, NEW p \in FsProcs, FsPoll(t, p) PROVE FsType'
  BY <1>15 DEF FsPoll, PollGoes
<1>16. CASE FsKillServer
  BY <1>16 DEF FsKillServer, AliveEof, InFlight
<1>17. ASSUME NEW p \in FsProcs, FsClose(p) PROVE FsType'
  BY <1>17 DEF FsClose
<1>18. ASSUME NEW t \in FsThreads, FsRaise(t) PROVE FsType'
  BY <1>18 DEF FsRaise, PollEnds, PollGoes
<1> QED
  BY <1>1, <1>2, <1>3, <1>4, <1>5, <1>6, <1>7, <1>8,
     <1>9, <1>10, <1>11, <1>12, <1>13, <1>14, <1>15, <1>16, <1>17, <1>18
  DEF FsNext, FsServerStep, FsLaunchStep, FsThreadStep

\* Every step keeps the alive pipe in the hands of those that may ask.
LEMMA FsAliveNext ==
  ASSUME FsInv, [FsNext]_fsVars
  PROVE  FsAliveHeld'
<1> USE ForkServerAssumption, StatusDistinct
    DEF FsInv, FsType, FsAliveHeld, FsPipe, FsPolls, AliveEof, InFlight, ServerStays,
        fsChildVars, fsLaunchVars, fsPollVars
<1>1. CASE UNCHANGED fsVars
  BY <1>1 DEF fsVars
<1>2. CASE FsStop
  BY <1>2 DEF FsStop, AliveEof, InFlight
<1>3. ASSUME NEW p \in FsProcs, FsAccept(p) PROVE FsAliveHeld'
  BY <1>3 DEF FsAccept, AliveEof, InFlight
<1>4. ASSUME NEW p \in FsProcs, FsSendFds(p) PROVE FsAliveHeld'
  BY <1>4 DEF FsSendFds, LaunchGoes, Deserted
<1>5. ASSUME NEW p \in FsProcs, FsWrite(p) PROVE FsAliveHeld'
  BY <1>5 DEF FsWrite, LaunchGoes, Deserted
<1>6. ASSUME NEW p \in FsProcs, FsReadPid(p) PROVE FsAliveHeld'
  <2>1. CASE fsStatus[p] # <<>>
    <3>1. ReadPidEffect(p)
      BY <1>6, <2>1, ReadPidStatus
    <3> QED
      BY <3>1 DEF ReadPidEffect
  <2>2. CASE fsStatus[p] = <<>>
    BY <1>6, <2>2 DEF FsReadPid, LaunchGoes, StatusOpen, InFlight
  <2> QED
    BY <2>1, <2>2
<1>7. ASSUME NEW p \in FsProcs, FsReceive(p) PROVE FsAliveHeld'
  <2>1. CASE fsSock[p] = "fds"
    <3>1. ReceiveEffect(p)
      BY <1>7, <2>1, ReceiveStatus
    <3> QED
      BY <2>1, <3>1 DEF ReceiveEffect
  <2>2. CASE fsSock[p] # "fds"
    <3>1. /\ fsProc[p] = "forked" /\ Gone(p, Abnormal)
          /\ UNCHANGED <<fsServer, fsParent, fsLaunch, fsStatus, fsPollVars>>
      BY <1>7, <2>2 DEF FsReceive
    <3> QED
      BY <3>1 DEF Gone
  <2> QED
    BY <2>1, <2>2
<1>8. ASSUME NEW p \in FsProcs, FsLoad(p) PROVE FsAliveHeld'
  BY <1>8 DEF FsLoad, Gone, Written
<1>9. ASSUME NEW p \in FsProcs, FsKill(p) PROVE FsAliveHeld'
  BY <1>9 DEF FsKill, Gone
<1>10. ASSUME NEW u \in FsProcs, NEW p \in FsProcs, FsAsk(u, p) PROVE FsAliveHeld'
  BY <1>10 DEF FsAsk
<1>11. ASSUME NEW p \in FsProcs, NEW code \in Codes, FsFinish(p, code) PROVE FsAliveHeld'
  <2>1. CASE code = "zero"
    <3>1. FinishEffect(p)
      BY <1>11, <2>1, FinishStatus
    <3> QED
      BY <3>1 DEF FinishEffect, Gone
  <2>2. CASE code = "negative"
    <3>1. /\ Gone(p, Abnormal) /\ UNCHANGED <<fsServer, fsParent, fsLaunch, fsStatus, fsPollVars>>
          /\ fsProc[p] = "running" /\ p # FsMain
      BY <1>11, <2>2 DEF FsFinish, Packable
    <3> QED
      BY <3>1 DEF Gone
  <2> QED
    BY <2>1, <2>2 DEF Codes
<1>12. ASSUME NEW t \in FsThreads, FsReady(t) PROVE FsAliveHeld'
  BY <1>12 DEF FsReady, PollGoes
<1>13. ASSUME NEW t \in FsThreads, FsReadCode(t) PROVE FsAliveHeld'
  <2>1. PICK p \in FsProcs : ReadCodeEffect(t, p)
    BY <1>13, ReadCodeStatus
  <2> QED
    BY <2>1 DEF ReadCodeEffect
<1>14. ASSUME NEW t \in FsThreads, FsAssign(t) PROVE FsAliveHeld'
  BY <1>14 DEF FsAssign, PollEnds, PollGoes
<1>15. ASSUME NEW t \in FsThreads, NEW p \in FsProcs, FsPoll(t, p) PROVE FsAliveHeld'
  BY <1>15 DEF FsPoll, PollGoes
<1>16. CASE FsKillServer
  BY <1>16 DEF FsKillServer, AliveEof, InFlight
<1>17. ASSUME NEW p \in FsProcs, FsClose(p) PROVE FsAliveHeld'
  BY <1>17 DEF FsClose
<1>18. ASSUME NEW t \in FsThreads, FsRaise(t) PROVE FsAliveHeld'
  BY <1>18 DEF FsRaise, PollEnds, PollGoes
<1> QED
  BY <1>1, <1>2, <1>3, <1>4, <1>5, <1>6, <1>7, <1>8,
     <1>9, <1>10, <1>11, <1>12, <1>13, <1>14, <1>15, <1>16, <1>17, <1>18
  DEF FsNext, FsServerStep, FsLaunchStep, FsThreadStep

\* Every step keeps what is in the status pipes.
LEMMA FsPipeNext ==
  ASSUME FsInv, [FsNext]_fsVars
  PROVE  (\A r \in FsProcs : FsPipe(r))'
<1> USE ForkServerAssumption, StatusDistinct
    DEF FsInv, FsType, FsAliveHeld, FsPipe, FsPolls, Abnormal, fsChildVars,
        fsLaunchVars, fsPollVars
<1>1. CASE UNCHANGED fsVars
  BY <1>1 DEF fsVars
<1>2. CASE FsStop
  BY <1>2 DEF FsStop, AliveEof, InFlight
<1>3. ASSUME NEW p \in FsProcs, FsAccept(p) PROVE (\A r \in FsProcs : FsPipe(r))'
  BY <1>3 DEF FsAccept, AliveEof, InFlight
<1>4. ASSUME NEW p \in FsProcs, FsSendFds(p) PROVE (\A r \in FsProcs : FsPipe(r))'
  BY <1>4 DEF FsSendFds, LaunchGoes, Deserted
<1>5. ASSUME NEW p \in FsProcs, FsWrite(p) PROVE (\A r \in FsProcs : FsPipe(r))'
  BY <1>5 DEF FsWrite, LaunchGoes, Deserted
<1>6. ASSUME NEW p \in FsProcs, FsReadPid(p) PROVE (\A r \in FsProcs : FsPipe(r))'
  <2>1. CASE fsStatus[p] # <<>>
    <3>1. ReadPidEffect(p)
      BY <1>6, <2>1, ReadPidStatus
    <3> QED
      BY <3>1 DEF ReadPidEffect
  <2>2. CASE fsStatus[p] = <<>>
    BY <1>6, <2>2 DEF FsReadPid, LaunchGoes, StatusOpen, InFlight
  <2> QED
    BY <2>1, <2>2
<1>7. ASSUME NEW p \in FsProcs, FsReceive(p) PROVE (\A r \in FsProcs : FsPipe(r))'
  <2>1. CASE fsSock[p] = "fds"
    <3>1. ReceiveEffect(p)
      BY <1>7, <2>1, ReceiveStatus
    <3> QED
      BY <2>1, <3>1 DEF ReceiveEffect
  <2>2. CASE fsSock[p] # "fds"
    <3>1. /\ fsProc[p] = "forked" /\ Gone(p, Abnormal)
          /\ UNCHANGED <<fsServer, fsParent, fsLaunch, fsStatus, fsPollVars>>
      BY <1>7, <2>2 DEF FsReceive
    <3> QED
      BY <3>1 DEF Gone
  <2> QED
    BY <2>1, <2>2
<1>8. ASSUME NEW p \in FsProcs, FsLoad(p) PROVE (\A r \in FsProcs : FsPipe(r))'
  BY <1>8 DEF FsLoad, Gone, Written
<1>9. ASSUME NEW p \in FsProcs, FsKill(p) PROVE (\A r \in FsProcs : FsPipe(r))'
  BY <1>9 DEF FsKill, Gone
<1>10. ASSUME NEW u \in FsProcs, NEW p \in FsProcs, FsAsk(u, p) PROVE (\A r \in FsProcs : FsPipe(r))'
  BY <1>10 DEF FsAsk
<1>11. ASSUME NEW p \in FsProcs, NEW code \in Codes, FsFinish(p, code) PROVE (\A r \in FsProcs : FsPipe(r))'
  <2>1. CASE code = "zero"
    <3>1. FinishEffect(p)
      BY <1>11, <2>1, FinishStatus
    <3> QED
      BY <3>1 DEF FinishEffect, Gone
  <2>2. CASE code = "negative"
    <3>1. /\ Gone(p, Abnormal) /\ UNCHANGED <<fsServer, fsParent, fsLaunch, fsStatus, fsPollVars>>
          /\ fsProc[p] = "running" /\ p # FsMain
      BY <1>11, <2>2 DEF FsFinish, Packable
    <3> QED
      BY <3>1 DEF Gone
  <2> QED
    BY <2>1, <2>2 DEF Codes
<1>12. ASSUME NEW t \in FsThreads, FsReady(t) PROVE (\A r \in FsProcs : FsPipe(r))'
  BY <1>12 DEF FsReady, PollGoes
<1>13. ASSUME NEW t \in FsThreads, FsReadCode(t) PROVE (\A r \in FsProcs : FsPipe(r))'
  <2>1. PICK p \in FsProcs : ReadCodeEffect(t, p)
    BY <1>13, ReadCodeStatus
  <2> QED
    BY <2>1 DEF ReadCodeEffect
<1>14. ASSUME NEW t \in FsThreads, FsAssign(t) PROVE (\A r \in FsProcs : FsPipe(r))'
  BY <1>14 DEF FsAssign, PollEnds, PollGoes
<1>15. ASSUME NEW t \in FsThreads, NEW p \in FsProcs, FsPoll(t, p) PROVE (\A r \in FsProcs : FsPipe(r))'
  BY <1>15 DEF FsPoll, PollGoes
<1>16. CASE FsKillServer
  BY <1>16 DEF FsKillServer, AliveEof, InFlight
<1>17. ASSUME NEW p \in FsProcs, FsClose(p) PROVE (\A r \in FsProcs : FsPipe(r))'
  BY <1>17 DEF FsClose
<1>18. ASSUME NEW t \in FsThreads, FsRaise(t) PROVE (\A r \in FsProcs : FsPipe(r))'
  BY <1>18 DEF FsRaise, PollEnds, PollGoes
<1> QED
  BY <1>1, <1>2, <1>3, <1>4, <1>5, <1>6, <1>7, <1>8,
     <1>9, <1>10, <1>11, <1>12, <1>13, <1>14, <1>15, <1>16, <1>17, <1>18
  DEF FsNext, FsServerStep, FsLaunchStep, FsThreadStep

\* Every step keeps what the polling threads know.
LEMMA FsPollsNext ==
  ASSUME FsInv, [FsNext]_fsVars
  PROVE  FsPolls'
<1> USE ForkServerAssumption, StatusDistinct
    DEF FsInv, FsType, FsPipe, FsPolls, Abnormal, fsChildVars, fsLaunchVars, fsPollVars
<1>1. CASE UNCHANGED fsVars
  BY <1>1 DEF fsVars
<1>2. CASE FsStop
  BY <1>2 DEF FsStop, AliveEof, InFlight
<1>3. ASSUME NEW p \in FsProcs, FsAccept(p) PROVE FsPolls'
  BY <1>3 DEF FsAccept, AliveEof, InFlight
<1>4. ASSUME NEW p \in FsProcs, FsSendFds(p) PROVE FsPolls'
  BY <1>4 DEF FsSendFds, LaunchGoes, Deserted
<1>5. ASSUME NEW p \in FsProcs, FsWrite(p) PROVE FsPolls'
  BY <1>5 DEF FsWrite, LaunchGoes, Deserted
<1>6. ASSUME NEW p \in FsProcs, FsReadPid(p) PROVE FsPolls'
  <2>1. CASE fsStatus[p] # <<>>
    <3>1. ReadPidEffect(p)
      BY <1>6, <2>1, ReadPidStatus
    <3> QED
      BY <3>1 DEF ReadPidEffect
  <2>2. CASE fsStatus[p] = <<>>
    BY <1>6, <2>2 DEF FsReadPid, LaunchGoes, StatusOpen, InFlight
  <2> QED
    BY <2>1, <2>2
<1>7. ASSUME NEW p \in FsProcs, FsReceive(p) PROVE FsPolls'
  <2>1. CASE fsSock[p] = "fds"
    <3>1. ReceiveEffect(p)
      BY <1>7, <2>1, ReceiveStatus
    <3> QED
      BY <2>1, <3>1 DEF ReceiveEffect
  <2>2. CASE fsSock[p] # "fds"
    <3>1. /\ fsProc[p] = "forked" /\ Gone(p, Abnormal)
          /\ UNCHANGED <<fsServer, fsParent, fsLaunch, fsStatus, fsPollVars>>
      BY <1>7, <2>2 DEF FsReceive
    <3> QED
      BY <3>1 DEF Gone
  <2> QED
    BY <2>1, <2>2
<1>8. ASSUME NEW p \in FsProcs, FsLoad(p) PROVE FsPolls'
  BY <1>8 DEF FsLoad, Gone, Written
<1>9. ASSUME NEW p \in FsProcs, FsKill(p) PROVE FsPolls'
  BY <1>9 DEF FsKill, Gone
<1>10. ASSUME NEW u \in FsProcs, NEW p \in FsProcs, FsAsk(u, p) PROVE FsPolls'
  BY <1>10 DEF FsAsk
<1>11. ASSUME NEW p \in FsProcs, NEW code \in Codes, FsFinish(p, code) PROVE FsPolls'
  <2>1. CASE code = "zero"
    <3>1. FinishEffect(p)
      BY <1>11, <2>1, FinishStatus
    <3> QED
      BY <3>1 DEF FinishEffect, Gone
  <2>2. CASE code = "negative"
    <3>1. /\ Gone(p, Abnormal) /\ UNCHANGED <<fsServer, fsParent, fsLaunch, fsStatus, fsPollVars>>
          /\ fsProc[p] = "running" /\ p # FsMain
      BY <1>11, <2>2 DEF FsFinish, Packable
    <3> QED
      BY <3>1 DEF Gone
  <2> QED
    BY <2>1, <2>2 DEF Codes
<1>12. ASSUME NEW t \in FsThreads, FsReady(t) PROVE FsPolls'
  BY <1>12 DEF FsReady, PollGoes
<1>13. ASSUME NEW t \in FsThreads, FsReadCode(t) PROVE FsPolls'
  <2>1. PICK p \in FsProcs : ReadCodeEffect(t, p)
    BY <1>13, ReadCodeStatus
  <2> QED
    BY <2>1 DEF ReadCodeEffect
<1>14. ASSUME NEW t \in FsThreads, FsAssign(t) PROVE FsPolls'
  BY <1>14 DEF FsAssign, PollEnds, PollGoes
<1>15. ASSUME NEW t \in FsThreads, NEW p \in FsProcs, FsPoll(t, p) PROVE FsPolls'
  BY <1>15 DEF FsPoll, PollGoes
<1>16. CASE FsKillServer
  BY <1>16 DEF FsKillServer, AliveEof, InFlight
<1>17. ASSUME NEW p \in FsProcs, FsClose(p) PROVE FsPolls'
  BY <1>17 DEF FsClose
<1>18. ASSUME NEW t \in FsThreads, FsRaise(t) PROVE FsPolls'
  BY <1>18 DEF FsRaise, PollEnds, PollGoes
<1> QED
  BY <1>1, <1>2, <1>3, <1>4, <1>5, <1>6, <1>7, <1>8,
     <1>9, <1>10, <1>11, <1>12, <1>13, <1>14, <1>15, <1>16, <1>17, <1>18
  DEF FsNext, FsServerStep, FsLaunchStep, FsThreadStep

\* Every step keeps each exit code in a pipe or in a thread.
LEMMA FsTakenNext ==
  ASSUME FsInv, [FsNext]_fsVars
  PROVE  FsTaken'
<1> USE ForkServerAssumption, StatusDistinct
    DEF FsInv, FsType, FsPipe, FsPolls, FsTaken, Abnormal, fsChildVars, fsLaunchVars,
        fsPollVars
<1>1. CASE UNCHANGED fsVars
  BY <1>1 DEF fsVars
<1>2. CASE FsStop
  BY <1>2 DEF FsStop, AliveEof, InFlight
<1>3. ASSUME NEW p \in FsProcs, FsAccept(p) PROVE FsTaken'
  BY <1>3 DEF FsAccept, AliveEof, InFlight
<1>4. ASSUME NEW p \in FsProcs, FsSendFds(p) PROVE FsTaken'
  BY <1>4 DEF FsSendFds, LaunchGoes, Deserted
<1>5. ASSUME NEW p \in FsProcs, FsWrite(p) PROVE FsTaken'
  BY <1>5 DEF FsWrite, LaunchGoes, Deserted
<1>6. ASSUME NEW p \in FsProcs, FsReadPid(p) PROVE FsTaken'
  <2>1. CASE fsStatus[p] # <<>>
    <3>1. ReadPidEffect(p)
      BY <1>6, <2>1, ReadPidStatus
    <3> QED
      BY <3>1 DEF ReadPidEffect
  <2>2. CASE fsStatus[p] = <<>>
    BY <1>6, <2>2 DEF FsReadPid, LaunchGoes, StatusOpen, InFlight
  <2> QED
    BY <2>1, <2>2
<1>7. ASSUME NEW p \in FsProcs, FsReceive(p) PROVE FsTaken'
  <2>1. CASE fsSock[p] = "fds"
    <3>1. ReceiveEffect(p)
      BY <1>7, <2>1, ReceiveStatus
    <3> QED
      BY <2>1, <3>1 DEF ReceiveEffect
  <2>2. CASE fsSock[p] # "fds"
    <3>1. /\ fsProc[p] = "forked" /\ Gone(p, Abnormal)
          /\ UNCHANGED <<fsServer, fsParent, fsLaunch, fsStatus, fsPollVars>>
      BY <1>7, <2>2 DEF FsReceive
    <3> QED
      BY <3>1 DEF Gone
  <2> QED
    BY <2>1, <2>2
<1>8. ASSUME NEW p \in FsProcs, FsLoad(p) PROVE FsTaken'
  BY <1>8 DEF FsLoad, Gone, Written
<1>9. ASSUME NEW p \in FsProcs, FsKill(p) PROVE FsTaken'
  BY <1>9 DEF FsKill, Gone
<1>10. ASSUME NEW u \in FsProcs, NEW p \in FsProcs, FsAsk(u, p) PROVE FsTaken'
  BY <1>10 DEF FsAsk
<1>11. ASSUME NEW p \in FsProcs, NEW code \in Codes, FsFinish(p, code) PROVE FsTaken'
  <2>1. CASE code = "zero"
    <3>1. FinishEffect(p)
      BY <1>11, <2>1, FinishStatus
    <3> QED
      BY <3>1 DEF FinishEffect, Gone
  <2>2. CASE code = "negative"
    <3>1. /\ Gone(p, Abnormal) /\ UNCHANGED <<fsServer, fsParent, fsLaunch, fsStatus, fsPollVars>>
          /\ fsProc[p] = "running" /\ p # FsMain
      BY <1>11, <2>2 DEF FsFinish, Packable
    <3> QED
      BY <3>1 DEF Gone
  <2> QED
    BY <2>1, <2>2 DEF Codes
<1>12. ASSUME NEW t \in FsThreads, FsReady(t) PROVE FsTaken'
  BY <1>12 DEF FsReady, PollGoes
<1>13. ASSUME NEW t \in FsThreads, FsReadCode(t) PROVE FsTaken'
  <2>1. PICK p \in FsProcs : ReadCodeEffect(t, p)
    BY <1>13, ReadCodeStatus
  <2> QED
    BY <2>1 DEF ReadCodeEffect
<1>14. ASSUME NEW t \in FsThreads, FsAssign(t) PROVE FsTaken'
  BY <1>14 DEF FsAssign, PollEnds, PollGoes
<1>15. ASSUME NEW t \in FsThreads, NEW p \in FsProcs, FsPoll(t, p) PROVE FsTaken'
  BY <1>15 DEF FsPoll, PollGoes
<1>16. CASE FsKillServer
  BY <1>16 DEF FsKillServer, AliveEof, InFlight
<1>17. ASSUME NEW p \in FsProcs, FsClose(p) PROVE FsTaken'
  BY <1>17 DEF FsClose
<1>18. ASSUME NEW t \in FsThreads, FsRaise(t) PROVE FsTaken'
  BY <1>18 DEF FsRaise, PollEnds, PollGoes
<1> QED
  BY <1>1, <1>2, <1>3, <1>4, <1>5, <1>6, <1>7, <1>8,
     <1>9, <1>10, <1>11, <1>12, <1>13, <1>14, <1>15, <1>16, <1>17, <1>18
  DEF FsNext, FsServerStep, FsLaunchStep, FsThreadStep

\* The server stays while a process may need it, and no exit code is made up, for
\* any number of processes that ask, of threads that poll, and of kills.
THEOREM ForkServerIsSafe == FsSpec => []ForkServerSafe
<1>1. FsInv /\ [FsNext]_fsVars => FsInv'
  BY FsTypeNext, FsAliveNext, FsPipeNext, FsPollsNext, FsTakenNext DEF FsInv
<1> QED
  BY <1>1, FsInvInit, FsInvSafe, PTL DEF FsSpec

(***************************************************************************)
(* Managers                                                                *)
(***************************************************************************)

MgPhases == {"none", "granted", "made", "live", "bare", "closed", "failed", "orphan", "kept"}

\* Every variable that the proof needs has its type.
MgType ==
  /\ mgState \in {"initial", "started", "shutdown"}
  /\ mgServer \in {"none", "boot", "serving", "hung", "stopping", "dead"}
  /\ mgCount \in [Idents -> Nat] /\ mgObj \in [Idents -> Nat] /\ mgMade \in [Idents -> Nat]
  /\ mgPhase \in [Proxies -> MgPhases]
  /\ mgOf \in [Proxies -> MgProcs]
  /\ mgTo \in [Proxies -> [ident : Idents \cup {CHOOSE i \in Idents : TRUE}, n : Nat]]
  /\ mgLast \in Nat /\ mgWire \subseteq [ident : Idents, n : Nat] /\ mgAlive \subseteq MgProcs
  /\ mgIdset \in [MgProcs -> SUBSET Idents] /\ mgConn \subseteq MgProcs
  /\ mgCalling \in [MgProcs -> Proxies \cup {0}]

\* Proxies are used in order, and one in use is for an ident.
MgFresh ==
  \A x \in Proxies : /\ x > mgLast => mgPhase[x] = "none"
                     /\ mgPhase[x] # "none" => mgTo[x].ident \in Idents

\* The references of the two kinds: those the server gave away, and the proxies'.
Granted(i) ==
  {x \in Proxies : mgTo[x].ident = i /\ mgPhase[x] \in {"granted", "made", "orphan"}}
Held(i) == {x \in Proxies : mgTo[x].ident = i /\ mgPhase[x] \in {"made", "live", "kept"}}

\* Before the server serves there is nothing.
MgBefore ==
  mgServer \in {"none", "boot"} =>
    /\ \A x \in Proxies : mgPhase[x] = "none"
    /\ \A i \in Idents : mgCount[i] = 0 /\ mgObj[i] = 0
    /\ mgWire = {}

\* A proxy that waits for an answer is live; the ids of live proxies are in
\* _idset, unless another proxy to the same object was closed.
MgCalls ==
  /\ \A q \in MgProcs : mgCalling[q] # 0 =>
       mgPhase[mgCalling[q]] = "live" /\ mgOf[mgCalling[q]] = q
  /\ \A x \in Proxies : mgPhase[x] \in {"made", "live"} =>
       \/ mgTo[x].ident \in mgIdset[mgOf[x]]
       \/ \E y \in Proxies : /\ mgPhase[y] \in {"closed", "kept"} /\ mgOf[y] = mgOf[x]
                             /\ mgTo[y].ident = mgTo[x].ident

MgInv == MgType /\ MgFresh /\ MgBefore /\ MgCalls /\ ManagersSafe

\* There are finitely many proxies, so their sets can be counted.
LEMMA ProxiesFinite ==
  ASSUME NEW S, S \subseteq Proxies
  PROVE  IsFiniteSet(S) /\ Cardinality(S) \in Nat
<1>1. IsFiniteSet(Proxies)
  BY FS_Interval, ManagersAssumption DEF Proxies
<1> QED
  BY <1>1, FS_Subset, FS_CardinalityType

\* The references are the two sets.
LEMMA ReferencesAre ==
  \A i \in Idents : /\ References(i) = Cardinality(Granted(i)) + Cardinality(Held(i))
                    /\ Granted(i) \subseteq Proxies /\ Held(i) \subseteq Proxies
BY DEF References, Granted, Held

\* The invariant holds at the start.
LEMMA MgInvInit == MgInit => MgInv
<1> SUFFICES ASSUME MgInit PROVE MgInv
  OBVIOUS
<1>1. MgType
  BY ManagersAssumption DEF MgInit, MgType, MgPhases, Proxies
<1> QED
  BY <1>1, ManagersAssumption
  DEF MgInit, MgInv, MgFresh, MgBefore, MgCalls, ManagersSafe, CountsExact, ReferentKept,
      CallKeepsConnection, Serving

\* What a proxy in use stands for.
LEMMA MgTargets ==
  ASSUME MgInv, NEW x \in Proxies
  PROVE  /\ mgOf[x] \in MgProcs /\ mgTo[x].n \in Nat
         /\ mgPhase[x] # "none" => mgTo[x] \in [ident : Idents, n : Nat] /\ mgTo[x].ident \in Idents
<1>1. mgTo[x] \in [ident : Idents \cup {CHOOSE i \in Idents : TRUE}, n : Nat] /\ mgOf[x] \in MgProcs
  BY DEF MgInv, MgType
<1>2. mgPhase[x] # "none" => mgTo[x].ident \in Idents
  BY DEF MgInv, MgFresh
<1> QED
  BY <1>1, <1>2

\* Proxy x, for ident i in process q, goes from one phase to another.
Becomes(x, i, q, k, old, new) ==
  /\ mgPhase[x] = old
  /\ IF old = "none" THEN x = mgLast + 1 ELSE mgTo[x].ident = i /\ mgOf[x] = q
  /\ mgPhase' = [mgPhase EXCEPT ![x] = new]
  /\ mgOf' = [mgOf EXCEPT ![x] = q]
  /\ mgTo' = [mgTo EXCEPT ![x] = [ident |-> i, n |-> k]]
  /\ mgLast' = IF old = "none" THEN x ELSE mgLast

\* It takes a reference, or does not.
Takes(i, q) ==
  /\ Serving /\ mgObj[i] # 0 /\ Incref(i)
  /\ mgIdset' = [mgIdset EXCEPT ![q] = @ \cup {i}] /\ mgConn' = mgConn
NoRef == UNCHANGED <<mgServerVars, mgIdset, mgConn>>

\* All that happens to a proxy.
ProxyStep(x, i, q, k) ==
  /\ mgServer \notin {"none", "boot"} /\ UNCHANGED <<mgLifeVars, mgCalling>>
  /\ \/ Becomes(x, i, q, k, "granted", "made") /\ k = mgTo[x].n /\ Takes(i, q)
     \/ /\ Becomes(x, i, q, k, "made", "live") /\ k = mgTo[x].n
        /\ Serving /\ Decref(i) /\ UNCHANGED <<mgIdset, mgConn>>
     \/ Becomes(x, i, q, k, "bare", "live") /\ k = mgObj[i] /\ Takes(i, q)
     \/ Becomes(x, i, q, k, "granted", "failed") /\ ~(Serving /\ mgObj[i] # 0) /\ NoRef
     \/ Becomes(x, i, q, k, "made", "failed") /\ ~Serving /\ NoRef
     \/ Becomes(x, i, q, k, "bare", "failed") /\ NoRef
     \/ /\ Becomes(x, i, q, k, "live", "closed") \/ Becomes(x, i, q, k, "live", "kept")
        /\ k = mgTo[x].n /\ mgCalling[q] # x
        /\ mgIdset' = [mgIdset EXCEPT ![q] = @ \ {i}]
        /\ mgConn' = IF mgIdset[q] \ {i} = {} THEN mgConn \ {q} ELSE mgConn
        /\ IF Serving /\ mgPhase'[x] = "closed" THEN Decref(i) ELSE UNCHANGED mgServerVars
     \/ /\ Becomes(x, i, q, k, "none", "granted") \/ Becomes(x, i, q, k, "none", "orphan")
        /\ k = Created(i) /\ Serving /\ Create(i) /\ UNCHANGED <<mgIdset, mgConn>>
     \/ Becomes(x, i, q, k, "none", "live") /\ k = mgObj[i] /\ Takes(i, q)
     \/ Becomes(x, i, q, k, "none", "failed") /\ NoRef
     \/ Becomes(x, i, q, k, "none", "bare") /\ NoRef

\* An update of a proxy's phase alone.
LEMMA PhaseBecomes ==
  ASSUME MgInv, NEW x \in Proxies, NEW new, mgPhase[x] # "none", Phase(x, new)
  PROVE  Becomes(x, mgTo[x].ident, mgOf[x], mgTo[x].n, mgPhase[x], new)
<1>1. mgTo[x] \in [ident : Idents, n : Nat]
  BY MgTargets
<1>2. mgTo' = mgTo /\ mgOf' = mgOf
  BY DEF Phase
<1>3. mgTo \in [Proxies -> [ident : Idents \cup {CHOOSE i \in Idents : TRUE}, n : Nat]]
      /\ mgOf \in [Proxies -> MgProcs]
  BY DEF MgInv, MgType
<1>4. [ident |-> mgTo[x].ident, n |-> mgTo[x].n] = mgTo[x]
  BY <1>1
<1>5. mgTo' = [mgTo EXCEPT ![x] = [ident |-> mgTo[x].ident, n |-> mgTo[x].n]]
  BY <1>2, <1>3, <1>4
<1>6. mgOf' = [mgOf EXCEPT ![x] = mgOf[x]]
  BY <1>2, <1>3
<1> QED
  BY <1>5, <1>6 DEF Becomes, Phase

\* A new proxy.
LEMMA NewBecomes ==
  ASSUME MgInv, NEW x \in Proxies, NEW q, NEW i, NEW k, NEW new,
         NewProxy(x, q, [ident |-> i, n |-> k], new)
  PROVE  Becomes(x, i, q, k, "none", new)
BY DEF NewProxy, Becomes, MgInv, MgType, MgFresh, Proxies

\* What a step of a proxy leaves alone, and what it does not.
LEMMA BecomesOne ==
  ASSUME MgInv, NEW x \in Proxies, NEW i \in Idents, NEW q \in MgProcs, NEW k \in Nat,
         NEW old, NEW new, Becomes(x, i, q, k, old, new)
  PROVE  /\ mgPhase[x] = old /\ (old # "none" => mgTo[x].ident = i /\ mgOf[x] = q)
         /\ mgPhase'[x] = new /\ mgOf'[x] = q /\ mgTo'[x].ident = i /\ mgTo'[x].n = k
         /\ \A y \in Proxies \ {x} : /\ mgPhase'[y] = mgPhase[y] /\ mgOf'[y] = mgOf[y]
                                     /\ mgTo'[y] = mgTo[y]
<1>1. mgTo'[x] = [ident |-> i, n |-> k]
  BY DEF Becomes, MgInv, MgType
<1> QED
  BY <1>1 DEF Becomes, MgInv, MgType

\* Every operation on a proxy is such a step.
LEMMA ProxySteps ==
  ASSUME MgInv, NEW x \in Proxies,
         \/ MgMake(x) \/ MgGiveBack(x) \/ MgAfterFork(x) \/ MgClose(x)
         \/ \E p \in MgProcs, i \in Idents : MgCreate(x, p, i) \/ MgCreateLost(x, p, i)
         \/ \E p \in MgProcs, to \in mgWire : MgRebuild(x, p, to)
         \/ \E p \in MgProcs, y \in Proxies : MgInherit(x, y, p)
  PROVE  \E i \in Idents, q \in MgProcs, k \in Nat : ProxyStep(x, i, q, k)
<1>a. mgObj \in [Idents -> Nat] /\ mgMade \in [Idents -> Nat]
  BY DEF MgInv, MgType
<1>b. mgServer \notin {"none", "boot"}
  BY DEF MgInv, MgBefore, MgMake, MgGiveBack, MgAfterFork, MgClose, MgCreate,
     MgCreateLost, MgInherit, Serving
<1> DEFINE G == \E i \in Idents, q \in MgProcs, k \in Nat : ProxyStep(x, i, q, k)
<1>1. CASE MgMake(x)
  <2>1. mgPhase[x] = "granted" /\ UNCHANGED <<mgLifeVars, mgCalling, mgConn>>
    BY <1>1 DEF MgMake
  <2>2. PICK i \in Idents, q \in MgProcs, k \in Nat : i = mgTo[x].ident /\ q = mgOf[x] /\ k = mgTo[x].n
    BY <2>1, MgTargets
  <2>3. CASE Serving /\ Known(i)
    <3>1. Phase(x, "made") /\ Incref(i) /\ mgIdset' = [mgIdset EXCEPT ![q] = @ \cup {i}]
      BY <1>1, <2>2, <2>3 DEF MgMake
    <3>2. Becomes(x, i, q, k, "granted", "made")
      BY <2>1, <2>2, <3>1, PhaseBecomes
    <3> QED
      BY <1>b, <2>1, <2>2, <2>3, <3>1, <3>2 DEF ProxyStep, Takes, Known
  <2>4. CASE ~(Serving /\ Known(i))
    <3>1. Phase(x, "failed") /\ UNCHANGED <<mgServerVars, mgIdset>>
      BY <1>1, <2>2, <2>4 DEF MgMake
    <3>2. Becomes(x, i, q, k, "granted", "failed")
      BY <2>1, <2>2, <3>1, PhaseBecomes
    <3> QED
      BY <1>b, <2>1, <2>4, <3>1, <3>2 DEF ProxyStep, NoRef, Known
  <2> QED
    BY <2>3, <2>4
<1>2. CASE MgGiveBack(x)
  <2>1. mgPhase[x] = "made" /\ UNCHANGED <<mgLifeVars, mgCalling, mgConn, mgIdset>>
    BY <1>2 DEF MgGiveBack, mgClientVars
  <2>2. PICK i \in Idents, q \in MgProcs, k \in Nat : i = mgTo[x].ident /\ q = mgOf[x] /\ k = mgTo[x].n
    BY <2>1, MgTargets
  <2>3. CASE Serving
    <3>1. Phase(x, "live") /\ Decref(i)
      BY <1>2, <2>2, <2>3 DEF MgGiveBack
    <3>2. Becomes(x, i, q, k, "made", "live")
      BY <2>1, <2>2, <3>1, PhaseBecomes
    <3> QED
      BY <1>b, <2>1, <2>2, <2>3, <3>1, <3>2 DEF ProxyStep
  <2>4. CASE ~Serving
    <3>1. Phase(x, "failed") /\ UNCHANGED mgServerVars
      BY <1>2, <2>4 DEF MgGiveBack
    <3>2. Becomes(x, i, q, k, "made", "failed")
      BY <2>1, <2>2, <3>1, PhaseBecomes
    <3> QED
      BY <1>b, <2>1, <2>4, <3>1, <3>2 DEF ProxyStep, NoRef
  <2> QED
    BY <2>3, <2>4
<1>3. CASE MgAfterFork(x)
  <2>1. mgPhase[x] = "bare" /\ UNCHANGED <<mgLifeVars, mgCalling, mgConn>>
    BY <1>3 DEF MgAfterFork
  <2>2. PICK i \in Idents, q \in MgProcs, k \in Nat : i = mgTo[x].ident /\ q = mgOf[x] /\ k = mgTo[x].n
    BY <2>1, MgTargets
  <2>3. CASE Serving /\ Known(i)
    <3>1. /\ Incref(i) /\ mgIdset' = [mgIdset EXCEPT ![q] = @ \cup {i}]
          /\ mgPhase' = [mgPhase EXCEPT ![x] = "live"]
          /\ mgTo' = [mgTo EXCEPT ![x].n = mgObj[i]] /\ UNCHANGED <<mgOf, mgLast>>
      BY <1>3, <2>2, <2>3 DEF MgAfterFork
    <3>2. mgTo[x] \in [ident : Idents, n : Nat]
      BY <2>1, MgTargets
    <3>3. [mgTo[x] EXCEPT !.n = mgObj[i]] = [ident |-> i, n |-> mgObj[i]]
      BY <2>2, <3>2
    <3>4. mgTo' = [mgTo EXCEPT ![x] = [ident |-> i, n |-> mgObj[i]]]
      BY <3>1, <3>3
    <3>5. mgOf' = [mgOf EXCEPT ![x] = q]
      BY <2>2, <3>1 DEF MgInv, MgType
    <3>6. Becomes(x, i, q, mgObj[i], "bare", "live")
      BY <2>1, <2>2, <3>1, <3>4, <3>5 DEF Becomes
    <3>7. ProxyStep(x, i, q, mgObj[i])
      BY <1>b, <2>1, <2>3, <3>1, <3>6 DEF ProxyStep, Takes, Known
    <3> QED
      BY <1>a, <3>7
  <2>4. CASE ~(Serving /\ Known(i))
    <3>1. Phase(x, "failed") /\ UNCHANGED <<mgServerVars, mgIdset>>
      BY <1>3, <2>2, <2>4 DEF MgAfterFork
    <3>2. Becomes(x, i, q, k, "bare", "failed")
      BY <2>1, <2>2, <3>1, PhaseBecomes
    <3> QED
      BY <1>b, <2>1, <3>1, <3>2 DEF ProxyStep, NoRef
  <2> QED
    BY <2>3, <2>4
<1>4. CASE MgClose(x)
  <2>1. PICK new \in {"closed", "kept"} :
          /\ mgPhase[x] = "live" /\ UNCHANGED <<mgLifeVars, mgCalling>> /\ Phase(x, new)
          /\ IF Serving /\ new = "closed" THEN Decref(mgTo[x].ident) ELSE UNCHANGED mgServerVars
          /\ new = "kept" => Serving
    BY <1>4 DEF MgClose
  <2>2. PICK i \in Idents, q \in MgProcs, k \in Nat : i = mgTo[x].ident /\ q = mgOf[x] /\ k = mgTo[x].n
    BY <2>1, MgTargets
  <2>3. Becomes(x, i, q, k, "live", new) /\ mgPhase'[x] = new
    BY <2>1, <2>2, PhaseBecomes, BecomesOne
  <2>4. /\ mgCalling[q] # x
        /\ mgIdset' = [mgIdset EXCEPT ![q] = @ \ {i}]
        /\ mgConn' = IF mgIdset[q] \ {i} = {} THEN mgConn \ {q} ELSE mgConn
    BY <1>4, <2>2 DEF MgClose
  <2>5. IF Serving /\ mgPhase'[x] = "closed" THEN Decref(i) ELSE UNCHANGED mgServerVars
    BY <2>1, <2>2, <2>3
  <2>6. Becomes(x, i, q, k, "live", "closed") \/ Becomes(x, i, q, k, "live", "kept")
    BY <2>3
  <2>7. ProxyStep(x, i, q, k)
    BY <1>b, <2>1, <2>2, <2>4, <2>5, <2>6 DEF ProxyStep
  <2> QED
    BY <2>7
<1>5. ASSUME NEW p \in MgProcs, NEW i \in Idents, MgCreate(x, p, i) \/ MgCreateLost(x, p, i) PROVE G
  <2>1. PICK new \in {"granted", "orphan"} :
          /\ Serving /\ Create(i) /\ NewProxy(x, p, [ident |-> i, n |-> Created(i)], new)
          /\ UNCHANGED <<mgLifeVars, mgCalling, mgIdset, mgConn>>
    BY <1>5 DEF MgCreate, MgCreateLost, mgClientVars
  <2>2. PICK k \in Nat : k = Created(i)
    BY <1>a DEF Created
  <2>3. Becomes(x, i, p, k, "none", new)
    BY <2>1, <2>2, NewBecomes
  <2> QED
    BY <1>b, <2>1, <2>2, <2>3 DEF ProxyStep
<1>6. ASSUME NEW p \in MgProcs, NEW to \in mgWire, MgRebuild(x, p, to) PROVE G
  <2>1. PICK i \in Idents, k \in Nat : to = [ident |-> i, n |-> k]
    BY DEF MgInv, MgType
  <2>2. to.ident = i
    BY <2>1
  <2>3. UNCHANGED <<mgLifeVars, mgCalling, mgConn>>
    BY <1>6 DEF MgRebuild
  <2>4. CASE Serving /\ Known(i)
    <3>1. /\ Incref(i) /\ mgIdset' = [mgIdset EXCEPT ![p] = @ \cup {i}]
          /\ NewProxy(x, p, [to EXCEPT !.n = mgObj[i]], "live")
      BY <1>6, <2>2, <2>4 DEF MgRebuild
    <3>2. [to EXCEPT !.n = mgObj[i]] = [ident |-> i, n |-> mgObj[i]]
      BY <2>1
    <3>3. PICK m \in Nat : m = mgObj[i]
      BY <1>a
    <3>4. Becomes(x, i, p, m, "none", "live")
      BY <3>1, <3>2, <3>3, NewBecomes
    <3> QED
      BY <1>b, <2>3, <2>4, <3>1, <3>3, <3>4 DEF ProxyStep, Takes, Known
  <2>5. CASE ~(Serving /\ Known(i))
    <3>1. NewProxy(x, p, [ident |-> i, n |-> k], "failed") /\ UNCHANGED <<mgServerVars, mgIdset>>
      BY <1>6, <2>1, <2>2, <2>5 DEF MgRebuild
    <3>2. Becomes(x, i, p, k, "none", "failed")
      BY <3>1, NewBecomes
    <3> QED
      BY <1>b, <2>3, <3>1, <3>2 DEF ProxyStep, NoRef
  <2> QED
    BY <2>4, <2>5
<1>7. ASSUME NEW p \in MgProcs, NEW y \in Proxies, MgInherit(x, y, p) PROVE G
  <2>1. /\ mgPhase[y] = "live" /\ NewProxy(x, p, mgTo[y], "bare")
        /\ UNCHANGED <<mgLifeVars, mgServerVars, mgIdset, mgConn, mgCalling>>
    BY <1>7 DEF MgInherit
  <2>2. PICK i \in Idents, k \in Nat : mgTo[y] = [ident |-> i, n |-> k]
    <3>1. mgTo[y] \in [ident : Idents, n : Nat]
      BY <2>1, MgTargets
    <3> QED
      BY <3>1
  <2>3. Becomes(x, i, p, k, "none", "bare")
    BY <2>1, <2>2, NewBecomes
  <2> QED
    BY <1>b, <2>1, <2>3 DEF ProxyStep, NoRef
<1> QED
  BY <1>1, <1>2, <1>3, <1>4, <1>5, <1>6, <1>7

\* The proxies' types are kept.
LEMMA BecomesType ==
  ASSUME MgInv, NEW x \in Proxies, NEW i \in Idents, NEW q \in MgProcs, NEW k \in Nat,
         NEW old, NEW new \in MgPhases \ {"none"},
         Becomes(x, i, q, k, old, new)
  PROVE  /\ mgPhase' \in [Proxies -> MgPhases]
         /\ mgOf' \in [Proxies -> MgProcs]
         /\ mgTo' \in [Proxies -> [ident : Idents \cup {CHOOSE j \in Idents : TRUE}, n : Nat]]
         /\ mgLast' \in Nat /\ MgFresh'
<1>1. mgTo' \in [Proxies -> [ident : Idents \cup {CHOOSE j \in Idents : TRUE}, n : Nat]]
  BY DEF MgInv, MgType, Becomes
<1>2. mgTo'[x].ident = i /\ \A y \in Proxies \ {x} : mgTo'[y] = mgTo[y]
  BY DEF MgInv, MgType, Becomes
<1>3. MgFresh'
  BY <1>2 DEF MgInv, MgType, MgFresh, MgPhases, Becomes, Proxies
<1> QED
  BY <1>1, <1>3 DEF MgInv, MgType, MgPhases, Becomes, Proxies

\* What is in transit, and who is alive, keep their types.
LEMMA WireType ==
  ASSUME MgInv, [MgNext]_mgVars
  PROVE  mgWire' \subseteq [ident : Idents, n : Nat] /\ mgAlive' \subseteq MgProcs
<1>1. mgWire \subseteq [ident : Idents, n : Nat] /\ mgAlive \subseteq MgProcs
  BY DEF MgInv, MgType
<1>2. ASSUME NEW x \in Proxies, MgPickle(x) PROVE mgWire' \subseteq [ident : Idents, n : Nat]
  <2>1. mgPhase[x] # "none" /\ mgWire' = mgWire \cup {mgTo[x]}
    BY <1>2 DEF MgPickle
  <2>2. mgTo[x] \in [ident : Idents, n : Nat]
    BY <2>1, MgTargets
  <2> QED
    BY <1>1, <2>1, <2>2
<1>3. ASSUME NEW x \in Proxies, NEW y \in Proxies, NEW p \in MgProcs, MgInherit(x, y, p)
      PROVE  mgAlive' \subseteq MgProcs /\ mgWire' = mgWire
  BY <1>1, <1>3 DEF MgInherit
<1>4. ASSUME NEW x \in Proxies, NEW p \in MgProcs, NEW to \in mgWire, MgRebuild(x, p, to)
      PROVE  mgAlive' = mgAlive /\ mgWire' \subseteq mgWire
  BY <1>4 DEF MgRebuild
<1> QED
  BY <1>1, <1>2, <1>3, <1>4, ManagersAssumption
  DEF MgNext, mgVars, mgClientVars, MgShutdownStep, MgStart, MgRunServer, MgHang,
      MgShutdown, MgShutdownError, MgShutdownGiveUp, MgServerKilled,
      MgServerExit, MgShutdownAnswer, MgShutdownJoin, MgMake, MgGiveBack, MgPickle,
      MgAfterFork,
      MgCallSend, MgClose, MgCreate, MgCreateLost, MgCallReturn, MgKill

\* Every step keeps the types and the order of the proxies.
LEMMA MgTypeNext ==
  ASSUME MgInv, [MgNext]_mgVars
  PROVE  MgType' /\ MgFresh'
<1> USE ManagersAssumption
    DEF MgInv, MgType,
        mgServerVars, mgClientVars, mgProxyVars, mgLifeVars
<1>1. CASE UNCHANGED mgVars
  BY <1>1 DEF mgVars, MgFresh
<1>2. CASE MgStart
  BY <1>2 DEF MgStart, MgFresh
<1>3. CASE MgRunServer
  BY <1>3 DEF MgRunServer, MgFresh
<1>4. CASE MgHang
  BY <1>4 DEF MgHang, MgFresh
<1>5. CASE MgShutdown
  BY <1>5 DEF MgShutdown, MgFresh
<1>6. CASE MgServerExit
  BY <1>6 DEF MgServerExit, MgFresh
<1>7. CASE MgShutdownAnswer
  BY <1>7 DEF MgShutdownAnswer, MgFresh
<1>8. CASE MgShutdownJoin \/ MgShutdownError \/ MgShutdownGiveUp \/ MgServerKilled
  BY <1>8
  DEF MgShutdownJoin, MgShutdownError, MgShutdownGiveUp, MgServerKilled, ShutdownDone, MgFresh
<1>9. ASSUME NEW x \in Proxies, MgPickle(x) PROVE MgType' /\ MgFresh'
  BY <1>9, WireType DEF MgPickle, MgFresh
<1>10. ASSUME NEW x \in Proxies, MgCallSend(x) PROVE MgType' /\ MgFresh'
  BY <1>10 DEF MgCallSend, MgFresh
<1>11. ASSUME NEW p \in MgProcs, MgCallReturn(p) PROVE MgType' /\ MgFresh'
  BY <1>11 DEF MgCallReturn, MgFresh
<1>12. ASSUME NEW p \in MgProcs, MgKill(p) PROVE MgType' /\ MgFresh'
  BY <1>12 DEF MgKill, MgFresh
<1>13. ASSUME NEW x \in Proxies, NEW i \in Idents, NEW q \in MgProcs, NEW k \in Nat,
              ProxyStep(x, i, q, k)
       PROVE  MgType' /\ MgFresh'
  <2>1. /\ mgPhase' \in [Proxies -> MgPhases]
        /\ mgOf' \in [Proxies -> MgProcs]
        /\ mgTo' \in [Proxies -> [ident : Idents \cup {CHOOSE j \in Idents : TRUE}, n : Nat]]
        /\ mgLast' \in Nat /\ MgFresh'
    BY <1>13, BecomesType DEF ProxyStep, MgPhases
  <2>2. mgWire' \subseteq [ident : Idents, n : Nat] /\ mgAlive' \subseteq MgProcs
    BY WireType
  <2>3. mgCount' \in [Idents -> Nat] /\ mgObj' \in [Idents -> Nat] /\ mgMade' \in [Idents -> Nat]
    BY <1>13 DEF ProxyStep, Takes, NoRef, Incref, Decref, Create, Created
  <2>4. mgIdset' \in [MgProcs -> SUBSET Idents] /\ mgConn' \subseteq MgProcs
    BY <1>13 DEF ProxyStep, Takes, NoRef
  <2> QED
    BY <1>13, <2>1, <2>2, <2>3, <2>4 DEF ProxyStep
<1> QED
  BY <1>1, <1>2, <1>3, <1>4, <1>5, <1>6, <1>7, ProxySteps,
     <1>8, <1>9, <1>10, <1>11, <1>12, <1>13
  DEF MgNext, MgShutdownStep

\* Every step keeps what there is before the server serves.
LEMMA MgBeforeNext ==
  ASSUME MgInv, [MgNext]_mgVars
  PROVE  MgBefore'
<1> USE ManagersAssumption
    DEF MgInv, MgType, MgFresh, MgBefore, Serving,
        mgServerVars, mgClientVars, mgProxyVars, mgLifeVars
<1>1. CASE UNCHANGED mgVars
  BY <1>1 DEF mgVars
<1>2. CASE MgStart
  BY <1>2 DEF MgStart
<1>3. CASE MgRunServer
  BY <1>3 DEF MgRunServer
<1>4. CASE MgHang
  BY <1>4 DEF MgHang
<1>5. CASE MgShutdown
  BY <1>5 DEF MgShutdown
<1>6. CASE MgServerExit
  BY <1>6 DEF MgServerExit
<1>7. CASE MgShutdownAnswer
  BY <1>7 DEF MgShutdownAnswer
<1>8. CASE MgShutdownJoin \/ MgShutdownError \/ MgShutdownGiveUp \/ MgServerKilled
  BY <1>8 DEF MgShutdownJoin, MgShutdownError, MgShutdownGiveUp, MgServerKilled, ShutdownDone
<1>9. ASSUME NEW x \in Proxies, MgPickle(x) PROVE MgBefore'
  BY <1>9 DEF MgPickle
<1>10. ASSUME NEW x \in Proxies, MgCallSend(x) PROVE MgBefore'
  BY <1>10 DEF MgCallSend
<1>11. ASSUME NEW p \in MgProcs, MgCallReturn(p) PROVE MgBefore'
  BY <1>11 DEF MgCallReturn
<1>12. ASSUME NEW p \in MgProcs, MgKill(p) PROVE MgBefore'
  BY <1>12 DEF MgKill
<1>13. ASSUME NEW x \in Proxies, NEW i \in Idents, NEW q \in MgProcs, NEW k \in Nat,
              ProxyStep(x, i, q, k)
       PROVE  MgBefore'
  BY <1>13 DEF ProxyStep
<1> QED
  BY <1>1, <1>2, <1>3, <1>4, <1>5, <1>6, <1>7, ProxySteps,
     <1>8, <1>9, <1>10, <1>11, <1>12, <1>13
  DEF MgNext, MgShutdownStep

\* Every step keeps the connection of a caller.
LEMMA MgCallsNext ==
  ASSUME MgInv, [MgNext]_mgVars
  PROVE  MgCalls' /\ CallKeepsConnection'
<1> USE ManagersAssumption
    DEF MgInv, MgType, MgCalls, ManagersSafe, CallKeepsConnection,
        mgServerVars, mgClientVars, mgProxyVars, mgLifeVars
<1>1. CASE UNCHANGED mgVars
  BY <1>1 DEF mgVars
<1>2. CASE MgStart
  BY <1>2 DEF MgStart
<1>3. CASE MgRunServer
  BY <1>3 DEF MgRunServer
<1>4. CASE MgHang
  BY <1>4 DEF MgHang
<1>5. CASE MgShutdown
  BY <1>5 DEF MgShutdown
<1>6. CASE MgServerExit
  BY <1>6 DEF MgServerExit
<1>7. CASE MgShutdownAnswer
  BY <1>7 DEF MgShutdownAnswer
<1>8. CASE MgShutdownJoin \/ MgShutdownError \/ MgShutdownGiveUp \/ MgServerKilled
  <2>1. UNCHANGED <<mgServerVars, mgProxyVars, mgClientVars>>
    BY <1>8 DEF MgShutdownJoin, MgShutdownError, MgShutdownGiveUp, MgServerKilled
  <2> QED
    BY <2>1
<1>9. ASSUME NEW x \in Proxies, MgPickle(x) PROVE MgCalls' /\ CallKeepsConnection'
  BY <1>9 DEF MgPickle
<1>10. ASSUME NEW x \in Proxies, MgCallSend(x) PROVE MgCalls' /\ CallKeepsConnection'
  BY <1>10 DEF MgCallSend
<1>11. ASSUME NEW p \in MgProcs, MgCallReturn(p) PROVE MgCalls' /\ CallKeepsConnection'
  BY <1>11 DEF MgCallReturn
<1>12. ASSUME NEW p \in MgProcs, MgKill(p) PROVE MgCalls' /\ CallKeepsConnection'
  BY <1>12 DEF MgKill
<1>13. ASSUME NEW x \in Proxies, NEW i \in Idents, NEW q \in MgProcs, NEW k \in Nat,
              ProxyStep(x, i, q, k)
       PROVE  MgCalls' /\ CallKeepsConnection'
  <2>1. PICK old, new :
          /\ mgPhase[x] = old /\ (old # "none" => mgTo[x].ident = i /\ mgOf[x] = q)
          /\ mgPhase'[x] = new /\ mgOf'[x] = q /\ mgTo'[x].ident = i
          /\ \/ /\ new \in {"made", "live"} /\ mgIdset' = [mgIdset EXCEPT ![q] = @ \cup {i}]
                /\ old \in {"none", "granted", "bare"} /\ mgConn' = mgConn
             \/ old = "made" /\ new = "live" /\ mgIdset' = mgIdset /\ mgConn' = mgConn
             \/ /\ new \in {"granted", "orphan", "bare", "failed"} /\ mgIdset' = mgIdset /\ mgConn' = mgConn
                /\ old \in {"none", "granted", "made", "bare"}
             \/ /\ old = "live" /\ new \in {"closed", "kept"} /\ mgCalling[q] # x
                /\ mgIdset' = [mgIdset EXCEPT ![q] = @ \ {i}]
                /\ mgConn' = IF mgIdset[q] \ {i} = {} THEN mgConn \ {q} ELSE mgConn
    BY <1>13, BecomesOne DEF ProxyStep, Takes, NoRef
  <2>2. \A y \in Proxies \ {x} : /\ mgPhase'[y] = mgPhase[y] /\ mgOf'[y] = mgOf[y]
                                 /\ mgTo'[y] = mgTo[y]
    BY <1>13, BecomesOne DEF ProxyStep
  <2>3. mgCalling' = mgCalling
    BY <1>13 DEF ProxyStep
  <2>4. ASSUME NEW p \in MgProcs, mgCalling[p] # 0
        PROVE  /\ mgCalling[p] \in Proxies \ {x}
               /\ mgPhase[mgCalling[p]] = "live" /\ mgOf[mgCalling[p]] = p
    BY <2>1, <2>4
  <2>5. ASSUME NEW y \in Proxies, mgPhase[y] \in {"closed", "kept"}
        PROVE  /\ mgPhase'[y] \in {"closed", "kept"} /\ mgOf'[y] = mgOf[y]
               /\ mgTo'[y].ident = mgTo[y].ident
    BY <2>1, <2>2, <2>5
  <2>a. ASSUME NEW y \in Proxies, mgPhase[y] \in {"made", "live"}
        PROVE  \/ mgTo[y].ident \in mgIdset[mgOf[y]]
               \/ \E z \in Proxies : /\ mgPhase'[z] \in {"closed", "kept"} /\ mgOf'[z] = mgOf[y]
                                     /\ mgTo'[z].ident = mgTo[y].ident
    <3>1. \/ mgTo[y].ident \in mgIdset[mgOf[y]]
          \/ \E z \in Proxies : /\ mgPhase[z] \in {"closed", "kept"} /\ mgOf[z] = mgOf[y]
                                /\ mgTo[z].ident = mgTo[y].ident
      BY <2>a
    <3> QED
      BY <3>1, <2>5
  <2>b. mgIdset' \in [MgProcs -> SUBSET Idents]
    BY MgTypeNext DEF MgType
  <2>c. \/ i \in mgIdset'[q] /\ \A p \in MgProcs : mgIdset[p] \subseteq mgIdset'[p]
        \/ mgIdset' = mgIdset
        \/ /\ mgPhase'[x] \in {"closed", "kept"} /\ mgIdset'[q] = mgIdset[q] \ {i}
           /\ \A p \in MgProcs \ {q} : mgIdset'[p] = mgIdset[p]
    BY <2>1
  <2>6. ASSUME NEW y \in Proxies, mgPhase'[y] \in {"made", "live"}
        PROVE  \/ mgTo'[y].ident \in mgIdset'[mgOf'[y]]
               \/ \E z \in Proxies : /\ mgPhase'[z] \in {"closed", "kept"} /\ mgOf'[z] = mgOf'[y]
                                     /\ mgTo'[z].ident = mgTo'[y].ident
    <3>1. CASE y = x
      <4>1. CASE i \in mgIdset'[q]
        BY <2>1, <3>1, <4>1
      <4>2. CASE mgIdset' = mgIdset /\ mgPhase[x] = "made"
        BY <2>1, <2>a, <3>1, <4>2
      <4> QED
        BY <2>1, <2>c, <2>6, <3>1, <4>1, <4>2
    <3>2. CASE y # x
      <4>1. mgPhase'[y] = mgPhase[y] /\ mgOf'[y] = mgOf[y] /\ mgTo'[y] = mgTo[y]
        BY <2>2, <3>2
      <4>2. mgOf[y] \in MgProcs
        OBVIOUS
      <4>3. CASE mgTo[y].ident \in mgIdset[mgOf[y]]
        <5>1. CASE mgTo[y].ident \in mgIdset'[mgOf[y]]
          BY <4>1, <5>1
        <5>2. CASE mgTo[y].ident \notin mgIdset'[mgOf[y]]
          <6>1. mgPhase'[x] \in {"closed", "kept"} /\ mgOf[y] = q /\ mgTo[y].ident = i
            BY <2>c, <4>2, <4>3, <5>2
          <6> QED
            BY <2>1, <4>1, <6>1
        <5> QED
          BY <5>1, <5>2
      <4> QED
        BY <2>a, <2>6, <4>1, <4>3
    <3> QED
      BY <3>1, <3>2
  <2>7. ASSUME NEW p \in MgProcs, mgCalling[p] # 0, p \notin mgConn'
        PROVE  \E y \in Proxies : /\ mgPhase'[y] \in {"closed", "kept"} /\ mgOf'[y] = p
                                  /\ mgTo'[y].ident = mgTo'[mgCalling[p]].ident
    <3>1. PICK c \in Proxies \ {x} : c = mgCalling[p]
      BY <2>4, <2>7
    <3>2. mgPhase[c] = "live" /\ mgOf[c] = p /\ mgTo'[c] = mgTo[c]
      BY <2>2, <2>4, <2>7, <3>1
    <3>3. CASE p \notin mgConn
      <4>1. PICK y \in Proxies : /\ mgPhase[y] \in {"closed", "kept"} /\ mgOf[y] = p
                                 /\ mgTo[y].ident = mgTo[c].ident
        BY <2>7, <3>1, <3>3
      <4> QED
        BY <2>5, <3>1, <3>2, <4>1
    <3>4. CASE p \in mgConn
      <4>1. p = q /\ mgPhase'[x] \in {"closed", "kept"} /\ mgIdset[q] \subseteq {i}
        BY <2>1, <2>7, <3>4
      <4>2. CASE mgTo[c].ident = i
        BY <2>1, <3>1, <3>2, <4>1, <4>2
      <4>3. CASE mgTo[c].ident \notin mgIdset[q]
        BY <2>a, <3>1, <3>2, <4>1, <4>3
      <4> QED
        BY <4>1, <4>2, <4>3
    <3> QED
      BY <3>3, <3>4
  <2> QED
    BY <2>2, <2>3, <2>4, <2>6, <2>7
<1> HIDE DEF MgInv, MgCalls, CallKeepsConnection, mgServerVars, mgClientVars, mgProxyVars, mgLifeVars
<1> QED
  BY <1>1, <1>2, <1>3, <1>4, <1>5, <1>6, <1>7, ProxySteps,
     <1>8, <1>9, <1>10, <1>11, <1>12, <1>13
  DEF MgNext, MgShutdownStep

\* A set of proxies, with one more and with one less.
LEMMA ProxySets ==
  ASSUME NEW S, S \subseteq Proxies, NEW x \in Proxies
  PROVE  /\ x \notin S => Cardinality(S \cup {x}) = Cardinality(S) + 1
         /\ x \in S => Cardinality(S \ {x}) = Cardinality(S) - 1 /\ Cardinality(S) > 0
         /\ Cardinality(S) = 0 => S = {}
<1>1. IsFiniteSet(S) /\ Cardinality(S) \in Nat
  BY ProxiesFinite
<1>2. Cardinality(S) = 0 <=> S = {}
  BY <1>1, FS_EmptySet
<1>3. x \notin S => Cardinality(S \cup {x}) = Cardinality(S) + 1
  BY <1>1, FS_AddElement
<1>4. x \in S => Cardinality(S \ {x}) = Cardinality(S) - 1
  BY <1>1, FS_RemoveElement
<1> QED
  BY <1>1, <1>2, <1>3, <1>4

\* The references to one ident are counted, and lead to the object of the ident.
RefsOk(i) ==
  /\ mgCount[i] = Cardinality(Granted(i)) + Cardinality(Held(i))
  /\ mgObj[i] # 0 <=> mgCount[i] > 0
  /\ \A x \in Granted(i) \cup Held(i) : mgTo[x].n = mgObj[i]

\* That is what the invariants say of all of them.
LEMMA RefsAre ==
  MgFresh => (CountsExact /\ ReferentKept <=> (Serving => \A i \in Idents : RefsOk(i)))
<1> SUFFICES ASSUME MgFresh
             PROVE  CountsExact /\ ReferentKept <=> (Serving => \A i \in Idents : RefsOk(i))
  OBVIOUS
<1>1. CountsExact <=> (Serving => \A i \in Idents :
                         /\ mgCount[i] = Cardinality(Granted(i)) + Cardinality(Held(i))
                         /\ mgObj[i] # 0 <=> mgCount[i] > 0)
  BY ReferencesAre DEF CountsExact
<1>2. ReferentKept <=> (Serving => \A i \in Idents :
                          \A x \in Granted(i) \cup Held(i) : mgTo[x].n = mgObj[i])
  <2>1. \A x \in Proxies : mgPhase[x] \in {"granted", "made", "live", "orphan", "kept"} =>
          mgTo[x].ident \in Idents /\ x \in Granted(mgTo[x].ident) \cup Held(mgTo[x].ident)
    BY DEF MgFresh, Granted, Held
  <2>2. \A i \in Idents : \A x \in Granted(i) \cup Held(i) :
          x \in Proxies /\ mgTo[x].ident = i /\ mgPhase[x] \in {"granted", "made", "live", "orphan", "kept"}
    BY DEF Granted, Held
  <2> QED
    BY <2>1, <2>2 DEF ReferentKept
<1> QED
  BY <1>1, <1>2 DEF RefsOk

\* ... also in the next state.
LEMMA RefsAreNext ==
  (MgFresh => (CountsExact /\ ReferentKept <=> (Serving => \A i \in Idents : RefsOk(i))))'
BY RefsAre, PTL

\* A step that leaves the proxies, the counts and the objects alone.
LEMMA RefsSame ==
  ASSUME MgInv, MgType', MgFresh', UNCHANGED <<mgPhase, mgTo, mgCount, mgObj>>,
         Serving' => Serving \/ mgServer \in {"none", "boot"}
  PROVE  CountsExact' /\ ReferentKept'
<1>1. \A i \in Idents : Granted(i)' = Granted(i) /\ Held(i)' = Held(i)
  BY DEF Granted, Held
<1>2. ASSUME Serving' PROVE \A i \in Idents : RefsOk(i)
  <2>1. CASE Serving
    BY <2>1, RefsAre DEF MgInv, ManagersSafe
  <2>2. CASE mgServer \in {"none", "boot"}
    <3>1. \A i \in Idents : Granted(i) = {} /\ Held(i) = {} /\ mgCount[i] = 0 /\ mgObj[i] = 0
      BY <2>2 DEF MgInv, MgBefore, Granted, Held
    <3> QED
      BY <3>1, FS_EmptySet DEF RefsOk
  <2> QED
    BY <1>2, <2>1, <2>2
<1>3. Serving' => \A i \in Idents : RefsOk(i)'
  BY <1>1, <1>2 DEF RefsOk
<1> QED
  BY <1>3, RefsAreNext

\* A step of a proxy for ident i leaves the references to the others alone.
LEMMA RefsOthers ==
  ASSUME MgInv, NEW x \in Proxies, NEW i \in Idents, NEW q \in MgProcs, NEW k \in Nat,
         ProxyStep(x, i, q, k), NEW j \in Idents, j # i, RefsOk(j)
  PROVE  RefsOk(j)'
<1>1. \A y \in Proxies \ {x} : mgPhase'[y] = mgPhase[y] /\ mgTo'[y] = mgTo[y]
  BY BecomesOne DEF ProxyStep
<1>2. mgTo'[x].ident = i /\ (mgPhase[x] = "none" \/ mgTo[x].ident = i)
  BY BecomesOne DEF ProxyStep
<1>3. Granted(j)' = Granted(j) /\ Held(j)' = Held(j) /\ x \notin Granted(j) \cup Held(j)
  BY <1>1, <1>2 DEF Granted, Held
<1>4. mgCount'[j] = mgCount[j] /\ mgObj'[j] = mgObj[j]
  BY DEF ProxyStep, Takes, NoRef, Incref, Decref, Create, Created, MgInv, MgType, mgServerVars
<1>5. \A y \in Granted(j) \cup Held(j) : mgTo'[y] = mgTo[y]
  BY <1>1, <1>3 DEF Granted, Held
<1> QED
  BY <1>3, <1>4, <1>5 DEF RefsOk

\* ... and keeps those to i counted.
LEMMA RefsOne ==
  ASSUME MgInv, Serving, NEW x \in Proxies, NEW i \in Idents, NEW q \in MgProcs, NEW k \in Nat,
         ProxyStep(x, i, q, k), RefsOk(i)
  PROVE  RefsOk(i)'
<1> DEFINE G == Granted(i)  H == Held(i)
<1>1. \A y \in Proxies \ {x} : mgPhase'[y] = mgPhase[y] /\ mgTo'[y] = mgTo[y]
  BY BecomesOne DEF ProxyStep
<1>2. mgTo'[x].ident = i /\ mgTo'[x].n = k /\ (mgPhase[x] = "none" \/ mgTo[x].ident = i)
  BY BecomesOne DEF ProxyStep
<1>3. /\ G \subseteq Proxies /\ H \subseteq Proxies
      /\ Cardinality(G) \in Nat /\ Cardinality(H) \in Nat
      /\ mgCount[i] = Cardinality(G) + Cardinality(H) /\ (mgObj[i] # 0 <=> mgCount[i] > 0)
      /\ \A y \in G \cup H : mgTo[y].n = mgObj[i]
      /\ mgCount[i] \in Nat /\ mgObj[i] \in Nat /\ mgMade[i] \in Nat
      /\ mgCount \in [Idents -> Nat] /\ mgObj \in [Idents -> Nat]
  BY ReferencesAre, ProxiesFinite DEF RefsOk, MgInv, MgType
<1>4. /\ x \in G <=> mgPhase[x] \in {"granted", "made", "orphan"}
      /\ x \in H <=> mgPhase[x] \in {"made", "live", "kept"}
  BY <1>2 DEF Granted, Held
<1>5. /\ Granted(i)' = IF mgPhase'[x] \in {"granted", "made", "orphan"} THEN G \cup {x} ELSE G \ {x}
      /\ Held(i)' = IF mgPhase'[x] \in {"made", "live", "kept"} THEN H \cup {x} ELSE H \ {x}
  BY <1>1, <1>2 DEF Granted, Held
<1>6. \A y \in (G \cup H) \ {x} : mgTo'[y].n = mgObj[i]
  BY <1>1, <1>3
<1>7. /\ x \notin G => Cardinality(G \cup {x}) = Cardinality(G) + 1 /\ G \ {x} = G
      /\ x \notin H => Cardinality(H \cup {x}) = Cardinality(H) + 1 /\ H \ {x} = H
      /\ x \in G => Cardinality(G \ {x}) = Cardinality(G) - 1 /\ Cardinality(G) > 0 /\ G \cup {x} = G
      /\ x \in H => Cardinality(H \ {x}) = Cardinality(H) - 1 /\ Cardinality(H) > 0 /\ H \cup {x} = H
      /\ (Cardinality(G) = 0 => G = {}) /\ (Cardinality(H) = 0 => H = {})
  BY <1>3, ProxySets
<1> HIDE DEF G, H
<1>8. CASE /\ mgPhase[x] \in {"granted", "bare", "none"} /\ Incref(i) /\ mgObj[i] # 0
           /\ IF mgPhase[x] = "granted" THEN mgPhase'[x] = "made" /\ k = mgTo[x].n
              ELSE mgPhase'[x] = "live" /\ k = mgObj[i]
  <2>1. mgCount'[i] = mgCount[i] + 1 /\ mgObj'[i] = mgObj[i]
    BY <1>3, <1>8 DEF Incref
  <2>2. Granted(i)' = G /\ Held(i)' = H \cup {x} /\ k = mgObj[i] /\ x \notin H
    BY <1>3, <1>4, <1>5, <1>7, <1>8
  <2> QED
    BY <1>2, <1>3, <1>6, <1>7, <1>8, <2>1, <2>2 DEF RefsOk
<1>9. CASE mgPhase[x] = "made" /\ mgPhase'[x] = "live" /\ Decref(i) /\ k = mgTo[x].n
  <2>1. Granted(i)' = G \ {x} /\ Held(i)' = H /\ k = mgObj[i] /\ x \in G /\ x \in H
    BY <1>3, <1>4, <1>5, <1>7, <1>9
  <2>2. mgCount[i] >= 2
    BY <1>3, <1>7, <2>1
  <2>3. mgCount'[i] = mgCount[i] - 1 /\ mgObj'[i] = mgObj[i]
    BY <1>3, <1>9, <2>2 DEF Decref
  <2> QED
    BY <1>2, <1>3, <1>6, <1>7, <2>1, <2>2, <2>3 DEF RefsOk
<1>10. CASE mgPhase[x] = "live" /\ mgPhase'[x] = "closed" /\ Decref(i)
  <2>1. Granted(i)' = G /\ Held(i)' = H \ {x} /\ x \notin G /\ x \in H
    BY <1>4, <1>5, <1>7, <1>10
  <2>2. mgCount[i] >= 1
    BY <1>3, <1>7, <2>1
  <2>3. mgCount'[i] = mgCount[i] - 1 /\ mgObj'[i] = IF mgCount[i] = 1 THEN 0 ELSE mgObj[i]
    BY <1>3, <1>10, <2>2 DEF Decref
  <2>4. CASE mgCount[i] = 1
    <3>1. G = {} /\ H \ {x} = {}
      <4>1. Cardinality(G) = 0 /\ Cardinality(H \ {x}) = 0
        BY <1>3, <1>7, <2>1, <2>4
      <4>2. H \ {x} \subseteq Proxies
        BY <1>3
      <4> QED
        BY <1>7, <4>1, <4>2, ProxySets
    <3> QED
      BY <1>3, <1>7, <2>1, <2>3, <2>4, <3>1 DEF RefsOk
  <2>5. CASE mgCount[i] # 1
    BY <1>3, <1>6, <1>7, <2>1, <2>2, <2>3, <2>5 DEF RefsOk
  <2> QED
    BY <2>4, <2>5
<1>11. CASE /\ mgPhase[x] = "none" /\ mgPhase'[x] \in {"granted", "orphan"}
            /\ k = Created(i) /\ Create(i)
  <2>1. /\ mgObj'[i] = k /\ k # 0 /\ mgCount'[i] = mgCount[i] + 1
        /\ mgObj[i] # 0 => k = mgObj[i]
    BY <1>3, <1>11 DEF Create, Created
  <2>2. mgObj[i] = 0 => G = {} /\ H = {}
    BY <1>3, <1>7
  <2>3. Granted(i)' = G \cup {x} /\ Held(i)' = H /\ x \notin G
    BY <1>4, <1>5, <1>7, <1>11
  <2> QED
    BY <1>2, <1>3, <1>6, <1>7, <2>1, <2>2, <2>3 DEF RefsOk
<1>12. CASE /\ \/ mgPhase[x] \in {"none", "bare"} /\ mgPhase'[x] \in {"bare", "failed"}
               \/ mgPhase[x] = "live" /\ mgPhase'[x] = "kept" /\ k = mgTo[x].n
            /\ mgCount' = mgCount /\ mgObj' = mgObj
  <2>1. Granted(i)' = G /\ Held(i)' = H /\ x \notin G
    BY <1>4, <1>5, <1>7, <1>12
  <2>2. x \in H => mgTo'[x].n = mgObj[i]
    BY <1>2, <1>3, <1>4, <1>12
  <2> QED
    BY <1>3, <1>6, <1>12, <2>1, <2>2 DEF RefsOk
<1>13. mgPhase[x] = "granted" => mgObj[i] # 0
  BY <1>3, <1>4, <1>7
<1>14. \/ /\ mgPhase[x] \in {"granted", "bare", "none"} /\ Incref(i) /\ mgObj[i] # 0
          /\ IF mgPhase[x] = "granted" THEN mgPhase'[x] = "made" /\ k = mgTo[x].n
             ELSE mgPhase'[x] = "live" /\ k = mgObj[i]
       \/ mgPhase[x] = "made" /\ mgPhase'[x] = "live" /\ Decref(i) /\ k = mgTo[x].n
       \/ mgPhase[x] = "live" /\ mgPhase'[x] = "closed" /\ Decref(i)
       \/ /\ mgPhase[x] = "none" /\ mgPhase'[x] \in {"granted", "orphan"}
          /\ k = Created(i) /\ Create(i)
       \/ /\ \/ mgPhase[x] \in {"none", "bare"} /\ mgPhase'[x] \in {"bare", "failed"}
             \/ mgPhase[x] = "live" /\ mgPhase'[x] = "kept" /\ k = mgTo[x].n
          /\ mgCount' = mgCount /\ mgObj' = mgObj
  BY <1>13, BecomesOne DEF ProxyStep, Takes, NoRef, mgServerVars
<1> QED
  BY <1>8, <1>9, <1>10, <1>11, <1>12, <1>14

\* Every step keeps the references counted, and what they lead to.
LEMMA MgRefsNext ==
  ASSUME MgInv, [MgNext]_mgVars
  PROVE  CountsExact' /\ ReferentKept'
<1> USE ManagersAssumption
    DEF Serving,
        mgServerVars, mgClientVars, mgProxyVars, mgLifeVars
<1>a. MgType' /\ MgFresh'
  BY MgTypeNext
<1>1. CASE UNCHANGED mgVars
  BY <1>a, <1>1, RefsSame DEF mgVars
<1>2. CASE MgStart
  BY <1>a, <1>2, RefsSame DEF MgStart
<1>3. CASE MgRunServer
  BY <1>a, <1>3, RefsSame DEF MgRunServer
<1>4. CASE MgHang
  BY <1>a, <1>4, RefsSame DEF MgHang
<1>5. CASE MgShutdown
  BY <1>a, <1>5, RefsSame DEF MgShutdown
<1>6. CASE MgServerExit
  BY <1>a, <1>6, RefsSame DEF MgServerExit
<1>7. CASE MgShutdownAnswer
  BY <1>a, <1>7, RefsSame DEF MgShutdownAnswer
<1>8. CASE MgShutdownJoin \/ MgShutdownError \/ MgShutdownGiveUp \/ MgServerKilled
  BY <1>a, <1>8, RefsSame DEF MgShutdownJoin, MgShutdownError, MgShutdownGiveUp, MgServerKilled
<1>9. ASSUME NEW x \in Proxies, MgPickle(x) PROVE CountsExact' /\ ReferentKept'
  BY <1>a, <1>9, RefsSame DEF MgPickle
<1>10. ASSUME NEW x \in Proxies, MgCallSend(x) PROVE CountsExact' /\ ReferentKept'
  BY <1>a, <1>10, RefsSame DEF MgCallSend
<1>11. ASSUME NEW p \in MgProcs, MgCallReturn(p) PROVE CountsExact' /\ ReferentKept'
  BY <1>a, <1>11, RefsSame DEF MgCallReturn
<1>12. ASSUME NEW p \in MgProcs, MgKill(p) PROVE CountsExact' /\ ReferentKept'
  BY <1>a, <1>12, RefsSame DEF MgKill
<1>13. ASSUME NEW x \in Proxies, NEW i \in Idents, NEW q \in MgProcs, NEW k \in Nat,
              ProxyStep(x, i, q, k)
       PROVE  CountsExact' /\ ReferentKept'
  <2>1. Serving' = Serving
    BY <1>13 DEF ProxyStep
  <2>2. Serving => \A j \in Idents : RefsOk(j)
    BY RefsAre DEF MgInv, ManagersSafe
  <2>3. Serving' => \A j \in Idents : RefsOk(j)'
    BY <1>13, <2>1, <2>2, RefsOne, RefsOthers
  <2> QED
    BY <1>a, <2>3, RefsAreNext
<1> QED
  BY <1>1, <1>2, <1>3, <1>4, <1>5, <1>6, <1>7, ProxySteps,
     <1>8, <1>9, <1>10, <1>11, <1>12, <1>13
  DEF MgNext, MgShutdownStep

\* Shared objects live exactly as long as a reference does, proxies reach the
\* object they took theirs to, and keep the connection they wait on, for any
\* number of clients, of proxies and of objects.
THEOREM ManagersAreSafe == MgSpec => []ManagersSafe
<1>1. MgInv /\ [MgNext]_mgVars => MgInv'
  BY MgTypeNext, MgBeforeNext, MgCallsNext, MgRefsNext DEF MgInv, ManagersSafe
<1>2. MgInv => ManagersSafe
  BY DEF MgInv
<1> QED
  BY <1>1, <1>2, MgInvInit, PTL DEF MgSpec

=============================================================================
