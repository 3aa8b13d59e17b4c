----------------------------- MODULE QueueProofs -----------------------------
(***************************************************************************)
(* Proofs about the queue: that its counts are right and that the items of *)
(* one process stay in order from its buffer through the pipe.  The items  *)
(* that were received and those in the pipe form one sequence, the wire;   *)
(* the invariant says what of each process's items is on it, and that the  *)
(* feeder and the buffer of the process hold the rest, in order.           *)
(***************************************************************************)
EXTENDS Queue, FiniteSetTheorems, SequenceTheorems, TLAPS

\* Process p has put item i; somebody has; it was received.
PutBy(i, p) == \E k \in DOMAIN puts[p] : puts[p][k] = i
IsPut(i) == \E p \in Procs : PutBy(i, p)
IsGot(i) == \E n \in DOMAIN got : got[n] = i
PutItems == {i \in Items : IsPut(i)}

\* Everything that was ever written to the pipe, in that order.
Wire == got \o pipe

\* A buffer b of a process that put the items u and whose feeder has f: it ends
\* with the sentinel; the items in it; how many have left it, and how many of
\* those are in the pipe or beyond.
SealedBy(b) == b # <<>> /\ b[Len(b)] = Nothing
Waiting(b) == IF SealedBy(b) THEN Len(b) - 1 ELSE Len(b)
Popped(b, u) == Len(u) - Waiting(b)
SentOf(b, u, f) == IF f = Nothing THEN Popped(b, u) ELSE Popped(b, u) - 1

\* The buffer holds the end of what the process put, behind it the sentinel at
\* most, and the feeder the item before.
Line(b, u, f) ==
  /\ Waiting(b) <= Len(u)
  /\ \A n \in 1..Waiting(b) : b[n] = u[Popped(b, u) + n]
  /\ f # Nothing => Popped(b, u) > 0 /\ f = u[Popped(b, u)]

Sealed(p) == SealedBy(buffer[p])
Sent(p) == SentOf(buffer[p], puts[p], fobj[p])

\* A process holds an item exactly while it puts one or has just received one;
\* no item is put twice, or held by two processes.
Distinct(u) ==
  \A p, q \in Procs : \A k \in 1..Len(u[p]), l \in 1..Len(u[q]) :
    u[p][k] = u[q][l] => p = q /\ k = l

QMain ==
  /\ Distinct(puts)
  /\ \A p \in Procs :
       /\ obj[p] # Nothing <=> pc[p] \in {"append", "release", "trelease"}
       /\ pc[p] = "append" => ~IsPut(obj[p])
       /\ pc[p] \in {"release", "trelease"} => IsGot(obj[p])
  /\ \A p, q \in Procs : obj[p] = obj[q] /\ obj[p] # Nothing => p = q

QBuffer(p) == Line(buffer[p], puts[p], fobj[p])

\* The feeder has an item exactly between the two ends of its loop.
QFeeder(p) ==
  /\ fpc[p] \in {"lock", "write"} => fobj[p] # Nothing
  /\ fpc[p] \in {"none", "check", "nwait", "pop", "done"} => fobj[p] = Nothing
  /\ fpc[p] = "none" => p \notin closer /\ buffer[p] = <<>>
  /\ fpc[p] = "done" => p \notin closer /\ buffer[p] = <<>>
  /\ Sealed(p) => p \notin closer
  /\ fpc[p] # "none" /\ p \notin closer => p \in closed \/ pc[p] \in {"exiting", "exited"}
  /\ pc[p] = "append" => p \notin closed

\* A wire w carries what the feeders sent, u[p] being what p put and s[p] how much
\* of that was sent: each item once, and those of one process in their order.
Carried(w, u, s) ==
  /\ \A m, n \in 1..Len(w) : w[m] = w[n] => m = n
  /\ \A n \in 1..Len(w) : \E p \in Procs : \E k \in 1..s[p] : w[n] = u[p][k]
  /\ \A p \in Procs : \A k \in 1..s[p] : \E n \in 1..Len(w) : w[n] = u[p][k]
  /\ \A p \in Procs, n \in 1..Len(w) : \A k \in 1..s[p] :
       w[n] = u[p][k] => \A j \in 1..(k - 1) : \E m \in 1..(n - 1) : w[m] = u[p][j]

SentAll == [p \in Procs |-> Sent(p)]
QWire == Carried(Wire, puts, SentAll)

QLine ==
  /\ QMain /\ QWire
  /\ \A p \in Procs : QBuffer(p) /\ QFeeder(p)

\* The items between put and the release of their slot.
Transit == {i \in Items : (\E p \in Procs : obj[p] = i) \/ (IsPut(i) /\ ~IsGot(i))}
QSlots == sem + Cardinality(Transit) = MaxSize

\* Items are reported once, after they were received; _unfinished_tasks counts the
\* ones put and not reported, but for one that is just being counted.
QCond == \A p \in Procs : pc[p] = "count" <=> cond = p
QReports ==
  /\ \A p \in Procs : \A i \in todo[p] :
       /\ IsGot(i) /\ i \notin done
       /\ \A q \in Procs : obj[q] # i /\ (i \in todo[q] => p = q)
  /\ \A i \in done : IsGot(i) /\ \A q \in Procs : obj[q] # i
QCounted ==
  unfinished + Cardinality(done) + (IF cond = NoProc THEN 0 ELSE 1) = Cardinality(PutItems)
QJoins ==
  /\ \A p \in Procs : before[p] \subseteq PutItems
  /\ TaskDoneNeverFails /\ JoinWaitsForAll

QTasks == QCond /\ QReports /\ QCounted /\ QJoins

\* A feeder that has to be waited for has ended when its process has left.
QExit ==
  /\ joined \subseteq closed
  /\ \A p \in Procs : p # Creator /\ p \notin cancelled =>
       /\ fpc[p] # "none" => p \in jointhread \/ FeederEnded(p)
       /\ pc[p] = "exited" \/ p \in joined => FeederEnded(p)

QInv == TypeOK /\ QLine /\ QSlots /\ QTasks /\ QExit

\* What Append and Tail do to a sequence.
LEMMA QAppend ==
  ASSUME NEW S, NEW s \in Seq(S), NEW e \in S
  PROVE  /\ Append(s, e) \in Seq(S) /\ Append(s, e) # <<>>
         /\ Len(s) \in Nat /\ Len(Append(s, e)) = Len(s) + 1
         /\ \A n \in 1..Len(s) : Append(s, e)[n] = s[n]
         /\ Append(s, e)[Len(s) + 1] = e
  OBVIOUS

\* Tail drops the first element.
LEMMA QTail ==
  ASSUME NEW S, NEW s \in Seq(S), s # <<>>
  PROVE  /\ Tail(s) \in Seq(S) /\ Len(s) \in Nat \ {0} /\ Len(Tail(s)) = Len(s) - 1
         /\ \A n \in 1..(Len(s) - 1) : Tail(s)[n] = s[n + 1]
         /\ Head(s) = s[1] /\ Head(s) \in S
  OBVIOUS

\* The steps of the queue.
LEMMA QSteps ==
  ASSUME Next
  PROVE  \E p \in Procs :
           \/ \E i \in Items : PutAcquire(p, i) \/ TaskDone(p, i)
           \/ \E mode \in {"recv", "trecv"} : GetLock(p, mode)
           \/ GetEmpty(p) \/ JoinBegin(p) \/ Close(p) \/ JoinThread(p)
           \/ CancelJoinThread(p) \/ ExitBegin(p)
           \/ PutAppend(p) \/ PutCount(p) \/ GetRecv(p) \/ GetRelease(p) \/ JoinEnd(p)
           \/ ExitEnd(p)
           \/ FeedCheck(p) \/ FeedPop(p) \/ FeedLock(p) \/ FeedWrite(p) \/ FeedBroken(p)
  BY DEF Next, Call, MainStep, FeedStep

\* The types hold at the start and every step keeps them.
LEMMA QTypeInit == Init => TypeOK
<1> SUFFICES ASSUME Init PROVE TypeOK
  OBVIOUS
<1>1. <<>> \in Seq(Items) /\ <<>> \in Seq(Items \cup {Nothing}) /\ MaxSize \in Nat
  BY QueueAssumption
<1>2. tooMany \in BOOLEAN
  BY Zenon DEF Init
<1> QED
  BY <1>1, <1>2 DEF Init, TypeOK

\* What _finalize_close writes has its type.
LEMMA SealedType ==
  ASSUME TypeOK, NEW p \in Procs, FinalizeClose(p)
  PROVE  /\ buffer' \in [Procs -> Seq(Items \cup {Nothing})] /\ closer' \subseteq Procs
         /\ fpc' \in [Procs -> {"none", "check", "nwait", "pop", "lock", "write", "done",
                                "failed", "killed"}]
<1>0. fpc' \in [Procs -> {"none", "check", "nwait", "pop", "lock", "write", "done",
                          "failed", "killed"}]
  <2>1. fpc' = fpc \/ fpc' = [fpc EXCEPT ![p] = "pop"] \/ fpc' = [fpc EXCEPT ![p] = @]
    BY DEF FinalizeClose, Notify
  <2> QED
    BY <2>1 DEF TypeOK
<1>1. closer' \subseteq Procs
  BY DEF TypeOK, FinalizeClose
<1>2. Append(buffer[p], Nothing) \in Seq(Items \cup {Nothing})
  BY DEF TypeOK
<1> QED
  BY <1>0, <1>1, <1>2 DEF TypeOK, FinalizeClose

\* Every step keeps the types.
LEMMA QTypeNext == TypeOK /\ QLine /\ [Next]_vars => TypeOK'
<1> SUFFICES ASSUME TypeOK, QLine, [Next]_vars PROVE TypeOK'
  OBVIOUS
<1> USE QueueAssumption
<1>0. CASE UNCHANGED vars
  BY <1>0 DEF TypeOK, vars, lockVars, feedVars, closeVars, taskVars
<1>a. CASE Next
  <2> PICK p \in Procs :
           \/ \E i \in Items : PutAcquire(p, i) \/ TaskDone(p, i)
           \/ \E mode \in {"recv", "trecv"} : GetLock(p, mode)
           \/ GetEmpty(p) \/ JoinBegin(p) \/ Close(p) \/ JoinThread(p)
           \/ CancelJoinThread(p) \/ ExitBegin(p)
           \/ PutAppend(p) \/ PutCount(p) \/ GetRecv(p) \/ GetRelease(p) \/ JoinEnd(p)
           \/ ExitEnd(p)
           \/ FeedCheck(p) \/ FeedPop(p) \/ FeedLock(p) \/ FeedWrite(p) \/ FeedBroken(p)
    BY <1>a, QSteps
  <2>1. ASSUME NEW i \in Items, PutAcquire(p, i) PROVE TypeOK'
    BY <2>1 DEF PutAcquire, Goto, TypeOK, lockVars, feedVars, closeVars, taskVars
  <2>2. ASSUME NEW i \in Items, TaskDone(p, i) PROVE TypeOK'
    <3>0. tooMany' \in BOOLEAN
      BY <2>2, Zenon DEF TaskDone, TypeOK
    <3>1. /\ unfinished' \in Nat
          /\ pc' \in [Procs -> {"idle", "append", "count", "recv", "trecv", "release",
                                "trelease", "jwait", "jwake", "exiting", "exited"}]
      BY <2>2 DEF TaskDone, TypeOK
    <3>2. todo' \in [Procs -> SUBSET Items] /\ done' \subseteq Items
      BY <2>2 DEF TaskDone, TypeOK
    <3> QED
      BY <2>2, <3>0, <3>1, <3>2 DEF TaskDone, TypeOK, lockVars, feedVars, closeVars
  <2>3. ASSUME NEW mode \in {"recv", "trecv"}, GetLock(p, mode) PROVE TypeOK'
    BY <2>3 DEF GetLock, Goto, TypeOK, lockVars, feedVars, closeVars, taskVars
  <2>4. CASE GetEmpty(p)
    BY <2>4 DEF GetEmpty, Goto, TypeOK, lockVars, feedVars, closeVars, taskVars
  <2>5. CASE JoinBegin(p)
    BY <2>5 DEF JoinBegin, Goto, TypeOK, Counted, lockVars, feedVars, closeVars, taskVars
  <2>6. CASE Close(p)
    <3>1. /\ buffer' \in [Procs -> Seq(Items \cup {Nothing})] /\ closer' \subseteq Procs
          /\ fpc' \in [Procs -> {"none", "check", "nwait", "pop", "lock", "write", "done",
                                 "failed", "killed"}]
      BY <2>6, SealedType DEF Close
    <3> QED
      BY <2>6, <3>1 DEF Close, Goto, TypeOK, lockVars, closeVars, taskVars
  <2>7. CASE JoinThread(p)
    BY <2>7 DEF JoinThread, Goto, TypeOK, lockVars, feedVars, closeVars, taskVars
  <2>8. CASE CancelJoinThread(p)
    BY <2>8 DEF CancelJoinThread, Goto, TypeOK, lockVars, feedVars, closeVars, taskVars
  <2>9. CASE ExitBegin(p)
    <3>1. /\ buffer' \in [Procs -> Seq(Items \cup {Nothing})] /\ closer' \subseteq Procs
          /\ fpc' \in [Procs -> {"none", "check", "nwait", "pop", "lock", "write", "done",
                                 "failed", "killed"}]
      BY <2>9, SealedType DEF ExitBegin
    <3> QED
      BY <2>9, <3>1 DEF ExitBegin, Goto, TypeOK, lockVars, closeVars, taskVars
  <2>10. CASE PutAppend(p)
    <3>1. obj[p] \in Items /\ buffer[p] \in Seq(Items \cup {Nothing}) /\ puts[p] \in Seq(Items)
      BY <2>10 DEF PutAppend, TypeOK, QLine, QMain
    <3>2. /\ Append(buffer[p], obj[p]) \in Seq(Items \cup {Nothing})
          /\ Append(puts[p], obj[p]) \in Seq(Items)
      BY <3>1, QAppend
    <3>3. /\ buffer' \in [Procs -> Seq(Items \cup {Nothing})] /\ puts' \in [Procs -> Seq(Items)]
      BY <2>10, <3>2 DEF PutAppend, TypeOK
    <3>4. /\ fpc' \in [Procs -> {"none", "check", "nwait", "pop", "lock", "write", "done",
                                 "failed", "killed"}]
          /\ closer' \subseteq Procs /\ jointhread' \subseteq Procs
      BY <2>10 DEF PutAppend, TypeOK
    <3>5. /\ pc' \in [Procs -> {"idle", "append", "count", "recv", "trecv", "release",
                                "trelease", "jwait", "jwake", "exiting", "exited"}]
          /\ obj' \in [Procs -> Items \cup {Nothing}]
      BY <2>10 DEF PutAppend, Goto, TypeOK
    <3> QED
      BY <2>10, <3>3, <3>4, <3>5 DEF PutAppend, TypeOK, taskVars
  <2>11. CASE PutCount(p)
    BY <2>11 DEF PutCount, Goto, TypeOK, Notify, lockVars, feedVars, closeVars, taskVars
  <2>12. CASE GetRecv(p)
    <3>1. Head(pipe) \in Items /\ pipe' \in Seq(Items) /\ got' \in Seq(Items)
      BY <2>12, QTail, QAppend DEF GetRecv, TypeOK
    <3> QED
      BY <2>12, <3>1 DEF GetRecv, Goto, TypeOK, feedVars, closeVars, taskVars
  <2>13. CASE GetRelease(p)
    BY <2>13 DEF GetRelease, Goto, TypeOK, QLine, QMain, lockVars, feedVars, closeVars, taskVars
  <2>14. CASE JoinEnd(p)
    BY <2>14 DEF JoinEnd, Goto, TypeOK, lockVars, feedVars, closeVars, taskVars
  <2>15. CASE ExitEnd(p)
    BY <2>15 DEF ExitEnd, Goto, TypeOK, FeederEnded, lockVars, feedVars, closeVars, taskVars
  <2>16. CASE FeedCheck(p)
    BY <2>16 DEF FeedCheck, Goto, TypeOK, lockVars, feedVars, closeVars, taskVars
  <2>17. CASE FeedPop(p)
    <3>1. buffer[p] # <<>> => /\ Head(buffer[p]) \in Items \cup {Nothing}
                              /\ Tail(buffer[p]) \in Seq(Items \cup {Nothing})
      BY QTail DEF TypeOK
    <3>2. /\ fobj' \in [Procs -> Items \cup {Nothing}]
          /\ buffer' \in [Procs -> Seq(Items \cup {Nothing})]
      <4>1. CASE UNCHANGED <<buffer, fobj>>
        BY <4>1 DEF TypeOK
      <4>2. CASE /\ buffer[p] # <<>>
                 /\ buffer' = [buffer EXCEPT ![p] = Tail(@)]
                 /\ fobj' = [fobj EXCEPT ![p] = Head(buffer[p])]
        BY <3>1, <4>2 DEF TypeOK
      <4> QED
        BY <2>17, <4>1, <4>2 DEF FeedPop
    <3>3. fpc' \in [Procs -> {"none", "check", "nwait", "pop", "lock", "write", "done",
                             "failed", "killed"}]
      <4>1. \E l \in {"check", "done", "failed", "lock"} : fpc' = [fpc EXCEPT ![p] = l]
        BY <2>17 DEF FeedPop
      <4> QED
        BY <4>1 DEF TypeOK
    <3> QED
      BY <2>17, <3>2, <3>3 DEF FeedPop, TypeOK, lockVars, closeVars, taskVars
  <2>18. CASE FeedLock(p)
    BY <2>18 DEF FeedLock, Goto, TypeOK, lockVars, feedVars, closeVars, taskVars
  <2>19. CASE FeedWrite(p)
    BY <2>19 DEF FeedWrite, Goto, TypeOK, QLine, QFeeder, lockVars, feedVars, closeVars, taskVars
  <2>20. CASE FeedBroken(p)
    BY <2>20 DEF FeedBroken, Goto, TypeOK, lockVars, feedVars, closeVars, taskVars
  <2> QED
    BY <2>1, <2>2, <2>3, <2>4, <2>5, <2>6, <2>7, <2>8, <2>9, <2>10,
       <2>11, <2>12, <2>13, <2>14, <2>15, <2>16, <2>17, <2>18, <2>19, <2>20
<1> QED
  BY <1>0, <1>a

\* Arithmetic on positions.
LEMMA Minus ==
  /\ \A x, y \in Nat : y <= x => /\ x - y \in Nat /\ (x + 1) - (y + 1) = x - y
                                 /\ (x - y) + y = x /\ x - y <= x
  /\ \A x \in Nat : \A n \in 1..(x + 1) : n \in 1..x \/ n = x + 1
  /\ \A x \in Nat \ {0} : x >= 1 /\ (x # 1 => x - 1 >= 1)
  /\ \A x \in Nat \ {0} : x = 1 \/ (x > 1 /\ x - 1 \in 1..(x - 1) /\ (x - 1) + 1 = x)
  OBVIOUS

\* The numbers of a line are numbers.
LEMMA LineTypes ==
  ASSUME NEW b \in Seq(Items \cup {Nothing}), NEW u \in Seq(Items), NEW f
  PROVE  /\ Len(b) \in Nat /\ Len(u) \in Nat
         /\ Waiting(b) \in Nat /\ Popped(b, u) \in Int /\ SentOf(b, u, f) \in Int
         /\ Waiting(b) <= Len(b) /\ Popped(b, u) + Waiting(b) = Len(u)
         /\ Waiting(b) <= Len(u) => Popped(b, u) \in Nat
<1>1. Len(b) \in Nat /\ Len(u) \in Nat
  OBVIOUS
<1>2. Waiting(b) \in Nat /\ Waiting(b) <= Len(b)
  BY <1>1 DEF Waiting, SealedBy
<1>3. Popped(b, u) \in Int /\ Popped(b, u) + Waiting(b) = Len(u)
  BY <1>1, <1>2 DEF Popped
<1>4. SentOf(b, u, f) \in Int
  BY <1>3 DEF SentOf
<1> QED
  BY <1>1, <1>2, <1>3, <1>4

\* The sentinel is appended to a buffer that has none.
LEMMA LineSealed ==
  ASSUME NEW b \in Seq(Items \cup {Nothing}), NEW u \in Seq(Items), NEW f, Line(b, u, f),
         ~SealedBy(b), NEW b1, b1 = Append(b, Nothing)
  PROVE  SealedBy(b1) /\ SentOf(b1, u, f) = SentOf(b, u, f) /\ Line(b1, u, f)
<1>1. Len(b) \in Nat /\ Waiting(b) = Len(b)
  BY DEF Waiting
<1>2. /\ b1 # <<>> /\ Len(b1) = Len(b) + 1 /\ b1[Len(b) + 1] = Nothing
      /\ \A n \in 1..Len(b) : b1[n] = b[n]
  OBVIOUS
<1>3. SealedBy(b1) /\ Waiting(b1) = Waiting(b)
  BY <1>1, <1>2 DEF SealedBy, Waiting
<1> QED
  BY <1>1, <1>2, <1>3 DEF Popped, SentOf, Line

\* put appends its item to a buffer without the sentinel.
LEMMA LineGrows ==
  ASSUME NEW b \in Seq(Items \cup {Nothing}), NEW u \in Seq(Items), NEW f, Line(b, u, f),
         ~SealedBy(b), NEW i \in Items
  PROVE  /\ ~SealedBy(Append(b, i)) /\ Line(Append(b, i), Append(u, i), f)
         /\ SentOf(Append(b, i), Append(u, i), f) = SentOf(b, u, f)
<1>0. PICK b1, u1 : b1 = Append(b, i) /\ u1 = Append(u, i)
  OBVIOUS
<1>1. Len(b) \in Nat /\ Len(u) \in Nat /\ Waiting(b) = Len(b)
  BY DEF Waiting
<1>2. /\ b1 # <<>> /\ Len(b1) = Len(b) + 1 /\ b1[Len(b) + 1] = i
      /\ \A n \in 1..Len(b) : b1[n] = b[n]
  BY <1>0
<1>3. /\ Len(u1) = Len(u) + 1 /\ u1[Len(u) + 1] = i
      /\ \A n \in 1..Len(u) : u1[n] = u[n]
  BY <1>0
<1>4. ~SealedBy(b1) /\ Waiting(b1) = Waiting(b) + 1
  BY <1>1, <1>2, QueueAssumption DEF SealedBy, Waiting
<1>5. PICK k \in Nat : k = Popped(b, u) /\ k = Popped(b1, u1) /\ k + Len(b) = Len(u)
  <2>1. Len(b) <= Len(u)
    BY <1>1 DEF Line
  <2>2. Popped(b, u) = Len(u) - Len(b) /\ Popped(b1, u1) = (Len(u) + 1) - (Len(b) + 1)
    BY <1>1, <1>3, <1>4 DEF Popped
  <2>3. /\ Popped(b, u) \in Nat /\ Popped(b1, u1) = Popped(b, u)
        /\ Popped(b, u) + Len(b) = Len(u)
    BY <1>1, <2>1, <2>2, Minus
  <2> QED
    BY <2>3
<1>6. SentOf(b1, u1, f) = SentOf(b, u, f) /\ SentOf(b, u, f) <= Len(u)
  BY <1>1, <1>5 DEF SentOf
<1>7. ASSUME NEW n \in 1..(Len(b) + 1) PROVE b1[n] = u1[k + n]
  <2>1. CASE n \in 1..Len(b)
    BY <1>1, <1>2, <1>3, <1>5, <2>1 DEF Line
  <2>2. CASE n = Len(b) + 1
    BY <1>2, <1>3, <1>5, <2>2
  <2> QED
    BY <1>1, <1>7, <2>1, <2>2, Minus
<1>8. f # Nothing => k > 0 /\ f = u1[k]
  BY <1>1, <1>3, <1>5 DEF Line
<1> QED
  BY <1>0, <1>1, <1>3, <1>4, <1>5, <1>6, <1>7, <1>8 DEF Line

\* popleft by a feeder that has no item.
LEMMA LinePops ==
  ASSUME NEW b \in Seq(Items \cup {Nothing}), NEW u \in Seq(Items), Line(b, u, Nothing),
         b # <<>>
  PROVE  /\ SentOf(Tail(b), u, Head(b)) = SentOf(b, u, Nothing) /\ Line(Tail(b), u, Head(b))
         /\ SealedBy(Tail(b)) => SealedBy(b)
         /\ Head(b) = Nothing => Tail(b) = <<>> /\ SealedBy(b)
<1>0. PICK b1, f : b1 = Tail(b) /\ f = Head(b)
  OBVIOUS
<1>1. /\ Len(b) \in Nat \ {0} /\ Len(u) \in Nat /\ Waiting(b) \in Nat /\ Waiting(b) <= Len(u)
      /\ Waiting(b) <= Len(b)
  BY LineTypes DEF Line
<1>2. /\ b1 \in Seq(Items \cup {Nothing}) /\ Len(b1) = Len(b) - 1 /\ f = b[1]
      /\ \A n \in 1..(Len(b) - 1) : b1[n] = b[n + 1]
  BY <1>0, QTail
<1>3. PICK k \in Nat : k = Popped(b, u) /\ k + Waiting(b) = Len(u) /\ SentOf(b, u, Nothing) = k
  <2>1. Popped(b, u) = Len(u) - Waiting(b) /\ SentOf(b, u, Nothing) = Popped(b, u)
    BY DEF Popped, SentOf
  <2> QED
    BY <1>1, <2>1, Minus
<1>4. ASSUME Len(b) = 1 /\ SealedBy(b)
      PROVE  /\ SentOf(b1, u, f) = SentOf(b, u, Nothing) /\ Line(b1, u, f)
             /\ f = Nothing => b1 = <<>> /\ SealedBy(b)
             /\ SealedBy(b1) => SealedBy(b)
  <2>1. f = Nothing /\ b1 = <<>> /\ Waiting(b) = 0
    BY <1>1, <1>2, <1>4 DEF SealedBy, Waiting
  <2>2. ~SealedBy(b1) /\ Waiting(b1) = 0
    BY <1>2, <1>4, <2>1 DEF SealedBy, Waiting
  <2>3. Popped(b1, u) = k
    BY <1>3, <2>1, <2>2 DEF Popped
  <2> QED
    BY <1>1, <1>3, <1>4, <2>1, <2>2, <2>3 DEF SentOf, Line
<1>5. ASSUME ~(Len(b) = 1 /\ SealedBy(b))
      PROVE  /\ SentOf(b1, u, f) = SentOf(b, u, Nothing) /\ Line(b1, u, f)
             /\ f = Nothing => b1 = <<>> /\ SealedBy(b)
             /\ SealedBy(b1) => SealedBy(b)
  <2>1. Waiting(b) >= 1
    <3>1. CASE SealedBy(b)
      <4>1. Waiting(b) = Len(b) - 1 /\ Len(b) # 1
        BY <1>5, <3>1 DEF Waiting
      <4> QED
        BY <1>1, <4>1, Minus
    <3>2. CASE ~SealedBy(b)
      <4>1. Waiting(b) = Len(b)
        BY <3>2 DEF Waiting
      <4> QED
        BY <1>1, <4>1, Minus
    <3> QED
      BY <3>1, <3>2
  <2>2. f = u[k + 1] /\ k + 1 \in 1..Len(u)
    BY <1>1, <1>2, <1>3, <2>1 DEF Line
  <2>3. f \in Items /\ f # Nothing
    BY <2>2, QueueAssumption, ElementOfSeq
  <2>4. (SealedBy(b1) <=> SealedBy(b)) /\ Waiting(b1) = Waiting(b) - 1
    <3>1. CASE Len(b) = 1
      <4>1. b1 = <<>> /\ ~SealedBy(b)
        BY <1>2, <1>5, <3>1
      <4> QED
        BY <1>2, <3>1, <4>1 DEF SealedBy, Waiting
    <3>2. CASE Len(b) > 1
      <4>1. b1 # <<>> /\ b1[Len(b1)] = b[Len(b)]
        <5>1. Len(b) - 1 \in 1..(Len(b) - 1) /\ (Len(b) - 1) + 1 = Len(b)
          BY <1>1, <3>2, Minus
        <5>2. b1[Len(b1)] = b[Len(b)]
          BY <1>2, <5>1
        <5>3. b1 # <<>>
          BY <1>2, <5>1
        <5> QED
          BY <5>2, <5>3
      <4> QED
        BY <1>1, <1>2, <3>2, <4>1 DEF SealedBy, Waiting
    <3> QED
      BY <1>1, <3>1, <3>2, Minus
  <2>5. Popped(b1, u) = k + 1
    BY <1>1, <1>3, <2>4 DEF Popped
  <2>6. ASSUME NEW n \in 1..Waiting(b1) PROVE b1[n] = u[k + 1 + n]
    <3>1. n + 1 \in 1..Waiting(b) /\ n \in 1..(Len(b) - 1)
      BY <1>1, <2>4
    <3>2. b[n + 1] = u[k + (n + 1)]
      BY <1>3, <3>1 DEF Line
    <3>3. k + (n + 1) = k + 1 + n
      BY <3>1
    <3> QED
      BY <1>2, <3>1, <3>2, <3>3
  <2>7. SentOf(b1, u, f) = k
    BY <2>3, <2>5 DEF SentOf
  <2>8. Line(b1, u, f)
    BY <1>1, <1>3, <2>2, <2>4, <2>5, <2>6 DEF Line
  <2> QED
    BY <1>3, <2>3, <2>4, <2>7, <2>8
<1>6. /\ SentOf(b1, u, f) = SentOf(b, u, Nothing) /\ Line(b1, u, f)
      /\ SealedBy(b1) => SealedBy(b)
      /\ f = Nothing => b1 = <<>> /\ SealedBy(b)
  BY <1>4, <1>5
<1> QED
  BY <1>0, <1>6

\* The feeder's item is written.
LEMMA LineWrites ==
  ASSUME NEW b \in Seq(Items \cup {Nothing}), NEW u \in Seq(Items), NEW f \in Items,
         Line(b, u, f)
  PROVE  /\ SentOf(b, u, Nothing) = SentOf(b, u, f) + 1 /\ Line(b, u, Nothing)
         /\ SentOf(b, u, f) \in Nat /\ SentOf(b, u, f) + 1 \in 1..Len(u)
         /\ f = u[SentOf(b, u, f) + 1]
<1>1. /\ Len(u) \in Nat /\ Popped(b, u) \in Nat /\ Popped(b, u) <= Len(u)
  <2>1. Waiting(b) <= Len(u) /\ Waiting(b) \in Nat /\ Len(u) \in Nat
    BY LineTypes DEF Line
  <2>2. Popped(b, u) = Len(u) - Waiting(b)
    BY DEF Popped
  <2> QED
    BY <2>1, <2>2, Minus
<1>2. f # Nothing
  BY QueueAssumption
<1> QED
  BY <1>1, <1>2 DEF SentOf, Line

\* More is put than was sent.
LEMMA CarriedMorePut ==
  ASSUME NEW w, NEW u, NEW v, NEW s, Carried(w, u, s),
         \A p \in Procs : \A k \in 1..s[p] : v[p][k] = u[p][k],
         \A p \in Procs : s[p] \in Int
  PROVE  Carried(w, v, s)
<1>1. \A n \in 1..Len(w) : \E p \in Procs : \E k \in 1..s[p] : w[n] = v[p][k]
  BY DEF Carried
<1>2. \A p \in Procs : \A k \in 1..s[p] : \E n \in 1..Len(w) : w[n] = v[p][k]
  BY DEF Carried
<1>3. ASSUME NEW p \in Procs, NEW n \in 1..Len(w), NEW k \in 1..s[p], w[n] = v[p][k],
             NEW j \in 1..(k - 1)
      PROVE  \E m \in 1..(n - 1) : w[m] = v[p][j]
  <2>1. w[n] = u[p][k] /\ j \in 1..s[p]
    BY <1>3
  <2>2. PICK m \in 1..(n - 1) : w[m] = u[p][j]
    BY <1>3, <2>1 DEF Carried
  <2> QED
    BY <2>1, <2>2
<1> QED
  BY <1>1, <1>2, <1>3 DEF Carried

\* The next item of p is sent.
LEMMA CarriedMoreSent ==
  ASSUME NEW w \in Seq(Items), NEW u \in [Procs -> Seq(Items)], NEW s \in [Procs -> Int],
         Carried(w, u, s), Distinct(u), NEW p \in Procs, s[p] \in Nat,
         s[p] + 1 \in 1..Len(u[p]), \A q \in Procs : s[q] <= Len(u[q]),
         NEW x, x = Append(w, u[p][s[p] + 1]), NEW t, t = [s EXCEPT ![p] = s[p] + 1]
  PROVE  Carried(x, u, t)
<1> DEFINE e == u[p][s[p] + 1]
<1>0. /\ e \in Items /\ Len(w) \in Nat
      /\ \A q \in Procs : Len(u[q]) \in Nat
  BY ElementOfSeq
<1>1. /\ Len(x) = Len(w) + 1 /\ x[Len(w) + 1] = e
      /\ \A n \in 1..Len(w) : x[n] = w[n]
  BY <1>0, QAppend
<1>2. /\ t[p] = s[p] + 1 /\ \A q \in Procs : q # p => t[q] = s[q]
      /\ \A q \in Procs : t[q] \in Int /\ 1..s[q] \subseteq 1..t[q]
  OBVIOUS
<1> HIDE DEF e
<1>3. \A n \in 1..Len(w) : w[n] # e
  <2> SUFFICES ASSUME NEW n \in 1..Len(w), w[n] = e PROVE FALSE
    OBVIOUS
  <2>0. PICK q \in Procs : \E k \in 1..s[q] : w[n] = u[q][k]
    BY DEF Carried
  <2>1. PICK k \in 1..s[q] : w[n] = u[q][k]
    BY <2>0
  <2>2. k \in 1..Len(u[q])
    BY <1>0
  <2>3. q = p /\ k = s[p] + 1
    <3>1. u[q][k] = u[p][s[p] + 1]
      BY <2>1 DEF e
    <3> QED
      BY <2>2, <3>1 DEF Distinct
  <2> QED
    BY <2>1, <2>3
<1>4. \A n \in 1..Len(x) : n \in 1..Len(w) \/ n = Len(w) + 1
  BY <1>0, <1>1, Minus
<1>5. ASSUME NEW m \in 1..Len(x), NEW n \in 1..Len(x), x[m] = x[n] PROVE m = n
  <2>1. CASE m \in 1..Len(w) /\ n \in 1..Len(w)
    BY <1>1, <1>5, <2>1 DEF Carried
  <2>2. CASE m = Len(w) + 1 \/ n = Len(w) + 1
    BY <1>1, <1>3, <1>4, <1>5, <2>2
  <2> QED
    BY <1>4, <2>1, <2>2
<1>6. ASSUME NEW n \in 1..Len(x) PROVE \E q \in Procs : \E k \in 1..t[q] : x[n] = u[q][k]
  <2>1. CASE n \in 1..Len(w)
    <3>0. PICK q \in Procs : \E k \in 1..s[q] : w[n] = u[q][k]
      BY <2>1 DEF Carried
    <3>1. PICK k \in 1..s[q] : w[n] = u[q][k]
      BY <3>0
    <3> QED
      BY <1>1, <1>2, <2>1, <3>1
  <2>2. CASE n = Len(w) + 1
    <3>1. x[n] = u[p][t[p]] /\ t[p] \in 1..t[p]
      BY <1>1, <1>2, <2>2 DEF e
    <3> QED
      BY <3>1
  <2> QED
    BY <1>4, <2>1, <2>2
<1>7. ASSUME NEW q \in Procs, NEW k \in 1..t[q] PROVE \E n \in 1..Len(x) : x[n] = u[q][k]
  <2>1. CASE k \in 1..s[q]
    <3>1. PICK n \in 1..Len(w) : w[n] = u[q][k]
      BY <2>1 DEF Carried
    <3> QED
      BY <1>0, <1>1, <3>1
  <2>2. CASE k \notin 1..s[q]
    <3>1. q = p /\ k = s[p] + 1
      BY <1>2, <2>2
    <3>2. x[Len(w) + 1] = u[q][k] /\ Len(w) + 1 \in 1..Len(x)
      BY <1>0, <1>1, <3>1 DEF e
    <3> QED
      BY <3>2
  <2> QED
    BY <2>1, <2>2
<1>8. ASSUME NEW q \in Procs, NEW n \in 1..Len(x), NEW k \in 1..t[q], x[n] = u[q][k],
             NEW j \in 1..(k - 1)
      PROVE  \E m \in 1..(n - 1) : x[m] = u[q][j]
  <2>0. k \in 1..Len(u[q]) /\ j \in 1..s[q]
    BY <1>0, <1>2
  <2>1. CASE n \in 1..Len(w)
    <3>0. PICK r \in Procs : \E l \in 1..s[r] : w[n] = u[r][l]
      BY <2>1 DEF Carried
    <3>1. PICK l \in 1..s[r] : w[n] = u[r][l]
      BY <3>0
    <3>2. r = q /\ l = k
      <4>1. l \in 1..Len(u[r])
        BY <1>0
      <4> QED
        <5>1. u[r][l] = u[q][k]
          BY <1>1, <1>8, <2>1, <3>1
        <5> QED
          BY <2>0, <4>1, <5>1 DEF Distinct
    <3>3. PICK m \in 1..(n - 1) : w[m] = u[q][j]
      BY <1>8, <2>1, <3>1, <3>2 DEF Carried
    <3> QED
      BY <1>0, <1>1, <2>1, <3>3
  <2>2. CASE n = Len(w) + 1
    <3>1. PICK m \in 1..Len(w) : w[m] = u[q][j]
      BY <2>0 DEF Carried
    <3> QED
      BY <1>0, <1>1, <2>2, <3>1
  <2> QED
    BY <1>4, <2>1, <2>2
<1> QED
  BY <1>5, <1>6, <1>7, <1>8 DEF Carried

\* The positions of the sequences.
LEMMA Domains ==
  ASSUME TypeOK
  PROVE  /\ DOMAIN got = 1..Len(got) /\ DOMAIN pipe = 1..Len(pipe)
         /\ \A p \in Procs : /\ DOMAIN puts[p] = 1..Len(puts[p])
                             /\ DOMAIN buffer[p] = 1..Len(buffer[p])
<1>1. got \in Seq(Items) /\ pipe \in Seq(Items)
  BY DEF TypeOK
<1>2. \A p \in Procs : puts[p] \in Seq(Items) /\ buffer[p] \in Seq(Items \cup {Nothing})
  BY DEF TypeOK
<1> QED
  BY <1>1, <1>2

\* What the wire is, position by position.
LEMMA WireAt ==
  ASSUME TypeOK
  PROVE  /\ Len(got) \in Nat /\ Len(pipe) \in Nat /\ Wire \in Seq(Items)
         /\ Len(Wire) = Len(got) + Len(pipe)
         /\ \A n \in 1..Len(got) : n \in 1..Len(Wire) /\ Wire[n] = got[n]
         /\ \A n \in 1..Len(pipe) : /\ Len(got) + n \in 1..Len(Wire)
                                    /\ Wire[Len(got) + n] = pipe[n]
         /\ \A n \in 1..Len(Wire) : n \notin 1..Len(got) =>
              n - Len(got) \in 1..Len(pipe) /\ Wire[n] = pipe[n - Len(got)]
<1>1. got \in Seq(Items) /\ pipe \in Seq(Items)
  BY DEF TypeOK
<1>2. Len(got) \in Nat /\ Len(pipe) \in Nat
  BY <1>1
<1>3. /\ Wire \in Seq(Items) /\ Len(Wire) = Len(got) + Len(pipe)
      /\ \A n \in 1..(Len(got) + Len(pipe)) :
           Wire[n] = IF n <= Len(got) THEN got[n] ELSE pipe[n - Len(got)]
  BY <1>1, ConcatProperties DEF Wire
<1>4. ASSUME NEW n \in 1..Len(got) PROVE n \in 1..Len(Wire) /\ Wire[n] = got[n]
  BY <1>2, <1>3
<1>5. ASSUME NEW n \in 1..Len(pipe)
      PROVE  Len(got) + n \in 1..Len(Wire) /\ Wire[Len(got) + n] = pipe[n]
  <2>1. /\ Len(got) + n \in 1..(Len(got) + Len(pipe)) /\ ~(Len(got) + n <= Len(got))
        /\ (Len(got) + n) - Len(got) = n
    BY <1>2
  <2> QED
    BY <1>3, <2>1
<1>6. ASSUME NEW n \in 1..Len(Wire), n \notin 1..Len(got)
      PROVE  n - Len(got) \in 1..Len(pipe) /\ Wire[n] = pipe[n - Len(got)]
  <2>1. n \in 1..(Len(got) + Len(pipe)) /\ ~(n <= Len(got)) /\ n - Len(got) \in 1..Len(pipe)
    BY <1>2, <1>3, <1>6
  <2> QED
    BY <1>3, <2>1
<1> QED
  BY <1>2, <1>3, <1>4, <1>5, <1>6

\* The numbers of items sent.
LEMMA SentTypes ==
  ASSUME TypeOK, QLine
  PROVE  /\ \A p \in Procs : /\ Len(puts[p]) \in Nat /\ Len(buffer[p]) \in Nat
                             /\ Sent(p) \in Int /\ Sent(p) <= Len(puts[p])
         /\ SentAll \in [Procs -> Int] /\ \A p \in Procs : SentAll[p] = Sent(p)
<1>1. ASSUME NEW p \in Procs
      PROVE  /\ Len(puts[p]) \in Nat /\ Len(buffer[p]) \in Nat
             /\ Sent(p) \in Int /\ Sent(p) <= Len(puts[p])
  <2>1. buffer[p] \in Seq(Items \cup {Nothing}) /\ puts[p] \in Seq(Items)
    BY DEF TypeOK
  <2>2. /\ Len(puts[p]) \in Nat /\ Len(buffer[p]) \in Nat
        /\ Waiting(buffer[p]) \in Nat /\ Sent(p) \in Int
        /\ Popped(buffer[p], puts[p]) \in Int
        /\ Popped(buffer[p], puts[p]) + Waiting(buffer[p]) = Len(puts[p])
    BY <2>1, LineTypes DEF Sent
  <2>3. Sent(p) = Popped(buffer[p], puts[p]) \/ Sent(p) = Popped(buffer[p], puts[p]) - 1
    BY DEF Sent, SentOf
  <2> QED
    BY <2>2, <2>3
<1> QED
  BY <1>1 DEF SentAll

\* What was received was put and sent.
LEMMA GotIsPut ==
  ASSUME TypeOK, QLine, NEW i, IsGot(i)
  PROVE  /\ IsPut(i) /\ i \in Items
         /\ \E p \in Procs : \E k \in 1..Sent(p) : k \in 1..Len(puts[p]) /\ puts[p][k] = i
<1>1. PICK n \in 1..Len(got) : got[n] = i
  BY DEF IsGot, TypeOK
<1>2. n \in 1..Len(Wire) /\ Wire[n] = i
  BY <1>1, WireAt
<1>3. PICK p \in Procs : \E k \in 1..SentAll[p] : Wire[n] = puts[p][k]
  BY <1>2 DEF QLine, QWire, Carried
<1>4. PICK k \in 1..Sent(p) : Wire[n] = puts[p][k]
  BY <1>3, SentTypes
<1>5. k \in 1..Len(puts[p])
  BY SentTypes
<1>6. IsPut(i)
  BY <1>2, <1>4, <1>5 DEF IsPut, PutBy, TypeOK
<1>7. i \in Items
  BY <1>1, ElementOfSeq DEF TypeOK
<1> QED
  BY <1>2, <1>4, <1>5, <1>6, <1>7

\* What is in the pipe was put and sent, not received, and is in nobody's hands.
LEMMA PipeIsPut ==
  ASSUME TypeOK, QLine, NEW n \in 1..Len(pipe)
  PROVE  /\ pipe[n] \in Items /\ IsPut(pipe[n]) /\ ~IsGot(pipe[n])
         /\ \A q \in Procs : obj[q] # pipe[n]
         /\ \E p \in Procs : \E k \in 1..Sent(p) : k \in 1..Len(puts[p]) /\ puts[p][k] = pipe[n]
<1>1. /\ Len(got) + n \in 1..Len(Wire) /\ Wire[Len(got) + n] = pipe[n]
      /\ Len(got) \in Nat
  BY WireAt
<1>2. PICK p \in Procs : \E k \in 1..SentAll[p] : Wire[Len(got) + n] = puts[p][k]
  BY <1>1 DEF QLine, QWire, Carried
<1>3. PICK k \in 1..Sent(p) : Wire[Len(got) + n] = puts[p][k]
  BY <1>2, SentTypes
<1>4. k \in 1..Len(puts[p])
  BY SentTypes
<1>5. IsPut(pipe[n])
  BY <1>1, <1>3, <1>4 DEF IsPut, PutBy, TypeOK
<1>6. pipe[n] \in Items
  BY ElementOfSeq DEF TypeOK
<1>7. ~IsGot(pipe[n])
  <2> SUFFICES ASSUME NEW m \in 1..Len(got), got[m] = pipe[n] PROVE FALSE
    BY DEF IsGot, TypeOK
  <2>1. m \in 1..Len(Wire) /\ Wire[m] = Wire[Len(got) + n]
    BY <1>1, WireAt
  <2>2. m = Len(got) + n
    BY <1>1, <2>1 DEF QLine, QWire, Carried
  <2> QED
    BY <1>1, <2>2
<1>8. \A q \in Procs : obj[q] # pipe[n]
  BY <1>5, <1>6, <1>7, QueueAssumption DEF QLine, QMain
<1> QED
  BY <1>1, <1>3, <1>4, <1>5, <1>6, <1>7, <1>8

\* What put and get add to the history.
LEMMA PutGrows ==
  ASSUME TypeOK, QLine, NEW p \in Procs, PutAppend(p)
  PROVE  /\ obj[p] \in Items /\ ~IsPut(obj[p]) /\ ~IsGot(obj[p])
         /\ \A i : IsPut(i)' <=> (IsPut(i) \/ i = obj[p])
         /\ \A i : IsGot(i)' <=> IsGot(i)
         /\ puts'[p] = Append(puts[p], obj[p]) /\ Len(puts[p]) \in Nat
         /\ Len(puts'[p]) = Len(puts[p]) + 1
         /\ puts'[p][Len(puts[p]) + 1] = obj[p]
         /\ \A k \in 1..Len(puts[p]) : puts'[p][k] = puts[p][k]
         /\ \A q \in Procs : q # p => puts'[q] = puts[q]
<1>1. /\ obj[p] \in Items /\ ~IsPut(obj[p])
  BY DEF PutAppend, TypeOK, QLine, QMain
<1>2. ~IsGot(obj[p])
  BY <1>1, GotIsPut
<1>3. /\ puts'[p] = Append(puts[p], obj[p])
      /\ \A q \in Procs : q # p => puts'[q] = puts[q]
      /\ puts[p] \in Seq(Items) /\ got' = got
  BY DEF PutAppend, TypeOK
<1>4. /\ puts'[p] \in Seq(Items) /\ Len(puts[p]) \in Nat
      /\ Len(puts'[p]) = Len(puts[p]) + 1
      /\ puts'[p][Len(puts[p]) + 1] = obj[p]
      /\ \A k \in 1..Len(puts[p]) : puts'[p][k] = puts[p][k]
  BY <1>1, <1>3, QAppend
<1>5. DOMAIN puts'[p] = 1..(Len(puts[p]) + 1) /\ DOMAIN puts[p] = 1..Len(puts[p])
  BY <1>3, <1>4
<1>6. ASSUME NEW i PROVE PutBy(i, p)' <=> (PutBy(i, p) \/ i = obj[p])
  <2>1. Len(puts[p]) + 1 \in DOMAIN puts'[p] /\ DOMAIN puts[p] \subseteq DOMAIN puts'[p]
    BY <1>4, <1>5
  <2>2. \A k \in DOMAIN puts'[p] : k \in DOMAIN puts[p] \/ k = Len(puts[p]) + 1
    BY <1>4, <1>5, Minus
  <2> QED
    BY <1>4, <1>5, <2>1, <2>2 DEF PutBy
<1>7. ASSUME NEW i PROVE IsPut(i)' <=> (IsPut(i) \/ i = obj[p])
  <2>1. \A q \in Procs : q # p => (PutBy(i, q)' <=> PutBy(i, q))
    BY <1>3 DEF PutBy
  <2> QED
    BY <1>6, <2>1 DEF IsPut
<1>8. ASSUME NEW i PROVE IsGot(i)' <=> IsGot(i)
  BY <1>3 DEF IsGot
<1> QED
  BY <1>1, <1>2, <1>3, <1>4, <1>7, <1>8

\* get moves the front of the pipe to what was received.
LEMMA GotGrows ==
  ASSUME TypeOK, QLine, NEW p \in Procs, GetRecv(p)
  PROVE  /\ Head(pipe) \in Items /\ IsPut(Head(pipe)) /\ ~IsGot(Head(pipe))
         /\ \A q \in Procs : obj[q] # Head(pipe)
         /\ \A i : IsPut(i)' <=> IsPut(i)
         /\ \A i : IsGot(i)' <=> (IsGot(i) \/ i = Head(pipe))
         /\ Wire' = Wire
<1>0. pipe \in Seq(Items) /\ got \in Seq(Items) /\ pipe # <<>>
  BY DEF GetRecv, TypeOK
<1>1. Head(pipe) = pipe[1] /\ 1 \in 1..Len(pipe) /\ Head(pipe) \in Items
  <2>1. Head(pipe) = pipe[1] /\ Len(pipe) \in Nat \ {0} /\ Head(pipe) \in Items
    BY <1>0, QTail
  <2>2. 1 \in 1..Len(pipe)
    BY <2>1
  <2> QED
    BY <2>1, <2>2
<1>2. IsPut(Head(pipe)) /\ ~IsGot(Head(pipe)) /\ \A q \in Procs : obj[q] # Head(pipe)
  BY <1>1, PipeIsPut
<1>3. got' = Append(got, Head(pipe)) /\ pipe' = Tail(pipe) /\ puts' = puts
  BY DEF GetRecv
<1>4. /\ got' \in Seq(Items) /\ Len(got) \in Nat
      /\ Len(got') = Len(got) + 1
      /\ got'[Len(got) + 1] = Head(pipe)
      /\ \A k \in 1..Len(got) : got'[k] = got[k]
  BY <1>0, <1>1, <1>3, QAppend
<1>5. DOMAIN got' = 1..(Len(got) + 1) /\ DOMAIN got = 1..Len(got)
  BY <1>0, <1>4
<1>6. ASSUME NEW i PROVE IsGot(i)' <=> (IsGot(i) \/ i = Head(pipe))
  <2>1. Len(got) + 1 \in DOMAIN got' /\ DOMAIN got \subseteq DOMAIN got'
    BY <1>4, <1>5
  <2>2. \A k \in DOMAIN got' : k \in DOMAIN got \/ k = Len(got) + 1
    BY <1>4, <1>5, Minus
  <2> QED
    BY <1>4, <1>5, <2>1, <2>2 DEF IsGot
<1>7. \A i : IsPut(i)' <=> IsPut(i)
  BY <1>3 DEF IsPut, PutBy
<1>8. Wire' = Wire
  <2>1. Append(got, Head(pipe)) \o Tail(pipe) = got \o pipe
    <3>1. Append(got, Head(pipe)) = got \o <<Head(pipe)>>
      BY <1>0, <1>1, AppendIsConcat
    <3>2. pipe = <<Head(pipe)>> \o Tail(pipe)
      BY <1>0, HeadTailProperties, ConcatProperties
    <3>3. <<Head(pipe)>> \in Seq(Items) /\ Tail(pipe) \in Seq(Items)
      BY <1>0, <1>1, QTail
    <3> QED
      BY <1>0, <3>1, <3>2, <3>3, ConcatAssociative
  <2> QED
    BY <1>3, <2>1 DEF Wire
<1> QED
  BY <1>1, <1>2, <1>6, <1>7, <1>8

\* Nothing is put or received and no thread takes or leaves an item.
LEMMA QuietMain ==
  ASSUME QMain, UNCHANGED <<obj, puts, got>>,
         \A q \in Procs : pc'[q] = pc[q] \/ ({pc[q], pc'[q]} \cap
                                             {"append", "release", "trelease"} = {})
  PROVE  QMain'
<1>1. \A i : (IsPut(i)' <=> IsPut(i)) /\ (IsGot(i)' <=> IsGot(i))
  BY DEF IsPut, PutBy, IsGot
<1>2. \A q \in Procs : \A l \in {"append", "release", "trelease"} :
        pc'[q] = l <=> pc[q] = l
  OBVIOUS
<1> QED
  BY <1>1, <1>2 DEF QMain, Distinct

\* Every step keeps what is known of the items in the hands of the processes.
LEMMA QMainNext == TypeOK /\ QLine /\ [Next]_vars => QMain'
<1> SUFFICES ASSUME TypeOK, QLine, [Next]_vars PROVE QMain'
  OBVIOUS
<1> USE QueueAssumption
<1>m. QMain
  BY DEF QLine
<1>0. CASE UNCHANGED vars
  BY <1>0, <1>m, QuietMain DEF vars
<1>a. CASE Next
  <2> PICK p \in Procs :
           \/ \E i \in Items : PutAcquire(p, i) \/ TaskDone(p, i)
           \/ \E mode \in {"recv", "trecv"} : GetLock(p, mode)
           \/ GetEmpty(p) \/ JoinBegin(p) \/ Close(p) \/ JoinThread(p)
           \/ CancelJoinThread(p) \/ ExitBegin(p)
           \/ PutAppend(p) \/ PutCount(p) \/ GetRecv(p) \/ GetRelease(p) \/ JoinEnd(p)
           \/ ExitEnd(p)
           \/ FeedCheck(p) \/ FeedPop(p) \/ FeedLock(p) \/ FeedWrite(p) \/ FeedBroken(p)
    BY <1>a, QSteps
  <2>t. pc \in [Procs -> {"idle", "append", "count", "recv", "trecv", "release",
                          "trelease", "jwait", "jwake", "exiting", "exited"}]
    BY DEF TypeOK
  <2>1. ASSUME NEW i \in Items, PutAcquire(p, i) PROVE QMain'
    <3>1. ~IsPut(i) /\ \A q \in Procs : obj[q] # i
      BY <2>1 DEF PutAcquire, IsPut, PutBy
    <3>2. \A j : (IsPut(j)' <=> IsPut(j)) /\ (IsGot(j)' <=> IsGot(j))
      BY <2>1 DEF PutAcquire, IsPut, PutBy, IsGot
    <3>3. /\ pc'[p] = "append" /\ obj'[p] = i
          /\ \A q \in Procs : q # p => pc'[q] = pc[q] /\ obj'[q] = obj[q]
          /\ puts' = puts
      BY <2>1 DEF PutAcquire, Goto, TypeOK
    <3> QED
      BY <1>m, <3>1, <3>2, <3>3 DEF QMain, Distinct
  <2>2. ASSUME NEW i \in Items, TaskDone(p, i) PROVE QMain'
    BY <2>2, <2>t, <1>m, QuietMain DEF TaskDone
  <2>3. ASSUME NEW mode \in {"recv", "trecv"}, GetLock(p, mode) PROVE QMain'
    BY <2>3, <2>t, <1>m, QuietMain DEF GetLock, Goto
  <2>4. CASE GetEmpty(p)
    BY <2>4, <2>t, <1>m, QuietMain DEF GetEmpty, Goto
  <2>5. CASE JoinBegin(p)
    BY <2>5, <2>t, <1>m, QuietMain DEF JoinBegin, Goto
  <2>6. CASE Close(p)
    BY <2>6, <2>t, <1>m, QuietMain DEF Close
  <2>7. CASE JoinThread(p)
    BY <2>7, <2>t, <1>m, QuietMain DEF JoinThread
  <2>8. CASE CancelJoinThread(p)
    BY <2>8, <2>t, <1>m, QuietMain DEF CancelJoinThread
  <2>9. CASE ExitBegin(p)
    BY <2>9, <2>t, <1>m, QuietMain DEF ExitBegin, Goto
  <2>10. CASE PutAppend(p)
    <3>1. /\ obj[p] \in Items /\ ~IsPut(obj[p])
          /\ \A i : IsPut(i)' <=> (IsPut(i) \/ i = obj[p])
          /\ \A i : IsGot(i)' <=> IsGot(i)
          /\ Len(puts[p]) \in Nat /\ Len(puts'[p]) = Len(puts[p]) + 1
          /\ puts'[p][Len(puts[p]) + 1] = obj[p]
          /\ \A k \in 1..Len(puts[p]) : puts'[p][k] = puts[p][k]
          /\ \A q \in Procs : q # p => puts'[q] = puts[q]
      BY <2>10, PutGrows
    <3>2. /\ pc[p] = "append" /\ pc'[p] = "count" /\ obj'[p] = Nothing
          /\ \A q \in Procs : q # p => pc'[q] = pc[q] /\ obj'[q] = obj[q]
      BY <2>10 DEF PutAppend, Goto, TypeOK
    <3>3. \A q \in Procs : \A l \in 1..Len(puts[q]) : puts[q][l] # obj[p]
      BY <3>1, Domains DEF IsPut, PutBy
    <3>4. \A q \in Procs : \A l \in 1..Len(puts'[q]) :
            \/ l \in 1..Len(puts[q]) /\ puts'[q][l] = puts[q][l]
            \/ q = p /\ l = Len(puts[p]) + 1 /\ puts'[q][l] = obj[p]
      BY <3>1, Minus
    <3>5. Distinct(puts')
      <4> SUFFICES ASSUME NEW q \in Procs, NEW r \in Procs, NEW k \in 1..Len(puts'[q]),
                          NEW l \in 1..Len(puts'[r]), puts'[q][k] = puts'[r][l]
                   PROVE  q = r /\ k = l
        BY DEF Distinct
      <4> QED
        BY <1>m, <3>3, <3>4 DEF QMain, Distinct
    <3> QED
      BY <1>m, <3>1, <3>2, <3>5 DEF QMain
  <2>11. CASE PutCount(p)
    BY <2>11, <2>t, <1>m, QuietMain DEF PutCount, Goto
  <2>12. CASE GetRecv(p)
    <3>1. /\ Head(pipe) \in Items /\ \A q \in Procs : obj[q] # Head(pipe)
          /\ \A i : IsPut(i)' <=> IsPut(i)
          /\ \A i : IsGot(i)' <=> (IsGot(i) \/ i = Head(pipe))
      BY <2>12, GotGrows
    <3>2. /\ pc'[p] \in {"release", "trelease"} /\ obj'[p] = Head(pipe)
          /\ \A q \in Procs : q # p => pc'[q] = pc[q] /\ obj'[q] = obj[q]
          /\ puts' = puts
      BY <2>12 DEF GetRecv, Goto, TypeOK
    <3> QED
      BY <1>m, <3>1, <3>2 DEF QMain, Distinct
  <2>13. CASE GetRelease(p)
    <3>1. \A j : (IsPut(j)' <=> IsPut(j)) /\ (IsGot(j)' <=> IsGot(j))
      BY <2>13 DEF GetRelease, IsPut, PutBy, IsGot
    <3>2. /\ pc'[p] = "idle" /\ obj'[p] = Nothing
          /\ \A q \in Procs : q # p => pc'[q] = pc[q] /\ obj'[q] = obj[q]
          /\ puts' = puts
      BY <2>13 DEF GetRelease, Goto, TypeOK
    <3> QED
      BY <1>m, <3>1, <3>2 DEF QMain, Distinct
  <2>14. CASE JoinEnd(p)
    BY <2>14, <2>t, <1>m, QuietMain DEF JoinEnd, Goto
  <2>15. CASE ExitEnd(p)
    BY <2>15, <2>t, <1>m, QuietMain DEF ExitEnd, Goto
  <2>16. CASE FeedCheck(p)
    BY <2>16, <2>t, <1>m, QuietMain DEF FeedCheck
  <2>17. CASE FeedPop(p)
    BY <2>17, <2>t, <1>m, QuietMain DEF FeedPop
  <2>18. CASE FeedLock(p)
    BY <2>18, <2>t, <1>m, QuietMain DEF FeedLock
  <2>19. CASE FeedWrite(p)
    BY <2>19, <2>t, <1>m, QuietMain DEF FeedWrite
  <2>20. CASE FeedBroken(p)
    BY <2>20, <2>t, <1>m, QuietMain DEF FeedBroken
  <2> QED
    BY <2>1, <2>2, <2>3, <2>4, <2>5, <2>6, <2>7, <2>8, <2>9, <2>10,
       <2>11, <2>12, <2>13, <2>14, <2>15, <2>16, <2>17, <2>18, <2>19, <2>20
<1> QED
  BY <1>0, <1>a

\* The same items were sent in the same order.
LEMMA WireKept ==
  ASSUME TypeOK, QLine, Wire' = Wire, \A q \in Procs : Sent(q)' = Sent(q),
         \A q \in Procs : \A k \in 1..Sent(q) : puts'[q][k] = puts[q][k]
  PROVE  QWire'
<1>1. SentAll' = SentAll
  BY DEF SentAll
<1>2. \A q \in Procs : SentAll[q] \in Int /\ SentAll[q] = Sent(q)
  BY SentTypes
<1>3. Carried(Wire, puts, SentAll)
  BY DEF QLine, QWire
<1>4. Carried(Wire, puts', SentAll)
  BY <1>2, <1>3, CarriedMorePut
<1> QED
  BY <1>1, <1>4 DEF QWire

\* No buffer, feeder or pipe changes.
LEMMA QuietLine ==
  ASSUME TypeOK, QLine, UNCHANGED <<buffer, fobj, puts, pipe, got>>
  PROVE  QWire' /\ \A q \in Procs : QBuffer(q)' /\ (Sealed(q)' <=> Sealed(q))
<1>1. \A q \in Procs : QBuffer(q)' /\ (Sealed(q)' <=> Sealed(q)) /\ Sent(q)' = Sent(q)
  BY DEF QLine, QBuffer, Sealed, Sent
<1>2. Wire' = Wire
  BY DEF Wire
<1> QED
  BY <1>1, <1>2, WireKept

\* _finalize_close seals a buffer once.
LEMMA SealLine ==
  ASSUME TypeOK, QLine, NEW p \in Procs, FinalizeClose(p), UNCHANGED <<fobj, puts, pipe, got>>
  PROVE  /\ QWire' /\ \A q \in Procs : QBuffer(q)'
         /\ \A q \in Procs : q # p => buffer'[q] = buffer[q]
<1>1. CASE p \notin closer
  <2>1. UNCHANGED buffer
    BY <1>1 DEF FinalizeClose
  <2> QED
    BY <2>1, QuietLine
<1>2. CASE p \in closer
  <2>1. ~SealedBy(buffer[p])
    BY <1>2 DEF QLine, QFeeder, Sealed
  <2>2. /\ buffer'[p] = Append(buffer[p], Nothing)
        /\ \A q \in Procs : q # p => buffer'[q] = buffer[q]
    BY <1>2 DEF FinalizeClose, TypeOK
  <2>3. /\ buffer[p] \in Seq(Items \cup {Nothing}) /\ puts[p] \in Seq(Items)
        /\ Line(buffer[p], puts[p], fobj[p])
    BY DEF TypeOK, QLine, QBuffer
  <2>4. /\ Line(buffer'[p], puts[p], fobj[p])
        /\ SentOf(buffer'[p], puts[p], fobj[p]) = SentOf(buffer[p], puts[p], fobj[p])
    BY <2>1, <2>2, <2>3, LineSealed
  <2>5. \A q \in Procs : QBuffer(q)' /\ Sent(q)' = Sent(q)
    BY <2>2, <2>4 DEF QBuffer, Sent, QLine
  <2>6. Wire' = Wire
    BY DEF Wire
  <2> QED
    BY <2>2, <2>5, <2>6, WireKept
<1> QED
  BY <1>1, <1>2

\* put appends to a buffer that is not sealed.
LEMMA GrowLine ==
  ASSUME TypeOK, QLine, NEW p \in Procs, PutAppend(p)
  PROVE  /\ QWire' /\ \A q \in Procs : QBuffer(q)'
         /\ \A q \in Procs : q # p => buffer'[q] = buffer[q]
         /\ ~Sealed(p)'
<1>1. ~SealedBy(buffer[p])
  <2>1. p \notin closed /\ pc[p] = "append"
    BY DEF PutAppend, QLine, QFeeder
  <2>2. CASE fpc[p] = "none"
    BY <2>2 DEF QLine, QFeeder, SealedBy
  <2>3. CASE fpc[p] # "none"
    BY <2>1, <2>3 DEF QLine, QFeeder, Sealed
  <2> QED
    BY <2>2, <2>3
<1>2. /\ buffer'[p] = Append(buffer[p], obj[p])
      /\ \A q \in Procs : q # p => buffer'[q] = buffer[q]
      /\ UNCHANGED <<fobj, pipe, got>>
  BY DEF PutAppend, TypeOK
<1>3. /\ obj[p] \in Items /\ puts'[p] = Append(puts[p], obj[p]) /\ Len(puts[p]) \in Nat
      /\ \A k \in 1..Len(puts[p]) : puts'[p][k] = puts[p][k]
      /\ \A q \in Procs : q # p => puts'[q] = puts[q]
  BY PutGrows
<1>4. /\ buffer[p] \in Seq(Items \cup {Nothing}) /\ puts[p] \in Seq(Items)
      /\ Line(buffer[p], puts[p], fobj[p])
  BY DEF TypeOK, QLine, QBuffer
<1>5. /\ ~SealedBy(buffer'[p])
      /\ SentOf(buffer'[p], puts'[p], fobj[p]) = SentOf(buffer[p], puts[p], fobj[p])
      /\ Line(buffer'[p], puts'[p], fobj[p])
  <2>1. /\ ~SealedBy(Append(buffer[p], obj[p]))
        /\ Line(Append(buffer[p], obj[p]), Append(puts[p], obj[p]), fobj[p])
        /\ SentOf(Append(buffer[p], obj[p]), Append(puts[p], obj[p]), fobj[p])
             = SentOf(buffer[p], puts[p], fobj[p])
    BY <1>1, <1>3, <1>4, LineGrows
  <2> QED
    BY <1>2, <1>3, <2>1
<1>6. \A q \in Procs : QBuffer(q)' /\ Sent(q)' = Sent(q)
  BY <1>2, <1>3, <1>5 DEF QBuffer, Sent, QLine
<1>7. Wire' = Wire
  BY <1>2 DEF Wire
<1>8. \A q \in Procs : \A k \in 1..Sent(q) : puts'[q][k] = puts[q][k]
  <2>1. \A k \in 1..Sent(p) : k \in 1..Len(puts[p])
    BY SentTypes
  <2> QED
    BY <1>3, <2>1
<1>9. QWire'
  BY <1>6, <1>7, <1>8, WireKept
<1> QED
  BY <1>2, <1>5, <1>6, <1>9 DEF Sealed

\* The feeder takes the first item of its buffer.
LEMMA PopLine ==
  ASSUME TypeOK, QLine, NEW p \in Procs, FeedPop(p)
  PROVE  /\ QWire' /\ \A q \in Procs : QBuffer(q)' /\ (Sealed(q)' => Sealed(q))
         /\ buffer[p] # <<>> /\ fobj'[p] = Nothing => buffer'[p] = <<>> /\ Sealed(p)
<1>0. fobj[p] = Nothing /\ UNCHANGED <<puts, pipe, got>>
  BY DEF FeedPop, QLine, QFeeder
<1>1. CASE buffer[p] = <<>>
  <2>1. UNCHANGED <<buffer, fobj>>
    BY <1>1 DEF FeedPop
  <2> QED
    BY <1>0, <1>1, <2>1, QuietLine
<1>2. CASE buffer[p] # <<>>
  <2>1. /\ buffer'[p] = Tail(buffer[p]) /\ fobj'[p] = Head(buffer[p])
        /\ \A q \in Procs : q # p => buffer'[q] = buffer[q] /\ fobj'[q] = fobj[q]
    BY <1>2 DEF FeedPop, TypeOK
  <2>2. /\ buffer[p] \in Seq(Items \cup {Nothing}) /\ puts[p] \in Seq(Items)
        /\ Line(buffer[p], puts[p], Nothing)
    BY <1>0 DEF TypeOK, QLine, QBuffer
  <2>3. /\ SentOf(buffer'[p], puts[p], fobj'[p]) = SentOf(buffer[p], puts[p], Nothing)
        /\ Line(buffer'[p], puts[p], fobj'[p])
        /\ SealedBy(buffer'[p]) => SealedBy(buffer[p])
        /\ fobj'[p] = Nothing => buffer'[p] = <<>> /\ SealedBy(buffer[p])
    <3>1. LET b == Tail(buffer[p])
              f == Head(buffer[p])
          IN  /\ SentOf(b, puts[p], f) = SentOf(buffer[p], puts[p], Nothing)
              /\ Line(b, puts[p], f)
              /\ SealedBy(b) => SealedBy(buffer[p])
              /\ f = Nothing => b = <<>> /\ SealedBy(buffer[p])
      BY <1>2, <2>2, LinePops
    <3> QED
      BY <2>1, <3>1
  <2>4. \A q \in Procs : QBuffer(q)' /\ Sent(q)' = Sent(q) /\ (Sealed(q)' => Sealed(q))
    BY <1>0, <2>1, <2>3 DEF QBuffer, Sent, Sealed, QLine
  <2>5. Wire' = Wire
    BY <1>0 DEF Wire
  <2>6. QWire'
    BY <1>0, <2>4, <2>5, WireKept
  <2> QED
    BY <2>3, <2>4, <2>6 DEF Sealed
<1> QED
  BY <1>1, <1>2

\* The feeder's item goes to the end of the pipe.
LEMMA WriteLine ==
  ASSUME TypeOK, QLine, NEW p \in Procs, FeedWrite(p)
  PROVE  QWire' /\ \A q \in Procs : QBuffer(q)' /\ (Sealed(q)' <=> Sealed(q))
<1>0. /\ fobj[p] \in Items /\ UNCHANGED <<puts, buffer, got>> /\ pipe' = Append(pipe, fobj[p])
      /\ fobj'[p] = Nothing /\ \A q \in Procs : q # p => fobj'[q] = fobj[q]
  BY DEF FeedWrite, TypeOK, QLine, QFeeder
<1>1. /\ buffer[p] \in Seq(Items \cup {Nothing}) /\ puts[p] \in Seq(Items)
      /\ Line(buffer[p], puts[p], fobj[p])
  BY DEF TypeOK, QLine, QBuffer
<1>2. /\ SentOf(buffer[p], puts[p], Nothing) = Sent(p) + 1
      /\ Line(buffer[p], puts[p], Nothing)
      /\ Sent(p) \in Nat /\ Sent(p) + 1 \in 1..Len(puts[p])
      /\ fobj[p] = puts[p][Sent(p) + 1]
  BY <1>0, <1>1, LineWrites DEF Sent
<1>3. \A q \in Procs : QBuffer(q)' /\ (Sealed(q)' <=> Sealed(q))
  BY <1>0, <1>2 DEF QBuffer, Sealed, QLine
<1>4. Sent(p)' = Sent(p) + 1 /\ \A q \in Procs : q # p => Sent(q)' = Sent(q)
  BY <1>0, <1>2 DEF Sent
<1>5. SentAll' = [SentAll EXCEPT ![p] = SentAll[p] + 1]
  BY <1>4 DEF SentAll
<1>6. Wire' = Append(Wire, puts[p][SentAll[p] + 1])
  <2>1. got \in Seq(Items) /\ pipe \in Seq(Items) /\ <<fobj[p]>> \in Seq(Items)
    BY <1>0 DEF TypeOK
  <2>2. Append(pipe, fobj[p]) = pipe \o <<fobj[p]>>
    BY <1>0, <2>1, AppendIsConcat
  <2>3. got \o (pipe \o <<fobj[p]>>) = (got \o pipe) \o <<fobj[p]>>
    BY <2>1, ConcatAssociative
  <2>4. (got \o pipe) \o <<fobj[p]>> = Append(got \o pipe, fobj[p])
    BY <1>0, <2>1, WireAt, AppendIsConcat DEF Wire
  <2>5. fobj[p] = puts[p][SentAll[p] + 1]
    BY <1>2 DEF SentAll
  <2> QED
    BY <1>0, <2>2, <2>3, <2>4, <2>5 DEF Wire
<1>7. /\ Wire \in Seq(Items) /\ puts \in [Procs -> Seq(Items)] /\ SentAll \in [Procs -> Int]
      /\ Carried(Wire, puts, SentAll) /\ Distinct(puts)
      /\ SentAll[p] \in Nat /\ SentAll[p] + 1 \in 1..Len(puts[p])
      /\ \A q \in Procs : SentAll[q] <= Len(puts[q])
  BY <1>2, WireAt, SentTypes DEF TypeOK, QLine, QWire, QMain
<1>8. Carried(Wire', puts, SentAll')
  BY <1>5, <1>6, <1>7, CarriedMoreSent
<1> QED
  BY <1>0, <1>3, <1>8 DEF QWire

\* The feeder of q and what it depends on do not change.
LEMMA QuietFeeder ==
  ASSUME NEW q \in Procs, QFeeder(q), fpc'[q] = fpc[q], fobj'[q] = fobj[q],
         buffer'[q] = buffer[q], q \in closer' <=> q \in closer, q \in closed' <=> q \in closed,
         pc'[q] = pc[q] \/ ({pc[q], pc'[q]} \cap {"append", "exiting", "exited"} = {})
  PROVE  QFeeder(q)'
  BY DEF QFeeder, Sealed

\* The feeder of p after _finalize_close, which close and the exit call.
LEMMA SealedFeeder ==
  ASSUME TypeOK, QLine, NEW p \in Procs, FinalizeClose(p), fobj' = fobj
  PROVE  /\ fpc'[p] \in {"lock", "write"} => fobj'[p] # Nothing
         /\ fpc'[p] \in {"none", "check", "nwait", "pop", "done"} => fobj'[p] = Nothing
         /\ p \notin closer'
         /\ fpc'[p] \in {"none", "done"} => buffer'[p] = <<>>
         /\ \A q \in Procs : q # p => /\ fpc'[q] = fpc[q] /\ buffer'[q] = buffer[q]
                                      /\ q \in closer' <=> q \in closer
<1>1. /\ fpc'[p] = fpc[p] \/ (fpc[p] = "nwait" /\ fpc'[p] = "pop")
      /\ p \notin closer'
      /\ p \notin closer => buffer'[p] = buffer[p]
      /\ \A q \in Procs : q # p => /\ fpc'[q] = fpc[q] /\ buffer'[q] = buffer[q]
                                   /\ q \in closer' <=> q \in closer
  BY DEF FinalizeClose, Notify, TypeOK
<1>2. QFeeder(p)
  BY DEF QLine
<1> QED
  BY <1>1, <1>2 DEF QFeeder

\* Every step keeps what is known of a feeder.
LEMMA QFeederNext == TypeOK /\ QLine /\ [Next]_vars => \A q \in Procs : QFeeder(q)'
<1> SUFFICES ASSUME TypeOK, QLine, [Next]_vars, NEW q \in Procs PROVE QFeeder(q)'
  OBVIOUS
<1>m. QFeeder(q)
  BY DEF QLine
<1>0. CASE UNCHANGED vars
  BY <1>0, <1>m, QuietFeeder DEF vars, feedVars, closeVars
<1>a. CASE Next
  <2> PICK p \in Procs :
           \/ \E i \in Items : PutAcquire(p, i) \/ TaskDone(p, i)
           \/ \E mode \in {"recv", "trecv"} : GetLock(p, mode)
           \/ GetEmpty(p) \/ JoinBegin(p) \/ Close(p) \/ JoinThread(p)
           \/ CancelJoinThread(p) \/ ExitBegin(p)
           \/ PutAppend(p) \/ PutCount(p) \/ GetRecv(p) \/ GetRelease(p) \/ JoinEnd(p)
           \/ ExitEnd(p)
           \/ FeedCheck(p) \/ FeedPop(p) \/ FeedLock(p) \/ FeedWrite(p) \/ FeedBroken(p)
    BY <1>a, QSteps
  <2>t. /\ pc \in [Procs -> {"idle", "append", "count", "recv", "trecv", "release",
                             "trelease", "jwait", "jwake", "exiting", "exited"}]
        /\ fpc \in [Procs -> {"none", "check", "nwait", "pop", "lock", "write",
                              "done", "failed", "killed"}]
        /\ fobj \in [Procs -> Items \cup {Nothing}]
        /\ buffer \in [Procs -> Seq(Items \cup {Nothing})]
    BY DEF TypeOK
  <2>1. ASSUME NEW i \in Items, PutAcquire(p, i) PROVE QFeeder(q)'
    <3>1. /\ p \notin closed'
          /\ q # p => pc'[q] = pc[q]
          /\ UNCHANGED <<fpc, fobj, buffer, closer, closed>> /\ pc[p] = "idle"
          /\ pc'[p] = "append"
      BY <2>1, <2>t DEF PutAcquire, Goto, feedVars, closeVars
    <3> QED
      BY <1>m, <3>1 DEF QFeeder, Sealed
  <2>2. ASSUME NEW i \in Items, TaskDone(p, i) PROVE QFeeder(q)'
    BY <2>2, <2>t, <1>m, QuietFeeder DEF TaskDone, feedVars, closeVars
  <2>3. ASSUME NEW mode \in {"recv", "trecv"}, GetLock(p, mode) PROVE QFeeder(q)'
    BY <2>3, <2>t, <1>m, QuietFeeder DEF GetLock, Goto, feedVars, closeVars
  <2>4. CASE GetEmpty(p)
    BY <2>4, <2>t, <1>m, QuietFeeder DEF GetEmpty, Goto, feedVars, closeVars
  <2>5. CASE JoinBegin(p)
    BY <2>5, <2>t, <1>m, QuietFeeder DEF JoinBegin, Goto, feedVars, closeVars
  <2>6. CASE Close(p)
    <3>1. /\ closed' = closed \cup {p} /\ pc' = pc /\ fobj' = fobj /\ pc[p] = "idle"
          /\ FinalizeClose(p)
      BY <2>6 DEF Close
    <3>2. CASE q # p
      BY <1>m, <3>1, <3>2, SealedFeeder, QuietFeeder
    <3>3. CASE q = p
      BY <3>1, <3>3, SealedFeeder DEF QFeeder
    <3> QED
      BY <3>2, <3>3
  <2>7. CASE JoinThread(p)
    BY <2>7, <2>t, <1>m, QuietFeeder DEF JoinThread, feedVars, closeVars
  <2>8. CASE CancelJoinThread(p)
    BY <2>8, <2>t, <1>m, QuietFeeder DEF CancelJoinThread, feedVars, closeVars
  <2>9. CASE ExitBegin(p)
    <3>1. /\ closed' = closed /\ pc'[p] = "exiting" /\ fobj' = fobj
          /\ q # p => pc'[q] = pc[q]
          /\ FinalizeClose(p)
      BY <2>9, <2>t DEF ExitBegin, Goto
    <3>2. CASE q # p
      BY <1>m, <3>1, <3>2, SealedFeeder, QuietFeeder
    <3>3. CASE q = p
      BY <3>1, <3>3, SealedFeeder DEF QFeeder
    <3> QED
      BY <3>2, <3>3
  <2>10. CASE PutAppend(p)
    <3>1. /\ q # p => buffer'[q] = buffer[q]
          /\ ~Sealed(p)'
      BY <2>10, GrowLine
    <3>2. /\ pc[p] = "append" /\ pc'[p] = "count"
          /\ q # p => pc'[q] = pc[q]
          /\ UNCHANGED <<fobj, closed>>
          /\ fpc[p] = "none" => fpc'[p] = "check" /\ closer' = closer \cup {p}
          /\ fpc[p] # "none" => UNCHANGED <<fpc, closer>>
          /\ q # p => fpc'[q] = fpc[q] /\ (q \in closer' <=> q \in closer)
      BY <2>10, <2>t DEF PutAppend, Goto
    <3>3. CASE q # p
      BY <1>m, <3>1, <3>2, <3>3, QuietFeeder
    <3>4. CASE q = p
      <4>1. fpc[p] # "none" => p \in closer
        BY <1>m, <3>2, <3>4 DEF QFeeder
      <4> QED
        BY <1>m, <3>1, <3>2, <3>4, <4>1 DEF QFeeder
    <3> QED
      BY <3>3, <3>4
  <2>11. CASE PutCount(p)
    <3>1. /\ pc[p] = "count" /\ pc'[p] = "idle"
          /\ q # p => pc'[q] = pc[q] /\ fpc'[q] = fpc[q]
          /\ UNCHANGED <<fobj, buffer, closed, closer>>
          /\ fpc'[q] = fpc[q] \/ (fpc[q] = "nwait" /\ fpc'[q] = "pop")
      BY <2>11, <2>t DEF PutCount, Goto, Notify, closeVars
    <3> QED
      BY <1>m, <3>1 DEF QFeeder, Sealed
  <2>12. CASE GetRecv(p)
    BY <2>12, <2>t, <1>m, QuietFeeder DEF GetRecv, Goto, feedVars, closeVars
  <2>13. CASE GetRelease(p)
    BY <2>13, <2>t, <1>m, QuietFeeder DEF GetRelease, Goto, feedVars, closeVars
  <2>14. CASE JoinEnd(p)
    BY <2>14, <2>t, <1>m, QuietFeeder DEF JoinEnd, Goto, feedVars, closeVars
  <2>15. CASE ExitEnd(p)
    <3>1. /\ pc[p] = "exiting" /\ pc'[p] = "exited"
          /\ q # p => pc'[q] = pc[q] /\ fpc'[q] = fpc[q]
          /\ UNCHANGED <<fobj, buffer, closed, closer>>
          /\ fpc'[p] = fpc[p] \/ (fpc[p] # "none" /\ fpc'[p] = "killed")
      BY <2>15, <2>t DEF ExitEnd, Goto, FeederEnded
    <3> QED
      BY <1>m, <3>1 DEF QFeeder, Sealed
  <2>16. CASE FeedCheck(p)
    <3>1. /\ q # p => fpc'[q] = fpc[q]
          /\ UNCHANGED <<pc, fobj, buffer, closed, closer>>
          /\ fpc[p] = "check" /\ fpc'[p] \in {"nwait", "pop"}
      BY <2>16, <2>t DEF FeedCheck, closeVars
    <3> QED
      BY <1>m, <3>1 DEF QFeeder, Sealed
  <2>17. CASE FeedPop(p)
    <3>1. /\ Sealed(q)' => Sealed(q)
          /\ buffer[p] # <<>> /\ fobj'[p] = Nothing => buffer'[p] = <<>> /\ Sealed(p)
      BY <2>17, PopLine
    <3>2. /\ fpc[p] = "pop" /\ UNCHANGED <<pc, closed, closer>>
          /\ q # p => fpc'[q] = fpc[q] /\ fobj'[q] = fobj[q] /\ buffer'[q] = buffer[q]
      BY <2>17, <2>t DEF FeedPop, closeVars
    <3>3. CASE q # p
      BY <1>m, <3>2, <3>3, QuietFeeder
    <3>4. CASE q = p
      <4>1. CASE buffer[p] = <<>>
        <5>1. fpc'[p] = "check" /\ fobj' = fobj
          BY <2>17, <2>t, <4>1 DEF FeedPop
        <5> QED
          BY <1>m, <3>1, <3>2, <3>4, <5>1 DEF QFeeder
      <4>2. CASE buffer[p] # <<>>
        <5>1. /\ fobj'[p] = Nothing => fpc'[p] = "done"
              /\ fobj'[p] # Nothing => fpc'[p] \in {"failed", "lock"}
          <6>1. /\ fobj'[p] = Head(buffer[p])
                /\ fpc'[p] = CASE Head(buffer[p]) = Nothing -> "done"
                               [] Head(buffer[p]) \in Unpicklable -> "failed"
                               [] OTHER -> "lock"
            BY <2>17, <2>t, <4>2 DEF FeedPop
          <6>2. Nothing \notin Unpicklable
            BY QueueAssumption
          <6> QED
            BY <6>1, <6>2
        <5>2. fobj'[p] = Nothing => buffer'[p] = <<>> /\ Sealed(p)
          BY <3>1, <4>2
        <5> QED
          BY <1>m, <3>1, <3>2, <3>4, <5>1, <5>2 DEF QFeeder
      <4> QED
        BY <4>1, <4>2
    <3> QED
      BY <3>3, <3>4
  <2>18. CASE FeedLock(p)
    <3>1. /\ q # p => fpc'[q] = fpc[q]
          /\ UNCHANGED <<pc, fobj, buffer, closed, closer>>
          /\ fpc[p] = "lock" /\ fpc'[p] = "write"
      BY <2>18, <2>t DEF FeedLock, closeVars
    <3> QED
      BY <1>m, <3>1 DEF QFeeder, Sealed
  <2>19. CASE FeedWrite(p)
    <3>1. /\ q # p => fpc'[q] = fpc[q] /\ fobj'[q] = fobj[q]
          /\ UNCHANGED <<pc, buffer, closed, closer>>
          /\ fpc[p] = "write" /\ fpc'[p] = "pop" /\ fobj'[p] = Nothing
      BY <2>19, <2>t DEF FeedWrite, closeVars
    <3> QED
      BY <1>m, <3>1 DEF QFeeder, Sealed
  <2>20. CASE FeedBroken(p)
    <3>1. /\ q # p => fpc'[q] = fpc[q]
          /\ UNCHANGED <<pc, fobj, buffer, closed, closer>>
          /\ fpc[p] = "write" /\ fpc'[p] = "failed"
      BY <2>20, <2>t DEF FeedBroken, closeVars
    <3> QED
      BY <1>m, <3>1 DEF QFeeder, Sealed
  <2> QED
    BY <2>1, <2>2, <2>3, <2>4, <2>5, <2>6, <2>7, <2>8, <2>9, <2>10,
       <2>11, <2>12, <2>13, <2>14, <2>15, <2>16, <2>17, <2>18, <2>19, <2>20
<1> QED
  BY <1>0, <1>a

\* What is on the line stays in order.
LEMMA LineNext == TypeOK /\ QLine /\ [Next]_vars => QWire' /\ \A q \in Procs : QBuffer(q)'
<1> SUFFICES ASSUME TypeOK, QLine, [Next]_vars PROVE QWire' /\ \A q \in Procs : QBuffer(q)'
  OBVIOUS
<1>0. CASE UNCHANGED vars
  BY <1>0, QuietLine DEF vars, feedVars
<1>a. CASE Next
  <2> PICK p \in Procs :
           \/ \E i \in Items : PutAcquire(p, i) \/ TaskDone(p, i)
           \/ \E mode \in {"recv", "trecv"} : GetLock(p, mode)
           \/ GetEmpty(p) \/ JoinBegin(p) \/ Close(p) \/ JoinThread(p)
           \/ CancelJoinThread(p) \/ ExitBegin(p)
           \/ PutAppend(p) \/ PutCount(p) \/ GetRecv(p) \/ GetRelease(p) \/ JoinEnd(p)
           \/ ExitEnd(p)
           \/ FeedCheck(p) \/ FeedPop(p) \/ FeedLock(p) \/ FeedWrite(p) \/ FeedBroken(p)
    BY <1>a, QSteps
  <2>1. ASSUME NEW i \in Items, PutAcquire(p, i) PROVE QWire' /\ \A q \in Procs : QBuffer(q)'
    BY <2>1, QuietLine DEF PutAcquire, feedVars
  <2>2. ASSUME NEW i \in Items, TaskDone(p, i) PROVE QWire' /\ \A q \in Procs : QBuffer(q)'
    BY <2>2, QuietLine DEF TaskDone, feedVars
  <2>3. ASSUME NEW mode \in {"recv", "trecv"}, GetLock(p, mode) PROVE QWire' /\ \A q \in Procs : QBuffer(q)'
    BY <2>3, QuietLine DEF GetLock, feedVars
  <2>4. CASE GetEmpty(p)
    BY <2>4, QuietLine DEF GetEmpty, feedVars
  <2>5. CASE JoinBegin(p)
    BY <2>5, QuietLine DEF JoinBegin, feedVars
  <2>6. CASE Close(p)
    BY <2>6, SealLine DEF Close
  <2>7. CASE JoinThread(p)
    BY <2>7, QuietLine DEF JoinThread, feedVars
  <2>8. CASE CancelJoinThread(p)
    BY <2>8, QuietLine DEF CancelJoinThread, feedVars
  <2>9. CASE ExitBegin(p)
    BY <2>9, SealLine DEF ExitBegin
  <2>10. CASE PutAppend(p)
    BY <2>10, GrowLine
  <2>11. CASE PutCount(p)
    BY <2>11, QuietLine DEF PutCount, feedVars
  <2>12. CASE GetRecv(p)
    <3>1. Wire' = Wire
      BY <2>12, GotGrows
    <3>2. UNCHANGED <<buffer, fobj, puts>>
      BY <2>12 DEF GetRecv, feedVars
    <3>3. \A q \in Procs : QBuffer(q)' /\ Sent(q)' = Sent(q)
      BY <3>2 DEF QLine, QBuffer, Sent
    <3> QED
      BY <3>1, <3>2, <3>3, WireKept
  <2>13. CASE GetRelease(p)
    BY <2>13, QuietLine DEF GetRelease, feedVars
  <2>14. CASE JoinEnd(p)
    BY <2>14, QuietLine DEF JoinEnd, feedVars
  <2>15. CASE ExitEnd(p)
    BY <2>15, QuietLine DEF ExitEnd, feedVars
  <2>16. CASE FeedCheck(p)
    BY <2>16, QuietLine DEF FeedCheck, feedVars
  <2>17. CASE FeedPop(p)
    BY <2>17, PopLine
  <2>18. CASE FeedLock(p)
    BY <2>18, QuietLine DEF FeedLock, feedVars
  <2>19. CASE FeedWrite(p)
    BY <2>19, WriteLine
  <2>20. CASE FeedBroken(p)
    BY <2>20, QuietLine DEF FeedBroken, feedVars
  <2> QED
    BY <2>1, <2>2, <2>3, <2>4, <2>5, <2>6, <2>7, <2>8, <2>9, <2>10,
       <2>11, <2>12, <2>13, <2>14, <2>15, <2>16, <2>17, <2>18, <2>19, <2>20
<1> QED
  BY <1>0, <1>a

\* The three parts together.
LEMMA QLineNext == TypeOK /\ QLine /\ [Next]_vars => QLine'
  BY QMainNext, LineNext, QFeederNext DEF QLine

\* Slots are taken and given back with the items.
LEMMA QSlotsNext == TypeOK /\ QLine /\ QSlots /\ [Next]_vars => QSlots'
<1> SUFFICES ASSUME TypeOK, QLine, QSlots, [Next]_vars PROVE QSlots'
  OBVIOUS
<1>f. IsFiniteSet(Transit) /\ Cardinality(Transit) \in Nat /\ MaxSize \in Nat /\ sem \in Nat
  <2>1. Transit \subseteq Items /\ IsFiniteSet(Items)
    BY QueueAssumption DEF Transit
  <2>2. IsFiniteSet(Transit)
    BY <2>1, FS_Subset
  <2> QED
    BY <2>2, FS_CardinalityType, QueueAssumption DEF TypeOK
<1>q. ASSUME UNCHANGED <<sem, obj, puts, got>> PROVE QSlots'
  BY <1>q DEF QSlots, Transit, IsPut, PutBy, IsGot
<1>0. CASE UNCHANGED vars
  BY <1>0, <1>q DEF vars
<1>a. CASE Next
  <2> PICK p \in Procs :
           \/ \E i \in Items : PutAcquire(p, i) \/ TaskDone(p, i)
           \/ \E mode \in {"recv", "trecv"} : GetLock(p, mode)
           \/ GetEmpty(p) \/ JoinBegin(p) \/ Close(p) \/ JoinThread(p)
           \/ CancelJoinThread(p) \/ ExitBegin(p)
           \/ PutAppend(p) \/ PutCount(p) \/ GetRecv(p) \/ GetRelease(p) \/ JoinEnd(p)
           \/ ExitEnd(p)
           \/ FeedCheck(p) \/ FeedPop(p) \/ FeedLock(p) \/ FeedWrite(p) \/ FeedBroken(p)
    BY <1>a, QSteps
  <2>1. ASSUME NEW i \in Items, PutAcquire(p, i) PROVE QSlots'
    <3>1. /\ i \notin Transit
      BY <2>1 DEF PutAcquire, Transit, IsPut, PutBy
    <3>2. Transit' = Transit \cup {i}
      <4>1. obj'[p] = i /\ \A q \in Procs : q # p => obj'[q] = obj[q]
        BY <2>1 DEF PutAcquire, TypeOK
      <4>2. obj[p] \notin Items
        BY <2>1, QueueAssumption DEF PutAcquire, QLine, QMain
      <4>3. \A j : (IsPut(j)' <=> IsPut(j)) /\ (IsGot(j)' <=> IsGot(j))
        BY <2>1 DEF PutAcquire, IsPut, PutBy, IsGot
      <4> QED
        BY <4>1, <4>2, <4>3 DEF Transit
    <3>3. Cardinality(Transit') = Cardinality(Transit) + 1
      BY <1>f, <3>1, <3>2, FS_AddElement
    <3>4. sem' = sem - 1
      BY <2>1 DEF PutAcquire
    <3> QED
      BY <1>f, <3>3, <3>4 DEF QSlots
  <2>2. ASSUME NEW i \in Items, TaskDone(p, i) PROVE QSlots'
    BY <2>2, <1>q DEF TaskDone
  <2>3. ASSUME NEW mode \in {"recv", "trecv"}, GetLock(p, mode) PROVE QSlots'
    BY <2>3, <1>q DEF GetLock
  <2>4. CASE GetEmpty(p)
    BY <2>4, <1>q DEF GetEmpty
  <2>5. CASE JoinBegin(p)
    BY <2>5, <1>q DEF JoinBegin
  <2>6. CASE Close(p)
    BY <2>6, <1>q DEF Close
  <2>7. CASE JoinThread(p)
    BY <2>7, <1>q DEF JoinThread
  <2>8. CASE CancelJoinThread(p)
    BY <2>8, <1>q DEF CancelJoinThread
  <2>9. CASE ExitBegin(p)
    BY <2>9, <1>q DEF ExitBegin
  <2>10. CASE PutAppend(p)
    <3>1. /\ obj[p] \in Items /\ ~IsGot(obj[p])
          /\ \A i : IsPut(i)' <=> (IsPut(i) \/ i = obj[p])
          /\ \A i : IsGot(i)' <=> IsGot(i)
      BY <2>10, PutGrows
    <3>2. /\ obj'[p] = Nothing /\ sem' = sem
          /\ \A q \in Procs : q # p => obj'[q] = obj[q]
      BY <2>10 DEF PutAppend, TypeOK
    <3>3. Transit' = Transit
      BY <3>1, <3>2, QueueAssumption DEF Transit
    <3> QED
      BY <3>2, <3>3 DEF QSlots
  <2>11. CASE PutCount(p)
    BY <2>11, <1>q DEF PutCount
  <2>12. CASE GetRecv(p)
    <3>1. /\ Head(pipe) \in Items /\ IsPut(Head(pipe)) /\ ~IsGot(Head(pipe))
          /\ \A i : IsPut(i)' <=> IsPut(i)
          /\ \A i : IsGot(i)' <=> (IsGot(i) \/ i = Head(pipe))
      BY <2>12, GotGrows
    <3>2. /\ obj'[p] = Head(pipe) /\ sem' = sem
          /\ \A q \in Procs : q # p => obj'[q] = obj[q]
      BY <2>12 DEF GetRecv, TypeOK
    <3>3. obj[p] \notin Items
      BY <2>12, QueueAssumption DEF GetRecv, QLine, QMain
    <3>4. Transit' = Transit
      BY <3>1, <3>2, <3>3 DEF Transit
    <3> QED
      BY <3>2, <3>4 DEF QSlots
  <2>13. CASE GetRelease(p)
    <3>1. \A j : (IsPut(j)' <=> IsPut(j)) /\ (IsGot(j)' <=> IsGot(j))
      BY <2>13 DEF GetRelease, IsPut, PutBy, IsGot
    <3>2. /\ obj'[p] = Nothing /\ sem' = sem + 1
          /\ \A q \in Procs : q # p => obj'[q] = obj[q]
      BY <2>13 DEF GetRelease, TypeOK
    <3>3. /\ obj[p] \in Items /\ IsGot(obj[p]) /\ obj[p] # Nothing
          /\ \A q \in Procs : obj[q] = obj[p] => q = p
      BY <2>13 DEF GetRelease, TypeOK, QLine, QMain
    <3>4. Transit' = Transit \ {obj[p]} /\ obj[p] \in Transit
      BY <3>1, <3>2, <3>3, QueueAssumption DEF Transit
    <3>5. Cardinality(Transit') = Cardinality(Transit) - 1
      BY <1>f, <3>4, FS_RemoveElement
    <3> QED
      BY <1>f, <3>2, <3>5 DEF QSlots
  <2>14. CASE JoinEnd(p)
    BY <2>14, <1>q DEF JoinEnd
  <2>15. CASE ExitEnd(p)
    BY <2>15, <1>q DEF ExitEnd
  <2>16. CASE FeedCheck(p)
    BY <2>16, <1>q DEF FeedCheck
  <2>17. CASE FeedPop(p)
    BY <2>17, <1>q DEF FeedPop
  <2>18. CASE FeedLock(p)
    BY <2>18, <1>q DEF FeedLock
  <2>19. CASE FeedWrite(p)
    BY <2>19, <1>q DEF FeedWrite
  <2>20. CASE FeedBroken(p)
    BY <2>20, <1>q DEF FeedBroken
  <2> QED
    BY <2>1, <2>2, <2>3, <2>4, <2>5, <2>6, <2>7, <2>8, <2>9, <2>10,
       <2>11, <2>12, <2>13, <2>14, <2>15, <2>16, <2>17, <2>18, <2>19, <2>20
<1> QED
  BY <1>0, <1>a

\* The condition's lock is held by the thread that counts its item.
LEMMA QCondNext == TypeOK /\ QCond /\ [Next]_vars => QCond'
<1> SUFFICES ASSUME TypeOK, QCond, [Next]_vars PROVE QCond'
  OBVIOUS
<1>q. ASSUME cond' = cond, \A q \in Procs : pc'[q] = "count" <=> pc[q] = "count" PROVE QCond'
  BY <1>q DEF QCond
<1>0. CASE UNCHANGED vars
  BY <1>0, <1>q DEF vars, lockVars
<1>a. CASE Next
  <2> PICK p \in Procs :
           \/ \E i \in Items : PutAcquire(p, i) \/ TaskDone(p, i)
           \/ \E mode \in {"recv", "trecv"} : GetLock(p, mode)
           \/ GetEmpty(p) \/ JoinBegin(p) \/ Close(p) \/ JoinThread(p)
           \/ CancelJoinThread(p) \/ ExitBegin(p)
           \/ PutAppend(p) \/ PutCount(p) \/ GetRecv(p) \/ GetRelease(p) \/ JoinEnd(p)
           \/ ExitEnd(p)
           \/ FeedCheck(p) \/ FeedPop(p) \/ FeedLock(p) \/ FeedWrite(p) \/ FeedBroken(p)
    BY <1>a, QSteps
  <2>t. pc \in [Procs -> {"idle", "append", "count", "recv", "trecv", "release",
                          "trelease", "jwait", "jwake", "exiting", "exited"}]
    BY DEF TypeOK
  <2>1. ASSUME NEW i \in Items, PutAcquire(p, i) PROVE QCond'
    BY <2>1, <2>t, <1>q DEF PutAcquire, Goto, lockVars
  <2>2. ASSUME NEW i \in Items, TaskDone(p, i) PROVE QCond'
    BY <2>2, <2>t, <1>q DEF TaskDone, Goto, lockVars
  <2>3. ASSUME NEW mode \in {"recv", "trecv"}, GetLock(p, mode) PROVE QCond'
    BY <2>3, <2>t, <1>q DEF GetLock, Goto, lockVars
  <2>4. CASE GetEmpty(p)
    BY <2>4, <2>t, <1>q DEF GetEmpty, Goto, lockVars
  <2>5. CASE JoinBegin(p)
    BY <2>5, <2>t, <1>q DEF JoinBegin, Goto, lockVars
  <2>6. CASE Close(p)
    BY <2>6, <2>t, <1>q DEF Close, Goto, lockVars
  <2>7. CASE JoinThread(p)
    BY <2>7, <2>t, <1>q DEF JoinThread, Goto, lockVars
  <2>8. CASE CancelJoinThread(p)
    BY <2>8, <2>t, <1>q DEF CancelJoinThread, Goto, lockVars
  <2>9. CASE ExitBegin(p)
    BY <2>9, <2>t, <1>q DEF ExitBegin, Goto, lockVars
  <2>10. CASE PutAppend(p)
    <3>1. cond = NoProc /\ cond' = p /\ pc' = [pc EXCEPT ![p] = "count"]
      BY <2>10 DEF PutAppend, Goto
    <3> QED
      BY <2>t, <3>1, QueueAssumption DEF QCond
  <2>11. CASE PutCount(p)
    <3>1. pc[p] = "count" /\ cond' = NoProc /\ pc' = [pc EXCEPT ![p] = "idle"]
      BY <2>11 DEF PutCount, Goto
    <3> QED
      BY <2>t, <3>1, QueueAssumption DEF QCond
  <2>12. CASE GetRecv(p)
    BY <2>12, <2>t, <1>q DEF GetRecv, Goto, lockVars
  <2>13. CASE GetRelease(p)
    BY <2>13, <2>t, <1>q DEF GetRelease, Goto, lockVars
  <2>14. CASE JoinEnd(p)
    BY <2>14, <2>t, <1>q DEF JoinEnd, Goto, lockVars
  <2>15. CASE ExitEnd(p)
    BY <2>15, <2>t, <1>q DEF ExitEnd, Goto, lockVars
  <2>16. CASE FeedCheck(p)
    BY <2>16, <2>t, <1>q DEF FeedCheck, Goto, lockVars
  <2>17. CASE FeedPop(p)
    BY <2>17, <2>t, <1>q DEF FeedPop, Goto, lockVars
  <2>18. CASE FeedLock(p)
    BY <2>18, <2>t, <1>q DEF FeedLock, Goto, lockVars
  <2>19. CASE FeedWrite(p)
    BY <2>19, <2>t, <1>q DEF FeedWrite, Goto, lockVars
  <2>20. CASE FeedBroken(p)
    BY <2>20, <2>t, <1>q DEF FeedBroken, Goto, lockVars
  <2> QED
    BY <2>1, <2>2, <2>3, <2>4, <2>5, <2>6, <2>7, <2>8, <2>9, <2>10,
       <2>11, <2>12, <2>13, <2>14, <2>15, <2>16, <2>17, <2>18, <2>19, <2>20
<1> QED
  BY <1>0, <1>a

\* An item is reported once, by the one that received it.
LEMMA QReportsNext == TypeOK /\ QLine /\ QReports /\ [Next]_vars => QReports'
<1> SUFFICES ASSUME TypeOK, QLine, QReports, [Next]_vars PROVE QReports'
  OBVIOUS
<1>q. ASSUME UNCHANGED <<todo, done, obj, got>> PROVE QReports'
  BY <1>q DEF QReports, IsGot
<1>0. CASE UNCHANGED vars
  BY <1>0, <1>q DEF vars, taskVars
<1>a. CASE Next
  <2> PICK p \in Procs :
           \/ \E i \in Items : PutAcquire(p, i) \/ TaskDone(p, i)
           \/ \E mode \in {"recv", "trecv"} : GetLock(p, mode)
           \/ GetEmpty(p) \/ JoinBegin(p) \/ Close(p) \/ JoinThread(p)
           \/ CancelJoinThread(p) \/ ExitBegin(p)
           \/ PutAppend(p) \/ PutCount(p) \/ GetRecv(p) \/ GetRelease(p) \/ JoinEnd(p)
           \/ ExitEnd(p)
           \/ FeedCheck(p) \/ FeedPop(p) \/ FeedLock(p) \/ FeedWrite(p) \/ FeedBroken(p)
    BY <1>a, QSteps
  <2>1. ASSUME NEW i \in Items, PutAcquire(p, i) PROVE QReports'
    <3>1. ~IsGot(i)
      <4>1. ~IsPut(i)
        BY <2>1 DEF PutAcquire, IsPut, PutBy
      <4> QED
        BY <4>1, GotIsPut
    <3>2. /\ UNCHANGED <<todo, done, got>>
          /\ \A q \in Procs : obj'[q] = obj[q] \/ obj'[q] = i
      BY <2>1 DEF PutAcquire, TypeOK, taskVars
    <3> QED
      BY <3>1, <3>2 DEF QReports, IsGot
  <2>2. ASSUME NEW i \in Items, TaskDone(p, i) PROVE QReports'
    <3>1. /\ UNCHANGED <<obj, got>> /\ done' = done \cup {i} /\ i \in todo[p]
          /\ todo'[p] = todo[p] \ {i} /\ \A q \in Procs : q # p => todo'[q] = todo[q]
      BY <2>2 DEF TaskDone, TypeOK
    <3>2. \A j : IsGot(j)' <=> IsGot(j)
      BY <3>1 DEF IsGot
    <3>3. IsGot(i) /\ \A q \in Procs : obj[q] # i /\ (i \in todo[q] => p = q)
      BY <3>1 DEF QReports
    <3>4. \A q \in Procs : todo'[q] \subseteq todo[q] /\ i \notin todo'[q]
      BY <3>1, <3>3
    <3> QED
      BY <3>1, <3>2, <3>3, <3>4 DEF QReports
  <2>3. ASSUME NEW mode \in {"recv", "trecv"}, GetLock(p, mode) PROVE QReports'
    BY <2>3, <1>q DEF GetLock, taskVars
  <2>4. CASE GetEmpty(p)
    BY <2>4, <1>q DEF GetEmpty, taskVars
  <2>5. CASE JoinBegin(p)
    BY <2>5, <1>q DEF JoinBegin, taskVars
  <2>6. CASE Close(p)
    BY <2>6, <1>q DEF Close, taskVars
  <2>7. CASE JoinThread(p)
    BY <2>7, <1>q DEF JoinThread, taskVars
  <2>8. CASE CancelJoinThread(p)
    BY <2>8, <1>q DEF CancelJoinThread, taskVars
  <2>9. CASE ExitBegin(p)
    BY <2>9, <1>q DEF ExitBegin, taskVars
  <2>10. CASE PutAppend(p)
    <3>1. /\ UNCHANGED <<todo, done, got>>
          /\ \A q \in Procs : obj'[q] = obj[q] \/ obj'[q] = Nothing
      BY <2>10 DEF PutAppend, TypeOK, taskVars
    <3>2. \A q \in Procs : \A i \in todo[q] \cup done : i # Nothing
      BY QueueAssumption DEF TypeOK
    <3> QED
      BY <3>1, <3>2 DEF QReports, IsGot
  <2>11. CASE PutCount(p)
    BY <2>11, <1>q DEF PutCount, taskVars
  <2>12. CASE GetRecv(p)
    <3>1. /\ ~IsGot(Head(pipe))
          /\ \A i : IsGot(i) => IsGot(i)'
      BY <2>12, GotGrows
    <3>2. /\ UNCHANGED <<todo, done>>
          /\ \A q \in Procs : obj'[q] = obj[q] \/ obj'[q] = Head(pipe)
      BY <2>12 DEF GetRecv, TypeOK, taskVars
    <3> QED
      BY <3>1, <3>2 DEF QReports
  <2>13. CASE GetRelease(p)
    <3>1. /\ UNCHANGED <<done, got>> /\ obj'[p] = Nothing
          /\ todo'[p] = todo[p] \cup {obj[p]}
          /\ \A q \in Procs : q # p => todo'[q] = todo[q] /\ obj'[q] = obj[q]
      BY <2>13 DEF GetRelease, TypeOK
    <3>2. \A j : IsGot(j)' <=> IsGot(j)
      BY <3>1 DEF IsGot
    <3>3. /\ obj[p] \in Items /\ IsGot(obj[p]) /\ obj[p] # Nothing
          /\ \A q \in Procs : obj[q] = obj[p] => q = p
      BY <2>13 DEF GetRelease, TypeOK, QLine, QMain
    <3>4. \A q \in Procs : \A i \in todo[q] \cup done : i # Nothing
      BY QueueAssumption DEF TypeOK
    <3>5. obj[p] \notin done /\ \A q \in Procs : obj[p] \notin todo[q]
      BY DEF QReports
    <3>6. \A q \in Procs : \A i \in todo'[q] :
            \/ i \in todo[q] /\ i # obj[p]
            \/ q = p /\ i = obj[p]
      BY <3>1, <3>5
    <3>7. ASSUME NEW q \in Procs, NEW i \in todo'[q]
          PROVE  /\ IsGot(i)' /\ i \notin done'
                 /\ \A r \in Procs : obj'[r] # i /\ (i \in todo'[r] => q = r)
      BY <3>1, <3>2, <3>3, <3>4, <3>5, <3>6 DEF QReports
    <3>8. \A i \in done' : IsGot(i)' /\ \A q \in Procs : obj'[q] # i
      BY <3>1, <3>2, <3>4 DEF QReports
    <3> QED
      BY <3>7, <3>8 DEF QReports
  <2>14. CASE JoinEnd(p)
    BY <2>14, <1>q DEF JoinEnd, taskVars
  <2>15. CASE ExitEnd(p)
    BY <2>15, <1>q DEF ExitEnd, taskVars
  <2>16. CASE FeedCheck(p)
    BY <2>16, <1>q DEF FeedCheck, taskVars
  <2>17. CASE FeedPop(p)
    BY <2>17, <1>q DEF FeedPop, taskVars
  <2>18. CASE FeedLock(p)
    BY <2>18, <1>q DEF FeedLock, taskVars
  <2>19. CASE FeedWrite(p)
    BY <2>19, <1>q DEF FeedWrite, taskVars
  <2>20. CASE FeedBroken(p)
    BY <2>20, <1>q DEF FeedBroken, taskVars
  <2> QED
    BY <2>1, <2>2, <2>3, <2>4, <2>5, <2>6, <2>7, <2>8, <2>9, <2>10,
       <2>11, <2>12, <2>13, <2>14, <2>15, <2>16, <2>17, <2>18, <2>19, <2>20
<1> QED
  BY <1>0, <1>a

\* What is reported was put; the two sets are finite.
LEMMA DoneIsPut ==
  ASSUME TypeOK, QLine, QReports
  PROVE  /\ IsFiniteSet(done) /\ IsFiniteSet(PutItems) /\ done \subseteq PutItems
         /\ Cardinality(done) \in Nat /\ Cardinality(PutItems) \in Nat
         /\ \A p \in Procs : \A i \in todo[p] : i \in PutItems \ done
         /\ unfinished \in Nat
<1>1. PutItems \subseteq Items /\ IsFiniteSet(Items)
  BY QueueAssumption DEF PutItems
<1>2. done \subseteq PutItems
  BY GotIsPut DEF QReports, PutItems
<1>3. IsFiniteSet(PutItems) /\ IsFiniteSet(done)
  BY <1>1, <1>2, FS_Subset
<1>4. \A p \in Procs : \A i \in todo[p] : i \in PutItems \ done
  BY GotIsPut DEF QReports, PutItems
<1>5. unfinished \in Nat
  BY DEF TypeOK
<1> QED
  BY <1>2, <1>3, <1>4, <1>5, FS_CardinalityType

\* While nobody counts an item and none is unfinished, all that were put are reported.
LEMMA AllReported ==
  ASSUME NEW D, NEW P, IsFiniteSet(P), D \subseteq P, Cardinality(D) = Cardinality(P)
  PROVE  D = P
<1> SUFFICES ASSUME D # P PROVE FALSE
  OBVIOUS
<1>1. Cardinality(D) < Cardinality(P)
  BY FS_Subset
<1>2. Cardinality(P) \in Nat
  BY FS_CardinalityType
<1> QED
  BY <1>1, <1>2

\* The equation while nobody counts an item.
LEMMA NoneUnfinished ==
  ASSUME TypeOK, QLine, QReports, QCounted, cond = NoProc
  PROVE  /\ unfinished + Cardinality(done) = Cardinality(PutItems)
         /\ unfinished = 0 => done = PutItems
<1>1. unfinished + Cardinality(done) = Cardinality(PutItems)
  BY DoneIsPut DEF QCounted
<1>2. unfinished = 0 => Cardinality(done) = Cardinality(PutItems)
  BY <1>1, DoneIsPut
<1> QED
  BY <1>1, <1>2, AllReported, DoneIsPut

\* task_done for an item that was received: there is a task to take off.
LEMMA ReportCounts ==
  ASSUME TypeOK, QLine, QReports, QCounted, NEW p \in Procs, NEW i \in Items, TaskDone(p, i)
  PROVE  /\ unfinished \in Nat \ {0} /\ unfinished' = unfinished - 1
         /\ tooMany' = tooMany /\ cond = NoProc /\ UNCHANGED <<cond, puts>>
         /\ done' = done \cup {i} /\ Cardinality(done') = Cardinality(done) + 1
         /\ done' \subseteq PutItems /\ PutItems' = PutItems
         /\ unfinished = 1 => done' = PutItems
<1>1. cond = NoProc /\ i \in todo[p] /\ done' = done \cup {i} /\ UNCHANGED <<cond, puts>>
  BY DEF TaskDone, lockVars
<1>2. i \in PutItems \ done /\ done \subseteq PutItems
  BY <1>1, DoneIsPut
<1>3. Cardinality(done') = Cardinality(done) + 1
  BY <1>1, <1>2, DoneIsPut, FS_AddElement
<1>4. IsFiniteSet(PutItems) /\ done' \subseteq PutItems
  BY <1>1, <1>2, DoneIsPut
<1>5. Cardinality(done') <= Cardinality(PutItems)
  BY <1>4, FS_Subset
<1>6. unfinished + Cardinality(done) = Cardinality(PutItems)
  BY <1>1, NoneUnfinished
<1>7. unfinished \in Nat \ {0}
  BY <1>3, <1>5, <1>6, DoneIsPut
<1>8. unfinished' = unfinished - 1 /\ tooMany' = tooMany
  BY <1>7 DEF TaskDone
<1>9. PutItems' = PutItems
  BY <1>1 DEF PutItems, IsPut, PutBy
<1>10. unfinished = 1 => done' = PutItems
  <2>1. unfinished = 1 => Cardinality(done') = Cardinality(PutItems)
    BY <1>3, <1>6, DoneIsPut
  <2> QED
    BY <1>4, <2>1, AllReported
<1> QED
  BY <1>1, <1>3, <1>4, <1>7, <1>8, <1>9, <1>10

\* The number of unfinished tasks is right after every step.
LEMMA QCountedNext ==
  TypeOK /\ QLine /\ QCond /\ QReports /\ QCounted /\ [Next]_vars => QCounted'
<1> SUFFICES ASSUME TypeOK, QLine, QCond, QReports, QCounted, [Next]_vars PROVE QCounted'
  OBVIOUS
<1>q. ASSUME UNCHANGED <<unfinished, done, cond, puts>> PROVE QCounted'
  BY <1>q DEF QCounted, PutItems, IsPut, PutBy
<1>0. CASE UNCHANGED vars
  BY <1>0, <1>q DEF vars, taskVars, lockVars
<1>a. CASE Next
  <2> PICK p \in Procs :
           \/ \E i \in Items : PutAcquire(p, i) \/ TaskDone(p, i)
           \/ \E mode \in {"recv", "trecv"} : GetLock(p, mode)
           \/ GetEmpty(p) \/ JoinBegin(p) \/ Close(p) \/ JoinThread(p)
           \/ CancelJoinThread(p) \/ ExitBegin(p)
           \/ PutAppend(p) \/ PutCount(p) \/ GetRecv(p) \/ GetRelease(p) \/ JoinEnd(p)
           \/ ExitEnd(p)
           \/ FeedCheck(p) \/ FeedPop(p) \/ FeedLock(p) \/ FeedWrite(p) \/ FeedBroken(p)
    BY <1>a, QSteps
  <2>1. ASSUME NEW i \in Items, PutAcquire(p, i) PROVE QCounted'
    BY <2>1, <1>q DEF PutAcquire, taskVars, lockVars
  <2>2. ASSUME NEW i \in Items, TaskDone(p, i) PROVE QCounted'
    <3>1. /\ unfinished + Cardinality(done) = Cardinality(PutItems)
          /\ unfinished \in Nat \ {0} /\ unfinished' = unfinished - 1 /\ cond' = NoProc
          /\ Cardinality(done') = Cardinality(done) + 1 /\ PutItems' = PutItems
      BY <2>2, ReportCounts, NoneUnfinished
    <3> QED
      BY <3>1, DoneIsPut DEF QCounted
  <2>3. ASSUME NEW mode \in {"recv", "trecv"}, GetLock(p, mode) PROVE QCounted'
    BY <2>3, <1>q DEF GetLock, taskVars, lockVars
  <2>4. CASE GetEmpty(p)
    BY <2>4, <1>q DEF GetEmpty, taskVars, lockVars
  <2>5. CASE JoinBegin(p)
    BY <2>5, <1>q DEF JoinBegin, taskVars, lockVars
  <2>6. CASE Close(p)
    BY <2>6, <1>q DEF Close, taskVars, lockVars
  <2>7. CASE JoinThread(p)
    BY <2>7, <1>q DEF JoinThread, taskVars, lockVars
  <2>8. CASE CancelJoinThread(p)
    BY <2>8, <1>q DEF CancelJoinThread, taskVars, lockVars
  <2>9. CASE ExitBegin(p)
    BY <2>9, <1>q DEF ExitBegin, taskVars, lockVars
  <2>10. CASE PutAppend(p)
    <3>1. cond = NoProc /\ cond' = p /\ UNCHANGED <<unfinished, done>> /\ p # NoProc
      BY <2>10, QueueAssumption DEF PutAppend, taskVars
    <3>2. obj[p] \notin PutItems /\ PutItems' = PutItems \cup {obj[p]}
      BY <2>10, PutGrows DEF PutItems
    <3>3. Cardinality(PutItems') = Cardinality(PutItems) + 1
      BY <3>2, DoneIsPut, FS_AddElement
    <3>4. unfinished + Cardinality(done) = Cardinality(PutItems)
      BY <3>1, NoneUnfinished
    <3>5. /\ unfinished' + Cardinality(done') + 1 = Cardinality(PutItems')
      BY <3>1, <3>3, <3>4
    <3> QED
      BY <3>1, <3>5 DEF QCounted
  <2>11. CASE PutCount(p)
    <3>1. /\ cond = p /\ cond' = NoProc /\ p # NoProc /\ UNCHANGED <<done, puts>>
          /\ unfinished' = unfinished + 1
      BY <2>11, QueueAssumption DEF PutCount, QCond
    <3>2. PutItems' = PutItems
      BY <3>1 DEF PutItems, IsPut, PutBy
    <3>3. unfinished + Cardinality(done) + 1 = Cardinality(PutItems)
      BY <3>1 DEF QCounted
    <3>4. unfinished' + Cardinality(done') = Cardinality(PutItems')
      BY <3>1, <3>2, <3>3, DoneIsPut
    <3> QED
      BY <3>1, <3>4, DoneIsPut DEF QCounted
  <2>12. CASE GetRecv(p)
    BY <2>12, <1>q DEF GetRecv, taskVars, lockVars
  <2>13. CASE GetRelease(p)
    BY <2>13, <1>q DEF GetRelease, taskVars, lockVars
  <2>14. CASE JoinEnd(p)
    BY <2>14, <1>q DEF JoinEnd, taskVars, lockVars
  <2>15. CASE ExitEnd(p)
    BY <2>15, <1>q DEF ExitEnd, taskVars, lockVars
  <2>16. CASE FeedCheck(p)
    BY <2>16, <1>q DEF FeedCheck, taskVars, lockVars
  <2>17. CASE FeedPop(p)
    BY <2>17, <1>q DEF FeedPop, taskVars, lockVars
  <2>18. CASE FeedLock(p)
    BY <2>18, <1>q DEF FeedLock, taskVars, lockVars
  <2>19. CASE FeedWrite(p)
    BY <2>19, <1>q DEF FeedWrite, taskVars, lockVars
  <2>20. CASE FeedBroken(p)
    BY <2>20, <1>q DEF FeedBroken, taskVars, lockVars
  <2> QED
    BY <2>1, <2>2, <2>3, <2>4, <2>5, <2>6, <2>7, <2>8, <2>9, <2>10,
       <2>11, <2>12, <2>13, <2>14, <2>15, <2>16, <2>17, <2>18, <2>19, <2>20
<1> QED
  BY <1>0, <1>a

\* A join that is let go has seen all that were put before it began.
LEMMA QJoinsNext ==
  TypeOK /\ QLine /\ QReports /\ QCounted /\ QJoins /\ [Next]_vars => QJoins'
<1> SUFFICES ASSUME TypeOK, QLine, QReports, QCounted, QJoins, [Next]_vars PROVE QJoins'
  OBVIOUS
<1>t. pc \in [Procs -> {"idle", "append", "count", "recv", "trecv", "release",
                        "trelease", "jwait", "jwake", "exiting", "exited"}]
  BY DEF TypeOK
<1>q. ASSUME UNCHANGED <<before, tooMany, done>>, \A i : IsPut(i) => IsPut(i)',
             \A q \in Procs : pc'[q] = "jwake" => pc[q] = "jwake"
      PROVE  QJoins'
  <2>1. PutItems \subseteq PutItems'
    BY <1>q DEF PutItems
  <2>2. TaskDoneNeverFails'
    BY <1>q, Zenon DEF QJoins, TaskDoneNeverFails
  <2> QED
    BY <1>q, <2>1, <2>2 DEF QJoins, JoinWaitsForAll
<1>p. ASSUME puts' = puts PROVE \A i : IsPut(i) => IsPut(i)'
  BY <1>p DEF IsPut, PutBy
<1>0. CASE UNCHANGED vars
  BY <1>0, <1>q, <1>p DEF vars, taskVars
<1>a. CASE Next
  <2> PICK p \in Procs :
           \/ \E i \in Items : PutAcquire(p, i) \/ TaskDone(p, i)
           \/ \E mode \in {"recv", "trecv"} : GetLock(p, mode)
           \/ GetEmpty(p) \/ JoinBegin(p) \/ Close(p) \/ JoinThread(p)
           \/ CancelJoinThread(p) \/ ExitBegin(p)
           \/ PutAppend(p) \/ PutCount(p) \/ GetRecv(p) \/ GetRelease(p) \/ JoinEnd(p)
           \/ ExitEnd(p)
           \/ FeedCheck(p) \/ FeedPop(p) \/ FeedLock(p) \/ FeedWrite(p) \/ FeedBroken(p)
    BY <1>a, QSteps
  <2>1. ASSUME NEW i \in Items, PutAcquire(p, i) PROVE QJoins'
    BY <2>1, <1>t, <1>q, <1>p DEF PutAcquire, Goto, taskVars
  <2>2. ASSUME NEW i \in Items, TaskDone(p, i) PROVE QJoins'
    <3>1. /\ tooMany' = tooMany /\ done' = done \cup {i} /\ done' \subseteq PutItems
          /\ PutItems' = PutItems /\ unfinished \in Nat \ {0}
          /\ unfinished = 1 => done' = PutItems
      BY <2>2, ReportCounts
    <3>2. /\ before' = before
          /\ \A q \in Procs : pc'[q] = "jwake" => pc[q] = "jwake" \/ unfinished = 1
      BY <2>2, <3>1 DEF TaskDone
    <3>3. TaskDoneNeverFails'
      BY <3>1, Zenon DEF QJoins, TaskDoneNeverFails
    <3> QED
      BY <3>1, <3>2, <3>3 DEF QJoins, JoinWaitsForAll
  <2>3. ASSUME NEW mode \in {"recv", "trecv"}, GetLock(p, mode) PROVE QJoins'
    BY <2>3, <1>t, <1>q, <1>p DEF GetLock, Goto, taskVars
  <2>4. CASE GetEmpty(p)
    BY <2>4, <1>t, <1>q, <1>p DEF GetEmpty, Goto, taskVars
  <2>5. CASE JoinBegin(p)
    <3>1. /\ cond = NoProc /\ UNCHANGED <<tooMany, done, puts>>
          /\ before' = [before EXCEPT ![p] = Counted]
          /\ pc'[p] = "jwake" => unfinished = 0
          /\ \A q \in Procs : q # p => pc'[q] = pc[q]
      BY <2>5, <1>t DEF JoinBegin, Goto
    <3>2. Counted \subseteq PutItems /\ PutItems' = PutItems
      BY <3>1 DEF Counted, PutItems, IsPut, PutBy, TypeOK
    <3>3. unfinished = 0 => done = PutItems
      BY <3>1, NoneUnfinished
    <3>4. TaskDoneNeverFails'
      BY <3>1, Zenon DEF QJoins, TaskDoneNeverFails
    <3>5. /\ before'[p] = Counted
          /\ \A q \in Procs : q # p => before'[q] = before[q]
      BY <3>1 DEF TypeOK
    <3> QED
      BY <3>1, <3>2, <3>3, <3>4, <3>5 DEF QJoins, JoinWaitsForAll
  <2>6. CASE Close(p)
    BY <2>6, <1>t, <1>q, <1>p DEF Close, Goto, taskVars
  <2>7. CASE JoinThread(p)
    BY <2>7, <1>t, <1>q, <1>p DEF JoinThread, Goto, taskVars
  <2>8. CASE CancelJoinThread(p)
    BY <2>8, <1>t, <1>q, <1>p DEF CancelJoinThread, Goto, taskVars
  <2>9. CASE ExitBegin(p)
    BY <2>9, <1>t, <1>q, <1>p DEF ExitBegin, Goto, taskVars
  <2>10. CASE PutAppend(p)
    <3>1. \A i : IsPut(i) => IsPut(i)'
      BY <2>10, PutGrows
    <3> QED
      BY <2>10, <1>t, <1>q, <3>1 DEF PutAppend, Goto, taskVars
  <2>11. CASE PutCount(p)
    BY <2>11, <1>t, <1>q, <1>p DEF PutCount, Goto, taskVars
  <2>12. CASE GetRecv(p)
    BY <2>12, <1>t, <1>q, <1>p DEF GetRecv, Goto, taskVars
  <2>13. CASE GetRelease(p)
    BY <2>13, <1>t, <1>q, <1>p DEF GetRelease, Goto, taskVars
  <2>14. CASE JoinEnd(p)
    <3>1. /\ UNCHANGED <<tooMany, done, puts>>
          /\ before' = [before EXCEPT ![p] = {}]
          /\ pc'[p] = "idle"
          /\ \A q \in Procs : q # p => pc'[q] = pc[q]
      BY <2>14, <1>t DEF JoinEnd, Goto
    <3>2. PutItems' = PutItems
      BY <3>1 DEF PutItems, IsPut, PutBy
    <3>3. TaskDoneNeverFails'
      BY <3>1, Zenon DEF QJoins, TaskDoneNeverFails
    <3>4. /\ before'[p] = {}
          /\ \A q \in Procs : q # p => before'[q] = before[q]
      BY <3>1 DEF TypeOK
    <3> QED
      BY <3>1, <3>2, <3>3, <3>4 DEF QJoins, JoinWaitsForAll
  <2>15. CASE ExitEnd(p)
    BY <2>15, <1>t, <1>q, <1>p DEF ExitEnd, Goto, taskVars
  <2>16. CASE FeedCheck(p)
    BY <2>16, <1>t, <1>q, <1>p DEF FeedCheck, Goto, taskVars
  <2>17. CASE FeedPop(p)
    BY <2>17, <1>t, <1>q, <1>p DEF FeedPop, Goto, taskVars
  <2>18. CASE FeedLock(p)
    BY <2>18, <1>t, <1>q, <1>p DEF FeedLock, Goto, taskVars
  <2>19. CASE FeedWrite(p)
    BY <2>19, <1>t, <1>q, <1>p DEF FeedWrite, Goto, taskVars
  <2>20. CASE FeedBroken(p)
    BY <2>20, <1>t, <1>q, <1>p DEF FeedBroken, Goto, taskVars
  <2> QED
    BY <2>1, <2>2, <2>3, <2>4, <2>5, <2>6, <2>7, <2>8, <2>9, <2>10,
       <2>11, <2>12, <2>13, <2>14, <2>15, <2>16, <2>17, <2>18, <2>19, <2>20
<1> QED
  BY <1>0, <1>a

\* A feeder that must be waited for has ended when its process has left.
LEMMA QExitNext == TypeOK /\ QLine /\ QExit /\ [Next]_vars => QExit'
<1> SUFFICES ASSUME TypeOK, QLine, QExit, [Next]_vars PROVE QExit'
  OBVIOUS
<1>t. /\ pc \in [Procs -> {"idle", "append", "count", "recv", "trecv", "release",
                           "trelease", "jwait", "jwake", "exiting", "exited"}]
      /\ fpc \in [Procs -> {"none", "check", "nwait", "pop", "lock", "write",
                            "done", "failed", "killed"}]
  BY DEF TypeOK
<1>q. ASSUME UNCHANGED <<closed, joined, jointhread>>, cancelled \subseteq cancelled',
             \A q \in Procs : /\ pc'[q] = "exited" => pc[q] = "exited"
                              /\ fpc'[q] = "none" <=> fpc[q] = "none"
                              /\ FeederEnded(q) => FeederEnded(q)'
      PROVE  QExit'
  BY <1>q DEF QExit
<1>0. CASE UNCHANGED vars
  BY <1>0, <1>q DEF vars, closeVars, feedVars, FeederEnded
<1>a. CASE Next
  <2> PICK p \in Procs :
           \/ \E i \in Items : PutAcquire(p, i) \/ TaskDone(p, i)
           \/ \E mode \in {"recv", "trecv"} : GetLock(p, mode)
           \/ GetEmpty(p) \/ JoinBegin(p) \/ Close(p) \/ JoinThread(p)
           \/ CancelJoinThread(p) \/ ExitBegin(p)
           \/ PutAppend(p) \/ PutCount(p) \/ GetRecv(p) \/ GetRelease(p) \/ JoinEnd(p)
           \/ ExitEnd(p)
           \/ FeedCheck(p) \/ FeedPop(p) \/ FeedLock(p) \/ FeedWrite(p) \/ FeedBroken(p)
    BY <1>a, QSteps
  <2>1. ASSUME NEW i \in Items, PutAcquire(p, i) PROVE QExit'
    BY <2>1, <1>t, <1>q DEF PutAcquire, Goto, closeVars, feedVars, FeederEnded
  <2>2. ASSUME NEW i \in Items, TaskDone(p, i) PROVE QExit'
    BY <2>2, <1>t, <1>q DEF TaskDone, Goto, closeVars, feedVars, FeederEnded
  <2>3. ASSUME NEW mode \in {"recv", "trecv"}, GetLock(p, mode) PROVE QExit'
    BY <2>3, <1>t, <1>q DEF GetLock, Goto, closeVars, feedVars, FeederEnded
  <2>4. CASE GetEmpty(p)
    BY <2>4, <1>t, <1>q DEF GetEmpty, Goto, closeVars, feedVars, FeederEnded
  <2>5. CASE JoinBegin(p)
    BY <2>5, <1>t, <1>q DEF JoinBegin, Goto, closeVars, feedVars, FeederEnded
  <2>6. CASE Close(p)
    <3>1. /\ UNCHANGED <<jointhread, joined, cancelled>> /\ closed \subseteq closed' /\ pc' = pc
          /\ \A q \in Procs : fpc'[q] = fpc[q] \/ (fpc[q] = "nwait" /\ fpc'[q] = "pop")
      BY <2>6, <1>t DEF Close, Goto, FinalizeClose, Notify
    <3> QED
      BY <1>t, <3>1 DEF QExit, FeederEnded
  <2>7. CASE JoinThread(p)
    <3>1. /\ UNCHANGED <<closed, cancelled, pc, fpc>> /\ p \in closed
          /\ jointhread' = jointhread \ {p} /\ joined' = joined \cup {p}
          /\ p \in jointhread => FeederEnded(p)
      BY <2>7 DEF JoinThread, feedVars
    <3>2. p # Creator /\ p \notin cancelled => FeederEnded(p)
      BY <3>1 DEF QExit, FeederEnded
    <3> QED
      BY <3>1, <3>2 DEF QExit, FeederEnded
  <2>8. CASE CancelJoinThread(p)
    <3>1. /\ UNCHANGED <<closed, joined, pc, fpc>>
          /\ jointhread' = jointhread \ {p} /\ cancelled' = cancelled \cup {p}
      BY <2>8 DEF CancelJoinThread, feedVars
    <3> QED
      BY <3>1 DEF QExit, FeederEnded
  <2>9. CASE ExitBegin(p)
    <3>1. /\ UNCHANGED <<jointhread, joined, cancelled>> /\ closed \subseteq closed' /\ pc' = [pc EXCEPT ![p] = "exiting"]
          /\ \A q \in Procs : fpc'[q] = fpc[q] \/ (fpc[q] = "nwait" /\ fpc'[q] = "pop")
      BY <2>9, <1>t DEF ExitBegin, Goto, FinalizeClose, Notify
    <3> QED
      BY <1>t, <3>1 DEF QExit, FeederEnded
  <2>10. CASE PutAppend(p)
    <3>1. pc[p] = "append" /\ p \notin closed
      BY <2>10 DEF PutAppend, QLine, QFeeder
    <3>2. /\ UNCHANGED <<closed, joined, cancelled>> /\ pc' = [pc EXCEPT ![p] = "count"]
          /\ \A q \in Procs : q # p => fpc'[q] = fpc[q]
          /\ fpc[p] = "none" => /\ p \notin cancelled /\ p # Creator => p \in jointhread'
                                /\ fpc'[p] = "check"
          /\ fpc[p] # "none" => fpc'[p] = fpc[p] /\ jointhread' = jointhread
          /\ jointhread \subseteq jointhread'
      BY <2>10, <1>t DEF PutAppend, Goto
    <3> QED
      BY <1>t, <3>1, <3>2 DEF QExit, FeederEnded
  <2>11. CASE PutCount(p)
    <3>1. \A q \in Procs : fpc'[q] = fpc[q] \/ (fpc[q] = "nwait" /\ fpc'[q] = "pop")
      BY <2>11, <1>t DEF PutCount, Notify
    <3> QED
      BY <2>11, <1>t, <1>q, <3>1 DEF PutCount, Goto, closeVars, FeederEnded
  <2>12. CASE GetRecv(p)
    BY <2>12, <1>t, <1>q DEF GetRecv, Goto, closeVars, feedVars, FeederEnded
  <2>13. CASE GetRelease(p)
    BY <2>13, <1>t, <1>q DEF GetRelease, Goto, closeVars, feedVars, FeederEnded
  <2>14. CASE JoinEnd(p)
    BY <2>14, <1>t, <1>q DEF JoinEnd, Goto, closeVars, feedVars, FeederEnded
  <2>15. CASE ExitEnd(p)
    <3>1. /\ UNCHANGED <<closed, joined, cancelled>> /\ pc' = [pc EXCEPT ![p] = "exited"]
          /\ jointhread' = jointhread \ {p} /\ p \in jointhread => FeederEnded(p)
          /\ fpc' = [fpc EXCEPT ![p] = IF FeederEnded(p) THEN @ ELSE "killed"]
      BY <2>15 DEF ExitEnd, Goto
    <3>2. /\ p # Creator /\ p \notin cancelled => FeederEnded(p)
      BY <2>15 DEF ExitEnd, QExit, FeederEnded
    <3>3. \A q \in Procs : q # p \/ FeederEnded(p) => fpc'[q] = fpc[q]
      BY <1>t, <3>1
    <3> QED
      BY <1>t, <2>15, <3>2, <3>3 DEF ExitEnd, Goto, QExit, FeederEnded
  <2>16. CASE FeedCheck(p)
    <3>1. /\ UNCHANGED <<pc, closed, joined, cancelled, jointhread>>
          /\ fpc[p] \in {"check", "pop", "lock", "write"} /\ fpc'[p] # "none"
          /\ \A q \in Procs : q # p => fpc'[q] = fpc[q]
      BY <2>16, <1>t DEF FeedCheck, closeVars
    <3> QED
      BY <1>q, <3>1 DEF FeederEnded
  <2>17. CASE FeedPop(p)
    <3>1. /\ UNCHANGED <<pc, closed, joined, cancelled, jointhread>>
          /\ fpc[p] \in {"check", "pop", "lock", "write"} /\ fpc'[p] # "none"
          /\ \A q \in Procs : q # p => fpc'[q] = fpc[q]
      BY <2>17, <1>t DEF FeedPop, closeVars
    <3> QED
      BY <1>q, <3>1 DEF FeederEnded
  <2>18. CASE FeedLock(p)
    <3>1. /\ UNCHANGED <<pc, closed, joined, cancelled, jointhread>>
          /\ fpc[p] \in {"check", "pop", "lock", "write"} /\ fpc'[p] # "none"
          /\ \A q \in Procs : q # p => fpc'[q] = fpc[q]
      BY <2>18, <1>t DEF FeedLock, closeVars
    <3> QED
      BY <1>q, <3>1 DEF FeederEnded
  <2>19. CASE FeedWrite(p)
    <3>1. /\ UNCHANGED <<pc, closed, joined, cancelled, jointhread>>
          /\ fpc[p] \in {"check", "pop", "lock", "write"} /\ fpc'[p] # "none"
          /\ \A q \in Procs : q # p => fpc'[q] = fpc[q]
      BY <2>19, <1>t DEF FeedWrite, closeVars
    <3> QED
      BY <1>q, <3>1 DEF FeederEnded
  <2>20. CASE FeedBroken(p)
    <3>1. /\ UNCHANGED <<pc, closed, joined, cancelled, jointhread>>
          /\ fpc[p] \in {"check", "pop", "lock", "write"} /\ fpc'[p] # "none"
          /\ \A q \in Procs : q # p => fpc'[q] = fpc[q]
      BY <2>20, <1>t DEF FeedBroken, closeVars
    <3> QED
      BY <1>q, <3>1 DEF FeederEnded
  <2> QED
    BY <2>1, <2>2, <2>3, <2>4, <2>5, <2>6, <2>7, <2>8, <2>9, <2>10,
       <2>11, <2>12, <2>13, <2>14, <2>15, <2>16, <2>17, <2>18, <2>19, <2>20
<1> QED
  BY <1>0, <1>a

\* Where an item on its way stands among those its process put.
LEMMA FeederAt ==
  ASSUME TypeOK, QLine, NEW p \in Procs, fobj[p] # Nothing
  PROVE  /\ Sent(p) \in Nat /\ Sent(p) + 1 \in 1..Len(puts[p])
         /\ fobj[p] = puts[p][Sent(p) + 1]
<1>1. /\ buffer[p] \in Seq(Items \cup {Nothing}) /\ puts[p] \in Seq(Items)
      /\ Line(buffer[p], puts[p], fobj[p]) /\ fobj[p] \in Items
  BY DEF TypeOK, QLine, QBuffer
<1> QED
  BY <1>1, LineWrites DEF Sent

\* An item in a buffer comes after those sent.
LEMMA BufferAt ==
  ASSUME TypeOK, QLine, NEW p \in Procs, NEW n \in DOMAIN buffer[p], buffer[p][n] # Nothing
  PROVE  \E k \in 1..Len(puts[p]) :
           /\ buffer[p][n] = puts[p][k] /\ k = Popped(buffer[p], puts[p]) + n
           /\ k > Sent(p) /\ (fobj[p] # Nothing => k > Sent(p) + 1)
<1>1. /\ buffer[p] \in Seq(Items \cup {Nothing}) /\ puts[p] \in Seq(Items)
      /\ Line(buffer[p], puts[p], fobj[p])
  BY DEF TypeOK, QLine, QBuffer
<1>2. /\ Len(buffer[p]) \in Nat /\ Len(puts[p]) \in Nat /\ Waiting(buffer[p]) \in Nat
      /\ Popped(buffer[p], puts[p]) \in Nat
      /\ Popped(buffer[p], puts[p]) + Waiting(buffer[p]) = Len(puts[p])
  BY <1>1, LineTypes DEF Line
<1>3. n \in 1..Waiting(buffer[p])
  <2>1. n \in 1..Len(buffer[p])
    BY <1>1
  <2>2. SealedBy(buffer[p]) => n # Len(buffer[p])
    BY DEF SealedBy
  <2> QED
    BY <1>2, <2>1, <2>2 DEF Waiting
<1>4. buffer[p][n] = puts[p][Popped(buffer[p], puts[p]) + n]
  BY <1>1, <1>3 DEF Line
<1>5. Popped(buffer[p], puts[p]) + n \in 1..Len(puts[p])
  BY <1>2, <1>3
<1>6. /\ fobj[p] = Nothing => Sent(p) = Popped(buffer[p], puts[p])
      /\ fobj[p] # Nothing => Sent(p) = Popped(buffer[p], puts[p]) - 1
  BY DEF Sent, SentOf
<1>7. /\ Popped(buffer[p], puts[p]) + n > Sent(p)
      /\ fobj[p] # Nothing => Popped(buffer[p], puts[p]) + n > Sent(p) + 1
  BY <1>2, <1>3, <1>6
<1> QED
  BY <1>4, <1>5, <1>7

\* An item put that is neither with the feeder nor in the buffer of its process has
\* been sent.
LEMMA SentAt ==
  ASSUME TypeOK, QLine, NEW p \in Procs, NEW k \in 1..Len(puts[p]), fobj[p] # puts[p][k],
         \A n \in DOMAIN buffer[p] : buffer[p][n] # puts[p][k]
  PROVE  k <= Sent(p)
<1>1. /\ buffer[p] \in Seq(Items \cup {Nothing}) /\ puts[p] \in Seq(Items)
      /\ Line(buffer[p], puts[p], fobj[p])
  BY DEF TypeOK, QLine, QBuffer
<1>2. /\ Len(buffer[p]) \in Nat /\ Len(puts[p]) \in Nat /\ Waiting(buffer[p]) \in Nat
      /\ Popped(buffer[p], puts[p]) \in Nat /\ Waiting(buffer[p]) <= Len(buffer[p])
      /\ Popped(buffer[p], puts[p]) + Waiting(buffer[p]) = Len(puts[p])
  BY <1>1, LineTypes DEF Line
<1>3. k <= Popped(buffer[p], puts[p])
  <2> SUFFICES ASSUME k > Popped(buffer[p], puts[p]) PROVE FALSE
    BY <1>2
  <2>1. PICK n \in Int : n = k - Popped(buffer[p], puts[p])
    BY <1>2
  <2>2. n \in 1..Waiting(buffer[p]) /\ Popped(buffer[p], puts[p]) + n = k /\ n \in 1..Len(buffer[p])
    BY <1>2, <2>1
  <2>3. buffer[p][n] = puts[p][k]
    BY <1>1, <2>2 DEF Line
  <2> QED
    BY <1>1, <2>2, <2>3
<1>4. fobj[p] # Nothing => k # Popped(buffer[p], puts[p])
  BY <1>1 DEF Line
<1>5. /\ fobj[p] = Nothing => Sent(p) = Popped(buffer[p], puts[p])
      /\ fobj[p] # Nothing => Sent(p) = Popped(buffer[p], puts[p]) - 1
  BY DEF Sent, SentOf
<1> QED
  BY <1>2, <1>3, <1>4, <1>5

\* What was sent is in the pipe or was received.
LEMMA WireHas ==
  ASSUME TypeOK, QLine, NEW p \in Procs, NEW k \in 1..Sent(p)
  PROVE  IsGot(puts[p][k]) \/ \E n \in DOMAIN pipe : pipe[n] = puts[p][k]
<1>1. PICK n \in 1..Len(Wire) : Wire[n] = puts[p][k]
  BY SentTypes DEF QLine, QWire, Carried
<1>2. CASE n \in 1..Len(got)
  <2>1. got[n] = puts[p][k] /\ n \in DOMAIN got
    BY <1>1, <1>2, WireAt, Domains
  <2> QED
    BY <2>1 DEF IsGot
<1>3. CASE n \notin 1..Len(got)
  <2>1. n - Len(got) \in 1..Len(pipe) /\ pipe[n - Len(got)] = puts[p][k]
    BY <1>1, <1>3, WireAt
  <2>2. n - Len(got) \in DOMAIN pipe
    BY <2>1 DEF TypeOK
  <2> QED
    BY <2>1, <2>2
<1> QED
  BY <1>2, <1>3

\* The four places of an item.
AtMain(i, x) == \E q \in Procs : obj[q] = i /\ x = <<"main", q>>
AtFeeder(i, x) == \E q \in Procs : fobj[q] = i /\ x = <<"feeder", q>>
AtPipe(i, x) == \E n \in DOMAIN pipe : pipe[n] = i /\ x = <<"pipe", n>>
AtBuffer(i, x) ==
  \E q \in Procs : \E n \in DOMAIN buffer[q] : buffer[q][n] = i /\ x = <<"buffer", q, n>>

\* They are the four parts of Holders.
LEMMA HoldersAre ==
  ASSUME NEW i, NEW x
  PROVE  x \in Holders(i) <=> AtMain(i, x) \/ AtFeeder(i, x) \/ AtPipe(i, x) \/ AtBuffer(i, x)
<1>1. x \in {<<"main", p>> : p \in {q \in Procs : obj[q] = i}} <=> AtMain(i, x)
  BY DEF AtMain
<1>2. x \in {<<"feeder", p>> : p \in {q \in Procs : fobj[q] = i}} <=> AtFeeder(i, x)
  BY DEF AtFeeder
<1>3. x \in {<<"pipe", k>> : k \in {n \in DOMAIN pipe : pipe[n] = i}} <=> AtPipe(i, x)
  BY DEF AtPipe
<1>4. x \in UNION {{<<"buffer", p, k>> : k \in {n \in DOMAIN buffer[p] : buffer[p][n] = i}}
                   : p \in Procs} <=> AtBuffer(i, x)
  BY DEF AtBuffer
<1> QED
  BY <1>1, <1>2, <1>3, <1>4 DEF Holders

\* The stages an item goes through exclude each other: held before it is put, waiting
\* in its process as the k-th that p put, sent.
LEMMA Stages ==
  ASSUME TypeOK, QLine, NEW i \in Items, NEW x
  PROVE  /\ AtMain(i, x) => \/ ~IsPut(i)
                            \/ IsGot(i)
         /\ AtFeeder(i, x) => \E p \in Procs : \E k \in 1..Len(puts[p]) :
              i = puts[p][k] /\ k = Sent(p) + 1 /\ fobj[p] = i /\ x = <<"feeder", p>>
         /\ AtBuffer(i, x) => \E p \in Procs : \E k \in 1..Len(puts[p]) :
              /\ i = puts[p][k] /\ k > Sent(p) /\ (fobj[p] # Nothing => k > Sent(p) + 1)
              /\ x = <<"buffer", p, k - Popped(buffer[p], puts[p])>>
         /\ AtPipe(i, x) => /\ ~IsGot(i) /\ \A q \in Procs : obj[q] # i
                            /\ \E p \in Procs : \E k \in 1..Len(puts[p]) :
                                 i = puts[p][k] /\ k <= Sent(p)
         /\ IsGot(i) => \E p \in Procs : \E k \in 1..Len(puts[p]) :
              i = puts[p][k] /\ k <= Sent(p)
<1>n. i # Nothing
  BY QueueAssumption
<1>1. ASSUME AtMain(i, x) PROVE ~IsPut(i) \/ IsGot(i)
  BY <1>1, <1>n DEF AtMain, QLine, QMain
<1>2. ASSUME AtFeeder(i, x)
      PROVE  \E p \in Procs : \E k \in 1..Len(puts[p]) :
               i = puts[p][k] /\ k = Sent(p) + 1 /\ fobj[p] = i /\ x = <<"feeder", p>>
  BY <1>2, <1>n, FeederAt DEF AtFeeder
<1>3. ASSUME AtBuffer(i, x)
      PROVE  \E p \in Procs : \E k \in 1..Len(puts[p]) :
               /\ i = puts[p][k] /\ k > Sent(p) /\ (fobj[p] # Nothing => k > Sent(p) + 1)
               /\ x = <<"buffer", p, k - Popped(buffer[p], puts[p])>>
  <2>1. PICK p \in Procs : \E n \in DOMAIN buffer[p] : buffer[p][n] = i /\ x = <<"buffer", p, n>>
    BY <1>3 DEF AtBuffer
  <2>2. PICK n \in DOMAIN buffer[p] : buffer[p][n] = i /\ x = <<"buffer", p, n>>
    BY <2>1
  <2>3. PICK k \in 1..Len(puts[p]) :
           /\ i = puts[p][k] /\ k = Popped(buffer[p], puts[p]) + n
           /\ k > Sent(p) /\ (fobj[p] # Nothing => k > Sent(p) + 1)
    BY <1>n, <2>2, BufferAt
  <2>4. n \in Int /\ Popped(buffer[p], puts[p]) \in Int
    <3>1. buffer[p] \in Seq(Items \cup {Nothing}) /\ puts[p] \in Seq(Items)
      BY DEF TypeOK
    <3>2. n \in 1..Len(buffer[p]) /\ Len(buffer[p]) \in Nat
      BY <2>2, <3>1
    <3>3. Popped(buffer[p], puts[p]) \in Int
      BY <3>1, LineTypes
    <3> QED
      BY <3>2, <3>3
  <2>5. n = k - Popped(buffer[p], puts[p])
    BY <2>3, <2>4
  <2> QED
    BY <2>2, <2>3, <2>5
<1>4. ASSUME AtPipe(i, x)
      PROVE  /\ ~IsGot(i) /\ \A q \in Procs : obj[q] # i
             /\ \E p \in Procs : \E k \in 1..Len(puts[p]) : i = puts[p][k] /\ k <= Sent(p)
  <2>1. PICK n \in 1..Len(pipe) : pipe[n] = i
    BY <1>4, Domains DEF AtPipe
  <2>2. \A p \in Procs : \A k \in 1..Sent(p) : k <= Sent(p)
    BY SentTypes
  <2>3. /\ ~IsGot(i) /\ \A q \in Procs : obj[q] # i
        /\ \E p \in Procs : \E k \in 1..Sent(p) : k \in 1..Len(puts[p]) /\ puts[p][k] = i
    BY <2>1, PipeIsPut
  <2> QED
    BY <2>2, <2>3
<1>5. ASSUME IsGot(i)
      PROVE  \E p \in Procs : \E k \in 1..Len(puts[p]) : i = puts[p][k] /\ k <= Sent(p)
  BY <1>5, GotIsPut, SentTypes
<1> QED
  BY <1>1, <1>2, <1>3, <1>4, <1>5

\* An item is put once.
LEMMA PutOnce ==
  ASSUME QLine, NEW p \in Procs, NEW k \in 1..Len(puts[p]), NEW q \in Procs,
         NEW l \in 1..Len(puts[q]), puts[p][k] = puts[q][l]
  PROVE  q = p /\ l = k
  BY DEF QLine, QMain, Distinct

\* An item is in one place at most.
LEMMA OnePlace ==
  ASSUME TypeOK, QLine, NEW i \in Items, NEW x, NEW y, x \in Holders(i), y \in Holders(i)
  PROVE  x = y
<1>n. i # Nothing
  BY QueueAssumption
<1>x. AtMain(i, x) \/ AtFeeder(i, x) \/ AtPipe(i, x) \/ AtBuffer(i, x)
  BY HoldersAre
<1>y. AtMain(i, y) \/ AtFeeder(i, y) \/ AtPipe(i, y) \/ AtBuffer(i, y)
  BY HoldersAre
<1>m. AtMain(i, x) /\ AtMain(i, y) => x = y
  BY <1>n DEF AtMain, QLine, QMain
<1>p. AtPipe(i, x) /\ AtPipe(i, y) => x = y
  <2> SUFFICES ASSUME NEW m \in DOMAIN pipe, NEW n \in DOMAIN pipe, pipe[m] = i, pipe[n] = i,
                      x = <<"pipe", m>>, y = <<"pipe", n>>
               PROVE  x = y
    BY DEF AtPipe
  <2>1. m \in 1..Len(pipe) /\ n \in 1..Len(pipe)
    BY DEF TypeOK
  <2>2. Len(got) + m = Len(got) + n
    BY <2>1, WireAt DEF QLine, QWire, Carried
  <2>3. m = n
    BY <2>1, <2>2, WireAt
  <2> QED
    BY <2>3
<1>1. CASE ~IsPut(i)
  <2>1. \A p \in Procs : \A k \in 1..Len(puts[p]) : i # puts[p][k]
    BY <1>1 DEF IsPut, PutBy, TypeOK
  <2>2. \A z : ~AtFeeder(i, z) /\ ~AtPipe(i, z) /\ ~AtBuffer(i, z)
    BY <2>1, Stages
  <2> QED
    BY <1>x, <1>y, <1>m, <2>2
<1>2. CASE IsPut(i)
  <2>0. PICK p \in Procs : \E k \in 1..Len(puts[p]) : i = puts[p][k]
    BY <1>2 DEF IsPut, PutBy, TypeOK
  <2>1. PICK k \in 1..Len(puts[p]) : i = puts[p][k]
    BY <2>0
  <2>2. \A q \in Procs : \A l \in 1..Len(puts[q]) : i = puts[q][l] => q = p /\ l = k
    BY <2>1, PutOnce
  <2>3. IsGot(i) => k <= Sent(p)
    BY <2>2, Stages
  <2>4. ASSUME NEW z
        PROVE  /\ AtMain(i, z) => IsGot(i) /\ k <= Sent(p)
               /\ AtFeeder(i, z) => k = Sent(p) + 1 /\ fobj[p] # Nothing /\ z = <<"feeder", p>>
               /\ AtBuffer(i, z) => /\ k > Sent(p)
                                    /\ fobj[p] # Nothing => k > Sent(p) + 1
                                    /\ z = <<"buffer", p, k - Popped(buffer[p], puts[p])>>
               /\ AtPipe(i, z) => ~IsGot(i) /\ k <= Sent(p)
    <3>1. AtMain(i, z) => IsGot(i) /\ k <= Sent(p)
      BY <1>2, <2>3, Stages
    <3>2. AtFeeder(i, z) => k = Sent(p) + 1 /\ fobj[p] # Nothing /\ z = <<"feeder", p>>
      BY <1>n, <2>2, Stages
    <3>3. AtBuffer(i, z) => /\ k > Sent(p)
                            /\ fobj[p] # Nothing => k > Sent(p) + 1
                            /\ z = <<"buffer", p, k - Popped(buffer[p], puts[p])>>
      BY <2>2, Stages
    <3>4. AtPipe(i, z) => ~IsGot(i) /\ k <= Sent(p)
      BY <2>2, Stages
    <3> QED
      BY <3>1, <3>2, <3>3, <3>4
  <2>5. Sent(p) \in Int /\ k \in Int
    BY SentTypes
  <2>6. /\ k = Sent(p) + 1 => ~(k <= Sent(p)) /\ ~(k > Sent(p) + 1)
        /\ k > Sent(p) => ~(k <= Sent(p))
    BY <2>5
  <2> QED
    BY <1>x, <1>y, <1>m, <1>p, <2>4, <2>6
<1> QED
  BY <1>1, <1>2

\* An item has a place exactly while it is under way.
LEMMA HeldInTransit ==
  ASSUME TypeOK, QLine
  PROVE  {i \in Items : Holders(i) # {}} = Transit
<1> SUFFICES ASSUME NEW i \in Items PROVE Holders(i) # {} <=> i \in Transit
  BY DEF Transit
<1>n. i # Nothing
  BY QueueAssumption
<1>1. ASSUME Holders(i) # {} PROVE i \in Transit
  <2>1. PICK x : x \in Holders(i)
    BY <1>1
  <2>2. AtMain(i, x) \/ AtFeeder(i, x) \/ AtPipe(i, x) \/ AtBuffer(i, x)
    BY <2>1, HoldersAre
  <2>3. AtMain(i, x) => i \in Transit
    BY DEF AtMain, Transit
  <2>4. ASSUME ~AtMain(i, x) PROVE IsPut(i) /\ ~IsGot(i)
    <3>1. IsPut(i)
      <4>1. \E p \in Procs : \E k \in 1..Len(puts[p]) : i = puts[p][k]
        BY <2>2, <2>4, Stages
      <4> QED
        BY <4>1 DEF IsPut, PutBy, TypeOK
    <3>2. CASE AtPipe(i, x)
      BY <3>1, <3>2, Stages
    <3>3. CASE AtFeeder(i, x) \/ AtBuffer(i, x)
      <4>0. PICK p \in Procs : \E k \in 1..Len(puts[p]) :
               i = puts[p][k] /\ (k = Sent(p) + 1 \/ k > Sent(p))
        BY <3>3, Stages
      <4>1. PICK k \in 1..Len(puts[p]) : i = puts[p][k] /\ (k = Sent(p) + 1 \/ k > Sent(p))
        BY <4>0
      <4>2. \A q \in Procs : \A l \in 1..Len(puts[q]) : i = puts[q][l] => q = p /\ l = k
        BY <4>1, PutOnce
      <4>3. IsGot(i) => k <= Sent(p)
        BY <4>2, Stages
      <4>4. ~(k <= Sent(p))
        BY <4>1, SentTypes
      <4> QED
        BY <3>1, <4>3, <4>4
    <3> QED
      BY <2>2, <2>4, <3>2, <3>3
  <2> QED
    BY <2>3, <2>4 DEF Transit
<1>2. ASSUME i \in Transit PROVE \E x : x \in Holders(i)
  <2>1. CASE \E q \in Procs : obj[q] = i
    BY <2>1, HoldersAre DEF AtMain
  <2>2. CASE IsPut(i) /\ ~IsGot(i)
    <3>0. PICK p \in Procs : \E k \in 1..Len(puts[p]) : i = puts[p][k]
      BY <2>2 DEF IsPut, PutBy, TypeOK
    <3>1. PICK k \in 1..Len(puts[p]) : i = puts[p][k]
      BY <3>0
    <3>2. CASE fobj[p] = i
      BY <3>2, HoldersAre DEF AtFeeder
    <3>3. CASE \E n \in DOMAIN buffer[p] : buffer[p][n] = i
      <4>1. PICK n \in DOMAIN buffer[p] : buffer[p][n] = i
        BY <3>3
      <4>2. AtBuffer(i, <<"buffer", p, n>>)
        BY <4>1 DEF AtBuffer
      <4> QED
        BY <4>2, HoldersAre
    <3>4. CASE fobj[p] # i /\ \A n \in DOMAIN buffer[p] : buffer[p][n] # i
      <4>1. k <= Sent(p)
        BY <3>1, <3>4, SentAt
      <4>2. k \in 1..Sent(p)
        BY <4>1, SentTypes
      <4>3. \E n \in DOMAIN pipe : pipe[n] = i
        BY <2>2, <3>1, <4>2, WireHas
      <4> QED
        BY <4>3, HoldersAre DEF AtPipe
    <3> QED
      BY <3>2, <3>3, <3>4
  <2> QED
    BY <1>2, <2>1, <2>2 DEF Transit
<1> QED
  BY <1>1, <1>2

\* The slots taken are those of the items that have a place.
LEMMA SlotsAreAccounted ==
  ASSUME TypeOK, QLine, QSlots
  PROVE  SlotsAccounted
<1>1. ASSUME NEW i \in Items PROVE Cardinality(Holders(i)) <= 1
  <2>1. CASE Holders(i) = {}
    BY <2>1, FS_EmptySet
  <2>2. CASE Holders(i) # {}
    <3>1. PICK x : x \in Holders(i)
      BY <2>2
    <3>2. Holders(i) = {x}
      BY <3>1, OnePlace
    <3>3. Cardinality(Holders(i)) = 1
      BY <3>2, FS_Singleton
    <3> QED
      BY <3>3
  <2> QED
    BY <2>1, <2>2
<1> QED
  BY <1>1, HeldInTransit DEF SlotsAccounted, QSlots

\* Reception is in order because the wire is.
LEMMA ReceivedInOrder ==
  ASSUME TypeOK, QLine
  PROVE  FifoPerProducer
<1>1. ASSUME NEW m \in DOMAIN got, NEW n \in DOMAIN got, got[m] = got[n] PROVE m = n
  <2>1. m \in 1..Len(Wire) /\ n \in 1..Len(Wire) /\ Wire[m] = Wire[n]
    BY <1>1, WireAt, Domains
  <2> QED
    BY <2>1 DEF QLine, QWire, Carried
<1>2. ASSUME NEW p \in Procs, NEW n \in DOMAIN got, NEW k \in DOMAIN puts[p],
             got[n] = puts[p][k], NEW j \in 1..(k - 1)
      PROVE  \E m \in 1..(n - 1) : got[m] = puts[p][j]
  <2>1. n \in 1..Len(got) /\ n \in 1..Len(Wire) /\ Wire[n] = puts[p][k] /\ k \in 1..Len(puts[p])
    <3>1. n \in 1..Len(got) /\ k \in 1..Len(puts[p])
      BY Domains
    <3> QED
      BY <1>2, <3>1, WireAt
  <2>2. IsGot(puts[p][k])
    BY <1>2 DEF IsGot
  <2>3. PICK q \in Procs : \E l \in 1..Sent(q) : l \in 1..Len(puts[q]) /\ puts[q][l] = puts[p][k]
    BY <2>2, GotIsPut
  <2>4. q = p /\ k \in 1..Sent(p)
    BY <2>1, <2>3, PutOnce
  <2>5. PICK m \in 1..(n - 1) : Wire[m] = puts[p][j]
    <3>1. k \in 1..SentAll[p]
      BY <2>4, SentTypes
    <3>2. Carried(Wire, puts, SentAll)
      BY DEF QLine, QWire
    <3> QED
      BY <2>1, <3>1, <3>2 DEF Carried
  <2>6. m \in 1..Len(got)
    BY <2>1, WireAt
  <2> QED
    BY <2>5, <2>6, WireAt
<1> QED
  BY <1>1, <1>2 DEF FifoPerProducer

\* A feeder that ended without an error has left nothing.
LEMMA ExitsFlush ==
  ASSUME TypeOK, QLine, QExit
  PROVE  ExitFlushes
<1> SUFFICES ASSUME NEW p \in Procs, pc[p] = "exited" \/ p \in joined, p # Creator,
                    p \notin cancelled, fpc[p] # "failed"
             PROVE  Flushed(p)
  BY DEF ExitFlushes
<1>1. fpc[p] \in {"none", "done"}
  BY DEF QExit, FeederEnded
<1>2. fobj[p] = Nothing /\ buffer[p] = <<>>
  BY <1>1 DEF QLine, QFeeder
<1> QED
  BY <1>2 DEF Flushed

\* At the start nothing was put.
LEMMA QInit == Init => QInv
<1> SUFFICES ASSUME Init PROVE QInv
  OBVIOUS
<1>1. TypeOK
  BY QTypeInit
<1>2. /\ \A p \in Procs : /\ puts[p] = <<>> /\ buffer[p] = <<>> /\ fobj[p] = Nothing
                          /\ obj[p] = Nothing /\ pc[p] = "idle" /\ fpc[p] = "none"
                          /\ todo[p] = {} /\ before[p] = {}
      /\ got = <<>> /\ pipe = <<>> /\ done = {} /\ closer = {} /\ closed = {} /\ joined = {}
      /\ cond = NoProc /\ unfinished = 0 /\ sem = MaxSize
  BY DEF Init
<1>3. (\A i : ~IsPut(i) /\ ~IsGot(i)) /\ PutItems = {}
  BY <1>2 DEF IsPut, PutBy, IsGot, PutItems
<1>4. QMain
  BY <1>2, <1>3 DEF QMain, Distinct
<1>5. \A p \in Procs : ~Sealed(p) /\ Waiting(buffer[p]) = 0 /\ Sent(p) = 0 /\ QBuffer(p)
  <2>1. SealedBy(<<>>) = FALSE /\ Len(<<>>) = 0
    BY DEF SealedBy
  <2>2. Waiting(<<>>) = 0
    BY <2>1 DEF Waiting
  <2>3. Popped(<<>>, <<>>) = 0
    BY <2>1, <2>2 DEF Popped
  <2> QED
    BY <1>2, <2>1, <2>2, <2>3 DEF Sealed, Sent, SentOf, QBuffer, Line
<1>6. QWire
  <2>1. Wire = <<>> /\ \A p \in Procs : SentAll[p] = 0
    BY <1>2, <1>5 DEF Wire, SentAll
  <2> QED
    BY <2>1 DEF QWire, Carried
<1>7. \A p \in Procs : QFeeder(p)
  BY <1>2, <1>5 DEF QFeeder
<1>8. QSlots
  <2>1. Transit = {}
    BY <1>2, <1>3, QueueAssumption DEF Transit
  <2> QED
    BY <1>2, <2>1, FS_EmptySet, QueueAssumption DEF QSlots
<1>9. QCond /\ QReports
  BY <1>2, QueueAssumption DEF QCond, QReports
<1>10. QCounted
  BY <1>2, <1>3, FS_EmptySet DEF QCounted
<1>11. QJoins
  <2>1. TaskDoneNeverFails
    BY Zenon DEF Init, TaskDoneNeverFails
  <2> QED
    BY <1>2, <2>1 DEF QJoins, JoinWaitsForAll
<1>12. QExit
  BY <1>2 DEF QExit, FeederEnded
<1> QED
  BY <1>1, <1>4, <1>5, <1>6, <1>7, <1>8, <1>9, <1>10, <1>11, <1>12 DEF QInv, QLine, QTasks

\* Every step keeps the invariant.
LEMMA QNext == QInv /\ [Next]_vars => QInv'
  BY QTypeNext, QLineNext, QSlotsNext, QCondNext, QReportsNext, QCountedNext, QJoinsNext,
     QExitNext
  DEF QInv, QTasks

\* The invariant implies both properties.
LEMMA QIsRight == QInv => QueueCounts /\ ItemsKept
  BY SlotsAreAccounted, ReceivedInOrder, ExitsFlush
  DEF QInv, QTasks, QJoins, QueueCounts, ItemsKept

\* The counts of a queue are right whatever its processes, size and pipe: _sem gives a
\* slot to every item under way and to nothing else, _unfinished_tasks lets join go
\* when all that were put before it are reported, task_done never complains.
THEOREM QueueCountsRight == Spec => []QueueCounts
<1>1. Spec => []QInv
  BY QInit, QNext, PTL DEF Spec
<1> QED
  BY <1>1, QIsRight, PTL

\* The items of one process are received once each, in its order, none skipped; a
\* process that waits for its feeder leaves nothing behind.
THEOREM QueueKeepsItems == Spec => []ItemsKept
<1>1. Spec => []QInv
  BY QInit, QNext, PTL DEF Spec
<1> QED
  BY <1>1, QIsRight, PTL

==============================================================================
