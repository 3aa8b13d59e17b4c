-------------------------------- MODULE Queue --------------------------------
(***************************************************************************)
(* The JoinableQueue of billiard/queues.py (a Queue is one whose consumers *)
(* never call task_done and join): a pipe shared by processes, each with a *)
(* buffer that a feeder thread of its own empties into the pipe.  A        *)
(* process has one thread that uses the queue, and may close it and exit.  *)
(* The condition _cond is taken as what theorem AllAreWoken of             *)
(* ConditionProofs says: notify_all wakes every sleeper.                   *)
(***************************************************************************)
EXTENDS Integers, Sequences, FiniteSets

CONSTANTS
  Procs,        \* the processes that share the queue
  Creator,      \* the one with _opid = os.getpid()
  NoProc,       \* stands for no process
  Items,        \* the objects put, each one once
  Unpicklable,  \* those that ForkingPickler.dumps rejects
  Nothing,      \* stands for no item, and for the feeder's _sentinel
  MaxSize,      \* Queue(maxsize=...)
  PipeSize,     \* items that fit into the pipe
  Cancellers    \* the processes that may call cancel_join_thread

ASSUME QueueAssumption ==
  /\ IsFiniteSet(Procs) /\ IsFiniteSet(Items)
  /\ Creator \in Procs /\ NoProc \notin Procs /\ Cancellers \subseteq Procs
  /\ Unpicklable \subseteq Items /\ Nothing \notin Items
  /\ MaxSize \in Nat \ {0} /\ PipeSize \in Nat \ {0}

VARIABLES
  sem,         \* _sem
  pipe,        \* the bytes between _writer and _reader
  rlock, wlock,   \* holders of _rlock and _wlock
  cond,        \* holder of _cond's lock
  unfinished,  \* _unfinished_tasks
  pc, obj,     \* process -> where its main thread is, the item at hand
  buffer,      \* process -> _buffer; Nothing is the sentinel
  fpc, fobj,   \* process -> where its feeder is, the item at hand
  closed,      \* processes with _closed
  closer,      \* processes whose _close finalizer has not run yet
  jointhread,  \* processes whose _jointhread finalizer has not run yet
  cancelled,   \* processes with _joincancelled
  todo,        \* process -> items it got and did not report with task_done
  puts, got,   \* history: items in the order put by each process, received
  before,      \* history: process -> items counted when its join began
  done,        \* history: items reported with task_done
  joined,      \* history: processes whose join_thread has returned
  tooMany      \* history: task_done raised "called too many times"

lockVars  == <<rlock, wlock, cond>>
feedVars  == <<buffer, fpc, fobj>>
closeVars == <<closed, closer, jointhread, cancelled, joined>>
taskVars  == <<unfinished, todo, before, done, tooMany>>
vars == <<sem, pipe, lockVars, pc, obj, feedVars, closeVars, taskVars, puts,
          got>>

Goto(p, l) == pc' = [pc EXCEPT ![p] = l]

(***************************************************************************)
(* put                                                                     *)
(***************************************************************************)

\* _closed is tested and a slot taken from _sem; without one put blocks or
\* raises Full.
PutAcquire(p, i) ==
  /\ pc[p] = "idle"
  /\ p \notin closed
  /\ \A q \in Procs : \A k \in DOMAIN puts[q] : puts[q][k] # i
  /\ \A q \in Procs : obj[q] # i
  /\ sem > 0
  /\ sem' = sem - 1
  /\ obj' = [obj EXCEPT ![p] = i]
  /\ Goto(p, "append")
  /\ UNCHANGED <<pipe, lockVars, feedVars, closeVars, taskVars, puts, got>>

\* With _notempty and _cond held: start the feeder the first time, append.
PutAppend(p) ==
  /\ pc[p] = "append"
  /\ cond = NoProc
  /\ cond' = p
  /\ IF fpc[p] = "none"
     THEN /\ fpc' = [fpc EXCEPT ![p] = "check"]
          /\ closer' = closer \cup {p}
          /\ jointhread' = IF p \in cancelled \/ p = Creator THEN jointhread
                           ELSE jointhread \cup {p}
     ELSE UNCHANGED <<fpc, closer, jointhread>>
  /\ buffer' = [buffer EXCEPT ![p] = Append(@, obj[p])]
  /\ puts' = [puts EXCEPT ![p] = Append(@, obj[p])]
  /\ obj' = [obj EXCEPT ![p] = Nothing]
  /\ Goto(p, "count")
  /\ UNCHANGED <<sem, pipe, rlock, wlock, fobj, closed, cancelled, joined,
                 taskVars, got>>

\* Mutant of Notify: the feeder is not woken.
NotifyNobody(p) == UNCHANGED fpc

\* _notempty.notify() wakes the feeder if it waits.
Notify(p) ==
  fpc' = [fpc EXCEPT ![p] = IF @ = "nwait" THEN "pop" ELSE @]

\* _unfinished_tasks.release(), the notification, and both locks are free.
PutCount(p) ==
  /\ pc[p] = "count"
  /\ unfinished' = unfinished + 1
  /\ Notify(p)
  /\ cond' = NoProc
  /\ Goto(p, "idle")
  /\ UNCHANGED <<sem, pipe, rlock, wlock, obj, buffer, fobj, closeVars, todo,
                 before, done, tooMany, puts, got>>

(***************************************************************************)
(* The feeder thread, _feed                                                *)
(***************************************************************************)

\* With _notempty held, which put keeps until the item is counted: wait if the
\* buffer is empty.
FeedCheck(p) ==
  /\ fpc[p] = "check"
  /\ pc[p] # "count"
  /\ fpc' = [fpc EXCEPT ![p] = IF buffer[p] = <<>> THEN "nwait" ELSE "pop"]
  /\ UNCHANGED <<sem, pipe, lockVars, pc, obj, buffer, fobj, closeVars,
                 taskVars, puts, got>>

\* Mutant of FeedPop: pop() for popleft().
FeedPopLast(p) ==
  /\ fpc[p] = "pop"
  /\ IF buffer[p] = <<>>
     THEN fpc' = [fpc EXCEPT ![p] = "check"] /\ UNCHANGED <<buffer, fobj>>
     ELSE LET last == buffer[p][Len(buffer[p])] IN
          /\ buffer' = [buffer EXCEPT ![p] = SubSeq(@, 1, Len(@) - 1)]
          /\ fobj' = [fobj EXCEPT ![p] = last]
          /\ fpc' = [fpc EXCEPT ![p] = IF last = Nothing THEN "done" ELSE "lock"]
  /\ UNCHANGED <<sem, pipe, lockVars, pc, obj, closeVars, taskVars, puts, got>>

\* buffer.popleft(), without the lock.  The sentinel ends the thread, an
\* object that cannot be pickled does so with an error.
FeedPop(p) ==
  /\ fpc[p] = "pop"
  /\ \/ /\ buffer[p] = <<>>
        /\ fpc' = [fpc EXCEPT ![p] = "check"]
        /\ UNCHANGED <<buffer, fobj>>
     \/ /\ buffer[p] # <<>>
        /\ buffer' = [buffer EXCEPT ![p] = Tail(@)]
        /\ fobj' = [fobj EXCEPT ![p] = Head(buffer[p])]
        /\ fpc' = [fpc EXCEPT ![p] =
                     CASE Head(buffer[p]) = Nothing -> "done"
                       [] Head(buffer[p]) \in Unpicklable -> "failed"
                       [] OTHER -> "lock"]
  /\ UNCHANGED <<sem, pipe, lockVars, pc, obj, closeVars, taskVars, puts, got>>

\* wacquire()
FeedLock(p) ==
  /\ fpc[p] = "lock"
  /\ wlock = NoProc
  /\ wlock' = p
  /\ fpc' = [fpc EXCEPT ![p] = "write"]
  /\ UNCHANGED <<sem, pipe, rlock, cond, pc, obj, buffer, fobj, closeVars,
                 taskVars, puts, got>>

Readers == {q \in Procs : q \notin closed /\ pc[q] # "exited"}

\* send_bytes, which blocks while the pipe is full, and wrelease()
FeedWrite(p) ==
  /\ fpc[p] = "write"
  /\ Readers # {}
  /\ Len(pipe) < PipeSize
  /\ pipe' = Append(pipe, fobj[p])
  /\ fobj' = [fobj EXCEPT ![p] = Nothing]
  /\ wlock' = NoProc
  /\ fpc' = [fpc EXCEPT ![p] = "pop"]
  /\ UNCHANGED <<sem, rlock, cond, pc, obj, buffer, closeVars, taskVars, puts,
                 got>>

\* The same when nobody is left to read: EPIPE ends the thread.
FeedBroken(p) ==
  /\ fpc[p] = "write"
  /\ Readers = {}
  /\ wlock' = NoProc
  /\ fpc' = [fpc EXCEPT ![p] = "failed"]
  /\ UNCHANGED <<sem, pipe, rlock, cond, pc, obj, buffer, fobj, closeVars,
                 taskVars, puts, got>>

(***************************************************************************)
(* get                                                                     *)
(***************************************************************************)

\* _rlock is taken, by a get that blocks or by one with a timeout.
GetLock(p, mode) ==
  /\ pc[p] = "idle"
  /\ p \notin closed
  /\ rlock = NoProc
  /\ rlock' = p
  /\ Goto(p, mode)
  /\ UNCHANGED <<sem, pipe, wlock, cond, obj, feedVars, closeVars, taskVars,
                 puts, got>>

\* poll fails: Empty is raised.
GetEmpty(p) ==
  /\ pc[p] = "trecv"
  /\ pipe = <<>>
  /\ rlock' = NoProc
  /\ Goto(p, "idle")
  /\ UNCHANGED <<sem, pipe, wlock, cond, obj, feedVars, closeVars, taskVars,
                 puts, got>>

\* recv_bytes; a get without timeout releases _rlock before the slot ...
GetRecv(p) ==
  /\ pc[p] \in {"recv", "trecv"}
  /\ pipe # <<>>
  /\ pipe' = Tail(pipe)
  /\ got' = Append(got, Head(pipe))
  /\ obj' = [obj EXCEPT ![p] = Head(pipe)]
  /\ IF pc[p] = "recv" THEN rlock' = NoProc /\ Goto(p, "release")
                       ELSE UNCHANGED rlock /\ Goto(p, "trelease")
  /\ UNCHANGED <<sem, wlock, cond, feedVars, closeVars, taskVars, puts>>

\* Mutant of GetRelease: a get with a timeout does not give the slot back.
GetReleaseForgets(p) ==
  /\ pc[p] \in {"release", "trelease"}
  /\ sem' = IF pc[p] = "release" THEN sem + 1 ELSE sem
  /\ rlock' = IF pc[p] = "trelease" THEN NoProc ELSE rlock
  /\ todo' = [todo EXCEPT ![p] = @ \cup {obj[p]}]
  /\ obj' = [obj EXCEPT ![p] = Nothing]
  /\ Goto(p, "idle")
  /\ UNCHANGED <<pipe, wlock, cond, feedVars, closeVars, unfinished, before,
                 done, tooMany, puts, got>>

\* ... and one with a timeout after it: _sem.release().
GetRelease(p) ==
  /\ pc[p] \in {"release", "trelease"}
  /\ sem' = sem + 1
  /\ rlock' = IF pc[p] = "trelease" THEN NoProc ELSE rlock
  /\ todo' = [todo EXCEPT ![p] = @ \cup {obj[p]}]
  /\ obj' = [obj EXCEPT ![p] = Nothing]
  /\ Goto(p, "idle")
  /\ UNCHANGED <<pipe, wlock, cond, feedVars, closeVars, unfinished, before,
                 done, tooMany, puts, got>>

(***************************************************************************)
(* task_done and join                                                      *)
(***************************************************************************)

\* task_done for item i, with notify_all when it was the last one.
TaskDone(p, i) ==
  /\ pc[p] = "idle"
  /\ i \in todo[p]
  /\ cond = NoProc
  /\ todo' = [todo EXCEPT ![p] = @ \ {i}]
  /\ done' = done \cup {i}
  /\ IF unfinished = 0
     THEN tooMany' = TRUE /\ UNCHANGED <<unfinished, pc>>
     ELSE /\ unfinished' = unfinished - 1
          /\ pc' = [q \in Procs |-> IF pc[q] = "jwait" /\ unfinished = 1
                                    THEN "jwake" ELSE pc[q]]
          /\ UNCHANGED tooMany
  /\ UNCHANGED <<sem, pipe, lockVars, obj, feedVars, closeVars, before, puts,
                 got>>

\* The items put and counted so far.
Counted ==
  UNION {{puts[q][k] : k \in {n \in DOMAIN puts[q] :
                                ~(pc[q] = "count" /\ n = Len(puts[q]))}}
         : q \in Procs}

\* join: return, or _cond.wait(), which lets the lock go ...
JoinBegin(p) ==
  /\ pc[p] = "idle"
  /\ cond = NoProc
  /\ before' = [before EXCEPT ![p] = Counted]
  /\ Goto(p, IF unfinished = 0 THEN "jwake" ELSE "jwait")
  /\ UNCHANGED <<sem, pipe, lockVars, obj, feedVars, closeVars, unfinished,
                 todo, done, tooMany, puts, got>>

\* ... until it was notified and has the lock again.
JoinEnd(p) ==
  /\ pc[p] = "jwake"
  /\ cond = NoProc
  /\ before' = [before EXCEPT ![p] = {}]
  /\ Goto(p, "idle")
  /\ UNCHANGED <<sem, pipe, lockVars, obj, feedVars, closeVars, unfinished,
                 todo, done, tooMany, puts, got>>

(***************************************************************************)
(* close, join_thread, cancel_join_thread and the end of a process         *)
(***************************************************************************)

\* The finalizer _finalize_close: the sentinel is appended once.
FinalizeClose(p) ==
  IF p \in closer
  THEN /\ closer' = closer \ {p}
       /\ buffer' = [buffer EXCEPT ![p] = Append(@, Nothing)]
       /\ Notify(p)
  ELSE UNCHANGED <<closer, buffer, fpc>>

\* close()
Close(p) ==
  /\ pc[p] = "idle"
  /\ p \notin closed
  /\ closed' = closed \cup {p}
  /\ FinalizeClose(p)
  /\ UNCHANGED <<sem, pipe, lockVars, pc, obj, fobj, jointhread, cancelled,
                 joined, taskVars, puts, got>>

\* The feeder of p has ended, or there never was one.
FeederEnded(p) == fpc[p] \in {"none", "done", "failed"}

\* join_thread() returns; _jointhread is a finalizer that runs once.
JoinThread(p) ==
  /\ pc[p] = "idle"
  /\ p \in closed /\ p \notin joined
  /\ p \in jointhread => FeederEnded(p)
  /\ jointhread' = jointhread \ {p}
  /\ joined' = joined \cup {p}
  /\ UNCHANGED <<sem, pipe, lockVars, pc, obj, feedVars, closed, closer,
                 cancelled, taskVars, puts, got>>

\* cancel_join_thread()
CancelJoinThread(p) ==
  /\ pc[p] = "idle"
  /\ p \in Cancellers \ cancelled
  /\ cancelled' = cancelled \cup {p}
  /\ jointhread' = jointhread \ {p}
  /\ UNCHANGED <<sem, pipe, lockVars, pc, obj, feedVars, closed, closer,
                 joined, taskVars, puts, got>>

\* The process ends: finalizers of priority 10, among them _finalize_close ...
ExitBegin(p) ==
  /\ pc[p] = "idle"
  /\ FinalizeClose(p)
  /\ Goto(p, "exiting")
  /\ UNCHANGED <<sem, pipe, lockVars, obj, fobj, closed, jointhread,
                 cancelled, joined, taskVars, puts, got>>

\* ... and of priority -5, _finalize_join; then a daemon feeder dies with the
\* process, whatever it holds.
ExitEnd(p) ==
  /\ pc[p] = "exiting"
  /\ p \in jointhread => FeederEnded(p)
  /\ jointhread' = jointhread \ {p}
  /\ Goto(p, "exited")
  /\ fpc' = [fpc EXCEPT ![p] = IF FeederEnded(p) THEN @ ELSE "killed"]
  /\ UNCHANGED <<sem, pipe, lockVars, obj, buffer, fobj, closed, closer,
                 cancelled, joined, taskVars, puts, got>>

(***************************************************************************)
(* The specification                                                       *)
(***************************************************************************)

Init ==
  /\ sem = MaxSize /\ pipe = <<>>
  /\ rlock = NoProc /\ wlock = NoProc /\ cond = NoProc
  /\ unfinished = 0
  /\ pc = [p \in Procs |-> "idle"] /\ obj = [p \in Procs |-> Nothing]
  /\ buffer = [p \in Procs |-> <<>>]
  /\ fpc = [p \in Procs |-> "none"] /\ fobj = [p \in Procs |-> Nothing]
  /\ closed = {} /\ closer = {} /\ jointhread = {} /\ cancelled = {}
  /\ todo = [p \in Procs |-> {}]
  /\ puts = [p \in Procs |-> <<>>] /\ got = <<>>
  /\ before = [p \in Procs |-> {}]
  /\ done = {} /\ joined = {} /\ tooMany = FALSE

FeedStep(p) ==
  FeedCheck(p) \/ FeedPop(p) \/ FeedLock(p) \/ FeedWrite(p) \/ FeedBroken(p)

\* What a process does by itself inside an operation of the queue.
MainStep(p) ==
  \/ PutAppend(p) \/ PutCount(p) \/ GetRecv(p) \/ GetRelease(p) \/ JoinEnd(p)
  \/ ExitEnd(p)

Call(p) ==
  \/ \E i \in Items : PutAcquire(p, i) \/ TaskDone(p, i)
  \/ \E mode \in {"recv", "trecv"} : GetLock(p, mode)
  \/ GetEmpty(p) \/ JoinBegin(p) \/ Close(p) \/ JoinThread(p)
  \/ CancelJoinThread(p) \/ ExitBegin(p)

Next == \E p \in Procs : Call(p) \/ MainStep(p) \/ FeedStep(p)

Spec == Init /\ [][Next]_vars

\* The feeder threads run, and a process goes on inside an operation.
Fairness == \A p \in Procs : WF_vars(FeedStep(p)) /\ WF_vars(MainStep(p))

FairSpec == Spec /\ Fairness

(***************************************************************************)
(* Properties                                                              *)
(***************************************************************************)

\* Every variable has its type.
TypeOK ==
  /\ sem \in Nat /\ pipe \in Seq(Items) /\ unfinished \in Nat
  /\ {rlock, wlock, cond} \subseteq Procs \cup {NoProc}
  /\ pc \in [Procs -> {"idle", "append", "count", "recv", "trecv", "release",
                       "trelease", "jwait", "jwake", "exiting", "exited"}]
  /\ obj \in [Procs -> Items \cup {Nothing}]
  /\ buffer \in [Procs -> Seq(Items \cup {Nothing})]
  /\ fpc \in [Procs -> {"none", "check", "nwait", "pop", "lock", "write",
                        "done", "failed", "killed"}]
  /\ fobj \in [Procs -> Items \cup {Nothing}]
  /\ closed \subseteq Procs /\ closer \subseteq Procs
  /\ jointhread \subseteq Procs /\ cancelled \subseteq Procs
  /\ joined \subseteq Procs
  /\ todo \in [Procs -> SUBSET Items]
  /\ puts \in [Procs -> Seq(Items)] /\ got \in Seq(Items)
  /\ before \in [Procs -> SUBSET Items]
  /\ done \subseteq Items /\ tooMany \in BOOLEAN

\* Where an item that holds a slot of the queue can be: with its putter, in a
\* buffer, with a feeder (also a dead one), in the pipe, with its getter.
Holders(i) ==
  {<<"main", p>> : p \in {q \in Procs : obj[q] = i}}
  \cup {<<"feeder", p>> : p \in {q \in Procs : fobj[q] = i}}
  \cup {<<"pipe", k>> : k \in {n \in DOMAIN pipe : pipe[n] = i}}
  \cup UNION {{<<"buffer", p, k>> :
                 k \in {n \in DOMAIN buffer[p] : buffer[p][n] = i}} : p \in Procs}

\* Every slot of _sem that is taken belongs to one item on its way, so the
\* queue never holds more than maxsize items, loses no slot while its feeders
\* live, and _sem is never released too often.
SlotsAccounted ==
  /\ \A i \in Items : Cardinality(Holders(i)) <= 1
  /\ sem + Cardinality({i \in Items : Holders(i) # {}}) = MaxSize

\* Each item is received at most once, and those of one process in the order it
\* put them, none skipped, whatever other processes do.
FifoPerProducer ==
  /\ \A m, n \in DOMAIN got : got[m] = got[n] => m = n
  /\ \A p \in Procs, n \in DOMAIN got : \A k \in DOMAIN puts[p] :
       got[n] = puts[p][k] =>
         \A j \in 1..(k - 1) : \E m \in 1..(n - 1) : got[m] = puts[p][j]

\* task_done never complains when it is called once for every item received,
\* however fast the feeder and the consumer are.
TaskDoneNeverFails == ~tooMany

\* When join is let go, every item counted before it began was reported.
JoinWaitsForAll ==
  \A p \in Procs : pc[p] = "jwake" => before[p] \subseteq done

\* The counts of the queue are right in every order of put, get, task_done and
\* join: a slot for each item under way, and as many unfinished tasks as there are.
QueueCounts ==
  /\ TypeOK
  /\ SlotsAccounted
  /\ TaskDoneNeverFails
  /\ JoinWaitsForAll

\* Nothing that p put is left behind in its process.
Flushed(p) == fobj[p] = Nothing /\ \A k \in DOMAIN buffer[p] : buffer[p][k] = Nothing

\* A process that did not create the queue and did not cancel the join leaves
\* nothing behind when it exits or when join_thread returns, unless an error
\* ended its feeder.
ExitFlushes ==
  \A p \in Procs :
    /\ pc[p] = "exited" \/ p \in joined
    /\ p # Creator /\ p \notin cancelled /\ fpc[p] # "failed"
    => Flushed(p)

\* Items are neither reordered nor left behind by a process that exits.
ItemsKept ==
  /\ FifoPerProducer
  /\ ExitFlushes

\* The feeder misses no notification: what is in a buffer leaves the process,
\* unless the pipe is full, the feeder or its process ends, or another feeder
\* died with its process while it held _wlock.
BufferFlushes ==
  \A p \in Procs :
    buffer[p] # <<>> ~>
      \/ Flushed(p) \/ fpc[p] \in {"failed", "killed"}
      \/ Len(pipe) = PipeSize
      \/ \E q \in Procs : wlock = q /\ fpc[q] = "killed"

(***************************************************************************)
(* A statement of the documentation that the code does not keep            *)
(***************************************************************************)

\* Documentation of join_thread(): "It blocks until the background thread
\* exits, ensuring that all data in the buffer has been flushed to the pipe."
JoinThreadFlushes ==
  [][\A p \in Procs : p \in joined' \ joined /\ p \notin cancelled => Flushed(p)]_vars

=============================================================================
