------------------------------- MODULE Results -------------------------------
(***************************************************************************)
(* The result objects of billiard/pool.py that collect several tasks: one  *)
(* call of map_async, imap or imap_unordered, from the task generator that *)
(* TaskHandler runs to the caller's get() or next(), with workers that     *)
(* leave (recycled) or die, and the clean-up after them.  The calls of one *)
(* object by ResultHandler, TaskHandler and Supervisor interleave.  Every  *)
(* task can be pickled here (see Pool for one that cannot).                *)
(***************************************************************************)
EXTENDS Integers, Sequences, FiniteSets, Functions

CONSTANTS
  MaxItems,   \* bound: length of the iterable
  ResPids,    \* the workers, replacements included
  Raising,    \* the tasks whose function raises
  MaxExit     \* bound: workers that leave or are killed

ASSUME ResAssumption == MaxItems \in Nat /\ MaxExit \in Nat

VARIABLES
  resCall,     \* [kind, num, len, chunk, raises]: the call, or kind = "none"
  resTh,       \* TaskHandler: "idle", "put" or "done"
  resPut,      \* tasks written to the inqueue
  resTaken,    \* tasks read from it
  resWork,     \* worker -> its last task, or NoIndex
  resWpc,      \* worker -> "idle", "run", "sent", "exited" or "gone"
  resOut,      \* the outqueue
  resRh,       \* ResultHandler: the message about to be set, if any, in a sequence
  resExit,     \* a thread has crashed, and os._exit has ended the program
  resCached,   \* the object is in _cache
  resReady,    \* _event is set, or _ready
  resFailed,   \* map: _success is False and _value an ExceptionInfo
  resFilled,   \* map: the positions of _value that are set
  resLeft,     \* map: _number_left
  resPids,     \* worker_pids()
  resIndex, resLength, resItems, resUnsorted,   \* imap: its fields
  resLost,     \* _worker_lost: "no", "fresh" or "elapsed"
  resGot,      \* what next() has returned or raised
  resStop,     \* next() has raised StopIteration
  resExits     \* workers that have left or died

thisCall == <<resCall, resTh, resPut, resTaken>>
workers  == <<resWork, resWpc, resExits>>
object   == <<resCached, resReady, resFailed, resFilled, resLeft, resIndex,
              resLength, resItems, resUnsorted>>
consumer == <<resGot, resStop>>
resVars == <<thisCall, workers, resOut, resRh, resExit, object, resPids, resLost,
             consumer>>

NoIndex == -1
IsMap == resCall.kind = "map"

\* The tasks _get_tasks makes, and the items of task i.
Chunks(len, size) == IF size = 0 THEN 0 ELSE (len + size - 1) \div size
ChunkItems(i) ==
  {n \in 0..(resCall.len - 1) : n \div resCall.chunk = i}

ResInit ==
  /\ resCall = [kind |-> "none", num |-> 0, len |-> 0, chunk |-> 1, raises |-> 0]
  /\ resTh = "idle" /\ resPut = 0 /\ resTaken = 0
  /\ resWork = [p \in ResPids |-> NoIndex]
  /\ resWpc = [p \in ResPids |-> "idle"]
  /\ resOut = <<>> /\ resRh = <<>> /\ resExit = FALSE
  /\ resCached = FALSE /\ resReady = FALSE /\ resFailed = FALSE
  /\ resFilled = {} /\ resLeft = 0 /\ resPids = {}
  /\ resIndex = 0 /\ resLength = NoIndex /\ resItems = <<>> /\ resUnsorted = {}
  /\ resLost = "no"
  /\ resGot = <<>> /\ resStop = FALSE /\ resExits = 0

\* map_async, imap or imap_unordered: the object enters the cache and the tasks
\* go to TaskHandler as a generator.  num is the number of the job; the
\* iterable of an imap raises after "raises" items if that is less than len.
Submit(kind, num, len, size, raises) ==
  /\ resTh = "idle"
  /\ resCall' = [kind |-> kind, num |-> num, len |-> len, chunk |-> size,
                 raises |-> raises]
  /\ resTh' = "put"
  /\ resCached' = (kind # "map" \/ len > 0)
  /\ resReady' = (kind = "map" /\ len = 0)
  /\ resLeft' = Chunks(len, size)
  /\ UNCHANGED <<resPut, resTaken, workers, resOut, resRh, resExit, resFailed,
                 resFilled, resPids, resIndex, resLength, resItems, resUnsorted,
                 resLost, consumer>>

(***************************************************************************)
(* The methods _set and _set_length, called with the object at hand        *)
(***************************************************************************)

\* MapResult._set
MapSet(i, ok) ==
  /\ IF ok
     THEN /\ resFilled' = resFilled \cup ChunkItems(i)
          /\ resLeft' = resLeft - 1
          /\ resReady' = (resReady \/ resLeft = 1)
          /\ resCached' = (resCached /\ resLeft # 1)
          /\ UNCHANGED resFailed
     ELSE /\ resFailed' = TRUE /\ resReady' = TRUE /\ resCached' = FALSE
          /\ UNCHANGED <<resFilled, resLeft>>
  /\ UNCHANGED <<resIndex, resLength, resItems, resUnsorted>>

\* The objects that become available in order once the one of index i is there.
Run(i, obj) ==
  LET keys == {u.i : u \in resUnsorted}
      end  == CHOOSE k \in (i + 1)..(i + 1 + Cardinality(keys)) :
                k \notin keys /\ \A m \in (i + 1)..(k - 1) : m \in keys
  IN [n \in 1..(end - i) |->
        IF n = 1 THEN obj ELSE CHOOSE u \in resUnsorted : u.i = i + n - 1]

\* Mutant of ImapSet: the objects that waited for this one are left behind.
ImapSetOne(i, ok) ==
  LET obj  == [i |-> i, ok |-> ok]
      more == IF resCall.kind = "unordered" \/ i = resIndex THEN <<obj>> ELSE <<>>
  IN
  /\ resItems' = resItems \o more
  /\ resIndex' = resIndex + Len(more)
  /\ resUnsorted' = IF more = <<>> THEN {u \in resUnsorted : u.i # i} \cup {obj}
                    ELSE resUnsorted
  /\ resReady' = (resReady \/ resIndex' = resLength)
  /\ resCached' = (resCached /\ resIndex' # resLength)
  /\ UNCHANGED <<resFailed, resFilled, resLeft, resLength>>

\* Mutant of ImapSet: objects are handed out as they come.
ImapSetAny(i, ok) ==
  LET obj == [i |-> i, ok |-> ok] IN
  /\ resItems' = Append(resItems, obj)
  /\ resIndex' = resIndex + 1
  /\ UNCHANGED resUnsorted
  /\ resReady' = (resReady \/ resIndex' = resLength)
  /\ resCached' = (resCached /\ resIndex' # resLength)
  /\ UNCHANGED <<resFailed, resFilled, resLeft, resLength>>

\* IMapIterator._set and IMapUnorderedIterator._set
ImapSet(i, ok) ==
  LET obj  == [i |-> i, ok |-> ok]
      more == IF resCall.kind = "unordered" THEN <<obj>>
              ELSE IF i = resIndex THEN Run(i, obj) ELSE <<>>
  IN
  /\ resItems' = resItems \o more
  /\ resIndex' = resIndex + Len(more)
  /\ resUnsorted' = IF more = <<>> THEN {u \in resUnsorted : u.i # i} \cup {obj}
                    ELSE resUnsorted \ Range(more)
  /\ resReady' = (resReady \/ resIndex' = resLength)
  /\ resCached' = (resCached /\ resIndex' # resLength)
  /\ UNCHANGED <<resFailed, resFilled, resLeft, resLength>>

ResSet(i, ok) == IF IsMap THEN MapSet(i, ok) ELSE ImapSet(i, ok)

(***************************************************************************)
(* TaskHandler                                                             *)
(***************************************************************************)

\* The generator yields a task and it is written.
PutTask ==
  /\ resTh = "put"
  /\ resPut < Chunks(resCall.len, resCall.chunk)
  /\ resPut < resCall.raises
  /\ resPut' = resPut + 1
  /\ UNCHANGED <<resCall, resTh, resTaken, workers, resOut, resRh, resExit, object,
                 resPids, resLost, consumer>>

\* It is exhausted: _set_length of an imap.
PutEnd ==
  /\ resTh = "put"
  /\ resPut = Chunks(resCall.len, resCall.chunk)
  /\ resTh' = "done"
  /\ IF IsMap THEN UNCHANGED object
     ELSE /\ resLength' = resPut
          /\ resReady' = (resReady \/ resIndex = resPut)
          /\ resCached' = (resCached /\ resIndex # resPut)
          /\ UNCHANGED <<resFailed, resFilled, resLeft, resIndex, resItems, resUnsorted>>
  /\ UNCHANGED <<resCall, resPut, resTaken, workers, resOut, resRh, resExit, resPids,
                 resLost, consumer>>

\* The iterable raises.  The handler takes the first fields of the last task,
\* TASK = 2 and a tuple, for the job and its index (and 0, 0 if there was no
\* task).  If that job is in the cache adding 1 to the tuple fails, which ends
\* the program; otherwise the length is set to what was written so far.
PutRaises ==
  /\ resTh = "put" /\ ~IsMap
  /\ resPut = resCall.raises /\ resPut < resCall.len
  /\ \/ /\ resPut > 0 /\ resCall.num = 2 /\ resCached
        /\ resTh' = "done"
        /\ resExit' = TRUE
        /\ UNCHANGED object
     \/ /\ \/ resPut > 0 /\ ~(resCall.num = 2 /\ resCached)
           \/ resPut = 0 /\ resCall.num # 0
        /\ resTh' = "done" /\ UNCHANGED resExit
        /\ resLength' = resPut
        /\ resReady' = (resReady \/ resIndex = resPut)
        /\ resCached' = (resCached /\ resIndex # resPut)
        /\ UNCHANGED <<resFailed, resFilled, resLeft, resIndex, resItems, resUnsorted>>
     \/ /\ resPut = 0 /\ resCall.num = 0       \* cache[0]._set(1, ...)
        /\ resTh' = "done" /\ UNCHANGED resExit
        /\ resLength' = 0
        /\ LET obj == [i |-> 1, ok |-> FALSE] IN
           IF resCall.kind = "unordered"
           THEN resItems' = <<obj>> /\ resIndex' = 1 /\ UNCHANGED <<resUnsorted,
                                                       resReady, resCached>>
           ELSE /\ resUnsorted' = {obj} /\ resReady' = TRUE /\ resCached' = FALSE
                /\ UNCHANGED <<resItems, resIndex>>
        /\ UNCHANGED <<resFailed, resFilled, resLeft>>
  /\ UNCHANGED <<resCall, resPut, resTaken, workers, resOut, resRh, resPids,
                 resLost, consumer>>

(***************************************************************************)
(* Workers, ResultHandler, Supervisor                                      *)
(***************************************************************************)

\* A worker reads a task and writes its ACK (for a death in between see Pool).
TakeTask(p) ==
  /\ resWpc[p] = "idle" /\ resTaken < resPut
  /\ resWork' = [resWork EXCEPT ![p] = resTaken]
  /\ resTaken' = resTaken + 1
  /\ resWpc' = [resWpc EXCEPT ![p] = "run"]
  /\ resOut' = Append(resOut, [type |-> "ACK", i |-> resTaken, pid |-> p, ok |-> TRUE])
  /\ UNCHANGED <<resCall, resTh, resPut, resExits, resRh, resExit, object, resPids,
                 resLost, consumer>>

\* The function returns or raises; READY is written.
EndTask(p) ==
  /\ resWpc[p] = "run"
  /\ resWpc' = [resWpc EXCEPT ![p] = "idle"]
  /\ resWork' = [resWork EXCEPT ![p] = NoIndex]
  /\ resOut' = Append(resOut, [type |-> "READY", i |-> resWork[p], pid |-> p,
                             ok |-> resWork[p] \notin Raising])
  /\ UNCHANGED <<thisCall, resExits, resRh, resExit, object, resPids, resLost, consumer>>

\* A worker has done its share and leaves (maxtasksperchild), or is killed.
LeaveOrDie(p) ==
  /\ resWpc[p] \in {"idle", "run"} /\ resExits < MaxExit
  /\ resExits' = resExits + 1
  /\ resWpc' = [resWpc EXCEPT ![p] = "exited"]
  /\ UNCHANGED <<thisCall, resWork, resOut, resRh, resExit, object, resPids, resLost,
                 consumer>>

\* on_ack, and _ack of the object if it is in the cache.
OnAck ==
  /\ resRh = <<>> /\ resOut # <<>> /\ Head(resOut).type = "ACK"
  /\ resOut' = Tail(resOut)
  /\ IF resCached
     THEN /\ resPids' = resPids \cup {Head(resOut).pid}
          /\ resCached' = (resCached /\ ~(IsMap /\ resReady))
     ELSE UNCHANGED <<resPids, resCached>>
  /\ UNCHANGED <<thisCall, workers, resRh, resExit, resReady, resFailed, resFilled,
                 resLeft, resIndex, resLength, resItems, resUnsorted, resLost, consumer>>

\* on_ready looks the object up ...
OnReady ==
  /\ resRh = <<>> /\ resOut # <<>> /\ Head(resOut).type = "READY"
  /\ resOut' = Tail(resOut)
  /\ resRh' = IF resCached THEN <<Head(resOut)>> ELSE <<>>
  /\ UNCHANGED <<thisCall, workers, resExit, object, resPids, resLost, consumer>>

\* ... and calls _set.  A map that was failed meanwhile has no list to assign
\* to any more: the TypeError ends the program.
OnReadySet ==
  /\ resRh # <<>>
  /\ resRh' = <<>>
  /\ IF IsMap /\ resRh[1].ok /\ resFailed
     THEN resExit' = TRUE /\ UNCHANGED object
     ELSE ResSet(resRh[1].i, resRh[1].ok) /\ UNCHANGED resExit
  /\ UNCHANGED <<thisCall, workers, resOut, resPids, resLost, consumer>>

\* _join_exited_workers finds p: an object that a worker acknowledged which is
\* gone is flagged as lost.  The other branch reads _write_to, which an imap
\* does not have: the AttributeError ends the program.
JoinWorker(p) ==
  /\ resWpc[p] = "exited"
  /\ resWpc' = [resWpc EXCEPT ![p] = "gone"]
  /\ LET gone == {q \in ResPids : resWpc[q] = "gone"} \cup {p} IN
     IF ~resCached THEN UNCHANGED <<resLost, resExit>>
     ELSE IF resPids \cap gone # {}
     THEN /\ resLost' = IF resReady THEN resLost ELSE "fresh"
          /\ UNCHANGED resExit
     ELSE /\ resExit' = ~IsMap
          /\ UNCHANGED resLost
  /\ UNCHANGED <<thisCall, resWork, resExits, resOut, resRh, object, resPids, consumer>>

\* _lost_worker_timeout passes.
LossElapses ==
  /\ resLost = "fresh"
  /\ resLost' = "elapsed"
  /\ UNCHANGED <<thisCall, workers, resOut, resRh, resExit, object, resPids, consumer>>

\* mark_as_worker_lost, in every round of _join_exited_workers until the object
\* is ready: _set(None, ...) with WorkerLostError.
MarkLost ==
  /\ resCached /\ ~resReady /\ resLost = "elapsed"
  /\ Len(resItems) < 2     \* bound: unread items of one loss
  /\ ResSet(NoIndex, FALSE)
  /\ UNCHANGED <<thisCall, workers, resOut, resRh, resExit, resPids, resLost, consumer>>

\* IMapIterator.next.  Bound: as many items as there can be, and one error.
NextItem ==
  /\ resCall.kind \in {"imap", "unordered"} /\ ~resStop
  /\ \/ /\ resItems # <<>> /\ Len(resGot) <= resCall.len
        /\ resGot' = Append(resGot, Head(resItems))
        /\ resItems' = Tail(resItems)
        /\ UNCHANGED <<resStop, resReady>>
     \/ /\ resItems = <<>> /\ resIndex = resLength
        /\ resStop' = TRUE /\ resReady' = TRUE
        /\ UNCHANGED <<resGot, resItems>>
  /\ UNCHANGED <<thisCall, workers, resOut, resRh, resExit, resCached, resFailed,
                 resFilled, resLeft, resIndex, resLength, resUnsorted, resPids, resLost>>

ThreadStep == PutTask \/ PutEnd \/ PutRaises
HandlerStep == OnAck \/ OnReady \/ OnReadySet
ResWorkerStep(p) == TakeTask(p) \/ EndTask(p)

ResNext ==
  /\ ~resExit
  /\ \/ \E len \in 0..MaxItems :
          \/ \E size \in 1..2 : Submit("map", 0, len, size, len)
          \/ \E kind \in {"imap", "unordered"}, raises \in 0..len :
               \E num \in (IF raises < len THEN {0, 2} ELSE {0}) :
                 Submit(kind, num, len, 1, raises)
     \/ ThreadStep \/ HandlerStep
     \/ \E p \in ResPids : ResWorkerStep(p) \/ LeaveOrDie(p) \/ JoinWorker(p)
     \/ LossElapses \/ MarkLost \/ NextItem

ResSpec == ResInit /\ [][ResNext]_resVars

\* As long as a thread can go on, a worker can finish its task or the caller can
\* call next(), one of them does.
ResProgress ==
  ThreadStep \/ HandlerStep \/ NextItem \/ \E p \in ResPids : ResWorkerStep(p)
ResFairness == WF_resVars(ResProgress)

(***************************************************************************)
(* Properties                                                              *)
(***************************************************************************)

\* imap hands out the results of a prefix of the iterable, in its order, however
\* they arrive, whenever the length becomes known and whatever workers die.
ImapInOrder ==
  resCall.kind = "imap" => \A n \in DOMAIN resGot : resGot[n].i = n - 1

\* A map that succeeded has every position of its list filled, for chunk sizes
\* that divide the length and for those that do not; no chunk is counted twice.
MapComplete ==
  IsMap /\ resReady /\ ~resFailed => resFilled = 0..(resCall.len - 1)

\* No result is handed out twice, and StopIteration comes when all of them have
\* been handed out, as long as no worker left.
ImapExact ==
  ~IsMap /\ resExits = 0 =>
    /\ \A m, n \in DOMAIN resGot : resGot[m].i = resGot[n].i => m = n
    /\ resStop /\ resCall.raises = resCall.len => Len(resGot) = resCall.len

\* What get() and next() hand out is what the tasks returned: in order for imap,
\* each once, and all of it.
ResultsSafe ==
  /\ ImapInOrder
  /\ ImapExact
  /\ MapComplete

\* get() and next() end: a map becomes ready and an imap comes to its end, as
\* long as no worker leaves and the iterable does not raise.
ResultsEnd ==
  resCall.kind # "none" /\ resCall.raises = resCall.len
    ~> resExits > 0 \/ resStop \/ (IsMap /\ resReady)

=============================================================================
