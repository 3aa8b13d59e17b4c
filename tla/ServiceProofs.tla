---------------------------- MODULE ServiceProofs ----------------------------
(***************************************************************************)
(* Proofs about what surrounds the pool's core: time limits, the restart   *)
(* limit, terminate and the results of map and imap.  For each an          *)
(* inductive invariant is stated, shown to hold at the start, to be kept   *)
(* by every action and to imply what the module promises.                  *)
(***************************************************************************)
EXTENDS TimeLimits, Restarts, Terminate, Results, FiniteSetTheorems,
        SequenceTheorems, WellFoundedInduction, TLAPS

(***************************************************************************)
(* TimeLimits                                                              *)
(***************************************************************************)

\* A message of a worker.
TlMsg == [type : {"ACK", "READY"}, job : TlJobs, from : TlWorkers,
          kind : {"none", "value", "soft"}]

\* Everything but tlFound.
tlRest == <<tlSynack, tlInq, tlOut, tlJobVars, tlWorkerVars, tlValueVars, tlSoftCb, tlScanVars>>

\* Every variable of those has its type.
TlType ==
  /\ tlSynack \in BOOLEAN /\ tlInq \in Seq(TlJobs) /\ tlOut \in Seq(TlMsg)
  /\ tlSyn \in [TlWorkers -> {"none", "ACK", "NACK"}]
  /\ tlPc \in [TlWorkers -> {"idle", "syn", "run", "dead", "gone"}]
  /\ tlWork \in [TlWorkers -> TlJobs \cup {NoTlJob}]
  /\ tlSig \in [TlWorkers -> BOOLEAN]
  /\ tlNew \subseteq TlJobs /\ tlCache \subseteq TlJobs /\ tlCancelled \subseteq TlJobs
  /\ tlAccepted \subseteq TlJobs /\ tlInTime \subseteq TlJobs
  /\ tlPid \in [TlJobs -> TlWorkers \cup {NoTlJob}]
  /\ tlAge \in [TlJobs -> 0..2]
  /\ tlResult \in [TlJobs -> {"none", "value", "soft", "hard"}]
  /\ tlSoftCb \in [TlJobs -> Nat]
  /\ tlHandler \in {"sleep", "scan", "soft", "set", "term", "kill"}
  /\ tlCopy \subseteq TlJobs /\ tlDirty \subseteq TlJobs /\ tlAt \in TlJobs \cup {NoTlJob}

\* on_ready has found a job only for a READY at the head of the outqueue.
TlFoundInv ==
  /\ tlFound \in BOOLEAN
  /\ tlFound => tlOut # <<>> /\ Head(tlOut).type = "READY"

\* A worker at a job has one, and only a READY brings a value.
TlWorkInv ==
  /\ \A w \in TlWorkers : tlPc[w] \in {"syn", "run"} => tlWork[w] \in TlJobs
  /\ \A n \in 1..Len(tlOut) : tlOut[n].type = "READY" => tlOut[n].kind # "none"

\* A job is queued once, taken once and acknowledged once.
TlOnce ==
  /\ \A m \in 1..Len(tlInq) :
       /\ tlInq[m] \notin tlNew /\ tlPid[tlInq[m]] = NoTlJob
       /\ \A n \in 1..Len(tlInq) : tlInq[n] = tlInq[m] => m = n
       /\ \A n \in 1..Len(tlOut) : tlOut[n].type = "ACK" => tlOut[n].job # tlInq[m]
  /\ \A m \in 1..Len(tlOut) : tlOut[m].type = "ACK" =>
       /\ tlOut[m].job \notin tlNew /\ tlPid[tlOut[m].job] = NoTlJob
       /\ \A n \in 1..Len(tlOut) :
            tlOut[n].type = "ACK" /\ tlOut[n].job = tlOut[m].job => m = n
  /\ \A j \in tlNew : tlPid[j] = NoTlJob

\* With synack the sender of an ACK waits until it is handled, and has a
\* confirmation only for the job that it is recorded for.
TlSynInv ==
  tlSynack =>
    /\ \A n \in 1..Len(tlOut) : tlOut[n].type = "ACK" =>
         /\ tlWork[tlOut[n].from] = tlOut[n].job
         /\ tlPc[tlOut[n].from] \notin {"idle", "run"} /\ tlSyn[tlOut[n].from] = "none"
    /\ \A w \in TlWorkers :
         /\ tlSyn[w] # "none" => tlPc[w] \notin {"idle", "run"}
         /\ tlSyn[w] = "ACK" => tlWork[w] \in TlJobs /\ tlPid[tlWork[w]] = w

\* A job that was warned is dirty, or will not be scanned again.
TlSoftInv ==
  /\ tlCache \cap tlNew = {} /\ tlCopy \cap tlNew = {}
  /\ \A j \in TlJobs : tlSoftCb[j] > 0 =>
       j \notin tlNew /\ (j \in tlDirty \/ j \notin tlCache \cup tlCopy)

\* The handler is about to time out a job only if it has no result in time.
TlHardInv ==
  /\ \A j \in tlInTime : tlResult[j] # "none"
  /\ tlHandler = "set" => tlAt \in TlJobs /\ tlAge[tlAt] = 2 /\ tlAt \notin tlInTime

TlInv ==
  /\ TlType /\ TlFoundInv /\ TlWorkInv /\ TlOnce /\ TlSynInv /\ TlSoftInv /\ TlHardInv
  /\ LimitsSafe

\* The invariant holds at the start.
LEMMA TlInvInit == TlInit => TlInv
<1> SUFFICES ASSUME TlInit PROVE TlInv
  OBVIOUS
<1>1. TlType /\ TlFoundInv
  <2>1. tlInq \in Seq(TlJobs) /\ tlOut \in Seq(TlMsg) /\ TlFoundInv
    BY EmptySeq DEF TlInit, TlFoundInv
  <2>2. /\ tlSyn \in [TlWorkers -> {"none", "ACK", "NACK"}]
        /\ tlPc \in [TlWorkers -> {"idle", "syn", "run", "dead", "gone"}]
        /\ tlWork \in [TlWorkers -> TlJobs \cup {NoTlJob}] /\ tlSig \in [TlWorkers -> BOOLEAN]
    BY DEF TlInit
  <2>3. /\ tlPid \in [TlJobs -> TlWorkers \cup {NoTlJob}] /\ tlAge \in [TlJobs -> 0..2]
        /\ tlResult \in [TlJobs -> {"none", "value", "soft", "hard"}]
        /\ tlSoftCb \in [TlJobs -> Nat]
    BY DEF TlInit
  <2> QED
    BY <2>1, <2>2, <2>3 DEF TlInit, TlType
<1>2. TlWorkInv /\ TlOnce /\ TlSynInv /\ TlSoftInv
  BY DEF TlInit, TlWorkInv, TlOnce, TlSynInv, TlSoftInv
<1>3. TlHardInv /\ LimitsSafe
  BY DEF TlInit, TlHardInv, LimitsSafe, EarlyResultKept, SoftOnce, ConfirmedBeforeRun
<1> QED
  BY <1>1, <1>2, <1>3 DEF TlInv

\* A sequence with one more element at its end.
LEMMA AppendIs ==
  ASSUME NEW T, NEW s \in Seq(T), NEW e \in T, NEW r, r = Append(s, e)
  PROVE  /\ r \in Seq(T) /\ Len(r) = Len(s) + 1 /\ Len(s) \in Nat
         /\ \A n \in 1..Len(s) : r[n] = s[n] /\ s[n] \in T
         /\ r[Len(s) + 1] = e
BY AppendProperties, ElementOfSeq

\* A sequence without its first element.
LEMMA TailIs ==
  ASSUME NEW T, NEW s \in Seq(T), s # <<>>, NEW r, r = Tail(s)
  PROVE  /\ r \in Seq(T) /\ Len(s) \in Nat \ {0} /\ Len(r) = Len(s) - 1
         /\ \A n \in 1..Len(r) : r[n] = s[n + 1]
         /\ Head(s) = s[1] /\ s[1] \in T
BY HeadTailProperties, ElementOfSeq

\* The outqueue gets a message, or loses its first one.
OutGets(type, j, w, kind) ==
  /\ tlOut' \in Seq(TlMsg) /\ Len(tlOut') = Len(tlOut) + 1 /\ Len(tlOut) \in Nat
  /\ Len(tlOut) + 1 \notin 1..Len(tlOut)
  /\ \A n \in 1..Len(tlOut') :
       \/ n \in 1..Len(tlOut) /\ tlOut'[n] = tlOut[n]
       \/ /\ n = Len(tlOut) + 1 /\ tlOut'[n].type = type /\ tlOut'[n].job = j
          /\ tlOut'[n].from = w /\ tlOut'[n].kind = kind
OutLoses(j, w) ==
  /\ tlOut' \in Seq(TlMsg) /\ Len(tlOut') = Len(tlOut) - 1 /\ Len(tlOut) \in Nat \ {0}
  /\ \A n \in 1..Len(tlOut') : n + 1 \in 2..Len(tlOut) /\ tlOut'[n] = tlOut[n + 1]
  /\ 1 \in 1..Len(tlOut) /\ j = tlOut[1].job /\ w = tlOut[1].from

\* What the actions that use the queues do, with their elements named.
TlTakes(w, j) ==
  /\ tlPc[w] = "idle" /\ j = tlInq[1] /\ Len(tlInq) \in Nat \ {0}
  /\ tlInq' \in Seq(TlJobs) /\ Len(tlInq') = Len(tlInq) - 1
  /\ 1 \in 1..Len(tlInq)
  /\ \A n \in 1..Len(tlInq') : n + 1 \in 2..Len(tlInq) /\ tlInq'[n] = tlInq[n + 1]
  /\ tlWork' = [tlWork EXCEPT ![w] = j]
  /\ OutGets("ACK", j, w, "none")
  /\ tlPc' = [tlPc EXCEPT ![w] = IF tlSynack THEN "syn" ELSE "run"]
  /\ UNCHANGED <<tlSynack, tlSig, tlSyn, tlJobVars, tlValueVars, tlSoftCb, tlScanVars>>
TlEnds(w, j, kind) ==
  /\ tlPc[w] = "run" /\ j = tlWork[w] /\ kind \in {"value", "soft"}
  /\ OutGets("READY", j, w, kind)
  /\ tlPc' = [tlPc EXCEPT ![w] = "idle"]
  /\ \E b \in BOOLEAN : tlSig' = [tlSig EXCEPT ![w] = b]
  /\ UNCHANGED <<tlSynack, tlInq, tlWork, tlSyn, tlJobVars, tlValueVars, tlSoftCb, tlScanVars>>
TlAcks(j, w) ==
  /\ tlOut[1].type = "ACK" /\ OutLoses(j, w)
  /\ tlAccepted' = IF j \in tlCache THEN tlAccepted \cup {j} ELSE tlAccepted
  /\ \/ /\ j \in tlCache /\ tlPid' = [tlPid EXCEPT ![j] = w] /\ tlCache' \in {tlCache, tlCache \ {j}}
        /\ \/ tlSyn' = tlSyn
           \/ tlSynack /\ tlSyn' = [tlSyn EXCEPT ![w] = "ACK"]
     \/ /\ UNCHANGED <<tlPid, tlCache>>
        /\ \/ tlSyn' = tlSyn
           \/ tlSynack /\ tlSyn' = [tlSyn EXCEPT ![w] = "NACK"]
  /\ UNCHANGED <<tlSynack, tlInq, tlNew, tlCancelled, tlAge, tlPc, tlWork, tlSig,
                 tlResult, tlInTime, tlSoftCb, tlScanVars>>
TlSets(j, w, kind) ==
  /\ tlOut[1].type = "READY" /\ kind = tlOut[1].kind /\ OutLoses(j, w)
  /\ \/ UNCHANGED tlValueVars
     \/ /\ tlResult' = [tlResult EXCEPT ![j] = kind]
        /\ tlCache' \in {tlCache, tlCache \ {j}}
        /\ tlInTime' = IF tlAge[j] < 2 /\ ~tlReady(j) THEN tlInTime \cup {j} ELSE tlInTime
  /\ UNCHANGED <<tlSynack, tlInq, tlJobVars, tlWorkerVars, tlSoftCb, tlScanVars>>
TlQueues(j) ==
  /\ j \in tlNew /\ tlNew' = tlNew \ {j} /\ tlCache' = tlCache \cup {j}
  /\ tlInq' \in Seq(TlJobs) /\ Len(tlInq') = Len(tlInq) + 1 /\ Len(tlInq) \in Nat
  /\ Len(tlInq) + 1 \notin 1..Len(tlInq)
  /\ \A n \in 1..Len(tlInq') : \/ n \in 1..Len(tlInq) /\ tlInq'[n] = tlInq[n]
                               \/ n = Len(tlInq) + 1 /\ tlInq'[n] = j
  /\ UNCHANGED <<tlSynack, tlOut, tlCancelled, tlAccepted, tlPid, tlAge, tlWorkerVars,
                 tlResult, tlInTime, tlSoftCb, tlScanVars>>

\* A message that is written.
LEMMA OutIs ==
  ASSUME TlType, NEW type \in {"ACK", "READY"}, NEW j \in TlJobs, NEW w \in TlWorkers,
         NEW kind \in {"none", "value", "soft"},
         tlOut' = Append(tlOut, [type |-> type, job |-> j, from |-> w, kind |-> kind])
  PROVE  OutGets(type, j, w, kind)
<1>1. PICK m \in TlMsg : m = [type |-> type, job |-> j, from |-> w, kind |-> kind]
  BY DEF TlMsg
<1>2. m.type = type /\ m.job = j /\ m.from = w /\ m.kind = kind
  BY <1>1
<1>3. tlOut \in Seq(TlMsg) /\ tlOut' = Append(tlOut, m)
  BY <1>1 DEF TlType
<1> QED
  BY <1>2, <1>3, AppendIs DEF OutGets

\* A message that is read.
LEMMA OutHead ==
  ASSUME TlType, tlOut # <<>>, tlOut' = Tail(tlOut)
  PROVE  \E j \in TlJobs, w \in TlWorkers :
           /\ OutLoses(j, w) /\ Head(tlOut) = tlOut[1] /\ tlOut[1] \in TlMsg
           /\ Head(tlOut).job = j /\ Head(tlOut).from = w
<1>1. /\ tlOut \in Seq(TlMsg) /\ tlOut' \in Seq(TlMsg) /\ Len(tlOut) \in Nat \ {0}
      /\ Len(tlOut') = Len(tlOut) - 1 /\ \A n \in 1..Len(tlOut') : tlOut'[n] = tlOut[n + 1]
      /\ Head(tlOut) = tlOut[1] /\ tlOut[1] \in TlMsg
  BY TailIs DEF TlType
<1>2. tlOut[1].job \in TlJobs /\ tlOut[1].from \in TlWorkers
  BY <1>1 DEF TlMsg
<1> QED
  BY <1>1, <1>2 DEF OutLoses

\* The actions do that.
LEMMA TlTakeIs ==
  ASSUME TlInv, NEW w \in TlWorkers, TlTake(w)
  PROVE  \E j \in TlJobs : TlTakes(w, j)
<1>1. TlType /\ tlInq \in Seq(TlJobs) /\ tlInq # <<>> /\ tlInq' = Tail(tlInq)
  BY DEF TlInv, TlType, TlTake
<1>2. /\ tlInq' \in Seq(TlJobs) /\ Len(tlInq) \in Nat \ {0} /\ Len(tlInq') = Len(tlInq) - 1
      /\ \A n \in 1..Len(tlInq') : tlInq'[n] = tlInq[n + 1]
      /\ Head(tlInq) = tlInq[1] /\ tlInq[1] \in TlJobs
  BY <1>1, TailIs
<1>3. PICK j \in TlJobs : j = tlInq[1]
  BY <1>2
<1>4. tlOut' = Append(tlOut, [type |-> "ACK", job |-> j, from |-> w, kind |-> "none"])
  BY <1>2, <1>3 DEF TlTake
<1>5. OutGets("ACK", j, w, "none")
  BY <1>1, <1>4, OutIs
<1>6. 1 \in 1..Len(tlInq) /\ \A n \in 1..Len(tlInq') : n + 1 \in 2..Len(tlInq)
  BY <1>2
<1> QED
  BY <1>2, <1>3, <1>5, <1>6 DEF TlTake, TlTakes

\* A worker whose function returned, or was stopped by the soft limit, sends READY.
LEMMA TlFinishIs ==
  ASSUME TlInv, NEW w \in TlWorkers,
         TlFinish(w) \/ (TlSignal(w) /\ UNCHANGED tlSyn /\ tlPc[w] = "run" /\ tlPc'[w] = "idle")
  PROVE  \E j \in TlJobs : \E kind \in {"value", "soft"} : TlEnds(w, j, kind)
<1>1. TlType /\ tlPc[w] = "run" /\ tlSig \in [TlWorkers -> BOOLEAN]
  BY DEF TlInv, TlType, TlFinish
<1>2. PICK j \in TlJobs : j = tlWork[w]
  BY <1>1 DEF TlInv, TlWorkInv
<1>3. CASE TlFinish(w)
  <2>1. OutGets("READY", j, w, "value")
    BY <1>1, <1>2, <1>3, OutIs DEF TlFinish
  <2>2. tlSig' = [tlSig EXCEPT ![w] = tlSig[w]] /\ tlSig[w] \in BOOLEAN
    BY <1>1, <1>3 DEF TlFinish
  <2> QED
    BY <1>1, <1>2, <1>3, <2>1, <2>2 DEF TlFinish, TlEnds
<1>4. CASE TlSignal(w) /\ UNCHANGED tlSyn /\ tlPc[w] = "run" /\ tlPc'[w] = "idle"
  <2>1. /\ tlPc' = [tlPc EXCEPT ![w] = "idle"]
        /\ tlOut' = Append(tlOut, [type |-> "READY", job |-> j, from |-> w, kind |-> "soft"])
    BY <1>1, <1>2, <1>4 DEF TlSignal
  <2>2. OutGets("READY", j, w, "soft")
    BY <1>1, <2>1, OutIs
  <2>3. tlSig' = [tlSig EXCEPT ![w] = FALSE]
    BY <1>4 DEF TlSignal
  <2> QED
    BY <1>1, <1>2, <1>4, <2>1, <2>2, <2>3 DEF TlSignal, TlEnds
<1> QED
  BY <1>3, <1>4

\* apply_async puts its job at the end of the queue.
LEMMA TlSubmitIs ==
  ASSUME TlInv, NEW j \in TlJobs, TlSubmit(j)
  PROVE  TlQueues(j)
<1>1. tlInq \in Seq(TlJobs) /\ tlInq' = Append(tlInq, j)
  BY DEF TlInv, TlType, TlSubmit
<1>2. /\ tlInq' \in Seq(TlJobs) /\ Len(tlInq') = Len(tlInq) + 1 /\ Len(tlInq) \in Nat
      /\ \A n \in 1..Len(tlInq) : tlInq'[n] = tlInq[n]
      /\ tlInq'[Len(tlInq) + 1] = j
  BY <1>1, AppendIs
<1> QED
  BY <1>2 DEF TlSubmit, TlQueues

\* on_ack takes the ACK off the pipe and accepts the job if it is in the cache.
LEMMA TlOnAckIs ==
  ASSUME TlInv, TlOnAck
  PROVE  \E j \in TlJobs, w \in TlWorkers : TlAcks(j, w)
<1>1. TlType /\ tlOut # <<>> /\ tlOut' = Tail(tlOut) /\ Head(tlOut).type = "ACK"
  BY DEF TlInv, TlOnAck
<1>2. PICK j \in TlJobs, w \in TlWorkers :
        /\ OutLoses(j, w) /\ Head(tlOut) = tlOut[1]
        /\ Head(tlOut).job = j /\ Head(tlOut).from = w
  BY <1>1, OutHead
<1>3. /\ tlAccepted' = IF j \in tlCache THEN tlAccepted \cup {j} ELSE tlAccepted
      /\ IF j \in tlCache /\ ~(j \in tlCancelled /\ tlSynack)
         THEN /\ tlPid' = [tlPid EXCEPT ![j] = w]
              /\ tlCache' = IF tlReady(j) THEN tlCache \ {j} ELSE tlCache
         ELSE UNCHANGED <<tlPid, tlCache>>
      /\ tlSyn' = IF ~tlSynack \/ j \notin tlCache THEN tlSyn
                  ELSE IF j \in tlCancelled /\ tlSynack THEN [tlSyn EXCEPT ![w] = "NACK"]
                  ELSE IF j \in BadAccept THEN tlSyn
                  ELSE [tlSyn EXCEPT ![w] = "ACK"]
  BY <1>2 DEF TlOnAck
<1> QED
  BY <1>1, <1>2, <1>3 DEF TlOnAck, TlAcks

\* on_ready takes the READY off the pipe if its job is not in the cache.  If it
\* is, that is all that on_ready has noticed so far.
LEMMA TlOnReadyIs ==
  ASSUME TlInv, TlOnReady
  PROVE  \/ UNCHANGED tlRest
         \/ \E j \in TlJobs, w \in TlWorkers, kind \in {"value", "soft"} : TlSets(j, w, kind)
<1>1. TlType /\ tlOut # <<>> /\ Head(tlOut).type = "READY"
  BY DEF TlInv, TlOnReady
<1>2. CASE tlOut' = Tail(tlOut)
  <2>1. PICK j \in TlJobs, w \in TlWorkers :
          OutLoses(j, w) /\ Head(tlOut) = tlOut[1] /\ tlOut[1] \in TlMsg
    BY <1>1, <1>2, OutHead
  <2>2. tlOut[1].kind \in {"value", "soft"}
    <3>1. tlOut[1].kind \in {"none", "value", "soft"} /\ 1 \in 1..Len(tlOut)
      BY <2>1 DEF TlMsg, OutLoses
    <3> QED
      BY <1>1, <2>1, <3>1 DEF TlInv, TlWorkInv
  <2>3. TlSets(j, w, tlOut[1].kind)
    BY <1>1, <2>1 DEF TlOnReady, TlSets
  <2> QED
    BY <2>2, <2>3
<1>3. CASE UNCHANGED tlOut
  BY <1>3 DEF TlOnReady, tlRest
<1> QED
  BY <1>2, <1>3 DEF TlOnReady

\* _set gives a job that was found its result, and the READY is gone.
LEMMA TlReadySetIs ==
  ASSUME TlInv, TlReadySet
  PROVE  \E j \in TlJobs, w \in TlWorkers, kind \in {"value", "soft"} : TlSets(j, w, kind)
<1>1. TlType /\ tlOut # <<>> /\ tlOut' = Tail(tlOut) /\ Head(tlOut).type = "READY"
  BY DEF TlInv, TlFoundInv, TlReadySet
<1>2. PICK j \in TlJobs, w \in TlWorkers :
        /\ OutLoses(j, w) /\ Head(tlOut) = tlOut[1] /\ tlOut[1] \in TlMsg
        /\ Head(tlOut).job = j /\ Head(tlOut).from = w
  BY <1>1, OutHead
<1>3. PICK kind \in {"value", "soft"} : kind = tlOut[1].kind
  <2>1. tlOut[1].kind \in {"none", "value", "soft"} /\ 1 \in 1..Len(tlOut)
    BY <1>2 DEF TlMsg, OutLoses
  <2> QED
    BY <1>1, <1>2, <2>1 DEF TlInv, TlWorkInv
<1>4. /\ TlSet(j, kind)
      /\ tlInTime' = IF tlAge[j] < 2 /\ ~tlReady(j) THEN tlInTime \cup {j} ELSE tlInTime
  BY <1>2, <1>3 DEF TlReadySet
<1> QED
  BY <1>1, <1>2, <1>3, <1>4 DEF TlReadySet, TlSets, TlSet

\* The messages and the jobs in the queues have their types.
LEMMA TlQueueTypes ==
  ASSUME TlInv
  PROVE  /\ \A n \in 1..Len(tlOut) : /\ tlOut[n].type \in {"ACK", "READY"}
                                     /\ tlOut[n].job \in TlJobs /\ tlOut[n].from \in TlWorkers
                                     /\ tlOut[n].kind \in {"none", "value", "soft"}
         /\ \A n \in 1..Len(tlInq) : tlInq[n] \in TlJobs
<1>1. \A n \in 1..Len(tlOut) : tlOut[n] \in TlMsg
  BY ElementOfSeq DEF TlInv, TlType
<1>2. \A n \in 1..Len(tlInq) : tlInq[n] \in TlJobs
  BY ElementOfSeq DEF TlInv, TlType
<1> QED
  BY <1>1, <1>2 DEF TlMsg

\* The types but for those of the queues.
LEMMA TlTypes ==
  ASSUME TlInv
  PROVE  /\ tlSynack \in BOOLEAN
         /\ tlSyn \in [TlWorkers -> {"none", "ACK", "NACK"}]
         /\ tlPc \in [TlWorkers -> {"idle", "syn", "run", "dead", "gone"}]
         /\ tlWork \in [TlWorkers -> TlJobs \cup {NoTlJob}]
         /\ tlNew \subseteq TlJobs /\ tlCache \subseteq TlJobs
         /\ tlPid \in [TlJobs -> TlWorkers \cup {NoTlJob}]
         /\ tlHandler \in {"sleep", "scan", "soft", "set", "term", "kill"}
BY DEF TlInv, TlType

\* Every step keeps the types.
LEMMA TlTypeNext ==
  ASSUME TlInv, [TlNext]_tlVars
  PROVE  TlType'
<1>1. CASE UNCHANGED tlRest
  BY <1>1, TimeLimitsAssumption
  DEF tlRest, TlInv, TlType, tlJobVars, tlWorkerVars,
      tlValueVars, tlScanVars
<1>2. ASSUME NEW j \in TlJobs, TlQueues(j) PROVE TlType'
  BY <1>2, TimeLimitsAssumption
  DEF TlQueues, TlInv, TlType, tlJobVars, tlWorkerVars,
      tlValueVars, tlScanVars
<1>3. ASSUME NEW w \in TlWorkers, NEW j \in TlJobs, TlTakes(w, j) PROVE TlType'
  BY <1>3, TimeLimitsAssumption
  DEF TlTakes, OutGets, TlInv, TlType, tlJobVars, tlWorkerVars,
      tlValueVars, tlScanVars
<1>4. ASSUME NEW w \in TlWorkers, NEW j \in TlJobs, NEW kind \in {"value", "soft"},
             TlEnds(w, j, kind)
      PROVE  TlType'
  BY <1>4, TimeLimitsAssumption
  DEF TlEnds, OutGets, TlInv, TlType, tlJobVars, tlWorkerVars,
      tlValueVars, tlScanVars
<1>5. ASSUME NEW j \in TlJobs, NEW w \in TlWorkers, TlAcks(j, w) PROVE TlType'
  <2>1. /\ tlOut' \in Seq(TlMsg) /\ tlAccepted' \subseteq TlJobs /\ tlCache' \subseteq TlJobs
        /\ tlPid' \in [TlJobs -> TlWorkers \cup {NoTlJob}]
    BY <1>5 DEF TlAcks, OutLoses, TlInv, TlType
  <2>2. tlSyn' \in [TlWorkers -> {"none", "ACK", "NACK"}]
    BY <1>5 DEF TlAcks, TlInv, TlType
  <2> QED
    BY <1>5, <2>1, <2>2 DEF TlAcks, TlInv, TlType, tlScanVars
<1>6. ASSUME NEW j \in TlJobs, NEW w \in TlWorkers, NEW kind \in {"value", "soft"},
             TlSets(j, w, kind)
      PROVE  TlType'
  <2>2. tlOut' \in Seq(TlMsg)
    BY <1>6 DEF TlSets, OutLoses
  <2>1. /\ tlResult' \in [TlJobs -> {"none", "value", "soft", "hard"}]
        /\ tlCache' \subseteq TlJobs /\ tlInTime' \subseteq TlJobs
    <3>1. CASE UNCHANGED tlValueVars
      BY <3>1 DEF TlInv, TlType, tlValueVars
    <3>2. CASE /\ tlResult' = [tlResult EXCEPT ![j] = kind]
               /\ tlCache' \in {tlCache, tlCache \ {j}}
               /\ tlInTime' = IF tlAge[j] < 2 /\ ~tlReady(j) THEN tlInTime \cup {j} ELSE tlInTime
      BY <3>2 DEF TlInv, TlType
    <3> QED
      BY <1>6, <3>1, <3>2 DEF TlSets
  <2> QED
    BY <1>6, <2>1, <2>2 DEF TlInv, TlType, TlSets, tlJobVars, tlWorkerVars, tlScanVars
<1>7. ASSUME NEW w \in TlWorkers, TlSignal(w), tlOut' = tlOut PROVE TlType'
  BY <1>7, TimeLimitsAssumption
  DEF TlSignal, TlInv, TlType, tlJobVars, tlWorkerVars,
      tlValueVars, tlScanVars
<1>8. ASSUME NEW j \in TlJobs, TlCancel(j) PROVE TlType'
  BY <1>8, TimeLimitsAssumption
  DEF TlCancel, TlInv, TlType, tlJobVars, tlWorkerVars,
      tlValueVars, tlScanVars
<1>9. ASSUME NEW j \in TlJobs, TlElapse(j) PROVE TlType'
  <2>1. tlAge[j] \in 0..2 /\ tlAge[j] < 2 /\ tlAge' = [tlAge EXCEPT ![j] = tlAge[j] + 1]
    BY <1>9 DEF TlInv, TlType, TlElapse
  <2>2. tlAge[j] + 1 \in 0..2
    BY <2>1
  <2>3. tlAge' \in [TlJobs -> 0..2]
    BY <2>1, <2>2 DEF TlInv, TlType
  <2> QED
    BY <1>9, <2>3 DEF TlInv, TlType, TlElapse, tlJobVars, tlWorkerVars, tlValueVars,
       tlScanVars
<1>10. ASSUME NEW w \in TlWorkers, WaitForSyn(w) PROVE TlType'
  BY <1>10, TimeLimitsAssumption
  DEF WaitForSyn, TlInv, TlType, tlJobVars, tlWorkerVars,
      tlValueVars, tlScanVars
<1>11. ASSUME NEW w \in TlWorkers, TlJoin(w) PROVE TlType'
  BY <1>11, TimeLimitsAssumption
  DEF TlJoin, TlInv, TlType, tlJobVars, tlWorkerVars,
      tlValueVars, tlScanVars
<1>12. CASE ScanBegin
  BY <1>12, TimeLimitsAssumption
  DEF ScanBegin, TlInv, TlType, tlJobVars, tlWorkerVars,
      tlValueVars, tlScanVars
<1>13. CASE ScanEnd
  BY <1>13, TimeLimitsAssumption
  DEF ScanEnd, TlInv, TlType, tlJobVars, tlWorkerVars,
      tlValueVars, tlScanVars
<1>14. CASE SoftKill
  <2>1. PICK p : \E b \in BOOLEAN : tlSig' = [tlSig EXCEPT ![p] = b]
    <3>1. (tlPc[tlPid[tlAt]] \in {"idle", "syn", "run"}) \in BOOLEAN
      OBVIOUS
    <3> QED
      BY <1>14, <3>1 DEF SoftKill
  <2>2. tlSig' \in [TlWorkers -> BOOLEAN]
    BY <2>1 DEF TlInv, TlType
  <2> QED
    BY <1>14, <2>2 DEF TlInv, TlType, SoftKill, tlJobVars, tlWorkerVars, tlValueVars,
       tlScanVars
<1>15. CASE HardSet
  BY <1>15, TimeLimitsAssumption
  DEF HardSet, TlSet, TlInv, TlType, tlJobVars, tlWorkerVars,
      tlValueVars, tlScanVars
<1>16. CASE HardTerm
  BY <1>16, TimeLimitsAssumption
  DEF HardTerm, TlInv, TlType, tlJobVars, tlWorkerVars,
      tlValueVars, tlScanVars
<1>17. CASE HardKill
  BY <1>17, TimeLimitsAssumption
  DEF HardKill, TlInv, TlType, tlJobVars, tlWorkerVars,
      tlValueVars, tlScanVars
<1>18. ASSUME NEW j \in TlJobs, ScanSkip(j) PROVE TlType'
  BY <1>18, TimeLimitsAssumption
  DEF ScanSkip, tlReady, TlInv, TlType, tlJobVars, tlWorkerVars,
      tlValueVars, tlScanVars
<1>19. ASSUME NEW j \in TlJobs, ScanSoft(j) PROVE TlType'
  <2>1. tlSoftCb' \in [TlJobs -> Nat] /\ tlHandler' \in {"scan", "soft"}
        /\ tlAt' \in TlJobs \cup {NoTlJob}
    BY <1>19 DEF TlInv, TlType, ScanSoft
  <2> QED
    BY <1>19, <2>1 DEF TlInv, TlType, ScanSoft, tlJobVars, tlWorkerVars, tlValueVars,
       tlScanVars
<1>20. ASSUME NEW j \in TlJobs, ScanHard(j) PROVE TlType'
  BY <1>20, TimeLimitsAssumption
  DEF ScanHard, tlReady, TlInv, TlType, tlJobVars, tlWorkerVars,
      tlValueVars, tlScanVars
<1>21. ASSUME NEW w \in TlWorkers, TlSignal(w) PROVE TlType'
  <2>1. CASE tlOut' = tlOut
    BY <1>21, <2>1, <1>7
  <2>2. CASE tlOut' # tlOut
    <3>1. UNCHANGED tlSyn /\ tlPc[w] = "run" /\ tlPc'[w] = "idle"
      BY <1>21, <2>2, TlTypes DEF TlSignal
    <3> QED
      BY <1>21, <3>1, <1>4, TlFinishIs
  <2> QED
    BY <2>1, <2>2
<1> QED
  BY <1>1, <1>2, <1>3, <1>4, <1>5, <1>6, <1>7, <1>8, <1>9, <1>10,
     <1>11, <1>12, <1>13, <1>14, <1>15, <1>16, <1>17, <1>18, <1>19, <1>20, <1>21,
     TlSubmitIs, TlTakeIs, TlFinishIs, TlOnAckIs, TlOnReadyIs, TlReadySetIs
  DEF TlNext, TlScan, TlOnMessage, tlVars, tlRest

\* Every step keeps a worker at a job.
LEMMA TlWorkNext ==
  ASSUME TlInv, [TlNext]_tlVars
  PROVE  TlWorkInv'
<1>1. CASE UNCHANGED tlRest
  BY <1>1, TimeLimitsAssumption
  DEF tlRest, TlInv, TlType, TlWorkInv, tlJobVars, tlWorkerVars,
      tlValueVars, tlScanVars
<1>2. ASSUME NEW j \in TlJobs, TlQueues(j) PROVE TlWorkInv'
  BY <1>2, TlQueueTypes, TlTypes, TimeLimitsAssumption
  DEF TlQueues, TlInv, TlWorkInv,
      tlJobVars, tlWorkerVars, tlValueVars, tlScanVars
<1>3. ASSUME NEW w \in TlWorkers, NEW j \in TlJobs, TlTakes(w, j) PROVE TlWorkInv'
  BY <1>3, TlQueueTypes, TlTypes, TimeLimitsAssumption
  DEF TlTakes, OutGets, TlInv, TlWorkInv,
      tlJobVars, tlWorkerVars, tlValueVars, tlScanVars
<1>4. ASSUME NEW w \in TlWorkers, NEW j \in TlJobs, NEW kind \in {"value", "soft"},
             TlEnds(w, j, kind)
      PROVE  TlWorkInv'
  BY <1>4, TlQueueTypes, TlTypes, TimeLimitsAssumption
  DEF TlEnds, OutGets, TlInv, TlWorkInv,
      tlJobVars, tlWorkerVars, tlValueVars, tlScanVars
<1>5. ASSUME NEW j \in TlJobs, NEW w \in TlWorkers, TlAcks(j, w) PROVE TlWorkInv'
  BY <1>5, TlQueueTypes, TlTypes, TimeLimitsAssumption
  DEF TlAcks, OutLoses, TlInv, TlWorkInv,
      tlJobVars, tlWorkerVars, tlValueVars, tlScanVars
<1>6. ASSUME NEW j \in TlJobs, NEW w \in TlWorkers, NEW kind \in {"value", "soft"},
             TlSets(j, w, kind)
      PROVE  TlWorkInv'
  BY <1>6, TlQueueTypes, TlTypes, TimeLimitsAssumption
  DEF TlSets, OutLoses, TlInv, TlWorkInv,
      tlJobVars, tlWorkerVars, tlValueVars, tlScanVars
<1>7. ASSUME NEW w \in TlWorkers, TlSignal(w), tlOut' = tlOut PROVE TlWorkInv'
  BY <1>7, TlQueueTypes, TlTypes, TimeLimitsAssumption
  DEF TlSignal, TlInv, TlWorkInv,
      tlJobVars, tlWorkerVars, tlValueVars, tlScanVars
<1>8. ASSUME NEW j \in TlJobs, TlCancel(j) PROVE TlWorkInv'
  BY <1>8, TimeLimitsAssumption
  DEF TlCancel, TlInv, TlType, TlWorkInv, tlJobVars, tlWorkerVars,
      tlValueVars, tlScanVars
<1>9. ASSUME NEW j \in TlJobs, TlElapse(j) PROVE TlWorkInv'
  BY <1>9, TimeLimitsAssumption
  DEF TlElapse, TlInv, TlType, TlWorkInv, tlJobVars, tlWorkerVars,
      tlValueVars, tlScanVars
<1>10. ASSUME NEW w \in TlWorkers, WaitForSyn(w) PROVE TlWorkInv'
  BY <1>10, TimeLimitsAssumption
  DEF WaitForSyn, TlInv, TlType, TlWorkInv, tlJobVars, tlWorkerVars,
      tlValueVars, tlScanVars
<1>11. ASSUME NEW w \in TlWorkers, TlJoin(w) PROVE TlWorkInv'
  BY <1>11, TimeLimitsAssumption
  DEF TlJoin, TlInv, TlType, TlWorkInv, tlJobVars, tlWorkerVars,
      tlValueVars, tlScanVars
<1>12. CASE ScanBegin
  BY <1>12, TimeLimitsAssumption
  DEF ScanBegin, TlInv, TlType, TlWorkInv, tlJobVars, tlWorkerVars,
      tlValueVars, tlScanVars
<1>13. CASE ScanEnd
  BY <1>13, TimeLimitsAssumption
  DEF ScanEnd, TlInv, TlType, TlWorkInv, tlJobVars, tlWorkerVars,
      tlValueVars, tlScanVars
<1>14. CASE SoftKill
  BY <1>14, TimeLimitsAssumption
  DEF SoftKill, TlInv, TlType, TlWorkInv, tlJobVars, tlWorkerVars,
      tlValueVars, tlScanVars
<1>15. CASE HardSet
  BY <1>15, TimeLimitsAssumption
  DEF HardSet, TlSet, TlInv, TlType, TlWorkInv, tlJobVars, tlWorkerVars,
      tlValueVars, tlScanVars
<1>16. CASE HardTerm
  BY <1>16, TimeLimitsAssumption
  DEF HardTerm, TlInv, TlType, TlWorkInv, tlJobVars, tlWorkerVars,
      tlValueVars, tlScanVars
<1>17. CASE HardKill
  BY <1>17, TimeLimitsAssumption
  DEF HardKill, TlInv, TlType, TlWorkInv, tlJobVars, tlWorkerVars,
      tlValueVars, tlScanVars
<1>18. ASSUME NEW j \in TlJobs, ScanSkip(j) PROVE TlWorkInv'
  BY <1>18, TimeLimitsAssumption
  DEF ScanSkip, tlReady, TlInv, TlType, TlWorkInv, tlJobVars, tlWorkerVars,
      tlValueVars, tlScanVars
<1>19. ASSUME NEW j \in TlJobs, ScanSoft(j) PROVE TlWorkInv'
  BY <1>19, TimeLimitsAssumption
  DEF ScanSoft, TlInv, TlType, TlWorkInv, tlJobVars, tlWorkerVars,
      tlValueVars, tlScanVars
<1>20. ASSUME NEW j \in TlJobs, ScanHard(j) PROVE TlWorkInv'
  BY <1>20, TimeLimitsAssumption
  DEF ScanHard, tlReady, TlInv, TlType, TlWorkInv, tlJobVars, tlWorkerVars,
      tlValueVars, tlScanVars
<1>21. ASSUME NEW w \in TlWorkers, TlSignal(w) PROVE TlWorkInv'
  <2>1. CASE tlOut' = tlOut
    BY <1>21, <2>1, <1>7
  <2>2. CASE tlOut' # tlOut
    <3>1. UNCHANGED tlSyn /\ tlPc[w] = "run" /\ tlPc'[w] = "idle"
      BY <1>21, <2>2, TlTypes DEF TlSignal
    <3> QED
      BY <1>21, <3>1, <1>4, TlFinishIs
  <2> QED
    BY <2>1, <2>2
<1> QED
  BY <1>1, <1>2, <1>3, <1>4, <1>5, <1>6, <1>7, <1>8, <1>9, <1>10,
     <1>11, <1>12, <1>13, <1>14, <1>15, <1>16, <1>17, <1>18, <1>19, <1>20, <1>21,
     TlSubmitIs, TlTakeIs, TlFinishIs, TlOnAckIs, TlOnReadyIs, TlReadySetIs
  DEF TlNext, TlScan, TlOnMessage, tlVars, tlRest

\* Every step keeps a job taken once.
LEMMA TlOnceNext ==
  ASSUME TlInv, [TlNext]_tlVars
  PROVE  TlOnce'
<1>1. CASE UNCHANGED tlRest
  BY <1>1, TimeLimitsAssumption
  DEF tlRest, TlInv, TlType, TlOnce, tlJobVars, tlWorkerVars,
      tlValueVars, tlScanVars
<1>2. ASSUME NEW j \in TlJobs, TlQueues(j) PROVE TlOnce'
  BY <1>2, TlQueueTypes, TlTypes, TimeLimitsAssumption
  DEF TlQueues, TlInv, TlOnce,
      tlJobVars, tlWorkerVars, tlValueVars, tlScanVars
<1>3. ASSUME NEW w \in TlWorkers, NEW j \in TlJobs, TlTakes(w, j) PROVE TlOnce'
  <2>1. ASSUME NEW m \in 1..Len(tlInq')
        PROVE  /\ tlInq'[m] \notin tlNew' /\ tlPid'[tlInq'[m]] = NoTlJob
               /\ \A n \in 1..Len(tlInq') : tlInq'[n] = tlInq'[m] => m = n
    <3>1. /\ m + 1 \in 1..Len(tlInq) /\ tlInq'[m] = tlInq[m + 1]
          /\ tlNew' = tlNew /\ tlPid' = tlPid
      BY <1>3, <2>1 DEF TlTakes, tlJobVars
    <3>2. ASSUME NEW n \in 1..Len(tlInq'), tlInq'[n] = tlInq'[m] PROVE m = n
      <4>1. n + 1 \in 1..Len(tlInq) /\ tlInq'[n] = tlInq[n + 1]
        BY <1>3, <3>2 DEF TlTakes
      <4>2. m + 1 = n + 1
        BY <3>1, <3>2, <4>1 DEF TlInv, TlOnce
      <4> QED
        BY <4>2
    <3> QED
      BY <3>1, <3>2 DEF TlInv, TlOnce
  <2>2. ASSUME NEW m \in 1..Len(tlInq'), NEW n \in 1..Len(tlOut'), tlOut'[n].type = "ACK"
        PROVE  tlOut'[n].job # tlInq'[m]
    BY <1>3, <2>2, TlQueueTypes, TlTypes, SMTT(30) DEF TlTakes, OutGets, TlInv, TlOnce
  <2>3. ASSUME NEW m \in 1..Len(tlOut'), tlOut'[m].type = "ACK"
        PROVE  tlOut'[m].job \notin tlNew' /\ tlPid'[tlOut'[m].job] = NoTlJob
    <3>1. tlNew' = tlNew /\ tlPid' = tlPid /\ 1 \in 1..Len(tlInq) /\ tlInq[1] = j
      BY <1>3 DEF TlTakes, tlJobVars
    <3>2. CASE m \in 1..Len(tlOut) /\ tlOut'[m] = tlOut[m]
      BY <2>3, <3>1, <3>2 DEF TlInv, TlOnce
    <3>3. CASE tlOut'[m].job = j
      BY <3>1, <3>3 DEF TlInv, TlOnce
    <3> QED
      BY <1>3, <2>3, <3>2, <3>3 DEF TlTakes, OutGets
  <2>4. ASSUME NEW m \in 1..Len(tlOut'), tlOut'[m].type = "ACK", NEW n \in 1..Len(tlOut'),
               tlOut'[n].type = "ACK", tlOut'[n].job = tlOut'[m].job
        PROVE  m = n
    <3> DEFINE Old(k) == k \in 1..Len(tlOut) /\ tlOut'[k] = tlOut[k]
               New(k) == k = Len(tlOut) + 1 /\ tlOut'[k].job = j
    <3>1. (Old(m) \/ New(m)) /\ (Old(n) \/ New(n)) /\ 1 \in 1..Len(tlInq) /\ tlInq[1] = j
      BY <1>3, <2>4 DEF TlTakes, OutGets
    <3>2. CASE Old(m) /\ Old(n)
      BY <2>4, <3>2 DEF TlInv, TlOnce
    <3>3. CASE New(m) /\ New(n)
      BY <3>3
    <3>4. ASSUME (Old(m) /\ New(n)) \/ (New(m) /\ Old(n)) PROVE FALSE
      BY <2>4, <3>1, <3>4 DEF TlInv, TlOnce
    <3> QED
      BY <3>1, <3>2, <3>3, <3>4
  <2>5. \A i \in tlNew' : tlPid'[i] = NoTlJob
    BY <1>3, TlQueueTypes, TlTypes DEF TlTakes, OutGets, TlInv, TlOnce, tlJobVars
  <2> QED
    BY <2>1, <2>2, <2>3, <2>4, <2>5 DEF TlOnce
<1>4. ASSUME NEW w \in TlWorkers, NEW j \in TlJobs, NEW kind \in {"value", "soft"},
             TlEnds(w, j, kind)
      PROVE  TlOnce'
  BY <1>4, TlQueueTypes, TlTypes, TimeLimitsAssumption, SMTT(30)
  DEF TlEnds, OutGets, TlInv, TlOnce,
      tlJobVars, tlWorkerVars, tlValueVars, tlScanVars
<1>5. ASSUME NEW j \in TlJobs, NEW w \in TlWorkers, TlAcks(j, w) PROVE TlOnce'
  <2>1. ASSUME NEW m \in 1..Len(tlInq')
        PROVE  /\ tlInq'[m] \notin tlNew' /\ tlPid'[tlInq'[m]] = NoTlJob
               /\ \A n \in 1..Len(tlInq') : tlInq'[n] = tlInq'[m] => m = n
    BY <1>5, <2>1, TlQueueTypes, TlTypes, SMTT(30) DEF TlAcks, OutLoses, TlInv, TlOnce, tlJobVars
  <2>2. ASSUME NEW m \in 1..Len(tlInq'), NEW n \in 1..Len(tlOut'), tlOut'[n].type = "ACK"
        PROVE  tlOut'[n].job # tlInq'[m]
    <3>1. n + 1 \in 1..Len(tlOut) /\ tlOut'[n] = tlOut[n + 1] /\ tlInq' = tlInq
      BY <1>5, <2>2 DEF TlAcks, OutLoses
    <3> QED
      BY <2>2, <3>1 DEF TlInv, TlOnce
  <2>3. ASSUME NEW m \in 1..Len(tlOut'), tlOut'[m].type = "ACK"
        PROVE  tlOut'[m].job \notin tlNew' /\ tlPid'[tlOut'[m].job] = NoTlJob
    BY <1>5, <2>3, TlQueueTypes, TlTypes, SMTT(30) DEF TlAcks, OutLoses, TlInv, TlOnce, tlJobVars
  <2>4. ASSUME NEW m \in 1..Len(tlOut'), tlOut'[m].type = "ACK", NEW n \in 1..Len(tlOut'),
               tlOut'[n].type = "ACK", tlOut'[n].job = tlOut'[m].job
        PROVE  m = n
    <3>1. /\ n + 1 \in 1..Len(tlOut) /\ tlOut'[n] = tlOut[n + 1]
          /\ m + 1 \in 1..Len(tlOut) /\ tlOut'[m] = tlOut[m + 1]
      BY <1>5, <2>4, SMTT(30) DEF TlAcks, OutLoses
    <3>2. m + 1 = n + 1
      BY <2>4, <3>1 DEF TlInv, TlOnce
    <3> QED
      BY <3>2
  <2>5. \A i \in tlNew' : tlPid'[i] = NoTlJob
    <3>1. tlNew' = tlNew /\ tlOut[1].job = j /\ 1 \in 1..Len(tlOut) /\ tlOut[1].type = "ACK"
      BY <1>5 DEF TlAcks, OutLoses
    <3>2. j \notin tlNew
      BY <3>1 DEF TlInv, TlOnce
    <3>3. \A i \in TlJobs \ {j} : tlPid'[i] = tlPid[i]
      BY <1>5, TlTypes DEF TlAcks
    <3> QED
      BY <3>1, <3>2, <3>3, TlTypes DEF TlInv, TlOnce
  <2> QED
    BY <2>1, <2>2, <2>3, <2>4, <2>5 DEF TlOnce
<1>6. ASSUME NEW j \in TlJobs, NEW w \in TlWorkers, NEW kind \in {"value", "soft"},
             TlSets(j, w, kind)
      PROVE  TlOnce'
  <2>1. ASSUME NEW m \in 1..Len(tlInq')
        PROVE  /\ tlInq'[m] \notin tlNew' /\ tlPid'[tlInq'[m]] = NoTlJob
               /\ \A n \in 1..Len(tlInq') : tlInq'[n] = tlInq'[m] => m = n
    BY <1>6, <2>1, TlQueueTypes, TlTypes DEF TlSets, OutLoses, TlInv, TlOnce, tlJobVars
  <2>2. ASSUME NEW m \in 1..Len(tlInq'), NEW n \in 1..Len(tlOut'), tlOut'[n].type = "ACK"
        PROVE  tlOut'[n].job # tlInq'[m]
    <3>1. n + 1 \in 1..Len(tlOut) /\ tlOut'[n] = tlOut[n + 1] /\ tlInq' = tlInq
      BY <1>6, <2>2 DEF TlSets, OutLoses
    <3> QED
      BY <2>2, <3>1 DEF TlInv, TlOnce
  <2>3. ASSUME NEW m \in 1..Len(tlOut'), tlOut'[m].type = "ACK"
        PROVE  tlOut'[m].job \notin tlNew' /\ tlPid'[tlOut'[m].job] = NoTlJob
    BY <1>6, <2>3, TlQueueTypes, TlTypes, SMTT(30) DEF TlSets, OutLoses, TlInv, TlOnce, tlJobVars
  <2>4. ASSUME NEW m \in 1..Len(tlOut'), tlOut'[m].type = "ACK", NEW n \in 1..Len(tlOut'),
               tlOut'[n].type = "ACK", tlOut'[n].job = tlOut'[m].job
        PROVE  m = n
    <3>1. /\ n + 1 \in 1..Len(tlOut) /\ tlOut'[n] = tlOut[n + 1]
          /\ m + 1 \in 1..Len(tlOut) /\ tlOut'[m] = tlOut[m + 1]
      BY <1>6, <2>4 DEF TlSets, OutLoses
    <3>2. m + 1 = n + 1
      BY <2>4, <3>1 DEF TlInv, TlOnce
    <3> QED
      BY <3>2
  <2>5. \A i \in tlNew' : tlPid'[i] = NoTlJob
    BY <1>6, TlQueueTypes, TlTypes DEF TlSets, OutLoses, TlInv, TlOnce, tlJobVars
  <2> QED
    BY <2>1, <2>2, <2>3, <2>4, <2>5 DEF TlOnce
<1>7. ASSUME NEW w \in TlWorkers, TlSignal(w), tlOut' = tlOut PROVE TlOnce'
  BY <1>7, TlQueueTypes, TlTypes, TimeLimitsAssumption
  DEF TlSignal, TlInv, TlOnce,
      tlJobVars, tlWorkerVars, tlValueVars, tlScanVars
<1>8. ASSUME NEW j \in TlJobs, TlCancel(j) PROVE TlOnce'
  BY <1>8, TimeLimitsAssumption
  DEF TlCancel, TlInv, TlType, TlOnce, tlJobVars, tlWorkerVars,
      tlValueVars, tlScanVars
<1>9. ASSUME NEW j \in TlJobs, TlElapse(j) PROVE TlOnce'
  BY <1>9, TimeLimitsAssumption
  DEF TlElapse, TlInv, TlType, TlOnce, tlJobVars, tlWorkerVars,
      tlValueVars, tlScanVars
<1>10. ASSUME NEW w \in TlWorkers, WaitForSyn(w) PROVE TlOnce'
  BY <1>10, TimeLimitsAssumption
  DEF WaitForSyn, TlInv, TlType, TlOnce, tlJobVars, tlWorkerVars,
      tlValueVars, tlScanVars
<1>11. ASSUME NEW w \in TlWorkers, TlJoin(w) PROVE TlOnce'
  BY <1>11, TimeLimitsAssumption
  DEF TlJoin, TlInv, TlType, TlOnce, tlJobVars, tlWorkerVars,
      tlValueVars, tlScanVars
<1>12. CASE ScanBegin
  BY <1>12, TimeLimitsAssumption
  DEF ScanBegin, TlInv, TlType, TlOnce, tlJobVars, tlWorkerVars,
      tlValueVars, tlScanVars
<1>13. CASE ScanEnd
  BY <1>13, TimeLimitsAssumption
  DEF ScanEnd, TlInv, TlType, TlOnce, tlJobVars, tlWorkerVars,
      tlValueVars, tlScanVars
<1>14. CASE SoftKill
  BY <1>14, TimeLimitsAssumption
  DEF SoftKill, TlInv, TlType, TlOnce, tlJobVars, tlWorkerVars,
      tlValueVars, tlScanVars
<1>15. CASE HardSet
  BY <1>15, TimeLimitsAssumption
  DEF HardSet, TlSet, TlInv, TlType, TlOnce, tlJobVars, tlWorkerVars,
      tlValueVars, tlScanVars
<1>16. CASE HardTerm
  BY <1>16, TimeLimitsAssumption
  DEF HardTerm, TlInv, TlType, TlOnce, tlJobVars, tlWorkerVars,
      tlValueVars, tlScanVars
<1>17. CASE HardKill
  BY <1>17, TimeLimitsAssumption
  DEF HardKill, TlInv, TlType, TlOnce, tlJobVars, tlWorkerVars,
      tlValueVars, tlScanVars
<1>18. ASSUME NEW j \in TlJobs, ScanSkip(j) PROVE TlOnce'
  BY <1>18, TimeLimitsAssumption
  DEF ScanSkip, tlReady, TlInv, TlType, TlOnce, tlJobVars, tlWorkerVars,
      tlValueVars, tlScanVars
<1>19. ASSUME NEW j \in TlJobs, ScanSoft(j) PROVE TlOnce'
  BY <1>19, TimeLimitsAssumption
  DEF ScanSoft, TlInv, TlType, TlOnce, tlJobVars, tlWorkerVars,
      tlValueVars, tlScanVars
<1>20. ASSUME NEW j \in TlJobs, ScanHard(j) PROVE TlOnce'
  BY <1>20, TimeLimitsAssumption
  DEF ScanHard, tlReady, TlInv, TlType, TlOnce, tlJobVars, tlWorkerVars,
      tlValueVars, tlScanVars
<1>21. ASSUME NEW w \in TlWorkers, TlSignal(w) PROVE TlOnce'
  <2>1. CASE tlOut' = tlOut
    BY <1>21, <2>1, <1>7
  <2>2. CASE tlOut' # tlOut
    <3>1. UNCHANGED tlSyn /\ tlPc[w] = "run" /\ tlPc'[w] = "idle"
      BY <1>21, <2>2, TlTypes DEF TlSignal
    <3> QED
      BY <1>21, <3>1, <1>4, TlFinishIs
  <2> QED
    BY <2>1, <2>2
<1> QED
  BY <1>1, <1>2, <1>3, <1>4, <1>5, <1>6, <1>7, <1>8, <1>9, <1>10,
     <1>11, <1>12, <1>13, <1>14, <1>15, <1>16, <1>17, <1>18, <1>19, <1>20, <1>21,
     TlSubmitIs, TlTakeIs, TlFinishIs, TlOnAckIs, TlOnReadyIs, TlReadySetIs
  DEF TlNext, TlScan, TlOnMessage, tlVars, tlRest

\* Every step keeps a confirmation with its worker.
LEMMA TlSynNext ==
  ASSUME TlInv, [TlNext]_tlVars
  PROVE  TlSynInv' /\ ConfirmedBeforeRun'
<1>1. CASE UNCHANGED tlRest
  BY <1>1, TimeLimitsAssumption
  DEF tlRest, TlInv, TlType, TlOnce, TlWorkInv, TlSynInv, LimitsSafe,
      ConfirmedBeforeRun, tlJobVars, tlWorkerVars,
      tlValueVars, tlScanVars
<1>2. ASSUME NEW j \in TlJobs, TlQueues(j) PROVE TlSynInv' /\ ConfirmedBeforeRun'
  BY <1>2, TlQueueTypes, TlTypes, TimeLimitsAssumption
  DEF TlQueues, TlInv, TlOnce, TlWorkInv, TlSynInv, LimitsSafe, ConfirmedBeforeRun,
      tlJobVars, tlWorkerVars, tlValueVars, tlScanVars
<1>3. ASSUME NEW w \in TlWorkers, NEW j \in TlJobs, TlTakes(w, j) PROVE TlSynInv' /\ ConfirmedBeforeRun'
  <2>a. tlSynack' = tlSynack
    BY <1>3 DEF TlTakes, OutGets
  <2>1. ASSUME tlSynack, NEW n \in 1..Len(tlOut'), tlOut'[n].type = "ACK"
        PROVE  /\ tlWork'[tlOut'[n].from] = tlOut'[n].job
               /\ tlPc'[tlOut'[n].from] \notin {"idle", "run"} /\ tlSyn'[tlOut'[n].from] = "none"
    BY <1>3, <2>1, TlQueueTypes, TlTypes DEF TlTakes, OutGets, TlInv, TlOnce, TlSynInv
  <2>2. ASSUME tlSynack, NEW v \in TlWorkers
        PROVE  /\ tlSyn'[v] # "none" => tlPc'[v] \notin {"idle", "run"}
               /\ tlSyn'[v] = "ACK" => tlWork'[v] \in TlJobs /\ tlPid'[tlWork'[v]] = v
    BY <1>3, <2>2, TlQueueTypes, TlTypes DEF TlTakes, OutGets, TlInv, TlOnce, TlSynInv,
       tlJobVars
  <2>3. ASSUME tlSynack, NEW v \in TlWorkers, tlPc'[v] = "run"
        PROVE  tlPid'[tlWork'[v]] = v
    BY <1>3, <2>3, TlQueueTypes, TlTypes
    DEF TlTakes, OutGets, TlInv, TlOnce, TlSynInv, TlWorkInv, LimitsSafe,
        ConfirmedBeforeRun, tlJobVars
  <2> QED
    BY <2>a, <2>1, <2>2, <2>3 DEF TlSynInv, ConfirmedBeforeRun
<1>4. ASSUME NEW w \in TlWorkers, NEW j \in TlJobs, NEW kind \in {"value", "soft"},
             TlEnds(w, j, kind)
      PROVE  TlSynInv' /\ ConfirmedBeforeRun'
  BY <1>4, TlQueueTypes, TlTypes, TimeLimitsAssumption
  DEF TlEnds, OutGets, TlInv, TlOnce, TlWorkInv, TlSynInv, LimitsSafe, ConfirmedBeforeRun,
      tlJobVars, tlWorkerVars, tlValueVars, tlScanVars
<1>5. ASSUME NEW j \in TlJobs, NEW w \in TlWorkers, TlAcks(j, w) PROVE TlSynInv' /\ ConfirmedBeforeRun'
  <2>a. tlSynack' = tlSynack
    BY <1>5 DEF TlAcks, OutLoses
  <2>1. ASSUME tlSynack, NEW n \in 1..Len(tlOut'), tlOut'[n].type = "ACK"
        PROVE  /\ tlWork'[tlOut'[n].from] = tlOut'[n].job
               /\ tlPc'[tlOut'[n].from] \notin {"idle", "run"} /\ tlSyn'[tlOut'[n].from] = "none"
    BY <1>5, <2>1, TlQueueTypes, TlTypes DEF TlAcks, OutLoses, TlInv, TlOnce, TlSynInv
  <2>2. ASSUME tlSynack, NEW v \in TlWorkers
        PROVE  /\ tlSyn'[v] # "none" => tlPc'[v] \notin {"idle", "run"}
               /\ tlSyn'[v] = "ACK" => tlWork'[v] \in TlJobs /\ tlPid'[tlWork'[v]] = v
    <3>1. /\ j = tlWork[w] /\ tlPid[j] = NoTlJob /\ NoTlJob \notin TlWorkers
          /\ tlPc[w] \notin {"idle", "run"} /\ tlSyn[w] = "none"
      BY <1>5, <2>2, TimeLimitsAssumption DEF TlAcks, OutLoses, TlInv, TlOnce, TlSynInv
    <3>2. /\ tlSyn[v] # "none" => tlPc[v] \notin {"idle", "run"}
          /\ tlSyn[v] = "ACK" => tlWork[v] \in TlJobs \ {j} /\ tlPid[tlWork[v]] = v
      BY <2>2, <3>1 DEF TlInv, TlSynInv
    <3> QED
      BY <1>5, <3>1, <3>2, TlTypes DEF TlAcks
  <2>3. ASSUME tlSynack, NEW v \in TlWorkers, tlPc'[v] = "run"
        PROVE  tlPid'[tlWork'[v]] = v
    <3>1. tlPid[j] = NoTlJob /\ NoTlJob \notin TlWorkers
      BY <1>5, TimeLimitsAssumption DEF TlAcks, OutLoses, TlInv, TlOnce
    <3>2. tlPc' = tlPc /\ tlWork' = tlWork
      BY <1>5 DEF TlAcks
    <3>3. tlWork[v] \in TlJobs \ {j} /\ tlPid[tlWork[v]] = v
      BY <2>3, <3>1, <3>2 DEF TlInv, TlWorkInv, LimitsSafe, ConfirmedBeforeRun
    <3> QED
      BY <1>5, <3>2, <3>3, TlTypes DEF TlAcks
  <2> QED
    BY <2>a, <2>1, <2>2, <2>3 DEF TlSynInv, ConfirmedBeforeRun
<1>6. ASSUME NEW j \in TlJobs, NEW w \in TlWorkers, NEW kind \in {"value", "soft"},
             TlSets(j, w, kind)
      PROVE  TlSynInv' /\ ConfirmedBeforeRun'
  BY <1>6, TlQueueTypes, TlTypes, TimeLimitsAssumption
  DEF TlSets, OutLoses, TlInv, TlOnce, TlWorkInv, TlSynInv, LimitsSafe,
      ConfirmedBeforeRun,
      tlJobVars, tlWorkerVars, tlValueVars, tlScanVars
<1>7. ASSUME NEW w \in TlWorkers, TlSignal(w), tlOut' = tlOut PROVE TlSynInv' /\ ConfirmedBeforeRun'
  BY <1>7, TlQueueTypes, TlTypes, TimeLimitsAssumption
  DEF TlSignal, TlInv, TlOnce, TlWorkInv, TlSynInv, LimitsSafe, ConfirmedBeforeRun,
      tlJobVars, tlWorkerVars, tlValueVars, tlScanVars
<1>8. ASSUME NEW j \in TlJobs, TlCancel(j) PROVE TlSynInv' /\ ConfirmedBeforeRun'
  BY <1>8, TimeLimitsAssumption
  DEF TlCancel, TlInv, TlType, TlOnce, TlWorkInv, TlSynInv, LimitsSafe,
      ConfirmedBeforeRun, tlJobVars, tlWorkerVars,
      tlValueVars, tlScanVars
<1>9. ASSUME NEW j \in TlJobs, TlElapse(j) PROVE TlSynInv' /\ ConfirmedBeforeRun'
  BY <1>9, TimeLimitsAssumption
  DEF TlElapse, TlInv, TlType, TlOnce, TlWorkInv, TlSynInv, LimitsSafe,
      ConfirmedBeforeRun, tlJobVars, tlWorkerVars,
      tlValueVars, tlScanVars
<1>10. ASSUME NEW w \in TlWorkers, WaitForSyn(w) PROVE TlSynInv' /\ ConfirmedBeforeRun'
  BY <1>10, TimeLimitsAssumption
  DEF WaitForSyn, TlInv, TlType, TlOnce, TlWorkInv, TlSynInv, LimitsSafe,
      ConfirmedBeforeRun, tlJobVars, tlWorkerVars,
      tlValueVars, tlScanVars
<1>11. ASSUME NEW w \in TlWorkers, TlJoin(w) PROVE TlSynInv' /\ ConfirmedBeforeRun'
  BY <1>11, TimeLimitsAssumption
  DEF TlJoin, TlInv, TlType, TlOnce, TlWorkInv, TlSynInv, LimitsSafe,
      ConfirmedBeforeRun, tlJobVars, tlWorkerVars,
      tlValueVars, tlScanVars
<1>12. CASE ScanBegin
  BY <1>12, TimeLimitsAssumption
  DEF ScanBegin, TlInv, TlType, TlOnce, TlWorkInv, TlSynInv, LimitsSafe,
      ConfirmedBeforeRun, tlJobVars, tlWorkerVars,
      tlValueVars, tlScanVars
<1>13. CASE ScanEnd
  BY <1>13, TimeLimitsAssumption
  DEF ScanEnd, TlInv, TlType, TlOnce, TlWorkInv, TlSynInv, LimitsSafe,
      ConfirmedBeforeRun, tlJobVars, tlWorkerVars,
      tlValueVars, tlScanVars
<1>14. CASE SoftKill
  BY <1>14, TimeLimitsAssumption
  DEF SoftKill, TlInv, TlType, TlOnce, TlWorkInv, TlSynInv, LimitsSafe,
      ConfirmedBeforeRun, tlJobVars, tlWorkerVars,
      tlValueVars, tlScanVars
<1>15. CASE HardSet
  BY <1>15, TimeLimitsAssumption
  DEF HardSet, TlSet, TlInv, TlType, TlOnce, TlWorkInv, TlSynInv, LimitsSafe,
      ConfirmedBeforeRun, tlJobVars, tlWorkerVars,
      tlValueVars, tlScanVars
<1>16. CASE HardTerm
  BY <1>16, TimeLimitsAssumption
  DEF HardTerm, TlInv, TlType, TlOnce, TlWorkInv, TlSynInv, LimitsSafe,
      ConfirmedBeforeRun, tlJobVars, tlWorkerVars,
      tlValueVars, tlScanVars
<1>17. CASE HardKill
  BY <1>17, TimeLimitsAssumption
  DEF HardKill, TlInv, TlType, TlOnce, TlWorkInv, TlSynInv, LimitsSafe,
      ConfirmedBeforeRun, tlJobVars, tlWorkerVars,
      tlValueVars, tlScanVars
<1>18. ASSUME NEW j \in TlJobs, ScanSkip(j) PROVE TlSynInv' /\ ConfirmedBeforeRun'
  BY <1>18, TimeLimitsAssumption
  DEF ScanSkip, tlReady, TlInv, TlType, TlOnce, TlWorkInv, TlSynInv, LimitsSafe,
      ConfirmedBeforeRun, tlJobVars, tlWorkerVars,
      tlValueVars, tlScanVars
<1>19. ASSUME NEW j \in TlJobs, ScanSoft(j) PROVE TlSynInv' /\ ConfirmedBeforeRun'
  BY <1>19, TimeLimitsAssumption
  DEF ScanSoft, TlInv, TlType, TlOnce, TlWorkInv, TlSynInv, LimitsSafe,
      ConfirmedBeforeRun, tlJobVars, tlWorkerVars,
      tlValueVars, tlScanVars
<1>20. ASSUME NEW j \in TlJobs, ScanHard(j) PROVE TlSynInv' /\ ConfirmedBeforeRun'
  BY <1>20, TimeLimitsAssumption
  DEF ScanHard, tlReady, TlInv, TlType, TlOnce, TlWorkInv, TlSynInv, LimitsSafe,
      ConfirmedBeforeRun, tlJobVars, tlWorkerVars,
      tlValueVars, tlScanVars
<1>21. ASSUME NEW w \in TlWorkers, TlSignal(w) PROVE TlSynInv' /\ ConfirmedBeforeRun'
  <2>1. CASE tlOut' = tlOut
    BY <1>21, <2>1, <1>7
  <2>2. CASE tlOut' # tlOut
    <3>1. UNCHANGED tlSyn /\ tlPc[w] = "run" /\ tlPc'[w] = "idle"
      BY <1>21, <2>2, TlTypes DEF TlSignal
    <3> QED
      BY <1>21, <3>1, <1>4, TlFinishIs
  <2> QED
    BY <2>1, <2>2
<1> QED
  BY <1>1, <1>2, <1>3, <1>4, <1>5, <1>6, <1>7, <1>8, <1>9, <1>10,
     <1>11, <1>12, <1>13, <1>14, <1>15, <1>16, <1>17, <1>18, <1>19, <1>20, <1>21,
     TlSubmitIs, TlTakeIs, TlFinishIs, TlOnAckIs, TlOnReadyIs, TlReadySetIs
  DEF TlNext, TlScan, TlOnMessage, tlVars, tlRest

\* Every step keeps a warned job from being warned again.
LEMMA TlSoftNext ==
  ASSUME TlInv, [TlNext]_tlVars
  PROVE  TlSoftInv' /\ SoftOnce'
<1>1. CASE UNCHANGED tlRest
  BY <1>1, TimeLimitsAssumption
  DEF tlRest, TlInv, TlType, TlSoftInv, LimitsSafe, SoftOnce, tlJobVars, tlWorkerVars,
      tlValueVars, tlScanVars
<1>2. ASSUME NEW j \in TlJobs, TlQueues(j) PROVE TlSoftInv' /\ SoftOnce'
  BY <1>2, TimeLimitsAssumption
  DEF TlQueues, TlInv, TlType, TlSoftInv, LimitsSafe, SoftOnce, tlJobVars, tlWorkerVars,
      tlValueVars, tlScanVars
<1>3. ASSUME NEW w \in TlWorkers, NEW j \in TlJobs, TlTakes(w, j) PROVE TlSoftInv' /\ SoftOnce'
  BY <1>3, TimeLimitsAssumption
  DEF TlTakes, OutGets, TlInv, TlType, TlSoftInv, LimitsSafe, SoftOnce, tlJobVars,
      tlWorkerVars,
      tlValueVars, tlScanVars
<1>4. ASSUME NEW w \in TlWorkers, NEW j \in TlJobs, NEW kind \in {"value", "soft"},
             TlEnds(w, j, kind)
      PROVE  TlSoftInv' /\ SoftOnce'
  BY <1>4, TimeLimitsAssumption
  DEF TlEnds, OutGets, TlInv, TlType, TlSoftInv, LimitsSafe, SoftOnce, tlJobVars,
      tlWorkerVars,
      tlValueVars, tlScanVars
<1>5. ASSUME NEW j \in TlJobs, NEW w \in TlWorkers, TlAcks(j, w) PROVE TlSoftInv' /\ SoftOnce'
  BY <1>5, TimeLimitsAssumption
  DEF TlAcks, OutLoses, TlInv, TlType, TlSoftInv, LimitsSafe, SoftOnce, tlJobVars,
      tlWorkerVars,
      tlValueVars, tlScanVars
<1>6. ASSUME NEW j \in TlJobs, NEW w \in TlWorkers, NEW kind \in {"value", "soft"},
             TlSets(j, w, kind)
      PROVE  TlSoftInv' /\ SoftOnce'
  BY <1>6, TimeLimitsAssumption
  DEF TlSets, OutLoses, tlReady, TlInv, TlType, TlSoftInv, LimitsSafe, SoftOnce,
      tlJobVars, tlWorkerVars,
      tlValueVars, tlScanVars
<1>7. ASSUME NEW w \in TlWorkers, TlSignal(w), tlOut' = tlOut PROVE TlSoftInv' /\ SoftOnce'
  BY <1>7, TimeLimitsAssumption
  DEF TlSignal, TlInv, TlType, TlSoftInv, LimitsSafe, SoftOnce, tlJobVars, tlWorkerVars,
      tlValueVars, tlScanVars
<1>8. ASSUME NEW j \in TlJobs, TlCancel(j) PROVE TlSoftInv' /\ SoftOnce'
  BY <1>8, TimeLimitsAssumption
  DEF TlCancel, TlInv, TlType, TlSoftInv, LimitsSafe, SoftOnce, tlJobVars, tlWorkerVars,
      tlValueVars, tlScanVars
<1>9. ASSUME NEW j \in TlJobs, TlElapse(j) PROVE TlSoftInv' /\ SoftOnce'
  BY <1>9, TimeLimitsAssumption
  DEF TlElapse, TlInv, TlType, TlSoftInv, LimitsSafe, SoftOnce, tlJobVars, tlWorkerVars,
      tlValueVars, tlScanVars
<1>10. ASSUME NEW w \in TlWorkers, WaitForSyn(w) PROVE TlSoftInv' /\ SoftOnce'
  BY <1>10, TimeLimitsAssumption
  DEF WaitForSyn, TlInv, TlType, TlSoftInv, LimitsSafe, SoftOnce, tlJobVars, tlWorkerVars,
      tlValueVars, tlScanVars
<1>11. ASSUME NEW w \in TlWorkers, TlJoin(w) PROVE TlSoftInv' /\ SoftOnce'
  BY <1>11, TimeLimitsAssumption
  DEF TlJoin, TlInv, TlType, TlSoftInv, LimitsSafe, SoftOnce, tlJobVars, tlWorkerVars,
      tlValueVars, tlScanVars
<1>12. CASE ScanBegin
  BY <1>12, TimeLimitsAssumption
  DEF ScanBegin, TlInv, TlType, TlSoftInv, LimitsSafe, SoftOnce, tlJobVars, tlWorkerVars,
      tlValueVars, tlScanVars
<1>13. CASE ScanEnd
  BY <1>13, TimeLimitsAssumption
  DEF ScanEnd, TlInv, TlType, TlSoftInv, LimitsSafe, SoftOnce, tlJobVars, tlWorkerVars,
      tlValueVars, tlScanVars
<1>14. CASE SoftKill
  BY <1>14, TimeLimitsAssumption
  DEF SoftKill, TlInv, TlType, TlSoftInv, LimitsSafe, SoftOnce, tlJobVars, tlWorkerVars,
      tlValueVars, tlScanVars
<1>15. CASE HardSet
  BY <1>15, TimeLimitsAssumption
  DEF HardSet, TlSet, TlInv, TlType, TlSoftInv, LimitsSafe, SoftOnce, tlJobVars,
      tlWorkerVars,
      tlValueVars, tlScanVars
<1>16. CASE HardTerm
  BY <1>16, TimeLimitsAssumption
  DEF HardTerm, TlInv, TlType, TlSoftInv, LimitsSafe, SoftOnce, tlJobVars, tlWorkerVars,
      tlValueVars, tlScanVars
<1>17. CASE HardKill
  BY <1>17, TimeLimitsAssumption
  DEF HardKill, TlInv, TlType, TlSoftInv, LimitsSafe, SoftOnce, tlJobVars, tlWorkerVars,
      tlValueVars, tlScanVars
<1>18. ASSUME NEW j \in TlJobs, ScanSkip(j) PROVE TlSoftInv' /\ SoftOnce'
  BY <1>18, TimeLimitsAssumption
  DEF ScanSkip, tlReady, TlInv, TlType, TlSoftInv, LimitsSafe, SoftOnce, tlJobVars,
      tlWorkerVars,
      tlValueVars, tlScanVars
<1>19. ASSUME NEW j \in TlJobs, ScanSoft(j) PROVE TlSoftInv' /\ SoftOnce'
  <2>1. /\ tlSoftCb[j] = 0 /\ j \in TlJobs \ tlNew /\ tlDirty' = tlDirty \cup {j}
        /\ tlCopy' = tlCopy \ {j} /\ UNCHANGED <<tlCache, tlNew>>
        /\ tlSoftCb' = tlSoftCb \/ tlSoftCb' = [tlSoftCb EXCEPT ![j] = tlSoftCb[j] + 1]
    BY <1>19 DEF TlInv, TlType, TlSoftInv, ScanSoft, tlJobVars, tlWorkerVars,
       tlValueVars, tlScanVars
  <2>2. \A i \in TlJobs : tlSoftCb'[i] = tlSoftCb[i] \/ (i = j /\ tlSoftCb'[i] = 1)
    BY <2>1 DEF TlInv, TlType
  <2>3. SoftOnce'
    BY <2>2 DEF TlInv, LimitsSafe, SoftOnce
  <2>4. TlSoftInv'
    BY <2>1, <2>2 DEF TlInv, TlSoftInv
  <2> QED
    BY <2>3, <2>4
<1>20. ASSUME NEW j \in TlJobs, ScanHard(j) PROVE TlSoftInv' /\ SoftOnce'
  BY <1>20, TimeLimitsAssumption
  DEF ScanHard, tlReady, TlInv, TlType, TlSoftInv, LimitsSafe, SoftOnce, tlJobVars,
      tlWorkerVars,
      tlValueVars, tlScanVars
<1>21. ASSUME NEW w \in TlWorkers, TlSignal(w) PROVE TlSoftInv' /\ SoftOnce'
  <2>1. CASE tlOut' = tlOut
    BY <1>21, <2>1, <1>7
  <2>2. CASE tlOut' # tlOut
    <3>1. UNCHANGED tlSyn /\ tlPc[w] = "run" /\ tlPc'[w] = "idle"
      BY <1>21, <2>2, TlTypes DEF TlSignal
    <3> QED
      BY <1>21, <3>1, <1>4, TlFinishIs
  <2> QED
    BY <2>1, <2>2
<1> QED
  BY <1>1, <1>2, <1>3, <1>4, <1>5, <1>6, <1>7, <1>8, <1>9, <1>10,
     <1>11, <1>12, <1>13, <1>14, <1>15, <1>16, <1>17, <1>18, <1>19, <1>20, <1>21,
     TlSubmitIs, TlTakeIs, TlFinishIs, TlOnAckIs, TlOnReadyIs, TlReadySetIs
  DEF TlNext, TlScan, TlOnMessage, tlVars, tlRest

\* Every step keeps a result that came in time.
LEMMA TlHardNext ==
  ASSUME TlInv, [TlNext]_tlVars
  PROVE  TlHardInv' /\ EarlyResultKept'
<1>1. CASE UNCHANGED tlRest
  BY <1>1, TimeLimitsAssumption
  DEF tlRest, TlInv, TlType, TlHardInv, LimitsSafe, EarlyResultKept, tlReady, tlJobVars,
      tlWorkerVars,
      tlValueVars, tlScanVars
<1>2. ASSUME NEW j \in TlJobs, TlQueues(j) PROVE TlHardInv' /\ EarlyResultKept'
  BY <1>2, TimeLimitsAssumption
  DEF TlQueues, TlInv, TlType, TlHardInv, LimitsSafe, EarlyResultKept, tlReady,
      tlJobVars, tlWorkerVars,
      tlValueVars, tlScanVars
<1>3. ASSUME NEW w \in TlWorkers, NEW j \in TlJobs, TlTakes(w, j) PROVE TlHardInv' /\ EarlyResultKept'
  BY <1>3, TimeLimitsAssumption
  DEF TlTakes, OutGets, TlInv, TlType, TlHardInv, LimitsSafe, EarlyResultKept, tlReady,
      tlJobVars, tlWorkerVars,
      tlValueVars, tlScanVars
<1>4. ASSUME NEW w \in TlWorkers, NEW j \in TlJobs, NEW kind \in {"value", "soft"},
             TlEnds(w, j, kind)
      PROVE  TlHardInv' /\ EarlyResultKept'
  BY <1>4, TimeLimitsAssumption
  DEF TlEnds, OutGets, TlInv, TlType, TlHardInv, LimitsSafe, EarlyResultKept, tlReady,
      tlJobVars, tlWorkerVars,
      tlValueVars, tlScanVars
<1>5. ASSUME NEW j \in TlJobs, NEW w \in TlWorkers, TlAcks(j, w) PROVE TlHardInv' /\ EarlyResultKept'
  BY <1>5, TimeLimitsAssumption
  DEF TlAcks, OutLoses, TlInv, TlType, TlHardInv, LimitsSafe, EarlyResultKept, tlReady,
      tlJobVars, tlWorkerVars,
      tlValueVars, tlScanVars
<1>6. ASSUME NEW j \in TlJobs, NEW w \in TlWorkers, NEW kind \in {"value", "soft"},
             TlSets(j, w, kind)
      PROVE  TlHardInv' /\ EarlyResultKept'
  BY <1>6, TimeLimitsAssumption
  DEF TlSets, OutLoses, tlReady, TlInv, TlType, TlHardInv, LimitsSafe, EarlyResultKept,
      tlReady, tlJobVars, tlWorkerVars,
      tlValueVars, tlScanVars
<1>7. ASSUME NEW w \in TlWorkers, TlSignal(w), tlOut' = tlOut PROVE TlHardInv' /\ EarlyResultKept'
  BY <1>7, TimeLimitsAssumption
  DEF TlSignal, TlInv, TlType, TlHardInv, LimitsSafe, EarlyResultKept, tlReady,
      tlJobVars, tlWorkerVars,
      tlValueVars, tlScanVars
<1>8. ASSUME NEW j \in TlJobs, TlCancel(j) PROVE TlHardInv' /\ EarlyResultKept'
  BY <1>8, TimeLimitsAssumption
  DEF TlCancel, TlInv, TlType, TlHardInv, LimitsSafe, EarlyResultKept, tlReady,
      tlJobVars, tlWorkerVars,
      tlValueVars, tlScanVars
<1>9. ASSUME NEW j \in TlJobs, TlElapse(j) PROVE TlHardInv' /\ EarlyResultKept'
  BY <1>9, TimeLimitsAssumption
  DEF TlElapse, TlInv, TlType, TlHardInv, LimitsSafe, EarlyResultKept, tlReady,
      tlJobVars, tlWorkerVars,
      tlValueVars, tlScanVars
<1>10. ASSUME NEW w \in TlWorkers, WaitForSyn(w) PROVE TlHardInv' /\ EarlyResultKept'
  BY <1>10, TimeLimitsAssumption
  DEF WaitForSyn, TlInv, TlType, TlHardInv, LimitsSafe, EarlyResultKept, tlReady,
      tlJobVars, tlWorkerVars,
      tlValueVars, tlScanVars
<1>11. ASSUME NEW w \in TlWorkers, TlJoin(w) PROVE TlHardInv' /\ EarlyResultKept'
  BY <1>11, TimeLimitsAssumption
  DEF TlJoin, TlInv, TlType, TlHardInv, LimitsSafe, EarlyResultKept, tlReady, tlJobVars,
      tlWorkerVars,
      tlValueVars, tlScanVars
<1>12. CASE ScanBegin
  BY <1>12, TimeLimitsAssumption
  DEF ScanBegin, TlInv, TlType, TlHardInv, LimitsSafe, EarlyResultKept, tlReady,
      tlJobVars, tlWorkerVars,
      tlValueVars, tlScanVars
<1>13. CASE ScanEnd
  BY <1>13, TimeLimitsAssumption
  DEF ScanEnd, TlInv, TlType, TlHardInv, LimitsSafe, EarlyResultKept, tlReady,
      tlJobVars, tlWorkerVars,
      tlValueVars, tlScanVars
<1>14. CASE SoftKill
  BY <1>14, TimeLimitsAssumption
  DEF SoftKill, TlInv, TlType, TlHardInv, LimitsSafe, EarlyResultKept, tlReady,
      tlJobVars, tlWorkerVars,
      tlValueVars, tlScanVars
<1>15. CASE HardSet
  BY <1>15, TimeLimitsAssumption
  DEF HardSet, TlSet, TlInv, TlType, TlHardInv, LimitsSafe, EarlyResultKept, tlReady,
      tlJobVars, tlWorkerVars,
      tlValueVars, tlScanVars
<1>16. CASE HardTerm
  BY <1>16, TimeLimitsAssumption
  DEF HardTerm, TlInv, TlType, TlHardInv, LimitsSafe, EarlyResultKept, tlReady,
      tlJobVars, tlWorkerVars,
      tlValueVars, tlScanVars
<1>17. CASE HardKill
  BY <1>17, TimeLimitsAssumption
  DEF HardKill, TlInv, TlType, TlHardInv, LimitsSafe, EarlyResultKept, tlReady,
      tlJobVars, tlWorkerVars,
      tlValueVars, tlScanVars
<1>18. ASSUME NEW j \in TlJobs, ScanSkip(j) PROVE TlHardInv' /\ EarlyResultKept'
  BY <1>18, TimeLimitsAssumption
  DEF ScanSkip, tlReady, TlInv, TlType, TlHardInv, LimitsSafe, EarlyResultKept, tlReady,
      tlJobVars, tlWorkerVars,
      tlValueVars, tlScanVars
<1>19. ASSUME NEW j \in TlJobs, ScanSoft(j) PROVE TlHardInv' /\ EarlyResultKept'
  BY <1>19, TimeLimitsAssumption
  DEF ScanSoft, TlInv, TlType, TlHardInv, LimitsSafe, EarlyResultKept, tlReady,
      tlJobVars, tlWorkerVars,
      tlValueVars, tlScanVars
<1>20. ASSUME NEW j \in TlJobs, ScanHard(j) PROVE TlHardInv' /\ EarlyResultKept'
  BY <1>20, TimeLimitsAssumption
  DEF ScanHard, tlReady, TlInv, TlType, TlHardInv, LimitsSafe, EarlyResultKept, tlReady,
      tlJobVars, tlWorkerVars,
      tlValueVars, tlScanVars
<1>21. ASSUME NEW w \in TlWorkers, TlSignal(w) PROVE TlHardInv' /\ EarlyResultKept'
  <2>1. CASE tlOut' = tlOut
    BY <1>21, <2>1, <1>7
  <2>2. CASE tlOut' # tlOut
    <3>1. UNCHANGED tlSyn /\ tlPc[w] = "run" /\ tlPc'[w] = "idle"
      BY <1>21, <2>2, TlTypes DEF TlSignal
    <3> QED
      BY <1>21, <3>1, <1>4, TlFinishIs
  <2> QED
    BY <2>1, <2>2
<1> QED
  BY <1>1, <1>2, <1>3, <1>4, <1>5, <1>6, <1>7, <1>8, <1>9, <1>10,
     <1>11, <1>12, <1>13, <1>14, <1>15, <1>16, <1>17, <1>18, <1>19, <1>20, <1>21,
     TlSubmitIs, TlTakeIs, TlFinishIs, TlOnAckIs, TlOnReadyIs, TlReadySetIs
  DEF TlNext, TlScan, TlOnMessage, tlVars, tlRest

\* While on_ready has found a job nobody else takes a message off the pipe, and
\* what is written goes behind it.
LEMMA TlFoundNext ==
  ASSUME TlInv, [TlNext]_tlVars
  PROVE  TlFoundInv'
<1>1. TlFoundInv /\ tlOut \in Seq(TlMsg)
  BY DEF TlInv, TlType
<1>2. CASE UNCHANGED <<tlFound, tlOut>>
  BY <1>1, <1>2 DEF TlFoundInv
<1>3. ASSUME NEW type \in {"ACK", "READY"}, NEW j \in TlJobs, NEW w \in TlWorkers,
             NEW kind \in {"none", "value", "soft"}, UNCHANGED tlFound,
             OutGets(type, j, w, kind)
      PROVE  TlFoundInv'
  <2>1. /\ tlOut' \in Seq(TlMsg) /\ Len(tlOut') = Len(tlOut) + 1 /\ Len(tlOut) \in Nat
        /\ \A n \in 1..Len(tlOut) : tlOut'[n] = tlOut[n]
    BY <1>3 DEF OutGets
  <2>2. tlOut' # <<>> /\ Head(tlOut') = tlOut'[1]
    BY <2>1, EmptySeq, HeadTailProperties
  <2>3. CASE tlOut # <<>>
    <3>1. Head(tlOut) = tlOut[1] /\ 1 \in 1..Len(tlOut)
      BY <1>1, <2>1, <2>3, EmptySeq, HeadTailProperties
    <3> QED
      BY <1>1, <1>3, <2>1, <2>2, <3>1 DEF TlFoundInv
  <2> QED
    BY <1>1, <1>3, <2>3 DEF TlFoundInv
<1>4. ASSUME NEW w \in TlWorkers, TlTake(w) PROVE TlFoundInv'
  <2>1. PICK j \in TlJobs : TlTakes(w, j)
    BY <1>4, TlTakeIs
  <2> QED
    BY <1>3, <1>4, <2>1 DEF TlTakes, TlTake
<1>5. ASSUME NEW w \in TlWorkers, TlFinish(w) \/ TlSignal(w) PROVE TlFoundInv'
  <2>1. UNCHANGED tlFound
    BY <1>5 DEF TlFinish, TlSignal
  <2>2. CASE tlOut' # tlOut
    <3>1. TlFinish(w) \/ (TlSignal(w) /\ UNCHANGED tlSyn /\ tlPc[w] = "run" /\ tlPc'[w] = "idle")
      BY <1>5, <2>2, TlTypes DEF TlSignal
    <3>2. PICK j \in TlJobs : \E kind \in {"value", "soft"} : TlEnds(w, j, kind)
      BY <3>1, TlFinishIs
    <3> QED
      BY <1>3, <2>1, <3>2 DEF TlEnds
  <2> QED
    BY <1>2, <2>1, <2>2
<1>6. CASE TlOnAck
  BY <1>1, <1>6 DEF TlOnAck, TlFoundInv
<1>7. CASE TlOnReady
  BY <1>1, <1>7 DEF TlOnReady, TlFoundInv
<1>8. CASE TlReadySet
  BY <1>8 DEF TlReadySet, TlFoundInv
<1>9. ASSUME \/ UNCHANGED tlVars \/ TlScan
             \/ \E j \in TlJobs : TlSubmit(j) \/ TlCancel(j) \/ TlElapse(j)
             \/ \E w \in TlWorkers : WaitForSyn(w) \/ TlJoin(w)
      PROVE  TlFoundInv'
  BY <1>2, <1>9
  DEF tlVars, TlScan, ScanBegin, ScanEnd, SoftKill, HardSet, HardTerm, HardKill, ScanSkip,
      ScanSoft, ScanHard, TlSubmit, TlCancel, TlElapse, WaitForSyn, TlJoin
<1> QED
  BY <1>4, <1>5, <1>6, <1>7, <1>8, <1>9 DEF TlNext, TlOnMessage

\* A limit strikes only a job that has not finished in time, the soft one once,
\* and a worker that needs a confirmation runs nothing without it, for any number
\* of jobs and workers.
THEOREM LimitsAreSafe == TlSpec => []LimitsSafe
<1>1. TlInv /\ [TlNext]_tlVars => TlInv'
  BY TlTypeNext, TlFoundNext, TlWorkNext, TlOnceNext, TlSynNext, TlSoftNext, TlHardNext
  DEF TlInv, LimitsSafe
<1>2. TlInv => LimitsSafe
  BY DEF TlInv
<1> QED
  BY <1>1, <1>2, TlInvInit, PTL DEF TlSpec

(***************************************************************************)
(* Restarts                                                                *)
(***************************************************************************)

\* Every variable has its type.
RsType ==
  /\ rsNow \in Nat \ {0} /\ rsPhase \in Objects \cup {"new", "exceeded"} /\ rsRound \in Nat
  /\ rsDue \in Nat
  /\ rsR \in [Objects -> Nat] /\ rsT \in [Objects -> Nat] /\ rsLog \in [Objects -> Seq(Nat)]

\* R counts the steps since T, which are the last ones; all of them came before
\* the window that T began was over.
RsCounted(o) ==
  /\ rsT[o] <= rsNow /\ rsR[o] <= MaxR[o]
  /\ rsT[o] = 0 => rsR[o] = 0 /\ Len(rsLog[o]) = 0
  /\ \A n \in 1..Len(rsLog[o]) : rsLog[o][n] < rsT[o] + MaxT[o]
  /\ rsPhase # "exceeded" =>
       /\ rsR[o] <= Len(rsLog[o])
       /\ \A n \in 1..Len(rsLog[o]) : n > Len(rsLog[o]) - rsR[o] <=> rsLog[o][n] >= rsT[o]

\* What came within maxT before T were the steps of one earlier window.
RsEarlier(o) ==
  \A t \in 1..RsClock :
    t > rsT[o] - MaxT[o] => Cardinality(StepsWithin(o, t, rsT[o])) <= MaxR[o]

RsInv == RsType /\ (\A o \in Limited : RsCounted(o) /\ RsEarlier(o)) /\ RestartsSafe

\* The positions of a log with an instant from a up to b, b excluded.
Between(log, a, b) == {n \in 1..Len(log) : a <= log[n] /\ log[n] < b}

\* An object with a limit is one of the two.
LEMMA LimitedHas ==
  /\ Limited \subseteq Objects
  /\ \A o \in Limited : MaxR[o] \in Nat \ {0} /\ MaxT[o] \in Nat \ {0}
BY RestartsAssumption DEF Limited

\* What RsCounted and RsEarlier say, of a log, an R and a T.
Counted(log, now, r, t, maxR, maxT) ==
  /\ t <= now /\ r <= maxR
  /\ t = 0 => r = 0 /\ Len(log) = 0
  /\ \A n \in 1..Len(log) : log[n] < t + maxT
CountsSince(log, r, t) ==
  /\ r <= Len(log)
  /\ \A n \in 1..Len(log) : n > Len(log) - r <=> log[n] >= t
Earlier(log, t, maxR, maxT) ==
  \A u \in 1..RsClock : u > t - maxT => Cardinality(Between(log, u, t)) <= maxR
Window(log, maxR, maxT) ==
  \A u \in 1..RsClock : Cardinality(Between(log, u, u + maxT)) <= 2 * maxR

\* The invariant is that, for both objects.
LEMMA RsParts ==
  RsType =>
    /\ (\A o \in Limited : RsCounted(o)) <=>
         \A o \in Limited : /\ Counted(rsLog[o], rsNow, rsR[o], rsT[o], MaxR[o], MaxT[o])
                            /\ rsPhase # "exceeded" => CountsSince(rsLog[o], rsR[o], rsT[o])
    /\ (\A o \in Limited : RsEarlier(o)) <=>
         \A o \in Limited : Earlier(rsLog[o], rsT[o], MaxR[o], MaxT[o])
    /\ RestartWindow <=> \A o \in Limited : Window(rsLog[o], MaxR[o], MaxT[o])
<1> SUFFICES ASSUME RsType
             PROVE  /\ (\A o \in Limited : RsCounted(o)) <=>
                         \A o \in Limited :
                            /\ Counted(rsLog[o], rsNow, rsR[o], rsT[o], MaxR[o], MaxT[o])
                            /\ rsPhase # "exceeded" => CountsSince(rsLog[o], rsR[o], rsT[o])
                    /\ (\A o \in Limited : RsEarlier(o)) <=>
                         \A o \in Limited : Earlier(rsLog[o], rsT[o], MaxR[o], MaxT[o])
                    /\ RestartWindow <=> \A o \in Limited : Window(rsLog[o], MaxR[o], MaxT[o])
  OBVIOUS
<1>1. \A o \in Limited : rsLog[o] \in Seq(Nat)
  BY LimitedHas DEF RsType
<1>2. \A o \in Limited : DOMAIN rsLog[o] = 1..Len(rsLog[o])
  BY <1>1
<1>3. \A o \in Limited : \A a, b : StepsWithin(o, a, b) = Between(rsLog[o], a, b)
  BY <1>2 DEF StepsWithin, Between
<1>4. (\A o \in Limited : RsCounted(o)) <=>
        \A o \in Limited : /\ Counted(rsLog[o], rsNow, rsR[o], rsT[o], MaxR[o], MaxT[o])
                           /\ rsPhase # "exceeded" => CountsSince(rsLog[o], rsR[o], rsT[o])
  BY DEF RsCounted, Counted, CountsSince
<1>5. (\A o \in Limited : RsEarlier(o)) <=>
        \A o \in Limited : Earlier(rsLog[o], rsT[o], MaxR[o], MaxT[o])
  BY <1>3 DEF RsEarlier, Earlier
<1>6. RestartWindow <=> \A o \in Limited : Window(rsLog[o], MaxR[o], MaxT[o])
  BY <1>3 DEF RestartWindow, Window
<1> QED
  BY <1>4, <1>5, <1>6

\* ... also in the next state.
LEMMA RsPartsNext ==
  RsType' =>
    /\ (\A o \in Limited : RsCounted(o)') <=>
         \A o \in Limited : /\ Counted(rsLog'[o], rsNow', rsR'[o], rsT'[o], MaxR[o], MaxT[o])
                            /\ rsPhase' # "exceeded" => CountsSince(rsLog'[o], rsR'[o], rsT'[o])
    /\ (\A o \in Limited : RsEarlier(o)') <=>
         \A o \in Limited : Earlier(rsLog'[o], rsT'[o], MaxR[o], MaxT[o])
    /\ RestartWindow' <=> \A o \in Limited : Window(rsLog'[o], MaxR[o], MaxT[o])
<1>1. (RsType =>
        /\ (\A o \in Limited : RsCounted(o)) <=>
             \A o \in Limited : /\ Counted(rsLog[o], rsNow, rsR[o], rsT[o], MaxR[o], MaxT[o])
                                /\ rsPhase # "exceeded" => CountsSince(rsLog[o], rsR[o], rsT[o])
        /\ (\A o \in Limited : RsEarlier(o)) <=>
             \A o \in Limited : Earlier(rsLog[o], rsT[o], MaxR[o], MaxT[o])
        /\ RestartWindow <=> \A o \in Limited : Window(rsLog[o], MaxR[o], MaxT[o]))'
  BY RsParts, PTL
<1> QED
  BY <1>1

\* Positions of a log can be counted; there are no more of them than among some
\* of them and the last r.
LEMMA BetweenCount ==
  ASSUME NEW log \in Seq(Nat), NEW A, A \subseteq 1..Len(log), NEW r \in Nat, r <= Len(log),
         NEW S, S \subseteq A \cup ((Len(log) - r + 1)..Len(log))
  PROVE  /\ Cardinality(A) \in Nat /\ Cardinality(S) \in Nat
         /\ Cardinality(S) <= Cardinality(A) + r
<1> DEFINE B == (Len(log) - r + 1)..Len(log)
<1>0. Len(log) \in Nat
  BY LenProperties
<1>1. IsFiniteSet(1..Len(log))
  BY <1>0, FS_Interval
<1>2. IsFiniteSet(A) /\ Cardinality(A) \in Nat
  BY <1>1, FS_Subset, FS_CardinalityType
<1>3. IsFiniteSet(B) /\ Cardinality(B) = r
  BY <1>0, FS_Interval
<1>4. IsFiniteSet(A \cup B) /\ Cardinality(A \cup B) = Cardinality(A) + r - Cardinality(A \cap B)
  BY <1>2, <1>3, FS_Union
<1>5. IsFiniteSet(A \cap B) /\ Cardinality(A \cap B) \in Nat
  <2>1. A \cap B \in SUBSET A
    OBVIOUS
  <2> QED
    BY <1>2, <2>1, FS_Subset, FS_CardinalityType
<1>6. IsFiniteSet(S) /\ Cardinality(S) \in Nat /\ Cardinality(S) <= Cardinality(A \cup B)
  <2>1. S \in SUBSET (A \cup B)
    OBVIOUS
  <2> QED
    BY <1>4, <2>1, FS_Subset, FS_CardinalityType
<1> QED
  BY <1>2, <1>4, <1>5, <1>6

\* step adds the instant to the log, and counts it in the window or begins one.
LogSteps(log, new, now, r, t, r1, t1, maxR, maxT) ==
  /\ Len(new) = Len(log) + 1 /\ new[Len(new)] = now
  /\ \A n \in 1..Len(log) : new[n] = log[n]
  /\ \/ t # 0 /\ now - t < maxT /\ r < maxR /\ t1 = t /\ r1 = r + 1
     \/ t = 0 /\ t1 = now /\ r1 = 1
     \/ t # 0 /\ now - t >= maxT /\ t1 = now /\ r1 = 1

\* That keeps the steps since T counted ...
LEMMA StepCounted ==
  ASSUME NEW log \in Seq(Nat), NEW new \in Seq(Nat), NEW now \in Nat \ {0},
         NEW r \in Nat, NEW t \in Nat, NEW r1 \in Nat, NEW t1 \in Nat,
         NEW maxR \in Nat \ {0}, NEW maxT \in Nat \ {0},
         LogSteps(log, new, now, r, t, r1, t1, maxR, maxT),
         Counted(log, now, r, t, maxR, maxT), CountsSince(log, r, t)
  PROVE  Counted(new, now, r1, t1, maxR, maxT) /\ CountsSince(new, r1, t1) /\ t1 # 0
<1>0. Len(log) \in Nat
  BY LenProperties
<1>1. \A n \in 1..Len(new) : \/ n \in 1..Len(log) /\ new[n] = log[n] /\ log[n] \in Nat
                             \/ n = Len(log) + 1 /\ new[n] = now
  BY <1>0, ElementOfSeq, SMTT(30) DEF LogSteps
<1>2. Len(new) = Len(log) + 1
  BY DEF LogSteps
<1>3. CASE t # 0 /\ now - t < maxT /\ r < maxR /\ t1 = t /\ r1 = r + 1
  <2>1. Counted(new, now, r1, t1, maxR, maxT) /\ t1 # 0
    <3>1. ASSUME NEW n \in 1..Len(new) PROVE new[n] < t + maxT
      <4>1. CASE n = Len(log) + 1 /\ new[n] = now
        BY <1>3, <4>1
      <4>2. CASE n \in 1..Len(log) /\ new[n] = log[n]
        BY <4>2 DEF Counted
      <4> QED
        BY <1>1, <3>1, <4>1, <4>2
    <3> QED
      BY <1>3, <3>1 DEF Counted
  <2>2. ASSUME NEW n \in 1..Len(new)
        PROVE  n > Len(new) - r1 <=> new[n] >= t1
    <3>1. CASE n = Len(log) + 1 /\ new[n] = now
      BY <1>0, <1>2, <1>3, <3>1 DEF Counted
    <3>2. CASE n \in 1..Len(log) /\ new[n] = log[n]
      BY <1>0, <1>2, <1>3, <3>2 DEF CountsSince
    <3> QED
      BY <1>1, <2>2, <3>1, <3>2
  <2>3. r1 <= Len(new)
    BY <1>0, <1>2, <1>3 DEF CountsSince
  <2> QED
    BY <2>1, <2>2, <2>3 DEF CountsSince
<1>4. CASE t = 0 /\ t1 = now /\ r1 = 1
  BY <1>0, <1>1, <1>2, <1>4 DEF Counted, CountsSince
<1>5. CASE t # 0 /\ now - t >= maxT /\ t1 = now /\ r1 = 1
  <2>1. ASSUME NEW n \in 1..Len(log)
        PROVE  log[n] < now
    <3>1. log[n] < t + maxT /\ log[n] \in Nat
      BY <2>1, ElementOfSeq DEF Counted
    <3> QED
      BY <1>5, <3>1
  <2>2. Counted(new, now, r1, t1, maxR, maxT) /\ t1 # 0
    <3>1. ASSUME NEW n \in 1..Len(new) PROVE new[n] \in Nat /\ new[n] <= now
      <4>1. CASE n = Len(log) + 1 /\ new[n] = now
        BY <4>1
      <4>2. CASE n \in 1..Len(log) /\ new[n] = log[n] /\ log[n] \in Nat
        BY <2>1, <4>2, SMTT(30)
      <4> QED
        BY <1>1, <3>1, <4>1, <4>2
    <3> QED
      BY <1>0, <1>2, <1>5, <3>1 DEF Counted
  <2>3. ASSUME NEW n \in 1..Len(new) PROVE n > Len(new) - r1 <=> new[n] >= t1
    <3>1. CASE n = Len(log) + 1 /\ new[n] = now
      BY <1>0, <1>2, <1>5, <3>1
    <3>2. CASE n \in 1..Len(log) /\ new[n] = log[n] /\ log[n] \in Nat
      BY <1>0, <1>2, <1>5, <2>1, <3>2, SMTT(30)
    <3> QED
      BY <1>1, <2>3, <3>1, <3>2
  <2> QED
    BY <1>0, <1>2, <1>5, <2>2, <2>3 DEF CountsSince
<1> QED
  BY <1>3, <1>4, <1>5 DEF LogSteps

\* ... and, before T, those of one window ...
LEMMA StepEarlier ==
  ASSUME NEW log \in Seq(Nat), NEW new \in Seq(Nat), NEW now \in Nat \ {0},
         NEW r \in Nat, NEW t \in Nat, NEW r1 \in Nat, NEW t1 \in Nat,
         NEW maxR \in Nat \ {0}, NEW maxT \in Nat \ {0},
         LogSteps(log, new, now, r, t, r1, t1, maxR, maxT),
         Counted(log, now, r, t, maxR, maxT), CountsSince(log, r, t),
         Earlier(log, t, maxR, maxT)
  PROVE  Earlier(new, t1, maxR, maxT)
<1>0. Len(log) \in Nat /\ \A n \in 1..Len(log) : log[n] \in Nat
  BY LenProperties, ElementOfSeq
<1>1. \A n \in 1..Len(new) : \/ n \in 1..Len(log) /\ new[n] = log[n]
                             \/ n = Len(log) + 1 /\ new[n] = now
  BY <1>0, SMTT(30) DEF LogSteps
<1>2. 1..Len(log) \subseteq 1..Len(new)
  BY <1>0 DEF LogSteps
<1> SUFFICES ASSUME NEW u \in 1..RsClock, u > t1 - maxT
             PROVE  Cardinality(Between(new, u, t1)) <= maxR
  BY DEF Earlier
<1>u. u \in Nat
  BY RestartsAssumption
<1>3. CASE t # 0 /\ t1 = t
  <2>1. Between(new, u, t1) = Between(log, u, t)
    BY <1>0, <1>1, <1>2, <1>3, SMTT(30) DEF Between, Counted, LogSteps
  <2> QED
    BY <1>3, <2>1 DEF Earlier
<1>4. CASE t = 0 /\ t1 = now
  <2>1. Between(new, u, t1) = {}
    BY <1>0, <1>1, <1>4 DEF Between, Counted
  <2> QED
    BY <2>1, FS_EmptySet
<1>5. CASE t # 0 /\ now - t >= maxT /\ t1 = now
  <2>1. Between(new, u, t1) \subseteq (Len(log) - r + 1)..Len(log)
    <3> SUFFICES ASSUME NEW n \in Between(new, u, t1)
                 PROVE  n \in (Len(log) - r + 1)..Len(log)
      OBVIOUS
    <3>1. n \in 1..Len(new) /\ u <= new[n] /\ new[n] < now
      BY <1>5 DEF Between
    <3>2. n \in 1..Len(log) /\ log[n] >= t
      BY <1>0, <1>1, <1>5, <1>u, <3>1, SMTT(30)
    <3> QED
      BY <1>0, <3>2, SMTT(30) DEF CountsSince
  <2>2. Cardinality(Between(new, u, t1)) <= Cardinality({}) + r /\ Cardinality({}) = 0
    <3>1. Between(new, u, t1) \subseteq {} \cup ((Len(log) - r + 1)..Len(log))
          /\ {} \subseteq 1..Len(log) /\ r <= Len(log)
      BY <2>1 DEF CountsSince
    <3> QED
      BY <3>1, BetweenCount, FS_EmptySet
  <2>3. Cardinality(Between(new, u, t1)) \in Nat
    <3>1. Between(new, u, t1) \subseteq {} \cup ((Len(log) - r + 1)..Len(log))
          /\ {} \subseteq 1..Len(log) /\ r <= Len(log)
      BY <2>1 DEF CountsSince
    <3> QED
      BY <3>1, BetweenCount
  <2> QED
    BY <2>2, <2>3 DEF Counted
<1> QED
  BY <1>3, <1>4, <1>5 DEF LogSteps

\* ... and no stretch of maxT sees more than two windows.
LEMMA StepWindow ==
  ASSUME NEW log \in Seq(Nat), NEW new \in Seq(Nat), NEW now \in Nat \ {0},
         NEW r \in Nat, NEW t \in Nat, NEW r1 \in Nat, NEW t1 \in Nat,
         NEW maxR \in Nat \ {0}, NEW maxT \in Nat \ {0},
         LogSteps(log, new, now, r, t, r1, t1, maxR, maxT),
         Counted(new, now, r1, t1, maxR, maxT), CountsSince(new, r1, t1),
         Earlier(new, t1, maxR, maxT), Window(log, maxR, maxT)
  PROVE  Window(new, maxR, maxT)
<1>0. /\ Len(log) \in Nat /\ Len(new) \in Nat
      /\ (\A n \in 1..Len(log) : log[n] \in Nat) /\ \A n \in 1..Len(new) : new[n] \in Nat
  BY LenProperties, ElementOfSeq
<1> SUFFICES ASSUME NEW u \in 1..RsClock
             PROVE  Cardinality(Between(new, u, u + maxT)) <= 2 * maxR
  BY DEF Window
<1>u. u \in Nat
  BY RestartsAssumption
<1>1. CASE u > t1 - maxT
  <2>1. Between(new, u, u + maxT)
          \subseteq Between(new, u, t1) \cup ((Len(new) - r1 + 1)..Len(new))
    <3> SUFFICES ASSUME NEW n \in Between(new, u, u + maxT), n \notin Between(new, u, t1)
                 PROVE  n \in (Len(new) - r1 + 1)..Len(new)
      OBVIOUS
    <3>1. n \in 1..Len(new) /\ u <= new[n]
      BY DEF Between
    <3>2. new[n] >= t1
      BY <1>0, <1>u, <3>1, SMTT(30) DEF Between
    <3> QED
      BY <1>0, <3>1, <3>2, SMTT(30) DEF CountsSince
  <2>2. Between(new, u, t1) \subseteq 1..Len(new) /\ r1 <= Len(new)
    BY DEF Between, CountsSince
  <2>3. /\ Cardinality(Between(new, u, u + maxT)) <= Cardinality(Between(new, u, t1)) + r1
        /\ Cardinality(Between(new, u, u + maxT)) \in Nat
        /\ Cardinality(Between(new, u, t1)) \in Nat
    BY <2>1, <2>2, BetweenCount
  <2>4. Cardinality(Between(new, u, t1)) <= maxR /\ r1 <= maxR
    BY <1>1 DEF Earlier, Counted
  <2> QED
    BY <2>3, <2>4
<1>2. CASE ~(u > t1 - maxT)
  <2>1. now >= u + maxT
    BY <1>2, <1>u DEF Counted
  <2>2. Between(new, u, u + maxT) = Between(log, u, u + maxT)
    <3>1. Len(new) = Len(log) + 1 /\ new[Len(log) + 1] = now
          /\ \A n \in 1..Len(log) : new[n] = log[n]
      BY DEF LogSteps
    <3>2. \A n \in 1..Len(new) : n \in 1..Len(log) \/ new[n] = now
      BY <1>0, <3>1
    <3>3. 1..Len(log) \subseteq 1..Len(new)
      BY <1>0, <3>1
    <3>4. ASSUME NEW n PROVE n \in Between(new, u, u + maxT) <=> n \in Between(log, u, u + maxT)
      <4>1. CASE n \in 1..Len(log)
        BY <3>1, <3>3, <4>1 DEF Between
      <4>2. CASE n \in 1..Len(new) /\ new[n] = now
        <5>1. ~(now < u + maxT)
          BY <1>u, <2>1
        <5>2. n \notin Between(new, u, u + maxT)
          BY <4>2, <5>1 DEF Between
        <5>3. n \in Between(log, u, u + maxT) => n \in Between(new, u, u + maxT)
          BY <3>1, <3>3 DEF Between
        <5> QED
          BY <5>2, <5>3
      <4>3. CASE n \notin 1..Len(new)
        BY <3>3, <4>3 DEF Between
      <4> QED
        BY <3>2, <4>1, <4>2, <4>3
    <3> QED
      BY <3>4
  <2> QED
    BY <2>2 DEF Window
<1> QED
  BY <1>1, <1>2

\* The invariant holds at the start.
LEMMA RsInvInit == RsInit => RsInv
<1> SUFFICES ASSUME RsInit PROVE RsInv
  OBVIOUS
<1>1. RsType
  BY DEF RsInit, RsType, Objects
<1>2. \A o \in Limited : /\ rsLog[o] = <<>> /\ Len(rsLog[o]) = 0 /\ rsR[o] = 0 /\ rsT[o] = 0
                         /\ rsNow = 1 /\ rsPhase = "new"
                         /\ MaxR[o] \in Nat \ {0} /\ MaxT[o] \in Nat \ {0}
  BY LimitedHas DEF RsInit
<1>3. \A o \in Limited : \A a, b : Between(rsLog[o], a, b) = {}
  BY <1>2 DEF Between
<1>4. \A o \in Limited : RsCounted(o)
  BY <1>2 DEF RsCounted
<1>5. \A o \in Limited : RsEarlier(o)
  <2>0. Cardinality({}) = 0
    BY FS_EmptySet
  <2>1. \A o \in Limited : Earlier(rsLog[o], rsT[o], MaxR[o], MaxT[o])
    <3> TAKE o \in Limited
    <3>1. \A a, b : Cardinality(Between(rsLog[o], a, b)) = 0
      BY <1>3, <2>0
    <3>2. 0 <= MaxR[o]
      BY <1>2
    <3> QED
      BY <3>1, <3>2 DEF Earlier
  <2> QED
    BY <1>1, <2>1, RsParts
<1>6. RestartWindow
  <2>0. Cardinality({}) = 0
    BY FS_EmptySet
  <2>1. \A o \in Limited : Window(rsLog[o], MaxR[o], MaxT[o])
    <3> TAKE o \in Limited
    <3>1. \A a, b : Cardinality(Between(rsLog[o], a, b)) = 0
      BY <1>3, <2>0
    <3>2. 0 <= 2 * MaxR[o]
      BY <1>2
    <3> QED
      BY <3>1, <3>2 DEF Window
  <2> QED
    BY <1>1, <2>1, RsParts
<1>7. ExceededIsFrequent
  BY DEF RsInit, ExceededIsFrequent
<1> QED
  BY <1>1, <1>4, <1>5, <1>6, <1>7 DEF RsInv, RestartsSafe

\* The invariant, of the next state, in its parts.
LEMMA RsInvParts ==
  ASSUME RsType', ExceededIsFrequent',
         \A o \in Limited : /\ Counted(rsLog'[o], rsNow', rsR'[o], rsT'[o], MaxR[o], MaxT[o])
                            /\ rsPhase' # "exceeded" => CountsSince(rsLog'[o], rsR'[o], rsT'[o])
                            /\ Earlier(rsLog'[o], rsT'[o], MaxR[o], MaxT[o])
                            /\ Window(rsLog'[o], MaxR[o], MaxT[o])
  PROVE  RsInv'
BY RsPartsNext DEF RsInv, RestartsSafe

\* The invariant in its parts.
LEMMA RsInvHas ==
  ASSUME RsInv, NEW o \in Limited
  PROVE  /\ Counted(rsLog[o], rsNow, rsR[o], rsT[o], MaxR[o], MaxT[o])
         /\ rsPhase # "exceeded" => CountsSince(rsLog[o], rsR[o], rsT[o])
         /\ Earlier(rsLog[o], rsT[o], MaxR[o], MaxT[o])
         /\ Window(rsLog[o], MaxR[o], MaxT[o])
         /\ rsLog[o] \in Seq(Nat) /\ rsR[o] \in Nat /\ rsT[o] \in Nat
         /\ MaxR[o] \in Nat \ {0} /\ MaxT[o] \in Nat \ {0}
BY RsParts, LimitedHas DEF RsInv, RsType, RestartsSafe

\* Time passes and nothing is counted.
LEMMA RsQuiet ==
  ASSUME RsInv, UNCHANGED <<rsR, rsT, rsLog>>, rsNow' \in Nat, rsNow' >= rsNow,
         rsPhase # "exceeded", rsPhase' \in Objects, rsRound' \in Nat, rsDue' \in Nat
  PROVE  RsInv'
<1>1. RsType' /\ ExceededIsFrequent'
  BY DEF RsInv, RsType, ExceededIsFrequent, Objects
<1>2. \A o \in Limited : /\ Counted(rsLog[o], rsNow', rsR[o], rsT[o], MaxR[o], MaxT[o])
                         /\ CountsSince(rsLog[o], rsR[o], rsT[o])
                         /\ Earlier(rsLog[o], rsT[o], MaxR[o], MaxT[o])
                         /\ Window(rsLog[o], MaxR[o], MaxT[o])
  <2> TAKE o \in Limited
  <2>1. rsT[o] <= rsNow'
    BY RsInvHas DEF Counted, RsInv, RsType
  <2> QED
    BY <2>1, RsInvHas DEF Counted
<1> QED
  BY <1>1, <1>2, RsInvParts

\* An ACK resets R, and with it the log.
LEMMA RsAckKeeps ==
  ASSUME RsInv, RsAck
  PROVE  RsInv'
<1>1. RsType' /\ rsPhase' # "exceeded" /\ rsNow' = rsNow /\ rsT' = rsT
  BY DEF RsInv, RsType, RsAck, Objects
<1>2. ExceededIsFrequent'
  BY <1>1 DEF ExceededIsFrequent
<1>3. ASSUME NEW o \in Limited
      PROVE  /\ Counted(rsLog'[o], rsNow', rsR'[o], rsT'[o], MaxR[o], MaxT[o])
             /\ CountsSince(rsLog'[o], rsR'[o], rsT'[o])
             /\ Earlier(rsLog'[o], rsT'[o], MaxR[o], MaxT[o])
             /\ Window(rsLog'[o], MaxR[o], MaxT[o])
  <2>1. CASE o # "pool"
    <3>1. rsLog'[o] = rsLog[o] /\ rsR'[o] = rsR[o] /\ rsPhase # "exceeded"
      BY <2>1, LimitedHas DEF RsInv, RsType, RsAck, Objects
    <3> QED
      BY <1>1, <3>1, RsInvHas
  <2>2. CASE o = "pool"
    <3>1. rsLog'[o] = <<>> /\ rsR'[o] = 0 /\ Len(rsLog'[o]) = 0
      BY <2>2 DEF RsInv, RsType, RsAck, Objects
    <3>2. \A a, b : Between(rsLog'[o], a, b) = {}
      BY <3>1 DEF Between
    <3>3. MaxR[o] \in Nat \ {0} /\ rsT[o] <= rsNow
      BY RsInvHas DEF Counted
    <3>4. Counted(rsLog'[o], rsNow', rsR'[o], rsT'[o], MaxR[o], MaxT[o])
      BY <1>1, <3>1, <3>3 DEF Counted
    <3>5. CountsSince(rsLog'[o], rsR'[o], rsT'[o])
      BY <3>1 DEF CountsSince
    <3>6. Cardinality({}) = 0
      BY FS_EmptySet
    <3>7. \A a, b : Cardinality(Between(rsLog'[o], a, b)) = 0
      BY <3>2, <3>6
    <3>8. 0 <= MaxR[o] /\ 0 <= 2 * MaxR[o]
      BY <3>3
    <3>9. Earlier(rsLog'[o], rsT'[o], MaxR[o], MaxT[o]) /\ Window(rsLog'[o], MaxR[o], MaxT[o])
      BY <3>7, <3>8 DEF Earlier, Window
    <3> QED
      BY <3>4, <3>5, <3>9
  <2> QED
    BY <2>1, <2>2
<1> QED
  BY <1>1, <1>2, <1>3, RsInvParts

\* step, if it does not raise.
LEMMA RsStepKeeps ==
  ASSUME RsInv, RsStep, rsPhase' = rsPhase, rsPhase \in Limited
  PROVE  RsInv'
<1>0. rsPhase \in Objects /\ rsPhase # "exceeded" /\ rsNow' = rsNow /\ rsNow \in Nat \ {0}
  BY DEF RsInv, RsType, RsStep, Objects
<1>1. PICK p \in Limited : p = rsPhase
  OBVIOUS
<1>2. PICK log \in Seq(Nat), r \in Nat, t \in Nat, maxR \in Nat \ {0}, maxT \in Nat \ {0},
           now \in Nat \ {0} :
        /\ log = rsLog[p] /\ r = rsR[p] /\ t = rsT[p] /\ maxR = MaxR[p] /\ maxT = MaxT[p]
        /\ now = rsNow
  BY <1>0, RsInvHas
<1>3. /\ ~(t # 0 /\ now - t >= maxT) => r < maxR
      /\ rsR' = [rsR EXCEPT ![p] = IF t # 0 /\ now - t >= maxT THEN 1 ELSE r + 1]
      /\ rsT' = [rsT EXCEPT ![p] = IF (t # 0 /\ now - t >= maxT) \/ t = 0 THEN now ELSE t]
      /\ rsLog' = [rsLog EXCEPT ![p] = Append(log, now)]
      /\ UNCHANGED rsRound /\ rsDue' \in Nat
  BY <1>0, <1>1, <1>2, SMTT(30) DEF RsStep, RsInv, RsType, Objects
<1>4. PICK new \in Seq(Nat) :
        /\ new = Append(log, now) /\ Len(new) = Len(log) + 1 /\ new[Len(new)] = now
        /\ \A n \in 1..Len(log) : new[n] = log[n]
  <2>1. Append(log, now) \in Seq(Nat) /\ Len(log) \in Nat /\ now \in Nat
    BY AppendProperties, LenProperties
  <2>2. PICK new \in Seq(Nat) : new = Append(log, now)
    BY <2>1
  <2>3. /\ Len(new) = Len(log) + 1 /\ \A n \in 1..Len(log) : new[n] = log[n]
        /\ new[Len(log) + 1] = now
    BY <2>1, <2>2, AppendIs
  <2> QED
    BY <2>2, <2>3
<1>5. PICK r1 \in Nat, t1 \in Nat :
        /\ r1 = (IF t # 0 /\ now - t >= maxT THEN 1 ELSE r + 1)
        /\ t1 = (IF (t # 0 /\ now - t >= maxT) \/ t = 0 THEN now ELSE t)
  <2>1. /\ (IF t # 0 /\ now - t >= maxT THEN 1 ELSE r + 1) \in Nat
        /\ (IF (t # 0 /\ now - t >= maxT) \/ t = 0 THEN now ELSE t) \in Nat
    OBVIOUS
  <2> QED
    BY <2>1, Zenon
<1>6. /\ rsLog'[p] = new /\ rsR'[p] = r1 /\ rsT'[p] = t1
      /\ \A o \in Limited \ {p} : rsLog'[o] = rsLog[o] /\ rsR'[o] = rsR[o] /\ rsT'[o] = rsT[o]
  BY <1>3, <1>4, <1>5, LimitedHas DEF RsInv, RsType
<1>7. Counted(log, now, r, t, maxR, maxT) /\ CountsSince(log, r, t)
      /\ Earlier(log, t, maxR, maxT) /\ Window(log, maxR, maxT)
  BY <1>0, <1>1, <1>2, RsInvHas
<1>8. LogSteps(log, new, now, r, t, r1, t1, maxR, maxT)
  <2>1. (t # 0 /\ now - t >= maxT => now >= t + maxT) /\ (t = 0 => r = 0)
    BY <1>7 DEF Counted
  <2>2. CASE t # 0 /\ now - t >= maxT
    BY <1>4, <1>5, <2>1, <2>2 DEF LogSteps
  <2>3. CASE t = 0
    BY <1>4, <1>5, <2>1, <2>3 DEF LogSteps
  <2>4. CASE t # 0 /\ ~(now - t >= maxT)
    <3>1. r < maxR /\ now - t < maxT /\ t1 = t /\ r1 = r + 1
      BY <1>3, <1>5, <2>4
    <3> QED
      BY <1>4, <2>4, <3>1 DEF LogSteps
  <2> QED
    BY <2>2, <2>3, <2>4
<1>9. Counted(new, now, r1, t1, maxR, maxT) /\ CountsSince(new, r1, t1)
  BY <1>7, <1>8, StepCounted
<1>10. Earlier(new, t1, maxR, maxT)
  BY <1>7, <1>8, StepEarlier
<1>11. Window(new, maxR, maxT)
  BY <1>7, <1>8, <1>9, <1>10, StepWindow
<1>12. RsType'
  BY <1>0, <1>3, <1>4, <1>5, LimitedHas DEF RsInv, RsType
<1>13. ExceededIsFrequent'
  BY <1>0 DEF ExceededIsFrequent
<1>14. \A o \in Limited : /\ Counted(rsLog'[o], rsNow', rsR'[o], rsT'[o], MaxR[o], MaxT[o])
                          /\ CountsSince(rsLog'[o], rsR'[o], rsT'[o])
                          /\ Earlier(rsLog'[o], rsT'[o], MaxR[o], MaxT[o])
                          /\ Window(rsLog'[o], MaxR[o], MaxT[o])
  BY <1>0, <1>2, <1>6, <1>9, <1>10, <1>11, RsInvHas
<1> QED
  BY <1>12, <1>13, <1>14, RsInvParts

\* step, if it raises.
LEMMA RsRaiseKeeps ==
  ASSUME RsInv, RsStep, rsPhase' # rsPhase
  PROVE  RsInv'
<1>0. rsPhase \in Objects /\ rsPhase # "exceeded" /\ rsNow' = rsNow /\ rsNow \in Nat \ {0}
  BY DEF RsInv, RsType, RsStep, Objects
<1>1. PICK p \in Limited : p = rsPhase
  BY <1>0 DEF RsStep, Limited
<1>2. /\ rsPhase' = "exceeded" /\ rsR' = [rsR EXCEPT ![p] = 0] /\ UNCHANGED <<rsT, rsLog, rsRound, rsDue>>
      /\ ~(rsT[p] # 0 /\ rsNow - rsT[p] >= MaxT[p]) /\ rsR[p] >= MaxR[p]
  BY <1>1 DEF RsStep
<1>3. PICK log \in Seq(Nat), r \in Nat, t \in Nat, maxR \in Nat \ {0}, maxT \in Nat \ {0} :
        /\ log = rsLog[p] /\ r = rsR[p] /\ t = rsT[p] /\ maxR = MaxR[p] /\ maxT = MaxT[p]
        /\ Counted(log, rsNow, r, t, maxR, maxT) /\ CountsSince(log, r, t)
  BY <1>0, RsInvHas
<1>4. /\ r = maxR /\ t # 0 /\ rsNow - t < maxT /\ Len(log) \in Nat /\ Len(log) >= maxR
      /\ \A n \in 1..Len(log) : log[n] \in Nat
  <2>1. Len(log) \in Nat /\ \A n \in 1..Len(log) : log[n] \in Nat
    BY LenProperties, ElementOfSeq
  <2>2. r >= maxR /\ r <= maxR /\ (t = 0 => r = 0) /\ r <= Len(log)
    BY <1>2, <1>3 DEF Counted, CountsSince
  <2>3. ~(t # 0 /\ rsNow - t >= maxT)
    BY <1>2, <1>3
  <2> QED
    BY <1>0, <2>1, <2>2, <2>3
<1>5. log[Len(log) - maxR + 1] >= t /\ Len(log) - maxR + 1 \in 1..Len(log)
  <2>0. \A k \in Nat : k >= maxR => k - maxR + 1 \in 1..k
    OBVIOUS
  <2>1. PICK n \in 1..Len(log) : n = Len(log) - maxR + 1
    BY <1>4, <2>0
  <2>2. n > Len(log) - r
    BY <1>4, <2>1
  <2> QED
    BY <1>3, <2>1, <2>2 DEF CountsSince
<1>6. Len(log) >= maxR /\ rsNow - log[Len(log) - maxR + 1] < maxT
  BY <1>0, <1>4, <1>5
<1>7. ExceededIsFrequent'
  BY <1>0, <1>2, <1>3, <1>6 DEF ExceededIsFrequent
<1>8. RsType'
  BY <1>0, <1>2 DEF RsInv, RsType
<1>9. \A o \in Limited : /\ Counted(rsLog'[o], rsNow', rsR'[o], rsT'[o], MaxR[o], MaxT[o])
                         /\ Earlier(rsLog'[o], rsT'[o], MaxR[o], MaxT[o])
                         /\ Window(rsLog'[o], MaxR[o], MaxT[o])
  <2> TAKE o \in Limited
  <2>1. rsR'[o] <= MaxR[o] /\ (rsT[o] = 0 => rsR'[o] = 0)
    BY <1>2, <1>3, <1>4, RsInvHas, SMTT(30) DEF Counted, RsInv, RsType
  <2> QED
    BY <1>0, <1>2, <2>1, RsInvHas DEF Counted
<1> QED
  BY <1>2, <1>7, <1>8, <1>9, RsInvParts

\* step of an object without a limit.
LEMMA RsFreeKeeps ==
  ASSUME RsInv, RsStep, rsPhase \notin Limited
  PROVE  RsInv'
<1>0. /\ rsPhase \in Objects /\ rsPhase # "exceeded" /\ rsNow' = rsNow /\ MaxR[rsPhase] = 0
      /\ rsPhase' = rsPhase
  BY DEF RsStep, Limited, Objects
<1>1. PICK p \in Objects : p = rsPhase /\ p \notin Limited
  BY <1>0
<1>2. PICK r1 \in Nat, t1 \in Nat, log \in Seq(Nat) :
        /\ rsR' = [rsR EXCEPT ![p] = r1] /\ rsT' = [rsT EXCEPT ![p] = t1]
        /\ rsLog' = [rsLog EXCEPT ![p] = log]
  <2>1. rsNow \in Nat /\ rsR[p] + 1 \in Nat /\ rsT[p] \in Nat /\ Append(rsLog[p], rsNow) \in Seq(Nat)
    BY <1>1, AppendProperties DEF RsInv, RsType
  <2>2. /\ \E r1 \in Nat : rsR' = [rsR EXCEPT ![p] = r1]
        /\ \E t1 \in Nat : rsT' = [rsT EXCEPT ![p] = t1]
        /\ \E log \in Seq(Nat) : rsLog' = [rsLog EXCEPT ![p] = log]
    BY <1>0, <1>1, <2>1 DEF RsStep
  <2> QED
    BY <2>2
<1>3. \A o \in Limited : rsLog'[o] = rsLog[o] /\ rsR'[o] = rsR[o] /\ rsT'[o] = rsT[o]
  BY <1>1, <1>2, LimitedHas DEF RsInv, RsType
<1>4. rsDue' \in Nat /\ UNCHANGED rsRound
  BY <1>0 DEF RsStep, RsInv, RsType
<1>5. RsType'
  BY <1>0, <1>1, <1>2, <1>4 DEF RsInv, RsType
<1>6. ExceededIsFrequent'
  BY <1>0 DEF ExceededIsFrequent
<1> QED
  BY <1>0, <1>3, <1>5, <1>6, RsInvHas, RsInvParts

\* A round counts a number of workers.
LEMMA DueIsNat == RsMaintain => rsDue' \in Nat
<1> SUFFICES ASSUME NEW codes, NEW gap \in Nat PROVE Counts(codes, gap) \in Nat
  <2>1. \A n \in 0..RsExits : n + 1 \in Nat
    BY RestartsAssumption
  <2>2. \A n \in 0..RsExits : \A gap \in 0..(n + 1) : gap \in Nat
    BY <2>1
  <2> QED
    BY <2>2 DEF RsMaintain
<1>1. IsFiniteSet(1..gap)
  BY FS_Interval
<1>2. {i \in 1..gap : codes # <<>> /\ (i > Len(codes) \/ codes[i] = "failed")} \subseteq 1..gap
  OBVIOUS
<1> QED
  BY <1>1, <1>2, FS_Subset, FS_CardinalityType DEF Counts

\* The pool is given up neither too late nor too early when workers are added at
\* a high rate: for any limits or none, any number of rounds, of workers reaped
\* in one, and any time.
THEOREM RestartsAreSafe == RsSpec => []RestartsSafe
<1>1. RsInv /\ [RsNext]_rsVars => RsInv'
  <2> SUFFICES ASSUME RsInv, [RsNext]_rsVars PROVE RsInv'
    OBVIOUS
  <2>1. CASE UNCHANGED rsVars
    BY <2>1 DEF rsVars, RsInv, RsType, RsCounted, RsEarlier, RestartsSafe, RestartWindow,
       ExceededIsFrequent, StepsWithin
  <2>2. CASE RsStart
    <3>1. UNCHANGED <<rsR, rsT, rsLog>> /\ rsNow' = rsNow /\ rsNow \in Nat /\ rsPhase' \in Objects
          /\ rsRound' \in Nat /\ rsPhase # "exceeded" /\ rsDue' \in Nat
      BY <2>2, DueIsNat DEF RsStart, RsInv, RsType, Objects
    <3> QED
      BY <3>1, RsQuiet
  <2>3. CASE RsSleep
    <3>1. UNCHANGED <<rsR, rsT, rsLog>> /\ rsNow' = rsNow + 1 /\ rsNow \in Nat
          /\ rsPhase' \in Objects /\ rsRound' \in Nat /\ rsPhase # "exceeded" /\ rsDue' \in Nat
      BY <2>3, DueIsNat DEF RsSleep, RsInv, RsType, Objects
    <3> QED
      BY <3>1, RsQuiet
  <2>4. CASE RsStep
    <3>1. CASE rsPhase \in Limited /\ rsPhase' = rsPhase
      BY <2>4, <3>1, RsStepKeeps
    <3>2. CASE rsPhase' # rsPhase
      BY <2>4, <3>2, RsRaiseKeeps
    <3>3. CASE rsPhase \notin Limited
      BY <2>4, <3>3, RsFreeKeeps
    <3> QED
      BY <3>1, <3>2, <3>3
  <2> QED
    BY <2>1, <2>2, <2>3, <2>4, RsAckKeeps DEF RsNext
<1>2. RsInv => RestartsSafe
  BY DEF RsInv
<1> QED
  BY <1>1, <1>2, RsInvInit, PTL DEF RsSpec

(***************************************************************************)
(* Terminate.  The deletion of the exited workers is a recursion over the  *)
(* list: what it keeps is shown by the least-number principle.             *)
(***************************************************************************)

\* A set of natural numbers that is not empty has a least element.
LEMMA LeastOf ==
  ASSUME NEW S, S \subseteq Nat, S # {}
  PROVE  \E m \in S : \A k \in S : m <= k
<1> DEFINE R == {p \in Nat \X Nat : p[1] < p[2]}
<1>1. IsWellFoundedOn(R, Nat)
  <2>1. OpToRel(<, Nat) = R
    BY DEF OpToRel
  <2> QED
    BY <2>1, NatLessThanWellFounded
<1>2. PICK m \in S : \A k \in S : ~ (<<k, m>> \in R)
  <2> HIDE DEF R
  <2> QED
    BY <1>1, WFMin
<1>3. ASSUME NEW k \in S PROVE ~(k < m)
  <2>1. <<k, m>> \in Nat \X Nat /\ <<k, m>>[1] = k /\ <<k, m>>[2] = m
    OBVIOUS
  <2>2. k < m => <<k, m>> \in R
    BY <2>1
  <2> QED
    BY <1>2, <2>2
<1> QED
  BY <1>3

\* What the recursion of TmKept says about position i of the function g.
KeptAt(s, g, i) ==
  IF i = 0 THEN <<>> ELSE IF TmAlive(s[i]) THEN Append(g[i - 1], s[i]) ELSE g[i - 1]

\* There is a function up to n that obeys the recursion.
LEMMA KeptExists ==
  ASSUME NEW T, NEW s \in Seq(T)
  PROVE  \A n \in 0..Len(s) : \E g : g = [i \in 0..n |-> KeptAt(s, g, i)]
<1> DEFINE Good(n) == \E g : g = [i \in 0..n |-> KeptAt(s, g, i)]
<1> DEFINE S == {n \in 0..Len(s) : ~Good(n)}
<1>0. Len(s) \in Nat
  BY LenProperties
<1> SUFFICES ASSUME S # {} PROVE FALSE
  OBVIOUS
<1>1. PICK m \in S : \A k \in S : m <= k
  <2> HIDE DEF S
  <2>1. S \subseteq Nat
    BY <1>0 DEF S
  <2> QED
    BY <2>1, LeastOf
<1>2. m \in 0..Len(s) /\ m \in Nat
  BY <1>0
<1>3. m # 0
  <2>1. [i \in 0..0 |-> KeptAt(s, [j \in 0..0 |-> <<>>], i)] = [j \in 0..0 |-> <<>>]
     BY DEF KeptAt
  <2>2. Good(0)
     BY <2>1
  <2> QED
    BY <2>2
<1>4. m - 1 \in 0..Len(s) /\ m - 1 \notin S
  BY <1>0, <1>1, <1>2, <1>3
<1>5. PICK g : g = [i \in 0..(m-1) |-> KeptAt(s, g, i)]
  BY <1>4
<1> DEFINE h == [i \in 0..m |-> IF i = m THEN KeptAt(s, g, m) ELSE g[i]]
<1>6. ASSUME NEW i \in 0..m PROVE h[i] = KeptAt(s, h, i)
  <2>1. CASE i = m
    <3>1. h[m-1] = g[m-1]
      BY <1>2, <1>3
    <3>2. h[i] = KeptAt(s, g, m)
      BY <2>1
    <3> HIDE DEF h
    <3> QED
      BY <1>3, <2>1, <3>1, <3>2 DEF KeptAt
  <2>2. CASE i # m
    <3>1. i \in 0..(m-1) /\ i \in Nat
      BY <1>2, <1>6, <2>2
    <3>2. h[i] = g[i]
      BY <2>2
    <3>3. g[i] = KeptAt(s, g, i)
      BY <1>5, <3>1
    <3>4. i # 0 => i - 1 \in 0..m /\ i-1 # m
      BY <1>2, <3>1
    <3>5. i # 0 => h[i-1] = g[i-1]
      BY <3>4
    <3> HIDE DEF h
    <3> QED
      BY <3>2, <3>3, <3>5 DEF KeptAt
  <2> QED
    BY <2>1, <2>2
<1>7. h = [i \in 0..m |-> h[i]]
  OBVIOUS
<1>8. h = [i \in 0..m |-> KeptAt(s, h, i)]
  <2> HIDE DEF h
  <2> QED
    BY <1>6, <1>7
<1>9. Good(m)
  <2> HIDE DEF h
  <2> QED
    BY <1>8
<1> QED
  BY <1>9

\* TmKept is the last value of that function.
LEMMA KeptFixed ==
  ASSUME NEW T, NEW s \in Seq(T)
  PROVE  \E g : g = [i \in 0..Len(s) |-> KeptAt(s, g, i)] /\ TmKept(s) = g[Len(s)]
<1> DEFINE G == CHOOSE g : g = [i \in 0..Len(s) |-> KeptAt(s, g, i)]
<1>1. TmKept(s) = G[Len(s)]
  BY DEF TmKept, KeptAt
<1>2. Len(s) \in 0..Len(s)
  BY LenProperties
<1>3. G = [i \in 0..Len(s) |-> KeptAt(s, G, i)]
  <2>1. \E g : g = [i \in 0..Len(s) |-> KeptAt(s, g, i)]
    BY <1>2, KeptExists
  <2> QED
    BY <2>1
<1> QED
  BY <1>1, <1>3

\* x is among the elements of q.
Among(x, q) == \E k \in 1..Len(q) : q[k] = x

\* Appending keeps what is there and adds the new element.
LEMMA AmongAppend ==
  ASSUME NEW T, NEW q \in Seq(T), NEW y \in T
  PROVE  /\ Append(q, y) \in Seq(T) /\ Among(y, Append(q, y))
         /\ \A x : Among(x, q) => Among(x, Append(q, y))
<1>1. /\ Append(q, y) \in Seq(T) /\ Len(Append(q, y)) = Len(q) + 1 /\ Len(q) \in Nat
      /\ \A k \in 1..Len(q) : Append(q, y)[k] = q[k]
      /\ Append(q, y)[Len(q) + 1] = y
  BY AppendProperties, LenProperties
<1> QED
  BY <1>1 DEF Among

\* _join_exited_workers keeps every worker of the list that is alive.
LEMMA KeptHasAlive ==
  ASSUME NEW T, NEW s \in Seq(T)
  PROVE  /\ TmKept(s) \in Seq(T)
         /\ \A i \in 1..Len(s) : TmAlive(s[i]) => Among(s[i], TmKept(s))
<1>0. Len(s) \in Nat
  BY LenProperties
<1>1. PICK g : g = [i \in 0..Len(s) |-> KeptAt(s, g, i)] /\ TmKept(s) = g[Len(s)]
  BY KeptFixed
<1>2. ASSUME NEW i \in 0..Len(s) PROVE g[i] = KeptAt(s, g, i)
  BY <1>1
<1> DEFINE Good(n) == /\ g[n] \in Seq(T)
                      /\ \A i \in 1..n : TmAlive(s[i]) => Among(s[i], g[n])
<1> DEFINE S == {n \in 0..Len(s) : ~Good(n)}
<1> SUFFICES ASSUME S # {} PROVE FALSE
  <2>1. Len(s) \in 0..Len(s)
    BY <1>0
  <2> QED
    BY <1>1, <2>1
<1>3. PICK m \in S : \A k \in S : m <= k
  <2> HIDE DEF S
  <2>1. S \subseteq Nat
    BY <1>0 DEF S
  <2> QED
    BY <2>1, LeastOf
<1>4. m \in 0..Len(s) /\ m \in Nat /\ ~Good(m)
  BY <1>0
<1>5. m # 0
  <2>1. g[0] = <<>>
    BY <1>2, <1>0 DEF KeptAt
  <2>2. Good(0)
    BY <2>1
  <2> QED
    BY <1>4, <2>2
<1>6. m - 1 \in 0..Len(s) /\ m - 1 \notin S
  BY <1>0, <1>3, <1>4, <1>5
<1>7. Good(m - 1)
  BY <1>6
<1>8. s[m] \in T
  BY <1>0, <1>4, <1>5, ElementOfSeq
<1>9. \A i \in 1..m : i = m \/ i \in 1..(m - 1)
  BY <1>4, <1>5
<1>10. Good(m)
  <2>1. CASE TmAlive(s[m])
    <3>1. g[m] = Append(g[m - 1], s[m])
      BY <1>2, <1>4, <1>5, <2>1 DEF KeptAt
    <3>2. /\ Append(g[m - 1], s[m]) \in Seq(T) /\ Among(s[m], Append(g[m - 1], s[m]))
          /\ \A x : Among(x, g[m - 1]) => Among(x, Append(g[m - 1], s[m]))
      BY <1>7, <1>8, AmongAppend
    <3> QED
      BY <1>7, <1>9, <3>1, <3>2
  <2>2. CASE ~TmAlive(s[m])
    <3>1. g[m] = g[m - 1]
      BY <1>2, <1>4, <1>5, <2>2 DEF KeptAt
    <3> QED
      BY <1>7, <1>9, <2>2, <3>1
  <2> QED
    BY <2>1, <2>2
<1> QED
  BY <1>4, <1>10

\* Where a worker can be.
TmStates == {"none", "wait", "hold", "busy", "dead"}

\* The list, its workers and the places of the caller and of Supervisor have
\* their types.
TmType ==
  /\ tmPool \in Seq(1..TmPids) /\ tmLast \in 0..TmPids
  /\ tmWorker \in [1..TmPids -> TmStates]
  /\ tmCaller \in {"new", "running", "lock", "drain", "joinsup", "loop", "jointh", "joinrh",
                   "joinworkers", "returned"}
  /\ tmSup \in {"none", "run", "repopulate", "create", "done"}
  /\ tmSup = "create" => tmLast < TmPids

\* A worker that is alive is in the list: a deletion takes exited ones only.
AliveListed == \A w \in 1..TmPids : TmAlive(w) => Among(w, tmPool)

\* From its loop over the list on, the caller runs after Supervisor's end.
SupIsOver ==
  tmCaller \in {"loop", "jointh", "joinrh", "joinworkers", "returned"} => tmSup = "done"

\* The inductive invariant of Terminate.
TmInv == TmType /\ AliveListed /\ SupIsOver /\ NoWorkerSurvives

\* The invariant holds before the pool exists.
LEMMA TmInitHolds == TmInit => TmInv
<1> SUFFICES ASSUME TmInit PROVE TmInv
  OBVIOUS
<1>1. TmPids \in Nat
  BY TerminateAssumption
<1>2. tmPool \in Seq(1..TmPids)
  BY DEF TmInit
<1>3. TmType
  BY <1>1, <1>2 DEF TmInit, TmType, TmStates
<1>4. AliveListed /\ SupIsOver /\ NoWorkerSurvives
  BY DEF TmInit, AliveListed, TmAlive, SupIsOver, NoWorkerSurvives
<1> QED
  BY <1>3, <1>4 DEF TmInv

\* A step in which no worker comes to life, the list stays and the caller and
\* Supervisor move forward.
TmQuiet ==
  /\ tmPool' = tmPool /\ tmLast' = tmLast
  /\ tmWorker' \in [1..TmPids -> TmStates]
  /\ \A w \in 1..TmPids : TmAlive(w)' => TmAlive(w)
  /\ tmCaller' \in {"new", "running", "lock", "drain", "joinsup", "loop", "jointh", "joinrh",
                    "joinworkers", "returned"}
  /\ tmSup' \in {"none", "run", "repopulate", "create", "done"}
  /\ tmSup' = "create" => tmLast < TmPids
  /\ tmCaller' \in {"loop", "jointh", "joinrh", "joinworkers", "returned"} => tmSup' = "done"
  /\ tmCaller' = "returned" /\ tmCaller # "returned" => \A i \in DOMAIN tmPool : ~TmAlive(tmPool[i])

\* Such a step keeps the invariant: when terminate() returns, every worker of
\* the list has exited, and there is no other alive.
LEMMA TmQuietKeeps == TmInv /\ TmQuiet => TmInv'
<1> SUFFICES ASSUME TmInv, TmQuiet PROVE TmInv'
  OBVIOUS
<1>1. TmType'
  BY DEF TmInv, TmType, TmQuiet
<1>2. AliveListed'
  BY DEF TmInv, AliveListed, TmQuiet, Among
<1>3. SupIsOver'
  BY DEF TmQuiet, SupIsOver
<1>4. NoWorkerSurvives'
  <2> SUFFICES ASSUME tmCaller' = "returned", NEW w \in 1..TmPids, TmAlive(w)' PROVE FALSE
    BY DEF NoWorkerSurvives
  <2>1. TmAlive(w)
    BY DEF TmQuiet
  <2>2. CASE tmCaller = "returned"
    BY <2>1, <2>2 DEF TmInv, NoWorkerSurvives
  <2>3. CASE tmCaller # "returned"
    <3>1. PICK k \in 1..Len(tmPool) : tmPool[k] = w
      BY <2>1 DEF TmInv, AliveListed, Among
    <3>2. DOMAIN tmPool = 1..Len(tmPool)
      BY LenProperties DEF TmInv, TmType
    <3> QED
      BY <2>1, <2>3, <3>1, <3>2 DEF TmQuiet
  <2> QED
    BY <2>2, <2>3
<1> QED
  BY <1>1, <1>2, <1>3, <1>4 DEF TmInv

\* The steps of the workers.
LEMMA TmWorkersKeep ==
  ASSUME TmInv, NEW w \in 1..TmPids, TmWorkerStep(w) \/ TmFinish(w) \/ TmSwallow(w) \/ TmAbandon(w)
  PROVE  TmQuiet
<1>1. \/ \E x \in TmStates \ {"none"} : tmWorker' = [tmWorker EXCEPT ![w] = x]
      \/ tmWorker' = tmWorker
  BY DEF TmWorkerStep, TmFinish, TmLock, TmReceive, TmSwallow, TmAbandon, TmExit,
         TmInv, TmType, TmStates
<1>2. TmAlive(w)
  BY DEF TmWorkerStep, TmFinish, TmLock, TmReceive, TmSwallow, TmAbandon, TmExit,
         TmAlive
<1>3. UNCHANGED <<tmPool, tmLast, tmCaller, tmSup>>
  BY DEF TmWorkerStep, TmFinish, TmLock, TmReceive, TmSwallow, TmAbandon, TmExit
<1>4. tmWorker' \in [1..TmPids -> TmStates]
  BY <1>1 DEF TmInv, TmType, TmStates
<1>5. \A v \in 1..TmPids : TmAlive(v)' => TmAlive(v)
  BY <1>1, <1>2 DEF TmAlive, TmInv, TmType
<1> QED
  BY <1>3, <1>4, <1>5 DEF TmInv, TmType, SupIsOver, TmQuiet

\* The steps of the caller, once the pool exists.
LEMMA TmCallerKeeps ==
  ASSUME TmInv, TmTerminate \/ TmCallerStep
  PROVE  TmQuiet
<1>1. UNCHANGED <<tmPool, tmLast, tmSup>>
  BY DEF TmTerminate, TmCallerStep, TmHelpLock, TmHelpDrain, TmJoinSup, TmLoop, TmJoinRest,
         tmPoolVars
<1>2. tmWorker' = tmWorker
  BY DEF TmTerminate, TmCallerStep, TmHelpLock, TmHelpDrain, TmJoinSup, TmLoop, TmJoinRest,
         tmPoolVars
<1>3. tmWorker' \in [1..TmPids -> TmStates]
  BY <1>2 DEF TmInv, TmType
<1>4. \A v \in 1..TmPids : TmAlive(v)' => TmAlive(v)
  BY <1>2 DEF TmAlive, TmInv, TmType
<1>5. /\ tmCaller' \in {"new", "running", "lock", "drain", "joinsup", "loop", "jointh", "joinrh",
                        "joinworkers", "returned"}
      /\ tmCaller' \in {"loop", "jointh", "joinrh", "joinworkers", "returned"} => tmSup = "done"
      /\ tmCaller' = "returned" /\ tmCaller # "returned" =>
           \A i \in DOMAIN tmPool : ~TmAlive(tmPool[i])
  BY DEF TmTerminate, TmCallerStep, TmHelpLock, TmHelpDrain, TmJoinSup, TmLoop, TmJoinRest,
         TmInv, TmType, SupIsOver
<1> QED
  BY <1>1, <1>3, <1>4, <1>5 DEF TmQuiet, TmInv, TmType

\* The steps that leave the core alone, and Supervisor's tests.
LEMMA TmThreadsKeep ==
  ASSUME TmInv, TmThStep \/ TmRhBody \/ TmSupCheck \/ UNCHANGED tmVars
  PROVE  TmQuiet
<1>1. UNCHANGED <<tmPool, tmLast, tmWorker, tmCaller>>
  BY DEF TmThStep, ThGet, ThPutTask, ThTellOne, TmRhBody, TmSupCheck, tmVars, tmPoolVars
<1>2. \/ tmSup' = tmSup
      \/ /\ tmSup = "repopulate" /\ tmSup' \in {"create", "run"}
         /\ tmSup' = "create" => tmLast < TmPids
  BY DEF TmThStep, ThGet, ThPutTask, ThTellOne, TmRhBody, TmSupCheck, tmVars
<1> QED
  BY <1>1, <1>2 DEF TmInv, TmType, SupIsOver, TmQuiet, TmAlive

\* A deletion of the exited workers keeps the invariant.
LEMMA TmDeleteKeeps ==
  ASSUME TmInv, TmSupRound \/ TmRhFinish
  PROVE  TmInv'
<1>1. UNCHANGED <<tmLast, tmWorker, tmCaller>>
  BY DEF TmSupRound, TmRhFinish
<1>2. tmPool' = tmPool \/ tmPool' = TmKept(tmPool)
  BY DEF TmSupRound, TmRhFinish, TmJoinExited
<1>3. tmSup' = tmSup \/ (tmSup = "run" /\ tmSup' \in {"repopulate", "done"})
  BY DEF TmSupRound, TmRhFinish
<1>4. /\ TmKept(tmPool) \in Seq(1..TmPids)
      /\ \A i \in 1..Len(tmPool) : TmAlive(tmPool[i]) => Among(tmPool[i], TmKept(tmPool))
  BY KeptHasAlive DEF TmInv, TmType
<1>5. TmType'
  BY <1>1, <1>2, <1>3, <1>4 DEF TmInv, TmType
<1>6. AliveListed'
  <2> SUFFICES ASSUME NEW w \in 1..TmPids, TmAlive(w)' PROVE Among(w, tmPool')
    BY DEF AliveListed, Among
  <2>1. TmAlive(w)
    BY <1>1 DEF TmAlive
  <2>2. PICK i \in 1..Len(tmPool) : tmPool[i] = w
    BY <2>1 DEF TmInv, AliveListed, Among
  <2>3. Among(w, tmPool) /\ Among(w, TmKept(tmPool))
    BY <1>4, <2>1, <2>2 DEF Among
  <2> QED
    BY <1>2, <2>3
<1>7. SupIsOver'
  BY <1>1, <1>3 DEF TmInv, SupIsOver
<1>8. NoWorkerSurvives'
  BY <1>1 DEF TmInv, NoWorkerSurvives, TmAlive
<1> QED
  BY <1>5, <1>6, <1>7, <1>8 DEF TmInv

\* A worker that Supervisor creates is in the list, and the caller has not yet
\* begun its loop.
LEMMA TmSupCreateKeeps == TmInv /\ TmSupCreate => TmInv'
<1> SUFFICES ASSUME TmInv, TmSupCreate PROVE TmInv'
  OBVIOUS
<1> DEFINE n == tmLast + 1
<1>0. TmPids \in Nat
  BY TerminateAssumption
<1>1. /\ n \in 1..TmPids /\ tmLast' = n /\ tmPool' = Append(tmPool, n)
      /\ tmWorker' = [tmWorker EXCEPT ![n] = "wait"] /\ tmSup' = "repopulate"
      /\ tmCaller' = tmCaller /\ tmSup = "create"
  BY <1>0 DEF TmInv, TmType, TmSupCreate
<1>2. /\ Append(tmPool, n) \in Seq(1..TmPids) /\ Among(n, Append(tmPool, n))
      /\ \A x : Among(x, tmPool) => Among(x, Append(tmPool, n))
  <2> HIDE DEF n
  <2> QED
    BY <1>1, AmongAppend DEF TmInv, TmType
<1>3. TmType'
  BY <1>0, <1>1, <1>2 DEF TmInv, TmType, TmStates
<1>4. AliveListed'
  <2> HIDE DEF n
  <2> SUFFICES ASSUME NEW w \in 1..TmPids, TmAlive(w)' PROVE Among(w, tmPool')
    BY DEF AliveListed, Among
  <2>1. w = n \/ TmAlive(w)
    BY <1>1 DEF TmAlive, TmInv, TmType
  <2> QED
    BY <1>1, <1>2, <2>1 DEF TmInv, AliveListed
<1>5. SupIsOver' /\ NoWorkerSurvives'
  BY <1>1 DEF TmInv, SupIsOver, NoWorkerSurvives
<1> QED
  BY <1>3, <1>4, <1>5 DEF TmInv

\* Pool.__init__ lists the workers that it starts.
LEMMA TmCreateKeeps ==
  ASSUME TmInv, NEW n \in 0..TmTasks, TmCreate(n)
  PROVE  TmInv'
<1>0. TmPids \in Nat /\ TmSize \in Nat /\ TmSize <= TmPids
  BY TerminateAssumption
<1>1. /\ tmPool' = [i \in 1..TmSize |-> i] /\ tmLast' = TmSize
      /\ tmWorker' = [w \in 1..TmPids |-> IF w <= TmSize THEN "wait" ELSE "none"]
      /\ tmSup' = "run" /\ tmCaller' = "running"
  BY DEF TmCreate
<1>2. tmPool' \in Seq(1..TmPids) /\ Len(tmPool') = TmSize
  <2>1. tmPool' \in [1..TmSize -> 1..TmPids]
    BY <1>0, <1>1
  <2> QED
    BY <1>0, <1>1, <2>1, SeqDef, LenProperties
<1>3. TmType'
  BY <1>0, <1>1, <1>2 DEF TmType, TmStates
<1>4. AliveListed'
  <2> SUFFICES ASSUME NEW w \in 1..TmPids, TmAlive(w)' PROVE Among(w, tmPool')
    BY DEF AliveListed, Among
  <2>1. w \in 1..TmSize
    BY <1>0, <1>1 DEF TmAlive
  <2> QED
    BY <1>1, <1>2, <2>1 DEF Among
<1>5. SupIsOver' /\ NoWorkerSurvives'
  BY <1>1 DEF SupIsOver, NoWorkerSurvives
<1> QED
  BY <1>3, <1>4, <1>5 DEF TmInv

\* Every step of Terminate keeps the invariant.
LEMMA TmNextKeeps == TmInv /\ [TmNext]_tmVars => TmInv'
<1> SUFFICES ASSUME TmInv, [TmNext]_tmVars PROVE TmInv'
  OBVIOUS
<1>1. CASE \E n \in 0..TmTasks : TmCreate(n)
  BY <1>1, TmCreateKeeps
<1>2. CASE TmTerminate \/ TmCallerStep
  BY <1>2, TmCallerKeeps, TmQuietKeeps
<1>3. CASE TmThStep \/ TmRhBody \/ TmSupCheck \/ UNCHANGED tmVars
  BY <1>3, TmThreadsKeep, TmQuietKeeps
<1>4. CASE TmSupRound \/ TmRhFinish
  BY <1>4, TmDeleteKeeps
<1>5. CASE TmSupCreate
  BY <1>5, TmSupCreateKeeps
<1>6. CASE \E w \in 1..TmPids : TmWorkerStep(w) \/ TmFinish(w) \/ TmSwallow(w) \/ TmAbandon(w)
  BY <1>6, TmWorkersKeep, TmQuietKeeps
<1> QED
  BY <1>1, <1>2, <1>3, <1>4, <1>5, <1>6 DEF TmNext, TmSupStep, TmRhStep

\* Once terminate() has returned no worker is alive, for every number of
\* workers and of tasks, wherever the threads and the workers were.
THEOREM TerminateKillsAll == TmSpec => []NoWorkerSurvives
<1>1. TmInv => NoWorkerSurvives
  BY DEF TmInv
<1> QED
  BY <1>1, TmInitHolds, TmNextKeeps, PTL DEF TmSpec

(***************************************************************************)
(* Results                                                                 *)
(***************************************************************************)

ResCalls ==
  [kind : {"none", "map", "imap", "unordered"}, num : Nat, len : Nat, chunk : {1, 2}, raises : Nat]
ResObjects == [i : Int, ok : BOOLEAN]
ResMsgs == [type : {"ACK", "READY"}, i : Int, pid : ResPids, ok : BOOLEAN]
TaskCount == Chunks(resCall.len, resCall.chunk)

ResType ==
  /\ resCall \in ResCalls /\ resTh \in {"idle", "put", "done"}
  /\ resPut \in Nat /\ resTaken \in Nat /\ resTaken <= resPut /\ resPut <= TaskCount
  /\ resWork \in [ResPids -> Int]
  /\ resWpc \in [ResPids -> {"idle", "run", "sent", "exited", "gone"}]
  /\ resOut \in Seq(ResMsgs) /\ resRh \in Seq(ResMsgs)
  /\ resItems \in Seq(ResObjects) /\ resGot \in Seq(ResObjects)
  /\ resIndex \in Nat /\ resLength \in Int /\ resLeft \in Int
  /\ resUnsorted \subseteq ResObjects /\ resExits \in Nat
  /\ resLost \in {"no", "fresh", "elapsed"}
  /\ resStop \in BOOLEAN /\ resReady \in BOOLEAN /\ resFailed \in BOOLEAN /\ resCached \in BOOLEAN

\* Where the result of task i is, from the worker to the call of _set.
Runs(p, i) == resWpc[p] = "run" /\ resWork[p] = i
Written(k, i) == resOut[k].type = "READY" /\ resOut[k].i = i
Setting(i) == resRh # <<>> /\ resRh[1].i = i
UnderWay(i) ==
  \/ \E p \in ResPids : Runs(p, i)
  \/ \E k \in 1..Len(resOut) : Written(k, i)
  \/ Setting(i)

\* A task that was taken is in one of these places, or in none, but never in two.
OnePlace ==
  /\ \A i \in Int : UnderWay(i) => i \in 0..(resTaken - 1)
  /\ \A i \in Int : \A p, q \in ResPids : Runs(p, i) /\ Runs(q, i) => p = q
  /\ \A i \in Int : \A k, l \in 1..Len(resOut) : Written(k, i) /\ Written(l, i) => k = l
  /\ \A i \in Int : \A p \in ResPids, k \in 1..Len(resOut) : ~(Runs(p, i) /\ Written(k, i))
  /\ \A i \in Int : \A p \in ResPids : ~(Runs(p, i) /\ Setting(i))
  /\ \A i \in Int : \A k \in 1..Len(resOut) : ~(Written(k, i) /\ Setting(i))

\* Task i has been taken, if one was, and is not under way any more.
Passed(i) == ~UnderWay(i) /\ (i \in 0..(resTaken - 1) \/ (resTh = "done" /\ resPut = 0))

\* Before the call.
BeforeCall ==
  /\ resTh = "idle" <=> resCall.kind = "none"
  /\ resTh = "idle" =>
       /\ resPut = 0 /\ resFilled = {} /\ ~resReady /\ ~resFailed /\ ~resCached
       /\ resGot = <<>> /\ resItems = <<>> /\ resIndex = 0 /\ resUnsorted = {}
       /\ resLength = NoIndex /\ ~resStop

\* No worker has left, so none is lost.
NoneLeft ==
  resExits = 0 => resLost = "no" /\ \A p \in ResPids : resWpc[p] \in {"idle", "run"}

\* imap: what next() has returned or will return are the first resIndex results.
Ordered ==
  resCall.kind = "imap" =>
    /\ Len(resGot) + Len(resItems) = resIndex
    /\ \A n \in 1..Len(resGot) : resGot[n].i = n - 1
    /\ \A n \in 1..Len(resItems) : resItems[n].i = Len(resGot) + n - 1

\* imap_unordered: the results are of different tasks, and not under way any more.
Apart ==
  resCall.kind = "unordered" /\ resExits = 0 =>
    /\ Len(resGot) + Len(resItems) = resIndex
    /\ \A m, n \in 1..Len(resGot) : resGot[m].i = resGot[n].i => m = n
    /\ \A m, n \in 1..Len(resItems) : resItems[m].i = resItems[n].i => m = n
    /\ \A m \in 1..Len(resGot), n \in 1..Len(resItems) : resGot[m].i # resItems[n].i
    /\ \A n \in 1..Len(resGot) : Passed(resGot[n].i)
    /\ \A n \in 1..Len(resItems) : Passed(resItems[n].i)

\* The length, once it is set, and the end of the results.
Ended ==
  resCall.kind \in {"imap", "unordered"} =>
    /\ resCall.chunk = 1
    /\ resCall.raises = resCall.len =>
         /\ resLength \in {NoIndex, resCall.len}
         /\ resStop /\ resExits = 0 => Len(resGot) = resCall.len

\* map: D are the chunks that _set has counted.
ChunksCounted(D) ==
  /\ D \subseteq 0..(TaskCount - 1) /\ Cardinality(D) + resLeft = TaskCount
  /\ resFilled = {n \in 0..(resCall.len - 1) : n \div resCall.chunk \in D}
  /\ \A i \in D : Passed(i)

MapInv ==
  IsMap /\ ~resFailed => (resReady => resLeft = 0) /\ \E D : ChunksCounted(D)

ResInv ==
  /\ ResType /\ OnePlace /\ BeforeCall /\ NoneLeft /\ Ordered /\ Apart /\ Ended /\ MapInv
  /\ IsFiniteSet({u.i : u \in resUnsorted})

\* The number of tasks.
LEMMA TasksType == ASSUME resCall \in ResCalls PROVE TaskCount \in Nat /\ resCall.len \in Nat
<1>1. /\ resCall.len \in Nat /\ resCall.chunk \in {1, 2}
  BY DEF ResCalls
<1>2. CASE resCall.chunk = 1
  BY <1>1, <1>2 DEF TaskCount, Chunks
<1>3. CASE resCall.chunk = 2
  BY <1>1, <1>3 DEF TaskCount, Chunks
<1> QED
  BY <1>1, <1>2, <1>3

\* What stays where it is.
LEMMA PlacesStay ==
  ASSUME OnePlace, UNCHANGED <<resTaken, resWork, resOut, resRh>>,
         \A p \in ResPids : resWpc'[p] = "run" <=> resWpc[p] = "run"
  PROVE  OnePlace' /\ \A i : UnderWay(i)' <=> UnderWay(i)
<1>1. \A p \in ResPids : \A i : Runs(p, i)' <=> Runs(p, i)
  BY DEF Runs
<1>2. \A k : \A i : Written(k, i)' <=> Written(k, i)
  BY DEF Written
<1>3. \A i : Setting(i)' <=> Setting(i)
  BY DEF Setting
<1>4. \A i : UnderWay(i)' <=> UnderWay(i)
  BY <1>1, <1>2, <1>3 DEF UnderWay
<1> QED
  BY <1>1, <1>2, <1>3, <1>4 DEF OnePlace

\* The object, and what was handed out, stay as they are.
LEMMA ObjectStays ==
  ASSUME ResInv,
         UNCHANGED <<resCall, resGot, resItems, resIndex, resLength, resStop, resFilled,
                     resLeft, resReady, resFailed, resUnsorted>>,
         resExits' = 0 => resExits = 0, \A i \in Int : Passed(i) => Passed(i)'
  PROVE  Ordered' /\ Apart' /\ Ended' /\ MapInv' /\ IsFiniteSet({u.i : u \in resUnsorted})'
<1>1. Ordered'
  BY DEF ResInv, Ordered
<1>2. Apart'
  <2>1. /\ \A n \in 1..Len(resGot) : resGot[n].i \in Int
        /\ \A n \in 1..Len(resItems) : resItems[n].i \in Int
    <3>1. resGot \in Seq(ResObjects) /\ resItems \in Seq(ResObjects)
      BY DEF ResInv, ResType
    <3>2. /\ \A n \in 1..Len(resGot) : resGot[n] \in ResObjects
          /\ \A n \in 1..Len(resItems) : resItems[n] \in ResObjects
      BY <3>1
    <3> QED
      BY <3>2 DEF ResObjects
  <2> QED
    BY <2>1 DEF ResInv, Apart
<1>3. Ended'
  BY DEF ResInv, Ended
<1>4. \A D : ChunksCounted(D) => ChunksCounted(D)'
  BY DEF ChunksCounted, TaskCount, Chunks
<1>5. MapInv'
  BY <1>4 DEF ResInv, MapInv, IsMap
<1>6. IsFiniteSet({u.i : u \in resUnsorted})'
  BY DEF ResInv
<1> QED
  BY <1>1, <1>2, <1>3, <1>5, <1>6

LEMMA ResInitial == ResInit => ResInv
<1> SUFFICES ASSUME ResInit PROVE ResInv
  OBVIOUS
<1>1. ResType
  <2>1. resCall \in ResCalls
    BY DEF ResInit, ResCalls
  <2>2. TaskCount \in Nat
    BY <2>1, TasksType
  <2>3. NoIndex \in Int
    BY DEF NoIndex
  <2>4. /\ resWork \in [ResPids -> Int]
        /\ resWpc \in [ResPids -> {"idle", "run", "sent", "exited", "gone"}]
    BY <2>3 DEF ResInit
  <2>5. /\ resOut \in Seq(ResMsgs) /\ resRh \in Seq(ResMsgs)
        /\ resItems \in Seq(ResObjects) /\ resGot \in Seq(ResObjects) /\ resUnsorted \subseteq ResObjects
    BY DEF ResInit
  <2>6. resPut = 0 /\ resTaken = 0 /\ resTaken <= resPut /\ resPut <= TaskCount
    BY <2>2 DEF ResInit
  <2>7. /\ resTh \in {"idle", "put", "done"} /\ resIndex \in Nat /\ resLength \in Int
        /\ resLeft \in Int /\ resExits \in Nat /\ resLost \in {"no", "fresh", "elapsed"}
    BY <2>3 DEF ResInit
  <2>8. /\ resStop \in BOOLEAN /\ resReady \in BOOLEAN /\ resFailed \in BOOLEAN
        /\ resCached \in BOOLEAN
    BY DEF ResInit
  <2> QED
    BY <2>1, <2>4, <2>5, <2>6, <2>7, <2>8 DEF ResType
<1>2. \A i : ~UnderWay(i)
  BY DEF ResInit, UnderWay, Runs, Written, Setting
<1>3. OnePlace
  BY DEF ResInit, OnePlace, Runs, Written, Setting, UnderWay
<1>4. BeforeCall /\ NoneLeft /\ Ordered /\ Apart /\ Ended /\ MapInv
  BY DEF ResInit, BeforeCall, NoneLeft, Ordered, Apart, Ended, MapInv, IsMap
<1>5. IsFiniteSet({u.i : u \in resUnsorted})
  <2>1. {u.i : u \in resUnsorted} = {}
    BY DEF ResInit
  <2> QED
    BY <2>1, FS_EmptySet
<1> QED
  BY <1>1, <1>3, <1>4, <1>5 DEF ResInv

\* A worker takes the next task.
LEMMA TakePlace ==
  ASSUME ResInv, NEW p \in ResPids, TakeTask(p)
  PROVE  OnePlace' /\ ResType' /\ \A i \in Int : Passed(i) => Passed(i)'
<1>t. ResType /\ OnePlace
  BY DEF ResInv
<1>m. PICK m : m = [type |-> "ACK", i |-> resTaken, pid |-> p, ok |-> TRUE]
  OBVIOUS
<1>0. /\ resWpc[p] = "idle" /\ resTaken < resPut /\ resTaken \in Nat /\ resPut \in Nat
      /\ resWork' = [resWork EXCEPT ![p] = resTaken] /\ resTaken' = resTaken + 1
      /\ resWpc' = [resWpc EXCEPT ![p] = "run"] /\ resOut' = Append(resOut, m)
      /\ resOut \in Seq(ResMsgs) /\ m \in ResMsgs
      /\ UNCHANGED <<resCall, resTh, resPut, resExits, resRh, resGot, resItems, resIndex, resLength,
                     resStop, resFilled, resLeft, resReady, resFailed, resUnsorted, resLost, resCached>>
  BY <1>m, <1>t DEF TakeTask, ResType, ResMsgs, object, consumer
<1>1. /\ Len(resOut') = Len(resOut) + 1 /\ Len(resOut) \in Nat /\ resOut' \in Seq(ResMsgs)
      /\ \A k \in 1..Len(resOut) : resOut'[k] = resOut[k]
      /\ resOut'[Len(resOut) + 1] = m
  BY <1>0
<1>2. ResType'
  <2>1. resWork' \in [ResPids -> Int] /\ resWpc' \in [ResPids -> {"idle", "run", "sent", "exited", "gone"}]
    BY <1>0, <1>t DEF ResType
  <2>2. TaskCount' = TaskCount
    BY <1>0 DEF TaskCount, Chunks
  <2>3. resTaken' \in Nat /\ resTaken' <= resPut
    BY <1>0
  <2> QED
    BY <1>0, <1>1, <1>t, <2>1, <2>2, <2>3 DEF ResType
<1>3. \A q \in ResPids : \A i : Runs(q, i)' <=> (q = p /\ i = resTaken) \/ (q # p /\ Runs(q, i))
  BY <1>0, <1>t DEF Runs, ResType
<1>4. \A k \in 1..Len(resOut') : \A i : Written(k, i)' <=> k \in 1..Len(resOut) /\ Written(k, i)
  <2>1. \A k \in 1..Len(resOut') : k \in 1..Len(resOut) \/ k = Len(resOut) + 1
    BY <1>1
  <2>2. m.type = "ACK"
    BY <1>m
  <2>3. ~(Len(resOut) + 1 \in 1..Len(resOut))
    BY <1>1
  <2> QED
    BY <1>1, <2>1, <2>2, <2>3 DEF Written
<1>5. \A i : Setting(i)' <=> Setting(i)
  BY <1>0 DEF Setting
<1>6. \A i : UnderWay(i)' => UnderWay(i) \/ i = resTaken
  BY <1>3, <1>4, <1>5 DEF UnderWay
<1>7. ~UnderWay(resTaken)
  BY <1>0, <1>t DEF OnePlace
<1>8. \A i \in Int : Passed(i) => Passed(i)'
  BY <1>0, <1>6 DEF Passed
<1>9. \A i : /\ \A q \in ResPids : Runs(q, i) => UnderWay(i)
             /\ \A k \in 1..Len(resOut) : Written(k, i) => UnderWay(i)
             /\ Setting(i) => UnderWay(i)
  BY DEF UnderWay
<1>10. \A i \in Int : UnderWay(i)' => i \in 0..(resTaken' - 1)
  BY <1>0, <1>6, <1>t DEF OnePlace
<1>11. OnePlace'
  <2>1. ASSUME NEW i \in Int, NEW q \in ResPids, NEW r \in ResPids, Runs(q, i)', Runs(r, i)'
        PROVE  q = r
    <3>1. (q = p /\ i = resTaken) \/ (q # p /\ Runs(q, i))
      BY <1>3, <2>1
    <3>2. (r = p /\ i = resTaken) \/ (r # p /\ Runs(r, i))
      BY <1>3, <2>1
    <3>3. ~Runs(q, resTaken) /\ ~Runs(r, resTaken)
      BY <1>7, <1>9
    <3> QED
      BY <1>t, <3>1, <3>2, <3>3 DEF OnePlace
  <2>2. \A i \in Int : \A k, l \in 1..Len(resOut') : Written(k, i)' /\ Written(l, i)' => k = l
    BY <1>4, <1>t, Zenon DEF OnePlace
  <2>3. ASSUME NEW i \in Int, NEW q \in ResPids, NEW k \in 1..Len(resOut'), Runs(q, i)', Written(k, i)'
        PROVE  FALSE
    <3>1. (q = p /\ i = resTaken) \/ (q # p /\ Runs(q, i))
      BY <1>3, <2>3
    <3>2. k \in 1..Len(resOut) /\ Written(k, i)
      BY <1>4, <2>3
    <3>3. UnderWay(i)
      BY <1>9, <3>2
    <3> QED
      BY <1>7, <1>t, <3>1, <3>2, <3>3 DEF OnePlace
  <2>4. \A i \in Int : \A q \in ResPids : ~(Runs(q, i)' /\ Setting(i)')
    BY <1>3, <1>5, <1>7, <1>9, <1>t, Zenon DEF OnePlace
  <2>5. \A i \in Int : \A k \in 1..Len(resOut') : ~(Written(k, i)' /\ Setting(i)')
    BY <1>4, <1>5, <1>t, Zenon DEF OnePlace
  <2> QED
    BY <1>10, <2>1, <2>2, <2>3, <2>4, <2>5 DEF OnePlace
<1> QED
  BY <1>2, <1>8, <1>11

\* A worker writes the result of its task.
LEMMA EndPlace ==
  ASSUME ResInv, NEW p \in ResPids, EndTask(p)
  PROVE  OnePlace' /\ ResType' /\ \A i \in Int : Passed(i) => Passed(i)'
<1>t. ResType /\ OnePlace
  BY DEF ResInv
<1>m. PICK m : m = [type |-> "READY", i |-> resWork[p], pid |-> p, ok |-> resWork[p] \notin Raising]
  OBVIOUS
<1>0. /\ resWpc[p] = "run" /\ resWork[p] \in Int
      /\ resWork' = [resWork EXCEPT ![p] = NoIndex] /\ resWpc' = [resWpc EXCEPT ![p] = "idle"]
      /\ resOut' = Append(resOut, m) /\ resOut \in Seq(ResMsgs)
      /\ UNCHANGED <<resCall, resTh, resPut, resTaken, resExits, resRh, resGot, resItems, resIndex,
                     resLength, resStop, resFilled, resLeft, resReady, resFailed, resUnsorted,
                     resLost, resCached>>
  BY <1>m, <1>t DEF EndTask, ResType, object, consumer, thisCall
<1>e. m \in ResMsgs /\ m.type = "READY" /\ m.i = resWork[p]
  <2>1. (resWork[p] \notin Raising) \in BOOLEAN
    OBVIOUS
  <2> QED
    BY <1>0, <1>m, <2>1 DEF ResMsgs
<1>1. /\ Len(resOut') = Len(resOut) + 1 /\ Len(resOut) \in Nat /\ resOut' \in Seq(ResMsgs)
      /\ \A k \in 1..Len(resOut) : resOut'[k] = resOut[k]
      /\ resOut'[Len(resOut) + 1] = m
  BY <1>0, <1>e
<1>2. ResType'
  <2>1. resWork' \in [ResPids -> Int] /\ resWpc' \in [ResPids -> {"idle", "run", "sent", "exited", "gone"}]
    BY <1>0, <1>t DEF ResType, NoIndex
  <2>2. TaskCount' = TaskCount
    BY <1>0 DEF TaskCount, Chunks
  <2> QED
    BY <1>0, <1>1, <1>t, <2>1, <2>2 DEF ResType
<1>3. \A q \in ResPids : \A i : Runs(q, i)' <=> q # p /\ Runs(q, i)
  BY <1>0, <1>t DEF Runs, ResType
<1>4. \A k \in 1..Len(resOut') : \A i :
        Written(k, i)' <=> (k \in 1..Len(resOut) /\ Written(k, i)) \/ (k = Len(resOut) + 1 /\ Runs(p, i))
  <2>1. \A k \in 1..Len(resOut') : k \in 1..Len(resOut) \/ k = Len(resOut) + 1
    BY <1>1
  <2>3. ~(Len(resOut) + 1 \in 1..Len(resOut))
    BY <1>1
  <2> QED
    BY <1>0, <1>1, <1>e, <2>1, <2>3 DEF Written, Runs
<1>5. \A i : Setting(i)' <=> Setting(i)
  BY <1>0 DEF Setting
<1>6. \A i : UnderWay(i)' => UnderWay(i)
  BY <1>3, <1>4, <1>5 DEF UnderWay
<1>8. \A i \in Int : Passed(i) => Passed(i)'
  BY <1>0, <1>6 DEF Passed
<1>9. \A i \in Int : UnderWay(i)' => i \in 0..(resTaken' - 1)
  BY <1>0, <1>6, <1>t DEF OnePlace
<1>10. OnePlace'
  <2>1. \A i \in Int : \A q, r \in ResPids : Runs(q, i)' /\ Runs(r, i)' => q = r
    BY <1>3, <1>t DEF OnePlace
  <2>2. ASSUME NEW i \in Int, NEW k \in 1..Len(resOut'), NEW l \in 1..Len(resOut'),
               Written(k, i)', Written(l, i)'
        PROVE  k = l
    <3>1. (k \in 1..Len(resOut) /\ Written(k, i)) \/ (k = Len(resOut) + 1 /\ Runs(p, i))
      BY <1>4, <2>2
    <3>2. (l \in 1..Len(resOut) /\ Written(l, i)) \/ (l = Len(resOut) + 1 /\ Runs(p, i))
      BY <1>4, <2>2
    <3> QED
      BY <1>t, <3>1, <3>2 DEF OnePlace
  <2>3. ASSUME NEW i \in Int, NEW q \in ResPids, NEW k \in 1..Len(resOut'), Runs(q, i)', Written(k, i)'
        PROVE  FALSE
    <3>1. q # p /\ Runs(q, i)
      BY <1>3, <2>3
    <3>2. (k \in 1..Len(resOut) /\ Written(k, i)) \/ (k = Len(resOut) + 1 /\ Runs(p, i))
      BY <1>4, <2>3
    <3> QED
      BY <1>t, <3>1, <3>2 DEF OnePlace
  <2>4. \A i \in Int : \A q \in ResPids : ~(Runs(q, i)' /\ Setting(i)')
    BY <1>3, <1>5, <1>t DEF OnePlace
  <2>5. \A i \in Int : \A k \in 1..Len(resOut') : ~(Written(k, i)' /\ Setting(i)')
    BY <1>4, <1>5, <1>t DEF OnePlace
  <2> QED
    BY <1>9, <2>1, <2>2, <2>3, <2>4, <2>5 DEF OnePlace
<1> QED
  BY <1>2, <1>8, <1>10

\* A worker leaves or dies: its task, if it had one, is nowhere any more.
LEMMA DiePlace ==
  ASSUME ResInv, NEW p \in ResPids, LeaveOrDie(p)
  PROVE  OnePlace' /\ ResType' /\ \A i \in Int : Passed(i) => Passed(i)'
<1>t. ResType /\ OnePlace
  BY DEF ResInv
<1>0. /\ resWpc' = [resWpc EXCEPT ![p] = "exited"] /\ resExits' = resExits + 1
      /\ UNCHANGED <<resCall, resTh, resPut, resTaken, resWork, resOut, resRh, resGot, resItems, resIndex,
                     resLength, resStop, resFilled, resLeft, resReady, resFailed, resUnsorted,
                     resLost, resCached>>
  BY DEF LeaveOrDie, object, consumer, thisCall
<1>2. ResType'
  <2>1. resWpc' \in [ResPids -> {"idle", "run", "sent", "exited", "gone"}]
    BY <1>0, <1>t DEF ResType
  <2>2. TaskCount' = TaskCount
    BY <1>0 DEF TaskCount, Chunks
  <2>3. resExits' \in Nat
    BY <1>0, <1>t DEF ResType
  <2> QED
    BY <1>0, <1>t, <2>1, <2>2, <2>3 DEF ResType
<1>3. \A q \in ResPids : \A i : Runs(q, i)' => Runs(q, i)
  BY <1>0, <1>t DEF Runs, ResType
<1>4. \A k : \A i : Written(k, i)' <=> Written(k, i)
  BY <1>0 DEF Written
<1>5. \A i : Setting(i)' <=> Setting(i)
  BY <1>0 DEF Setting
<1>6. \A i : UnderWay(i)' => UnderWay(i)
  BY <1>0, <1>3, <1>4, <1>5 DEF UnderWay
<1>7. \A i \in Int : Passed(i) => Passed(i)'
  BY <1>0, <1>6 DEF Passed
<1>8. OnePlace'
  BY <1>0, <1>3, <1>4, <1>5, <1>6, <1>t DEF OnePlace
<1> QED
  BY <1>2, <1>7, <1>8

\* The head of the outqueue is read; a result that is kept is about to be set.
LEMMA ReadPlace ==
  ASSUME ResInv, resRh = <<>>, resOut # <<>>, resOut' = Tail(resOut),
         resRh' = <<>> \/ (resRh' = <<Head(resOut)>> /\ Head(resOut).type = "READY"),
         UNCHANGED <<resTaken, resWork, resWpc>>
  PROVE  /\ OnePlace' /\ resOut' \in Seq(ResMsgs) /\ resRh' \in Seq(ResMsgs)
         /\ \A i : UnderWay(i)' => UnderWay(i)
<1>t. ResType /\ OnePlace /\ resOut \in Seq(ResMsgs)
  BY DEF ResInv, ResType
<1>1. /\ Len(resOut) \in Nat /\ Len(resOut') = Len(resOut) - 1 /\ resOut' \in Seq(ResMsgs)
      /\ Head(resOut) = resOut[1] /\ resOut[1] \in ResMsgs /\ Len(resOut) > 0
      /\ \A k \in 1..(Len(resOut) - 1) : resOut'[k] = resOut[k + 1]
  BY <1>t
<1>2. resRh' \in Seq(ResMsgs)
  <2>1. PICK m \in ResMsgs : m = Head(resOut)
    BY <1>1
  <2>2. <<m>> \in Seq(ResMsgs) /\ <<>> \in Seq(ResMsgs)
    OBVIOUS
  <2> QED
    BY <2>1, <2>2
<1>3. \A p \in ResPids : \A i : Runs(p, i)' <=> Runs(p, i)
  BY DEF Runs
<1>4. \A k \in 1..Len(resOut') : k + 1 \in 1..Len(resOut) /\ k + 1 # 1
                                 /\ \A i : Written(k, i)' <=> Written(k + 1, i)
  BY <1>1 DEF Written
<1>5. \A i : Setting(i)' => Written(1, i)
  <2>1. ASSUME NEW i, Setting(i)' PROVE Written(1, i)
    <3>1. resRh' # <<>> /\ resRh'[1].i = i
      BY <2>1 DEF Setting
    <3>2. resRh'[1] = resOut[1] /\ resOut[1].type = "READY"
      BY <1>1, <3>1
    <3> QED
      BY <3>1, <3>2 DEF Written
  <2> QED
    BY <2>1
<1>6. 1 \in 1..Len(resOut)
  BY <1>1
<1>7. \A i : UnderWay(i)' => UnderWay(i)
  BY <1>3, <1>4, <1>5, <1>6, Zenon DEF UnderWay
<1>8. OnePlace'
  <2>0. \A i \in Int : UnderWay(i)' => i \in 0..(resTaken' - 1)
    BY <1>7, <1>t DEF OnePlace
  <2>1. \A i \in Int : \A q, r \in ResPids : Runs(q, i)' /\ Runs(r, i)' => q = r
    BY <1>3, <1>t DEF OnePlace
  <2>2. ASSUME NEW i \in Int, NEW k \in 1..Len(resOut'), NEW l \in 1..Len(resOut'),
               Written(k, i)', Written(l, i)'
        PROVE  k = l
    <3>1. k + 1 = l + 1
      BY <1>4, <1>t, <2>2 DEF OnePlace
    <3> QED
      BY <3>1
  <2>3. \A i \in Int : \A q \in ResPids, k \in 1..Len(resOut') : ~(Runs(q, i)' /\ Written(k, i)')
    BY <1>3, <1>4, <1>t DEF OnePlace
  <2>4. \A i \in Int : \A q \in ResPids : ~(Runs(q, i)' /\ Setting(i)')
    BY <1>3, <1>5, <1>6, <1>t DEF OnePlace
  <2>5. ASSUME NEW i \in Int, NEW k \in 1..Len(resOut'), Written(k, i)', Setting(i)'
        PROVE  FALSE
    <3>1. k + 1 \in 1..Len(resOut) /\ k + 1 # 1 /\ Written(k + 1, i)
      BY <1>4, <2>5
    <3>2. Written(1, i)
      BY <1>5, <2>5
    <3> QED
      BY <1>6, <1>t, <3>1, <3>2 DEF OnePlace
  <2> QED
    BY <2>0, <2>1, <2>2, <2>3, <2>4, <2>5 DEF OnePlace
<1> QED
  BY <1>1, <1>2, <1>7, <1>8

\* The call of _set is made: the task is nowhere under way any more.
LEMMA SetPlace ==
  ASSUME ResInv, resRh # <<>>, resRh' = <<>>, UNCHANGED <<resTaken, resWork, resWpc, resOut>>,
         NEW j, j = resRh[1].i
  PROVE  /\ OnePlace' /\ resRh[1] \in ResMsgs /\ ~UnderWay(j)'
         /\ j \in 0..(resTaken - 1) /\ UnderWay(j)
         /\ \A i : UnderWay(i)' => UnderWay(i)
<1>t. ResType /\ OnePlace /\ resRh \in Seq(ResMsgs)
  BY DEF ResInv, ResType
<1>1. resRh[1] \in ResMsgs
  BY <1>t
<1>3. j \in Int /\ Setting(j)
  BY <1>1 DEF ResMsgs, Setting
<1>4. \A p \in ResPids : \A i : Runs(p, i)' <=> Runs(p, i)
  BY DEF Runs
<1>5. \A k : \A i : Written(k, i)' <=> Written(k, i)
  BY DEF Written
<1>6. \A i : ~Setting(i)'
  BY DEF Setting
<1>7. \A i : UnderWay(i)' => UnderWay(i)
  BY <1>4, <1>5, <1>6 DEF UnderWay
<1>8. UnderWay(j) /\ ~UnderWay(j)'
  BY <1>3, <1>4, <1>5, <1>6, <1>t DEF UnderWay, OnePlace
<1>9. j \in 0..(resTaken - 1)
  BY <1>3, <1>8, <1>t DEF OnePlace
<1>10. OnePlace'
  <2>1. \A i \in Int : UnderWay(i)' => i \in 0..(resTaken' - 1)
    BY <1>7, <1>t DEF OnePlace
  <2>2. \A i \in Int : \A p, q \in ResPids : Runs(p, i)' /\ Runs(q, i)' => p = q
    BY <1>4, <1>t DEF OnePlace
  <2>3. \A i \in Int : \A k, l \in 1..Len(resOut) : Written(k, i)' /\ Written(l, i)' => k = l
    BY <1>5, <1>t DEF OnePlace
  <2>4. \A i \in Int : \A p \in ResPids, k \in 1..Len(resOut) : ~(Runs(p, i)' /\ Written(k, i)')
    BY <1>4, <1>5, <1>t DEF OnePlace
  <2> QED
    BY <1>6, <2>1, <2>2, <2>3, <2>4 DEF OnePlace
<1> QED
  BY <1>1, <1>7, <1>8, <1>9, <1>10

\* The objects that become available follow each other.
LEMMA RunIs ==
  ASSUME NEW i \in Nat, NEW obj \in ResObjects, obj.i = i, resUnsorted \subseteq ResObjects,
         IsFiniteSet({u.i : u \in resUnsorted})
  PROVE  /\ Run(i, obj) \in Seq(ResObjects) /\ Len(Run(i, obj)) \in Nat \ {0}
         /\ \A n \in 1..Len(Run(i, obj)) : Run(i, obj)[n].i = i + n - 1
<1> DEFINE keys == {u.i : u \in resUnsorted}
           Free(k) == k \notin keys /\ \A m \in (i + 1)..(k - 1) : m \in keys
<1>c. PICK c \in Nat : c = Cardinality(keys)
  BY FS_CardinalityType
<1> DEFINE end == CHOOSE k \in (i + 1)..(i + 1 + c) : Free(k)
<1>1. \E k \in (i + 1)..(i + 1 + c) : k \notin keys
  <2>1. SUFFICES ASSUME (i + 1)..(i + 1 + c) \subseteq keys PROVE FALSE
    OBVIOUS
  <2>2. i + 1 \in Int /\ i + 1 + c \in Int
    OBVIOUS
  <2>3. Cardinality((i + 1)..(i + 1 + c)) = c + 1
    BY <2>2, FS_Interval
  <2>4. Cardinality((i + 1)..(i + 1 + c)) <= c
    BY <1>c, <2>1, FS_Subset
  <2> QED
    BY <2>3, <2>4
<1>2. \E k \in (i + 1)..(i + 1 + c) : Free(k)
  <2>1. PICK a \in (i + 1)..(i + 1 + c) : a \notin keys
    BY <1>1
  <2> DEFINE S == {k \in Nat : k >= i + 1 /\ k \notin keys}
  <2>2. a \in S
    BY <2>1
  <2>3. PICK m \in S : \A k \in S : m <= k
    BY <2>2, LeastOf
  <2> HIDE DEF keys
  <2>4. m \in (i + 1)..(i + 1 + c) /\ m \notin keys
    BY <2>1, <2>2, <2>3
  <2>5. ASSUME NEW x \in (i + 1)..(m - 1) PROVE x \in keys
    BY <2>3, <2>4
  <2> QED
    BY <2>4, <2>5
<1>3. end \in (i + 1)..(i + 1 + c) /\ Free(end)
  BY <1>2
<1> DEFINE At(n) == IF n = 1 THEN obj ELSE CHOOSE u \in resUnsorted : u.i = i + n - 1
<1>4. Run(i, obj) = [n \in 1..(end - i) |-> At(n)]
  BY <1>c DEF Run
<1> HIDE DEF end
<1>5. end - i \in Nat \ {0}
  BY <1>3
<1>6. ASSUME NEW n \in 1..(end - i) PROVE At(n) \in ResObjects /\ At(n).i = i + n - 1
  <2>1. CASE n = 1
    BY <2>1
  <2>2. CASE n # 1
    <3>1. i + n - 1 \in (i + 1)..(end - 1)
      BY <1>3, <2>2
    <3>2. i + n - 1 \in keys
      BY <1>3, <3>1
    <3>3. \E u \in resUnsorted : u.i = i + n - 1
      BY <3>2
    <3> QED
      BY <2>2, <3>3
  <2> QED
    BY <2>1, <2>2
<1> HIDE DEF At, Free, keys
<1>7. PICK N \in Nat : N = end - i
  BY <1>5
<1>8. Run(i, obj) \in Seq(ResObjects) /\ Len(Run(i, obj)) = N
  BY <1>4, <1>6, <1>7
<1> QED
  BY <1>4, <1>5, <1>6, <1>7, <1>8

\* One more chunk is counted.
LEMMA MapSetKeeps ==
  ASSUME ResInv, IsMap, ~resFailed, NEW j, UnderWay(j), j \in 0..(resTaken - 1), MapSet(j, TRUE),
         UNCHANGED resCall, \A i \in Int : Passed(i) => Passed(i)', Passed(j)'
  PROVE  MapInv'
<1>t. ResType
  BY DEF ResInv
<1>0. TaskCount \in Nat /\ resCall.len \in Nat /\ resLeft \in Int /\ j \in 0..(TaskCount - 1)
  <2>1. TaskCount \in Nat /\ resCall.len \in Nat
    BY <1>t, TasksType DEF ResType
  <2> QED
    BY <1>t, <2>1 DEF ResType
<1>1. PICK D : ChunksCounted(D)
  BY DEF ResInv, MapInv
<1>2. /\ resFilled' = resFilled \cup ChunkItems(j) /\ resLeft' = resLeft - 1
      /\ resReady' = (resReady \/ resLeft = 1) /\ resFailed' = resFailed
  BY DEF MapSet
<1>3. j \notin D
  BY <1>1 DEF ChunksCounted, Passed
<1>4. D \subseteq 0..(TaskCount - 1) /\ Cardinality(D) + resLeft = TaskCount
  BY <1>1 DEF ChunksCounted
<1>5. /\ IsFiniteSet(D) /\ IsFiniteSet(D \cup {j}) /\ Cardinality(D \cup {j}) = Cardinality(D) + 1
      /\ Cardinality(D \cup {j}) <= TaskCount /\ Cardinality(D) \in Nat
  <2>1. IsFiniteSet(0..(TaskCount - 1)) /\ Cardinality(0..(TaskCount - 1)) = TaskCount
    <3>1. 0 \in Int /\ TaskCount - 1 \in Int /\ (0 > TaskCount - 1 => TaskCount = 0) /\ TaskCount - 1 - 0 + 1 = TaskCount
      BY <1>0
    <3> QED
      BY <3>1, FS_Interval
  <2>2. IsFiniteSet(D)
    BY <1>4, <2>1, FS_Subset
  <2>3. Cardinality(D \cup {j}) = Cardinality(D) + 1
    BY <1>3, <2>2, FS_AddElement
  <2>4. D \cup {j} \subseteq 0..(TaskCount - 1)
    BY <1>0, <1>4
  <2>5. IsFiniteSet(D \cup {j}) /\ Cardinality(D \cup {j}) <= TaskCount
    BY <2>1, <2>4, FS_Subset
  <2> QED
    BY <2>2, <2>3, <2>5, FS_CardinalityType
<1>6. resLeft >= 1
  BY <1>0, <1>4, <1>5
<1>7. resReady' => resLeft' = 0
  <2>1. resReady => resLeft = 0
    BY DEF ResInv, MapInv
  <2>2. ~resReady
    BY <1>6, <2>1
  <2>3. resLeft = 1 => resLeft - 1 = 0
    OBVIOUS
  <2> QED
    BY <1>2, <2>2, <2>3
<1>8. ChunksCounted(D \cup {j})'
  <2>1. TaskCount' = TaskCount
    BY DEF TaskCount, Chunks
  <2>2. Cardinality(D \cup {j}) + resLeft' = TaskCount
    BY <1>0, <1>2, <1>4, <1>5
  <2>3. resFilled' = {n \in 0..(resCall.len - 1) : n \div resCall.chunk \in D \cup {j}}
    BY <1>1, <1>2 DEF ChunksCounted, ChunkItems
  <2>4. \A i \in D \cup {j} : Passed(i)'
    BY <1>1, <1>4 DEF ChunksCounted
  <2> QED
    BY <1>0, <1>4, <2>1, <2>2, <2>3, <2>4 DEF ChunksCounted
<1> QED
  BY <1>7, <1>8 DEF MapInv

\* One more object arrives: those that are complete now go to the items.
LEMMA ImapSetKeeps ==
  ASSUME ResInv, ~IsMap, NEW i \in Int, NEW ok \in BOOLEAN, ImapSet(i, ok),
         UNCHANGED <<resCall, resGot, resStop, resExits>>, \A k \in Int : Passed(k) => Passed(k)',
         resCall.kind = "unordered" /\ resExits = 0 => UnderWay(i) /\ Passed(i)'
  PROVE  /\ Ordered' /\ Apart' /\ Ended' /\ MapInv' /\ IsFiniteSet({u.i : u \in resUnsorted})'
         /\ resItems' \in Seq(ResObjects) /\ resIndex' \in Nat /\ resUnsorted' \subseteq ResObjects
         /\ UNCHANGED <<resFailed, resFilled, resLeft, resLength>>
         /\ resReady' \in BOOLEAN /\ resCached' \in BOOLEAN
<1>t. ResType
  BY DEF ResInv
<1>o. PICK obj \in ResObjects : obj = [i |-> i, ok |-> ok]
  BY DEF ResObjects
<1>m. PICK more : more = IF resCall.kind = "unordered" THEN <<obj>>
                         ELSE IF i = resIndex THEN Run(i, obj) ELSE <<>>
  OBVIOUS
<1>0. /\ resItems' = resItems \o more /\ resIndex' = resIndex + Len(more)
      /\ resUnsorted' = (IF more = <<>> THEN {u \in resUnsorted : u.i # i} \cup {obj}
                         ELSE resUnsorted \ Range(more))
      /\ resReady' = (resReady \/ resIndex' = resLength)
      /\ resCached' = (resCached /\ resIndex' # resLength)
      /\ UNCHANGED <<resFailed, resFilled, resLeft, resLength>>
  BY <1>m, <1>o DEF ImapSet
<1>1. /\ resItems \in Seq(ResObjects) /\ resGot \in Seq(ResObjects) /\ resIndex \in Nat
      /\ resUnsorted \subseteq ResObjects /\ obj.i = i
  BY <1>o, <1>t DEF ResType
<1>2. more \in Seq(ResObjects)
      /\ (resCall.kind # "unordered" => \A n \in 1..Len(more) : more[n].i = resIndex + n - 1)
  <2>1. CASE resCall.kind = "unordered"
    BY <1>m, <2>1
  <2>2. CASE resCall.kind # "unordered" /\ i = resIndex
    <3>1. more = Run(i, obj) /\ i \in Nat
      BY <1>1, <1>m, <2>2
    <3>2. IsFiniteSet({u.i : u \in resUnsorted})
      BY DEF ResInv
    <3>3. more \in Seq(ResObjects) /\ \A n \in 1..Len(more) : more[n].i = i + n - 1
      BY <1>1, <3>1, <3>2, RunIs
    <3> QED
      BY <2>2, <3>3
  <2>3. CASE resCall.kind # "unordered" /\ i # resIndex
    <3>1. more = <<>>
      BY <1>m, <2>3
    <3> QED
      BY <3>1
  <2> QED
    BY <2>1, <2>2, <2>3
<1>3. /\ resItems' \in Seq(ResObjects) /\ Len(resItems') = Len(resItems) + Len(more)
      /\ Len(more) \in Nat /\ Len(resItems) \in Nat /\ Len(resGot) \in Nat
      /\ \A n \in 1..(Len(resItems) + Len(more)) :
           resItems'[n] = IF n <= Len(resItems) THEN resItems[n] ELSE more[n - Len(resItems)]
  BY <1>0, <1>1, <1>2, ConcatProperties
<1>n. /\ resIndex' = resIndex + Len(more) /\ Len(resItems') = Len(resItems) + Len(more)
      /\ Len(more) \in Nat /\ Len(resItems) \in Nat /\ Len(resGot) \in Nat /\ resIndex \in Nat
  BY <1>0, <1>1, <1>3
<1>4. resIndex' \in Nat
  BY <1>n
<1>5. resUnsorted' \subseteq ResObjects
  BY <1>0, <1>1
<1>6. IsFiniteSet({u.i : u \in resUnsorted})'
  <2>1. {u.i : u \in resUnsorted}' \subseteq {u.i : u \in resUnsorted} \cup {i}
    BY <1>0, <1>1
  <2>2. IsFiniteSet({u.i : u \in resUnsorted} \cup {i})
    BY FS_AddElement DEF ResInv
  <2> QED
    BY <2>1, <2>2, FS_Subset
<1>7. Ordered'
  <2>1. SUFFICES ASSUME resCall.kind = "imap" PROVE Ordered'
    BY DEF Ordered
  <2>2. /\ Len(resGot) + Len(resItems) = resIndex
        /\ \A n \in 1..Len(resGot) : resGot[n].i = n - 1
        /\ \A n \in 1..Len(resItems) : resItems[n].i = Len(resGot) + n - 1
    BY <2>1 DEF ResInv, Ordered
  <2>3. Len(resGot) + Len(resItems') = resIndex'
    <3>1. Len(resGot) + Len(resItems) = resIndex
      BY <2>2
    <3> QED
      BY <1>n, <3>1
  <2>4. ASSUME NEW n \in 1..Len(resItems') PROVE resItems'[n].i = Len(resGot) + n - 1
    <3>1. CASE n <= Len(resItems)
      <4>1. n \in 1..Len(resItems) /\ n \in 1..(Len(resItems) + Len(more))
        BY <1>n, <3>1
      <4>2. resItems'[n] = resItems[n]
        BY <1>3, <3>1, <4>1
      <4> QED
        BY <2>2, <4>1, <4>2
    <3>2. CASE ~(n <= Len(resItems))
      <4>1. PICK l \in 1..Len(more) : l = n - Len(resItems)
        BY <1>3, <3>2
      <4>2. resItems'[n] = more[l] /\ more[l].i = resIndex + l - 1
        BY <1>2, <1>3, <2>1, <3>2, <4>1
      <4>3. resIndex + l - 1 = Len(resGot) + n - 1
        BY <1>3, <2>2, <4>1
      <4> QED
        BY <4>2, <4>3
    <3> QED
      BY <3>1, <3>2
  <2> QED
    BY <2>2, <2>3, <2>4 DEF Ordered
<1>8. Apart'
  <2>1. SUFFICES ASSUME resCall.kind = "unordered", resExits = 0 PROVE Apart'
    BY DEF Apart
  <2>2. /\ Len(resGot) + Len(resItems) = resIndex
        /\ \A m, n \in 1..Len(resGot) : resGot[m].i = resGot[n].i => m = n
        /\ \A m, n \in 1..Len(resItems) : resItems[m].i = resItems[n].i => m = n
        /\ \A m \in 1..Len(resGot), n \in 1..Len(resItems) : resGot[m].i # resItems[n].i
        /\ \A n \in 1..Len(resGot) : Passed(resGot[n].i)
        /\ \A n \in 1..Len(resItems) : Passed(resItems[n].i)
    BY <2>1 DEF ResInv, Apart
  <2>3. more = <<obj>> /\ Len(more) = 1 /\ more[1].i = i
    BY <1>1, <1>m, <2>1
  <2>4. UnderWay(i) /\ Passed(i)'
    BY <2>1
  <2>5. /\ \A n \in 1..Len(resGot) : resGot[n].i \in Int /\ resGot[n].i # i
        /\ \A n \in 1..Len(resItems) : resItems[n].i \in Int /\ resItems[n].i # i
    <3>1. /\ \A n \in 1..Len(resGot) : resGot[n] \in ResObjects
          /\ \A n \in 1..Len(resItems) : resItems[n] \in ResObjects
      BY <1>1
    <3> QED
      BY <2>2, <2>4, <3>1 DEF Passed, ResObjects
  <2>6. \A n \in 1..Len(resItems') :
          \/ n \in 1..Len(resItems) /\ resItems'[n] = resItems[n]
          \/ n = Len(resItems) + 1 /\ resItems'[n].i = i
    BY <1>3, <2>3
  <2>7. Len(resGot) + Len(resItems') = resIndex'
    <3>1. Len(resGot) + Len(resItems) = resIndex
      BY <2>2
    <3> QED
      BY <1>n, <2>3, <3>1
  <2>8. \A m, n \in 1..Len(resItems') : resItems'[m].i = resItems'[n].i => m = n
    BY <2>2, <2>5, <2>6
  <2>9. \A m \in 1..Len(resGot), n \in 1..Len(resItems') : resGot[m].i # resItems'[n].i
    BY <2>2, <2>5, <2>6
  <2>10. \A n \in 1..Len(resGot) : Passed(resGot[n].i)'
    BY <2>2, <2>5
  <2>11. ASSUME NEW n \in 1..Len(resItems') PROVE Passed(resItems[n].i)'
    <3>1. CASE n \in 1..Len(resItems) /\ resItems'[n] = resItems[n]
      <4>1. PICK k \in Int : k = resItems[n].i
        BY <2>5, <3>1
      <4>2. Passed(k)'
        BY <2>2, <3>1, <4>1
      <4> QED
        BY <3>1, <4>1, <4>2
    <3>2. CASE resItems'[n].i = i
      BY <2>4, <3>2
    <3> QED
      BY <2>6, <3>1, <3>2
  <2> QED
    BY <2>10, <2>11, <2>2, <2>7, <2>8, <2>9 DEF Apart
<1>9. Ended'
  BY <1>0 DEF ResInv, Ended
<1>10. MapInv'
  BY DEF MapInv, IsMap
<1>11. resReady' \in BOOLEAN /\ resCached' \in BOOLEAN
  BY <1>0
<1> QED
  BY <1>0, <1>3, <1>4, <1>5, <1>6, <1>7, <1>8, <1>9, <1>10, <1>11

\* The call is made.
LEMMA SubmitKeeps ==
  ASSUME ResInv, NEW kind \in {"map", "imap", "unordered"}, NEW num \in Nat, NEW len \in Nat,
         NEW size \in {1, 2}, NEW raises \in Nat, kind # "map" => size = 1,
         Submit(kind, num, len, size, raises)
  PROVE  ResInv'
<1>t. ResType /\ OnePlace /\ BeforeCall
  BY DEF ResInv
<1>0. /\ resTh = "idle" /\ resTh' = "put" /\ resReady' = (kind = "map" /\ len = 0)
      /\ resCached' = (kind # "map" \/ len > 0) /\ resLeft' = Chunks(len, size)
      /\ UNCHANGED <<resPut, resTaken, resWork, resWpc, resExits, resOut, resRh, resExit, resFailed,
                     resFilled, resPids, resIndex, resLength, resItems, resUnsorted, resLost,
                     resGot, resStop>>
  BY DEF Submit, workers, consumer
<1>1. /\ resCall' \in ResCalls /\ resCall'.kind = kind /\ resCall'.len = len /\ resCall'.chunk = size
  BY DEF Submit, ResCalls
<1>2. /\ resPut = 0 /\ resFilled = {} /\ ~resFailed /\ resGot = <<>> /\ resItems = <<>>
      /\ resIndex = 0 /\ resUnsorted = {} /\ resLength = NoIndex /\ ~resStop
  BY <1>0, <1>t DEF BeforeCall
<1>3. TaskCount' \in Nat /\ TaskCount' = Chunks(len, size) /\ (len = 0 => TaskCount' = 0)
  <2>1. TaskCount' = Chunks(len, size)
    BY <1>1 DEF TaskCount
  <2>2. CASE size = 1
    BY <2>1, <2>2 DEF Chunks
  <2>3. CASE size = 2
    BY <2>1, <2>3 DEF Chunks
  <2> QED
    BY <2>1, <2>2, <2>3
<1>4. ResType'
  <2>1. resReady' \in BOOLEAN /\ resCached' \in BOOLEAN
    BY <1>0
  <2>2. resPut' <= TaskCount' /\ resLeft' \in Int
    BY <1>0, <1>2, <1>3
  <2> QED
    BY <1>0, <1>1, <1>t, <2>1, <2>2 DEF ResType
<1>5. OnePlace'
  BY <1>0, <1>t, PlacesStay
<1>6. BeforeCall'
  BY <1>0, <1>1 DEF BeforeCall
<1>7. NoneLeft'
  BY <1>0 DEF ResInv, NoneLeft
<1>8. Ordered' /\ Apart'
  BY <1>0, <1>2 DEF Ordered, Apart
<1>9. Ended'
  BY <1>0, <1>1, <1>2 DEF Ended
<1>10. MapInv'
  <2>1. ChunksCounted({})'
    BY <1>0, <1>2, <1>3, FS_EmptySet DEF ChunksCounted
  <2>2. IsMap' /\ resReady' => resLeft' = 0
    BY <1>0, <1>3
  <2> QED
    BY <2>1, <2>2 DEF MapInv
<1>11. IsFiniteSet({u.i : u \in resUnsorted})'
  BY <1>0 DEF ResInv
<1> QED
  BY <1>4, <1>5, <1>6, <1>7, <1>8, <1>9, <1>10, <1>11 DEF ResInv

\* TaskHandler writes one more task.
LEMMA PutTaskKeeps == ResInv /\ PutTask => ResInv'
<1> SUFFICES ASSUME ResInv, PutTask PROVE ResInv'
  OBVIOUS
<1>t. ResType /\ OnePlace /\ BeforeCall
  BY DEF ResInv
<1>0. /\ resTh = "put" /\ resPut < TaskCount /\ resPut' = resPut + 1
      /\ UNCHANGED <<resCall, resTh, resTaken, resWork, resWpc, resExits, resOut, resRh, resCached,
                     resReady, resFailed, resFilled, resLeft, resIndex, resLength, resItems,
                     resUnsorted, resLost, resGot, resStop>>
  BY DEF PutTask, workers, consumer, object, TaskCount
<1>1. TaskCount \in Nat /\ TaskCount' = TaskCount
  BY <1>0, <1>t, TasksType DEF ResType, TaskCount, Chunks
<1>2. ResType'
  <2>1. resPut' \in Nat /\ resTaken <= resPut' /\ resPut' <= TaskCount
    BY <1>0, <1>1, <1>t DEF ResType
  <2> QED
    BY <1>0, <1>1, <1>t, <2>1 DEF ResType
<1>3. OnePlace' /\ \A i : UnderWay(i)' <=> UnderWay(i)
  BY <1>0, <1>t, PlacesStay
<1>4. \A i \in Int : Passed(i) => Passed(i)'
  BY <1>0, <1>3 DEF Passed
<1>5. Ordered' /\ Apart' /\ Ended' /\ MapInv' /\ IsFiniteSet({u.i : u \in resUnsorted})'
  BY <1>0, <1>4, ObjectStays
<1>6. BeforeCall' /\ NoneLeft'
  BY <1>0 DEF ResInv, BeforeCall, NoneLeft
<1> QED
  BY <1>2, <1>3, <1>5, <1>6 DEF ResInv

\* TaskHandler is done: the length is set, for an iterable that is exhausted or that
\* raises, and in one case an error is handed to a task that was never written.
LEMMA PutDoneKeeps == ResInv /\ (PutEnd \/ PutRaises) => ResInv'
<1> SUFFICES ASSUME ResInv, PutEnd \/ PutRaises PROVE ResInv'
  OBVIOUS
<1>t. ResType /\ OnePlace /\ BeforeCall
  BY DEF ResInv
<1>0. /\ resTh = "put" /\ resTh' = "done" /\ resCall.kind # "none"
      /\ UNCHANGED <<resCall, resPut, resTaken, resWork, resWpc, resExits, resOut, resRh, resFailed,
                     resFilled, resLeft, resLost, resGot, resStop>>
  BY <1>t DEF PutEnd, PutRaises, workers, consumer, object, BeforeCall
<1>1. /\ IsMap => UNCHANGED <<resCached, resReady, resIndex, resLength, resItems, resUnsorted>>
      /\ \/ UNCHANGED resLength
         \/ resLength' = resPut /\ (resPut = TaskCount \/ (resPut < resCall.len /\ resPut = resCall.raises))
      /\ \/ UNCHANGED <<resIndex, resItems, resUnsorted>>
         \/ /\ resPut = 0 /\ resCall.kind = "unordered" /\ resItems' = <<[i |-> 1, ok |-> FALSE]>>
            /\ resIndex' = 1 /\ resUnsorted' = resUnsorted /\ resCall.raises < resCall.len
         \/ /\ resCall.kind # "unordered" /\ UNCHANGED <<resIndex, resItems>>
            /\ resUnsorted' = {[i |-> 1, ok |-> FALSE]}
  <2>1. CASE PutEnd
    <3>1. CASE IsMap
      BY <2>1, <3>1 DEF PutEnd, object
    <3>2. CASE ~IsMap
      <4>1. resLength' = resPut /\ UNCHANGED <<resIndex, resItems, resUnsorted>>
        BY <2>1, <3>2 DEF PutEnd
      <4>2. resPut = TaskCount
        BY <2>1 DEF PutEnd, TaskCount
      <4> QED
        BY <3>2, <4>1, <4>2
    <3> QED
      BY <3>1, <3>2
  <2>2. CASE PutRaises
    <3>1. ~IsMap /\ resPut = resCall.raises /\ resPut < resCall.len
      BY <2>2 DEF PutRaises
    <3>2. CASE UNCHANGED object
      BY <3>1, <3>2 DEF object
    <3>3. CASE resLength' = resPut /\ UNCHANGED <<resIndex, resItems, resUnsorted>>
      BY <3>1, <3>3
    <3>4. CASE /\ resPut = 0 /\ resCall.kind = "unordered" /\ resItems' = <<[i |-> 1, ok |-> FALSE]>>
               /\ resIndex' = 1 /\ resUnsorted' = resUnsorted /\ resLength' = 0
      BY <3>1, <3>4
    <3>5. CASE /\ resPut = 0 /\ resCall.kind # "unordered" /\ UNCHANGED <<resIndex, resItems>>
               /\ resUnsorted' = {[i |-> 1, ok |-> FALSE]} /\ resLength' = 0
      BY <3>1, <3>5
    <3> QED
      BY <2>2, <3>2, <3>3, <3>4, <3>5 DEF PutRaises
  <2> QED
    BY <2>1, <2>2
<1>b. resReady' \in BOOLEAN /\ resCached' \in BOOLEAN
  BY <1>t DEF PutEnd, PutRaises, object, ResType
<1>2. TaskCount \in Nat /\ TaskCount' = TaskCount /\ resCall.raises \in Nat /\ resCall.len \in Nat
  BY <1>0, <1>t, TasksType DEF ResType, TaskCount, Chunks, ResCalls
<1>3. OnePlace' /\ \A i : UnderWay(i)' <=> UnderWay(i)
  BY <1>0, <1>t, PlacesStay
<1>4. \A i \in Int : Passed(i) => Passed(i)'
  BY <1>0, <1>3 DEF Passed
<1>e. [i |-> 1, ok |-> FALSE] \in ResObjects
  BY DEF ResObjects
<1>5. ResType'
  <2>1. resItems' \in Seq(ResObjects) /\ resUnsorted' \subseteq ResObjects /\ resIndex' \in Nat
    <3>1. PICK e \in ResObjects : e = [i |-> 1, ok |-> FALSE]
      BY <1>e
    <3>2. <<e>> \in Seq(ResObjects) /\ {e} \subseteq ResObjects /\ 1 \in Nat
      OBVIOUS
    <3> QED
      BY <1>1, <1>t, <3>1, <3>2 DEF ResType
  <2>2. resLength' \in Int
    BY <1>1, <1>t DEF ResType
  <2> QED
    BY <1>0, <1>2, <1>b, <1>t, <2>1, <2>2 DEF ResType
<1>6. BeforeCall' /\ NoneLeft'
  BY <1>0 DEF ResInv, BeforeCall, NoneLeft
<1>7. Ordered'
  BY <1>0, <1>1 DEF ResInv, Ordered
<1>8. Ended'
  <2>1. SUFFICES ASSUME resCall.kind \in {"imap", "unordered"}, resCall.raises = resCall.len
                 PROVE  resLength' \in {NoIndex, resCall.len}
    BY <1>0 DEF ResInv, Ended
  <2>2. resCall.chunk = 1 /\ resLength \in {NoIndex, resCall.len}
    BY <2>1 DEF ResInv, Ended
  <2>3. TaskCount = resCall.len
    BY <1>2, <2>2 DEF TaskCount, Chunks
  <2>4. ~(resPut < resCall.len /\ resPut = resCall.raises)
    BY <1>2, <2>1
  <2> QED
    BY <1>1, <2>2, <2>3, <2>4
<1>9. MapInv'
  <2>1. SUFFICES ASSUME IsMap PROVE MapInv'
    BY <1>0 DEF MapInv, IsMap
  <2>2. UNCHANGED <<resCached, resReady, resIndex, resLength, resItems, resUnsorted>>
    BY <1>1, <2>1
  <2> QED
    BY <1>0, <1>4, <2>2, ObjectStays
<1>10. IsFiniteSet({u.i : u \in resUnsorted})'
  <2>1. CASE resUnsorted' = resUnsorted
    BY <2>1 DEF ResInv
  <2>2. CASE resUnsorted' = {[i |-> 1, ok |-> FALSE]}
    <3>1. {u.i : u \in resUnsorted}' = {1}
      BY <2>2
    <3> QED
      BY <3>1, FS_Singleton
  <2> QED
    BY <1>1, <2>1, <2>2
<1>11. Apart'
  <2>1. SUFFICES ASSUME resCall.kind = "unordered", resExits = 0 PROVE Apart'
    BY <1>0 DEF Apart
  <2>2. /\ Len(resGot) + Len(resItems) = resIndex
        /\ \A m, n \in 1..Len(resGot) : resGot[m].i = resGot[n].i => m = n
        /\ \A m, n \in 1..Len(resItems) : resItems[m].i = resItems[n].i => m = n
        /\ \A m \in 1..Len(resGot), n \in 1..Len(resItems) : resGot[m].i # resItems[n].i
        /\ \A n \in 1..Len(resGot) : Passed(resGot[n].i)
        /\ \A n \in 1..Len(resItems) : Passed(resItems[n].i)
    BY <2>1 DEF ResInv, Apart
  <2>3. /\ \A n \in 1..Len(resGot) : resGot[n].i \in Int
        /\ \A n \in 1..Len(resItems) : resItems[n].i \in Int
    <3>1. resGot \in Seq(ResObjects) /\ resItems \in Seq(ResObjects)
      BY <1>t DEF ResType
    <3>2. /\ \A n \in 1..Len(resGot) : resGot[n] \in ResObjects
          /\ \A n \in 1..Len(resItems) : resItems[n] \in ResObjects
      BY <3>1
    <3> QED
      BY <3>2 DEF ResObjects
  <2>4. CASE UNCHANGED <<resIndex, resItems, resUnsorted>>
    BY <1>0, <1>4, <2>2, <2>3, <2>4 DEF Apart
  <2>5. CASE resPut = 0 /\ resItems' = <<[i |-> 1, ok |-> FALSE]>> /\ resIndex' = 1
    <3>1. resTaken = 0 /\ \A i \in Int : ~UnderWay(i) /\ ~Passed(i)
      <4>1. resTaken = 0
        BY <1>t, <2>5 DEF ResType
      <4>2. \A i \in Int : ~(i \in 0..(resTaken - 1))
        BY <4>1
      <4> QED
        BY <1>0, <1>t, <4>1, <4>2 DEF Passed, OnePlace
    <3>2. Len(resGot) = 0
      <4>1. Len(resGot) \in Nat
        BY <1>t DEF ResType
      <4>2. ~(1 \in 1..Len(resGot))
        BY <2>2, <2>3, <3>1
      <4> QED
        BY <4>1, <4>2
    <3>3. Len(resItems') = 1 /\ resItems'[1].i = 1
      BY <2>5
    <3>4. Passed(1)'
      BY <1>0, <1>3, <2>5, <3>1 DEF Passed
    <3> QED
      BY <1>0, <2>5, <3>2, <3>3, <3>4 DEF Apart
  <2> QED
    BY <1>1, <2>1, <2>4, <2>5
<1> QED
  BY <1>3, <1>5, <1>6, <1>7, <1>8, <1>9, <1>10, <1>11 DEF ResInv

\* The steps of workers.
LEMMA WorkerKeeps ==
  ASSUME ResInv, NEW p \in ResPids, TakeTask(p) \/ EndTask(p) \/ LeaveOrDie(p)
  PROVE  ResInv'
<1>1. OnePlace' /\ ResType' /\ \A i \in Int : Passed(i) => Passed(i)'
  BY TakePlace, EndPlace, DiePlace
<1>2. /\ UNCHANGED <<resCall, resTh, resPut, resCached, resReady, resFailed, resFilled, resLeft,
                     resIndex, resLength, resItems, resUnsorted, resLost, resGot, resStop>>
      /\ resExits' = resExits \/ resExits' = resExits + 1
      /\ resExits \in Nat /\ resWpc \in [ResPids -> {"idle", "run", "sent", "exited", "gone"}]
  BY DEF TakeTask, EndTask, LeaveOrDie, object, consumer, thisCall, ResInv, ResType
<1>3. Ordered' /\ Apart' /\ Ended' /\ MapInv' /\ IsFiniteSet({u.i : u \in resUnsorted})'
  BY <1>1, <1>2, ObjectStays
<1>4. BeforeCall'
  BY <1>2 DEF ResInv, BeforeCall
<1>5. NoneLeft'
  <2>1. CASE LeaveOrDie(p)
    BY <1>2, <2>1 DEF LeaveOrDie, NoneLeft
  <2>2. CASE TakeTask(p)
    BY <1>2, <2>2 DEF TakeTask, NoneLeft, ResInv
  <2>3. CASE EndTask(p)
    BY <1>2, <2>3 DEF EndTask, NoneLeft, ResInv
  <2> QED
    BY <2>1, <2>2, <2>3
<1> QED
  BY <1>1, <1>3, <1>4, <1>5 DEF ResInv

\* Supervisor joins a worker that has left, time passes, or nothing happens.
LEMMA SupervisorKeeps ==
  ASSUME ResInv, (\E p \in ResPids : JoinWorker(p)) \/ LossElapses \/ UNCHANGED resVars
  PROVE  ResInv'
<1>t. ResType /\ OnePlace /\ NoneLeft
  BY DEF ResInv
<1>1. /\ UNCHANGED <<resCall, resTh, resPut, resTaken, resWork, resOut, resRh, resExits, resCached,
                     resReady, resFailed, resFilled, resLeft, resIndex, resLength, resItems,
                     resUnsorted, resGot, resStop>>
      /\ \A p \in ResPids : resWpc'[p] = "run" <=> resWpc[p] = "run"
      /\ resWpc' \in [ResPids -> {"idle", "run", "sent", "exited", "gone"}]
      /\ resLost' \in {"no", "fresh", "elapsed"}
      /\ resExits = 0 => resLost' = "no" /\ resWpc' = resWpc
  <2>1. ASSUME NEW p \in ResPids, JoinWorker(p) PROVE <1>1
    <3>1. resWpc[p] = "exited" /\ resWpc' = [resWpc EXCEPT ![p] = "gone"] /\ resExits # 0
      BY <1>t, <2>1 DEF JoinWorker, NoneLeft
    <3>2. resLost' \in {"no", "fresh", "elapsed"}
      BY <1>t, <2>1 DEF JoinWorker, ResType
    <3>3. UNCHANGED <<resCall, resTh, resPut, resTaken, resWork, resOut, resRh, resExits, resCached,
                      resReady, resFailed, resFilled, resLeft, resIndex, resLength, resItems,
                      resUnsorted, resGot, resStop>>
      BY <2>1 DEF JoinWorker, object, consumer, thisCall
    <3> QED
      BY <1>t, <3>1, <3>2, <3>3 DEF ResType
  <2>2. CASE LossElapses
    BY <1>t, <2>2 DEF LossElapses, NoneLeft, ResType, object, consumer, thisCall, workers
  <2>3. CASE UNCHANGED resVars
    BY <1>t, <2>3 DEF NoneLeft, ResType, resVars, object, consumer, thisCall, workers
  <2> QED
    BY <2>1, <2>2, <2>3
<1>2. OnePlace' /\ \A i : UnderWay(i)' <=> UnderWay(i)
  BY <1>1, <1>t, PlacesStay
<1>3. \A i \in Int : Passed(i) => Passed(i)'
  BY <1>1, <1>2 DEF Passed
<1>4. Ordered' /\ Apart' /\ Ended' /\ MapInv' /\ IsFiniteSet({u.i : u \in resUnsorted})'
  BY <1>1, <1>3, ObjectStays
<1>5. ResType'
  <2>1. TaskCount' = TaskCount
    BY <1>1 DEF TaskCount, Chunks
  <2> QED
    BY <1>1, <1>t, <2>1 DEF ResType
<1>6. BeforeCall' /\ NoneLeft'
  BY <1>1 DEF ResInv, BeforeCall, NoneLeft
<1> QED
  BY <1>2, <1>4, <1>5, <1>6 DEF ResInv

\* ResultHandler reads a message.
LEMMA HandlerKeeps == ResInv /\ (OnAck \/ OnReady) => ResInv'
<1> SUFFICES ASSUME ResInv, OnAck \/ OnReady PROVE ResInv'
  OBVIOUS
<1>t. ResType /\ BeforeCall
  BY DEF ResInv
<1>1. /\ resRh = <<>> /\ resOut # <<>> /\ resOut' = Tail(resOut)
      /\ resRh' = <<>> \/ (resRh' = <<Head(resOut)>> /\ Head(resOut).type = "READY")
      /\ UNCHANGED <<resCall, resTh, resPut, resTaken, resWork, resWpc, resExits,
                     resReady, resFailed, resFilled, resLeft, resIndex, resLength, resItems,
                     resUnsorted, resLost, resGot, resStop>>
      /\ resCached' \in BOOLEAN /\ (resCached' => resCached)
  <2>1. CASE OnAck
    <3>1. UNCHANGED <<resCall, resTh, resPut, resTaken, resWork, resWpc, resExits, resRh,
                      resReady, resFailed, resFilled, resLeft, resIndex, resLength, resItems,
                      resUnsorted, resLost, resGot, resStop>>
      BY <2>1 DEF OnAck, consumer, thisCall, workers
    <3>2. resCached' = (resCached /\ ~(IsMap /\ resReady)) \/ resCached' = resCached
      BY <2>1 DEF OnAck
    <3>b. resCached \in BOOLEAN
      BY <1>t DEF ResType
    <3>3. resCached' \in BOOLEAN /\ (resCached' => resCached)
      <4>1. CASE resCached' = (resCached /\ ~(IsMap /\ resReady))
        BY <4>1
      <4>2. CASE resCached' = resCached
        BY <3>b, <4>2
      <4> QED
        BY <3>2, <4>1, <4>2
    <3> QED
      BY <2>1, <3>1, <3>3 DEF OnAck
  <2>2. CASE OnReady
    <3>1. UNCHANGED <<resCall, resTh, resPut, resTaken, resWork, resWpc, resExits, resCached,
                      resReady, resFailed, resFilled, resLeft, resIndex, resLength, resItems,
                      resUnsorted, resLost, resGot, resStop>>
      BY <2>2 DEF OnReady, consumer, thisCall, workers, object
    <3>2. resCached' \in BOOLEAN
      BY <1>t, <3>1 DEF ResType
    <3> QED
      BY <2>2, <3>1, <3>2 DEF OnReady
  <2> QED
    BY <2>1, <2>2
<1>2. /\ OnePlace' /\ resOut' \in Seq(ResMsgs) /\ resRh' \in Seq(ResMsgs)
      /\ \A i : UnderWay(i)' => UnderWay(i)
  BY <1>1, ReadPlace
<1>3. \A i \in Int : Passed(i) => Passed(i)'
  BY <1>1, <1>2 DEF Passed
<1>4. Ordered' /\ Apart' /\ Ended' /\ MapInv' /\ IsFiniteSet({u.i : u \in resUnsorted})'
  BY <1>1, <1>3, ObjectStays
<1>5. ResType'
  <2>1. TaskCount' = TaskCount
    BY <1>1 DEF TaskCount, Chunks
  <2> QED
    BY <1>1, <1>2, <1>t, <2>1 DEF ResType
<1>6. BeforeCall'
  BY <1>1, <1>t DEF BeforeCall
<1>7. NoneLeft'
  BY <1>1 DEF ResInv, NoneLeft
<1> QED
  BY <1>2, <1>4, <1>5, <1>6, <1>7 DEF ResInv

\* ResultHandler calls _set for the result it has read.
LEMMA OnReadySetKeeps == ResInv /\ OnReadySet => ResInv'
<1> SUFFICES ASSUME ResInv, OnReadySet PROVE ResInv'
  OBVIOUS
<1>t. ResType /\ OnePlace /\ BeforeCall /\ NoneLeft
  BY DEF ResInv
<1>j. PICK j : j = resRh[1].i
  OBVIOUS
<1>k. PICK ok : ok = resRh[1].ok
  OBVIOUS
<1>0. /\ resRh # <<>> /\ resRh' = <<>>
      /\ UNCHANGED <<resCall, resTh, resPut, resTaken, resWork, resWpc, resExits, resOut, resLost,
                     resGot, resStop>>
  BY DEF OnReadySet, thisCall, workers, consumer
<1>1. /\ OnePlace' /\ resRh[1] \in ResMsgs /\ ~UnderWay(j)'
      /\ j \in 0..(resTaken - 1) /\ UnderWay(j) /\ \A i : UnderWay(i)' => UnderWay(i)
  BY <1>0, <1>j, SetPlace
<1>2. ok \in BOOLEAN /\ j \in Int /\ <<>> \in Seq(ResMsgs)
  BY <1>1, <1>k DEF ResMsgs
<1>3. \A i \in Int : Passed(i) => Passed(i)'
  BY <1>0, <1>1 DEF Passed
<1>4. Passed(j)'
  BY <1>0, <1>1 DEF Passed
<1>5. resTh # "idle" /\ resCall.kind # "none"
  <2>1. resPut # 0
    BY <1>1, <1>t DEF ResType
  <2> QED
    BY <1>t, <2>1 DEF BeforeCall
<1>6. TaskCount' = TaskCount
  BY <1>0 DEF TaskCount, Chunks
<1>7. BeforeCall' /\ NoneLeft'
  BY <1>0, <1>5, <1>t DEF BeforeCall, NoneLeft
<1>8. CASE UNCHANGED object
  <2>1. UNCHANGED <<resCached, resReady, resFailed, resFilled, resLeft, resIndex, resLength,
                    resItems, resUnsorted>>
    BY <1>8 DEF object
  <2>2. Ordered' /\ Apart' /\ Ended' /\ MapInv' /\ IsFiniteSet({u.i : u \in resUnsorted})'
    BY <1>0, <1>3, <2>1, ObjectStays
  <2>3. ResType'
    BY <1>0, <1>2, <1>6, <1>t, <2>1 DEF ResType
  <2> QED
    BY <1>1, <1>7, <2>2, <2>3 DEF ResInv
<1>9. CASE ~IsMap /\ ImapSet(j, ok)
  <2>1. /\ Ordered' /\ Apart' /\ Ended' /\ MapInv' /\ IsFiniteSet({u.i : u \in resUnsorted})'
        /\ resItems' \in Seq(ResObjects) /\ resIndex' \in Nat /\ resUnsorted' \subseteq ResObjects
        /\ UNCHANGED <<resFailed, resFilled, resLeft, resLength>>
        /\ resReady' \in BOOLEAN /\ resCached' \in BOOLEAN
    BY <1>0, <1>1, <1>2, <1>3, <1>4, <1>9, ImapSetKeeps
  <2>2. ResType'
    BY <1>0, <1>2, <1>6, <1>t, <2>1 DEF ResType
  <2> QED
    BY <1>1, <1>7, <2>1, <2>2 DEF ResInv
<1>10. CASE IsMap /\ MapSet(j, ok) /\ (ok => ~resFailed)
  <2>1. UNCHANGED <<resIndex, resLength, resItems, resUnsorted>>
    BY <1>10 DEF MapSet
  <2>2. /\ resReady' \in BOOLEAN /\ resFailed' \in BOOLEAN /\ resCached' \in BOOLEAN
        /\ resLeft' \in Int
    <3>1. CASE ok
      <4>1. resReady' = (resReady \/ resLeft = 1) /\ resFailed' = resFailed
            /\ resCached' = (resCached /\ resLeft # 1) /\ resLeft' = resLeft - 1
        BY <1>10, <3>1 DEF MapSet
      <4>2. resFailed \in BOOLEAN /\ resLeft \in Int
        BY <1>t DEF ResType
      <4> QED
        BY <4>1, <4>2
    <3>2. CASE ~ok
      BY <1>10, <1>t, <3>2 DEF MapSet, ResType
    <3> QED
      BY <3>1, <3>2
  <2>3. ResType'
    BY <1>0, <1>2, <1>6, <1>t, <2>1, <2>2 DEF ResType
  <2>4. Ordered' /\ Apart' /\ Ended'
    BY <1>0, <1>10 DEF Ordered, Apart, Ended, IsMap
  <2>5. MapInv'
    <3>1. CASE ok
      <4>1. MapSet(j, TRUE)
        BY <1>10, <3>1 DEF MapSet
      <4> QED
        BY <1>0, <1>1, <1>10, <1>3, <1>4, <3>1, <4>1, MapSetKeeps
    <3>2. CASE ~ok
      BY <1>10, <3>2 DEF MapSet, MapInv
    <3> QED
      BY <3>1, <3>2
  <2>6. IsFiniteSet({u.i : u \in resUnsorted})'
    BY <2>1 DEF ResInv
  <2> QED
    BY <1>1, <1>7, <2>3, <2>4, <2>5, <2>6 DEF ResInv
<1> QED
  BY <1>8, <1>9, <1>10, <1>j, <1>k DEF OnReadySet, ResSet

\* Supervisor fails the object whose worker is lost: a map fails, and an imap gets an
\* error for the index None.
LEMMA MarkLostKeeps == ResInv /\ MarkLost => ResInv'
<1> SUFFICES ASSUME ResInv, MarkLost PROVE ResInv'
  OBVIOUS
<1>t. ResType /\ OnePlace /\ BeforeCall /\ NoneLeft
  BY DEF ResInv
<1>0. /\ resCached /\ resLost = "elapsed" /\ ResSet(NoIndex, FALSE)
      /\ UNCHANGED <<resCall, resTh, resPut, resTaken, resWork, resWpc, resExits, resOut, resRh, resLost,
                     resGot, resStop>>
  BY DEF MarkLost, thisCall, workers, consumer
<1>1. resExits # 0 /\ resTh # "idle" /\ NoIndex \in Int
  BY <1>0, <1>t DEF NoneLeft, BeforeCall, NoIndex
<1>2. OnePlace' /\ \A i : UnderWay(i)' <=> UnderWay(i)
  BY <1>0, <1>t, PlacesStay
<1>3. \A i \in Int : Passed(i) => Passed(i)'
  BY <1>0, <1>2 DEF Passed
<1>4. TaskCount' = TaskCount
  BY <1>0 DEF TaskCount, Chunks
<1>5. BeforeCall' /\ NoneLeft'
  BY <1>0, <1>1, <1>t DEF BeforeCall, NoneLeft
<1>6. CASE ~IsMap
  <2>0. FALSE \in BOOLEAN /\ ImapSet(NoIndex, FALSE)
    BY <1>0, <1>6 DEF ResSet
  <2>1. /\ Ordered' /\ Apart' /\ Ended' /\ MapInv' /\ IsFiniteSet({u.i : u \in resUnsorted})'
        /\ resItems' \in Seq(ResObjects) /\ resIndex' \in Nat /\ resUnsorted' \subseteq ResObjects
        /\ UNCHANGED <<resFailed, resFilled, resLeft, resLength>>
        /\ resReady' \in BOOLEAN /\ resCached' \in BOOLEAN
    BY <1>0, <1>1, <1>3, <1>6, <2>0, ImapSetKeeps
  <2>2. ResType'
    BY <1>0, <1>4, <1>t, <2>1 DEF ResType
  <2> QED
    BY <1>2, <1>5, <2>1, <2>2 DEF ResInv
<1>7. CASE IsMap
  <2>1. /\ UNCHANGED <<resIndex, resLength, resItems, resUnsorted, resFilled, resLeft>>
        /\ resFailed' = TRUE /\ resReady' = TRUE /\ resCached' = FALSE
    BY <1>0, <1>7 DEF ResSet, MapSet
  <2>2. ResType'
    BY <1>0, <1>4, <1>t, <2>1 DEF ResType
  <2>3. Ordered' /\ Apart' /\ Ended' /\ MapInv'
    BY <1>0, <1>7, <2>1 DEF Ordered, Apart, Ended, MapInv, IsMap
  <2>4. IsFiniteSet({u.i : u \in resUnsorted})'
    BY <2>1 DEF ResInv
  <2> QED
    BY <1>2, <1>5, <2>2, <2>3, <2>4 DEF ResInv
<1> QED
  BY <1>6, <1>7

\* next() takes the first item, or meets the end.
LEMMA NextItemKeeps == ResInv /\ NextItem => ResInv'
<1> SUFFICES ASSUME ResInv, NextItem PROVE ResInv'
  OBVIOUS
<1>t. ResType /\ OnePlace /\ BeforeCall /\ NoneLeft
  BY DEF ResInv
<1>0. /\ resCall.kind \in {"imap", "unordered"} /\ ~resStop
      /\ UNCHANGED <<resCall, resTh, resPut, resTaken, resWork, resWpc, resExits, resOut, resRh, resCached,
                     resFailed, resFilled, resLeft, resIndex, resLength, resUnsorted, resLost>>
  BY DEF NextItem, thisCall, workers
<1>1. OnePlace' /\ \A i : UnderWay(i)' <=> UnderWay(i)
  BY <1>0, <1>t, PlacesStay
<1>2. \A i \in Int : Passed(i) => Passed(i)'
  BY <1>0, <1>1 DEF Passed
<1>3. TaskCount' = TaskCount
  BY <1>0 DEF TaskCount, Chunks
<1>4. BeforeCall' /\ NoneLeft' /\ MapInv'
  BY <1>0, <1>t DEF BeforeCall, NoneLeft, MapInv, IsMap
<1>5. IsFiniteSet({u.i : u \in resUnsorted})'
  BY <1>0 DEF ResInv
<1>6. /\ resGot \in Seq(ResObjects) /\ resItems \in Seq(ResObjects)
      /\ Len(resGot) \in Nat /\ Len(resItems) \in Nat /\ resIndex \in Nat
  BY <1>t DEF ResType
<1>7. CASE /\ resItems # <<>> /\ resGot' = Append(resGot, Head(resItems)) /\ resItems' = Tail(resItems)
           /\ UNCHANGED <<resStop, resReady>>
  <2>1. /\ resGot' \in Seq(ResObjects) /\ Len(resGot') = Len(resGot) + 1
        /\ \A n \in 1..Len(resGot) : resGot'[n] = resGot[n]
        /\ resGot'[Len(resGot) + 1] = resItems[1]
    <3>1. PICK e \in ResObjects : e = Head(resItems) /\ e = resItems[1]
      BY <1>6, <1>7
    <3> QED
      BY <1>6, <1>7, <3>1
  <2>2. /\ resItems' \in Seq(ResObjects) /\ Len(resItems') = Len(resItems) - 1 /\ Len(resItems) > 0
        /\ \A n \in 1..(Len(resItems) - 1) : resItems'[n] = resItems[n + 1]
    BY <1>6, <1>7
  <2>3. /\ \A n \in 1..Len(resGot') :
             \/ n \in 1..Len(resGot) /\ resGot'[n] = resGot[n]
             \/ n = Len(resGot) + 1 /\ resGot'[n] = resItems[1]
        /\ \A n \in 1..Len(resItems') : /\ n + 1 \in 1..Len(resItems) /\ n + 1 # 1
                                        /\ resItems'[n] = resItems[n + 1]
        /\ 1 \in 1..Len(resItems)
    BY <1>6, <2>1, <2>2
  <2>4. ResType'
    BY <1>0, <1>3, <1>7, <1>t, <2>1, <2>2 DEF ResType
  <2>5. Len(resGot) + Len(resItems) = resIndex => Len(resGot') + Len(resItems') = resIndex'
    <3>1. Len(resGot') + Len(resItems') = Len(resGot) + Len(resItems)
      BY <1>6, <2>1, <2>2
    <3> QED
      BY <1>0, <3>1
  <2>6. Ordered'
    <3>1. SUFFICES ASSUME resCall.kind = "imap" PROVE Ordered'
      BY <1>0 DEF Ordered
    <3>2. /\ Len(resGot) + Len(resItems) = resIndex
          /\ \A n \in 1..Len(resGot) : resGot[n].i = n - 1
          /\ \A n \in 1..Len(resItems) : resItems[n].i = Len(resGot) + n - 1
      BY <3>1 DEF ResInv, Ordered
    <3>3. ASSUME NEW n \in 1..Len(resGot') PROVE resGot'[n].i = n - 1
      <4>1. CASE n \in 1..Len(resGot) /\ resGot'[n] = resGot[n]
        BY <3>2, <4>1
      <4>2. CASE n = Len(resGot) + 1 /\ resGot'[n] = resItems[1]
        <5>1. resItems[1].i = Len(resGot) + 1 - 1
          BY <2>3, <3>2
        <5> QED
          BY <4>2, <5>1
      <4> QED
        BY <2>3, <4>1, <4>2
    <3>4. ASSUME NEW n \in 1..Len(resItems') PROVE resItems'[n].i = Len(resGot') + n - 1
      <4>1. resItems'[n].i = Len(resGot) + (n + 1) - 1
        BY <2>3, <3>2
      <4>2. Len(resGot) + (n + 1) - 1 = Len(resGot') + n - 1
        BY <1>6, <2>1
      <4> QED
        BY <4>1, <4>2
    <3> QED
      BY <2>5, <3>2, <3>3, <3>4 DEF Ordered
  <2>7. Apart'
    <3>1. SUFFICES ASSUME resCall.kind = "unordered", resExits = 0 PROVE Apart'
      BY <1>0 DEF Apart
    <3>2. /\ Len(resGot) + Len(resItems) = resIndex
          /\ \A m, n \in 1..Len(resGot) : resGot[m].i = resGot[n].i => m = n
          /\ \A m, n \in 1..Len(resItems) : resItems[m].i = resItems[n].i => m = n
          /\ \A m \in 1..Len(resGot), n \in 1..Len(resItems) : resGot[m].i # resItems[n].i
          /\ \A n \in 1..Len(resGot) : Passed(resGot[n].i)
          /\ \A n \in 1..Len(resItems) : Passed(resItems[n].i)
      BY <3>1 DEF ResInv, Apart
    <3>3. ASSUME NEW m \in 1..Len(resGot'), NEW n \in 1..Len(resGot'), resGot'[m].i = resGot'[n].i
          PROVE  m = n
      <4>1. CASE m \in 1..Len(resGot) /\ n \in 1..Len(resGot)
        BY <2>1, <3>2, <3>3, <4>1
      <4>2. CASE m = Len(resGot) + 1 /\ n = Len(resGot) + 1
        BY <4>2
      <4>3. CASE m \in 1..Len(resGot) /\ n = Len(resGot) + 1
        BY <2>1, <2>3, <3>2, <3>3, <4>3
      <4>4. CASE m = Len(resGot) + 1 /\ n \in 1..Len(resGot)
        BY <2>1, <2>3, <3>2, <3>3, <4>4
      <4> QED
        BY <2>3, <4>1, <4>2, <4>3, <4>4
    <3>4. ASSUME NEW m \in 1..Len(resItems'), NEW n \in 1..Len(resItems'),
                 resItems'[m].i = resItems'[n].i
          PROVE  m = n
      <4>1. PICK k \in 1..Len(resItems), l \in 1..Len(resItems) :
              /\ k = m + 1 /\ l = n + 1
              /\ resItems'[m] = resItems[k] /\ resItems'[n] = resItems[l]
        BY <2>3
      <4>2. k = l
        BY <3>2, <3>4, <4>1
      <4> QED
        BY <4>1, <4>2
    <3>5. ASSUME NEW m \in 1..Len(resGot'), NEW n \in 1..Len(resItems')
          PROVE  resGot'[m].i # resItems'[n].i
      <4>1. n + 1 \in 1..Len(resItems) /\ n + 1 # 1 /\ resItems'[n] = resItems[n + 1]
        BY <2>3
      <4>2. CASE m \in 1..Len(resGot) /\ resGot'[m] = resGot[m]
        BY <3>2, <4>1, <4>2
      <4>3. CASE resGot'[m] = resItems[1]
        BY <2>3, <3>2, <4>1, <4>3
      <4> QED
        BY <2>3, <4>2, <4>3
    <3>6. /\ \A n \in 1..Len(resGot) : resGot[n].i \in Int
          /\ \A n \in 1..Len(resItems) : resItems[n].i \in Int
      <4>1. /\ \A n \in 1..Len(resGot) : resGot[n] \in ResObjects
            /\ \A n \in 1..Len(resItems) : resItems[n] \in ResObjects
        BY <1>6
      <4> QED
        BY <4>1 DEF ResObjects
    <3>7. ASSUME NEW n \in 1..Len(resGot') PROVE Passed(resGot[n].i)'
      <4>1. PICK k \in Int : k = resGot'[n].i /\ Passed(k)
        BY <2>3, <3>2, <3>6
      <4>2. Passed(k)'
        BY <1>2, <4>1
      <4> QED
        BY <4>1, <4>2
    <3>8. ASSUME NEW n \in 1..Len(resItems') PROVE Passed(resItems[n].i)'
      <4>1. PICK k \in Int : k = resItems'[n].i /\ Passed(k)
        BY <2>3, <3>2, <3>6
      <4>2. Passed(k)'
        BY <1>2, <4>1
      <4> QED
        BY <4>1, <4>2
    <3> QED
      BY <2>5, <3>2, <3>3, <3>4, <3>5, <3>7, <3>8 DEF Apart
  <2>8. Ended'
    BY <1>0, <1>7 DEF ResInv, Ended
  <2> QED
    BY <1>1, <1>4, <1>5, <2>4, <2>6, <2>7, <2>8 DEF ResInv
<1>8. CASE /\ resItems = <<>> /\ resIndex = resLength /\ resStop' = TRUE /\ resReady' = TRUE
           /\ UNCHANGED <<resGot, resItems>>
  <2>1. ResType'
    BY <1>0, <1>3, <1>8, <1>t DEF ResType
  <2>2. Ordered'
    BY <1>0, <1>8 DEF ResInv, Ordered
  <2>3. Apart'
    <3>1. resItems = <<>> /\ Len(resItems) = 0
      BY <1>8
    <3>2. \A n \in 1..Len(resGot) : resGot[n].i \in Int
      <4>1. \A n \in 1..Len(resGot) : resGot[n] \in ResObjects
        BY <1>6
      <4> QED
        BY <4>1 DEF ResObjects
    <3> QED
      BY <1>0, <1>2, <1>8, <3>1, <3>2 DEF ResInv, Apart
  <2>4. Ended'
    <3>1. SUFFICES ASSUME resCall.raises = resCall.len, resExits = 0
                   PROVE  Len(resGot) = resCall.len
      BY <1>0, <1>8 DEF ResInv, Ended
    <3>2. Len(resGot) + Len(resItems) = resIndex
      BY <1>0, <3>1 DEF ResInv, Ordered, Apart
    <3>3. resLength \in {NoIndex, resCall.len}
      BY <1>0, <3>1 DEF ResInv, Ended
    <3>4. resIndex = resCall.len
      BY <1>6, <1>8, <3>3 DEF NoIndex
    <3>5. Len(resItems) = 0
      BY <1>8
    <3> QED
      BY <1>6, <3>2, <3>4, <3>5
  <2> QED
    BY <1>1, <1>4, <1>5, <2>1, <2>2, <2>3, <2>4 DEF ResInv
<1> QED
  BY <1>7, <1>8 DEF NextItem

\* What next() and get() hand out follows from the invariant.
LEMMA ResInvSafe == ResInv => ResultsSafe
<1> SUFFICES ASSUME ResInv PROVE ResultsSafe
  OBVIOUS
<1>t. ResType /\ BeforeCall
  BY DEF ResInv
<1>1. resGot \in Seq(ResObjects) /\ DOMAIN resGot = 1..Len(resGot)
  BY <1>t DEF ResType
<1>2. ImapInOrder
  BY <1>1 DEF ResInv, Ordered, ImapInOrder
<1>3. ImapExact
  <2>1. SUFFICES ASSUME ~IsMap, resExits = 0
                 PROVE  /\ \A m, n \in 1..Len(resGot) : resGot[m].i = resGot[n].i => m = n
                        /\ resStop /\ resCall.raises = resCall.len => Len(resGot) = resCall.len
    BY <1>1 DEF ImapExact
  <2>2. resCall.kind \in {"none", "imap", "unordered"}
    BY <1>t, <2>1 DEF ResType, ResCalls, IsMap
  <2>3. CASE resCall.kind = "none"
    <3>1. resGot = <<>> /\ ~resStop
      BY <1>t, <2>3 DEF BeforeCall
    <3> QED
      BY <3>1
  <2>4. CASE resCall.kind = "imap"
    <3>1. \A n \in 1..Len(resGot) : resGot[n].i = n - 1
      BY <2>4 DEF ResInv, Ordered
    <3>2. \A m, n \in 1..Len(resGot) : m - 1 = n - 1 => m = n
      OBVIOUS
    <3> QED
      BY <2>1, <2>4, <3>1, <3>2 DEF ResInv, Ended
  <2>5. CASE resCall.kind = "unordered"
    BY <2>1, <2>5 DEF ResInv, Apart, Ended
  <2> QED
    BY <2>2, <2>3, <2>4, <2>5
<1>4. MapComplete
  <2>1. SUFFICES ASSUME IsMap, resReady, ~resFailed PROVE resFilled = 0..(resCall.len - 1)
    BY DEF MapComplete
  <2>2. PICK D : ChunksCounted(D)
    BY <2>1 DEF ResInv, MapInv
  <2>3. resLeft = 0
    BY <2>1 DEF ResInv, MapInv
  <2>4. TaskCount \in Nat /\ resCall.len \in Nat /\ resCall.chunk \in {1, 2}
    BY <1>t, TasksType DEF ResType, ResCalls
  <2>5. IsFiniteSet(0..(TaskCount - 1)) /\ Cardinality(0..(TaskCount - 1)) = TaskCount
    <3>1. 0 \in Int /\ TaskCount - 1 \in Int /\ (0 > TaskCount - 1 => TaskCount = 0) /\ TaskCount - 1 - 0 + 1 = TaskCount
      BY <2>4
    <3> QED
      BY <3>1, FS_Interval
  <2>6. D \subseteq 0..(TaskCount - 1) /\ Cardinality(D) + 0 = TaskCount
    BY <2>2, <2>3 DEF ChunksCounted
  <2>7. IsFiniteSet(D) /\ Cardinality(D) \in Nat
    BY <2>5, <2>6, FS_CardinalityType, FS_Subset
  <2>8. D = 0..(TaskCount - 1)
    <3>1. Cardinality(D) = TaskCount
      BY <2>6, <2>7
    <3> QED
      BY <2>5, <2>6, <3>1, FS_Subset
  <2>9. ASSUME NEW n \in 0..(resCall.len - 1) PROVE n \div resCall.chunk \in 0..(TaskCount - 1)
    <3>1. resCall.len # 0 /\ n \in Nat /\ n < resCall.len
      BY <2>4, <2>9
    <3>2. CASE resCall.chunk = 1
      <4>1. TaskCount = resCall.len
        BY <2>4, <3>1, <3>2 DEF TaskCount, Chunks
      <4>2. n \div 1 = n
        BY <3>1
      <4> QED
        BY <2>4, <3>1, <3>2, <4>1, <4>2
    <3>3. CASE resCall.chunk = 2
      <4>1. TaskCount = (resCall.len + 2 - 1) \div 2
        BY <3>3 DEF TaskCount, Chunks
      <4>2. n \div 2 < (resCall.len + 2 - 1) \div 2 /\ n \div 2 \in Nat
        BY <2>4, <3>1
      <4> QED
        BY <2>4, <3>3, <4>1, <4>2
    <3> QED
      BY <2>4, <3>2, <3>3
  <2>10. resFilled = {n \in 0..(resCall.len - 1) : n \div resCall.chunk \in D}
    BY <2>2 DEF ChunksCounted
  <2> QED
    BY <2>10, <2>8, <2>9
<1> QED
  BY <1>2, <1>3, <1>4 DEF ResultsSafe

\* imap hands out a prefix in order, whatever workers die; as long as none does,
\* next() hands out each result once and ends after the last one; and a map that
\* succeeded has every position of its list filled.
THEOREM ResultsAreSafe == ResSpec => []ResultsSafe
<1>1. ResInit => ResInv
  BY ResInitial
<1>2. ResInv /\ [ResNext]_resVars => ResInv'
  <2>1. SUFFICES ASSUME ResInv, [ResNext]_resVars PROVE ResInv'
    OBVIOUS
  <2>2. ASSUME NEW len \in 0..MaxItems, NEW size \in 1..2, Submit("map", 0, len, size, len)
        PROVE  ResInv'
    BY <2>1, <2>2, SubmitKeeps
  <2>3. ASSUME NEW len \in 0..MaxItems, NEW kind \in {"imap", "unordered"}, NEW raises \in 0..len,
               NEW num \in {0, 2}, Submit(kind, num, len, 1, raises)
        PROVE  ResInv'
    BY <2>1, <2>3, SubmitKeeps
  <2>4. CASE ThreadStep
    BY <2>1, <2>4, PutTaskKeeps, PutDoneKeeps DEF ThreadStep
  <2>5. CASE HandlerStep
    BY <2>1, <2>5, HandlerKeeps, OnReadySetKeeps DEF HandlerStep
  <2>6. ASSUME NEW p \in ResPids, ResWorkerStep(p) \/ LeaveOrDie(p)
        PROVE  ResInv'
    BY <2>1, <2>6, WorkerKeeps DEF ResWorkerStep
  <2>7. CASE (\E p \in ResPids : JoinWorker(p)) \/ LossElapses \/ UNCHANGED resVars
    BY <2>1, <2>7, SupervisorKeeps
  <2>8. CASE MarkLost \/ NextItem
    BY <2>1, <2>8, MarkLostKeeps, NextItemKeeps
  <2> QED
    BY <2>1, <2>2, <2>3, <2>4, <2>5, <2>6, <2>7, <2>8 DEF ResNext
<1> QED
  BY <1>1, <1>2, ResInvSafe, PTL DEF ResSpec

=============================================================================
