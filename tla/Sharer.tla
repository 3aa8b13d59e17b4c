------------------------------- MODULE Sharer -------------------------------
(***************************************************************************)
(* The resource sharer, billiard/resource_sharer.py: a descriptor that is  *)
(* pickled outside of start() is duplicated and kept under a key, until a  *)
(* process connects to the sharer's thread and asks for it, or stop()      *)
(* discards it.  The thread takes resources out of the cache without the   *)
(* lock that register and stop hold.  Each start makes a new listener,     *)
(* with a new address, and a new thread; both are numbered.  A thread      *)
(* that a stop() with a timeout left behind goes on with whatever listener *)
(* there is.                                                               *)
(***************************************************************************)
EXTENDS Integers, Sequences, FiniteSets

CONSTANTS
  ShClients,    \* processes that call detach
  ShStopper,    \* the connection made by stop
  MaxStarts,    \* bound: how often the thread is started
  MaxResources  \* bound: how many descriptors are registered

ASSUME SharerAssumption ==
  MaxStarts \in Nat \ {0} /\ MaxResources \in Nat \ {0} /\ ShStopper \notin ShClients

VARIABLES
  shListener,   \* the current listener, 0 for None
  shStarts,     \* how many were started
  shKey,        \* _key
  shAddress,    \* key -> the listener whose address its identifier holds
  shCache,      \* keys in _cache
  shCloses,     \* key -> how often its descriptor was closed
  shGiven,      \* key -> how often it was handed out
  shBacklog,    \* connections that wait for accept
  shThread,     \* thread -> "none", "loop", "recv", "send" or "ended"
  shConn,       \* thread -> the connection it serves
  shClient,     \* client -> "idle", "connected", "asked", "got", "error" or "dead"
  shWants,      \* client -> the key it asks for
  shStop,       \* stop(): "idle", "join" or "close"; the lock is held unless idle
  shSeen,       \* the keys its loop has been through
  shSize,       \* the size of the cache when the loop began
  shWarned      \* a stop(timeout) has warned that its thread did not stop

shKeyVars == <<shKey, shAddress>>
shClientVars == <<shClient, shWants>>
shFdVars == <<shCache, shCloses, shGiven>>
shThreadVars == <<shThread, shConn>>
shStopVars == <<shStop, shSeen, shSize, shWarned>>
shVars == <<shListener, shStarts, shKeyVars, shFdVars, shBacklog, shThreadVars, shClientVars,
            shStopVars>>

Resources == 1..MaxResources
Threads == 1..MaxStarts

ShInit ==
  /\ shListener = 0 /\ shStarts = 0 /\ shKey = 0
  /\ shAddress = [k \in Resources |-> 0]
  /\ shCache = {}
  /\ shCloses = [k \in Resources |-> 0]
  /\ shGiven = [k \in Resources |-> 0]
  /\ shBacklog = <<>>
  /\ shThread = [e \in Threads |-> "none"]
  /\ shConn = [e \in Threads |-> ShStopper]
  /\ shClient = [d \in ShClients |-> "idle"]
  /\ shWants = [d \in ShClients |-> 0]
  /\ shStop = "idle" /\ shSeen = {} /\ shSize = 0 /\ shWarned = FALSE

\* register, with _start.
ShRegister ==
  /\ shStop = "idle" /\ shKey < MaxResources
  /\ IF shListener = 0
     THEN /\ shStarts < MaxStarts
          /\ shStarts' = shStarts + 1 /\ shListener' = shStarts + 1
          /\ shThread' = [shThread EXCEPT ![shStarts + 1] = "loop"]
     ELSE UNCHANGED <<shStarts, shListener, shThread>>
  /\ shKey' = shKey + 1
  /\ shAddress' = [shAddress EXCEPT ![shKey + 1] = shListener']
  /\ shCache' = shCache \cup {shKey + 1}
  /\ UNCHANGED <<shCloses, shGiven, shBacklog, shConn, shClientVars, shStopVars>>

(***************************************************************************)
(* detach in another process                                               *)
(***************************************************************************)

\* get_connection: refused if the listener of the identifier is gone ...
ShConnect(d, k) ==
  /\ shClient[d] = "idle" /\ k <= shKey
  /\ shWants' = [shWants EXCEPT ![d] = k]
  /\ IF shAddress[k] = shListener
     THEN shClient' = [shClient EXCEPT ![d] = "connected"] /\ shBacklog' = Append(shBacklog, d)
     ELSE shClient' = [shClient EXCEPT ![d] = "error"] /\ UNCHANGED shBacklog
  /\ UNCHANGED <<shListener, shStarts, shKeyVars, shFdVars, shThreadVars, shStopVars>>

\* ... and then the key is sent.
ShAsk(d) ==
  /\ shClient[d] = "connected"
  /\ shClient' = [shClient EXCEPT ![d] = "asked"]
  /\ UNCHANGED <<shListener, shStarts, shKeyVars, shFdVars, shBacklog, shThreadVars, shWants,
                 shStopVars>>

ShDie(d) ==
  /\ shClient[d] \in {"connected", "asked"}
  /\ shClient' = [shClient EXCEPT ![d] = "dead"]
  /\ UNCHANGED <<shListener, shStarts, shKeyVars, shFdVars, shBacklog, shThreadVars, shWants,
                 shStopVars>>

(***************************************************************************)
(* _serve                                                                  *)
(***************************************************************************)

ServeGoes(e, pc) == shThread' = [shThread EXCEPT ![e] = pc]

\* (With no listener accept fails, the error is printed and the loop goes on.)
ShAccept(e) ==
  /\ shThread[e] = "loop" /\ shListener # 0 /\ shBacklog # <<>>
  /\ shConn' = [shConn EXCEPT ![e] = Head(shBacklog)]
  /\ shBacklog' = Tail(shBacklog)
  /\ ServeGoes(e, "recv")
  /\ UNCHANGED <<shListener, shStarts, shKeyVars, shFdVars, shClientVars, shStopVars>>

\* Mutant of ShReceive: the resource stays in the cache.
ShReceiveGet(e) ==
  LET d == shConn[e] IN
  /\ shThread[e] = "recv"
  /\ IF d = ShStopper THEN ServeGoes(e, "ended") /\ UNCHANGED shClient
     ELSE /\ shClient[d] \in {"asked", "dead"}
          /\ IF shClient[d] = "asked" /\ shWants[d] \in shCache
             THEN ServeGoes(e, "send") /\ UNCHANGED shClient
             ELSE /\ ServeGoes(e, "loop")
                  /\ shClient' = [shClient EXCEPT ![d] = IF @ = "asked" THEN "error" ELSE @]
  /\ UNCHANGED <<shListener, shStarts, shKeyVars, shFdVars, shBacklog, shConn, shWants,
                 shStopVars>>

\* Mutant of ShReceive: a connection at its end stops the thread.
ShReceiveEof(e) ==
  LET d == shConn[e] IN
  /\ shThread[e] = "recv"
  /\ IF d = ShStopper \/ shClient[d] = "dead"
     THEN ServeGoes(e, "ended") /\ UNCHANGED <<shCache, shClient>>
     ELSE /\ shClient[d] = "asked"
          /\ IF shWants[d] \in shCache
             THEN ServeGoes(e, "send") /\ shCache' = shCache \ {shWants[d]} /\ UNCHANGED shClient
             ELSE /\ ServeGoes(e, "loop") /\ UNCHANGED shCache
                  /\ shClient' = [shClient EXCEPT ![d] = "error"]
  /\ UNCHANGED <<shListener, shStarts, shKeyVars, shCloses, shGiven, shBacklog, shConn, shWants,
                 shStopVars>>

\* recv, and pop: a message of None ends the thread; EOFError and KeyError are
\* printed, and the connection is closed.
ShReceive(e) ==
  LET d == shConn[e] IN
  /\ shThread[e] = "recv"
  /\ IF d = ShStopper THEN ServeGoes(e, "ended") /\ UNCHANGED <<shCache, shClient>>
     ELSE /\ shClient[d] \in {"asked", "dead"}
          /\ IF shClient[d] = "asked" /\ shWants[d] \in shCache
             THEN ServeGoes(e, "send") /\ shCache' = shCache \ {shWants[d]} /\ UNCHANGED shClient
             ELSE /\ ServeGoes(e, "loop") /\ UNCHANGED shCache
                  /\ shClient' = [shClient EXCEPT ![d] = IF @ = "asked" THEN "error" ELSE @]
  /\ UNCHANGED <<shListener, shStarts, shKeyVars, shCloses, shGiven, shBacklog, shConn, shWants,
                 shStopVars>>

\* send, which may fail, and close.
ShSend(e) ==
  LET d == shConn[e] IN
  /\ shThread[e] = "send"
  /\ IF shClient[d] = "asked"
     THEN /\ shGiven' = [shGiven EXCEPT ![shWants[d]] = @ + 1]
          /\ shClient' = [shClient EXCEPT ![d] = "got"]
     ELSE UNCHANGED <<shGiven, shClient>>
  /\ shCloses' = [shCloses EXCEPT ![shWants[d]] = @ + 1]
  /\ ServeGoes(e, "loop")
  /\ UNCHANGED <<shListener, shStarts, shKeyVars, shCache, shBacklog, shConn, shWants,
                 shStopVars>>

(***************************************************************************)
(* stop                                                                    *)
(***************************************************************************)

\* The lock is taken and the thread asked to stop.
ShStopAsk ==
  /\ shStop = "idle" /\ shListener # 0
  /\ shBacklog' = Append(shBacklog, ShStopper)
  /\ shStop' = "join"
  /\ UNCHANGED <<shListener, shStarts, shKeyVars, shFdVars, shThreadVars, shClientVars, shSeen,
                 shSize, shWarned>>

\* The thread has ended, or the timeout is over; the listener is closed, with the
\* connections nobody accepted.
ShStopJoin ==
  /\ shListener' = 0 /\ shBacklog' = <<>>
  /\ shClient' = [d \in ShClients |->
                    IF \E i \in 1..Len(shBacklog) : shBacklog[i] = d /\ shClient[d] # "dead"
                    THEN "error" ELSE shClient[d]]
  /\ shStop' = "close" /\ shSeen' = {} /\ shSize' = Cardinality(shCache)
  /\ UNCHANGED <<shStarts, shKeyVars, shFdVars, shThreadVars, shWants>>

ShJoined ==
  shStop = "join" /\ shThread[shListener] = "ended" /\ ShStopJoin /\ UNCHANGED shWarned
ShJoinTimeout ==
  shStop = "join" /\ shThread[shListener] # "ended" /\ ShStopJoin /\ shWarned' = TRUE

\* The loop over the cache closes one descriptor more ...
ShStopClose(k) ==
  /\ shStop = "close" /\ Cardinality(shCache) = shSize /\ k \in shCache \ shSeen
  /\ shCloses' = [shCloses EXCEPT ![k] = @ + 1]
  /\ shSeen' = shSeen \cup {k}
  /\ UNCHANGED <<shListener, shStarts, shKeyVars, shCache, shGiven, shBacklog, shThreadVars,
                 shClientVars, shStop, shSize, shWarned>>

\* ... ends and clears the cache, or raises because the cache has changed.
ShStopReturn ==
  /\ shStop = "close"
  /\ \/ Cardinality(shCache) = shSize /\ shCache \subseteq shSeen /\ shCache' = {}
     \/ Cardinality(shCache) # shSize /\ UNCHANGED shCache
  /\ shStop' = "idle"
  /\ UNCHANGED <<shListener, shStarts, shKeyVars, shCloses, shGiven, shBacklog, shThreadVars,
                 shClientVars, shSeen, shSize, shWarned>>

ServeStep(e) == ShAccept(e) \/ ShReceive(e) \/ ShSend(e)
StopStep == ShJoined \/ ShStopReturn \/ \E k \in Resources : ShStopClose(k)

ShNext ==
  \/ ShRegister \/ ShStopAsk \/ ShJoined \/ ShJoinTimeout \/ ShStopReturn
  \/ \E k \in Resources : ShStopClose(k) \/ \E d \in ShClients : ShConnect(d, k)
  \/ \E d \in ShClients : ShAsk(d) \/ ShDie(d)
  \/ \E e \in Threads : ServeStep(e)

ShSpec == ShInit /\ [][ShNext]_shVars

\* As long as the thread, a client that has connected or stop() can go on, one of
\* them does.
ShProgress ==
  (\E e \in Threads : ServeStep(e)) \/ (\E d \in ShClients : ShAsk(d)) \/ StopStep
ShFairness == WF_shVars(ShProgress)

(***************************************************************************)
(* Properties                                                              *)
(***************************************************************************)

\* A descriptor is handed to one process at most, whoever asks for it and
\* however often the sharer was stopped and started.
HandedOnce == \A k \in Resources : shGiven[k] <= 1

\* Each duplicate is closed exactly once: not twice, which would close another
\* descriptor with the same number, and, when the sharer is stopped, not never.
\* This needs every stop() to have waited for its thread.
ClosedOnce ==
  ~shWarned =>
    \A k \in 1..shKey :
      /\ shCloses[k] <= 1
      /\ shListener = 0 /\ shStop = "idle" => shCloses[k] = 1

\* A registered descriptor goes to one process and its duplicate is closed once.
SharerSafe ==
  /\ HandedOnce
  /\ ClosedOnce

\* detach() returns or raises: a client that has connected is answered, unless
\* it dies, whichever clients before it died and whether the sharer is stopped.
DetachReturns ==
  LET waits == {d \in ShClients : shClient[d] \in {"connected", "asked"}}
  IN waits # {} ~> waits = {}

=============================================================================
