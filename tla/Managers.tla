------------------------------ MODULE Managers ------------------------------
(***************************************************************************)
(* billiard/managers.py: the Server process with its table of shared       *)
(* objects and reference counts, the proxies that client processes hold,   *)
(* and BaseManager from start() to shutdown().  Every operation of the     *)
(* server is one request under its mutex; between the requests of one      *)
(* client anything may happen.  A proxy is passed on by pickling, by being *)
(* inherited over a fork or a spawn, and by a method that returns one.     *)
(* Every process has one thread that uses proxies; garbage collection may  *)
(* close a proxy at any moment, also in the middle of a call by another.   *)
(* A process may have a manager object too, copied by fork or connected;   *)
(* only the owner's is ever shut down.                                     *)
(***************************************************************************)
EXTENDS Integers, FiniteSets

CONSTANTS
  MgProcs,      \* client processes
  MgOwner,      \* the one that has started the manager
  MgProxies,    \* bound: proxies that are made, numbered from 1
  Idents        \* ids of objects in the server, used again after disposal

ASSUME ManagersAssumption == MgOwner \in MgProcs /\ MgProxies \in Nat

Proxies == 1..MgProxies

VARIABLES
  mgState,    \* State of the BaseManager object
  mgServer,   \* the server process: "none", "boot", "serving", "hung", "stopping" or "dead"
  mgStop,     \* where the owner is in shutdown(): "no", "ask", "join", "term"
              \* or "done"
  mgSig,      \* SIGTERM for the server: "no", "sent", or "deaf" if it has no effect
  mgCount,    \* ident -> id_to_refcount, 0 if there is none
  mgObj,      \* ident -> which object of that ident is in id_to_obj, 0 if none
  mgMade,     \* ident -> objects of that ident so far
  mgPhase,    \* proxy -> "none", "granted", "made", "live", "bare", "closed" or
              \* "failed"; "orphan" if the server has granted a reference that
              \* nobody took, "kept" if one was closed and not given back
  mgOf,       \* proxy -> the process it is in
  mgTo,       \* proxy -> [ident, n]: the object it is for
  mgLast,     \* proxies used so far
  mgManaged,  \* the proxies whose _manager is not None
  mgWire,     \* the objects for which a pickled proxy is in transit
  mgAlive,    \* the client processes that run
  mgIdset,    \* process -> _idset
  mgConn,     \* the processes whose thread has a connection
  mgCalling   \* process -> the proxy whose call awaits its answer, or 0

mgServerVars == <<mgCount, mgObj, mgMade>>
mgClientVars == <<mgWire, mgAlive, mgIdset, mgConn, mgCalling>>
mgProxyVars == <<mgPhase, mgOf, mgTo, mgLast, mgManaged>>
mgLifeVars == <<mgState, mgServer, mgStop, mgSig>>
mgVars == <<mgLifeVars, mgServerVars, mgProxyVars, mgClientVars>>

MgInit ==
  /\ mgState = "initial" /\ mgServer = "none" /\ mgStop = "no" /\ mgSig = "no"
  /\ mgCount = [i \in Idents |-> 0] /\ mgObj = [i \in Idents |-> 0]
  /\ mgMade = [i \in Idents |-> 0]
  /\ mgPhase = [x \in Proxies |-> "none"]
  /\ mgOf = [x \in Proxies |-> MgOwner]
  /\ mgTo = [x \in Proxies |-> [ident |-> CHOOSE i \in Idents : TRUE, n |-> 0]]
  /\ mgLast = 0 /\ mgManaged = {} /\ mgWire = {} /\ mgAlive = {MgOwner}
  /\ mgIdset = [p \in MgProcs |-> {}]
  /\ mgConn = {} /\ mgCalling = [p \in MgProcs |-> 0]

(***************************************************************************)
(* Server: create, incref and decref, and what they leave in the table     *)
(***************************************************************************)

\* The object that is registered as i: one that is in the table already, which
\* the callable has returned again, or a new one, at an address that no other has.
Created(i) == IF mgObj[i] = 0 THEN mgMade[i] + 1 ELSE mgObj[i]

\* create: one more reference, for the caller, until it has a proxy.
Create(i) ==
  /\ mgMade' = [mgMade EXCEPT ![i] = IF mgObj[i] = 0 THEN @ + 1 ELSE @]
  /\ mgObj' = [mgObj EXCEPT ![i] = Created(i)]
  /\ mgCount' = [mgCount EXCEPT ![i] = @ + 1]

\* incref fails with KeyError if there is no count.
Known(i) == mgObj[i] # 0
Incref(i) == mgCount' = [mgCount EXCEPT ![i] = @ + 1] /\ UNCHANGED <<mgObj, mgMade>>

\* Mutant of Decref: the object is kept in id_to_obj.
DecrefKeeps(i) ==
  /\ mgCount' = [mgCount EXCEPT ![i] = IF @ >= 1 THEN @ - 1 ELSE @]
  /\ UNCHANGED <<mgObj, mgMade>>

\* decref: the last one disposes of the object; its assertion fails otherwise.
Decref(i) ==
  /\ mgCount' = [mgCount EXCEPT ![i] = IF @ >= 1 THEN @ - 1 ELSE @]
  /\ mgObj' = [mgObj EXCEPT ![i] = IF mgCount[i] = 1 THEN 0 ELSE @]
  /\ UNCHANGED mgMade

Serving == mgServer = "serving"

(***************************************************************************)
(* BaseManager                                                             *)
(***************************************************************************)

\* start: the server process is spawned ...
MgStart ==
  /\ mgState = "initial" /\ mgServer = "none"
  /\ mgServer' = "boot"
  /\ UNCHANGED <<mgState, mgStop, mgSig, mgServerVars, mgProxyVars, mgClientVars>>

\* ... and _run_server reports its address, which start() waits for.
MgRunServer ==
  /\ mgServer = "boot"
  /\ mgServer' = "serving" /\ mgState' = "started"
  /\ UNCHANGED <<mgStop, mgSig, mgServerVars, mgProxyVars, mgClientVars>>

\* The server process is stuck: it answers nobody any more, and whoever has sent
\* it a request waits.
MgHang ==
  /\ Serving /\ mgServer' = "hung"
  /\ UNCHANGED <<mgState, mgStop, mgSig, mgServerVars, mgProxyVars, mgClientVars>>

Answers == mgServer # "hung"

\* _finalize_manager: "shutdown" is sent if the process lives ...
MgShutdown ==
  /\ mgState = "started" /\ mgStop = "no"
  /\ IF mgServer = "dead" THEN mgStop' = "done" /\ mgState' = "shutdown"
     ELSE mgStop' = "ask" /\ UNCHANGED mgState
  /\ UNCHANGED <<mgServer, mgSig, mgServerVars, mgProxyVars, mgClientVars>>

\* ... and answered: Server.shutdown sets stop_event ...
MgShutdownAnswer ==
  /\ mgStop = "ask" /\ Answers
  /\ mgStop' = "join"
  /\ mgServer' = IF Serving THEN "stopping" ELSE mgServer
  /\ UNCHANGED <<mgState, mgSig, mgServerVars, mgProxyVars, mgClientVars>>

\* ... or it could not be sent, or the answer not be read; that is ignored.
MgShutdownError ==
  /\ mgStop = "ask"
  /\ mgStop' = "join"
  /\ UNCHANGED <<mgState, mgServer, mgSig, mgServerVars, mgProxyVars, mgClientVars>>

\* serve_forever sees stop_event, or is interrupted, and exits with its threads.
MgServerExit ==
  /\ mgServer \in {"serving", "stopping"}
  /\ mgServer' = "dead"
  /\ UNCHANGED <<mgState, mgStop, mgSig, mgServerVars, mgProxyVars, mgClientVars>>

ShutdownDone == mgStop' = "done" /\ mgState' = "shutdown"

\* Mutant of MgShutdownJoin: a server that does not go is left alone.
MgShutdownJoinOnly ==
  /\ mgStop = "join" /\ ShutdownDone
  /\ UNCHANGED <<mgServer, mgSig, mgServerVars, mgProxyVars, mgClientVars>>

\* join(timeout=1.0), and terminate() if the process still lives.  A server may
\* ignore SIGTERM (its initializer can see to that), or be stopped.
MgShutdownJoin ==
  /\ mgStop = "join"
  /\ IF mgServer = "dead" THEN ShutdownDone /\ UNCHANGED mgSig
     ELSE mgStop' = "term" /\ mgSig' \in {"sent", "deaf"} /\ UNCHANGED mgState
  /\ UNCHANGED <<mgServer, mgServerVars, mgProxyVars, mgClientVars>>

\* SIGTERM ends the process ...
MgServerKilled ==
  /\ mgSig = "sent" /\ mgServer # "dead"
  /\ mgServer' = "dead"
  /\ UNCHANGED <<mgState, mgStop, mgSig, mgServerVars, mgProxyVars, mgClientVars>>

\* ... for which join(timeout=0.1) waits, or not: 'manager still alive after
\* terminate'.
MgShutdownGiveUp ==
  /\ mgStop = "term" /\ ShutdownDone
  /\ UNCHANGED <<mgServer, mgSig, mgServerVars, mgProxyVars, mgClientVars>>

(***************************************************************************)
(* Proxies.  x is the next one to be used.                                 *)
(***************************************************************************)

NewProxy(x, p, to, phase) ==
  /\ x = mgLast + 1 /\ x \in Proxies
  /\ mgLast' = x
  /\ mgPhase' = [mgPhase EXCEPT ![x] = phase]
  /\ mgOf' = [mgOf EXCEPT ![x] = p]
  /\ mgTo' = [mgTo EXCEPT ![x] = to]
  /\ mgManaged' = IF phase = "granted" THEN mgManaged \cup {x} ELSE mgManaged

Phase(x, phase) ==
  mgPhase' = [mgPhase EXCEPT ![x] = phase] /\ UNCHANGED <<mgOf, mgTo, mgLast, mgManaged>>

\* The proxies that process p can use.
Usable(p) == {y \in Proxies : mgPhase[y] = "live" /\ mgOf[y] = p}

\* A method of the manager (register's temp), or of a referent that returns a
\* proxy (#PROXY in serve_client), asked through a proxy that has a manager: the
\* server creates the object ...
MgCreate(x, p, i) ==
  /\ Serving /\ p \in mgAlive /\ mgCalling[p] = 0
  /\ p = MgOwner => mgState = "started" \/ Usable(p) \cap mgManaged # {}
  /\ Create(i)
  /\ NewProxy(x, p, [ident |-> i, n |-> Created(i)], "granted")
  /\ UNCHANGED <<mgLifeVars, mgClientVars>>

\* #PROXY through a proxy that was passed on, and so has no manager: _callmethod
\* fails at self._manager._registry, and nobody takes the reference.
MgCreateLost(x, p, i) ==
  /\ Serving /\ p \in mgAlive /\ mgCalling[p] = 0
  /\ Usable(p) \ mgManaged # {}
  /\ Create(i)
  /\ NewProxy(x, p, [ident |-> i, n |-> Created(i)], "orphan")
  /\ UNCHANGED <<mgLifeVars, mgClientVars>>

\* ... BaseProxy.__init__ with incref takes a second reference ...
MgMake(x) ==
  /\ mgPhase[x] = "granted" /\ mgOf[x] \in mgAlive /\ Answers
  /\ LET i == mgTo[x].ident  p == mgOf[x] IN
     IF Serving /\ Known(i)
     THEN /\ Incref(i) /\ Phase(x, "made")
          /\ mgIdset' = [mgIdset EXCEPT ![p] = @ \cup {i}]
     ELSE Phase(x, "failed") /\ UNCHANGED <<mgServerVars, mgIdset>>
  /\ UNCHANGED <<mgLifeVars, mgWire, mgAlive, mgConn, mgCalling>>

\* ... and the caller gives back the first.
MgGiveBack(x) ==
  /\ mgPhase[x] = "made" /\ mgOf[x] \in mgAlive /\ Answers
  /\ IF Serving THEN Decref(mgTo[x].ident) /\ Phase(x, "live")
     ELSE Phase(x, "failed") /\ UNCHANGED mgServerVars
  /\ UNCHANGED <<mgLifeVars, mgClientVars>>

\* __reduce__: only the token travels.
MgPickle(x) ==
  /\ mgPhase[x] = "live" /\ mgOf[x] \in mgAlive
  /\ mgWire' = mgWire \cup {mgTo[x]}
  /\ UNCHANGED <<mgLifeVars, mgServerVars, mgProxyVars, mgAlive, mgIdset, mgConn, mgCalling>>

\* RebuildProxy, in a process that is not inheriting: incref.
MgRebuild(x, p, to) ==
  /\ to \in mgWire /\ p \in mgAlive /\ Answers
  /\ mgWire' = mgWire \ {to}
  /\ IF Serving /\ Known(to.ident)
     THEN /\ Incref(to.ident)
          /\ NewProxy(x, p, [to EXCEPT !.n = mgObj[to.ident]], "live")
          /\ mgIdset' = [mgIdset EXCEPT ![p] = @ \cup {to.ident}]
     ELSE /\ NewProxy(x, p, to, "failed")
          /\ UNCHANGED <<mgServerVars, mgIdset>>
  /\ UNCHANGED <<mgLifeVars, mgAlive, mgConn, mgCalling>>

\* A process is started and inherits y as x: copied by fork, or rebuilt by a
\* spawned process with incref=False.
MgInherit(x, y, p) ==
  /\ mgPhase[y] = "live" /\ mgOf[y] \in mgAlive /\ p \notin mgAlive
  /\ mgAlive' = mgAlive \cup {p}
  /\ NewProxy(x, p, mgTo[y], "bare")
  /\ UNCHANGED <<mgLifeVars, mgServerVars, mgWire, mgIdset, mgConn, mgCalling>>

\* BaseProxy._after_fork, run by the child's bootstrap: incref, whose failure
\* is only logged.
MgAfterFork(x) ==
  /\ mgPhase[x] = "bare" /\ mgOf[x] \in mgAlive /\ Answers
  /\ LET i == mgTo[x].ident  p == mgOf[x] IN
     IF Serving /\ Known(i)
     THEN /\ Incref(i)
          /\ mgPhase' = [mgPhase EXCEPT ![x] = "live"]
          /\ mgTo' = [mgTo EXCEPT ![x].n = mgObj[i]]
          /\ mgIdset' = [mgIdset EXCEPT ![p] = @ \cup {i}]
          /\ UNCHANGED <<mgOf, mgLast, mgManaged>>
     ELSE Phase(x, "failed") /\ UNCHANGED <<mgServerVars, mgIdset>>
  /\ UNCHANGED <<mgLifeVars, mgWire, mgAlive, mgConn, mgCalling>>

\* _callmethod: the thread connects if it has to, and sends the request ...
MgCallSend(x) ==
  /\ Serving /\ mgPhase[x] = "live" /\ mgOf[x] \in mgAlive
  /\ mgCalling[mgOf[x]] = 0
  /\ mgCalling' = [mgCalling EXCEPT ![mgOf[x]] = x]
  /\ mgConn' = mgConn \cup {mgOf[x]}
  /\ UNCHANGED <<mgLifeVars, mgServerVars, mgProxyVars, mgWire, mgAlive, mgIdset>>

\* ... and receives the answer of serve_client, or finds its connection closed.
MgCallReturn(p) ==
  /\ mgCalling[p] # 0 /\ Answers
  /\ mgCalling' = [mgCalling EXCEPT ![p] = 0]
  /\ UNCHANGED <<mgLifeVars, mgServerVars, mgProxyVars, mgWire, mgAlive, mgIdset, mgConn>>

\* _decref asks the server, unless the proxy knows the manager, which is the
\* owner's, to be shut down.
Tells(x) == mgOf[x] # MgOwner \/ x \notin mgManaged \/ mgState = "started"

\* BaseProxy._decref, the finalizer of a proxy that is not in use.
MgClose(x) ==
  LET i == mgTo[x].ident  p == mgOf[x] IN
  /\ mgPhase[x] = "live" /\ p \in mgAlive /\ mgCalling[p] # x /\ Answers
  /\ mgIdset' = [mgIdset EXCEPT ![p] = @ \ {i}]
  /\ mgConn' = IF mgIdset[p] \ {i} = {} THEN mgConn \ {p} ELSE mgConn
  /\ \/ Serving /\ Tells(x) /\ Decref(i) /\ Phase(x, "closed")
     \/ Serving /\ ~Tells(x) /\ UNCHANGED mgServerVars /\ Phase(x, "kept")
     \/ ~Serving /\ UNCHANGED mgServerVars /\ Phase(x, "closed")
  /\ UNCHANGED <<mgLifeVars, mgWire, mgAlive, mgCalling>>

\* A client is killed: its references stay for ever.
MgKill(p) ==
  /\ p \in mgAlive \ {MgOwner}
  /\ mgAlive' = mgAlive \ {p}
  /\ mgConn' = mgConn \ {p} /\ mgCalling' = [mgCalling EXCEPT ![p] = 0]
  /\ UNCHANGED <<mgLifeVars, mgServerVars, mgProxyVars, mgWire, mgIdset>>

MgShutdownStep == MgShutdownAnswer \/ MgShutdownJoin \/ MgShutdownGiveUp
MgNext ==
  \/ MgStart \/ MgRunServer \/ MgHang \/ MgServerExit \/ MgServerKilled
  \/ MgShutdown \/ MgShutdownError \/ MgShutdownStep
  \/ \E x \in Proxies :
       \/ MgMake(x) \/ MgGiveBack(x) \/ MgPickle(x) \/ MgAfterFork(x)
       \/ MgCallSend(x) \/ MgClose(x)
       \/ \E p \in MgProcs, i \in Idents : MgCreate(x, p, i) \/ MgCreateLost(x, p, i)
       \/ \E p \in MgProcs, to \in mgWire : MgRebuild(x, p, to)
       \/ \E p \in MgProcs, y \in Proxies : MgInherit(x, y, p)
  \/ \E p \in MgProcs : MgCallReturn(p) \/ MgKill(p)

MgSpec == MgInit /\ [][MgNext]_mgVars

\* shutdown() goes on when it is answered, and its joins have time limits;
\* SIGTERM is delivered.  The server is not obliged to leave without it.
MgFairness == WF_mgVars(MgShutdownStep) /\ WF_mgVars(MgServerKilled)

(***************************************************************************)
(* Properties                                                              *)
(***************************************************************************)

\* The references to ident i that were granted, and that proxies took.
References(i) ==
  Cardinality({x \in Proxies : mgTo[x].ident = i /\ mgPhase[x] \in {"granted", "made", "orphan"}})
  + Cardinality({x \in Proxies : mgTo[x].ident = i /\ mgPhase[x] \in {"made", "live", "kept"}})

\* While the server serves, every count is the number of references that
\* clients hold, and an object is in the table exactly as long as there is one.
\* Three kinds are never given back: those of killed clients, of a #PROXY answer
\* to a proxy without a manager, and of the owner's proxies closed after a
\* shutdown() that the server survived.
CountsExact ==
  Serving => \A i \in Idents : /\ mgCount[i] = References(i)
                               /\ mgObj[i] # 0 <=> mgCount[i] > 0

\* The object that a proxy reached when it took its reference is there as long
\* as it has it, although ids of disposed objects are used again.  (A proxy that
\* was passed on while nobody held a reference may reach another object, or
\* none: the token has only the id.)
ReferentKept ==
  Serving => \A x \in Proxies :
    mgPhase[x] \in {"granted", "made", "live", "orphan", "kept"} =>
      mgObj[mgTo[x].ident] = mgTo[x].n

\* The finalizer of a proxy does not close the connection that another proxy of
\* the process waits on, unless both stand for one object: _idset counts it once.
CallKeepsConnection ==
  \A p \in MgProcs :
    mgCalling[p] # 0 /\ p \notin mgConn =>
      \E y \in Proxies : /\ mgPhase[y] \in {"closed", "kept"} /\ mgOf[y] = p
                         /\ mgTo[y].ident = mgTo[mgCalling[p]].ident

\* Shared objects live exactly as long as a reference that was not given back, proxies reach the
\* object they took theirs to, and keep the connection they wait on.
ManagersSafe ==
  /\ CountsExact
  /\ ReferentKept
  /\ CallKeepsConnection

\* Once shutdown() has begun it returns, and then the server process goes, also if
\* it does not leave when it is told to: after a second it gets SIGTERM.  A server
\* that SIGTERM does not end is left alive ('manager still alive after terminate'),
\* and one that is stuck when it is asked to shut down keeps shutdown() waiting:
\* that request has no time limit.
ShutdownStops ==
  mgStop = "ask" ~> \/ mgStop = "done" /\ (mgServer = "dead" \/ mgSig = "deaf")
                    \/ mgStop = "ask" /\ mgServer = "hung"

=============================================================================
