----------------------------- MODULE Handshake -----------------------------
(***************************************************************************)
(* The mutual authentication of billiard/connection.py by which            *)
(* Listener.accept and Client, and Server.handle_request of managers.py,   *)
(* open a connection: deliver_challenge and answer_challenge on one side   *)
(* against answer_challenge and deliver_challenge on the other.  A side    *)
(* that raises drops its end of the connection; a side may also die.  A    *)
(* digest is the pair of the key and the challenge.                        *)
(***************************************************************************)
EXTENDS Integers, Sequences

CONSTANT Keys     \* authentication keys

Sides == {"listener", "client"}
Peer(s) == IF s = "client" THEN "listener" ELSE "client"

VARIABLES
  hsKey,   \* side -> its authkey
  hsPc,    \* side -> where it is
  hsIn,    \* side -> messages on the way to it
  hsOpen   \* the sides that have not closed their end

hsVars == <<hsKey, hsPc, hsIn, hsOpen>>

HsInit ==
  /\ hsKey \in [Sides -> Keys]
  /\ hsPc = [s \in Sides |-> "new"]
  /\ hsIn = [s \in Sides |-> <<>>]
  /\ hsOpen = Sides

Message(kind, by, key) == [kind |-> kind, by |-> by, key |-> key]

\* s goes to pc and, if m is not empty, sends it.  A message to a closed end is lost.
Go(s, pc, m, rest) ==
  /\ hsPc' = [hsPc EXCEPT ![s] = pc]
  /\ hsIn' = [hsIn EXCEPT ![s] = rest,
                          ![Peer(s)] = IF Peer(s) \in hsOpen THEN @ \o m ELSE @]

\* The calls after a successful deliver_challenge, and after answer_challenge.
AfterDeliver(s) == IF s = "listener" THEN "answer" ELSE "done"
AfterAnswer(s) == IF s = "client" THEN "deliver" ELSE "done"

\* The connection is made: SocketClient, and accept of the listener.
HsConnect ==
  /\ \A s \in Sides : hsPc[s] = "new"
  /\ hsPc' = [s \in Sides |-> IF s = "listener" THEN "deliver" ELSE "answer"]
  /\ UNCHANGED <<hsKey, hsIn, hsOpen>>

\* deliver_challenge: CHALLENGE and a random message are sent ...
Challenge(s) ==
  /\ hsPc[s] = "deliver"
  /\ Go(s, "digest", <<Message("challenge", s, hsKey[s])>>, hsIn[s])
  /\ UNCHANGED <<hsKey, hsOpen>>

\* Mutant of CheckDigest: the digest is not compared.
CheckDigestAny(s) ==
  /\ hsPc[s] = "digest" /\ hsIn[s] # <<>>
  /\ Go(s, AfterDeliver(s), <<Message("welcome", s, hsKey[s])>>, Tail(hsIn[s]))
  /\ UNCHANGED <<hsKey, hsOpen>>

\* Mutant of CheckDigest: the side raises and keeps the connection, without an
\* answer.
CheckDigestSilent(s) ==
  /\ hsPc[s] = "digest" /\ hsIn[s] # <<>>
  /\ IF Head(hsIn[s]) = Message("digest", s, hsKey[s])
     THEN Go(s, AfterDeliver(s), <<Message("welcome", s, hsKey[s])>>, Tail(hsIn[s]))
     ELSE Go(s, "failed", <<>>, Tail(hsIn[s]))
  /\ UNCHANGED <<hsKey, hsOpen>>

\* ... and the answer is compared with the digest of that message.
CheckDigest(s) ==
  /\ hsPc[s] = "digest" /\ hsIn[s] # <<>>
  /\ IF Head(hsIn[s]) = Message("digest", s, hsKey[s])
     THEN /\ Go(s, AfterDeliver(s), <<Message("welcome", s, hsKey[s])>>, Tail(hsIn[s]))
          /\ UNCHANGED hsOpen
     ELSE /\ Go(s, "failed", <<Message("failure", s, hsKey[s])>>, Tail(hsIn[s]))
          /\ hsOpen' = hsOpen \ {s}
  /\ UNCHANGED hsKey

\* answer_challenge: the digest of the challenge is sent (its assertion fails for
\* any other message) ...
Answer(s) ==
  /\ hsPc[s] = "answer" /\ hsIn[s] # <<>>
  /\ IF Head(hsIn[s]).kind = "challenge"
     THEN /\ Go(s, "verdict", <<Message("digest", Head(hsIn[s]).by, hsKey[s])>>, Tail(hsIn[s]))
          /\ UNCHANGED hsOpen
     ELSE Go(s, "failed", <<>>, Tail(hsIn[s])) /\ hsOpen' = hsOpen \ {s}
  /\ UNCHANGED hsKey

\* ... and the verdict is read.
Verdict(s) ==
  /\ hsPc[s] = "verdict" /\ hsIn[s] # <<>>
  /\ IF Head(hsIn[s]).kind = "welcome"
     THEN Go(s, AfterAnswer(s), <<>>, Tail(hsIn[s])) /\ UNCHANGED hsOpen
     ELSE Go(s, "failed", <<>>, Tail(hsIn[s])) /\ hsOpen' = hsOpen \ {s}
  /\ UNCHANGED hsKey

\* recv_bytes meets the end of the stream.
HsEof(s) ==
  /\ hsPc[s] \in {"digest", "answer", "verdict"} /\ hsIn[s] = <<>>
  /\ Peer(s) \notin hsOpen
  /\ hsPc' = [hsPc EXCEPT ![s] = "failed"]
  /\ hsOpen' = hsOpen \ {s}
  /\ UNCHANGED <<hsKey, hsIn>>

\* The process of s dies.
HsDie(s) ==
  /\ hsPc[s] \notin {"new", "done", "failed", "died"}
  /\ hsPc' = [hsPc EXCEPT ![s] = "died"]
  /\ hsOpen' = hsOpen \ {s}
  /\ UNCHANGED <<hsKey, hsIn>>

HsStep(s) == Challenge(s) \/ CheckDigest(s) \/ Answer(s) \/ Verdict(s) \/ HsEof(s)
HsNext == HsConnect \/ \E s \in Sides : HsStep(s) \/ HsDie(s)

HsSpec == HsInit /\ [][HsNext]_hsVars

\* As long as one of the sides can go on, one of them does.
HsProgress == \E s \in Sides : HsStep(s)
HsFairness == WF_hsVars(HsProgress)

(***************************************************************************)
(* Properties                                                              *)
(***************************************************************************)

\* A side that gets its connection shares the key with the other side, and the
\* messages of the handshake are consumed: the first message it will read from
\* the connection is not one of them.
HandshakeAgrees ==
  \A s \in Sides : hsPc[s] = "done" =>
    /\ hsKey[s] = hsKey[Peer(s)]
    /\ hsIn[s] = <<>>

\* accept() and Client() return or raise: neither side waits for ever, whatever
\* the keys and whenever the other side dies; and with equal keys and no death
\* both succeed.
HandshakeEnds ==
  (\E s \in Sides : hsPc[s] # "new") ~>
    \A s \in Sides :
      \/ hsPc[s] = "done"
      \/ hsPc[s] \in {"failed", "died"}
         /\ (hsKey[s] # hsKey[Peer(s)] \/ \E t \in Sides : hsPc[t] = "died")

=============================================================================
