------------------------------ MODULE IpcProofs ------------------------------
(***************************************************************************)
(* Proofs about how processes reach each other: the authentication         *)
(* handshake, the resource sharer, the shared-memory heap and messages     *)
(* over a connection.  For each an inductive invariant is stated, shown to *)
(* hold at the start, to be kept by every action and to imply what the     *)
(* module promises.                                                        *)
(***************************************************************************)
EXTENDS Handshake, Sharer, Heap, Connection, FiniteSetTheorems, SequenceTheorems, TLAPS

(***************************************************************************)
(* Handshake                                                               *)
(***************************************************************************)

\* The four kinds of message, as they are sent by s.
ChallengeOf(s) == Message("challenge", s, hsKey[s])
DigestTo(s) == Message("digest", s, hsKey[Peer(s)])
WelcomeOf(s) == Message("welcome", s, hsKey[s])
FailureOf(s) == Message("failure", s, hsKey[s])

\* The keys and the places of the sides have their types, and a side has closed
\* its end when it has raised or died.
HsType ==
  /\ hsKey \in [Sides -> Keys]
  /\ hsPc \in [Sides -> {"new", "deliver", "digest", "answer", "verdict", "done", "failed", "died"}]
  /\ DOMAIN hsIn = Sides
  /\ hsOpen = {s \in Sides : hsPc[s] \notin {"failed", "died"}}

\* What is on the way to a side that still reads, the keys known to agree where
\* that was verified.
Inbox(s) ==
  \/ hsPc[s] \in {"new", "deliver"} /\ hsIn[s] = <<>>
  \/ hsPc[s] = "digest" /\ (hsIn[s] = <<>> \/ hsIn[s] = <<DigestTo(s)>>)
  \/ hsPc[s] = "answer" /\ (hsIn[s] = <<>> \/ hsIn[s] = <<ChallengeOf(Peer(s))>>)
  \/ /\ hsPc[s] = "verdict"
     /\ \/ hsIn[s] = <<>> \/ hsIn[s] = <<FailureOf(Peer(s))>>
        \/ hsIn[s] = <<WelcomeOf(Peer(s))>> /\ hsKey[s] = hsKey[Peer(s)]
  \/ hsPc[s] = "done" /\ hsIn[s] = <<>> /\ hsKey[s] = hsKey[Peer(s)]

\* The places of both sides and what is on the way to them.
At(pcL, inL, pcC, inC) ==
  /\ hsPc["listener"] = pcL /\ hsIn["listener"] = inL
  /\ hsPc["client"] = pcC /\ hsIn["client"] = inC

\* As long as both ends are open the sides are in step: at any time one of them
\* is to go on, and nothing else is on the way.
InStep ==
  \/ At("new", <<>>, "new", <<>>)
  \/ At("deliver", <<>>, "answer", <<>>)
  \/ At("digest", <<>>, "answer", <<ChallengeOf("listener")>>)
  \/ At("digest", <<DigestTo("listener")>>, "verdict", <<>>)
  \/ /\ hsKey["listener"] = hsKey["client"]
     /\ \/ At("answer", <<>>, "verdict", <<WelcomeOf("listener")>>)
        \/ At("answer", <<>>, "deliver", <<>>)
        \/ At("answer", <<ChallengeOf("client")>>, "digest", <<>>)
        \/ At("verdict", <<>>, "digest", <<DigestTo("client")>>)
        \/ At("verdict", <<WelcomeOf("client")>>, "done", <<>>)
        \/ At("done", <<>>, "done", <<>>)

\* The inductive invariant of the handshake.
HsInv ==
  /\ HsType
  /\ \A s \in Sides : s \in hsOpen => Inbox(s)
  /\ Sides \subseteq hsOpen => InStep

\* The pipe with one message, and without.
LEMMA OneMessage ==
  ASSUME NEW m
  PROVE  /\ <<m>> # <<>> /\ Head(<<m>>) = m /\ Tail(<<m>>) = <<>>
         /\ <<>> \o <<m>> = <<m>> /\ <<>> \o <<>> = <<>>
OBVIOUS

\* The sides and their peers.
LEMMA TwoSides ==
  /\ Sides = {"listener", "client"} /\ Peer("listener") = "client"
  /\ Peer("client") = "listener"
  /\ \A s \in Sides : Peer(s) \in Sides /\ Peer(s) # s /\ Peer(Peer(s)) = s
                      /\ \A t \in Sides : t = s \/ t = Peer(s)
BY DEF Sides, Peer

\* The kinds of message differ.
LEMMA KindsDiffer ==
  ASSUME NEW s
  PROVE  /\ ChallengeOf(s).kind = "challenge" /\ DigestTo(s).kind = "digest"
         /\ WelcomeOf(s).kind = "welcome" /\ FailureOf(s).kind = "failure"
         /\ ChallengeOf(s).by = s /\ DigestTo(s).key = hsKey[Peer(s)]
BY DEF ChallengeOf, DigestTo, WelcomeOf, FailureOf, Message

\* The invariant holds before the connection is made.
LEMMA HsInitHolds == HsInit => HsInv
<1> SUFFICES ASSUME HsInit PROVE HsInv
  OBVIOUS
<1>1. HsType
  BY DEF HsInit, HsType, Sides
<1>2. \A s \in Sides : Inbox(s)
  BY DEF HsInit, Inbox
<1>3. InStep
  BY DEF HsInit, InStep, At, Sides
<1> QED
  BY <1>1, <1>2, <1>3 DEF HsInv

\* Sides in step have the messages on their way that they expect.
LEMMA InStepInboxes == InStep => \A s \in Sides : Inbox(s)
BY TwoSides DEF InStep, At, Inbox

\* What Go does to the variables.
LEMMA GoIs ==
  ASSUME HsType, NEW s \in Sides, NEW pc, NEW m, NEW rest, Go(s, pc, m, rest)
  PROVE  /\ hsPc'[s] = pc /\ hsPc'[Peer(s)] = hsPc[Peer(s)]
         /\ hsIn'[s] = rest
         /\ hsIn'[Peer(s)] = IF Peer(s) \in hsOpen THEN hsIn[Peer(s)] \o m ELSE hsIn[Peer(s)]
         /\ hsPc' = [hsPc EXCEPT ![s] = pc] /\ DOMAIN hsIn' = Sides
BY TwoSides DEF Go, HsType

\* A step of s in general: the keys stay, the other side stays where it is, and
\* s has closed its end or not.
Moves(s) ==
  /\ hsKey' = hsKey /\ hsPc'[Peer(s)] = hsPc[Peer(s)] /\ DOMAIN hsIn' = Sides
  /\ \E pc \in {"deliver", "digest", "answer", "verdict", "done", "failed", "died"} :
       /\ hsPc' = [hsPc EXCEPT ![s] = pc]
       /\ hsOpen' = IF pc \in {"failed", "died"} THEN hsOpen \ {s} ELSE hsOpen

\* Such a step keeps the types.
LEMMA MovesType ==
  ASSUME HsType, NEW s \in Sides, s \in hsOpen, Moves(s)
  PROVE  HsType' /\ (Peer(s) \in hsOpen' <=> Peer(s) \in hsOpen)
<1>1. PICK pc \in {"deliver", "digest", "answer", "verdict", "done", "failed", "died"} :
        /\ hsPc' = [hsPc EXCEPT ![s] = pc]
        /\ hsOpen' = IF pc \in {"failed", "died"} THEN hsOpen \ {s} ELSE hsOpen
  BY DEF Moves
<1>2. hsOpen' = {t \in Sides : hsPc'[t] \notin {"failed", "died"}}
  BY <1>1 DEF HsType
<1> QED
  BY <1>1, <1>2, TwoSides DEF HsType, Moves

\* What is left to show of a step of s: if the other end is open, that the sides
\* are in step or s has left with the right message; if it is closed, that s
\* itself has the right messages.
LEMMA MovesKeep ==
  ASSUME HsInv, NEW s \in Sides, s \in hsOpen, Moves(s),
         Peer(s) \in hsOpen =>
           (s \in hsOpen' /\ InStep') \/ (s \notin hsOpen' /\ Inbox(Peer(s))'),
         Peer(s) \notin hsOpen => s \notin hsOpen' \/ Inbox(s)'
  PROVE  HsInv'
<1>1. HsType' /\ (Peer(s) \in hsOpen' <=> Peer(s) \in hsOpen)
  BY MovesType DEF HsInv
<1>2. InStep' => \A t \in Sides : Inbox(t)'
  BY TwoSides DEF InStep, At, Inbox
<1>3. \A t \in Sides : t = s \/ t = Peer(s)
  BY TwoSides
<1>4. Peer(s) \in Sides
  BY TwoSides
<1>5. ASSUME NEW t \in Sides, t \in hsOpen' PROVE Inbox(t)'
  BY <1>1, <1>2, <1>3, <1>4, <1>5
<1>6. Sides \subseteq hsOpen' => InStep'
  BY <1>1, <1>4
<1> QED
  BY <1>1, <1>5, <1>6 DEF HsInv

\* The state of both sides, from the place of one of them.
LEMMA WhenBothOpen ==
  ASSUME HsInv, NEW s \in Sides, s \in hsOpen, Peer(s) \in hsOpen
  PROVE  InStep
<1>1. Sides \subseteq hsOpen
  BY TwoSides
<1> QED
  BY <1>1 DEF HsInv

\* A side sends its challenge.
LEMMA ChallengeKeeps ==
  ASSUME HsInv, NEW s \in Sides, Challenge(s)
  PROVE  HsInv'
<1> DEFINE m == ChallengeOf(s)
<1>1. /\ hsPc'[s] = "digest" /\ hsPc'[Peer(s)] = hsPc[Peer(s)] /\ hsIn'[s] = hsIn[s]
      /\ hsIn'[Peer(s)] = IF Peer(s) \in hsOpen THEN hsIn[Peer(s)] \o <<m>> ELSE hsIn[Peer(s)]
      /\ hsPc' = [hsPc EXCEPT ![s] = "digest"] /\ DOMAIN hsIn' = Sides
      /\ hsKey' = hsKey /\ hsOpen' = hsOpen /\ hsPc[s] = "deliver"
  BY GoIs DEF Challenge, HsInv, ChallengeOf
<1>2. Moves(s) /\ s \in hsOpen
  BY <1>1 DEF Moves, HsInv, HsType
<1>3. m' = m /\ <<>> \o <<m>> = <<m>>
  BY <1>1 DEF ChallengeOf
<1>4. Peer(s) \in hsOpen => InStep'
  <2> HIDE DEF m
  <2> SUFFICES ASSUME Peer(s) \in hsOpen PROVE InStep'
    OBVIOUS
  <2>1. InStep
    BY <1>2, WhenBothOpen
  <2>2. CASE s = "listener"
    <3>1. hsPc["client"] = "answer" /\ hsIn["client"] = <<>> /\ hsIn["listener"] = <<>>
      BY <1>1, <2>1, <2>2 DEF InStep, At
    <3> QED
      BY <1>1, <1>3, <2>2, <3>1, TwoSides DEF InStep, At, m
  <2>3. CASE s = "client"
    <3>1. /\ hsPc["listener"] = "answer" /\ hsIn["client"] = <<>> /\ hsIn["listener"] = <<>>
          /\ hsKey["listener"] = hsKey["client"]
      BY <1>1, <2>1, <2>3 DEF InStep, At
    <3> QED
      BY <1>1, <1>3, <2>3, <3>1, TwoSides DEF InStep, At, m
  <2> QED
    BY <2>2, <2>3, TwoSides
<1>5. Inbox(s)'
  <2>1. hsIn[s] = <<>>
    BY <1>1, <1>2 DEF HsInv, Inbox
  <2> QED
    BY <1>1, <2>1 DEF Inbox
<1> QED
  BY <1>1, <1>2, <1>4, <1>5, MovesKeep

\* A side compares the digest that it was sent.
LEMMA CheckDigestKeeps ==
  ASSUME HsInv, NEW s \in Sides, CheckDigest(s)
  PROVE  HsInv'
<1>0. hsPc[s] = "digest" /\ hsIn[s] # <<>> /\ HsType /\ hsKey' = hsKey
  BY DEF CheckDigest, HsInv
<1>1. s \in hsOpen
  BY <1>0 DEF HsType
<1>2. hsIn[s] = <<DigestTo(s)>>
  BY <1>0, <1>1 DEF HsInv, Inbox
<1>3. Head(hsIn[s]) = DigestTo(s) /\ Tail(hsIn[s]) = <<>>
  BY <1>2, OneMessage
<1>4. DigestTo(s) = Message("digest", s, hsKey[s]) <=> hsKey[s] = hsKey[Peer(s)]
  BY DEF DigestTo, Message
<1>5. CASE hsKey[s] = hsKey[Peer(s)]
  <2> DEFINE m == WelcomeOf(s)
  <2>1. /\ hsPc'[s] = AfterDeliver(s) /\ hsPc'[Peer(s)] = hsPc[Peer(s)] /\ hsIn'[s] = <<>>
        /\ hsIn'[Peer(s)] = IF Peer(s) \in hsOpen THEN hsIn[Peer(s)] \o <<m>> ELSE hsIn[Peer(s)]
        /\ hsPc' = [hsPc EXCEPT ![s] = AfterDeliver(s)] /\ DOMAIN hsIn' = Sides
        /\ hsOpen' = hsOpen
    BY <1>0, <1>3, <1>4, <1>5, GoIs DEF CheckDigest, WelcomeOf
  <2>2. Moves(s)
    BY <1>0, <2>1 DEF Moves, AfterDeliver
  <2>3. m' = m /\ <<>> \o <<m>> = <<m>>
    BY <1>0 DEF WelcomeOf
  <2>4. Peer(s) \in hsOpen => InStep'
    <3> HIDE DEF m
    <3> SUFFICES ASSUME Peer(s) \in hsOpen PROVE InStep'
      OBVIOUS
    <3>1. InStep
      BY <1>1, WhenBothOpen
    <3>2. CASE s = "listener"
      <4>1. hsPc["client"] = "verdict" /\ hsIn["client"] = <<>>
        BY <1>0, <3>1, <3>2 DEF InStep, At
      <4> QED
        BY <1>0, <1>5, <2>1, <2>3, <3>2, <4>1, TwoSides DEF InStep, At, m, AfterDeliver
    <3>3. CASE s = "client"
      <4>1. hsPc["listener"] = "verdict" /\ hsIn["listener"] = <<>>
        BY <1>0, <3>1, <3>3 DEF InStep, At
      <4> QED
        BY <1>0, <1>5, <2>1, <2>3, <3>3, <4>1, TwoSides DEF InStep, At, m, AfterDeliver
    <3> QED
      BY <3>2, <3>3, TwoSides
  <2>5. Inbox(s)'
    BY <1>0, <1>5, <2>1 DEF Inbox, AfterDeliver
  <2> QED
    BY <1>1, <2>1, <2>2, <2>4, <2>5, MovesKeep
<1>6. CASE hsKey[s] # hsKey[Peer(s)]
  <2> DEFINE m == FailureOf(s)
  <2>0. Go(s, "failed", <<m>>, <<>>) /\ hsOpen' = hsOpen \ {s}
    BY <1>3, <1>4, <1>6 DEF CheckDigest, FailureOf
  <2>1. /\ hsPc'[s] = "failed" /\ hsPc'[Peer(s)] = hsPc[Peer(s)] /\ hsIn'[s] = <<>>
        /\ hsIn'[Peer(s)] = IF Peer(s) \in hsOpen THEN hsIn[Peer(s)] \o <<m>> ELSE hsIn[Peer(s)]
        /\ hsPc' = [hsPc EXCEPT ![s] = "failed"] /\ DOMAIN hsIn' = Sides
        /\ hsOpen' = hsOpen \ {s}
    <3> HIDE DEF m
    <3> QED
      BY <1>0, <2>0, GoIs
  <2>2. Moves(s) /\ s \notin hsOpen'
    BY <1>0, <2>1 DEF Moves
  <2>3. m' = m /\ <<>> \o <<m>> = <<m>>
    BY <1>0 DEF FailureOf
  <2>4. Peer(s) \in hsOpen => Inbox(Peer(s))'
    <3> HIDE DEF m
    <3> SUFFICES ASSUME Peer(s) \in hsOpen PROVE Inbox(Peer(s))'
      OBVIOUS
    <3>1. InStep
      BY <1>1, WhenBothOpen
    <3>2. hsPc[Peer(s)] = "verdict" /\ hsIn[Peer(s)] = <<>>
      BY <1>0, <1>6, <3>1, TwoSides DEF InStep, At
    <3>3. hsPc'[Peer(s)] = "verdict" /\ hsIn'[Peer(s)] = <<m'>>
      BY <2>1, <2>3, <3>2
    <3>4. Peer(Peer(s)) = s
      BY TwoSides
    <3> QED
      BY <3>3, <3>4 DEF Inbox, m
  <2> QED
    BY <1>1, <2>2, <2>4, MovesKeep
<1> QED
  BY <1>5, <1>6

\* A side answers a challenge.
LEMMA AnswerKeeps ==
  ASSUME HsInv, NEW s \in Sides, Answer(s)
  PROVE  HsInv'
<1>0. hsPc[s] = "answer" /\ hsIn[s] # <<>> /\ HsType /\ hsKey' = hsKey
  BY DEF Answer, HsInv
<1>1. s \in hsOpen
  BY <1>0 DEF HsType
<1>2. hsIn[s] = <<ChallengeOf(Peer(s))>>
  BY <1>0, <1>1 DEF HsInv, Inbox
<1>3. Head(hsIn[s]) = ChallengeOf(Peer(s)) /\ Tail(hsIn[s]) = <<>>
  BY <1>2, OneMessage
<1>4. Head(hsIn[s]).kind = "challenge" /\ Head(hsIn[s]).by = Peer(s)
  BY <1>3, KindsDiffer
<1>5. Peer(Peer(s)) = s /\ Peer(s) \in Sides
  BY TwoSides
<1> DEFINE m == DigestTo(Peer(s))
<1> HIDE DEF m
<1>5a. Go(s, "verdict", <<m>>, <<>>) /\ hsOpen' = hsOpen
  BY <1>3, <1>4, <1>5 DEF Answer, DigestTo, m
<1>6. /\ hsPc'[s] = "verdict" /\ hsPc'[Peer(s)] = hsPc[Peer(s)] /\ hsIn'[s] = <<>>
      /\ hsIn'[Peer(s)] = IF Peer(s) \in hsOpen THEN hsIn[Peer(s)] \o <<m>> ELSE hsIn[Peer(s)]
      /\ hsPc' = [hsPc EXCEPT ![s] = "verdict"] /\ DOMAIN hsIn' = Sides
      /\ hsOpen' = hsOpen
  BY <1>0, <1>5a, GoIs
<1>7. Moves(s)
  BY <1>0, <1>6 DEF Moves
<1>8. m' = m /\ <<>> \o <<m>> = <<m>>
  BY <1>0 DEF DigestTo, m
<1>9. Peer(s) \in hsOpen => InStep'
  <2> HIDE DEF m
  <2> SUFFICES ASSUME Peer(s) \in hsOpen PROVE InStep'
    OBVIOUS
  <2>1. InStep
    BY <1>1, WhenBothOpen
  <2>2. CASE s = "listener"
    <3>1. /\ hsPc["client"] = "digest" /\ hsIn["client"] = <<>>
          /\ hsKey["listener"] = hsKey["client"]
      BY <1>0, <2>1, <2>2 DEF InStep, At
    <3> QED
      BY <1>0, <1>6, <1>8, <2>2, <3>1, TwoSides DEF InStep, At, m
  <2>3. CASE s = "client"
    <3>1. hsPc["listener"] = "digest" /\ hsIn["listener"] = <<>>
      BY <1>0, <2>1, <2>3 DEF InStep, At
    <3> QED
      BY <1>0, <1>6, <1>8, <2>3, <3>1, TwoSides DEF InStep, At, m
  <2> QED
    BY <2>2, <2>3, TwoSides
<1>10. Inbox(s)'
  BY <1>6 DEF Inbox
<1> QED
  BY <1>1, <1>6, <1>7, <1>9, <1>10, MovesKeep

\* A side reads the verdict on its digest.
LEMMA VerdictKeeps ==
  ASSUME HsInv, NEW s \in Sides, Verdict(s)
  PROVE  HsInv'
<1>0. hsPc[s] = "verdict" /\ hsIn[s] # <<>> /\ HsType /\ hsKey' = hsKey
  BY DEF Verdict, HsInv
<1>1. s \in hsOpen
  BY <1>0 DEF HsType
<1>2. \/ hsIn[s] = <<WelcomeOf(Peer(s))>> /\ hsKey[s] = hsKey[Peer(s)]
      \/ hsIn[s] = <<FailureOf(Peer(s))>>
  BY <1>0, <1>1 DEF HsInv, Inbox
<1>3. Tail(hsIn[s]) = <<>> /\ hsIn[s] = <<Head(hsIn[s])>>
  BY <1>2, OneMessage
<1>4. Head(hsIn[s]).kind = "welcome" => hsKey[s] = hsKey[Peer(s)]
  BY <1>2, OneMessage, KindsDiffer
<1>5. Peer(s) \in hsOpen => hsIn[Peer(s)] \o <<>> = hsIn[Peer(s)]
  <2>1. Peer(s) \in hsOpen => hsIn[Peer(s)] = <<>>
    <3> SUFFICES ASSUME Peer(s) \in hsOpen PROVE hsIn[Peer(s)] = <<>>
      OBVIOUS
    <3>1. InStep
      BY <1>1, WhenBothOpen
    <3> QED
      BY <1>0, <3>1, TwoSides DEF InStep, At
  <2> QED
    BY <2>1, OneMessage
<1>6. CASE Head(hsIn[s]).kind = "welcome"
  <2>1. /\ hsPc'[s] = AfterAnswer(s) /\ hsPc'[Peer(s)] = hsPc[Peer(s)] /\ hsIn'[s] = <<>>
        /\ hsIn'[Peer(s)] = hsIn[Peer(s)]
        /\ hsPc' = [hsPc EXCEPT ![s] = AfterAnswer(s)] /\ DOMAIN hsIn' = Sides
        /\ hsOpen' = hsOpen
    <3>1. Go(s, AfterAnswer(s), <<>>, Tail(hsIn[s])) /\ hsOpen' = hsOpen
      BY <1>6 DEF Verdict
    <3>2. /\ hsPc'[s] = AfterAnswer(s) /\ hsPc'[Peer(s)] = hsPc[Peer(s)]
          /\ hsIn'[s] = Tail(hsIn[s])
          /\ hsIn'[Peer(s)] = IF Peer(s) \in hsOpen THEN hsIn[Peer(s)] \o <<>>
                             ELSE hsIn[Peer(s)]
          /\ hsPc' = [hsPc EXCEPT ![s] = AfterAnswer(s)] /\ DOMAIN hsIn' = Sides
      BY <1>0, <3>1, GoIs
    <3> QED
      BY <1>3, <1>5, <3>1, <3>2
  <2>2. Moves(s)
    BY <1>0, <2>1 DEF Moves, AfterAnswer
  <2>3. Peer(s) \in hsOpen => InStep'
    <3> SUFFICES ASSUME Peer(s) \in hsOpen PROVE InStep'
      OBVIOUS
    <3>1. InStep
      BY <1>1, WhenBothOpen
    <3>2. CASE s = "listener"
      <4>1. hsPc["client"] = "done" /\ hsIn["client"] = <<>>
        BY <1>0, <3>1, <3>2 DEF InStep, At
      <4> QED
        BY <1>0, <1>4, <1>6, <2>1, <3>2, <4>1, TwoSides DEF InStep, At, AfterAnswer
    <3>3. CASE s = "client"
      <4>1. hsPc["listener"] = "answer" /\ hsIn["listener"] = <<>>
        BY <1>0, <3>1, <3>3 DEF InStep, At
      <4> QED
        BY <1>0, <1>4, <1>6, <2>1, <3>3, <4>1, TwoSides DEF InStep, At, AfterAnswer
    <3> QED
      BY <3>2, <3>3, TwoSides
  <2>4. Inbox(s)'
    BY <1>0, <1>4, <1>6, <2>1 DEF Inbox, AfterAnswer
  <2> QED
    BY <1>1, <2>1, <2>2, <2>3, <2>4, MovesKeep
<1>7. CASE Head(hsIn[s]).kind # "welcome"
  <2>0. Go(s, "failed", <<>>, <<>>) /\ hsOpen' = hsOpen \ {s}
    BY <1>3, <1>7 DEF Verdict
  <2>1. /\ hsPc'[s] = "failed" /\ hsPc'[Peer(s)] = hsPc[Peer(s)] /\ hsIn'[s] = <<>>
        /\ hsIn'[Peer(s)] = hsIn[Peer(s)]
        /\ hsPc' = [hsPc EXCEPT ![s] = "failed"] /\ DOMAIN hsIn' = Sides
        /\ hsOpen' = hsOpen \ {s}
    BY <1>0, <1>5, <2>0, GoIs
  <2>2. Moves(s) /\ s \notin hsOpen'
    BY <1>0, <2>1 DEF Moves
  <2>3. Peer(s) \in hsOpen => Inbox(Peer(s))'
    <3>1. Peer(s) \in hsOpen => Inbox(Peer(s))
      BY TwoSides DEF HsInv
    <3> QED
      BY <1>0, <2>1, <3>1, TwoSides DEF Inbox, DigestTo, ChallengeOf, WelcomeOf, FailureOf
  <2> QED
    BY <1>1, <2>2, <2>3, MovesKeep
<1> QED
  BY <1>6, <1>7

\* A side meets the end of the stream, or dies.
LEMMA LeavesKeeps ==
  ASSUME HsInv, NEW s \in Sides, HsEof(s) \/ HsDie(s)
  PROVE  HsInv'
<1>1. PICK pc \in {"failed", "died"} :
        /\ hsPc' = [hsPc EXCEPT ![s] = pc] /\ hsOpen' = hsOpen \ {s}
        /\ hsKey' = hsKey /\ hsIn' = hsIn /\ hsPc[s] \notin {"failed", "died"}
  BY DEF HsEof, HsDie
<1>2. s \in hsOpen /\ s \notin hsOpen' /\ hsPc'[Peer(s)] = hsPc[Peer(s)]
  BY <1>1, TwoSides DEF HsInv, HsType
<1>3. Moves(s)
  BY <1>1, <1>2 DEF Moves, HsInv, HsType
<1>4. Peer(s) \in hsOpen => Inbox(Peer(s))'
  <2>1. Peer(s) \in hsOpen => Inbox(Peer(s))
    BY TwoSides DEF HsInv
  <2> QED
    BY <1>1, <1>2, <2>1 DEF Inbox, DigestTo, ChallengeOf, WelcomeOf, FailureOf
<1> QED
  BY <1>2, <1>3, <1>4, MovesKeep

\* The connection is made.
LEMMA HsConnectKeeps == HsInv /\ HsConnect => HsInv'
<1> SUFFICES ASSUME HsInv, HsConnect PROVE HsInv'
  OBVIOUS
<1>1. /\ hsPc["listener"] = "new" /\ hsPc["client"] = "new" /\ UNCHANGED <<hsKey, hsIn, hsOpen>>
      /\ hsPc' = [s \in Sides |-> IF s = "listener" THEN "deliver" ELSE "answer"]
      /\ hsPc'["listener"] = "deliver" /\ hsPc'["client"] = "answer"
  BY TwoSides DEF HsConnect
<1>2. hsOpen = Sides /\ HsType'
  BY <1>1, TwoSides DEF HsInv, HsType
<1>3. hsIn["listener"] = <<>> /\ hsIn["client"] = <<>>
  BY <1>1, <1>2, TwoSides DEF HsInv, Inbox
<1>4. InStep'
  BY <1>1, <1>3 DEF InStep, At
<1>5. InStep' => \A t \in Sides : Inbox(t)'
  BY TwoSides DEF InStep, At, Inbox
<1> QED
  BY <1>2, <1>4, <1>5 DEF HsInv

\* Every step of the handshake keeps the invariant.
LEMMA HsNextKeeps == HsInv /\ [HsNext]_hsVars => HsInv'
<1> SUFFICES ASSUME HsInv, [HsNext]_hsVars PROVE HsInv'
  OBVIOUS
<1>1. CASE HsConnect
  BY <1>1, HsConnectKeeps
<1>2. ASSUME NEW s \in Sides, HsStep(s) \/ HsDie(s) PROVE HsInv'
  BY <1>2, ChallengeKeeps, CheckDigestKeeps, AnswerKeeps, VerdictKeeps,
     LeavesKeeps DEF HsStep
<1>3. CASE UNCHANGED hsVars
  BY <1>3 DEF hsVars, HsInv, HsType, Inbox, InStep, At, DigestTo, ChallengeOf, WelcomeOf,
              FailureOf
<1> QED
  BY <1>1, <1>2, <1>3 DEF HsNext

\* A side that gets its connection shares the key with the other side and has
\* read every message of the handshake, for every set of keys and whenever a
\* side raises or dies.
THEOREM HandshakeIsMutual == HsSpec => []HandshakeAgrees
<1>1. HsInv => HandshakeAgrees
  BY DEF HsInv, HsType, Inbox, HandshakeAgrees
<1> QED
  BY <1>1, HsInitHolds, HsNextKeeps, PTL DEF HsSpec

(***************************************************************************)
(* Sharer                                                                  *)
(***************************************************************************)

\* Every variable has its type; stop() waits for a thread only if there is a
\* listener, and there is none any more when it closes the descriptors.
ShType ==
  /\ shListener \in 0..MaxStarts /\ shStarts \in 0..MaxStarts /\ shKey \in 0..MaxResources
  /\ shCache \subseteq 1..shKey
  /\ shCloses \in [Resources -> Nat] /\ shGiven \in [Resources -> Nat]
  /\ shBacklog \in Seq(ShClients \cup {ShStopper})
  /\ shThread \in [Threads -> {"none", "loop", "recv", "send", "ended"}]
  /\ shConn \in [Threads -> ShClients \cup {ShStopper}]
  /\ shClient \in [ShClients -> {"idle", "connected", "asked", "got", "error", "dead"}]
  /\ shWants \in [ShClients -> 0..MaxResources]
  /\ shStop \in {"idle", "join", "close"} /\ shWarned \in BOOLEAN
  /\ shStop = "join" => shListener # 0
  /\ shStop = "close" => shListener = 0

\* Whoever waits for accept or is served has named the key that it wants.
ShBusy ==
  /\ \A n \in 1..Len(shBacklog) : shBacklog[n] \in ShClients => shClient[shBacklog[n]] # "idle"
  /\ \A e \in Threads : shThread[e] \in {"recv", "send"} /\ shConn[e] \in ShClients =>
       shClient[shConn[e]] # "idle"

\* Thread e has taken the resource with key k out of the cache, to send it.
Holding(e, k) ==
  shThread[e] = "send" /\ shConn[e] \in ShClients /\ shWants[shConn[e]] = k

\* A resource that a thread holds is no longer in the cache, was not handed out
\* and is held by no other thread.
ShHeld ==
  /\ \A e \in Threads : shThread[e] = "send" => \E k \in 1..shKey : Holding(e, k)
  /\ \A e \in Threads, k \in 1..shKey : Holding(e, k) =>
       /\ k \notin shCache /\ shGiven[k] = 0
       /\ \A f \in Threads : Holding(f, k) => f = e

\* A resource in the cache, or not registered yet, was not handed out.
ShFresh ==
  /\ \A k \in Resources : k \in shCache \/ k > shKey => shGiven[k] = 0
  /\ \A k \in Resources : k > shKey => shCloses[k] = 0
  /\ HandedOnce

\* As long as every stop() has waited for its thread, no thread but the one of
\* the current listener runs.
ShAlone ==
  ~shWarned =>
    \A e \in Threads : shThread[e] \in {"loop", "recv", "send"} => e = shListener

\* How often the duplicate of k must have been closed.
DueCloses(k) ==
  IF k \in shCache THEN (IF shStop = "close" /\ k \in shSeen THEN 1 ELSE 0)
  ELSE IF \E e \in Threads : Holding(e, k) THEN 0 ELSE 1

\* As long as every stop() has waited for its thread, the closes are accounted
\* for, the cache is empty when there is no listener, and it does not change
\* while stop() goes through it.
ShAccount ==
  ~shWarned =>
    /\ \A k \in 1..shKey : shCloses[k] = DueCloses(k)
    /\ shListener = 0 /\ shStop = "idle" => shCache = {}
    /\ shStop = "close" => shSize = Cardinality(shCache)

\* The inductive invariant of the sharer.
ShInv == ShType /\ ShBusy /\ ShHeld /\ ShFresh /\ ShAlone /\ ShAccount

\* The sharer at the start.
LEMMA ShInitHolds == ShInit => ShInv
<1> SUFFICES ASSUME ShInit PROVE ShInv
  OBVIOUS
<1>0. MaxStarts \in Nat /\ MaxResources \in Nat
  BY SharerAssumption
<1>1. shBacklog = <<>> /\ shBacklog \in Seq(ShClients \cup {ShStopper}) /\ Len(shBacklog) = 0
  BY DEF ShInit
<1>2. ShType
  <2>1. shCloses \in [Resources -> Nat] /\ shGiven \in [Resources -> Nat]
    BY DEF ShInit
  <2>2. /\ shListener \in 0..MaxStarts /\ shStarts \in 0..MaxStarts /\ shKey \in 0..MaxResources
        /\ shCache \subseteq 1..shKey
    BY <1>0 DEF ShInit
  <2>3. /\ shThread \in [Threads -> {"none", "loop", "recv", "send", "ended"}]
        /\ shConn \in [Threads -> ShClients \cup {ShStopper}]
        /\ shClient \in [ShClients -> {"idle", "connected", "asked", "got", "error", "dead"}]
    BY DEF ShInit
  <2>4. shWants \in [ShClients -> 0..MaxResources]
    BY <1>0 DEF ShInit
  <2> QED
    BY <1>1, <2>1, <2>2, <2>3, <2>4 DEF ShInit, ShType
<1>3. ShBusy /\ ShHeld /\ ShFresh /\ ShAlone /\ ShAccount
  BY <1>0, <1>1 DEF ShInit, ShBusy, ShHeld, ShFresh, ShAlone, ShAccount, Holding,
     HandedOnce,
                    Resources, Threads
<1> QED
  BY <1>2, <1>3 DEF ShInv

\* A client that has begun never comes back to "idle" nor changes its key.
Onward == \A d \in ShClients : shClient[d] # "idle" =>
            shClient'[d] # "idle" /\ shWants'[d] = shWants[d]

\* The threads and the cache keep their resources.
Calm ==
  /\ UNCHANGED <<shKey, shCache, shCloses, shGiven>>
  /\ \A e \in Threads : shThread'[e] = "send" <=> shThread[e] = "send"
  /\ \A e \in Threads : shThread[e] = "send" => shConn'[e] = shConn[e]

\* stop() stays where it is, and so does the listener.
StopStays == UNCHANGED <<shListener, shStop, shSeen, shSize, shWarned>>

\* Clients that go onward keep what a thread holds.
LEMMA HoldingStays ==
  ASSUME ShInv, Onward, NEW e \in Threads, NEW k,
         shThread'[e] = "send" <=> shThread[e] = "send",
         shThread[e] = "send" => shConn'[e] = shConn[e]
  PROVE  Holding(e, k)' <=> Holding(e, k)
<1>1. shThread[e] = "send" /\ shConn[e] \in ShClients => shWants'[shConn[e]] = shWants[shConn[e]]
  BY DEF Onward, ShInv, ShBusy
<1> QED
  BY <1>1 DEF Holding

\* A calm step keeps the facts about resources.
LEMMA CalmKeeps ==
  ASSUME ShInv, Onward, Calm
  PROVE  ShHeld' /\ ShFresh' /\ (StopStays => ShAccount') /\ \A k : DueCloses(k)' =
           IF k \in shCache THEN (IF shStop' = "close" /\ k \in shSeen' THEN 1 ELSE 0)
           ELSE IF \E e \in Threads : Holding(e, k) THEN 0 ELSE 1
<1>1. \A e \in Threads : \A k : Holding(e, k)' <=> Holding(e, k)
  BY HoldingStays DEF Calm
<1>2. ShHeld'
  BY <1>1 DEF Calm, ShInv, ShHeld
<1>3. ShFresh'
  BY DEF Calm, ShInv, ShFresh, HandedOnce
<1>4. \A k : DueCloses(k)' =
           IF k \in shCache THEN (IF shStop' = "close" /\ k \in shSeen' THEN 1 ELSE 0)
           ELSE IF \E e \in Threads : Holding(e, k) THEN 0 ELSE 1
  BY <1>1 DEF DueCloses, Calm
<1>5. StopStays => ShAccount'
  <2> SUFFICES ASSUME StopStays PROVE ShAccount'
    OBVIOUS
  <2>1. \A k : DueCloses(k)' = DueCloses(k)
    BY <1>4 DEF DueCloses, StopStays
  <2> QED
    BY <2>1 DEF Calm, StopStays, ShInv, ShAccount
<1> QED
  BY <1>2, <1>3, <1>4, <1>5

\* Threads that run go on running only.
LEMMA AloneStays ==
  ASSUME ShInv, StopStays,
         \A e \in Threads : shThread'[e] \in {"loop", "recv", "send"} =>
                            shThread[e] \in {"loop", "recv", "send"}
  PROVE  ShAlone'
BY DEF ShInv, ShAlone, StopStays

\* The backlog with one more connection.
LEMMA BacklogGrows ==
  ASSUME ShInv, Onward, NEW x \in ShClients \cup {ShStopper}, shBacklog' = Append(shBacklog, x),
         x \in ShClients => shClient'[x] # "idle",
         UNCHANGED <<shThread, shConn>>
  PROVE  shBacklog' \in Seq(ShClients \cup {ShStopper}) /\ ShBusy'
<1> DEFINE T == ShClients \cup {ShStopper}
<1>1. /\ Append(shBacklog, x) \in Seq(T) /\ Len(Append(shBacklog, x)) = Len(shBacklog) + 1
      /\ Len(shBacklog) \in Nat
      /\ \A n \in 1..Len(shBacklog) : Append(shBacklog, x)[n] = shBacklog[n]
      /\ Append(shBacklog, x)[Len(shBacklog) + 1] = x
  <2>1. shBacklog \in Seq(T)
    BY DEF ShInv, ShType
  <2> QED
    BY <2>1, AppendProperties, LenProperties
<1>2. \A n \in 1..Len(shBacklog') : n \in 1..Len(shBacklog) \/ n = Len(shBacklog) + 1
  BY <1>1
<1>3. \A n \in 1..Len(shBacklog') : shBacklog'[n] \in ShClients =>
        shClient'[shBacklog'[n]] # "idle"
  BY <1>1, <1>2 DEF Onward, ShInv, ShBusy
<1> QED
  BY <1>1, <1>3 DEF Onward, ShInv, ShBusy

\* Without a change of the backlog and of the connections only the clients that
\* go onward matter.
LEMMA BusyStays ==
  ASSUME ShInv, Onward, UNCHANGED <<shBacklog, shConn>>,
         \A e \in Threads : shThread'[e] \in {"recv", "send"} => shThread[e] \in {"recv", "send"}
  PROVE  ShBusy'
BY DEF ShInv, ShBusy, Onward

\* A client connects.
LEMMA ShConnectKeeps ==
  ASSUME ShInv, NEW d \in ShClients, NEW k \in Resources, ShConnect(d, k)
  PROVE  ShInv'
<1>0. k \in 0..MaxResources /\ MaxResources \in Nat /\ MaxStarts \in Nat
  BY SharerAssumption DEF Resources
<1>1. PICK to \in {"connected", "error"} :
        /\ shClient' = [shClient EXCEPT ![d] = to] /\ shWants' = [shWants EXCEPT ![d] = k]
        /\ shClient[d] = "idle"
        /\ UNCHANGED <<shListener, shStarts, shKeyVars, shFdVars, shThreadVars, shStopVars>>
        /\ shBacklog' = shBacklog \/ shBacklog' = Append(shBacklog, d)
  BY DEF ShConnect
<1>2. Onward /\ Calm /\ StopStays
  BY <1>1 DEF Onward, Calm, StopStays, shKeyVars, shFdVars, shThreadVars, shStopVars,
     ShInv, ShType
<1>3. shBacklog' \in Seq(ShClients \cup {ShStopper}) /\ ShBusy'
  <2>1. shClient'[d] # "idle" /\ UNCHANGED <<shThread, shConn>>
    BY <1>1 DEF ShInv, ShType, shThreadVars
  <2>2. CASE shBacklog' = shBacklog
    BY <1>2, <2>1, <2>2, BusyStays DEF ShInv, ShType
  <2>3. CASE shBacklog' = Append(shBacklog, d)
    BY <1>2, <2>1, <2>3, BacklogGrows
  <2> QED
    BY <1>1, <2>2, <2>3
<1>4. ShType'
  BY <1>0, <1>1, <1>3 DEF ShInv, ShType, shKeyVars, shFdVars, shThreadVars, shStopVars
<1>5. ShHeld' /\ ShFresh' /\ ShAccount'
  BY <1>2, CalmKeeps
<1>6. ShAlone'
  BY <1>1, <1>2, AloneStays DEF shThreadVars
<1> QED
  BY <1>3, <1>4, <1>5, <1>6 DEF ShInv

\* A client sends its key, or dies.
LEMMA ShClientKeeps ==
  ASSUME ShInv, NEW d \in ShClients, ShAsk(d) \/ ShDie(d)
  PROVE  ShInv'
<1>1. PICK to \in {"asked", "dead"} :
        /\ shClient' = [shClient EXCEPT ![d] = to] /\ shClient[d] # "idle"
        /\ UNCHANGED <<shListener, shStarts, shKeyVars, shFdVars, shBacklog, shThreadVars, shWants,
                       shStopVars>>
  BY DEF ShAsk, ShDie
<1>2. Onward /\ Calm /\ StopStays
  BY <1>1 DEF Onward, Calm, StopStays, shKeyVars, shFdVars, shThreadVars, shStopVars,
     ShInv, ShType
<1>3. ShBusy'
  BY <1>1, <1>2, BusyStays DEF shThreadVars
<1>4. ShType'
  BY <1>1 DEF ShInv, ShType, shKeyVars, shFdVars, shThreadVars, shStopVars
<1>5. ShHeld' /\ ShFresh' /\ ShAccount'
  BY <1>2, CalmKeeps
<1>6. ShAlone'
  BY <1>1, <1>2, AloneStays DEF shThreadVars
<1> QED
  BY <1>3, <1>4, <1>5, <1>6 DEF ShInv

\* A thread accepts a connection.
LEMMA ShAcceptKeeps ==
  ASSUME ShInv, NEW e \in Threads, ShAccept(e)
  PROVE  ShInv'
<1> DEFINE T == ShClients \cup {ShStopper}
<1>1. /\ shThread[e] = "loop" /\ shBacklog # <<>> /\ shBacklog' = Tail(shBacklog)
      /\ shConn' = [shConn EXCEPT ![e] = Head(shBacklog)]
      /\ shThread' = [shThread EXCEPT ![e] = "recv"]
      /\ UNCHANGED <<shListener, shStarts, shKeyVars, shFdVars, shClientVars, shStopVars>>
  BY DEF ShAccept, ServeGoes
<1>2. Onward /\ Calm /\ StopStays
  BY <1>1 DEF Onward, Calm, StopStays, shKeyVars, shFdVars, shClientVars, shStopVars,
     ShInv, ShType
<1>3. /\ Tail(shBacklog) \in Seq(T) /\ Len(Tail(shBacklog)) = Len(shBacklog) - 1
      /\ Len(shBacklog) \in Nat \ {0}
      /\ \A n \in 1..Len(Tail(shBacklog)) : Tail(shBacklog)[n] = shBacklog[n + 1]
      /\ Head(shBacklog) = shBacklog[1] /\ Head(shBacklog) \in T
  <2>1. shBacklog \in Seq(T)
    BY DEF ShInv, ShType
  <2> QED
    BY <1>1, <2>1, HeadTailProperties, LenProperties, ElementOfSeq
<1>4. ShBusy'
  <2>1. \A n \in 1..Len(shBacklog') : shBacklog'[n] = shBacklog[n + 1] /\ n + 1 \in 1..Len(shBacklog)
    BY <1>1, <1>3
  <2>2. shClient' = shClient
    BY <1>1 DEF shClientVars
  <2>3. \A n \in 1..Len(shBacklog') : shBacklog'[n] \in ShClients =>
          shClient'[shBacklog'[n]] # "idle"
    BY <2>1, <2>2 DEF ShInv, ShBusy
  <2>4. 1 \in 1..Len(shBacklog)
    BY <1>3
  <2>5. ASSUME NEW f \in Threads, shThread'[f] \in {"recv", "send"}, shConn'[f] \in ShClients
        PROVE  shClient'[shConn'[f]] # "idle"
    BY <1>1, <1>3, <2>2, <2>4, <2>5 DEF ShInv, ShBusy, ShType
  <2> QED
    BY <2>3, <2>5 DEF ShBusy
<1>5. ShType'
  BY <1>1, <1>3 DEF ShInv, ShType, shKeyVars, shFdVars, shClientVars, shStopVars
<1>6. ShHeld' /\ ShFresh' /\ ShAccount'
  BY <1>2, CalmKeeps
<1>7. ShAlone'
  BY <1>1, <1>2, AloneStays DEF ShInv, ShType
<1> QED
  BY <1>4, <1>5, <1>6, <1>7 DEF ShInv

\* A thread ends at stop()'s connection, takes a resource out of the cache, or
\* turns a client down.
LEMMA ShReceiveKeeps ==
  ASSUME ShInv, NEW e \in Threads, ShReceive(e)
  PROVE  ShInv'
<1> DEFINE d == shConn[e]
<1>1. /\ shThread[e] = "recv"
      /\ UNCHANGED <<shListener, shStarts, shKey, shAddress, shCloses, shGiven, shBacklog, shConn,
                     shWants, shStop, shSeen, shSize, shWarned>>
  BY DEF ShReceive, shKeyVars, shStopVars
<1>2. CASE \E to \in {"ended", "loop"} :
             /\ shThread' = [shThread EXCEPT ![e] = to] /\ shCache' = shCache
             /\ \/ shClient' = shClient
                \/ d \in ShClients /\ shClient[d] # "idle" /\ shClient' = [shClient EXCEPT ![d] = IF @ = "asked" THEN "error" ELSE @]
  <2>1. PICK to \in {"ended", "loop"} :
             /\ shThread' = [shThread EXCEPT ![e] = to] /\ shCache' = shCache
             /\ \/ shClient' = shClient
                \/ d \in ShClients /\ shClient[d] # "idle" /\ shClient' = [shClient EXCEPT ![d] = IF @ = "asked" THEN "error" ELSE @]
    BY <1>2
  <2>2. Onward
    BY <1>1, <2>1 DEF Onward, ShInv, ShType
  <2>3. Calm /\ StopStays
    BY <1>1, <2>1 DEF Calm, StopStays, ShInv, ShType
  <2>4. ShBusy'
    BY <1>1, <2>1, <2>2, BusyStays DEF ShInv, ShType
  <2>5. ShType'
    <3>1. shClient' \in [ShClients -> {"idle", "connected", "asked", "got", "error", "dead"}]
      BY <2>1 DEF ShInv, ShType
    <3> QED
      BY <1>1, <2>1, <3>1 DEF ShInv, ShType
  <2>6. ShHeld' /\ ShFresh' /\ ShAccount'
    BY <2>2, <2>3, CalmKeeps
  <2>7. ShAlone'
    BY <1>1, <2>1, <2>3, AloneStays DEF ShInv, ShType
  <2> QED
    BY <2>4, <2>5, <2>6, <2>7 DEF ShInv
<1>3. CASE /\ d \in ShClients /\ shWants[d] \in shCache /\ shCache' = shCache \ {shWants[d]}
           /\ shThread' = [shThread EXCEPT ![e] = "send"] /\ shClient' = shClient
  <2> DEFINE k == shWants[d]
  <2>0. k \in shCache /\ k \in 1..shKey /\ k \in Resources /\ 1..shKey \subseteq Resources
    BY <1>3, SharerAssumption DEF ShInv, ShType, Resources
  <2>1. Onward
    BY <1>1, <1>3 DEF Onward
  <2>2. ShBusy'
    BY <1>1, <1>3, <2>1, BusyStays DEF ShInv, ShType
  <2>3. ShType'
    BY <1>1, <1>3 DEF ShInv, ShType
  <2>4. \A f \in Threads : f # e => shThread'[f] = shThread[f]
    BY <1>3 DEF ShInv, ShType
  <2>5. \A f \in Threads : \A j : Holding(f, j)' <=> (Holding(f, j) \/ (f = e /\ j = k))
    BY <1>1, <1>3, <2>4 DEF Holding, ShInv, ShType
  <2> HIDE DEF k
  <2>6. ShHeld'
    <3>1. ASSUME NEW f \in Threads, shThread'[f] = "send" PROVE \E j \in 1..shKey' : Holding(f, j)'
      BY <1>1, <2>0, <2>4, <2>5, <3>1 DEF ShInv, ShHeld
    <3>2. ASSUME NEW f \in Threads, NEW j \in 1..shKey', Holding(f, j)'
          PROVE  /\ j \notin shCache' /\ shGiven'[j] = 0
                 /\ \A h \in Threads : Holding(h, j)' => h = f
      <4>1. CASE f = e /\ j = k
        <5>1. j \notin shCache' /\ shGiven'[j] = 0
          BY <1>1, <1>3, <2>0, <4>1 DEF ShInv, ShFresh, k
        <5>2. \A h \in Threads : ~Holding(h, k)
          BY <2>0 DEF ShInv, ShHeld
        <5> QED
          BY <2>5, <4>1, <5>1, <5>2
      <4>2. CASE Holding(f, j)
        <5>1. j \notin shCache /\ shGiven[j] = 0 /\ \A h \in Threads : Holding(h, j) => h = f
          BY <1>1, <4>2 DEF ShInv, ShHeld
        <5>2. j # k
          BY <2>0, <5>1
        <5> QED
          BY <1>1, <1>3, <2>5, <5>1, <5>2
      <4> QED
        BY <2>5, <3>2, <4>1, <4>2
    <3> QED
      BY <3>1, <3>2 DEF ShHeld
  <2>7. ShFresh'
    BY <1>1, <1>3 DEF ShInv, ShFresh, HandedOnce
  <2>8. ShAlone'
    <3>1. \A f \in Threads : shThread'[f] \in {"loop", "recv", "send"} =>
                             shThread[f] \in {"loop", "recv", "send"}
      BY <1>1, <2>4
    <3> QED
      BY <1>1, <3>1, AloneStays DEF StopStays
  <2>9. ShAccount'
    <3> SUFFICES ASSUME ~shWarned PROVE ShAccount'
      BY <1>1 DEF ShAccount
    <3>1. shListener # 0 /\ shStop # "close"
      <4>1. e = shListener /\ e # 0
        BY <1>1 DEF ShInv, ShAlone, Threads
      <4> QED
        BY <4>1 DEF ShInv, ShType
    <3>2. ASSUME NEW j \in 1..shKey PROVE shCloses'[j] = DueCloses(j)'
      <4>1. shCloses[j] = DueCloses(j)
        BY DEF ShInv, ShAccount
      <4>2. CASE j = k
        BY <1>1, <1>3, <2>0, <2>5, <3>1, <4>1, <4>2 DEF DueCloses, k
      <4>3. CASE j # k
        BY <1>1, <1>3, <2>5, <3>1, <4>1, <4>3 DEF DueCloses, k
      <4> QED
        BY <4>2, <4>3
    <3> QED
      BY <1>1, <3>1, <3>2 DEF ShAccount
  <2> QED
    BY <2>2, <2>3, <2>6, <2>7, <2>8, <2>9 DEF ShInv
<1>4. d \in ShClients \cup {ShStopper}
  BY DEF ShInv, ShType
<1> QED
  BY <1>1, <1>2, <1>3, <1>4 DEF ShReceive, ServeGoes

\* A thread sends the resource that it holds and closes its duplicate.
LEMMA ShSendKeeps ==
  ASSUME ShInv, NEW e \in Threads, ShSend(e)
  PROVE  ShInv'
<1> DEFINE d == shConn[e]
<1>0. PICK k : k = shWants[d]
  OBVIOUS
<1>1. /\ shThread[e] = "send" /\ shThread' = [shThread EXCEPT ![e] = "loop"]
      /\ shCloses' = [shCloses EXCEPT ![k] = @ + 1]
      /\ \/ UNCHANGED <<shGiven, shClient>>
         \/ /\ shGiven' = [shGiven EXCEPT ![k] = shGiven[k] + 1] /\ shClient' = [shClient EXCEPT ![d] = "got"]
            /\ shClient[d] = "asked"
      /\ UNCHANGED <<shListener, shStarts, shKey, shAddress, shCache, shBacklog, shConn, shWants,
                     shStop, shSeen, shSize, shWarned>>
  BY <1>0 DEF ShSend, ServeGoes, shKeyVars, shStopVars
<1>2. d \in ShClients /\ Holding(e, k) /\ k \in 1..shKey
  BY <1>0, <1>1 DEF ShInv, ShHeld, Holding
<1>3. 1..shKey \subseteq Resources
  BY SharerAssumption DEF ShInv, ShType, Resources
<1>4. k \notin shCache /\ shGiven[k] = 0 /\ \A f \in Threads : Holding(f, k) => f = e
  BY <1>2 DEF ShInv, ShHeld
<1>5. Onward
  BY <1>1 DEF Onward, ShInv, ShType
<1>6. ShBusy'
  BY <1>1, <1>5, BusyStays DEF ShInv, ShType
<1>7. /\ shCloses' \in [Resources -> Nat] /\ shGiven' \in [Resources -> Nat]
      /\ \A j \in Resources : j # k => shGiven'[j] = shGiven[j] /\ shCloses'[j] = shCloses[j]
      /\ shGiven'[k] <= 1 /\ shCloses'[k] = shCloses[k] + 1
  <2>1. /\ shCloses' \in [Resources -> Nat] /\ shCloses'[k] = shCloses[k] + 1
        /\ \A j \in Resources : j # k => shCloses'[j] = shCloses[j]
    BY <1>1, <1>2, <1>3 DEF ShInv, ShType
  <2>2. CASE shGiven' = shGiven
    BY <1>3, <1>4, <2>1, <2>2 DEF ShInv, ShType
  <2>3. CASE shGiven' = [shGiven EXCEPT ![k] = shGiven[k] + 1]
    <3>0. k \in Resources /\ shGiven \in [Resources -> Nat] /\ shGiven[k] = 0
      BY <1>2, <1>3, <1>4 DEF ShInv, ShType
    <3>1. /\ shGiven' \in [Resources -> Nat] /\ shGiven'[k] = 1
          /\ \A j \in Resources : j # k => shGiven'[j] = shGiven[j]
      BY <2>3, <3>0
    <3> QED
      BY <2>1, <3>1
  <2>4. shGiven' = shGiven \/ shGiven' = [shGiven EXCEPT ![k] = shGiven[k] + 1]
    BY <1>1
  <2> QED
    BY <2>2, <2>3, <2>4
<1>8. ShType'
  <2>1. shClient' \in [ShClients -> {"idle", "connected", "asked", "got", "error", "dead"}]
    BY <1>1 DEF ShInv, ShType
  <2> QED
    BY <1>1, <1>7, <2>1 DEF ShInv, ShType
<1>9. \A f \in Threads : f # e => shThread'[f] = shThread[f]
  BY <1>1 DEF ShInv, ShType
<1>10. \A f \in Threads : \A j : Holding(f, j)' <=> (Holding(f, j) /\ f # e)
  BY <1>1, <1>9 DEF Holding, ShInv, ShType
<1>11. ShHeld'
  <2>1. ASSUME NEW f \in Threads, shThread'[f] = "send" PROVE \E j \in 1..shKey' : Holding(f, j)'
    <3>1. f # e
      BY <1>1, <2>1 DEF ShInv, ShType
    <3> QED
      BY <1>1, <1>9, <1>10, <2>1, <3>1 DEF ShInv, ShHeld
  <2>2. ASSUME NEW f \in Threads, NEW j \in 1..shKey', Holding(f, j)'
        PROVE  /\ j \notin shCache' /\ shGiven'[j] = 0
               /\ \A h \in Threads : Holding(h, j)' => h = f
    <3>1. Holding(f, j) /\ f # e /\ j \in 1..shKey
      BY <1>1, <1>10, <2>2
    <3>2. j # k
      BY <1>4, <3>1
    <3>3. j \notin shCache /\ shGiven[j] = 0 /\ \A h \in Threads : Holding(h, j) => h = f
      BY <3>1 DEF ShInv, ShHeld
    <3> QED
      BY <1>1, <1>3, <1>7, <1>10, <3>1, <3>2, <3>3
  <2> QED
    BY <2>1, <2>2 DEF ShHeld
<1>12. ShFresh'
  <2>1. \A j \in Resources : (j \in shCache \/ j > shKey) => j # k
    BY <1>2, <1>4 DEF ShInv, ShType
  <2>2. HandedOnce'
    BY <1>7 DEF ShInv, ShFresh, HandedOnce
  <2> QED
    BY <1>1, <1>7, <2>1, <2>2 DEF ShInv, ShFresh
<1>13. ShAlone'
  <2>1. \A f \in Threads : shThread'[f] \in {"loop", "recv", "send"} =>
                           shThread[f] \in {"loop", "recv", "send"}
    BY <1>1, <1>9
  <2> QED
    BY <1>1, <2>1, AloneStays DEF StopStays
<1>14. ShAccount'
  <2> SUFFICES ASSUME ~shWarned PROVE ShAccount'
    BY <1>1 DEF ShAccount
  <2>1. ASSUME NEW j \in 1..shKey PROVE shCloses'[j] = DueCloses(j)'
    <3>1. shCloses[j] = DueCloses(j) /\ j \in Resources
      BY <1>3 DEF ShInv, ShAccount
    <3>2. CASE j = k
      BY <1>1, <1>2, <1>4, <1>7, <1>10, <3>1, <3>2 DEF DueCloses
    <3>3. CASE j # k
      <4>1. Holding(e, j) => FALSE
        BY <1>2, <3>3 DEF Holding
      <4> QED
        BY <1>1, <1>7, <1>10, <3>1, <3>3, <4>1 DEF DueCloses
    <3> QED
      BY <3>2, <3>3
  <2> QED
    BY <1>1, <2>1 DEF ShInv, ShAccount
<1> QED
  BY <1>6, <1>8, <1>11, <1>12, <1>13, <1>14 DEF ShInv

\* register: one more resource, and a listener with its thread if there is none.
LEMMA ShRegisterKeeps == ShInv /\ ShRegister => ShInv'
<1> SUFFICES ASSUME ShInv, ShRegister PROVE ShInv'
  OBVIOUS
<1> DEFINE k == shKey + 1
<1>0. MaxStarts \in Nat /\ MaxResources \in Nat /\ shKey \in Nat /\ shStarts \in Nat
  BY SharerAssumption DEF ShInv, ShType
<1>1. /\ shStop = "idle" /\ shKey < MaxResources /\ shKey' = k /\ shCache' = shCache \cup {k}
      /\ UNCHANGED <<shCloses, shGiven, shBacklog, shConn, shClient, shWants, shStop, shSeen,
                     shSize, shWarned>>
  BY DEF ShRegister, shClientVars, shStopVars
<1>2. \/ shListener # 0 /\ UNCHANGED <<shStarts, shListener, shThread>>
      \/ /\ shListener = 0 /\ shStarts < MaxStarts /\ shStarts' = shStarts + 1
         /\ shListener' = shStarts + 1
         /\ shThread' = [shThread EXCEPT ![shStarts + 1] = "loop"]
  BY DEF ShRegister
<1>3. /\ k \in Resources /\ k \in 1..shKey' /\ k \notin 1..shKey /\ k \notin shCache
      /\ \A j \in 1..shKey' : j \in 1..shKey \/ j = k
      /\ \A j \in 1..shKey : j \in 1..shKey' /\ j # k /\ j \in Resources
  BY <1>0, <1>1 DEF ShInv, ShType, Resources
<1>4. shListener' # 0 /\ shListener' \in 0..MaxStarts /\ shStarts' \in 0..MaxStarts
  BY <1>0, <1>2 DEF ShInv, ShType
<1>5. shThread' \in [Threads -> {"none", "loop", "recv", "send", "ended"}]
  BY <1>2 DEF ShInv, ShType
<1>6. \A e \in Threads : shThread'[e] \in {"recv", "send"} => shThread[e] = shThread'[e]
  BY <1>2 DEF ShInv, ShType
<1>7. Onward
  BY <1>1 DEF Onward
<1>8. ShType'
  <2>1. shCache' \subseteq 1..shKey' /\ shKey' \in 0..MaxResources
    BY <1>0, <1>1, <1>3 DEF ShInv, ShType
  <2> QED
    BY <1>1, <1>4, <1>5, <2>1 DEF ShInv, ShType
<1>9. ShBusy'
  BY <1>1, <1>6, <1>7, BusyStays
<1>10. \A e \in Threads : \A j : Holding(e, j)' => Holding(e, j)
  BY <1>1, <1>6 DEF Holding
<1>11. ASSUME NEW e \in Threads PROVE ~Holding(e, k)
  BY <1>3, <1>11 DEF ShInv, ShHeld, Holding
<1>12. ShHeld'
  <2>1. ASSUME NEW e \in Threads, shThread'[e] = "send" PROVE \E j \in 1..shKey' : Holding(e, j)'
    <3>1. PICK j \in 1..shKey : Holding(e, j)
      BY <1>6, <2>1 DEF ShInv, ShHeld
    <3> QED
      BY <1>1, <1>3, <2>1, <3>1 DEF Holding
  <2>2. ASSUME NEW e \in Threads, NEW j \in 1..shKey', Holding(e, j)'
        PROVE  /\ j \notin shCache' /\ shGiven'[j] = 0
               /\ \A f \in Threads : Holding(f, j)' => f = e
    <3> HIDE DEF k
    <3>1. Holding(e, j) /\ j # k /\ j \in 1..shKey
      BY <1>3, <1>10, <1>11, <2>2
    <3>2. j \notin shCache /\ shGiven[j] = 0 /\ \A f \in Threads : Holding(f, j) => f = e
      BY <3>1 DEF ShInv, ShHeld
    <3> QED
      BY <1>1, <1>10, <3>1, <3>2
  <2> QED
    BY <2>1, <2>2 DEF ShHeld
<1>13. ShFresh'
  <2>1. shGiven[k] = 0 /\ shCloses[k] = 0
    BY <1>0, <1>3 DEF ShInv, ShFresh
  <2>2. \A j \in Resources : j > k => j > shKey
    BY <1>0 DEF Resources
  <2> HIDE DEF k
  <2> QED
    BY <1>1, <2>1, <2>2 DEF ShInv, ShFresh, HandedOnce
<1>14. ShAlone'
  <2> SUFFICES ASSUME ~shWarned, NEW e \in Threads, shThread'[e] \in {"loop", "recv", "send"}
               PROVE  e = shListener'
    BY <1>1 DEF ShAlone
  <2>1. shThread[e] \in {"loop", "recv", "send"} => e = shListener /\ e # 0
    BY DEF ShInv, ShAlone, Threads
  <2> QED
    BY <1>2, <2>1 DEF ShInv, ShType
<1>15. ShAccount'
  <2> SUFFICES ASSUME ~shWarned PROVE ShAccount'
    BY <1>1 DEF ShAccount
  <2>1. ASSUME NEW e \in Threads, NEW j, Holding(e, j) PROVE Holding(e, j)'
    <3>1. e = shListener /\ e # 0
      BY <2>1 DEF ShInv, ShAlone, Holding, Threads
    <3> QED
      BY <1>1, <1>2, <2>1, <3>1 DEF Holding
  <2>2. \A e \in Threads : \A j : Holding(e, j)' <=> Holding(e, j)
    BY <1>10, <2>1
  <2>3. ASSUME NEW j \in 1..shKey' PROVE shCloses'[j] = DueCloses(j)'
    <3>1. CASE j = k
      <4>1. shCloses[k] = 0
        BY <1>0, <1>3 DEF ShInv, ShFresh
      <4> QED
        BY <1>1, <3>1, <4>1 DEF DueCloses
    <3>2. CASE j # k
      <4> HIDE DEF k
      <4>1. j \in 1..shKey /\ shCloses[j] = DueCloses(j)
        BY <1>3, <3>2 DEF ShInv, ShAccount
      <4> QED
        BY <1>1, <2>2, <3>2, <4>1 DEF DueCloses
    <3> QED
      BY <3>1, <3>2
  <2> QED
    BY <1>1, <1>4, <2>3 DEF ShAccount
<1> QED
  BY <1>8, <1>9, <1>12, <1>13, <1>14, <1>15 DEF ShInv

\* stop() asks the thread to end.
LEMMA ShStopAskKeeps == ShInv /\ ShStopAsk => ShInv'
<1> SUFFICES ASSUME ShInv, ShStopAsk PROVE ShInv'
  OBVIOUS
<1>1. /\ shStop = "idle" /\ shListener # 0 /\ shStop' = "join"
      /\ shBacklog' = Append(shBacklog, ShStopper)
      /\ UNCHANGED <<shListener, shStarts, shKey, shCache, shCloses, shGiven, shThread, shConn,
                     shClient, shWants, shSeen, shSize, shWarned>>
  BY DEF ShStopAsk, shKeyVars, shFdVars, shThreadVars, shClientVars
<1>2. Onward /\ Calm
  BY <1>1 DEF Onward, Calm
<1>3. shBacklog' \in Seq(ShClients \cup {ShStopper}) /\ ShBusy'
  BY <1>1, <1>2, BacklogGrows, SharerAssumption
<1>4. ShType'
  BY <1>1, <1>3 DEF ShInv, ShType
<1>5. ShHeld' /\ ShFresh'
  BY <1>2, CalmKeeps
<1>6. ShAlone'
  BY <1>1 DEF ShInv, ShAlone
<1>7. ShAccount'
  <2>1. \A k : DueCloses(k)' = DueCloses(k)
    BY <1>1 DEF DueCloses, Holding
  <2> QED
    BY <1>1, <2>1 DEF ShInv, ShAccount
<1> QED
  BY <1>3, <1>4, <1>5, <1>6, <1>7 DEF ShInv

\* stop() closes the listener, after the end of the thread or after the timeout.
LEMMA ShStopJoinKeeps == ShInv /\ (ShJoined \/ ShJoinTimeout) => ShInv'
<1> SUFFICES ASSUME ShInv, ShJoined \/ ShJoinTimeout PROVE ShInv'
  OBVIOUS
<1>1. /\ shStop = "join" /\ shListener' = 0 /\ shBacklog' = <<>> /\ shStop' = "close"
      /\ shSeen' = {} /\ shSize' = Cardinality(shCache)
      /\ UNCHANGED <<shStarts, shKey, shCache, shCloses, shGiven, shThread, shConn, shWants>>
  BY DEF ShJoined, ShJoinTimeout, ShStopJoin, shKeyVars, shFdVars, shThreadVars
<1>2. shWarned' = TRUE \/ (shWarned' = shWarned /\ shThread[shListener] = "ended")
  BY DEF ShJoined, ShJoinTimeout
<1>3. shClient' = [d \in ShClients |->
                    IF \E i \in 1..Len(shBacklog) : shBacklog[i] = d /\ shClient[d] # "dead"
                    THEN "error" ELSE shClient[d]]
  BY DEF ShJoined, ShJoinTimeout, ShStopJoin
<1>4. Onward
  BY <1>1, <1>3 DEF Onward
<1>5. Calm
  BY <1>1 DEF Calm
<1>6. shBacklog' \in Seq(ShClients \cup {ShStopper}) /\ Len(shBacklog') = 0
  BY <1>1
<1>7. ShType'
  <2>1. shClient' \in [ShClients -> {"idle", "connected", "asked", "got", "error", "dead"}]
    BY <1>3 DEF ShInv, ShType
  <2>2. shListener' \in 0..MaxStarts
    BY <1>1, SharerAssumption
  <2>3. shWarned' \in BOOLEAN
    <3>1. shWarned \in BOOLEAN
      BY DEF ShInv, ShType
    <3> QED
      BY <1>2, <3>1, Zenon
  <2> QED
    BY <1>1, <1>6, <2>1, <2>2, <2>3 DEF ShInv, ShType
<1>8. ShBusy'
  BY <1>1, <1>4, <1>6 DEF ShInv, ShBusy, Onward
<1>9. ShHeld' /\ ShFresh'
  BY <1>4, <1>5, CalmKeeps
<1>10. ~shWarned' => \A e \in Threads : shThread[e] \notin {"loop", "recv", "send"}
  BY <1>2 DEF ShInv, ShAlone, ShType
<1>11. ShAlone'
  BY <1>1, <1>10 DEF ShAlone
<1>12. ShAccount'
  <2> SUFFICES ASSUME ~shWarned' PROVE ShAccount'
    BY DEF ShAccount
  <2>1. ~shWarned
    BY <1>2
  <2>2. \A k : DueCloses(k)' = DueCloses(k)
    BY <1>1 DEF DueCloses, Holding
  <2> QED
    BY <1>1, <2>1, <2>2 DEF ShInv, ShAccount
<1> QED
  BY <1>7, <1>8, <1>9, <1>11, <1>12 DEF ShInv

\* stop() closes a descriptor of the cache.
LEMMA ShStopCloseKeeps ==
  ASSUME ShInv, NEW k \in Resources, ShStopClose(k)
  PROVE  ShInv'
<1>1. /\ shStop = "close" /\ k \in shCache /\ k \notin shSeen
      /\ shCloses' = [shCloses EXCEPT ![k] = @ + 1] /\ shSeen' = shSeen \cup {k}
      /\ UNCHANGED <<shListener, shStarts, shKey, shCache, shGiven, shBacklog, shThread, shConn,
                     shClient, shWants, shStop, shSize, shWarned>>
  BY DEF ShStopClose, shKeyVars, shThreadVars, shClientVars
<1>2. /\ shCloses' \in [Resources -> Nat] /\ shCloses'[k] = shCloses[k] + 1
      /\ \A j \in Resources : j # k => shCloses'[j] = shCloses[j]
  BY <1>1 DEF ShInv, ShType
<1>3. ShType'
  BY <1>1, <1>2 DEF ShInv, ShType
<1>4. Onward
  BY <1>1 DEF Onward
<1>5. ShBusy'
  BY <1>1, <1>4, BusyStays
<1>6. \A e \in Threads : \A j : Holding(e, j)' <=> Holding(e, j)
  BY <1>1 DEF Holding
<1>7. ShHeld'
  BY <1>1, <1>6 DEF ShInv, ShHeld
<1>8. ShFresh'
  <2>1. ~(k > shKey)
    BY <1>1 DEF ShInv, ShType
  <2> QED
    BY <1>1, <1>2, <2>1 DEF ShInv, ShFresh, HandedOnce
<1>9. ShAlone'
  BY <1>1 DEF ShInv, ShAlone
<1>10. ShAccount'
  <2> SUFFICES ASSUME ~shWarned PROVE ShAccount'
    BY <1>1 DEF ShAccount
  <2>1. ASSUME NEW j \in 1..shKey PROVE shCloses'[j] = DueCloses(j)'
    <3>1. shCloses[j] = DueCloses(j) /\ j \in Resources
      BY SharerAssumption DEF ShInv, ShAccount, ShType, Resources
    <3> QED
      BY <1>1, <1>2, <1>6, <3>1 DEF DueCloses
  <2> QED
    BY <1>1, <2>1 DEF ShInv, ShAccount
<1> QED
  BY <1>3, <1>5, <1>7, <1>8, <1>9, <1>10 DEF ShInv

\* stop() returns, or raises because the cache has changed.
LEMMA ShStopReturnKeeps == ShInv /\ ShStopReturn => ShInv'
<1> SUFFICES ASSUME ShInv, ShStopReturn PROVE ShInv'
  OBVIOUS
<1>1. /\ shStop = "close" /\ shStop' = "idle"
      /\ \/ shCache \subseteq shSeen /\ shCache' = {}
         \/ Cardinality(shCache) # shSize /\ shCache' = shCache
      /\ UNCHANGED <<shListener, shStarts, shKey, shCloses, shGiven, shBacklog, shThread, shConn,
                     shClient, shWants, shSeen, shSize, shWarned>>
  BY DEF ShStopReturn, shKeyVars, shThreadVars, shClientVars
<1>2. shCache' \subseteq shCache
  BY <1>1
<1>3. ShType'
  BY <1>1, <1>2 DEF ShInv, ShType
<1>4. Onward
  BY <1>1 DEF Onward
<1>5. ShBusy'
  BY <1>1, <1>4, BusyStays
<1>6. \A e \in Threads : \A j : Holding(e, j)' <=> Holding(e, j)
  BY <1>1 DEF Holding
<1>7. ShHeld' /\ ShFresh'
  BY <1>1, <1>2, <1>6 DEF ShInv, ShHeld, ShFresh, HandedOnce
<1>8. ShAlone'
  BY <1>1 DEF ShInv, ShAlone
<1>9. ShAccount'
  <2> SUFFICES ASSUME ~shWarned PROVE ShAccount'
    BY <1>1 DEF ShAccount
  <2>1. shCache \subseteq shSeen /\ shCache' = {}
    BY <1>1 DEF ShInv, ShAccount
  <2>2. ASSUME NEW e \in Threads, NEW j PROVE ~Holding(e, j)
    BY <1>1 DEF ShInv, ShAlone, ShType, Holding, Threads
  <2>3. ASSUME NEW j \in 1..shKey PROVE shCloses'[j] = DueCloses(j)'
    <3>1. shCloses[j] = DueCloses(j)
      BY DEF ShInv, ShAccount
    <3> QED
      BY <1>1, <1>6, <2>1, <2>2, <3>1 DEF DueCloses
  <2> QED
    BY <1>1, <2>1, <2>3 DEF ShInv, ShAccount
<1> QED
  BY <1>3, <1>5, <1>7, <1>8, <1>9 DEF ShInv

\* Every step of the sharer keeps the invariant.
LEMMA ShNextKeeps == ShInv /\ [ShNext]_shVars => ShInv'
<1> SUFFICES ASSUME ShInv, [ShNext]_shVars PROVE ShInv'
  OBVIOUS
<1>1. CASE ShRegister \/ ShStopAsk \/ ShJoined \/ ShJoinTimeout \/ ShStopReturn
  BY <1>1, ShRegisterKeeps, ShStopAskKeeps, ShStopJoinKeeps, ShStopReturnKeeps
<1>2. ASSUME NEW k \in Resources, ShStopClose(k) \/ \E d \in ShClients : ShConnect(d, k)
      PROVE  ShInv'
  BY <1>2, ShStopCloseKeeps, ShConnectKeeps
<1>3. ASSUME NEW d \in ShClients, ShAsk(d) \/ ShDie(d) PROVE ShInv'
  BY <1>3, ShClientKeeps
<1>4. ASSUME NEW e \in Threads, ServeStep(e) PROVE ShInv'
  BY <1>4, ShAcceptKeeps, ShReceiveKeeps, ShSendKeeps DEF ServeStep
<1>5. CASE UNCHANGED shVars
  BY <1>5 DEF shVars, shKeyVars, shFdVars, shThreadVars, shClientVars, shStopVars,
     ShInv, ShType,
              ShBusy, ShHeld, ShFresh, ShAlone, ShAccount, Holding, DueCloses, HandedOnce
<1> QED
  BY <1>1, <1>2, <1>3, <1>4, <1>5 DEF ShNext

\* A descriptor is handed to one process at most and, unless a stop() gave up on
\* its thread, its duplicate is closed exactly once, for any number of clients,
\* descriptors and restarts of the sharer.
THEOREM SharerIsSafe == ShSpec => []SharerSafe
<1>1. ShInv => SharerSafe
  <2> SUFFICES ASSUME ShInv PROVE SharerSafe
    OBVIOUS
  <2>1. HandedOnce
    BY DEF ShInv, ShFresh
  <2>2. ASSUME ~shWarned, NEW k \in 1..shKey
        PROVE  shCloses[k] <= 1 /\ (shListener = 0 /\ shStop = "idle" => shCloses[k] = 1)
    <3>1. shCloses[k] = DueCloses(k)
      BY <2>2 DEF ShInv, ShAccount
    <3>2. ASSUME shListener = 0, NEW e \in Threads PROVE ~Holding(e, k)
      BY <2>2, <3>2 DEF ShInv, ShAlone, Holding, Threads
    <3>3. DueCloses(k) <= 1
      BY DEF DueCloses
    <3>4. shListener = 0 /\ shStop = "idle" => DueCloses(k) = 1
      BY <2>2, <3>2 DEF DueCloses, ShInv, ShAccount
    <3> QED
      BY <3>1, <3>3, <3>4
  <2> QED
    BY <2>1, <2>2 DEF SharerSafe, ClosedOnce
<1> QED
  BY <1>1, ShInitHolds, ShNextKeeps, PTL DEF ShSpec

(***************************************************************************)
(* Heap                                                                    *)
(***************************************************************************)

\* Blocks.
Blocks == [arena : Nat, start : Nat, stop : Nat]

\* b is a non-empty part of an arena.
Inside(b, arenas) ==
  b \in Blocks /\ b.arena \in DOMAIN arenas /\ b.start < b.stop /\ b.stop <= arenas[b.arena]

\* b and c share no byte.
Apart(b, c) == b.arena = c.arena => b.stop <= c.start \/ c.stop <= b.start

\* The blocks of S partition the arenas.
Tiles(S, arenas) ==
  /\ \A b \in S : Inside(b, arenas)
  /\ \A b, c \in S : b = c \/ Apart(b, c)
  /\ \A a \in DOMAIN arenas : \A i \in 0..(arenas[a] - 1) : \E b \in S : Covers(b, a, i)

\* Free blocks that do not touch.
Merged(free) == \A f, g \in free : f.arena = g.arena => f.stop # g.start

\* The blocks in F are free and those in A allocated, all of them partition the
\* arenas and the free ones do not touch.
Heaped(F, A, arenas) ==
  /\ \A a \in DOMAIN arenas : arenas[a] \in Nat
  /\ Tiles(F \cup A, arenas) /\ F \cap A = {} /\ Merged(F)

\* A block has the fields that it is made of.
LEMMA BlockIs ==
  ASSUME NEW a \in Nat, NEW i \in Nat, NEW j \in Nat
  PROVE  /\ Block(a, i, j) \in Blocks /\ Block(a, i, j).arena = a
         /\ Block(a, i, j).start = i /\ Block(a, i, j).stop = j
BY DEF Block, Blocks

\* _roundup gives a multiple that is large enough.
LEMMA RoundupIs ==
  ASSUME NEW n \in Nat, NEW a \in Nat \ {0}
  PROVE  Roundup(n, a) \in Nat /\ Roundup(n, a) >= n
<1> DEFINE q == (n + a - 1) \div a
<1> DEFINE r == (n + a - 1) % a
<1>1. q \in Nat /\ r \in Nat /\ r < a /\ n + a - 1 = a * q + r
  OBVIOUS
<1> QED
  BY <1>1 DEF Roundup

\* The larger of two numbers.
LEMMA MaxIs ==
  ASSUME NEW x \in Nat, NEW y \in Nat
  PROVE  Max({x, y}) \in Nat /\ Max({x, y}) >= x /\ Max({x, y}) >= y
<1>1. \E m \in {x, y} : \A k \in {x, y} : m >= k
  OBVIOUS
<1> QED
  BY <1>1 DEF Max

\* What _free does to the free blocks: those of gone, at most one on each side of
\* b, become one block n with it.
Absorbs(free, b, n, gone, res) ==
  /\ res = (free \ gone) \cup {n} /\ gone \subseteq free
  /\ n \in Blocks /\ n.arena = b.arena /\ n.start <= b.start /\ b.stop <= n.stop
  /\ \/ /\ n.start = b.start
        /\ \A f \in free : f.arena = b.arena => f.stop # b.start
     \/ \E p \in gone : p.arena = b.arena /\ p.stop = b.start /\ p.start = n.start
  /\ \/ /\ n.stop = b.stop
        /\ \A f \in free : f.arena = b.arena => f.start # b.stop
     \/ \E p \in gone : p.arena = b.arena /\ p.start = b.stop /\ p.stop = n.stop
  /\ \A f \in gone : /\ f.arena = b.arena
                     /\ \/ f.stop = b.start /\ f.start = n.start
                        \/ f.start = b.stop /\ f.stop = n.stop

\* Insert does that.
LEMMA InsertAbsorbs ==
  ASSUME NEW arenas, NEW F, NEW A, Tiles(F \cup A, arenas), NEW b \in A
  PROVE  \E n, gone : Absorbs(F, b, n, gone, Insert(F, b))
<1> DEFINE prev == {f \in F : f.arena = b.arena /\ f.stop = b.start}
<1> DEFINE next == {f \in F : f.arena = b.arena /\ f.start = b.stop}
<1> DEFINE start == IF prev = {} THEN b.start ELSE (CHOOSE f \in prev : TRUE).start
<1> DEFINE stop == IF next = {} THEN b.stop ELSE (CHOOSE f \in next : TRUE).stop
<1> DEFINE n == Block(b.arena, start, stop)
<1>1. \A f \in F \cup A : /\ f.arena \in Nat /\ f.start \in Nat /\ f.stop \in Nat
                          /\ f.start < f.stop
  BY DEF Tiles, Inside, Blocks
<1>2. \A f, g \in prev : f = g
  BY <1>1 DEF Tiles, Apart
<1>3. \A f, g \in next : f = g
  BY <1>1 DEF Tiles, Apart
<1>4. \/ prev = {} /\ start = b.start
      \/ \E p \in prev : prev = {p} /\ start = p.start
  <2>1. CASE prev = {}
    BY <2>1
  <2>2. CASE prev # {}
    <3>1. PICK p \in prev : p = CHOOSE f \in prev : TRUE
      BY <2>2
    <3> QED
      BY <1>2, <2>2, <3>1
  <2> QED
    BY <2>1, <2>2
<1>5. \/ next = {} /\ stop = b.stop
      \/ \E p \in next : next = {p} /\ stop = p.stop
  <2>1. CASE next = {}
    BY <2>1
  <2>2. CASE next # {}
    <3>1. PICK p \in next : p = CHOOSE f \in next : TRUE
      BY <2>2
    <3> QED
      BY <1>3, <2>2, <3>1
  <2> QED
    BY <2>1, <2>2
<1>6. Insert(F, b) = (F \ (prev \cup next)) \cup {n}
  BY DEF Insert
<1> HIDE DEF start, stop
<1>7. start \in Nat /\ stop \in Nat /\ start <= b.start /\ b.stop <= stop
  BY <1>1, <1>4, <1>5
<1>8. n \in Blocks /\ n.arena = b.arena /\ n.start = start /\ n.stop = stop
  <2>1. b.arena \in Nat
    BY <1>1
  <2> QED
    BY <1>7, <2>1, BlockIs
<1> HIDE DEF n
<1>9. Absorbs(F, b, n, prev \cup next, Insert(F, b))
  BY <1>4, <1>5, <1>6, <1>7, <1>8 DEF Absorbs
<1> QED
  BY <1>9

\* Giving an allocated block back keeps the partition, and merges.
LEMMA InsertKeeps ==
  ASSUME NEW arenas, NEW F, NEW A, Heaped(F, A, arenas), NEW b \in A
  PROVE  Heaped(Insert(F, b), A \ {b}, arenas)
<1>0. Tiles(F \cup A, arenas) /\ F \cap A = {} /\ Merged(F)
  BY DEF Heaped
<1>1. PICK n, gone : Absorbs(F, b, n, gone, Insert(F, b))
  BY <1>0, InsertAbsorbs
<1>2. PICK I : I = Insert(F, b)
  OBVIOUS
<1>3. /\ I = (F \ gone) \cup {n} /\ gone \subseteq F /\ b \notin F
      /\ n \in Blocks /\ n.arena = b.arena /\ n.start <= b.start /\ b.stop <= n.stop
  BY <1>0, <1>1, <1>2 DEF Absorbs
<1>4. \A f \in F \cup A : /\ f \in Blocks /\ f.arena \in Nat /\ f.start \in Nat /\ f.stop \in Nat
                          /\ f.start < f.stop /\ f.stop <= arenas[f.arena]
                          /\ f.arena \in DOMAIN arenas
  BY <1>0 DEF Tiles, Inside, Blocks
<1>5. n.arena \in Nat /\ n.start \in Nat /\ n.stop \in Nat
  BY <1>3 DEF Blocks
<1>6. Inside(n, arenas)
  <2>1. n.stop <= arenas[n.arena]
    BY <1>1, <1>3, <1>4 DEF Absorbs
  <2> QED
    BY <1>3, <1>4, <1>5, <2>1 DEF Inside
<1>7. ASSUME NEW c \in (F \cup A) \ (gone \cup {b}) PROVE Apart(n, c) /\ n # c
  <2>1. Apart(c, b)
    BY <1>0 DEF Tiles, Apart
  <2>2. \A f \in gone : Apart(c, f)
    BY <1>0, <1>3 DEF Tiles, Apart
  <2>3. CASE c.arena = b.arena
    <3>1. c.stop <= n.start \/ c.start >= n.stop
      BY <1>1, <1>3, <1>4, <1>5, <2>1, <2>2, <2>3 DEF Absorbs, Apart
    <3> QED
      BY <1>3, <1>4, <1>5, <1>6, <3>1 DEF Apart, Inside
  <2>4. CASE c.arena # b.arena
    BY <1>3, <2>4 DEF Apart
  <2> QED
    BY <2>3, <2>4
<1>8. I \cup (A \ {b}) = ((F \cup A) \ (gone \cup {b})) \cup {n}
  <2>1. gone \cap A = {}
    BY <1>0, <1>3
  <2> QED
    BY <1>3, <2>1
<1>9. ASSUME NEW f \in I \cup (A \ {b}), NEW g \in I \cup (A \ {b}) PROVE f = g \/ Apart(f, g)
  <2>1. CASE f = n
    BY <1>7, <1>8, <2>1
  <2>2. CASE g = n /\ f # n
    <3>1. Apart(n, f)
      BY <1>7, <1>8, <2>2
    <3> QED
      BY <2>2, <3>1 DEF Apart
  <2>3. CASE f # n /\ g # n
    BY <1>0, <1>8, <2>3 DEF Tiles
  <2> QED
    BY <2>1, <2>2, <2>3
<1>10. ASSUME NEW a \in DOMAIN arenas, NEW i \in 0..(arenas[a] - 1)
       PROVE  \E c \in I \cup (A \ {b}) : Covers(c, a, i)
  <2>1. PICK c \in F \cup A : Covers(c, a, i)
    BY <1>0 DEF Tiles
  <2>2. CASE c \in gone \cup {b}
    <3>1. Covers(n, a, i)
      <4>1. CASE c = b
        BY <1>3, <1>4, <1>5, <2>1, <4>1 DEF Covers
      <4>2. CASE c \in gone
        BY <1>1, <1>3, <1>4, <1>5, <2>1, <4>2 DEF Covers, Absorbs
      <4> QED
        BY <2>2, <4>1, <4>2
    <3> QED
      BY <1>8, <3>1
  <2>3. CASE c \notin gone \cup {b}
    BY <1>8, <2>1, <2>3
  <2> QED
    BY <2>2, <2>3
<1>11. Tiles(I \cup (A \ {b}), arenas)
  <2>1. \A c \in I \cup (A \ {b}) : Inside(c, arenas)
    BY <1>0, <1>6, <1>8 DEF Tiles
  <2> QED
    BY <1>9, <1>10, <2>1 DEF Tiles
<1>12. I \cap (A \ {b}) = {}
  <2>1. n \notin A \ {b}
    BY <1>0, <1>3, <1>7
  <2> QED
    BY <1>0, <1>3, <2>1
<1>13. ASSUME NEW f \in F \ gone, f.arena = n.arena PROVE f.stop # n.start /\ n.stop # f.start
  <2>1. \A p \in gone : p.arena = f.arena => p.stop # f.start /\ f.stop # p.start
    BY <1>0, <1>3 DEF Merged
  <2> QED
    BY <1>1, <1>3, <1>13, <2>1 DEF Absorbs
<1>14. Merged(I)
  <2>1. ASSUME NEW f \in I, NEW g \in I, f.arena = g.arena PROVE f.stop # g.start
    <3>1. CASE f = n /\ g = n
      BY <1>5, <1>6, <3>1 DEF Inside
    <3>2. CASE f = n /\ g # n
      BY <1>3, <1>13, <2>1, <3>2
    <3>3. CASE f # n /\ g = n
      BY <1>3, <1>13, <2>1, <3>3
    <3>4. CASE f # n /\ g # n
      BY <1>0, <1>3, <2>1, <3>4 DEF Merged
    <3> QED
      BY <3>1, <3>2, <3>3, <3>4
  <2> QED
    BY <2>1 DEF Merged
<1> QED
  BY <1>2, <1>11, <1>12, <1>14 DEF Heaped

\* Cutting a free block in two allocated ones keeps the partition.
LEMMA SplitKeeps ==
  ASSUME NEW arenas, NEW F, NEW A, Heaped(F, A, arenas), NEW f \in F,
         NEW size \in Nat, size > 0, size < Length(f),
         NEW b, b = Block(f.arena, f.start, f.start + size),
         NEW r, r = Block(f.arena, f.start + size, f.stop)
  PROVE  Heaped(F \ {f}, A \cup {b, r}, arenas) /\ b # r /\ r \notin A /\ b \notin A
<1>0. /\ \A a \in DOMAIN arenas : arenas[a] \in Nat
      /\ Tiles(F \cup A, arenas) /\ F \cap A = {} /\ Merged(F)
  BY DEF Heaped
<1>1. \A c \in F \cup A : /\ c \in Blocks /\ c.arena \in Nat /\ c.start \in Nat /\ c.stop \in Nat
                          /\ c.start < c.stop /\ c.stop <= arenas[c.arena]
                          /\ c.arena \in DOMAIN arenas
  BY <1>0 DEF Tiles, Inside, Blocks
<1>2. /\ b \in Blocks /\ b.arena = f.arena /\ b.start = f.start /\ b.stop = f.start + size
      /\ r \in Blocks /\ r.arena = f.arena /\ r.start = f.start + size /\ r.stop = f.stop
      /\ f.start + size < f.stop
  <2>1. f.start + size \in Nat /\ f.arena \in Nat /\ f.start \in Nat /\ f.stop \in Nat
    BY <1>1
  <2>2. f.start + size < f.stop
    BY <2>1 DEF Length
  <2>3. b \in Blocks /\ b.arena = f.arena /\ b.start = f.start /\ b.stop = f.start + size
    BY <2>1, BlockIs, SMTT(30)
  <2>4. r \in Blocks /\ r.arena = f.arena /\ r.start = f.start + size /\ r.stop = f.stop
    BY <2>1, BlockIs, SMTT(30)
  <2> QED
    BY <2>2, <2>3, <2>4
<1>3. f.start + size > f.start /\ f.stop <= arenas[f.arena]
  BY <1>1
<1>4. Inside(b, arenas) /\ Inside(r, arenas)
  <2>1. b.stop <= arenas[b.arena]
    <3>1. f.stop <= arenas[f.arena] /\ arenas[f.arena] \in Nat
      BY <1>0, <1>1
    <3>2. b.stop \in Nat /\ f.stop \in Nat /\ b.stop < f.stop
      BY <1>1, <1>2
    <3> QED
      BY <1>2, <3>1, <3>2
  <2> QED
    BY <1>1, <1>2, <1>3, <2>1 DEF Inside
<1>5. Apart(b, r) /\ Apart(r, b) /\ b # r
  BY <1>1, <1>2 DEF Apart
<1>6. ASSUME NEW c \in (F \cup A) \ {f}
      PROVE  Apart(b, c) /\ Apart(c, b) /\ Apart(r, c) /\ Apart(c, r) /\ b # c /\ r # c
  <2>1. Apart(c, f)
    BY <1>0 DEF Tiles
  <2> QED
    BY <1>1, <1>2, <2>1 DEF Apart
<1>7. (F \ {f}) \cup (A \cup {b, r}) = ((F \cup A) \ {f}) \cup {b, r}
  BY <1>0
<1>8. ASSUME NEW a \in DOMAIN arenas, NEW i \in 0..(arenas[a] - 1)
      PROVE  \E c \in ((F \cup A) \ {f}) \cup {b, r} : Covers(c, a, i)
  <2>1. PICK c \in F \cup A : Covers(c, a, i)
    BY <1>0 DEF Tiles
  <2>2. CASE c = f
    <3>1. i \in Int
      OBVIOUS
    <3>2. Covers(b, a, i) \/ Covers(r, a, i)
      BY <1>1, <1>2, <2>1, <2>2, <3>1 DEF Covers
    <3> QED
      BY <3>2
  <2>3. CASE c # f
    BY <2>1, <2>3
  <2> QED
    BY <2>2, <2>3
<1>9. Tiles(((F \cup A) \ {f}) \cup {b, r}, arenas)
  <2>1. \A c \in ((F \cup A) \ {f}) \cup {b, r} : Inside(c, arenas)
    BY <1>0, <1>4 DEF Tiles
  <2>2. ASSUME NEW c \in ((F \cup A) \ {f}) \cup {b, r}, NEW g \in ((F \cup A) \ {f}) \cup {b, r}
        PROVE  c = g \/ Apart(c, g)
    <3>1. CASE c \in (F \cup A) \ {f} /\ g \in (F \cup A) \ {f}
      BY <1>0, <3>1 DEF Tiles
    <3>2. CASE c \in {b, r}
      BY <1>5, <1>6, <3>2
    <3>3. CASE g \in {b, r}
      BY <1>5, <1>6, <3>3
    <3> QED
      BY <3>1, <3>2, <3>3
  <2> QED
    BY <1>8, <2>1, <2>2 DEF Tiles
<1>10. Merged(F \ {f})
  BY <1>0 DEF Merged
<1>11. (F \ {f}) \cap (A \cup {b, r}) = {} /\ r \notin A /\ b \notin A
  BY <1>0, <1>6
<1>12. Tiles((F \ {f}) \cup (A \cup {b, r}), arenas)
  BY <1>7, <1>9
<1> QED
  BY <1>0, <1>5, <1>10, <1>11, <1>12 DEF Heaped

(***************************************************************************)
(* The inductive invariant                                                 *)
(***************************************************************************)

\* Every variable that matters has its type, and the argument of a malloc has a
\* size.
HeapType ==
  /\ heapSize \in Nat \ {0} /\ heapArenas \in Seq(Nat)
  /\ heapPc \in [HeapThreads -> {"idle", "malloc", "free", "take", "give", "return"}]
  /\ DOMAIN heapArg = HeapThreads
  /\ \A t \in HeapThreads : heapPc[t] \in {"malloc", "take"} => Length(heapArg[t]) \in Nat

\* A thread inside malloc or free holds the lock.
HeapMutex == \A t \in HeapThreads : heapPc[t] # "idle" => heapLock = t

\* The blocks partition the arenas, and free ones do not touch.
HeapBlocks == Heaped(heapFree, heapAlloc, heapArenas)

\* The blocks that free has been called for and that it has not yet given back.
BeingFreed == {heapArg[t] : t \in {u \in HeapThreads : heapPc[u] \in {"free", "give"}}}

\* An allocated block is in use, put aside or being freed, and one of these only.
HeapUse ==
  /\ heapAlloc = heapOwned \cup heapPending \cup BeingFreed
  /\ heapOwned \cap heapPending = {}
  /\ BeingFreed \cap (heapOwned \cup heapPending) = {}

\* The inductive invariant of the heap.
HeapInv == HeapType /\ HeapMutex /\ HeapBlocks /\ HeapUse

\* The heap at the start.
LEMMA HeapInitHolds == HeapInit => HeapInv
<1> SUFFICES ASSUME HeapInit PROVE HeapInv
  OBVIOUS
<1>1. heapArenas \in Seq(Nat) /\ DOMAIN heapArenas = {}
  BY DEF HeapInit
<1>2. HeapType
  BY <1>1, HeapAssumption DEF HeapInit, HeapType
<1>3. HeapMutex
  BY DEF HeapInit, HeapMutex
<1>4. HeapBlocks
  BY <1>1 DEF HeapInit, HeapBlocks, Heaped, Tiles, Merged
<1>5. HeapUse
  BY DEF HeapInit, HeapUse, BeingFreed
<1> QED
  BY <1>2, <1>3, <1>4, <1>5 DEF HeapInv

\* A thread that takes the lock is alone.
LEMMA TakesLock ==
  ASSUME HeapInv, heapLock = NoThread
  PROVE  \A t \in HeapThreads : heapPc[t] = "idle"
BY HeapAssumption DEF HeapInv, HeapMutex

\* A thread that is inside malloc or free is alone.
LEMMA HasLock ==
  ASSUME HeapInv, NEW t \in HeapThreads, heapPc[t] # "idle"
  PROVE  \A u \in HeapThreads : u # t => heapPc[u] = "idle"
BY DEF HeapInv, HeapMutex

\* malloc begins.
LEMMA MallocKeeps ==
  ASSUME HeapInv, NEW t \in HeapThreads, NEW size \in Sizes, Malloc(t, size)
  PROVE  HeapInv'
<1>0. size \in Nat
  BY HeapAssumption
<1>1. \A u \in HeapThreads : heapPc[u] = "idle"
  BY TakesLock DEF Malloc
<1>2. Length(Block(0, 0, size)) = size
  BY <1>0 DEF Length, Block
<1>3. HeapType'
  <2>1. ASSUME NEW u \in HeapThreads, heapPc'[u] \in {"malloc", "take"}
        PROVE  Length(heapArg[u])' \in Nat
    <3>1. u = t
      BY <1>1, <2>1 DEF Malloc, HeapInv, HeapType
    <3>2. heapArg'[u] = Block(0, 0, size)
      BY <3>1 DEF Malloc, HeapInv, HeapType
    <3> QED
      BY <1>0, <1>2, <3>2 DEF Length
  <2> QED
    BY <2>1 DEF Malloc, HeapInv, HeapType
<1>4. HeapMutex'
  BY <1>1 DEF Malloc, HeapInv, HeapType, HeapMutex
<1>5. HeapBlocks'
  BY DEF Malloc, HeapInv, HeapBlocks
<1>6. BeingFreed' = {} /\ BeingFreed = {}
  BY <1>1 DEF Malloc, HeapInv, HeapType, BeingFreed
<1>7. HeapUse'
  BY <1>6 DEF Malloc, HeapInv, HeapUse
<1> QED
  BY <1>3, <1>4, <1>5, <1>7 DEF HeapInv

\* free gets the lock.
LEMMA FreeKeeps ==
  ASSUME HeapInv, NEW t \in HeapThreads, NEW b \in heapOwned, Free(t, b)
  PROVE  HeapInv'
<1>1. \A u \in HeapThreads : heapPc[u] = "idle"
  BY TakesLock DEF Free
<1>2. HeapType'
  <2>1. \A u \in HeapThreads : heapPc'[u] \notin {"malloc", "take"}
    BY <1>1 DEF Free, HeapInv, HeapType
  <2> QED
    BY <2>1 DEF Free, HeapInv, HeapType
<1>3. HeapMutex'
  BY <1>1 DEF Free, HeapInv, HeapType, HeapMutex
<1>4. HeapBlocks'
  BY DEF Free, HeapInv, HeapBlocks
<1>5. BeingFreed' = {b} /\ BeingFreed = {}
  <2>1. {u \in HeapThreads : heapPc'[u] \in {"free", "give"}} = {t} /\ heapArg'[t] = b
    BY <1>1 DEF Free, HeapInv, HeapType
  <2>2. BeingFreed' = {heapArg'[u] : u \in {t}}
    BY <2>1 DEF BeingFreed
  <2>3. BeingFreed = {}
    BY <1>1 DEF BeingFreed
  <2> QED
    BY <2>1, <2>2, <2>3
<1>6. HeapUse'
  BY <1>5 DEF Free, HeapInv, HeapUse
<1> QED
  BY <1>2, <1>3, <1>4, <1>6 DEF HeapInv

\* free puts its block aside.
LEMMA FreeLaterKeeps ==
  ASSUME HeapInv, NEW t \in HeapThreads, NEW b \in heapOwned, FreeLater(t, b)
  PROVE  HeapInv'
<1>1. HeapType' /\ HeapMutex'
  BY DEF FreeLater, HeapInv, HeapType, HeapMutex, Length
<1>2. HeapBlocks'
  BY DEF FreeLater, HeapInv, HeapBlocks
<1>3. BeingFreed' = BeingFreed
  BY DEF FreeLater, BeingFreed
<1>4. HeapUse'
  BY <1>3 DEF FreeLater, HeapInv, HeapUse
<1> QED
  BY <1>1, <1>2, <1>4 DEF HeapInv

\* A block that was put aside is given back.
LEMMA DrainOneKeeps ==
  ASSUME HeapInv, NEW t \in HeapThreads, NEW b \in heapPending, DrainOne(t, b)
  PROVE  HeapInv'
<1>1. HeapType' /\ HeapMutex'
  BY DEF DrainOne, HeapInv, HeapType, HeapMutex, Length
<1>2. HeapBlocks'
  <2>1. b \in heapAlloc
    BY DEF HeapInv, HeapUse
  <2>2. Heaped(Insert(heapFree, b), heapAlloc \ {b}, heapArenas)
    BY <2>1, InsertKeeps DEF HeapInv, HeapBlocks
  <2> QED
    BY <2>2 DEF DrainOne, HeapBlocks
<1>3. BeingFreed' = BeingFreed
  BY DEF DrainOne, BeingFreed
<1>4. HeapUse'
  BY <1>3 DEF DrainOne, HeapInv, HeapUse
<1> QED
  BY <1>1, <1>2, <1>4 DEF HeapInv

\* The list of blocks put aside is empty.
LEMMA DrainEndKeeps ==
  ASSUME HeapInv, NEW t \in HeapThreads, DrainEnd(t)
  PROVE  HeapInv'
<1>1. \A u \in HeapThreads : u # t => heapPc[u] = "idle"
  BY HasLock DEF DrainEnd
<1>2. /\ \A u \in HeapThreads : u # t => heapPc'[u] = heapPc[u]
      /\ \/ heapPc[t] = "malloc" /\ heapPc'[t] = "take"
         \/ heapPc[t] = "free" /\ heapPc'[t] = "give"
      /\ heapPc' \in [HeapThreads -> {"idle", "malloc", "free", "take", "give", "return"}]
  BY DEF DrainEnd, HeapInv, HeapType
<1>3. HeapType' /\ HeapMutex'
  BY <1>1, <1>2 DEF DrainEnd, HeapInv, HeapType, HeapMutex, Length
<1>4. HeapBlocks'
  BY DEF DrainEnd, HeapInv, HeapBlocks
<1>5. BeingFreed' = BeingFreed
  <2>1. {u \in HeapThreads : heapPc'[u] \in {"free", "give"}}
          = {u \in HeapThreads : heapPc[u] \in {"free", "give"}}
    BY <1>1, <1>2
  <2>2. heapArg' = heapArg
    BY DEF DrainEnd
  <2> QED
    BY <2>1, <2>2 DEF BeingFreed
<1>6. HeapUse'
  BY <1>5 DEF DrainEnd, HeapInv, HeapUse
<1> QED
  BY <1>3, <1>4, <1>6 DEF HeapInv

\* free gives its own block back.
LEMMA FreeNowKeeps ==
  ASSUME HeapInv, NEW t \in HeapThreads, FreeNow(t)
  PROVE  HeapInv'
<1>0. PICK b : b = heapArg[t]
  OBVIOUS
<1>1. \A u \in HeapThreads : u # t => heapPc[u] = "idle"
  BY HasLock DEF FreeNow
<1>2. /\ \A u \in HeapThreads : u # t => heapPc'[u] = heapPc[u]
      /\ heapPc[t] = "give" /\ heapPc'[t] = "return"
      /\ heapPc' \in [HeapThreads -> {"idle", "malloc", "free", "take", "give", "return"}]
  BY DEF FreeNow, HeapInv, HeapType
<1>3. HeapType' /\ HeapMutex'
  BY <1>1, <1>2 DEF FreeNow, HeapInv, HeapType, HeapMutex, Length
<1>4. BeingFreed' = {} /\ BeingFreed = {b}
  <2>1. {u \in HeapThreads : heapPc'[u] \in {"free", "give"}} = {}
    BY <1>1, <1>2
  <2>2. {u \in HeapThreads : heapPc[u] \in {"free", "give"}} = {t}
    BY <1>1, <1>2
  <2>3. BeingFreed = {heapArg[u] : u \in {t}}
    BY <2>2 DEF BeingFreed
  <2> QED
    BY <1>0, <2>1, <2>3 DEF BeingFreed
<1>5. b \in heapAlloc
  BY <1>4 DEF HeapInv, HeapUse
<1>6. HeapBlocks'
  <2>1. Heaped(Insert(heapFree, b), heapAlloc \ {b}, heapArenas)
    BY <1>5, InsertKeeps DEF HeapInv, HeapBlocks
  <2> QED
    BY <1>0, <2>1 DEF FreeNow, HeapBlocks
<1>7. HeapUse'
  BY <1>0, <1>4 DEF FreeNow, HeapInv, HeapUse
<1> QED
  BY <1>3, <1>6, <1>7 DEF HeapInv

\* The lock is released.
LEMMA HeapReturnKeeps ==
  ASSUME HeapInv, NEW t \in HeapThreads, HeapReturn(t)
  PROVE  HeapInv'
<1>1. \A u \in HeapThreads : u # t => heapPc[u] = "idle"
  BY HasLock DEF HeapReturn
<1>2. \A u \in HeapThreads : heapPc'[u] = "idle"
  BY <1>1 DEF HeapReturn, HeapInv, HeapType
<1>3. HeapType' /\ HeapMutex'
  BY <1>2 DEF HeapReturn, HeapInv, HeapType, HeapMutex
<1>4. HeapBlocks'
  BY DEF HeapReturn, HeapInv, HeapBlocks
<1>5. BeingFreed' = {} /\ BeingFreed = {}
  BY <1>1, <1>2 DEF HeapReturn, BeingFreed
<1>6. HeapUse'
  BY <1>5 DEF HeapReturn, HeapInv, HeapUse
<1> QED
  BY <1>3, <1>4, <1>6 DEF HeapInv

\* A new arena is one free block, which touches no other.
LEMMA NewArena ==
  ASSUME NEW arenas \in Seq(Nat), NEW F, NEW A, Heaped(F, A, arenas),
         NEW new \in Nat \ {0}, NEW f, f = Block(Len(arenas) + 1, 0, new)
  PROVE  Heaped(F \cup {f}, A, Append(arenas, new))
<1>0. Tiles(F \cup A, arenas) /\ F \cap A = {} /\ Merged(F)
  BY DEF Heaped
<1>1. PICK more : more = Append(arenas, new)
  OBVIOUS
<1>2. /\ more \in Seq(Nat) /\ Len(more) = Len(arenas) + 1 /\ Len(arenas) \in Nat
      /\ \A a \in 1..Len(arenas) : more[a] = arenas[a]
      /\ more[Len(arenas) + 1] = new
  BY <1>1, AppendProperties, LenProperties
<1>3. DOMAIN arenas = 1..Len(arenas) /\ DOMAIN more = 1..(Len(arenas) + 1)
  BY <1>2, LenProperties
<1>4. /\ f \in Blocks /\ f.arena = Len(arenas) + 1 /\ f.start = 0 /\ f.stop = new
  BY <1>2, BlockIs, SMTT(30)
<1>5. \A c \in F \cup A : /\ c \in Blocks /\ c.arena \in Nat /\ c.start \in Nat /\ c.stop \in Nat
                          /\ c.start < c.stop /\ c.stop <= arenas[c.arena]
                          /\ c.arena \in 1..Len(arenas)
  BY <1>0, <1>3 DEF Tiles, Inside, Blocks
<1>6. \A c \in F \cup A : c.arena # f.arena
  BY <1>2, <1>4, <1>5
<1>7. \A c \in F \cup A : Inside(c, more)
  <2> SUFFICES ASSUME NEW c \in F \cup A PROVE Inside(c, more)
    OBVIOUS
  <2>1. more[c.arena] = arenas[c.arena] /\ c.arena \in DOMAIN more
    BY <1>2, <1>3, <1>5
  <2> QED
    BY <1>5, <2>1 DEF Inside
<1>8. Inside(f, more)
  BY <1>2, <1>3, <1>4 DEF Inside
<1>9. ASSUME NEW c \in (F \cup {f}) \cup A, NEW g \in (F \cup {f}) \cup A PROVE c = g \/ Apart(c, g)
  <2>1. CASE c \in F \cup A /\ g \in F \cup A
    BY <1>0, <2>1 DEF Tiles
  <2>2. CASE c = f \/ g = f
    BY <1>6, <2>2 DEF Apart
  <2> QED
    BY <2>1, <2>2
<1>10. ASSUME NEW a \in DOMAIN more, NEW i \in 0..(more[a] - 1)
       PROVE  \E c \in (F \cup {f}) \cup A : Covers(c, a, i)
  <2>1. CASE a \in 1..Len(arenas)
    <3>1. a \in DOMAIN arenas /\ i \in 0..(arenas[a] - 1)
      BY <1>2, <1>3, <2>1
    <3> QED
      BY <1>0, <3>1 DEF Tiles
  <2>2. CASE a = Len(arenas) + 1
    <3>1. Covers(f, a, i)
      BY <1>2, <1>4, <2>2 DEF Covers
    <3> QED
      BY <3>1
  <2> QED
    BY <1>2, <1>3, <2>1, <2>2
<1>11. Tiles((F \cup {f}) \cup A, more)
  BY <1>7, <1>8, <1>9, <1>10 DEF Tiles
<1>12. Merged(F \cup {f})
  BY <1>0, <1>4, <1>6 DEF Merged
<1>13. \A a \in DOMAIN more : more[a] \in Nat
  BY <1>2, <1>3, ElementOfSeq
<1>14. (F \cup {f}) \cap A = {}
  BY <1>0, <1>6
<1> QED
  BY <1>1, <1>11, <1>12, <1>13, <1>14 DEF Heaped

\* The free blocks without f, but with what is left of it after b.
Remainder(F, f, b) ==
  IF b.stop < f.stop THEN Insert(F \ {f}, Block(f.arena, b.stop, f.stop)) ELSE F \ {f}

\* malloc takes the front of a free block and gives the rest of it back.
LEMMA TakeKeeps ==
  ASSUME NEW arenas, NEW F, NEW A, Heaped(F, A, arenas), NEW f \in F,
         NEW size \in Nat, size > 0, size <= Length(f),
         NEW b, b = Block(f.arena, f.start, f.start + size)
  PROVE  Heaped(Remainder(F, f, b), A \cup {b}, arenas) /\ b \notin A
<1>a. PICK G : G = Remainder(F, f, b)
  OBVIOUS
<1>0. /\ \A a \in DOMAIN arenas : arenas[a] \in Nat
      /\ Tiles(F \cup A, arenas) /\ F \cap A = {} /\ Merged(F)
  BY DEF Heaped
<1>1. /\ f \in Blocks /\ f.arena \in Nat /\ f.start \in Nat /\ f.stop \in Nat
      /\ f.start < f.stop
  BY <1>0 DEF Tiles, Inside, Blocks
<1>2. f.start + size \in Nat
  BY <1>1
<1>3. b \in Blocks /\ b.arena = f.arena /\ b.start = f.start /\ b.stop = f.start + size
  BY <1>1, <1>2, BlockIs, SMTT(20)
<1>4. Merged(F \ {f})
  BY <1>0 DEF Merged
<1>5. CASE b.stop < f.stop
  <2>1. PICK r : r = Block(f.arena, f.start + size, f.stop)
    OBVIOUS
  <2>2. size < Length(f)
    BY <1>1, <1>3, <1>5 DEF Length
  <2>3. Heaped(F \ {f}, A \cup {b, r}, arenas) /\ b # r /\ r \notin A /\ b \notin A
    BY <2>1, <2>2, SplitKeeps
  <2>4. G = Insert(F \ {f}, r)
    BY <1>a, <1>3, <1>5, <2>1 DEF Remainder
  <2>5. PICK E, B : E = F \ {f} /\ B = A \cup {b, r}
    OBVIOUS
  <2>6. Heaped(E, B, arenas) /\ r \in B
    BY <2>3, <2>5
  <2>7. Heaped(Insert(E, r), B \ {r}, arenas)
    BY <2>6, InsertKeeps
  <2>8. B \ {r} = A \cup {b}
    BY <2>3, <2>5
  <2> QED
    BY <1>a, <2>3, <2>4, <2>5, <2>7, <2>8
<1>6. CASE ~(b.stop < f.stop)
  <2>1. b.stop = f.stop
    BY <1>1, <1>3, <1>6 DEF Length
  <2>2. b = f
    BY <1>1, <1>3, <2>1 DEF Blocks
  <2>3. G = F \ {f}
    BY <1>a, <1>6 DEF Remainder
  <2>4. G \cup (A \cup {b}) = F \cup A
    BY <2>2, <2>3
  <2> QED
    BY <1>a, <1>0, <1>4, <2>2, <2>3, <2>4 DEF Heaped
<1> QED
  BY <1>5, <1>6

\* malloc allocates.
LEMMA AllocateKeeps ==
  ASSUME HeapInv, NEW t \in HeapThreads, Allocate(t)
  PROVE  HeapInv'
<1> DEFINE size == Roundup(Max({Length(heapArg[t]), 1}), Align)
<1> DEFINE fits == {f \in heapFree : Length(f) >= size}
<1> DEFINE new == Roundup(Max({heapSize, size}), PageSize)
<1> DEFINE from == IF fits = {} THEN {Block(Len(heapArenas) + 1, 0, new)}
                   ELSE {f \in fits : \A g \in fits : Length(f) <= Length(g)}
<1>1. heapPc[t] = "take" /\ Length(heapArg[t]) \in Nat /\ heapSize \in Nat
  BY DEF Allocate, HeapInv, HeapType
<1>2. size \in Nat /\ size > 0
  <2>1. Max({Length(heapArg[t]), 1}) \in Nat /\ Max({Length(heapArg[t]), 1}) >= 1
    BY <1>1, MaxIs
  <2> QED
    BY <2>1, RoundupIs, HeapAssumption
<1>3. new \in Nat \ {0} /\ size <= new
  <2> HIDE DEF size
  <2>1. Max({heapSize, size}) \in Nat /\ Max({heapSize, size}) >= size
    BY <1>1, <1>2, MaxIs
  <2>2. new \in Nat /\ new >= Max({heapSize, size})
    BY <2>1, RoundupIs, HeapAssumption
  <2> HIDE DEF new
  <2> QED
    BY <1>2, <2>1, <2>2
<1>4. PICK f \in from :
        LET b == Block(f.arena, f.start, f.start + size)
            rest == heapFree \ {f}
        IN
        /\ heapAlloc' = heapAlloc \cup {b}
        /\ heapOwned' = heapOwned \cup {b}
        /\ heapFree' = IF b.stop < f.stop
                       THEN Insert(rest, Block(f.arena, b.stop, f.stop)) ELSE rest
        /\ heapArenas' = IF fits = {} THEN Append(heapArenas, new) ELSE heapArenas
        /\ heapSize' = IF fits = {} THEN heapSize * 2 ELSE heapSize
  BY DEF Allocate
<1> HIDE DEF size, new
<1>5. PICK b : b = Block(f.arena, f.start, f.start + size)
  OBVIOUS
<1>6. /\ heapAlloc' = heapAlloc \cup {b} /\ heapOwned' = heapOwned \cup {b}
      /\ heapFree' = IF b.stop < f.stop
                     THEN Insert(heapFree \ {f}, Block(f.arena, b.stop, f.stop))
                     ELSE heapFree \ {f}
  BY <1>4, <1>5
<1>7. heapArenas \in Seq(Nat) /\ Len(heapArenas) \in Nat /\ \A a \in DOMAIN heapArenas : heapArenas[a] \in Nat
  <2>1. heapArenas \in Seq(Nat)
    BY DEF HeapInv, HeapType
  <2> QED
    BY <2>1, LenProperties, ElementOfSeq
<1>8. heapArenas' \in Seq(Nat) /\ HeapBlocks' /\ b \notin heapAlloc
  <2>1. CASE fits = {}
    <3>1. f = Block(Len(heapArenas) + 1, 0, new) /\ heapArenas' = Append(heapArenas, new)
      BY <1>4, <2>1
    <3>2. Heaped(heapFree \cup {f}, heapAlloc, heapArenas')
      BY <1>3, <1>7, <3>1, NewArena DEF HeapInv, HeapBlocks
    <3>3. heapArenas' \in Seq(Nat)
      BY <1>3, <1>7, <3>1, AppendProperties
    <3>5. size <= Length(f)
      <4>1. f.start = 0 /\ f.stop = new
        BY <1>3, <1>7, <3>1, BlockIs
      <4> QED
        BY <1>2, <1>3, <4>1 DEF Length
    <3>6. (heapFree \cup {f}) \ {f} = heapFree \ {f}
      OBVIOUS
    <3>7. heapFree' = Remainder(heapFree \cup {f}, f, b)
      BY <1>6, <3>6 DEF Remainder
    <3>8. Heaped(heapFree', heapAlloc \cup {b}, heapArenas') /\ b \notin heapAlloc
      <4>1. PICK ar, F : ar = heapArenas' /\ F = heapFree \cup {f}
        OBVIOUS
      <4>2. Heaped(F, heapAlloc, ar) /\ f \in F
        BY <3>2, <4>1
      <4>3. Heaped(Remainder(F, f, b), heapAlloc \cup {b}, ar) /\ b \notin heapAlloc
        BY <1>2, <1>5, <3>5, <4>2, TakeKeeps
      <4> QED
        BY <3>7, <4>1, <4>3
    <3> QED
      BY <1>6, <3>3, <3>8 DEF HeapBlocks
  <2>2. CASE fits # {}
    <3>1. f \in heapFree /\ Length(f) >= size /\ heapArenas' = heapArenas
      BY <1>4, <2>2
    <3>2. size <= Length(f)
      <4>1. Length(f) \in Int
        BY <3>1 DEF Length, HeapInv, HeapBlocks, Heaped, Tiles, Inside, Blocks
      <4> QED
        BY <1>2, <3>1, <4>1
    <3>3. heapFree' = Remainder(heapFree, f, b)
      BY <1>6 DEF Remainder
    <3>4. Heaped(heapFree, heapAlloc, heapArenas)
      BY DEF HeapInv, HeapBlocks
    <3>6. Heaped(Remainder(heapFree, f, b), heapAlloc \cup {b}, heapArenas) /\ b \notin heapAlloc
      BY <1>2, <1>5, <3>1, <3>2, <3>4, TakeKeeps
    <3> QED
      BY <1>6, <1>7, <3>1, <3>3, <3>6 DEF HeapBlocks
  <2> QED
    BY <2>1, <2>2
<1>9. \A u \in HeapThreads : u # t => heapPc[u] = "idle"
  BY <1>1, HasLock
<1>10. /\ \A u \in HeapThreads : u # t => heapPc'[u] = heapPc[u]
       /\ heapPc'[t] = "return" /\ heapArg' = heapArg /\ heapLock' = heapLock
       /\ heapPc' \in [HeapThreads -> {"idle", "malloc", "free", "take", "give", "return"}]
       /\ heapPending' = heapPending
  BY DEF Allocate, HeapInv, HeapType
<1>11. HeapType'
  <2>1. heapSize' \in Nat \ {0}
    <3>1. heapSize \in Nat \ {0}
      BY DEF HeapInv, HeapType
    <3> QED
      BY <1>4, <3>1
  <2> QED
    BY <1>8, <1>9, <1>10, <2>1 DEF HeapInv, HeapType, Length
<1>12. HeapMutex'
  BY <1>1, <1>9, <1>10 DEF HeapInv, HeapMutex
<1>13. BeingFreed' = {} /\ BeingFreed = {}
  BY <1>1, <1>9, <1>10 DEF BeingFreed
<1>14. HeapUse'
  BY <1>6, <1>8, <1>10, <1>13 DEF HeapInv, HeapUse
<1> QED
  BY <1>8, <1>11, <1>12, <1>14 DEF HeapInv

\* Every step of the heap keeps the invariant.
LEMMA HeapNextKeeps == HeapInv /\ [HeapNext]_heapVars => HeapInv'
<1> SUFFICES ASSUME HeapInv, [HeapNext]_heapVars PROVE HeapInv'
  OBVIOUS
<1>1. ASSUME NEW t \in HeapThreads, \E size \in Sizes : Malloc(t, size) PROVE HeapInv'
  BY <1>1, MallocKeeps
<1>2. ASSUME NEW t \in HeapThreads, \E b \in heapOwned : Free(t, b) \/ FreeLater(t, b)
      PROVE  HeapInv'
  BY <1>2, FreeKeeps, FreeLaterKeeps
<1>3. ASSUME NEW t \in HeapThreads, HeapStep(t) PROVE HeapInv'
  BY <1>3, DrainOneKeeps, DrainEndKeeps, AllocateKeeps, FreeNowKeeps, HeapReturnKeeps
  DEF HeapStep
<1>4. CASE UNCHANGED heapVars
  BY <1>4 DEF heapVars, HeapInv, HeapType, HeapMutex, HeapBlocks, HeapUse, BeingFreed,
     Length
<1> QED
  BY <1>1, <1>2, <1>3, <1>4 DEF HeapNext

\* Blocks that partition the arenas cover each byte once.
LEMMA CoveredOnce ==
  ASSUME NEW S, NEW arenas, Tiles(S, arenas), NEW a \in DOMAIN arenas,
         NEW i \in 0..(arenas[a] - 1)
  PROVE  Cardinality({b \in S : Covers(b, a, i)}) = 1
<1>1. PICK b \in S : Covers(b, a, i)
  BY DEF Tiles
<1>2. ASSUME NEW c \in S, Covers(c, a, i) PROVE c = b
  <2>1. c = b \/ Apart(c, b)
    BY DEF Tiles
  <2>2. /\ c.start \in Nat /\ c.stop \in Nat /\ b.start \in Nat /\ b.stop \in Nat /\ i \in Int
    BY DEF Tiles, Inside, Blocks
  <2> QED
    BY <1>1, <1>2, <2>1, <2>2 DEF Apart, Covers
<1>3. {c \in S : Covers(c, a, i)} = {b}
  BY <1>1, <1>2
<1> QED
  BY <1>3, FS_Singleton

\* The blocks partition the arenas, free neighbours are merged, and a free that
\* was put aside is done once, for all sizes, alignments and numbers of threads.
THEOREM HeapIsSafe == HeapSpec => []HeapSafe
<1>1. HeapInv => HeapSafe
  <2> SUFFICES ASSUME HeapInv PROVE HeapSafe
    OBVIOUS
  <2>1. HeapPartition
    BY CoveredOnce DEF HeapInv, HeapBlocks, Heaped, HeapPartition
  <2>2. HeapCoalesced
    BY DEF HeapInv, HeapBlocks, Heaped, Merged, HeapCoalesced
  <2>3. HeapPendingKept
    BY DEF HeapInv, HeapUse, BeingFreed, HeapPendingKept
  <2> QED
    BY <2>1, <2>2, <2>3 DEF HeapSafe
<1> QED
  BY <1>1, HeapInitHolds, HeapNextKeeps, PTL DEF HeapSpec

(***************************************************************************)
(* Connection                                                              *)
(***************************************************************************)

\* The units of message m are Size(m), and its j-th is UnitAt(m, j).
Units == [msg : Nat, at : Nat]
Size(m) == HeaderUnits + Payloads[m]
UnitAt(m, j) == [msg |-> m, at |-> IF j <= HeaderUnits THEN 0 ELSE j - HeaderUnits]
Whole(m) == Header(m) \o Payload(m)

\* All that is under way, the units in the pipe first.
Unwritten == cnBuf \o cnAfter
Line == cnPipe \o Unwritten

CnType ==
  /\ cnMsg \in 0..Len(Payloads)
  /\ cnPipe \in Seq(Units) /\ cnBuf \in Seq(Units) /\ cnAfter \in Seq(Units)
  /\ cnRead \in Seq(Units) /\ cnWant \in Nat /\ cnGot \in Seq(Seq(Units))
  /\ cnPart \in {"head", "body"} /\ cnEnd \in {"no", "eof", "broken", "length"}

\* Message m of the n that were sent begins after off[m] units.
Offsets(off, n) ==
  /\ off \in [1..(n + 1) -> Nat] /\ off[1] = 0
  /\ \A m \in 1..n : off[m + 1] = off[m] + Size(m)
  /\ \A l, m \in 1..(n + 1) : l < m => off[l] + Size(l) <= off[m]

\* The line has all the units of the n messages that come after the first "past".
Carries(line, off, n, past) ==
  /\ past \in Nat /\ Len(line) + past = off[n + 1]
  /\ \A m \in 1..n : \A j \in 1..Size(m) :
       off[m] + j > past => line[(off[m] + j) - past] = UnitAt(m, j)

\* What is not written belongs to the last message.
Sending(off, past) == cnMsg > 0 => off[cnMsg] <= past + Len(cnPipe)

\* The receiver is at the next message, in its header or in its payload.
Reading(off, past, c) ==
  /\ cnCall = "none" => past = off[c]
  /\ cnCall # "none" /\ cnPart = "head" =>
       /\ Len(cnRead) + cnWant = HeaderUnits /\ past = off[c] + Len(cnRead)
       /\ \A j \in 1..Len(cnRead) : cnRead[j] = UnitAt(c, j)
  /\ cnCall # "none" /\ cnPart = "body" =>
       /\ c <= cnMsg /\ cnHead = Header(c)
       /\ Len(cnRead) + cnWant = Payloads[c] /\ past = off[c] + HeaderUnits + Len(cnRead)
       /\ \A j \in 1..Len(cnRead) : cnRead[j] = UnitAt(c, HeaderUnits + j)

Stream(off, past) ==
  /\ Offsets(off, cnMsg) /\ Carries(Line, off, cnMsg, past)
  /\ Sending(off, past) /\ Reading(off, past, Len(cnGot) + 1)

CnInv ==
  /\ CnType /\ StreamSafe
  /\ cnCall # "none" => cnEnd = "no" /\ cnReadable
  /\ cnReadable => cnEnd # "length"
  /\ cnEnd = "eof" => cnClosed
  /\ cnBuf = <<>> => cnAfter = <<>>
  /\ cnEnd = "no" => \E off, past : Stream(off, past)

\* The sizes are numbers, and the units of a message are its own.
LEMMA SizeType ==
  ASSUME NEW m \in 1..Len(Payloads)
  PROVE  /\ Payloads[m] \in Nat /\ Size(m) \in Nat \ {0} /\ m \in Nat
         /\ HeaderUnits \in Nat \ {0} /\ HeaderUnits <= Size(m)
<1>1. Payloads \in Seq(Nat) /\ HeaderUnits \in Nat \ {0}
  BY ConnectionAssumption
<1>2. Payloads[m] \in Nat /\ m \in Nat
  BY <1>1
<1> QED
  BY <1>1, <1>2 DEF Size

\* What is on the line, position by position.
LEMMA LineAt ==
  ASSUME NEW P \in Seq(Units), NEW R \in Seq(Units)
  PROVE  /\ P \o R \in Seq(Units) /\ Len(P) \in Nat /\ Len(R) \in Nat
         /\ Len(P \o R) = Len(P) + Len(R)
         /\ \A k \in 1..Len(P) : (P \o R)[k] = P[k]
         /\ \A k \in 1..Len(R) : (P \o R)[Len(P) + k] = R[k]
         /\ \A k \in 1..(Len(P) + Len(R)) :
              (P \o R)[k] = IF k <= Len(P) THEN P[k] ELSE R[k - Len(P)]
<1>1. /\ P \o R \in Seq(Units) /\ Len(P) \in Nat /\ Len(R) \in Nat
      /\ Len(P \o R) = Len(P) + Len(R)
      /\ \A k \in 1..(Len(P) + Len(R)) :
           (P \o R)[k] = IF k <= Len(P) THEN P[k] ELSE R[k - Len(P)]
  BY ConcatProperties
<1>2. ASSUME NEW k \in 1..Len(P) PROVE (P \o R)[k] = P[k]
  BY <1>1
<1>3. ASSUME NEW k \in 1..Len(R) PROVE (P \o R)[Len(P) + k] = R[k]
  <2>1. /\ Len(P) + k \in 1..(Len(P) + Len(R)) /\ ~(Len(P) + k <= Len(P))
        /\ (Len(P) + k) - Len(P) = k
    BY <1>1
  <2> QED
    BY <1>1, <2>1
<1> QED
  BY <1>1, <1>2, <1>3

LEMMA MessageUnits ==
  ASSUME NEW m \in 1..Len(Payloads)
  PROVE  /\ Header(m) \in Seq(Units) /\ Len(Header(m)) = HeaderUnits
         /\ Payload(m) \in Seq(Units) /\ Len(Payload(m)) = Payloads[m]
         /\ Whole(m) \in Seq(Units) /\ Len(Whole(m)) = Size(m)
         /\ \A j \in 1..HeaderUnits : Header(m)[j] = UnitAt(m, j)
         /\ \A j \in 1..Payloads[m] : Payload(m)[j] = UnitAt(m, HeaderUnits + j)
         /\ \A j \in 1..Size(m) : Whole(m)[j] = UnitAt(m, j)
<1>1. Payloads[m] \in Nat /\ HeaderUnits \in Nat \ {0} /\ m \in Nat
  BY SizeType
<1>2. /\ Header(m) \in Seq(Units) /\ Len(Header(m)) = HeaderUnits
      /\ \A j \in 1..HeaderUnits : Header(m)[j] = UnitAt(m, j)
  BY <1>1 DEF Header, Units, UnitAt
<1>3. Payload(m) \in Seq(Units) /\ Len(Payload(m)) = Payloads[m]
  <2>1. PICK N \in Nat : N = Payloads[m]
    BY <1>1
  <2>2. Payload(m) = [k \in 1..N |-> [msg |-> m, at |-> k]]
    BY <2>1 DEF Payload
  <2>3. \A k \in 1..N : [msg |-> m, at |-> k] \in Units
    BY <1>1 DEF Units
  <2>4. Payload(m) \in Seq(Units) /\ Len(Payload(m)) = N
    BY <2>2, <2>3
  <2> QED
    BY <2>1, <2>4
<1>4. ASSUME NEW j \in 1..Payloads[m] PROVE Payload(m)[j] = UnitAt(m, HeaderUnits + j)
  BY <1>1 DEF Payload, UnitAt
<1>5. /\ Whole(m) \in Seq(Units) /\ Len(Whole(m)) = HeaderUnits + Payloads[m]
      /\ \A j \in 1..(HeaderUnits + Payloads[m]) :
           Whole(m)[j] = IF j <= HeaderUnits THEN Header(m)[j] ELSE Payload(m)[j - HeaderUnits]
  <2>1. LET H == Header(m)
            P == Payload(m)
        IN  /\ H \o P \in Seq(Units) /\ Len(H \o P) = Len(H) + Len(P)
            /\ \A k \in 1..(Len(H) + Len(P)) :
                 (H \o P)[k] = IF k <= Len(H) THEN H[k] ELSE P[k - Len(H)]
    BY <1>2, <1>3, LineAt
  <2> QED
    BY <1>2, <1>3, <2>1 DEF Whole
<1>6. ASSUME NEW j \in 1..Size(m) PROVE Whole(m)[j] = UnitAt(m, j)
  <2>1. CASE j <= HeaderUnits
    BY <1>1, <1>2, <1>5, <2>1 DEF Size
  <2>2. CASE ~(j <= HeaderUnits)
    <3>1. j - HeaderUnits \in 1..Payloads[m] /\ HeaderUnits + (j - HeaderUnits) = j
      BY <1>1, <2>2 DEF Size
    <3>2. Payload(m)[j - HeaderUnits] = UnitAt(m, j)
      BY <1>4, <3>1
    <3> QED
      BY <1>5, <2>2, <3>2 DEF Size
  <2> QED
    BY <2>1, <2>2
<1> QED
  BY <1>2, <1>3, <1>4, <1>5, <1>6 DEF Size

\* Reading n units takes them off the line.
LEMMA LineTaken ==
  ASSUME NEW P \in Seq(Units), NEW R \in Seq(Units), NEW n \in 1..Len(P)
  PROVE  /\ SubSeq(P, n + 1, Len(P)) \in Seq(Units)
         /\ Len(SubSeq(P, n + 1, Len(P))) = Len(P) - n
         /\ Len(SubSeq(P, n + 1, Len(P)) \o R) = Len(P \o R) - n
         /\ \A k \in 1..(Len(P) + Len(R) - n) :
              (SubSeq(P, n + 1, Len(P)) \o R)[k] = (P \o R)[n + k]
         /\ SubSeq(P, 1, n) \in Seq(Units) /\ Len(SubSeq(P, 1, n)) = n
         /\ \A k \in 1..n : SubSeq(P, 1, n)[k] = (P \o R)[k]
<1>q. PICK Q : Q = SubSeq(P, n + 1, Len(P))
  OBVIOUS
<1>0. Len(P) \in Nat /\ Len(R) \in Nat /\ n \in Nat /\ n <= Len(P)
  OBVIOUS
<1>1. Q \in Seq(Units) /\ Len(Q) = Len(P) - n /\ \A k \in 1..(Len(P) - n) : Q[k] = P[n + k]
  BY <1>0, <1>q
<1>2. /\ SubSeq(P, 1, n) \in Seq(Units) /\ Len(SubSeq(P, 1, n)) = n
      /\ \A k \in 1..n : SubSeq(P, 1, n)[k] = P[k]
  BY <1>0
<1>3. Len(Q \o R) = Len(Q) + Len(R) /\ Len(P \o R) = Len(P) + Len(R)
  BY <1>1, LineAt
<1>4. ASSUME NEW k \in 1..(Len(P) + Len(R) - n) PROVE (Q \o R)[k] = (P \o R)[n + k]
  <2>1. CASE k <= Len(P) - n
    <3>1. k \in 1..Len(Q) /\ n + k \in 1..Len(P)
      BY <1>0, <1>1, <2>1
    <3>2. (Q \o R)[k] = Q[k] /\ (P \o R)[n + k] = P[n + k]
      BY <1>1, <3>1, LineAt
    <3> QED
      BY <1>1, <2>1, <3>2
  <2>2. CASE ~(k <= Len(P) - n)
    <3>0. k - (Len(P) - n) \in 1..Len(R)
      BY <1>0, <2>2
    <3>1. PICK l \in 1..Len(R) : l = k - (Len(P) - n)
      BY <3>0
    <3>2. k = Len(Q) + l /\ n + k = Len(P) + l
      BY <1>0, <1>1, <3>1
    <3>3. (Q \o R)[Len(Q) + l] = R[l] /\ (P \o R)[Len(P) + l] = R[l]
      BY <1>1, LineAt
    <3> QED
      BY <3>2, <3>3
  <2> QED
    BY <2>1, <2>2
<1>5. \A k \in 1..n : SubSeq(P, 1, n)[k] = (P \o R)[k]
  BY <1>0, <1>2, LineAt
<1> QED
  <2>1. Len(Q) = Len(P) - n /\ Len(Q \o R) = Len(P \o R) - n
    BY <1>0, <1>1, <1>3
  <2> QED
    BY <1>q, <1>1, <1>2, <1>4, <1>5, <2>1

\* Where messages begin when one more is sent.
LEMMA MoreOffsets ==
  ASSUME NEW n \in Nat, n + 1 \in 1..Len(Payloads), NEW off, Offsets(off, n)
  PROVE  \E new : /\ Offsets(new, n + 1) /\ new[n + 2] = off[n + 1] + Size(n + 1)
                  /\ \A m \in 1..(n + 1) : new[m] = off[m]
<1> DEFINE new == [m \in 1..(n + 2) |-> IF m <= n + 1 THEN off[m] ELSE off[n + 1] + Size(n + 1)]
<1>0. Len(Payloads) \in Nat
  BY ConnectionAssumption
<1>1. Size(n + 1) \in Nat \ {0} /\ off[n + 1] \in Nat
  BY SizeType DEF Offsets
<1>2. \A m \in 1..(n + 1) : new[m] = off[m] /\ off[m] \in Nat
  BY DEF Offsets
<1>3. new[n + 2] = off[n + 1] + Size(n + 1)
  OBVIOUS
<1>4. new \in [1..((n + 1) + 1) -> Nat] /\ new[1] = 0
  BY <1>1, <1>2, <1>3 DEF Offsets
<1> HIDE DEF new
<1>5. \A m \in 1..(n + 1) : m \in 1..n \/ m = n + 1
  OBVIOUS
<1>6. \A m \in 1..(n + 1) : new[m + 1] = new[m] + Size(m)
  <2>1. \A m \in 1..n : m + 1 \in 1..(n + 1) /\ m \in 1..(n + 1)
    OBVIOUS
  <2>2. (n + 1) + 1 = n + 2 /\ n + 1 \in 1..(n + 1)
    OBVIOUS
  <2> QED
    BY <1>2, <1>3, <1>5, <2>1, <2>2 DEF Offsets
<1>7. ASSUME NEW l \in 1..(n + 2), NEW m \in 1..(n + 2), l < m
      PROVE  new[l] + Size(l) <= new[m]
  <2>1. CASE m \in 1..(n + 1)
    <3>1. l \in 1..(n + 1)
      BY <1>7, <2>1
    <3> QED
      BY <1>2, <1>7, <2>1, <3>1 DEF Offsets
  <2>2. CASE m = n + 2
    <3>1. l \in 1..(n + 1)
      BY <1>7, <2>2
    <3>2. CASE l = n + 1
      BY <1>1, <1>2, <1>3, <2>2, <3>2
    <3>3. CASE l \in 1..n
      <4>1. off[l] + Size(l) <= off[n + 1]
        BY <3>3 DEF Offsets
      <4>2. l \in 1..Len(Payloads)
        BY <1>0, <3>3
      <4>3. Size(l) \in Nat
        BY <4>2, SizeType
      <4> QED
        BY <1>1, <1>2, <1>3, <2>2, <3>1, <4>1, <4>3
    <3> QED
      BY <1>5, <3>1, <3>2, <3>3
  <2> QED
    BY <2>1, <2>2
<1>8. Offsets(new, n + 1)
  <2>1. (n + 1) + 1 = n + 2
    OBVIOUS
  <2> QED
    BY <1>4, <1>6, <1>7, <2>1 DEF Offsets
<1> QED
  BY <1>2, <1>3, <1>8

\* A message is put behind a line.
LEMMA LineSent ==
  ASSUME NEW n \in Nat, n + 1 \in 1..Len(Payloads), NEW off, Offsets(off, n), NEW new,
         Offsets(new, n + 1), \A m \in 1..(n + 1) : new[m] = off[m],
         NEW line \in Seq(Units), NEW past, Carries(line, off, n, past)
  PROVE  Carries(line \o Whole(n + 1), new, n + 1, past)
<1> DEFINE M == Whole(n + 1)
<1>1. /\ M \in Seq(Units) /\ Len(M) = Size(n + 1) /\ Size(n + 1) \in Nat
      /\ \A j \in 1..Size(n + 1) : M[j] = UnitAt(n + 1, j)
  BY MessageUnits, SizeType
<1> HIDE DEF M
<1>2. /\ Len(line \o M) = Len(line) + Len(M) /\ Len(line) \in Nat
      /\ \A k \in 1..Len(line) : (line \o M)[k] = line[k]
      /\ \A k \in 1..Len(M) : (line \o M)[Len(line) + k] = M[k]
  BY <1>1, LineAt
<1>3. /\ past \in Nat /\ Len(line) + past = off[n + 1] /\ off[n + 1] \in Nat
      /\ new[n + 1] = off[n + 1] /\ new[(n + 1) + 1] = new[n + 1] + Size(n + 1)
  BY DEF Carries, Offsets
<1>4. Len(line \o M) + past = new[(n + 1) + 1]
  BY <1>1, <1>2, <1>3
<1>5. ASSUME NEW m \in 1..(n + 1), NEW j \in 1..Size(m), new[m] + j > past
      PROVE  (line \o M)[(new[m] + j) - past] = UnitAt(m, j)
  <2>1. CASE m = n + 1
    <3>1. (new[m] + j) - past = Len(line) + j /\ j \in 1..Len(M)
      BY <1>1, <1>2, <1>3, <2>1
    <3> QED
      BY <1>1, <1>2, <2>1, <3>1
  <2>2. CASE m \in 1..n
    <3>1. /\ off[m] \in Nat /\ new[m] = off[m] /\ off[m + 1] = off[m] + Size(m)
          /\ off[m + 1] \in Nat /\ off[m + 1] <= off[n + 1]
      <4>0. m + 1 \in 1..(n + 1) /\ m \in 1..(n + 1)
        BY <2>2
      <4>1. off[m] \in Nat /\ new[m] = off[m] /\ off[m + 1] = off[m] + Size(m) /\ off[m + 1] \in Nat
        BY <2>2, <4>0 DEF Offsets
      <4>2. off[m] + Size(m) <= off[n + 1]
        BY <2>2 DEF Offsets
      <4> QED
        BY <4>1, <4>2
    <3>2. (off[m] + j) - past \in 1..Len(line)
      <4>1. Size(m) \in Nat
        <5>1. Len(Payloads) \in Nat
          BY ConnectionAssumption
        <5>2. m \in 1..Len(Payloads)
          BY <2>2, <5>1
        <5> QED
          BY <5>2, SizeType
      <4>2. PICK a \in Nat : a = off[m] + j
        BY <3>1, <4>1
      <4>3. a > past /\ a <= off[n + 1]
        <5>1. PICK p \in Nat : p = off[m]
          BY <3>1
        <5>2. p + Size(m) <= off[n + 1] /\ a = p + j /\ j <= Size(m)
          BY <3>1, <4>1, <4>2, <5>1
        <5>3. a > past
          BY <1>5, <3>1, <4>2
        <5> QED
          BY <1>3, <4>1, <5>2, <5>3
      <4>4. a - past \in 1..Len(line)
        BY <1>2, <1>3, <4>3
      <4> QED
        BY <4>2, <4>4
    <3>3. line[(off[m] + j) - past] = UnitAt(m, j)
      BY <1>5, <2>2, <3>1 DEF Carries
    <3> QED
      BY <1>2, <3>1, <3>2, <3>3
  <2>3. m \in 1..n \/ m = n + 1
    OBVIOUS
  <2> QED
    BY <2>1, <2>2, <2>3
<1> QED
  BY <1>3, <1>4, <1>5 DEF Carries, M

\* n units are taken off a line.
LEMMA LineShorter ==
  ASSUME NEW line \in Seq(Units), NEW off, NEW k \in Nat, NEW past, Offsets(off, k),
         Carries(line, off, k, past), NEW n \in 1..Len(line), NEW next,
         Len(next) = Len(line) - n, \A i \in 1..(Len(line) - n) : next[i] = line[n + i],
         \A m \in 1..k : Size(m) \in Nat
  PROVE  Carries(next, off, k, past + n)
<1>0. Len(line) \in Nat /\ n \in Nat /\ past \in Nat /\ Len(line) + past = off[k + 1]
  BY DEF Carries
<1>1. Len(next) + (past + n) = off[k + 1] /\ past + n \in Nat
  BY <1>0
<1>2. ASSUME NEW m \in 1..k, NEW j \in 1..Size(m), off[m] + j > past + n
      PROVE  next[(off[m] + j) - (past + n)] = UnitAt(m, j)
  <2>1. off[m] \in Nat /\ off[m] + Size(m) <= off[k + 1] /\ off[k + 1] \in Nat
    <3>1. k + 1 \in 1..(k + 1) /\ m \in 1..(k + 1) /\ m < k + 1
      OBVIOUS
    <3> QED
      BY <3>1 DEF Offsets
  <2>0. Size(m) \in Nat /\ j \in Nat /\ j <= Size(m)
    <3>1. Size(m) \in Nat
      OBVIOUS
    <3> QED
      BY <3>1
  <2>a. PICK p \in Nat : p = off[m]
    BY <2>1
  <2>2. off[m] + j > past /\ n + ((off[m] + j) - (past + n)) = (off[m] + j) - past
    <3>1. p + j > past + n
      BY <1>2, <2>a
    <3>2. p + j > past /\ n + ((p + j) - (past + n)) = (p + j) - past
      BY <1>0, <2>0, <3>1
    <3> QED
      BY <2>a, <3>2
  <2>3. (off[m] + j) - (past + n) \in 1..(Len(line) - n)
    <3>1. PICK q \in Nat : q = off[k + 1]
      BY <2>1
    <3>2. p + j > past + n /\ p + Size(m) <= q /\ Len(line) + past = q
      BY <1>0, <1>2, <2>1, <2>a, <3>1
    <3>3. (p + j) - (past + n) \in 1..(Len(line) - n)
      BY <1>0, <2>0, <3>2
    <3> QED
      BY <2>a, <3>3
  <2>4. line[(off[m] + j) - past] = UnitAt(m, j)
    BY <2>2 DEF Carries
  <2> QED
    BY <2>2, <2>3, <2>4
<1> QED
  BY <1>1, <1>2 DEF Carries

\* The numbers of a stream.
LEMMA StreamTypes ==
  ASSUME CnType, Len(cnGot) <= cnMsg, NEW off, NEW past, Stream(off, past)
  PROVE  /\ past \in Nat /\ cnMsg \in Nat /\ Len(cnGot) + 1 \in 1..(cnMsg + 1)
         /\ \A m \in 1..(cnMsg + 1) : off[m] \in Nat
         /\ \A m \in 1..cnMsg : /\ m \in 1..Len(Payloads) /\ Size(m) \in Nat \ {0}
                                /\ off[m + 1] = off[m] + Size(m)
         /\ Unwritten \in Seq(Units) /\ Line \in Seq(Units)
         /\ Len(Line) = Len(cnPipe) + Len(Unwritten)
         /\ Len(cnPipe) \in Nat /\ Len(Unwritten) \in Nat /\ Len(cnRead) \in Nat
         /\ Len(Line) + past = off[cnMsg + 1]
<1>1. cnMsg \in Nat /\ Len(Payloads) \in Nat /\ cnMsg <= Len(Payloads)
  BY ConnectionAssumption DEF CnType
<1>2. \A m \in 1..cnMsg : m \in 1..Len(Payloads)
  BY <1>1
<1>3. /\ Unwritten \in Seq(Units) /\ Line \in Seq(Units)
      /\ Len(Line) = Len(cnPipe) + Len(Unwritten)
      /\ Len(cnPipe) \in Nat /\ Len(Unwritten) \in Nat /\ Len(cnRead) \in Nat
  <2>1. cnPipe \in Seq(Units) /\ cnBuf \in Seq(Units) /\ cnAfter \in Seq(Units)
        /\ cnRead \in Seq(Units)
    BY DEF CnType
  <2>2. Unwritten \in Seq(Units)
    BY <2>1, LineAt DEF Unwritten
  <2> QED
    BY <2>1, <2>2, LineAt DEF Line
<1>4. past \in Nat /\ Len(Line) + past = off[cnMsg + 1]
  BY DEF Stream, Carries
<1>5. \A m \in 1..(cnMsg + 1) : off[m] \in Nat
  BY DEF Stream, Offsets
<1>6. \A m \in 1..cnMsg : Size(m) \in Nat \ {0} /\ off[m + 1] = off[m] + Size(m)
  BY <1>2, SizeType DEF Stream, Offsets
<1>7. Len(cnGot) + 1 \in 1..(cnMsg + 1)
  BY <1>1 DEF CnType
<1> QED
  BY <1>1, <1>2, <1>3, <1>4, <1>5, <1>6, <1>7

\* A unit on the line that the receiver waits for, in message c from position j0 on.
LEMMA UnitsRead ==
  ASSUME CnType, Len(cnGot) <= cnMsg, NEW off, NEW past, Stream(off, past),
         NEW c \in 1..(cnMsg + 1), NEW j0 \in Nat, past = off[c] + j0,
         NEW n \in 1..Len(cnPipe)
  PROVE  /\ c \in 1..cnMsg
         /\ \A k \in 1..n : j0 + k <= Size(c) => SubSeq(cnPipe, 1, n)[k] = UnitAt(c, j0 + k)
<1>1. /\ past \in Nat /\ Len(Line) + past = off[cnMsg + 1]
      /\ Len(Line) = Len(cnPipe) + Len(Unwritten)
      /\ Len(cnPipe) \in Nat /\ Len(Unwritten) \in Nat /\ cnMsg \in Nat
      /\ Unwritten \in Seq(Units) /\ cnPipe \in Seq(Units) /\ off[c] \in Nat
  BY StreamTypes DEF CnType
<1>2. c \in 1..cnMsg
  <2>1. c # cnMsg + 1
    <3>1. PICK a \in Nat : a = off[c]
      BY <1>1
    <3>2. c = cnMsg + 1 => Len(Line) + (a + j0) = a
      BY <1>1, <3>1
    <3>3. Len(Line) \in Nat /\ Len(Line) > 0
      BY <1>1
    <3> QED
      BY <3>2, <3>3
  <2> QED
    BY <1>1, <2>1
<1>3. ASSUME NEW k \in 1..n, j0 + k <= Size(c)
      PROVE  SubSeq(cnPipe, 1, n)[k] = UnitAt(c, j0 + k)
  <2>1. SubSeq(cnPipe, 1, n)[k] = Line[k]
    BY <1>1, LineTaken DEF Line
  <2>2. Size(c) \in Nat
    BY <1>2, StreamTypes
  <2>3. j0 + k \in 1..Size(c) /\ off[c] + (j0 + k) > past /\ (off[c] + (j0 + k)) - past = k
    <3>1. k \in Nat /\ k > 0
      BY <1>1
    <3>2. PICK a \in Nat : a = off[c]
      BY <1>1
    <3>3. j0 + k \in 1..Size(c)
      BY <1>3, <2>2, <3>1
    <3>4. past = a + j0
      BY <3>2
    <3>5. a + (j0 + k) > past /\ (a + (j0 + k)) - past = k
      BY <3>1, <3>4
    <3> QED
      BY <3>2, <3>3, <3>5
  <2>4. Line[(off[c] + (j0 + k)) - past] = UnitAt(c, j0 + k)
    BY <1>2, <2>3 DEF Stream, Carries
  <2> QED
    BY <2>1, <2>3, <2>4
<1> QED
  BY <1>2, <1>3

\* Three sequences in a row are grouped in either way.
Regroups(s, t, u) == (s \o t) \o u = s \o (t \o u)

LEMMA Associates ==
  ASSUME NEW s \in Seq(Units), NEW t \in Seq(Units), NEW u \in Seq(Units)
  PROVE  Regroups(s, t, u)
BY ConcatAssociative DEF Regroups

\* Writing n units moves them from the buffer to the pipe, and leaves the line as it is.
LEMMA WriteSplit ==
  ASSUME NEW P \in Seq(Units), NEW B \in Seq(Units), NEW A \in Seq(Units), NEW n \in 1..Len(B)
  PROVE  /\ SubSeq(B, 1, n) \in Seq(Units) /\ SubSeq(B, n + 1, Len(B)) \in Seq(Units)
         /\ P \o SubSeq(B, 1, n) \in Seq(Units)
         /\ Len(P \o SubSeq(B, 1, n)) = Len(P) + n
         /\ (P \o SubSeq(B, 1, n)) \o (SubSeq(B, n + 1, Len(B)) \o A) = P \o (B \o A)
         /\ n = Len(B) => (P \o SubSeq(B, 1, n)) \o (A \o <<>>) = P \o (B \o A)
<1>f. PICK F : F = SubSeq(B, 1, n)
  OBVIOUS
<1>r. PICK R : R = SubSeq(B, n + 1, Len(B))
  OBVIOUS
<1>1. F \in Seq(Units) /\ R \in Seq(Units) /\ Len(F) = n /\ Len(P) \in Nat
  BY <1>f, <1>r
<1>2. F \o R = B
  <2>1. 1 \in 1..(Len(B) + 1) /\ n \in (1 - 1)..Len(B) /\ Len(B) \in n..Len(B)
    OBVIOUS
  <2>2. SubSeq(B, 1, n) \o SubSeq(B, n + 1, Len(B)) = SubSeq(B, 1, Len(B))
    BY <2>1, ConcatAdjacentSubSeq
  <2> QED
    BY <1>f, <1>r, <2>2, SubSeqFull
<1>3. n = Len(B) => F = B
  BY <1>f, SubSeqFull
<1>4. P \o F \in Seq(Units) /\ Len(P \o F) = Len(P) + n
  BY <1>1, LineAt
<1>5. (P \o F) \o (R \o A) = P \o (B \o A)
  <2>0. F \in Seq(Units) /\ R \in Seq(Units)
    BY <1>1
  <2>1. PICK Q \in Seq(Units) : Q = R \o A
    BY <2>0, LineAt
  <2>2. Regroups(P, F, Q) /\ Regroups(F, R, A)
    BY <2>0, Associates
  <2> QED
    BY <1>2, <2>1, <2>2, Zenon DEF Regroups
<1>6. n = Len(B) => (P \o F) \o (A \o <<>>) = P \o (B \o A)
  <2>1. A \o <<>> = A
    BY ConcatEmptySeq
  <2>2. ASSUME F = B PROVE (P \o F) \o A = P \o (B \o A)
    <3>1. Regroups(P, B, A)
      BY Associates
    <3> QED
      BY <2>2, <3>1, Zenon DEF Regroups
  <2> QED
    BY <1>3, <2>1, <2>2, Zenon
<1> QED
  BY <1>1, <1>4, <1>5, <1>6, <1>f, <1>r, Zenon

LEMMA CnInitial == CnInit => CnInv
<1> SUFFICES ASSUME CnInit PROVE CnInv
  OBVIOUS
<1>0. Len(Payloads) \in Nat /\ HeaderUnits \in Nat
  BY ConnectionAssumption
<1>1. CnType
  BY <1>0 DEF CnInit, CnType
<1>2. StreamSafe
  BY DEF CnInit, StreamSafe, MessagesIntact, EofAfterAll
<1>3. Line = <<>>
  BY DEF CnInit, Line, Unwritten
<1> DEFINE off == [m \in 1..1 |-> 0]
<1>4. Stream(off, 0)
  <2>1. Offsets(off, cnMsg)
    BY DEF CnInit, Offsets
  <2>2. Carries(Line, off, cnMsg, 0)
    BY <1>3 DEF CnInit, Carries
  <2>3. Sending(off, 0) /\ Reading(off, 0, Len(cnGot) + 1)
    BY DEF CnInit, Sending, Reading
  <2> QED
    BY <2>1, <2>2, <2>3 DEF Stream
<1> HIDE DEF off
<1> QED
  BY <1>1, <1>2, <1>4 DEF CnInv, CnInit

LEMMA CnSendKeeps == CnInv /\ CnSend => CnInv'
<1> SUFFICES ASSUME CnInv, CnSend PROVE CnInv'
  OBVIOUS
<1> DEFINE m == cnMsg + 1
<1>0. cnMsg \in Nat /\ m \in 1..Len(Payloads) /\ Len(Payloads) \in Nat /\ Len(cnGot) \in Nat
  BY ConnectionAssumption DEF CnInv, CnType, CnSend
<1> HIDE DEF m
<1>1. /\ Header(m) \in Seq(Units) /\ Payload(m) \in Seq(Units) /\ Whole(m) \in Seq(Units)
      /\ Header(m) # <<>>
  <2>1. Header(m) \in Seq(Units) /\ Payload(m) \in Seq(Units) /\ Whole(m) \in Seq(Units)
        /\ Len(Header(m)) = HeaderUnits /\ HeaderUnits \in Nat \ {0}
    BY <1>0, MessageUnits, SizeType
  <2> QED
    BY <2>1
<1>2. /\ cnMsg' = m /\ cnBuf = <<>> /\ cnAfter = <<>> /\ ~cnClosed
      /\ \/ cnBuf' = Header(m) /\ cnAfter' = Payload(m)
         \/ cnBuf' = Whole(m) /\ cnAfter' = <<>>
      /\ UNCHANGED <<cnClosed, cnPipe, cnCall, cnWant, cnPart, cnRead, cnHead, cnGot, cnEnd, cnReadable>>
  BY DEF CnSend, m, Whole, cnRecvVars
<1>t. CnType
  BY DEF CnInv
<1>3. CnType'
  <2>1. cnBuf' \in Seq(Units) /\ cnAfter' \in Seq(Units)
    <3>1. <<>> \in Seq(Units)
      OBVIOUS
    <3> QED
      BY <1>1, <1>2, <3>1, Zenon
  <2>2. cnMsg' \in 0..Len(Payloads)
    BY <1>0, <1>2
  <2> QED
    BY <1>2, <1>t, <2>1, <2>2 DEF CnType
<1>4. StreamSafe'
  BY <1>0, <1>2 DEF CnInv, StreamSafe, MessagesIntact, EofAfterAll, m
<1>5. Unwritten' = Whole(m) /\ Unwritten = <<>>
  <2>1. Whole(m) \o <<>> = Whole(m)
    BY <1>1, ConcatEmptySeq
  <2> QED
    BY <1>2, <2>1 DEF Unwritten, Whole
<1>6. ASSUME cnEnd' = "no" PROVE \E off, past : Stream(off, past)'
  <2>1. PICK off, past : Stream(off, past)
    BY <1>2, <1>6 DEF CnInv
  <2>t. CnType /\ Len(cnGot) <= cnMsg
    BY DEF CnInv, StreamSafe, MessagesIntact
  <2>2. PICK new : /\ Offsets(new, cnMsg + 1)
                   /\ \A l \in 1..(cnMsg + 1) : new[l] = off[l]
    BY <1>0, <2>1, MoreOffsets DEF Stream, m
  <2>3. Line = cnPipe /\ Line' = Line \o Whole(m) /\ Line \in Seq(Units)
    <3>1. cnPipe \o <<>> = cnPipe /\ cnPipe \in Seq(Units)
      BY ConcatEmptySeq DEF CnInv, CnType
    <3> QED
      BY <1>2, <1>5, <3>1 DEF Line
  <2>4. Carries(Line \o Whole(m), new, cnMsg + 1, past)
    BY <1>0, <2>1, <2>2, <2>3, LineSent DEF Stream, m
  <2>5. past \in Nat /\ off[cnMsg + 1] = Len(cnPipe) + past /\ Len(cnPipe) \in Nat
    BY <2>1, <2>3, <2>t, StreamTypes
  <2>6. Sending(new, past)'
    BY <1>0, <1>2, <2>2, <2>5 DEF Sending, m
  <2>7. new[Len(cnGot) + 1] = off[Len(cnGot) + 1]
    BY <2>1, <2>2, <2>t, StreamTypes
  <2>8. Reading(new, past, Len(cnGot) + 1)'
    BY <1>0, <1>2, <2>1, <2>7 DEF Stream, Reading, m
  <2>9. Stream(new, past)'
    BY <1>2, <2>2, <2>3, <2>4, <2>6, <2>8 DEF Stream, m
  <2> QED
    BY <2>9
<1>7. CnInv'
  BY <1>1, <1>2, <1>3, <1>4, <1>6 DEF CnInv
<1> QED
  BY <1>7

LEMMA CnWriteKeeps == ASSUME CnInv, NEW n \in 1..PipeUnits, CnWrite(n) PROVE CnInv'
<1>0. cnPipe \in Seq(Units) /\ cnBuf \in Seq(Units) /\ cnAfter \in Seq(Units) /\ n \in 1..Len(cnBuf)
  BY DEF CnInv, CnType, CnWrite
<1>1. /\ ~cnClosed /\ cnPipe' = cnPipe \o SubSeq(cnBuf, 1, n)
      /\ \/ cnBuf' = SubSeq(cnBuf, n + 1, Len(cnBuf)) /\ cnAfter' = cnAfter /\ n < Len(cnBuf)
         \/ cnBuf' = cnAfter /\ cnAfter' = <<>> /\ n = Len(cnBuf)
      /\ UNCHANGED <<cnMsg, cnClosed, cnCall, cnWant, cnPart, cnRead, cnHead, cnGot, cnEnd, cnReadable>>
  BY <1>0 DEF CnWrite, cnRecvVars
<1>2. /\ cnPipe' \in Seq(Units) /\ Len(cnPipe') = Len(cnPipe) + n
      /\ SubSeq(cnBuf, n + 1, Len(cnBuf)) \in Seq(Units)
  BY <1>0, <1>1, WriteSplit
<1>3. CnType'
  <2>1. cnBuf' \in Seq(Units) /\ cnAfter' \in Seq(Units)
    <3>1. <<>> \in Seq(Units)
      OBVIOUS
    <3> QED
      BY <1>0, <1>1, <1>2, <3>1, Zenon
  <2> QED
    BY <1>1, <1>2, <2>1 DEF CnInv, CnType
<1>4. Line' = Line
  <2>1. CASE cnBuf' = SubSeq(cnBuf, n + 1, Len(cnBuf)) /\ cnAfter' = cnAfter
    <3>1. Line' = (cnPipe \o SubSeq(cnBuf, 1, n)) \o (SubSeq(cnBuf, n + 1, Len(cnBuf)) \o cnAfter)
      BY <1>1, <2>1 DEF Line, Unwritten
    <3>2. (cnPipe \o SubSeq(cnBuf, 1, n)) \o (SubSeq(cnBuf, n + 1, Len(cnBuf)) \o cnAfter)
          = cnPipe \o (cnBuf \o cnAfter)
      BY <1>0, WriteSplit, ZenonT(30)
    <3> QED
      BY <3>1, <3>2, Zenon DEF Line, Unwritten
  <2>2. CASE cnBuf' = cnAfter /\ cnAfter' = <<>> /\ n = Len(cnBuf)
    <3>1. Line' = (cnPipe \o SubSeq(cnBuf, 1, n)) \o (cnAfter \o <<>>)
      BY <1>1, <2>2 DEF Line, Unwritten
    <3>2. (cnPipe \o SubSeq(cnBuf, 1, n)) \o (cnAfter \o <<>>) = cnPipe \o (cnBuf \o cnAfter)
      BY <1>0, <2>2, WriteSplit
    <3> QED
      BY <3>1, <3>2, Zenon DEF Line, Unwritten
  <2> QED
    BY <1>1, <2>1, <2>2
<1>5. StreamSafe'
  BY <1>1 DEF CnInv, StreamSafe, MessagesIntact, EofAfterAll
<1>6. ASSUME cnEnd' = "no" PROVE \E off, past : Stream(off, past)'
  <2>1. PICK off, past : Stream(off, past)
    BY <1>1, <1>6 DEF CnInv
  <2>2. past \in Nat /\ cnMsg \in Nat /\ Len(cnPipe) \in Nat /\ (cnMsg > 0 => off[cnMsg] \in Nat)
    BY <2>1, StreamTypes, SMTT(20) DEF CnInv, StreamSafe, MessagesIntact
  <2>3. Sending(off, past)'
    BY <1>0, <1>1, <1>2, <2>1, <2>2 DEF Stream, Sending
  <2>4. Reading(off, past, Len(cnGot) + 1)'
    BY <1>1, <2>1 DEF Stream, Reading
  <2>5. Stream(off, past)'
    BY <1>1, <1>4, <2>1, <2>3, <2>4 DEF Stream
  <2> QED
    BY <2>5
<1>7. cnBuf' = <<>> => cnAfter' = <<>>
  <2>1. n < Len(cnBuf) => SubSeq(cnBuf, n + 1, Len(cnBuf)) # <<>>
    <3>1. Len(SubSeq(cnBuf, n + 1, Len(cnBuf))) = Len(cnBuf) - n /\ Len(cnBuf) \in Nat /\ n \in Nat
      BY <1>0
    <3>2. n < Len(cnBuf) => Len(SubSeq(cnBuf, n + 1, Len(cnBuf))) # 0
      BY <3>1
    <3>3. Len(<<>>) = 0
      OBVIOUS
    <3> QED
      BY <3>2, <3>3, Zenon
  <2> QED
    BY <1>1, <2>1
<1> QED
  BY <1>1, <1>3, <1>5, <1>6, <1>7 DEF CnInv
LEMMA CnReceiveKeeps == ASSUME CnInv, NEW call, call # "none", CnReceive(call) PROVE CnInv'
<1>1. /\ cnCall = "none" /\ cnCall' = call /\ cnEnd = "no" /\ cnReadable
      /\ cnPart' = "head" /\ cnWant' = HeaderUnits /\ cnRead' = <<>>
      /\ UNCHANGED <<cnMsg, cnBuf, cnAfter, cnClosed, cnPipe, cnHead, cnGot, cnEnd, cnReadable>>
  BY DEF CnReceive, CnInv, CnType, cnSendVars
<1>2. HeaderUnits \in Nat
  BY ConnectionAssumption
<1>3. CnType'
  BY <1>1, <1>2 DEF CnInv, CnType
<1>4. StreamSafe'
  BY <1>1 DEF CnInv, StreamSafe, MessagesIntact, EofAfterAll
<1>5. PICK off, past : Stream(off, past)
  BY <1>1 DEF CnInv
<1>6. off[Len(cnGot) + 1] \in Nat
  BY <1>5, StreamTypes DEF CnInv, StreamSafe, MessagesIntact
<1>7. Reading(off, past, Len(cnGot) + 1)'
  BY <1>1, <1>2, <1>5, <1>6 DEF Stream, Reading
<1>8. Stream(off, past)'
  BY <1>1, <1>5, <1>7 DEF Stream, Line, Unwritten, Sending
<1> QED
  BY <1>1, <1>3, <1>4, <1>8 DEF CnInv

\* The unit at position j0 + k of message c follows j0 units of it.
LEMMA CnReadSomeKeeps == ASSUME CnInv, NEW n \in 1..PipeUnits, CnReadSome(n) PROVE CnInv'
<1> DEFINE F == SubSeq(cnPipe, 1, n)
           c == Len(cnGot) + 1
<1>t. CnType /\ Len(cnGot) <= cnMsg
  BY DEF CnInv, StreamSafe, MessagesIntact
<1>0. cnPipe \in Seq(Units) /\ n \in 1..Len(cnPipe) /\ cnRead \in Seq(Units) /\ n \in 1..cnWant
      /\ cnWant \in Nat /\ n \in Nat /\ Len(cnRead) \in Nat /\ HeaderUnits \in Nat \ {0}
  BY <1>t, ConnectionAssumption DEF CnType, CnReadSome
<1>1. /\ cnCall # "none" /\ cnEnd = "no" /\ cnReadable /\ cnWant' = cnWant - n
      /\ cnPipe' = SubSeq(cnPipe, n + 1, Len(cnPipe)) /\ cnRead' = cnRead \o F
      /\ UNCHANGED <<cnMsg, cnBuf, cnAfter, cnClosed, cnCall, cnPart, cnHead, cnGot, cnEnd, cnReadable>>
  BY DEF CnReadSome, CnInv, cnSendVars
<1>2. PICK off, past : Stream(off, past)
  BY <1>1 DEF CnInv
<1>3. /\ past \in Nat /\ cnMsg \in Nat /\ c \in 1..(cnMsg + 1) /\ Unwritten \in Seq(Units)
      /\ \A m \in 1..(cnMsg + 1) : off[m] \in Nat
      /\ \A m \in 1..cnMsg : m \in 1..Len(Payloads) /\ Size(m) \in Nat
      /\ Line \in Seq(Units) /\ Len(Line) = Len(cnPipe) + Len(Unwritten) /\ Len(Unwritten) \in Nat
      /\ Len(cnPipe) \in Nat
  BY <1>t, <1>2, StreamTypes
<1>4. /\ cnPipe' \in Seq(Units) /\ Len(cnPipe') = Len(cnPipe) - n
      /\ Len(cnPipe' \o Unwritten) = Len(Line) - n
      /\ \A k \in 1..(Len(Line) - n) : (cnPipe' \o Unwritten)[k] = Line[n + k]
      /\ F \in Seq(Units) /\ Len(F) = n
  <2>1. /\ cnPipe' \in Seq(Units) /\ Len(cnPipe') = Len(cnPipe) - n
        /\ Len(cnPipe' \o Unwritten) = Len(cnPipe \o Unwritten) - n
        /\ \A k \in 1..(Len(cnPipe) + Len(Unwritten) - n) :
             (cnPipe' \o Unwritten)[k] = (cnPipe \o Unwritten)[n + k]
        /\ F \in Seq(Units) /\ Len(F) = n
    <3>1. PICK P \in Seq(Units) : P = cnPipe
      BY <1>0
    <3>2. PICK R \in Seq(Units) : R = Unwritten
      BY <1>3
    <3>3. n \in 1..Len(P)
      BY <1>0, <3>1
    <3>4. /\ SubSeq(P, n + 1, Len(P)) \in Seq(Units)
          /\ Len(SubSeq(P, n + 1, Len(P))) = Len(P) - n
          /\ Len(SubSeq(P, n + 1, Len(P)) \o R) = Len(P \o R) - n
          /\ \A k \in 1..(Len(P) + Len(R) - n) :
               (SubSeq(P, n + 1, Len(P)) \o R)[k] = (P \o R)[n + k]
          /\ SubSeq(P, 1, n) \in Seq(Units) /\ Len(SubSeq(P, 1, n)) = n
      BY <3>3, LineTaken, Zenon
    <3> QED
      BY <1>1, <3>1, <3>2, <3>4, Zenon
  <2> HIDE DEF F, c
  <2> QED
    BY <1>3, <2>1 DEF Line
<1> HIDE DEF F, c
<1>5. /\ cnRead' \in Seq(Units) /\ Len(cnRead') = Len(cnRead) + n
      /\ \A j \in 1..(Len(cnRead) + n) :
           cnRead'[j] = IF j <= Len(cnRead) THEN cnRead[j] ELSE F[j - Len(cnRead)]
  <2>1. /\ cnRead \o F \in Seq(Units) /\ Len(cnRead \o F) = Len(cnRead) + Len(F)
        /\ \A j \in 1..(Len(cnRead) + Len(F)) :
             (cnRead \o F)[j] = IF j <= Len(cnRead) THEN cnRead[j] ELSE F[j - Len(cnRead)]
    BY <1>0, <1>4, LineAt
  <2> QED
    BY <1>1, <1>4, <2>1
<1>6. CnType'
  <2>1. cnWant' \in Nat
    BY <1>0, <1>1
  <2> QED
    BY <1>1, <1>4, <1>5, <1>t, <2>1 DEF CnType
<1>7. StreamSafe'
  BY <1>1 DEF CnInv, StreamSafe, MessagesIntact, EofAfterAll
<1>8. Unwritten' = Unwritten /\ Line' = cnPipe' \o Unwritten
  BY <1>1 DEF Unwritten, Line
<1>9. Carries(Line, off, cnMsg, past + n)'
  <2>1. n \in 1..Len(Line) /\ Offsets(off, cnMsg) /\ Carries(Line, off, cnMsg, past)
    BY <1>0, <1>2, <1>3 DEF Stream
  <2>2. Carries(cnPipe' \o Unwritten, off, cnMsg, past + n)
    BY <1>3, <1>4, <2>1, LineShorter
  <2> QED
    BY <1>1, <1>8, <2>2
<1>10. Sending(off, past + n)'
  <2>1. cnMsg > 0 => off[cnMsg] <= past + Len(cnPipe)
    BY <1>2 DEF Stream, Sending
  <2>2. past + Len(cnPipe) = (past + n) + Len(cnPipe')
    BY <1>0, <1>3, <1>4
  <2> QED
    BY <1>1, <2>1, <2>2 DEF Sending
<1>11. ASSUME NEW j0 \in Nat, past = off[c] + j0
       PROVE  c \in 1..cnMsg /\ \A k \in 1..n : j0 + k <= Size(c) => F[k] = UnitAt(c, j0 + k)
  <2>1. /\ c \in 1..cnMsg
        /\ \A k \in 1..n : j0 + k <= Size(c) => SubSeq(cnPipe, 1, n)[k] = UnitAt(c, j0 + k)
    <3>1. CnType /\ Len(cnGot) <= cnMsg /\ Stream(off, past) /\ n \in 1..Len(cnPipe)
          /\ c \in 1..(cnMsg + 1) /\ past = off[c] + j0
      BY <1>0, <1>11, <1>2, <1>3, <1>t
    <3> QED
      BY <3>1, UnitsRead
  <2> QED
    BY <2>1, Zenon DEF F
<1>12. off[c] \in Nat /\ Reading(off, past, c)
  BY <1>2, <1>3 DEF Stream, c
<1>13. Reading(off, past + n, c)'
  <2>1. CASE cnPart = "head"
    <3>1. /\ Len(cnRead) + cnWant = HeaderUnits /\ past = off[c] + Len(cnRead)
          /\ \A j \in 1..Len(cnRead) : cnRead[j] = UnitAt(c, j)
      BY <1>1, <1>12, <2>1 DEF Reading
    <3>2. c \in 1..cnMsg /\ \A k \in 1..n : Len(cnRead) + k <= Size(c) => F[k] = UnitAt(c, Len(cnRead) + k)
      BY <1>0, <1>11, <3>1
    <3>3. HeaderUnits <= Size(c) /\ Size(c) \in Nat
      BY <1>3, <3>2, SizeType
    <3>4. ASSUME NEW j \in 1..(Len(cnRead) + n) PROVE cnRead'[j] = UnitAt(c, j)
      <4>1. CASE j <= Len(cnRead)
        BY <1>5, <3>1, <4>1
      <4>2. CASE ~(j <= Len(cnRead))
        <5>1. PICK k \in 1..n : k = j - Len(cnRead)
          BY <1>0, <4>2
        <5>2. Len(cnRead) + k = j /\ j <= Size(c)
          BY <1>0, <3>1, <3>3, <5>1
        <5>3. F[k] = UnitAt(c, j)
          BY <3>2, <5>2
        <5> QED
          BY <1>5, <4>2, <5>1, <5>3
      <4> QED
        BY <4>1, <4>2
    <3>5. /\ Len(cnRead') + cnWant' = HeaderUnits /\ past + n = off[c] + Len(cnRead')
      <4>1. PICK a \in Nat : a = off[c]
        BY <1>12
      <4>2. (Len(cnRead) + n) + (cnWant - n) = HeaderUnits
        <5>1. (Len(cnRead) + n) + (cnWant - n) = Len(cnRead) + cnWant
          BY <1>0
        <5> QED
          BY <3>1, <5>1
      <4>3. (a + Len(cnRead)) + n = a + (Len(cnRead) + n)
        BY <1>0
      <4> QED
        BY <1>1, <1>5, <3>1, <4>1, <4>2, <4>3
    <3> QED
      BY <1>1, <1>5, <2>1, <3>4, <3>5 DEF Reading, c
  <2>2. CASE cnPart = "body"
    <3>1. /\ c <= cnMsg /\ cnHead = Header(c)
          /\ Len(cnRead) + cnWant = Payloads[c] /\ past = off[c] + HeaderUnits + Len(cnRead)
          /\ \A j \in 1..Len(cnRead) : cnRead[j] = UnitAt(c, HeaderUnits + j)
      BY <1>1, <1>12, <2>2 DEF Reading
    <3>2. PICK j0 \in Nat : j0 = HeaderUnits + Len(cnRead)
      BY <1>0
    <3>3. past = off[c] + j0
      BY <1>0, <1>12, <3>1, <3>2
    <3>4. c \in 1..cnMsg /\ \A k \in 1..n : j0 + k <= Size(c) => F[k] = UnitAt(c, j0 + k)
      BY <1>11, <3>3
    <3>5. Payloads[c] \in Nat /\ Size(c) = HeaderUnits + Payloads[c]
      BY <1>3, <3>4, SizeType DEF Size
    <3>6. ASSUME NEW j \in 1..(Len(cnRead) + n) PROVE cnRead'[j] = UnitAt(c, HeaderUnits + j)
      <4>1. CASE j <= Len(cnRead)
        BY <1>5, <3>1, <4>1
      <4>2. CASE ~(j <= Len(cnRead))
        <5>1. PICK k \in 1..n : k = j - Len(cnRead)
          BY <1>0, <4>2
        <5>2. j0 + k = HeaderUnits + j /\ j0 + k <= Size(c)
          BY <1>0, <3>1, <3>2, <3>5, <5>1
        <5>3. F[k] = UnitAt(c, HeaderUnits + j)
          BY <3>4, <5>2
        <5> QED
          BY <1>5, <4>2, <5>1, <5>3
      <4> QED
        BY <4>1, <4>2
    <3>7. /\ Len(cnRead') + cnWant' = Payloads[c]
          /\ past + n = off[c] + HeaderUnits + Len(cnRead')
      <4>1. PICK a \in Nat : a = off[c]
        BY <1>12
      <4>2. (Len(cnRead) + n) + (cnWant - n) = Len(cnRead) + cnWant
        BY <1>0
      <4>3. (a + HeaderUnits + Len(cnRead)) + n = a + HeaderUnits + (Len(cnRead) + n)
        BY <1>0
      <4> QED
        BY <1>1, <1>5, <3>1, <4>1, <4>2, <4>3
    <3> QED
      BY <1>1, <1>5, <2>2, <3>1, <3>6, <3>7 DEF Reading, c
  <2> QED
    BY <1>t, <2>1, <2>2 DEF CnType
<1>14. Stream(off, past + n)'
  BY <1>1, <1>2, <1>9, <1>10, <1>13 DEF Stream, c
<1> QED
  BY <1>1, <1>6, <1>7, <1>14 DEF CnInv
\* Where the line ends, the receiver has all messages but the one that is not written.
LEMMA LineEnds ==
  ASSUME CnInv, cnPipe = <<>>, cnCall # "none", cnWant > 0, cnRead = <<>>
  PROVE  \/ Len(cnGot) = cnMsg
         \/ /\ Len(cnGot) = cnMsg - 1 /\ Unwritten # <<>>
            /\ Unwritten \in {Payload(cnMsg), Whole(cnMsg)}
<1> DEFINE c == Len(cnGot) + 1
<1>t. CnType /\ Len(cnGot) <= cnMsg /\ cnEnd = "no"
  BY DEF CnInv, StreamSafe, MessagesIntact
<1>1. PICK off, past : Stream(off, past)
  BY <1>t DEF CnInv
<1>2. /\ past \in Nat /\ cnMsg \in Nat /\ c \in 1..(cnMsg + 1) /\ Unwritten \in Seq(Units)
      /\ \A m \in 1..(cnMsg + 1) : off[m] \in Nat
      /\ \A m \in 1..cnMsg : /\ m \in 1..Len(Payloads) /\ Size(m) \in Nat \ {0}
                             /\ off[m + 1] = off[m] + Size(m)
      /\ Len(Unwritten) \in Nat
  BY <1>t, <1>1, StreamTypes
<1>3. Line = Unwritten /\ Len(Unwritten) + past = off[cnMsg + 1]
  <2>1. Line = Unwritten
    BY <1>2, ConcatEmptySeq DEF Line
  <2> QED
    BY <1>1, <2>1 DEF Stream, Carries
<1>4. Len(cnPipe) = 0 /\ Len(cnRead) = 0 /\ Len(cnGot) \in Nat /\ HeaderUnits \in Nat \ {0}
  BY <1>t, ConnectionAssumption DEF CnType
<1>5. Reading(off, past, c) /\ (cnMsg > 0 => off[cnMsg] <= past)
  <2>1. cnMsg > 0 => off[cnMsg] <= past + Len(cnPipe)
    BY <1>1 DEF Stream, Sending
  <2> QED
    BY <1>1, <1>2, <1>4, <2>1 DEF Stream
<1> HIDE DEF c
<1>6. CASE c = cnMsg + 1
  BY <1>2, <1>4, <1>6 DEF c
<1>7. CASE c \in 1..cnMsg
  <2>1. /\ Payloads[c] \in Nat /\ Size(c) = HeaderUnits + Payloads[c] /\ off[c] \in Nat
        /\ c \in 1..Len(Payloads) /\ cnMsg > 0 /\ off[cnMsg] \in Nat
    BY <1>2, <1>7, SizeType DEF Size
  <2>2. /\ cnPart = "head" => past = off[c]
        /\ cnPart = "body" => past = off[c] + HeaderUnits /\ Payloads[c] > 0
    <3>1. cnPart = "head" => past = off[c] + Len(cnRead)
      BY <1>5 DEF Reading
    <3>2. cnPart = "body" => /\ past = off[c] + HeaderUnits + Len(cnRead)
                             /\ Len(cnRead) + cnWant = Payloads[c]
      BY <1>5 DEF Reading
    <3> QED
      BY <1>4, <1>t, <2>1, <3>1, <3>2 DEF CnType
  <2>3. cnPart = "head" \/ cnPart = "body"
    BY <1>t DEF CnType
  <2>4. past < off[c] + Size(c)
    BY <1>4, <2>1, <2>2, <2>3
  <2>5. c = cnMsg
    <3>1. c < cnMsg => off[c] + Size(c) <= off[cnMsg]
      BY <1>1, <1>2, <1>7 DEF Stream, Offsets
    <3>2. Size(c) \in Nat
      BY <1>4, <2>1
    <3>3. ~(c < cnMsg)
      <4>1. PICK a \in Nat : a = off[c] + Size(c)
        BY <2>1, <3>2
      <4>2. past < a /\ (c < cnMsg => a <= off[cnMsg])
        BY <2>4, <3>1, <4>1
      <4>3. off[cnMsg] <= past
        BY <1>5, <2>1
      <4> QED
        BY <1>2, <2>1, <4>2, <4>3
    <3> QED
      BY <1>2, <1>7, <3>3
  <2>6. off[cnMsg + 1] = off[cnMsg] + Size(cnMsg)
    BY <1>2, <1>7, <2>5
  <2>7. ASSUME NEW j \in 1..Size(c), off[c] + j > past
        PROVE  Unwritten[(off[c] + j) - past] = UnitAt(c, j)
    BY <1>1, <1>3, <1>7, <2>7 DEF Stream, Carries
  <2>8. /\ Payload(c) \in Seq(Units) /\ Len(Payload(c)) = Payloads[c]
        /\ Whole(c) \in Seq(Units) /\ Len(Whole(c)) = Size(c)
        /\ \A j \in 1..Payloads[c] : Payload(c)[j] = UnitAt(c, HeaderUnits + j)
        /\ \A j \in 1..Size(c) : Whole(c)[j] = UnitAt(c, j)
    BY <2>1, MessageUnits
  <2>9. CASE cnPart = "head"
    <3>1. Len(Unwritten) = Size(c)
      <4>1. PICK a \in Nat : a = off[c]
        BY <2>1
      <4>2. Len(Unwritten) + a = a + Size(c) /\ Size(c) \in Nat
        BY <1>3, <1>4, <2>1, <2>2, <2>5, <2>6, <2>9, <4>1
      <4> QED
        BY <1>2, <4>2
    <3>2. ASSUME NEW j \in 1..Len(Unwritten) PROVE Unwritten[j] = Whole(c)[j]
      <4>1. off[c] + j > past /\ (off[c] + j) - past = j /\ j \in 1..Size(c)
        <5>1. PICK a \in Nat : a = off[c] /\ a = past
          BY <2>1, <2>2, <2>9
        <5>2. a + j > a /\ (a + j) - a = j
          OBVIOUS
        <5> QED
          BY <3>1, <5>1, <5>2
      <4> QED
        BY <2>7, <2>8, <4>1
    <3>3. Unwritten = Whole(c)
      BY <1>2, <2>8, <3>1, <3>2, SeqEqual
    <3>4. Unwritten # <<>>
      BY <1>4, <2>1, <3>1
    <3> QED
      BY <1>2, <1>4, <2>5, <3>3, <3>4 DEF c
  <2>10. CASE cnPart = "body"
    <3>1. Len(Unwritten) = Payloads[c]
      <4>1. PICK a \in Nat : a = off[c]
        BY <2>1
      <4>2. Len(Unwritten) + (a + HeaderUnits) = a + (HeaderUnits + Payloads[c])
        BY <1>3, <2>1, <2>10, <2>2, <2>5, <2>6, <4>1
      <4> QED
        BY <1>2, <1>4, <2>1, <4>2
    <3>2. ASSUME NEW j \in 1..Len(Unwritten) PROVE Unwritten[j] = Payload(c)[j]
      <4>1. PICK i \in 1..Size(c) : i = HeaderUnits + j
        BY <1>4, <2>1, <3>1
      <4>2. off[c] + i > past /\ (off[c] + i) - past = j
        <5>1. PICK a \in Nat : a = off[c]
          BY <2>1
        <5>2. j \in Nat /\ j > 0 /\ past = a + HeaderUnits
          BY <1>2, <2>10, <2>2, <5>1
        <5>3. a + (HeaderUnits + j) > past /\ (a + (HeaderUnits + j)) - past = j
          BY <1>4, <5>2
        <5> QED
          BY <4>1, <5>1, <5>3
      <4> QED
        BY <2>7, <2>8, <3>1, <4>1, <4>2
    <3>3. Unwritten = Payload(c)
      BY <1>2, <2>8, <3>1, <3>2, SeqEqual
    <3>4. Unwritten # <<>>
      BY <2>1, <2>10, <2>2, <3>1
    <3> QED
      BY <1>2, <1>4, <2>5, <3>3, <3>4 DEF c
  <2> QED
    BY <2>3, <2>9, <2>10
<1> QED
  BY <1>2, <1>6, <1>7

LEMMA CnReadEofKeeps == CnInv /\ CnReadEof => CnInv'
<1> SUFFICES ASSUME CnInv, CnReadEof PROVE CnInv'
  OBVIOUS
<1>1. /\ cnCall # "none" /\ cnWant > 0 /\ cnPipe = <<>> /\ cnClosed
      /\ cnEnd' = (IF cnRead = <<>> THEN "eof" ELSE "broken") /\ cnCall' = "none"
      /\ UNCHANGED <<cnMsg, cnBuf, cnAfter, cnClosed, cnPipe, cnWant, cnPart, cnRead, cnGot, cnReadable>>
  BY DEF CnReadEof, cnSendVars
<1>2. CnType'
  BY <1>1 DEF CnInv, CnType
<1>3. StreamSafe'
  <2>1. MessagesIntact'
    BY <1>1 DEF CnInv, StreamSafe, MessagesIntact
  <2>2. EofAfterAll'
    <3>1. ASSUME cnEnd' = "eof"
          PROVE  \/ Len(cnGot) = cnMsg
                 \/ /\ Len(cnGot) = cnMsg - 1 /\ Unwritten # <<>>
                    /\ Unwritten \in {Payload(cnMsg), Whole(cnMsg)}
      <4>1. cnRead = <<>>
        BY <1>1, <3>1
      <4> QED
        BY <1>1, <4>1, LineEnds
    <3> QED
      BY <1>1, <3>1, Zenon DEF EofAfterAll, Unwritten, Whole
  <2> QED
    BY <2>1, <2>2 DEF StreamSafe
<1> QED
  BY <1>1, <1>2, <1>3 DEF CnInv

\* A part that is read whole is a header, or a payload, of a message that was sent.
LEMMA PartRead ==
  ASSUME CnInv, cnCall # "none", cnWant = 0
  PROVE  /\ Len(cnGot) + 1 \in 1..cnMsg
         /\ cnPart = "head" => cnRead = Header(Len(cnGot) + 1)
         /\ cnPart = "body" => cnRead = Payload(Len(cnGot) + 1) /\ cnHead = Header(Len(cnGot) + 1)
<1> DEFINE c == Len(cnGot) + 1
<1>t. CnType /\ Len(cnGot) <= cnMsg /\ cnEnd = "no" /\ cnRead \in Seq(Units)
  BY DEF CnInv, CnType, StreamSafe, MessagesIntact
<1>1. PICK off, past : Stream(off, past)
  BY <1>t DEF CnInv
<1>2. /\ past \in Nat /\ cnMsg \in Nat /\ c \in 1..(cnMsg + 1)
      /\ \A m \in 1..(cnMsg + 1) : off[m] \in Nat
      /\ \A m \in 1..cnMsg : m \in 1..Len(Payloads)
      /\ Len(Line) \in Nat /\ Len(Line) + past = off[cnMsg + 1]
      /\ Len(cnRead) \in Nat
  <2>1. /\ past \in Nat /\ cnMsg \in Nat /\ c \in 1..(cnMsg + 1)
        /\ \A m \in 1..(cnMsg + 1) : off[m] \in Nat
        /\ \A m \in 1..cnMsg : m \in 1..Len(Payloads)
        /\ Line \in Seq(Units) /\ Len(Line) + past = off[cnMsg + 1] /\ Len(cnRead) \in Nat
    BY <1>t, <1>1, StreamTypes
  <2> QED
    BY <2>1
<1>3. Reading(off, past, c) /\ HeaderUnits \in Nat \ {0}
  BY <1>1, ConnectionAssumption DEF Stream
<1>4. cnPart = "head" \/ cnPart = "body"
  BY <1>t DEF CnType
<1> HIDE DEF c
<1>5. CASE cnPart = "head"
  <2>1. Len(cnRead) = HeaderUnits /\ past = off[c] + HeaderUnits
        /\ \A j \in 1..Len(cnRead) : cnRead[j] = UnitAt(c, j)
    <3>1. Len(cnRead) + 0 = HeaderUnits /\ past = off[c] + Len(cnRead)
          /\ \A j \in 1..Len(cnRead) : cnRead[j] = UnitAt(c, j)
      BY <1>3, <1>5 DEF Reading
    <3>2. Len(cnRead) + 0 = Len(cnRead)
      BY <1>2
    <3> QED
      BY <3>1, <3>2
  <2>2. c # cnMsg + 1
    <3>1. PICK a \in Nat : a = off[c]
      BY <1>2
    <3>2. c = cnMsg + 1 => Len(Line) + (a + HeaderUnits) = a
      BY <1>2, <2>1, <3>1
    <3> QED
      BY <1>2, <1>3, <3>2
  <2>3. c \in 1..cnMsg
    BY <1>2, <2>2
  <2>4. /\ Header(c) \in Seq(Units) /\ Len(Header(c)) = HeaderUnits
        /\ \A j \in 1..HeaderUnits : Header(c)[j] = UnitAt(c, j)
    BY <1>2, <2>3, MessageUnits
  <2>5. \A j \in 1..Len(cnRead) : cnRead[j] = Header(c)[j]
    BY <2>1, <2>4
  <2>6. cnRead = Header(c)
    BY <1>t, <2>1, <2>4, <2>5, SeqEqual
  <2> QED
    BY <1>5, <2>3, <2>6 DEF c
<1>6. CASE cnPart = "body"
  <2>1. Len(cnRead) = Payloads[c] /\ c <= cnMsg /\ cnHead = Header(c)
        /\ \A j \in 1..Len(cnRead) : cnRead[j] = UnitAt(c, HeaderUnits + j)
    <3>1. Len(cnRead) + 0 = Payloads[c] /\ c <= cnMsg /\ cnHead = Header(c)
          /\ \A j \in 1..Len(cnRead) : cnRead[j] = UnitAt(c, HeaderUnits + j)
      BY <1>3, <1>6 DEF Reading
    <3> QED
      BY <1>2, <3>1
  <2>3. c \in 1..cnMsg
    BY <1>2, <2>1
  <2>4. /\ Payload(c) \in Seq(Units) /\ Len(Payload(c)) = Payloads[c]
        /\ \A j \in 1..Payloads[c] : Payload(c)[j] = UnitAt(c, HeaderUnits + j)
    BY <1>2, <2>3, MessageUnits
  <2>5. \A j \in 1..Len(cnRead) : cnRead[j] = Payload(c)[j]
    BY <2>1, <2>4
  <2>6. cnRead = Payload(c)
    BY <1>t, <2>1, <2>4, <2>5, SeqEqual
  <2> QED
    BY <1>6, <2>1, <2>3, <2>6 DEF c
<1> QED
  BY <1>4, <1>5, <1>6

\* One more result, for the next message.
LEMMA MessageReturned ==
  ASSUME MessagesIntact, cnGot \in Seq(Seq(Units)), NEW x \in Seq(Units),
         cnMsg \in Nat, Len(cnGot) + 1 \in 1..cnMsg, UNCHANGED cnMsg, cnGot' = Append(cnGot, x),
         x \in {TooShort, Refused, Whole(Len(cnGot) + 1)}
  PROVE  MessagesIntact' /\ cnGot' \in Seq(Seq(Units)) /\ Len(cnGot') = Len(cnGot) + 1
<1> DEFINE c == Len(cnGot) + 1
<1>1. /\ cnGot' \in Seq(Seq(Units)) /\ Len(cnGot') = c /\ cnGot'[c] = x
      /\ \A k \in 1..Len(cnGot) : cnGot'[k] = cnGot[k]
      /\ DOMAIN cnGot' = 1..c /\ DOMAIN cnGot = 1..Len(cnGot) /\ Len(cnGot) \in Nat
  OBVIOUS
<1>2. \A k \in 1..c : k \in 1..Len(cnGot) \/ k = c
  BY <1>1
<1> HIDE DEF c
<1>3. \A k \in 1..Len(cnGot) : cnGot[k] \in {TooShort, Refused, Whole(k)}
  BY <1>1 DEF MessagesIntact, Whole
<1>4. \A k \in 1..c : cnGot'[k] \in {TooShort, Refused, Whole(k)}
  BY <1>1, <1>2, <1>3, Zenon DEF c
<1>5. Len(cnGot') <= cnMsg'
  BY <1>1 DEF c
<1>6. MessagesIntact'
  BY <1>1, <1>4, <1>5, Zenon DEF MessagesIntact, Whole, Header, Payload, TooShort, Refused
<1> QED
  BY <1>1, <1>6 DEF c

LEMMA CnGotHeaderKeeps == CnInv /\ CnGotHeader => CnInv'
<1> SUFFICES ASSUME CnInv, CnGotHeader PROVE CnInv'
  OBVIOUS
<1> DEFINE c == Len(cnGot) + 1
<1>t. CnType /\ Len(cnGot) <= cnMsg /\ Len(cnGot) \in Nat /\ cnMsg \in Nat
  BY ConnectionAssumption DEF CnInv, CnType, StreamSafe, MessagesIntact
<1>0. cnCall # "none" /\ cnPart = "head" /\ cnWant = 0 /\ cnEnd = "no" /\ cnReadable
  BY DEF CnGotHeader, CnInv
<1>1. c \in 1..cnMsg /\ cnRead = Header(c)
  BY <1>0, PartRead
<1>2. /\ c \in 1..Len(Payloads) /\ Payloads[c] \in Nat /\ HeaderUnits \in Nat \ {0}
      /\ Len(Header(c)) = HeaderUnits
  <2>1. c \in 1..Len(Payloads)
    BY <1>1, <1>t, ConnectionAssumption DEF CnType
  <2> QED
    BY <2>1, SizeType, MessageUnits
<1> HIDE DEF c
<1>3. Announced(cnRead) = Payloads[c]
  BY <1>1, <1>2 DEF Announced, Header
<1>4. UNCHANGED <<cnMsg, cnBuf, cnAfter, cnClosed, cnPipe>> /\ cnHead' = cnRead /\ cnRead' = <<>>
  BY DEF CnGotHeader, cnSendVars
<1>5. CASE cnCall = "bytes" /\ Announced(cnRead) > MaxLength
  <2>1. /\ cnReadable' = FALSE /\ cnCall' = "none" /\ cnEnd' = "length"
        /\ cnGot' = Append(cnGot, Refused) /\ UNCHANGED <<cnPart, cnWant>>
    BY <1>5 DEF CnGotHeader
  <2>2. MessagesIntact' /\ cnGot' \in Seq(Seq(Units))
    <3>1. Refused \in Seq(Units) /\ cnGot \in Seq(Seq(Units)) /\ MessagesIntact
      BY <1>t DEF Refused, Units, CnType, CnInv, StreamSafe
    <3> QED
      BY <1>1, <1>4, <1>t, <2>1, <3>1, MessageReturned DEF c
  <2>3. CnType'
    BY <1>4, <1>t, <2>1, <2>2 DEF CnType
  <2>4. StreamSafe'
    BY <2>1, <2>2 DEF StreamSafe, EofAfterAll
  <2> QED
    BY <1>4, <2>1, <2>3, <2>4 DEF CnInv
<1>6. CASE ~(cnCall = "bytes" /\ Announced(cnRead) > MaxLength)
  <2>1. /\ cnPart' = "body" /\ cnWant' = Payloads[c]
        /\ UNCHANGED <<cnCall, cnGot, cnEnd, cnReadable>>
    BY <1>3, <1>6 DEF CnGotHeader
  <2>2. CnType'
    BY <1>2, <1>4, <1>t, <2>1 DEF CnType
  <2>3. StreamSafe'
    BY <1>4, <2>1 DEF CnInv, StreamSafe, MessagesIntact, EofAfterAll, Header, Payload
  <2>4. PICK off, past : Stream(off, past)
    BY <1>0 DEF CnInv
  <2>5. past = off[c] + Len(cnRead) /\ past \in Nat /\ off[c] \in Nat
    <3>1. off[c] \in Nat /\ past \in Nat
      BY <1>1, <1>t, <2>4, StreamTypes DEF c
    <3> QED
      BY <1>0, <2>4, <3>1 DEF Stream, Reading, c
  <2>6. Reading(off, past, c)'
    <3>1. past = off[c] + HeaderUnits + 0 /\ 0 + Payloads[c] = Payloads[c]
      BY <1>1, <1>2, <2>5
    <3>2. Len(cnRead') = 0 /\ cnHead' = Header(c) /\ c <= cnMsg
      BY <1>1, <1>4
    <3> QED
      BY <1>0, <1>4, <2>1, <3>1, <3>2 DEF Reading, Header, c
  <2>7. Stream(off, past)'
    BY <1>4, <2>1, <2>4, <2>6 DEF Stream, Line, Unwritten, Sending, c
  <2> QED
    BY <1>0, <1>4, <2>1, <2>2, <2>3, <2>7 DEF CnInv
<1> QED
  BY <1>5, <1>6

LEMMA CnGotPayloadKeeps == CnInv /\ CnGotPayload => CnInv'
<1> SUFFICES ASSUME CnInv, CnGotPayload PROVE CnInv'
  OBVIOUS
<1> DEFINE c == Len(cnGot) + 1
           x == IF cnCall = "into" /\ Len(cnRead) > MaxLength THEN TooShort ELSE cnHead \o cnRead
<1>t. CnType /\ Len(cnGot) <= cnMsg /\ Len(cnGot) \in Nat /\ cnMsg \in Nat
  BY ConnectionAssumption DEF CnInv, CnType, StreamSafe, MessagesIntact
<1>0. /\ cnCall # "none" /\ cnPart = "body" /\ cnWant = 0 /\ cnEnd = "no" /\ cnReadable
      /\ cnGot' = Append(cnGot, x) /\ cnCall' = "none"
      /\ UNCHANGED <<cnMsg, cnBuf, cnAfter, cnClosed, cnPipe, cnWant, cnPart, cnRead, cnHead, cnEnd, cnReadable>>
  BY DEF CnGotPayload, CnInv, cnSendVars
<1>1. c \in 1..cnMsg /\ cnRead = Payload(c) /\ cnHead = Header(c)
  BY <1>0, PartRead
<1>2. /\ c \in 1..Len(Payloads) /\ Payloads[c] \in Nat /\ HeaderUnits \in Nat
      /\ Whole(c) \in Seq(Units)
  <2>1. c \in 1..Len(Payloads)
    BY <1>1, <1>t, ConnectionAssumption DEF CnType
  <2> QED
    BY <2>1, SizeType, MessageUnits
<1>3. x \in {TooShort, Header(c) \o Payload(c)} /\ x \in Seq(Units)
  <2>1. TooShort \in Seq(Units)
    BY DEF TooShort, Units
  <2> QED
    BY <1>1, <1>2, <2>1 DEF Whole
<1> HIDE DEF c, x
<1>4. MessagesIntact' /\ cnGot' \in Seq(Seq(Units)) /\ Len(cnGot') = c
  <2>1. cnGot \in Seq(Seq(Units)) /\ MessagesIntact
    BY <1>t DEF CnType, CnInv, StreamSafe
  <2> QED
    BY <1>0, <1>1, <1>3, <1>t, <2>1, MessageReturned DEF c, Whole
<1>5. CnType'
  BY <1>0, <1>4, <1>t DEF CnType
<1>6. StreamSafe'
  BY <1>0, <1>4 DEF StreamSafe, EofAfterAll
<1>7. PICK off, past : Stream(off, past)
  BY <1>0 DEF CnInv
<1>8. past = off[c + 1] /\ Len(cnGot') + 1 = c + 1
  <2>1. off[c] \in Nat /\ past \in Nat /\ off[c + 1] = off[c] + Size(c) /\ Len(cnRead) \in Nat
    BY <1>1, <1>t, <1>7, StreamTypes DEF c
  <2>2. Len(cnRead) + 0 = Payloads[c] /\ past = off[c] + HeaderUnits + Len(cnRead)
    BY <1>0, <1>7 DEF Stream, Reading, c
  <2>3. PICK a \in Nat : a = off[c]
    BY <2>1
  <2>4. past = a + HeaderUnits + Payloads[c] /\ off[c + 1] = a + (HeaderUnits + Payloads[c])
    BY <2>1, <2>2, <2>3 DEF Size
  <2>5. past = off[c + 1]
    BY <1>2, <2>4
  <2> QED
    BY <1>4, <2>5
<1>9. Stream(off, past)'
  <2>1. Reading(off, past, Len(cnGot) + 1)'
    BY <1>0, <1>8 DEF Reading
  <2> QED
    BY <1>0, <1>7, <2>1 DEF Stream, Line, Unwritten, Sending
<1> QED
  BY <1>0, <1>5, <1>6, <1>9 DEF CnInv

LEMMA CnCloseKeeps == CnInv /\ (CnClose \/ UNCHANGED cnVars) => CnInv'
<1> SUFFICES ASSUME CnInv, CnClose \/ UNCHANGED cnVars PROVE CnInv'
  OBVIOUS
<1>1. UNCHANGED <<cnMsg, cnBuf, cnAfter, cnPipe, cnCall, cnWant, cnPart, cnRead, cnHead, cnGot, cnEnd, cnReadable>>
      /\ (cnClosed => cnClosed')
  BY DEF CnClose, cnVars, cnSendVars, cnRecvVars
<1>2. CnType' /\ StreamSafe'
  BY <1>1 DEF CnInv, CnType, StreamSafe, MessagesIntact, EofAfterAll, Header, Payload
<1>3. \A off, past : Stream(off, past) => Stream(off, past)'
  BY <1>1 DEF Stream, Line, Unwritten, Sending, Reading
<1> QED
  BY <1>1, <1>2, <1>3 DEF CnInv

\* Every state of a connection satisfies StreamSafe: whatever is written and read
\* in pieces, what the calls return are the messages, each whole and in its place,
\* and EOFError stands for the end (connection.py: _send, _recv, _send_bytes,
\* _recv_bytes, recv_bytes, recv_bytes_into).
THEOREM StreamIsSafe == CnSpec => []StreamSafe
<1>1. CnInit => CnInv
  BY CnInitial
<1>2. CnInv /\ [CnNext]_cnVars => CnInv'
  <2> SUFFICES ASSUME CnInv, [CnNext]_cnVars PROVE CnInv'
    OBVIOUS
  <2>1. CASE CnSend
    BY <2>1, CnSendKeeps
  <2>2. CASE CnWriteStep
    BY <2>2, CnWriteKeeps DEF CnWriteStep
  <2>3. CASE CnClose \/ UNCHANGED cnVars
    BY <2>3, CnCloseKeeps
  <2>4. CASE CnReceiveAny
    BY <2>4, CnReceiveKeeps DEF CnReceiveAny
  <2>5. CASE CnReadStep
    BY <2>5, CnReadSomeKeeps, CnReadEofKeeps, CnGotHeaderKeeps, CnGotPayloadKeeps DEF CnReadStep
  <2> QED
    BY <2>1, <2>2, <2>3, <2>4, <2>5 DEF CnNext
<1>3. CnInv => StreamSafe
  BY DEF CnInv
<1> QED
  BY <1>1, <1>2, <1>3, PTL DEF CnSpec

==============================================================================
