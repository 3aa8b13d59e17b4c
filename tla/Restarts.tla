------------------------------ MODULE Restarts ------------------------------
(***************************************************************************)
(* The limit on how often workers are added: restart_state of              *)
(* billiard/common.py, stepped by Pool._repopulate_pool, first on an       *)
(* object of its own for the burst of rounds with which Supervisor begins, *)
(* then on the pool's.  In a round that has reaped workers, a new worker   *)
(* is counted unless the exit code in its position is EX_OK or EX_RECYCLE: *)
(* workers that terminate_job or shrink has ended count like crashed ones, *)
(* and so do those that grow adds beyond the exit codes.  ResultHandler    *)
(* was given the pool's object when it was made, so an ACK resets that     *)
(* one, also during the burst.                                             *)
(***************************************************************************)
EXTENDS Integers, Sequences, FiniteSets

CONSTANTS
  MaxR,         \* object -> maxR, 0 for None: no limit (the pool's default)
  MaxT,         \* object -> maxT
  BurstRounds,  \* rounds of the burst
  RsExits,      \* bound: workers reaped in one round
  RsClock       \* bound: the last instant

Objects == {"burst", "pool"}

ASSUME RestartsAssumption ==
  /\ MaxR \in [Objects -> Nat] /\ MaxT \in [Objects -> Nat \ {0}]
  /\ BurstRounds \in Nat /\ RsExits \in Nat /\ RsClock \in Nat

VARIABLES
  rsNow,    \* monotonic(), which is never 0
  rsPhase,  \* "new", the object in use, or "exceeded"
  rsRound,  \* rounds of the burst so far
  rsDue,    \* workers that this round is still going to add and count
  rsR, rsT, \* object -> R and T, 0 for None
  rsLog     \* object -> when it was stepped since it was last reset by an ACK

rsVars == <<rsNow, rsPhase, rsRound, rsDue, rsR, rsT, rsLog>>

RsInit ==
  /\ rsNow = 1 /\ rsPhase = "new" /\ rsRound = 0 /\ rsDue = 0
  /\ rsR = [o \in Objects |-> 0] /\ rsT = [o \in Objects |-> 0]
  /\ rsLog = [o \in Objects |-> <<>>]

\* The new workers that _repopulate_pool counts, when it has gap of them to add
\* and codes are the exit codes of the workers just reaped.
Counts(codes, gap) ==
  Cardinality({i \in 1..gap : codes # <<>> /\ (i > Len(codes) \/ codes[i] = "failed")})

\* A round of _maintain_pool: some workers are reaped; grow or shrink may have
\* changed _processes since the last round, by one.
RsMaintain ==
  \E n \in 0..RsExits : \E codes \in [1..n -> {"fine", "failed"}], gap \in 0..(n + 1) :
    rsDue' = Counts(codes, gap)

\* Supervisor.body begins, with its first round.
RsStart ==
  /\ rsPhase = "new"
  /\ rsPhase' = "burst"
  /\ RsMaintain
  /\ UNCHANGED <<rsNow, rsRound, rsR, rsT, rsLog>>

\* A round ends, and after a while the next one begins; after the last one of
\* the burst the pool's object is back.
RsSleep ==
  /\ rsPhase \in Objects /\ rsDue = 0 /\ rsNow < RsClock
  /\ rsNow' = rsNow + 1
  /\ IF rsPhase = "burst"
     THEN /\ rsRound' = rsRound + 1
          /\ rsPhase' = IF rsRound + 1 = BurstRounds THEN "pool" ELSE "burst"
     ELSE UNCHANGED <<rsRound, rsPhase>>
  /\ RsMaintain
  /\ UNCHANGED <<rsR, rsT, rsLog>>

\* Mutant of RsStep: one start more than maxR is let through.
RsStepOneMore ==
  /\ rsPhase \in Objects /\ rsDue > 0
  /\ LET o == rsPhase
         elapsed  == rsT[o] # 0 /\ rsNow - rsT[o] >= MaxT[o]
         exceeded == ~elapsed /\ MaxR[o] # 0 /\ rsR[o] > MaxR[o]
     IN IF exceeded
        THEN /\ rsPhase' = "exceeded"
             /\ rsR' = [rsR EXCEPT ![o] = 0]
             /\ UNCHANGED <<rsT, rsLog, rsDue>>
        ELSE /\ rsR' = [rsR EXCEPT ![o] = IF elapsed THEN 1 ELSE @ + 1]
             /\ rsT' = [rsT EXCEPT ![o] = IF elapsed \/ @ = 0 THEN rsNow ELSE @]
             /\ rsLog' = [rsLog EXCEPT ![o] = Append(@, rsNow)]
             /\ rsDue' = rsDue - 1
             /\ UNCHANGED rsPhase
  /\ UNCHANGED <<rsNow, rsRound>>

\* A worker that counts is added: restart_state.step comes first.  If it raises
\* RestartFreqExceeded, Supervisor closes and joins the pool and sends SIGTERM
\* to the program.
RsStep ==
  /\ rsPhase \in Objects /\ rsDue > 0
  /\ LET o == rsPhase
         elapsed  == rsT[o] # 0 /\ rsNow - rsT[o] >= MaxT[o]
         exceeded == ~elapsed /\ MaxR[o] # 0 /\ rsR[o] >= MaxR[o]
     IN IF exceeded
        THEN /\ rsPhase' = "exceeded"
             /\ rsR' = [rsR EXCEPT ![o] = 0]
             /\ UNCHANGED <<rsT, rsLog, rsDue>>
        ELSE /\ rsR' = [rsR EXCEPT ![o] = IF elapsed THEN 1 ELSE @ + 1]
             /\ rsT' = [rsT EXCEPT ![o] = IF elapsed \/ @ = 0 THEN rsNow ELSE @]
             /\ rsLog' = [rsLog EXCEPT ![o] = Append(@, rsNow)]
             /\ rsDue' = rsDue - 1
             /\ UNCHANGED rsPhase
  /\ UNCHANGED <<rsNow, rsRound>>

\* on_ack of ResultHandler: restart_state.R = 0
RsAck ==
  /\ rsPhase \in Objects
  /\ rsR' = [rsR EXCEPT !["pool"] = 0]
  /\ rsLog' = [rsLog EXCEPT !["pool"] = <<>>]
  /\ UNCHANGED <<rsNow, rsPhase, rsRound, rsDue, rsT>>

RsNext == RsStart \/ RsSleep \/ RsStep \/ RsAck

RsSpec == RsInit /\ [][RsNext]_rsVars

(***************************************************************************)
(* Properties                                                              *)
(***************************************************************************)

\* The objects that have a limit.
Limited == {o \in Objects : MaxR[o] # 0}

StepsWithin(o, from, to) ==
  {n \in DOMAIN rsLog[o] : from <= rsLog[o][n] /\ rsLog[o][n] < to}

\* A crash loop is stopped: where there is a limit, no stretch of maxT sees more
\* than 2 * maxR counted workers, as long as no job is accepted.  (The window is
\* not a sliding one, hence the factor.)
RestartWindow ==
  \A o \in Limited, t \in 1..RsClock :
    Cardinality(StepsWithin(o, t, t + MaxT[o])) <= 2 * MaxR[o]

\* The limit does not strike too early: the pool is given up only when an object
\* that has a limit counted maxR workers within the last maxT, and the pool's
\* was not reset by an accepted job between them.
ExceededIsFrequent ==
  rsPhase = "exceeded" =>
    \E o \in Limited :
      LET log == rsLog[o] IN
      /\ Len(log) >= MaxR[o]
      /\ rsNow - log[Len(log) - MaxR[o] + 1] < MaxT[o]

\* Adding workers at a high rate, whether they crash, are ended on purpose or
\* come with grow, makes the pool give up neither too late nor too early.
RestartsSafe ==
  /\ RestartWindow
  /\ ExceededIsFrequent

=============================================================================
