------------------------- MODULE PingMonitorProofs --------------------------
(***************************************************************************)
(* Proofs about PingMonitor for any number of peers, any interval, timeout *)
(* and retry configuration.                                                *)
(***************************************************************************)
EXTENDS PingMonitor, TLAPS

-----------------------------------------------------------------------------
(* The inductive invariant.                                                *)

\* A checker in the middle of a verdict has a suspect.
CheckerHasSuspect == checker \in {"reset", "fail"} => suspect \in Peers

\* Handover in the terms of scheduleNextRetry, which is what its steps preserve.
HandoverInv ==
  \A p \in Peers :
    /\ handedOver[p] <=> GivesWay(retryCount[p])
    /\ \A n \in 1 .. retryCount[p] - 1 : ~GivesWay(n)
    /\ isHealthy[p] => retryCount[p] = 0

IInv == TypeOK /\ HandoverInv /\ CheckerHasSuspect

\* Before any retry nothing is handed over.
LEMMA NoRetryNoHandover == ~GivesWay(0)
BY RetryAssumption DEF GivesWay

\* The backoff is a whole number of seconds once the fixed retries are used up.
LEMMA BackoffType ==
  ASSUME NEW n \in Nat, n > FixedRetries
  PROVE  Backoff(n) \in Nat
BY RetryAssumption DEF Backoff

\* A delay is a whole number of ticks.
LEMMA DelayType ==
  ASSUME NEW a \in Nat
  PROVE  a * Second \in Nat
BY TimesAssumption

\* Zeroing lastSentTime keeps the bounds of the ages.
LEMMA ClearedAges ==
  ASSUME TypeOK, NEW p \in Peers, sent' = [sent EXCEPT ![p] = ZeroTime]
  PROVE  /\ sent' \in [Peers -> Int]
         /\ \A q \in Peers : ZeroTime <= sent'[q] /\ sent'[q] <= PeerTimeout[q] + 1
<1>1. ZeroTime \in Int /\ ZeroTime = -1
  BY DEF ZeroTime
<1>2. sent' \in [Peers -> Int]
  BY <1>1 DEF TypeOK
<1>3. ASSUME NEW q \in Peers
      PROVE  ZeroTime <= sent'[q] /\ sent'[q] <= PeerTimeout[q] + 1
  <2>1. PeerTimeout[q] \in Nat
    BY TimesAssumption
  <2>2. sent'[q] = sent[q] \/ sent'[q] = ZeroTime
    BY DEF TypeOK
  <2> QED
    BY <1>1, <2>1, <2>2 DEF TypeOK
<1> QED
  BY <1>2, <1>3

\* A monitor that Execute has just built satisfies the invariant.
LEMMA InitIInv == Init => IInv
<1> SUFFICES ASSUME Init PROVE IInv
  OBVIOUS
<1>1. TypeOK
  BY TimesAssumption, RetryAssumption, NoPeerAssumption
     DEF Init, TypeOK, ZeroTime, Passed, CheckPeriod
<1>2. HandoverInv
  <2>1. \A p \in Peers : retryCount[p] = 0 /\ ~handedOver[p]
    BY DEF Init
  <2>2. \A n \in 1 .. 0 - 1 : FALSE
    OBVIOUS
  <2> QED
    BY <2>1, <2>2, NoRetryNoHandover DEF HandoverInv
<1>3. CheckerHasSuspect
  BY DEF Init, CheckerHasSuspect
<1> QED
  BY <1>1, <1>2, <1>3 DEF IInv

\* A step that leaves health, count and handover alone keeps their relation.
LEMMA QuietStep ==
  ASSUME HandoverInv, UNCHANGED <<isHealthy, retryCount, handedOver>>
  PROVE  HandoverInv'
BY DEF HandoverInv, GivesWay, Backoff

\* handlePingResult(state, true) starts the peer over.
LEMMA PingSucceededKeepsHandover ==
  ASSUME TypeOK, HandoverInv, NEW p \in Peers, PingSucceeded(p)
  PROVE  HandoverInv'
<1> SUFFICES ASSUME NEW q \in Peers
             PROVE  /\ handedOver'[q] <=> GivesWay(retryCount'[q])
                    /\ \A n \in 1 .. retryCount'[q] - 1 : ~GivesWay(n)
                    /\ isHealthy'[q] => retryCount'[q] = 0
  BY DEF HandoverInv, GivesWay, Backoff
<1>1. CASE q = p
  <2>1. retryCount'[q] = 0 /\ handedOver'[q] = FALSE
    BY <1>1 DEF PingSucceeded, TypeOK
  <2> QED
    BY <2>1, NoRetryNoHandover
<1>2. CASE q # p
  <2>1. /\ retryCount'[q] = retryCount[q]
        /\ handedOver'[q] = handedOver[q]
        /\ isHealthy'[q] = isHealthy[q]
    BY <1>2 DEF PingSucceeded, TypeOK
  <2> QED
    BY <2>1 DEF HandoverInv
<1> QED
  BY <1>1, <1>2

\* handlePingResult(state, false): the retry that is made is one more than the
\* last, and it is made only while the peer is not handed over.
LEMMA PingFailedKeepsHandover ==
  ASSUME TypeOK, HandoverInv, NEW p \in Peers, NEW late \in BOOLEAN, PingFailed(p, late)
  PROVE  HandoverInv'
<1> SUFFICES ASSUME NEW q \in Peers
             PROVE  /\ handedOver'[q] <=> GivesWay(retryCount'[q])
                    /\ \A n \in 1 .. retryCount'[q] - 1 : ~GivesWay(n)
                    /\ isHealthy'[q] => retryCount'[q] = 0
  BY DEF HandoverInv, GivesWay, Backoff
<1>1. CASE q = p /\ ShouldRetry(p, late)
  <2>1. retryCount[p] \in Nat /\ ~isHealthy'[p]
    BY DEF TypeOK, PingFailed
  <2>2. ~handedOver[p]
    BY <1>1, NoRetryNoHandover DEF ShouldRetry, HandoverInv
  <2>3. /\ retryCount'[p] = retryCount[p] + 1
        /\ handedOver'[p] = (handedOver[p] \/ GivesWay(retryCount[p] + 1))
    BY <1>1 DEF PingFailed, ScheduleNextRetry, TypeOK
  <2>4. ASSUME NEW n \in 1 .. retryCount[p]
        PROVE  ~GivesWay(n)
    <3>1. CASE n = retryCount[p]
      BY <2>2, <3>1 DEF HandoverInv
    <3>2. CASE n \in 1 .. retryCount[p] - 1
      BY <3>2 DEF HandoverInv
    <3> QED
      BY <2>1, <3>1, <3>2
  <2>5. retryCount'[p] - 1 = retryCount[p]
    BY <2>1, <2>3
  <2> QED
    BY <1>1, <2>1, <2>2, <2>3, <2>4, <2>5
<1>2. CASE q = p /\ ~ShouldRetry(p, late)
  <2>1. ~isHealthy'[p] /\ retryCount' = retryCount /\ handedOver' = handedOver
    BY <1>2 DEF PingFailed, TypeOK
  <2> QED
    BY <1>2, <2>1 DEF HandoverInv
<1>3. CASE q # p
  <2>1. /\ retryCount'[q] = retryCount[q]
        /\ handedOver'[q] = handedOver[q]
        /\ isHealthy'[q] = isHealthy[q]
    BY <1>3 DEF PingFailed, ScheduleNextRetry, TypeOK
  <2> QED
    BY <2>1 DEF HandoverInv
<1> QED
  BY <1>1, <1>2, <1>3

\* handlePingResult(state, false) keeps the types of what it assigns.
LEMMA PingFailedType ==
  ASSUME TypeOK, NEW p \in Peers, NEW late \in BOOLEAN, PingFailed(p, late)
  PROVE  /\ isHealthy' \in [Peers -> BOOLEAN] /\ handedOver' \in [Peers -> BOOLEAN]
         /\ retryCount' \in [Peers -> Nat]
         /\ retryIn' \in [Peers -> Int] /\ \A q \in Peers : retryIn'[q] >= Passed
<1>1. isHealthy' \in [Peers -> BOOLEAN]
  BY DEF TypeOK, PingFailed
<1>2. CASE ShouldRetry(p, late)
  <2> DEFINE n == retryCount[p] + 1
             d == IF n <= FixedRetries THEN 2 * Second
                  ELSE IF GivesWay(n) THEN Passed ELSE Backoff(n) * Second
  <2>1. n \in Nat /\ FixedRetries \in Nat
    BY RetryAssumption DEF TypeOK
  <2>2. ScheduleNextRetry(p, n)
    BY <1>2 DEF PingFailed
  <2>3. d \in Int /\ d >= Passed
    <3>1. CASE n <= FixedRetries
      BY <3>1, TimesAssumption DEF Passed
    <3>2. CASE ~(n <= FixedRetries)
      <4>1. Backoff(n) * Second \in Nat
        BY <2>1, <3>2, BackoffType, DelayType
      <4> QED
        BY <3>2, <4>1 DEF Passed
    <3> QED
      BY <3>1, <3>2
  <2>4. retryIn' = [retryIn EXCEPT ![p] = d]
    BY <2>2 DEF ScheduleNextRetry
  <2>5. retryIn' \in [Peers -> Int] /\ \A q \in Peers : retryIn'[q] >= Passed
    <3> HIDE DEF d
    <3> QED
      BY <2>3, <2>4 DEF TypeOK
  <2>6. retryCount' \in [Peers -> Nat]
    BY <2>1, <2>2 DEF ScheduleNextRetry, TypeOK
  <2>7. handedOver' \in [Peers -> BOOLEAN]
    BY <2>2 DEF ScheduleNextRetry, TypeOK, GivesWay
  <2> QED
    BY <1>1, <2>5, <2>6, <2>7
<1>3. CASE ~ShouldRetry(p, late)
  BY <1>1, <1>3 DEF PingFailed, TypeOK
<1> QED
  BY <1>2, <1>3

-----------------------------------------------------------------------------
(* One lemma per loop.                                                     *)

\* The sender's steps.
LEMMA SenderKeepsIInv == IInv /\ Sender => IInv'
<1> SUFFICES ASSUME IInv, Sender PROVE IInv'
  OBVIOUS
<1>1. TypeOK' /\ CheckerHasSuspect' /\ UNCHANGED <<isHealthy, retryCount, handedOver>>
  <2> USE TimesAssumption, RetryAssumption DEF IInv, TypeOK, CheckerHasSuspect,
          envVars, retryVars, senderVars, checkerVars, ZeroTime, Passed
  <2>1. CASE SenderTicker
    BY <2>1 DEF SenderTicker
  <2>2. CASE RecordSent
    BY <2>2 DEF RecordSent
  <2>3. ASSUME NEW p \in Peers, SendPing(p)
        PROVE  TypeOK' /\ CheckerHasSuspect' /\ UNCHANGED <<isHealthy, retryCount, handedOver>>
    BY <2>3 DEF SendPing
  <2> QED
    BY <2>1, <2>2, <2>3 DEF Sender
<1> QED
  BY <1>1, QuietStep DEF IInv

\* The reader's step.
LEMMA DispatchReplyKeepsIInv ==
  ASSUME IInv, NEW p \in Peers, DispatchReply(p)
  PROVE  IInv'
<1>1. TypeOK' /\ CheckerHasSuspect'
  <2> USE TimesAssumption, RetryAssumption DEF IInv, TypeOK, DispatchReply, PingSucceeded
  <2>1. /\ inFlight' \in [Peers -> Nat] /\ \A q \in Peers : inFlight'[q] <= MaxInFlight
        /\ replied' \in [Peers -> BOOLEAN]
    OBVIOUS
  <2>2. /\ sent' \in [Peers -> Int]
        /\ \A q \in Peers : ZeroTime <= sent'[q] /\ sent'[q] <= PeerTimeout[q] + 1
    BY ClearedAges, Zenon
  <2>3. retryIn' \in [Peers -> Int] /\ \A q \in Peers : retryIn'[q] >= Passed
    BY DEF Passed
  <2>4. /\ isHealthy' \in [Peers -> BOOLEAN] /\ handedOver' \in [Peers -> BOOLEAN]
        /\ retryCount' \in [Peers -> Nat]
    OBVIOUS
  <2> QED
    BY <2>1, <2>2, <2>3, <2>4
       DEF CheckerHasSuspect, envVars, senderVars, checkerVars, ZeroTime, Passed
<1>2. HandoverInv'
  BY PingSucceededKeepsHandover DEF IInv, DispatchReply
<1> QED
  BY <1>1, <1>2 DEF IInv

\* The checker's steps.
LEMMA CheckerKeepsIInv == IInv /\ Checker => IInv'
<1> SUFFICES ASSUME IInv, Checker PROVE IInv'
  OBVIOUS
<1> USE DEF IInv, CheckerHasSuspect, envVars, retryVars, senderVars, checkerVars
<1>1. CASE CheckerTicker
  BY <1>1, QuietStep, TimesAssumption DEF CheckerTicker, TypeOK, CheckPeriod
<1>2. CASE CheckReset
  <2>1. /\ sent' \in [Peers -> Int]
        /\ \A q \in Peers : ZeroTime <= sent'[q] /\ sent'[q] <= PeerTimeout[q] + 1
    BY <1>2, ClearedAges DEF CheckReset
  <2> QED
    BY <1>2, <2>1, QuietStep DEF CheckReset, TypeOK, ZeroTime, Passed
<1>3. ASSUME NEW late \in BOOLEAN, CheckFail(late)
      PROVE  IInv'
  <2>1. suspect \in Peers /\ PingFailed(suspect, late)
    BY <1>3 DEF CheckFail
  <2>2. HandoverInv'
    BY <2>1, PingFailedKeepsHandover
  <2>3. /\ isHealthy' \in [Peers -> BOOLEAN] /\ handedOver' \in [Peers -> BOOLEAN]
        /\ retryCount' \in [Peers -> Nat]
        /\ retryIn' \in [Peers -> Int] /\ \A q \in Peers : retryIn'[q] >= Passed
    BY <2>1, PingFailedType
  <2> QED
    BY <1>3, <2>2, <2>3 DEF CheckFail, TypeOK
<1>4. ASSUME NEW late \in BOOLEAN, NEW p \in Peers, CheckRead(p, late)
      PROVE  IInv'
  BY <1>4, QuietStep DEF CheckRead, TypeOK
<1> QED
  BY <1>1, <1>2, <1>3, <1>4 DEF Checker

\* The passage of a tick.
LEMMA TickKeepsIInv == IInv /\ Tick => IInv'
<1> SUFFICES ASSUME IInv, Tick PROVE IInv'
  OBVIOUS
<1>1. \A p \in Peers : /\ Older(p) \in Int
                       /\ ZeroTime <= Older(p) /\ Older(p) <= PeerTimeout[p] + 1
  <2> SUFFICES ASSUME NEW p \in Peers
               PROVE  /\ Older(p) \in Int
                      /\ ZeroTime <= Older(p) /\ Older(p) <= PeerTimeout[p] + 1
    OBVIOUS
  <2>1. sent[p] \in Int /\ -1 <= sent[p] /\ sent[p] <= PeerTimeout[p] + 1 /\ PeerTimeout[p] \in Nat
    BY TimesAssumption DEF IInv, TypeOK, ZeroTime
  <2> QED
    BY <2>1 DEF Older, ZeroTime
<1>2. \A p \in Peers : Nearer(p) \in Int /\ Nearer(p) >= Passed
  <2> SUFFICES ASSUME NEW p \in Peers PROVE Nearer(p) \in Int /\ Nearer(p) >= Passed
    OBVIOUS
  <2>1. retryIn[p] \in Int /\ retryIn[p] >= -1
    BY DEF IInv, TypeOK, Passed
  <2> QED
    BY <2>1 DEF Nearer, Passed
<1>3. /\ sent' \in [Peers -> Int]
      /\ \A p \in Peers : ZeroTime <= sent'[p] /\ sent'[p] <= PeerTimeout[p] + 1
  BY <1>1 DEF Tick
<1>4. retryIn' \in [Peers -> Int] /\ \A p \in Peers : retryIn'[p] >= Passed
  BY <1>2 DEF Tick
<1>5. senderIn' \in Nat /\ checkIn' \in Nat
  BY DEF Tick, IInv, TypeOK
<1>6. TypeOK' /\ CheckerHasSuspect'
  BY <1>3, <1>4, <1>5 DEF IInv, TypeOK, CheckerHasSuspect, Tick, envVars, ZeroTime
<1> QED
  BY <1>6, QuietStep DEF IInv, Tick

\* What the network and the tunnel do.
LEMMA EnvironmentKeepsIInv == IInv /\ Environment => IInv'
<1> SUFFICES ASSUME IInv, Environment PROVE IInv'
  OBVIOUS
<1> USE DEF IInv, TypeOK, CheckerHasSuspect, envVars, retryVars, senderVars, checkerVars
<1>1. CASE LinkChanges
  BY <1>1, QuietStep DEF LinkChanges
<1>2. ASSUME NEW p \in Peers, LoseReply(p)
      PROVE  IInv'
  <2>1. inFlight' \in [Peers -> Nat] /\ \A q \in Peers : inFlight'[q] <= MaxInFlight
    BY <1>2, RetryAssumption DEF LoseReply
  <2> QED
    BY <1>2, <2>1, QuietStep DEF LoseReply
<1>3. ASSUME NEW p \in Peers, TunnelChanges(p)
      PROVE  IInv'
  BY <1>3, QuietStep DEF TunnelChanges
<1> QED
  BY <1>1, <1>2, <1>3 DEF Environment

\* Every step of the monitor keeps the invariant.
LEMMA NextIInv == IInv /\ [Next]_vars => IInv'
<1> SUFFICES ASSUME IInv, [Next]_vars PROVE IInv'
  OBVIOUS
<1>1. CASE UNCHANGED vars
  BY <1>1, QuietStep DEF IInv, TypeOK, CheckerHasSuspect, vars,
     envVars, retryVars, senderVars, checkerVars
<1> QED
  BY <1>1, SenderKeepsIInv, CheckerKeepsIInv, TickKeepsIInv, DispatchReplyKeepsIInv,
     EnvironmentKeepsIInv DEF Next

\* The inductive invariant of the three loops.
THEOREM Invariance == Spec => []IInv
BY InitIInv, NextIInv, PTL DEF Spec

-----------------------------------------------------------------------------
(* The results.                                                            *)

\* The monitor's variables keep their types.
THEOREM TypeCorrect == Spec => []TypeOK
BY Invariance, PTL DEF IInv

\* Handover to the refresh cycle happens with the first retry whose backoff
\* reaches the refresh interval, for every configuration of the retries.
THEOREM HandoverExact == Spec => []HandoverIsExact
<1>1. IInv => HandoverIsExact
  <2> SUFFICES ASSUME IInv, NEW p \in Peers
               PROVE  LET slow == retryCount[p] - FixedRetries
                      IN  /\ handedOver[p] <=> slow > 0 /\ 5 * slow >= RefreshInterval
                          /\ slow > 1 => 5 * (slow - 1) < RefreshInterval
                          /\ isHealthy[p] => retryCount[p] = 0
    BY DEF HandoverIsExact
  <2> DEFINE n == retryCount[p]
  <2>1. n \in Nat /\ FixedRetries \in Nat \ {0} /\ RefreshInterval \in Nat \ {0}
    BY RetryAssumption DEF IInv, TypeOK
  <2>2. GivesWay(n) <=> n - FixedRetries > 0 /\ 5 * (n - FixedRetries) >= RefreshInterval
    BY <2>1 DEF GivesWay, Backoff
  <2>3. ASSUME n - FixedRetries > 1 PROVE 5 * (n - FixedRetries - 1) < RefreshInterval
    <3>1. ~GivesWay(n - 1)
      BY <2>1, <2>3 DEF IInv, HandoverInv
    <3> QED
      BY <2>1, <2>3, <3>1 DEF GivesWay, Backoff
  <2>4. (handedOver[p] <=> GivesWay(n)) /\ (isHealthy[p] => n = 0)
    BY DEF IInv, HandoverInv
  <2> QED
    BY <2>2, <2>3, <2>4
<1> QED
  BY <1>1, Invariance, PTL

\* One outage causes at most fixed_retries + refresh_interval / 5s + 1 retries.
RetryBudget ==
  \A p \in Peers : 5 * (retryCount[p] - FixedRetries - 1) < RefreshInterval

\* The number of publish and establish triggers that one outage of one peer can
\* cause is bounded by the configuration, however long the outage lasts.
THEOREM RetriesAreBounded == Spec => []RetryBudget
<1>1. IInv => RetryBudget
  <2> SUFFICES ASSUME IInv, NEW p \in Peers
               PROVE  5 * (retryCount[p] - FixedRetries - 1) < RefreshInterval
    BY DEF RetryBudget
  <2> DEFINE n == retryCount[p] - 1
  <2>1. retryCount[p] \in Nat /\ FixedRetries \in Nat /\ RefreshInterval \in Nat \ {0}
    BY RetryAssumption DEF IInv, TypeOK
  <2>2. CASE n > FixedRetries
    <3>1. ~GivesWay(n)
      BY <2>1, <2>2 DEF IInv, HandoverInv
    <3> QED
      BY <2>1, <2>2, <3>1 DEF GivesWay, Backoff
  <2>3. CASE ~(n > FixedRetries)
    BY <2>1, <2>3
  <2> QED
    BY <2>2, <2>3
<1> QED
  BY <1>1, Invariance, PTL

-----------------------------------------------------------------------------
(* What interval and timeout decide: a verdict in bounded time, or none.   *)

\* Ticks since the sender's ticker last fired.
Age == Interval - senderIn

\* The timeout checker is sure to look at p, too old, before p is pinged again.
Prompt(p) == PeerTimeout[p] + CheckPeriod < Interval

\* A ping of a prompt peer that nothing has answered becomes an unhealthy verdict
\* no later than the peer's timeout and one period of the checker after the
\* sender's round that sent it, hence before the next round.
DetectionIsBounded ==
  \A p \in Peers :
    Prompt(p) /\ ~replied[p] /\ isHealthy[p] => Age <= PeerTimeout[p] + CheckPeriod

\* sendPingForPeer never overwrites the send time of a prompt peer's ping that has
\* been neither answered nor judged.
NoPingIsForgotten ==
  [][\A p \in Peers :
       Prompt(p) /\ recording = p /\ recording' # p => sent[p] = ZeroTime]_vars

\* An unanswered ping is on its way into lastSentTime, there, in the checker's
\* hands, or already judged.
SilenceIsAccounted(p) ==
  \/ replied[p] \/ ~isHealthy[p]
  \/ recording = p \/ sent[p] # ZeroTime
  \/ checker = "fail" /\ suspect = p

\* The age of lastSentTime is the time since the round, up to just past the
\* timeout; from then on the checker's next event is near.
Timely(p) ==
  /\ senderIn <= Interval /\ checkIn <= CheckPeriod
  /\ checker = "idle" => suspect = NoPeer
  /\ p \in toSend => recording # p /\ (replied[p] \/ ~isHealthy[p])
  /\ p \in toSend \/ recording = p =>
       senderIn = Interval /\ sent[p] = ZeroTime /\ suspect # p
  /\ suspect = p => Age <= PeerTimeout[p] + CheckPeriod
  /\ sent[p] # ZeroTime /\ sent[p] <= PeerTimeout[p] => Age = sent[p]
  /\ sent[p] > PeerTimeout[p] =>
       /\ Age <= PeerTimeout[p] + CheckPeriod
       /\ \/ p \in toCheck
          \/ checker = "reset" /\ suspect = p
          \/ checkIn + Age <= PeerTimeout[p] + CheckPeriod

\* The checker's ticker has a positive period.
LEMMA CheckPeriodType == CheckPeriod \in Nat \ {0}
BY TimesAssumption DEF CheckPeriod

\* The types of what the timing argument counts.
CountsAreTyped(p) ==
  /\ PeerTimeout[p] \in Nat \ {0} /\ Interval \in Nat \ {0} /\ CheckPeriod \in Nat \ {0}
  /\ sent[p] \in Int /\ -1 <= sent[p] /\ sent[p] <= PeerTimeout[p] + 1
  /\ senderIn \in Nat /\ checkIn \in Nat
  /\ replied[p] \in BOOLEAN /\ isHealthy[p] \in BOOLEAN
  /\ p # NoPeer

\* They follow from the type invariant.
LEMMA Times ==
  ASSUME TypeOK, NEW p \in Peers
  PROVE  CountsAreTyped(p)
BY TimesAssumption, NoPeerAssumption, CheckPeriodType, Zenon DEF CountsAreTyped, TypeOK, ZeroTime

\* No step loses track of an unanswered ping, whatever the configuration.
LEMMA AccountedStep ==
  ASSUME IInv, NEW p \in Peers, SilenceIsAccounted(p), [Next]_vars
  PROVE  SilenceIsAccounted(p)'
<1> USE NoPeerAssumption DEF SilenceIsAccounted, IInv, TypeOK, ZeroTime,
        envVars, retryVars, senderVars, checkerVars
<1>1. CASE Sender
  BY <1>1 DEF Sender, SenderTicker, RecordSent, SendPing
<1>2. CASE CheckerTicker \/ CheckReset
  BY <1>2 DEF CheckerTicker, CheckReset
<1>3. ASSUME NEW late \in BOOLEAN, CheckFail(late)
      PROVE  SilenceIsAccounted(p)'
  <2>1. isHealthy' = [isHealthy EXCEPT ![suspect] = FALSE]
    BY <1>3 DEF CheckFail, PingFailed
  <2> QED
    BY <1>3, <2>1 DEF CheckFail
<1>4. ASSUME NEW late \in BOOLEAN, NEW q \in Peers, CheckRead(q, late)
      PROVE  SilenceIsAccounted(p)'
  BY <1>4 DEF CheckRead
<1>5. ASSUME NEW q \in Peers, DispatchReply(q)
      PROVE  SilenceIsAccounted(p)'
  BY <1>5 DEF DispatchReply, PingSucceeded
<1>6. CASE Tick
  <2>1. sent[p] # ZeroTime => sent'[p] # ZeroTime
    BY <1>6 DEF Tick, Older
  <2> QED
    BY <1>6, <2>1 DEF Tick
<1>7. CASE Environment \/ UNCHANGED vars
  BY <1>7, Zenon DEF Environment, LinkChanges, LoseReply, TunnelChanges, vars
<1> QED
  BY <1>1, <1>2, <1>3, <1>4, <1>5, <1>6, <1>7 DEF Next, Checker

\* The sender's steps: a prompt peer has been answered or judged when its next
\* round starts.
LEMMA SenderIsTimely ==
  ASSUME IInv, NEW p \in Peers, Prompt(p), SilenceIsAccounted(p), Timely(p), Sender
  PROVE  Timely(p)'
<1>0. TypeOK /\ CountsAreTyped(p)
  BY Times DEF IInv
<1> USE <1>0 DEF CountsAreTyped, Timely, Age, Prompt, ZeroTime
<1>1. CASE SenderTicker
  <2>0. /\ senderIn = 0 /\ recording = NoPeer /\ senderIn' = Interval
        /\ UNCHANGED <<replied, sent, isHealthy, recording, checkIn, toCheck, checker, suspect>>
    BY <1>1, Zenon DEF SenderTicker, retryVars, checkerVars
  <2>1. Age = Interval
    BY <2>0
  <2>2. sent[p] = ZeroTime /\ suspect # p
    BY <2>1
  <2>3. replied[p] \/ ~isHealthy[p]
    BY <2>0, <2>1, <2>2, Zenon DEF SilenceIsAccounted
  <2> HIDE DEF Prompt
  <2> QED
    BY <2>0, <2>2, <2>3
<1>2. CASE RecordSent
  <2>1. sent'[p] = IF p = recording THEN 0 ELSE sent[p]
    BY <1>2, Zenon DEF RecordSent, TypeOK
  <2>2. /\ recording # NoPeer /\ recording' = NoPeer
        /\ UNCHANGED <<replied, isHealthy, senderIn, toSend, checkIn, toCheck, checker, suspect>>
    BY <1>2, Zenon DEF RecordSent, retryVars, checkerVars
  <2> QED
    BY <2>1, <2>2
<1>3. ASSUME NEW q \in Peers, SendPing(q)
      PROVE  Timely(p)'
  <2>1. q # p => replied'[p] = replied[p]
    BY <1>3 DEF SendPing, TypeOK
  <2> QED
    BY <1>3, <2>1 DEF SendPing, retryVars, checkerVars
<1> QED
  BY <1>1, <1>2, <1>3, Zenon DEF Sender

\* The checker's steps: its event finds the peer before the next round does.
LEMMA CheckerIsTimely ==
  ASSUME IInv, NEW p \in Peers, Prompt(p), Timely(p), Checker
  PROVE  Timely(p)'
<1>0. TypeOK /\ CountsAreTyped(p)
  BY Times DEF IInv
<1> USE <1>0 DEF CountsAreTyped, Timely, Age, Prompt, ZeroTime, senderVars
<1>1. CASE CheckerTicker
  <2>1. /\ checkIn = 0 /\ checkIn' = CheckPeriod /\ toCheck' = Peers
        /\ UNCHANGED <<replied, sent, isHealthy, senderIn, toSend, recording, checker, suspect>>
    BY <1>1, Zenon DEF CheckerTicker, retryVars
  <2> QED
    BY <2>1
<1>2. CASE CheckReset
  <2>1. sent'[p] = IF p = suspect THEN ZeroTime ELSE sent[p]
    BY <1>2, Zenon DEF CheckReset, TypeOK
  <2> QED
    BY <1>2, <2>1 DEF CheckReset, retryVars
<1>3. ASSUME NEW late \in BOOLEAN, CheckFail(late)
      PROVE  Timely(p)'
  <2>1. ~isHealthy[p] => ~isHealthy'[p]
    BY <1>3, Zenon DEF CheckFail, PingFailed, TypeOK
  <2> QED
    BY <1>3, <2>1 DEF CheckFail
<1>4. ASSUME NEW late \in BOOLEAN, NEW q \in Peers, CheckRead(q, late)
      PROVE  Timely(p)'
  <2>1. CASE q = p /\ TimedOut(p, late)
    BY <1>4, <2>1 DEF CheckRead, TimedOut, retryVars
  <2>2. CASE q = p /\ ~TimedOut(p, late)
    BY <1>4, <2>2 DEF CheckRead, TimedOut, retryVars
  <2>3. CASE q # p
    BY <1>4, <2>3, Zenon DEF CheckRead, retryVars
  <2> QED
    BY <2>1, <2>2, <2>3, Zenon
<1> QED
  BY <1>1, <1>2, <1>3, <1>4, Zenon DEF Checker

\* The other steps: only a tick lets a send time grow older.
LEMMA OthersAreTimely ==
  ASSUME IInv, NEW p \in Peers, Prompt(p), Timely(p),
         \/ Tick \/ Environment \/ UNCHANGED vars
         \/ \E q \in Peers : DispatchReply(q)
  PROVE  Timely(p)'
<1>0. TypeOK /\ CountsAreTyped(p)
  BY Times DEF IInv
<1> USE <1>0 DEF CountsAreTyped, Timely, Age, Prompt, ZeroTime
<1>1. CASE Tick
  <2>1. sent'[p] = IF sent[p] = -1 \/ sent[p] > PeerTimeout[p] THEN sent[p] ELSE sent[p] + 1
    BY <1>1, Zenon DEF Tick, Older
  <2>2. senderIn' = senderIn - 1 /\ checkIn' = checkIn - 1 /\ senderIn > 0 /\ checkIn > 0
    BY <1>1, Zenon DEF Tick
  <2>3. toSend' = {} /\ recording' = NoPeer /\ toCheck = {} /\ toCheck' = {} /\ checker = "idle"
        /\ checker' = "idle" /\ suspect' = suspect
    BY <1>1, Zenon DEF Tick
  <2> QED
    BY <2>1, <2>2, <2>3
<1>2. ASSUME NEW q \in Peers, DispatchReply(q)
      PROVE  Timely(p)'
  <2>1. sent'[p] = sent[p] \/ sent'[p] = ZeroTime
    BY <1>2 DEF DispatchReply, PingSucceeded, TypeOK
  <2>2. replied[p] \/ ~isHealthy[p] => replied'[p] \/ ~isHealthy'[p]
    BY <1>2, Zenon DEF DispatchReply, PingSucceeded, TypeOK
  <2>3. UNCHANGED <<senderIn, toSend, recording, checkIn, toCheck, checker, suspect>>
    BY <1>2, Zenon DEF DispatchReply, senderVars, checkerVars
  <2> QED
    BY <2>1, <2>2, <2>3
<1>3. CASE Environment \/ UNCHANGED vars
  BY <1>3 DEF Environment, LinkChanges, LoseReply, TunnelChanges, vars, retryVars, senderVars,
              checkerVars
<1> QED
  BY <1>1, <1>2, <1>3, Zenon

\* The timing of every prompt peer, and no lost ping of any peer.
TimingInv == \A p \in Peers : SilenceIsAccounted(p) /\ (Prompt(p) => Timely(p))

\* The timing invariant of the sender, the reader and the checker.
LEMMA TimingInvariance == Spec => []TimingInv
<1>1. Init => TimingInv
  <2> SUFFICES ASSUME Init, NEW p \in Peers PROVE SilenceIsAccounted(p) /\ Timely(p)
    BY DEF TimingInv
  <2>1. sent[p] = -1 /\ replied[p] /\ PeerTimeout[p] \in Nat /\ p # NoPeer
    BY TimesAssumption, NoPeerAssumption DEF Init, ZeroTime
  <2> QED
    BY <2>1, CheckPeriodType, TimesAssumption DEF Init, SilenceIsAccounted, Timely, Age, ZeroTime
<1>2. IInv /\ TimingInv /\ [Next]_vars => TimingInv'
  <2> SUFFICES ASSUME IInv, TimingInv, [Next]_vars, NEW p \in Peers
               PROVE  SilenceIsAccounted(p)' /\ (Prompt(p) => Timely(p)')
    BY DEF TimingInv, Prompt, CheckPeriod
  <2>1. SilenceIsAccounted(p)'
    BY AccountedStep DEF TimingInv
  <2>2. ASSUME Prompt(p) PROVE Timely(p)'
    BY <2>2, SenderIsTimely, CheckerIsTimely, OthersAreTimely DEF TimingInv, Next
  <2> QED
    BY <2>1, <2>2
<1> QED
  BY <1>1, <1>2, Invariance, PTL DEF Spec

\* A dead peer is noticed in bounded time wherever the interval leaves the checker
\* room, although replies are lost, late or raced by the checks: the bounded form
\* of DeadPeerIsNoticed, for any number of peers and any configuration.
THEOREM BoundedDetection == Spec => []DetectionIsBounded
<1>1. IInv /\ TimingInv => DetectionIsBounded
  <2> SUFFICES ASSUME IInv, TimingInv, NEW p \in Peers, Prompt(p), ~replied[p], isHealthy[p]
               PROVE  Age <= PeerTimeout[p] + CheckPeriod
    BY DEF DetectionIsBounded
  <2> QED
    BY CheckPeriodType, Times DEF IInv, TimingInv, CountsAreTyped, SilenceIsAccounted, Timely, Age, ZeroTime
<1> QED
  BY <1>1, Invariance, TimingInvariance, PTL

\* Where the interval leaves the checker room, the record of a send replaces no
\* send time that still counts: the hazard of ping_monitor.go:425 is gone.
THEOREM NoForgottenPing == Spec => NoPingIsForgotten
<1>1. TimingInv => [\A p \in Peers :
                      Prompt(p) /\ recording = p /\ recording' # p => sent[p] = ZeroTime]_vars
  BY DEF TimingInv, Timely
<1> QED
  BY <1>1, TimingInvariance, PTL DEF NoPingIsForgotten

\* Between two rounds p's send time stays younger than its timeout.
Mute(p) ==
  /\ isHealthy[p] /\ suspect # p
  /\ senderIn <= Interval /\ sent[p] <= Interval
  /\ p \notin toSend /\ recording # p => sent[p] + senderIn <= Interval

\* A peer whose timeout is longer than the ping interval never gets an unhealthy
\* verdict while the device accepts packets, even if it never answers: every
\* ping resets the send time that checkForTimeouts looks at.  Under the defaults,
\* where the two are equal, DeadPeerIsNoticed is violated for the same reason, but
\* there a checker that gets in just before the sender may give a verdict.
THEOREM LongTimeoutIsMute ==
  ASSUME NEW p \in Peers, Interval < PeerTimeout[p]
  PROVE  Spec /\ []linkUp => []isHealthy[p]
<1>1. Init => Mute(p)
  BY TimesAssumption, NoPeerAssumption DEF Init, Mute, ZeroTime
<1>2. ASSUME IInv, Mute(p), linkUp, [Next]_vars
      PROVE  Mute(p)'
  <2>0. TypeOK /\ CountsAreTyped(p)
    BY <1>2, Times DEF IInv
  <2> USE <1>2, <2>0 DEF CountsAreTyped, Mute
  <2>1. CASE SenderTicker
    BY <2>1 DEF SenderTicker, retryVars, checkerVars
  <2>2. CASE RecordSent
    <3>1. sent'[p] = IF p = recording THEN 0 ELSE sent[p]
      BY <2>2, Zenon DEF RecordSent, TypeOK
    <3> QED
      BY <2>2, <3>1 DEF RecordSent, retryVars, checkerVars
  <2>3. ASSUME NEW q \in Peers, SendPing(q)
        PROVE  Mute(p)'
    BY <2>3 DEF SendPing, retryVars, checkerVars
  <2>4. CASE CheckerTicker \/ CheckReset
    <3>1. sent'[p] = sent[p]
      BY <2>4, Zenon DEF CheckerTicker, CheckReset, TypeOK
    <3> QED
      BY <2>4, <3>1, Zenon DEF CheckerTicker, CheckReset, retryVars, senderVars
  <2>5. ASSUME NEW late \in BOOLEAN, CheckFail(late)
        PROVE  Mute(p)'
    <3>1. isHealthy'[p] = isHealthy[p]
      BY <2>5, Zenon DEF CheckFail, PingFailed, TypeOK
    <3> QED
      BY <2>5, <3>1, Zenon DEF CheckFail, senderVars
  <2>6. ASSUME NEW late \in BOOLEAN, NEW q \in Peers, CheckRead(q, late)
        PROVE  Mute(p)'
    <3>1. ~TimedOut(p, late)
      BY DEF TimedOut
    <3> QED
      BY <2>6, <3>1 DEF CheckRead, retryVars, senderVars
  <2>7. ASSUME NEW q \in Peers, DispatchReply(q)
        PROVE  Mute(p)'
    <3>1. sent'[p] = sent[p] \/ sent'[p] = -1
      BY <2>7, Zenon DEF DispatchReply, PingSucceeded, TypeOK, ZeroTime
    <3>2. isHealthy'[p]
      BY <2>7, Zenon DEF DispatchReply, PingSucceeded, TypeOK
    <3> QED
      BY <2>7, <3>1, <3>2 DEF DispatchReply, senderVars, checkerVars
  <2>8. CASE Tick
    <3>1. sent'[p] = sent[p] + 1 \/ sent'[p] = -1
      BY <2>8 DEF Tick, Older, ZeroTime
    <3> QED
      BY <2>8, <3>1 DEF Tick
  <2>9. CASE Environment \/ UNCHANGED vars
    BY <2>9, Zenon DEF Environment, LinkChanges, LoseReply, TunnelChanges, vars, retryVars, senderVars,
                checkerVars
  <2> QED
    BY <2>1, <2>2, <2>3, <2>4, <2>5, <2>6, <2>7, <2>8, <2>9, Zenon DEF Next, Sender, Checker
<1>3. Mute(p) => isHealthy[p]
  BY DEF Mute
<1> QED
  BY <1>1, <1>2, <1>3, Invariance, PTL DEF Spec
=============================================================================
