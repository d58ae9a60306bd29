---------------------------- MODULE PingMonitor -----------------------------
(***************************************************************************)
(* The health monitor of one WireGuard device                              *)
(* (internal/ctrl/ping_monitor.go): a sender, a reader and a timeout       *)
(* checker share the state of every monitored peer, each access under that *)
(* peer's mutex but not two accesses together.                             *)
(*                                                                         *)
(* Time is counted in ticks.  A timestamp is kept as its age and a         *)
(* deadline as the ticks left; two events of one tick have no order, so a  *)
(* comparison of two times that are exactly the limit apart may go either  *)
(* way (parameter late).  A loop does the work of one ticker event within  *)
(* the tick in which it starts.                                            *)
(*                                                                         *)
(* failureCount is left out: it is 0 exactly when isHealthy holds.         *)
(***************************************************************************)
EXTENDS Integers

CONSTANTS
  Peers,           \* the peers that ping monitoring is enabled for
  NoPeer,
  Second,          \* ticks per second
  Interval,        \* ping_monitor.interval, in ticks
  Timeout,         \* ping_monitor.timeout, in ticks
  PeerTimeout,     \* PeerPingState.timeout, in ticks
  FixedRetries,    \* ping_monitor.fixed_retries
  RefreshInterval, \* refresh_interval, in seconds
  MaxInFlight      \* bound: replies on their way, per peer

ASSUME NoPeerAssumption == NoPeer \notin Peers
ASSUME TimesAssumption ==
  /\ Second \in Nat \ {0} /\ Interval \in Nat \ {0} /\ Timeout \in Nat \ {0}
  /\ Timeout % 2 = 0
  /\ PeerTimeout \in [Peers -> Nat \ {0}]
ASSUME RetryAssumption ==
  /\ FixedRetries \in Nat \ {0} /\ RefreshInterval \in Nat \ {0}
  /\ MaxInFlight \in Nat \ {0}

VARIABLES
  alive,       \* alive[p]: the tunnel to p carries pings (environment)
  linkUp,      \* the device accepts packets: conn.Send succeeds (environment)
  inFlight,    \* inFlight[p]: echo replies of p that the reader has not read
  replied,     \* replied[p]: no ping, or a reply was handled since the last (history)
  sent,        \* sent[p]: age of lastSentTime
  isHealthy, retryCount, handedOver,
  retryIn,     \* retryIn[p]: ticks until nextRetryTime; Passed when it is over
  senderIn,    \* ticks until the sender's ticker fires
  toSend,      \* peers left in the sender's current round
  recording,   \* the peer the sender has pinged but not yet recorded
  checkIn,     \* ticks until the checker's ticker fires
  toCheck,     \* peers left in the checker's current round
  checker,     \* "idle", or the next step for suspect: "reset", "fail"
  suspect      \* the peer the checker has found to be timed out

envVars == <<alive, linkUp>>
retryVars == <<isHealthy, retryCount, handedOver, retryIn>>
senderVars == <<senderIn, toSend, recording>>
checkerVars == <<checkIn, toCheck, checker, suspect>>
vars == <<envVars, inFlight, replied, sent, retryVars, senderVars, checkerVars>>

ZeroTime == -1   \* lastSentTime is the zero time
Passed == -1     \* nextRetryTime is in the past or the zero time

TypeOK ==
  /\ alive \in [Peers -> BOOLEAN] /\ linkUp \in BOOLEAN
  /\ inFlight \in [Peers -> Nat] /\ \A p \in Peers : inFlight[p] <= MaxInFlight
  /\ replied \in [Peers -> BOOLEAN]
  /\ sent \in [Peers -> Int]
  /\ \A p \in Peers : ZeroTime <= sent[p] /\ sent[p] <= PeerTimeout[p] + 1
  /\ isHealthy \in [Peers -> BOOLEAN] /\ handedOver \in [Peers -> BOOLEAN]
  /\ retryCount \in [Peers -> Nat]
  /\ retryIn \in [Peers -> Int] /\ \A p \in Peers : retryIn[p] >= Passed
  /\ senderIn \in Nat /\ checkIn \in Nat
  /\ toSend \subseteq Peers /\ toCheck \subseteq Peers
  /\ recording \in Peers \union {NoPeer}
  /\ checker \in {"idle", "reset", "fail"}
  /\ suspect \in Peers \union {NoPeer}

\* The checker's ticker runs at half the global timeout, a whole number of ticks.
CheckPeriod == Timeout \div 2

\* AddPeer for every peer, then Execute starts the three loops.
Init ==
  /\ alive \in [Peers -> BOOLEAN] /\ linkUp = TRUE
  /\ inFlight = [p \in Peers |-> 0] /\ replied = [p \in Peers |-> TRUE]
  /\ sent = [p \in Peers |-> ZeroTime]
  /\ isHealthy = [p \in Peers |-> TRUE]
  /\ retryCount = [p \in Peers |-> 0]
  /\ handedOver = [p \in Peers |-> FALSE]
  /\ retryIn = [p \in Peers |-> Passed]
  /\ senderIn = Interval /\ toSend = {} /\ recording = NoPeer
  /\ checkIn = CheckPeriod /\ toCheck = {} /\ checker = "idle" /\ suspect = NoPeer

-----------------------------------------------------------------------------
(* The retry schedule.                                                     *)

\* Faulty variant: a peer that was handed over goes on retrying.
ShouldRetryHandedOver(p, late) ==
  retryCount[p] = 0 \/ retryIn[p] = Passed \/ (retryIn[p] = 0 /\ late)

\* shouldRetryPublishEstablish.
ShouldRetry(p, late) ==
  \/ retryCount[p] = 0
  \/ ~handedOver[p] /\ (retryIn[p] = Passed \/ (retryIn[p] = 0 /\ late))

\* Faulty variant: the backoff starts at nothing.
BackoffFromZero(n) == (n - FixedRetries - 1) * 5

\* Seconds of arithmetic backoff before retry n + 1, for n beyond FixedRetries.
Backoff(n) == 5 + (n - FixedRetries - 1) * 5

\* After retry n the refresh cycle comes round before another retry would.
GivesWay(n) == n > FixedRetries /\ Backoff(n) >= RefreshInterval

\* Faulty variant: the schedule never gives way to the refresh cycle.
ScheduleNextRetryForever(p, n) ==
  /\ retryCount' = [retryCount EXCEPT ![p] = IF GivesWay(n) THEN @ ELSE n]
  /\ retryIn' = [retryIn EXCEPT ![p] = 2 * Second]
  /\ UNCHANGED handedOver

\* scheduleNextRetry, for the retry that is the n-th.
ScheduleNextRetry(p, n) ==
  /\ retryCount' = [retryCount EXCEPT ![p] = n]
  /\ handedOver' = [handedOver EXCEPT ![p] = @ \/ GivesWay(n)]
  /\ retryIn' = [retryIn EXCEPT ![p] =
       IF n <= FixedRetries THEN 2 * Second
       ELSE IF GivesWay(n) THEN Passed ELSE Backoff(n) * Second]

\* handlePingResult(state, false).  A retry is a TriggerForPeer of the publish
\* and of the establish controller, neither of which blocks.
PingFailed(p, late) ==
  /\ isHealthy' = [isHealthy EXCEPT ![p] = FALSE]
  /\ IF ShouldRetry(p, late)
       THEN ScheduleNextRetry(p, retryCount[p] + 1)
       ELSE UNCHANGED <<retryCount, handedOver, retryIn>>

\* Faulty variant: recovery does not re-enable publish and establish.
PingSucceededStaysHandedOver(p) ==
  /\ isHealthy' = [isHealthy EXCEPT ![p] = TRUE]
  /\ retryCount' = [retryCount EXCEPT ![p] = 0]
  /\ retryIn' = [retryIn EXCEPT ![p] = Passed]
  /\ sent' = [sent EXCEPT ![p] = ZeroTime]
  /\ UNCHANGED handedOver

\* handlePingResult(state, true).
PingSucceeded(p) ==
  /\ isHealthy' = [isHealthy EXCEPT ![p] = TRUE]
  /\ retryCount' = [retryCount EXCEPT ![p] = 0]
  /\ handedOver' = [handedOver EXCEPT ![p] = FALSE]
  /\ retryIn' = [retryIn EXCEPT ![p] = Passed]
  /\ sent' = [sent EXCEPT ![p] = ZeroTime]

-----------------------------------------------------------------------------
(* deviceSenderLoop.                                                       *)

\* Faulty variant: the loop is started with the timeout for its interval.
SenderTickerSwapped ==
  /\ senderIn = 0 /\ toSend = {} /\ recording = NoPeer
  /\ toSend' = Peers
  /\ senderIn' = Timeout
  /\ UNCHANGED <<envVars, inFlight, replied, sent, retryVars, recording, checkerVars>>

\* The ticker fires: sendPingsToAllPeers starts.
SenderTicker ==
  /\ senderIn = 0 /\ toSend = {} /\ recording = NoPeer
  /\ toSend' = Peers
  /\ senderIn' = Interval
  /\ UNCHANGED <<envVars, inFlight, replied, sent, retryVars, recording, checkerVars>>

\* sendPingForPeer up to conn.Send.  A failed Send returns without a record.
SendPing(p) ==
  /\ p \in toSend /\ recording = NoPeer
  /\ toSend' = toSend \ {p}
  /\ recording' = IF linkUp THEN p ELSE NoPeer
  /\ inFlight' = [inFlight EXCEPT ![p] =
       IF linkUp /\ alive[p] /\ @ < MaxInFlight THEN @ + 1 ELSE @]
  /\ replied' = [replied EXCEPT ![p] = @ /\ ~linkUp]
  /\ UNCHANGED <<envVars, sent, retryVars, senderIn, checkerVars>>

\* sendPingForPeer after conn.Send: lastSentTime = now, whatever it was.
RecordSent ==
  /\ recording # NoPeer
  /\ sent' = [sent EXCEPT ![recording] = 0]
  /\ recording' = NoPeer
  /\ UNCHANGED <<envVars, inFlight, replied, retryVars, senderIn, toSend, checkerVars>>

-----------------------------------------------------------------------------
(* deviceReaderLoop.                                                       *)

\* dispatchReply accepts an echo reply with p's ICMP id from p's target; which
\* ping it answers is not looked at.
DispatchReply(p) ==
  /\ inFlight[p] > 0
  /\ inFlight' = [inFlight EXCEPT ![p] = @ - 1]
  /\ replied' = [replied EXCEPT ![p] = TRUE]
  /\ PingSucceeded(p)
  /\ UNCHANGED <<envVars, senderVars, checkerVars>>

-----------------------------------------------------------------------------
(* deviceTimeoutChecker.                                                   *)

CheckerTicker ==
  /\ checkIn = 0 /\ toCheck = {} /\ checker = "idle"
  /\ toCheck' = Peers
  /\ checkIn' = CheckPeriod
  /\ UNCHANGED <<envVars, inFlight, replied, sent, retryVars, senderVars, checker, suspect>>

\* lastSentTime is not zero and now.Sub(lastSentTime) > timeout.
TimedOut(p, late) ==
  sent[p] > PeerTimeout[p] \/ (sent[p] = PeerTimeout[p] /\ late)

\* checkForTimeouts reads lastSentTime under the read lock and lets go of it.
CheckRead(p, late) ==
  /\ p \in toCheck /\ checker = "idle"
  /\ toCheck' = toCheck \ {p}
  /\ IF TimedOut(p, late)
       THEN checker' = "reset" /\ suspect' = p
       ELSE UNCHANGED <<checker, suspect>>
  /\ UNCHANGED <<envVars, inFlight, replied, sent, retryVars, senderVars, checkIn>>

\* It takes the lock again and zeroes lastSentTime.
CheckReset ==
  /\ checker = "reset"
  /\ sent' = [sent EXCEPT ![suspect] = ZeroTime]
  /\ checker' = "fail"
  /\ UNCHANGED <<envVars, inFlight, replied, retryVars, senderVars, checkIn, toCheck, suspect>>

\* handlePingResult takes the lock a third time.
CheckFail(late) ==
  /\ checker = "fail"
  /\ PingFailed(suspect, late)
  /\ checker' = "idle" /\ suspect' = NoPeer
  /\ UNCHANGED <<envVars, inFlight, replied, sent, senderVars, checkIn, toCheck>>

-----------------------------------------------------------------------------
(* The environment and time.                                               *)

LoseReply(p) ==
  /\ inFlight[p] > 0
  /\ inFlight' = [inFlight EXCEPT ![p] = @ - 1]
  /\ UNCHANGED <<envVars, replied, sent, retryVars, senderVars, checkerVars>>

TunnelChanges(p) ==
  /\ alive' = [alive EXCEPT ![p] = ~@]
  /\ UNCHANGED <<linkUp, inFlight, replied, sent, retryVars, senderVars, checkerVars>>

LinkChanges ==
  /\ linkUp' = ~linkUp
  /\ UNCHANGED <<alive, inFlight, replied, sent, retryVars, senderVars, checkerVars>>

\* Ages stop growing just past the timeout, where nothing tells them apart.
Older(p) == IF sent[p] = ZeroTime \/ sent[p] > PeerTimeout[p] THEN sent[p] ELSE sent[p] + 1
Nearer(p) == IF retryIn[p] = Passed THEN Passed ELSE retryIn[p] - 1

\* A tick passes when no loop is in the middle of its work.
Tick ==
  /\ senderIn > 0 /\ toSend = {} /\ recording = NoPeer
  /\ checkIn > 0 /\ toCheck = {} /\ checker = "idle"
  /\ senderIn' = senderIn - 1
  /\ checkIn' = checkIn - 1
  /\ sent' = [p \in Peers |-> Older(p)]
  /\ retryIn' = [p \in Peers |-> Nearer(p)]
  /\ UNCHANGED <<envVars, inFlight, replied, isHealthy, retryCount, handedOver,
                 toSend, recording, toCheck, checker, suspect>>

-----------------------------------------------------------------------------
Sender == SenderTicker \/ RecordSent \/ \E p \in Peers : SendPing(p)

Checker ==
  \/ CheckerTicker \/ CheckReset
  \/ \E late \in BOOLEAN : CheckFail(late) \/ \E p \in Peers : CheckRead(p, late)

Environment == LinkChanges \/ \E p \in Peers : LoseReply(p) \/ TunnelChanges(p)

Next ==
  \/ Sender \/ Checker \/ Tick
  \/ \E p \in Peers : DispatchReply(p)
  \/ Environment

Spec == Init /\ [][Next]_vars

\* The loops and the clock go on.  The network may lose and delay replies but not
\* every one of infinitely many.
Fairness ==
  /\ WF_vars(Sender) /\ WF_vars(Checker) /\ WF_vars(Tick)
  /\ \A p \in Peers : SF_vars(DispatchReply(p))

FairSpec == Spec /\ Fairness

-----------------------------------------------------------------------------
(* Properties.                                                             *)

\* After the fixed retries one follows 5 s later, the next 10 s after that, and so
\* on, each 5 s more.  A peer is handed over to the refresh cycle exactly with the
\* first retry whose successor would not come before the next refresh; none
\* follows that one, and a healthy peer starts over (ping_monitor.go:65, 575-615).
HandoverIsExact ==
  \A p \in Peers :
    LET slow == retryCount[p] - FixedRetries
    IN  /\ handedOver[p] <=> slow > 0 /\ 5 * slow >= RefreshInterval
        /\ slow > 1 => 5 * (slow - 1) < RefreshInterval
        /\ isHealthy[p] => retryCount[p] = 0

\* A tunnel that stays dead, over a device that accepts packets, is noticed for
\* good, although late replies to old pings still clear the timer.
DeadPeerIsNoticed ==
  \A p \in Peers : <>[](~alive[p] /\ linkUp) => <>[]~isHealthy[p]

\* Retries for a dead tunnel go on until the refresh cycle takes over.
DeadPeerIsHandedOver ==
  \A p \in Peers : <>[](~alive[p] /\ linkUp) => <>[]handedOver[p]

\* A tunnel that works again is seen as healthy with its retries re-enabled,
\* again and again: a wrong verdict never lasts.
LivePeerRecovers ==
  \A p \in Peers : <>[](alive[p] /\ linkUp) => []<>(isHealthy[p] /\ ~handedOver[p])

\* "peer has timed out (no reply received within timeout after last sent)"
\* (ping_monitor.go:375): a failure is recorded only for a peer whose last ping
\* no reply has followed.
FailureMeansSilence ==
  [][\A p \in Peers : checker = "fail" /\ checker' = "idle" /\ suspect = p => ~replied[p]]_vars
=============================================================================
