---------------------------- MODULE MobileProofs ----------------------------
(***************************************************************************)
(* Proofs about Mobile, for any peers, networks, protocol and number of    *)
(* sessions.                                                               *)
(***************************************************************************)
EXTENDS Mobile, TLAPS

\* Node.ctrl, Node.dev and the local variables of the call belong together: mu
\* is given up between the steps of a call, lifecycle is not.
NodeIsSound ==
  /\ running => ctrl \in Sessions /\ dev = ctrl
  /\ ~running => ctrl = None
  /\ call \in {"changed", "signal"} => running /\ pending.ctrl = ctrl
  /\ call \in {"cancel", "join"} => ~running /\ dev \in Sessions /\ pending.ctrl = dev
  /\ ~running /\ call \notin {"cancel", "join"} => dev = None

\* Only the session of Node.dev has a loop or an open device, and only an open
\* device has sockets.
SessionsAreSound ==
  \A s \in Sessions :
    /\ s # dev => loop[s].pc = "none" /\ device[s] # "open"
    /\ device[s] # "open" => ~sock[s]

\* The sockets are those of the network as of the last call that completed, which
\* during a call is what it has saved in previous.
UnderlayIsSound ==
  running =>
    /\ call # "changed" => loop[ctrl].net = network
    /\ device[dev] = "open" =>
         sock[dev] = IF call = "none" THEN network.online ELSE pending.previous

\* What a loop has discovered in a cycle that is live, or is about to.
LoopIsSound(l) ==
  /\ l.pc \notin {"discover", "probe", "publish"} => \A f \in Families : l.data[f] = None
  /\ l.cycle = "live" => \A f \in Families : l.data[f] # None => f \in l.net.families
  /\ l.cycle = "live" /\ l.pc = "probe" => NextFamily(l) \in l.net.families

LoopsAreSound == \A s \in Sessions : LoopIsSound(loop[s])

IInv ==
  /\ TypeOK /\ NodeIsSound /\ SessionsAreSound /\ UnderlayIsSound /\ LoopsAreSound
  /\ StaleStateIsFlagged
\* No client and no counter of the loop l dates from before the last change.
OnlyFlagged(l) ==
  l.client = "old" \/ (\E p \in Peers : l.evidence[p] = "old") => l.changed \/ call = "signal"

-----------------------------------------------------------------------------
(* Steps of a loop.                                                         *)

\* A step of one loop keeps the invariant if the new state of the loop is sound,
\* is on the same network, does not revive a loop that has gone and leaves no
\* stale state unnoticed.
LEMMA LoopStep ==
  ASSUME IInv, NEW s \in Sessions, NEW l \in LoopType, StepLoop(s, l), OnlyLoop,
         PublishedOK',
         LoopIsSound(l), l.net = loop[s].net,
         loop[s].pc = "none" => l.pc = "none",
         running /\ s = ctrl => OnlyFlagged(l)
  PROVE  IInv'
<1>1. /\ UNCHANGED <<call, pending, stops, network, running, dev, ctrl, device, sock>>
      /\ loop' = [loop EXCEPT ![s] = l]
  BY DEF StepLoop, OnlyLoop, node
<1>2. loop \in [Sessions -> LoopType]
  BY DEF IInv, TypeOK
<1>3. loop'[s] = l /\ \A r \in Sessions : r # s => loop'[r] = loop[r]
  BY <1>1, <1>2
<1>4. TypeOK'
  BY <1>1, <1>2 DEF IInv, TypeOK
<1>5. NodeIsSound'
  BY <1>1 DEF IInv, NodeIsSound
<1>6. SessionsAreSound'
  BY <1>1, <1>3 DEF IInv, SessionsAreSound
<1>7. UnderlayIsSound'
  <2> SUFFICES ASSUME running PROVE UnderlayIsSound'
    BY <1>1 DEF UnderlayIsSound
  <2>1. ctrl \in Sessions /\ loop'[ctrl].net = loop[ctrl].net
    BY <1>3 DEF IInv, NodeIsSound
  <2> QED
    BY <1>1, <2>1 DEF IInv, UnderlayIsSound
<1>8. LoopsAreSound'
  <2> SUFFICES ASSUME NEW r \in Sessions PROVE LoopIsSound(loop'[r])
    BY DEF LoopsAreSound, LoopIsSound, NextFamily
  <2> QED
    BY <1>3 DEF IInv, LoopsAreSound
<1>9. StaleStateIsFlagged'
  <2> SUFFICES ASSUME running PROVE OnlyFlagged(loop'[ctrl])
    BY <1>1 DEF StaleStateIsFlagged, OnlyFlagged
  <2> QED
    BY <1>3 DEF IInv, NodeIsSound, StaleStateIsFlagged, OnlyFlagged
<1> QED
  BY <1>4, <1>5, <1>6, <1>7, <1>8, <1>9 DEF IInv

\* What the invariant says of the loop that takes a step.
LEMMA LoopFacts ==
  ASSUME IInv, NEW s \in Sessions
  PROVE  /\ loop[s] \in LoopType /\ LoopIsSound(loop[s])
         /\ UNCHANGED published => PublishedOK'
         /\ running /\ loop[s].pc # "none" => s = ctrl /\ OnlyFlagged(loop[s])
<1>1. UNCHANGED published => PublishedOK'
  BY DEF IInv, TypeOK, PublishedOK, published
<1> QED
  BY <1>1 DEF IInv, TypeOK, LoopsAreSound, NodeIsSound, SessionsAreSound, StaleStateIsFlagged, OnlyFlagged

\* The select of run: the end of the loop, and a change of the network.
LEMMA Selecting ==
  ASSUME IInv, NEW s \in Sessions, LoopExit(s) \/ TakeChanged(s)
  PROVE  IInv'
<1> DEFINE l == loop[s]
<1>1. /\ l \in LoopType /\ LoopIsSound(l) /\ (UNCHANGED published => PublishedOK')
      /\ running /\ l.pc # "none" => s = ctrl /\ OnlyFlagged(l)
  BY LoopFacts
<1>2. CASE LoopExit(s)
  <2> DEFINE m == [l EXCEPT !.pc = "done", !.timer = FALSE]
  <2>1. /\ l.pc = "select" /\ StepLoop(s, m) /\ OnlyLoop /\ UNCHANGED published
    BY <1>2 DEF LoopExit
  <2>2. m \in LoopType /\ m.net = l.net
    BY <1>1, Zenon DEF LoopType
  <2>3. LoopIsSound(m)
    BY <1>1, <2>1 DEF LoopIsSound, LoopType, NextFamily
  <2>4. running => OnlyFlagged(m)
    BY <1>1, <2>1 DEF OnlyFlagged, LoopType
  <2> QED
    BY <1>1, <2>1, <2>2, <2>3, <2>4, LoopStep, Zenon
<1>3. CASE TakeChanged(s)
  <2> DEFINE m == [l EXCEPT !.changed = FALSE, !.timer = TRUE, !.client = "none",
                     !.evidence = Reset]
  <2>1. /\ l.pc = "select" /\ StepLoop(s, m) /\ OnlyLoop /\ UNCHANGED published
    BY <1>3 DEF TakeChanged
  <2>2. Reset \in [Peers -> {"none", "new", "old"}]
    BY DEF Reset
  <2>3. m \in LoopType /\ m.net = l.net /\ m.pc = l.pc /\ m.cycle = l.cycle /\ m.data = l.data
    BY <1>1, <2>2 DEF LoopType
  <2>4. LoopIsSound(m)
    BY <1>1, <2>1, <2>3 DEF LoopIsSound
  <2>5. running => OnlyFlagged(m)
    <3> SUFFICES ASSUME running PROVE OnlyFlagged(m)
      OBVIOUS
    <3>1. HasHealth
      BY MobileAssumption DEF IInv, NodeIsSound, HasHealth
    <3>2. \A p \in Peers : Reset[p] = "none"
      BY <3>1 DEF Reset
    <3>3. m.client = "none" /\ m.evidence = Reset
      BY <1>1 DEF LoopType
    <3> QED
      BY <3>2, <3>3 DEF OnlyFlagged
  <2> QED
    BY <1>1, <2>1, <2>3, <2>4, <2>5, LoopStep
<1> QED
  BY <1>2, <1>3
\* Only the two families are ever asked for.
LEMMA WantedFamilies == Wanted(Protocol) \in SUBSET Families
BY DEF Wanted, Families

\* A cycle starts with nothing discovered.
LEMMA Starting ==
  ASSUME IInv, NEW s \in Sessions, NEW loaded \in BOOLEAN, StartCycle(s, loaded)
  PROVE  IInv'
<1> DEFINE l == loop[s]
           h == CycleHead(l, loaded)
           m == IF ~l.net.online THEN [l EXCEPT !.timer = FALSE]
                ELSE [h EXCEPT !.timer = FALSE, !.cycle = l.ctx]
<1>1. /\ l \in LoopType /\ LoopIsSound(l) /\ (UNCHANGED published => PublishedOK')
      /\ running /\ l.pc # "none" => s = ctrl /\ OnlyFlagged(l)
  BY LoopFacts
<1>2. l.pc = "select" /\ StepLoop(s, m) /\ OnlyLoop /\ UNCHANGED published
  BY DEF StartCycle
<1>3. /\ h \in LoopType /\ h.net = l.net /\ h.data = l.data /\ h.evidence = l.evidence
      /\ h.changed = l.changed /\ h.pc \in {"end", "discover"}
      /\ h.client = "old" => l.client = "old"
  <2> DEFINE c == IF l.client = "none" THEN LoadPlugins(loaded) ELSE l.client
  <2>1. c \in {"none", "fresh", "old"} /\ (c = "old" => l.client = "old")
    BY <1>1 DEF LoadPlugins, LoopType
  <2>2. h = [l EXCEPT !.client = c, !.todo = Wanted(Protocol),
                      !.pc = IF c = "none" THEN "end" ELSE "discover"]
    BY DEF CycleHead
  <2> HIDE DEF c
  <2> QED
    BY <1>1, <2>1, <2>2, WantedFamilies, ZenonT(60) DEF LoopType
<1>4. /\ m \in LoopType /\ m.net = l.net /\ m.data = l.data /\ m.evidence = l.evidence
      /\ m.changed = l.changed /\ m.pc \in {"select", "end", "discover"}
      /\ m.client = "old" => l.client = "old"
  <2> HIDE DEF h
  <2>1. CASE ~l.net.online
    BY <1>1, <1>2, <2>1 DEF LoopType
  <2>2. CASE l.net.online
    BY <1>1, <1>3, <2>2, ZenonT(60) DEF LoopType
  <2> QED
    BY <2>1, <2>2
<1> HIDE DEF m
<1>5. LoopIsSound(m)
  BY <1>1, <1>2, <1>4 DEF LoopIsSound
<1>6. running => OnlyFlagged(m)
  BY <1>1, <1>2, <1>4 DEF OnlyFlagged
<1> QED
  BY <1>1, <1>2, <1>4, <1>5, <1>6, LoopStep

\* The result for one family enters the record of a cycle that is still live only
\* if the network has the family.
LEMMA ResolvedSound ==
  ASSUME IInv, NEW s \in Sessions, NEW e \in Endpoints,
         loop[s].pc \in {"discover", "probe"},
         e # None => loop[s].pc = "probe",
         StepLoop(s, Resolved(loop[s], e)), OnlyLoop, UNCHANGED published
  PROVE  IInv'
<1> DEFINE l == loop[s]
           m == Resolved(l, e)
           n == NextFamily(l)
<1>1. /\ l \in LoopType /\ LoopIsSound(l) /\ (UNCHANGED published => PublishedOK')
      /\ running /\ l.pc # "none" => s = ctrl /\ OnlyFlagged(l)
  BY LoopFacts
<1>2. n \in Families
  BY DEF NextFamily, Families
<1>3. /\ m \in LoopType /\ m.net = l.net /\ m.pc = "discover" /\ m.cycle = l.cycle
      /\ m.client = l.client /\ m.evidence = l.evidence /\ m.changed = l.changed
      /\ m.data = [l.data EXCEPT ![n] = e]
  BY <1>1, <1>2, Zenon DEF LoopType, Resolved, Endpoints
<1>4. ASSUME m.cycle = "live", NEW f \in Families, m.data[f] # None PROVE f \in m.net.families
  <2>1. CASE f = n
    <3>1. e # None
      BY <1>1, <1>3, <1>4, <2>1 DEF LoopType
    <3> QED
      BY <1>1, <1>3, <1>4, <2>1, <3>1 DEF LoopIsSound
  <2>2. CASE f # n
    <3>1. l.data[f] # None
      BY <1>1, <1>3, <1>4, <2>2 DEF LoopType
    <3> QED
      BY <1>1, <1>3, <1>4, <3>1 DEF LoopIsSound
  <2> QED
    BY <2>1, <2>2
<1> HIDE DEF m
<1>5. LoopIsSound(m)
  BY <1>3, <1>4 DEF LoopIsSound
<1>6. running => OnlyFlagged(m)
  BY <1>1, <1>3 DEF OnlyFlagged
<1> QED
  BY <1>1, <1>3, <1>5, <1>6, LoopStep DEF m

\* discoverFamily: the family must be there when the request is sent; a later change
\* cancels the cycle.
LEMMA Probing ==
  ASSUME IInv, NEW s \in Sessions,
         ProbeStart(s) \/ Dispatch(s) \/ ProbeAnswer(s) \/ ProbeFails(s)
  PROVE  IInv'
<1> DEFINE l == loop[s]
<1>1. /\ l \in LoopType /\ LoopIsSound(l) /\ (UNCHANGED published => PublishedOK')
      /\ running /\ l.pc # "none" => s = ctrl /\ OnlyFlagged(l)
  BY LoopFacts
<1>2. None \in Endpoints /\ Current \in Endpoints /\ l.reply \in Endpoints
  BY <1>1 DEF Endpoints, LoopType
<1>3. CASE ProbeAnswer(s) \/ ProbeFails(s)
  BY <1>2, <1>3, ResolvedSound DEF ProbeAnswer, ProbeFails
<1>4. CASE ProbeStart(s) /\ (~l.net.online \/ NextFamily(l) \notin l.net.families \/ ~sock[s])
  BY <1>2, <1>4, ResolvedSound DEF ProbeStart
<1>5. CASE ProbeStart(s) /\ ~(~l.net.online \/ NextFamily(l) \notin l.net.families \/ ~sock[s])
  <2> DEFINE m == [l EXCEPT !.pc = "probe"]
  <2>1. /\ l.pc = "discover" /\ NextFamily(l) \in l.net.families
        /\ StepLoop(s, m) /\ OnlyLoop /\ UNCHANGED published
    BY <1>5 DEF ProbeStart
  <2>2. m \in LoopType /\ m.net = l.net /\ NextFamily(m) = NextFamily(l)
    BY <1>1 DEF LoopType, NextFamily
  <2>3. LoopIsSound(m)
    BY <1>1, <2>1, <2>2 DEF LoopIsSound, LoopType
  <2>4. running => OnlyFlagged(m)
    BY <1>1, <2>1 DEF OnlyFlagged, LoopType
  <2> QED
    BY <1>1, <2>1, <2>2, <2>3, <2>4, LoopStep, Zenon
<1>6. CASE Dispatch(s)
  <2> DEFINE m == [l EXCEPT !.reply = Current]
  <2>1. l.pc = "probe" /\ StepLoop(s, m) /\ OnlyLoop /\ UNCHANGED published
    BY <1>6 DEF Dispatch
  <2>2. m \in LoopType /\ m.net = l.net /\ NextFamily(m) = NextFamily(l)
    BY <1>1, <1>2 DEF LoopType, NextFamily
  <2>3. LoopIsSound(m)
    BY <1>1, <2>1, <2>2 DEF LoopIsSound, LoopType
  <2>4. running => OnlyFlagged(m)
    BY <1>1, <2>1 DEF OnlyFlagged, LoopType
  <2> QED
    BY <1>1, <2>1, <2>2, <2>3, <2>4, LoopStep
<1> QED
  BY <1>3, <1>4, <1>5, <1>6
\* Publishing, and handing over to establish.
LEMMA Publishing ==
  ASSUME IInv, NEW s \in Sessions,
         \/ Discovered(s) \/ Sample(s)
         \/ \E p \in Peers : Publish(s, p) \/ PublishCutOff(s, p) \/ PublishFails(s, p)
  PROVE  IInv'
<1> DEFINE l == loop[s]
<1>1. /\ l \in LoopType /\ LoopIsSound(l) /\ (UNCHANGED published => PublishedOK')
      /\ running /\ l.pc # "none" => s = ctrl /\ OnlyFlagged(l)
  BY LoopFacts
<1>2. CASE Discovered(s)
  <2> DEFINE left == IF DiscoverySucceeds(Protocol, l.data) /\ Encodable(l.data) THEN Peers ELSE {}
             m == [l EXCEPT !.pc = "publish", !.left = left]
  <2>1. l.pc = "discover" /\ StepLoop(s, m) /\ OnlyLoop /\ UNCHANGED published
    BY <1>2 DEF Discovered
  <2>2. left \in SUBSET Peers
    OBVIOUS
  <2> HIDE DEF left
  <2>3. m \in LoopType /\ m.net = l.net
    BY <1>1, <2>2 DEF LoopType
  <2>4. LoopIsSound(m)
    BY <1>1, <2>1 DEF LoopIsSound, LoopType
  <2>5. running => OnlyFlagged(m)
    BY <1>1, <2>1 DEF OnlyFlagged, LoopType
  <2> QED
    BY <1>1, <2>1, <2>3, <2>4, <2>5, LoopStep, Zenon
<1>3. ASSUME NEW p \in Peers, Publish(s, p) \/ PublishCutOff(s, p) \/ PublishFails(s, p) PROVE IInv'
  <2> DEFINE m == [l EXCEPT !.left = @ \ {p}]
  <2>1. l.pc = "publish" /\ StepLoop(s, m) /\ OnlyLoop
    BY <1>3 DEF Publish, PublishCutOff, PublishFails
  <2>2. PublishedOK'
    <3>1. store \in [Peers -> Endpoints] /\ sent \in [Peers -> Endpoints]
      BY DEF IInv, TypeOK, PublishedOK
    <3>2. /\ store' \in {store, [store EXCEPT ![p] = Freshness(l.data)]}
          /\ sent' \in {sent, [sent EXCEPT ![p] = Freshness(l.data)]}
      BY <1>3 DEF Publish, PublishCutOff, PublishFails, published
    <3>3. Freshness(l.data) \in Endpoints
      BY DEF Freshness, Endpoints
    <3> QED
      BY <3>1, <3>2, <3>3 DEF PublishedOK
  <2>3. m \in LoopType /\ m.net = l.net
    BY <1>1 DEF LoopType
  <2>4. LoopIsSound(m)
    BY <1>1, <2>1 DEF LoopIsSound, LoopType
  <2>5. running => OnlyFlagged(m)
    BY <1>1, <2>1 DEF OnlyFlagged, LoopType
  <2> QED
    BY <2>1, <2>2, <2>3, <2>4, <2>5, LoopStep, Zenon
<1>4. CASE Sample(s)
  <2> DEFINE m == IF HasHealth
                  THEN [l EXCEPT !.pc = "establish", !.data = Empty,
                          !.evidence = [p \in Peers |-> "none"],
                          !.left = {p \in Peers : l.evidence[p] = "none"}]
                  ELSE [l EXCEPT !.pc = "end", !.data = Empty]
  <2>1. l.pc = "publish" /\ StepLoop(s, m) /\ OnlyLoop /\ UNCHANGED published
    BY <1>4 DEF Sample
  <2>2. Empty \in [Families -> Endpoints] /\ \A f \in Families : Empty[f] = None
    BY DEF Empty, Endpoints
  <2>3. /\ m \in LoopType /\ m.net = l.net /\ m.data = Empty /\ m.pc \in {"establish", "end"}
        /\ m.client = l.client /\ m.changed = l.changed
        /\ \A p \in Peers : m.evidence[p] = "old" => l.evidence[p] = "old"
    <3>1. CASE HasHealth
      BY <1>1, <2>2, <3>1, Zenon DEF LoopType
    <3>2. CASE ~HasHealth
      BY <1>1, <2>2, <3>2 DEF LoopType
    <3> QED
      BY <3>1, <3>2
  <2> HIDE DEF m
  <2>4. LoopIsSound(m)
    BY <2>2, <2>3 DEF LoopIsSound
  <2>5. running => OnlyFlagged(m)
    BY <1>1, <2>1, <2>3 DEF OnlyFlagged
  <2> QED
    BY <1>1, <2>1, <2>3, <2>4, <2>5, LoopStep
<1> QED
  BY <1>2, <1>3, <1>4

\* The end of a cycle, and what happens to a loop at any time.
LEMMA Ending ==
  ASSUME IInv, NEW s \in Sessions,
         \/ EndCycle(s) \/ CycleTimeout(s)
         \/ \E p \in Peers : EstablishPeer(s, p) \/ Progress(s, p)
  PROVE  IInv'
<1> DEFINE l == loop[s]
<1>1. /\ l \in LoopType /\ LoopIsSound(l) /\ (UNCHANGED published => PublishedOK')
      /\ running /\ l.pc # "none" => s = ctrl /\ OnlyFlagged(l)
  BY LoopFacts
<1>2. CASE EndCycle(s)
  <2> DEFINE m == [l EXCEPT !.pc = "select", !.cycle = "none", !.timer = TRUE, !.todo = {}]
  <2>1. l.pc \in {"end", "establish"} /\ StepLoop(s, m) /\ OnlyLoop /\ UNCHANGED published
    BY <1>2 DEF EndCycle
  <2>2. m \in LoopType /\ m.net = l.net
    BY <1>1 DEF LoopType
  <2>3. LoopIsSound(m)
    BY <1>1, <2>1 DEF LoopIsSound, LoopType
  <2>4. running => OnlyFlagged(m)
    BY <1>1, <2>1 DEF OnlyFlagged, LoopType
  <2> QED
    BY <1>1, <2>1, <2>2, <2>3, <2>4, LoopStep
<1>3. ASSUME NEW p \in Peers, EstablishPeer(s, p) PROVE IInv'
  <2> DEFINE m == [l EXCEPT !.left = @ \ {p}]
  <2>1. l.pc = "establish" /\ StepLoop(s, m) /\ OnlyLoop /\ UNCHANGED published
    BY <1>3 DEF EstablishPeer
  <2>2. m \in LoopType /\ m.net = l.net
    BY <1>1 DEF LoopType
  <2>3. LoopIsSound(m)
    BY <1>1, <2>1 DEF LoopIsSound, LoopType
  <2>4. running => OnlyFlagged(m)
    BY <1>1, <2>1 DEF OnlyFlagged, LoopType
  <2> QED
    BY <1>1, <2>1, <2>2, <2>3, <2>4, LoopStep
<1>4. CASE CycleTimeout(s)
  <2> DEFINE m == [l EXCEPT !.cycle = "cancelled"]
  <2>1. StepLoop(s, m) /\ OnlyLoop /\ UNCHANGED published
    BY <1>4 DEF CycleTimeout
  <2>2. m \in LoopType /\ m.net = l.net /\ m.pc = l.pc
    BY <1>1 DEF LoopType
  <2>3. LoopIsSound(m)
    BY <1>1 DEF LoopIsSound, LoopType
  <2>4. s = ctrl /\ running => OnlyFlagged(m)
    BY <1>1 DEF IInv, StaleStateIsFlagged, OnlyFlagged, LoopType
  <2> QED
    BY <1>1, <2>1, <2>2, <2>3, <2>4, LoopStep
<1>5. ASSUME NEW p \in Peers, Progress(s, p) PROVE IInv'
  <2> DEFINE m == [l EXCEPT !.evidence[p] = "new"]
  <2>1. /\ sock[s] /\ StepLoop(s, m) /\ OnlyLoop /\ UNCHANGED published
    BY <1>5 DEF Progress
  <2>2. m \in LoopType /\ m.net = l.net /\ m.pc = l.pc
    BY <1>1 DEF LoopType
  <2>3. LoopIsSound(m)
    BY <1>1 DEF LoopIsSound, LoopType, NextFamily
  <2>4. s = ctrl /\ running => OnlyFlagged(m)
    BY <1>1 DEF IInv, StaleStateIsFlagged, OnlyFlagged, LoopType
  <2> QED
    BY <1>1, <2>1, <2>2, <2>3, <2>4, LoopStep, Zenon
<1> QED
  BY <1>2, <1>3, <1>4, <1>5
-----------------------------------------------------------------------------
(* Steps of the node.                                                       *)

\* Closing the sockets ages endpoints and changes nothing else about a loop.
LEMMA AgeLoopSound ==
  ASSUME NEW l \in LoopType, LoopIsSound(l)
  PROVE  /\ AgeLoop(l) \in LoopType /\ LoopIsSound(AgeLoop(l))
         /\ AgeLoop(l).pc = l.pc /\ AgeLoop(l).net = l.net /\ AgeLoop(l).client = l.client
         /\ AgeLoop(l).evidence = l.evidence /\ AgeLoop(l).changed = l.changed
<1> DEFINE m == AgeLoop(l)
           AgeRecord(data) == [f \in Families |-> Age(data[f])]
<1>1. \A e \in Endpoints : Age(e) \in Endpoints /\ (Age(e) = None <=> e = None)
  BY MobileAssumption DEF Age, Endpoints
<1>2. l.data \in [Families -> Endpoints] /\ l.reply \in Endpoints
  BY DEF LoopType
<1>3. /\ AgeRecord(l.data) \in [Families -> Endpoints]
      /\ \A f \in Families : AgeRecord(l.data)[f] = None <=> l.data[f] = None
  BY <1>1, <1>2
<1>4. m = [l EXCEPT !.data = AgeRecord(l.data), !.reply = Age(l.reply)]
  BY DEF AgeLoop, LoopType
<1>5. /\ m \in LoopType /\ m.pc = l.pc /\ m.net = l.net /\ m.client = l.client
      /\ m.evidence = l.evidence /\ m.changed = l.changed /\ m.cycle = l.cycle
      /\ m.todo = l.todo /\ m.data = AgeRecord(l.data)
  BY <1>1, <1>2, <1>3, <1>4, ZenonT(60) DEF LoopType
<1>6. LoopIsSound(m)
  BY <1>3, <1>5 DEF LoopIsSound, NextFamily
<1> QED
  BY <1>5, <1>6

\* The same for the loops and records that Rebind changes together.
LEMMA RebindSound ==
  ASSUME IInv, NEW s \in Sessions, NEW open \in BOOLEAN, NEW ls \in [Sessions -> LoopType],
         \A r \in Sessions : LoopIsSound(ls[r]), Rebind(s, open, ls)
  PROVE  /\ loop' \in [Sessions -> LoopType] /\ PublishedOK'
         /\ sock' \in [Sessions -> BOOLEAN]
         /\ sock'[s] = open /\ \A r \in Sessions : r # s => sock'[r] = sock[r]
         /\ LoopsAreSound'
         /\ \A r \in Sessions :
              /\ loop'[r].pc = ls[r].pc /\ loop'[r].net = ls[r].net
              /\ loop'[r].client = ls[r].client /\ loop'[r].evidence = ls[r].evidence
              /\ loop'[r].changed = ls[r].changed
<1>1. loop' = [ls EXCEPT ![s] = AgeLoop(ls[s])] /\ sock' = [sock EXCEPT ![s] = open]
      /\ store' = [p \in Peers |-> Age(store[p])]
      /\ sent' = [p \in Peers |-> Age(sent[p])]
  BY DEF Rebind
<1>2. /\ AgeLoop(ls[s]) \in LoopType /\ LoopIsSound(AgeLoop(ls[s]))
      /\ AgeLoop(ls[s]).pc = ls[s].pc /\ AgeLoop(ls[s]).net = ls[s].net
      /\ AgeLoop(ls[s]).client = ls[s].client
      /\ AgeLoop(ls[s]).evidence = ls[s].evidence /\ AgeLoop(ls[s]).changed = ls[s].changed
  BY AgeLoopSound
<1>3. loop' \in [Sessions -> LoopType] /\ loop'[s] = AgeLoop(ls[s])
      /\ \A r \in Sessions : r # s => loop'[r] = ls[r]
  BY <1>1, <1>2
<1>4. PublishedOK'
  <2>1. \A e \in Endpoints : Age(e) \in Endpoints
    BY DEF Age, Endpoints
  <2>2. store \in [Peers -> Endpoints] /\ sent \in [Peers -> Endpoints]
    BY DEF IInv, TypeOK, PublishedOK
  <2> QED
    BY <1>1, <2>1, <2>2 DEF PublishedOK
<1>5. /\ sock' \in [Sessions -> BOOLEAN]
      /\ sock'[s] = open /\ \A r \in Sessions : r # s => sock'[r] = sock[r]
  BY <1>1 DEF IInv, TypeOK
<1>6. LoopsAreSound'
  <2> SUFFICES ASSUME NEW r \in Sessions PROVE LoopIsSound(loop'[r])
    BY DEF LoopsAreSound, LoopIsSound, NextFamily
  <2> QED
    BY <1>2, <1>3
<1> QED
  BY <1>2, <1>3, <1>4, <1>5, <1>6

\* A new controller has nothing yet, nor has the place of one that is gone.
LEMMA NewLoopSound ==
  ASSUME NEW net \in Underlay
  PROVE  /\ NewLoop(net) \in LoopType /\ LoopIsSound(NewLoop(net))
         /\ NewLoop(net).net = net /\ OnlyFlagged(NewLoop(net))
         /\ NoLoop \in LoopType /\ LoopIsSound(NoLoop) /\ NoLoop.pc = "none"
<1>1. Empty \in [Families -> Endpoints] /\ \A f \in Families : Empty[f] = None
  BY DEF Empty, Endpoints
<1>2. Offline \in Underlay /\ None \in Endpoints
  BY DEF Offline, Underlay, Endpoints
<1>3. ASSUME NEW n \in Underlay
      PROVE  /\ NewLoop(n) \in LoopType /\ NewLoop(n).net = n /\ NewLoop(n).data = Empty
             /\ NewLoop(n).pc = "select" /\ NewLoop(n).client = "none"
             /\ NewLoop(n).cycle = "none" /\ \A p \in Peers : NewLoop(n).evidence[p] = "none"
  BY <1>1, <1>2, <1>3 DEF NewLoop, LoopType
<1>4. LoopIsSound(NewLoop(net)) /\ OnlyFlagged(NewLoop(net))
  BY <1>1, <1>3 DEF LoopIsSound, OnlyFlagged
<1>5. /\ NoLoop \in LoopType /\ NoLoop.pc = "none" /\ NoLoop.data = Empty
      /\ NoLoop.cycle = "none"
  <2>1. NewLoop(Offline) \in LoopType /\ NewLoop(Offline).data = Empty
        /\ NewLoop(Offline).cycle = "none"
    BY <1>2, <1>3
  <2> QED
    BY <2>1 DEF NoLoop, LoopType
<1>6. LoopIsSound(NoLoop)
  BY <1>1, <1>5 DEF LoopIsSound
<1> QED
  BY <1>3, <1>4, <1>5, <1>6
\* Start makes a session out of one of which nothing is left.
LEMMA Starts == ASSUME IInv, NEW s \in Sessions, Start(s) PROVE IInv'
<1> DEFINE l == NewLoop(network)
<1>1. /\ l \in LoopType /\ LoopIsSound(l) /\ l.net = network /\ OnlyFlagged(l)
  BY NewLoopSound DEF IInv, TypeOK
<1>2. /\ call = "none" /\ ~running /\ Unused(s)
      /\ running' = TRUE /\ dev' = s /\ ctrl' = s
      /\ device' = [device EXCEPT ![s] = "open"]
      /\ sock' = [sock EXCEPT ![s] = network.online]
      /\ loop' = [loop EXCEPT ![s] = l]
      /\ UNCHANGED <<call, pending, stops, network, store, sent>>
  BY DEF Start
<1> HIDE DEF l
<1>3. /\ network.online \in BOOLEAN /\ loop \in [Sessions -> LoopType]
      /\ device \in [Sessions -> {"none", "open", "closed"}] /\ sock \in [Sessions -> BOOLEAN]
  BY DEF IInv, TypeOK, Underlay
<1>4. /\ loop'[s] = l /\ sock'[s] = network.online /\ device'[s] = "open"
      /\ \A r \in Sessions :
           r # s => loop'[r] = loop[r] /\ sock'[r] = sock[r] /\ device'[r] = device[r]
  BY <1>2, <1>3
<1>5. TypeOK'
  <2>1. /\ loop' \in [Sessions -> LoopType] /\ sock' \in [Sessions -> BOOLEAN]
        /\ device' \in [Sessions -> {"none", "open", "closed"}]
    BY <1>1, <1>2, <1>3
  <2> QED
    BY <1>2, <2>1 DEF IInv, TypeOK, PublishedOK
<1>6. NodeIsSound'
  BY <1>2 DEF NodeIsSound
<1>7. SessionsAreSound'
  <2>1. dev = None
    BY <1>2 DEF IInv, NodeIsSound
  <2>2. \A r \in Sessions : r # dev
    BY <2>1, MobileAssumption
  <2> QED
    BY <1>2, <1>4, <2>2 DEF IInv, SessionsAreSound
<1>8. UnderlayIsSound'
  BY <1>1, <1>2, <1>4 DEF UnderlayIsSound
<1>9. LoopsAreSound'
  <2> SUFFICES ASSUME NEW r \in Sessions PROVE LoopIsSound(loop'[r])
    BY DEF LoopsAreSound, LoopIsSound, NextFamily
  <2> QED
    BY <1>1, <1>4 DEF IInv, LoopsAreSound
<1>10. StaleStateIsFlagged'
  BY <1>1, <1>2, <1>4 DEF StaleStateIsFlagged, OnlyFlagged
<1> QED
  BY <1>5, <1>6, <1>7, <1>8, <1>9, <1>10 DEF IInv

\* The steps of a call that touch neither a device nor a loop.
LEMMA CallBegins ==
  ASSUME IInv,
         \/ \E state \in Underlays, rebind \in BOOLEAN : SetUnderlay(state, rebind)
         \/ \E background \in BOOLEAN : StopBegin(background)
  PROVE  IInv'
<1>1. call = "none" /\ UNCHANGED <<dev, device, sock, loop, store, sent>>
  BY DEF SetUnderlay, StopBegin
<1>2. SessionsAreSound' /\ LoopsAreSound'
  <2>1. SessionsAreSound'
    BY <1>1 DEF IInv, SessionsAreSound
  <2>2. LoopsAreSound'
    BY <1>1 DEF IInv, LoopsAreSound, LoopIsSound, NextFamily
  <2> QED
    BY <2>1, <2>2
<1>3. ASSUME NEW state \in Underlays, NEW rebind \in BOOLEAN, SetUnderlay(state, rebind)
      PROVE  IInv'
  <2>1. /\ pending' = [previous |-> network.online, rebind |-> rebind, ctrl |-> ctrl]
        /\ network' = state /\ call' = IF ctrl # None THEN "changed" ELSE "device"
        /\ UNCHANGED <<stops, running, ctrl>>
    BY <1>3 DEF SetUnderlay
  <2>2. network.online \in BOOLEAN /\ state \in Underlay
    BY MobileAssumption DEF IInv, TypeOK, Underlay
  <2>3. TypeOK'
    BY <1>1, <2>1, <2>2 DEF IInv, TypeOK, PublishedOK, Calls
  <2>4. running <=> ctrl # None
    BY MobileAssumption DEF IInv, NodeIsSound, TypeOK
  <2>5. NodeIsSound'
    BY <1>1, <2>1, <2>4 DEF IInv, NodeIsSound
  <2>6. UnderlayIsSound'
    <3> SUFFICES ASSUME running PROVE UnderlayIsSound'
      BY <2>1 DEF UnderlayIsSound
    <3>1. call' = "changed" /\ pending'.previous = network.online
      BY <2>1, <2>4
    <3> QED
      BY <1>1, <2>1, <3>1 DEF IInv, UnderlayIsSound
  <2>7. StaleStateIsFlagged'
    BY <1>1, <2>1 DEF IInv, StaleStateIsFlagged
  <2> QED
    BY <1>2, <2>3, <2>5, <2>6, <2>7 DEF IInv
<1>4. ASSUME NEW background \in BOOLEAN, StopBegin(background) PROVE IInv'
  <2>1. stops' \in 0 .. MaxStops /\ UNCHANGED network
    BY <1>4, MobileAssumption DEF StopBegin, IInv, TypeOK
  <2>2. CASE running
    <3>1. /\ call' = "cancel" /\ pending' = [NoCall EXCEPT !.ctrl = ctrl]
          /\ running' = FALSE /\ ctrl' = None
      BY <1>4, <2>2 DEF StopBegin
    <3>2. TypeOK'
      BY <1>1, <2>1, <3>1 DEF IInv, TypeOK, PublishedOK, Calls, NoCall
    <3>3. NodeIsSound'
      BY <1>1, <2>2, <3>1 DEF IInv, NodeIsSound, NoCall
    <3> QED
      BY <1>2, <3>1, <3>2, <3>3 DEF IInv, UnderlayIsSound, StaleStateIsFlagged
  <2>3. CASE ~running
    <3>1. UNCHANGED <<call, pending, running, ctrl>>
      BY <1>4, <2>3 DEF StopBegin
    <3>2. TypeOK' /\ NodeIsSound'
      BY <1>1, <2>1, <3>1 DEF IInv, TypeOK, PublishedOK, NodeIsSound
    <3> QED
      BY <1>2, <2>3, <3>1, <3>2 DEF IInv, UnderlayIsSound, StaleStateIsFlagged
  <2> QED
    BY <2>2, <2>3
<1> QED
  BY <1>3, <1>4
\* A step of a call that changes only the loop of the call's controller.
LEMMA CallLoopStep ==
  ASSUME IInv, call \in {"changed", "signal", "cancel"}, NEW l \in LoopType, LoopIsSound(l),
         l.pc = loop[pending.ctrl].pc, loop' = [loop EXCEPT ![pending.ctrl] = l],
         call' = IF call = "changed" THEN "signal" ELSE IF call = "signal" THEN "device" ELSE "join",
         UNCHANGED <<pending, stops, network, running, dev, ctrl, device, sock, store, sent>>,
         call = "changed" => l.net = network,
         call = "signal" => l.net = loop[pending.ctrl].net /\ l.changed
  PROVE  IInv'
<1> DEFINE s == pending.ctrl
<1>1. s \in Sessions /\ s = dev /\ (call # "cancel" => running /\ ctrl = s) /\ (call = "cancel" => ~running)
  BY DEF IInv, NodeIsSound
<1>2. loop' \in [Sessions -> LoopType] /\ loop'[s] = l
      /\ \A r \in Sessions : r # s => loop'[r] = loop[r]
  BY <1>1 DEF IInv, TypeOK
<1>3. TypeOK'
  BY <1>2 DEF IInv, TypeOK, PublishedOK, Calls
<1>4. NodeIsSound'
  BY <1>1 DEF IInv, NodeIsSound
<1>5. SessionsAreSound'
  BY <1>2 DEF IInv, SessionsAreSound
<1>6. UnderlayIsSound'
  <2> SUFFICES ASSUME running PROVE UnderlayIsSound'
    BY DEF UnderlayIsSound
  <2>1. /\ ctrl = s /\ dev = s /\ call' \in {"signal", "device"} /\ call \in {"changed", "signal"}
    BY <1>1
  <2>2. loop'[ctrl].net = network
    BY <1>2, <2>1 DEF IInv, UnderlayIsSound
  <2> QED
    BY <2>1, <2>2 DEF IInv, UnderlayIsSound
<1>7. LoopsAreSound'
  <2> SUFFICES ASSUME NEW r \in Sessions PROVE LoopIsSound(loop'[r])
    BY DEF LoopsAreSound, LoopIsSound, NextFamily
  <2> QED
    BY <1>2, Zenon DEF IInv, LoopsAreSound
<1>8. StaleStateIsFlagged'
  BY <1>1, <1>2 DEF StaleStateIsFlagged
<1> QED
  BY <1>3, <1>4, <1>5, <1>6, <1>7, <1>8 DEF IInv

\* networkChanged cancels the cycle before the network of the loop is another;
\* Signal and StopCancel need less.
LEMMA CallContinues ==
  ASSUME IInv, NetworkChanged \/ Signal \/ StopCancel
  PROVE  IInv'
<1> DEFINE s == pending.ctrl
           l == loop[s]
<1>1. s \in Sessions /\ l \in LoopType /\ LoopIsSound(l) /\ network \in Underlay
  BY DEF NetworkChanged, Signal, StopCancel, IInv, NodeIsSound, TypeOK, LoopsAreSound
<1>2. CASE NetworkChanged
  <2> DEFINE c == IF l.client = "none" THEN "none" ELSE "old"
             ev == [p \in Peers |-> IF l.evidence[p] = "none" THEN "none" ELSE "old"]
             n == MovedTo(l, network)
             m == CancelCycle(n)
  <2>1. c \in {"none", "old"} /\ ev \in [Peers -> {"none", "old"}]
        /\ n = [l EXCEPT !.net = network, !.client = c, !.evidence = ev]
    BY <1>1 DEF MovedTo, LoopType
  <2>2. n \in LoopType /\ n.pc = l.pc /\ n.net = network /\ n.data = l.data
    <3> HIDE DEF c, ev, n
    <3> QED
      BY <1>1, <2>1, ZenonT(60) DEF LoopType
  <2> HIDE DEF n
  <2>3. /\ m \in LoopType /\ m.pc = l.pc /\ m.net = network /\ m.data = l.data
        /\ m.cycle # "live"
    BY <2>2 DEF LoopType, CancelCycle
  <2>4. LoopIsSound(m)
    BY <1>1, <2>3 DEF LoopIsSound
  <2> QED
    BY <1>2, <2>3, <2>4, CallLoopStep, Zenon DEF NetworkChanged, n
<1>3. CASE Signal
  <2> DEFINE m == [l EXCEPT !.changed = TRUE]
  <2>1. m \in LoopType /\ m.pc = l.pc /\ m.net = l.net /\ m.changed
    BY <1>1 DEF LoopType
  <2>2. LoopIsSound(m)
    BY <1>1 DEF LoopIsSound, LoopType, NextFamily
  <2> QED
    BY <1>3, <2>1, <2>2, CallLoopStep DEF Signal
<1>4. CASE StopCancel
  <2> DEFINE m == CancelLoop(l)
  <2>1. m \in LoopType /\ m.pc = l.pc /\ m.net = l.net /\ m.data = l.data /\ m.cycle # "live"
    BY <1>1 DEF LoopType, CancelLoop, CancelCycle
  <2>2. LoopIsSound(m)
    BY <1>1, <2>1 DEF LoopIsSound
  <2> QED
    BY <1>4, <2>1, <2>2, CallLoopStep DEF StopCancel
<1> QED
  BY <1>2, <1>3, <1>4

\* The rest of SetUnderlay moves the sockets to the network, or finds them there.
LEMMA ApplySound == ASSUME IInv, ApplyUnderlay PROVE IInv'
<1>1. /\ call = "device" /\ call' = "none" /\ pending' = NoCall
      /\ UNCHANGED <<network, running, dev, ctrl>>
  BY DEF ApplyUnderlay
<1>2. NodeIsSound'
  BY <1>1 DEF IInv, NodeIsSound
<1>3. ASSUME stops' \in 0 .. MaxStops, device' \in [Sessions -> {"none", "open", "closed"}],
             sock' \in [Sessions -> BOOLEAN], loop' \in [Sessions -> LoopType],
             PublishedOK'
      PROVE  TypeOK'
  BY <1>1, <1>3 DEF IInv, TypeOK, Calls, NoCall
<1> DEFINE moves == ~network.online \/ ~pending.previous \/ pending.rebind
<1>4. CASE dev # None /\ running /\ device[dev] = "open" /\ moves
  <2>1. dev \in Sessions /\ dev = ctrl /\ network.online \in BOOLEAN
        /\ loop \in [Sessions -> LoopType] /\ (\A r \in Sessions : LoopIsSound(loop[r]))
        /\ device \in [Sessions -> {"none", "open", "closed"}] /\ stops \in 0 .. MaxStops
    BY <1>4 DEF IInv, TypeOK, NodeIsSound, Underlay, LoopsAreSound
  <2>2. PICK open \in BOOLEAN :
          /\ Rebind(dev, open, loop)
          /\ \/ open = network.online /\ UNCHANGED <<stops, device>>
             \/ /\ open = FALSE /\ device' = [device EXCEPT ![dev] = "closed"]
                /\ stops < MaxStops /\ stops' = stops + 1
    BY <1>4, <2>1 DEF ApplyUnderlay, DeviceFails, CloseDevice
  <2>3. /\ loop' \in [Sessions -> LoopType] /\ PublishedOK'
        /\ sock' \in [Sessions -> BOOLEAN]
        /\ sock'[dev] = open /\ (\A r \in Sessions : r # dev => sock'[r] = sock[r])
        /\ LoopsAreSound'
        /\ \A r \in Sessions :
             /\ loop'[r].pc = loop[r].pc /\ loop'[r].net = loop[r].net
             /\ loop'[r].client = loop[r].client /\ loop'[r].evidence = loop[r].evidence
             /\ loop'[r].changed = loop[r].changed
    BY <2>1, <2>2, RebindSound
  <2>4. TypeOK'
    <3>1. stops' \in 0 .. MaxStops
      BY <2>1, <2>2, MobileAssumption
    <3> QED
      BY <1>3, <2>1, <2>2, <2>3, <3>1
  <2>5. /\ \A r \in Sessions : r # dev => device'[r] = device[r]
        /\ device'[dev] = "open" => open = network.online
        /\ device'[dev] # "open" => open = FALSE
    BY <1>4, <2>1, <2>2
  <2>6. SessionsAreSound'
    BY <1>1, <2>3, <2>5 DEF IInv, SessionsAreSound
  <2>7. UnderlayIsSound'
    BY <1>1, <2>1, <2>3, <2>5, Zenon DEF IInv, UnderlayIsSound
  <2>8. StaleStateIsFlagged'
    BY <1>1, <2>1, <2>3 DEF IInv, StaleStateIsFlagged
  <2> QED
    BY <1>2, <2>3, <2>4, <2>6, <2>7, <2>8 DEF IInv
<1>5. CASE ~(dev # None /\ running /\ device[dev] = "open" /\ moves)
  <2>1. UNCHANGED <<stops, device, sock, loop, store, sent>>
    BY <1>5 DEF ApplyUnderlay
  <2>2. TypeOK'
    BY <1>3, <2>1 DEF IInv, TypeOK, PublishedOK
  <2>3. SessionsAreSound' /\ LoopsAreSound'
    BY <1>1, <2>1 DEF IInv, SessionsAreSound, LoopsAreSound, LoopIsSound, NextFamily
  <2>4. UnderlayIsSound'
    <3> SUFFICES ASSUME running PROVE UnderlayIsSound'
      BY <1>1 DEF UnderlayIsSound
    <3>1. dev # None
      BY MobileAssumption DEF IInv, NodeIsSound
    <3>2. device[dev] = "open" => network.online = TRUE /\ pending.previous = TRUE
      BY <1>5, <3>1 DEF IInv, TypeOK, Underlay
    <3> QED
      BY <1>1, <2>1, <3>2, Zenon DEF IInv, UnderlayIsSound
  <2>5. StaleStateIsFlagged'
    BY <1>1, <2>1 DEF IInv, StaleStateIsFlagged
  <2> QED
    BY <1>2, <2>2, <2>3, <2>4, <2>5 DEF IInv
<1> QED
  BY <1>4, <1>5
\* Stop has joined the loop and closes the device.
LEMMA StopFinishSound == ASSUME IInv, StopFinish PROVE IInv'
<1> DEFINE ls == [loop EXCEPT ![pending.ctrl] = NoLoop]
<1>1. /\ call = "join" /\ call' = "none" /\ pending' = NoCall /\ dev' = None
      /\ device' = [device EXCEPT ![dev] = "closed"] /\ Rebind(dev, FALSE, ls)
      /\ UNCHANGED <<stops, network, running, ctrl>>
  BY Zenon DEF StopFinish, CloseDevice
<1>2. /\ ~running /\ dev \in Sessions /\ pending.ctrl = dev /\ ctrl = None
      /\ device \in [Sessions -> {"none", "open", "closed"}]
  BY <1>1 DEF IInv, NodeIsSound, TypeOK
<1>3. /\ ls \in [Sessions -> LoopType] /\ (\A r \in Sessions : LoopIsSound(ls[r]))
      /\ ls[dev].pc = "none" /\ \A r \in Sessions : r # dev => ls[r] = loop[r]
  <2>1. NoLoop \in LoopType /\ LoopIsSound(NoLoop) /\ NoLoop.pc = "none"
    BY NewLoopSound DEF IInv, TypeOK
  <2> QED
    BY <1>2, <2>1 DEF IInv, TypeOK, LoopsAreSound
<1> HIDE DEF ls
<1>4. /\ loop' \in [Sessions -> LoopType] /\ PublishedOK'
      /\ sock' \in [Sessions -> BOOLEAN]
      /\ sock'[dev] = FALSE /\ (\A r \in Sessions : r # dev => sock'[r] = sock[r])
      /\ LoopsAreSound'
      /\ \A r \in Sessions : loop'[r].pc = ls[r].pc
  BY <1>1, <1>2, <1>3, RebindSound, ZenonT(60)
<1>5. TypeOK'
  BY <1>1, <1>2, <1>4 DEF IInv, TypeOK, Calls, NoCall
<1>6. NodeIsSound'
  BY <1>1, <1>2 DEF NodeIsSound
<1>7. SessionsAreSound'
  BY <1>1, <1>2, <1>3, <1>4 DEF IInv, SessionsAreSound
<1> QED
  BY <1>1, <1>2, <1>4, <1>5, <1>6, <1>7 DEF IInv, UnderlayIsSound, StaleStateIsFlagged

\* Cancelling a controller changes its two contexts only.
LEMMA CancelLoopType ==
  ASSUME NEW l \in LoopType
  PROVE  LET m == CancelLoop(l)
         IN  /\ m \in LoopType /\ m.pc = l.pc /\ m.net = l.net /\ m.client = l.client
             /\ m.evidence = l.evidence /\ m.changed = l.changed /\ m.data = l.data
             /\ m.todo = l.todo /\ m.cycle # "live"
<1> DEFINE n == [l EXCEPT !.ctx = "cancelled"]
<1>1. /\ n \in LoopType /\ n.pc = l.pc /\ n.net = l.net /\ n.client = l.client
      /\ n.evidence = l.evidence /\ n.changed = l.changed /\ n.data = l.data
      /\ n.todo = l.todo
  BY DEF LoopType
<1>2. CancelLoop(l) = CancelCycle(n)
  BY DEF CancelLoop
<1> HIDE DEF n
<1> QED
  BY <1>1, <1>2 DEF CancelCycle, LoopType

\* SetPeerEndpoint fails inside a cycle, whatever call is under way.
LEMMA DeviceFailureSound ==
  ASSUME IInv, NEW s \in Sessions, NEW p \in Peers, SetPeerEndpointFails(s, p)
  PROVE  IInv'
<1> DEFINE cl(r) == IF r = ctrl THEN CancelLoop(loop[r]) ELSE loop[r]
           ls == [r \in Sessions |->
                    LET l == IF r = ctrl THEN CancelLoop(loop[r]) ELSE loop[r]
                    IN  IF r = s THEN [l EXCEPT !.left = @ \ {p}] ELSE l]
<1>1. /\ running /\ stops < MaxStops /\ stops' = stops + 1
      /\ device' = [device EXCEPT ![dev] = "closed"] /\ Rebind(dev, FALSE, ls)
      /\ UNCHANGED <<call, pending, network, running, dev, ctrl>>
  BY Zenon DEF SetPeerEndpointFails, DeviceFails, CloseDevice
<1>2. dev \in Sessions /\ dev = ctrl /\ stops' \in 0 .. MaxStops
      /\ device \in [Sessions -> {"none", "open", "closed"}]
  BY <1>1, MobileAssumption DEF IInv, NodeIsSound, TypeOK
<1>3. ASSUME NEW r \in Sessions
      PROVE  /\ ls[r] \in LoopType /\ LoopIsSound(ls[r])
             /\ ls[r].pc = loop[r].pc /\ ls[r].net = loop[r].net
             /\ ls[r].client = loop[r].client /\ ls[r].evidence = loop[r].evidence
             /\ ls[r].changed = loop[r].changed
  <2>1. loop[r] \in LoopType /\ LoopIsSound(loop[r])
    BY DEF IInv, TypeOK, LoopsAreSound
  <2>2. /\ cl(r) \in LoopType /\ cl(r).pc = loop[r].pc /\ cl(r).net = loop[r].net
        /\ cl(r).client = loop[r].client /\ cl(r).evidence = loop[r].evidence
        /\ cl(r).changed = loop[r].changed /\ cl(r).data = loop[r].data
        /\ cl(r).todo = loop[r].todo /\ (cl(r).cycle = "live" => loop[r].cycle = "live")
    <3>1. CASE r = ctrl
      BY <2>1, <3>1, CancelLoopType
    <3>2. CASE r # ctrl
      BY <2>1, <3>2
    <3> QED
      BY <3>1, <3>2, Zenon
  <2>3. ls[r] = IF r = s THEN [cl(r) EXCEPT !.left = cl(r).left \ {p}] ELSE cl(r)
    OBVIOUS
  <2> HIDE DEF ls, cl
  <2>4. /\ ls[r] \in LoopType /\ ls[r].pc = cl(r).pc /\ ls[r].net = cl(r).net
        /\ ls[r].client = cl(r).client /\ ls[r].evidence = cl(r).evidence
        /\ ls[r].changed = cl(r).changed /\ ls[r].data = cl(r).data
        /\ ls[r].todo = cl(r).todo /\ ls[r].cycle = cl(r).cycle
    <3>1. CASE r = s
      BY <2>2, <2>3, <3>1 DEF LoopType
    <3>2. CASE r # s
      BY <2>2, <2>3, <3>2, Zenon
    <3> QED
      BY <3>1, <3>2
  <2>5. LoopIsSound(ls[r])
    BY <2>1, <2>2, <2>4 DEF LoopIsSound, NextFamily
  <2> QED
    BY <2>2, <2>4, <2>5
<1>4. ls \in [Sessions -> LoopType]
  <2>1. ls = [r \in Sessions |-> ls[r]]
    OBVIOUS
  <2> HIDE DEF ls
  <2> QED
    BY <1>3, <2>1, Zenon
<1> HIDE DEF ls
<1>5. /\ loop' \in [Sessions -> LoopType] /\ PublishedOK'
      /\ sock' \in [Sessions -> BOOLEAN]
      /\ sock'[dev] = FALSE /\ (\A r \in Sessions : r # dev => sock'[r] = sock[r])
      /\ LoopsAreSound'
      /\ \A r \in Sessions :
           /\ loop'[r].pc = ls[r].pc /\ loop'[r].net = ls[r].net
           /\ loop'[r].client = ls[r].client /\ loop'[r].evidence = ls[r].evidence
           /\ loop'[r].changed = ls[r].changed
  BY <1>1, <1>2, <1>3, <1>4, RebindSound, ZenonT(60)
<1>6. TypeOK'
  BY <1>1, <1>2, <1>5, Zenon DEF IInv, TypeOK
<1>7. NodeIsSound'
  BY <1>1, Zenon DEF IInv, NodeIsSound
<1>8. SessionsAreSound'
  <2> SUFFICES ASSUME NEW r \in Sessions
               PROVE  /\ r # dev => loop'[r].pc = "none" /\ device'[r] # "open"
                      /\ device'[r] # "open" => ~sock'[r]
    BY <1>1, Zenon DEF SessionsAreSound
  <2>1. device'[r] = IF r = dev THEN "closed" ELSE device[r]
    BY <1>1, <1>2, Zenon
  <2>2. loop'[r].pc = loop[r].pc
    BY <1>3, <1>5, Zenon
  <2>3. sock'[r] = IF r = dev THEN FALSE ELSE sock[r]
    BY <1>5, Zenon
  <2> QED
    BY <2>1, <2>2, <2>3, Zenon DEF IInv, SessionsAreSound
<1>9. UnderlayIsSound'
  <2>1. device'[dev] = "closed" /\ loop'[ctrl].net = loop[ctrl].net
    BY <1>1, <1>2, <1>3, <1>5, Zenon
  <2> QED
    BY <1>1, <2>1, Zenon DEF IInv, UnderlayIsSound
<1>10. StaleStateIsFlagged'
  <2>1. /\ loop'[ctrl].client = loop[ctrl].client /\ loop'[ctrl].evidence = loop[ctrl].evidence
        /\ loop'[ctrl].changed = loop[ctrl].changed
    BY <1>2, <1>3, <1>5, Zenon
  <2> QED
    BY <1>1, <2>1, Zenon DEF IInv, StaleStateIsFlagged
<1> QED
  BY <1>5, <1>6, <1>7, <1>8, <1>9, <1>10 DEF IInv
-----------------------------------------------------------------------------
\* The invariant holds in every state the node reaches.
LEMMA Invariance == Spec => []IInv
<1>1. Init => IInv
  <2> SUFFICES ASSUME Init PROVE IInv
    OBVIOUS
  <2>1. Offline \in Underlay /\ None \in Endpoints /\ 0 \in 0 .. MaxStops
    BY MobileAssumption DEF Offline, Underlay, Endpoints
  <2>2. NoLoop \in LoopType /\ LoopIsSound(NoLoop) /\ NoLoop.pc = "none"
    BY <2>1, NewLoopSound
  <2>3. TypeOK
    BY <2>1, <2>2, Zenon DEF Init, TypeOK, PublishedOK, Calls, NoCall
  <2>4. NodeIsSound /\ UnderlayIsSound /\ StaleStateIsFlagged
    BY DEF Init, NodeIsSound, UnderlayIsSound, StaleStateIsFlagged
  <2>5. SessionsAreSound /\ LoopsAreSound
    BY <2>2 DEF Init, SessionsAreSound, LoopsAreSound
  <2> QED
    BY <2>3, <2>4, <2>5 DEF IInv
<1>2. IInv /\ [Next]_vars => IInv'
  <2> SUFFICES ASSUME IInv, [Next]_vars PROVE IInv'
    OBVIOUS
  <2>1. CASE \E s \in Sessions : Start(s)
    BY <2>1, Starts
  <2>2. CASE \/ \E state \in Underlays, rebind \in BOOLEAN : SetUnderlay(state, rebind)
             \/ \E background \in BOOLEAN : StopBegin(background)
    BY <2>2, CallBegins
  <2>3. CASE CallStep
    BY <2>3, CallContinues, ApplySound, StopFinishSound DEF CallStep
  <2>4. ASSUME NEW s \in Sessions, CycleStep(s) PROVE IInv'
    BY <2>4, Starting, Probing, Publishing, Ending, DeviceFailureSound DEF CycleStep
  <2>5. ASSUME NEW s \in Sessions,
               \/ LoopExit(s) \/ TakeChanged(s) \/ CycleTimeout(s) \/ Dispatch(s)
               \/ \E p \in Peers : Progress(s, p)
        PROVE  IInv'
    BY <2>5, Selecting, Probing, Ending
  <2>6. CASE UNCHANGED vars
    <3>1. UNCHANGED <<call, pending, stops, network, running, dev, ctrl, device, sock, loop, store, sent>>
      BY <2>6, Zenon DEF vars, node, published
    <3>2. TypeOK' /\ NodeIsSound' /\ SessionsAreSound' /\ StaleStateIsFlagged'
      BY <3>1 DEF IInv, TypeOK, PublishedOK, NodeIsSound, SessionsAreSound, StaleStateIsFlagged
    <3>3. UnderlayIsSound' /\ LoopsAreSound'
      BY <3>1 DEF IInv, UnderlayIsSound, LoopsAreSound, LoopIsSound, NextFamily
    <3> QED
      BY <3>2, <3>3 DEF IInv
  <2>7. ASSUME NEW p \in Peers, StoreTakes(p) PROVE IInv'
    <3>1. UNCHANGED <<call, pending, stops, network, running, dev, ctrl, device, sock, loop>>
      BY <2>7, Zenon DEF StoreTakes, node
    <3>2. None \in Endpoints
      BY DEF Endpoints
    <3>3. TypeOK' /\ NodeIsSound' /\ SessionsAreSound' /\ StaleStateIsFlagged'
      BY <2>7, <3>1, <3>2 DEF IInv, TypeOK, PublishedOK, StoreTakes, NodeIsSound, SessionsAreSound,
         StaleStateIsFlagged
    <3>4. UnderlayIsSound' /\ LoopsAreSound'
      BY <3>1 DEF IInv, UnderlayIsSound, LoopsAreSound, LoopIsSound, NextFamily
    <3> QED
      BY <3>3, <3>4 DEF IInv
  <2> QED
    BY <2>1, <2>2, <2>3, <2>4, <2>5, <2>6, <2>7 DEF Next
<1> QED
  BY <1>1, <1>2, PTL DEF Spec

\* Node, controller and published records always have their types.
THEOREM TypeCorrect == Spec => []TypeOK
<1>1. IInv => TypeOK
  BY DEF IInv
<1> QED
  BY Invariance, <1>1, PTL

\* After every SetUnderlay the sockets of the device and the network of the
\* controller are those reported last.
THEOREM UnderlayApplied == Spec => []UnderlayIsApplied
<1>1. IInv => UnderlayIsApplied
  BY DEF IInv, UnderlayIsSound, UnderlayIsApplied
<1> QED
  BY Invariance, <1>1, PTL

\* Stop joins the loop and closes the device before it gives lifecycle back.
THEOREM StopIsComplete == Spec => []NothingOutlivesStop
<1>1. IInv => NothingOutlivesStop
  <2> SUFFICES ASSUME IInv, NEW s \in Sessions, call = "none", ~(running /\ s = dev)
               PROVE  loop[s].pc \in {"none", "done"} /\ ~sock[s] /\ device[s] # "open"
    BY DEF NothingOutlivesStop
  <2>1. s # dev
    BY MobileAssumption DEF IInv, NodeIsSound
  <2> QED
    BY <2>1 DEF IInv, SessionsAreSound
<1> QED
  BY Invariance, <1>1, PTL

\* networkChanged cancels the cycle in the same section that changes the network,
\* so that no live cycle has an endpoint of a family that is gone.
THEOREM LiveResultsCurrent == Spec => []LiveResultsAreCurrent
<1>1. IInv => LiveResultsAreCurrent
  BY DEF IInv, LoopsAreSound, LoopIsSound, LiveResultsAreCurrent
<1> QED
  BY Invariance, <1>1, PTL

\* The signal of capacity one loses no change: until the loop has dropped what it
\* has of the old network, the signal is there or about to be sent.
THEOREM StaleStateFlagged == Spec => []StaleStateIsFlagged
<1>1. IInv => StaleStateIsFlagged
  BY DEF IInv
<1> QED
  BY Invariance, <1>1, PTL

-----------------------------------------------------------------------------
(* Nobody sleeps through a change, and nobody waits for a loop that has no  *)
(* reason to end: what EndpointConverges and StopReturns rest on besides    *)
(* fairness.                                                                *)

\* A controller that is told to end holds no live context, only such a controller
\* has ended, and one that waits in its select while its network is online has a
\* timer or a change to wake it, or the change is about to be signalled.
Alert(l) ==
  /\ l.ctx = "cancelled" => l.cycle # "live"
  /\ l.pc = "done" => l.ctx = "cancelled"
  /\ l.pc = "select" /\ l.net.online => l.timer \/ l.changed \/ call = "signal"

\* A running node has a loop.  It is cancelled only after the device failed, and
\* a Stop is then on the way; a Stop that waits has cancelled what it waits for.
WakeInv ==
  /\ \A s \in Sessions : Alert(loop[s])
  /\ running =>
       /\ loop[ctrl].pc # "none" /\ device[dev] # "none"
       /\ loop[ctrl].ctx = "cancelled" => device[dev] = "closed"
       /\ device[dev] = "closed" => stops > 0
  /\ call \in {"cancel", "join"} => loop[pending.ctrl].pc # "none"
  /\ call = "join" => loop[pending.ctrl].ctx = "cancelled"

\* The loop of s takes a step of its own to m: its context is its caller's affair,
\* it neither appears nor goes, and it sleeps only with a timer.
MovesTo(s, m) ==
  /\ m \in LoopType /\ StepLoop(s, m)
  /\ Alert(m) /\ m.ctx = loop[s].ctx
  /\ m.pc = "none" <=> loop[s].pc = "none"

\* What has to be known of m.
LEMMA MovesIf ==
  ASSUME NEW s \in Sessions, Alert(loop[s]), NEW m \in LoopType, StepLoop(s, m),
         m.ctx = loop[s].ctx, m.net = loop[s].net,
         m.cycle = loop[s].cycle \/ m.cycle \in {"none", "cancelled", m.ctx},
         m.pc = "none" <=> loop[s].pc = "none",
         m.pc = "done" => loop[s].pc = "done" \/ m.ctx = "cancelled",
         m.pc = "select" =>
           \/ m.timer \/ m.changed \/ ~m.net.online
           \/ loop[s].pc = "select" /\ m.timer = loop[s].timer /\ m.changed = loop[s].changed
  PROVE  \E n : MovesTo(s, n)
<1>1. MovesTo(s, m)
  BY DEF MovesTo, Alert
<1> QED
  BY <1>1, Zenon

\* Every step of the loop itself is such a move.
LEMMA LoopMoves ==
  ASSUME IInv, NEW s \in Sessions, Alert(loop[s]),
         \/ LoopExit(s) \/ TakeChanged(s) \/ CycleTimeout(s) \/ Dispatch(s)
         \/ ProbeStart(s) \/ ProbeAnswer(s) \/ ProbeFails(s)
         \/ Discovered(s) \/ Sample(s) \/ EndCycle(s)
         \/ \E loaded \in BOOLEAN : StartCycle(s, loaded)
         \/ \E p \in Peers : \/ Publish(s, p) \/ PublishCutOff(s, p) \/ PublishFails(s, p)
                             \/ EstablishPeer(s, p) \/ Progress(s, p)
  PROVE  OnlyLoop /\ \E m : MovesTo(s, m)
<1> DEFINE l == loop[s]
<1>0. OnlyLoop
  BY Zenon DEF LoopExit, TakeChanged, CycleTimeout, Dispatch, ProbeStart, ProbeAnswer, ProbeFails,
         Discovered, Sample, EndCycle, StartCycle, Publish, PublishCutOff, PublishFails, EstablishPeer, Progress
<1> SUFFICES \E m : MovesTo(s, m)
  BY <1>0
<1>1. l \in LoopType /\ Alert(l)
  BY DEF IInv, TypeOK
<1>2. CASE LoopExit(s)
  <2> DEFINE m == [l EXCEPT !.pc = "done", !.timer = FALSE]
  <2>1. l.pc = "select" /\ l.ctx = "cancelled" /\ StepLoop(s, m)
    BY <1>2 DEF LoopExit
  <2>2. m \in LoopType /\ m.ctx = l.ctx /\ m.net = l.net /\ m.pc = "done" /\ m.cycle = l.cycle
    BY <1>1 DEF LoopType
  <2> HIDE DEF m
  <2> QED
    BY <1>1, <2>1, <2>2, MovesIf, Zenon
<1>3. CASE TakeChanged(s)
  <2> DEFINE m == [l EXCEPT !.changed = FALSE, !.timer = TRUE, !.client = "none", !.evidence = Reset]
  <2>0. Reset \in [Peers -> {"none", "new", "old"}]
    BY DEF Reset
  <2>1. l.pc = "select" /\ StepLoop(s, m)
    BY <1>3 DEF TakeChanged
  <2>2. m \in LoopType /\ m.ctx = l.ctx /\ m.net = l.net /\ m.pc = l.pc /\ m.timer /\ m.cycle = l.cycle
    BY <1>1, <2>0 DEF LoopType
  <2> HIDE DEF m
  <2> QED
    BY <1>1, <2>1, <2>2, MovesIf, Zenon
<1>4. CASE CycleTimeout(s)
  <2> DEFINE m == [l EXCEPT !.cycle = "cancelled"]
  <2>1. StepLoop(s, m)
    BY <1>4 DEF CycleTimeout
  <2>2. m \in LoopType /\ m.ctx = l.ctx /\ m.net = l.net /\ m.cycle = "cancelled"
        /\ m.pc = l.pc /\ m.timer = l.timer /\ m.changed = l.changed
    BY <1>1 DEF LoopType
  <2> HIDE DEF m
  <2> QED
    BY <1>1, <2>1, <2>2, MovesIf, Zenon
<1>5. CASE Dispatch(s)
  <2> DEFINE m == [l EXCEPT !.reply = Current]
  <2>1. StepLoop(s, m)
    BY <1>5 DEF Dispatch
  <2>2. m \in LoopType /\ m.ctx = l.ctx /\ m.net = l.net /\ m.cycle = l.cycle
        /\ m.pc = l.pc /\ m.timer = l.timer /\ m.changed = l.changed
    BY <1>1 DEF LoopType, Endpoints
  <2> HIDE DEF m
  <2> QED
    BY <1>1, <2>1, <2>2, MovesIf, Zenon
<1>6. ASSUME NEW e \in Endpoints, l.pc \in {"discover", "probe"}, StepLoop(s, Resolved(l, e))
      PROVE  \E m : MovesTo(s, m)
  <2> DEFINE m == Resolved(l, e)
  <2>1. NextFamily(l) \in Families
    BY Zenon DEF NextFamily, Families
  <2>2. m \in LoopType /\ m.ctx = l.ctx /\ m.net = l.net /\ m.cycle = l.cycle /\ m.pc = "discover"
    BY <1>1, <2>1 DEF Resolved, LoopType, Endpoints
  <2> HIDE DEF m
  <2> QED
    BY <1>1, <1>6, <2>2, MovesIf, Zenon DEF m
<1>7. CASE ProbeStart(s) /\ StepLoop(s, [l EXCEPT !.pc = "probe"])
  <2> DEFINE m == [l EXCEPT !.pc = "probe"]
  <2>1. l.pc = "discover" /\ StepLoop(s, m)
    BY <1>7 DEF ProbeStart
  <2>2. m \in LoopType /\ m.ctx = l.ctx /\ m.net = l.net /\ m.cycle = l.cycle /\ m.pc = "probe"
    BY <1>1 DEF LoopType
  <2> HIDE DEF m
  <2> QED
    BY <1>1, <2>1, <2>2, MovesIf, Zenon
<1>8. CASE ProbeStart(s) /\ StepLoop(s, Resolved(l, None))
  BY <1>6, <1>8 DEF ProbeStart, Endpoints
<1>9. CASE ProbeAnswer(s) \/ ProbeFails(s)
  <2>1. l.pc = "probe" /\ None \in Endpoints /\ l.reply \in Endpoints
    BY <1>1, <1>9, Zenon DEF ProbeAnswer, ProbeFails, Endpoints, LoopType
  <2> QED
    BY <1>6, <1>9, <2>1, Zenon DEF ProbeAnswer, ProbeFails
<1>10. CASE Discovered(s)
  <2> DEFINE left == IF DiscoverySucceeds(Protocol, l.data) /\ Encodable(l.data) THEN Peers ELSE {}
             m == [l EXCEPT !.pc = "publish", !.left = left]
  <2>1. left \in SUBSET Peers /\ l.pc = "discover" /\ StepLoop(s, m)
    BY <1>10 DEF Discovered
  <2> HIDE DEF left
  <2>2. m \in LoopType /\ m.ctx = l.ctx /\ m.net = l.net /\ m.cycle = l.cycle /\ m.pc = "publish"
    BY <1>1, <2>1 DEF LoopType
  <2> HIDE DEF m
  <2> QED
    BY <1>1, <2>1, <2>2, MovesIf, Zenon
<1>11. CASE Sample(s) /\ HasHealth
  <2> DEFINE m == [l EXCEPT !.pc = "establish", !.data = Empty,
                    !.evidence = [p \in Peers |-> "none"],
                    !.left = {p \in Peers : l.evidence[p] = "none"}]
  <2>0. Empty \in [Families -> Endpoints]
    BY DEF Empty, Endpoints
  <2>1. l.pc = "publish" /\ StepLoop(s, m)
    BY <1>11 DEF Sample
  <2>2. m \in LoopType /\ m.ctx = l.ctx /\ m.net = l.net /\ m.cycle = l.cycle /\ m.pc = "establish"
    BY <1>1, <2>0, Zenon DEF LoopType
  <2> HIDE DEF m
  <2> QED
    BY <1>1, <2>1, <2>2, MovesIf, Zenon
<1>12. CASE Sample(s) /\ ~HasHealth
  <2> DEFINE m == [l EXCEPT !.pc = "end", !.data = Empty]
  <2>0. Empty \in [Families -> Endpoints]
    BY DEF Empty, Endpoints
  <2>1. l.pc = "publish" /\ StepLoop(s, m)
    BY <1>12 DEF Sample
  <2>2. m \in LoopType /\ m.ctx = l.ctx /\ m.net = l.net /\ m.cycle = l.cycle /\ m.pc = "end"
    BY <1>1, <2>0, Zenon DEF LoopType
  <2> HIDE DEF m
  <2> QED
    BY <1>1, <2>1, <2>2, MovesIf, Zenon
<1>13. CASE EndCycle(s)
  <2> DEFINE m == [l EXCEPT !.pc = "select", !.cycle = "none", !.timer = TRUE, !.todo = {}]
  <2>1. l.pc \in {"end", "establish"} /\ StepLoop(s, m)
    BY <1>13 DEF EndCycle
  <2>2. m \in LoopType /\ m.ctx = l.ctx /\ m.net = l.net /\ m.cycle = "none" /\ m.pc = "select" /\ m.timer
    BY <1>1 DEF LoopType
  <2> HIDE DEF m
  <2> QED
    BY <1>1, <2>1, <2>2, MovesIf, Zenon
<1>14. ASSUME NEW loaded \in BOOLEAN, StartCycle(s, loaded), ~l.net.online
       PROVE  \E m : MovesTo(s, m)
  <2> DEFINE m == [l EXCEPT !.timer = FALSE]
  <2>1. l.pc = "select" /\ ~l.net.online /\ StepLoop(s, m)
    BY <1>14 DEF StartCycle
  <2>2. m \in LoopType /\ m.ctx = l.ctx /\ m.net = l.net /\ m.cycle = l.cycle /\ m.pc = l.pc
    BY <1>1 DEF LoopType
  <2> HIDE DEF m
  <2> QED
    BY <1>1, <2>1, <2>2, MovesIf, Zenon
<1>15. ASSUME NEW loaded \in BOOLEAN, StartCycle(s, loaded), l.net.online
       PROVE  \E m : MovesTo(s, m)
  <2> DEFINE c == IF l.client = "none" THEN LoadPlugins(loaded) ELSE l.client
             h == CycleHead(l, loaded)
             m == [h EXCEPT !.timer = FALSE, !.cycle = l.ctx]
  <2>1. l.pc = "select" /\ StepLoop(s, m)
    BY <1>15, Zenon DEF StartCycle
  <2>2. c \in {"none", "fresh", "old"}
    BY <1>1, Zenon DEF LoadPlugins, LoopType
  <2>3. h = [l EXCEPT !.client = c, !.todo = Wanted(Protocol),
                      !.pc = IF c = "none" THEN "end" ELSE "discover"]
    BY DEF CycleHead
  <2> HIDE DEF c, h
  <2>4. h \in LoopType /\ h.pc \in {"end", "discover"} /\ h.ctx = l.ctx /\ h.net = l.net
    BY <1>1, <2>2, <2>3, WantedFamilies, ZenonT(60) DEF LoopType
  <2>5. m \in LoopType /\ m.ctx = l.ctx /\ m.net = l.net /\ m.cycle = l.ctx /\ m.pc = h.pc
    BY <1>1, <2>4, Zenon DEF LoopType
  <2> HIDE DEF m
  <2> QED
    BY <1>1, <2>1, <2>4, <2>5, MovesIf, Zenon
<1>16. ASSUME NEW p \in Peers, Publish(s, p) \/ PublishCutOff(s, p) \/ PublishFails(s, p) \/ EstablishPeer(s, p)
       PROVE  \E m : MovesTo(s, m)
  <2> DEFINE m == [l EXCEPT !.left = @ \ {p}]
  <2>1. StepLoop(s, m)
    BY <1>16 DEF Publish, PublishCutOff, PublishFails, EstablishPeer
  <2>2. m \in LoopType /\ m.ctx = l.ctx /\ m.net = l.net /\ m.cycle = l.cycle
        /\ m.pc = l.pc /\ m.timer = l.timer /\ m.changed = l.changed
    BY <1>1 DEF LoopType
  <2> HIDE DEF m
  <2> QED
    BY <1>1, <2>1, <2>2, MovesIf, Zenon
<1>17. ASSUME NEW p \in Peers, Progress(s, p)
       PROVE  \E m : MovesTo(s, m)
  <2> DEFINE m == [l EXCEPT !.evidence[p] = "new"]
  <2>1. StepLoop(s, m)
    BY <1>17 DEF Progress
  <2>2. m \in LoopType /\ m.ctx = l.ctx /\ m.net = l.net /\ m.cycle = l.cycle
        /\ m.pc = l.pc /\ m.timer = l.timer /\ m.changed = l.changed
    BY <1>1 DEF LoopType
  <2> HIDE DEF m
  <2> QED
    BY <1>1, <2>1, <2>2, MovesIf, Zenon
<1>18. ProbeStart(s) => StepLoop(s, [l EXCEPT !.pc = "probe"]) \/ StepLoop(s, Resolved(l, None))
  BY DEF ProbeStart
<1> QED
  BY <1>2, <1>3, <1>4, <1>5, <1>7, <1>8, <1>9, <1>10, <1>11, <1>12, <1>13, <1>14, <1>15, <1>16,
     <1>17, <1>18

\* The loops' own steps keep everyone awake.
LEMMA LoopKeepsWake ==
  ASSUME IInv, WakeInv, NEW s \in Sessions, OnlyLoop, \E m : MovesTo(s, m)
  PROVE  WakeInv'
<1>1. PICK m : MovesTo(s, m)
  OBVIOUS
<1>2. /\ UNCHANGED <<call, pending, stops, network, running, dev, ctrl, device, sock>>
      /\ loop'[s] = m /\ \A r \in Sessions : r # s => loop'[r] = loop[r]
  BY <1>1, Zenon DEF OnlyLoop, node, MovesTo, StepLoop, IInv, TypeOK
<1>3. \A r \in Sessions : /\ Alert(loop'[r])
                          /\ loop'[r].ctx = loop[r].ctx
                          /\ loop'[r].pc = "none" <=> loop[r].pc = "none"
  BY <1>1, <1>2 DEF MovesTo, WakeInv
<1>4. \A r \in Sessions : Alert(loop[r])'
  BY <1>2, <1>3 DEF Alert
<1>5. /\ running => ctrl \in Sessions
      /\ call \in {"cancel", "join"} => pending.ctrl \in Sessions
  BY DEF IInv, NodeIsSound
<1> QED
  BY <1>2, <1>3, <1>4, <1>5, Zenon DEF WakeInv

\* Closing sockets changes nothing of what keeps a loop awake.
LEMMA AgedIsAlert ==
  ASSUME NEW l \in LoopType
  PROVE  /\ AgeLoop(l).pc = l.pc /\ AgeLoop(l).ctx = l.ctx /\ AgeLoop(l).cycle = l.cycle
         /\ AgeLoop(l).net = l.net /\ AgeLoop(l).timer = l.timer
         /\ AgeLoop(l).changed = l.changed
BY DEF AgeLoop, LoopType

\* The loops are afterwards as ls has them, but for what they discovered.
Become(ls) ==
  \A r \in Sessions :
    /\ loop'[r].pc = ls[r].pc /\ loop'[r].ctx = ls[r].ctx /\ loop'[r].cycle = ls[r].cycle
    /\ loop'[r].net = ls[r].net /\ loop'[r].timer = ls[r].timer
    /\ loop'[r].changed = ls[r].changed

\* Nor does a rebind, for any loop.
LEMMA RebindIsAlert ==
  ASSUME NEW s \in Sessions, NEW open, NEW ls \in [Sessions -> LoopType], Rebind(s, open, ls)
  PROVE  Become(ls)
<1> SUFFICES ASSUME NEW r \in Sessions
             PROVE  /\ loop'[r].pc = ls[r].pc /\ loop'[r].ctx = ls[r].ctx
                    /\ loop'[r].cycle = ls[r].cycle /\ loop'[r].net = ls[r].net
                    /\ loop'[r].timer = ls[r].timer /\ loop'[r].changed = ls[r].changed
  BY DEF Become
<1>1. loop' = [ls EXCEPT ![s] = AgeLoop(ls[s])]
  BY DEF Rebind
<1>2. loop'[r] = IF r = s THEN AgeLoop(ls[s]) ELSE ls[r]
  BY <1>1
<1>3. ls[r] \in LoopType
  OBVIOUS
<1> QED
  BY <1>2, <1>3, AgedIsAlert

\* So what is alert in ls is alert afterwards, unless a signal was still to come.
LEMMA StaysAlert ==
  ASSUME NEW ls, Become(ls), \A r \in Sessions : Alert(ls[r]), call = "signal" => call' = "signal"
  PROVE  \A r \in Sessions : Alert(loop[r])'
<1> SUFFICES ASSUME NEW r \in Sessions PROVE Alert(loop[r])'
  OBVIOUS
<1>1. /\ loop'[r].pc = ls[r].pc /\ loop'[r].ctx = ls[r].ctx /\ loop'[r].cycle = ls[r].cycle
      /\ loop'[r].net = ls[r].net /\ loop'[r].timer = ls[r].timer
      /\ loop'[r].changed = ls[r].changed
  BY DEF Become
<1>2. Alert(ls[r])
  OBVIOUS
<1> QED
  BY <1>1, <1>2 DEF Alert

\* A step that leaves the loops alone keeps them alert.
LEMMA LeftAlert ==
  ASSUME UNCHANGED loop, \A r \in Sessions : Alert(loop[r]), call = "signal" => call' = "signal"
  PROVE  \A r \in Sessions : Alert(loop[r])'
<1>1. Become(loop)
  BY Zenon DEF Become
<1> QED
  BY <1>1, StaysAlert, Zenon

\* A cancelled controller is alert if it was.
LEMMA CancelledIsAlert ==
  ASSUME NEW l \in LoopType
  PROVE  /\ CancelLoop(l).pc = l.pc /\ CancelLoop(l).ctx = "cancelled"
         /\ CancelLoop(l).cycle # "live" /\ CancelLoop(l).net = l.net
         /\ CancelLoop(l).timer = l.timer /\ CancelLoop(l).changed = l.changed
<1> DEFINE n == [l EXCEPT !.ctx = "cancelled"]
<1>1. /\ n \in LoopType /\ n.pc = l.pc /\ n.net = l.net /\ n.ctx = "cancelled"
      /\ n.timer = l.timer /\ n.changed = l.changed
  BY DEF LoopType
<1>2. CancelLoop(l) = CancelCycle(n)
  BY DEF CancelLoop
<1> HIDE DEF n
<1> QED
  BY <1>1, <1>2 DEF CancelCycle, LoopType

\* The steps of Start, SetUnderlay and Stop keep everyone awake.
LEMMA CallsKeepWake ==
  ASSUME IInv, WakeInv,
         \/ \E s \in Sessions : Start(s)
         \/ \E state \in Underlays, rebind \in BOOLEAN : SetUnderlay(state, rebind)
         \/ \E background \in BOOLEAN : StopBegin(background)
         \/ CallStep
  PROVE  WakeInv'
<1> USE DEF WakeInv
<1>0. /\ loop \in [Sessions -> LoopType] /\ device \in [Sessions -> {"none", "open", "closed"}]
      /\ network \in Underlay /\ stops \in Nat
      /\ running => ctrl \in Sessions /\ dev = ctrl
      /\ call \in {"changed", "signal"} => running /\ pending.ctrl = ctrl
      /\ call \in {"cancel", "join"} => ~running /\ dev \in Sessions /\ pending.ctrl = dev
  BY MobileAssumption DEF IInv, TypeOK, NodeIsSound
<1>1. ASSUME NEW s \in Sessions, Start(s) PROVE WakeInv'
  <2>1. /\ NewLoop(network).pc = "select" /\ NewLoop(network).ctx = "live"
        /\ NewLoop(network).timer /\ NewLoop(network).cycle = "none"
    BY Zenon DEF NewLoop
  <2>2. /\ loop'[s] = NewLoop(network) /\ device'[s] = "open"
        /\ \A r \in Sessions : r # s => loop'[r] = loop[r]
        /\ running' /\ ctrl' = s /\ dev' = s /\ call = "none" /\ call' = "none"
    BY <1>0, <1>1, Zenon DEF Start
  <2>3. ASSUME NEW r \in Sessions PROVE Alert(loop[r])'
    <3>1. r = s => Alert(loop[r])'
      BY <2>1, <2>2, Zenon DEF Alert
    <3>2. r # s => Alert(loop[r])'
      BY <2>2, Zenon DEF Alert
    <3> QED
      BY <3>1, <3>2
  <2> QED
    BY <2>1, <2>2, <2>3, Zenon
<1>2. ASSUME NEW state \in Underlays, NEW rebind \in BOOLEAN, SetUnderlay(state, rebind)
      PROVE  WakeInv'
  <2>1. /\ call = "none" /\ call' \in {"changed", "device"}
        /\ UNCHANGED <<stops, running, dev, ctrl, device, loop>>
    BY <1>2, Zenon DEF SetUnderlay
  <2>2. \A r \in Sessions : Alert(loop[r])'
    BY <2>1, LeftAlert, Zenon
  <2> QED
    BY <2>1, <2>2
<1>3. ASSUME NEW background \in BOOLEAN, StopBegin(background) PROVE WakeInv'
  <2>1. call = "none" /\ UNCHANGED <<dev, device, loop>>
    BY <1>3, Zenon DEF StopBegin
  <2>2. CASE running
    <3>1. call' = "cancel" /\ ~running' /\ pending'.ctrl = ctrl
      BY <1>3, <2>2, Zenon DEF StopBegin, NoCall
    <3>2. \A r \in Sessions : Alert(loop[r])'
      BY <2>1, LeftAlert, Zenon
    <3> QED
      BY <1>0, <2>1, <2>2, <3>1, <3>2, Zenon
  <2>3. CASE ~running
    <3>1. UNCHANGED <<call, pending, running, ctrl>>
      BY <1>3, <2>3, Zenon DEF StopBegin
    <3>2. \A r \in Sessions : Alert(loop[r])'
      BY <2>1, LeftAlert, Zenon
    <3> QED
      BY <2>1, <2>3, <3>1, <3>2
  <2> QED
    BY <2>2, <2>3, Zenon
<1>4. CASE NetworkChanged
  <2> DEFINE s == pending.ctrl
             n == MovedTo(loop[s], network)
             m == CancelCycle(n)
  <2>1. /\ call = "changed" /\ call' = "signal" /\ loop' = [loop EXCEPT ![s] = m]
        /\ UNCHANGED <<pending, stops, running, dev, ctrl, device>>
    BY <1>4 DEF NetworkChanged
  <2>2. s \in Sessions /\ s = ctrl /\ loop[s] \in LoopType
    BY <1>0, <2>1
  <2>3. n \in LoopType /\ n.pc = loop[s].pc /\ n.ctx = loop[s].ctx
    <3> DEFINE c == IF loop[s].client = "none" THEN "none" ELSE "old"
               ev == [p \in Peers |-> IF loop[s].evidence[p] = "none" THEN "none" ELSE "old"]
    <3>1. c \in {"none", "old"} /\ ev \in [Peers -> {"none", "old"}]
          /\ n = [loop[s] EXCEPT !.net = network, !.client = c, !.evidence = ev]
      BY <2>2 DEF MovedTo, LoopType
    <3>2. network \in Underlay
      BY <1>0
    <3>3. ASSUME NEW l \in LoopType
          PROVE  LET k == [l EXCEPT !.net = network, !.client = c, !.evidence = ev]
                 IN  k \in LoopType /\ k.pc = l.pc /\ k.ctx = l.ctx
      <4> HIDE DEF c, ev, n, WakeInv
      <4> QED
        BY <3>1, <3>2, ZenonT(60) DEF LoopType
    <3> HIDE DEF c, ev, n
    <3> QED
      BY <2>2, <3>1, <3>3, Zenon
  <2> HIDE DEF n
  <2>4. m.pc = loop[s].pc /\ m.ctx = loop[s].ctx /\ m.cycle # "live"
    BY <2>3 DEF LoopType, CancelCycle
  <2> HIDE DEF m
  <2>5. loop'[s] = m /\ \A r \in Sessions : r # s => loop'[r] = loop[r]
    BY <1>0, <2>1, <2>2
  <2>6. \A r \in Sessions : Alert(loop[r])'
    BY <2>1, <2>2, <2>4, <2>5 DEF Alert
  <2> QED
    BY <1>0, <2>1, <2>2, <2>4, <2>5, <2>6
<1>5. CASE Signal
  <2> DEFINE s == pending.ctrl
             m == [loop[s] EXCEPT !.changed = TRUE]
  <2>1. /\ call = "signal" /\ call' = "device" /\ loop' = [loop EXCEPT ![s] = m]
        /\ UNCHANGED <<pending, stops, running, dev, ctrl, device>>
    BY <1>5 DEF Signal
  <2>2. s \in Sessions /\ s = ctrl /\ s = dev /\ loop[s] \in LoopType
    BY <1>0, <2>1
  <2>3. m.pc = loop[s].pc /\ m.ctx = loop[s].ctx /\ m.cycle = loop[s].cycle /\ m.changed
    BY <2>2 DEF LoopType
  <2> HIDE DEF m
  <2>4. loop'[s] = m /\ \A r \in Sessions : r # s => loop'[r] = loop[r] /\ loop[r].pc = "none"
    BY <1>0, <2>1, <2>2, Zenon DEF IInv, SessionsAreSound
  <2>5. ASSUME NEW r \in Sessions PROVE Alert(loop[r])'
    <3>1. CASE r = s
      BY <1>0, <2>2, <2>3, <2>4, <3>1, Zenon DEF Alert
    <3>2. CASE r # s
      BY <1>0, <2>4, <3>2, Zenon DEF Alert
    <3> QED
      BY <3>1, <3>2, Zenon
  <2> QED
    BY <1>0, <2>1, <2>2, <2>3, <2>4, <2>5, Zenon
<1>6. CASE ApplyUnderlay
  <2>1. /\ call = "device" /\ call' = "none" /\ UNCHANGED <<running, dev, ctrl>>
    BY <1>6, Zenon DEF ApplyUnderlay
  <2>2. ASSUME NEW open, Rebind(dev, open, loop), running, device' \in [Sessions -> {"none", "open", "closed"}],
               \/ UNCHANGED <<stops, device>>
               \/ stops' = stops + 1 /\ device' = [device EXCEPT ![dev] = "closed"]
        PROVE  WakeInv'
    <3>0. dev \in Sessions /\ loop \in [Sessions -> LoopType]
      BY <1>0, <2>2, Zenon
    <3>1. Become(loop)
      BY <2>2, <3>0, RebindIsAlert
    <3>2. \A r \in Sessions : Alert(loop[r])'
      BY <2>1, <3>1, StaysAlert, Zenon
    <3>3. /\ device'[dev] # "none"
          /\ loop[ctrl].ctx = "cancelled" => device'[dev] = "closed"
          /\ device'[dev] = "closed" => stops' > 0
      BY <1>0, <2>2
    <3> QED
      BY <1>0, <2>1, <2>2, <3>1, <3>2, <3>3, Zenon DEF Become
  <2>3. CASE UNCHANGED <<stops, device, loop>>
    <3>1. \A r \in Sessions : Alert(loop[r])'
      BY <2>1, <2>3, Zenon DEF Alert
    <3> QED
      BY <2>1, <2>3, <3>1, Zenon
  <2>4. \/ UNCHANGED <<stops, device, loop>>
        \/ running /\ Rebind(dev, network.online, loop) /\ UNCHANGED <<stops, device>>
        \/ /\ running /\ Rebind(dev, FALSE, loop)
           /\ stops' = stops + 1 /\ device' = [device EXCEPT ![dev] = "closed"]
    BY <1>6, Zenon DEF ApplyUnderlay, DeviceFails, CloseDevice
  <2> QED
    BY <1>0, <2>2, <2>3, <2>4, Zenon
<1>7. CASE StopCancel
  <2> DEFINE s == pending.ctrl
             m == CancelLoop(loop[s])
  <2>1. /\ call = "cancel" /\ call' = "join" /\ loop' = [loop EXCEPT ![s] = m]
        /\ UNCHANGED <<pending, stops, running, dev, ctrl, device>>
    BY <1>7 DEF StopCancel
  <2>2. s \in Sessions /\ ~running /\ loop[s] \in LoopType
    BY <1>0, <2>1
  <2>3. /\ m.pc = loop[s].pc /\ m.ctx = "cancelled" /\ m.cycle # "live" /\ m.net = loop[s].net
        /\ m.timer = loop[s].timer /\ m.changed = loop[s].changed
    BY <2>2, CancelledIsAlert, Zenon
  <2> HIDE DEF m
  <2>4. loop'[s] = m /\ \A r \in Sessions : r # s => loop'[r] = loop[r]
    BY <1>0, <2>1, <2>2, Zenon
  <2>5. \A r \in Sessions : Alert(loop[r])'
    BY <2>1, <2>2, <2>3, <2>4 DEF Alert
  <2> QED
    BY <2>1, <2>2, <2>3, <2>4, <2>5, Zenon
<1>8. CASE StopFinish
  <2> DEFINE ls == [loop EXCEPT ![pending.ctrl] = NoLoop]
  <2>1. /\ call = "join" /\ call' = "none" /\ UNCHANGED running /\ Rebind(dev, FALSE, ls)
    BY <1>8, Zenon DEF StopFinish, CloseDevice
  <2>2. ~running /\ dev \in Sessions /\ pending.ctrl = dev
    BY <1>0, <2>1
  <2>3. NoLoop \in LoopType /\ NoLoop.pc = "none"
    BY <1>0, NewLoopSound
  <2>4. NoLoop.cycle = "none"
    BY DEF NoLoop, NewLoop
  <2>5. /\ ls \in [Sessions -> LoopType] /\ ls[dev] = NoLoop
        /\ \A r \in Sessions : r # dev => ls[r] = loop[r]
    BY <1>0, <2>2, <2>3
  <2> HIDE DEF ls
  <2>6. Become(ls)
    BY <2>1, <2>2, <2>5, RebindIsAlert, Zenon
  <2>7. \A r \in Sessions : Alert(loop[r])'
    <3>1. Alert(NoLoop)
      BY <2>3, <2>4, Zenon DEF Alert
    <3>2. \A r \in Sessions : Alert(ls[r])
      BY <2>5, <3>1, Zenon
    <3> QED
      BY <2>1, <2>6, <3>2, StaysAlert, Zenon
  <2> QED
    BY <2>1, <2>2, <2>7, Zenon
<1> QED
  BY <1>1, <1>2, <1>3, <1>4, <1>5, <1>6, <1>7, <1>8, Zenon DEF CallStep

\* A failure of the device cancels the controller and leaves a Stop behind.
LEMMA FailureKeepsWake ==
  ASSUME IInv, WakeInv, NEW s \in Sessions, NEW p \in Peers, SetPeerEndpointFails(s, p)
  PROVE  WakeInv'
<1> DEFINE ls == [r \in Sessions |->
                    LET l == IF r = ctrl THEN CancelLoop(loop[r]) ELSE loop[r]
                    IN  IF r = s THEN [l EXCEPT !.left = @ \ {p}] ELSE l]
           c == CancelLoop(loop[s])
           m == [c EXCEPT !.left = c.left \ {p}]
<1>1. /\ running /\ stops' = stops + 1 /\ loop[s].pc = "establish"
      /\ device' = [device EXCEPT ![dev] = "closed"] /\ Rebind(dev, FALSE, ls)
      /\ UNCHANGED <<call, pending, running, dev, ctrl>>
  BY Zenon DEF SetPeerEndpointFails, DeviceFails, CloseDevice
<1>2. /\ s = dev /\ s = ctrl /\ stops \in Nat /\ loop \in [Sessions -> LoopType]
      /\ device \in [Sessions -> {"none", "open", "closed"}]
  BY <1>1, MobileAssumption DEF IInv, NodeIsSound, SessionsAreSound, TypeOK
<1>3. /\ c \in LoopType /\ c.pc = loop[s].pc /\ c.ctx = "cancelled" /\ c.cycle # "live"
  BY <1>2, CancelLoopType, CancelledIsAlert
<1>4. ls[s] = m /\ \A r \in Sessions : r # s => ls[r] = loop[r]
  BY <1>2
<1>5. ls \in [Sessions -> LoopType] /\ m.pc = "establish" /\ m.ctx = "cancelled" /\ m.cycle # "live"
  <2> HIDE DEF c
  <2>1. m \in LoopType /\ m.pc = c.pc /\ m.ctx = c.ctx /\ m.cycle = c.cycle
    BY <1>3 DEF LoopType
  <2> HIDE DEF m
  <2>2. ls = [r \in Sessions |-> ls[r]]
    OBVIOUS
  <2> HIDE DEF ls
  <2> QED
    BY <1>1, <1>2, <1>3, <1>4, <2>1, <2>2
<1> HIDE DEF ls, c, m
<1>6. Become(ls)
  BY <1>1, <1>2, <1>5, RebindIsAlert, Zenon
<1>7. \A r \in Sessions : Alert(loop[r])'
  <2>1. Alert(m)
    BY <1>5, Zenon DEF Alert
  <2>2. \A r \in Sessions : Alert(ls[r])
    BY <1>4, <2>1, Zenon DEF WakeInv
  <2> QED
    BY <1>1, <1>6, <2>2, StaysAlert, Zenon
<1>8. device'[dev] = "closed" /\ stops' > 0
  BY <1>1, <1>2
<1>9. call \notin {"cancel", "join"}
  BY <1>1, Zenon DEF IInv, NodeIsSound
<1> QED
  BY <1>1, <1>2, <1>4, <1>5, <1>6, <1>7, <1>8, <1>9 DEF WakeInv, Become

\* Every state the node reaches is one in which nobody sleeps through anything.
LEMMA Wakefulness == Spec => []WakeInv
<1>1. Init => WakeInv
  <2>1. NoLoop.pc = "none" /\ NoLoop.cycle = "none"
    BY DEF NoLoop, NewLoop
  <2> QED
    BY <2>1 DEF Init, WakeInv, Alert
<1>2. IInv /\ WakeInv /\ [Next]_vars => WakeInv'
  <2> SUFFICES ASSUME IInv, WakeInv, [Next]_vars PROVE WakeInv'
    OBVIOUS
  <2>1. ASSUME NEW s \in Sessions,
               \/ LoopExit(s) \/ TakeChanged(s) \/ CycleTimeout(s) \/ Dispatch(s)
               \/ ProbeStart(s) \/ ProbeAnswer(s) \/ ProbeFails(s)
               \/ Discovered(s) \/ Sample(s) \/ EndCycle(s)
               \/ \E loaded \in BOOLEAN : StartCycle(s, loaded)
               \/ \E p \in Peers : \/ Publish(s, p) \/ PublishCutOff(s, p) \/ PublishFails(s, p)
                                   \/ EstablishPeer(s, p) \/ Progress(s, p)
        PROVE  WakeInv'
    <3>1. Alert(loop[s])
      BY DEF WakeInv
    <3>2. OnlyLoop /\ \E m : MovesTo(s, m)
      BY <2>1, <3>1, LoopMoves
    <3> QED
      BY <3>2, LoopKeepsWake
  <2>2. CASE \/ \E s \in Sessions : Start(s)
             \/ \E state \in Underlays, rebind \in BOOLEAN : SetUnderlay(state, rebind)
             \/ \E background \in BOOLEAN : StopBegin(background)
             \/ CallStep
    BY <2>2, CallsKeepWake
  <2>3. ASSUME NEW s \in Sessions, NEW p \in Peers, SetPeerEndpointFails(s, p) PROVE WakeInv'
    BY <2>3, FailureKeepsWake
  <2>4. CASE UNCHANGED vars
    <3>1. UNCHANGED <<call, pending, stops, running, dev, ctrl, device, loop>>
      BY <2>4, Zenon DEF vars, node
    <3>2. \A r \in Sessions : Alert(loop[r])'
      BY <3>1 DEF WakeInv, Alert
    <3> QED
      BY <3>1, <3>2, Zenon DEF WakeInv
  <2>5. ASSUME NEW p \in Peers, StoreTakes(p) PROVE WakeInv'
    <3>1. UNCHANGED <<call, pending, stops, running, dev, ctrl, device, loop>>
      BY <2>5, Zenon DEF StoreTakes, node
    <3>2. \A r \in Sessions : Alert(loop[r])'
      BY <3>1 DEF WakeInv, Alert
    <3> QED
      BY <3>1, <3>2, Zenon DEF WakeInv
  <2> QED
    BY <2>1, <2>2, <2>3, <2>4, <2>5 DEF Next, CycleStep
<1> QED
  BY <1>1, <1>2, Invariance, PTL DEF Spec

\* The loop of a running node that waits in its select while the network is online
\* has its timer set or a change to handle, or SetUnderlay is about to signal one:
\* neither the channel of capacity one nor the timer that stays off while offline
\* loses the wake-up that the next discovery needs.
NoLostWakeup ==
  running /\ loop[ctrl].pc = "select" /\ loop[ctrl].net.online =>
    loop[ctrl].timer \/ loop[ctrl].changed \/ call = "signal"

\* The safety core of EndpointConverges, for any peers, networks and sessions.
THEOREM LoopIsAwake == Spec => []NoLostWakeup
<1>1. IInv /\ WakeInv => NoLostWakeup
  BY DEF IInv, NodeIsSound, WakeInv, Alert, NoLostWakeup
<1> QED
  BY <1>1, Invariance, Wakefulness, PTL

\* While the node counts as running and its device has failed, or its loop has
\* ended, a background Stop is waiting for the lifecycle mutex: no interleaving
\* of Start, Stop, SetUnderlay and the loop leaves a dead node that says it runs.
FailedNodeIsStopped ==
  running /\ (device[dev] # "open" \/ loop[ctrl].ctx = "cancelled" \/ loop[ctrl].pc = "done")
    => stops > 0

\* The safety core of what StopReturns says of a failed device.
THEOREM FailureIsStopped == Spec => []FailedNodeIsStopped
<1>1. IInv /\ WakeInv => FailedNodeIsStopped
  <2> SUFFICES ASSUME IInv, WakeInv, running,
                      device[dev] # "open" \/ loop[ctrl].ctx = "cancelled" \/ loop[ctrl].pc = "done"
               PROVE  stops > 0
    BY DEF FailedNodeIsStopped
  <2>1. ctrl \in Sessions /\ dev = ctrl /\ device[dev] \in {"none", "open", "closed"}
    BY Zenon DEF IInv, NodeIsSound, TypeOK
  <2> QED
    BY <2>1 DEF WakeInv, Alert
<1> QED
  BY <1>1, Invariance, Wakefulness, PTL

\* A Stop that waits for a loop has cancelled it: the exit case of its select is
\* ready, its cycle has no live context, and the loop it waits for exists.  So
\* Stop never waits for a loop that waits for something else.
StopWaitsForTheEnding ==
  call = "join" =>
    LET l == loop[pending.ctrl]
    IN  l.ctx = "cancelled" /\ l.cycle # "live" /\ l.pc # "none"

\* The safety core of what StopReturns says of the calls.
THEOREM StopWaitsRightly == Spec => []StopWaitsForTheEnding
<1>1. IInv /\ WakeInv => StopWaitsForTheEnding
  BY DEF IInv, NodeIsSound, WakeInv, Alert, StopWaitsForTheEnding
<1> QED
  BY <1>1, Invariance, Wakefulness, PTL

\* A step that sends no record: no Set is called with a live context, and what the
\* store takes was on its way before.  Closing the sockets makes a record stale.
SendsNothing ==
  /\ \A s \in Sessions, p \in Peers : ~(Publish(s, p) \/ PublishCutOff(s, p))
  /\ \A p \in Peers :
       sent[p] = None => sent'[p] = None /\ store'[p] \in {store[p], Age(store[p])}

\* From the moment Stop has cancelled the controller until the next Start, no
\* record is sent.
StoppedNodeSendsNothing ==
  [][~running /\ call # "cancel" => SendsNothing]_vars

\* Publishing is cut off by Stop: although its requests are not waited for, no
\* interleaving of the cancelled loop, its deadline, a failing device and later
\* calls has it start another.
THEOREM SilentWhenStopped == Spec => StoppedNodeSendsNothing
<1>1. IInv /\ WakeInv /\ [Next]_vars => [~running /\ call # "cancel" => SendsNothing]_vars
  <2> SUFFICES ASSUME IInv, WakeInv, [Next]_vars, ~running, call # "cancel" PROVE SendsNothing
    OBVIOUS
  <2>1. ASSUME NEW s \in Sessions, NEW p \in Peers, Publish(s, p) \/ PublishCutOff(s, p) PROVE FALSE
    <3>1. loop[s].pc = "publish" /\ loop[s].cycle = "live"
      BY <2>1 DEF Publish, PublishCutOff
    <3>2. s = dev /\ call = "join" /\ pending.ctrl = dev
      BY <3>1, MobileAssumption DEF IInv, NodeIsSound, SessionsAreSound
    <3> QED
      BY <3>1, <3>2 DEF WakeInv, Alert
  <2>2. ASSUME UNCHANGED published PROVE SendsNothing
    BY <2>2, <2>1 DEF published, SendsNothing
  <2>3. ASSUME NEW s \in Sessions, NEW open, NEW ls, Rebind(s, open, ls) PROVE SendsNothing
    BY <2>3, <2>1, MobileAssumption DEF Rebind, SendsNothing, Age
  <2>4. ASSUME NEW p \in Peers, StoreTakes(p) PROVE SendsNothing
    BY <2>1, <2>4 DEF IInv, TypeOK, PublishedOK, StoreTakes, SendsNothing
  <2>5. CASE CallStep
    <3>1. dev \in Sessions \union {None}
      BY DEF IInv, TypeOK
    <3>2. CASE UNCHANGED <<store, sent>>
      BY <2>2, <3>2 DEF published
    <3>3. CASE StopFinish
      <4>1. dev \in Sessions
        BY <3>3 DEF StopFinish, IInv, NodeIsSound
      <4>2. PICK ls : Rebind(dev, FALSE, ls)
        BY <3>3 DEF StopFinish, CloseDevice
      <4> QED
        BY <2>3, <4>1, <4>2
    <3> QED
      BY <2>5, <3>2, <3>3 DEF CallStep, NetworkChanged, Signal, ApplyUnderlay, StopCancel
  <2>6. ASSUME NEW s \in Sessions, NEW p \in Peers, SetPeerEndpointFails(s, p) PROVE FALSE
    BY <2>6 DEF SetPeerEndpointFails
  <2>7. ASSUME NEW s \in Sessions,
               \/ LoopExit(s) \/ TakeChanged(s) \/ CycleTimeout(s) \/ Dispatch(s)
               \/ ProbeStart(s) \/ ProbeAnswer(s) \/ ProbeFails(s)
               \/ Discovered(s) \/ Sample(s) \/ EndCycle(s)
               \/ \E loaded \in BOOLEAN : StartCycle(s, loaded)
               \/ \E p \in Peers : PublishFails(s, p) \/ EstablishPeer(s, p) \/ Progress(s, p)
        PROVE  UNCHANGED published
    BY <2>7, Zenon DEF LoopExit, TakeChanged, CycleTimeout, Dispatch, ProbeStart, ProbeAnswer,
       ProbeFails, Discovered, Sample, EndCycle, StartCycle, PublishFails, EstablishPeer, Progress
  <2>8. CASE \/ \E s \in Sessions : Start(s)
             \/ \E state \in Underlays, rebind \in BOOLEAN : SetUnderlay(state, rebind)
             \/ \E background \in BOOLEAN : StopBegin(background)
             \/ UNCHANGED vars
    BY <2>2, <2>8 DEF Start, SetUnderlay, StopBegin, vars, published
  <2> QED
    BY <2>2, <2>1, <2>4, <2>5, <2>6, <2>7, <2>8 DEF Next, CycleStep
<1> QED
  BY <1>1, Invariance, Wakefulness, PTL DEF Spec, StoppedNodeSendsNothing

-----------------------------------------------------------------------------
\* SelectEndpoint never uses an empty field of a record, and with a preference
\* never a family the host is known not to have.
THEOREM SelectsUsable ==
  ASSUME NEW record, NEW protocol, NEW local, None \notin Families,
         SelectEndpoint(record, protocol, local) # None
  PROVE  LET f == SelectEndpoint(record, protocol, local)
         IN  /\ f \in Families /\ record[f] # None
             /\ protocol \in {"prefer_ipv4", "prefer_ipv6"} /\ local # {} => f \in local
BY DEF SelectEndpoint, Families

\* With a preference it returns an error only if no family could be used.
THEOREM SelectsIfPossible ==
  ASSUME NEW record, NEW protocol \in {"prefer_ipv4", "prefer_ipv6"}, NEW local,
         NEW f \in Families, record[f] # None, local = {} \/ f \in local, None \notin Families
  PROVE  SelectEndpoint(record, protocol, local) # None
BY DEF SelectEndpoint, Families

\* What DiscoverEndpoints returns without an error can be published: validate does
\* not refuse it as empty.
THEOREM DiscoveredIsEncodable ==
  ASSUME NEW protocol, NEW found, DiscoverySucceeds(protocol, found)
  PROVE  Encodable(found)
<1>1. CASE protocol = "dualstack"
  BY <1>1 DEF DiscoverySucceeds, Encodable
<1>2. CASE protocol # "dualstack"
  <2>2. Wanted(protocol) # {} /\ \A f \in Wanted(protocol) : found[f] # None
    BY <1>2 DEF DiscoverySucceeds
  <2>3. Wanted(protocol) \subseteq Families
    BY DEF Wanted, Families
  <2> QED
    BY <2>2, <2>3 DEF Encodable
<1> QED
  BY <1>1, <1>2
=============================================================================
