------------------------------- MODULE Mobile -------------------------------
(***************************************************************************)
(* The mobile node (mobile/node.go, network.go), its discovery loop        *)
(* (controller.go), and the sockets they share (internal/mobilebind).      *)
(*                                                                         *)
(* Two actors.  The application calls Start, Stop and SetUnderlay; the     *)
(* lifecycle mutex serialises the calls, so one variable, call, says where *)
(* the current one is.  A Stop the node itself starts in the background    *)
(* after a device failure queues for the same mutex.  The other actor is   *)
(* the run loop of each started session.  Both take the node mutex mu for  *)
(* the sections that are single steps here.                                *)
(*                                                                         *)
(* A session identifies what one Start creates: the device, its bind, the  *)
(* controller; an identifier is used again once nothing of its session is  *)
(* left.  Of an endpoint the node has discovered, the model keeps whether  *)
(* it belongs to the sockets the bind has open now: every opening may get  *)
(* another port and mapping, so closing the sockets makes what was         *)
(* discovered through them Stale.                                          *)
(***************************************************************************)
EXTENDS Naturals, Discovery

CONSTANTS
  Peers,         \* configured peers that have a discovery plugin
  Protocol,      \* the interface protocol, cfg.Interface.Protocol
  Underlays,     \* the network states the application may report
  Current,       \* an endpoint of the sockets that are open
  Stale,         \* an endpoint of sockets closed since
  Sessions,      \* identifiers of sessions
  MaxStops       \* bound on the background Stops that are pending

Endpoints == {None, Current, Stale}
Underlay == [online : BOOLEAN, families : SUBSET Families]
Offline == [online |-> FALSE, families |-> {}]

ASSUME MobileAssumption ==
  /\ Underlays \subseteq Underlay
  /\ MaxStops \in Nat /\ None \notin Sessions
  /\ None # Current /\ None # Stale /\ Current # Stale

VARIABLES
  call,      \* where the holder of the lifecycle mutex is, "none" when free
  pending,   \* local variables of that call: previous, rebind, ctrl
  stops,     \* background Stops waiting for the lifecycle mutex
  network,   \* Node.network
  running,   \* Node.running
  dev,       \* Node.dev: its session, None for nil
  ctrl,      \* Node.ctrl: its session, None for nil
  device,    \* device[s]: "none" | "open" | "closed"
  sock,      \* sock[s]: the bind of session s is open
  loop,      \* loop[s]: the run loop of session s and its controller
  store,     \* store[p]: of the record the store has for peer p, its Freshness
  sent       \* sent[p]: the same of a record on its way to the store, None if none

published == <<store, sent>>
node == <<call, pending, stops, network, running, dev, ctrl>>
vars == <<node, device, sock, loop, published>>

Calls == {"none", "changed", "signal", "device", "cancel", "join"}
Empty == [f \in Families |-> None]

\* A controller and its loop.  cycle is the context of the current cycle; net
\* is controller.network; client is the plugin client: none, of the current
\* network, or made before its last change; evidence[p] is the authenticated
\* progress of p since the last sample or Reset, "old" if it may date from
\* before the last change; todo and reply belong to discover (families left, the
\* channel of the probe) and left to publish and establish (peers left).
NewLoop(net) ==
  [pc |-> "select", ctx |-> "live", cycle |-> "none", net |-> net, changed |-> FALSE,
   timer |-> TRUE, client |-> "none", evidence |-> [p \in Peers |-> "none"],
   data |-> Empty, todo |-> {}, reply |-> None, left |-> {}]

NoLoop == [NewLoop(Offline) EXCEPT !.pc = "none", !.timer = FALSE]

NoCall == [previous |-> FALSE, rebind |-> FALSE, ctrl |-> None]

Init ==
  /\ call = "none" /\ pending = NoCall /\ stops = 0
  /\ network = Offline /\ running = FALSE /\ dev = None /\ ctrl = None
  /\ device = [s \in Sessions |-> "none"]
  /\ sock = [s \in Sessions |-> FALSE]
  /\ loop = [s \in Sessions |-> NoLoop]
  /\ store = [p \in Peers |-> None] /\ sent = [p \in Peers |-> None]

-----------------------------------------------------------------------------
(* The device: wireguard-go, as the node uses it.  Closing it closes the    *)
(* bind; Up and BindUpdate of an open device open the bind again; Up, Down  *)
(* and BindUpdate of a closed one return nil and leave it closed.           *)

\* Closing the sockets.
Age(e) == IF e = Current THEN Stale ELSE e
AgeLoop(l) == [l EXCEPT !.data = [f \in Families |-> Age(@[f])], !.reply = Age(@)]

\* A record is as fresh as its oldest endpoint.
Freshness(data) ==
  IF \E f \in Families : data[f] = Stale THEN Stale
  ELSE IF Encodable(data) THEN Current ELSE None

\* The sockets of s are closed, and opened again if open holds; ls is what the
\* loops are otherwise.
Rebind(s, open, ls) ==
  /\ sock' = [sock EXCEPT ![s] = open]
  /\ loop' = [ls EXCEPT ![s] = AgeLoop(@)]
  /\ store' = [p \in Peers |-> Age(store[p])]
  /\ sent' = [p \in Peers |-> Age(sent[p])]

CloseDevice(s, ls) == device' = [device EXCEPT ![s] = "closed"] /\ Rebind(s, FALSE, ls)

\* The failure of the device without "go n.Stop()".
DeviceFailsOnly(s, ls) ==
  /\ stops < MaxStops
  /\ CloseDevice(s, ls)
  /\ UNCHANGED stops

\* The device fails: it is closed and a Stop is started in the background.
DeviceFails(s, ls) ==
  /\ stops < MaxStops
  /\ stops' = stops + 1
  /\ CloseDevice(s, ls)

-----------------------------------------------------------------------------
(* Node: Start, SetUnderlay, Stop.                                          *)

\* Nothing is left of session s.
Unused(s) == loop[s].pc = "none" /\ ~sock[s] /\ device[s] # "open" /\ s # dev

\* A Start that brings the device up whatever the network is.
StartAlwaysUp(s) ==
  /\ call = "none" /\ ~running /\ Unused(s)
  /\ running' = TRUE /\ dev' = s /\ ctrl' = s
  /\ device' = [device EXCEPT ![s] = "open"]
  /\ sock' = [sock EXCEPT ![s] = TRUE]
  /\ loop' = [loop EXCEPT ![s] = NewLoop(network)]
  /\ UNCHANGED <<call, pending, stops, network, store, sent>>

\* Start holds lifecycle and mu throughout.  A failed Start closes what it
\* opened and leaves the node as it was, so only the successful one is a step.
Start(s) ==
  /\ call = "none" /\ ~running /\ Unused(s)
  /\ running' = TRUE /\ dev' = s /\ ctrl' = s
  /\ device' = [device EXCEPT ![s] = "open"]
  /\ sock' = [sock EXCEPT ![s] = network.online]
  /\ loop' = [loop EXCEPT ![s] = NewLoop(network)]
  /\ UNCHANGED <<call, pending, stops, network, store, sent>>

\* SetUnderlay up to its first Unlock.
SetUnderlay(state, rebind) ==
  /\ call = "none"
  /\ pending' = [previous |-> network.online, rebind |-> rebind, ctrl |-> ctrl]
  /\ network' = state
  /\ call' = IF ctrl # None THEN "changed" ELSE "device"
  /\ UNCHANGED <<stops, running, dev, ctrl, device, sock, loop, store, sent>>

MovedTo(l, net) ==
  [l EXCEPT !.net = net,
            !.client = IF @ = "none" THEN "none" ELSE "old",
            !.evidence = [p \in Peers |-> IF @[p] = "none" THEN "none" ELSE "old"]]

\* cycleCancel, if there is a cycle.
CancelCycle(l) == [l EXCEPT !.cycle = IF @ = "none" THEN "none" ELSE "cancelled"]

\* networkChanged under networkMu without the call of cycleCancel.
NetworkChangedKeepsCycle ==
  /\ call = "changed"
  /\ loop' = [loop EXCEPT ![pending.ctrl] = MovedTo(@, network)]
  /\ call' = "signal"
  /\ UNCHANGED <<pending, stops, network, running, dev, ctrl, device, sock, store, sent>>

\* networkChanged under networkMu: the new state, and the cycle is cancelled.
NetworkChanged ==
  /\ call = "changed"
  /\ loop' = [loop EXCEPT ![pending.ctrl] = CancelCycle(MovedTo(@, network))]
  /\ call' = "signal"
  /\ UNCHANGED <<pending, stops, network, running, dev, ctrl, device, sock, store, sent>>

\* The send into the channel of capacity one; a full channel drops it.
Signal ==
  /\ call = "signal"
  /\ loop' = [loop EXCEPT ![pending.ctrl].changed = TRUE]
  /\ call' = "device"
  /\ UNCHANGED <<pending, stops, network, running, dev, ctrl, device, sock, store, sent>>

\* The rest of SetUnderlay, under mu: Down, Up or BindUpdate of the device.
ApplyUnderlay ==
  /\ call = "device"
  /\ call' = "none" /\ pending' = NoCall
  /\ LET moves == ~network.online \/ ~pending.previous \/ pending.rebind
     IN  IF dev # None /\ running /\ device[dev] = "open" /\ moves
         THEN \/ Rebind(dev, network.online, loop) /\ UNCHANGED <<stops, device>>
              \/ DeviceFails(dev, loop)
         ELSE UNCHANGED <<stops, device, sock, loop, store, sent>>
  /\ UNCHANGED <<network, running, dev, ctrl>>

\* Stop up to its first Unlock; background is the Stop the node started.
StopBegin(background) ==
  /\ call = "none"
  /\ IF background THEN stops > 0 /\ stops' = stops - 1 ELSE running /\ UNCHANGED stops
  /\ IF running
     THEN /\ call' = "cancel" /\ pending' = [NoCall EXCEPT !.ctrl = ctrl]
          /\ running' = FALSE /\ ctrl' = None
     ELSE UNCHANGED <<call, pending, running, ctrl>>
  /\ UNCHANGED <<network, dev, device, sock, loop, store, sent>>

CancelLoop(l) == CancelCycle([l EXCEPT !.ctx = "cancelled"])

\* controller.stop, first half, outside mu.
StopCancel ==
  /\ call = "cancel"
  /\ loop' = [loop EXCEPT ![pending.ctrl] = CancelLoop(@)]
  /\ call' = "join"
  /\ UNCHANGED <<pending, stops, network, running, dev, ctrl, device, sock, store, sent>>

\* A Stop that does not wait for the loop.
StopFinishNoJoin ==
  /\ call = "join"
  /\ CloseDevice(dev, loop)
  /\ dev' = None /\ call' = "none" /\ pending' = NoCall
  /\ UNCHANGED <<stops, network, running, ctrl>>

\* The loop has ended: the manager and the device are closed, and nothing refers
\* to the controller any more.
StopFinish ==
  /\ call = "join"
  /\ loop[pending.ctrl].pc = "done"
  /\ CloseDevice(dev, [loop EXCEPT ![pending.ctrl] = NoLoop])
  /\ dev' = None /\ call' = "none" /\ pending' = NoCall
  /\ UNCHANGED <<stops, network, running, ctrl>>

-----------------------------------------------------------------------------
(* controller.run: the select, and one cycle.                               *)

StepLoop(s, l) == loop' = [loop EXCEPT ![s] = l]
OnlyLoop == UNCHANGED <<node, device, sock>>

LoopExit(s) ==
  /\ loop[s].pc = "select" /\ loop[s].ctx = "cancelled"
  /\ StepLoop(s, [loop[s] EXCEPT !.pc = "done", !.timer = FALSE])
  /\ OnlyLoop /\ UNCHANGED published

\* peerHealth returns no error.
HasHealth == running /\ dev # None

\* Selection.Reset of every peer with the present counters, as zero when there is
\* no health, so that everything received counts as progress.
Reset == [p \in Peers |-> IF HasHealth THEN "none" ELSE "old"]

\* The changed case without pluginsReady = false.
TakeChangedKeepsClient(s) ==
  /\ loop[s].pc = "select" /\ loop[s].changed
  /\ StepLoop(s, [loop[s] EXCEPT !.changed = FALSE, !.timer = TRUE,
                    !.evidence = [p \in Peers |-> "none"]])
  /\ OnlyLoop /\ UNCHANGED published

\* The changed case without timer.Reset.
TakeChangedNoTimer(s) ==
  /\ loop[s].pc = "select" /\ loop[s].changed
  /\ StepLoop(s, [loop[s] EXCEPT !.changed = FALSE, !.client = "none",
                    !.evidence = Reset])
  /\ OnlyLoop /\ UNCHANGED published

\* The changed case: clients are dropped, the counters recorded anew, and the next
\* cycle follows in a second.
TakeChanged(s) ==
  /\ loop[s].pc = "select" /\ loop[s].changed
  /\ StepLoop(s, [loop[s] EXCEPT !.changed = FALSE, !.timer = TRUE, !.client = "none",
                    !.evidence = Reset])
  /\ OnlyLoop /\ UNCHANGED published

\* The clients after LoadPlugins: replaced only if every store could be made.
LoadPlugins(loaded) == IF loaded THEN "fresh" ELSE "none"

\* The head of cycle: it needs plugin clients, and discovers nothing without.
CycleHead(l, loaded) ==
  LET client == IF l.client = "none" THEN LoadPlugins(loaded) ELSE l.client
  IN  [l EXCEPT !.client = client, !.todo = Wanted(Protocol),
                !.pc = IF client = "none" THEN "end" ELSE "discover"]

\* The timer case and the section under networkMu.  Offline there is no cycle and
\* the timer stays off.
StartCycle(s, loaded) ==
  LET l == loop[s]
  IN  /\ l.pc = "select" /\ l.timer
      /\ StepLoop(s, IF ~l.net.online THEN [l EXCEPT !.timer = FALSE]
                     ELSE [CycleHead(l, loaded) EXCEPT !.timer = FALSE, !.cycle = l.ctx])
      /\ OnlyLoop /\ UNCHANGED published

\* discover takes the families in the order of DiscoverEndpoints.
NextFamily(l) == IF "ipv4" \in l.todo THEN "ipv4" ELSE "ipv6"

Resolved(l, endpoint) ==
  [l EXCEPT !.pc = "discover", !.reply = None, !.todo = @ \ {NextFamily(l)},
            !.data[NextFamily(l)] = endpoint]

\* discoverFamily up to the first SendTo: the underlay must offer the family
\* and the bind must be open.  The transaction is registered.
ProbeStart(s) ==
  LET l == loop[s]
  IN  /\ l.pc = "discover" /\ l.todo # {}
      /\ StepLoop(s, IF ~l.net.online \/ NextFamily(l) \notin l.net.families \/ ~sock[s]
                     THEN Resolved(l, None)
                     ELSE [l EXCEPT !.pc = "probe"])
      /\ OnlyLoop /\ UNCHANGED published

\* A receiver of an open socket gets the answer and leaves it in the channel of
\* the transaction, which holds one.  The registry outlives the sockets and the
\* request is repeated through the sockets of the moment.
Dispatch(s) ==
  /\ loop[s].pc = "probe" /\ sock[s] /\ loop[s].reply = None
  /\ StepLoop(s, [loop[s] EXCEPT !.reply = Current])
  /\ OnlyLoop /\ UNCHANGED published

\* Discover takes the answer, maybe after the sockets it describes were closed;
\* select may prefer it to a cancelled context.
ProbeAnswer(s) ==
  /\ loop[s].pc = "probe" /\ loop[s].reply # None
  /\ StepLoop(s, Resolved(loop[s], loop[s].reply))
  /\ OnlyLoop /\ UNCHANGED published

\* Every server of the list failed.
ProbeFails(s) ==
  /\ loop[s].pc = "probe"
  /\ StepLoop(s, Resolved(loop[s], None))
  /\ OnlyLoop /\ UNCHANGED published

\* The result of discover; publish is skipped after an error.
Discovered(s) ==
  LET l == loop[s]
  IN  /\ l.pc = "discover" /\ l.todo = {}
      /\ StepLoop(s, [l EXCEPT !.pc = "publish",
                        !.left = IF DiscoverySucceeds(Protocol, l.data) /\ Encodable(l.data)
                                 THEN Peers ELSE {}])
      /\ OnlyLoop /\ UNCHANGED published

\* Set sends the record of one peer, under a live context, and the store takes it,
\* maybe by the second proxy of the list after Set has given up the first.
Publish(s, p) ==
  /\ loop[s].pc = "publish" /\ p \in loop[s].left /\ loop[s].cycle = "live"
  /\ store' = [store EXCEPT ![p] = Freshness(loop[s].data)]
  /\ sent' \in {sent, [sent EXCEPT ![p] = Freshness(loop[s].data)]}
  /\ StepLoop(s, [loop[s] EXCEPT !.left = @ \ {p}])
  /\ OnlyLoop

\* Set sends the record and waits no longer for the answer: the request fails or
\* the context ends.  The store may still take it, however late (StoreTakes); of
\* several such requests for a peer the model keeps the last.
PublishCutOff(s, p) ==
  /\ loop[s].pc = "publish" /\ p \in loop[s].left /\ loop[s].cycle = "live"
  /\ sent' = [sent EXCEPT ![p] = Freshness(loop[s].data)]
  /\ StepLoop(s, [loop[s] EXCEPT !.left = @ \ {p}])
  /\ OnlyLoop /\ UNCHANGED store

\* Set fails for one peer before anything is sent; the others are still served.
PublishFails(s, p) ==
  /\ loop[s].pc = "publish" /\ p \in loop[s].left
  /\ StepLoop(s, [loop[s] EXCEPT !.left = @ \ {p}])
  /\ OnlyLoop /\ UNCHANGED published

\* A request nobody waits for any more reaches the store.
StoreTakes(p) ==
  /\ sent[p] # None
  /\ store' = [store EXCEPT ![p] = sent[p]]
  /\ sent' = [sent EXCEPT ![p] = None]
  /\ UNCHANGED <<node, device, sock, loop>>

\* establish reads the health of every peer once; a peer with evidence of
\* progress (Selection.Working) keeps its endpoint.  The candidates of the
\* others are not modelled, so what discover found is not needed from here on.
Sample(s) ==
  LET l == loop[s]
  IN  /\ l.pc = "publish" /\ l.left = {}
      /\ StepLoop(s, IF HasHealth
                     THEN [l EXCEPT !.pc = "establish", !.data = Empty,
                             !.evidence = [p \in Peers |-> "none"],
                             !.left = {p \in Peers : l.evidence[p] = "none"}]
                     ELSE [l EXCEPT !.pc = "end", !.data = Empty])
      /\ OnlyLoop /\ UNCHANGED published

\* The other peers get their next candidate, if there is one, the node is
\* running and it differs from the endpoint they have.
EstablishPeer(s, p) ==
  /\ loop[s].pc = "establish" /\ p \in loop[s].left
  /\ StepLoop(s, [loop[s] EXCEPT !.left = @ \ {p}])
  /\ OnlyLoop /\ UNCHANGED published

\* IpcSet of a candidate fails in SetPeerEndpoint: the device is closed, the
\* controller cancelled and a Stop started, which the loop does not wait for.
SetPeerEndpointFails(s, p) ==
  /\ loop[s].pc = "establish" /\ p \in loop[s].left
  /\ running
  /\ DeviceFails(dev, [r \in Sessions |->
       LET l == IF r = ctrl THEN CancelLoop(loop[r]) ELSE loop[r]
       IN  IF r = s THEN [l EXCEPT !.left = @ \ {p}] ELSE l])
  /\ UNCHANGED <<call, pending, network, running, dev, ctrl>>

\* The end of a cycle: the refresh or backoff timer is set.
EndCycle(s) ==
  LET l == loop[s]
  IN  /\ l.pc = "end" \/ (l.pc = "establish" /\ l.left = {})
      /\ StepLoop(s, [l EXCEPT !.pc = "select", !.cycle = "none", !.timer = TRUE, !.todo = {}])
      /\ OnlyLoop /\ UNCHANGED published

\* The deadline of 90 seconds of a cycle.
CycleTimeout(s) ==
  /\ loop[s].cycle = "live"
  /\ StepLoop(s, [loop[s] EXCEPT !.cycle = "cancelled"])
  /\ OnlyLoop /\ UNCHANGED published

\* WireGuard completes a handshake with p or receives from p.
Progress(s, p) ==
  /\ sock[s] /\ loop[s].evidence[p] = "none"
  /\ StepLoop(s, [loop[s] EXCEPT !.evidence[p] = "new"])
  /\ OnlyLoop /\ UNCHANGED published

-----------------------------------------------------------------------------
\* The steps of the node's callers, and those of the loop of session s.
CallStep ==
  NetworkChanged \/ Signal \/ ApplyUnderlay \/ StopCancel \/ StopFinish

CycleStep(s) ==
  \/ \E loaded \in BOOLEAN : StartCycle(s, loaded)
  \/ ProbeStart(s)
  \/ ProbeAnswer(s)
  \/ ProbeFails(s)
  \/ Discovered(s)
  \/ Sample(s)
  \/ EndCycle(s)
  \/ \E p \in Peers :
       \/ Publish(s, p) \/ PublishCutOff(s, p) \/ PublishFails(s, p)
       \/ EstablishPeer(s, p) \/ SetPeerEndpointFails(s, p)

Next ==
  \/ \E s \in Sessions : Start(s)
  \/ \E state \in Underlays, rebind \in BOOLEAN : SetUnderlay(state, rebind)
  \/ \E background \in BOOLEAN : StopBegin(background)
  \/ CallStep
  \/ \E s \in Sessions :
       \/ LoopExit(s) \/ TakeChanged(s) \/ CycleStep(s) \/ CycleTimeout(s) \/ Dispatch(s)
       \/ \E p \in Peers : Progress(s, p)
  \/ \E p \in Peers : StoreTakes(p)

Spec == Init /\ [][Next]_vars

\* A call that holds the lifecycle mutex and a loop inside a cycle keep going;
\* the background Stop gets the mutex in the end, and select does not prefer the
\* timer for ever to the other cases that are ready.
Fairness ==
  /\ WF_vars(CallStep)
  /\ SF_vars(StopBegin(TRUE))
  /\ \A s \in Sessions :
       WF_vars(CycleStep(s)) /\ SF_vars(LoopExit(s) \/ TakeChanged(s))

FairSpec == Spec /\ Fairness

-----------------------------------------------------------------------------
LoopType ==
  [pc : {"none", "select", "discover", "probe", "publish", "establish", "end", "done"},
   ctx : {"live", "cancelled"}, cycle : {"none", "live", "cancelled"}, net : Underlay,
   changed : BOOLEAN, timer : BOOLEAN, client : {"none", "fresh", "old"},
   evidence : [Peers -> {"none", "new", "old"}], data : [Families -> Endpoints],
   todo : SUBSET Families, reply : Endpoints, left : SUBSET Peers]

\* The types of what the controllers published.
PublishedOK == store \in [Peers -> Endpoints] /\ sent \in [Peers -> Endpoints]

\* The types of the node, of its loops and of what they published.
TypeOK ==
  /\ call \in Calls
  /\ pending \in [previous : BOOLEAN, rebind : BOOLEAN, ctrl : Sessions \cup {None}]
  /\ stops \in 0 .. MaxStops /\ network \in Underlay /\ running \in BOOLEAN
  /\ dev \in Sessions \cup {None} /\ ctrl \in Sessions \cup {None}
  /\ device \in [Sessions -> {"none", "open", "closed"}]
  /\ sock \in [Sessions -> BOOLEAN]
  /\ loop \in [Sessions -> LoopType]
  /\ PublishedOK

\* "Offline closes WG sockets": between calls a running node has sockets exactly
\* when its network is online, and its controller works with the same network,
\* whatever order Start, Stop and SetUnderlay came in.  Only a device that failed
\* has none, and StopReturns says that its Stop is on the way.
UnderlayIsApplied ==
  call = "none" /\ running =>
    /\ loop[ctrl].net = network
    /\ device[dev] = "open" => (sock[dev] <=> network.online)

\* When Stop has returned nothing of the session is left: neither its loop nor
\* its sockets, also when the Stop was the one started after a failure.
NothingOutlivesStop ==
  \A s \in Sessions :
    call = "none" /\ ~(running /\ s = dev) =>
      loop[s].pc \in {"none", "done"} /\ ~sock[s] /\ device[s] # "open"

\* "Physical-network callbacks cancel stale work": a cycle whose context is still
\* live holds only endpoints of families the current network has.
LiveResultsAreCurrent ==
  \A s \in Sessions : \A f \in Families :
    loop[s].cycle = "live" /\ loop[s].data[f] # None => f \in loop[s].net.families

\* Plugin clients and traffic counters of the network before the last change do
\* not survive unnoticed: while a running controller has any, the change is
\* still to be signalled or handled.
StaleStateIsFlagged ==
  running =>
    LET l == loop[ctrl]
    IN  l.client = "old" \/ (\E p \in Peers : l.evidence[p] = "old")
          => l.changed \/ call = "signal"

\* A node that stays up and online ends up with its present endpoint published
\* for every peer, and no other, if from some point on every cycle gets an answer
\* of a STUN server in one family at least, and the store answers in time: neither
\* a change during a cycle nor a coalesced one is lost, a family that never works
\* is no obstacle, and a request that the store takes late is made good.
Connected ==
  running /\ call = "none" /\ device[dev] = "open"
    /\ network.online /\ network.families \cap Wanted(Protocol) # {}

\* The last family the network has fails, and none before it has answered.
NothingFound(s) ==
  LET l == loop[s]
  IN  l.todo \cap l.net.families = {NextFamily(l)} /\ ~Encodable(l.data) /\ ProbeFails(s)

Setback ==
  \/ \E state \in Underlays, rebind \in BOOLEAN : SetUnderlay(state, rebind)
  \/ \E s \in Sessions :
       \/ Start(s) \/ CycleTimeout(s) \/ NothingFound(s)
       \/ loop[s].client = "none" /\ StartCycle(s, FALSE)
       \/ \E p \in Peers : PublishFails(s, p) \/ PublishCutOff(s, p)

EndpointConverges ==
  <>[][~Setback]_vars =>
    <>[](Connected => \A p \in Peers : store[p] = Current)

\* Every lifecycle call returns, a Stop also although it waits for a loop that may
\* itself be inside SetPeerEndpoint; and a device that failed does not stay the
\* running one.
StopReturns ==
  []<>(call = "none" /\ (running => device[dev] # "closed"))
=============================================================================
