------------------------------ MODULE WgProxy -------------------------------
(***************************************************************************)
(* The UDP proxy of one WireGuard interface: the memoizing Manager, the    *)
(* Proxy with its sockets and relay loops, the Demux maps                  *)
(* (internal/wgproxy), and the wg.Client decorator that drives them        *)
(* (internal/wg/proxy_client.go).                                          *)
(*                                                                         *)
(* Locks are modelled where a step of another goroutine fits between two   *)
(* steps of a holder: manager.mu is held by Close until the loops have     *)
(* ended, proxy.mu by SetPeerEndpoint between the demux and remote.        *)
(* STUN traffic over the same outer socket is module StunExchange.         *)
(***************************************************************************)
CONSTANTS
  Peers,     \* WireGuard public keys
  Addrs,     \* normalized remote endpoints
  Callers,   \* goroutines that use the client: bootstrap, publish, establish
  NoPeer, NoAddr, Free

ASSUME NoPeerAssumption == NoPeer \notin Peers
ASSUME NoAddrAssumption == NoAddr \notin Addrs
ASSUME FreeAssumption == Free \notin Callers

VARIABLES
  managerClosed, \* Manager.closed
  outer,         \* the outer socket: "unbound", "open", "closed"
  closed,        \* Proxy.closed
  inner,         \* inner[p]: p's loopback socket: "none", "open", "closed"
  innerLoop,     \* innerLoop[p]: "none", "running", "ended"
  outerLoop,     \* "none", "reading", "relaying", "ended"
  packet,        \* what the outer loop relays: the peer it was attributed to
  mu,            \* holder of Proxy.mu across the two halves of SetPeerEndpoint
  peerBySrc, srcByPeer,   \* Demux
  remote,        \* remote[p]: peerState.remote
  pc,            \* pc[c]: next step of a caller
  job,           \* job[c]: <<peer, endpoint>>; NoAddr for a Device call
  more,          \* more[c]: the peers a Device call has yet to register
  closer         \* the goroutine in Close: next step

sockVars == <<managerClosed, outer, closed, inner, innerLoop>>
mapVars == <<peerBySrc, srcByPeer, remote, mu>>
callVars == <<pc, job, more>>
loopVars == <<outerLoop, packet>>
vars == <<sockVars, mapVars, callVars, loopVars, closer>>

NoJob == <<NoPeer, NoAddr>>

TypeOK ==
  /\ managerClosed \in BOOLEAN /\ closed \in BOOLEAN
  /\ outer \in {"unbound", "open", "closed"}
  /\ inner \in [Peers -> {"none", "open", "closed"}]
  /\ innerLoop \in [Peers -> {"none", "running", "ended"}]
  /\ outerLoop \in {"none", "reading", "relaying", "ended"}
  /\ packet \in Peers \union {NoPeer}
  /\ mu \in Callers \union {Free}
  /\ peerBySrc \in [Addrs -> Peers \union {NoPeer}]
  /\ srcByPeer \in [Peers -> Addrs \union {NoAddr}]
  /\ remote \in [Peers -> Addrs \union {NoAddr}]
  /\ pc \in [Callers -> {"idle", "ensure", "add", "program", "store", "kernel"}]
  /\ job \in [Callers -> (Peers \X (Addrs \union {NoAddr})) \union {NoJob}]
  /\ more \in [Callers -> SUBSET Peers]
  /\ closer \in {"idle", "mark", "outer", "inner", "wait", "done"}

Init ==
  /\ managerClosed = FALSE /\ outer = "unbound" /\ closed = FALSE
  /\ inner = [p \in Peers |-> "none"] /\ innerLoop = [p \in Peers |-> "none"]
  /\ outerLoop = "none" /\ packet = NoPeer
  /\ mu = Free
  /\ peerBySrc = [a \in Addrs |-> NoPeer] /\ srcByPeer = [p \in Peers |-> NoAddr]
  /\ remote = [p \in Peers |-> NoAddr]
  /\ pc = [c \in Callers |-> "idle"]
  /\ job = [c \in Callers |-> NoJob]
  /\ more = [c \in Callers |-> {}]
  /\ closer = "idle"

PeerOf(c) == job[c][1]
AddrOf(c) == job[c][2]

\* A call of the client returns.
Returns(c) ==
  /\ pc' = [pc EXCEPT ![c] = "idle"]
  /\ job' = [job EXCEPT ![c] = NoJob]
  /\ more' = [more EXCEPT ![c] = {}]

\* AddPeer succeeded: UpdatePeerEndpoint goes on to SetPeerEndpoint, Device to its
\* next peer, if there is one.
Registered(c) ==
  \/ /\ AddrOf(c) # NoAddr
     /\ pc' = [pc EXCEPT ![c] = "program"]
     /\ UNCHANGED <<job, more>>
  \/ AddrOf(c) = NoAddr /\ more[c] = {} /\ Returns(c)
  \/ /\ AddrOf(c) = NoAddr
     /\ \E q \in more[c] :
          /\ job' = [job EXCEPT ![c] = <<q, NoAddr>>]
          /\ more' = [more EXCEPT ![c] = @ \ {q}]
     /\ UNCHANGED pc

-----------------------------------------------------------------------------
(* Faulty variants of the actions below.                                   *)

\* For binds a new socket after Close.
EnsureProxyAfterClose(c, ok) ==
  /\ pc[c] = "ensure" /\ closer \in {"idle", "done"}
  /\ outer' = IF ok THEN "open" ELSE outer
  /\ outerLoop' = IF ok THEN "reading" ELSE outerLoop
  /\ IF ok THEN pc' = [pc EXCEPT ![c] = "add"] /\ UNCHANGED <<job, more>> ELSE Returns(c)
  /\ UNCHANGED <<managerClosed, closed, inner, innerLoop, packet, mapVars, closer>>

\* AddPeer does not look at closed.
AddPeerUnchecked(c) ==
  /\ pc[c] = "add" /\ mu = Free
  /\ IF inner[PeerOf(c)] = "none"
       THEN /\ inner' = [inner EXCEPT ![PeerOf(c)] = "open"]
            /\ innerLoop' = [innerLoop EXCEPT ![PeerOf(c)] = "running"]
       ELSE UNCHANGED <<inner, innerLoop>>
  /\ Registered(c)
  /\ UNCHANGED <<managerClosed, outer, closed, mapVars, loopVars, closer>>

\* Program leaves the previous mapping behind.
ProgramKeepsOld(p, a) ==
  /\ peerBySrc[a] \in {p, NoPeer}
  /\ srcByPeer' = [srcByPeer EXCEPT ![p] = a]
  /\ peerBySrc' = [peerBySrc EXCEPT ![a] = p]

\* Close forgets the inner sockets.
CloseOuterOnly ==
  /\ closer = "inner" /\ mu = Free
  /\ closer' = "wait"
  /\ UNCHANGED <<sockVars, mapVars, callVars, loopVars>>

\* Close empties the peer map.
CloseInnerForgets ==
  /\ closer = "inner" /\ mu = Free
  /\ inner' = [p \in Peers |-> "none"]
  /\ closer' = "wait"
  /\ UNCHANGED <<managerClosed, outer, closed, innerLoop, mapVars, callVars, loopVars>>

\* A failing AddPeer is tried again from the start, as often as it fails.
AddPeerRetries(c) ==
  /\ pc[c] = "add" /\ mu = Free
  /\ closed \/ inner[PeerOf(c)] = "none"
  /\ pc' = [pc EXCEPT ![c] = "ensure"]
  /\ UNCHANGED <<sockVars, mapVars, job, more, loopVars, closer>>

-----------------------------------------------------------------------------
(* Callers: proxyClient.Device and proxyClient.UpdatePeerEndpoint.         *)

\* Device registers every peer of the interface, beginning with p.
Device(c, p) ==
  /\ pc[c] = "idle"
  /\ job' = [job EXCEPT ![c] = <<p, NoAddr>>]
  /\ more' = [more EXCEPT ![c] = Peers \ {p}]
  /\ pc' = [pc EXCEPT ![c] = "ensure"]
  /\ UNCHANGED <<sockVars, mapVars, loopVars, closer>>

UpdatePeerEndpoint(c, p, a) ==
  /\ pc[c] = "idle"
  /\ job' = [job EXCEPT ![c] = <<p, a>>]
  /\ pc' = [pc EXCEPT ![c] = "ensure"]
  /\ UNCHANGED <<sockVars, mapVars, more, loopVars, closer>>

\* Manager.For under manager.mu: an error once closed, the proxy if there is one,
\* otherwise New, which binds the outer socket and starts its loop, or fails.
EnsureProxy(c, ok) ==
  /\ pc[c] = "ensure" /\ closer \in {"idle", "done"}
  /\ \/ managerClosed /\ ~ok /\ UNCHANGED <<outer, outerLoop>>
     \/ ~managerClosed /\ outer # "unbound" /\ ok /\ UNCHANGED <<outer, outerLoop>>
     \/ ~managerClosed /\ outer = "unbound" /\ ok /\ outer' = "open" /\ outerLoop' = "reading"
     \/ ~managerClosed /\ outer = "unbound" /\ ~ok /\ UNCHANGED <<outer, outerLoop>>
  /\ IF ok THEN pc' = [pc EXCEPT ![c] = "add"] /\ UNCHANGED <<job, more>> ELSE Returns(c)
  /\ UNCHANGED <<managerClosed, closed, inner, innerLoop, packet, mapVars, closer>>

\* AddPeer under proxy.mu: the peer's socket and loop exist from now on.
AddPeer(c) ==
  /\ pc[c] = "add" /\ mu = Free /\ ~closed
  /\ IF inner[PeerOf(c)] = "none"
       THEN /\ inner' = [inner EXCEPT ![PeerOf(c)] = "open"]
            /\ innerLoop' = [innerLoop EXCEPT ![PeerOf(c)] = "running"]
       ELSE UNCHANGED <<inner, innerLoop>>
  /\ Registered(c)
  /\ UNCHANGED <<managerClosed, outer, closed, mapVars, loopVars, closer>>

\* ErrProxyClosed, or the inner socket cannot be bound: the whole call fails.
AddPeerFails(c) ==
  /\ pc[c] = "add" /\ mu = Free
  /\ closed \/ inner[PeerOf(c)] = "none"
  /\ Returns(c)
  /\ UNCHANGED <<sockVars, mapVars, loopVars, closer>>

\* Demux.Program under demux.mu, for an endpoint nobody else owns.
Program(p, a) ==
  /\ peerBySrc[a] \in {p, NoPeer}
  /\ srcByPeer' = [srcByPeer EXCEPT ![p] = a]
  /\ peerBySrc' = [b \in Addrs |->
       IF b = a THEN p
       ELSE IF b = srcByPeer[p] /\ peerBySrc[b] = p THEN NoPeer ELSE peerBySrc[b]]

\* Faulty variant: proxy.mu is released before remote is stored.
SetPeerEndpointUnlocked(c) ==
  /\ pc[c] = "program" /\ mu = Free
  /\ Program(PeerOf(c), AddrOf(c))
  /\ pc' = [pc EXCEPT ![c] = "store"]
  /\ UNCHANGED <<sockVars, mu, remote, job, more, loopVars, closer>>

\* SetPeerEndpoint, first half: proxy.mu stays held.
SetPeerEndpoint(c) ==
  /\ pc[c] = "program" /\ mu = Free
  /\ inner[PeerOf(c)] # "none"
  /\ Program(PeerOf(c), AddrOf(c))
  /\ mu' = c
  /\ pc' = [pc EXCEPT ![c] = "store"]
  /\ UNCHANGED <<sockVars, remote, job, more, loopVars, closer>>

\* "unknown proxy peer", or Program's "endpoint already belongs to another peer".
SetPeerEndpointRefused(c) ==
  /\ pc[c] = "program" /\ mu = Free
  /\ inner[PeerOf(c)] = "none" \/ peerBySrc[AddrOf(c)] \notin {PeerOf(c), NoPeer}
  /\ Returns(c)
  /\ UNCHANGED <<sockVars, mapVars, loopVars, closer>>

\* SetPeerEndpoint, second half.
StoreRemote(c) ==
  /\ pc[c] = "store"
  /\ remote' = [remote EXCEPT ![PeerOf(c)] = AddrOf(c)]
  /\ mu' = Free
  /\ pc' = [pc EXCEPT ![c] = "kernel"]
  /\ UNCHANGED <<sockVars, peerBySrc, srcByPeer, job, more, loopVars, closer>>

\* inner.UpdatePeerEndpoint with the loopback address; its result is the caller's.
UpdateKernel(c) ==
  /\ pc[c] = "kernel"
  /\ Returns(c)
  /\ UNCHANGED <<sockVars, mapVars, loopVars, closer>>

-----------------------------------------------------------------------------
(* The relay loops.                                                        *)

\* outerLoop reads a packet from a and Classify attributes it, or drops it.
OuterReceive(a) ==
  /\ outerLoop = "reading" /\ outer = "open"
  /\ peerBySrc[a] # NoPeer
  /\ packet' = peerBySrc[a]
  /\ outerLoop' = "relaying"
  /\ UNCHANGED <<sockVars, mapVars, callVars, closer>>

\* outerLoop finds the peer's inner socket under proxy.mu and writes to it.
OuterRelay ==
  /\ outerLoop = "relaying" /\ mu = Free
  /\ packet' = NoPeer
  /\ outerLoop' = "reading"
  /\ UNCHANGED <<sockVars, mapVars, callVars, closer>>

\* A read fails: the socket is closed, or the loop finds the proxy closed.
ReadEnds(socket) == socket = "closed" \/ (closed /\ mu = Free)

OuterLoopEnds ==
  /\ outerLoop = "reading" /\ ReadEnds(outer)
  /\ outerLoop' = "ended"
  /\ UNCHANGED <<sockVars, mapVars, callVars, packet, closer>>

InnerLoopEnds(p) ==
  /\ innerLoop[p] = "running" /\ ReadEnds(inner[p])
  /\ innerLoop' = [innerLoop EXCEPT ![p] = "ended"]
  /\ UNCHANGED <<managerClosed, outer, closed, inner, mapVars, callVars, loopVars, closer>>

-----------------------------------------------------------------------------
(* Manager.Close, which holds manager.mu throughout, and Proxy.Close.      *)

CloseManager ==
  /\ closer = "idle"
  /\ managerClosed' = TRUE
  /\ closer' = IF outer = "unbound" THEN "done" ELSE "mark"
  /\ UNCHANGED <<outer, closed, inner, innerLoop, mapVars, callVars, loopVars>>

CloseMark ==
  /\ closer = "mark" /\ mu = Free
  /\ closed' = TRUE
  /\ closer' = "outer"
  /\ UNCHANGED <<managerClosed, outer, inner, innerLoop, mapVars, callVars, loopVars>>

\* closeSockets: the outer socket, without a lock.
CloseOuter ==
  /\ closer = "outer"
  /\ outer' = "closed"
  /\ closer' = "inner"
  /\ UNCHANGED <<managerClosed, closed, inner, innerLoop, mapVars, callVars, loopVars>>

\* closeSockets: every inner socket, under proxy.mu.
CloseInner ==
  /\ closer = "inner" /\ mu = Free
  /\ inner' = [p \in Peers |-> IF inner[p] = "open" THEN "closed" ELSE inner[p]]
  /\ closer' = "wait"
  /\ UNCHANGED <<managerClosed, outer, closed, innerLoop, mapVars, callVars, loopVars>>

\* loops.Wait.
CloseReturns ==
  /\ closer = "wait"
  /\ outerLoop = "ended"
  /\ \A p \in Peers : innerLoop[p] # "running"
  /\ closer' = "done"
  /\ UNCHANGED <<sockVars, mapVars, callVars, loopVars>>

-----------------------------------------------------------------------------
Call(c) == \E p \in Peers : Device(c, p) \/ \E a \in Addrs : UpdatePeerEndpoint(c, p, a)

CallStep(c) ==
  \/ \E ok \in BOOLEAN : EnsureProxy(c, ok)
  \/ AddPeer(c) \/ AddPeerFails(c)
  \/ SetPeerEndpoint(c) \/ SetPeerEndpointRefused(c) \/ StoreRemote(c) \/ UpdateKernel(c)

Loops == OuterRelay \/ OuterLoopEnds \/ \E p \in Peers : InnerLoopEnds(p)

Close == CloseMark \/ CloseOuter \/ CloseInner \/ CloseReturns

Next ==
  \/ \E c \in Callers : Call(c) \/ CallStep(c)
  \/ Loops \/ \E a \in Addrs : OuterReceive(a)
  \/ CloseManager \/ Close

Spec == Init /\ [][Next]_vars

\* Goroutines inside the proxy get to run, and Go's mutexes do not starve a waiter
\* (SF where a step has to acquire one).  A read is sure to fail only on a closed
\* socket.  Nobody is obliged to call the proxy, to send it packets or to close it.
Fairness ==
  /\ \A c \in Callers : SF_vars(CallStep(c))
  /\ SF_vars(OuterRelay \/ (outer = "closed" /\ OuterLoopEnds))
  /\ \A p \in Peers : WF_vars(inner[p] = "closed" /\ InnerLoopEnds(p))
  /\ SF_vars(Close)

FairSpec == Spec /\ Fairness

-----------------------------------------------------------------------------
(* Properties.                                                             *)

\* The two maps of the demux are inverse to each other: an endpoint is attributed
\* to at most one peer, a peer owns at most one endpoint, and no mapping is left
\* behind when a peer moves.
MapsAreInverse ==
  \A p \in Peers, a \in Addrs : peerBySrc[a] = p <=> srcByPeer[p] = a

\* "the only way forwarding state changes" (proxy.go:201): what a peer sends goes
\* to the endpoint its packets are accepted from, or, while the demux is ahead of
\* remote, to the previous one, which is then nobody else's yet.
SendsToOwnEndpoint ==
  \A p \in Peers :
    /\ remote[p] # srcByPeer[p] => \E c \in Callers : mu = c /\ PeerOf(c) = p
    /\ remote[p] # NoAddr => peerBySrc[remote[p]] \in {p, NoPeer}

\* A packet is attributed only to a peer that has an inner socket: the relay's
\* "peer without inner socket" branch is dead.
RelayHasSocket ==
  /\ outerLoop = "relaying" => inner[packet] # "none"
  /\ \A p \in Peers : srcByPeer[p] # NoAddr => inner[p] # "none"

\* Once Close has returned no socket is open and no relay loop runs, whatever
\* AddPeer was doing meanwhile.
CloseIsComplete ==
  closer = "done" =>
    /\ outer # "open" /\ outerLoop \in {"none", "ended"}
    /\ \A p \in Peers : inner[p] # "open" /\ innerLoop[p] # "running"

\* "every socket is bound exactly once and never rebound" (proxy.go:3).
NeverRebound ==
  [][/\ outer = "closed" => outer' = "closed"
     /\ \A p \in Peers : inner[p] = "closed" => inner'[p] = "closed"
     /\ managerClosed /\ outer = "unbound" => outer' = "unbound"]_vars

\* Close waits for the loops under manager.mu, and they end: again and again there
\* is no Close under way, so one that has begun returns.
CloseTerminates == []<>(closer \in {"idle", "done"})

\* A call of the client returns, also while another one is under way and while
\* the proxy is being closed: no caller stays inside the proxy for ever.
CallsReturn == \A c \in Callers : []<>(pc[c] = "idle")
=============================================================================
