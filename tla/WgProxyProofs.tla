--------------------------- MODULE WgProxyProofs ----------------------------
(***************************************************************************)
(* Proofs about WgProxy, for any number of peers, endpoints and callers.   *)
(***************************************************************************)
EXTENDS WgProxy, TLAPS

\* What the program counter of a caller says about its job: the second half of
\* SetPeerEndpoint runs under proxy.mu, after Program, for a peer with a socket.
CallsAreSound ==
  \A c \in Callers :
    /\ pc[c] # "idle" => PeerOf(c) \in Peers /\ AddrOf(c) \in Addrs \union {NoAddr}
    /\ pc[c] \in {"program", "store", "kernel"} =>
         AddrOf(c) \in Addrs /\ inner[PeerOf(c)] # "none"
    /\ pc[c] \in {"add", "program", "store", "kernel"} => outer # "unbound"
    /\ pc[c] = "store" <=> mu = c
    /\ pc[c] = "store" => srcByPeer[PeerOf(c)] = AddrOf(c)

\* The order in which Close marks, closes and waits, and what exists before the
\* first EnsureProxy.
CloseIsOrdered ==
  /\ managerClosed <=> closer # "idle"
  /\ closer \in {"outer", "inner", "wait"} => closed
  /\ closed => closer \in {"outer", "inner", "wait", "done"}
  /\ closer \in {"idle", "mark", "outer"} => outer # "closed"
  /\ closer \in {"inner", "wait"} => outer = "closed"
  /\ closer = "done" => closed \/ outer = "unbound"
  /\ closer = "wait" => \A p \in Peers : inner[p] # "open"
  /\ outer = "unbound" => closer \in {"idle", "done"} /\ ~closed
  /\ outer = "unbound" <=> outerLoop = "none"
  /\ outer = "unbound" => \A p \in Peers : inner[p] = "none"
  /\ \A p \in Peers : inner[p] = "none" => innerLoop[p] = "none"
  /\ outerLoop = "relaying" => packet \in Peers

IInv ==
  /\ TypeOK /\ CallsAreSound /\ CloseIsOrdered
  /\ MapsAreInverse /\ SendsToOwnEndpoint /\ RelayHasSocket /\ CloseIsComplete

\* The proxy starts with nothing bound and nobody calling.
LEMMA InitSound == Init => IInv
<1> SUFFICES ASSUME Init PROVE IInv
  OBVIOUS
<1>1. TypeOK
  BY DEF Init, TypeOK
<1>2. CallsAreSound
  BY FreeAssumption DEF Init, CallsAreSound
<1>3. CloseIsOrdered /\ RelayHasSocket /\ CloseIsComplete
  BY DEF Init, CloseIsOrdered, RelayHasSocket, CloseIsComplete
<1>4. MapsAreInverse /\ SendsToOwnEndpoint
  BY NoPeerAssumption, NoAddrAssumption DEF Init, MapsAreInverse, SendsToOwnEndpoint
<1> QED
  BY <1>1, <1>2, <1>3, <1>4 DEF IInv

\* A caller starts Device.
LEMMA DeviceStep ==
  ASSUME IInv, NEW c \in Callers, NEW p \in Peers, Device(c, p)
  PROVE  IInv'
BY NoPeerAssumption, NoAddrAssumption, FreeAssumption
   DEF Device, IInv, TypeOK, CallsAreSound, CloseIsOrdered, MapsAreInverse, SendsToOwnEndpoint,
       RelayHasSocket, CloseIsComplete, PeerOf, AddrOf, sockVars, mapVars, callVars, loopVars

\* A caller starts UpdatePeerEndpoint.
LEMMA UpdateStep ==
  ASSUME IInv, NEW c \in Callers, NEW p \in Peers, NEW a \in Addrs, UpdatePeerEndpoint(c, p, a)
  PROVE  IInv'
BY NoPeerAssumption, NoAddrAssumption, FreeAssumption
   DEF UpdatePeerEndpoint, IInv, TypeOK, CallsAreSound, CloseIsOrdered, MapsAreInverse, SendsToOwnEndpoint,
       RelayHasSocket, CloseIsComplete, PeerOf, AddrOf, sockVars, mapVars, callVars, loopVars

\* Manager.For binds the outer socket at most once, before Close.
LEMMA EnsureStep ==
  ASSUME IInv, NEW c \in Callers, NEW ok \in BOOLEAN, EnsureProxy(c, ok)
  PROVE  IInv'
BY NoPeerAssumption, NoAddrAssumption, FreeAssumption
   DEF EnsureProxy, Returns, NoJob, IInv, TypeOK, CallsAreSound, CloseIsOrdered, MapsAreInverse, SendsToOwnEndpoint,
       RelayHasSocket, CloseIsComplete, PeerOf, AddrOf, sockVars, mapVars, callVars, loopVars

\* AddPeer opens a socket only while the proxy is open.
LEMMA AddStep ==
  ASSUME IInv, NEW c \in Callers, AddPeer(c)
  PROVE  IInv'
<1> USE NoPeerAssumption, NoAddrAssumption, FreeAssumption
    DEF AddPeer, Registered, Returns, NoJob, PeerOf, AddrOf, mapVars, loopVars
<1>1. TypeOK'
  <2>1. inner' \in [Peers -> {"none", "open", "closed"}] /\ innerLoop' \in [Peers -> {"none", "running", "ended"}]
    BY DEF IInv, TypeOK
  <2>2. /\ pc' \in [Callers -> {"idle", "ensure", "add", "program", "store", "kernel"}]
        /\ more' \in [Callers -> SUBSET Peers]
    BY DEF IInv, TypeOK
  <2>3. job' \in [Callers -> (Peers \X (Addrs \union {NoAddr})) \union {NoJob}]
    BY DEF IInv, TypeOK
  <2>4. UNCHANGED <<managerClosed, closed, outer, outerLoop, packet, mu, peerBySrc, srcByPeer, remote, closer>>
    BY Zenon
  <2> HIDE DEF AddPeer, PeerOf, AddrOf
  <2> QED
    BY <2>1, <2>2, <2>3, <2>4 DEF IInv, TypeOK
<1>2. CallsAreSound'
  <2> SUFFICES ASSUME NEW d \in Callers
               PROVE  /\ pc'[d] # "idle" => job'[d][1] \in Peers /\ job'[d][2] \in Addrs \union {NoAddr}
                      /\ pc'[d] \in {"program", "store", "kernel"} =>
                           job'[d][2] \in Addrs /\ inner'[job'[d][1]] # "none"
                      /\ pc'[d] \in {"add", "program", "store", "kernel"} => outer' # "unbound"
                      /\ pc'[d] = "store" <=> mu' = d
                      /\ pc'[d] = "store" => srcByPeer'[job'[d][1]] = job'[d][2]
    BY DEF CallsAreSound
  <2>1. CASE d = c
    BY <2>1 DEF IInv, TypeOK, CallsAreSound
  <2>2. CASE d # c
    BY <2>2 DEF IInv, TypeOK, CallsAreSound
  <2> QED
    BY <2>1, <2>2
<1>3. CloseIsOrdered'
  BY DEF IInv, TypeOK, CallsAreSound, CloseIsOrdered
<1>4. MapsAreInverse' /\ SendsToOwnEndpoint'
  BY DEF IInv, TypeOK, MapsAreInverse, SendsToOwnEndpoint
<1>5. RelayHasSocket' /\ CloseIsComplete'
  BY DEF IInv, TypeOK, CallsAreSound, CloseIsOrdered, RelayHasSocket, CloseIsComplete
<1> QED
  BY <1>1, <1>2, <1>3, <1>4, <1>5 DEF IInv

\* A call that ends changes nothing but the caller.
LEMMA ReturnStep ==
  ASSUME IInv, NEW c \in Callers, AddPeerFails(c) \/ SetPeerEndpointRefused(c) \/ UpdateKernel(c)
  PROVE  IInv'
BY NoPeerAssumption, NoAddrAssumption, FreeAssumption
   DEF AddPeerFails, SetPeerEndpointRefused, UpdateKernel, Returns, NoJob, IInv, TypeOK, CallsAreSound, CloseIsOrdered, MapsAreInverse, SendsToOwnEndpoint,
       RelayHasSocket, CloseIsComplete, PeerOf, AddrOf, sockVars, mapVars, callVars, loopVars

\* SetPeerEndpoint moves a peer in both maps and keeps proxy.mu.
LEMMA SetStep ==
  ASSUME IInv, NEW c \in Callers, SetPeerEndpoint(c)
  PROVE  IInv'
BY NoPeerAssumption, NoAddrAssumption, FreeAssumption
   DEF SetPeerEndpoint, Program, IInv, TypeOK, CallsAreSound, CloseIsOrdered, MapsAreInverse, SendsToOwnEndpoint,
       RelayHasSocket, CloseIsComplete, PeerOf, AddrOf, sockVars, mapVars, callVars, loopVars

\* remote catches up with the demux before proxy.mu is released.
LEMMA StoreStep ==
  ASSUME IInv, NEW c \in Callers, StoreRemote(c)
  PROVE  IInv'
BY NoPeerAssumption, NoAddrAssumption, FreeAssumption
   DEF StoreRemote, IInv, TypeOK, CallsAreSound, CloseIsOrdered, MapsAreInverse, SendsToOwnEndpoint,
       RelayHasSocket, CloseIsComplete, PeerOf, AddrOf, sockVars, mapVars, callVars, loopVars

\* Classify attributes a packet to a peer that has a socket.
LEMMA ReceiveStep ==
  ASSUME IInv, NEW a \in Addrs, OuterReceive(a)
  PROVE  IInv'
BY NoPeerAssumption, NoAddrAssumption, FreeAssumption
   DEF OuterReceive, IInv, TypeOK, CallsAreSound, CloseIsOrdered, MapsAreInverse, SendsToOwnEndpoint,
       RelayHasSocket, CloseIsComplete, PeerOf, AddrOf, sockVars, mapVars, callVars, loopVars

\* The outer loop relays or ends.
LEMMA OuterStep ==
  ASSUME IInv, OuterRelay \/ OuterLoopEnds
  PROVE  IInv'
BY NoPeerAssumption, NoAddrAssumption, FreeAssumption
   DEF OuterRelay, OuterLoopEnds, ReadEnds, IInv, TypeOK, CallsAreSound, CloseIsOrdered, MapsAreInverse, SendsToOwnEndpoint,
       RelayHasSocket, CloseIsComplete, PeerOf, AddrOf, sockVars, mapVars, callVars, loopVars

\* An inner loop ends.
LEMMA InnerStep ==
  ASSUME IInv, NEW p \in Peers, InnerLoopEnds(p)
  PROVE  IInv'
BY NoPeerAssumption, NoAddrAssumption, FreeAssumption
   DEF InnerLoopEnds, ReadEnds, IInv, TypeOK, CallsAreSound, CloseIsOrdered, MapsAreInverse, SendsToOwnEndpoint,
       RelayHasSocket, CloseIsComplete, PeerOf, AddrOf, sockVars, mapVars, callVars, loopVars

\* Close marks, closes and waits, in this order.
LEMMA CloseStep ==
  ASSUME IInv, CloseManager \/ Close
  PROVE  IInv'
<1>1. CASE CloseManager
  BY <1>1
     DEF CloseManager, IInv, TypeOK, CallsAreSound, CloseIsOrdered, MapsAreInverse,
         SendsToOwnEndpoint, RelayHasSocket, CloseIsComplete, PeerOf, AddrOf, sockVars, mapVars,
         callVars, loopVars
<1>2. CASE CloseMark
  BY <1>2
     DEF CloseMark, IInv, TypeOK, CallsAreSound, CloseIsOrdered, MapsAreInverse,
         SendsToOwnEndpoint, RelayHasSocket, CloseIsComplete, PeerOf, AddrOf, sockVars, mapVars,
         callVars, loopVars
<1>3. CASE CloseOuter
  BY <1>3
     DEF CloseOuter, IInv, TypeOK, CallsAreSound, CloseIsOrdered, MapsAreInverse,
         SendsToOwnEndpoint, RelayHasSocket, CloseIsComplete, PeerOf, AddrOf, sockVars, mapVars,
         callVars, loopVars
<1>4. CASE CloseInner
  BY <1>4
     DEF CloseInner, IInv, TypeOK, CallsAreSound, CloseIsOrdered, MapsAreInverse,
         SendsToOwnEndpoint, RelayHasSocket, CloseIsComplete, PeerOf, AddrOf, sockVars, mapVars,
         callVars, loopVars
<1>5. CASE CloseReturns
  BY <1>5
     DEF CloseReturns, IInv, TypeOK, CallsAreSound, CloseIsOrdered, MapsAreInverse,
         SendsToOwnEndpoint, RelayHasSocket, CloseIsComplete, PeerOf, AddrOf, sockVars, mapVars,
         callVars, loopVars
<1> QED
  BY <1>1, <1>2, <1>3, <1>4, <1>5 DEF Close

\* A step that changes nothing.
LEMMA Stutter ==
  ASSUME IInv, UNCHANGED vars
  PROVE  IInv'
BY NoPeerAssumption, NoAddrAssumption, FreeAssumption
   DEF vars, IInv, TypeOK, CallsAreSound, CloseIsOrdered, MapsAreInverse, SendsToOwnEndpoint,
       RelayHasSocket, CloseIsComplete, PeerOf, AddrOf, sockVars, mapVars, callVars, loopVars

\* Every step keeps the invariant.
LEMMA NextStep == IInv /\ [Next]_vars => IInv'
<1> SUFFICES ASSUME IInv, [Next]_vars PROVE IInv'
  OBVIOUS
<1>1. CASE \E c \in Callers : Call(c)
  BY <1>1, DeviceStep, UpdateStep DEF Call
<1>2. CASE \E c \in Callers : CallStep(c)
  BY <1>2, EnsureStep, AddStep, ReturnStep, SetStep, StoreStep DEF CallStep
<1>3. CASE Loops
  BY <1>3, OuterStep, InnerStep DEF Loops
<1>4. CASE \E a \in Addrs : OuterReceive(a)
  BY <1>4, ReceiveStep
<1>5. CASE CloseManager \/ Close
  BY <1>5, CloseStep
<1>6. CASE UNCHANGED vars
  BY <1>6, Stutter
<1> QED
  BY <1>1, <1>2, <1>3, <1>4, <1>5, <1>6 DEF Next

\* The invariant holds in every state of the proxy.
LEMMA Inductive == Spec => []IInv
BY InitSound, NextStep, PTL DEF Spec

\* The state of the proxy and its callers keeps its types.
THEOREM TypeCorrect == Spec => []TypeOK
<1>1. IInv => TypeOK
  BY DEF IInv
<1> QED
  BY <1>1, Inductive, PTL

\* Demux.Program keeps the two source maps inverse to each other: no endpoint is
\* attributed to two peers and no mapping outlives a move.
THEOREM Inverse == Spec => []MapsAreInverse
<1>1. IInv => MapsAreInverse
  BY DEF IInv
<1> QED
  BY <1>1, Inductive, PTL

\* SetPeerEndpoint keeps where a peer's packets go and where they are accepted from
\* together, except under proxy.mu between its two halves.
THEOREM OwnEndpoint == Spec => []SendsToOwnEndpoint
<1>1. IInv => SendsToOwnEndpoint
  BY DEF IInv
<1> QED
  BY <1>1, Inductive, PTL

\* outerLoop always finds an inner socket for the peer Classify named.
THEOREM Relayed == Spec => []RelayHasSocket
<1>1. IInv => RelayHasSocket
  BY DEF IInv
<1> QED
  BY <1>1, Inductive, PTL

\* When Close has returned, AddPeer and New have left no socket or loop behind.
THEOREM CloseComplete == Spec => []CloseIsComplete
<1>1. IInv => CloseIsComplete
  BY DEF IInv
<1> QED
  BY <1>1, Inductive, PTL

\* No step binds a closed socket again, nor the outer one after Manager.Close.
THEOREM Rebinds == Spec => NeverRebound
<1> DEFINE Kept == /\ outer = "closed" => outer' = "closed"
                   /\ \A p \in Peers : inner[p] = "closed" => inner'[p] = "closed"
                   /\ managerClosed /\ outer = "unbound" => outer' = "unbound"
<1>1. ASSUME IInv, Next PROVE Kept
  <2>1. CASE \E c \in Callers : Call(c)
    BY <2>1 DEF Call, Device, UpdatePeerEndpoint, sockVars
  <2>2. CASE \E c \in Callers : CallStep(c)
    BY <2>2, <1>1 DEF CallStep, EnsureProxy, AddPeer, AddPeerFails, SetPeerEndpoint,
       SetPeerEndpointRefused, StoreRemote, UpdateKernel, sockVars, IInv, TypeOK
  <2>3. CASE Loops \/ \E a \in Addrs : OuterReceive(a)
    BY <2>3 DEF Loops, OuterRelay, OuterLoopEnds, InnerLoopEnds, OuterReceive, sockVars
  <2>4. CASE CloseManager \/ Close
    BY <2>4, <1>1 DEF CloseManager, Close, CloseMark, CloseOuter, CloseInner, CloseReturns,
       sockVars, IInv, TypeOK, CloseIsOrdered
  <2> QED
    BY <2>1, <2>2, <2>3, <2>4, <1>1 DEF Next
<1>2. IInv /\ [Next]_vars => [Kept]_vars
  BY <1>1
<1> QED
  BY <1>2, Inductive, PTL DEF Spec, NeverRebound

-----------------------------------------------------------------------------
(* The proxy as a map from peers to endpoints.                             *)

\* Where packets are accepted from: the demux.
Accepts == INSTANCE SourceMap WITH endpoint <- srcByPeer

\* Where packets are sent to: peerState.remote.
Sends == INSTANCE SourceMap WITH endpoint <- remote

\* A step other than the two halves of SetPeerEndpoint leaves both maps alone.
LEMMA OnlySetPeerEndpoint ==
  ASSUME Next
  PROVE  \/ \E c \in Callers : SetPeerEndpoint(c)
         \/ \E c \in Callers : StoreRemote(c)
         \/ UNCHANGED <<srcByPeer, remote>>
<1>1. CASE \E c \in Callers : Call(c) \/ CallStep(c)
  BY <1>1 DEF Call, Device, UpdatePeerEndpoint, CallStep, EnsureProxy, AddPeer, AddPeerFails,
     SetPeerEndpointRefused, UpdateKernel, mapVars
<1>2. CASE Loops \/ \E a \in Addrs : OuterReceive(a)
  BY <1>2 DEF Loops, OuterRelay, OuterLoopEnds, InnerLoopEnds, OuterReceive, mapVars
<1>3. CASE CloseManager \/ Close
  BY <1>3 DEF CloseManager, Close, CloseMark, CloseOuter, CloseInner, CloseReturns, mapVars
<1> QED
  BY <1>1, <1>2, <1>3 DEF Next

\* Demux.Program, which looks at peerBySrc only, gives an endpoint to a peer if and
\* only if no other peer has it: the map of accepted sources is a SourceMap.
THEOREM AcceptsRefinement == Spec => Accepts!Spec
<1>1. Init => Accepts!Init
  BY DEF Init, Accepts!Init, Accepts!Nowhere
<1>2. IInv /\ [Next]_vars => [Accepts!Next]_srcByPeer
  <2> SUFFICES ASSUME IInv, Next, srcByPeer' # srcByPeer PROVE Accepts!Next
    BY DEF vars, mapVars
  <2>1. PICK c \in Callers : SetPeerEndpoint(c)
    BY OnlySetPeerEndpoint DEF StoreRemote
  <2>2. PeerOf(c) \in Peers /\ AddrOf(c) \in Addrs
    BY <2>1 DEF IInv, CallsAreSound, SetPeerEndpoint
  <2>3. \A q \in Peers \ {PeerOf(c)} : srcByPeer[q] # AddrOf(c)
    BY <2>1, <2>2, NoPeerAssumption DEF IInv, MapsAreInverse, SetPeerEndpoint, Program
  <2>4. Accepts!Assign(PeerOf(c), AddrOf(c))
    BY <2>1, <2>3 DEF SetPeerEndpoint, Program, Accepts!Assign
  <2> QED
    BY <2>2, <2>4 DEF Accepts!Next
<1> QED
  BY <1>1, <1>2, Inductive, PTL DEF Spec, Accepts!Spec

\* remote follows the demux under proxy.mu without looking at other peers, and is a
\* SourceMap all the same: no two peers' packets are ever sent to one endpoint.
THEOREM SendsRefinement == Spec => Sends!Spec
<1>1. Init => Sends!Init
  BY DEF Init, Sends!Init, Sends!Nowhere
<1>2. IInv /\ [Next]_vars => [Sends!Next]_remote
  <2> SUFFICES ASSUME IInv, Next, remote' # remote PROVE Sends!Next
    BY DEF vars, mapVars
  <2>1. PICK c \in Callers : StoreRemote(c)
    BY OnlySetPeerEndpoint DEF SetPeerEndpoint
  <2>2. PeerOf(c) \in Peers /\ AddrOf(c) \in Addrs /\ srcByPeer[PeerOf(c)] = AddrOf(c)
    BY <2>1 DEF IInv, CallsAreSound, StoreRemote
  <2>3. peerBySrc[AddrOf(c)] = PeerOf(c) /\ AddrOf(c) # NoAddr
    BY <2>2, NoAddrAssumption DEF IInv, MapsAreInverse
  <2>4. \A q \in Peers \ {PeerOf(c)} : remote[q] # AddrOf(c)
    BY <2>2, <2>3, NoPeerAssumption DEF IInv, SendsToOwnEndpoint
  <2>5. Sends!Assign(PeerOf(c), AddrOf(c))
    BY <2>1, <2>4 DEF StoreRemote, Sends!Assign
  <2> QED
    BY <2>2, <2>5 DEF Sends!Next
<1> QED
  BY <1>1, <1>2, Inductive, PTL DEF Spec, Sends!Spec

-----------------------------------------------------------------------------
(* What CloseTerminates and CallsReturn rest on.                           *)

\* Whoever holds proxy.mu is in the second half of SetPeerEndpoint, which needs
\* no other lock.  While Close waits under manager.mu, each loop it waits for
\* reads from a closed socket or, with a last packet in hand, needs only
\* proxy.mu; none of them needs manager.mu.
NobodyWaitsForAWaiter ==
  /\ mu # Free => mu \in Callers /\ pc[mu] = "store"
  /\ closer = "wait" =>
       /\ outer = "closed" /\ outerLoop # "none"
       /\ \A p \in Peers : innerLoop[p] = "running" => inner[p] = "closed"

\* The lock order of Manager and Proxy has no cycle.
THEOREM NoCircularWait == Spec => []NobodyWaitsForAWaiter
<1>1. IInv => NobodyWaitsForAWaiter
  BY DEF IInv, TypeOK, CallsAreSound, CloseIsOrdered, NobodyWaitsForAWaiter
<1> QED
  BY <1>1, Inductive, PTL

\* Once closeSockets has closed the outer socket, the loops only come nearer to
\* their ends: no packet is received, and AddPeer starts no loop, although its
\* caller may have been admitted before Close began.
ClosingOnlyEndsLoops ==
  [][outer = "closed" =>
       /\ outerLoop' # outerLoop =>
            <<outerLoop, outerLoop'>> \in {<<"relaying", "reading">>, <<"reading", "ended">>}
       /\ \A p \in Peers : innerLoop'[p] # innerLoop[p] =>
            innerLoop[p] = "running" /\ innerLoop'[p] = "ended"]_vars

\* What Close waits for shrinks with every step that touches it.
THEOREM CloseConverges == Spec => ClosingOnlyEndsLoops
<1> DEFINE Shrinks ==
      outer = "closed" =>
        /\ outerLoop' # outerLoop =>
             <<outerLoop, outerLoop'>> \in {<<"relaying", "reading">>, <<"reading", "ended">>}
        /\ \A p \in Peers : innerLoop'[p] # innerLoop[p] =>
             innerLoop[p] = "running" /\ innerLoop'[p] = "ended"
<1>1. ASSUME IInv, Next PROVE Shrinks
  <2>1. CASE \E c \in Callers : Call(c)
    BY <2>1 DEF Call, Device, UpdatePeerEndpoint, sockVars, loopVars
  <2>2. CASE \E c \in Callers : CallStep(c)
    <3>1. outer = "closed" => closed
      BY <1>1 DEF IInv, CloseIsOrdered, TypeOK
    <3> QED
      BY <2>2, <3>1 DEF CallStep, EnsureProxy, AddPeer, AddPeerFails, SetPeerEndpoint,
         SetPeerEndpointRefused, StoreRemote, UpdateKernel, sockVars, loopVars
  <2>3. CASE Loops \/ \E a \in Addrs : OuterReceive(a)
    BY <1>1, <2>3 DEF Loops, OuterRelay, OuterLoopEnds, InnerLoopEnds, OuterReceive, sockVars, loopVars,
       IInv, TypeOK
  <2>4. CASE CloseManager \/ Close
    BY <2>4 DEF CloseManager, Close, CloseMark, CloseOuter, CloseInner, CloseReturns, sockVars, loopVars
  <2> QED
    BY <1>1, <2>1, <2>2, <2>3, <2>4 DEF Next
<1>2. IInv /\ [Next]_vars => [Shrinks]_vars
  BY <1>1
<1> QED
  BY <1>2, Inductive, PTL DEF Spec, ClosingOnlyEndsLoops

\* The steps of a call, in their order.
Follows ==
  {<<"ensure", "add">>, <<"add", "program">>, <<"program", "store">>, <<"store", "kernel">>}

\* A call of the client only goes forward: it returns, takes its next step, or
\* Device is done with one more peer.  There is no retry that could go on for
\* ever.
CallsOnlyAdvance ==
  [][\A c \in Callers :
       \/ UNCHANGED <<pc[c], job[c], more[c]>>
       \/ pc[c] = "idle" \/ pc'[c] = "idle"
       \/ <<pc[c], pc'[c]>> \in Follows
       \/ pc[c] = "add" /\ pc'[c] = "add" /\ more'[c] \subseteq more[c] /\ more'[c] # more[c]]_vars

\* Device and UpdatePeerEndpoint take finitely many steps inside the proxy.
THEOREM CallsAdvance == Spec => CallsOnlyAdvance
<1> DEFINE Advances(c) ==
      \/ UNCHANGED <<pc[c], job[c], more[c]>>
      \/ pc[c] = "idle" \/ pc'[c] = "idle"
      \/ <<pc[c], pc'[c]>> \in Follows
      \/ pc[c] = "add" /\ pc'[c] = "add" /\ more'[c] \subseteq more[c] /\ more'[c] # more[c]
<1>1. ASSUME IInv, Next, NEW c \in Callers PROVE Advances(c)
  <2>1. ASSUME NEW d \in Callers, Call(d) PROVE Advances(c)
    BY <1>1, <2>1 DEF Call, Device, UpdatePeerEndpoint, IInv, TypeOK
  <2>2. ASSUME NEW d \in Callers, CallStep(d) PROVE Advances(c)
    <3>1. CASE d # c
      BY <1>1, <2>2, <3>1 DEF CallStep, EnsureProxy, AddPeer, AddPeerFails, SetPeerEndpoint,
         SetPeerEndpointRefused, StoreRemote, UpdateKernel, Registered, Returns, IInv, TypeOK
    <3>2. CASE d = c
      <4>1. CASE AddPeer(c)
        <5>1. CASE \E q \in more[c] : more' = [more EXCEPT ![c] = @ \ {q}] /\ UNCHANGED pc
          BY <1>1, <4>1, <5>1 DEF AddPeer, IInv, TypeOK
        <5>2. CASE pc' = [pc EXCEPT ![c] = "program"] \/ Returns(c)
          BY <1>1, <4>1, <5>2 DEF AddPeer, Returns, Follows, IInv, TypeOK
        <5> QED
          BY <4>1, <5>1, <5>2 DEF AddPeer, Registered
      <4>2. CASE ~AddPeer(c)
        BY <1>1, <2>2, <3>2, <4>2 DEF CallStep, EnsureProxy, AddPeerFails, SetPeerEndpoint,
           SetPeerEndpointRefused, StoreRemote, UpdateKernel, Returns, Follows, IInv, TypeOK
      <4> QED
        BY <4>1, <4>2
    <3> QED
      BY <3>1, <3>2
  <2>3. CASE Loops \/ (\E a \in Addrs : OuterReceive(a)) \/ CloseManager \/ Close
    BY <2>3 DEF Loops, OuterRelay, OuterLoopEnds, InnerLoopEnds, OuterReceive, CloseManager, Close,
       CloseMark, CloseOuter, CloseInner, CloseReturns, callVars
  <2> QED
    BY <1>1, <2>1, <2>2, <2>3 DEF Next
<1>2. IInv /\ [Next]_vars => [\A c \in Callers : Advances(c)]_vars
  BY <1>1
<1> QED
  BY <1>2, Inductive, PTL DEF Spec, CallsOnlyAdvance
=============================================================================
