------------------------------ MODULE Recovery ------------------------------
(***************************************************************************)
(* How a peer that moved is found again: EstablishController.Execute       *)
(* (internal/ctrl/establish.go) with discovery.Selection and the proxy's   *)
(* source map, in an environment in which peers move between endpoints,    *)
(* publish them, and WireGuard authenticates whoever is reachable.         *)
(*                                                                         *)
(* WireGuard's health is kept as what Selection can tell apart: the age of *)
(* the last handshake, whether it is later than the sampled one (newer)    *)
(* and whether the receive counter exceeds the sampled one (grown).        *)
(* Sampling the counters clears both.  The clock does not step back.       *)
(* A record is named by the endpoint in it; the numbers stand for the      *)
(* order sort.Strings gives the records.                                   *)
(*                                                                         *)
(* WireGuard identifies a peer by its key and answers it wherever its last *)
(* authenticated packet came from.  It sees inner sockets only: via[p] is  *)
(* the peer whose inner socket it sends p's packets to.                    *)
(***************************************************************************)
EXTENDS Naturals, FiniteSets

CONSTANTS
  Peers, NoPeer,
  Addrs,          \* remote endpoints, numbered in the order of their records
  Usable,         \* those that SelectEndpoint and Allowed let through
  Places,         \* Places[p]: where p's networks may put it, NoAddr for offline
  MaxCandidates,  \* 4 in opendht.go, establish.go and selection.go
  NextModulus,    \* a common multiple of the list lengths: next is kept mod it
  SlowCycles,     \* lookups of a peer are far apart, compared with keepalives
  MaxEvents       \* a bound: moves of peers and restarts of the daemon

NoAddr == 0

ASSUME NoPeerAssumption == NoPeer \notin Peers
ASSUME AddrsAssumption == Addrs \subseteq Nat \ {NoAddr} /\ IsFiniteSet(Addrs)
ASSUME UsableAssumption == Usable \subseteq Addrs
ASSUME PlacesAssumption == Places \in [Peers -> SUBSET (Addrs \union {NoAddr})]
ASSUME CandidatesAssumption == MaxCandidates \in Nat \ {0}
ASSUME ModulusAssumption ==
  /\ NextModulus \in Nat \ {0}
  /\ \A n \in 1 .. MaxCandidates : NextModulus % n = 0
ASSUME BoundsAssumption ==
  SlowCycles \in BOOLEAN /\ MaxEvents \in Nat

VARIABLES
  nat,       \* nat[p]: where p can really be reached, NoAddr when offline
  hints,     \* hints[p]: unexpired records of p in the store
  prog,      \* prog[p]: Demux.srcByPeer
  kernel,    \* kernel[p]: WireGuard has an endpoint for p
  via,       \* via[p]: whose inner socket that is, NoPeer if none of this daemon's
  age,       \* age[p]: last handshake: "never", "fresh" (< 5 minutes), "old"
  newer, grown,    \* see above
  observed, next,  \* Selection
  step,      \* Execute: "idle", "sample", "get", "configure"
  peer,      \* the peer Execute is for
  selected,  \* the endpoint Execute selected
  silent,    \* history: this Execute sampled its peer and nothing had come in
  moves, restarts

env == <<nat, hints, moves>>
health == <<age, newer, grown>>
selection == <<observed, next>>
execution == <<step, peer, selected, silent>>
roaming == <<kernel, via>>
vars == <<env, prog, roaming, health, selection, execution, restarts>>

TypeOK ==
  /\ nat \in [Peers -> Addrs \union {NoAddr}]
  /\ hints \in [Peers -> SUBSET Addrs]
  /\ prog \in [Peers -> Addrs \union {NoAddr}]
  /\ kernel \in [Peers -> BOOLEAN]
  /\ via \in [Peers -> Peers \union {NoPeer}]
  /\ age \in [Peers -> {"never", "fresh", "old"}]
  /\ newer \in [Peers -> BOOLEAN] /\ grown \in [Peers -> BOOLEAN]
  /\ observed \in [Peers -> BOOLEAN]
  /\ next \in [Peers -> 0 .. NextModulus - 1]
  /\ step \in {"idle", "sample", "get", "configure"}
  /\ peer \in Peers \union {NoPeer}
  /\ selected \in Addrs \union {NoAddr}
  /\ silent \in BOOLEAN
  /\ moves \in Nat /\ restarts \in Nat /\ moves + restarts <= MaxEvents

\* The daemon has just started; nobody has been reached yet.
Init ==
  /\ nat \in [Peers -> Addrs \union {NoAddr}] /\ \A p \in Peers : nat[p] \in Places[p]
  /\ \A p, q \in Peers : p # q /\ nat[p] # NoAddr => nat[p] # nat[q]
  /\ hints = [p \in Peers |-> {nat[p]} \ {NoAddr}]
  /\ prog = [p \in Peers |-> NoAddr]
  /\ kernel = [p \in Peers |-> FALSE]
  /\ via = [p \in Peers |-> NoPeer]
  /\ age = [p \in Peers |-> "never"]
  /\ newer = [p \in Peers |-> FALSE] /\ grown = [p \in Peers |-> FALSE]
  /\ observed = [p \in Peers |-> FALSE] /\ next = [p \in Peers |-> 0]
  /\ step = "idle" /\ peer = NoPeer /\ selected = NoAddr /\ silent = FALSE
  /\ moves = 0 /\ restarts = 0

-----------------------------------------------------------------------------
(* Selection and the store, and faulty variants of them.                   *)

\* Working accepts a receive counter that is not less than the sampled one.
WorkingNotLess(p) ==
  LET handshook == age[p] = "fresh" /\ (~observed[p] \/ newer[p])
  IN  kernel[p] /\ age[p] # "never" /\ (handshook \/ observed[p])

\* Working: the endpoint is kept on a handshake or received bytes the previous
\* sample has not seen; a first sample accepts a recent handshake instead.
Working(p) ==
  LET handshook == age[p] = "fresh" /\ (~observed[p] \/ newer[p])
      advanced == observed[p] /\ grown[p]
  IN  kernel[p] /\ age[p] # "never" /\ (handshook \/ advanced)

\* The place of a in the ascending order of S, counted from 0.
Rank(a, S) == Cardinality({b \in S : b < a})

\* Get returns the distinct records in ascending order, at most MaxCandidates;
\* Execute takes the usable endpoints from those.
Candidates(p) == {a \in hints[p] : Rank(a, hints[p]) < MaxCandidates} \intersect Usable

\* Next takes a: the candidates come in turn.
SelectNext(p, list, a) == Rank(a, list) = next[p] % Cardinality(list)

-----------------------------------------------------------------------------
(* Execute.                                                                *)

\* outerLoop drops what p sends from the endpoint of another peer.
HeardAsItself(p, q) == nat[p] # NoAddr /\ prog[q] = nat[p] /\ q = p

\* outerLoop relays what p sends through q's inner socket: its source is q's
\* endpoint.
HeardAs(p, q) == nat[p] # NoAddr /\ prog[q] = nat[p]

Heard(p) == \E q \in Peers : HeardAs(p, q)

\* innerLoop sends what WireGuard has for p where p is.
Reachable(p) == via[p] \in Peers /\ HeardAs(p, via[p])

Done == step' = "idle" /\ peer' = NoPeer /\ selected' = NoAddr /\ silent' = FALSE

\* Run hands the peer to Execute; peer, device and store are found.  When cycles
\* are slow, the keepalive of a peer that is heard has come in since the last sample.
Begin(p) ==
  /\ step = "idle"
  /\ SlowCycles /\ Heard(p) => newer[p] \/ grown[p]
  /\ step' = "sample" /\ peer' = p
  /\ UNCHANGED <<env, prog, roaming, health, selection, selected, silent, restarts>>

\* PeerHealth fails and Execute goes on as if the peer did not work.
SampleFailsGoesOn ==
  /\ step = "sample"
  /\ step' = "get"
  /\ UNCHANGED <<env, prog, roaming, health, selection, peer, selected, silent, restarts>>

\* PeerHealth fails: the endpoint is retained.
SampleFails ==
  /\ step = "sample"
  /\ Done
  /\ UNCHANGED <<env, prog, roaming, health, selection, restarts>>

\* PeerHealth succeeds and Working records the sample.
Sample ==
  /\ step = "sample"
  /\ observed' = [observed EXCEPT ![peer] = TRUE]
  /\ newer' = [newer EXCEPT ![peer] = FALSE]
  /\ grown' = [grown EXCEPT ![peer] = FALSE]
  /\ \/ Working(peer) /\ Done
     \/ ~Working(peer) /\ step' = "get" /\ silent' = ~grown[peer] /\ UNCHANGED <<peer, selected>>
  /\ UNCHANGED <<env, prog, roaming, age, next, restarts>>

\* store.Get fails, is cut off by the deadline, or has nothing usable.
GetFails ==
  /\ step = "get"
  /\ Done
  /\ UNCHANGED <<env, prog, roaming, health, selection, restarts>>

\* store.Get answers and an endpoint is selected.
Get ==
  /\ step = "get"
  /\ selected' \in Candidates(peer) /\ SelectNext(peer, Candidates(peer), selected')
  /\ next' = [next EXCEPT ![peer] = (@ + 1) % NextModulus]
  /\ step' = "configure"
  /\ UNCHANGED <<env, prog, roaming, health, observed, peer, silent, restarts>>

Owned(a) == \E q \in Peers \ {peer} : prog[q] = a

\* UpdatePeerEndpoint fails before it programs anything: there is no proxy for the
\* device, the peer's inner socket cannot be opened, or SetPeerEndpoint refuses
\* the endpoint of another peer.
ConfigureFails ==
  /\ step = "configure"
  /\ Done
  /\ UNCHANGED <<env, prog, roaming, health, selection, restarts>>

\* UpdatePeerEndpoint programs the proxy and then the kernel, which may fail.
Configure(ok) ==
  /\ step = "configure" /\ ~Owned(selected)
  /\ prog' = [prog EXCEPT ![peer] = selected]
  /\ kernel' = [kernel EXCEPT ![peer] = @ \/ ok]
  /\ via' = [via EXCEPT ![peer] = IF ok THEN peer ELSE @]
  /\ Done
  /\ UNCHANGED <<env, health, selection, restarts>>

\* The daemon dies and starts again: sockets, mappings and selections are gone, the
\* kernel's endpoint and counters are not, and nothing has been sampled.
Restart ==
  /\ moves + restarts < MaxEvents
  /\ restarts' = restarts + 1
  /\ prog' = [p \in Peers |-> NoAddr] /\ via' = [p \in Peers |-> NoPeer]
  /\ observed' = [p \in Peers |-> FALSE] /\ next' = [p \in Peers |-> 0]
  /\ Done
  /\ UNCHANGED <<env, kernel, health>>

-----------------------------------------------------------------------------
(* The environment.                                                        *)

\* p gets another endpoint from its NAT, or goes offline.  Two peers have the
\* same endpoint at different times only.
Move(p, a) ==
  /\ moves + restarts < MaxEvents /\ a \in Places[p] \ {nat[p]}
  /\ a = NoAddr \/ \A q \in Peers : nat[q] # a
  /\ nat' = [nat EXCEPT ![p] = a]
  /\ moves' = moves + 1
  /\ UNCHANGED <<hints, prog, roaming, health, selection, execution, restarts>>

\* p publishes where it is.  The store keeps older records until they expire.
Publish(p) ==
  /\ nat[p] # NoAddr /\ nat[p] \notin hints[p]
  /\ hints' = [hints EXCEPT ![p] = @ \union {nat[p]}]
  /\ UNCHANGED <<nat, moves, prog, roaming, health, selection, execution, restarts>>

Expire(p, a) ==
  /\ a \in hints[p] /\ a # nat[p]
  /\ hints' = [hints EXCEPT ![p] = @ \ {a}]
  /\ UNCHANGED <<nat, moves, prog, roaming, health, selection, execution, restarts>>

\* WireGuard completes a handshake p started, and sends to p, from now on, through
\* the inner socket it came from.
Handshake(p) ==
  /\ age' = [age EXCEPT ![p] = "fresh"]
  /\ newer' = [newer EXCEPT ![p] = TRUE] /\ grown' = [grown EXCEPT ![p] = TRUE]
  /\ kernel' = [kernel EXCEPT ![p] = TRUE]
  /\ \E q \in Peers : HeardAs(p, q) /\ via' = [via EXCEPT ![p] = q]
  /\ UNCHANGED <<env, prog, selection, execution, restarts>>

\* A transport packet or keepalive arrives; its keys are at most 3 minutes old.
Traffic(p) ==
  /\ age[p] = "fresh"
  /\ grown' = [grown EXCEPT ![p] = TRUE]
  /\ \E q \in Peers : HeardAs(p, q) /\ via' = [via EXCEPT ![p] = q]
  /\ UNCHANGED <<env, prog, kernel, age, newer, selection, execution, restarts>>

HandshakeAges(p) ==
  /\ age[p] = "fresh"
  /\ age' = [age EXCEPT ![p] = "old"]
  /\ UNCHANGED <<env, prog, roaming, newer, grown, selection, execution, restarts>>

-----------------------------------------------------------------------------
ExecuteNext ==
  \/ \E p \in Peers : Begin(p)
  \/ SampleFails \/ Sample \/ GetFails \/ Get \/ ConfigureFails
  \/ \E ok \in BOOLEAN : Configure(ok)

EnvironmentNext ==
  \E p \in Peers :
    \/ \E a \in Places[p] : Move(p, a)
    \/ \E a \in Addrs : Expire(p, a)
    \/ Publish(p) \/ Handshake(p) \/ Traffic(p) \/ HandshakeAges(p)

Next == ExecuteNext \/ Restart \/ EnvironmentNext

Spec == Init /\ [][Next]_vars

\* Peers are interchangeable: fairness and what follows from it are said of one.
Someone == CHOOSE p \in Peers : TRUE

\* The refresh timer keeps enqueueing every peer and the queue is first in first
\* out (module EstablishQueue), so Someone is not passed over for ever.  Every call
\* inside Execute is bounded by a timeout; `wg show` and the store do not fail
\* every time they are asked, nor the programming of the endpoint Someone is at.
\* The peer's WireGuard retries its handshake ("WG keepalive is independent",
\* docs/architecture.md, item 5).  Nothing is asked of the other peers.
Fairness ==
  /\ SF_vars(Begin(Someone)) /\ WF_vars(Handshake(Someone))
  /\ SF_vars(peer = Someone /\ Sample) /\ SF_vars(peer = Someone /\ Get)
  /\ SF_vars(peer = Someone /\ selected = nat[peer] /\ \E ok \in BOOLEAN : Configure(ok))
  /\ WF_vars(Sample \/ SampleFails \/ Get \/ GetFails \/ ConfigureFails
               \/ \E ok \in BOOLEAN : Configure(ok))

FairSpec == Spec /\ Fairness

-----------------------------------------------------------------------------
(* Properties.                                                             *)

\* Execute gives up a programmed endpoint only after a sample of that peer, in
\* the same Execute, showed that WireGuard received nothing since the sample
\* before: no failed `wg show`, no aged handshake and no lookup of another peer
\* takes the endpoint away.  A restart apart.
GivenUpOnlyIfSilent ==
  [][\A p \in Peers : prog[p] # NoAddr /\ prog'[p] # prog[p] /\ restarts' = restarts
       => peer = p /\ silent]_vars

\* The network is quiet: nobody moves, records neither appear nor expire.
Quiet == <>[][UNCHANGED <<nat, hints>>]_vars

\* p is online, and its current endpoint is among the candidates Get returns.
Advertised(p) ==
  nat[p] # NoAddr /\ nat[p] \in Candidates(p)

Unclaimed(p) == \A q \in Peers \ {p} : prog[q] # nat[p]

\* Once the network is quiet, a peer whose current endpoint is among its
\* candidates and is not held by another peer is found and then kept, whatever
\* stale candidates surround it, whichever calls fail and whenever the daemon
\* restarted.
Recovers ==
  Quiet /\ <>[](Advertised(Someone) /\ Unclaimed(Someone)) => <>[]Reachable(Someone)

\* A peer is not shut out when stale records give its endpoint to another peer
\* and SetPeerEndpoint refuses it: its packets come in through the other's inner
\* socket and are answered there, or the other is looked up elsewhere and the
\* endpoint is free.  It may lose the endpoint again, but never for good.
NeverShutOut ==
  Quiet /\ <>[]Advertised(Someone) => []<>Reachable(Someone)

\* "Existing authenticated sessions are preserved" (docs/architecture.md, item
\* 6): Execute does not replace the endpoint of a peer that WireGuard has
\* authenticated there since the counters were sampled.
SessionsArePreserved ==
  [][\A p \in Peers :
       HeardAs(p, p) /\ via[p] = p /\ age[p] = "fresh" /\ (newer[p] \/ grown[p]) /\ restarts' = restarts
         => prog'[p] = prog[p]]_vars
=============================================================================
