# A TLA+ model of stunmesh-go

stunmesh-go keeps WireGuard tunnels between hosts behind NATs alive. It learns
the public endpoint of its own UDP socket from STUN servers, publishes it in an
OpenDHT store, reads the endpoints of its configured peers from there, and
points WireGuard at them through a local UDP proxy. A ping monitor asks for a
new lookup when a tunnel goes silent. A mobile library does the same around an
embedded WireGuard device, and a set of commands enrols clients on a server and
runs a Linux client as a service.

This directory holds TLA+ modules for the parts of the Go code that run
concurrently or over time, TLC configurations that check them on small
instances, and TLAPS proofs of the central safety properties for instances of
any size. `PROJECT.json` maps each definition to the source lines it models and
lists runs, mutants, hazards, findings and theorems.

    tlc -config EstablishQueue.cfg EstablishQueue
    tlc -config Mobile.cfg MCMobile
    tlapm MobileProofs.tla

## 1. The system

| Part | Source | State | Operations |
|---|---|---|---|
| App | `app/` | closed, running, run counter, resources | New, Run, RunOneshot, Close |
| Daemon | `internal/daemon` | context, worker group | Run, RunOneshot |
| Publish controller | `internal/ctrl/publish.go` | trigger channel (1), peer channel (100) | Trigger, TriggerForPeer, Execute, ExecuteForPeer, Run |
| Establish controller | `internal/ctrl/establish.go` | peer channel (100), pending map, selection per peer | Trigger, TriggerForPeer, enqueue, Execute, Run, WaitForCompletion |
| Selection | `internal/discovery/selection.go` | sampled counters, position | Working, Next, Reset |
| Ping monitor | `internal/ctrl/ping_monitor.go` | per peer: last send, health, retries, handover | sender, reader and checker loops, retry scheduling |
| UDP proxy | `internal/wgproxy`, `internal/wg/proxy_client.go` | outer and inner sockets, source maps, remote per peer | For, AddPeer, SetPeerEndpoint, relay loops, Close |
| STUN | `internal/stun`, `internal/stunwire`, `TxnRegistry` | resolver mutex, pending transactions | Resolve, Connect, Exchange, Register, route |
| OpenDHT store | `internal/plugin` | none (remote) | Get, Set, Close |
| Bootstrap, repositories | `internal/ctrl/bootstrap.go`, `internal/repo` | devices and peers | Execute, Save, Find, List |
| Discovery records | `internal/discovery` | none | Encode, Decode, SelectEndpoint, Allowed, DiscoverEndpoints |
| Mobile node | `mobile/`, `internal/mobilebind` | node, controller, bind | Start, Stop, network changes, cycles |
| Linux runtime, enrolment | `internal/linuxprofile`, `internal/provision`, `cmd/provision` | interface, receipt, files | Setup, Cleanup, Issue, activate, revoke |
| Configuration | `internal/config`, `internal/validation` | none | Load, validate |

How they meet: the daemon's ticker and the ping monitor trigger both
controllers. The publish worker runs STUN over the proxy's outer socket and
writes the store. The establish worker samples WireGuard, reads the store,
selects a candidate and programs the proxy, then the kernel. The proxy's outer
loop carries STUN answers and tunnel packets alike. Close joins everything
before it releases the proxy and the stores. The mobile node replaces daemon,
controllers and proxy by one loop per session and shares the sockets of the
embedded device with STUN; the application reports every change of the network.
The server's enrolment and a Linux host meet in the profile that one issues and
the other runs with.

What makes it hard: several goroutines trigger one worker through bounded
channels; state is read under a lock, released and used again (pending map,
ping state, health sample); peers move while a lookup for them is under way and
old records linger; answers are lost, late or repeated; the network of a phone
changes in the middle of a cycle; a process is killed between the two files, or
between an interface and its receipt; Close and Stop meet every one of these in
the middle.

## 2. Modules

| Module | Models | Kind |
|---|---|---|
| `BoundedQueue` | `internal/queue` | operators on sequences |
| `OneLookup` | what the establish queue promises | abstract specification |
| `EstablishQueue` | channel, pending map, worker, WaitForCompletion | state machine, refines `OneLookup` |
| `EstablishQueueProofs` | | proofs |
| `SourceMap` | what the proxy promises to those who steer it | abstract specification |
| `Recovery` | Execute, Selection, candidates, moving peers | state machine, refines `SourceMap` |
| `RecoveryProofs` | | proofs |
| `PingMonitor` | the three loops of one device | state machine with discrete time |
| `PingMonitorProofs` | | proofs |
| `WgProxy` | Manager, Proxy, Demux, proxyClient | state machine, refines `SourceMap` |
| `WgProxyProofs` | | proofs |
| `StunExchange` | Resolve, Exchange, TxnRegistry | state machine |
| `StunExchangeProofs` | | proofs |
| `Daemon` | App, Daemon, workers, publish channels | state machine |
| `DaemonProofs` | | proofs |
| `Discovery` | DiscoverEndpoints, SelectEndpoint, validate | operators |
| `Candidates` | recoveryCandidates of the mobile controller | operators and a reference definition |
| `Mobile` | Node, its controller's loop, the bind | state machine |
| `MobileProofs` | | proofs, also about `Discovery` |
| `Roster` | what enrolment promises | abstract specification |
| `ServerEdit` | profiles, phones, the server's two files | state machine |
| `HostRuntime` | linux-run-owned and linux-clean-owned | state machine |
| `Enrolment` | both, sharing the profile | composition, refines `Roster` |
| `EnrolmentProofs` | | proofs |
| `MCPingMonitor`, `MCRecovery`, `MCMobile` | timeouts, address numbers, networks | instances for TLC |

Each state machine has one action per step of the code that another goroutine
can observe. Where the code holds a lock over several statements and nobody can
see between them, they are one action; where a reader does not take that lock
they are separate actions. The definitions headed "faulty variants", and the
ones beside an action whose comment describes a mistake, are the mutants: the
same action with one plausible bug. They are used by no specification.

### EstablishQueue

`queue` is the channel, `pending` the map, `worker`/`working` the goroutine in
`Run`. `enqueue` is split into `EnqueueSend` and `EnqueueMark` because the
worker receives without `pendingMu`: it can take a peer, and finish with it,
before the peer is marked. `Execute` is one span. `OneLookup` says that a
peer has at most one lookup, that goes from none to queued to active to none.

### Recovery

What `Execute` does inside that span. The steps are `Begin`, `Sample` (or
`SampleFails`), `Get` (or `GetFails`), `Configure` (or `ConfigureFails`);
between them peers `Move`, `Publish`, records `Expire` and WireGuard completes
a `Handshake`. The candidates are the records `Get` returns, sorted and cut, and
of those the ones that `SelectEndpoint` and `Allowed` let through (`Usable`).
A peer is identified by its key, not by the socket its packets come through: what
it sends from an endpoint that the source map gives to another peer is relayed
through the other's inner socket (`HeardAs`), and WireGuard answers there
(`via`). So a peer is `Reachable` when the inner socket WireGuard uses for it
leads to where it is, whoever that socket belongs to. WireGuard's counters are kept relative to the last sample, which
is all `Selection.Working` looks at, so runs of any length stay finite.
`PeerHealth` runs `wg show` three times; the three reads are one step, because
an event between them only adds progress that the third read or the next sample
reports. `next` is kept modulo a common multiple of the list lengths.
`Restart` loses what the process holds in memory and keeps what the kernel
holds.

### PingMonitor

Time is counted in ticks; timestamps are ages, deadlines are countdowns. Two
events in the same tick are unordered, so a comparison at exactly the limit may
go either way. Sender, reader and checker interleave wherever the code releases
a peer's mutex: between sending and recording a ping, and between the checker's
read, its reset and its verdict. The history variable `replied` says whether a
reply of the peer was handled since its last ping; until the first ping it is true.

### WgProxy

`manager.mu` is held by `Close` until the loops have ended and `proxy.mu` by
`SetPeerEndpoint` between the demux and `remote`; both are modelled. The outer
loop is two steps, since a mapping may move between attribution and relay. One
interface with one address family is modelled; a second family adds a second
outer socket with the same life.

### StunExchange

Packets stay in `net` and may be routed any number of times or never, which
covers loss, delay, reordering and duplication. A server may answer from
another address, with an error, or with something `ParseResponse` rejects. The
history variable `since` records which endpoints the socket has had since a
request was written. Random 96-bit transaction ids are taken to be distinct, so
`ErrTxnExists` does not occur.

### Daemon

`pc` follows callers through `App.run`, `Daemon.Run` and `RunOneshot`. The
deferred `running = false` and `runs.Done` are two steps, and `Close` is five.
Queues are their lengths here. `Cancel` is the caller's context or, once `Close`
has cancelled, the App's.

### Mobile

One variable, `call`, says where the holder of the lifecycle mutex is: it
serialises `Start`, `Stop` and `SetUnderlay`, which give up the node mutex in
the middle. `loop[s]` is the controller and the goroutine of session `s`: where
it is, its two contexts, the network it works with, the signal of capacity one,
the timer, and what discovery, publishing and establishing have left to do. A
device failure closes the device at once and starts a `Stop` in the background
(`stops`), which may run late and meet a newer session; the code does not tell
them apart, and the model lets it. Closing the sockets turns every endpoint
discovered through them from `Current` to `Stale`, in the loop, in the channel
of a transaction, in the store and on the way to it; the endpoints themselves are
not needed, and of a published record only whether one of them is stale.
A `Set` needs a live context to begin. One that is given up, because its context
ends or a proxy of the list does not answer, may still take effect, at any time
or never (`PublishCutOff`, `StoreTakes`); the model keeps the last such request
of each peer. `LoadPlugins` is taken to find at least one configured plugin.
The node mutex has no variable: its sections are single steps. `Start` either succeeds or undoes what
it did. A peer without evidence of traffic gets the next entry of
`RecoveryCandidates`; which one does not change the state of the node, so the
list is a module of its own, `Candidates`.

### ServerEdit, HostRuntime and Enrolment

A file is the set of its entries. `Edited` is `Accepted`, `EditedWg` and
`EditedYml`; `WriteEdited` is five steps, so that an error or a kill can fall
between any two of them. The host's service is one variable, `service`, through
Setup, the receipt, serving and the two deferred clean-ups.

What lies outside the repository is assumed as its comments demand: the caller
holds a lock from reading the server's files to installing the pair; the owner
empties the candidate directory as a whole, does not issue a profile for an
address that a phone waits for, and passes pending addresses to `serverNew` and
respects them in `provision new`; the service manager runs linux-clean-owned
after every end of linux-run-owned; the administrator does not add or delete
the interface between two commands of one set-up or clean-up.

## 3. Runs

Passing runs:

| Run | Instance | Shows |
|---|---|---|
| `establish_queue` | 3 peers, 2 callers, 2 slots | One lookup per peer, exact pending map and a sound WaitForCompletion although the channel overflows; refinement of `OneLookup`; a trigger is dropped only when a lookup covers it or the channel is full; queued peers are served and released |
| `ping_monitor` | 1 peer, interval 2s, timeout 1s, refresh 10s | Handover is exact; dead peers are noticed and handed over; live ones recover |
| `proxy` | 2 peers, 2 endpoints, 2 callers | Maps stay inverse, traffic goes to the owner's endpoint, Close leaves nothing open, nothing is rebound; Close and every call racing it return |
| `recovery` | 2 peers, 3 endpoints of which 2 usable, 2 moves or restarts in all | An endpoint is given up only after a silent sample; an advertised, unclaimed endpoint is found and kept; a peer whose endpoint another one holds is not shut out |
| `stun` | 2 callers, 2 exchanges, 2 servers, 2 mappings, 1 packet at a time | Only current answers of the server asked are used; the registry is exact; Resolve returns |
| `daemon` | 2 callers, 3 cycles, 2 peers, 2 slots | No use after cleanup, no worker outlives its run; Close and cancelled runs return; refreshes are published |
| `mobile` | 1 session name, 1 peer, dual stack, 3 networks, 1 pending background Stop | Sockets and controller follow the network; nothing is left after Stop; a live cycle holds nothing of a family that is gone; stale clients and counters are flagged; the present endpoint is published in the end, also when one family never answers and requests arrive late; Stop returns |
| `enrolment` | 2 names, 2 keys, 2 addresses, 1 host | The two files always agree; no address or key has two owners; identities are kept; an interface no run created is deleted by nobody but the administrator, a run's deferred `Cleanup` apart (see `host_replaced`); the service recovers from every crash it can recognise |

Runs that refute a statement of the repository (see `findings`):

| Run | Statement | What the code does |
|---|---|---|
| `ping_defaults` | A silent peer is noticed | With an interval not longer than the timeout, as by default, each new ping restarts the wait |
| `ping_race` | A failure is recorded for a silent peer | A reply handled between the checker's read and its verdict still counts as a failure |
| `recovery_preserved` | Authenticated sessions are preserved | A session that comes up while the store is read is replaced |
| `host_replaced` | A replacement interface is refused | `CleanupOwned` refuses it, and the deferred `Cleanup` of the same run, which goes by the key alone, deletes it |

### Bounds

Two callers suffice for every race between critical sections of one mutex, and
two peers for every conflict over an endpoint; `establish_queue` has one peer
more than slots so that the channel is full with a peer left over. In `proxy` a
peer can move to a free endpoint, while the other peer has none, and to an owned
one. In `recovery` one move leaves a stale record beside the
current one and two candidates are kept, so that selection must rotate; with two
moves a peer takes the endpoint another has left, and is refused. Moves and
restarts share the bound, so a restart comes before or after a move. One
endpoint is not usable, and comes first in the order, so that it takes a place
among the records that are kept. One peer may be at any endpoint, the other at
one of them or offline, which is enough for each to hold the other's.
`Recovers` and `NeverShutOut` are stated for the first (`Someone`), and fairness
too: the other peer need not be looked up, answer or publish. In
`stun` two transactions are what a late answer needs to meet a wrong waiter, and
one packet under way is enough for it: a packet stays until it is dropped, so it
is its own duplicate and may be routed during a later exchange. In `mobile` the
networks are none, one family and both, so that a change can take a family away,
bring one or leave all as they are; the name of a session is used again, so one
name covers a session and its successor, and of the loop of a stopped session
nothing is left to need a second. In `enrolment` two keys let a profile be
issued again, or a phone be enrolled beside a client, and two addresses make
both collide; what three owners could do to each other is covered by the proofs.
`PingMonitor` counts half seconds so that the checker's period, half of the
timeout, is one tick. `Daemon` needs lengths 0, 1 and full only.

The deadlock check is off only for `Daemon`, which stops after `Close`.

### Fairness

* Go mutexes hand over to a waiter after a millisecond, so a goroutine that
  waits for one gets it in the end: strong fairness of steps that acquire one.
* `select` chooses at random among ready cases, so a case that is ready again
  and again is taken: strong fairness in `Daemon`, and in `Mobile` of the cases
  for the end and for a change of the network, taken together.
* `Execute`, `ExecuteForPeer`, `Exchange` and store requests have deadlines, so
  they return: weak fairness. Tickers tick.
* In `WgProxy` a blocked read ends once its socket has been closed: weak fairness
  of the end of a loop, for closed sockets only. Packets need not arrive.
* In `Recovery`, the peer in question is looked up again and again (the refresh
  ticker and the queue, see `QueuedIsServed`), its WireGuard retries handshakes
  on its own ("WG keepalive is independent", `docs/architecture.md`, item 5), and
  reads, the store and the programming of the endpoint it is at do not fail every
  time. Nothing is assumed of other peers. Peers need not publish: `Recovers` and
  `NeverShutOut` speak of those that have. `SlowCycles` states that cycles, minutes
  apart, are slow against keepalives, seconds apart: when a lookup begins, a
  reachable peer has been heard since the last one. The safety properties do not
  need it: they are proved whatever `SlowCycles` is.
* In `Mobile`, a call that holds the lifecycle mutex and a loop inside a cycle
  keep going (every probe and every request of a cycle has a deadline), and the
  background Stop gets the mutex in the end. The network need not answer;
  `EndpointConverges` assumes inside the property that from some point on
  each cycle gets an answer in one family at least, stores and plugins succeed
  and the network no longer changes. When a late request reaches the store, if it
  does, is left open.
* In `Enrolment`, only the service manager and the commands it runs keep going.
  `ServiceRecovers` assumes inside the property that kills, errors and the
  administrator stop at some point.
* Nobody is obliged to trigger, call, cancel, move or close.

## 4. Proofs

All theorems hold for arbitrary sets of peers, callers, endpoints and
transactions and for arbitrary sizes. They rest only on the named assumptions of
the modules: placeholders such as `NoPeer` and `Free` are not members of the
sets they stand beside, sizes and durations are positive (the
ping timeout an even number of ticks, since the checker's period is half of it), and the callers of
`Daemon` are finitely many, since they are counted. Bounds that exist for TLC
(`MaxPackets`, `MaxInFlight`, `MaxEvents`, `MaxStops`) are arbitrary as well. The
endpoints of `Recovery` are finitely many numbers, since the code sorts them; which
of them are usable, and where each peer may be, is arbitrary.

Every proof module has the same outline. `IInv` is the inductive invariant; one
lemma shows that `Init` implies it, one lemma per action or group of actions
that the action preserves it, and the theorems follow from it. Some theorems need
a second invariant on top of `IInv`, named in 4.2 and 4.3.

### 4.1 Safety

| Module | Theorems | What `IInv` adds, and why |
|---|---|---|
| `EstablishQueueProofs` | `TypeCorrect`, `OneLookup`, `PendingExact`, `WaitSound`, `LostTriggers`, `Refinement` | `MutexHeldWhileMarking`: only the caller between `EnqueueSend` and `EnqueueMark` holds `pendingMu`, so at most one peer is ahead of its mark; `WorkerHasPeer`. `OneLookupPerPeer` and `PendingIsExact` need each other: the map keeps a second copy out of the channel, and the absence of a second copy makes clearing the mark right. |
| `PingMonitorProofs` | `TypeCorrect`, `HandoverExact`, `RetriesAreBounded` | `HandoverInv`, the handover in the terms of `scheduleNextRetry`, from which the schedule in seconds follows. A checker between its read and its verdict has a suspect. `RetryBudget` then bounds the retries of each peer by the configuration. |
| `WgProxyProofs` | `TypeCorrect`, `Inverse`, `OwnEndpoint`, `Relayed`, `CloseComplete`, `Rebinds` | `CallsAreSound`: between the two halves of `SetPeerEndpoint` the caller holds `proxy.mu` and the demux already has the new address. `CloseIsOrdered`: how far `Close` has got determines which sockets and loops may still be there. |
| `StunExchangeProofs` | `TypeCorrect`, `Current`, `Registry`, `Serialized`, `OnlyParsedReplies` | `MutexGuards` and `RegistryFollows` tie the registry to the one caller inside the loop over servers; `NetIsCurrent` and `RepliesAreCurrent` follow an answer from the packet through the channel to the caller. |
| `DaemonProofs` | `TypeCorrect`, `CleanupIsLast`, `WorkersAreJoined`, `RunsExclude` | `RunsAreCounted`: the WaitGroup's counter is the number of callers not yet out, so that zero means nobody is left; `RunIsAlone` and `CloseIsOrdered`: `closed` is set before the wait begins, so that nobody enters after it. |
| `RecoveryProofs` | `TypeCorrect`, `GivenUp`, `LifeIsSeen` | `OneOwner`: no endpoint is programmed for two peers. The step of `Execute` determines which peer it works on and that it has been sampled; `SilentIfPassed`: past the sample of a programmed peer, nothing had come in. `LifeIsSeen` needs `EvidenceInv`: WireGuard's three readings are consistent, and only a sampled peer has an endpoint. |
| `MobileProofs` | `TypeCorrect`, `UnderlayApplied`, `StopIsComplete`, `LiveResultsCurrent`, `StaleStateFlagged`, `SilentWhenStopped` | `NodeIsSound`: `dev`, `ctrl` and the local variables of the call in progress belong together although the node mutex is given up in between. `SessionsAreSound`: only the session of `dev` has a loop or an open device. `UnderlayIsSound`: during a call the sockets are those of the network the call has saved in `previous`, which is why skipping the device when nothing moved is right. `LoopIsSound`: a probe in a live cycle is for a family of the network, and outside a cycle nothing is discovered. `SilentWhenStopped` needs `WakeInv` (4.3) as well: the contexts of a loop that a Stop waits for are cancelled. |
| `MobileProofs` | `SelectsUsable`, `SelectsIfPossible`, `DiscoveredIsEncodable` | Facts about the operators of `Discovery`, without an invariant. |
| `EnrolmentProofs` | `TypeCorrect`, `PairsAgree`, `NoPeerTwice`, `IdentitiesStay`, `ForeignInterfacesStay`, `CleanUpIsComplete` | `EditIsSound`: under the lock the files remain those the edit was accepted for, each step has exactly the candidates it wrote, and a missing `wg0.conf` means no `stunmesh.yml`. `EnrolledIsSound`: a name has one block, and an address pending for a phone belongs to nobody else. `OwnershipIsSound`: until its receipt is written, and as long as a receipt names it, the interface is one a run created. |

`EnrolmentProofs` also assumes that the keys the server makes are keys an
interface may have, and `MobileProofs` that the networks reported have the two
families only.

### 4.2 Refinement

| Theorem | Says |
|---|---|
| `EstablishQueueProofs!Refinement` | channel, pending map, mutex and worker implement `OneLookup` |
| `WgProxyProofs!AcceptsRefinement`, `SendsRefinement` | the source map of the demux, and `remote`, each implement `SourceMap`. `Demux.Program` looks at one of its two maps, which is enough because they are inverse; `SetPeerEndpoint` stores `remote` without looking at the other peers, which is enough because `proxy.mu` keeps it one step behind the demux |
| `RecoveryProofs!ProxyRefinement` | the endpoints that `Execute` programs and a restart forgets behave as `SourceMap` says. `Recovery` thus assumes no more of the proxy than `WgProxy` is proved to provide |
| `EnrolmentProofs!Refinement` | `ServerEdit`, inside `Enrolment`, implements `Roster` with `members <- wg`, `offers <- issued`, `held <- proposals`. Reading, checking, writing candidates, errors, rollbacks and kills are stuttering steps, the installation is `Join`, `Leave` or `Claim`, and the conditions checked when the files were read hold in that step |

The mapping of `OneLookup` is also checked by TLC in the run `establish_queue`.

### 4.3 What liveness rests on

Liveness under fairness is outside the prover. What it rests on is safety and is
proved: that what is waited for is never stuck, that no step leads back, and that
the number of steps, or the time, is bounded. What TLC adds on its instances is
that the fair scheduler takes those steps.

| Liveness property of a run | Proved for all instances |
|---|---|
| `QueuedIsServed`, `ActiveIsReleased` | `Fifo`: the peer in place i waits for exactly i receives; `NeverStuck`: under a live context the worker is in its loop and waits for `pendingMu` only behind a caller that is about to release it |
| `DeadPeerIsNoticed` | `BoundedDetection`: if timeout plus check period is below the interval, a silent peer is unhealthy within timeout plus check period of the round that pinged it. The invariant accounts for an unanswered ping (being recorded, recorded, in the checker's hands or judged) and relates its age, the time since the round and the checker's countdown. `NoForgottenPing`: no send time that still counts is overwritten. `LongTimeoutIsMute`: with a timeout longer than the interval there is never a verdict while sends succeed. `ping_defaults` is the case between the two, where they are equal and the verdict is left to a race |
| `CloseTerminates`, `CallsReturn` | `NoCircularWait`, `CloseConverges`, `CallsAdvance` |
| `Recovers` | `OneChoice` and `InTurn`: selection rotates through all candidates, each of which waits for fewer than `MaxCandidates` lookups; `SettledIsKept`: an endpoint that was found is kept, given `SlowCycles` |
| `ResolveReturns` | `ResolveIsBounded`: the holder of the resolver has fewer than `4 * NumServers` steps left, and no step adds to them |
| `CloseReturns`, `CancelledRunReturns` | `CloseIsNeverStuck`, with the invariant `JoinIsCancelled`: a run joins its workers only when their context is done; `RunsAdvance`: a run never goes back, and none is admitted after `Close` has begun |
| `EndpointConverges` | `LoopIsAwake`: with the network online a waiting loop has a timer or a change to handle, or one is about to be signalled |
| `StopReturns` | `StopWaitsRightly`: a Stop waits for a cancelled loop; `FailureIsStopped`: a dead node that says it runs has a Stop on the way. These two and `LoopIsAwake` need `WakeInv`, which follows contexts, timer and signal through every step of the loop |
| `ServiceRecovers` | `SelfRepair`, with the invariant `Sane`: only a kill between `link add` and the complete receipt, another profile or the administrator can block the service; `CleanUpIsComplete`, `RunIsNotRefused`: the clean-up leaves nothing, and a run that finds nothing is not refused |

`InTurn` is about positions in a sorted list of any length. Ranks are shown to be
a bijection onto `0 .. n - 1` by counting (an injection between finite sets of
the same size is onto), so no induction over the list is needed.

Not proved, only model-checked: the liveness properties themselves
(those in the table, `DeadPeerIsHandedOver`, `LivePeerRecovers` and
`RefreshIsPublished`), and the candidate list of `Candidates`, whose fold would
need an induction; `MCMobile` compares it with its reference definition on all
lists of up to three records.

## 5. What is not modelled

* Which peers bootstrap registers: one intersection of two lists before any
  worker runs. A reference definition would be the same formula again.
* The rules of the configuration and of the address classes in `Allowed` and in
  `Record.validate`: sequential predicates on text, without state. `Recovery` and
  `Candidates` see the endpoints they let through. In `Mobile` a discovered
  endpoint has passed the same classes in `ParseResponse`; a STUN server that
  answers with an address of the other family, whose record `validate` refuses,
  is left out.
* Parsing and formatting of configuration, JSON, base64, `wg` output, UAPI dumps,
  profiles, QR codes and STUN attributes, except for the distinction between
  accepted and rejected.
* Platform socket options, route probing and its watchers, the choice of DNS
  servers, fail-over between the proxies of one store request, logging, counters
  of dropped packets.
* The window between two commands of one set-up or clean-up in which the
  administrator could exchange the interface: the code has no means to exclude
  it, so the model has no such step.
* Starting and ending the loops of the ping monitor (`Execute`): the workers and
  their joining are those of `Daemon`. The allocation of ICMP identifiers.
* The node mutex of `Mobile` as a lock that could be held too long: that no
  section under it waits for a loop is read off the code.
* WireGuard itself, NATs, STUN servers and the DHT are environments that may do
  what the code has to expect of them.

## 6. Plan

1. `Mesh`: two hosts, each with publish and recovery, over one store with
   expiring records, to check that both sides find each other.
2. `Publish`: the record of the last discovery (`UpdateStatus`) read by the
   establish worker while the publish worker writes it.
3. The fail-over of the store between its proxies, with a deadline for the whole
   request.
