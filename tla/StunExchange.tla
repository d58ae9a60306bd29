---------------------------- MODULE StunExchange ----------------------------
(***************************************************************************)
(* STUN discovery over the proxy's outer socket: Resolver.Resolve          *)
(* (internal/stun) tries the configured servers in order, each with one    *)
(* Proxy.Exchange, and the outer loop routes responses to the waiting      *)
(* exchange through the TxnRegistry (internal/wgproxy).                    *)
(*                                                                         *)
(* The network loses, delays, duplicates and reorders packets: a packet    *)
(* stays in net and may be classified any number of times, or never.       *)
(* Transaction ids are 96 random bits and are not drawn twice.             *)
(***************************************************************************)
EXTENDS Naturals, FiniteSets

CONSTANTS
  Callers,    \* goroutines in Resolve
  Txns,       \* transaction ids; bounds the number of exchanges
  NumServers, \* stun.servers, tried in the order 1 .. NumServers
  Mappings,   \* endpoints the NAT may give the outer socket
  MaxPackets, \* bound on the packets under way
  NoTxn, NoMapping, Free

ASSUME NumServersAssumption == NumServers \in Nat \ {0}
ASSUME MaxPacketsAssumption == MaxPackets \in Nat
ASSUME NoTxnAssumption == NoTxn \notin Txns
ASSUME NoMappingAssumption == NoMapping \notin Mappings
ASSUME FreeAssumption == Free \notin Callers

Servers == 1 .. NumServers
NoServer == 0

\* "rejected" stands for error responses and whatever else ParseResponse rejects.
Kinds == {"success", "rejected"}
Packets == [src : Servers, txn : Txns, kind : Kinds, mapped : Mappings]
NoPacket == [src |-> NoServer, txn |-> NoTxn, kind |-> "none", mapped |-> NoMapping]

VARIABLES
  mu,        \* Resolver.mu
  pc,        \* pc[c]: "out", "lock", "connect", "send", "wait", "return"
  ctx,       \* ctx[c]: the caller's context: "live" or "done"
  server,    \* server[c]: the server being tried
  txn,       \* txn[c]: the transaction of the current exchange
  got,       \* got[c]: what Exchange returns, NoPacket for an error
  pending,   \* pending[t]: pendingTxn.server, NoServer when not registered
  reply,     \* reply[t]: the buffered element of pendingTxn.reply
  drawn,     \* ids drawn so far
  asked,     \* asked[t]: servers that have received t's request
  mapping,   \* the outer socket's endpoint outside the NAT
  since,     \* since[t]: endpoints it had since t's request was sent
  net        \* packets on their way to the outer socket

callVars == <<mu, pc, ctx, server, txn, got>>
registry == <<pending, reply>>
netVars == <<asked, mapping, since, net>>
vars == <<callVars, registry, drawn, netVars>>

TypeOK ==
  /\ mu \in Callers \union {Free}
  /\ pc \in [Callers -> {"out", "lock", "connect", "send", "wait", "return"}]
  /\ ctx \in [Callers -> {"live", "done"}]
  /\ server \in [Callers -> Servers \union {NoServer}]
  /\ txn \in [Callers -> Txns \union {NoTxn}]
  /\ got \in [Callers -> Packets \union {NoPacket}]
  /\ pending \in [Txns -> Servers \union {NoServer}]
  /\ reply \in [Txns -> Packets \union {NoPacket}]
  /\ drawn \subseteq Txns
  /\ asked \in [Txns -> SUBSET Servers]
  /\ mapping \in Mappings
  /\ since \in [Txns -> SUBSET Mappings]
  /\ net \subseteq Packets

Init ==
  /\ mu = Free
  /\ pc = [c \in Callers |-> "out"] /\ ctx = [c \in Callers |-> "live"]
  /\ server = [c \in Callers |-> NoServer] /\ txn = [c \in Callers |-> NoTxn]
  /\ got = [c \in Callers |-> NoPacket]
  /\ pending = [t \in Txns |-> NoServer] /\ reply = [t \in Txns |-> NoPacket]
  /\ drawn = {}
  /\ asked = [t \in Txns |-> {}] /\ since = [t \in Txns |-> {}] /\ net = {}
  /\ mapping \in Mappings

Goto(c, label) == pc' = [pc EXCEPT ![c] = label]

-----------------------------------------------------------------------------
(* Resolve.                                                                *)

\* The publish controller calls Resolve with a fresh deadline.
Resolve(c) ==
  /\ pc[c] = "out"
  /\ Goto(c, "lock")
  /\ ctx' = [ctx EXCEPT ![c] = "live"]
  /\ UNCHANGED <<mu, server, txn, got, registry, drawn, netVars>>

Lock(c) ==
  /\ pc[c] = "lock" /\ mu = Free
  /\ mu' = c
  /\ server' = [server EXCEPT ![c] = 1]
  /\ Goto(c, "connect")
  /\ UNCHANGED <<ctx, txn, got, registry, drawn, netVars>>

\* Resolve returns; the deferred unlock releases the resolver.
Returns(c) ==
  /\ mu' = Free
  /\ server' = [server EXCEPT ![c] = NoServer]
  /\ Goto(c, "out")

\* A failed Resolve forgets to unlock.
TryNextLocked(c) ==
  IF server[c] < NumServers
    THEN /\ server' = [server EXCEPT ![c] = @ + 1]
         /\ Goto(c, "connect")
         /\ UNCHANGED mu
    ELSE /\ server' = [server EXCEPT ![c] = NoServer]
         /\ Goto(c, "out")
         /\ UNCHANGED mu

\* A server failed: continue with the next, or ErrAllServersFailed.
TryNext(c) ==
  IF server[c] < NumServers
    THEN /\ server' = [server EXCEPT ![c] = @ + 1]
         /\ Goto(c, "connect")
         /\ UNCHANGED mu
    ELSE Returns(c)

\* newClient finds no proxy for the device.
NoTransport(c) ==
  /\ pc[c] = "connect" /\ server[c] = 1
  /\ Returns(c)
  /\ UNCHANGED <<ctx, txn, got, registry, drawn, netVars>>

\* The server's name does not resolve, or its family is not enabled.
ConnectFails(c) ==
  /\ pc[c] = "connect"
  /\ TryNext(c)
  /\ UNCHANGED <<ctx, txn, got, registry, drawn, netVars>>

\* BuildRequest draws t; Exchange registers it.
Register(c, t) ==
  /\ pc[c] = "connect" /\ t \notin drawn
  /\ drawn' = drawn \union {t}
  /\ txn' = [txn EXCEPT ![c] = t]
  /\ pending' = [pending EXCEPT ![t] = server[c]]
  /\ Goto(c, "send")
  /\ UNCHANGED <<mu, ctx, server, got, reply, netVars>>

\* The request is written; the network may lose it.
Send(c, lost) ==
  /\ pc[c] = "send"
  /\ asked' = [asked EXCEPT ![txn[c]] = IF lost THEN {} ELSE {server[c]}]
  /\ since' = [since EXCEPT ![txn[c]] = {mapping}]
  /\ Goto(c, "wait")
  /\ UNCHANGED <<mu, ctx, server, txn, got, registry, drawn, mapping, net>>

SendFails(c) ==
  /\ pc[c] = "send"
  /\ Goto(c, "return")
  /\ UNCHANGED <<mu, ctx, server, txn, got, registry, drawn, netVars>>

\* The three cases of Exchange's select; any that is ready may be taken.
TakeReply(c) ==
  /\ pc[c] = "wait" /\ reply[txn[c]] # NoPacket
  /\ got' = [got EXCEPT ![c] = reply[txn[c]]]
  /\ reply' = [reply EXCEPT ![txn[c]] = NoPacket]
  /\ Goto(c, "return")
  /\ UNCHANGED <<mu, ctx, server, txn, pending, drawn, netVars>>

Timeout(c) ==
  /\ pc[c] = "wait"
  /\ Goto(c, "return")
  /\ UNCHANGED <<mu, ctx, server, txn, got, registry, drawn, netVars>>

ContextDone(c) ==
  /\ pc[c] = "wait" /\ ctx[c] = "done"
  /\ Goto(c, "return")
  /\ UNCHANGED <<mu, ctx, server, txn, got, registry, drawn, netVars>>

\* Exchange returns early without its deferred Unregister.
ReturnRegistered(c) ==
  /\ pc[c] = "return"
  /\ txn' = [txn EXCEPT ![c] = NoTxn]
  /\ got' = [got EXCEPT ![c] = NoPacket]
  /\ IF got[c] # NoPacket THEN Returns(c) ELSE TryNext(c)
  /\ UNCHANGED <<ctx, registry, drawn, netVars>>

\* Unregister runs, Connect parses what came back, Resolve returns it or goes on.
Return(c) ==
  /\ pc[c] = "return"
  /\ pending' = [pending EXCEPT ![txn[c]] = NoServer]
  /\ reply' = [reply EXCEPT ![txn[c]] = NoPacket]
  /\ txn' = [txn EXCEPT ![c] = NoTxn]
  /\ got' = [got EXCEPT ![c] = NoPacket]
  /\ IF got[c] # NoPacket THEN Returns(c) ELSE TryNext(c)
  /\ UNCHANGED <<ctx, drawn, netVars>>

Cancel(c) ==
  /\ pc[c] # "out" /\ ctx[c] = "live"
  /\ ctx' = [ctx EXCEPT ![c] = "done"]
  /\ UNCHANGED <<mu, pc, server, txn, got, registry, drawn, netVars>>

-----------------------------------------------------------------------------
(* The outer loop: Classify hands STUN-shaped packets to route.            *)

\* route looks at the source only.
MatchesSource(p, t) == pending[t] = p.src

\* The waiter a packet is for: its id is registered, with the packet's source.
Matches(p, t) == p.txn = t /\ pending[t] = p.src

\* ParseResponse accepts binding successes with one valid mapped address.
Parses(p) == p.kind = "success"

\* route delivers p; the channel holds one reply.
Route(p, t) ==
  /\ p \in net
  /\ Matches(p, t) /\ Parses(p)
  /\ reply[t] = NoPacket
  /\ reply' = [reply EXCEPT ![t] = p]
  /\ UNCHANGED <<callVars, pending, drawn, netVars>>

\* route drops p, or the network does.
Drop(p) ==
  /\ p \in net
  /\ net' = net \ {p}
  /\ UNCHANGED <<callVars, registry, drawn, asked, mapping, since>>

-----------------------------------------------------------------------------
(* STUN servers and the NAT.                                               *)

\* A server reports the endpoint the request came from.  The answer may come
\* from another of its addresses, be an error, or be damaged.
Answer(t, s, src, kind) ==
  /\ s \in asked[t] /\ Cardinality(net) < MaxPackets
  /\ net' = net \union {[src |-> src, txn |-> t, kind |-> kind, mapped |-> mapping]}
  /\ UNCHANGED <<callVars, registry, drawn, asked, mapping, since>>

Remap(m) ==
  /\ m # mapping
  /\ mapping' = m
  /\ since' = [t \in Txns |-> IF since[t] = {} THEN {} ELSE since[t] \union {m}]
  /\ UNCHANGED <<callVars, registry, drawn, asked, net>>

-----------------------------------------------------------------------------
CallNext(c) ==
  \/ Resolve(c) \/ Lock(c) \/ NoTransport(c) \/ ConnectFails(c)
  \/ \E t \in Txns : Register(c, t)
  \/ \E lost \in BOOLEAN : Send(c, lost)
  \/ SendFails(c) \/ TakeReply(c) \/ Timeout(c) \/ ContextDone(c) \/ Return(c)
  \/ Cancel(c)

NetworkNext ==
  \/ \E p \in net : Drop(p) \/ \E t \in Txns : Route(p, t)
  \/ \E t \in Txns, s, src \in Servers, kind \in Kinds : Answer(t, s, src, kind)
  \/ \E m \in Mappings : Remap(m)

Next == (\E c \in Callers : CallNext(c)) \/ NetworkNext

Spec == Init /\ [][Next]_vars

\* A goroutine in Resolve runs on: the lock is a Go mutex, which starves nobody,
\* name resolution is bounded, and the timer of Exchange fires.
Progress(c) ==
  \/ NoTransport(c) \/ ConnectFails(c) \/ (\E t \in Txns : Register(c, t))
  \/ SendFails(c) \/ (\E lost \in BOOLEAN : Send(c, lost)) \/ Timeout(c) \/ Return(c)

FairSpec == Spec /\ \A c \in Callers : SF_vars(Lock(c)) /\ WF_vars(Progress(c))

-----------------------------------------------------------------------------
(* Properties.                                                             *)

\* What an exchange gets was reported by the server it asked, about an endpoint
\* the outer socket has had since that very request was written: late answers to
\* earlier exchanges, duplicates and answers from other sources never become the
\* endpoint that is published.
AnswerIsCurrent ==
  \A c \in Callers : got[c] # NoPacket =>
    got[c].src = server[c] /\ got[c].mapped \in since[txn[c]]

\* The registry holds exactly the transactions of exchanges that are under way,
\* each for the server being asked: nothing leaks when an exchange fails, times
\* out or is cancelled, and no exchange loses its entry to another.
RegistryIsExact ==
  \A t \in Txns : \A s \in Servers :
    pending[t] = s <=>
      \E c \in Callers : txn[c] = t /\ server[c] = s /\ pc[c] \in {"send", "wait", "return"}

\* Resolve is serialized: the outer socket carries one exchange at a time.
OneExchange ==
  Cardinality({t \in Txns : pending[t] # NoServer}) <= 1

\* Every Resolve returns, whatever the network does to its packets and however
\* many callers wait for the resolver's mutex.
ResolveReturns == \A c \in Callers : pc[c] = "lock" ~> pc[c] = "out"
=============================================================================
