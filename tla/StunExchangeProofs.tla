------------------------- MODULE StunExchangeProofs -------------------------
(***************************************************************************)
(* Proofs about StunExchange, for any number of callers, servers,          *)
(* transactions and endpoints.                                             *)
(***************************************************************************)
EXTENDS StunExchange, FiniteSetTheorems, TLAPS

Asking(c) == pc[c] \in {"send", "wait", "return"}

\* The holder of Resolver.mu is the one caller inside the loop over the servers.
MutexGuards ==
  \A c \in Callers :
    /\ mu = c <=> Asking(c) \/ pc[c] = "connect"
    /\ mu = c => server[c] \in Servers
    /\ txn[c] # NoTxn <=> Asking(c)

\* Registry entries belong to the exchange under way.
RegistryFollows ==
  /\ \A c \in Callers : Asking(c) => txn[c] \in drawn /\ pending[txn[c]] = server[c]
  /\ \A t \in Txns : pending[t] # NoServer => \E c \in Callers : Asking(c) /\ txn[c] = t

\* Every packet under way reports an endpoint that the socket has had since the
\* request was sent; before that there are neither packets nor servers asked.
NetIsCurrent ==
  /\ \A p \in net : p.mapped \in since[p.txn]
  /\ \A t \in Txns : since[t] # {} => mapping \in since[t]
  /\ \A t \in Txns : asked[t] # {} => since[t] # {}
  /\ \A t \in Txns : t \notin drawn => since[t] = {}
  /\ \A c \in Callers : pc[c] = "send" => since[txn[c]] = {}

\* What route has accepted comes from the registered server and is current.
RepliesAreCurrent ==
  /\ \A t \in Txns : reply[t] # NoPacket =>
       reply[t].src = pending[t] /\ reply[t].mapped \in since[t]
  /\ \A c \in Callers : got[c] # NoPacket => pc[c] = "return"

IInv ==
  /\ TypeOK /\ MutexGuards /\ RegistryFollows /\ NetIsCurrent /\ RepliesAreCurrent
  /\ AnswerIsCurrent

\* 0 is no server, and servers are numbers.
LEMMA ServersExclude == NoServer \notin Servers
BY DEF NoServer, Servers

\* The placeholder for an empty channel is no packet, and packets have their
\* fields.
LEMMA PacketFields ==
  /\ NoPacket \notin Packets
  /\ \A p \in Packets : p.src \in Servers /\ p.txn \in Txns /\ p.mapped \in Mappings
BY ServersExclude DEF NoPacket, Packets

\* Initially nobody resolves, nothing is registered and nothing is under way.
LEMMA InitSound == Init => IInv
<1> SUFFICES ASSUME Init PROVE IInv
  OBVIOUS
<1>1. TypeOK
  BY DEF Init, TypeOK
<1>2. MutexGuards /\ RegistryFollows
  BY FreeAssumption, NoTxnAssumption DEF Init, MutexGuards, RegistryFollows, Asking
<1>3. NetIsCurrent /\ RepliesAreCurrent /\ AnswerIsCurrent
  BY DEF Init, NetIsCurrent, RepliesAreCurrent, AnswerIsCurrent
<1> QED
  BY <1>1, <1>2, <1>3 DEF IInv

\* A caller enters Resolve, or its context ends.
LEMMA ResolveStep ==
  ASSUME IInv, NEW c \in Callers, Resolve(c) \/ Cancel(c)
  PROVE  IInv'
<1>1. TypeOK'
  BY NumServersAssumption
     DEF Resolve, Cancel, IInv, callVars, registry, netVars, Goto, TypeOK, Servers, NoServer
<1>2. MutexGuards'
  BY FreeAssumption, NoTxnAssumption, NumServersAssumption
     DEF Resolve, Cancel, IInv, callVars, registry, netVars, Goto, TypeOK, MutexGuards,
         Asking, Servers, NoServer
<1>3. RegistryFollows'
  BY FreeAssumption, NoTxnAssumption, ServersExclude
     DEF Resolve, Cancel, IInv, callVars, registry, netVars, Goto, TypeOK, MutexGuards,
         RegistryFollows, Asking
<1>4. NetIsCurrent'
  BY NoTxnAssumption
     DEF Resolve, Cancel, IInv, callVars, registry, netVars, Goto, TypeOK, MutexGuards,
         RegistryFollows, NetIsCurrent, Asking
<1>5. RepliesAreCurrent'
  BY FreeAssumption, NoTxnAssumption, ServersExclude, PacketFields
     DEF Resolve, Cancel, IInv, callVars, registry, netVars, Goto, TypeOK, MutexGuards,
         RegistryFollows, NetIsCurrent, RepliesAreCurrent, Asking
<1>6. AnswerIsCurrent'
  BY FreeAssumption, NoTxnAssumption, ServersExclude, PacketFields
     DEF Resolve, Cancel, IInv, callVars, registry, netVars, Goto, TypeOK, MutexGuards,
         RegistryFollows, NetIsCurrent, RepliesAreCurrent, AnswerIsCurrent, Asking
<1> QED
  BY <1>1, <1>2, <1>3, <1>4, <1>5, <1>6 DEF IInv

\* Resolve acquires the mutex.
LEMMA LockStep ==
  ASSUME IInv, NEW c \in Callers, Lock(c)
  PROVE  IInv'
<1>1. TypeOK'
  BY NumServersAssumption
     DEF Lock, IInv, callVars, registry, netVars, Goto, TypeOK, Servers, NoServer
<1>2. MutexGuards'
  BY FreeAssumption, NoTxnAssumption, NumServersAssumption
     DEF Lock, IInv, callVars, registry, netVars, Goto, TypeOK, MutexGuards, Asking,
         Servers, NoServer
<1>3. RegistryFollows'
  BY FreeAssumption, NoTxnAssumption, ServersExclude
     DEF Lock, IInv, callVars, registry, netVars, Goto, TypeOK, MutexGuards,
         RegistryFollows, Asking
<1>4. NetIsCurrent'
  BY NoTxnAssumption
     DEF Lock, IInv, callVars, registry, netVars, Goto, TypeOK, MutexGuards,
         RegistryFollows, NetIsCurrent, Asking
<1>5. RepliesAreCurrent'
  BY FreeAssumption, NoTxnAssumption, ServersExclude, PacketFields
     DEF Lock, IInv, callVars, registry, netVars, Goto, TypeOK, MutexGuards,
         RegistryFollows, NetIsCurrent, RepliesAreCurrent, Asking
<1>6. AnswerIsCurrent'
  BY FreeAssumption, NoTxnAssumption, ServersExclude, PacketFields
     DEF Lock, IInv, callVars, registry, netVars, Goto, TypeOK, MutexGuards,
         RegistryFollows, NetIsCurrent, RepliesAreCurrent, AnswerIsCurrent, Asking
<1> QED
  BY <1>1, <1>2, <1>3, <1>4, <1>5, <1>6 DEF IInv

\* A server cannot be asked.
LEMMA ConnectStep ==
  ASSUME IInv, NEW c \in Callers, NoTransport(c) \/ ConnectFails(c)
  PROVE  IInv'
<1>1. TypeOK'
  BY NumServersAssumption
     DEF NoTransport, ConnectFails, TryNext, Returns, IInv, callVars, registry, netVars,
         Goto, TypeOK, Servers, NoServer
<1>2. MutexGuards'
  BY FreeAssumption, NoTxnAssumption, NumServersAssumption
     DEF NoTransport, ConnectFails, TryNext, Returns, IInv, callVars, registry, netVars,
         Goto, TypeOK, MutexGuards, Asking, Servers, NoServer
<1>3. RegistryFollows'
  BY FreeAssumption, NoTxnAssumption, ServersExclude
     DEF NoTransport, ConnectFails, TryNext, Returns, IInv, callVars, registry, netVars,
         Goto, TypeOK, MutexGuards, RegistryFollows, Asking
<1>4. NetIsCurrent'
  BY NoTxnAssumption
     DEF NoTransport, ConnectFails, TryNext, Returns, IInv, callVars, registry, netVars,
         Goto, TypeOK, MutexGuards, RegistryFollows, NetIsCurrent, Asking
<1>5. RepliesAreCurrent'
  BY FreeAssumption, NoTxnAssumption, ServersExclude, PacketFields
     DEF NoTransport, ConnectFails, TryNext, Returns, IInv, callVars, registry, netVars,
         Goto, TypeOK, MutexGuards, RegistryFollows, NetIsCurrent, RepliesAreCurrent, Asking
<1>6. AnswerIsCurrent'
  BY FreeAssumption, NoTxnAssumption, ServersExclude, PacketFields
     DEF NoTransport, ConnectFails, TryNext, Returns, IInv, callVars, registry, netVars,
         Goto, TypeOK, MutexGuards, RegistryFollows, NetIsCurrent, RepliesAreCurrent,
         AnswerIsCurrent, Asking
<1> QED
  BY <1>1, <1>2, <1>3, <1>4, <1>5, <1>6 DEF IInv

\* Exchange registers a transaction that was never drawn before.
LEMMA RegisterStep ==
  ASSUME IInv, NEW c \in Callers, NEW t \in Txns, Register(c, t)
  PROVE  IInv'
<1>1. TypeOK'
  BY NumServersAssumption
     DEF Register, IInv, callVars, registry, netVars, Goto, TypeOK, Servers, NoServer
<1>2. MutexGuards'
  BY FreeAssumption, NoTxnAssumption, NumServersAssumption
     DEF Register, IInv, callVars, registry, netVars, Goto, TypeOK, MutexGuards, Asking,
         Servers, NoServer
<1>3. RegistryFollows'
  BY FreeAssumption, NoTxnAssumption, ServersExclude
     DEF Register, IInv, callVars, registry, netVars, Goto, TypeOK, MutexGuards,
         RegistryFollows, Asking
<1>4. NetIsCurrent'
  BY NoTxnAssumption
     DEF Register, IInv, callVars, registry, netVars, Goto, TypeOK, MutexGuards,
         RegistryFollows, NetIsCurrent, Asking
<1>5. RepliesAreCurrent'
  BY FreeAssumption, NoTxnAssumption, ServersExclude, PacketFields
     DEF Register, IInv, callVars, registry, netVars, Goto, TypeOK, MutexGuards,
         RegistryFollows, NetIsCurrent, RepliesAreCurrent, Asking
<1>6. AnswerIsCurrent'
  BY FreeAssumption, NoTxnAssumption, ServersExclude, PacketFields
     DEF Register, IInv, callVars, registry, netVars, Goto, TypeOK, MutexGuards,
         RegistryFollows, NetIsCurrent, RepliesAreCurrent, AnswerIsCurrent, Asking
<1> QED
  BY <1>1, <1>2, <1>3, <1>4, <1>5, <1>6 DEF IInv

\* Exchange writes the request.
LEMMA SendStep ==
  ASSUME IInv, NEW c \in Callers, NEW lost \in BOOLEAN, Send(c, lost)
  PROVE  IInv'
<1>0. txn[c] \in Txns /\ server[c] \in Servers
  BY FreeAssumption DEF Send, IInv, TypeOK, MutexGuards, Asking
<1>1. TypeOK'
  BY <1>0, PacketFields, NumServersAssumption
     DEF Send, IInv, callVars, registry, netVars, Goto, TypeOK, Servers, NoServer
<1>2. MutexGuards'
  BY FreeAssumption, NoTxnAssumption, NumServersAssumption
     DEF Send, IInv, callVars, registry, netVars, Goto, TypeOK, MutexGuards, Asking,
         Servers, NoServer
<1>3. RegistryFollows'
  BY FreeAssumption, NoTxnAssumption, ServersExclude
     DEF Send, IInv, callVars, registry, netVars, Goto, TypeOK, MutexGuards,
         RegistryFollows, Asking
<1>4. NetIsCurrent'
  BY NoTxnAssumption
     DEF Send, IInv, callVars, registry, netVars, Goto, TypeOK, MutexGuards,
         RegistryFollows, NetIsCurrent, Asking
<1>5. RepliesAreCurrent'
  BY FreeAssumption, NoTxnAssumption, ServersExclude, PacketFields
     DEF Send, IInv, callVars, registry, netVars, Goto, TypeOK, MutexGuards,
         RegistryFollows, NetIsCurrent, RepliesAreCurrent, Asking
<1>6. AnswerIsCurrent'
  BY FreeAssumption, NoTxnAssumption, ServersExclude, PacketFields
     DEF Send, IInv, callVars, registry, netVars, Goto, TypeOK, MutexGuards,
         RegistryFollows, NetIsCurrent, RepliesAreCurrent, AnswerIsCurrent, Asking
<1> QED
  BY <1>1, <1>2, <1>3, <1>4, <1>5, <1>6 DEF IInv

\* Exchange takes the reply from its channel.
LEMMA TakeStep ==
  ASSUME IInv, NEW c \in Callers, TakeReply(c)
  PROVE  IInv'
<1>0. txn[c] \in Txns /\ server[c] \in Servers
  BY FreeAssumption DEF TakeReply, IInv, TypeOK, MutexGuards, Asking
<1>1. TypeOK'
  BY <1>0, PacketFields, NumServersAssumption
     DEF TakeReply, IInv, callVars, registry, netVars, Goto, TypeOK, Servers, NoServer
<1>2. MutexGuards'
  BY FreeAssumption, NoTxnAssumption, NumServersAssumption
     DEF TakeReply, IInv, callVars, registry, netVars, Goto, TypeOK, MutexGuards, Asking,
         Servers, NoServer
<1>3. RegistryFollows'
  BY FreeAssumption, NoTxnAssumption, ServersExclude
     DEF TakeReply, IInv, callVars, registry, netVars, Goto, TypeOK, MutexGuards,
         RegistryFollows, Asking
<1>4. NetIsCurrent'
  BY NoTxnAssumption
     DEF TakeReply, IInv, callVars, registry, netVars, Goto, TypeOK, MutexGuards,
         RegistryFollows, NetIsCurrent, Asking
<1>5. RepliesAreCurrent'
  BY FreeAssumption, NoTxnAssumption, ServersExclude, PacketFields
     DEF TakeReply, IInv, callVars, registry, netVars, Goto, TypeOK, MutexGuards,
         RegistryFollows, NetIsCurrent, RepliesAreCurrent, Asking
<1>6. AnswerIsCurrent'
  BY FreeAssumption, NoTxnAssumption, ServersExclude, PacketFields
     DEF TakeReply, IInv, callVars, registry, netVars, Goto, TypeOK, MutexGuards,
         RegistryFollows, NetIsCurrent, RepliesAreCurrent, AnswerIsCurrent, Asking
<1> QED
  BY <1>1, <1>2, <1>3, <1>4, <1>5, <1>6 DEF IInv

\* Exchange fails to send, times out or is cancelled.
LEMMA GiveUpStep ==
  ASSUME IInv, NEW c \in Callers, SendFails(c) \/ Timeout(c) \/ ContextDone(c)
  PROVE  IInv'
<1>1. TypeOK'
  BY NumServersAssumption
     DEF SendFails, Timeout, ContextDone, IInv, callVars, registry, netVars, Goto, TypeOK,
         Servers, NoServer
<1>2. MutexGuards'
  BY FreeAssumption, NoTxnAssumption, NumServersAssumption
     DEF SendFails, Timeout, ContextDone, IInv, callVars, registry, netVars, Goto, TypeOK,
         MutexGuards, Asking, Servers, NoServer
<1>3. RegistryFollows'
  BY FreeAssumption, NoTxnAssumption, ServersExclude
     DEF SendFails, Timeout, ContextDone, IInv, callVars, registry, netVars, Goto, TypeOK,
         MutexGuards, RegistryFollows, Asking
<1>4. NetIsCurrent'
  BY NoTxnAssumption
     DEF SendFails, Timeout, ContextDone, IInv, callVars, registry, netVars, Goto, TypeOK,
         MutexGuards, RegistryFollows, NetIsCurrent, Asking
<1>5. RepliesAreCurrent'
  BY FreeAssumption, NoTxnAssumption, ServersExclude, PacketFields
     DEF SendFails, Timeout, ContextDone, IInv, callVars, registry, netVars, Goto, TypeOK,
         MutexGuards, RegistryFollows, NetIsCurrent, RepliesAreCurrent, Asking
<1>6. AnswerIsCurrent'
  BY FreeAssumption, NoTxnAssumption, ServersExclude, PacketFields
     DEF SendFails, Timeout, ContextDone, IInv, callVars, registry, netVars, Goto, TypeOK,
         MutexGuards, RegistryFollows, NetIsCurrent, RepliesAreCurrent, AnswerIsCurrent,
         Asking
<1> QED
  BY <1>1, <1>2, <1>3, <1>4, <1>5, <1>6 DEF IInv

\* Exchange unregisters and Resolve returns or goes on.
LEMMA ReturnStep ==
  ASSUME IInv, NEW c \in Callers, Return(c)
  PROVE  IInv'
<1>0. txn[c] \in Txns /\ server[c] \in Servers
  BY FreeAssumption DEF Return, IInv, TypeOK, MutexGuards, Asking
<1>1. TypeOK'
  BY <1>0, PacketFields, NumServersAssumption
     DEF Return, TryNext, Returns, IInv, callVars, registry, netVars, Goto, TypeOK, Servers,
         NoServer
<1>2. MutexGuards'
  BY FreeAssumption, NoTxnAssumption, NumServersAssumption
     DEF Return, TryNext, Returns, IInv, callVars, registry, netVars, Goto, TypeOK,
         MutexGuards, Asking, Servers, NoServer
<1>3. RegistryFollows'
  BY FreeAssumption, NoTxnAssumption, ServersExclude
     DEF Return, TryNext, Returns, IInv, callVars, registry, netVars, Goto, TypeOK,
         MutexGuards, RegistryFollows, Asking
<1>4. NetIsCurrent'
  BY NoTxnAssumption
     DEF Return, TryNext, Returns, IInv, callVars, registry, netVars, Goto, TypeOK,
         MutexGuards, RegistryFollows, NetIsCurrent, Asking
<1>5. RepliesAreCurrent'
  BY FreeAssumption, NoTxnAssumption, ServersExclude, PacketFields
     DEF Return, TryNext, Returns, IInv, callVars, registry, netVars, Goto, TypeOK,
         MutexGuards, RegistryFollows, NetIsCurrent, RepliesAreCurrent, Asking
<1>6. AnswerIsCurrent'
  BY FreeAssumption, NoTxnAssumption, ServersExclude, PacketFields
     DEF Return, TryNext, Returns, IInv, callVars, registry, netVars, Goto, TypeOK,
         MutexGuards, RegistryFollows, NetIsCurrent, RepliesAreCurrent, AnswerIsCurrent,
         Asking
<1> QED
  BY <1>1, <1>2, <1>3, <1>4, <1>5, <1>6 DEF IInv

\* route hands a packet to the exchange it matches.
LEMMA RouteStep ==
  ASSUME IInv, NEW p \in net, NEW t \in Txns, Route(p, t)
  PROVE  IInv'
<1>1. TypeOK'
  BY NumServersAssumption
     DEF Route, Matches, Parses, IInv, callVars, registry, netVars, Goto, TypeOK, Servers,
         NoServer
<1>2. MutexGuards'
  BY FreeAssumption, NoTxnAssumption, NumServersAssumption
     DEF Route, Matches, Parses, IInv, callVars, registry, netVars, Goto, TypeOK,
         MutexGuards, Asking, Servers, NoServer
<1>3. RegistryFollows'
  BY FreeAssumption, NoTxnAssumption, ServersExclude
     DEF Route, Matches, Parses, IInv, callVars, registry, netVars, Goto, TypeOK,
         MutexGuards, RegistryFollows, Asking
<1>4. NetIsCurrent'
  BY NoTxnAssumption
     DEF Route, Matches, Parses, IInv, callVars, registry, netVars, Goto, TypeOK,
         MutexGuards, RegistryFollows, NetIsCurrent, Asking
<1>5. RepliesAreCurrent'
  BY FreeAssumption, NoTxnAssumption, ServersExclude, PacketFields
     DEF Route, Matches, Parses, IInv, callVars, registry, netVars, Goto, TypeOK,
         MutexGuards, RegistryFollows, NetIsCurrent, RepliesAreCurrent, Asking
<1>6. AnswerIsCurrent'
  BY FreeAssumption, NoTxnAssumption, ServersExclude, PacketFields
     DEF Route, Matches, Parses, IInv, callVars, registry, netVars, Goto, TypeOK,
         MutexGuards, RegistryFollows, NetIsCurrent, RepliesAreCurrent, AnswerIsCurrent,
         Asking
<1> QED
  BY <1>1, <1>2, <1>3, <1>4, <1>5, <1>6 DEF IInv

\* A packet is dropped.
LEMMA DropStep ==
  ASSUME IInv, NEW p \in net, Drop(p)
  PROVE  IInv'
<1>1. TypeOK'
  BY NumServersAssumption
     DEF Drop, IInv, callVars, registry, netVars, Goto, TypeOK, Servers, NoServer
<1>2. MutexGuards'
  BY FreeAssumption, NoTxnAssumption, NumServersAssumption
     DEF Drop, IInv, callVars, registry, netVars, Goto, TypeOK, MutexGuards, Asking,
         Servers, NoServer
<1>3. RegistryFollows'
  BY FreeAssumption, NoTxnAssumption, ServersExclude
     DEF Drop, IInv, callVars, registry, netVars, Goto, TypeOK, MutexGuards,
         RegistryFollows, Asking
<1>4. NetIsCurrent'
  BY NoTxnAssumption
     DEF Drop, IInv, callVars, registry, netVars, Goto, TypeOK, MutexGuards,
         RegistryFollows, NetIsCurrent, Asking
<1>5. RepliesAreCurrent'
  BY FreeAssumption, NoTxnAssumption, ServersExclude, PacketFields
     DEF Drop, IInv, callVars, registry, netVars, Goto, TypeOK, MutexGuards,
         RegistryFollows, NetIsCurrent, RepliesAreCurrent, Asking
<1>6. AnswerIsCurrent'
  BY FreeAssumption, NoTxnAssumption, ServersExclude, PacketFields
     DEF Drop, IInv, callVars, registry, netVars, Goto, TypeOK, MutexGuards,
         RegistryFollows, NetIsCurrent, RepliesAreCurrent, AnswerIsCurrent, Asking
<1> QED
  BY <1>1, <1>2, <1>3, <1>4, <1>5, <1>6 DEF IInv

\* A server that was asked answers.
LEMMA AnswerStep ==
  ASSUME IInv, NEW t \in Txns, NEW s \in Servers, NEW src \in Servers, NEW kind \in Kinds, Answer(t, s, src, kind)
  PROVE  IInv'
<1>1. TypeOK'
  BY NumServersAssumption
     DEF Answer, IInv, callVars, registry, netVars, Goto, TypeOK, Servers, NoServer, Packets
<1>2. MutexGuards'
  BY FreeAssumption, NoTxnAssumption, NumServersAssumption
     DEF Answer, IInv, callVars, registry, netVars, Goto, TypeOK, MutexGuards, Asking,
         Servers, NoServer
<1>3. RegistryFollows'
  BY FreeAssumption, NoTxnAssumption, ServersExclude
     DEF Answer, IInv, callVars, registry, netVars, Goto, TypeOK, MutexGuards,
         RegistryFollows, Asking
<1>4. NetIsCurrent'
  BY NoTxnAssumption
     DEF Answer, IInv, callVars, registry, netVars, Goto, TypeOK, MutexGuards,
         RegistryFollows, NetIsCurrent, Asking
<1>5. RepliesAreCurrent'
  BY FreeAssumption, NoTxnAssumption, ServersExclude, PacketFields
     DEF Answer, IInv, callVars, registry, netVars, Goto, TypeOK, MutexGuards,
         RegistryFollows, NetIsCurrent, RepliesAreCurrent, Asking
<1>6. AnswerIsCurrent'
  BY FreeAssumption, NoTxnAssumption, ServersExclude, PacketFields
     DEF Answer, IInv, callVars, registry, netVars, Goto, TypeOK, MutexGuards,
         RegistryFollows, NetIsCurrent, RepliesAreCurrent, AnswerIsCurrent, Asking
<1> QED
  BY <1>1, <1>2, <1>3, <1>4, <1>5, <1>6 DEF IInv

\* The NAT changes the mapping.
LEMMA RemapStep ==
  ASSUME IInv, NEW m \in Mappings, Remap(m)
  PROVE  IInv'
<1>1. TypeOK'
  BY NumServersAssumption
     DEF Remap, IInv, callVars, registry, netVars, Goto, TypeOK, Servers, NoServer
<1>2. MutexGuards'
  BY FreeAssumption, NoTxnAssumption, NumServersAssumption
     DEF Remap, IInv, callVars, registry, netVars, Goto, TypeOK, MutexGuards, Asking,
         Servers, NoServer
<1>3. RegistryFollows'
  BY FreeAssumption, NoTxnAssumption, ServersExclude
     DEF Remap, IInv, callVars, registry, netVars, Goto, TypeOK, MutexGuards,
         RegistryFollows, Asking
<1>4. NetIsCurrent'
  BY NoTxnAssumption, PacketFields
     DEF Remap, IInv, callVars, registry, netVars, Goto, TypeOK, MutexGuards,
         RegistryFollows, NetIsCurrent, Asking
<1>5. RepliesAreCurrent'
  BY FreeAssumption, NoTxnAssumption, ServersExclude, PacketFields
     DEF Remap, IInv, callVars, registry, netVars, Goto, TypeOK, MutexGuards,
         RegistryFollows, NetIsCurrent, RepliesAreCurrent, Asking
<1>6. AnswerIsCurrent'
  BY FreeAssumption, NoTxnAssumption, ServersExclude, PacketFields
     DEF Remap, IInv, callVars, registry, netVars, Goto, TypeOK, MutexGuards,
         RegistryFollows, NetIsCurrent, RepliesAreCurrent, AnswerIsCurrent, Asking
<1> QED
  BY <1>1, <1>2, <1>3, <1>4, <1>5, <1>6 DEF IInv

\* A step that changes nothing.
LEMMA Stutter ==
  ASSUME IInv, UNCHANGED vars
  PROVE  IInv'
<1>1. TypeOK'
  BY NumServersAssumption
     DEF vars, IInv, callVars, registry, netVars, Goto, TypeOK, Servers, NoServer
<1>2. MutexGuards'
  BY FreeAssumption, NoTxnAssumption, NumServersAssumption
     DEF vars, IInv, callVars, registry, netVars, Goto, TypeOK, MutexGuards, Asking,
         Servers, NoServer
<1>3. RegistryFollows'
  BY FreeAssumption, NoTxnAssumption, ServersExclude
     DEF vars, IInv, callVars, registry, netVars, Goto, TypeOK, MutexGuards,
         RegistryFollows, Asking
<1>4. NetIsCurrent'
  BY NoTxnAssumption
     DEF vars, IInv, callVars, registry, netVars, Goto, TypeOK, MutexGuards,
         RegistryFollows, NetIsCurrent, Asking
<1>5. RepliesAreCurrent'
  BY FreeAssumption, NoTxnAssumption, ServersExclude, PacketFields
     DEF vars, IInv, callVars, registry, netVars, Goto, TypeOK, MutexGuards,
         RegistryFollows, NetIsCurrent, RepliesAreCurrent, Asking
<1>6. AnswerIsCurrent'
  BY FreeAssumption, NoTxnAssumption, ServersExclude, PacketFields
     DEF vars, IInv, callVars, registry, netVars, Goto, TypeOK, MutexGuards,
         RegistryFollows, NetIsCurrent, RepliesAreCurrent, AnswerIsCurrent, Asking
<1> QED
  BY <1>1, <1>2, <1>3, <1>4, <1>5, <1>6 DEF IInv

\* Every step keeps the invariant.
LEMMA NextStep == IInv /\ [Next]_vars => IInv'
<1> SUFFICES ASSUME IInv, [Next]_vars PROVE IInv'
  OBVIOUS
<1>1. ASSUME NEW c \in Callers, CallNext(c) PROVE IInv'
  BY <1>1, ResolveStep, LockStep, ConnectStep, RegisterStep, SendStep, TakeStep, GiveUpStep,
     ReturnStep DEF CallNext
<1>2. CASE NetworkNext
  BY <1>2, RouteStep, DropStep, AnswerStep, RemapStep DEF NetworkNext
<1>3. CASE UNCHANGED vars
  BY <1>3, Stutter
<1> QED
  BY <1>1, <1>2, <1>3 DEF Next

\* The invariant holds in every state.
LEMMA Inductive == Spec => []IInv
BY InitSound, NextStep, PTL DEF Spec

\* Callers, registry and network keep their types.
THEOREM TypeCorrect == Spec => []TypeOK
<1>1. IInv => TypeOK
  BY DEF IInv
<1> QED
  BY <1>1, Inductive, PTL

\* Exchange returns only what the server it asked reported about an endpoint the
\* socket has had since the request was written.
THEOREM Current == Spec => []AnswerIsCurrent
<1>1. IInv => AnswerIsCurrent
  BY DEF IInv
<1> QED
  BY <1>1, Inductive, PTL

\* Register and Unregister keep the registry to the exchanges under way.
THEOREM Registry == Spec => []RegistryIsExact
<1>1. ASSUME IInv PROVE RegistryIsExact
  BY <1>1, ServersExclude DEF IInv, MutexGuards, RegistryFollows, RegistryIsExact, Asking
<1> QED
  BY <1>1, Inductive, PTL

\* Resolver.mu admits one exchange at a time.
THEOREM Serialized == Spec => []OneExchange
<1>1. ASSUME IInv PROVE OneExchange
  <2> DEFINE Open == {t \in Txns : pending[t] # NoServer}
  <2>1. \A t, u \in Open : t = u
    BY <1>1 DEF IInv, MutexGuards, RegistryFollows
  <2>2. CASE Open = {}
    BY <2>2, FS_EmptySet DEF OneExchange
  <2>3. CASE Open # {}
    <3>1. PICK t \in Open : Open = {t}
      BY <2>1, <2>3
    <3>2. Cardinality({t}) = 1
      BY FS_Singleton
    <3> QED
      BY <3>1, <3>2 DEF OneExchange
  <2> QED
    BY <2>2, <2>3
<1> QED
  BY <1>1, Inductive, PTL

-----------------------------------------------------------------------------
(* What ends up published.                                                 *)

\* What Exchange returns is a success that ParseResponse accepted, and carries
\* the id of that very exchange.
ReplyIsParsed ==
  \A c \in Callers : got[c] # NoPacket => Parses(got[c]) /\ got[c].txn = txn[c]

\* So does what waits in the channel.
ParsedInv ==
  /\ ReplyIsParsed
  /\ \A t \in Txns : reply[t] # NoPacket => Parses(reply[t]) /\ reply[t].txn = t

\* Rejected, damaged and late responses are dropped by route before they reach an
\* exchange, so Resolve never returns the contents of one.
THEOREM OnlyParsedReplies == Spec => []ReplyIsParsed
<1>1. Init => ParsedInv
  BY DEF Init, ParsedInv, ReplyIsParsed
<1>2. IInv /\ ParsedInv /\ [Next]_vars => ParsedInv'
  <2> SUFFICES ASSUME IInv, ParsedInv, [Next]_vars PROVE ParsedInv'
    OBVIOUS
  <2> USE DEF ParsedInv, ReplyIsParsed, Parses
  <2>1. CASE UNCHANGED vars
    BY <2>1 DEF vars, callVars, registry
  <2>2. ASSUME NEW c \in Callers, CallNext(c) PROVE ParsedInv'
    <3>1. CASE Resolve(c) \/ Lock(c) \/ NoTransport(c) \/ ConnectFails(c) \/ Cancel(c)
      BY <3>1 DEF Resolve, Lock, NoTransport, ConnectFails, Cancel, registry
    <3>2. CASE \E t \in Txns : Register(c, t)
      BY <3>2 DEF Register, IInv, TypeOK, RepliesAreCurrent
    <3>3. CASE SendFails(c) \/ Timeout(c) \/ ContextDone(c) \/ \E lost \in BOOLEAN : Send(c, lost)
      BY <3>3 DEF SendFails, Timeout, ContextDone, Send, registry
    <3>4. CASE TakeReply(c)
      <4>1. txn[c] \in Txns
        BY <3>4 DEF TakeReply, IInv, TypeOK, MutexGuards, Asking
      <4> QED
        BY <3>4, <4>1 DEF TakeReply, IInv, TypeOK
    <3>5. CASE Return(c)
      <4>1. txn[c] \in Txns
        BY <3>5 DEF Return, IInv, TypeOK, MutexGuards, Asking
      <4> QED
        BY <3>5, <4>1 DEF Return, IInv, TypeOK
    <3> QED
      BY <2>2, <3>1, <3>2, <3>3, <3>4, <3>5 DEF CallNext
  <2>3. ASSUME NEW p \in net, NEW t \in Txns, Route(p, t) PROVE ParsedInv'
    BY <2>3 DEF Route, Matches, callVars, IInv, TypeOK
  <2>4. CASE (\E p \in net : Drop(p)) \/ (\E m \in Mappings : Remap(m))
             \/ \E t \in Txns, s, src \in Servers, kind \in Kinds : Answer(t, s, src, kind)
    BY <2>4 DEF Drop, Remap, Answer, callVars, registry
  <2> QED
    BY <2>1, <2>2, <2>3, <2>4 DEF Next, NetworkNext
<1>3. ParsedInv => ReplyIsParsed
  BY DEF ParsedInv
<1> QED
  BY <1>1, <1>2, <1>3, Inductive, PTL DEF Spec

-----------------------------------------------------------------------------
(* What ResolveReturns rests on.                                           *)

\* How far the exchange with one server is from its end.
Stage(c) ==
  CASE pc[c] = "connect" -> 3 [] pc[c] = "send" -> 2 [] pc[c] = "wait" -> 1 [] OTHER -> 0

\* The steps the holder of the resolver has left at most.
StepsLeft(c) == 4 * (NumServers - server[c]) + Stage(c)

\* The resolver is held for a bounded number of steps: the holder is at one of the
\* four stages of an exchange, none of which needs another goroutine, and each
\* step it takes releases the resolver or leaves it fewer steps than before.  In
\* particular no server is asked twice and none is asked before its turn.
HeldForBoundedSteps ==
  /\ [](\A c \in Callers : mu = c =>
          pc[c] \in {"connect", "send", "wait", "return"} /\ StepsLeft(c) \in 0 .. 4 * NumServers - 1)
  /\ [][\A c \in Callers : mu = c =>
          \/ UNCHANGED <<mu, pc[c], server[c]>>
          \/ mu' = Free /\ pc'[c] = "out"
          \/ mu' = c /\ StepsLeft(c)' < StepsLeft(c)]_vars

\* Resolve's loop over the servers ends for whoever is in it, so that those who
\* wait for Resolver.mu get their turn.
THEOREM ResolveIsBounded == Spec => HeldForBoundedSteps
<1> DEFINE Bounded == \A c \in Callers : mu = c =>
             pc[c] \in {"connect", "send", "wait", "return"} /\ StepsLeft(c) \in 0 .. 4 * NumServers - 1
           Nearer == \A c \in Callers : mu = c =>
             \/ UNCHANGED <<mu, pc[c], server[c]>>
             \/ mu' = Free /\ pc'[c] = "out"
             \/ mu' = c /\ StepsLeft(c)' < StepsLeft(c)
<1>1. IInv => Bounded
  BY NumServersAssumption DEF IInv, MutexGuards, Asking, StepsLeft, Stage, Servers
<1>2. ASSUME IInv, Next, NEW c \in Callers, mu = c
      PROVE  \/ UNCHANGED <<mu, pc[c], server[c]>>
             \/ mu' = Free /\ pc'[c] = "out"
             \/ mu' = c /\ StepsLeft(c)' < StepsLeft(c)
  <2>1. server[c] \in 1 .. NumServers /\ pc[c] \in {"connect", "send", "wait", "return"}
    BY <1>2 DEF IInv, MutexGuards, Asking, Servers
  <2>2. ASSUME NEW d \in Callers, d # c, CallNext(d) PROVE UNCHANGED <<mu, pc[c], server[c]>>
    <3>1. pc[d] \in {"out", "lock"}
      BY <1>2, <2>2 DEF IInv, TypeOK, MutexGuards, Asking
    <3> QED
      BY <1>2, <2>2, <3>1, FreeAssumption DEF CallNext, Resolve, Lock, NoTransport, ConnectFails, Register, Send,
         SendFails, TakeReply, Timeout, ContextDone, Return, Cancel, Goto, IInv, TypeOK
  <2>3. ASSUME TryNext(c), pc[c] \in {"connect", "return"}
        PROVE  (mu' = Free /\ pc'[c] = "out") \/ (mu' = c /\ StepsLeft(c)' < StepsLeft(c))
    <3>1. CASE server[c] < NumServers
      <4>1. mu' = c /\ server'[c] = server[c] + 1 /\ pc'[c] = "connect"
        BY <1>2, <2>3, <3>1 DEF TryNext, Goto, IInv, TypeOK
      <4>2. Stage(c)' = 3 /\ Stage(c) \in {0, 3}
        BY <2>3, <4>1 DEF Stage
      <4> QED
        BY <2>1, <2>3, <3>1, <4>1, <4>2, NumServersAssumption DEF StepsLeft
    <3>2. CASE ~(server[c] < NumServers)
      BY <1>2, <2>3, <3>2 DEF TryNext, Returns, Goto, IInv, TypeOK
    <3> QED
      BY <3>1, <3>2
  <2>4. ASSUME CallNext(c)
        PROVE  \/ UNCHANGED <<mu, pc[c], server[c]>>
               \/ mu' = Free /\ pc'[c] = "out"
               \/ mu' = c /\ StepsLeft(c)' < StepsLeft(c)
    <3>1. CASE NoTransport(c)
      BY <1>2, <3>1 DEF NoTransport, Returns, Goto, IInv, TypeOK
    <3>2. CASE ConnectFails(c)
      BY <2>3, <3>2 DEF ConnectFails
    <3>3. CASE Return(c)
      BY <1>2, <2>3, <3>3 DEF Return, Returns, Goto, IInv, TypeOK
    <3>4. CASE \/ \E t \in Txns : Register(c, t)
               \/ \E lost \in BOOLEAN : Send(c, lost)
               \/ SendFails(c) \/ TakeReply(c) \/ Timeout(c) \/ ContextDone(c)
      <4>1. mu' = c /\ server'[c] = server[c] /\ Stage(c)' < Stage(c) /\ Stage(c) \in Nat /\ Stage(c)' \in Nat
        BY <1>2, <3>4 DEF Register, Send, SendFails, TakeReply, Timeout, ContextDone, Goto, Stage, IInv, TypeOK
      <4> QED
        BY <2>1, <4>1, NumServersAssumption DEF StepsLeft
    <3>5. CASE Resolve(c) \/ Lock(c) \/ Cancel(c)
      BY <2>1, <3>5 DEF Resolve, Lock, Cancel
    <3> QED
      BY <2>4, <3>1, <3>2, <3>3, <3>4, <3>5 DEF CallNext
  <2>5. CASE NetworkNext
    BY <2>5 DEF NetworkNext, Drop, Route, Answer, Remap, callVars
  <2> QED
    BY <1>2, <2>2, <2>4, <2>5 DEF Next
<1>3. IInv /\ [Next]_vars => [Nearer]_vars
  BY <1>2
<1> QED
  BY <1>1, <1>3, Inductive, PTL DEF Spec, HeldForBoundedSteps
=============================================================================
