--------------------------- MODULE RecoveryProofs ---------------------------
(***************************************************************************)
(* Proofs about Recovery, for any number of peers and endpoints, every     *)
(* candidate limit and any number of moves and restarts.                   *)
(***************************************************************************)
EXTENDS Recovery, FiniteSetTheorems, TLAPS

\* Execute is for one peer while it is under way, and asks the store and changes
\* the endpoint only after it has sampled that peer's counters.
ExecuteIsSound ==
  /\ step = "idle" <=> peer = NoPeer
  /\ step \in {"get", "configure"} => observed[peer]
  /\ step = "configure" => selected # NoAddr

\* No endpoint is programmed for two peers.
OneOwner ==
  \A p, q \in Peers : p # q /\ prog[p] # NoAddr => prog[p] # prog[q]

IInv == TypeOK /\ ExecuteIsSound /\ OneOwner

\* The remainder of a number, which keeps next within its modulus.
LEMMA NextIsBounded ==
  \A n \in Nat : n % NextModulus \in 0 .. NextModulus - 1
  BY ModulusAssumption, SMT

\* The daemon starts with nothing programmed.
LEMMA InitSound == Init => IInv
<1> SUFFICES ASSUME Init PROVE IInv
  OBVIOUS
<1>1. 0 \in 0 .. NextModulus - 1 /\ 0 + 0 <= MaxEvents
  BY ModulusAssumption, BoundsAssumption
<1>2. next \in [Peers -> 0 .. NextModulus - 1]
  BY <1>1 DEF Init
<1>3. hints \in [Peers -> SUBSET Addrs]
  BY PlacesAssumption DEF Init
<1>4. TypeOK
  BY <1>1, <1>2, <1>3 DEF Init, TypeOK
<1>5. ExecuteIsSound /\ OneOwner
  BY DEF Init, ExecuteIsSound, OneOwner
<1> QED
  BY <1>4, <1>5 DEF IInv

\* Execute begins, or ends early because the health or the store cannot be read
\* or the endpoint has another owner: nothing is programmed.
LEMMA NothingProgrammed ==
  ASSUME IInv, (\E p \in Peers : Begin(p)) \/ SampleFails \/ GetFails \/ ConfigureFails
  PROVE  IInv'
<1>1. TypeOK'
  BY DEF IInv, TypeOK, ExecuteIsSound, Begin, SampleFails, GetFails, ConfigureFails, Done, env, health, selection, roaming
<1>2. ExecuteIsSound'
  BY NoPeerAssumption DEF IInv, TypeOK, ExecuteIsSound, Begin, SampleFails, GetFails,
     ConfigureFails, Done, env, health, selection, roaming
<1>3. OneOwner'
  BY DEF IInv, OneOwner, Begin, SampleFails, GetFails, ConfigureFails
<1> QED
  BY <1>1, <1>2, <1>3 DEF IInv

\* The counters are sampled.
LEMMA SampleStep == ASSUME IInv, Sample PROVE IInv'
<1>1. peer \in Peers
  BY DEF IInv, TypeOK, ExecuteIsSound, Sample
<1>2. TypeOK'
  BY <1>1 DEF IInv, TypeOK, Sample, Done, env, roaming
<1>3. ExecuteIsSound'
  BY <1>1, NoPeerAssumption DEF IInv, TypeOK, ExecuteIsSound, Sample, Done
<1>4. OneOwner'
  BY DEF IInv, OneOwner, Sample
<1> QED
  BY <1>2, <1>3, <1>4 DEF IInv

\* The store answers.
LEMMA GetStep == ASSUME IInv, Get PROVE IInv'
<1>1. peer \in Peers /\ selected' \in Addrs /\ selected' # NoAddr
  BY AddrsAssumption DEF IInv, TypeOK, ExecuteIsSound, Get, Candidates
<1>2. next' \in [Peers -> 0 .. NextModulus - 1]
  <2>1. next[peer] + 1 \in Nat
    BY <1>1, ModulusAssumption DEF IInv, TypeOK
  <2> QED
    BY <1>1, <2>1, NextIsBounded DEF IInv, TypeOK, Get
<1>3. TypeOK'
  BY <1>1, <1>2 DEF IInv, TypeOK, Get, env, health, roaming
<1>4. ExecuteIsSound'
  BY <1>1 DEF IInv, ExecuteIsSound, Get
<1>5. OneOwner'
  BY DEF IInv, OneOwner, Get
<1> QED
  BY <1>3, <1>4, <1>5 DEF IInv

\* SetPeerEndpoint accepts the endpoint because no other peer has it.
LEMMA ConfigureStep == ASSUME IInv, NEW ok \in BOOLEAN, Configure(ok) PROVE IInv'
<1>1. peer \in Peers
  BY DEF IInv, TypeOK, ExecuteIsSound, Configure
<1>2. TypeOK'
  BY <1>1 DEF IInv, TypeOK, Configure, Done, env, health, selection, roaming
<1>3. ExecuteIsSound'
  BY DEF IInv, ExecuteIsSound, Configure, Done
<1>4. OneOwner'
  BY <1>1 DEF IInv, TypeOK, OneOwner, Configure, Owned
<1> QED
  BY <1>2, <1>3, <1>4 DEF IInv

\* A restart forgets every mapping.
LEMMA RestartStep == ASSUME IInv, Restart PROVE IInv'
<1>1. restarts' \in Nat /\ moves' + restarts' <= MaxEvents /\ next' \in [Peers -> 0 .. NextModulus - 1]
  BY BoundsAssumption, ModulusAssumption DEF IInv, TypeOK, Restart, env
<1>2. TypeOK'
  BY <1>1 DEF IInv, TypeOK, Restart, Done, env, health, roaming
<1>3. ExecuteIsSound' /\ OneOwner'
  BY DEF IInv, ExecuteIsSound, OneOwner, Restart, Done
<1> QED
  BY <1>2, <1>3 DEF IInv

\* Peers move, publish and are authenticated; records expire.
LEMMA EnvironmentStep == ASSUME IInv, EnvironmentNext PROVE IInv'
<1> PICK p \in Peers :
      \/ \E a \in Places[p] : Move(p, a)
      \/ \E a \in Addrs : Expire(p, a)
      \/ Publish(p) \/ Handshake(p) \/ Traffic(p) \/ HandshakeAges(p)
  BY DEF EnvironmentNext
<1>1. moves' \in Nat /\ moves' + restarts' <= MaxEvents
  BY BoundsAssumption DEF IInv, TypeOK, Move, Expire, Publish, Handshake, Traffic, HandshakeAges, env
<1>2. nat' \in [Peers -> Addrs \union {NoAddr}] /\ hints' \in [Peers -> SUBSET Addrs]
  <2>1. ASSUME NEW a \in Places[p], Move(p, a) PROVE nat' \in [Peers -> Addrs \union {NoAddr}]
    <3>1. a \in Addrs \union {NoAddr}
      BY PlacesAssumption
    <3> QED
      BY <2>1, <3>1 DEF IInv, TypeOK, Move
  <2> QED
    BY <2>1 DEF IInv, TypeOK, Move, Expire, Publish, Handshake, Traffic, HandshakeAges, env
<1>3. kernel' \in [Peers -> BOOLEAN] /\ via' \in [Peers -> Peers \union {NoPeer}]
  <2>1. CASE Handshake(p) \/ Traffic(p)
    <3>1. PICK q \in Peers : via' = [via EXCEPT ![p] = q]
      BY <2>1 DEF Handshake, Traffic
    <3>2. via' \in [Peers -> Peers \union {NoPeer}]
      BY <3>1 DEF IInv, TypeOK
    <3>3. kernel' \in [Peers -> BOOLEAN]
      BY <2>1 DEF IInv, TypeOK, Handshake, Traffic
    <3> QED
      BY <3>2, <3>3
  <2>2. CASE UNCHANGED roaming
    BY <2>2 DEF IInv, TypeOK, roaming
  <2> QED
    BY <2>1, <2>2 DEF Move, Expire, Publish, HandshakeAges
<1>4. /\ age' \in [Peers -> {"never", "fresh", "old"}]
      /\ newer' \in [Peers -> BOOLEAN] /\ grown' \in [Peers -> BOOLEAN]
  BY DEF IInv, TypeOK, Move, Expire, Publish, Handshake, Traffic, HandshakeAges, health
<1>5. TypeOK'
  BY <1>1, <1>2, <1>3, <1>4 DEF IInv, TypeOK, Move, Expire, Publish, Handshake, Traffic, HandshakeAges,
     selection, execution
<1>6. ExecuteIsSound' /\ OneOwner'
  BY DEF IInv, ExecuteIsSound, OneOwner, Move, Expire, Publish, Handshake, Traffic, HandshakeAges,
     env, selection, execution
<1> QED
  BY <1>5, <1>6 DEF IInv

\* The invariant is inductive.
LEMMA NextSound == IInv /\ [Next]_vars => IInv'
<1> SUFFICES ASSUME IInv, [Next]_vars PROVE IInv'
  OBVIOUS
<1>1. CASE UNCHANGED vars
  BY <1>1, Zenon DEF IInv, TypeOK, ExecuteIsSound, OneOwner, vars, env, health, selection, execution, roaming
<1>2. CASE ExecuteNext
  BY <1>2, NothingProgrammed, SampleStep, GetStep, ConfigureStep DEF ExecuteNext
<1> QED
  BY <1>1, <1>2, RestartStep, EnvironmentStep DEF Next

\* The invariant always holds.
LEMMA Invariance == Spec => []IInv
  BY InitSound, NextSound, PTL DEF Spec

\* The types are kept; in particular what Get selects is an endpoint of a record.
THEOREM TypeCorrect == Spec => []TypeOK
<1>1. IInv => TypeOK
  BY DEF IInv
<1> QED
  BY Invariance, <1>1, PTL

-----------------------------------------------------------------------------
(* Execute keeps a peer it can see alive.                                  *)

\* What WireGuard reports is consistent, and an endpoint is programmed only for a
\* peer that has been sampled.
EvidenceInv ==
  \A p \in Peers :
    /\ prog[p] # NoAddr => observed[p]
    /\ newer[p] => grown[p]
    /\ grown[p] => age[p] # "never"
    /\ age[p] # "never" => kernel[p]

\* The evidence stays consistent through samples, restarts and handshakes.
LEMMA Evidence == Spec => []EvidenceInv
<1>1. Init => EvidenceInv
  BY DEF Init, EvidenceInv
<1>2. IInv /\ EvidenceInv /\ [Next]_vars => EvidenceInv'
  <2> SUFFICES ASSUME IInv, EvidenceInv, [Next]_vars PROVE EvidenceInv'
    OBVIOUS
  <2>1. CASE UNCHANGED vars
    BY <2>1, Zenon DEF EvidenceInv, vars, health, selection, roaming
  <2>2. CASE Sample
    <3>1. peer \in Peers
      BY <2>2 DEF IInv, TypeOK, ExecuteIsSound, Sample
    <3> QED
      BY <2>2, <3>1 DEF IInv, TypeOK, EvidenceInv, Sample, roaming
  <2>3. ASSUME NEW ok \in BOOLEAN, Configure(ok) PROVE EvidenceInv'
    <3>1. peer \in Peers /\ observed[peer]
      BY <2>3 DEF IInv, TypeOK, ExecuteIsSound, Configure
    <3> QED
      BY <2>3, <3>1 DEF IInv, TypeOK, EvidenceInv, Configure, health, selection
  <2>4. CASE Restart
    BY <2>4 DEF EvidenceInv, Restart, health
  <2>5. CASE (\E p \in Peers : Begin(p)) \/ SampleFails \/ GetFails \/ Get \/ ConfigureFails
    BY <2>5 DEF EvidenceInv, Begin, SampleFails, GetFails, Get, ConfigureFails, health, selection, roaming
  <2>6. CASE EnvironmentNext
    BY <2>6 DEF IInv, TypeOK, EvidenceInv, EnvironmentNext, Move, Expire, Publish, Handshake, Traffic,
       HandshakeAges, health, selection, roaming
  <2> QED
    BY <2>1, <2>2, <2>3, <2>4, <2>5, <2>6 DEF Next, ExecuteNext
<1> QED
  BY <1>1, <1>2, Invariance, PTL DEF Spec

\* A peer from which WireGuard received something since the last sample, at a
\* programmed endpoint, counts as working: however old its handshake is.
LifeIsRecognised ==
  \A p \in Peers : prog[p] # NoAddr /\ (newer[p] \/ grown[p]) => Working(p)

\* Selection.Working overlooks no sign of life from a programmed endpoint.
THEOREM LifeIsSeen == Spec => []LifeIsRecognised
<1>1. EvidenceInv => LifeIsRecognised
  BY DEF EvidenceInv, LifeIsRecognised, Working
<1> QED
  BY <1>1, Evidence, PTL

\* An Execute that is past the sample of a peer with an endpoint found it silent.
SilentIfPassed ==
  step \in {"get", "configure"} /\ prog[peer] # NoAddr => silent

\* Execute gives up a programmed endpoint only after its own sample of the peer
\* showed that nothing had been received, whichever calls failed before and
\* whatever happened to the peer, to its handshake and to others in between.
THEOREM GivenUp == Spec => GivenUpOnlyIfSilent
<1>1. Init => SilentIfPassed
  BY DEF Init, SilentIfPassed
<1>2. IInv /\ EvidenceInv /\ SilentIfPassed /\ [Next]_vars => SilentIfPassed'
  <2> SUFFICES ASSUME IInv, EvidenceInv, SilentIfPassed, [Next]_vars PROVE SilentIfPassed'
    OBVIOUS
  <2>1. CASE UNCHANGED vars
    BY <2>1 DEF SilentIfPassed, vars, execution
  <2>2. CASE Sample
    <3>1. peer \in Peers
      BY <2>2 DEF IInv, TypeOK, ExecuteIsSound, Sample
    <3>2. CASE Done
      BY <3>2 DEF Done, SilentIfPassed
    <3>3. CASE ~Working(peer) /\ silent' = ~grown[peer] /\ UNCHANGED peer
      BY <2>2, <3>1, <3>3 DEF EvidenceInv, Working, Sample, SilentIfPassed
    <3> QED
      BY <2>2, <3>2, <3>3 DEF Sample
  <2>3. CASE (\E ok \in BOOLEAN : Configure(ok)) \/ SampleFails \/ GetFails \/ ConfigureFails \/ Restart
    BY <2>3 DEF Configure, SampleFails, GetFails, ConfigureFails, Restart, Done, SilentIfPassed
  <2>4. CASE (\E p \in Peers : Begin(p)) \/ Get
    BY <2>4 DEF Begin, Get, SilentIfPassed
  <2>5. CASE EnvironmentNext
    BY <2>5 DEF EnvironmentNext, Move, Expire, Publish, Handshake, Traffic, HandshakeAges, execution,
       SilentIfPassed
  <2> QED
    BY <2>1, <2>2, <2>3, <2>4, <2>5 DEF Next, ExecuteNext
<1>3. IInv /\ SilentIfPassed /\ [Next]_vars =>
        [\A p \in Peers : prog[p] # NoAddr /\ prog'[p] # prog[p] /\ restarts' = restarts
           => peer = p /\ silent]_vars
  <2> SUFFICES ASSUME IInv, SilentIfPassed, Next, NEW p \in Peers, prog[p] # NoAddr, prog'[p] # prog[p],
                      restarts' = restarts
               PROVE  peer = p /\ silent
    OBVIOUS
  <2>0. ~Restart
    BY BoundsAssumption DEF IInv, TypeOK, Restart
  <2>1. PICK ok \in BOOLEAN : Configure(ok)
    BY <2>0, Zenon DEF Next, ExecuteNext, EnvironmentNext, Begin, SampleFails, Sample, GetFails,
       Get, ConfigureFails, Move, Expire, Publish, Handshake, Traffic, HandshakeAges
  <2> QED
    BY <2>1 DEF IInv, TypeOK, SilentIfPassed, Configure
<1> QED
  BY Invariance, Evidence, <1>1, <1>2, <1>3, PTL DEF Spec, GivenUpOnlyIfSilent

\* p is reached at the endpoint programmed for it, and no Execute that already
\* decided to replace that endpoint is under way.
Settled(p) ==
  /\ HeardAs(p, p) /\ via[p] = p
  /\ peer = p => step = "sample" /\ grown[p]

\* The second half of Recovers, "and then kept", as a safety property: between
\* two lookups a keepalive comes in, so a settled peer stays reached for as long as
\* it does not move and the daemon is not restarted, whatever the other peers do,
\* whatever the store says of it, and whichever calls fail.
THEOREM SettledIsKept ==
  ASSUME SlowCycles, NEW p \in Peers
  PROVE  Spec => [](Settled(p) /\ [][nat'[p] = nat[p] /\ restarts' = restarts]_vars => []Reachable(p))
<1>1. ASSUME IInv, EvidenceInv, Settled(p), [Next]_vars, [nat'[p] = nat[p] /\ restarts' = restarts]_vars
      PROVE  Settled(p)'
  <2>1. CASE UNCHANGED vars
    BY <1>1, <2>1 DEF Settled, HeardAs, vars, env, health, execution, roaming
  <2>2. CASE Next /\ nat'[p] = nat[p] /\ restarts' = restarts
    <3>1. CASE \E q \in Peers : Begin(q)
      BY <1>1, <3>1 DEF IInv, ExecuteIsSound, EvidenceInv, Settled, Heard, HeardAs, Begin, env, health, roaming
    <3>2. CASE SampleFails \/ GetFails \/ ConfigureFails \/ Get
      BY <1>1, <3>2, NoPeerAssumption DEF Settled, HeardAs, SampleFails, GetFails, ConfigureFails, Get,
         Done, env, health, roaming
    <3>3. CASE Sample
      <4>1. peer = p => Working(p)
        BY <1>1, AddrsAssumption, Zenon DEF EvidenceInv, Settled, HeardAs, Working
      <4> QED
        BY <1>1, <3>3, <4>1, NoPeerAssumption DEF Settled, HeardAs, Sample, Done, env, roaming
    <3>4. ASSUME NEW ok \in BOOLEAN, Configure(ok) PROVE Settled(p)'
      BY <1>1, <3>4, NoPeerAssumption, Zenon DEF IInv, TypeOK, Settled, HeardAs, Configure, Done, env
    <3>5. CASE Restart
      BY <1>1, <2>2, <3>5 DEF IInv, TypeOK, Restart
    <3>6. CASE EnvironmentNext
      <4>1. ASSUME NEW q \in Peers, Handshake(q) \/ Traffic(q) PROVE via'[p] = p
        BY <1>1, <4>1 DEF IInv, TypeOK, OneOwner, Settled, HeardAs, Handshake, Traffic
      <4>2. via'[p] = p
        BY <1>1, <3>6, <4>1 DEF EnvironmentNext, Settled, Move, Expire, Publish, HandshakeAges, roaming
      <4> QED
        BY <1>1, <2>2, <3>6, <4>2 DEF IInv, TypeOK, Settled, HeardAs, EnvironmentNext, Move, Expire, Publish,
           Handshake, Traffic, HandshakeAges, env, health, execution
    <3> QED
      BY <2>2, <3>1, <3>2, <3>3, <3>4, <3>5, <3>6 DEF Next, ExecuteNext
  <2> QED
    BY <1>1, <2>1, <2>2
<1>2. Settled(p) => Reachable(p)
  BY DEF Settled, Reachable
<1> QED
  BY <1>1, <1>2, Invariance, Evidence, PTL DEF Spec

-----------------------------------------------------------------------------
(* The candidates come in turn: the order Get returns them in (Rank) and   *)
(* Selection.Next.                                                         *)

\* Quotient and remainder.
LEMMA DivMod ==
  ASSUME NEW k \in Nat, NEW n \in Nat \ {0}
  PROVE  /\ k \div n \in Nat /\ k % n \in 0 .. n - 1
         /\ k = n * (k \div n) + (k % n)
  BY SMT

\* A remainder is unique.
LEMMA RemainderIsUnique ==
  ASSUME NEW n \in Nat \ {0}, NEW q \in Nat, NEW s \in Nat,
         NEW r \in 0 .. n - 1, NEW t \in 0 .. n - 1, n * q + r = n * s + t
  PROVE  r = t
<1>1. ASSUME NEW i \in Nat, NEW j \in Nat, i < j
      PROVE  \E d \in Nat : n * j = n * i + n + d
  <2>1. j - i - 1 \in Nat /\ j = i + 1 + (j - i - 1)
    BY <1>1
  <2>2. PICK d \in Nat : j = i + 1 + d
    BY <2>1
  <2>3. n * j = n * i + n + n * d /\ n * d \in Nat
    BY <2>2
  <2> QED
    BY <2>3
<1>2. CASE q < s
  BY <1>1, <1>2
<1>3. CASE s < q
  BY <1>1, <1>3
<1> QED
  BY <1>2, <1>3

\* Counting by one goes through the remainders in turn.
LEMMA RemainderOfSuccessor ==
  ASSUME NEW k \in Nat, NEW n \in Nat \ {0}
  PROVE  (k + 1) % n = IF k % n = n - 1 THEN 0 ELSE (k % n) + 1
<1> DEFINE q == k \div n  r == k % n  s == (k + 1) \div n  t == (k + 1) % n
<1>1. q \in Nat /\ r \in 0 .. n - 1 /\ k = n * q + r
  BY DivMod, Zenon
<1>2. s \in Nat /\ t \in 0 .. n - 1 /\ k + 1 = n * s + t
  <2>1. k + 1 \in Nat
    OBVIOUS
  <2> QED
    BY <2>1, DivMod
<1> HIDE DEF q, r, s, t
<1>3. CASE r = n - 1
  <2>1. n * (q + 1) + 0 = n * s + t /\ q + 1 \in Nat /\ 0 \in 0 .. n - 1
    BY <1>1, <1>2, <1>3
  <2>2. t = 0
    BY <2>1, <1>2, RemainderIsUnique
  <2> QED
    BY <2>2, <1>3 DEF r, t
<1>4. CASE r # n - 1
  <2>1. n * q + (r + 1) = n * s + t /\ r + 1 \in 0 .. n - 1
    BY <1>1, <1>2, <1>4
  <2>2. t = r + 1
    BY <2>1, <1>1, <1>2, RemainderIsUnique
  <2> QED
    BY <2>2, <1>4 DEF r, t
<1> QED
  BY <1>3, <1>4

\* next is kept modulo a multiple of the length of the list: the wrap of the
\* counter is a wrap of the list too.
LEMMA CounterWrapsWithTheList ==
  ASSUME NEW k \in 0 .. NextModulus - 1, NEW n \in 1 .. MaxCandidates
  PROVE  ((k + 1) % NextModulus) % n = IF k % n = n - 1 THEN 0 ELSE (k % n) + 1
<1>1. NextModulus \in Nat \ {0} /\ NextModulus % n = 0 /\ n \in Nat \ {0} /\ k \in Nat
  BY ModulusAssumption, CandidatesAssumption
<1>2. (k + 1) % n = IF k % n = n - 1 THEN 0 ELSE (k % n) + 1
  BY <1>1, RemainderOfSuccessor, Zenon
<1>3. (k + 1) % NextModulus = IF k % NextModulus = NextModulus - 1 THEN 0 ELSE (k % NextModulus) + 1
  BY <1>1, RemainderOfSuccessor
<1>4. k % NextModulus = k
  <2>1. NextModulus * (k \div NextModulus) + (k % NextModulus) = NextModulus * 0 + k
    BY <1>1, DivMod
  <2>2. k \div NextModulus \in Nat /\ k % NextModulus \in 0 .. NextModulus - 1
    BY <1>1, DivMod
  <2>3. 0 \in Nat
    OBVIOUS
  <2> QED
    BY <2>1, <2>2, <2>3, <1>1, RemainderIsUnique
<1>5. 0 % n = 0
  <2>1. n * (0 \div n) + (0 % n) = n * 0 + 0 /\ 0 \in 0 .. n - 1
    BY <1>1, DivMod
  <2> QED
    BY <2>1, <1>1, DivMod, RemainderIsUnique
<1>6. CASE k = NextModulus - 1
  <2>1. (k + 1) % NextModulus = 0 /\ (k + 1) % n = 0
    BY <1>1, <1>3, <1>4, <1>6
  <2>2. k % n \in 0 .. n - 1
    BY <1>1, DivMod
  <2> QED
    BY <2>1, <2>2, <1>2, <1>5
<1>7. CASE k # NextModulus - 1
  BY <1>2, <1>3, <1>4, <1>7
<1> QED
  BY <1>6, <1>7

\* The order of the records: the ranks of a finite set are 0, 1, 2 and so on,
\* one for each member.
LEMMA RanksAreABijection ==
  ASSUME NEW S, S \subseteq Nat, IsFiniteSet(S)
  PROVE  /\ \A a \in S : Rank(a, S) \in 0 .. Cardinality(S) - 1
         /\ \A a, b \in S : Rank(a, S) = Rank(b, S) => a = b
         /\ \A i \in 0 .. Cardinality(S) - 1 : \E a \in S : Rank(a, S) = i
<1> DEFINE below(a) == {b \in S : b < a}
           n == Cardinality(S)
<1>1. n \in Nat
  BY FS_CardinalityType
<1>2. ASSUME NEW a \in S
      PROVE  IsFiniteSet(below(a)) /\ Rank(a, S) = Cardinality(below(a)) /\ Rank(a, S) \in 0 .. n - 1
  <2>1. below(a) \in SUBSET S /\ a \notin below(a)
    BY <1>2
  <2>2. IsFiniteSet(below(a)) /\ Cardinality(below(a)) <= n /\ (n = Cardinality(below(a)) => S = below(a))
    BY <2>1, FS_Subset
  <2>3. Cardinality(below(a)) \in Nat
    BY <2>2, FS_CardinalityType
  <2> QED
    BY <2>1, <2>2, <2>3, <1>1, <1>2 DEF Rank
<1>3. ASSUME NEW a \in S, NEW b \in S, a < b
      PROVE  Rank(a, S) < Rank(b, S)
  <2>1. \A x \in S : x < a => x < b
    BY <1>3
  <2>2. below(a) \in SUBSET below(b) /\ a \in below(b) /\ a \notin below(a)
    <3>1. a \in below(b) /\ a \notin below(a)
      BY <1>3
    <3>2. \A x \in below(a) : x \in below(b)
      BY <2>1
    <3> QED
      BY <3>1, <3>2
  <2>3. Cardinality(below(a)) <= Cardinality(below(b))
        /\ (Cardinality(below(b)) = Cardinality(below(a)) => below(b) = below(a))
    BY <1>2, <2>2, FS_Subset
  <2>4. Rank(a, S) = Cardinality(below(a)) /\ Rank(b, S) = Cardinality(below(b))
        /\ Rank(a, S) \in Nat /\ Rank(b, S) \in Nat
    BY <1>1, <1>2
  <2> QED
    BY <2>2, <2>3, <2>4
<1> HIDE DEF n
<1>4. \A a, b \in S : Rank(a, S) = Rank(b, S) => a = b
  <2> SUFFICES ASSUME NEW a \in S, NEW b \in S, Rank(a, S) = Rank(b, S), a # b PROVE FALSE
    OBVIOUS
  <2>1. a < b \/ b < a
    OBVIOUS
  <2>2. Rank(a, S) \in 0 .. n - 1 /\ Rank(b, S) \in 0 .. n - 1
    BY <1>2, Zenon
  <2> QED
    BY <2>1, <2>2, <1>1, <1>3
<1>5. \A i \in 0 .. n - 1 : \E a \in S : Rank(a, S) = i
  <2> DEFINE f == [a \in S |-> Rank(a, S)]
  <2>1. f \in [S -> 0 .. n - 1]
    BY <1>2
  <2>2. f \in Injection(S, 0 .. n - 1)
    BY <2>1, <1>4 DEF Injection, IsInjective
  <2>3. IsFiniteSet(0 .. n - 1) /\ Cardinality(0 .. n - 1) = n
    <3>1. n - 1 \in Int /\ 0 \in Int
      BY <1>1
    <3> QED
      BY <3>1, <1>1, FS_Interval
  <2> HIDE DEF f
  <2>4. f \in Surjection(S, 0 .. n - 1)
    BY <2>2, <2>3, FS_Injection DEF n
  <2> QED
    BY <2>4 DEF Surjection, f
<1> QED
  BY <1>2, <1>4, <1>5 DEF n

\* The list Execute selects from: at most MaxCandidates, each with a place of
\* its own.
LEMMA CandidateList ==
  ASSUME TypeOK, NEW p \in Peers, Candidates(p) # {}
  PROVE  LET C == Candidates(p)
         IN  /\ C \subseteq Nat /\ IsFiniteSet(C) /\ Cardinality(C) \in 1 .. MaxCandidates
             /\ \A a \in C : Rank(a, C) \in 0 .. Cardinality(C) - 1
             /\ \A a, b \in C : Rank(a, C) = Rank(b, C) => a = b
             /\ \A i \in 0 .. Cardinality(C) - 1 : \E a \in C : Rank(a, C) = i
<1> DEFINE S == hints[p]
           C == Candidates(p)
<1>1. S \subseteq Nat /\ IsFiniteSet(S)
  <2>1. S \in SUBSET Addrs
    BY DEF TypeOK
  <2> QED
    BY <2>1, AddrsAssumption, FS_Subset
<1>2. C = {a \in S : Rank(a, S) < MaxCandidates} \intersect Usable
  BY DEF Candidates
<1>7. C # {}
  OBVIOUS
<1> HIDE DEF S, C
<1>3. C \in SUBSET S
  BY <1>2
<1>4. C \subseteq Nat /\ IsFiniteSet(C) /\ Cardinality(C) \in Nat
  BY <1>1, <1>3, FS_Subset, FS_CardinalityType
<1>5. Cardinality(S) \in Nat
  BY <1>1, FS_CardinalityType
<1>6. /\ \A a \in S : Rank(a, S) \in 0 .. Cardinality(S) - 1
      /\ \A a, b \in S : Rank(a, S) = Rank(b, S) => a = b
      /\ \A i \in 0 .. Cardinality(S) - 1 : \E a \in S : Rank(a, S) = i
  BY <1>1, RanksAreABijection
<1>8. Cardinality(C) <= MaxCandidates
  <2> DEFINE f == [a \in C |-> Rank(a, S)]
  <2>1. \A a \in C : Rank(a, S) \in 0 .. MaxCandidates - 1
    BY <1>2, <1>3, <1>5, <1>6, CandidatesAssumption
  <2>2. f \in Injection(C, 0 .. MaxCandidates - 1)
    BY <2>1, <1>3, <1>6 DEF Injection, IsInjective
  <2>3. IsFiniteSet(0 .. MaxCandidates - 1) /\ Cardinality(0 .. MaxCandidates - 1) = MaxCandidates
    <3>1. MaxCandidates - 1 \in Int /\ 0 \in Int
      BY CandidatesAssumption
    <3> QED
      BY <3>1, CandidatesAssumption, FS_Interval
  <2> QED
    BY <2>2, <2>3, FS_Injection
<1>9. Cardinality(C) \in 1 .. MaxCandidates
  BY <1>4, <1>7, <1>8, FS_EmptySet, CandidatesAssumption
<1>10. /\ \A a \in C : Rank(a, C) \in 0 .. Cardinality(C) - 1
       /\ \A a, b \in C : Rank(a, C) = Rank(b, C) => a = b
       /\ \A i \in 0 .. Cardinality(C) - 1 : \E a \in C : Rank(a, C) = i
  BY <1>4, RanksAreABijection, Zenon
<1> QED
  BY <1>4, <1>9, <1>10 DEF C

\* Whatever records there are and however often the peer was looked up, Next
\* takes one candidate and only one.
ExactlyOneIsNext ==
  \A p \in Peers : Candidates(p) # {} =>
    \E a \in Candidates(p) : \A b \in Candidates(p) : SelectNext(p, Candidates(p), b) <=> b = a

\* Selection.Next answers whenever there is a candidate, and with the only one
\* whose turn it is.
THEOREM OneChoice == Spec => []ExactlyOneIsNext
<1>1. IInv => ExactlyOneIsNext
  <2> SUFFICES ASSUME IInv, NEW p \in Peers, Candidates(p) # {}
               PROVE  \E a \in Candidates(p) : \A b \in Candidates(p) :
                        SelectNext(p, Candidates(p), b) <=> b = a
    BY DEF ExactlyOneIsNext
  <2> DEFINE C == Candidates(p)
             n == Cardinality(C)
  <2>1. /\ n \in Nat \ {0}
        /\ \A a, b \in C : Rank(a, C) = Rank(b, C) => a = b
        /\ \A i \in 0 .. n - 1 : \E a \in C : Rank(a, C) = i
    BY CandidateList DEF IInv
  <2>2. next[p] \in Nat
    BY ModulusAssumption DEF IInv, TypeOK
  <2>3. next[p] % n \in 0 .. n - 1
    BY <2>1, <2>2, DivMod
  <2> QED
    BY <2>1, <2>3 DEF SelectNext
<1> QED
  BY <1>1, Invariance, PTL

\* How many lookups of p choose another candidate before a has its turn.
LookupsBefore(p, a) ==
  LET n == Cardinality(Candidates(p))
      r == Rank(a, Candidates(p))
      t == next[p] % n
  IN  IF t <= r THEN r - t ELSE n - t + r

\* A candidate waits for fewer than MaxCandidates lookups, and as long as the
\* records stay, the daemon is not restarted: each lookup of its peer that
\* selects an endpoint either selects it or brings its turn one nearer, and nothing
\* else changes its turn.
EveryCandidateGetsItsTurn ==
  /\ [](\A p \in Peers : \A a \in Candidates(p) : LookupsBefore(p, a) \in 0 .. MaxCandidates - 1)
  /\ [][\A p \in Peers : \A a \in Candidates(p) :
          hints'[p] = hints[p] /\ restarts' = restarts =>
            IF Get /\ peer = p
            THEN IF LookupsBefore(p, a) = 0 THEN selected' = a
                 ELSE selected' # a /\ LookupsBefore(p, a)' = LookupsBefore(p, a) - 1
            ELSE LookupsBefore(p, a)' = LookupsBefore(p, a)]_vars

\* Selection.Next passes over no candidate.
THEOREM InTurn == Spec => EveryCandidateGetsItsTurn
<1> DEFINE Bounded == \A p \in Peers : \A a \in Candidates(p) : LookupsBefore(p, a) \in 0 .. MaxCandidates - 1
           Nearer == \A p \in Peers : \A a \in Candidates(p) :
                       hints'[p] = hints[p] /\ restarts' = restarts =>
                         IF Get /\ peer = p
                         THEN IF LookupsBefore(p, a) = 0 THEN selected' = a
                              ELSE selected' # a /\ LookupsBefore(p, a)' = LookupsBefore(p, a) - 1
                         ELSE LookupsBefore(p, a)' = LookupsBefore(p, a)
<1>1. ASSUME IInv, NEW p \in Peers, NEW a \in Candidates(p)
      PROVE  LET C == Candidates(p)
                 n == Cardinality(C)
             IN  /\ n \in 1 .. MaxCandidates /\ n \in Nat \ {0} /\ Rank(a, C) \in 0 .. n - 1
                 /\ next[p] \in 0 .. NextModulus - 1 /\ next[p] % n \in 0 .. n - 1
                 /\ \A b, c \in C : Rank(b, C) = Rank(c, C) => b = c
  <2> DEFINE C == Candidates(p)
             n == Cardinality(C)
  <2>1. Candidates(p) # {}
    BY <1>1
  <2>2. n \in 1 .. MaxCandidates /\ Rank(a, C) \in 0 .. n - 1
        /\ \A b, c \in C : Rank(b, C) = Rank(c, C) => b = c
    BY <1>1, <2>1, CandidateList DEF IInv
  <2>3. next[p] \in 0 .. NextModulus - 1 /\ next[p] \in Nat /\ n \in Nat \ {0}
    BY <1>1, <2>2, ModulusAssumption, CandidatesAssumption DEF IInv, TypeOK
  <2> QED
    BY <2>2, <2>3, DivMod, Zenon
<1>2. IInv => Bounded
  <2> SUFFICES ASSUME IInv, NEW p \in Peers, NEW a \in Candidates(p)
               PROVE  LookupsBefore(p, a) \in 0 .. MaxCandidates - 1
    OBVIOUS
  <2> DEFINE n == Cardinality(Candidates(p))
             r == Rank(a, Candidates(p))
             t == next[p] % n
  <2>1. n \in 1 .. MaxCandidates /\ r \in 0 .. n - 1 /\ t \in 0 .. n - 1
    BY <1>1
  <2>2. LookupsBefore(p, a) = IF t <= r THEN r - t ELSE n - t + r
    BY DEF LookupsBefore
  <2> HIDE DEF n, r, t
  <2> QED
    BY <2>1, <2>2, CandidatesAssumption
<1>3. IInv /\ [Next]_vars => [Nearer]_vars
  <2> SUFFICES ASSUME IInv, Next, NEW p \in Peers, NEW a \in Candidates(p),
                      hints'[p] = hints[p], restarts' = restarts
               PROVE  IF Get /\ peer = p
                      THEN IF LookupsBefore(p, a) = 0 THEN selected' = a
                           ELSE selected' # a /\ LookupsBefore(p, a)' = LookupsBefore(p, a) - 1
                      ELSE LookupsBefore(p, a)' = LookupsBefore(p, a)
    OBVIOUS
  <2> DEFINE C == Candidates(p)
             n == Cardinality(C)
             r == Rank(a, C)
             t == next[p] % n
             u == next'[p] % n
  <2>1. /\ n \in 1 .. MaxCandidates /\ n \in Nat \ {0} /\ r \in 0 .. n - 1
        /\ next[p] \in 0 .. NextModulus - 1 /\ t \in 0 .. n - 1
        /\ \A b, c \in C : Rank(b, C) = Rank(c, C) => b = c
    BY <1>1, Zenon
  <2>2. Candidates(p)' = C
    BY DEF Candidates, Rank
  <2>3. LookupsBefore(p, a) = IF t <= r THEN r - t ELSE n - t + r
    BY DEF LookupsBefore
  <2>4. LookupsBefore(p, a)' = IF u <= r THEN r - u ELSE n - u + r
    BY <2>2 DEF LookupsBefore, Rank
  <2>5. CASE Get /\ peer = p
    <3>1. selected' \in C /\ Rank(selected', C) = t
      BY <2>5, Zenon DEF Get, SelectNext
    <3>2. next'[p] = (next[p] + 1) % NextModulus
      BY <2>5, Zenon DEF Get, IInv, TypeOK
    <3>3. u = IF t = n - 1 THEN 0 ELSE t + 1
      BY <2>1, <3>2, CounterWrapsWithTheList
    <3>4. r = t <=> selected' = a
      BY <2>1, <3>1, Zenon
    <3> HIDE DEF n, r, t, u, C
    <3> QED
      BY <2>1, <2>3, <2>4, <2>5, <3>3, <3>4
  <2>6. CASE ~(Get /\ peer = p)
    <3>0. ~Restart
      BY BoundsAssumption DEF IInv, TypeOK, Restart
    <3>1. next'[p] = next[p]
      BY <2>6, <3>0, Zenon DEF IInv, TypeOK, Next, ExecuteNext, EnvironmentNext, Begin, SampleFails, Sample,
         GetFails, Get, ConfigureFails, Configure, Move, Expire, Publish, Handshake, Traffic,
         HandshakeAges, selection
    <3> QED
      BY <2>3, <2>4, <2>6, <3>1, Zenon
  <2> QED
    BY <2>5, <2>6, Zenon
<1> QED
  BY <1>2, <1>3, Invariance, PTL DEF Spec, EveryCandidateGetsItsTurn

-----------------------------------------------------------------------------
(* The proxy below Execute.                                                *)

\* What Execute sees of the proxy.
Proxy == INSTANCE SourceMap WITH endpoint <- prog

\* Execute and restarts use the endpoints as SourceMap says; WgProxyProofs shows
\* that the proxy, with its two maps, its lock and its concurrent callers, is a
\* SourceMap.
THEOREM ProxyRefinement == Spec => Proxy!Spec
<1>1. Init => Proxy!Init
  BY DEF Init, Proxy!Init, Proxy!Nowhere
<1>2. IInv /\ [Next]_vars => [Proxy!Next]_prog
  <2> SUFFICES ASSUME IInv, Next, prog' # prog PROVE Proxy!Next
    BY Zenon DEF vars
  <2>1. Restart \/ \E ok \in BOOLEAN : Configure(ok)
    BY DEF Next, ExecuteNext, EnvironmentNext, Begin, SampleFails, Sample, GetFails, Get,
       ConfigureFails, Move, Expire, Publish, Handshake, Traffic, HandshakeAges
  <2>2. CASE Restart
    BY <2>2 DEF Restart, Proxy!Next, Proxy!Forget, Proxy!Nowhere
  <2>3. ASSUME NEW ok \in BOOLEAN, Configure(ok) PROVE Proxy!Next
    <3>1. peer \in Peers /\ selected \in Addrs
      BY <2>3 DEF IInv, TypeOK, ExecuteIsSound, Configure
    <3>2. Proxy!Assign(peer, selected)
      BY <2>3 DEF Configure, Owned, Proxy!Assign
    <3> QED
      BY <3>1, <3>2 DEF Proxy!Next
  <2> QED
    BY <2>1, <2>2, <2>3
<1> QED
  BY <1>1, <1>2, Invariance, PTL DEF Spec, Proxy!Spec
=============================================================================
