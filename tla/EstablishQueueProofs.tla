------------------------ MODULE EstablishQueueProofs ------------------------
(***************************************************************************)
(* Proofs about EstablishQueue for any number of peers, callers and slots. *)
(***************************************************************************)
EXTENDS EstablishQueue, TLAPS

-----------------------------------------------------------------------------
(* The queue helpers.                                                      *)

\* What a successful TryEnqueue puts into the channel, and nothing else.
LEMMA EnqueuedContents ==
  ASSUME NEW S, NEW q \in Seq(S), NEW x \in S, NEW y
  PROVE  Contains(Enqueued(q, x), y) <=> Contains(q, y) \/ y = x
<1> DEFINE r == Append(q, x)
<1>1. /\ Len(r) = Len(q) + 1
      /\ \A i \in 1..Len(q) : r[i] = q[i]
      /\ r[Len(q) + 1] = x
  OBVIOUS
<1>2. Len(q) \in Nat
  OBVIOUS
<1>3. ASSUME NEW i \in 1..Len(r), r[i] = y
      PROVE  Contains(q, y) \/ y = x
  <2>1. CASE i = Len(q) + 1
    BY <1>1, <1>3, <2>1
  <2>2. CASE i \in 1..Len(q)
    BY <1>1, <1>3, <2>2 DEF Contains
  <2> QED
    BY <1>1, <1>2, <2>1, <2>2
<1>4. ASSUME NEW i \in 1..Len(q), q[i] = y
      PROVE  Contains(r, y)
  <2>1. i \in 1..Len(r) /\ r[i] = y
    BY <1>1, <1>2, <1>4
  <2> QED
    BY <2>1 DEF Contains
<1>5. ASSUME y = x
      PROVE  Contains(r, y)
  <2>1. Len(q) + 1 \in 1..Len(r) /\ r[Len(q) + 1] = y
    BY <1>1, <1>2, <1>5
  <2> QED
    BY <2>1 DEF Contains
<1> QED
  BY <1>3, <1>4, <1>5 DEF Contains, Enqueued

\* A peer that is not in the channel can be added without a duplicate.
LEMMA EnqueuedNoDuplicates ==
  ASSUME NEW S, NEW q \in Seq(S), NEW x \in S, NoDuplicates(q), ~Contains(q, x)
  PROVE  NoDuplicates(Enqueued(q, x))
<1> DEFINE r == Append(q, x)
<1>1. /\ Len(r) = Len(q) + 1
      /\ \A i \in 1..Len(q) : r[i] = q[i]
      /\ r[Len(q) + 1] = x
      /\ Len(q) \in Nat
  OBVIOUS
<1>2. SUFFICES ASSUME NEW i \in 1..Len(r), NEW j \in 1..Len(r), r[i] = r[j]
               PROVE  i = j
  BY DEF NoDuplicates, Enqueued
<1>3. CASE i \in 1..Len(q) /\ j \in 1..Len(q)
  BY <1>1, <1>2, <1>3 DEF NoDuplicates
<1>4. CASE i \in 1..Len(q) /\ j = Len(q) + 1
  BY <1>1, <1>2, <1>4 DEF Contains
<1>5. CASE j \in 1..Len(q) /\ i = Len(q) + 1
  BY <1>1, <1>2, <1>5 DEF Contains
<1>6. CASE i = Len(q) + 1 /\ j = Len(q) + 1
  BY <1>6
<1> QED
  BY <1>1, <1>2, <1>3, <1>4, <1>5, <1>6

\* Receiving takes the oldest peer out and leaves the others.
LEMMA DequeuedContents ==
  ASSUME NEW S, NEW q \in Seq(S), q # <<>>, NoDuplicates(q), NEW y
  PROVE  /\ Contains(Dequeued(q), y) <=> Contains(q, y) /\ y # Oldest(q)
         /\ NoDuplicates(Dequeued(q))
         /\ Contains(q, Oldest(q))
<1> DEFINE r == Tail(q)
<1>1. /\ Len(q) \in Nat \ {0}
      /\ Len(r) = Len(q) - 1
      /\ \A i \in 1..Len(r) : r[i] = q[i + 1]
      /\ Head(q) = q[1]
  OBVIOUS
<1>2. ASSUME NEW i \in 1..Len(r), r[i] = y
      PROVE  Contains(q, y) /\ y # Head(q)
  <2>1. i + 1 \in 1..Len(q) /\ 1 \in 1..Len(q) /\ q[i + 1] = y /\ i + 1 # 1
    BY <1>1, <1>2
  <2> QED
    BY <1>1, <2>1 DEF Contains, NoDuplicates
<1>3. ASSUME NEW i \in 1..Len(q), q[i] = y, y # Head(q)
      PROVE  Contains(r, y)
  <2>1. i - 1 \in 1..Len(r) /\ r[i - 1] = y
    BY <1>1, <1>3
  <2> QED
    BY <2>1 DEF Contains
<1>4. NoDuplicates(r)
  <2> SUFFICES ASSUME NEW i \in 1..Len(r), NEW j \in 1..Len(r), r[i] = r[j]
               PROVE  i = j
    BY DEF NoDuplicates
  <2>1. i + 1 \in 1..Len(q) /\ j + 1 \in 1..Len(q) /\ q[i + 1] = q[j + 1]
    BY <1>1
  <2> QED
    BY <1>1, <2>1 DEF NoDuplicates
<1>5. Contains(q, Head(q))
  BY <1>1 DEF Contains
<1> QED
  BY <1>2, <1>3, <1>4, <1>5 DEF Contains, Dequeued, Oldest

-----------------------------------------------------------------------------
(* The inductive invariant.                                                *)

\* pendingMu is held exactly by the caller between enqueue's two halves.
MutexHeldWhileMarking ==
  \A c \in Callers : marking[c] # NoPeer <=> pendingMu = c

\* A worker in the middle of a lookup has a peer.
WorkerHasPeer == worker \in {"exec", "clear"} => working \in Peers

IInv ==
  /\ TypeOK
  /\ OneLookupPerPeer
  /\ PendingIsExact
  /\ MutexHeldWhileMarking
  /\ WorkerHasPeer

\* A new controller has an empty channel and an empty pending map.
LEMMA InitIInv == Init => IInv
<1> SUFFICES ASSUME Init PROVE IInv
  OBVIOUS
<1> USE QueueSizeAssumption, NoPeerAssumption, FreeAssumption DEF Init
<1>1. TypeOK
  BY DEF TypeOK
<1>2. OneLookupPerPeer
  BY DEF OneLookupPerPeer, NoDuplicates, Active
<1>3. PendingIsExact
  BY DEF PendingIsExact, Unmarked, Contains, Active
<1>4. MutexHeldWhileMarking
  BY DEF MutexHeldWhileMarking
<1>5. WorkerHasPeer
  BY DEF WorkerHasPeer
<1> QED
  BY <1>1, <1>2, <1>3, <1>4, <1>5 DEF IInv

\* A step that leaves the channel, the pending map, the marks, the mutex and the
\* worker's peer alone keeps the three relations between them.
LEMMA QuietStep ==
  ASSUME OneLookupPerPeer, PendingIsExact, MutexHeldWhileMarking,
         UNCHANGED <<queue, pending, pendingMu, marking>>,
         \A p \in Peers : Active(p)' <=> Active(p)
  PROVE  OneLookupPerPeer' /\ PendingIsExact' /\ MutexHeldWhileMarking'
<1>1. OneLookupPerPeer'
  BY DEF OneLookupPerPeer, NoDuplicates, Contains
<1>2. PendingIsExact'
  BY DEF PendingIsExact, Unmarked, Contains
<1>3. MutexHeldWhileMarking'
  BY DEF MutexHeldWhileMarking
<1> QED
  BY <1>1, <1>2, <1>3

\* enqueue's send: the pending test under pendingMu rules out a second lookup.
LEMMA EnqueueSendKeepsIInv ==
  ASSUME IInv, NEW c \in Callers, NEW p \in Peers, EnqueueSend(c, p)
  PROVE  IInv'
<1> USE NoPeerAssumption, FreeAssumption DEF IInv
<1>1. ~Unmarked(p)
  BY DEF EnqueueSend, MutexHeldWhileMarking, Unmarked
<1>2. ~Contains(queue, p) /\ ~Active(p)
  BY <1>1 DEF EnqueueSend, PendingIsExact
<1>3. queue \in Seq(Peers) /\ NoDuplicates(queue)
  BY DEF TypeOK, OneLookupPerPeer
<1>4. \A y : Contains(queue', y) <=> Contains(queue, y) \/ y = p
  BY <1>3, EnqueuedContents DEF EnqueueSend
<1>5. \A y : Active(y)' <=> Active(y)
  BY DEF EnqueueSend, Active, workerVars
<1>6. TypeOK'
  BY QueueSizeAssumption DEF TypeOK, EnqueueSend, Enqueued, HasRoom, workerVars
<1>7. OneLookupPerPeer'
  <2>1. NoDuplicates(queue')
    BY <1>2, <1>3, EnqueuedNoDuplicates DEF EnqueueSend
  <2> QED
    BY <2>1, <1>2, <1>4, <1>5 DEF OneLookupPerPeer
<1>8. \A q \in Peers : Unmarked(q)' <=> Unmarked(q) \/ q = p
  BY DEF EnqueueSend, Unmarked, TypeOK, MutexHeldWhileMarking
<1>9. PendingIsExact'
  BY <1>4, <1>5, <1>8 DEF PendingIsExact, EnqueueSend
<1>10. MutexHeldWhileMarking'
  BY DEF EnqueueSend, TypeOK, MutexHeldWhileMarking
<1>11. WorkerHasPeer'
  BY DEF WorkerHasPeer, EnqueueSend, workerVars
<1> QED
  BY <1>6, <1>7, <1>9, <1>10, <1>11

\* enqueue's mark: the peer it marks is the one it has sent.
LEMMA EnqueueMarkKeepsIInv ==
  ASSUME IInv, NEW c \in Callers, EnqueueMark(c)
  PROVE  IInv'
<1> USE NoPeerAssumption, FreeAssumption DEF IInv
<1>1. TypeOK'
  BY DEF TypeOK, EnqueueMark, workerVars
<1>2. \A y : (Active(y)' <=> Active(y)) /\ (Contains(queue, y)' <=> Contains(queue, y))
  BY DEF EnqueueMark, Active, workerVars, Contains
<1>3. OneLookupPerPeer'
  BY <1>2 DEF OneLookupPerPeer, EnqueueMark, NoDuplicates
<1>4. pendingMu = c
  BY DEF EnqueueMark, MutexHeldWhileMarking
<1>5. \A d \in Callers : d # c => marking[d] = NoPeer
  BY <1>4 DEF MutexHeldWhileMarking
<1>6. \A q \in Peers : (q \in pending \/ Unmarked(q))' <=> q \in pending \/ Unmarked(q)
  BY <1>5 DEF EnqueueMark, Unmarked, TypeOK
<1>7. PendingIsExact'
  BY <1>2, <1>6 DEF PendingIsExact
<1>8. MutexHeldWhileMarking'
  BY <1>5 DEF MutexHeldWhileMarking, EnqueueMark, TypeOK
<1>9. WorkerHasPeer'
  BY DEF WorkerHasPeer, EnqueueMark, workerVars
<1> QED
  BY <1>1, <1>3, <1>7, <1>8, <1>9

\* The worker's receive moves a peer from the channel to the worker.
LEMMA ReceiveKeepsIInv ==
  ASSUME IInv, Receive
  PROVE  IInv'
<1> USE NoPeerAssumption, FreeAssumption DEF IInv
<1>1. queue \in Seq(Peers) /\ NoDuplicates(queue) /\ queue # <<>>
  BY DEF TypeOK, OneLookupPerPeer, Receive
<1>2. /\ \A y : Contains(queue', y) <=> Contains(queue, y) /\ y # Oldest(queue)
      /\ NoDuplicates(queue')
      /\ Contains(queue, Oldest(queue))
  BY <1>1, DequeuedContents DEF Receive
<1>3. \A y : ~Active(y) /\ (Active(y)' <=> y = Oldest(queue))
  BY DEF Receive, Active
<1>4. TypeOK'
  <2>1. Oldest(queue) \in Peers /\ Dequeued(queue) \in Seq(Peers)
        /\ Len(Dequeued(queue)) <= QueueSize
    BY <1>1, QueueSizeAssumption DEF TypeOK, Oldest, Dequeued
  <2> QED
    BY <2>1 DEF TypeOK, Receive, callerVars
<1>5. OneLookupPerPeer'
  BY <1>2, <1>3 DEF OneLookupPerPeer
<1>6. PendingIsExact'
  BY <1>2, <1>3 DEF PendingIsExact, Receive, callerVars, Unmarked
<1>7. MutexHeldWhileMarking'
  BY DEF MutexHeldWhileMarking, Receive, callerVars
<1>8. WorkerHasPeer'
  BY <1>1 DEF WorkerHasPeer, Receive, Oldest
<1> QED
  BY <1>4, <1>5, <1>6, <1>7, <1>8

\* The worker's delete: pendingMu rules out that the mark is still to come.
LEMMA ClearPendingKeepsIInv ==
  ASSUME IInv, ClearPending
  PROVE  IInv'
<1> USE NoPeerAssumption, FreeAssumption DEF IInv
<1>1. TypeOK'
  BY DEF TypeOK, ClearPending, callerVars
<1>2. \A y : /\ ~Active(y)'
             /\ Active(y) <=> y = working
             /\ Contains(queue, y)' <=> Contains(queue, y)
  BY DEF ClearPending, Active, Contains
<1>3. OneLookupPerPeer'
  BY <1>2 DEF OneLookupPerPeer, ClearPending, NoDuplicates
<1>4. \A q \in Peers : ~Unmarked(q) /\ ~Unmarked(q)'
  BY DEF MutexHeldWhileMarking, ClearPending, callerVars, Unmarked
<1>5. PendingIsExact'
  BY <1>2, <1>4 DEF PendingIsExact, OneLookupPerPeer, ClearPending
<1>6. MutexHeldWhileMarking'
  BY DEF MutexHeldWhileMarking, ClearPending, callerVars
<1>7. WorkerHasPeer'
  BY DEF WorkerHasPeer, ClearPending
<1> QED
  BY <1>1, <1>3, <1>5, <1>6, <1>7

\* The actions that touch neither the channel nor the pending map.
Bookkeeping ==
  \/ \E c \in Callers : Trigger(c) \/ \E p \in Peers : TriggerForPeer(c, p) \/ EnqueueRefused(c, p)
  \/ RunStart \/ RunExit \/ ExecuteReturns \/ Cancel
  \/ WaitBegin \/ WaitSeesEmpty \/ WaitCancelled

\* Every step of the controller is bookkeeping or one of four that matter.
LEMMA NextSplit ==
  ASSUME Next
  PROVE  \/ Bookkeeping
         \/ \E c \in Callers, p \in Peers : EnqueueSend(c, p)
         \/ \E c \in Callers : EnqueueMark(c)
         \/ Receive
         \/ ClearPending
BY DEF Next, CallerNext, WorkerNext, Bookkeeping

\* Listing peers, refusing one, starting, cancelling and waiting disturb no lookup.
LEMMA BookkeepingIsQuiet ==
  ASSUME TypeOK, WorkerHasPeer, Bookkeeping
  PROVE  /\ TypeOK' /\ WorkerHasPeer'
         /\ UNCHANGED <<queue, pending, pendingMu, marking>>
         /\ \A p : Active(p)' <=> Active(p)
<1> USE DEF TypeOK, WorkerHasPeer, Active, callerVars, workerVars
<1>1. ASSUME NEW c \in Callers, Trigger(c)
      PROVE  /\ TypeOK' /\ WorkerHasPeer' /\ UNCHANGED <<queue, pending, pendingMu, marking>>
             /\ \A p : Active(p)' <=> Active(p)
  BY <1>1 DEF Trigger
<1>2. ASSUME NEW c \in Callers, NEW p \in Peers, TriggerForPeer(c, p) \/ EnqueueRefused(c, p)
      PROVE  /\ TypeOK' /\ WorkerHasPeer' /\ UNCHANGED <<queue, pending, pendingMu, marking>>
             /\ \A q : Active(q)' <=> Active(q)
  BY <1>2 DEF TriggerForPeer, EnqueueRefused
<1>3. CASE RunStart \/ RunExit \/ ExecuteReturns
  BY <1>3 DEF RunStart, RunExit, ExecuteReturns
<1>4. CASE Cancel \/ WaitBegin \/ WaitSeesEmpty \/ WaitCancelled
  BY <1>4 DEF Cancel, WaitBegin, WaitSeesEmpty, WaitCancelled
<1> QED
  BY <1>1, <1>2, <1>3, <1>4 DEF Bookkeeping

\* Every step of the controller keeps the inductive invariant.
LEMMA NextIInv == IInv /\ [Next]_vars => IInv'
<1> SUFFICES ASSUME IInv, [Next]_vars PROVE IInv'
  OBVIOUS
<1>1. CASE Bookkeeping
  BY <1>1, BookkeepingIsQuiet, QuietStep DEF IInv
<1>2. CASE \E c \in Callers, p \in Peers : EnqueueSend(c, p)
  BY <1>2, EnqueueSendKeepsIInv
<1>3. CASE \E c \in Callers : EnqueueMark(c)
  BY <1>3, EnqueueMarkKeepsIInv
<1>4. CASE Receive
  BY <1>4, ReceiveKeepsIInv
<1>5. CASE ClearPending
  BY <1>5, ClearPendingKeepsIInv
<1>6. CASE UNCHANGED vars
  <2>1. TypeOK' /\ WorkerHasPeer'
    BY <1>6 DEF IInv, TypeOK, WorkerHasPeer, vars
  <2>2. \A p : Active(p)' <=> Active(p)
    BY <1>6 DEF Active, vars
  <2>3. UNCHANGED <<queue, pending, pendingMu, marking>>
    BY <1>6 DEF vars
  <2> QED
    BY <2>1, <2>2, <2>3, QuietStep DEF IInv
<1> QED
  BY <1>1, <1>2, <1>3, <1>4, <1>5, <1>6, NextSplit

\* The inductive invariant of the queue, the pending map, the mutex and the worker.
THEOREM Invariance == Spec => []IInv
BY InitIInv, NextIInv, PTL DEF Spec

-----------------------------------------------------------------------------
(* The results.                                                            *)

\* The controller's variables keep their types; in particular the channel never
\* holds more than PeerQueueSize peers.
THEOREM TypeCorrect == Spec => []TypeOK
BY Invariance, PTL DEF IInv

\* "One queued or active lookup per peer" (establish.go:198), for any number of
\* peers, triggering goroutines and slots.
THEOREM OneLookup == Spec => []OneLookupPerPeer
BY Invariance, PTL DEF IInv

\* No peer is left marked as pending without a lookup, and no lookup is left
\* unmarked once enqueue has released its mutex.
THEOREM PendingExact == Spec => []PendingIsExact
BY Invariance, PTL DEF IInv

\* WaitForCompletion reports completion only when it is true.
THEOREM WaitSound == Spec => WaitIsSound
<1>1. IInv /\ [Next]_vars =>
        [waiter = "waiting" /\ waiter' = "out" /\ ctx = "live"
           => queue = <<>> /\ worker \in {"stopped", "idle"}]_vars
  <2> SUFFICES ASSUME IInv, [Next]_vars, waiter = "waiting", waiter' = "out", ctx = "live"
               PROVE  queue = <<>> /\ worker \in {"stopped", "idle"}
    OBVIOUS
  <2>1. WaitSeesEmpty
    BY DEF Next, CallerNext, WorkerNext, Trigger, TriggerForPeer, EnqueueRefused, EnqueueSend,
           EnqueueMark, RunStart, RunExit, Receive, ExecuteReturns, ClearPending, Cancel,
           WaitBegin, WaitCancelled, vars
  <2>2. \A p \in Peers : ~Unmarked(p)
    BY <2>1, FreeAssumption, NoPeerAssumption DEF IInv, MutexHeldWhileMarking, WaitSeesEmpty, Unmarked
  <2>3. \A p \in Peers : ~Contains(queue, p) /\ ~Active(p)
    BY <2>1, <2>2 DEF IInv, PendingIsExact, WaitSeesEmpty
  <2>4. queue = <<>>
    <3>1. queue \in Seq(Peers)
      BY DEF IInv, TypeOK
    <3>2. SUFFICES ASSUME queue # <<>> PROVE FALSE
      OBVIOUS
    <3>3. 1 \in 1..Len(queue) /\ queue[1] \in Peers
      BY <3>1, <3>2
    <3> QED
      BY <3>3, <2>3 DEF Contains
  <2>5. worker \in {"stopped", "idle"}
    BY <2>3 DEF IInv, TypeOK, WorkerHasPeer, Active
  <2> QED
    BY <2>4, <2>5
<1> QED
  BY <1>1, Invariance, PTL DEF Spec, WaitIsSound

-----------------------------------------------------------------------------
(* Lost triggers, and the safety core of the two liveness properties.      *)

\* enqueue gives a trigger up only when the pending map or the channel's length
\* says so, and both tell the truth: the peer's lookup is queued or active, or
\* every slot is taken.
THEOREM LostTriggers == Spec => LostTriggersAreCovered
<1> DEFINE Covered(c, p) ==
      p \in todo[c] /\ p \notin todo'[c]
        => Contains(queue', p) \/ Active(p) \/ Len(queue) = QueueSize
<1>1. IInv /\ [Next]_vars => [\A c \in Callers, p \in Peers : Covered(c, p)]_vars
  <2> SUFFICES ASSUME IInv, [Next]_vars, NEW c \in Callers, NEW p \in Peers,
                      p \in todo[c], p \notin todo'[c]
               PROVE  Contains(queue', p) \/ Active(p) \/ Len(queue) = QueueSize
    OBVIOUS
  <2> USE DEF IInv
  <2>1. EnqueueRefused(c, p) \/ EnqueueSend(c, p)
    <3>1. ASSUME NEW d \in Callers, Trigger(d) \/ \E q \in Peers : TriggerForPeer(d, q)
          PROVE  FALSE
      BY <3>1 DEF Trigger, TriggerForPeer, Idle, TypeOK
    <3>2. ASSUME NEW d \in Callers, NEW q \in Peers, EnqueueRefused(d, q) \/ EnqueueSend(d, q)
          PROVE  d = c /\ q = p
      BY <3>2 DEF EnqueueRefused, EnqueueSend, TypeOK
    <3> QED
      BY <3>1, <3>2 DEF Next, CallerNext, WorkerNext, EnqueueMark, RunStart, RunExit, Receive,
         ExecuteReturns, ClearPending, Cancel, WaitBegin, WaitSeesEmpty, WaitCancelled,
         vars, callerVars
  <2>2. CASE EnqueueSend(c, p)
    BY <2>2, EnqueuedContents DEF EnqueueSend, TypeOK
  <2>3. CASE EnqueueRefused(c, p) /\ p \in pending
    BY <2>3 DEF EnqueueRefused, PendingIsExact
  <2>4. CASE EnqueueRefused(c, p) /\ ~HasRoom(queue, QueueSize)
    BY <2>4, QueueSizeAssumption DEF HasRoom, TypeOK
  <2> QED
    BY <2>1, <2>2, <2>3, <2>4 DEF EnqueueRefused
<1> QED
  BY <1>1, Invariance, PTL DEF Spec, LostTriggersAreCovered

\* A receive hands the oldest peer to the worker and moves every other queued peer
\* one place forward; no other step moves anyone.  So the peer in place i waits
\* for exactly i receives, whatever triggers arrive behind it: this is what
\* QueuedIsServed rests on besides fairness.
NobodyIsOvertaken ==
  [][\A i \in 1..Len(queue) :
       IF worker = "idle" /\ worker' = "exec"
       THEN IF i = 1 THEN working' = queue[i]
                     ELSE i - 1 \in 1..Len(queue') /\ queue'[i - 1] = queue[i]
       ELSE i \in 1..Len(queue') /\ queue'[i] = queue[i]]_vars

\* The channel is served in order (select over ctx.Done and Dequeue in Run,
\* TryEnqueue in enqueue): a trigger never overtakes a queued peer.
THEOREM Fifo == Spec => NobodyIsOvertaken
<1> DEFINE Moves(i) ==
      IF worker = "idle" /\ worker' = "exec"
      THEN IF i = 1 THEN working' = queue[i]
                    ELSE i - 1 \in 1..Len(queue') /\ queue'[i - 1] = queue[i]
      ELSE i \in 1..Len(queue') /\ queue'[i] = queue[i]
<1>1. IInv /\ [Next]_vars => [\A i \in 1..Len(queue) : Moves(i)]_vars
  <2> SUFFICES ASSUME IInv, [Next]_vars, NEW i \in 1..Len(queue)
               PROVE  Moves(i)
    OBVIOUS
  <2>0. queue \in Seq(Peers)
    BY DEF IInv, TypeOK
  <2>1. CASE Receive
    <3>1. /\ Len(queue) \in Nat \ {0} /\ Len(Tail(queue)) = Len(queue) - 1
          /\ \A j \in 1..Len(Tail(queue)) : Tail(queue)[j] = queue[j + 1]
          /\ Head(queue) = queue[1]
      BY <2>0, <2>1 DEF Receive
    <3>2. CASE i = 1
      BY <2>1, <3>1, <3>2 DEF Receive, Oldest
    <3>3. CASE i # 1
      <4>1. i - 1 \in 1..Len(Tail(queue)) /\ Tail(queue)[i - 1] = queue[i]
        BY <3>1, <3>3
      <4> QED
        BY <2>1, <4>1, <3>3 DEF Receive, Dequeued
    <3> QED
      BY <3>2, <3>3
  <2>2. ASSUME NEW c \in Callers, NEW p \in Peers, EnqueueSend(c, p)
        PROVE  Moves(i)
    <3>1. i \in 1..Len(Append(queue, p)) /\ Append(queue, p)[i] = queue[i]
      BY <2>0
    <3> QED
      BY <2>2, <3>1 DEF EnqueueSend, Enqueued, workerVars
  <2>3. CASE UNCHANGED queue /\ ~(worker = "idle" /\ worker' = "exec")
    BY <2>3
  <2>4. \/ Receive
        \/ \E c \in Callers, p \in Peers : EnqueueSend(c, p)
        \/ UNCHANGED queue /\ ~(worker = "idle" /\ worker' = "exec")
    BY DEF Next, CallerNext, WorkerNext, Trigger, TriggerForPeer, EnqueueRefused, EnqueueMark,
           RunStart, RunExit, ExecuteReturns, ClearPending, Cancel, WaitBegin, WaitSeesEmpty,
           WaitCancelled, vars, callerVars, workerVars
  <2> QED
    BY <2>1, <2>2, <2>3, <2>4
<1> QED
  BY <1>1, Invariance, PTL DEF Spec, NobodyIsOvertaken

\* While Run's context is live its worker is inside the loop, and whoever holds
\* pendingMu is one step from releasing it without waiting for anyone.  So a
\* queued peer always finds the worker able to receive, executing, or clearing
\* behind an enqueue that is about to return: nobody waits on everybody.
WorkerIsNeverStuck ==
  /\ ctx = "live" => worker \in {"idle", "exec", "clear"}
  /\ worker = "clear" => pendingMu = Free \/ marking[pendingMu] \in Peers

\* Run cannot stop serving under a live context, and its delete from the pending
\* map cannot wait for ever on pendingMu.
THEOREM NeverStuck == Spec => []WorkerIsNeverStuck
<1> DEFINE StoppedIsCancelled == worker = "stopped" => ctx = "done"
<1>1. Init => StoppedIsCancelled
  BY DEF Init
<1>2. StoppedIsCancelled /\ [Next]_vars => StoppedIsCancelled'
  BY DEF Next, CallerNext, WorkerNext, Trigger, TriggerForPeer, EnqueueRefused, EnqueueSend,
         EnqueueMark, RunStart, RunExit, Receive, ExecuteReturns, ClearPending, Cancel,
         WaitBegin, WaitSeesEmpty, WaitCancelled, vars, callerVars, workerVars
<1>3. IInv /\ StoppedIsCancelled => WorkerIsNeverStuck
  BY DEF IInv, TypeOK, MutexHeldWhileMarking, WorkerIsNeverStuck
<1> QED
  BY <1>1, <1>2, <1>3, Invariance, PTL DEF Spec

-----------------------------------------------------------------------------
(* Refinement: the initial state and every step map to OneLookup.          *)

\* A new controller has a lookup for no peer.
LEMMA InitRefines == Init => Promise!Init
<1> SUFFICES ASSUME Init, NEW p \in Peers PROVE LookupOf(p) = "none"
  BY DEF Promise!Init
<1> QED
  BY DEF Init, LookupOf, Active, Contains

\* What one changed peer means for the abstract variable.
LEMMA LookupUpdate ==
  ASSUME NEW p \in Peers, NEW v, LookupOf(p)' = v,
         \A q \in Peers : q # p => LookupOf(q)' = LookupOf(q)
  PROVE  [q \in Peers |-> LookupOf(q)]' = [[q \in Peers |-> LookupOf(q)] EXCEPT ![p] = v]
OBVIOUS

\* The send, the receive and the delete are Request, Start and Finish; every other
\* step is invisible.
LEMMA StepRefines ==
  IInv /\ IInv' /\ [Next]_vars => [Promise!Next]_([p \in Peers |-> LookupOf(p)])
<1> DEFINE lk == [p \in Peers |-> LookupOf(p)]
<1> SUFFICES ASSUME IInv, IInv', [Next]_vars
             PROVE  Promise!Next \/ lk' = lk
  OBVIOUS
<1>1. ASSUME NEW c \in Callers, NEW p \in Peers, EnqueueSend(c, p)
      PROVE  Promise!Next
  <2>1. ~Unmarked(p)
    BY <1>1, NoPeerAssumption, FreeAssumption
       DEF EnqueueSend, IInv, MutexHeldWhileMarking, Unmarked
  <2>2. ~Contains(queue, p) /\ ~Active(p)
    BY <1>1, <2>1 DEF EnqueueSend, IInv, PendingIsExact
  <2>3. \A y : Contains(queue', y) <=> Contains(queue, y) \/ y = p
    BY <1>1, EnqueuedContents DEF EnqueueSend, IInv, TypeOK
  <2>4. \A y : Active(y)' <=> Active(y)
    BY <1>1 DEF EnqueueSend, Active, workerVars
  <2>5. \A q \in Peers : q # p => LookupOf(q)' = LookupOf(q)
    BY <2>3, <2>4 DEF LookupOf
  <2>6. LookupOf(p) = "none" /\ LookupOf(p)' = "queued"
    BY <2>2, <2>3, <2>4 DEF LookupOf
  <2> QED
    BY <2>5, <2>6, LookupUpdate DEF Promise!Next, Promise!Request
<1>2. CASE Receive
  <2>0. PICK p \in Peers : p = Oldest(queue)
    BY <1>2 DEF Receive, IInv, TypeOK, Oldest
  <2>1. /\ \A y : Contains(queue', y) <=> Contains(queue, y) /\ y # p
        /\ Contains(queue, p)
    BY <1>2, <2>0, DequeuedContents DEF Receive, IInv, TypeOK, OneLookupPerPeer
  <2>2. \A y : ~Active(y) /\ (Active(y)' <=> y = p)
    BY <1>2, <2>0 DEF Receive, Active
  <2>3. \A q \in Peers : q # p => LookupOf(q)' = LookupOf(q)
    BY <2>1, <2>2 DEF LookupOf
  <2>4. LookupOf(p) = "queued" /\ LookupOf(p)' = "active"
    BY <2>1, <2>2 DEF LookupOf
  <2>5. \A q \in Peers : LookupOf(q) # "active"
    BY <2>2 DEF LookupOf
  <2> QED
    BY <2>3, <2>4, <2>5, LookupUpdate DEF Promise!Next, Promise!Start
<1>3. CASE ClearPending
  <2>1. \A y : /\ ~Active(y)'
               /\ Active(y) <=> y = working
               /\ Contains(queue, y)' <=> Contains(queue, y)
    BY <1>3 DEF ClearPending, Active, Contains
  <2>2. working \in Peers /\ ~Contains(queue, working)
    BY <1>3, <2>1 DEF ClearPending, IInv, WorkerHasPeer, OneLookupPerPeer
  <2>3. \A q \in Peers : q # working => LookupOf(q)' = LookupOf(q)
    BY <2>1 DEF LookupOf
  <2>4. LookupOf(working) = "active" /\ \A q : q = working => LookupOf(q)' = "none"
    BY <2>1, <2>2 DEF LookupOf
  <2>5. PICK p \in Peers : p = working
    BY <2>2
  <2> QED
    BY <2>3, <2>4, <2>5, LookupUpdate DEF Promise!Next, Promise!Finish
<1>4. CASE Bookkeeping \/ (\E c \in Callers : EnqueueMark(c)) \/ UNCHANGED vars
  <2>1. UNCHANGED queue /\ \A p : Active(p)' <=> Active(p)
    BY <1>4, BookkeepingIsQuiet DEF IInv, EnqueueMark, workerVars, vars, Active
  <2> QED
    BY <2>1 DEF LookupOf, Contains
<1> QED
  BY <1>1, <1>2, <1>3, <1>4, NextSplit

\* The queue, the pending map and the mutex implement the promise that a peer
\* has at most one lookup and that lookups run one at a time.
THEOREM Refinement == Spec => ImplementsOneLookup
BY InitRefines, StepRefines, Invariance, PTL DEF Spec, ImplementsOneLookup, Promise!Spec
=============================================================================
