--------------------------- MODULE EstablishQueue ---------------------------
(***************************************************************************)
(* The work queue of EstablishController (internal/ctrl/establish.go):     *)
(* goroutines that call Trigger or TriggerForPeer, the single worker       *)
(* started by Run, and a caller of WaitForCompletion.                      *)
(*                                                                         *)
(* enqueue holds pendingMu while it tests pending, tries the channel and   *)
(* marks the peer, but the worker receives from the channel without that   *)
(* mutex.  So enqueue is two steps: the worker may take a peer, and even   *)
(* finish its Execute, before the peer is marked as pending.               *)
(*                                                                         *)
(* Execute itself is one opaque span here; module Recovery models what it  *)
(* does.                                                                   *)
(***************************************************************************)
EXTENDS BoundedQueue, FiniteSets

CONSTANTS
  Peers,      \* peers registered by bootstrap
  Callers,    \* goroutines that trigger: the daemon loop, the ping checkers
  QueueSize,  \* PeerQueueSize
  NoPeer,     \* no peer
  Free        \* pendingMu is not held

ASSUME QueueSizeAssumption == QueueSize \in Nat \ {0}
ASSUME NoPeerAssumption == NoPeer \notin Peers
ASSUME FreeAssumption == Free \notin Callers

VARIABLES
  queue,      \* the channel's buffer
  pending,    \* keys of the pending map (a key is only ever mapped to true)
  pendingMu,  \* holder of pendingMu across enqueue's two steps
  todo,       \* todo[c]: peers c still has to enqueue in its current call
  marking,    \* marking[c]: peer c has sent to the channel but not yet marked
  worker,     \* the goroutine in Run: "stopped", "idle", "exec", "clear"
  working,    \* the peer the worker has received
  ctx,        \* the context given to Run: "live" or "done"
  waiter      \* the caller of WaitForCompletion: "out" or "waiting"

vars == <<queue, pending, pendingMu, todo, marking, worker, working, ctx, waiter>>
callerVars == <<todo, marking, pendingMu>>
workerVars == <<worker, working>>

TypeOK ==
  /\ queue \in Seq(Peers)
  /\ Len(queue) <= QueueSize
  /\ pending \subseteq Peers
  /\ pendingMu \in Callers \union {Free}
  /\ todo \in [Callers -> SUBSET Peers]
  /\ marking \in [Callers -> Peers \union {NoPeer}]
  /\ worker \in {"stopped", "idle", "exec", "clear"}
  /\ working \in Peers \union {NoPeer}
  /\ ctx \in {"live", "done"}
  /\ waiter \in {"out", "waiting"}

\* NewEstablishController.
Init ==
  /\ queue = <<>>
  /\ pending = {}
  /\ pendingMu = Free
  /\ todo = [c \in Callers |-> {}]
  /\ marking = [c \in Callers |-> NoPeer]
  /\ worker = "stopped"
  /\ working = NoPeer
  /\ ctx = "done"
  /\ waiter = "out"

-----------------------------------------------------------------------------
(* Faulty variants of the actions below, each with one plausible mistake.  *)

\* enqueue marks the peer before it knows whether the channel took it.
EnqueueRefusedMarks(c, p) ==
  /\ p \in todo[c] /\ pendingMu = Free
  /\ p \in pending \/ ~HasRoom(queue, QueueSize)
  /\ todo' = [todo EXCEPT ![c] = @ \ {p}]
  /\ pending' = pending \union {p}
  /\ UNCHANGED <<queue, pendingMu, marking, workerVars, ctx, waiter>>

\* enqueue without the pending test.
EnqueueSendUntested(c, p) ==
  /\ p \in todo[c] /\ pendingMu = Free
  /\ HasRoom(queue, QueueSize)
  /\ queue' = Enqueued(queue, p)
  /\ pendingMu' = c
  /\ marking' = [marking EXCEPT ![c] = p]
  /\ todo' = [todo EXCEPT ![c] = @ \ {p}]
  /\ UNCHANGED <<pending, workerVars, ctx, waiter>>

\* The mark is deleted when the peer is received, not when Execute is over.
ReceiveClears ==
  /\ worker = "idle" /\ queue # <<>> /\ pendingMu = Free
  /\ working' = Oldest(queue)
  /\ queue' = Dequeued(queue)
  /\ worker' = "exec"
  /\ pending' = pending \ {Oldest(queue)}
  /\ UNCHANGED <<callerVars, ctx, waiter>>

\* The newest peer is served first.
ReceiveNewest ==
  /\ worker = "idle" /\ queue # <<>>
  /\ working' = queue[Len(queue)]
  /\ queue' = SubSeq(queue, 1, Len(queue) - 1)
  /\ worker' = "exec"
  /\ UNCHANGED <<pending, callerVars, ctx, waiter>>

\* Run returns straight after an Execute that was cancelled.
ExecuteReturnsAborts ==
  /\ worker = "exec"
  /\ worker' = IF ctx = "done" THEN "stopped" ELSE "clear"
  /\ UNCHANGED <<queue, pending, callerVars, working, ctx, waiter>>

\* WaitForCompletion looks at the channel instead of the pending map.
WaitSeesNoQueue ==
  /\ waiter = "waiting"
  /\ queue = <<>>
  /\ waiter' = "out"
  /\ UNCHANGED <<queue, pending, callerVars, workerVars, ctx>>

-----------------------------------------------------------------------------
(* Callers of Trigger and TriggerForPeer.                                  *)

Idle(c) == todo[c] = {} /\ marking[c] = NoPeer

\* Trigger lists every peer and enqueues each of them, in the order of a map
\* iteration.
Trigger(c) ==
  /\ Idle(c)
  /\ todo' = [todo EXCEPT ![c] = Peers]
  /\ UNCHANGED <<queue, pending, pendingMu, marking, workerVars, ctx, waiter>>

TriggerForPeer(c, p) ==
  /\ Idle(c)
  /\ todo' = [todo EXCEPT ![c] = {p}]
  /\ UNCHANGED <<queue, pending, pendingMu, marking, workerVars, ctx, waiter>>

\* enqueue returns false: the peer is pending, or the channel is full.
EnqueueRefused(c, p) ==
  /\ p \in todo[c] /\ pendingMu = Free
  /\ p \in pending \/ ~HasRoom(queue, QueueSize)
  /\ todo' = [todo EXCEPT ![c] = @ \ {p}]
  /\ UNCHANGED <<queue, pending, pendingMu, marking, workerVars, ctx, waiter>>

\* enqueue, first half: TryEnqueue succeeds.  pendingMu stays held.
EnqueueSend(c, p) ==
  /\ p \in todo[c] /\ pendingMu = Free
  /\ p \notin pending
  /\ HasRoom(queue, QueueSize)
  /\ queue' = Enqueued(queue, p)
  /\ pendingMu' = c
  /\ marking' = [marking EXCEPT ![c] = p]
  /\ todo' = [todo EXCEPT ![c] = @ \ {p}]
  /\ UNCHANGED <<pending, workerVars, ctx, waiter>>

\* enqueue, second half: pending[id] = true, unlock, return true.
EnqueueMark(c) ==
  /\ marking[c] # NoPeer
  /\ pending' = pending \union {marking[c]}
  /\ marking' = [marking EXCEPT ![c] = NoPeer]
  /\ pendingMu' = Free
  /\ UNCHANGED <<queue, todo, workerVars, ctx, waiter>>

-----------------------------------------------------------------------------
(* The worker: Run's loop.                                                 *)

\* The daemon starts Run with a fresh context; it never runs two at a time.
RunStart ==
  /\ worker = "stopped"
  /\ worker' = "idle"
  /\ ctx' = "live"
  /\ UNCHANGED <<queue, pending, callerVars, working, waiter>>

\* The daemon's context is cancelled.
Cancel ==
  /\ ctx = "live"
  /\ ctx' = "done"
  /\ UNCHANGED <<queue, pending, callerVars, workerVars, waiter>>

\* select takes ctx.Done: leftovers stay in the channel, still pending.
RunExit ==
  /\ worker = "idle" /\ ctx = "done"
  /\ worker' = "stopped"
  /\ UNCHANGED <<queue, pending, callerVars, working, ctx, waiter>>

\* select takes a peer from the channel; ctx may be done, select is unordered.
Receive ==
  /\ worker = "idle" /\ queue # <<>>
  /\ working' = Oldest(queue)
  /\ queue' = Dequeued(queue)
  /\ worker' = "exec"
  /\ UNCHANGED <<pending, callerVars, ctx, waiter>>

\* Execute returns; its context bounds it to 60 seconds.
ExecuteReturns ==
  /\ worker = "exec"
  /\ worker' = "clear"
  /\ UNCHANGED <<queue, pending, callerVars, working, ctx, waiter>>

\* delete(c.pending, peerId) under pendingMu.
ClearPending ==
  /\ worker = "clear" /\ pendingMu = Free
  /\ pending' = pending \ {working}
  /\ working' = NoPeer
  /\ worker' = "idle"
  /\ UNCHANGED <<queue, callerVars, ctx, waiter>>

-----------------------------------------------------------------------------
(* WaitForCompletion, called once per oneshot run.                         *)

WaitBegin ==
  /\ waiter = "out"
  /\ waiter' = "waiting"
  /\ UNCHANGED <<queue, pending, callerVars, workerVars, ctx>>

\* A tick finds the pending map empty.
WaitSeesEmpty ==
  /\ waiter = "waiting"
  /\ pendingMu = Free /\ pending = {}
  /\ waiter' = "out"
  /\ UNCHANGED <<queue, pending, callerVars, workerVars, ctx>>

\* The context is done.
WaitCancelled ==
  /\ waiter = "waiting"
  /\ ctx = "done"
  /\ waiter' = "out"
  /\ UNCHANGED <<queue, pending, callerVars, workerVars, ctx>>

-----------------------------------------------------------------------------
CallerNext(c) ==
  \/ Trigger(c)
  \/ \E p \in Peers : TriggerForPeer(c, p) \/ EnqueueRefused(c, p) \/ EnqueueSend(c, p)
  \/ EnqueueMark(c)

WorkerNext == RunStart \/ RunExit \/ Receive \/ ExecuteReturns \/ ClearPending

Next ==
  \/ \E c \in Callers : CallerNext(c)
  \/ WorkerNext
  \/ Cancel
  \/ WaitBegin \/ WaitSeesEmpty \/ WaitCancelled

Spec == Init /\ [][Next]_vars

\* A goroutine that is inside enqueue or Execute gets to run (Execute is bounded
\* by its timeout), and so does the worker between two peers.  Nobody is obliged
\* to trigger, to start Run, to cancel it or to wait.
Fairness ==
  /\ \A c \in Callers : WF_vars(EnqueueMark(c))
  /\ WF_vars(Receive) /\ WF_vars(ExecuteReturns) /\ WF_vars(ClearPending)

FairSpec == Spec /\ Fairness

-----------------------------------------------------------------------------
(* Properties.                                                             *)

\* The worker has received p and has not yet cleared its pending mark.
Active(p) == worker \in {"exec", "clear"} /\ working = p

\* The peer some caller has sent but not marked.
Unmarked(p) == \E c \in Callers : marking[c] = p

\* "One queued or active lookup per peer" (establish.go:198): the channel never
\* holds a peer twice, and never holds the peer the worker is executing, so
\* repeated timer and ping triggers cannot pile up work for one peer.
OneLookupPerPeer ==
  /\ NoDuplicates(queue)
  /\ \A p \in Peers : ~(Active(p) /\ Contains(queue, p))

\* The pending map is exactly the set of queued or active lookups, up to the one
\* peer being marked by the holder of pendingMu.  A mark without a lookup would
\* silence every later trigger of that peer for the life of the process.
PendingIsExact ==
  \A p \in Peers :
    (p \in pending \/ Unmarked(p)) <=> (Contains(queue, p) \/ Active(p))

\* WaitForCompletion returns under a live context only when nothing is queued
\* and the worker executes nothing: oneshot mode does not cut a lookup short.
WaitIsSound ==
  [][waiter = "waiting" /\ waiter' = "out" /\ ctx = "live"
       => queue = <<>> /\ worker \in {"stopped", "idle"}]_vars

\* The only trigger that is lost is one for a peer with a lookup already queued
\* or active, or one that met a channel whose every slot is taken.
LostTriggersAreCovered ==
  [][\A c \in Callers, p \in Peers :
       p \in todo[c] /\ p \notin todo'[c]
         => Contains(queue', p) \/ Active(p) \/ Len(queue) = QueueSize]_vars

\* A queued peer is looked up unless Run's context is cancelled first.
QueuedIsServed ==
  \A p \in Peers : Contains(queue, p) /\ ctx = "live" ~> Active(p) \/ ctx = "done"

\* An active lookup ends and its pending mark is gone: the next trigger for the
\* peer is accepted again, even if the context is cancelled while it runs.
ActiveIsReleased ==
  \A p \in Peers : Active(p) ~> ~Active(p) /\ p \notin pending

-----------------------------------------------------------------------------
(* EstablishQueue implements OneLookup.                                    *)

LookupOf(p) ==
  IF Active(p) THEN "active" ELSE IF Contains(queue, p) THEN "queued" ELSE "none"

Promise == INSTANCE OneLookup WITH lookup <- [p \in Peers |-> LookupOf(p)]

\* Every step of the controller is a step of the one-lookup-per-peer promise.
ImplementsOneLookup == Promise!Spec
=============================================================================
