------------------------------- MODULE Daemon -------------------------------
(***************************************************************************)
(* The life of the process: App.Run, RunOneshot and Close (app/app.go),    *)
(* the Daemon's two modes (internal/daemon/daemon.go) and the goroutines   *)
(* they start: the publish worker with its two channels                    *)
(* (internal/ctrl/publish.go), the establish worker and the ping monitor.  *)
(*                                                                         *)
(* One lookup or publication is one span in which the worker uses the      *)
(* WireGuard client and the stores.  The establish queue is its length     *)
(* here; module EstablishQueue models it, and PingMonitor the monitor.     *)
(***************************************************************************)
EXTENDS Naturals, FiniteSets

CONSTANTS
  Callers,        \* goroutines that call Run or RunOneshot
  Nobody,
  Iterations,     \* cycles of a oneshot run: 3
  PeerQueueSize,  \* queue.PeerQueueSize
  NumPeers        \* registered peers

ASSUME CallersAssumption == IsFiniteSet(Callers) /\ Nobody \notin Callers
ASSUME SizesAssumption ==
  Iterations \in Nat \ {0} /\ PeerQueueSize \in Nat \ {0} /\ NumPeers \in Nat

Workers == {"publish", "establish", "ping"}
Controllers == {"publish", "establish"}

VARIABLES
  closed, running, runs,  \* App: flags under App.mu, WaitGroup counter
  closer,    \* Close: "idle", "cancel", "wait", "cleanup", "done"
  resources, \* "open"; "stores" when only the stores are closed; "closed"
  pc,        \* pc[c]: next step of a caller
  cycle,     \* cycles the oneshot run has begun
  runner,    \* the caller inside Daemon.Run or RunOneshot
  ctx,       \* runCtx and what derives from it: "live" or "done"
  worker,    \* worker[w]: "none", "idle", "busy"
  trigger,   \* publish: length of triggerQueue (TriggerQueueSize is 1)
  peerQueue, \* publish: length of peerQueue
  backlog    \* establish: queued lookups

appVars == <<closed, running, runs, closer, resources>>
queues == <<trigger, peerQueue, backlog>>
vars == <<appVars, pc, cycle, runner, ctx, worker, queues>>

TypeOK ==
  /\ closed \in BOOLEAN /\ running \in BOOLEAN
  /\ runs \in 0 .. Cardinality(Callers)
  /\ closer \in {"idle", "cancel", "wait", "cleanup", "done"}
  /\ resources \in {"open", "stores", "closed"}
  /\ pc \in [Callers -> {"out", "bootRun", "bootOneshot", "loop", "publish", "refresh",
                         "complete", "join", "unmark", "finish"}]
  /\ cycle \in 0 .. Iterations
  /\ runner \in Callers \union {Nobody}
  /\ ctx \in {"live", "done"}
  /\ worker \in [Workers -> {"none", "idle", "busy"}]
  /\ trigger \in 0 .. 1 /\ peerQueue \in 0 .. PeerQueueSize /\ backlog \in 0 .. NumPeers

\* New: configuration loaded, everything wired, nothing started.
Init ==
  /\ closed = FALSE /\ running = FALSE /\ runs = 0
  /\ closer = "idle" /\ resources = "open"
  /\ pc = [c \in Callers |-> "out"] /\ cycle = 0
  /\ runner = Nobody /\ ctx = "done"
  /\ worker = [w \in Workers |-> "none"]
  /\ trigger = 0 /\ peerQueue = 0 /\ backlog = 0

Goto(c, label) == pc' = [pc EXCEPT ![c] = label]

-----------------------------------------------------------------------------
(* App.run.                                                                *)

\* The call is admitted; otherwise it returns ErrClosed or ErrAlreadyRunning.
Admit(c, label) ==
  /\ pc[c] = "out" /\ ~closed /\ ~running
  /\ running' = TRUE /\ runs' = runs + 1
  /\ runner' = c /\ cycle' = 0
  /\ ctx' = "live"
  /\ Goto(c, label)
  /\ UNCHANGED <<closed, closer, resources, worker, queues>>

\* The caller's context ends, or Close has cancelled the App's.
Cancel ==
  /\ ctx = "live" /\ runner # Nobody
  /\ ctx' = "done"
  /\ UNCHANGED <<appVars, pc, cycle, runner, worker, queues>>

\* The deferred function: running = false under mu, then runs.Done.
Unmark(c) ==
  /\ pc[c] = "unmark"
  /\ running' = FALSE
  /\ Goto(c, "finish")
  /\ UNCHANGED <<closed, runs, closer, resources, cycle, runner, ctx, worker, queues>>

\* runs.Done is forgotten.
FinishUncounted(c) ==
  /\ pc[c] = "finish"
  /\ Goto(c, "out")
  /\ UNCHANGED <<appVars, cycle, runner, ctx, worker, queues>>

Finish(c) ==
  /\ pc[c] = "finish"
  /\ runs' = runs - 1
  /\ Goto(c, "out")
  /\ UNCHANGED <<closed, running, closer, resources, cycle, runner, ctx, worker, queues>>

-----------------------------------------------------------------------------
(* Triggers.                                                               *)

Bounded(n, size) == IF n < size THEN n + 1 ELSE size

\* publish.Trigger and establish.Trigger: neither blocks.
TriggerBoth == trigger' = Bounded(trigger, 1) /\ backlog' = NumPeers

-----------------------------------------------------------------------------
(* Daemon.Run.                                                             *)

\* bootCtrl.Execute fails for want of privileges; nothing has been started.
BootFails(c) ==
  /\ pc[c] \in {"bootRun", "bootOneshot"}
  /\ ctx' = "done"
  /\ Goto(c, "join")
  /\ UNCHANGED <<appVars, cycle, runner, worker, queues>>

\* Devices and peers are registered, three workers start, both are triggered.
BootRun(c) ==
  /\ pc[c] = "bootRun"
  /\ worker' = [w \in Workers |-> "idle"]
  /\ TriggerBoth
  /\ Goto(c, "loop")
  /\ UNCHANGED <<appVars, cycle, runner, ctx, peerQueue>>

\* The refresh ticker fires.
Refresh(c) ==
  /\ pc[c] = "loop"
  /\ TriggerBoth
  /\ UNCHANGED <<appVars, pc, cycle, runner, ctx, worker, peerQueue>>

LoopEnds(c) ==
  /\ pc[c] = "loop" /\ ctx = "done"
  /\ Goto(c, "join")
  /\ UNCHANGED <<appVars, cycle, runner, ctx, worker, queues>>

\* The wait for the workers forgets the ping monitor.
JoinControllers(c) ==
  /\ pc[c] = "join" /\ \A w \in Controllers : worker[w] = "none"
  /\ runner' = Nobody
  /\ Goto(c, "unmark")
  /\ UNCHANGED <<appVars, cycle, ctx, worker, queues>>

\* d.wg.Wait returns.
Join(c) ==
  /\ pc[c] = "join" /\ \A w \in Workers : worker[w] = "none"
  /\ runner' = Nobody
  /\ Goto(c, "unmark")
  /\ UNCHANGED <<appVars, cycle, ctx, worker, queues>>

-----------------------------------------------------------------------------
(* Daemon.RunOneshot.                                                      *)

\* Only the establish worker is started.
BootOneshot(c) ==
  /\ pc[c] = "bootOneshot"
  /\ worker' = [worker EXCEPT !["establish"] = "idle"]
  /\ cycle' = 1
  /\ Goto(c, "publish")
  /\ UNCHANGED <<appVars, runner, ctx, queues>>

\* publishCtrl.Execute returns, in the caller's goroutine, and 2 seconds pass.
OneshotPublish(c) ==
  /\ pc[c] = "publish"
  /\ Goto(c, "refresh")
  /\ UNCHANGED <<appVars, cycle, runner, ctx, worker, queues>>

\* establish.Trigger, and the pause before the next cycle: the pauses do not
\* look at the context.
OneshotRefresh(c) ==
  /\ pc[c] = "refresh"
  /\ backlog' = NumPeers
  /\ IF cycle < Iterations
       THEN cycle' = cycle + 1 /\ Goto(c, "publish")
       ELSE UNCHANGED cycle /\ Goto(c, "complete")
  /\ UNCHANGED <<appVars, runner, ctx, worker, trigger, peerQueue>>

\* WaitForCompletion does not look at the context.
OneshotCompleteDeaf(c) ==
  /\ pc[c] = "complete"
  /\ backlog = 0 /\ worker["establish"] # "busy"
  /\ ctx' = "done"
  /\ Goto(c, "join")
  /\ UNCHANGED <<appVars, cycle, runner, worker, queues>>

\* WaitForCompletion: nothing queued or active, or the context is done; cancel.
OneshotComplete(c) ==
  /\ pc[c] = "complete"
  /\ ctx = "done" \/ (backlog = 0 /\ worker["establish"] # "busy")
  /\ ctx' = "done"
  /\ Goto(c, "join")
  /\ UNCHANGED <<appVars, cycle, runner, worker, queues>>

-----------------------------------------------------------------------------
(* The workers.                                                            *)

SetWorker(w, state) == worker' = [worker EXCEPT ![w] = state]

\* A worker's select takes ctx.Done; the ping monitor joins its own loops first.
WorkerStops(w) ==
  /\ worker[w] = "idle" /\ ctx = "done"
  /\ SetWorker(w, "none")
  /\ UNCHANGED <<appVars, pc, cycle, runner, ctx, queues>>

\* The worker serves single peers first.
PublishStartsLast ==
  /\ worker["publish"] = "idle" /\ trigger > 0 /\ peerQueue = 0
  /\ trigger' = trigger - 1
  /\ SetWorker("publish", "busy")
  /\ UNCHANGED <<appVars, pc, cycle, runner, ctx, peerQueue, backlog>>

PublishStarts ==
  /\ worker["publish"] = "idle" /\ trigger > 0
  /\ trigger' = trigger - 1
  /\ SetWorker("publish", "busy")
  /\ UNCHANGED <<appVars, pc, cycle, runner, ctx, peerQueue, backlog>>

PublishPeerStarts ==
  /\ worker["publish"] = "idle" /\ peerQueue > 0
  /\ peerQueue' = peerQueue - 1
  /\ SetWorker("publish", "busy")
  /\ UNCHANGED <<appVars, pc, cycle, runner, ctx, trigger, backlog>>

EstablishStarts ==
  /\ worker["establish"] = "idle" /\ backlog > 0
  /\ backlog' = backlog - 1
  /\ SetWorker("establish", "busy")
  /\ UNCHANGED <<appVars, pc, cycle, runner, ctx, trigger, peerQueue>>

\* Execute or ExecuteForPeer returns: 60 or 90 seconds at most.
WorkReturns(w) ==
  /\ worker[w] = "busy"
  /\ SetWorker(w, "idle")
  /\ UNCHANGED <<appVars, pc, cycle, runner, ctx, queues>>

\* The ping monitor finds a peer silent: publish and establish for that peer.
PingTriggers ==
  /\ worker["ping"] = "idle"
  /\ peerQueue' = Bounded(peerQueue, PeerQueueSize)
  /\ backlog' = Bounded(backlog, NumPeers)
  /\ UNCHANGED <<appVars, pc, cycle, runner, ctx, worker, trigger>>

\* The ping monitor has nobody to watch and returns.
PingNothing ==
  /\ worker["ping"] = "idle"
  /\ SetWorker("ping", "none")
  /\ UNCHANGED <<appVars, pc, cycle, runner, ctx, queues>>

-----------------------------------------------------------------------------
(* App.Close; a second call waits for the first.                           *)

CloseBegins ==
  /\ closer = "idle"
  /\ closed' = TRUE
  /\ closer' = "cancel"
  /\ UNCHANGED <<running, runs, resources, pc, cycle, runner, ctx, worker, queues>>

\* a.cancel; a run in flight notices through its AfterFunc, by and by.
CloseCancels ==
  /\ closer = "cancel"
  /\ closer' = "wait"
  /\ UNCHANGED <<closed, running, runs, resources, pc, cycle, runner, ctx, worker, queues>>

\* Close does not wait for the run.
CloseWaitsNot ==
  /\ closer = "wait"
  /\ closer' = "cleanup"
  /\ UNCHANGED <<closed, running, runs, resources, pc, cycle, runner, ctx, worker, queues>>

CloseWaits ==
  /\ closer = "wait" /\ runs = 0
  /\ closer' = "cleanup"
  /\ UNCHANGED <<closed, running, runs, resources, pc, cycle, runner, ctx, worker, queues>>

\* cleanup: the plugin manager, then the WireGuard client with its proxies.
CloseStores ==
  /\ closer = "cleanup" /\ resources = "open"
  /\ resources' = "stores"
  /\ UNCHANGED <<closed, running, runs, closer, pc, cycle, runner, ctx, worker, queues>>

CloseClient ==
  /\ closer = "cleanup" /\ resources = "stores"
  /\ resources' = "closed"
  /\ closer' = "done"
  /\ UNCHANGED <<closed, running, runs, pc, cycle, runner, ctx, worker, queues>>

-----------------------------------------------------------------------------
RunNext(c) ==
  \/ Admit(c, "bootRun") \/ Admit(c, "bootOneshot") \/ BootFails(c)
  \/ BootRun(c) \/ Refresh(c) \/ LoopEnds(c)
  \/ BootOneshot(c) \/ OneshotPublish(c) \/ OneshotRefresh(c) \/ OneshotComplete(c)
  \/ Join(c) \/ Unmark(c) \/ Finish(c)

WorkerNext ==
  \/ \E w \in Workers : WorkerStops(w)
  \/ \E w \in Controllers : WorkReturns(w)
  \/ PublishStarts \/ PublishPeerStarts \/ EstablishStarts
  \/ PingTriggers \/ PingNothing

CloseNext == CloseBegins \/ CloseCancels \/ CloseWaits \/ CloseStores \/ CloseClient

Next == (\E c \in Callers : RunNext(c)) \/ Cancel \/ WorkerNext \/ CloseNext

Spec == Init /\ [][Next]_vars

\* Goroutines run on and every blocking call has a deadline.  Go's select picks at
\* random among the ready cases, so a case that is ready again and again is taken
\* in the end: strong fairness.  Nobody has to call Run or Close or to cancel, and
\* the App's own cancellation reaches the run.
Fairness ==
  /\ \A c \in Callers :
       /\ WF_vars(BootFails(c) \/ BootRun(c) \/ BootOneshot(c))
       /\ SF_vars(LoopEnds(c))
       /\ WF_vars(OneshotPublish(c)) /\ WF_vars(OneshotRefresh(c)) /\ WF_vars(OneshotComplete(c))
       /\ WF_vars(Join(c)) /\ WF_vars(Unmark(c)) /\ WF_vars(Finish(c))
  /\ \A w \in Workers : SF_vars(WorkerStops(w))
  /\ \A w \in Controllers : WF_vars(WorkReturns(w))
  /\ SF_vars(PublishStarts) /\ SF_vars(EstablishStarts)
  /\ WF_vars(closer = "wait" /\ Cancel)
  /\ WF_vars(CloseCancels) /\ WF_vars(CloseWaits) /\ WF_vars(CloseStores) /\ WF_vars(CloseClient)

FairSpec == Spec /\ Fairness

-----------------------------------------------------------------------------
(* Properties.                                                             *)

\* c executes the daemon's Run or RunOneshot.
Inside(c) == pc[c] \notin {"out", "unmark", "finish"}

\* Close releases the stores and the WireGuard client only when no run is under
\* way and no worker, ping loop or lookup that could use them is left, whatever
\* calls of Run race it.
NoUseAfterCleanup ==
  resources # "open" =>
    /\ \A c \in Callers : pc[c] = "out"
    /\ \A w \in Workers : worker[w] = "none"

\* Workers belong to the run that started them: when Run or RunOneshot returns,
\* also after a failed boot, none of them is left to meet those of the next run.
NoWorkerOutlivesItsRun ==
  (\E w \in Workers : worker[w] # "none") => runner # Nobody /\ Inside(runner)

\* At most one Run or RunOneshot is inside the daemon, although running is reset
\* before runs.Done and a new run may be admitted between the two.
OneRunAtATime == \A c, d \in Callers : Inside(c) /\ Inside(d) => c = d

\* Close returns, in every mode and at whatever point it meets a run.
CloseReturns == closer = "cancel" ~> closer = "done"

\* A run whose context is done returns.
CancelledRunReturns ==
  \A c \in Callers : Inside(c) /\ ctx = "done" ~> ~Inside(c)

\* A refresh is published while the run lasts, even if the ping monitor floods
\* the publish worker with single peers.
RefreshIsPublished == trigger = 1 /\ worker["publish"] # "none" ~> trigger = 0 \/ ctx = "done"
=============================================================================
