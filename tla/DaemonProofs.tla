---------------------------- MODULE DaemonProofs ----------------------------
(***************************************************************************)
(* Proofs about Daemon, for any finite set of callers and all sizes.       *)
(***************************************************************************)
EXTENDS Daemon, FiniteSetTheorems, TLAPS

\* The callers that App.runs counts.
Counted == {c \in Callers : pc[c] # "out"}

RunsAreCounted == runs = Cardinality(Counted)

\* running and runner say who is inside; the workers are the runner's, and it has
\* left its boot.
RunIsAlone ==
  /\ \A c \in Callers : Inside(c) <=> runner = c
  /\ \A c \in Callers : pc[c] \notin {"out", "finish"} => running
  /\ \A c, d \in Callers :
       pc[c] \notin {"out", "finish"} /\ pc[d] \notin {"out", "finish"} => c = d
  /\ \A w \in Workers : worker[w] # "none" =>
       runner # Nobody /\ pc[runner] \notin {"bootRun", "bootOneshot"}

\* Close refuses new runs before it waits for the admitted ones.
CloseIsOrdered ==
  /\ closed <=> closer # "idle"
  /\ closer \in {"cleanup", "done"} => Counted = {}
  /\ resources # "open" => closer \in {"cleanup", "done"}

IInv == TypeOK /\ RunsAreCounted /\ RunIsAlone /\ CloseIsOrdered

\* The set of counted callers is finite and bounded by the callers.
LEMMA CountedIsFinite ==
  ASSUME TypeOK
  PROVE  /\ IsFiniteSet(Counted) /\ Cardinality(Counted) \in Nat
         /\ Cardinality(Counted) <= Cardinality(Callers) /\ Cardinality(Callers) \in Nat
<1>1. Counted \subseteq Callers
  BY DEF Counted
<1> QED
  BY <1>1, CallersAssumption, FS_Subset, FS_CardinalityType

\* New starts nothing.
LEMMA InitSound == Init => IInv
<1> SUFFICES ASSUME Init PROVE IInv
  OBVIOUS
<1>1. Counted = {} /\ Cardinality(Counted) = 0
  BY FS_EmptySet DEF Init, Counted
<1>0. Cardinality(Callers) \in Nat
  BY CallersAssumption, FS_CardinalityType
<1>2. TypeOK
  <2>1. /\ runs \in 0 .. Cardinality(Callers) /\ cycle \in 0 .. Iterations
        /\ trigger \in 0 .. 1 /\ peerQueue \in 0 .. PeerQueueSize /\ backlog \in 0 .. NumPeers
    BY <1>0, SizesAssumption DEF Init
  <2>2. /\ pc \in [Callers -> {"out"}]
        /\ worker \in [Workers -> {"none", "idle", "busy"}]
    BY DEF Init
  <2> QED
    BY <2>1, <2>2 DEF Init, TypeOK
<1>3. RunsAreCounted
  BY <1>1 DEF Init, RunsAreCounted
<1>4. RunIsAlone
  BY CallersAssumption DEF Init, RunIsAlone, Inside
<1>5. CloseIsOrdered
  BY <1>1 DEF Init, CloseIsOrdered
<1> QED
  BY <1>2, <1>3, <1>4, <1>5 DEF IInv

\* App.run admits a caller and counts it.
LEMMA AdmitStep ==
  ASSUME IInv, NEW c \in Callers, NEW label \in {"bootRun", "bootOneshot"}, Admit(c, label)
  PROVE  IInv'
<1>1. Counted' = Counted \union {c} /\ c \notin Counted
  BY DEF Counted, Admit, Goto, IInv, TypeOK
<1>2. Cardinality(Counted') = Cardinality(Counted) + 1
  BY <1>1, CountedIsFinite, FS_AddElement DEF IInv
<1>3. Counted' \subseteq Callers
  BY DEF Counted
<1>4. Cardinality(Counted') <= Cardinality(Callers)
  BY <1>3, CallersAssumption, FS_Subset
<1>5. TypeOK'
  BY <1>2, <1>4, CountedIsFinite, SizesAssumption
     DEF Admit, Goto, IInv, TypeOK, RunsAreCounted, queues
<1>6. RunsAreCounted'
  BY <1>2 DEF Admit, IInv, RunsAreCounted
<1>7. RunIsAlone'
  BY CallersAssumption DEF Admit, Goto, IInv, TypeOK, RunIsAlone, Inside
<1>8. CloseIsOrdered'
  BY DEF Admit, IInv, TypeOK, CloseIsOrdered
<1> QED
  BY <1>5, <1>6, <1>7, <1>8 DEF IInv

\* runs.Done: the caller is counted no more.
LEMMA FinishStep ==
  ASSUME IInv, NEW c \in Callers, Finish(c)
  PROVE  IInv'
<1>1. Counted' = Counted \ {c} /\ c \in Counted
  BY DEF Counted, Finish, Goto, IInv, TypeOK
<1>2. Cardinality(Counted') = Cardinality(Counted) - 1
  BY <1>1, CountedIsFinite, FS_RemoveElement DEF IInv
<1>3. Cardinality(Counted) # 0
  BY <1>1, CountedIsFinite, FS_EmptySet DEF IInv
<1>4. TypeOK'
  BY <1>3, CountedIsFinite DEF Finish, Goto, IInv, TypeOK, RunsAreCounted, queues
<1>5. RunsAreCounted'
  BY <1>2 DEF Finish, IInv, RunsAreCounted
<1>6. RunIsAlone'
  BY CallersAssumption DEF Finish, Goto, IInv, TypeOK, RunIsAlone, Inside
<1>7. CloseIsOrdered'
  BY <1>1 DEF Finish, IInv, TypeOK, CloseIsOrdered
<1> QED
  BY <1>4, <1>5, <1>6, <1>7 DEF IInv

\* running is reset; the caller stays counted.
LEMMA UnmarkStep ==
  ASSUME IInv, NEW c \in Callers, Unmark(c)
  PROVE  IInv'
<1>1. Counted' = Counted
  BY DEF Counted, Unmark, Goto, IInv, TypeOK
<1>2. TypeOK'
  BY SizesAssumption DEF Unmark, Goto, IInv, TypeOK, appVars, queues
<1>3. RunsAreCounted'
  BY <1>1 DEF Unmark, IInv, RunsAreCounted, appVars
<1>4. RunIsAlone'
  BY CallersAssumption DEF Unmark, Goto, IInv, TypeOK, RunIsAlone, Inside, Workers, appVars
<1>5. CloseIsOrdered'
  BY <1>1 DEF Unmark, IInv, TypeOK, CloseIsOrdered, appVars
<1> QED
  BY <1>2, <1>3, <1>4, <1>5 DEF IInv

\* Booting starts workers or fails.
LEMMA BootStep ==
  ASSUME IInv, NEW c \in Callers, BootFails(c) \/ BootRun(c) \/ BootOneshot(c)
  PROVE  IInv'
<1>1. Counted' = Counted
  BY DEF Counted, BootFails, BootRun, BootOneshot, TriggerBoth, Bounded, Goto, IInv, TypeOK
<1>2. TypeOK'
  BY SizesAssumption
     DEF BootFails, BootRun, BootOneshot, TriggerBoth, Bounded, Goto, IInv, TypeOK, appVars,
         queues
<1>3. RunsAreCounted'
  BY <1>1
     DEF BootFails, BootRun, BootOneshot, TriggerBoth, Bounded, IInv, RunsAreCounted,
         appVars
<1>4. RunIsAlone'
  BY CallersAssumption
     DEF BootFails, BootRun, BootOneshot, TriggerBoth, Bounded, Goto, IInv, TypeOK,
         RunIsAlone, Inside, Workers, appVars
<1>5. CloseIsOrdered'
  BY <1>1
     DEF BootFails, BootRun, BootOneshot, TriggerBoth, Bounded, IInv, TypeOK,
         CloseIsOrdered, appVars
<1> QED
  BY <1>2, <1>3, <1>4, <1>5 DEF IInv

\* The loops of Run and RunOneshot.
LEMMA LoopStep ==
  ASSUME IInv, NEW c \in Callers, Refresh(c) \/ LoopEnds(c) \/ OneshotPublish(c) \/
         OneshotRefresh(c) \/ OneshotComplete(c)
  PROVE  IInv'
<1>1. Counted' = Counted
  BY
     DEF Counted, Refresh, LoopEnds, OneshotPublish, OneshotRefresh, OneshotComplete,
         TriggerBoth, Bounded, Goto, IInv, TypeOK
<1>2. TypeOK'
  BY SizesAssumption
     DEF Refresh, LoopEnds, OneshotPublish, OneshotRefresh, OneshotComplete, TriggerBoth,
         Bounded, Goto, IInv, TypeOK, appVars, queues
<1>3. RunsAreCounted'
  BY <1>1
     DEF Refresh, LoopEnds, OneshotPublish, OneshotRefresh, OneshotComplete, TriggerBoth,
         Bounded, IInv, RunsAreCounted, appVars
<1>4. RunIsAlone'
  BY CallersAssumption
     DEF Refresh, LoopEnds, OneshotPublish, OneshotRefresh, OneshotComplete, TriggerBoth,
         Bounded, Goto, IInv, TypeOK, RunIsAlone, Inside, Workers, appVars
<1>5. CloseIsOrdered'
  BY <1>1
     DEF Refresh, LoopEnds, OneshotPublish, OneshotRefresh, OneshotComplete, TriggerBoth,
         Bounded, IInv, TypeOK, CloseIsOrdered, appVars
<1> QED
  BY <1>2, <1>3, <1>4, <1>5 DEF IInv

\* The run leaves when its workers have.
LEMMA JoinStep ==
  ASSUME IInv, NEW c \in Callers, Join(c)
  PROVE  IInv'
<1>1. Counted' = Counted
  BY DEF Counted, Join, Goto, IInv, TypeOK
<1>2. TypeOK'
  BY SizesAssumption DEF Join, Goto, IInv, TypeOK, appVars, queues
<1>3. RunsAreCounted'
  BY <1>1 DEF Join, IInv, RunsAreCounted, appVars
<1>4. RunIsAlone'
  BY CallersAssumption DEF Join, Goto, IInv, TypeOK, RunIsAlone, Inside, Workers, appVars
<1>5. CloseIsOrdered'
  BY <1>1 DEF Join, IInv, TypeOK, CloseIsOrdered, appVars
<1> QED
  BY <1>2, <1>3, <1>4, <1>5 DEF IInv

\* The workers start, serve and stop.
LEMMA WorkerStep ==
  ASSUME IInv, WorkerNext
  PROVE  IInv'
<1>1. Counted' = Counted
  BY
     DEF Counted, WorkerNext, WorkerStops, WorkReturns, PublishStarts, PublishPeerStarts,
         EstablishStarts, PingTriggers, PingNothing, SetWorker, Bounded, Controllers, Goto,
         IInv, TypeOK
<1>2. TypeOK'
  BY SizesAssumption
     DEF WorkerNext, WorkerStops, WorkReturns, PublishStarts, PublishPeerStarts,
         EstablishStarts, PingTriggers, PingNothing, SetWorker, Bounded, Controllers, Goto,
         IInv, TypeOK, appVars, queues
<1>3. RunsAreCounted'
  BY <1>1
     DEF WorkerNext, WorkerStops, WorkReturns, PublishStarts, PublishPeerStarts,
         EstablishStarts, PingTriggers, PingNothing, SetWorker, Bounded, Controllers, IInv,
         RunsAreCounted, appVars
<1>4. RunIsAlone'
  BY CallersAssumption
     DEF WorkerNext, WorkerStops, WorkReturns, PublishStarts, PublishPeerStarts,
         EstablishStarts, PingTriggers, PingNothing, SetWorker, Bounded, Controllers, Goto,
         IInv, TypeOK, RunIsAlone, Inside, Workers, appVars
<1>5. CloseIsOrdered'
  BY <1>1
     DEF WorkerNext, WorkerStops, WorkReturns, PublishStarts, PublishPeerStarts,
         EstablishStarts, PingTriggers, PingNothing, SetWorker, Bounded, Controllers, IInv,
         TypeOK, CloseIsOrdered, appVars
<1> QED
  BY <1>2, <1>3, <1>4, <1>5 DEF IInv

\* The context ends, or nothing happens.
LEMMA CancelStep ==
  ASSUME IInv, Cancel \/ UNCHANGED vars
  PROVE  IInv'
<1>1. Counted' = Counted
  BY DEF Counted, Cancel, vars, Goto, IInv, TypeOK
<1>2. TypeOK'
  BY SizesAssumption DEF Cancel, vars, Goto, IInv, TypeOK, appVars, queues
<1>3. RunsAreCounted'
  BY <1>1 DEF Cancel, vars, IInv, RunsAreCounted, appVars
<1>4. RunIsAlone'
  BY CallersAssumption
     DEF Cancel, vars, Goto, IInv, TypeOK, RunIsAlone, Inside, Workers, appVars
<1>5. CloseIsOrdered'
  BY <1>1 DEF Cancel, vars, IInv, TypeOK, CloseIsOrdered, appVars
<1> QED
  BY <1>2, <1>3, <1>4, <1>5 DEF IInv

\* Close goes through its steps; it waits until nobody is counted.
LEMMA CloseStep ==
  ASSUME IInv, CloseNext
  PROVE  IInv'
<1> USE DEF CloseNext, CloseBegins, CloseCancels, CloseWaits, CloseStores, CloseClient
<1>1. Counted' = Counted
  BY DEF Counted
<1>2. TypeOK'
  BY DEF IInv, TypeOK, queues
<1>3. RunsAreCounted'
  BY <1>1 DEF IInv, RunsAreCounted
<1>4. RunIsAlone'
  BY DEF IInv, RunIsAlone, Inside
<1>5. CloseWaits => Counted = {}
  BY CountedIsFinite, FS_EmptySet DEF IInv, RunsAreCounted
<1>6. CloseIsOrdered'
  BY <1>1, <1>5 DEF IInv, TypeOK, CloseIsOrdered
<1> QED
  BY <1>2, <1>3, <1>4, <1>6 DEF IInv

\* Every step keeps the invariant.
LEMMA NextStep == IInv /\ [Next]_vars => IInv'
<1> SUFFICES ASSUME IInv, [Next]_vars PROVE IInv'
  OBVIOUS
<1>1. ASSUME NEW c \in Callers, RunNext(c) PROVE IInv'
  BY <1>1, AdmitStep, UnmarkStep, FinishStep, BootStep, LoopStep, JoinStep DEF RunNext
<1> QED
  BY <1>1, CancelStep, WorkerStep, CloseStep DEF Next

\* The invariant holds in every state.
LEMMA Inductive == Spec => []IInv
BY InitSound, NextStep, PTL DEF Spec

\* App, daemon and workers keep their types; runs never goes below zero.
THEOREM TypeCorrect == Spec => []TypeOK
<1>1. IInv => TypeOK
  BY DEF IInv
<1> QED
  BY <1>1, Inductive, PTL

\* Close releases nothing that a run or a worker still uses.
THEOREM CleanupIsLast == Spec => []NoUseAfterCleanup
<1>1. ASSUME IInv PROVE NoUseAfterCleanup
  <2>1. CASE resources = "open"
    BY <2>1 DEF NoUseAfterCleanup
  <2>2. CASE resources # "open"
    <3>1. Counted = {}
      BY <1>1, <2>2 DEF IInv, CloseIsOrdered
    <3>2. \A c \in Callers : pc[c] = "out"
      BY <3>1 DEF Counted
    <3>3. \A w \in Workers : worker[w] = "none"
      BY <1>1, <3>2 DEF IInv, TypeOK, RunIsAlone, Inside
    <3> QED
      BY <3>2, <3>3 DEF NoUseAfterCleanup
  <2> QED
    BY <2>1, <2>2
<1> QED
  BY <1>1, Inductive, PTL

\* When Run or RunOneshot returns, none of its workers is left.
THEOREM WorkersAreJoined == Spec => []NoWorkerOutlivesItsRun
<1>1. ASSUME IInv PROVE NoWorkerOutlivesItsRun
  BY <1>1 DEF IInv, TypeOK, RunIsAlone, NoWorkerOutlivesItsRun
<1> QED
  BY <1>1, Inductive, PTL

\* App.run admits one run at a time.
THEOREM RunsExclude == Spec => []OneRunAtATime
<1>1. ASSUME IInv PROVE OneRunAtATime
  BY <1>1 DEF IInv, RunIsAlone, OneRunAtATime
<1> QED
  BY <1>1, Inductive, PTL

-----------------------------------------------------------------------------
(* Why Close and a cancelled run return: nobody is stuck, and every step of *)
(* a run brings its end nearer.                                             *)

\* A run joins its workers only when their context is done, and the ping monitor
\* never blocks in a lookup.
JoinIsCancelled ==
  /\ \A c \in Callers : pc[c] = "join" => ctx = "done"
  /\ worker["ping"] # "busy"

\* While Close waits for an admitted run, something it waits for can go on: a caller
\* with a step that nothing holds up; a live context, which Close's cancellation
\* ends; a loop or a WaitForCompletion whose context is done; or a join with no
\* worker left, with an idle worker that sees the context done, or with a lookup
\* or publication under way, which returns.
SomeoneGoesOn ==
  closer = "wait" /\ runs # 0 =>
    \/ \E c \in Callers : pc[c] \in {"bootRun", "bootOneshot", "publish", "refresh",
                                     "unmark", "finish"}
    \/ ctx = "live" /\ runner # Nobody
    \/ ctx = "done" /\ \E c \in Callers : pc[c] \in {"loop", "complete"}
    \/ /\ ctx = "done" /\ \E c \in Callers : pc[c] = "join"
       /\ \/ \A w \in Workers : worker[w] = "none"
          \/ \E w \in Workers : worker[w] = "idle"
          \/ \E w \in Controllers : worker[w] = "busy"

\* The steps a caller has left until Run or RunOneshot returns, refreshes not counted.
StepsLeft(c) ==
  CASE pc[c] = "bootOneshot" -> 2 * Iterations + 5
    [] pc[c] = "publish" -> 2 * (Iterations - cycle) + 6
    [] pc[c] = "refresh" -> 2 * (Iterations - cycle) + 5
    [] pc[c] = "bootRun" -> 5
    [] pc[c] \in {"complete", "loop"} -> 4
    [] pc[c] = "join" -> 3
    [] pc[c] = "unmark" -> 2
    [] pc[c] = "finish" -> 1
    [] OTHER -> 0

\* What a step does to one caller: one that is out stays out once Close has begun,
\* one that is admitted stays where it is or comes nearer to its return, and no
\* step of another caller, of a worker or of Close takes it back.
Advances(c) ==
  /\ StepsLeft(c) \in Nat
  /\ \/ pc[c] = "out" /\ (closed => pc'[c] = "out") /\ StepsLeft(c)' <= 2 * Iterations + 5
     \/ pc[c] # "out" /\ pc'[c] = pc[c] /\ StepsLeft(c)' = StepsLeft(c)
     \/ pc[c] # "out" /\ StepsLeft(c)' < StepsLeft(c)

RunsOnlyAdvance == [][\A c \in Callers : Advances(c)]_vars

\* A step of a run keeps JoinIsCancelled: only an admission makes the context live,
\* and no run is at its join then.
LEMMA RunKeepsJoin ==
  ASSUME IInv, JoinIsCancelled, NEW c \in Callers, RunNext(c)
  PROVE  JoinIsCancelled'
<1> USE DEF Goto, IInv, TypeOK
<1>1. CASE Admit(c, "bootRun") \/ Admit(c, "bootOneshot")
  <2>1. \A d \in Callers : pc[d] # "join"
    BY <1>1 DEF Admit, RunIsAlone
  <2> QED
    BY <1>1, <2>1 DEF Admit, JoinIsCancelled
<1>2. CASE BootFails(c) \/ LoopEnds(c) \/ OneshotComplete(c)
  BY <1>2 DEF BootFails, LoopEnds, OneshotComplete, JoinIsCancelled
<1>3. CASE BootRun(c) \/ BootOneshot(c)
  BY <1>3 DEF BootRun, BootOneshot, JoinIsCancelled, Workers
<1>4. CASE Refresh(c) \/ OneshotPublish(c) \/ OneshotRefresh(c)
  BY <1>4 DEF Refresh, OneshotPublish, OneshotRefresh, JoinIsCancelled
<1>5. CASE Join(c) \/ Unmark(c) \/ Finish(c)
  BY <1>5 DEF Join, Unmark, Finish, JoinIsCancelled
<1> QED
  BY <1>1, <1>2, <1>3, <1>4, <1>5 DEF RunNext

\* Every step keeps JoinIsCancelled.
LEMMA NextKeepsJoin == IInv /\ JoinIsCancelled /\ [Next]_vars => JoinIsCancelled'
<1> SUFFICES ASSUME IInv, JoinIsCancelled, [Next]_vars PROVE JoinIsCancelled'
  OBVIOUS
<1>1. ASSUME NEW c \in Callers, RunNext(c) PROVE JoinIsCancelled'
  BY <1>1, RunKeepsJoin
<1>2. CASE WorkerNext
  BY <1>2 DEF WorkerNext, WorkerStops, WorkReturns, PublishStarts, PublishPeerStarts,
     EstablishStarts, PingTriggers, PingNothing, SetWorker, Workers, Controllers,
     JoinIsCancelled, IInv, TypeOK
<1>3. CASE Cancel \/ UNCHANGED vars
  BY <1>3 DEF Cancel, vars, JoinIsCancelled
<1>4. CASE CloseNext
  BY <1>4 DEF CloseNext, CloseBegins, CloseCancels, CloseWaits, CloseStores, CloseClient,
     JoinIsCancelled
<1> QED
  BY <1>1, <1>2, <1>3, <1>4 DEF Next

\* The safety core of CloseReturns: while Close waits, what it waits for is never
\* stuck, whichever mode and whichever point of it Close meets.
THEOREM CloseIsNeverStuck == Spec => []SomeoneGoesOn
<1>1. Init => JoinIsCancelled
  BY DEF Init, JoinIsCancelled, Workers
<1>2. ASSUME IInv, JoinIsCancelled, closer = "wait", runs # 0 PROVE SomeoneGoesOn
  <2>1. PICK c \in Callers : pc[c] # "out"
    BY <1>2, CountedIsFinite, FS_EmptySet DEF IInv, RunsAreCounted, Counted
  <2>2. ~Inside(c) => pc[c] \in {"unmark", "finish"}
    BY <2>1 DEF Inside
  <2>3. Inside(c) => runner = c /\ runner # Nobody
    BY <1>2, CallersAssumption DEF IInv, RunIsAlone
  <2>4. ctx \in {"live", "done"} /\ \A w \in Workers : worker[w] \in {"none", "idle", "busy"}
    BY <1>2 DEF IInv, TypeOK
  <2>5. \A w \in Workers : worker[w] = "busy" => w \in Controllers
    BY <1>2 DEF JoinIsCancelled, Workers, Controllers
  <2>6. pc[c] \in {"out", "bootRun", "bootOneshot", "loop", "publish", "refresh",
                   "complete", "join", "unmark", "finish"}
    BY <1>2 DEF IInv, TypeOK
  <2>7. CASE pc[c] = "join"
    BY <1>2, <2>4, <2>5, <2>7 DEF JoinIsCancelled, SomeoneGoesOn
  <2>8. CASE pc[c] \in {"loop", "complete"}
    BY <2>3, <2>4, <2>8 DEF Inside, SomeoneGoesOn
  <2> QED
    BY <2>1, <2>6, <2>7, <2>8 DEF SomeoneGoesOn
<1>3. IInv /\ JoinIsCancelled => SomeoneGoesOn
  BY <1>2 DEF SomeoneGoesOn
<1> QED
  BY <1>1, <1>3, NextKeepsJoin, Inductive, PTL DEF Spec

\* Every caller is so many steps from its return, and only the oneshot mode's
\* cycles enter into it.
LEMMA StepsAreCounted ==
  ASSUME TypeOK, NEW c \in Callers
  PROVE  StepsLeft(c) \in Nat
<1>1. Iterations \in Nat /\ cycle \in Nat /\ cycle <= Iterations
  BY SizesAssumption DEF TypeOK
<1> QED
  BY <1>1 DEF StepsLeft

\* Whoever is left alone, by a step that leaves the oneshot cycle alone or is taken by
\* another caller than the runner, keeps its distance.
LEMMA LeftAlone ==
  ASSUME IInv, [Next]_vars, NEW c \in Callers, pc'[c] = pc[c],
         cycle' = cycle \/ pc[c] \notin {"publish", "refresh"}
  PROVE  Advances(c)
<1>1. StepsLeft(c)' = StepsLeft(c)
  BY DEF StepsLeft
<1>2. StepsLeft(c) \in Nat
  BY StepsAreCounted DEF IInv
<1>3. pc[c] = "out" => StepsLeft(c) = 0
  BY DEF StepsLeft
<1>4. 0 <= 2 * Iterations + 5
  BY SizesAssumption
<1> QED
  BY <1>1, <1>2, <1>3, <1>4 DEF Advances

\* A step of a run: its own caller is admitted or advances, the others are left alone.
LEMMA RunAdvances ==
  ASSUME IInv, NEW c \in Callers, RunNext(c), NEW d \in Callers
  PROVE  Advances(d)
<1>0. [Next]_vars
  BY DEF Next
<1>1. CASE d # c
  <2>1. pc'[d] = pc[d]
    BY <1>1 DEF RunNext, Admit, BootFails, BootRun, Refresh, LoopEnds, BootOneshot,
       OneshotPublish, OneshotRefresh, OneshotComplete, Join, Unmark, Finish, Goto, IInv,
       TypeOK
  <2>2. cycle' = cycle \/ pc[d] \notin {"publish", "refresh"}
    <3>1. Admit(c, "bootRun") \/ Admit(c, "bootOneshot") =>
            pc[d] \notin {"publish", "refresh"}
      BY DEF Admit, IInv, RunIsAlone
    <3>2. BootOneshot(c) \/ OneshotRefresh(c) => pc[d] \notin {"publish", "refresh"}
      BY <1>1 DEF BootOneshot, OneshotRefresh, IInv, RunIsAlone
    <3> QED
      BY <3>1, <3>2 DEF RunNext, BootFails, BootRun, Refresh, LoopEnds, OneshotPublish,
         OneshotComplete, Join, Unmark, Finish
  <2> QED
    BY <1>0, <2>1, <2>2, LeftAlone
<1>2. CASE d = c
  <2> USE <1>2
  <2>0. /\ Iterations \in Nat \ {0} /\ cycle \in Nat /\ cycle <= Iterations
        /\ pc \in [Callers -> {"out", "bootRun", "bootOneshot", "loop", "publish", "refresh",
                               "complete", "join", "unmark", "finish"}]
        /\ StepsLeft(c) \in Nat
    BY SizesAssumption, StepsAreCounted DEF IInv, TypeOK
  <2>1. CASE Refresh(c)
    BY <1>0, <2>1, LeftAlone DEF Refresh
  <2>2. CASE Admit(c, "bootRun") \/ Admit(c, "bootOneshot")
    <3>1. pc[c] = "out" /\ ~closed /\ pc'[c] \in {"bootRun", "bootOneshot"}
      BY <2>0, <2>2 DEF Admit, Goto
    <3>2. StepsLeft(c)' <= 2 * Iterations + 5
      BY <2>0, <3>1 DEF StepsLeft
    <3> QED
      BY <2>0, <3>1, <3>2 DEF Advances
  <2>3. CASE BootFails(c) \/ BootRun(c)
    <3>1. pc[c] \in {"bootRun", "bootOneshot"} /\ pc'[c] \in {"join", "loop"}
      BY <2>0, <2>3 DEF BootFails, BootRun, Goto
    <3>2. StepsLeft(c) >= 5 /\ StepsLeft(c)' <= 4 /\ StepsLeft(c)' \in Nat
      BY <2>0, <3>1 DEF StepsLeft
    <3> QED
      BY <2>0, <3>1, <3>2 DEF Advances
  <2>4. CASE BootOneshot(c)
    <3>1. pc[c] = "bootOneshot" /\ pc'[c] = "publish" /\ cycle' = 1
      BY <2>0, <2>4 DEF BootOneshot, Goto
    <3>2. StepsLeft(c) = 2 * Iterations + 5 /\ StepsLeft(c)' = 2 * (Iterations - 1) + 6
      BY <2>0, <3>1 DEF StepsLeft
    <3> QED
      BY <2>0, <3>1, <3>2 DEF Advances
  <2>5. CASE OneshotPublish(c)
    <3>1. pc[c] = "publish" /\ pc'[c] = "refresh" /\ cycle' = cycle
      BY <2>0, <2>5 DEF OneshotPublish, Goto
    <3>2. StepsLeft(c)' = StepsLeft(c) - 1
      BY <2>0, <3>1 DEF StepsLeft
    <3> QED
      BY <2>0, <3>1, <3>2 DEF Advances
  <2>6. CASE OneshotRefresh(c)
    <3>1. CASE cycle < Iterations
      <4>1. pc[c] = "refresh" /\ pc'[c] = "publish" /\ cycle' = cycle + 1
        BY <2>0, <2>6, <3>1 DEF OneshotRefresh, Goto
      <4>2. /\ StepsLeft(c) = 2 * (Iterations - cycle) + 5
            /\ StepsLeft(c)' = 2 * (Iterations - (cycle + 1)) + 6
        BY <2>0, <4>1 DEF StepsLeft
      <4> QED
        BY <2>0, <4>1, <4>2 DEF Advances
    <3>2. CASE ~(cycle < Iterations)
      <4>1. pc[c] = "refresh" /\ pc'[c] = "complete"
        BY <2>0, <2>6, <3>2 DEF OneshotRefresh, Goto
      <4>2. StepsLeft(c) = 5 /\ StepsLeft(c)' = 4
        BY <2>0, <3>2, <4>1 DEF StepsLeft
      <4> QED
        BY <2>0, <4>1, <4>2 DEF Advances
    <3> QED
      BY <3>1, <3>2
  <2>7. CASE LoopEnds(c) \/ OneshotComplete(c)
    <3>1. pc[c] \in {"loop", "complete"} /\ pc'[c] = "join"
      BY <2>0, <2>7 DEF LoopEnds, OneshotComplete, Goto
    <3>2. StepsLeft(c) = 4 /\ StepsLeft(c)' = 3
      BY <3>1 DEF StepsLeft
    <3> QED
      BY <2>0, <3>1, <3>2 DEF Advances
  <2>8. CASE Join(c) \/ Unmark(c) \/ Finish(c)
    <3>1. \/ pc[c] = "join" /\ pc'[c] = "unmark"
          \/ pc[c] = "unmark" /\ pc'[c] = "finish"
          \/ pc[c] = "finish" /\ pc'[c] = "out"
      BY <2>0, <2>8 DEF Join, Unmark, Finish, Goto
    <3>2. StepsLeft(c)' = StepsLeft(c) - 1
      BY <3>1 DEF StepsLeft
    <3> QED
      BY <2>0, <3>1, <3>2 DEF Advances
  <2> QED
    BY <2>1, <2>2, <2>3, <2>4, <2>5, <2>6, <2>7, <2>8 DEF RunNext
<1> QED
  BY <1>1, <1>2

\* The other half of CloseReturns and CancelledRunReturns: a run never goes back, so
\* it has at most 2 * Iterations + 5 steps of its own besides its refreshes, and once
\* Close has begun no caller enters, so the runs it waits for only grow fewer.
THEOREM RunsAdvance == Spec => RunsOnlyAdvance
<1>1. ASSUME IInv, [Next]_vars PROVE \A c \in Callers : Advances(c)
  <2>1. ASSUME NEW d \in Callers, RunNext(d) PROVE \A c \in Callers : Advances(c)
    BY <1>1, <2>1, RunAdvances
  <2>2. CASE Cancel \/ WorkerNext \/ CloseNext \/ UNCHANGED vars
    <3>1. pc' = pc /\ cycle' = cycle
      BY <2>2 DEF Cancel, WorkerNext, WorkerStops, WorkReturns, PublishStarts,
         PublishPeerStarts, EstablishStarts, PingTriggers, PingNothing, CloseNext,
         CloseBegins, CloseCancels, CloseWaits, CloseStores, CloseClient, vars
    <3> QED
      BY <1>1, <3>1, LeftAlone
  <2> QED
    BY <1>1, <2>1, <2>2 DEF Next
<1>2. IInv /\ [Next]_vars => [\A c \in Callers : Advances(c)]_vars
  BY <1>1
<1> QED
  BY <1>2, Inductive, PTL DEF Spec, RunsOnlyAdvance
=============================================================================
