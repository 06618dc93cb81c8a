---------------------------- MODULE RuntimeLemmas ----------------------------
(***************************************************************************)
(* The invariant of a running subscription (module Runtime) and, for every   *)
(* action, that it keeps the invariant and the promise of DeliveryPromise.   *)
(* Of the scheduler only Accounted and Moves (module Places) are used;       *)
(* RuntimeProofs proves these and draws the conclusions.                     *)
(***************************************************************************)
EXTENDS Runtime, Places, TLAPS

(* Steps are first-order unless they cite the SMT solver; each prover has    *)
(* thirty seconds for a step.                                                *)
USE ZenonT(30)

-----------------------------------------------------------------------------
(* The inductive invariant.                                                  *)

LoopTypes ==
  /\ pc \in PCs
  /\ task \in [Ids -> Tasks]
  /\ fate \in [Ids -> {"unreceived", "held", "acked", "dropped", "failed"}]
  /\ keyOf \in [Ids -> MaybeKey]
  /\ failure \in BOOLEAN /\ shutdown \in BOOLEAN
  /\ result \in {"none", "ok", "failed"}

(* distribute knows the keys the source delivers.                            *)
KeysKnown ==
  /\ \A d \in 1..received : keyOf[d] \in DOMAIN LanesOf
  /\ pc = "verify" => pendingKey \in DOMAIN LanesOf

(* What was not received has no fate and no task yet.                        *)
NotYetReceived ==
  \A d \in Ids : d > received <=> fate[d] = "unreceived"

(* A job runs under the ticket the scheduler handed out; a delivery whose    *)
(* acknowledgement is pending has left the scheduler.                        *)
TasksMatch ==
  \A d \in Ids :
    /\ task[d] \in {"job"} \cup JobEnds <=> d \in RunningIds
    /\ task[d] \in {"ack"} \cup AckEnds => d \notin Held /\ d <= received

(* HeldIsTracked, by receive number.                                         *)
Tracked ==
  pc # "finished" =>
    \A d \in Ids : fate[d] = "held" <=> \/ d \in DecodingIds \cup PendingIds
                                        \/ task[d] \in {"job", "jobPending", "ack"}

(* The loop records every failure, and nothing is dropped without a reason.  *)
FailuresKnown ==
  /\ lost # {} => failure
  /\ \A d \in Ids : fate[d] = "failed" => failure \/ task[d] \in {"jobFailed", "ackFailed"}
  /\ \A d \in Ids : fate[d] = "dropped" => d \in revoked \cup handoff \/ Stopping \/ failure

(* What the loop knows where it is: it receives only before any failure,     *)
(* discards only when it stops, and drains with nothing unstarted left after *)
(* a failure; it waits with every job slot taken or nothing ready.           *)
LoopKnows ==
  /\ pc \in Main => ~failure /\ ~discarded
  /\ pc = "discard" => Stopping \/ failure
  /\ pc \in {"drainStart", "drainSelect"} /\ failure => ~Unstarted
  /\ pc = "drainSelect" => ~CanStart
  /\ pc \in {"cleanup", "finished"} => \A d \in Ids : task[d] = "none"
  /\ (pc = "cleanup" /\ ~failure) \/ (pc = "finished" /\ result = "ok") =>
       ~failure /\ \A d \in Ids : fate[d] \notin {"held", "failed"}

(* WithinLimits, and the slot that the delivery being verified will take.    *)
WithinBounds ==
  /\ Cardinality(running) <= Concurrency
  /\ Len(admitted) <= Concurrency
  /\ outstanding <= MaxInFlight
  /\ pc = "verify" => Len(admitted) < Concurrency /\ outstanding < MaxInFlight

SubscriptionInv ==
  /\ SchedulerInv /\ LoopTypes /\ KeysKnown /\ NotYetReceived /\ TasksMatch
  /\ Tracked /\ FailuresKnown /\ LoopKnows /\ WithinBounds
-----------------------------------------------------------------------------
(* What the loop knows of the scheduler.                                     *)

(* The receive numbers in use are those of the deliveries received.          *)
LEMMA Facts ==
  ASSUME Accounted
  PROVE  /\ Apart /\ Held \subseteq Ids
         /\ received \in Nat /\ received <= MaxDeliveries /\ MaxDeliveries \in Nat
         /\ outstanding \in Int /\ Len(admitted) \in Nat /\ Cardinality(running) \in Nat
BY SMTT(30) DEF Accounted, Apart, Ids

(* The oldest admission was received, with a key distribute knows.           *)
LEMMA OldestAdmission ==
  ASSUME SubscriptionInv, Accounted, admitted # <<>>
  PROVE  /\ Head(admitted).id \in DecodingIds
         /\ Head(admitted).id \in 1..received
         /\ keyOf[Head(admitted).id] \in DOMAIN LanesOf
<1>1. Head(admitted).id \in DecodingIds /\ Apart
  BY DEF Accounted
<1> QED
  BY <1>1 DEF Apart, SubscriptionInv, KeysKnown

(* Every step of the subscription calls the scheduler as module Scheduler    *)
(* allows, or leaves it alone.                                               *)
LEMMA LoopUsesScheduler ==
  ASSUME SubscriptionInv, Accounted, [RNext]_rvars
  PROVE  [Next]_vars
<1>1. DOMAIN LanesOf \subseteq MaybeKey /\ \A k \in DOMAIN LanesOf : LanesOf[k] \subseteq MaybeLane
  BY RuntimeAssumption
<1>2. CASE StartOne \/ DropHandedOff \/ DecodePanic \/ DiscardDecoding \/ DiscardQueued \/ DrainTimeout
  BY <1>2 DEF StartOne, DropHandedOff, DecodePanic, DiscardDecoding, DiscardQueued, DrainTimeout, Next
<1>3. CASE ApplyFlow
  BY <1>3 DEF ApplyFlow, Next
<1>4. CASE DecodeNext
  <2>1. PICK l \in LanesOf[keyOf[Head(admitted).id]] \cup {NoLane} : Push(l)
    BY <1>4 DEF DecodeNext
  <2>2. admitted # <<>>
    BY <1>4 DEF DecodeNext
  <2>3. l \in MaybeLane
    BY <1>1, <2>1, <2>2, OldestAdmission DEF MaybeLane
  <2> QED
    BY <2>1, <2>3 DEF Next
<1>5. ASSUME NEW t \in running, JoinJob(t) PROVE [Next]_vars
  BY <1>5 DEF JoinJob, Next
<1>6. ASSUME NEW k \in DOMAIN LanesOf, ReceiveMessage(k) PROVE [Next]_vars
  BY <1>1, <1>6 DEF ReceiveMessage, Admitted, Next
<1>7. CASE Verify
  BY <1>1, <1>7 DEF Verify, Admitted, Next, SubscriptionInv, KeysKnown
<1>8. CASE UNCHANGED vars
  BY <1>8
<1> QED
  BY <1>2, <1>3, <1>4, <1>5, <1>6, <1>7, <1>8
  DEF RNext, LoopStep, SourceStep, SelectStop, JoinAck, DrainTop, DrainWait, DrainDone, Cleanup,
      ReceiveEnd, ReceiveError, JobEnd, AckEnd, EndTask, TakeBack, Shutdown, Terminated, rvars

(* A subscription that starts has received nothing.                          *)
LEMMA SubscriptionInit ==
  ASSUME RInit, SchedulerInv, Accounted
  PROVE  SubscriptionInv
<1>1. SchedulerInv /\ Init
  BY DEF RInit
<1>2. /\ DecodingIds = {} /\ PendingIds = {} /\ RunningIds = {}
      /\ Held = {} /\ received = 0 /\ outstanding = 0 /\ lost = {} /\ running = {}
  BY <1>1, SMTT(30) DEF Init, DecodingIds, PendingIds, RunningIds, IdsOf, Pending, Queued, Range, Held
<1>3. LoopTypes
  BY DEF RInit, LoopTypes, PCs, Main, Tasks, MaybeKey
<1>4. KeysKnown
  BY <1>2, SMTT(30) DEF RInit, KeysKnown
<1>5. NotYetReceived /\ TasksMatch /\ Tracked
  BY <1>2, SMTT(30) DEF RInit, NotYetReceived, TasksMatch, Tracked, JobEnds, AckEnds, Ids
<1>6. FailuresKnown /\ LoopKnows
  BY <1>1, <1>2 DEF RInit, Init, FailuresKnown, LoopKnows, Main
<1>7. WithinBounds
  <2>1. Cardinality(running) = 0 /\ Len(admitted) = 0
    BY <1>1, <1>2 DEF Init, Accounted
  <2> QED
    BY <1>2, <2>1, RuntimeAssumption, SMTT(30) DEF RInit, WithinBounds
<1> QED
  BY <1>1, <1>3, <1>4, <1>5, <1>6, <1>7 DEF SubscriptionInv

(* Nothing moves: what changes is where the loop is and what it has noticed. *)
Still ==
  /\ UNCHANGED <<ready, waiting, outstanding, callerVars, task, fate, keyOf>>
  /\ LoopTypes' /\ revoked \subseteq revoked' /\ handoff \subseteq handoff'
  /\ failure => failure'
  /\ shutdown => shutdown'
  /\ pc = "finished" => pc' = "finished"

(* Steps that move nothing keep the invariant if the loop's knowledge holds  *)
(* where it arrives.                                                         *)
LEMMA StillStep ==
  ASSUME SubscriptionInv, SchedulerInv', Still, LoopKnows',
         pc' = "verify" => /\ pendingKey' \in DOMAIN LanesOf
                           /\ Len(admitted) < Concurrency /\ outstanding < MaxInFlight
  PROVE  SubscriptionInv'
<1>1. UNCHANGED <<ready, waiting, outstanding, admitted, running, lost, received, discarded, task, fate, keyOf>>
  BY DEF Still, callerVars
<1>2. UNCHANGED <<DecodingIds, PendingIds, RunningIds, LostIds, Held>>
  BY <1>1, SMTT(30) DEF DecodingIds, PendingIds, RunningIds, LostIds, Held, Pending, Queued
<1>3. KeysKnown' /\ NotYetReceived' /\ TasksMatch'
  BY <1>1, <1>2 DEF SubscriptionInv, KeysKnown, NotYetReceived, TasksMatch
<1>4. Tracked'
  BY <1>1, <1>2 DEF SubscriptionInv, Tracked, Still
<1>5. FailuresKnown'
  BY <1>1 DEF SubscriptionInv, FailuresKnown, Still, Stopping
<1>6. WithinBounds'
  BY <1>1 DEF SubscriptionInv, WithinBounds
<1> QED
  BY <1>3, <1>4, <1>5, <1>6 DEF SubscriptionInv, Still

(* A drained loop holds nothing: with a free slot nothing is ready, so no    *)
(* lane has a holder, and without a failure no lane is stranded.             *)
LEMMA DrainedIsEmpty ==
  ASSUME SubscriptionInv, Accounted, DrainDone
  PROVE  /\ \A d \in Ids : task[d] = "none"
         /\ ~failure => \A d \in Ids : fate[d] \notin {"held", "failed"}
<1>1. running = {} /\ Acks = {} /\ admitted = <<>> /\ pc = "drainSelect"
  BY DEF DrainDone, Idle
<1>2. RunningIds = {} /\ DecodingIds = {}
  BY <1>1, SMTT(30) DEF RunningIds, DecodingIds, IdsOf, Range
<1>3. ASSUME NEW d \in Ids PROVE task[d] = "none"
  BY <1>1, <1>2 DEF SubscriptionInv, TasksMatch, LoopTypes, Tasks, Acks, JobEnds, AckEnds
<1>4. ASSUME ~failure PROVE \A d \in Ids : fate[d] \notin {"held", "failed"}
  <2>1. lost = {}
    BY <1>4 DEF SubscriptionInv, FailuresKnown
  <2>2. ready = <<>>
    <3>1. Cardinality(running) = 0
      BY <1>1 DEF Accounted
    <3> QED
      BY <1>1, <3>1, RuntimeAssumption, SMTT(30) DEF SubscriptionInv, LoopKnows, CanStart
  <2>3. Range(ready) = {}
    BY <2>2, SMTT(30) DEF Range
  <2>4. DOMAIN waiting = {}
    BY <1>1, <2>1, <2>3 DEF SubscriptionInv, SchedulerInv, NoStrandedLane
  <2>5. PendingIds = {}
    BY <2>3, <2>4 DEF PendingIds, IdsOf, Pending, Queued
  <2> QED
    BY <1>1, <1>2, <1>3, <1>4, <2>5 DEF SubscriptionInv, Tracked, FailuresKnown
<1> QED
  BY <1>3, <1>4

(* Leaving the receive loop, retrying it, the turns of the drain loop and    *)
(* the application's shutdown move nothing.                                  *)
LEMMA LoopTurns ==
  ASSUME SubscriptionInv, Accounted, SchedulerInv',
         \/ ApplyFlow \/ SelectStop \/ ReceiveEnd \/ DrainTop \/ DrainWait \/ DrainDone \/ Shutdown
         \/ \E fatal \in BOOLEAN : ReceiveError(fatal)
  PROVE  SubscriptionInv'
<1> USE DEF SubscriptionInv
<1>1. CASE ApplyFlow
  <2>1. Still /\ failure' = failure /\ pc = "start" /\ pc' = "select"
    BY <1>1 DEF ApplyFlow, Still, TakeFlowChanges, DisableFlowControl, vars, callerVars, LoopTypes,
                PCs, Main, receiving, tokens
  <2>2. discarded' = discarded
    BY <2>1 DEF Still, callerVars
  <2>3. LoopKnows'
    BY <2>1, <2>2 DEF LoopKnows, Main
  <2> QED
    BY <2>1, <2>3, StillStep
<1>2. CASE SelectStop
  <2>1. Still /\ failure' = failure /\ shutdown' = shutdown /\ pc' = "discard"
    BY <1>2 DEF SelectStop, Still, vars, callerVars, LoopTypes, PCs, Main, receiving, tokens
  <2>2. LoopKnows'
    BY <1>2, <2>1, SMTT(30) DEF LoopKnows, Main, SelectStop, Stopping
  <2> QED
    BY <2>1, <2>2, StillStep
<1>3. CASE ReceiveEnd
  <2>1. Still /\ pc' = "drain"
    BY <1>3 DEF ReceiveEnd, MayReceive, Still, vars, callerVars, LoopTypes, PCs, Main, receiving, tokens
  <2>2. LoopKnows'
    BY <2>1 DEF LoopKnows, Main
  <2> QED
    BY <2>1, <2>2, StillStep
<1>4. CASE DrainTop
  <2>1. Still /\ failure' = failure /\ shutdown' = shutdown /\ Unstarted' = Unstarted
    BY <1>4 DEF DrainTop, Still, vars, callerVars, LoopTypes, PCs, Main, receiving, tokens, Unstarted
  <2>2. LoopKnows'
    BY <1>4, <2>1, SMTT(30) DEF LoopKnows, Main, DrainTop, Stopping
  <2>3. pc' # "verify"
    BY <1>4 DEF DrainTop
  <2> QED
    BY <2>1, <2>2, <2>3, StillStep
<1>5. CASE DrainWait
  <2>1. /\ Still /\ failure' = failure /\ Unstarted' = Unstarted /\ CanStart' = CanStart
        /\ pc = "drainStart" /\ pc' = "drainSelect" /\ ~CanStart
    BY <1>5 DEF DrainWait, Still, vars, callerVars, LoopTypes, PCs, Main, receiving, tokens, Unstarted,
                CanStart
  <2>2. LoopKnows'
    BY <2>1 DEF LoopKnows, Main
  <2> QED
    BY <2>1, <2>2, StillStep
<1>6. CASE DrainDone
  <2>1. Still /\ failure' = failure /\ task' = task /\ fate' = fate /\ pc' = "cleanup"
    BY <1>6 DEF DrainDone, Still, vars, callerVars, LoopTypes, PCs, Main, receiving, tokens
  <2>2. LoopKnows'
    BY <1>6, <2>1, DrainedIsEmpty DEF LoopKnows, Main
  <2> QED
    BY <2>1, <2>2, StillStep
<1>7. CASE Shutdown
  <2>1. /\ Still /\ UNCHANGED <<failure, task, fate, pc, result, discarded, vars, pendingKey>>
        /\ shutdown' = TRUE
    BY <1>7 DEF Shutdown, Still, vars, callerVars, LoopTypes, receiving, tokens
  <2>2. Unstarted' = Unstarted /\ CanStart' = CanStart
    BY <2>1 DEF vars, Unstarted, CanStart
  <2>3. LoopKnows'
    BY <2>1, <2>2 DEF LoopKnows, Stopping
  <2> QED
    BY <2>1, <2>3, StillStep DEF KeysKnown, WithinBounds
<1>8. ASSUME NEW fatal \in BOOLEAN, ReceiveError(fatal) PROVE SubscriptionInv'
  <2>1. /\ UNCHANGED <<ready, waiting, outstanding, callerVars, task, fate, keyOf, revoked, handoff, result>>
        /\ pc = "select"
    BY <1>8 DEF ReceiveError, MayReceive, vars, callerVars, receiving, tokens
  <2>2. \/ pc' = "discard" /\ failure' = TRUE /\ shutdown' = TRUE
        \/ pc' = "start" /\ failure' = failure /\ shutdown' = shutdown
    BY <1>8 DEF ReceiveError, Fails
  <2>3. Still
    BY <2>1, <2>2 DEF Still, LoopTypes, PCs, Main
  <2>4. discarded' = discarded
    BY <2>1 DEF callerVars
  <2>5. LoopKnows'
    <3>1. CASE pc' = "discard" /\ failure' = TRUE
      BY <3>1 DEF LoopKnows, Main
    <3>2. CASE pc' = "start" /\ failure' = failure
      <4>1. ~failure' /\ ~discarded'
        BY <2>1, <2>4, <3>2 DEF LoopKnows, Main
      <4> QED
        BY <3>2, <4>1 DEF LoopKnows, Main
    <3> QED
      BY <2>2, <3>1, <3>2
  <2>6. pc' # "verify"
    BY <2>2
  <2> QED
    BY <2>3, <2>5, <2>6, StillStep
<1> QED
  BY <1>1, <1>2, <1>3, <1>4, <1>5, <1>6, <1>7, <1>8

(* A task ends: its delivery is settled, keeps its acknowledgement pending,  *)
(* or is dropped because it was revoked.                                     *)
LEMMA TaskEnds ==
  ASSUME SubscriptionInv, Accounted, SchedulerInv', NEW d \in Ids, JobEnd(d) \/ AckEnd(d)
  PROVE  SubscriptionInv'
<1> USE DEF SubscriptionInv
<1>1. PICK from, to, f :
        /\ EndTask(d, from, to, f)
        /\ \/ from = "job" /\ to = "jobDone" /\ f \in {"acked", "dropped"}
           \/ from = "job" /\ to = "jobPending" /\ f = "held"
           \/ from = "job" /\ to = "jobFailed" /\ f = "failed"
           \/ from = "ack" /\ to = "ackDone" /\ f \in {"acked", "dropped"}
           \/ from = "ack" /\ to = "ackFailed" /\ f = "failed"
        /\ f = "dropped" => d \in revoked
  BY SMTT(30) DEF JobEnd, AckEnd
<1>2. /\ task[d] = from /\ task' = [task EXCEPT ![d] = to] /\ fate' = [fate EXCEPT ![d] = f]
      /\ UNCHANGED <<vars, pc, revoked, handoff, shutdown, failure, keyOf, pendingKey, result>>
  BY <1>1 DEF EndTask, tokens, receiving
<1>3. UNCHANGED <<ready, waiting, outstanding, admitted, running, lost, received, discarded>>
  BY <1>2 DEF vars
<1>4. UNCHANGED <<DecodingIds, PendingIds, RunningIds, LostIds, Held, Unstarted, CanStart>>
  BY <1>3 DEF DecodingIds, PendingIds, RunningIds, LostIds, Held, Pending, Queued, Unstarted, CanStart
<1>5. /\ task'[d] = to /\ fate'[d] = f
      /\ \A e \in Ids \ {d} : task'[e] = task[e] /\ fate'[e] = fate[e]
      /\ task[d] \in {"job", "ack"}
  BY <1>1, <1>2 DEF LoopTypes
<1>6. /\ pc \notin {"cleanup", "finished"}
      /\ fate[d] = "held"
      /\ d <= received /\ d \notin DecodingIds \cup PendingIds
  <2>1. pc \notin {"cleanup", "finished"}
    BY <1>5 DEF LoopKnows
  <2>2. fate[d] = "held"
    BY <1>5, <2>1 DEF Tracked
  <2>3. d <= received
    BY <2>2, Facts, SMTT(30) DEF NotYetReceived, Ids
  <2>4. d \notin DecodingIds \cup PendingIds
    BY <1>5, Facts DEF TasksMatch, Apart
  <2> QED
    BY <2>1, <2>2, <2>3, <2>4
<1>7. LoopTypes'
  BY <1>1, <1>2 DEF LoopTypes, Tasks, JobEnds, AckEnds
<1>8. KeysKnown' /\ WithinBounds'
  BY <1>2, <1>3 DEF KeysKnown, WithinBounds
<1>9. NotYetReceived'
  BY <1>1, <1>3, <1>5, <1>6, Facts DEF NotYetReceived, Ids
<1>10. TasksMatch'
  BY <1>1, <1>2, <1>3, <1>4, <1>5 DEF TasksMatch, JobEnds, AckEnds
<1>11. Tracked'
  BY <1>1, <1>2, <1>4, <1>5, <1>6 DEF Tracked
<1>12. FailuresKnown'
  BY <1>1, <1>2, <1>3, <1>5 DEF FailuresKnown, Stopping
<1>13. LoopKnows'
  BY <1>2, <1>3, <1>4, <1>6 DEF LoopKnows, Stopping
<1> QED
  BY <1>7, <1>8, <1>9, <1>10, <1>11, <1>12, <1>13

(* The source takes a delivery back.                                         *)
LEMMA TakesBack ==
  ASSUME SubscriptionInv, SchedulerInv', NEW d \in Ids, TakeBack(d)
  PROVE  SubscriptionInv'
<1>1. /\ UNCHANGED <<vars, pc, task, fate, shutdown, failure, keyOf, pendingKey, result>>
      /\ revoked \subseteq revoked' /\ handoff \subseteq handoff'
  BY DEF TakeBack, receiving
<1>2. Still
  BY <1>1 DEF Still, vars, callerVars, SubscriptionInv, LoopTypes
<1>3. UNCHANGED <<Unstarted, CanStart, discarded>>
  BY <1>1 DEF vars, Unstarted, CanStart
<1>4. LoopKnows'
  BY <1>1, <1>3 DEF SubscriptionInv, LoopKnows, Stopping
<1> QED
  BY <1>1, <1>2, <1>4, StillStep DEF SubscriptionInv, KeysKnown, WithinBounds

(* A received delivery is admitted.                                          *)
LEMMA Admits ==
  ASSUME SubscriptionInv, Accounted, Moves, SchedulerInv', NEW k \in DOMAIN LanesOf, Admitted(k),
         pc \in {"select", "verify"}, pc' = "start",
         Len(admitted) < Concurrency, outstanding < MaxInFlight,
         UNCHANGED <<task, revoked, handoff, shutdown, failure, result>>
  PROVE  SubscriptionInv'
<1> USE DEF SubscriptionInv
<1> DEFINE n == received + 1
<1>1. k \in MaybeKey
  BY RuntimeAssumption
<1>2. Admit(k) /\ keyOf' = [keyOf EXCEPT ![n] = k] /\ fate' = [fate EXCEPT ![n] = "held"]
  BY DEF Admitted
<1>3. /\ DecodingIds' = DecodingIds \cup {n} /\ PendingIds' = PendingIds /\ Held' = Held \cup {n}
      /\ Len(admitted') = Len(admitted) + 1
  BY <1>1, <1>2 DEF Moves, AdmitMoves
<1>4. /\ UNCHANGED <<ready, waiting, running, lost, discarded>>
      /\ received' = n /\ outstanding' = outstanding + 1 /\ received < MaxDeliveries
  BY <1>2 DEF Admit
<1>5. n \in Ids /\ received \in Nat /\ n \notin Held
  <2>1. Held \subseteq 1..received /\ received \in Nat /\ MaxDeliveries \in Nat
    BY Facts DEF Apart
  <2>2. n \in 1..MaxDeliveries /\ n \notin 1..received
    BY <1>4, <2>1, SMTT(30)
  <2> QED
    BY <2>1, <2>2 DEF Ids
<1>6. /\ fate'[n] = "held" /\ keyOf'[n] = k
      /\ \A d \in Ids \ {n} : fate'[d] = fate[d] /\ keyOf'[d] = keyOf[d]
      /\ fate[n] = "unreceived"
  BY <1>2, <1>5, SMTT(30) DEF LoopTypes, NotYetReceived
<1>7. RunningIds' = RunningIds
  BY <1>4 DEF RunningIds
<1>8. task[n] = "none"
  <2>1. n \notin RunningIds /\ n \notin LostIds
    BY <1>5, Facts DEF Apart
  <2>2. ~(n <= received)
    BY <1>5, SMTT(30)
  <2> QED
    BY <1>5, <1>6, <2>1, <2>2 DEF LoopTypes, Tasks, TasksMatch, JobEnds, AckEnds
<1>9. LoopTypes'
  BY <1>1, <1>2, <1>5 DEF LoopTypes, PCs, Main
<1>10. KeysKnown'
  <2>1. ASSUME NEW d \in 1..n PROVE keyOf'[d] \in DOMAIN LanesOf
    <3>1. d = n \/ (d \in 1..received /\ d # n)
      BY <1>5, SMTT(30)
    <3>2. d \in Ids
      BY <1>4, Facts, SMTT(30) DEF Ids
    <3> QED
      BY <1>6, <3>1, <3>2 DEF KeysKnown
  <2> QED
    BY <1>4, <2>1 DEF KeysKnown
<1>11. NotYetReceived'
  <2>1. ASSUME NEW d \in Ids PROVE d > n <=> fate'[d] = "unreceived"
    <3>1. d \in Nat
      BY SMTT(30) DEF Ids
    <3>2. CASE d = n
      BY <1>5, <1>6, <3>2, SMTT(30)
    <3>3. CASE d # n
      BY <1>5, <1>6, <3>1, <3>3, SMTT(30) DEF NotYetReceived
    <3> QED
      BY <3>2, <3>3
  <2> QED
    BY <1>4, <2>1 DEF NotYetReceived
<1>12. TasksMatch'
  BY <1>3, <1>4, <1>5, <1>7, <1>8, SMTT(30) DEF TasksMatch, JobEnds, AckEnds, Ids
<1>13. Tracked'
  BY <1>3, <1>5, <1>6 DEF Tracked
<1>14. FailuresKnown'
  BY <1>4, <1>5, <1>6 DEF FailuresKnown, Stopping
<1>15. LoopKnows'
  BY <1>4 DEF LoopKnows, Main
<1>16. WithinBounds'
  BY <1>3, <1>4, Facts, RuntimeAssumption, SMTT(30) DEF WithinBounds
<1> QED
  BY <1>9, <1>10, <1>11, <1>12, <1>13, <1>14, <1>15, <1>16

(* The receive branch, and the check of the sink before the first delivery.  *)
LEMMA Receives ==
  ASSUME SubscriptionInv, Accounted, Moves, SchedulerInv',
         Verify \/ \E k \in DOMAIN LanesOf : ReceiveMessage(k)
  PROVE  SubscriptionInv'
<1> USE DEF SubscriptionInv
<1>1. ASSUME NEW k \in DOMAIN LanesOf, ReceiveMessage(k) PROVE SubscriptionInv'
  <2>1. /\ pc = "select" /\ Len(admitted) < Concurrency /\ outstanding < MaxInFlight
        /\ UNCHANGED <<task, revoked, handoff, shutdown, failure, result>>
    BY <1>1 DEF ReceiveMessage, MayReceive, tokens
  <2>2. CASE verified
    BY <1>1, <2>1, <2>2, Admits DEF ReceiveMessage
  <2>3. CASE ~verified
    <3>1. pc' = "verify" /\ pendingKey' = k /\ UNCHANGED <<vars, keyOf, fate>>
      BY <1>1, <2>3 DEF ReceiveMessage
    <3>2. Still /\ discarded' = discarded
      BY <2>1, <3>1 DEF Still, vars, callerVars, LoopTypes, PCs, Main
    <3>3. LoopKnows'
      BY <2>1, <3>1, <3>2 DEF LoopKnows, Main
    <3> QED
      BY <2>1, <3>1, <3>2, <3>3, StillStep
  <2> QED
    BY <2>2, <2>3
<1>2. CASE Verify
  <2>1. /\ pc = "verify" /\ UNCHANGED <<task, revoked, handoff, result>>
    BY <1>2 DEF Verify, tokens
  <2>2. CASE Admitted(pendingKey) /\ pc' = "start" /\ UNCHANGED <<failure, shutdown>>
    BY <2>1, <2>2, Admits DEF KeysKnown, WithinBounds
  <2>3. CASE /\ pc' = "discard" /\ UNCHANGED <<vars, keyOf, fate>>
             /\ \/ Stopping /\ UNCHANGED <<failure, shutdown>>
                \/ failure' = TRUE /\ shutdown' = TRUE
    <3>1. Still
      BY <2>1, <2>3 DEF Still, vars, callerVars, LoopTypes, PCs, Main
    <3>2. LoopKnows'
      BY <2>3 DEF LoopKnows, Main, Stopping
    <3> QED
      BY <2>3, <3>1, <3>2, StillStep
  <2> QED
    BY <1>2, <2>2, <2>3 DEF Verify, Fails
<1> QED
  BY <1>1, <1>2

(* A ready delivery starts, or is dropped because it is being handed off.    *)
LEMMA Starts ==
  ASSUME SubscriptionInv, Accounted, Moves, SchedulerInv', StartOne \/ DropHandedOff
  PROVE  SubscriptionInv'
<1> USE DEF SubscriptionInv
<1> DEFINE h == Head(ready).id
<1>1. /\ pc \in {"start", "drainStart"} /\ ready # <<>> /\ Cardinality(running) < Concurrency
      /\ UNCHANGED <<pc, revoked, handoff, shutdown, failure, keyOf, pendingKey, result>>
  BY DEF StartOne, DropHandedOff, CanStart, tokens, receiving
<1>2. pc = "drainStart" => ~failure
  BY <1>1 DEF LoopKnows, Unstarted
<1>3. Apart /\ Held \subseteq Ids
  BY Facts
<1>4. h \in PendingIds /\ UNCHANGED <<admitted, lost, received, discarded>>
  BY DEF Moves, ReadyMoves, StartOne, DropHandedOff, NextReady, AbandonReady
<1>5. h \in Ids /\ h \in Held /\ h \notin DecodingIds \cup RunningIds
  BY <1>3, <1>4 DEF Apart
<1>6. task[h] = "none" /\ fate[h] = "held"
  <2>1. task[h] = "none"
    BY <1>5 DEF LoopTypes, Tasks, TasksMatch, JobEnds, AckEnds
  <2>2. fate[h] = "held"
    BY <1>1, <1>4, <1>5 DEF Tracked
  <2> QED
    BY <2>1, <2>2
<1>7. DecodingIds' = DecodingIds
  BY <1>4 DEF DecodingIds
<1>8. KeysKnown'
  BY <1>1, <1>4 DEF KeysKnown
<1>9. LoopKnows'
  BY <1>1, <1>2, <1>4 DEF LoopKnows, Main
<1>10. CASE StartOne
  <2>1. NextReady /\ task' = [task EXCEPT ![h] = "job"] /\ fate' = fate
    BY <1>10 DEF StartOne
  <2>2. RunningIds' = RunningIds \cup {h} /\ PendingIds' = PendingIds \ {h} /\ Held' = Held
    BY <2>1 DEF Moves, ReadyMoves
  <2>3. task'[h] = "job" /\ \A d \in Ids \ {h} : task'[d] = task[d]
    BY <1>5, <2>1 DEF LoopTypes
  <2> HIDE DEF h
  <2>4. LoopTypes'
    BY <1>1, <2>1 DEF LoopTypes, Tasks
  <2>5. NotYetReceived'
    BY <1>4, <2>1 DEF NotYetReceived
  <2>6. TasksMatch'
    BY <1>4, <1>5, <2>2, <2>3 DEF TasksMatch, JobEnds, AckEnds
  <2>7. Tracked'
    BY <1>1, <1>5, <1>6, <1>7, <2>1, <2>2, <2>3 DEF Tracked
  <2>8. FailuresKnown'
    BY <1>1, <1>4, <1>6, <2>1, <2>3 DEF FailuresKnown, Stopping
  <2>9. WithinBounds'
    <3>1. running' = running \cup {Head(ready)} /\ outstanding' = outstanding
      BY <2>1 DEF NextReady
    <3>2. Cardinality(running') <= Concurrency
      <4>1. Cardinality(running) \in Nat /\ Concurrency \in Nat
        BY Facts, RuntimeAssumption
      <4>2. Cardinality(running') \in {Cardinality(running), Cardinality(running) + 1}
        BY <2>1 DEF Moves, ReadyMoves
      <4> QED
        BY <1>1, <4>1, <4>2, SMTT(30)
    <3> QED
      BY <1>1, <1>4, <3>1, <3>2 DEF WithinBounds
  <2> QED
    BY <1>8, <1>9, <2>4, <2>5, <2>6, <2>7, <2>8, <2>9
<1>11. CASE DropHandedOff
  <2>1. AbandonReady /\ fate' = [fate EXCEPT ![h] = "dropped"] /\ task' = task /\ h \in handoff
    BY <1>11 DEF DropHandedOff
  <2>2. PendingIds' = PendingIds \ {h} /\ Held' = Held \ {h}
    BY <2>1 DEF Moves, ReadyMoves
  <2> HIDE DEF h
  <2>3. fate'[h] = "dropped" /\ \A d \in Ids \ {h} : fate'[d] = fate[d]
    BY <1>5, <2>1 DEF LoopTypes
  <2>4. running' = running /\ outstanding' = outstanding - 1
    BY <2>1 DEF AbandonReady, Finish
  <2>5. RunningIds' = RunningIds
    BY <2>4 DEF RunningIds
  <2>6. LoopTypes'
    BY <1>1, <2>1 DEF LoopTypes
  <2>7. NotYetReceived'
    BY <1>4, <1>5, <1>6, <2>3 DEF NotYetReceived
  <2>8. TasksMatch'
    BY <1>4, <2>1, <2>2, <2>5 DEF TasksMatch
  <2>9. Tracked'
    BY <1>1, <1>5, <1>6, <1>7, <2>1, <2>2, <2>3 DEF Tracked
  <2>10. FailuresKnown'
    BY <1>1, <1>4, <2>1, <2>3 DEF FailuresKnown, Stopping
  <2>11. WithinBounds'
    <3>1. outstanding \in Int /\ MaxInFlight \in Int
      BY Facts, RuntimeAssumption, SMTT(30)
    <3>2. outstanding <= MaxInFlight
      BY DEF WithinBounds
    <3>3. outstanding' <= MaxInFlight
      BY <2>4, <3>1, <3>2, SMTT(30)
    <3> QED
      BY <1>1, <1>4, <2>4, <3>3 DEF WithinBounds
  <2> QED
    BY <1>8, <1>9, <2>6, <2>7, <2>8, <2>9, <2>10, <2>11
<1> QED
  BY <1>10, <1>11

(* The oldest decoding is distributed, panics, or is withdrawn.              *)
LEMMA Decodings ==
  ASSUME SubscriptionInv, Accounted, Moves, SchedulerInv', DecodeNext \/ DecodePanic \/ DiscardDecoding
  PROVE  SubscriptionInv'
<1> USE DEF SubscriptionInv
<1> DEFINE h == Head(admitted).id
<1>1. /\ admitted # <<>> /\ pc \in {"select", "drainSelect", "discard"}
      /\ admitted' = Tail(admitted)
      /\ UNCHANGED <<task, revoked, handoff, keyOf, pendingKey, result, running, received, discarded>>
  BY DEF DecodeNext, DecodePanic, DiscardDecoding, tokens, receiving, Push, LoseAdmission, Withdraw
<1>2. Apart /\ Held \subseteq Ids
  BY Facts
<1>3. /\ h \in DecodingIds /\ h \in Ids /\ h \in Held /\ h \notin PendingIds \cup RunningIds
      /\ keyOf[h] \in DOMAIN LanesOf
  BY <1>1, <1>2, OldestAdmission DEF Apart
<1>4. task[h] = "none" /\ fate[h] = "held"
  <2>1. task[h] = "none"
    BY <1>3 DEF LoopTypes, Tasks, TasksMatch, JobEnds, AckEnds
  <2>2. fate[h] = "held"
    BY <1>1, <1>3 DEF Tracked
  <2> QED
    BY <2>1, <2>2
<1>5. RunningIds' = RunningIds
  BY <1>1 DEF RunningIds
<1>6. Len(admitted') <= Concurrency
  <2>1. Len(admitted') = Len(admitted) - 1 /\ Len(admitted) \in Nat /\ Concurrency \in Nat
    BY <1>1, Facts, RuntimeAssumption DEF Moves, DecodingMoves
  <2> QED
    BY <2>1, SMTT(30) DEF WithinBounds
<1>7. CASE DecodeNext
  <2>1. PICK l \in LanesOf[keyOf[h]] \cup {NoLane} : Push(l)
    BY <1>7 DEF DecodeNext
  <2>2. l \in MaybeLane
    BY <1>3, <2>1, RuntimeAssumption DEF MaybeLane
  <2>3. DecodingIds' = DecodingIds \ {h} /\ PendingIds' = PendingIds \cup {h} /\ Held' = Held
    BY <2>1, <2>2 DEF Moves, DecodingMoves
  <2>4. lost' = lost /\ outstanding' = outstanding
    BY <2>1 DEF Push
  <2>5. /\ UNCHANGED <<fate, shutdown, failure>>
        /\ \/ pc = "select" /\ pc' = "start"
           \/ pc = "drainSelect" /\ pc' = "drain"
    BY <1>7 DEF DecodeNext
  <2> HIDE DEF h
  <2>6. LoopTypes'
    BY <1>1, <2>5 DEF LoopTypes, PCs, Main
  <2>7. KeysKnown' /\ NotYetReceived'
    BY <1>1, <2>5 DEF KeysKnown, NotYetReceived
  <2>8. TasksMatch'
    BY <1>1, <1>5, <2>3 DEF TasksMatch
  <2>9. Tracked'
    BY <1>1, <1>3, <2>3, <2>5 DEF Tracked
  <2>10. FailuresKnown'
    BY <1>1, <2>4, <2>5 DEF FailuresKnown, Stopping
  <2>11. LoopKnows'
    BY <1>1, <2>5 DEF LoopKnows, Main
  <2>12. WithinBounds'
    BY <1>1, <1>6, <2>4, <2>5 DEF WithinBounds
  <2> QED
    BY <2>6, <2>7, <2>8, <2>9, <2>10, <2>11, <2>12
<1>8. ASSUME NEW f \in {"failed", "dropped"},
             fate' = [fate EXCEPT ![h] = f],
             DecodingIds' = DecodingIds \ {h}, PendingIds' = PendingIds,
             Held' \subseteq Held,
             failure => failure', shutdown => shutdown', failure' \in BOOLEAN, shutdown' \in BOOLEAN,
             f = "failed" => failure', lost' # lost => failure',
             pc' \in {"discard", "drain"},
             pc' = "discard" \/ f = "dropped" => Stopping \/ failure',
             outstanding' <= outstanding
      PROVE  SubscriptionInv'
  <2>1. fate'[h] = f /\ \A d \in Ids \ {h} : fate'[d] = fate[d]
    BY <1>3, <1>8 DEF LoopTypes
  <2>2. Stopping => Stopping'
    BY <1>8 DEF Stopping
  <2> HIDE DEF h
  <2>3. LoopTypes'
    BY <1>1, <1>8 DEF LoopTypes, PCs, Main
  <2>4. KeysKnown'
    BY <1>1, <1>8 DEF KeysKnown
  <2>5. NotYetReceived'
    BY <1>1, <1>3, <1>4, <1>8, <2>1 DEF NotYetReceived
  <2>6. TasksMatch'
    BY <1>1, <1>5, <1>8 DEF TasksMatch
  <2>7. Tracked'
    BY <1>1, <1>3, <1>4, <1>8, <2>1 DEF Tracked
  <2>8. FailuresKnown'
    BY <1>1, <1>8, <2>1, <2>2 DEF FailuresKnown
  <2>9. LoopKnows'
    BY <1>8, <2>2 DEF LoopKnows, Main
  <2>10. WithinBounds'
    <3>1. outstanding' \in Int /\ outstanding \in Int /\ MaxInFlight \in Int
      BY Facts, RuntimeAssumption, SMTT(30) DEF SchedulerInv, TypeOK
    <3>2. outstanding' <= MaxInFlight
      BY <1>8, <3>1, SMTT(30) DEF WithinBounds
    <3>3. Cardinality(running') <= Concurrency
      BY <1>1 DEF WithinBounds
    <3> QED
      BY <1>6, <1>8, <3>2, <3>3 DEF WithinBounds
  <2> QED
    BY <2>3, <2>4, <2>5, <2>6, <2>7, <2>8, <2>9, <2>10
<1>9. CASE DecodePanic
  <2>1. /\ LoseAdmission /\ fate' = [fate EXCEPT ![h] = "failed"]
        /\ failure' = TRUE /\ shutdown' = TRUE /\ pc' \in {"discard", "drain"}
    BY <1>9 DEF DecodePanic, Fails
  <2>2. DecodingIds' = DecodingIds \ {h} /\ PendingIds' = PendingIds /\ Held' = Held
    BY <2>1 DEF Moves, DecodingMoves
  <2>3. outstanding' = outstanding
    BY <2>1 DEF LoseAdmission, schedVars
  <2> HIDE DEF h
  <2>4. outstanding' <= outstanding
    BY <2>3, Facts, SMTT(30)
  <2>5. "failed" \in {"failed", "dropped"} /\ Held' \subseteq Held /\ failure' /\ shutdown'
        /\ failure' \in BOOLEAN /\ shutdown' \in BOOLEAN
    BY <2>1, <2>2
  <2> QED
    BY <1>8, <2>1, <2>2, <2>4, <2>5
<1>10. CASE DiscardDecoding
  <2>1. /\ Withdraw /\ fate' = [fate EXCEPT ![h] = "dropped"] /\ pc = "discard"
        /\ UNCHANGED <<pc, failure, shutdown>>
    BY <1>10 DEF DiscardDecoding
  <2>2. DecodingIds' = DecodingIds \ {h} /\ PendingIds' = PendingIds /\ Held' = Held \ {h}
    BY <2>1 DEF Moves, DecodingMoves
  <2>3. outstanding' = outstanding - 1 /\ lost' = lost
    BY <2>1 DEF Withdraw
  <2> HIDE DEF h
  <2>4. Stopping \/ failure
    BY <2>1 DEF LoopKnows
  <2> QED
    BY <1>8, <2>1, <2>2, <2>3, <2>4, Facts, SMTT(30) DEF LoopTypes
<1> QED
  BY <1>7, <1>9, <1>10

(* A finished job is joined: its ticket is completed, and its pending        *)
(* acknowledgement spawned, or its failure noticed.                          *)
LEMMA JobJoined ==
  ASSUME SubscriptionInv, Accounted, Moves, SchedulerInv', NEW t \in running, JoinJob(t)
  PROVE  SubscriptionInv'
<1> USE DEF SubscriptionInv
<1> DEFINE d == t.id
<1>1. Apart /\ Held \subseteq Ids /\ received \in Nat
  BY Facts
<1>2. /\ UNCHANGED <<fate, revoked, handoff, keyOf, pendingKey, result, admitted, received, discarded>>
      /\ pc \in {"select", "drainSelect"} /\ running' = running \ {t}
  BY DEF JoinJob, tokens, receiving, Complete, LoseTicket
<1>3. d \in RunningIds /\ d \in Ids /\ d \in Held
  BY <1>1 DEF Moves, TicketMoves, Apart
<1>4. d <= received
  BY <1>1, <1>3, SMTT(30) DEF Apart
<1>5. DecodingIds' = DecodingIds
  BY <1>2 DEF DecodingIds
<1>6. Cardinality(running') <= Concurrency
  <2>1. Cardinality(running) \in Nat /\ Concurrency \in Nat
    BY Facts, RuntimeAssumption
  <2>2. Cardinality(running') = Cardinality(running) - 1
    BY <1>2 DEF Moves, TicketMoves
  <2> QED
    BY <2>1, <2>2, SMTT(30) DEF WithinBounds
<1>7. CASE task[d] \in {"jobDone", "jobPending"}
  <2>1. /\ Complete(t) /\ task' = [task EXCEPT ![d] = IF @ = "jobPending" THEN "ack" ELSE "none"]
        /\ UNCHANGED <<failure, shutdown>>
        /\ \/ pc = "select" /\ pc' = "start"
           \/ pc = "drainSelect" /\ pc' = "drain"
    BY <1>2, <1>7 DEF JoinJob
  <2>2. RunningIds' = RunningIds \ {d} /\ PendingIds' = PendingIds /\ Held' = Held \ {d}
    BY <2>1 DEF Moves, TicketMoves
  <2>3. lost' = lost /\ outstanding' = outstanding - 1
    BY <2>1 DEF Complete, Finish
  <2> HIDE DEF d
  <2>4. /\ task[d] = "jobPending" => task'[d] = "ack"
        /\ task[d] = "jobDone" => task'[d] = "none"
        /\ \A e \in Ids \ {d} : task'[e] = task[e]
    BY <1>3, <2>1 DEF LoopTypes
  <2>5. LoopTypes'
    BY <1>2, <2>1 DEF LoopTypes, PCs, Main, Tasks
  <2>6. KeysKnown' /\ NotYetReceived'
    BY <1>2, <2>1 DEF KeysKnown, NotYetReceived
  <2>7. TasksMatch'
    BY <1>2, <1>3, <1>4, <1>7, <2>2, <2>4 DEF TasksMatch, JobEnds, AckEnds
  <2>8. Tracked'
    BY <1>2, <1>5, <1>7, <2>2, <2>4 DEF Tracked
  <2>9. FailuresKnown'
    BY <1>2, <1>7, <2>1, <2>3, <2>4 DEF FailuresKnown, Stopping
  <2>10. LoopKnows'
    BY <1>2, <2>1 DEF LoopKnows, Main
  <2>11. WithinBounds'
    <3>1. outstanding \in Int /\ MaxInFlight \in Int
      BY Facts, RuntimeAssumption, SMTT(30)
    <3>2. outstanding <= MaxInFlight
      BY DEF WithinBounds
    <3>3. outstanding' <= MaxInFlight
      BY <2>3, <3>1, <3>2, SMTT(30)
    <3> QED
      BY <1>2, <1>6, <2>1, <3>3 DEF WithinBounds
  <2> QED
    BY <2>5, <2>6, <2>7, <2>8, <2>9, <2>10, <2>11
<1>8. CASE task[d] = "jobFailed"
  <2>1. /\ LoseTicket(t) /\ task' = [task EXCEPT ![d] = "none"]
        /\ failure' = TRUE /\ shutdown' = TRUE /\ pc' \in {"discard", "drain"}
    BY <1>8 DEF JoinJob, Fails
  <2>2. RunningIds' = RunningIds \ {d} /\ PendingIds' = PendingIds /\ Held' = Held
    BY <2>1 DEF Moves, TicketMoves
  <2>3. outstanding' = outstanding
    BY <2>1 DEF LoseTicket, schedVars
  <2> HIDE DEF d
  <2>4. task'[d] = "none" /\ \A e \in Ids \ {d} : task'[e] = task[e]
    BY <1>3, <2>1 DEF LoopTypes
  <2>5. LoopTypes'
    BY <1>2, <2>1 DEF LoopTypes, PCs, Main, Tasks
  <2>6. KeysKnown' /\ NotYetReceived'
    BY <1>2, <2>1 DEF KeysKnown, NotYetReceived
  <2>7. TasksMatch'
    BY <1>2, <1>3, <1>8, <2>2, <2>4 DEF TasksMatch, JobEnds, AckEnds
  <2>8. Tracked'
    BY <1>2, <1>5, <1>8, <2>2, <2>4 DEF Tracked
  <2>9. FailuresKnown'
    BY <2>1 DEF FailuresKnown
  <2>10. LoopKnows'
    BY <2>1 DEF LoopKnows, Main
  <2>11. WithinBounds'
    BY <1>2, <1>6, <2>1, <2>3 DEF WithinBounds
  <2> QED
    BY <2>5, <2>6, <2>7, <2>8, <2>9, <2>10, <2>11
<1> QED
  BY <1>7, <1>8 DEF JoinJob

(* A finished acknowledgement is joined.                                     *)
LEMMA AckJoined ==
  ASSUME SubscriptionInv, SchedulerInv', NEW d \in Ids, JoinAck(d)
  PROVE  SubscriptionInv'
<1> USE DEF SubscriptionInv
<1>1. /\ task[d] \in AckEnds /\ task' = [task EXCEPT ![d] = "none"]
      /\ UNCHANGED <<vars, fate, revoked, handoff, keyOf, pendingKey, result>>
      /\ \/ /\ task[d] = "ackDone" /\ UNCHANGED <<failure, shutdown>>
            /\ \/ pc = "select" /\ pc' = "start"
               \/ pc = "drainSelect" /\ pc' = "drain"
         \/ pc' \in {"discard", "drain"} /\ failure' = TRUE /\ shutdown' = TRUE
  BY DEF JoinAck, tokens, receiving, Fails
<1>2. pc \in {"select", "drainSelect"}
  BY DEF JoinAck
<1>3. UNCHANGED <<ready, waiting, outstanding, admitted, running, lost, received, discarded>>
  BY <1>1 DEF vars
<1>4. UNCHANGED <<DecodingIds, PendingIds, RunningIds, Held>>
  BY <1>3, SMTT(30) DEF DecodingIds, PendingIds, RunningIds, Held, Pending, Queued
<1>5. task'[d] = "none" /\ \A e \in Ids \ {d} : task'[e] = task[e]
  BY <1>1 DEF LoopTypes
<1>6. LoopTypes'
  BY <1>1 DEF LoopTypes, PCs, Main, Tasks
<1>7. KeysKnown' /\ NotYetReceived' /\ WithinBounds'
  BY <1>1, <1>3 DEF KeysKnown, NotYetReceived, WithinBounds
<1>8. TasksMatch'
  BY <1>1, <1>3, <1>4, <1>5 DEF TasksMatch, JobEnds, AckEnds
<1>9. Tracked'
  BY <1>1, <1>2, <1>4, <1>5 DEF Tracked, AckEnds
<1>10. FailuresKnown'
  <2>1. CASE task[d] = "ackDone" /\ UNCHANGED <<failure, shutdown>>
    BY <1>1, <1>3, <1>5, <2>1 DEF FailuresKnown, Stopping
  <2>2. CASE failure' = TRUE
    BY <2>2 DEF FailuresKnown
  <2> QED
    BY <1>1, <2>1, <2>2
<1>11. LoopKnows'
  <2>1. CASE pc = "select" /\ pc' = "start" /\ failure' = failure
    <3>1. ~failure' /\ ~discarded'
      BY <1>3, <2>1 DEF LoopKnows, Main
    <3> QED
      BY <2>1, <3>1 DEF LoopKnows, Main
  <2>2. CASE pc' = "drain"
    BY <2>2 DEF LoopKnows, Main
  <2>3. CASE pc' = "discard" /\ failure' = TRUE
    BY <2>3 DEF LoopKnows, Main
  <2> QED
    BY <1>1, <2>1, <2>2, <2>3
<1> QED
  BY <1>6, <1>7, <1>8, <1>9, <1>10, <1>11

(* The queues are discarded, the drain times out, or run returns.            *)
LEMMA Ends ==
  ASSUME SubscriptionInv, Accounted, Moves, SchedulerInv', DiscardQueued \/ DrainTimeout \/ Cleanup
  PROVE  SubscriptionInv'
<1> USE DEF SubscriptionInv
<1>1. Apart /\ Held \subseteq Ids /\ outstanding \in Int /\ received \in Nat
  BY Facts
<1>2. \A d \in Ids : d \in PendingIds <=> \E t \in Pending : t.id = d
  BY DEF PendingIds, IdsOf
<1>3. \A d \in Ids : d \in PendingIds => d \in Held /\ task[d] \notin {"job", "ack"} \cup JobEnds \cup AckEnds
  BY <1>1 DEF Apart, TasksMatch
<1>4. UNCHANGED <<revoked, handoff, keyOf, pendingKey, received>>
  BY DEF DiscardQueued, DrainTimeout, Cleanup, tokens, receiving, DiscardPending, AbortAll, vars
<1>5. CASE DiscardQueued
  <2>1. /\ DiscardPending /\ pc = "discard" /\ pc' = "drain"
        /\ UNCHANGED <<task, shutdown, failure, result>>
        /\ fate' = [d \in Ids |-> IF \E t \in Pending : t.id = d THEN "dropped" ELSE fate[d]]
    BY <1>5 DEF DiscardQueued
  <2>2. DecodingIds' = DecodingIds /\ PendingIds' = {} /\ Held' = Held \ PendingIds
    BY <2>1 DEF Moves, QueueMoves
  <2>3. UNCHANGED <<admitted, running, lost>> /\ outstanding' <= outstanding
    BY <2>1 DEF Moves, QueueMoves, DiscardPending
  <2>4. RunningIds' = RunningIds
    BY <2>3 DEF RunningIds
  <2>5. \A d \in Ids : fate'[d] = IF d \in PendingIds THEN "dropped" ELSE fate[d]
    BY <1>2, <2>1
  <2>6. \A d \in Ids : d \in PendingIds => fate[d] = "held"
    BY <2>1 DEF Tracked
  <2>7. LoopTypes'
    BY <1>4, <2>1 DEF LoopTypes, PCs, Main
  <2>8. KeysKnown'
    BY <1>4, <2>1 DEF KeysKnown
  <2>9. NotYetReceived'
    BY <1>4, <2>5, <2>6 DEF NotYetReceived
  <2>10. TasksMatch'
    BY <1>4, <2>1, <2>2, <2>4 DEF TasksMatch
  <2>11. Tracked'
    BY <1>1, <1>3, <2>1, <2>2, <2>5, <2>6 DEF Tracked, JobEnds, Apart
  <2>12. FailuresKnown'
    <3>1. Stopping \/ failure
      BY <2>1 DEF LoopKnows
    <3> QED
      BY <1>4, <2>1, <2>3, <2>5, <3>1 DEF FailuresKnown, Stopping
  <2>13. LoopKnows'
    BY <2>1 DEF LoopKnows, Main
  <2>14. WithinBounds'
    <3>1. outstanding' \in Int /\ MaxInFlight \in Int
      BY RuntimeAssumption, SMTT(30) DEF SchedulerInv, TypeOK
    <3> QED
      BY <1>1, <2>1, <2>3, <3>1, SMTT(30) DEF WithinBounds
  <2> QED
    BY <2>7, <2>8, <2>9, <2>10, <2>11, <2>12, <2>13, <2>14
<1>6. CASE DrainTimeout
  <2>1. /\ AbortAll /\ pc = "drainSelect" /\ pc' = "cleanup" /\ result' = result
        /\ task' = [d \in Ids |-> "none"]
        /\ fate' = [d \in Ids |-> IF fate[d] = "held" /\ (\A t \in Pending : t.id # d)
                                  THEN "dropped" ELSE fate[d]]
        /\ failure' = TRUE /\ shutdown' = TRUE
    BY <1>6 DEF DrainTimeout, Fails
  <2>2. DecodingIds' = {} /\ RunningIds' = {} /\ PendingIds' = PendingIds /\ Held' = Held
    BY <2>1 DEF Moves, QueueMoves
  <2>3. running' = {} /\ admitted' = <<>> /\ outstanding' = outstanding
    BY <2>1 DEF AbortAll, schedVars
  <2>4. \A d \in Ids : fate'[d] = IF fate[d] = "held" /\ d \notin PendingIds THEN "dropped" ELSE fate[d]
    BY <1>2, <2>1
  <2>5. LoopTypes'
    BY <1>4, <2>1 DEF LoopTypes, PCs, Tasks
  <2>6. KeysKnown'
    BY <1>4, <2>1 DEF KeysKnown
  <2>7. NotYetReceived'
    BY <1>4, <2>4 DEF NotYetReceived
  <2>8. TasksMatch'
    BY <2>1, <2>2 DEF TasksMatch, JobEnds, AckEnds
  <2>9. Tracked'
    BY <2>1, <2>2, <2>4 DEF Tracked
  <2>10. FailuresKnown' /\ LoopKnows'
    BY <2>1 DEF FailuresKnown, LoopKnows, Main
  <2>11. WithinBounds'
    <3>1. Cardinality(running') = 0 /\ Len(admitted') = 0
      BY <2>1, <2>3 DEF Moves, QueueMoves
    <3>2. 0 <= Concurrency
      BY RuntimeAssumption, SMTT(30)
    <3>3. outstanding' <= MaxInFlight /\ pc' # "verify"
      BY <2>1, <2>3 DEF WithinBounds
    <3> QED
      BY <3>1, <3>2, <3>3 DEF WithinBounds
  <2> QED
    BY <2>5, <2>6, <2>7, <2>8, <2>9, <2>10, <2>11
<1>7. CASE Cleanup
  <2>1. /\ pc = "cleanup" /\ pc' = "finished" /\ UNCHANGED <<vars, task>>
        /\ result' = IF failure' THEN "failed" ELSE "ok"
        /\ fate' = [d \in Ids |-> IF fate[d] = "held" THEN "dropped" ELSE fate[d]]
    BY <1>7 DEF Cleanup
  <2>2. /\ failure' \in BOOLEAN /\ shutdown' \in BOOLEAN
        /\ failure => failure'
        /\ shutdown => shutdown'
    BY <1>7 DEF Cleanup, LoopTypes
  <2>3. UNCHANGED <<ready, waiting, outstanding, admitted, running, lost, received>>
    BY <2>1 DEF vars
  <2>4. UNCHANGED <<RunningIds, Held>>
    BY <2>3, SMTT(30) DEF RunningIds, Held, Pending, Queued
  <2>5. \A d \in Ids : fate'[d] = IF fate[d] = "held" THEN "dropped" ELSE fate[d]
    BY <2>1
  <2>6. LoopTypes'
    BY <1>4, <2>1, <2>2 DEF LoopTypes, PCs
  <2>7. KeysKnown' /\ WithinBounds'
    BY <1>4, <2>1, <2>3 DEF KeysKnown, WithinBounds
  <2>8. NotYetReceived'
    BY <1>4, <2>5 DEF NotYetReceived
  <2>9. TasksMatch' /\ Tracked'
    BY <1>4, <2>1, <2>4 DEF TasksMatch, Tracked
  <2>10. ~failure' => ~failure /\ \A d \in Ids : fate[d] \notin {"held", "failed"}
    BY <2>1, <2>2 DEF LoopKnows
  <2>11. FailuresKnown'
    BY <1>4, <2>1, <2>2, <2>3, <2>5, <2>10 DEF FailuresKnown, Stopping
  <2>12. LoopKnows'
    BY <2>1, <2>2, <2>5, <2>10 DEF LoopKnows, Main
  <2> QED
    BY <2>6, <2>7, <2>8, <2>9, <2>11, <2>12
<1> QED
  BY <1>5, <1>6, <1>7

(* Every step of the loop, its tasks, the source and the application keeps   *)
(* the invariant.                                                            *)
LEMMA SubscriptionStep ==
  ASSUME SubscriptionInv, Accounted, Moves, SchedulerInv', [RNext]_rvars
  PROVE  SubscriptionInv'
<1>2. CASE UNCHANGED rvars
  <2>1. UNCHANGED <<vars, pc, task, fate, shutdown, failure, keyOf, pendingKey, result, revoked, handoff>>
    BY <1>2 DEF rvars
  <2>2. Still
    BY <2>1 DEF Still, vars, callerVars, SubscriptionInv, LoopTypes
  <2>3. UNCHANGED <<Unstarted, CanStart, discarded>>
    BY <2>1 DEF vars, Unstarted, CanStart
  <2>4. LoopKnows'
    BY <2>1, <2>3 DEF SubscriptionInv, LoopKnows, Stopping
  <2> QED
    BY <2>1, <2>2, <2>4, StillStep DEF SubscriptionInv, KeysKnown, WithinBounds
<1> QED
  BY <1>2, LoopTurns, TaskEnds, TakesBack, Receives, Starts, Decodings, JobJoined, AckJoined, Ends
  DEF RNext, LoopStep, SourceStep, Terminated

-----------------------------------------------------------------------------
(* Every step keeps the promise of module DeliveryPromise.                   *)

phaseOf == IF pc = "finished" THEN "closed"
           ELSE IF Stopping \/ failure THEN "stopping" ELSE "running"

(* A settled delivery was held, and run had not returned.                    *)
LEMMA TaskKeepsPromise ==
  ASSUME SubscriptionInv, NEW d \in Ids, JobEnd(d) \/ AckEnd(d)
  PROVE  [Promise!Next]_Promise!promiseVars
<1>1. PICK f \in {"acked", "held", "failed", "dropped"} :
        /\ task[d] \in {"job", "ack"}
        /\ fate' = [fate EXCEPT ![d] = f]
        /\ f = "dropped" => d \in revoked
        /\ UNCHANGED <<pc, revoked, handoff, shutdown, failure, result>>
  BY DEF JobEnd, AckEnd, EndTask, tokens
<1>2. pc # "finished" /\ fate[d] = "held"
  <2>1. pc # "finished"
    BY <1>1 DEF SubscriptionInv, LoopKnows
  <2> QED
    BY <1>1, <2>1 DEF SubscriptionInv, Tracked
<1>3. phaseOf # "closed" /\ phaseOf' = phaseOf
  BY <1>1, <1>2 DEF phaseOf, Stopping
<1>4. CASE f = "held"
  <2>1. fate' = fate
    BY <1>1, <1>2, <1>4 DEF SubscriptionInv, LoopTypes
  <2> QED
    BY <1>1, <1>3, <2>1 DEF Promise!promiseVars, phaseOf
<1>5. CASE f # "held"
  <2>1. Promise!Settle(d, f)
    BY <1>1, <1>2, <1>3, <1>5 DEF Promise!Settle, phaseOf
  <2> QED
    BY <1>1, <1>3, <1>5, <2>1 DEF Promise!Next, phaseOf
<1> QED
  BY <1>4, <1>5

(* Deliveries are received only while the subscription runs.                 *)
LEMMA ReceiveKeepsPromise ==
  ASSUME SubscriptionInv, Accounted, Verify \/ \E k \in DOMAIN LanesOf : ReceiveMessage(k)
  PROVE  [Promise!Next]_Promise!promiseVars
<1>1. pc \in Main /\ pc' # "finished" /\ UNCHANGED <<revoked, handoff, result>> /\ ~failure
  BY DEF Verify, ReceiveMessage, MayReceive, tokens, Main, SubscriptionInv, LoopKnows
<1>2. CASE /\ fate' = [fate EXCEPT ![received + 1] = "held"] /\ received < MaxDeliveries
           /\ UNCHANGED <<shutdown, failure>> /\ ~Stopping
  <2>1. phaseOf = "running" /\ phaseOf' = "running"
    BY <1>1, <1>2 DEF phaseOf, Stopping, Main
  <2>2. received + 1 \in Ids /\ received + 1 > received
    BY <1>2, Facts, SMTT(30) DEF Ids
  <2>3. fate[received + 1] = "unreceived"
    BY <2>2 DEF SubscriptionInv, NotYetReceived
  <2>4. Promise!Receive(received + 1)
    BY <1>1, <1>2, <2>1, <2>3 DEF Promise!Receive, phaseOf
  <2> QED
    BY <2>2, <2>4 DEF Promise!Next
<1>3. CASE UNCHANGED fate /\ UNCHANGED <<shutdown, failure>>
  <2>1. phaseOf' = phaseOf
    BY <1>1, <1>3 DEF phaseOf, Stopping, Main
  <2> QED
    BY <1>1, <1>3, <2>1 DEF Promise!promiseVars, phaseOf
<1>4. CASE UNCHANGED fate /\ failure' = TRUE /\ ~Stopping
  <2>1. phaseOf = "running" /\ phaseOf' = "stopping"
    BY <1>1, <1>4 DEF phaseOf, Main
  <2>2. Promise!Stop
    BY <1>1, <1>4, <2>1 DEF Promise!Stop, phaseOf
  <2> QED
    BY <2>2 DEF Promise!Next
<1> QED
  BY <1>2, <1>3, <1>4 DEF Verify, ReceiveMessage, MayReceive, Admitted, Admit, Fails

(* Deliveries dropped before run returns: handed off, or while it stops.     *)
LEMMA DropKeepsPromise ==
  ASSUME SubscriptionInv, Accounted, Moves,
         DropHandedOff \/ DecodePanic \/ DiscardDecoding \/ DiscardQueued \/ DrainTimeout
  PROVE  [Promise!Next]_Promise!promiseVars
<1>1. /\ UNCHANGED <<revoked, handoff, result>> /\ pc # "finished" /\ pc' # "finished"
      /\ phaseOf # "closed" /\ Apart /\ Held \subseteq Ids
  BY Facts DEF DropHandedOff, DecodePanic, DiscardDecoding, DiscardQueued, DrainTimeout, tokens, phaseOf
<1>2. \A d \in Ids : d \in DecodingIds \cup PendingIds => fate[d] = "held"
  BY <1>1 DEF SubscriptionInv, Tracked
<1>3. ASSUME NEW D \in SUBSET {d \in Ids : fate[d] = "held"},
             fate' = [d \in Ids |-> IF d \in D THEN "dropped" ELSE fate[d]],
             phaseOf' = "stopping"
      PROVE  Promise!Next
  <2>1. Promise!DropSome
    BY <1>1, <1>3 DEF Promise!DropSome, phaseOf
  <2> QED
    BY <2>1 DEF Promise!Next
<1>4. CASE DropHandedOff
  <2> DEFINE h == Head(ready).id
  <2>1. /\ AbandonReady /\ h \in handoff /\ fate' = [fate EXCEPT ![h] = "dropped"]
        /\ UNCHANGED <<pc, shutdown, failure>>
    BY <1>4 DEF DropHandedOff
  <2>2. h \in Ids /\ h \in PendingIds
    BY <1>1, <2>1 DEF Moves, ReadyMoves, Apart
  <2> HIDE DEF h
  <2>3. Promise!Settle(h, "dropped") /\ phaseOf' = phaseOf
    BY <1>1, <1>2, <2>1, <2>2 DEF Promise!Settle, phaseOf, Stopping
  <2> QED
    BY <2>1, <2>2, <2>3 DEF Promise!Next, phaseOf
<1>5. CASE DecodePanic
  <2> DEFINE h == Head(admitted).id
  <2>1. admitted # <<>> /\ fate' = [fate EXCEPT ![h] = "failed"] /\ failure' = TRUE
    BY <1>5 DEF DecodePanic, LoseAdmission, Fails
  <2>2. h \in Ids /\ h \in DecodingIds
    BY <1>1, <2>1, OldestAdmission DEF Apart
  <2> HIDE DEF h
  <2>3. Promise!Settle(h, "failed") /\ phaseOf' = "stopping"
    BY <1>1, <1>2, <2>1, <2>2 DEF Promise!Settle, phaseOf
  <2> QED
    BY <2>2, <2>3 DEF Promise!Next, phaseOf
<1>6. CASE DiscardDecoding
  <2> DEFINE h == Head(admitted).id
  <2>1. /\ admitted # <<>> /\ fate' = [fate EXCEPT ![h] = "dropped"]
        /\ pc = "discard" /\ UNCHANGED <<pc, shutdown, failure>>
    BY <1>6 DEF DiscardDecoding, Withdraw
  <2>2. h \in Ids /\ h \in DecodingIds
    BY <1>1, <2>1, OldestAdmission DEF Apart
  <2> HIDE DEF h
  <2>3. {h} \in SUBSET {d \in Ids : fate[d] = "held"}
    BY <1>2, <2>2
  <2>4. fate' = [d \in Ids |-> IF d \in {h} THEN "dropped" ELSE fate[d]]
    BY <2>1, <2>2 DEF SubscriptionInv, LoopTypes
  <2>5. phaseOf' = "stopping"
    BY <2>1 DEF phaseOf, Stopping, SubscriptionInv, LoopKnows
  <2> QED
    BY <1>3, <2>3, <2>4, <2>5
<1>7. CASE DiscardQueued
  <2>1. /\ fate' = [d \in Ids |-> IF \E t \in Pending : t.id = d THEN "dropped" ELSE fate[d]]
        /\ pc = "discard" /\ pc' = "drain" /\ UNCHANGED <<shutdown, failure>>
    BY <1>7 DEF DiscardQueued
  <2>2. PendingIds \in SUBSET {d \in Ids : fate[d] = "held"}
    BY <1>1, <1>2 DEF Apart
  <2>3. fate' = [d \in Ids |-> IF d \in PendingIds THEN "dropped" ELSE fate[d]]
    BY <2>1 DEF PendingIds, IdsOf
  <2>4. phaseOf' = "stopping"
    BY <2>1 DEF phaseOf, Stopping, SubscriptionInv, LoopKnows
  <2> QED
    BY <1>3, <2>2, <2>3, <2>4
<1>8. CASE DrainTimeout
  <2> DEFINE D == {d \in Ids : fate[d] = "held" /\ \A t \in Pending : t.id # d}
  <2>1. fate' = [d \in Ids |-> IF d \in D THEN "dropped" ELSE fate[d]]
    BY <1>8 DEF DrainTimeout
  <2>2. phaseOf' = "stopping"
    BY <1>1, <1>8 DEF phaseOf, DrainTimeout, Fails
  <2>3. D \in SUBSET {d \in Ids : fate[d] = "held"}
    OBVIOUS
  <2> HIDE DEF D
  <2> QED
    BY <1>3, <2>1, <2>2, <2>3
<1> QED
  BY <1>4, <1>5, <1>6, <1>7, <1>8

(* run returns Ok only when nothing is left and nothing failed.              *)
LEMMA CleanupKeepsPromise ==
  ASSUME SubscriptionInv, Cleanup
  PROVE  Promise!Next
<1>1. /\ pc = "cleanup" /\ pc' = "finished" /\ UNCHANGED <<revoked, handoff>>
      /\ result' = IF failure' THEN "failed" ELSE "ok"
      /\ fate' = [d \in Ids |-> IF fate[d] = "held" THEN "dropped" ELSE fate[d]]
  BY DEF Cleanup, tokens
<1>2. failure => failure'
  BY DEF Cleanup
<1>3. result' = "ok" => \A d \in Ids : fate[d] \notin {"held", "failed"}
  BY <1>1, <1>2 DEF SubscriptionInv, LoopKnows
<1>4. phaseOf # "closed" /\ phaseOf' = "closed"
  BY <1>1 DEF phaseOf
<1>5. Promise!Close
  BY <1>1, <1>3, <1>4 DEF Promise!Close, phaseOf
<1> QED
  BY <1>5 DEF Promise!Next

(* The other steps settle nothing: they stop the subscription, excuse a      *)
(* delivery, or change nothing the promise speaks of.                        *)
LEMMA QuietKeepsPromise ==
  ASSUME SubscriptionInv, UNCHANGED <<fate, result>>,
         \/ /\ UNCHANGED <<revoked, handoff>>
            /\ failure => failure'
            /\ shutdown => shutdown'
            /\ pc = "finished" <=> pc' = "finished"
         \/ UNCHANGED <<pc, failure, shutdown>> /\ \E d \in Ids : TakeBack(d)
  PROVE  [Promise!Next]_Promise!promiseVars
<1>1. CASE /\ UNCHANGED <<revoked, handoff>>
           /\ failure => failure'
           /\ shutdown => shutdown'
           /\ pc = "finished" <=> pc' = "finished"
  <2>1. phaseOf' = phaseOf \/ (phaseOf = "running" /\ phaseOf' = "stopping")
    BY <1>1 DEF phaseOf, Stopping
  <2>2. CASE phaseOf' = phaseOf
    BY <1>1, <2>2 DEF Promise!promiseVars, phaseOf
  <2>3. CASE phaseOf = "running" /\ phaseOf' = "stopping"
    <3>1. Promise!Stop
      BY <1>1, <2>3 DEF Promise!Stop, phaseOf
    <3> QED
      BY <3>1 DEF Promise!Next
  <2> QED
    BY <2>1, <2>2, <2>3
<1>2. ASSUME UNCHANGED <<pc, failure, shutdown>>, NEW d \in Ids, TakeBack(d)
      PROVE  Promise!Next
  <2>1. fate[d] # "unreceived" /\ revoked' \cup handoff' = (revoked \cup handoff) \cup {d}
    BY <1>2 DEF TakeBack
  <2>2. phaseOf' = phaseOf
    BY <1>2 DEF phaseOf, Stopping
  <2>3. Promise!Excuse(d)
    BY <2>1, <2>2 DEF Promise!Excuse, phaseOf
  <2> QED
    BY <2>3 DEF Promise!Next
<1> QED
  BY <1>1, <1>2

=============================================================================
