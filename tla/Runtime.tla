------------------------------- MODULE Runtime -------------------------------
(***************************************************************************)
(* A running subscription (src/subscription/runtime.rs): the receive loop,   *)
(* decoding, the jobs and pending acknowledgements it spawns, revocation and *)
(* handoff by the source, shutdown, draining and cleanup.                    *)
(*                                                                           *)
(* The loop is one task; pc says where it is, and between two of its awaits  *)
(* it is not interleaved with itself.  Jobs, acknowledgements, the source's  *)
(* revocations and shutdown run concurrently with it.  What a job does with  *)
(* its delivery is left out: it ends acknowledged, with an acknowledgement   *)
(* still pending, failed, or abandoned by a revocation.                      *)
(***************************************************************************)
EXTENDS Scheduler

CONSTANTS
  Concurrency,        \* jobs, and decodings, at the same time
  MaxInFlight,        \* received and unfinished deliveries
  MaxAttempts,        \* receive_retry.max_attempts
  LanesOf,            \* key of the source -> lanes the distribution may assign
  CanPause,           \* Source::pause returns true
  StopsOnShutdown,    \* Source::stops_on_shutdown
  MaxTakenBack,       \* bound: revocations and handoffs
  TasksFail           \* whether jobs, acknowledgements and decodings may fail

ASSUME RuntimeAssumption ==
  /\ Concurrency \in Nat \ {0}
  /\ MaxInFlight \in Nat \ {0}
  /\ MaxAttempts \in Nat \ {0}
  /\ DOMAIN LanesOf \subseteq MaybeKey
  /\ \A k \in DOMAIN LanesOf : LanesOf[k] \subseteq MaybeLane
  /\ MaxTakenBack \in Nat
  /\ {CanPause, StopsOnShutdown, TasksFail} \subseteq BOOLEAN

VARIABLES
  pc,          \* where the loop is
  keyOf,       \* delivery -> its ordering key
  task,        \* delivery -> its job or acknowledgement task
  fate,        \* delivery -> what became of it
  revoked,     \* deliveries whose revocation token is cancelled
  handoff,     \* deliveries whose handoff token is cancelled
  srcPaused,   \* keys the source keeps paused
  shutdown,    \* the application's shutdown token is cancelled
  failure,     \* failure.is_some()
  ended,       \* the source returned End
  verified,    \* the first delivery was verified
  failures,    \* consecutive failed receives
  pendingKey,  \* key of the delivery being verified
  result       \* what run returned

rvars == <<vars, pc, keyOf, task, fate, revoked, handoff, srcPaused, shutdown, failure,
           ended, verified, failures, pendingKey, result>>

Ids == 1..MaxDeliveries
Main == {"start", "select", "verify"}
PCs == Main \cup {"discard", "drain", "drainStart", "drainSelect", "cleanup",
                  "finished"}
JobEnds == {"jobDone", "jobPending", "jobFailed"}
AckEnds == {"ackDone", "ackFailed"}
Tasks == {"none", "job", "ack"} \cup JobEnds \cup AckEnds
Acks == {d \in Ids : task[d] \in {"ack"} \cup AckEnds}

(* The token the loop watches: the shutdown token, or one never cancelled.  *)
Stopping == StopsOnShutdown /\ shutdown

RInit ==
  /\ Init
  /\ pc = "start"
  /\ keyOf = [d \in Ids |-> NoKey]
  /\ task = [d \in Ids |-> "none"]
  /\ fate = [d \in Ids |-> "unreceived"]
  /\ revoked = {}
  /\ handoff = {}
  /\ srcPaused = {}
  /\ shutdown = FALSE
  /\ failure = FALSE
  /\ ended = FALSE
  /\ verified = FALSE
  /\ failures = 0
  /\ pendingKey = NoKey
  /\ result = "none"

tokens == <<revoked, handoff>>
receiving == <<keyOf, ended, verified, failures, pendingKey>>

(* failure = Some(..); shutdown.cancel().                                   *)
Fails == failure' = TRUE /\ shutdown' = TRUE

-----------------------------------------------------------------------------
(* start_ready: starts ready deliveries while a job slot is free; one that  *)
(* is being handed off is dropped instead.                                  *)

CanStart == Cardinality(running) < Concurrency /\ ready # <<>>

StartOne ==
  /\ pc \in {"start", "drainStart"}
  /\ CanStart
  /\ Head(ready).id \notin handoff
  /\ NextReady
  /\ task' = [task EXCEPT ![Head(ready).id] = "job"]
  /\ UNCHANGED <<pc, fate, tokens, srcPaused, shutdown, failure, receiving, result>>

DropHandedOff ==
  /\ pc \in {"start", "drainStart"}
  /\ CanStart
  /\ Head(ready).id \in handoff
  /\ AbandonReady
  /\ fate' = [fate EXCEPT ![Head(ready).id] = "dropped"]
  /\ UNCHANGED <<pc, task, tokens, srcPaused, shutdown, failure, receiving, result>>

(* The source's view after the taken requests are applied in order: the last *)
(* request for a key decides.                                               *)
Applied ==
  LET Decides(i, k) ==
        changes[i].key = k /\ \A j \in DOMAIN changes : changes[j].key = k => j <= i
  IN {k \in Keys :
        \/ \E i \in DOMAIN changes : Decides(i, k) /\ changes[i].op = "pause"
        \/ k \in srcPaused /\ \A i \in DOMAIN changes : changes[i].key # k}

(* A source that cannot pause refuses the first pause request; resume       *)
(* requests only follow pauses.                                             *)
ApplyFlow ==
  /\ pc = "start"
  /\ ~CanStart
  /\ pc' = "select"
  /\ \/ changes = <<>> /\ UNCHANGED <<vars, srcPaused>>
     \/ CanPause /\ TakeFlowChanges /\ srcPaused' = Applied
     \/ changes # <<>> /\ ~CanPause /\ DisableFlowControl /\ UNCHANGED srcPaused
  /\ UNCHANGED <<task, fate, tokens, shutdown, failure, receiving, result>>

-----------------------------------------------------------------------------
(* The biased select of the receive loop.  Leaving the loop after End keeps *)
(* the received deliveries, any other way discards the unstarted ones.      *)

NoneFinished == \A d \in Ids : task[d] \notin JobEnds \cup AckEnds

SelectStop ==
  /\ pc = "select"
  /\ Stopping
  /\ pc' = "discard"
  /\ UNCHANGED <<vars, task, fate, tokens, srcPaused, shutdown, failure, receiving, result>>

(* Mutant: the acknowledgement a finished job leaves pending is not spawned.*)
JoinJobDropsPending(t) ==
  /\ t \in running
  /\ \/ pc = "select" /\ ~Stopping
     \/ pc = "drainSelect"
  /\ \/ /\ task[t.id] \in {"jobDone", "jobPending"}
        /\ Complete(t)
        /\ pc' = IF pc = "select" THEN "start" ELSE "drain"
        /\ UNCHANGED <<failure, shutdown>>
     \/ /\ task[t.id] = "jobFailed"
        /\ LoseTicket(t)
        /\ pc' = IF pc = "select" THEN "discard" ELSE "drain"
        /\ Fails
  /\ task' = [task EXCEPT ![t.id] = "none"]
  /\ UNCHANGED <<fate, tokens, srcPaused, receiving, result>>

(* A finished job is joined in the receive loop or in the drain loop.       *)
JoinJob(t) ==
  /\ t \in running
  /\ \/ pc = "select" /\ ~Stopping
     \/ pc = "drainSelect"
  /\ \/ /\ task[t.id] \in {"jobDone", "jobPending"}
        /\ Complete(t)
        /\ task' = [task EXCEPT ![t.id] = IF @ = "jobPending" THEN "ack" ELSE "none"]
        /\ pc' = IF pc = "select" THEN "start" ELSE "drain"
        /\ UNCHANGED <<failure, shutdown>>
     \/ /\ task[t.id] = "jobFailed"
        /\ LoseTicket(t)
        /\ task' = [task EXCEPT ![t.id] = "none"]
        /\ pc' = IF pc = "select" THEN "discard" ELSE "drain"
        /\ Fails
  /\ UNCHANGED <<fate, tokens, srcPaused, receiving, result>>

JoinAck(d) ==
  /\ task[d] \in AckEnds
  /\ \/ pc = "select" /\ ~Stopping /\ \A e \in Ids : task[e] \notin JobEnds
     \/ pc = "drainSelect"
  /\ task' = [task EXCEPT ![d] = "none"]
  /\ \/ /\ task[d] = "ackDone"
        /\ pc' = IF pc = "select" THEN "start" ELSE "drain"
        /\ UNCHANGED <<failure, shutdown>>
     \/ /\ task[d] = "ackFailed"
        /\ pc' = IF pc = "select" THEN "discard" ELSE "drain"
        /\ Fails
  /\ UNCHANGED <<vars, fate, tokens, srcPaused, receiving, result>>

(* The oldest decoding finished: distribute gives the delivery its lane, or *)
(* none when it failed to decode.                                           *)
DecodeNext ==
  /\ \/ pc = "select" /\ ~Stopping /\ NoneFinished
     \/ pc = "drainSelect"
  /\ admitted # <<>>
  /\ \E l \in LanesOf[keyOf[Head(admitted).id]] \cup (IF TasksFail THEN {NoLane} ELSE {}) :
       Push(l)
  /\ pc' = IF pc = "select" THEN "start" ELSE "drain"
  /\ UNCHANGED <<task, fate, tokens, srcPaused, shutdown, failure, receiving, result>>

DecodePanic ==
  /\ TasksFail
  /\ \/ pc = "select" /\ ~Stopping /\ NoneFinished
     \/ pc = "drainSelect"
  /\ LoseAdmission
  /\ fate' = [fate EXCEPT ![Head(admitted).id] = "failed"]
  /\ pc' = IF pc = "select" THEN "discard" ELSE "drain"
  /\ Fails
  /\ UNCHANGED <<task, tokens, srcPaused, receiving, result>>

(* The receive branch.                                                      *)
MayReceive ==
  /\ pc = "select"
  /\ ~Stopping
  /\ NoneFinished
  /\ Cardinality(running) < Concurrency
  /\ Len(admitted) < Concurrency
  /\ outstanding < MaxInFlight

(* Mutant: the received deliveries are discarded after End.                 *)
ReceiveEndDiscards ==
  /\ MayReceive
  /\ ended' = TRUE
  /\ pc' = "discard"
  /\ UNCHANGED <<vars, task, fate, tokens, srcPaused, shutdown, failure, keyOf,
                 verified, failures, pendingKey, result>>

ReceiveEnd ==
  /\ MayReceive
  /\ ended' = TRUE
  /\ pc' = "drain"
  /\ UNCHANGED <<vars, task, fate, tokens, srcPaused, shutdown, failure, keyOf,
                 verified, failures, pendingKey, result>>

Admitted(k) ==
  /\ Admit(k)
  /\ keyOf' = [keyOf EXCEPT ![received + 1] = k]
  /\ fate' = [fate EXCEPT ![received + 1] = "held"]

ReceiveMessage(k) ==
  /\ MayReceive
  /\ received < MaxDeliveries
  /\ failures' = 0
  /\ IF verified
       THEN Admitted(k) /\ pc' = "start" /\ UNCHANGED pendingKey
       ELSE pc' = "verify" /\ pendingKey' = k /\ UNCHANGED <<vars, keyOf, fate>>
  /\ UNCHANGED <<task, tokens, srcPaused, shutdown, failure, ended, verified, result>>

(* The first delivery waits for the sink's check, or for the stop token,    *)
(* which abandons it.                                                       *)
Verify ==
  /\ pc = "verify"
  /\ pendingKey' = NoKey
  /\ \/ /\ Stopping
        /\ pc' = "discard"
        /\ UNCHANGED <<vars, keyOf, fate, verified, failure, shutdown>>
     \/ /\ ~Stopping
        /\ Admitted(pendingKey)
        /\ verified' = TRUE
        /\ pc' = "start"
        /\ UNCHANGED <<failure, shutdown>>
     \/ /\ ~Stopping
        /\ pc' = "discard"
        /\ Fails
        /\ UNCHANGED <<vars, keyOf, fate, verified>>
  /\ UNCHANGED <<task, tokens, srcPaused, ended, failures, result>>

ReceiveError(fatal) ==
  /\ MayReceive
  /\ IF fatal THEN UNCHANGED failures ELSE failures' = failures + 1
  /\ IF fatal \/ failures' >= MaxAttempts
       THEN pc' = "discard" /\ Fails
       ELSE pc' = "start" /\ UNCHANGED <<failure, shutdown>>
  /\ UNCHANGED <<vars, task, fate, tokens, srcPaused, keyOf, ended, verified, pendingKey,
                 result>>

-----------------------------------------------------------------------------
(* discard_unstarted, one withdrawn admission at a time.                    *)

DiscardDecoding ==
  /\ pc = "discard"
  /\ Withdraw
  /\ fate' = [fate EXCEPT ![Head(admitted).id] = "dropped"]
  /\ UNCHANGED <<pc, task, tokens, srcPaused, shutdown, failure, receiving, result>>

DiscardQueued ==
  /\ pc = "discard"
  /\ DiscardPending
  /\ fate' = [d \in Ids |-> IF \E t \in Pending : t.id = d THEN "dropped" ELSE fate[d]]
  /\ pc' = "drain"
  /\ UNCHANGED <<task, tokens, srcPaused, shutdown, failure, receiving, result>>

(* The drain loop.                                                          *)
Unstarted == admitted # <<>> \/ ready # <<>> \/ DOMAIN waiting # {}

(* Mutant: nothing is discarded any more once the loop drains.              *)
DrainTopKeepsAll ==
  /\ pc = "drain"
  /\ pc' = "drainStart"
  /\ UNCHANGED <<vars, task, fate, tokens, srcPaused, shutdown, failure, receiving, result>>

DrainTop ==
  /\ pc = "drain"
  /\ pc' = IF (Stopping \/ failure) /\ Unstarted THEN "discard" ELSE "drainStart"
  /\ UNCHANGED <<vars, task, fate, tokens, srcPaused, shutdown, failure, receiving, result>>

DrainWait ==
  /\ pc = "drainStart"
  /\ ~CanStart
  /\ pc' = "drainSelect"
  /\ UNCHANGED <<vars, task, fate, tokens, srcPaused, shutdown, failure, receiving, result>>

Idle == running = {} /\ Acks = {} /\ admitted = <<>>

DrainDone ==
  /\ pc = "drainSelect"
  /\ Idle
  /\ pc' = "cleanup"
  /\ UNCHANGED <<vars, task, fate, tokens, srcPaused, shutdown, failure, receiving, result>>

(* drain_timeout: decodings, jobs and acknowledgements are aborted.  What   *)
(* still waits for a job slot stays in the scheduler until run returns.     *)
DrainTimeout ==
  /\ pc = "drainSelect"
  /\ ~Idle
  /\ AbortAll
  /\ task' = [d \in Ids |-> "none"]
  /\ fate' = [d \in Ids |->
                IF fate[d] = "held" /\ (\A t \in Pending : t.id # d)
                THEN "dropped" ELSE fate[d]]
  /\ Fails
  /\ pc' = "cleanup"
  /\ UNCHANGED <<tokens, srcPaused, receiving, result>>

(* Closing the source, the sink and the dead-letter sink succeeds, fails or *)
(* times out; returning drops the deliveries left in the scheduler.         *)
Cleanup ==
  /\ pc = "cleanup"
  /\ \E closed \in BOOLEAN : failure' = (failure \/ ~closed)
  /\ shutdown' = (shutdown \/ failure')
  /\ result' = IF failure' THEN "failed" ELSE "ok"
  /\ fate' = [d \in Ids |-> IF fate[d] = "held" THEN "dropped" ELSE fate[d]]
  /\ pc' = "finished"
  /\ UNCHANGED <<vars, task, tokens, srcPaused, receiving>>

-----------------------------------------------------------------------------
(* Jobs and pending acknowledgements, each wrapped in abandon_on_revocation.*)

EndTask(d, from, to, f) ==
  /\ task[d] = from
  /\ task' = [task EXCEPT ![d] = to]
  /\ fate' = [fate EXCEPT ![d] = f]
  /\ UNCHANGED <<vars, pc, tokens, srcPaused, shutdown, failure, receiving, result>>

(* Mutant: a job is abandoned when any delivery is revoked.                 *)
JobEndAnyRevoked(d) ==
  \/ /\ revoked = {}
     /\ \/ EndTask(d, "job", "jobDone", "acked")
        \/ EndTask(d, "job", "jobPending", "held")
        \/ TasksFail /\ EndTask(d, "job", "jobFailed", "failed")
  \/ revoked # {} /\ EndTask(d, "job", "jobDone", "dropped")

JobEnd(d) ==
  \/ /\ d \notin revoked
     /\ \/ EndTask(d, "job", "jobDone", "acked")
        \/ EndTask(d, "job", "jobPending", "held")
        \/ TasksFail /\ EndTask(d, "job", "jobFailed", "failed")
  \/ d \in revoked /\ EndTask(d, "job", "jobDone", "dropped")

AckEnd(d) ==
  \/ /\ d \notin revoked
     /\ \/ EndTask(d, "ack", "ackDone", "acked")
        \/ TasksFail /\ EndTask(d, "ack", "ackFailed", "failed")
  \/ d \in revoked /\ EndTask(d, "ack", "ackDone", "dropped")

(* The source takes a delivery back, and the application shuts down.        *)
TakeBack(d) ==
  /\ fate[d] = "held"
  /\ Cardinality(revoked) + Cardinality(handoff) < MaxTakenBack
  /\ \/ revoked' = revoked \cup {d} /\ d \notin revoked /\ UNCHANGED handoff
     \/ handoff' = handoff \cup {d} /\ d \notin handoff /\ UNCHANGED revoked
  /\ UNCHANGED <<vars, pc, task, fate, srcPaused, shutdown, failure, receiving, result>>

Shutdown ==
  /\ ~shutdown
  /\ pc # "finished"
  /\ shutdown' = TRUE
  /\ UNCHANGED <<vars, pc, task, fate, tokens, srcPaused, failure, receiving, result>>

Terminated == pc = "finished" /\ UNCHANGED rvars

-----------------------------------------------------------------------------
LoopStep ==
  \/ StartOne \/ DropHandedOff \/ ApplyFlow
  \/ SelectStop \/ DecodeNext \/ DecodePanic
  \/ \E t \in running : JoinJob(t)
  \/ \E d \in Ids : JoinAck(d)
  \/ Verify
  \/ DiscardDecoding \/ DiscardQueued
  \/ DrainTop \/ DrainWait \/ DrainDone \/ DrainTimeout
  \/ Cleanup

SourceStep ==
  \/ ReceiveEnd
  \/ \E k \in DOMAIN LanesOf : ReceiveMessage(k)
  \/ \E fatal \in BOOLEAN : ReceiveError(fatal)

RNext ==
  \/ LoopStep
  \/ SourceStep
  \/ \E d \in Ids : JobEnd(d) \/ AckEnd(d) \/ TakeBack(d)
  \/ Shutdown
  \/ Terminated

RSpec == RInit /\ [][RNext]_rvars

(* The loop's task is polled when one of its awaits is ready, and timers    *)
(* fire.  Nothing is assumed of handlers, sinks or the source.              *)
LiveSpec == RSpec /\ WF_rvars(LoopStep)

(* Every handler returns and every submitted output completes.              *)
HandlersReturn ==
  \A d \in Ids : WF_rvars(JobEnd(d)) /\ WF_rvars(AckEnd(d))

-----------------------------------------------------------------------------
RTypeOK ==
  /\ TypeOK
  /\ pc \in PCs
  /\ keyOf \in [Ids -> MaybeKey]
  /\ task \in [Ids -> Tasks]
  /\ fate \in [Ids -> {"unreceived", "held", "acked", "dropped", "failed"}]
  /\ revoked \subseteq Ids /\ handoff \subseteq Ids
  /\ srcPaused \subseteq Keys
  /\ {shutdown, failure, ended, verified} \subseteq BOOLEAN
  /\ failures \in 0..MaxAttempts
  /\ pendingKey \in MaybeKey
  /\ result \in {"none", "ok", "failed"}

(* The documented bounds hold at every point of the loop: jobs and          *)
(* decodings up to concurrency, received and unfinished deliveries up to    *)
(* max_in_flight, although receiving is only guarded once per iteration.    *)
WithinLimits ==
  /\ Cardinality(running) <= Concurrency
  /\ Len(admitted) <= Concurrency
  /\ Cardinality(Held) <= MaxInFlight

(* A delivery is never run twice or run after it was settled: a running job *)
(* or acknowledgement belongs to a delivery still held, and every held      *)
(* delivery is somewhere: decoding, queued, running or being acknowledged.  *)
HeldIsTracked ==
  pc # "finished" => \A d \in Ids :
    (fate[d] = "held") <=>
      \/ \E i \in DOMAIN admitted : admitted[i].id = d
      \/ \E t \in Pending : t.id = d
      \/ task[d] \in {"job", "jobPending", "ack"}

(* Whenever the loop waits, the source keeps paused exactly the keys flow   *)
(* control asked it to: no request is lost or applied out of order.         *)
SourcePausedInSync ==
  pc = "select" /\ flowOn => srcPaused = paused

(* All of the above: what the loop keeps true between any two of its steps.  *)
RuntimeInv == RTypeOK /\ WithinLimits /\ HeldIsTracked /\ SourcePausedInSync

(* After End without shutdown or failure every received delivery is         *)
(* acknowledged, unless the source took it back: draining leaves nothing    *)
(* behind and a clean result means everything was processed.                *)
CleanEndSettlesAll ==
  pc = "finished" /\ result = "ok" /\ ~Stopping =>
    \A d \in 1..received : fate[d] = "acked" \/ d \in revoked \cup handoff

Promise == INSTANCE DeliveryPromise WITH
  Deliveries <- Ids,
  excused <- revoked \cup handoff,
  outcome <- result,
  phase <- IF pc = "finished" THEN "closed"
           ELSE IF Stopping \/ failure THEN "stopping" ELSE "running"

(* The subscription implements the promise of module DeliveryPromise.       *)
KeepsPromise == Promise!Spec

(* Once a task has failed, or the unstarted deliveries were discarded, the  *)
(* loop starts, decodes and receives nothing more: it calls next_ready,     *)
(* push, admit and the flow operations only while the scheduler's accounts  *)
(* are complete, which is what module Scheduler takes for granted.          *)
StartsNothingAfterLoss ==
  /\ pc \in Main => Active
  /\ pc = "drainStart" /\ CanStart => lost = {}
  /\ pc = "drainSelect" /\ admitted # <<>> => Active

(* Shutdown and failure both end the subscription, whatever handlers, sinks *)
(* and the source do, because draining and cleanup have deadlines.          *)
StopTerminates == (Stopping \/ failure) ~> (pc = "finished")

(* If handlers return, a key the source was asked to pause is resumed, or   *)
(* receiving stops.                                                         *)
PausedKeyResumes ==
  HandlersReturn =>
    \A k \in Keys : (k \in srcPaused) ~> (k \notin srcPaused \/ pc \notin Main)
=============================================================================
