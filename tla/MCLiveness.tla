----------------------------- MODULE MCLiveness -----------------------------
(***************************************************************************)
(* Small instances for TLC of what runs inside the process and must come to  *)
(* an end: the receive loop, transactional batches, the sinks, the channel   *)
(* between two subscriptions of an application, the HTTP source and the      *)
(* blocking pool.  The components do not meet here: a behaviour is one of    *)
(* `part`, and the others stay in an initial state.                          *)
(***************************************************************************)
EXTENDS MCTransactionBatch, HttpSource, BlockingPool

CONSTANTS k1, k2, NoKey, NoLane, a1, a2, a3

(* Requests, jobs and threads.                                               *)
Item == <<a1, a2, a3>>
MCItems == {a1, a2, a3}
MCThreads == {s1, s2}

VARIABLES
  part,
  \* PulsarSink
  output, producers, pulsarClosing, wire, channel, pending, awaited, resending,
  \* Sinks
  kind, out, on, link, links, locked, isClosed, sinkClosing, before, stored, paused,
  \* Pipeline
  ends, up, item, buffer, sender, receiver, sub, failed, appShutdown, joined, appFailure,
  \* Runtime
  ready, waiting, outstanding, flowOn, unfinished, flowPaused, changes, admitted, running,
  lost, received, lastStarted, discarded, pc, keyOf, task, fate, takenBack, handoff,
  srcPaused, loopShutdown, loopFailure, ended, verified, failures, pendingKey, result

Pulsar == INSTANCE PulsarSink WITH
  Outputs <- 2, MaxPending <- 1, MaxSends <- 2, closing <- pulsarClosing
Sink == INSTANCE Sinks WITH
  Outputs <- 2, MaxPending <- 1, QueueSize <- 1, MaxLinks <- 2, closing <- sinkClosing
App == INSTANCE Pipeline WITH
  Values <- {a1, a2}, Capacity <- 1, shutdown <- appShutdown, failure <- appFailure
Loop == INSTANCE Runtime WITH
  Keys <- {k1, k2}, Lanes <- {k1, k2}, LanesOf <- [k \in {k1} |-> {k}], Limit <- 1,
  MaxDeliveries <- 2, Concurrency <- 1, MaxInFlight <- 2, MaxAttempts <- 2,
  CanPause <- TRUE, StopsOnShutdown <- TRUE, MaxTakenBack <- 1, TasksFail <- TRUE,
  paused <- flowPaused, revoked <- takenBack, failure <- loopFailure, shutdown <- loopShutdown
(* As Loop, when handlers return and nothing fails.                          *)
Served == INSTANCE Runtime WITH
  Keys <- {k1, k2}, Lanes <- {k1, k2}, LanesOf <- [k \in {k1, k2} |-> {k}], Limit <- 1,
  MaxDeliveries <- 2, Concurrency <- 1, MaxInFlight <- 2, MaxAttempts <- 2,
  CanPause <- TRUE, StopsOnShutdown <- FALSE, MaxTakenBack <- 1, TasksFail <- FALSE,
  paused <- flowPaused, revoked <- takenBack, failure <- loopFailure, shutdown <- loopShutdown

pulsarState == <<output, producers, pulsarClosing, wire, channel, pending, awaited, resending>>
sinkState == <<kind, out, on, link, links, locked, isClosed, sinkClosing, before, stored, paused>>
appState == <<ends, up, item, buffer, sender, receiver, sub, failed, appShutdown, joined,
              appFailure>>
loopState == <<ready, waiting, outstanding, flowOn, unfinished, flowPaused, changes, admitted,
               running, lost, received, lastStarted, discarded, pc, keyOf, task, fate, takenBack,
               handoff, srcPaused, loopShutdown, loopFailure, ended, verified, failures, pendingKey,
               result>>
liveVars == <<part, pulsarState, sinkState, appState, httpVars, poolVars, loopState, vars>>

SinkOff == Sink!Init /\ kind = "kafka"
AppOff == App!Init /\ ends = "channel"
HttpOff == HttpInit /\ response = "ack"

LiveInit ==
  \/ part = "pulsar" /\ Pulsar!Init /\ SinkOff /\ AppOff /\ HttpOff /\ PoolInit /\ Loop!RInit /\ Init
  \/ part = "sink" /\ Sink!Init /\ Pulsar!Init /\ AppOff /\ HttpOff /\ PoolInit /\ Loop!RInit /\ Init
  \/ part = "app" /\ App!Init /\ Pulsar!Init /\ SinkOff /\ HttpOff /\ PoolInit /\ Loop!RInit /\ Init
  \/ part = "http" /\ HttpInit /\ Pulsar!Init /\ SinkOff /\ AppOff /\ PoolInit /\ Loop!RInit /\ Init
  \/ /\ part \in {"pool", "loop", "served", "batch"}
     /\ Pulsar!Init /\ SinkOff /\ AppOff /\ HttpOff /\ PoolInit /\ Loop!RInit /\ Init

Only(p) ==
  /\ part = p
  /\ UNCHANGED part
  /\ IF p = "pulsar" THEN TRUE ELSE UNCHANGED pulsarState
  /\ IF p = "sink" THEN TRUE ELSE UNCHANGED sinkState
  /\ IF p = "app" THEN TRUE ELSE UNCHANGED appState
  /\ IF p = "http" THEN TRUE ELSE UNCHANGED httpVars
  /\ IF p = "pool" THEN TRUE ELSE UNCHANGED poolVars
  /\ IF p \in {"loop", "served"} THEN TRUE ELSE UNCHANGED loopState
  /\ IF p = "batch" THEN TRUE ELSE UNCHANGED vars

LiveNext ==
  \/ Only("pulsar") /\ Pulsar!Next
  \/ Only("sink") /\ Sink!Next
  \/ Only("app") /\ App!Next
  \/ Only("http") /\ HttpNext
  \/ Only("pool") /\ PoolNext
  \/ Only("loop") /\ Loop!RNext
  \/ Only("served") /\ Served!RNext
  \/ Only("batch") /\ Next

(* The steps each component's specification is fair to.                      *)
LiveSteps ==
  \/ Only("pulsar") /\ Pulsar!Steps
  \/ Only("sink") /\ Sink!SinkSteps
  \/ Only("app") /\ App!Steps
  \/ Only("http") /\ Steps
  \/ Only("pool") /\ PoolSteps
  \/ Only("loop") /\ Loop!LoopStep
  \/ Only("served") /\ Served!LoopStep
  \/ Only("batch") /\ Committer

LiveSpec ==
  /\ LiveInit /\ [][LiveNext]_liveVars
  /\ WF_liveVars(LiveSteps)
  /\ \A d \in Ids : WF_liveVars(Only("batch") /\ (Answered(d) \/ DropTask(d)))
  /\ \A d \in 1..2 : /\ WF_liveVars(Only("served") /\ Served!JobEnd(d))
                   /\ WF_liveVars(Only("served") /\ Served!AckEnd(d))

-----------------------------------------------------------------------------
(* A delivery whose output went into a channel is acknowledged only after    *)
(* the receiving end has taken the value over, and run_until returns Ok only *)
(* when every subscription ended cleanly with nothing in flight.             *)
ChannelHandsOver ==
  App!TypeOK /\ App!UpstreamAckFollowsDownstream /\ App!CleanReturnSettles

(* A part that was asked to stop, and one that has stopped.                  *)
AskedToStop ==
  \/ part = "loop" /\ (Loop!Stopping \/ loopFailure)
  \/ part = "app" /\ (appShutdown \/ \E s \in App!Present : sub[s] = "failed")
  \/ part = "http" /\ state = "closing"
  \/ part = "pulsar" /\ pulsarClosing = "permits"
  \/ part = "pool" /\ pool = "dropped"
Stopped ==
  \/ part = "loop" /\ pc = "finished"
  \/ part = "app" /\ joined = App!Present
  \/ part = "http" /\ state = "closed"
  \/ part = "pulsar" /\ pulsarClosing = "done"
  \/ part = "pool" /\ \A w \in Workers : worker[w] = "exited"

(* What was asked to stop stops: the receive loop after shutdown or a        *)
(* failure (StopTerminates of Runtime), run_until and its subscriptions      *)
(* (ShutdownReturns of Pipeline), the HTTP source (CloseEnds), the Pulsar    *)
(* sink (CloseReturns) and the threads of a dropped pool (CallsEnd).  Only   *)
(* the HTTP source needs others for it: clients that finish what they send.  *)
StopsComplete == ClientsSend => (AskedToStop ~> Stopped)

(* Who waits for an answer, by number.                                       *)
Waits(n) ==
  \/ part = "batch" /\ n \in Ids /\ stage[n] = "enlisted"
  \/ part = "sink" /\ n \in 1..2 /\ out[n] \notin {"new"} \cup Sink!Results
  \/ part = "http" /\ handler[Item[n]] = "waiting"
  \/ part = "pool" /\ call[Item[n]] \in Pending
  \/ part = "served" /\ n \in 1..2 /\ <<k1, k2>>[n] \in srcPaused /\ pc \in Served!Main

(* Whoever waits is answered: an enlisted delivery by the committer          *)
(* (EnlistedIsAnswered of TransactionBatch), a submission by its sink        *)
(* (SubmitsEnd of Sinks), an HTTP request (EveryRequestAnswered), a call of  *)
(* the blocking pool (CallsEnd); and, if handlers return, a key the source   *)
(* was asked to pause is resumed or receiving stops (PausedKeyResumes).      *)
WaitsAreAnswered == \A n \in 1..3 : Waits(n) ~> ~Waits(n)
=============================================================================
