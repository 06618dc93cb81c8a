---------------------------- MODULE MCComponents ----------------------------
(***************************************************************************)
(* Small instances for TLC of the brokers' sources and sinks, transactional  *)
(* batches, distributions, dead letters and the probes.  The components do   *)
(* not meet here: a behaviour is one of `part`, and the variables of the     *)
(* others stay 0 (those of Distribution in a state without deliveries, those *)
(* of TransactionBatch in its initial one).                                  *)
(***************************************************************************)
EXTENDS Distribution, TransactionBatch, TLC

CONSTANTS m1, m2

(* A clock in units of which `second` make one; a message is hidden for      *)
(* `visibility` of them and at most `limit`.  Calls are answered without     *)
(* delay in the `prompt` settings.                                           *)
Timing(second, visibility, limit, prompt, faults, ticks, messages, receipts) ==
  [second |-> second, visibility |-> visibility, limit |-> limit, prompt |-> prompt,
   faults |-> faults, bound |-> ticks, messages |-> messages, receipts |-> receipts]
SqsTimings ==
  {Timing(2, 3, 5, FALSE, TRUE, 4, {m1}, 1), Timing(2, 3, 5, FALSE, TRUE, 2, {m1}, 2),
   Timing(1, 3, 4, FALSE, FALSE, 1, {m1, m2}, 2), Timing(2, 2, 6, TRUE, FALSE, 6, {m1}, 1),
   Timing(3, 6, 9, TRUE, FALSE, 7, {m1}, 1)}

BusBound(deliveries, links, ticks) ==
  [deliveries |-> deliveries, links |-> links, ticks |-> ticks]
BusBounds == {BusBound(3, 1, 1), BusBound(1, 2, 4), BusBound(2, 2, 0)}

BusPlan(faults, signature, ticks) ==
  [faults |-> faults, signature |-> signature, ticks |-> ticks]
BusPlans ==
  {BusPlan({}, 0, 5), BusPlan({"fails"}, 0, 2), BusPlan({"refused"}, 0, 4),
   BusPlan({"slow"}, 0, 4), BusPlan({}, 2, 4), BusPlan({"requests"}, 0, 0)}

PulsarMessage(id, key, orderingKey) == [id |-> id, key |-> key, orderingKey |-> orderingKey]
PulsarLog ==
  (0 :> <<PulsarMessage(1, "a", "b"), PulsarMessage(2, "b", None)>>)
    @@ (1 :> <<PulsarMessage(3, "b", None), PulsarMessage(4, None, None)>>)
PulsarGarbled == {PulsarMessage(4, None, None)}

(* A delivery of one scope between two of another.                           *)
MCScopes == {m1, m2}
BatchScopes == [d \in 1..3 |-> IF d = 2 THEN m2 ELSE m1]

(* Deliveries: keys that repeat within and across partitions, a null         *)
(* payload, one that does not decode, and a redelivery.                      *)
Delivered(p, offset, key, ordering, payload) ==
  [partition |-> p, offset |-> offset, key |-> key, ordering |-> ordering,
   payload |-> payload]
MCLogs ==
  {<<Delivered(0, 0, "a", None, "x"), Delivered(0, 1, "a", "c", "y"),
     Delivered(0, 2, "b", "c", "x")>>,
   <<Delivered(0, 0, "a", None, "x"), Delivered(1, 0, "a", None, "x"),
     Delivered(0, 1, None, None, "y")>>,
   <<Delivered(0, 0, None, None, None), Delivered(0, 1, "a", None, Garbled),
     Delivered(0, 2, "a", None, "x")>>,
   <<Delivered(0, 0, "a", None, "x"), Delivered(0, 1, "b", None, "x"),
     Delivered(0, 0, "a", None, "x")>>}

(* Every distribution each platform's messages take.                         *)
Modes(p) ==
  CASE p = "pulsar" -> {"Exclusive", "KeyShared", "Shared"}
    [] p = "sqs" -> {"fifo", "standard"}
    [] p = "rabbitmq" -> {"ordered", "parallel"}
    [] OTHER -> {"any"}
Distributions(p) ==
  {"SourceOrder", "Parallel", "Value"} \cup
    CASE p = "kafka" -> {"Partition", "KafkaByKey"}
      [] p = "pulsar" -> {"Partition", "PulsarByKey"}
      [] p = "servicebus" -> {"Session"}
      [] OTHER -> {}
Stateless(p, mode, by) ==
  [platform |-> p, mode |-> mode, by |-> by, store |-> "none", takes |-> "value",
   transactional |-> FALSE, test |-> FALSE, rewrites |-> FALSE]
KafkaState(store, takes) ==
  [Stateless("kafka", "any", "SourceOrder") EXCEPT !.store = store, !.takes = takes]

MCSubscriptions ==
  LET plain == UNION {{Stateless(p, m, by) : m \in Modes(p), by \in Distributions(p)} :
                      p \in {"kafka", "pulsar", "sqs", "pubsub", "rabbitmq", "servicebus"}}
      stateful == {KafkaState(st, takes) : st \in {"MessageKey", "Closure"},
                                           takes \in {"record", "value"}}
      testable == {s \in plain : s.by = "SourceOrder" /\ s.mode \in {"any", "Exclusive", "fifo", "parallel"}}
                    \cup {s \in stateful : s.takes = "value"}
  IN  plain \cup stateful
        \cup {[s EXCEPT !.test = TRUE] : s \in testable}
        \cup {[s EXCEPT !.transactional = TRUE] :
                s \in {t \in plain \cup stateful : t.platform = "kafka"}}

(* Middleware that changes what the state key is computed from.              *)
MCRewriting == {[KafkaState("Closure", "value") EXCEPT !.rewrites = TRUE]}

VARIABLES
  part, timing, clock, conn, poll, buffered, lease, sqsRevoked, message, tries,
  releases, keeper, sqsQueue, issued, late, bound, now, link, state, broken, ended,
  serving, waiting, at, on, lock, cancelled, renewal, entity, plan, time, slot,
  slotHolder, lost, busConn, phase, began, expiries, wake, renewing, replaced, nextId,
  awaiting, replies, reply, subType, session, closedTo, turn, sent, got, passed, lanes,
  ack, failures, acked, connection, sessions, current, channel, consumerCancelled,
  ready, unacked, consumer, handed, settled, shut, exactlyOnce, opened, stream, retired,
  shutdown, streamState, item, from, leased, queuedAcks, watch, withdrawn, probeClock,
  status, receiveFailures, backoff, retries, in_flight, progress, connected,
  probeShutdown, loop, verified, probeFailure, left, held, retrying, stepped, emptied,
  report, output, producers, pulsarClosing, sends, resends, pending, awaited,
  resending, kind, out, sentOn, sinkLink, links,
  locked, isClosed, closing, before, stored, paused, platform, wire, rec, letterStage,
  hops, letter

Sqs == INSTANCE SqsSource WITH
  Messages <- {m1, m2}, Receipts <- 2, MaxAttempts <- 2, Timings <- SqsTimings,
  revoked <- sqsRevoked, queue <- sqsQueue
sqsState ==
  <<timing, clock, conn, poll, buffered, lease, sqsRevoked, message, tries, releases,
  keeper, sqsQueue, issued, late>>
SqsOff ==
  /\ timing = 0 /\ clock = 0 /\ conn = 0 /\ poll = 0 /\ buffered = 0 /\ lease = 0
  /\ sqsRevoked = 0 /\ message = 0 /\ tries = 0 /\ releases = 0 /\ keeper = 0
  /\ sqsQueue = 0 /\ issued = 0 /\ late = 0

Bus == INSTANCE ServiceBusSource WITH
  Entity <- {m1, m2}, Oversized <- {m2}, Deliveries <- 3, Links <- 2, Duration <- 3,
  MinLock <- 2, MaxLock <- 3, Bounds <- BusBounds
busState ==
  <<bound, now, link, state, broken, ended, serving, waiting, at, on, lock, cancelled,
  renewal, entity>>
BusOff ==
  /\ bound = 0 /\ now = 0 /\ link = 0 /\ state = 0 /\ broken = 0 /\ ended = 0
  /\ serving = 0 /\ waiting = 0 /\ at = 0 /\ on = 0 /\ lock = 0 /\ cancelled = 0
  /\ renewal = 0 /\ entity = 0

Connection == INSTANCE ServiceBusConnection WITH
  Entities <- {"a", "b"}, MaxConns <- 2, Lifetime <- 3, BeforeExpiry <- 1,
  MaxRequests <- 3, Plans <- BusPlans,
  conn <- busConn, answer <- reply
connectionState ==
  <<plan, time, slot, slotHolder, lost, busConn, phase, began, expiries, wake, renewing,
  replaced, nextId, awaiting, replies, reply>>
ConnectionOff ==
  /\ plan = 0 /\ time = 0 /\ slot = 0 /\ slotHolder = 0 /\ lost = 0 /\ busConn = 0
  /\ phase = 0 /\ began = 0 /\ expiries = 0 /\ wake = 0 /\ renewing = 0
  /\ replaced = 0 /\ nextId = 0 /\ awaiting = 0 /\ replies = 0 /\ reply = 0

Pulsar == INSTANCE PulsarSource WITH
  Count <- 2, Log <- PulsarLog, Garbled <- PulsarGarbled, MaxAttempts <- 2, None <- None
pulsarState ==
  <<subType, session, closedTo, turn, sent, got, passed, lanes, ack, failures, acked>>
PulsarOff ==
  /\ subType = 0 /\ session = 0 /\ closedTo = 0 /\ turn = 0 /\ sent = 0 /\ got = 0
  /\ passed = 0 /\ lanes = 0 /\ ack = 0 /\ failures = 0 /\ acked = 0

Rabbit == INSTANCE RabbitMqSource WITH
  Queue <- {m1, m2}, Prefetch <- 2, MaxSessions <- 2,
  cancelled <- consumerCancelled
rabbitState ==
  <<connection, sessions, current, channel, consumerCancelled, ready, unacked, consumer,
  handed, settled, shut>>
RabbitOff ==
  /\ connection = 0 /\ sessions = 0 /\ current = 0 /\ channel = 0
  /\ consumerCancelled = 0 /\ ready = 0 /\ unacked = 0 /\ consumer = 0 /\ handed = 0
  /\ settled = 0 /\ shut = 0

PubSub == INSTANCE PubSubSource WITH
  Messages <- {m1, m2}, MaxStreams <- 2,
  state <- streamState
pubsubState ==
  <<exactlyOnce, opened, stream, retired, shutdown, streamState, item, from, leased,
  queuedAcks, watch, withdrawn>>
PubSubOff ==
  /\ exactlyOnce = 0 /\ opened = 0 /\ stream = 0 /\ retired = 0 /\ shutdown = 0
  /\ streamState = 0 /\ item = 0 /\ from = 0 /\ leased = 0 /\ queuedAcks = 0
  /\ watch = 0 /\ withdrawn = 0

Probe == INSTANCE Health WITH
  Deliveries <- 2, StallTimeout <- 2, MaxFailures <- 2, MaxTime <- 3,
  clock <- probeClock,
  failures <- receiveFailures,
  shutdown <- probeShutdown,
  failure <- probeFailure
probeState ==
  <<probeClock, status, receiveFailures, backoff, retries, in_flight, progress,
  connected, probeShutdown, loop, verified, probeFailure, left, held, retrying, stepped, emptied,
  report>>
ProbeOff ==
  /\ probeClock = 0 /\ status = 0 /\ receiveFailures = 0 /\ backoff = 0
  /\ retries = 0 /\ in_flight = 0 /\ progress = 0 /\ connected = 0
  /\ probeShutdown = 0 /\ loop = 0 /\ verified = 0 /\ probeFailure = 0 /\ left = 0 /\ held = 0
  /\ retrying = 0 /\ stepped = 0 /\ emptied = 0 /\ report = 0

Resend == INSTANCE PulsarSink WITH
  Outputs <- 3, MaxPending <- 2, MaxSends <- 2,
  closing <- pulsarClosing,
  wire <- sends,
  channel <- resends
resendState ==
  <<output, producers, pulsarClosing, sends, resends, pending, awaited, resending>>
ResendOff ==
  /\ output = 0 /\ producers = 0 /\ pulsarClosing = 0 /\ sends = 0 /\ resends = 0
  /\ pending = 0 /\ awaited = 0 /\ resending = 0

Sink == INSTANCE Sinks WITH
  Outputs <- 3, MaxPending <- 2, QueueSize <- 1, MaxLinks <- 2,
  on <- sentOn,
  link <- sinkLink
sinkState ==
  <<kind, out, sentOn, sinkLink, links, locked, isClosed, closing, before, stored,
  paused>>
SinkOff ==
  /\ kind = 0 /\ out = 0 /\ sentOn = 0 /\ sinkLink = 0 /\ links = 0 /\ locked = 0
  /\ isClosed = 0 /\ closing = 0 /\ before = 0 /\ stored = 0 /\ paused = 0

Letter == INSTANCE Letters WITH
  Platforms <- {"kafka", "servicebus", "pulsar", "pubsub", "rabbitmq", "sqs"},
  MaxCount <- 2, MaxHops <- 3, PubSubAttributes <- 8, SqsAttributes <- 2,
  stage <- letterStage
letterState ==
  <<platform, wire, rec, letterStage, hops, letter>>
LetterOff ==
  /\ platform = 0 /\ wire = 0 /\ rec = 0 /\ letterStage = 0 /\ hops = 0 /\ letter = 0

DistributionOff ==
  /\ sub = CHOOSE s \in Subscriptions : TRUE
  /\ log = <<>> /\ step = <<>> /\ attempts = <<>> /\ changes = <<>>

-----------------------------------------------------------------------------
ComponentsInit ==
  \/ part = "sqs" /\ Sqs!Init /\ DistributionOff
     /\ BusOff /\ ConnectionOff /\ PulsarOff /\ RabbitOff /\ PubSubOff /\ ProbeOff
     /\ ResendOff /\ SinkOff /\ Init /\ LetterOff
  \/ part = "servicebus" /\ Bus!Init /\ DistributionOff
     /\ SqsOff /\ ConnectionOff /\ PulsarOff /\ RabbitOff /\ PubSubOff /\ ProbeOff
     /\ ResendOff /\ SinkOff /\ Init /\ LetterOff
  \/ part = "connection" /\ Connection!Init /\ DistributionOff
     /\ SqsOff /\ BusOff /\ PulsarOff /\ RabbitOff /\ PubSubOff /\ ProbeOff
     /\ ResendOff /\ SinkOff /\ Init /\ LetterOff
  \/ part = "pulsar" /\ Pulsar!Init /\ DistributionOff
     /\ SqsOff /\ BusOff /\ ConnectionOff /\ RabbitOff /\ PubSubOff /\ ProbeOff
     /\ ResendOff /\ SinkOff /\ Init /\ LetterOff
  \/ part = "rabbitmq" /\ Rabbit!Init /\ DistributionOff
     /\ SqsOff /\ BusOff /\ ConnectionOff /\ PulsarOff /\ PubSubOff /\ ProbeOff
     /\ ResendOff /\ SinkOff /\ Init /\ LetterOff
  \/ part = "pubsub" /\ PubSub!Init /\ DistributionOff
     /\ SqsOff /\ BusOff /\ ConnectionOff /\ PulsarOff /\ RabbitOff /\ ProbeOff
     /\ ResendOff /\ SinkOff /\ Init /\ LetterOff
  \/ part = "health" /\ Probe!Init /\ DistributionOff
     /\ SqsOff /\ BusOff /\ ConnectionOff /\ PulsarOff /\ RabbitOff /\ PubSubOff
     /\ ResendOff /\ SinkOff /\ Init /\ LetterOff
  \/ part = "pulsar sink" /\ Resend!Init /\ DistributionOff
     /\ SqsOff /\ BusOff /\ ConnectionOff /\ PulsarOff /\ RabbitOff /\ PubSubOff
     /\ ProbeOff /\ SinkOff /\ Init /\ LetterOff
  \/ part = "sink" /\ Sink!Init /\ DistributionOff
     /\ SqsOff /\ BusOff /\ ConnectionOff /\ PulsarOff /\ RabbitOff /\ PubSubOff
     /\ ProbeOff /\ ResendOff /\ Init /\ LetterOff
  \/ part = "batch" /\ Init /\ DistributionOff
     /\ SqsOff /\ BusOff /\ ConnectionOff /\ PulsarOff /\ RabbitOff /\ PubSubOff
     /\ ProbeOff /\ ResendOff /\ SinkOff /\ LetterOff
  \/ part = "letters" /\ Letter!Init /\ DistributionOff
     /\ SqsOff /\ BusOff /\ ConnectionOff /\ PulsarOff /\ RabbitOff /\ PubSubOff
     /\ ProbeOff /\ ResendOff /\ SinkOff /\ Init
  \/ part = "distribution" /\ DistInit
     /\ SqsOff /\ BusOff /\ ConnectionOff /\ PulsarOff /\ RabbitOff /\ PubSubOff
     /\ ProbeOff /\ ResendOff /\ SinkOff /\ Init /\ LetterOff

ComponentsNext ==
  \/ /\ part = "sqs" /\ Sqs!Next
     /\ UNCHANGED
          <<part, distVars, busState, connectionState, pulsarState, rabbitState,
          pubsubState, probeState, resendState, sinkState, vars, letterState>>
  \/ /\ part = "servicebus" /\ Bus!Next
     /\ UNCHANGED
          <<part, distVars, sqsState, connectionState, pulsarState, rabbitState,
          pubsubState, probeState, resendState, sinkState, vars, letterState>>
  \/ /\ part = "connection" /\ Connection!Next
     /\ UNCHANGED
          <<part, distVars, sqsState, busState, pulsarState, rabbitState, pubsubState,
          probeState, resendState, sinkState, vars, letterState>>
  \/ /\ part = "pulsar" /\ Pulsar!Next
     /\ UNCHANGED
          <<part, distVars, sqsState, busState, connectionState, rabbitState,
          pubsubState, probeState, resendState, sinkState, vars, letterState>>
  \/ /\ part = "rabbitmq" /\ Rabbit!Next
     /\ UNCHANGED
          <<part, distVars, sqsState, busState, connectionState, pulsarState,
          pubsubState, probeState, resendState, sinkState, vars, letterState>>
  \/ /\ part = "pubsub" /\ PubSub!Next
     /\ UNCHANGED
          <<part, distVars, sqsState, busState, connectionState, pulsarState,
          rabbitState, probeState, resendState, sinkState, vars, letterState>>
  \/ /\ part = "health" /\ Probe!Next
     /\ UNCHANGED
          <<part, distVars, sqsState, busState, connectionState, pulsarState,
          rabbitState, pubsubState, resendState, sinkState, vars, letterState>>
  \/ /\ part = "pulsar sink" /\ Resend!Next
     /\ UNCHANGED
          <<part, distVars, sqsState, busState, connectionState, pulsarState,
          rabbitState, pubsubState, probeState, sinkState, vars, letterState>>
  \/ /\ part = "sink" /\ Sink!Next
     /\ UNCHANGED
          <<part, distVars, sqsState, busState, connectionState, pulsarState,
          rabbitState, pubsubState, probeState, resendState, vars, letterState>>
  \/ /\ part = "batch" /\ Next
     /\ UNCHANGED
          <<part, distVars, sqsState, busState, connectionState, pulsarState,
          rabbitState, pubsubState, probeState, resendState, sinkState, letterState>>
  \/ /\ part = "letters" /\ Letter!Next
     /\ UNCHANGED
          <<part, distVars, sqsState, busState, connectionState, pulsarState,
          rabbitState, pubsubState, probeState, resendState, sinkState, vars>>
  \/ /\ part = "distribution" /\ DistNext
     /\ UNCHANGED
          <<part, sqsState, busState, connectionState, pulsarState, rabbitState,
          pubsubState, probeState, resendState, sinkState, vars, letterState>>

componentVars ==
  <<part, distVars, sqsState, busState, connectionState, pulsarState, rabbitState,
  pubsubState, probeState, resendState, sinkState, vars, letterState>>

ComponentsSpec == ComponentsInit /\ [][ComponentsNext]_componentVars

-----------------------------------------------------------------------------
(* SQS: a lease never outlasts the visibility SQS granted, a released        *)
(* message stays visible, and close releases what it holds.                  *)
SqsLeases ==
  part = "sqs" =>
    Sqs!TypeOK /\ Sqs!LeaseIsConservative /\ Sqs!ReleasedStaysVisible /\ Sqs!CloseReleases

(* SQS: while calls are answered promptly a held message stays invisible to  *)
(* other consumers until the configured limit.                               *)
SqsKeepsInvisible == part = "sqs" => Sqs!KeepsInvisible

(* Service Bus: a lock the source trusts is one the entity still holds,      *)
(* deliveries are handed out in the order they arrived, a closed source      *)
(* holds nothing, and a delivery nothing renews any more is revoked.         *)
BusLocks ==
  part = "servicebus" =>
    /\ Bus!TypeOK /\ Bus!LockIsConservative /\ Bus!HeldIsRenewedOrRevoked
    /\ Bus!ReceivesInOrder /\ Bus!ClosedHoldsNothing

(* Service Bus connection: links work on tokens that have not expired, one   *)
(* connection is shared until it is lost, and a management reply reaches the *)
(* request it answers.                                                       *)
BusConnection ==
  part = "connection" =>
    Connection!TokensOutlast /\ Connection!SharedUntilLost /\ Connection!AnswersOwn

(* Pulsar: lanes are the scopes in which the broker orders deliveries, no    *)
(* partition starves another, and an acknowledgement reports what the broker *)
(* answered.                                                                 *)
PulsarReceives ==
  part = "pulsar" =>
    Pulsar!LanesFollowBroker /\ Pulsar!ServedInRound /\ Pulsar!AckOutcomes

(* RabbitMQ and Pub/Sub sessions: a delivery that the broker redelivers was  *)
(* revoked first, and acknowledgements accepted before close are sent.       *)
SessionsSettle ==
  /\ part = "rabbitmq" => Rabbit!RedeliveredIsRevoked
  /\ part = "pubsub" => PubSub!ClosedSendsAcks

(* The probes: a subscription is reported stalled or not ready only when it  *)
(* is, and reported ready only when it can make progress.                    *)
ProbesTell == part = "health" => Probe!TypeOK /\ Probe!StallIsReal /\ Probe!ReadyIsReal

(* Sinks complete what they accept: the Pulsar task resends every round in   *)
(* the order of submission and its close waits for outcomes; the other sinks *)
(* report as published only what the broker stored, resume a failed ordering *)
(* key, and close after what was sent before it.                             *)
SinksComplete ==
  /\ part = "pulsar sink" => Resend!TypeOK /\ Resend!RoundsInOrder /\ Resend!CloseAwaitsOutcomes
  /\ part = "sink" => Sink!OkIsStored /\ Sink!KeyResumes /\ Sink!CloseWaits

=============================================================================
