---------------------------- MODULE Distribution ----------------------------
(***************************************************************************)
(* Which deliveries of a subscription are processed one at a time            *)
(* (src/distribution.rs, the adapters' distributions, the ordering scopes    *)
(* and message keys of their messages, and src/subscription/handler.rs for   *)
(* a stateful handler), what the builder accepts, and what this means to a   *)
(* store with state keys.                                                    *)
(*                                                                           *)
(* A log of deliveries is received in order.  Each is decoded and put in a   *)
(* lane; Scheduler.tla shows that a lane's jobs run one at a time in receive *)
(* order, so here a delivery starts once the jobs before it in its lane have *)
(* ended.  A job ends when its outputs are submitted: they, the transaction  *)
(* and the change of the state may still be open then.  Pre-handler          *)
(* middleware may change the handler's input, and the store computes its key *)
(* again from what the handler takes.  Processing.tla has the outputs, the   *)
(* failures' routing and revocations; here a delivery is processed, rejected *)
(* or skipped, its routing being part of its job.                            *)
(***************************************************************************)
EXTENDS Integers, Sequences, FiniteSets

CONSTANTS
  Subscriptions,   \* what the builder may be asked for
  Logs,            \* sequences of deliveries, in receive order
  Concurrency,     \* config.concurrency
  Attempts,        \* handler_retry.max_attempts
  None             \* no key, no value

(* A delivery has a partition and an offset, the key its platform gives it   *)
(* (record key, message group, session, ordering key), a Pulsar ordering     *)
(* key, and its payload: a value's encoding, None for none, or garbled.      *)
Garbled == "garbled"

VARIABLES
  sub,       \* the subscription
  log,       \* the deliveries
  step,      \* delivery -> how far it is
  attempts,  \* delivery -> handler attempts that failed
  changes    \* deliveries whose change the store holds, in commit order

distVars == <<sub, log, step, attempts, changes>>

Received == DOMAIN log
Finished == {"done", "rejected", "skipped"}

(* The job has ended: "holding" also holds its state entry until its outputs *)
(* complete, "waiting" waits for outputs or a transaction without one.       *)
JobEnded == Finished \cup {"holding", "waiting"}
DeliverySteps == JobEnded \cup {"received", "started", "begun", "handled"}

-----------------------------------------------------------------------------
(* What decoding yields.  Kafka and Pulsar keep a null value, which has no   *)
(* payload to decode; elsewhere no payload is an empty one, which the codec  *)
(* here refuses, and a Service Bus body that is not binary data fails too.   *)
kafka_decode(d) == d.payload
pulsar_decode(d) == d.payload
sqs_decode(d) == IF d.payload = None THEN Garbled ELSE d.payload
pubsub_decode(d) == IF d.payload = None THEN Garbled ELSE d.payload
rabbitmq_decode(d) == IF d.payload = None THEN Garbled ELSE d.payload
servicebus_decode(d) == IF d.payload = None THEN Garbled ELSE d.payload

decode(s, d) ==
  CASE s.platform = "kafka" -> kafka_decode(d)
    [] s.platform = "pulsar" -> pulsar_decode(d)
    [] s.platform = "sqs" -> sqs_decode(d)
    [] s.platform = "pubsub" -> pubsub_decode(d)
    [] s.platform = "rabbitmq" -> rabbitmq_decode(d)
    [] OTHER -> servicebus_decode(d)

-----------------------------------------------------------------------------
(* OrderingKey: a partition of a topic, or a key within one scope.           *)
Scope(index, key) == <<index, key>>
KeyedScope(index, key) == IF key = None THEN None ELSE Scope(index, key)

(* The scopes in which each source receives in order.                        *)
partition(d) == Scope(d.partition, None)
keyed_partition(d) ==
  KeyedScope(d.partition, IF d.ordering # None THEN d.ordering ELSE d.key)

kafka_ordering_key(d) == partition(d)
pulsar_ordering_key(s, d) ==
  CASE s.mode \in {"Exclusive", "Failover"} -> partition(d)
    [] s.mode = "KeyShared" -> keyed_partition(d)
    [] OTHER -> None
sqs_ordering_key(s, d) == IF s.mode = "fifo" THEN KeyedScope(0, d.key) ELSE None
pubsub_ordering_key(d) == KeyedScope(0, d.key)
rabbitmq_ordering_key(s) == IF s.mode = "ordered" THEN Scope(0, None) ELSE None

ordering_key(s, d) ==
  CASE s.platform = "kafka" -> kafka_ordering_key(d)
    [] s.platform = "pulsar" -> pulsar_ordering_key(s, d)
    [] s.platform = "sqs" -> sqs_ordering_key(s, d)
    [] s.platform = "pubsub" -> pubsub_ordering_key(d)
    [] s.platform = "rabbitmq" -> rabbitmq_ordering_key(s)
    [] OTHER -> None

(* RabbitMQ messages and values of a program have no message key.            *)
message_key(s, d) ==
  IF s.platform \in {"kafka", "pulsar", "sqs", "pubsub", "servicebus"} THEN d.key ELSE None

(* The records of a test source report their adapter's scopes: Pulsar's as   *)
(* an Exclusive subscription, RabbitMQ's as one that is not ordered.         *)
kafka_test_key(d) == partition(d)
pulsar_test_key(d) == partition(d)
sqs_test_key(s, d) == IF d.key = None \/ s.mode # "fifo" THEN None ELSE Scope(0, d.key)
pubsub_test_key(d) == IF d.key = None THEN None ELSE Scope(0, d.key)

test_key(s, d) ==
  CASE s.platform = "kafka" -> kafka_test_key(d)
    [] s.platform = "pulsar" -> pulsar_test_key(d)
    [] s.platform = "sqs" -> sqs_test_key(s, d)
    [] s.platform = "pubsub" -> pubsub_test_key(d)
    [] OTHER -> None

(* What the delivery reports to the runtime.                                 *)
ReportedKey(s, d) == IF s.test THEN test_key(s, d) ELSE ordering_key(s, d)

-----------------------------------------------------------------------------
(* The distributions.                                                        *)
SourceOrder(s, d) == ReportedKey(s, d)
KafkaByKey(s, d) ==
  IF message_key(s, d) = None THEN partition(d) ELSE Scope(d.partition, message_key(s, d))
PulsarByKey(d) == IF keyed_partition(d) = None THEN partition(d) ELSE keyed_partition(d)
Session(s, d) == KeyedScope(0, message_key(s, d))

AlwaysKeeps(by) == by # "Parallel"

keeps_source_order(by) == by \in {"SourceOrder", "Partition"}

DistributionKey(s, d) ==
  CASE s.by = "SourceOrder" -> SourceOrder(s, d)
    [] s.by = "Partition" -> partition(d)
    [] s.by = "KafkaByKey" -> KafkaByKey(s, d)
    [] s.by = "PulsarByKey" -> PulsarByKey(d)
    [] s.by = "Session" -> Session(s, d)
    [] s.by = "Value" -> Scope(0, decode(s, d))
    [] OTHER -> None

(* A handler takes the record, or its value: a null payload has none.        *)
Takes(s, value) == s.takes = "record" \/ value # None

(* The key a store keeps the state of a delivery under.  A key closure reads *)
(* what the handler takes.                                                   *)
MessageKey(s, d) == message_key(s, d)
ClosureKey(value) == <<value>>

StateKey(s, d, value) ==
  CASE ~Takes(s, value) -> None
    [] s.store = "MessageKey" -> MessageKey(s, d)
    [] s.store = "Closure" -> ClosureKey(value)
    [] OTHER -> None

Keyed(s) == s.store \in {"MessageKey", "Closure"}

IgnoresStateKey(s, d) == IF decode(s, d) = Garbled THEN None ELSE DistributionKey(s, d)

(* A keyed store replaces the distribution by the key of the decoded value;  *)
(* what cannot be decoded, or has no key, has no lane.                       *)
Lane(s, d) ==
  CASE decode(s, d) = Garbled -> None
    [] Keyed(s) -> StateKey(s, d, decode(s, d))
    [] OTHER -> DistributionKey(s, d)

(* What the builder accepts.  By type, only Kafka's sink is transactional    *)
(* and a keyed store takes no distribution.                                  *)
validate(s) ==
  /\ ~(s.transactional /\ s.store # "none")
  /\ s.transactional => keeps_source_order(s.by)

(* By type, only Kafka and Pulsar messages are distributed by partition; the *)
(* records of a RabbitMQ test source are not those of an ordered source.     *)
ASSUME SubscriptionsAreBuildable ==
  \A s \in Subscriptions :
    /\ s.by = "Partition" => s.platform \in {"kafka", "pulsar"}
    /\ s.platform = "rabbitmq" /\ s.test => s.mode # "ordered"
ASSUME LogsAreSequences == \A l \in Logs : Len(l) \in Nat /\ DOMAIN l = 1..Len(l)
ASSUME NoneIsNoScope == \A l \in Logs : \A i \in DOMAIN l : partition(l[i]) # None

(* A source returns the records of a partition in the order of their         *)
(* offsets; where it goes back, it returns again what it returned before.    *)
ASSUME RewindsRepeat ==
  \A l \in Logs : \A i, j \in DOMAIN l :
    i < j /\ l[i].partition = l[j].partition /\ l[j].offset <= l[i].offset =>
      \E k \in 1..i : l[k] = l[j]

(* A pre-handler hook that maps every value to one.                          *)
pre_handler(s, value) == IF s.rewrites /\ value # None THEN "x" ELSE value

-----------------------------------------------------------------------------
LaneOf(i) == Lane(sub, log[i])
Decoded(i) == decode(sub, log[i])
KeyAtBegin(i) == StateKey(sub, log[i], pre_handler(sub, Decoded(i)))

Running == {i \in Received : step[i] \notin JobEnded \cup {"received"}}
Advance(i, to) == step' = [step EXCEPT ![i] = to]

DistInit ==
  /\ sub \in {s \in Subscriptions : validate(s)}
  /\ log \in Logs
  /\ step = [i \in Received |-> "received"]
  /\ attempts = [i \in Received |-> 0]
  /\ changes = <<>>

LaneIsFree(i) ==
  LaneOf(i) # None =>
    \A j \in 1..(i - 1) : LaneOf(j) = LaneOf(i) => step[j] \in JobEnded

(* A delivery that did not decode is routed by the error policy.             *)
StartDelivery(i) ==
  /\ step[i] = "received"
  /\ LaneIsFree(i)
  /\ Cardinality(Running) < Concurrency
  /\ Advance(i, IF Decoded(i) = Garbled THEN "rejected" ELSE "started")
  /\ UNCHANGED <<sub, log, attempts, changes>>

(* A hook before the handler rejects the delivery or answers in its place;   *)
(* a transactional subscription then waits for the transaction.              *)
PreHandlerEnds(i) ==
  /\ step[i] = "started" /\ attempts[i] = 0
  /\ \E to \in {"rejected", "waiting"} \cup (IF sub.transactional THEN {} ELSE {"done"}) :
       Advance(i, to)
  /\ UNCHANGED <<sub, log, attempts, changes>>

(* Only Kafka reports positions, from its source or from a test source.      *)
HasPosition == sub.platform = "kafka"
CoversPartition(d, e) == d.partition = e.partition

is_covered_by(d, e) == d.partition = e.partition /\ d.offset <= e.offset

EntryOf(key) == {k \in DOMAIN changes : KeyAtBegin(changes[k]) = key}
Holds(j) == step[j] \in {"begun", "handled", "holding"}
IsHeld(key) == \E j \in Received : Holds(j) /\ KeyAtBegin(j) = key

Applied(i) ==
  LET entry == EntryOf(KeyAtBegin(i))
  IN  /\ HasPosition
      /\ \E k \in entry : (\A m \in entry : m <= k) /\ is_covered_by(log[i], log[changes[k]])

(* `begin` rejects a delivery without a key, waits for the key's entry and   *)
(* skips what the entry's last change covers.                                *)
BeginState(i) ==
  /\ Keyed(sub)
  /\ step[i] = "started"
  /\ IF KeyAtBegin(i) = None
     THEN Advance(i, "rejected")
     ELSE /\ ~IsHeld(KeyAtBegin(i))
          /\ Advance(i, IF Applied(i) THEN "skipped" ELSE "begun")
  /\ UNCHANGED <<sub, log, attempts, changes>>

(* The handler answers; before a retry the entry is let go.                  *)
Handle(i) ==
  /\ step[i] = IF Keyed(sub) THEN "begun" ELSE "started"
  /\ \/ /\ Takes(sub, Decoded(i))
        /\ Advance(i, "handled")
        /\ UNCHANGED attempts
     \/ Advance(i, "rejected") /\ UNCHANGED attempts
     \/ /\ Takes(sub, Decoded(i))
        /\ attempts[i] + 1 < Attempts
        /\ attempts' = [attempts EXCEPT ![i] = @ + 1]
        /\ Advance(i, "started")
  /\ UNCHANGED <<sub, log, changes>>

MayChange(i) == {changes} \cup (IF Keyed(sub) THEN {Append(changes, i)} ELSE {})

(* The outputs are complete when they are submitted, and a changed state is  *)
(* committed in the job; or one cannot be encoded or is rejected, and the    *)
(* change is dropped; or the job ends with outputs or its transaction open.  *)
Complete(i) ==
  /\ step[i] = "handled"
  /\ \/ ~sub.transactional /\ changes' \in MayChange(i) /\ Advance(i, "done")
     \/ Advance(i, "rejected") /\ UNCHANGED changes
     \/ Advance(i, IF Keyed(sub) THEN "holding" ELSE "waiting") /\ UNCHANGED changes
  /\ UNCHANGED <<sub, log, attempts>>

(* The open outputs complete, and a changed state is committed. *)
OutputsComplete(i) ==
  /\ \/ step[i] = "holding" /\ changes' \in MayChange(i)
     \/ step[i] = "waiting" /\ UNCHANGED changes
  /\ Advance(i, "done")
  /\ UNCHANGED <<sub, log, attempts>>

DistNext ==
  \E i \in Received :
    \/ StartDelivery(i) \/ PreHandlerEnds(i) \/ BeginState(i) \/ Handle(i)
    \/ Complete(i) \/ OutputsComplete(i)

DistSpec == DistInit /\ [][DistNext]_distVars

-----------------------------------------------------------------------------
(* Deliveries that share state use it one at a time in the order they were  *)
(* received, although a lane goes on while outputs are pending: once one has *)
(* begun on the state, every earlier one of its key is done with it, and     *)
(* holds no change that could still be committed (state/store.rs, state      *)
(* key.rs).  The two computations of the key, for the lane and in `begin`,   *)
(* must agree.                                                               *)
UsedState(j) == Holds(j) \/ step[j] = "skipped" \/ \E k \in DOMAIN changes : changes[k] = j

SharedStateInOrder ==
  \A i, j \in Received :
    /\ i < j
    /\ Decoded(i) # Garbled /\ Decoded(j) # Garbled
    /\ KeyAtBegin(i) # None /\ KeyAtBegin(i) = KeyAtBegin(j)
    /\ UsedState(j)
    => step[i] \in JobEnded \ {"holding"}

(* A distribution that keeps the source order, and so every transactional    *)
(* subscription, starts the decodable deliveries of one ordering scope of    *)
(* the source in receive order, each after the job of the one before has     *)
(* ended: it was routed, or its outputs were submitted or enlisted.  A test  *)
(* source keeps this as well.                                                *)
ScopeInOrder ==
  sub.transactional \/ (keeps_source_order(sub.by) /\ ~Keyed(sub)) =>
    \A i, j \in Received :
      /\ i < j
      /\ Decoded(i) # Garbled /\ Decoded(j) # Garbled
      /\ ordering_key(sub, log[i]) # None
      /\ ordering_key(sub, log[i]) = ordering_key(sub, log[j])
      /\ step[j] # "received"
      => step[i] \in JobEnded

(* A delivery is acknowledged unprocessed only when an earlier delivery of   *)
(* the same position was processed, or answered by a hook whose outputs may  *)
(* still be pending, or rejected (Begin::Applied, state/store.rs).           *)
AppliedIsHeld ==
  \A i \in Received :
    step[i] = "skipped" =>
      \E j \in Received :
        /\ j # i
        /\ log[j].partition = log[i].partition /\ log[j].offset = log[i].offset
        /\ step[j] \in {"done", "rejected", "waiting"}
=============================================================================
