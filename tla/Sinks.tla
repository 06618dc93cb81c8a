------------------------------- MODULE Sinks --------------------------------
(***************************************************************************)
(* The broker sinks: how an output is submitted, completed and retried     *)
(* past a lost link, and what close waits for.  A behaviour is of one kind *)
(* of sink: Kafka (adapters/kafka/sink.rs), Service Bus                    *)
(* (servicebus/sink.rs), RabbitMQ (rabbitmq/sink.rs), Pub/Sub              *)
(* (pubsub/sink.rs), SQS (sqs/sink.rs) or HTTP (http/sink.rs).  The first  *)
(* three bound their outstanding outputs with adapters/pending.rs.  The    *)
(* Pulsar sink, which sends again by itself, is PulsarSink.                *)
(***************************************************************************)
EXTENDS Naturals, Sequences, FiniteSets

CONSTANTS Outputs,     \* outputs 1 .. Outputs
          MaxPending,  \* permits
          QueueSize,   \* records the Kafka producer queues
          MaxLinks     \* bound: channels or links opened

VARIABLES
  kind,      \* the sink
  out,       \* output -> where its submission is, or its result
  on,        \* output -> the link it was sent on
  link,      \* the slot: the channel or publisher in use, 0 for none
  links,     \* link -> "up", "lost", "closed"
  locked,    \* the output inside the slot's lock, 0 for none
  isClosed,  \* State::closed, with PendingLimit::close
  closing,   \* "no", "begun", "waiting", "last", "done", "timeout"
  before,    \* outputs sent when close began
  stored,    \* outputs the broker has
  paused     \* whether the Pub/Sub client has paused the ordering key

sinkVars == <<kind, out, on, link, links, locked, isClosed, closing, before, stored, paused>>
closeVars == <<isClosed, closing, before>>

Kinds == {"kafka", "bus", "rabbit", "pubsub", "sqs", "http"}
Results == {"ok", "error", "rejected"}
All == 1 .. Outputs

Init ==
  /\ kind \in Kinds
  /\ out = [o \in All |-> "new"] /\ on = [o \in All |-> 0]
  /\ link = 0 /\ links = <<>> /\ locked = 0
  /\ isClosed = FALSE /\ closing = "no" /\ before = {}
  /\ stored = {} /\ paused = FALSE

To(o, where) == out' = [out EXCEPT ![o] = where]
Up(l) == l # 0 /\ links[l] = "up"

(***************************************************************************)
(* PendingLimit: a permit is held from acquire until the completion        *)
(* resolves or the submission fails.                                       *)
(***************************************************************************)
Holders == {o \in All : out[o] \in {"permit", "locked", "channel", "sent"}}

Acquire(o) ==
  /\ \/ kind = "kafka" /\ out[o] = "ready"
     \/ kind \in {"bus", "rabbit"} /\ out[o] = "new"
  /\ IF isClosed THEN To(o, "error")
     ELSE Cardinality(Holders) < MaxPending /\ To(o, "permit")
  /\ UNCHANGED <<kind, on, link, links, locked, closeVars, stored, paused>>

(***************************************************************************)
(* Kafka: the closed check and the shared producer come before the permit. *)
(***************************************************************************)
KafkaProducer(o) ==
  /\ kind = "kafka" /\ out[o] = "new"
  /\ \/ To(o, IF isClosed THEN "error" ELSE "ready")
     \/ To(o, "error")
  /\ UNCHANGED <<kind, on, link, links, locked, closeVars, stored, paused>>

(* enqueue waits while the producer's queue is full, and may fail. *)
KafkaEnqueue(o) ==
  /\ kind = "kafka" /\ out[o] = "permit"
  /\ \/ Cardinality({p \in All : out[p] = "sent"}) < QueueSize /\ To(o, "sent")
     \/ To(o, "error")
  /\ UNCHANGED <<kind, on, link, links, locked, closeVars, stored, paused>>

KafkaDelivered(o) ==
  /\ kind = "kafka" /\ out[o] = "sent"
  /\ \/ To(o, "ok") /\ stored' = stored \cup {o}
     \/ To(o, "error") /\ stored' \in {stored, stored \cup {o}}
  /\ UNCHANGED <<kind, on, link, links, locked, closeVars, paused>>

(***************************************************************************)
(* Service Bus: connecting and sending under the publisher's lock.         *)
(***************************************************************************)
BusLock(o) ==
  /\ kind = "bus" /\ out[o] = "permit" /\ locked = 0
  /\ IF isClosed THEN To(o, "error") /\ UNCHANGED locked
     ELSE To(o, "locked") /\ locked' = o
  /\ UNCHANGED <<kind, on, link, links, closeVars, stored, paused>>

Open == links' = Append(links, "up") /\ link' = Len(links) + 1

BusConnect(o) ==
  /\ kind = "bus" /\ locked = o /\ link = 0
  /\ \/ Len(links) < MaxLinks /\ Open /\ UNCHANGED <<out, locked>>
     \/ To(o, "error") /\ locked' = 0 /\ UNCHANGED <<links, link>>
  /\ UNCHANGED <<kind, on, closeVars, stored, paused>>

(* A message too large leaves the link as it is; any other failure gives   *)
(* the link up, to be closed in the background.                            *)
BusSend(o) ==
  /\ kind = "bus" /\ locked = o /\ link # 0
  /\ locked' = 0
  /\ \/ Up(link) /\ To(o, "sent") /\ on' = [on EXCEPT ![o] = link] /\ UNCHANGED link
     \/ Up(link) /\ To(o, "rejected") /\ UNCHANGED <<on, link>>
     \/ To(o, "error") /\ link' = 0 /\ UNCHANGED on
  /\ UNCHANGED <<kind, links, closeVars, stored, paused>>

BusOutcome(o) ==
  /\ kind = "bus" /\ out[o] = "sent"
  /\ \/ Up(on[o]) /\ To(o, "ok") /\ stored' = stored \cup {o}
     \/ Up(on[o]) /\ To(o, "error") /\ UNCHANGED stored
     \/ ~Up(on[o]) /\ To(o, "error") /\ stored' \in {stored, stored \cup {o}}
  /\ UNCHANGED <<kind, on, link, links, locked, closeVars, paused>>

(***************************************************************************)
(* RabbitMQ: the lock covers the channel; publishing follows without it.   *)
(***************************************************************************)
RabbitChannel(o) ==
  /\ kind = "rabbit" /\ out[o] = "permit" /\ locked = 0
  /\ IF isClosed THEN To(o, "error") /\ UNCHANGED <<on, link, locked>>
     ELSE IF Up(link)
     THEN To(o, "channel") /\ on' = [on EXCEPT ![o] = link] /\ UNCHANGED <<link, locked>>
     ELSE To(o, "locked") /\ link' = 0 /\ locked' = o /\ UNCHANGED on
  /\ UNCHANGED <<kind, links, closeVars, stored, paused>>

(* A new channel with publisher confirms, or a failed submission. *)
RabbitOpen(o) ==
  /\ kind = "rabbit" /\ locked = o
  /\ locked' = 0
  /\ \/ /\ Len(links) < MaxLinks /\ Open
        /\ To(o, "channel") /\ on' = [on EXCEPT ![o] = link']
     \/ To(o, "error") /\ UNCHANGED <<links, link, on>>
  /\ UNCHANGED <<kind, closeVars, stored, paused>>

RabbitPublish(o) ==
  /\ kind = "rabbit" /\ out[o] = "channel"
  /\ To(o, IF Up(on[o]) THEN "sent" ELSE "error")
  /\ UNCHANGED <<kind, on, link, links, locked, closeVars, stored, paused>>

(* confirmed: an acknowledgement of a message that was returned, as no     *)
(* queue takes it, is a failure, and so is a nack.  Messages are published *)
(* as mandatory, the default; for a sink with mandatory(false) the broker  *)
(* confirms and drops what no queue takes, as that setting says.           *)
confirmed(answer) == IF answer = "ack" THEN "ok" ELSE "error"

RabbitConfirm(o) ==
  /\ kind = "rabbit" /\ out[o] = "sent"
  /\ \/ \E answer \in {"ack", "returned", "nack"} :
          /\ Up(on[o]) /\ To(o, confirmed(answer))
          /\ stored' = IF answer = "ack" THEN stored \cup {o} ELSE stored
     \/ ~Up(on[o]) /\ To(o, "error") /\ stored' \in {stored, stored \cup {o}}
  /\ UNCHANGED <<kind, on, link, links, locked, closeVars, paused>>

(* A connection, a channel or a link is lost. *)
Lose(l) ==
  /\ kind \in {"bus", "rabbit"} /\ l \in DOMAIN links /\ links[l] = "up"
  /\ links' = [links EXCEPT ![l] = "lost"]
  /\ UNCHANGED <<kind, out, on, link, locked, closeVars, stored, paused>>

(***************************************************************************)
(* Pub/Sub: outputs of one ordering key through one client.                *)
(***************************************************************************)
PubSubPublish(o) ==
  /\ kind = "pubsub" /\ out[o] = "new"
  /\ \/ To(o, IF isClosed THEN "error" ELSE "sent")
     \/ To(o, "error")
  /\ UNCHANGED <<kind, on, link, links, locked, closeVars, stored, paused>>

(* A failure pauses the key in the client, which fails what it has of it. *)
PubSubAnswered(o) ==
  /\ kind = "pubsub" /\ out[o] = "sent"
  /\ \/ ~paused /\ To(o, "ok") /\ stored' = stored \cup {o} /\ UNCHANGED paused
     \/ To(o, "failed") /\ paused' = TRUE /\ stored' \in {stored, stored \cup {o}}
  /\ UNCHANGED <<kind, on, link, links, locked, closeVars>>

(* The rest of publish after an error: resume_publish, then the error. *)
PubSubFails(o) ==
  /\ kind = "pubsub" /\ out[o] = "failed"
  /\ paused' = FALSE
  /\ To(o, "error") \/ To(o, "rejected")
  /\ UNCHANGED <<kind, on, link, links, locked, closeVars, stored>>

(***************************************************************************)
(* SQS and HTTP: one request for each publication.                         *)
(***************************************************************************)
SqsPublish(o) ==
  /\ kind = "sqs" /\ out[o] = "new"
  /\ \/ To(o, IF isClosed THEN "error" ELSE "sent")
     \/ To(o, "error")
  /\ UNCHANGED <<kind, on, link, links, locked, closeVars, stored, paused>>

(* Stored; refused whatever the attempt; or another failure. *)
SqsAnswered(o) ==
  /\ kind = "sqs" /\ out[o] = "sent"
  /\ \/ To(o, "ok") /\ stored' = stored \cup {o}
     \/ To(o, "rejected") /\ UNCHANGED stored
     \/ To(o, "error") /\ stored' \in {stored, stored \cup {o}}
  /\ UNCHANGED <<kind, on, link, links, locked, closeVars, paused>>

HttpClient(o) ==
  /\ kind = "http" /\ out[o] = "new"
  /\ \/ To(o, IF isClosed THEN "error" ELSE "sent")
     \/ To(o, "error")
  /\ UNCHANGED <<kind, on, link, links, locked, closeVars, stored, paused>>

retryable(status) == status \in 500 .. 599 \cup {408, 429}

(* The answer, a failed exchange, or the timeout: the destination may have *)
(* processed the request in each case but a refusal.                       *)
HttpSend(o) ==
  /\ kind = "http" /\ out[o] = "sent"
  /\ \/ \E status \in {200, 302, 400, 408, 429, 500} :
          /\ To(o, IF status \in 200 .. 299 THEN "ok"
                   ELSE IF retryable(status) THEN "error" ELSE "rejected")
          /\ stored' \in IF status = 200 THEN {stored \cup {o}}
                         ELSE IF retryable(status) THEN {stored, stored \cup {o}} ELSE {stored}
     \/ To(o, "error") /\ stored' \in {stored, stored \cup {o}}
  /\ UNCHANGED <<kind, on, link, links, locked, closeVars, paused>>

(***************************************************************************)
(* Close.                                                                  *)
(***************************************************************************)
CloseBegins ==
  /\ closing = "no"
  /\ isClosed' = TRUE
  /\ closing' = IF kind \in {"sqs", "http"} THEN "done" ELSE "begun"
  /\ before' = {o \in All : out[o] = "sent"}
  /\ UNCHANGED <<kind, out, on, link, links, locked, stored, paused>>

(* The producer's flush, which may time out. *)
KafkaFlush ==
  /\ kind = "kafka" /\ closing = "begun"
  /\ \/ (\A o \in All : out[o] # "sent") /\ closing' = "done"
     \/ closing' = "timeout"
  /\ UNCHANGED <<kind, out, on, link, links, locked, isClosed, before, stored, paused>>

(* The publisher is taken from its slot and its link detached. *)
BusClose ==
  /\ kind = "bus" /\ closing = "begun" /\ locked = 0
  /\ closing' = "done"
  /\ link' = 0
  /\ links' = IF link = 0 THEN links ELSE [links EXCEPT ![link] = "closed"]
  /\ UNCHANGED <<kind, out, on, locked, isClosed, before, stored, paused>>

RabbitTake ==
  /\ kind = "rabbit" /\ closing = "begun" /\ locked = 0
  /\ closing' = IF link = 0 THEN "done" ELSE "waiting"
  /\ UNCHANGED <<kind, out, on, link, links, locked, isClosed, before, stored, paused>>

(* wait_for_confirms. *)
Confirmed == \A o \in All : out[o] = "sent" => on[o] # link

RabbitWaits ==
  /\ kind = "rabbit" /\ closing = "waiting"
  /\ Confirmed \/ ~Up(link)
  /\ closing' = "last"
  /\ UNCHANGED <<kind, out, on, link, links, locked, isClosed, before, stored, paused>>

RabbitClose ==
  /\ kind = "rabbit" /\ closing = "last"
  /\ closing' = "done"
  /\ link' = 0 /\ links' = [links EXCEPT ![link] = IF @ = "up" THEN "closed" ELSE @]
  /\ UNCHANGED <<kind, out, on, locked, isClosed, before, stored, paused>>

PubSubFlush ==
  /\ kind = "pubsub" /\ closing = "begun"
  /\ \A o \in All : out[o] # "sent"
  /\ closing' = "done"
  /\ UNCHANGED <<kind, out, on, link, links, locked, isClosed, before, stored, paused>>

SinkSteps ==
  \/ \E o \in All :
       \/ Acquire(o)
       \/ KafkaEnqueue(o) \/ KafkaDelivered(o)
       \/ BusLock(o) \/ BusConnect(o) \/ BusSend(o) \/ BusOutcome(o)
       \/ RabbitChannel(o) \/ RabbitOpen(o) \/ RabbitPublish(o) \/ RabbitConfirm(o)
       \/ PubSubAnswered(o) \/ PubSubFails(o) \/ SqsAnswered(o) \/ HttpSend(o)
  \/ KafkaFlush \/ BusClose \/ RabbitTake \/ RabbitWaits \/ RabbitClose \/ PubSubFlush

Next ==
  \/ SinkSteps \/ CloseBegins
  \/ \E o \in All : KafkaProducer(o) \/ PubSubPublish(o) \/ SqsPublish(o) \/ HttpClient(o)
  \/ \E l \in 1 .. MaxLinks : Lose(l)

(* The submitting tasks are polled and the brokers, or the timeouts of     *)
(* their clients, answer.                                                  *)
Spec == Init /\ [][Next]_sinkVars /\ WF_sinkVars(SinkSteps)

(***************************************************************************)
(* Properties.                                                             *)
(***************************************************************************)
(* An output reported as published is stored by the broker, and never more *)
(* than MaxPending of them wait for their confirmation.                    *)
OkIsStored ==
  /\ \A o \in All : out[o] = "ok" => o \in stored
  /\ kind \in {"kafka", "bus", "rabbit"} => Cardinality(Holders) <= MaxPending

(* A failed publication resumes its ordering key whatever the error: the   *)
(* key stays paused only while a failure has not reached its caller.       *)
KeyResumes == paused => \E o \in All : out[o] = "failed"

(* Close waits for the outputs sent before it: the Kafka and Pub/Sub       *)
(* flushes, and RabbitMQ's confirmations unless their channel was lost.    *)
CloseWaits ==
  closing = "done" /\ kind \in {"kafka", "rabbit", "pubsub"} =>
    \A o \in before : out[o] = "sent" => on[o] # 0 /\ links[on[o]] = "lost"

(* Every submission that has begun ends, through lost links, a full        *)
(* queue, other submissions waiting for permits and the lock, and close.   *)
SubmitsEnd ==
  \A o \in All : out[o] \notin {"new"} \cup Results ~> out[o] \in Results
=============================================================================
