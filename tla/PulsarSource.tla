---------------------------- MODULE PulsarSource ----------------------------
(***************************************************************************)
(* The Pulsar source (adapters/pulsar/source.rs): one consumer for each    *)
(* partition, the rotation of receive over them, the ordering key of a     *)
(* delivery, acknowledgements with retries, and close.                     *)
(***************************************************************************)
EXTENDS Naturals, Sequences, FiniteSets, Functions, SequencesExt

CONSTANTS Count,        \* partitions 0 .. Count - 1
          Log,          \* partition -> the messages its broker holds, in order
          Garbled,      \* messages whose key is not valid base64
          MaxAttempts,  \* ack_retry.max_attempts
          None          \* no key

(* A message is a record of its id, key and ordering key. *)
Messages == UNION {Range(Log[p]) : p \in 0 .. Count - 1}
Types == {"exclusive", "failover", "key_shared", "shared"}

VARIABLES
  subType,   \* config.subscription_type
  session,   \* Source: "none", "open", "closed"
  closedTo,  \* consumers closed so far
  turn,      \* Connection::next
  sent,      \* partition -> messages its consumer has been sent
  got,       \* partition -> messages received from it
  passed,    \* partition -> receives that passed it over while it had a message
  lanes,     \* received message -> its ordering key
  ack,       \* message -> "none", "held", "trying", "ok", "failed", "closed"
  failures,  \* message -> failed attempts
  acked      \* messages whose acknowledgement the broker applied

vars == <<subType, session, closedTo, turn, sent, got, passed, lanes, ack,
          failures, acked>>
brokerVars == <<sent, acked>>
ackVars == <<ack, failures>>

Partitions == 0 .. Count - 1
PartitionOf(m) == CHOOSE p \in Partitions : m \in Range(Log[p])

Init ==
  /\ subType \in Types
  /\ session = "none" /\ closedTo = 0 /\ turn = 0
  /\ sent = [p \in Partitions |-> 0] /\ got = [p \in Partitions |-> 0]
  /\ passed = [p \in Partitions |-> 0]
  /\ lanes = [m \in {} |-> None]
  /\ ack = [m \in Messages |-> "none"] /\ failures = [m \in Messages |-> 0]
  /\ acked = {}

(***************************************************************************)
(* Ordering keys.                                                          *)
(***************************************************************************)
partition(m) == <<PartitionOf(m), None>>

keyed_partition(m) ==
  LET key == IF m.orderingKey # None THEN m.orderingKey ELSE m.key
  IN  IF key = None THEN None ELSE <<PartitionOf(m), key>>

ordering_key(m) ==
  CASE subType \in {"exclusive", "failover"} -> partition(m)
    [] subType = "key_shared" -> keyed_partition(m)
    [] subType = "shared" -> None

(***************************************************************************)
(* Connecting and receiving.                                               *)
(***************************************************************************)
(* connect: every consumer subscribes, or the receive fails for good. *)
Connect ==
  /\ session = "none"
  /\ \/ session' = "open" /\ UNCHANGED closedTo
     \/ session' = "closed" /\ closedTo' = Count
  /\ UNCHANGED <<subType, turn, got, passed, lanes, ackVars, brokerVars>>

Ready == {p \in Partitions : got[p] < sent[p]}

(* Where the next receive begins; staying would begin with the same one. *)
Stay(p) == p
After(p) == p + 1

(* Connection::receive: select_all polls the consumers from `next` on and  *)
(* takes the first that has a message or an error.                         *)
Polled(answering) ==
  LET start == turn % Count
      offset == CHOOSE o \in 0 .. Count - 1 :
                  /\ (start + o) % Count \in answering
                  /\ \A q \in 0 .. o - 1 : (start + q) % Count \notin answering
  IN  (start + offset) % Count

(* A consumer's error is returned and leaves the messages; a message whose *)
(* key cannot be read is taken and ends the subscription.                  *)
Receive ==
  /\ session = "open"
  /\ \E failing \in SUBSET Partitions :
       /\ Ready \cup failing # {}
       /\ LET index == Polled(Ready \cup failing)
              m == Log[index][got[index] + 1]
              handed == IF index \in failing \/ m \in Garbled THEN {} ELSE {m}
          IN  /\ turn' = After(index)
              /\ got' = [got EXCEPT ![index] = IF index \in failing THEN @ ELSE @ + 1]
              /\ passed' = [p \in Partitions |->
                              IF p \in Ready \ {index} THEN passed[p] + 1 ELSE 0]
              /\ lanes' = [x \in DOMAIN lanes \cup handed |->
                             IF x \in handed THEN ordering_key(x) ELSE lanes[x]]
              /\ ack' = [x \in Messages |-> IF x \in handed THEN "held" ELSE ack[x]]
  /\ UNCHANGED <<subType, session, closedTo, failures, brokerVars>>

(***************************************************************************)
(* Acknowledging: ensure_open before every attempt.                        *)
(***************************************************************************)
Attempt(m) ==
  /\ ack[m] = "held"
  /\ ack' = [ack EXCEPT ![m] = IF session = "closed" THEN "closed" ELSE "trying"]
  /\ UNCHANGED <<subType, session, closedTo, turn, got, passed, lanes, failures, brokerVars>>

(* The broker applies an attempt while the consumer is open, unless a      *)
(* reconnection loses it; the answer may be lost either way.               *)
Answered(m) ==
  /\ ack[m] = "trying"
  /\ \/ /\ PartitionOf(m) >= closedTo /\ acked' = acked \cup {m}
        /\ ack' = [ack EXCEPT ![m] = "ok"] /\ UNCHANGED failures
     \/ /\ \/ PartitionOf(m) >= closedTo /\ acked' = acked \cup {m}
           \/ UNCHANGED acked
        /\ failures' = [failures EXCEPT ![m] = @ + 1]
        /\ ack' = [ack EXCEPT ![m] = IF failures'[m] >= MaxAttempts THEN "failed" ELSE "held"]
  /\ UNCHANGED <<subType, session, closedTo, turn, got, passed, lanes, sent>>

(***************************************************************************)
(* Close: the flag first, then the consumers one after another, whether or *)
(* not one of them fails.                                                  *)
(***************************************************************************)
Close ==
  /\ session # "closed"
  /\ session' = "closed"
  /\ closedTo' = IF session = "none" THEN Count ELSE 0
  /\ UNCHANGED <<subType, turn, got, passed, lanes, ackVars, brokerVars>>

CloseConsumer ==
  /\ session = "closed" /\ closedTo < Count
  /\ closedTo' = closedTo + 1
  /\ UNCHANGED <<subType, session, turn, sent, got, passed, lanes, ackVars, acked>>

(***************************************************************************)
(* The broker sends ahead.                                                 *)
(***************************************************************************)
Sends(p) ==
  /\ session = "open" /\ sent[p] < Len(Log[p])
  /\ sent' = [sent EXCEPT ![p] = @ + 1]
  /\ UNCHANGED <<subType, session, closedTo, turn, got, passed, lanes, ackVars, acked>>

Next ==
  \/ Connect \/ Receive \/ Close \/ CloseConsumer
  \/ \E m \in Messages : Attempt(m) \/ Answered(m)
  \/ \E p \in Partitions : Sends(p)

Spec == Init /\ [][Next]_vars

(***************************************************************************)
(* Properties.                                                             *)
(***************************************************************************)
(* The partitions a consumer keeps in order, or the keys: Key_Shared       *)
(* routes by the ordering key, or by the message key without one.          *)
InOrder(m, n) ==
  /\ PartitionOf(m) = PartitionOf(n)
  /\ \/ subType \in {"exclusive", "failover"}
     \/ /\ subType = "key_shared"
        /\ LET key(x) == IF x.orderingKey = None THEN x.key ELSE x.orderingKey
           IN  key(m) = key(n) /\ key(m) # None

(* ordering_key: two deliveries share one exactly when the broker keeps    *)
(* their messages in order.                                                *)
LanesFollowBroker ==
  \A m, n \in DOMAIN lanes :
    m # n => (InOrder(m, n) <=> lanes[m] # None /\ lanes[m] = lanes[n])

(* However busy the other partitions are, a partition with a message is    *)
(* served within one round of receives.                                    *)
ServedInRound == \A p \in Partitions : passed[p] < Count

(* A reported acknowledgement has been applied, and one is given up only   *)
(* after every attempt or a close; none begins after the close.            *)
AckOutcomes ==
  \A m \in Messages :
    /\ ack[m] = "ok" => m \in acked
    /\ ack[m] = "failed" => failures[m] = MaxAttempts
    /\ ack[m] = "closed" => session = "closed"
=============================================================================
