---------------------------- MODULE PubSubSource ----------------------------
(***************************************************************************)
(* The Pub/Sub source (adapters/pubsub/source.rs): the stream and the ones *)
(* it replaced, deliveries with the watch of their lease, acknowledgements *)
(* and close.  The client library, which extends the leases and sends      *)
(* acknowledgements, and the service are modelled from how the source uses *)
(* them.                                                                   *)
(***************************************************************************)
EXTENDS Naturals, Sequences, FiniteSets

CONSTANTS Messages,
          MaxStreams   \* bound: streams opened

VARIABLES
  exactlyOnce,  \* whether the subscription has exactly-once delivery
  opened,       \* streams opened so far
  stream,       \* the stream in use, 0 for none
  retired,      \* Connection::retired
  shutdown,     \* streams whose lease management has been shut down
  state,        \* "open", "closing", "closed"
  item,         \* message -> "service", "buffered", "held", "acking", "acked", "gone"
  from,         \* message -> the stream that handed it out
  leased,       \* messages whose lease the client still extends
  queuedAcks,   \* acknowledgements the client has not sent
  watch,        \* message -> "off", "running", "fired": its lease watch
  withdrawn     \* deliveries revoked

pubsubVars == <<exactlyOnce, opened, stream, retired, shutdown, state, item, from, leased,
                queuedAcks, watch, withdrawn>>
streamVars == <<exactlyOnce, opened, stream, retired, shutdown, state>>

Streams == 1 .. opened

Init ==
  /\ exactlyOnce \in BOOLEAN
  /\ opened = 0 /\ stream = 0 /\ retired = <<>> /\ shutdown = {} /\ state = "open"
  /\ item = [m \in Messages |-> "service"] /\ from = [m \in Messages |-> 0]
  /\ leased = {} /\ queuedAcks = {}
  /\ watch = [m \in Messages |-> "off"] /\ withdrawn = {}

(***************************************************************************)
(* Receiving.                                                              *)
(***************************************************************************)
(* The first receive and the one after an error open a stream; creating    *)
(* the client may fail, which is fatal.                                    *)
Subscribe ==
  /\ state = "open" /\ stream = 0 /\ opened < MaxStreams
  /\ opened' = opened + 1 /\ stream' = opened + 1
  /\ UNCHANGED <<exactlyOnce, retired, shutdown, state, item, from, leased, queuedAcks, watch,
                 withdrawn>>

(* The client receives a message on a stream and holds its lease. *)
Arrives(m) ==
  /\ stream # 0 /\ item[m] = "service"
  /\ item' = [item EXCEPT ![m] = "buffered"] /\ from' = [from EXCEPT ![m] = stream]
  /\ leased' = leased \cup {m}
  /\ UNCHANGED <<streamVars, queuedAcks, watch, withdrawn>>

(* PubSubMessage::new starts the watch of the lease. *)
Receive(m) ==
  /\ stream # 0 /\ item[m] = "buffered" /\ from[m] = stream
  /\ item' = [item EXCEPT ![m] = "held"]
  /\ watch' = [watch EXCEPT ![m] = "running"] /\ withdrawn' = withdrawn \ {m}
  /\ UNCHANGED <<streamVars, from, leased, queuedAcks>>

(* As Retire, without keeping the shutdown token. *)
Forget == UNCHANGED retired
Retire == retired' = Append(retired, stream)

(* An error or the end of the stream: it is retired with its leases, and   *)
(* what it had buffered goes back.                                         *)
StreamFails ==
  /\ stream # 0
  /\ Retire
  /\ stream' = 0
  /\ LET back == {m \in Messages : item[m] = "buffered" /\ from[m] = stream}
     IN  /\ item' = [m \in Messages |-> IF m \in back THEN "service" ELSE item[m]]
         /\ leased' = leased \ back
  /\ UNCHANGED <<exactlyOnce, opened, shutdown, state, from, queuedAcks, watch, withdrawn>>

(***************************************************************************)
(* A delivery.                                                             *)
(***************************************************************************)
(* ack: the handler is taken; without exactly-once delivery the client     *)
(* sends the acknowledgement later, unless the stream is already shut      *)
(* down, and the delivery ends.                                            *)
Ack(m) ==
  /\ item[m] = "held"
  /\ IF exactlyOnce THEN item' = [item EXCEPT ![m] = "acking"] /\ UNCHANGED <<queuedAcks, watch>>
     ELSE /\ item' = [item EXCEPT ![m] = IF from[m] \in shutdown THEN "service" ELSE "gone"]
          /\ queuedAcks' = IF from[m] \in shutdown THEN queuedAcks ELSE queuedAcks \cup {m}
          /\ watch' = [watch EXCEPT ![m] = "off"]
  /\ UNCHANGED <<streamVars, from, leased, withdrawn>>

(* confirmed_ack: the service confirms while the lease lasts; LeaseExpired *)
(* revokes the delivery.                                                   *)
Confirmed(m) ==
  /\ item[m] = "acking"
  /\ \/ /\ m \in leased /\ item' = [item EXCEPT ![m] = "acked"] /\ UNCHANGED withdrawn
     \/ /\ m \notin leased
        /\ item' = [item EXCEPT ![m] = "service"] /\ withdrawn' = withdrawn \cup {m}
     \/ m \in leased /\ item' = [item EXCEPT ![m] = "gone"] /\ UNCHANGED withdrawn
  /\ watch' = [watch EXCEPT ![m] = "off"] /\ leased' = leased \ {m}
  /\ UNCHANGED <<streamVars, from, queuedAcks>>

(* Dropping the handler nacks; dropping the message ends its watch. *)
DropMessage(m) ==
  /\ item[m] = "held"
  /\ item' = [item EXCEPT ![m] = "service"] /\ leased' = leased \ {m}
  /\ watch' = [watch EXCEPT ![m] = "off"]
  /\ UNCHANGED <<streamVars, from, queuedAcks, withdrawn>>

(* watch_lease reaches max_lease, at or after the client's own limit, as   *)
(* the client's began when the message arrived.                            *)
WatchFires(m) ==
  /\ watch[m] = "running" /\ m \notin leased
  /\ watch' = [watch EXCEPT ![m] = "fired"] /\ withdrawn' = withdrawn \cup {m}
  /\ UNCHANGED <<streamVars, item, from, leased, queuedAcks>>

(***************************************************************************)
(* The client and the service.                                             *)
(***************************************************************************)
(* The client stops extending after max_lease: a message that is not held  *)
(* is delivered again at once, a held one once it is given up.             *)
LeaseEnds(m) ==
  /\ m \in leased /\ item[m] \in {"held", "acking"}
  /\ leased' = leased \ {m}
  /\ UNCHANGED <<streamVars, item, from, queuedAcks, watch, withdrawn>>

(* The client sends a batched acknowledgement; after the lease ended it    *)
(* may be ignored.                                                         *)
SendsAck(m) ==
  /\ m \in queuedAcks
  /\ queuedAcks' = queuedAcks \ {m} /\ leased' = leased \ {m}
  /\ item' = [item EXCEPT ![m] = IF m \in leased THEN "acked" ELSE "service"]
  /\ UNCHANGED <<streamVars, from, watch, withdrawn>>

(***************************************************************************)
(* Close: the tokens of every stream, the retired ones first, one after    *)
(* another; each sends the acknowledgements of its messages and gives back *)
(* what it still leases.                                                   *)
(***************************************************************************)
Close ==
  /\ state = "open"
  /\ state' = "closing"
  /\ retired' = IF stream = 0 THEN retired ELSE Append(retired, stream)
  /\ stream' = 0
  /\ UNCHANGED <<exactlyOnce, opened, shutdown, item, from, leased, queuedAcks, watch, withdrawn>>

CloseStream ==
  /\ state = "closing" /\ retired # <<>>
  /\ LET s == Head(retired)
         mine == {m \in Messages : from[m] = s}
     IN  /\ \A m \in mine : m \notin queuedAcks
         /\ shutdown' = shutdown \cup {s}
         /\ item' = [m \in Messages |->
                       IF m \in mine /\ item[m] = "buffered" THEN "service" ELSE item[m]]
         /\ leased' = leased \ mine
  /\ retired' = Tail(retired)
  /\ UNCHANGED <<exactlyOnce, opened, stream, state, from, queuedAcks, watch, withdrawn>>

CloseReturns ==
  /\ state = "closing" /\ retired = <<>>
  /\ state' = "closed"
  /\ UNCHANGED <<exactlyOnce, opened, stream, retired, shutdown, item, from, leased, queuedAcks,
                 watch, withdrawn>>

Next ==
  \/ Subscribe \/ StreamFails \/ Close \/ CloseStream \/ CloseReturns
  \/ \E m \in Messages :
       \/ Arrives(m) \/ Receive(m) \/ Ack(m) \/ Confirmed(m) \/ DropMessage(m)
       \/ WatchFires(m) \/ LeaseEnds(m) \/ SendsAck(m)

Spec == Init /\ [][Next]_pubsubVars

(***************************************************************************)
(* Properties.                                                             *)
(***************************************************************************)
(* When close has returned every stream ever opened is shut down and every *)
(* acknowledgement given to the client was sent, those of deliveries from  *)
(* streams replaced long before included.                                  *)
ClosedSendsAcks == state = "closed" => shutdown = Streams /\ queuedAcks = {} /\ leased = {}

=============================================================================
