--------------------------- MODULE RabbitMqSource ---------------------------
(***************************************************************************)
(* The RabbitMQ source (adapters/rabbitmq/source.rs) on the handle's       *)
(* consuming connection (connection.rs): a session is a channel with its   *)
(* consumer and the token that revokes its deliveries.  The broker and its *)
(* requeueing are modelled from how the source uses them.                  *)
(***************************************************************************)
EXTENDS Naturals, Sequences, FiniteSets, Functions, SequencesExt

CONSTANTS Queue,       \* the messages of the queue
          Prefetch,    \* config.prefetch
          MaxSessions  \* bound: channels opened

VARIABLES
  connection,  \* the consuming slot: "none", "up", "lost"
  sessions,    \* channels opened so far; the last one may be current
  current,     \* the session the source holds, 0 for none
  channel,     \* session -> "open", "closing" (in the background), "closed"
  cancelled,   \* session -> whether its deliveries are revoked
  ready,       \* messages the broker may send
  unacked,     \* session -> messages sent and not acknowledged
  consumer,    \* session -> deliveries the source has not taken
  handed,      \* deliveries <<message, session>> the subscription holds
  settled,     \* deliveries acknowledged successfully
  shut         \* Source::closed

rabbitVars == <<connection, sessions, current, channel, cancelled, ready, unacked, consumer,
                handed, settled, shut>>

Opened == 1 .. sessions

Init ==
  /\ connection = "none" /\ sessions = 0 /\ current = 0
  /\ channel = <<>> /\ cancelled = <<>> /\ unacked = <<>> /\ consumer = <<>>
  /\ ready = Queue /\ handed = {} /\ settled = {} /\ shut = FALSE

(***************************************************************************)
(* RabbitMq::channel and RabbitMqSource::connect.                          *)
(***************************************************************************)
(* The slot's connection is reused while it is connected and replaced once *)
(* it is lost; a connection that fails leaves the slot as it is.           *)
Channel == connection' = "up"
ChannelFails == UNCHANGED connection \/ connection' = "up"

(* A channel whose consumer does not start is closed again. *)
Connect ==
  /\ ~shut /\ current = 0 /\ sessions < MaxSessions
  /\ \/ /\ Channel
        /\ sessions' = sessions + 1 /\ current' = sessions + 1
        /\ channel' = Append(channel, "open") /\ cancelled' = Append(cancelled, FALSE)
        /\ unacked' = Append(unacked, {}) /\ consumer' = Append(consumer, <<>>)
     \/ ChannelFails /\ UNCHANGED <<sessions, current, channel, cancelled, unacked, consumer>>
  /\ UNCHANGED <<ready, handed, settled, shut>>

(***************************************************************************)
(* Receiving.                                                              *)
(***************************************************************************)
Receive ==
  /\ current # 0
  /\ consumer[current] # <<>>
  /\ handed' = handed \cup {<<Head(consumer[current]), current>>}
  /\ consumer' = [consumer EXCEPT ![current] = Tail(@)]
  /\ UNCHANGED <<connection, sessions, current, channel, cancelled, ready, unacked, settled, shut>>

(* As End, leaving the session's deliveries as they are. *)
EndQuietly ==
  /\ channel' = [channel EXCEPT ![current] = IF @ = "open" THEN "closing" ELSE @]
  /\ UNCHANGED cancelled

(* Session::end: revoke, then close the channel in the background. *)
End ==
  /\ channel' = [channel EXCEPT ![current] = IF @ = "open" THEN "closing" ELSE @]
  /\ cancelled' = [cancelled EXCEPT ![current] = TRUE]

(* The consumer reports an error after its last delivery, or is cancelled  *)
(* by the broker: the session ends and the receive is retried.             *)
ConsumerEnds ==
  /\ current # 0 /\ consumer[current] = <<>>
  /\ End
  /\ current' = 0
  /\ UNCHANGED <<connection, sessions, ready, unacked, consumer, handed, settled, shut>>

(***************************************************************************)
(* The broker and the background close.                                    *)
(***************************************************************************)
Sends(m, s) ==
  /\ m \in ready /\ channel[s] # "closed"
  /\ Cardinality(unacked[s]) < Prefetch
  /\ ready' = ready \ {m}
  /\ unacked' = [unacked EXCEPT ![s] = @ \cup {m}]
  /\ consumer' = [consumer EXCEPT ![s] = Append(@, m)]
  /\ UNCHANGED <<connection, sessions, current, channel, cancelled, handed, settled, shut>>

(* What a closed channel leaves unacknowledged goes back to the queue. *)
Requeue(s) ==
  /\ channel' = [channel EXCEPT ![s] = "closed"]
  /\ unacked' = [unacked EXCEPT ![s] = {}]
  /\ ready' = ready \cup unacked[s]

(* Acknowledgements are not confirmed: those on their way are lost. *)
ChannelCloses(s) ==
  /\ channel[s] # "closed"
  /\ channel' = [channel EXCEPT ![s] = "closed"]
  /\ unacked' = [unacked EXCEPT ![s] = {}]
  /\ \E unsent \in SUBSET {d \in settled : d[2] = s} :
       /\ ready' = ready \cup unacked[s] \cup {d[1] : d \in unsent}
       /\ settled' = settled \ unsent
  /\ connection' \in {connection, "lost"}
  /\ UNCHANGED <<sessions, current, cancelled, consumer, handed, shut>>

(***************************************************************************)
(* Deliveries.                                                             *)
(***************************************************************************)
(* ack: on a channel that has closed it revokes the session, which  *)
(* cancels the session's other deliveries before the source notices.       *)
Ack(m, s) ==
  /\ <<m, s>> \in handed
  /\ handed' = handed \ {<<m, s>>}
  /\ IF channel[s] # "closed"
     THEN /\ unacked' = [unacked EXCEPT ![s] = @ \ {m}]
          /\ settled' = settled \cup {<<m, s>>} /\ UNCHANGED cancelled
     ELSE cancelled' = [cancelled EXCEPT ![s] = TRUE] /\ UNCHANGED <<unacked, settled>>
  /\ UNCHANGED <<connection, sessions, current, channel, ready, consumer, shut>>

(* A dropped delivery stays unacknowledged until its channel closes. *)
DropDelivery(m, s) ==
  /\ <<m, s>> \in handed
  /\ handed' = handed \ {<<m, s>>}
  /\ UNCHANGED <<connection, sessions, current, channel, cancelled, ready, unacked, consumer,
                 settled, shut>>

Close ==
  /\ ~shut /\ shut' = TRUE
  /\ current' = 0
  /\ IF current = 0 THEN UNCHANGED <<channel, cancelled, unacked, ready>>
     ELSE /\ cancelled' = [cancelled EXCEPT ![current] = TRUE]
          /\ IF channel[current] = "open" THEN Requeue(current)
             ELSE UNCHANGED <<channel, unacked, ready>>
  /\ UNCHANGED <<connection, sessions, consumer, handed, settled>>

Next ==
  \/ Connect \/ Receive \/ ConsumerEnds \/ Close
  \/ \E m \in Queue, s \in Opened : Sends(m, s) \/ Ack(m, s) \/ DropDelivery(m, s)
  \/ \E s \in Opened : ChannelCloses(s)

Spec == Init /\ [][Next]_rabbitVars

(***************************************************************************)
(* Properties.                                                             *)
(***************************************************************************)
(* Every message is in one place: with the broker, on a channel that is    *)
(* not closed yet, or acknowledged; and when the broker hands a message    *)
(* out again, each earlier delivery of it that is still held is revoked.   *)
RedeliveredIsRevoked ==
  /\ \A m \in Queue :
       Cardinality({s \in Opened : m \in unacked[s]})
         + (IF m \in ready THEN 1 ELSE 0) + Cardinality({d \in settled : d[1] = m}) = 1
  /\ \A d, e \in handed : d[1] = e[1] /\ d[2] < e[2] => cancelled[d[2]]
=============================================================================
