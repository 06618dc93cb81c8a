----------------------------- MODULE HttpSource -----------------------------
(***************************************************************************)
(* The HTTP source (src/adapters/http/source.rs, server.rs): a server      *)
(* whose POST requests become deliveries through a queue of one, answered  *)
(* on receipt or when the delivery completes.  One request per connection; *)
(* `send` on the queue and its wake-up are one step, as the library makes  *)
(* them.                                                                   *)
(***************************************************************************)
EXTENDS Integers, Sequences, FiniteSets

CONSTANTS Requests

VARIABLES
  response,   \* SourceConfig::response, "ack" or "receive"
  state,      \* State, with the close that waits for the server as "closing"
  shutdown,   \* the token that stops the server
  requests,   \* the mpsc channel of capacity 1
  handler,    \* where the handler of each request is
  answered,   \* the status each request was answered with, 0 before
  delivery    \* what became of the delivery of each request

httpVars == <<response, state, shutdown, requests, handler, answered, delivery>>

HttpTypeOK ==
  /\ response \in {"ack", "receive"} /\ shutdown \in BOOLEAN
  /\ state \in {"bound", "serving", "closing", "closed"}
  /\ requests \in Seq(Requests) /\ Len(requests) <= 1
  /\ handler \in [Requests -> {"none", "body", "decoded", "waiting", "done", "gone"}]
  /\ answered \in [Requests -> {0, 200, 202, 400, 405, 413, 503}]
  /\ delivery \in [Requests -> {"none", "queued", "received", "acked", "dropped"}]

HttpInit ==
  /\ response \in {"ack", "receive"}
  /\ state = "bound" /\ shutdown = FALSE /\ requests = <<>>
  /\ handler = [r \in Requests |-> "none"]
  /\ answered = [r \in Requests |-> 0]
  /\ delivery = [r \in Requests |-> "none"]

-----------------------------------------------------------------------------
(* The server.                                                             *)

Listening == state = "serving" /\ ~shutdown

\* `outcome` resolves, with the status sent or because `respond` was dropped.
Respond(rs, status) ==
  LET live == {r \in rs : handler[r] = "waiting"}
  IN  /\ answered' = [r \in Requests |-> IF r \in live THEN status ELSE answered[r]]
      /\ handler' = [r \in Requests |-> IF r \in live THEN "done" ELSE handler[r]]

\* A request is accepted; any method but POST is refused at once.
Accept(r) ==
  /\ Listening /\ handler[r] = "none"
  /\ \/ handler' = [handler EXCEPT ![r] = "body"] /\ UNCHANGED answered
     \/ handler' = [handler EXCEPT ![r] = "done"] /\ answered' = [answered EXCEPT ![r] = 405]
  /\ UNCHANGED <<response, state, shutdown, requests, delivery>>

\* The body has arrived and decodes.  The client sets the pace: the server
\* waits for it without a limit.
BodyRead(r) ==
  /\ handler[r] = "body"
  /\ handler' = [handler EXCEPT ![r] = "decoded"]
  /\ UNCHANGED <<response, state, shutdown, requests, answered, delivery>>

\* The body is too large, cut off, or does not decode.
BodyRefused(r) ==
  /\ handler[r] = "body"
  /\ handler' = [handler EXCEPT ![r] = "done"]
  /\ \E status \in {400, 413} : answered' = [answered EXCEPT ![r] = status]
  /\ UNCHANGED <<response, state, shutdown, requests, delivery>>

\* The decoded request enters the queue once there is room, or finds it closed.
Closed == shutdown \/ state \in {"closing", "closed"}

Enqueue(r) ==
  /\ handler[r] = "decoded"
  /\ \/ /\ ~Closed /\ requests = <<>>
        /\ requests' = <<r>>
        /\ handler' = [handler EXCEPT ![r] = "waiting"]
        /\ delivery' = [delivery EXCEPT ![r] = "queued"]
        /\ UNCHANGED answered
     \/ /\ Closed
        /\ handler' = [handler EXCEPT ![r] = "done"]
        /\ answered' = [answered EXCEPT ![r] = 503]
        /\ UNCHANGED <<requests, delivery>>
  /\ UNCHANGED <<response, state, shutdown>>

\* The client disconnects and the handler is dropped; what it queued stays.
Disconnect(r) ==
  /\ handler[r] \in {"body", "decoded", "waiting"}
  /\ handler' = [handler EXCEPT ![r] = "gone"]
  /\ UNCHANGED <<response, state, shutdown, requests, answered, delivery>>

-----------------------------------------------------------------------------
(* The source, driven by the subscription runtime.                         *)

\* `start`, on the first receive: the settings are checked and the server is
\* spawned, or a listener that cannot be registered leaves the source closed.
start ==
  /\ state = "bound" /\ ~shutdown
  /\ state' \in {"serving", "closed"}
  /\ UNCHANGED <<response, shutdown, requests, handler, answered, delivery>>

\* A receive that answers whatever the configured response is.
ReceiveAnswersAll ==
  /\ Listening /\ requests # <<>>
  /\ delivery' = [delivery EXCEPT ![Head(requests)] = "received"]
  /\ Respond({Head(requests)}, 202)
  /\ requests' = Tail(requests)
  /\ UNCHANGED <<response, state, shutdown>>

Receive ==
  /\ Listening /\ requests # <<>>
  /\ LET r == Head(requests)
     IN  /\ delivery' = [delivery EXCEPT ![r] = "received"]
         /\ IF response = "receive"
              THEN Respond({r}, 202)
              ELSE UNCHANGED <<handler, answered>>
  /\ requests' = Tail(requests)
  /\ UNCHANGED <<response, state, shutdown>>

Ack(r) ==
  /\ delivery[r] = "received"
  /\ delivery' = [delivery EXCEPT ![r] = "acked"]
  /\ Respond({r}, 200)
  /\ UNCHANGED <<response, state, shutdown, requests>>

\* The delivery is dropped without an acknowledgement, and `respond` with it.
DropDelivery(r) ==
  /\ delivery[r] = "received"
  /\ delivery' = [delivery EXCEPT ![r] = "dropped"]
  /\ Respond({r}, 503)
  /\ UNCHANGED <<response, state, shutdown, requests>>

\* What is still queued is dropped, by the drain or with the receiver.
Discard ==
  /\ requests' = <<>>
  /\ delivery' = [r \in Requests |-> IF delivery[r] = "queued" THEN "dropped" ELSE delivery[r]]
  /\ Respond({r \in Requests : delivery[r] = "queued"}, 503)

stop_receiving ==
  /\ state \in {"bound", "serving"} /\ ~shutdown
  /\ shutdown' = TRUE
  /\ Discard
  /\ UNCHANGED <<response, state>>

\* A close that keeps the receiver while it waits for the server.
CloseKeepsRequests ==
  /\ state \in {"bound", "serving", "closed"} /\ \A r \in Requests : delivery[r] # "received"
  /\ shutdown' = TRUE
  /\ state' = IF state = "serving" THEN "closing" ELSE "closed"
  /\ UNCHANGED <<response, requests, handler, answered, delivery>>

\* The runtime closes the source once no job holds a delivery of it.
Close ==
  /\ state \in {"bound", "serving", "closed"} /\ \A r \in Requests : delivery[r] # "received"
  /\ shutdown' = TRUE
  /\ state' = IF state = "serving" THEN "closing" ELSE "closed"
  /\ Discard
  /\ UNCHANGED response

\* `serve` left its loop and every open connection finished its request.
CloseReturns ==
  /\ state = "closing"
  /\ \A r \in Requests : handler[r] \notin {"body", "decoded", "waiting"}
  /\ state' = "closed"
  /\ UNCHANGED <<response, shutdown, requests, handler, answered, delivery>>

-----------------------------------------------------------------------------
\* The server and the runtime go on; what clients do, the rest of a body
\* included, the drop of a delivery and the end of the subscription need not
\* happen.
Steps ==
  \/ Receive
  \/ CloseReturns
  \/ \E r \in Requests : Enqueue(r) \/ Ack(r)

HttpNext ==
  \/ start
  \/ stop_receiving
  \/ Close
  \/ Steps
  \/ \E r \in Requests : Accept(r) \/ BodyRead(r) \/ BodyRefused(r) \/ Disconnect(r) \/ DropDelivery(r)

HttpSpec == HttpInit /\ [][HttpNext]_httpVars /\ WF_httpVars(Steps)

-----------------------------------------------------------------------------
(* Properties.                                                             *)

\* The status a client reads is what happened to its request: 200 after the
\* acknowledgement of its delivery and 503 only when the delivery will never be
\* acknowledged; a delivery that is still with the runtime is answered only by
\* 202, and only when the source answers on receipt.  (HttpMessage::ack,
\* HttpSource::receive and the drop of `respond`.)
AnswerTellsOutcome ==
  \A r \in Requests :
    /\ answered[r] = 200 => delivery[r] = "acked"
    /\ answered[r] = 503 => delivery[r] \in {"none", "dropped"}
    /\ answered[r] = 202 => response = "receive" /\ delivery[r] \in {"received", "acked", "dropped"}
    /\ delivery[r] = "received" /\ response = "ack" => answered[r] = 0

\* No client holds its connection for ever in the middle of a body: it sends
\* the rest, sends what is refused, or leaves.
ClientsSend == \A r \in Requests : []<>(handler[r] # "body")

\* close() does not wait for itself: the requests it leaves in the queue are
\* answered, so their connections finish, `serve` ends and close returns, if
\* clients send what they began.  A client that does not keeps close waiting,
\* until the runtime's cleanup timeout gives it up.  (HttpSource::close, which
\* drops the receiver before it awaits the server; deliver's body.)
CloseEnds == ClientsSend => (state = "closing" ~> state = "closed")

\* A request in the queue or with the runtime gets its answer, or its client
\* leaves, whatever stop_receiving and close do meanwhile.
EveryRequestAnswered ==
  \A r \in Requests : handler[r] = "waiting" ~> handler[r] # "waiting"
=============================================================================
