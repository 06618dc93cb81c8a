------------------------------ MODULE Pipeline ------------------------------
(***************************************************************************)
(* App::run_until (src/app.rs) over two subscriptions joined by a channel  *)
(* (src/adapters/channel/).  The upstream publishes into a ChannelSink and *)
(* acknowledges a delivery when the downstream has acknowledged its value; *)
(* the downstream does not stop on shutdown but when the upstream closes   *)
(* the channel.  With `ends` = "sender" or "receiver" one end is           *)
(* application code, a ChannelSender or a ChannelReceiver.  The subscrip-  *)
(* tions' runtime is the one of module Runtime, reduced to its stages.     *)
(***************************************************************************)
EXTENDS Integers, Sequences, FiniteSets

CONSTANTS Values, Capacity

VARIABLES
  ends,       \* "channel", "sender" or "receiver"
  up,         \* the delivery each value is made from, at the sending end
  item,       \* each value in and after the channel
  buffer,     \* the mpsc channel
  sender,     \* some ChannelSink or ChannelSender is open
  receiver,   \* the receiving end accepts values
  sub,        \* the stage of each subscription
  failed,     \* the subscription's `failure` is set
  shutdown,   \* the CancellationToken of run_until
  joined,     \* the subscriptions run_until has joined
  failure     \* run_until's `failure`, the first subscription that failed

pipeVars == <<ends, up, item, buffer, sender, receiver, sub, failed, shutdown, joined, failure>>

Subs == {"up", "down"}
Present == CASE ends = "channel" -> Subs
             [] ends = "sender" -> {"down"}
             [] ends = "receiver" -> {"up"}

TypeOK ==
  /\ ends \in {"channel", "sender", "receiver"}
  /\ up \in [Values -> {"source", "job", "waiting", "acked", "sent", "left"}]
  /\ item \in [Values -> {"none", "buffered", "handed", "done", "dropped"}]
  /\ buffer \in Seq(Values) /\ Len(buffer) <= Capacity
  /\ {sender, receiver, shutdown} \subseteq BOOLEAN
  /\ sub \in [Subs -> {"run", "drain", "ok", "failed"}]
  /\ failed \in [Subs -> BOOLEAN]
  /\ joined \subseteq Subs /\ failure \in Subs \cup {"none"}

Init ==
  /\ ends \in {"channel", "sender", "receiver"}
  /\ up = [v \in Values |-> "source"] /\ item = [v \in Values |-> "none"]
  /\ buffer = <<>> /\ sender = TRUE /\ receiver = TRUE
  /\ sub = [s \in Subs |-> IF s \in Present THEN "run" ELSE "ok"]
  /\ failed = [s \in Subs |-> FALSE]
  /\ shutdown = FALSE /\ joined = {} /\ failure = "none"

-----------------------------------------------------------------------------
(* The channel.                                                            *)

\* AbandonOnDrop: the token is cancelled when the sending end gives a value up
\* before the completion resolved.
Abandoned(v) == up[v] = "left"

\* enqueue: a permit, then the value with the sender of its completion.  It is
\* the sender's `waits` that decides whether a completion is awaited.
Enqueue(v, waits) ==
  /\ sender /\ receiver /\ Len(buffer) < Capacity
  /\ buffer' = Append(buffer, v)
  /\ item' = [item EXCEPT ![v] = "buffered"]
  /\ up' = [up EXCEPT ![v] = waits]

\* A subscription's delivery carries `done` along and sends it in its ack.
Handed(v) == IF Abandoned(v) THEN "dropped" ELSE "handed"

\* ChannelReceiver::recv completes a value when it is taken.
Taken(v) == IF Abandoned(v) THEN "dropped" ELSE "done"

\* The head of the buffer is received; abandoned values are skipped.
Receive(become(_)) ==
  /\ buffer # <<>>
  /\ buffer' = Tail(buffer)
  /\ item' = [item EXCEPT ![Head(buffer)] = become(Head(buffer))]

\* The receiver is dropped, with the completions of the values given.
DropReceiver(vs) ==
  /\ receiver' = FALSE /\ buffer' = <<>>
  /\ item' = [v \in Values |-> IF v \in vs \/ item[v] = "buffered" THEN "dropped" ELSE item[v]]

-----------------------------------------------------------------------------
(* The upstream subscription.                                              *)

Fail(s) ==
  /\ failed' = [failed EXCEPT ![s] = TRUE]
  /\ shutdown' = TRUE
  /\ sub' = [sub EXCEPT ![s] = "drain"]

Unfinished == {v \in Values : up[v] \in {"job", "waiting"}}

UpReceive(v) ==
  /\ "up" \in Present /\ sub["up"] = "run" /\ ~shutdown /\ up[v] = "source"
  /\ up' = [up EXCEPT ![v] = "job"]
  /\ UNCHANGED <<ends, item, buffer, sender, receiver, sub, failed, shutdown, joined, failure>>

\* A submission that counts as complete once the value is buffered.
SubmitAtOnce(v) ==
  /\ up[v] = "job"
  /\ Enqueue(v, "acked")
  /\ UNCHANGED <<ends, sender, receiver, sub, failed, shutdown, joined, failure>>

\* ChannelSink::submit, once there is room.
Submit(v) ==
  /\ up[v] = "job"
  /\ Enqueue(v, "waiting")
  /\ UNCHANGED <<ends, sender, receiver, sub, failed, shutdown, joined, failure>>

\* The receiving end has stopped: publish retries are exhausted.
SubmitFails(v) ==
  /\ up[v] = "job" /\ ~receiver
  /\ up' = [up EXCEPT ![v] = "left"]
  /\ Fail("up")
  /\ UNCHANGED <<ends, item, buffer, sender, receiver, joined, failure>>

\* The completion resolves: the delivery is acknowledged, or, when `done` was
\* dropped, the sending end fails.
Completes(v) ==
  /\ up[v] = "waiting"
  /\ \/ /\ item[v] = "done"
        /\ up' = [up EXCEPT ![v] = "acked"]
        /\ UNCHANGED <<sub, failed, shutdown>>
     \/ /\ item[v] = "dropped"
        /\ up' = [up EXCEPT ![v] = "left"]
        /\ IF "up" \in Present THEN Fail("up") ELSE UNCHANGED <<sub, failed, shutdown>>
  /\ UNCHANGED <<ends, item, buffer, sender, receiver, joined, failure>>

\* The upstream delivery is revoked, or application code drops the future of
\* send_and_wait.
GivenUp(v) ==
  /\ up[v] \in {"job", "waiting"}
  /\ up' = [up EXCEPT ![v] = "left"]
  /\ UNCHANGED <<ends, item, buffer, sender, receiver, sub, failed, shutdown, joined, failure>>

\* Shutdown or the end of the source ends the receive loop.
UpStops ==
  /\ "up" \in Present /\ sub["up"] = "run"
  /\ shutdown \/ \A v \in Values : up[v] # "source"
  /\ sub' = [sub EXCEPT !["up"] = "drain"]
  /\ UNCHANGED <<ends, up, item, buffer, sender, receiver, failed, shutdown, joined, failure>>

\* The drain timeout drops what has not finished, completions included.
UpAborts ==
  /\ "up" \in Present /\ sub["up"] = "drain" /\ Unfinished # {}
  /\ up' = [v \in Values |-> IF v \in Unfinished THEN "left" ELSE up[v]]
  /\ Fail("up")
  /\ UNCHANGED <<ends, item, buffer, sender, receiver, joined, failure>>

\* What execute returns, with shutdown cancelled on a failure.
Returned(s, closes) == IF failed[s] \/ ~closes THEN "failed" ELSE "ok"

\* ChannelSink::close takes the sender.
SinkClosed == sender' = FALSE

UpFinishes ==
  /\ "up" \in Present /\ sub["up"] = "drain" /\ Unfinished = {}
  /\ \E closes \in BOOLEAN :
       /\ sub' = [sub EXCEPT !["up"] = Returned("up", closes)]
       /\ shutdown' = (shutdown \/ failed["up"] \/ ~closes)
  /\ SinkClosed
  /\ UNCHANGED <<ends, up, item, buffer, receiver, failed, joined, failure>>

-----------------------------------------------------------------------------
(* The downstream subscription.                                            *)

Holds == {v \in Values : item[v] = "handed"}

DownReceive ==
  /\ "down" \in Present /\ sub["down"] = "run" /\ ~(ends = "sender" /\ shutdown)
  /\ Receive(Handed)
  /\ UNCHANGED <<ends, up, sender, receiver, sub, failed, shutdown, joined, failure>>

\* Acknowledged, or abandoned because the sending end gave it up.
DownAck(v) ==
  /\ item[v] = "handed"
  /\ item' = [item EXCEPT ![v] = Taken(v)]
  /\ UNCHANGED <<ends, up, buffer, sender, receiver, sub, failed, shutdown, joined, failure>>

DownFails(v) ==
  /\ item[v] = "handed"
  /\ item' = [item EXCEPT ![v] = "dropped"]
  /\ Fail("down")
  /\ UNCHANGED <<ends, up, buffer, sender, receiver, joined, failure>>

\* Receive::End, or shutdown where the source stops on it.
DownStops ==
  /\ "down" \in Present /\ sub["down"] = "run"
  /\ \/ ~sender /\ buffer = <<>>
     \/ ends = "sender" /\ shutdown
  /\ sub' = [sub EXCEPT !["down"] = "drain"]
  /\ UNCHANGED <<ends, up, item, buffer, sender, receiver, failed, shutdown, joined, failure>>

DownAborts ==
  /\ sub["down"] = "drain" /\ Holds # {}
  /\ item' = [v \in Values |-> IF v \in Holds THEN "dropped" ELSE item[v]]
  /\ Fail("down")
  /\ UNCHANGED <<ends, up, buffer, sender, receiver, joined, failure>>

DownFinishes ==
  /\ sub["down"] = "drain" /\ Holds = {}
  /\ \E closes \in BOOLEAN :
       /\ sub' = [sub EXCEPT !["down"] = Returned("down", closes)]
       /\ shutdown' = (shutdown \/ failed["down"] \/ ~closes)
  /\ DropReceiver({})
  /\ UNCHANGED <<ends, up, sender, failed, joined, failure>>

\* A subscription's task panics: what it owns is dropped, nobody is told.
Panics(s) ==
  /\ s \in Present /\ sub[s] \in {"run", "drain"}
  /\ sub' = [sub EXCEPT ![s] = "failed"]
  /\ \/ /\ s = "up" /\ sender' = FALSE
        /\ up' = [v \in Values |-> IF v \in Unfinished THEN "left" ELSE up[v]]
        /\ UNCHANGED <<item, buffer, receiver>>
     \/ s = "down" /\ DropReceiver(Holds) /\ UNCHANGED <<up, sender>>
  /\ UNCHANGED <<ends, failed, shutdown, joined, failure>>

-----------------------------------------------------------------------------
(* Application code at one end.                                            *)

\* ChannelSender::send or send_and_wait.
AppSends(v) ==
  /\ ends = "sender" /\ up[v] = "source"
  /\ \E waits \in {"sent", "waiting"} : Enqueue(v, waits)
  /\ UNCHANGED <<ends, sender, receiver, sub, failed, shutdown, joined, failure>>

AppDropsSender ==
  /\ ends = "sender" /\ sender
  /\ sender' = FALSE
  /\ UNCHANGED <<ends, up, item, buffer, receiver, sub, failed, shutdown, joined, failure>>

AppReceives ==
  /\ ends = "receiver"
  /\ Receive(Taken)
  /\ UNCHANGED <<ends, up, sender, receiver, sub, failed, shutdown, joined, failure>>

\* ChannelReceiver::close keeps what is buffered; dropping it does not.
AppCloses ==
  /\ ends = "receiver" /\ receiver
  /\ \/ receiver' = FALSE /\ UNCHANGED <<item, buffer>>
     \/ DropReceiver({})
  /\ UNCHANGED <<ends, up, sender, sub, failed, shutdown, joined, failure>>

-----------------------------------------------------------------------------
(* The application.                                                        *)

Signal ==
  /\ ~shutdown
  /\ shutdown' = TRUE
  /\ UNCHANGED <<ends, up, item, buffer, sender, receiver, sub, failed, joined, failure>>

Join(s) ==
  /\ s \in Present \ joined /\ sub[s] \in {"ok", "failed"}
  /\ joined' = joined \cup {s}
  /\ shutdown' = (shutdown \/ sub[s] = "failed")
  /\ failure' = IF sub[s] = "failed" /\ failure = "none" THEN s ELSE failure
  /\ UNCHANGED <<ends, up, item, buffer, sender, receiver, sub, failed>>

-----------------------------------------------------------------------------
\* What the runtime and its timers do by themselves.
Steps ==
  \/ UpStops
  \/ UpAborts
  \/ UpFinishes
  \/ DownReceive
  \/ DownStops
  \/ DownAborts
  \/ DownFinishes
  \/ \E v \in Values : Submit(v) \/ SubmitFails(v) \/ Completes(v) \/ DownAck(v)
  \/ \E s \in Subs : Join(s)

Next ==
  \/ Steps
  \/ Signal
  \/ AppDropsSender
  \/ AppReceives
  \/ AppCloses
  \/ \E v \in Values : UpReceive(v) \/ GivenUp(v) \/ DownFails(v) \/ AppSends(v)
  \/ \E s \in Subs : Panics(s)

Spec == Init /\ [][Next]_pipeVars /\ WF_pipeVars(Steps)

-----------------------------------------------------------------------------
(* Properties.                                                             *)

\* A delivery whose output went into a channel is acknowledged only after the
\* receiving end took responsibility for the value: the downstream
\* subscription acknowledged it, or application code took it.  (enqueue,
\* ChannelSource::receive, ChannelReceiver::recv.)
UpstreamAckFollowsDownstream ==
  \A v \in Values : up[v] = "acked" => item[v] = "done"

\* run_until returns Ok only when every subscription ended cleanly and none met
\* a failure on its way there, such as a drain timeout, and then no value is in
\* flight: none is waiting for its completion, buffered for a subscription or
\* in a downstream job.  (App::run_until with
\* stops_on_shutdown() false.)
CleanReturnSettles ==
  joined = Present /\ failure = "none" =>
    /\ \A s \in Present : sub[s] = "ok" /\ ~failed[s]
    /\ "up" \in Present => Unfinished = {}
    /\ ends = "channel" => buffer = <<>> /\ Holds = {}

\* Once shutdown is requested, by a signal or because a subscription failed or
\* panicked, run_until returns: the upstream stops and closes the channel,
\* that ends the downstream, and the drain timeouts end what hangs.
ShutdownReturns == (shutdown \/ \E s \in Present : sub[s] = "failed") ~> joined = Present
=============================================================================
