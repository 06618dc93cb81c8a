----------------------------- MODULE PulsarSink -----------------------------
(***************************************************************************)
(* The Pulsar sink of one partition (adapters/pulsar/sink.rs, producer.rs, *)
(* resend.rs, and the permits of adapters/pending.rs): submissions under a *)
(* read guard, the task that awaits receipts and sends rejected messages   *)
(* again, and close.  A send is the pair of an output and its round.       *)
(***************************************************************************)
EXTENDS Naturals, Sequences, FiniteSets, SequencesExt

CONSTANTS Outputs,      \* outputs to submit: 1 .. Outputs
          MaxPending,   \* permits
          MaxSends      \* send_retry.max_attempts

VARIABLES
  output,     \* output -> "new", "guard", "queued", "ok", "error", "dropped"
  producers,  \* Connection::producers: "none", "open", "closed"
  closing,    \* "no", "permits", "lock", "done": the steps of close
  wire,       \* sends in the order the producer queued them
  channel,    \* attempts on their way to the task
  pending,    \* the task's queue
  awaited,    \* the attempt whose receipt the task awaits, or <<>>
  resending   \* whether the task is waiting out the delay of `awaited`

pulsarVars == <<output, producers, closing, wire, channel, pending, awaited, resending>>

Guards == {o \in 1 .. Outputs : output[o] \in {"guard", "queued"}}
Permits == {o \in 1 .. Outputs : output[o] = "queued"}

Init ==
  /\ output = [o \in 1 .. Outputs |-> "new"]
  /\ producers = "none" /\ closing = "no"
  /\ wire = <<>>
  /\ channel = <<>> /\ pending = <<>> /\ awaited = <<>> /\ resending = FALSE

taskVars == <<channel, pending, awaited, resending>>

(* Connection::producers: a reader waits behind a writer that waits; the   *)
(* first one connects, which may fail.                                     *)
Submit(o) ==
  /\ output[o] = "new" /\ \A p \in 1 .. o - 1 : output[p] # "new"
  /\ closing # "lock"
  /\ IF closing = "done" THEN output' = [output EXCEPT ![o] = "error"] /\ producers' = producers
     ELSE \/ output' = [output EXCEPT ![o] = "guard"] /\ producers' = "open"
          \/ /\ producers = "none" /\ Guards = {}
             /\ output' = [output EXCEPT ![o] = "error"] /\ producers' = producers
  /\ UNCHANGED <<closing, wire, taskVars>>

(* The permit, then Resender::send under its lock. *)
Enqueue(o) ==
  /\ output[o] = "guard"
  /\ IF closing # "no"
     THEN output' = [output EXCEPT ![o] = "error"] /\ UNCHANGED <<wire, channel>>
     ELSE /\ Cardinality(Permits) < MaxPending
          /\ output' = [output EXCEPT ![o] = "queued"]
          /\ wire' = Append(wire, <<o, 1>>)
          /\ channel' = Append(channel, <<o, 1>>)
  /\ UNCHANGED <<producers, closing, pending, awaited, resending>>

(* The completion is dropped: guard and permit are free, the send stays. *)
DropCompletion(o) ==
  /\ output[o] = "queued"
  /\ output' = [output EXCEPT ![o] = "dropped"]
  /\ UNCHANGED <<producers, closing, wire, taskVars>>

(***************************************************************************)
(* await_receipts.                                                         *)
(***************************************************************************)
(* The attempts in the order they are awaited, the newest first or last. *)
NewestFirst(queue, attempts) == Reverse(attempts) \o queue
Oldest(queue, attempts) == queue \o attempts

AwaitNext ==
  /\ awaited = <<>>
  /\ LET queue == Oldest(pending, channel)
     IN  /\ queue # <<>>
         /\ awaited' = Head(queue)
         /\ pending' = Tail(queue)
  /\ channel' = <<>>
  /\ UNCHANGED <<output, producers, closing, wire, resending>>

Resolve(o, result) == [output EXCEPT ![o] = IF output[o] = "queued" THEN result ELSE @]

(* The receipt awaited: stored, rejected for now, or refused for good. *)
Receipt(answer) ==
  /\ awaited # <<>> /\ ~resending
  /\ LET o == awaited[1]
         again == answer = "rejected" /\ awaited[2] < MaxSends
     IN  /\ output' = IF answer = "ok" THEN Resolve(o, "ok")
                      ELSE IF again THEN output ELSE Resolve(o, "error")
         /\ resending' = (again /\ output[o] = "queued")
         /\ awaited' = IF resending' THEN awaited ELSE <<>>
  /\ UNCHANGED <<producers, closing, wire, channel, pending>>

(* After the delay the message is queued on the producer again, without    *)
(* the sender's lock, and awaited after the attempts already taken over.   *)
Resend ==
  /\ resending
  /\ LET send == <<awaited[1], awaited[2] + 1>>
     IN  wire' = Append(wire, send) /\ pending' = Append(pending, send)
  /\ awaited' = <<>> /\ resending' = FALSE
  /\ UNCHANGED <<output, producers, closing, channel>>

(***************************************************************************)
(* close: no more permits, then the write lock, then the producers.        *)
(***************************************************************************)
ClosePermits ==
  /\ closing = "no"
  /\ closing' = "permits"
  /\ UNCHANGED <<output, producers, wire, taskVars>>

CloseLock ==
  /\ closing = "permits"
  /\ closing' = "lock"
  /\ UNCHANGED <<output, producers, wire, taskVars>>

CloseProducers ==
  /\ closing = "lock" /\ Guards = {}
  /\ closing' = "done"
  /\ producers' = "closed"
  /\ UNCHANGED <<output, wire, taskVars>>

Next ==
  \/ \E o \in 1 .. Outputs : Submit(o) \/ Enqueue(o) \/ DropCompletion(o)
  \/ \E answer \in {"ok", "rejected", "refused"} : Receipt(answer)
  \/ AwaitNext \/ Resend
  \/ ClosePermits \/ CloseLock \/ CloseProducers

(* The task and the submitting tasks run; the broker answers each send, as *)
(* the client replays those of a lost connection.                          *)
Steps ==
  \/ \E o \in 1 .. Outputs : Enqueue(o)
  \/ \E answer \in {"ok", "rejected", "refused"} : Receipt(answer)
  \/ AwaitNext \/ Resend \/ CloseLock \/ CloseProducers
Spec == Init /\ [][Next]_pulsarVars /\ WF_pulsarVars(Steps)

(***************************************************************************)
(* Properties.                                                             *)
(***************************************************************************)
TypeOK ==
  /\ output \in [1 .. Outputs -> {"new", "guard", "queued", "ok", "error", "dropped"}]
  /\ Cardinality(Permits) <= MaxPending
  /\ \A s \in Range(wire) : s[2] \in 1 .. MaxSends

(* The task rotates its queue, so in every round of sends the messages go  *)
(* out in the order of their submission: a rejected run is sent again in   *)
(* its original order, whatever is submitted meanwhile.                    *)
RoundsInOrder ==
  LET place == [s \in Range(wire) |-> CHOOSE i \in DOMAIN wire : wire[i] = s]
  IN  \A s, t \in Range(wire) :
        s[2] = t[2] /\ place[s] < place[t] => place[<<s[1], 1>>] <= place[<<t[1], 1>>]

(* A completion holds the read guard, so close returns only when every     *)
(* submitted output has its outcome or was given up by its caller.         *)
CloseAwaitsOutcomes == closing = "done" => Permits = {}

(* Close returns: the guards that submit holds while it waits for a permit *)
(* are given back when the permits are closed, the others by receipts.     *)
CloseReturns == closing = "permits" ~> closing = "done"
=============================================================================
