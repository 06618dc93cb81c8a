------------------------------ MODULE SqsSource ------------------------------
(***************************************************************************)
(* The SQS source (adapters/sqs/source.rs, lease.rs): one polling call, a  *)
(* buffer of received messages, the visibility lease of each message, the  *)
(* keeper task that extends and releases, and the queue itself.            *)
(*                                                                         *)
(* Time is a bounded clock.  A receipt handle names one receive of one     *)
(* message and stands for the lease ID too: the code gives both once per   *)
(* receive.  A request travels in two steps, so the clock may move before  *)
(* SQS applies it and before its answer is seen.                           *)
(***************************************************************************)
EXTENDS Naturals, Sequences, FiniteSets, Functions, SequencesExt

CONSTANTS Messages,      \* messages of the queue
          Receipts,      \* bound: receives this source makes
          MaxAttempts,   \* ack_retry.max_attempts
          Timings        \* settings: see timing below

VARIABLES
  timing,    \* the settings: second, visibility and limit in ticks, whether calls
             \* are prompt or may be lost, and bounds: clock, messages, receipts
  clock,
  conn,      \* Option<Connection> and the steps of close
  poll,      \* Connection::polling
  buffered,  \* Connection::buffered
  lease,     \* Leases::entries: handle -> [expires, received]
  revoked,   \* handles whose revocation token is cancelled
  message,   \* handle -> what became of its SqsMessage
  tries,     \* handle -> delete attempts made
  releases,  \* the channel of handles to release
  keeper,    \* the keeper task and its request in flight
  queue,     \* SQS: message -> [handle, hidden, since, released, gone]
  issued,    \* how many receipt handles SQS has given to this source
  late       \* handles dropped while the keeper was making its last call

vars == <<timing, clock, conn, poll, buffered, lease, revoked, message, tries,
          releases, keeper, queue, issued, late>>

Handles == 1 .. Receipts
NoPoll == [phase |-> "none", at |-> 0, got |-> <<>>]
IdleKeeper == [phase |-> "idle", at |-> 0, asked |-> {}, done |-> {}, failed |-> {}]

(* `as_secs()`: SQS is told whole seconds. *)
WholeSeconds(t) == t - (t % timing.second)
(* Ticks as far apart as the timeout is long. *)
IntervalWhole == timing.visibility
(* Leases::interval; the settings make it a whole number of ticks. *)
Interval ==
  LET third == timing.visibility \div 3
      least == timing.second \div 2
      most == 60 * timing.second
  IN  IF third < least THEN least ELSE IF third > most THEN most ELSE third

Valid(h, m) == queue[m].handle = h /\ ~queue[m].gone

Init ==
  /\ timing \in Timings
  /\ clock = 0
  /\ conn = "none"
  /\ poll = NoPoll
  /\ buffered = <<>>
  /\ lease = [h \in {} |-> 0]
  /\ revoked = {}
  /\ message = [h \in Handles |-> "none"]
  /\ tries = [h \in Handles |-> 0]
  /\ releases = <<>>
  /\ keeper = [phase |-> "gone", at |-> 0, asked |-> {}, done |-> {}, failed |-> {}]
  /\ queue = [m \in Messages |-> [handle |-> 0, hidden |-> 0, since |-> 0,
                                  released |-> FALSE, gone |-> FALSE]]
  /\ issued = 0
  /\ late = {}

(***************************************************************************)
(* Receiving.                                                              *)
(***************************************************************************)
Connect ==
  /\ conn = "none"
  /\ conn' = "open"
  /\ keeper' = [IdleKeeper EXCEPT !.at = clock]
  /\ UNCHANGED <<timing, clock, poll, buffered, lease, revoked, message, tries, releases, queue, issued, late>>

StartPoll ==
  /\ conn = "open" /\ buffered = <<>> /\ poll.phase = "none" /\ issued < timing.receipts
  /\ poll' = [NoPoll EXCEPT !.phase = "asked", !.at = clock]
  /\ UNCHANGED <<timing, clock, conn, buffered, lease, revoked, message, tries, releases, keeper, queue, issued, late>>

(* SQS hands out visible messages, with fresh receipt handles. *)
QueueHandsOut(chosen) ==
  /\ poll.phase = "asked"
  /\ \A m \in Range(chosen) : ~queue[m].gone /\ queue[m].hidden <= clock
  /\ issued' = issued + Len(chosen)
  /\ issued' <= timing.receipts
  /\ poll' = [poll EXCEPT !.phase = "taken", !.got = [i \in DOMAIN chosen |-> issued + i]]
  /\ queue' = [m \in Messages |->
       IF m \in Range(chosen)
       THEN [handle |-> issued + CHOOSE i \in DOMAIN chosen : chosen[i] = m,
             hidden |-> clock + WholeSeconds(timing.visibility), since |-> clock,
             released |-> FALSE, gone |-> FALSE]
       ELSE queue[m]]
  /\ UNCHANGED <<timing, clock, conn, buffered, lease, revoked, message, tries, releases, keeper, late>>

(* Leases::add for each message of the answer, counted from the request.   *)
Add(handles, received) ==
  [h \in DOMAIN lease \cup Range(handles) |->
     IF h \in DOMAIN lease THEN lease[h]
     ELSE [expires |-> received + timing.visibility, received |-> received]]

PollAnswered ==
  /\ poll.phase = "taken"
  /\ lease' = Add(poll.got, poll.at)
  /\ poll' = [poll EXCEPT !.phase = "done"]
  /\ UNCHANGED <<timing, clock, conn, buffered, revoked, message, tries, releases, keeper, queue, issued, late>>

PollFails ==
  /\ poll.phase \in {"asked", "taken"}
  /\ timing.faults
  /\ poll' = [NoPoll EXCEPT !.phase = "failed"]
  /\ message' = [h \in Handles |-> IF h \in Range(poll.got) THEN "lost" ELSE message[h]]
  /\ UNCHANGED <<timing, clock, conn, buffered, lease, revoked, tries, releases, keeper, queue, issued, late>>

(* receive: the buffer first, then what the call returned. *)
Receive ==
  /\ conn = "open"
  /\ buffered # <<>> \/ poll.phase \in {"done", "failed"}
  /\ LET ready == IF buffered # <<>> THEN buffered ELSE poll.got
     IN  /\ poll' = IF buffered # <<>> THEN poll ELSE NoPoll
         /\ buffered' = IF ready = <<>> THEN <<>> ELSE Tail(ready)
         /\ message' = IF ready = <<>> THEN message
                       ELSE [message EXCEPT ![Head(ready)] = "held"]
  /\ UNCHANGED <<timing, clock, conn, lease, revoked, tries, releases, keeper, queue, issued, late>>

(***************************************************************************)
(* The life of one message.                                                *)
(***************************************************************************)
Without(entries, handles) == Restrict(entries, DOMAIN entries \ handles)

Ack(h) ==
  /\ message[h] = "held"
  /\ IF h \in DOMAIN lease
     THEN /\ message' = [message EXCEPT ![h] = "deleting"]
          /\ revoked' = revoked
     ELSE /\ message' = [message EXCEPT ![h] = "failed"]
          /\ revoked' = revoked \cup {h}
  /\ lease' = Without(lease, {h})
  /\ UNCHANGED <<timing, clock, conn, poll, buffered, tries, releases, keeper, queue, issued, late>>

(* One delete_message call: answered, refused for its handle, or lost on   *)
(* the way there or back.  Deleting a deleted message succeeds.            *)
Delete(h, arrives, answered) ==
  /\ message[h] = "deleting"
  /\ IF answered THEN arrives ELSE timing.faults
  /\ tries' = [tries EXCEPT ![h] = @ + 1]
  /\ LET of == {m \in Messages : queue[m].handle = h}
         refused == answered /\ of = {}
     IN  /\ queue' = [m \in Messages |->
               IF arrives /\ m \in of THEN [queue[m] EXCEPT !.gone = TRUE] ELSE queue[m]]
         /\ revoked' = IF refused THEN revoked \cup {h} ELSE revoked
         /\ message' = [message EXCEPT ![h] =
               IF answered /\ ~refused THEN "acked"
               ELSE IF h \in revoked' \/ tries'[h] = MaxAttempts THEN "failed" ELSE "deleting"]
  /\ UNCHANGED <<timing, clock, conn, poll, buffered, lease, releases, keeper, issued, late>>

Drop(h) ==
  /\ message[h] = "held"
  /\ message' = [message EXCEPT ![h] = "dropped"]
  /\ lease' = Without(lease, {h})
  /\ releases' = IF h \in DOMAIN lease /\ keeper.phase # "gone" THEN Append(releases, h) ELSE releases
  /\ late' = IF h \in DOMAIN lease /\ keeper.phase \in {"last", "gone"} THEN late \cup {h} ELSE late
  /\ UNCHANGED <<timing, clock, conn, poll, buffered, revoked, tries, keeper, queue, issued>>

(***************************************************************************)
(* The keeper: one task, one call at a time.                               *)
(***************************************************************************)
Expired == {h \in DOMAIN lease : lease[h].expires <= clock}
Remaining(h) ==
  LET age == clock - lease[h].received
  IN  IF timing.limit > age THEN timing.limit - age ELSE 0
Timeout(h) == IF Remaining(h) < timing.visibility THEN Remaining(h) ELSE timing.visibility
Due == {h \in DOMAIN lease \ Expired :
          /\ 3 * (lease[h].expires - clock) <= 2 * timing.visibility
          /\ Timeout(h) >= timing.second}

Tick ==
  /\ keeper.phase = "idle"
  /\ timing.prompt => keeper.at = clock
  /\ revoked' = revoked \cup Expired
  /\ lease' = Without(lease, Expired)
  /\ LET next == IF timing.prompt THEN clock + Interval ELSE 0
     IN  IF Due = {}
         THEN /\ timing.prompt \/ Expired # {}
              /\ keeper' = [keeper EXCEPT !.at = next]
         ELSE keeper' = [phase |-> "extend", at |-> IF timing.prompt THEN next ELSE clock,
                         asked |-> {<<h, Timeout(h), clock>> : h \in Due},
                         done |-> {}, failed |-> {}]
  /\ UNCHANGED <<timing, clock, conn, poll, buffered, message, tries, releases, queue, issued, late>>

(* SQS accepts an extension of a message still hidden under that handle, up *)
(* to its limit from the receive.                                           *)
Accepted(e) ==
  \E m \in Messages : /\ Valid(e[1], m) /\ queue[m].hidden > clock
                      /\ clock + WholeSeconds(e[2]) <= queue[m].since + timing.limit
ExtendArrives ==
  /\ keeper.phase = "extend"
  /\ keeper' = [keeper EXCEPT !.phase = "extended",
                              !.done = {e \in keeper.asked : Accepted(e)},
                              !.failed = {e \in keeper.asked : ~Accepted(e)}]
  /\ queue' = [m \in Messages |->
       LET granted == {e \in keeper.asked : Accepted(e) /\ Valid(e[1], m)}
       IN  IF granted = {} THEN queue[m]
           ELSE [queue[m] EXCEPT !.hidden = clock + WholeSeconds((CHOOSE e \in granted : TRUE)[2])]]
  /\ UNCHANGED <<timing, clock, conn, poll, buffered, lease, revoked, message, tries, releases, issued, late>>

(* `extended` from the time of the answer instead of the request. *)
ExtendedFromAnswer(h, e) == IF lease[h].expires < clock + e[2] THEN clock + e[2] ELSE lease[h].expires
Extended(h, e) == IF lease[h].expires < e[3] + e[2] THEN e[3] + e[2] ELSE lease[h].expires

ExtendAnswered ==
  /\ keeper.phase = "extended"
  /\ LET lost == {e[1] : e \in keeper.failed} \cap DOMAIN lease
     IN  /\ lease' = [h \in DOMAIN lease \ lost |->
               IF \E e \in keeper.done : e[1] = h
               THEN [lease[h] EXCEPT !.expires = Extended(h, CHOOSE e \in keeper.done : e[1] = h)]
               ELSE lease[h]]
         /\ revoked' = revoked \cup lost
  /\ keeper' = [IdleKeeper EXCEPT !.at = IF timing.prompt THEN keeper.at ELSE 0]
  /\ UNCHANGED <<timing, clock, conn, poll, buffered, message, tries, releases, queue, issued, late>>

(* The call fails as a whole; nothing but a warning follows. *)
ExtendFails ==
  /\ keeper.phase \in {"extend", "extended"} /\ timing.faults
  /\ keeper' = IdleKeeper
  /\ UNCHANGED <<timing, clock, conn, poll, buffered, lease, revoked, message, tries, releases, queue, issued, late>>

ReleaseStarts ==
  /\ keeper.phase = "idle" /\ releases # <<>>
  /\ keeper' = [keeper EXCEPT !.phase = "release", !.asked = {<<h, 0, clock>> : h \in Range(releases)}]
  /\ releases' = <<>>
  /\ UNCHANGED <<timing, clock, conn, poll, buffered, lease, revoked, message, tries, queue, issued, late>>

(* What SQS does with a release: the messages are visible at once. *)
Shown(handles) ==
  [m \in Messages |-> IF \E h \in handles : Valid(h, m) /\ queue[m].hidden > clock
                      THEN [queue[m] EXCEPT !.hidden = clock, !.released = TRUE]
                      ELSE queue[m]]

ReleaseEnds(arrives) ==
  /\ keeper.phase \in {"release", "last"}
  /\ arrives \/ timing.faults
  /\ queue' = IF arrives THEN Shown({e[1] : e \in keeper.asked}) ELSE queue
  /\ keeper' = IF keeper.phase = "last" THEN [IdleKeeper EXCEPT !.phase = "gone"]
               ELSE [IdleKeeper EXCEPT !.at = keeper.at]
  /\ message' = [h \in Handles |->
       IF \E e \in keeper.asked : e[1] = h THEN "released" ELSE message[h]]
  /\ UNCHANGED <<timing, clock, conn, poll, buffered, lease, revoked, tries, releases, issued, late>>

KeeperStops ==
  /\ keeper.phase = "idle" /\ conn = "closing"
  /\ keeper' = [IdleKeeper EXCEPT !.phase = IF releases = <<>> THEN "gone" ELSE "last",
                                  !.asked = {<<h, 0, clock>> : h \in Range(releases)}]
  /\ releases' = <<>>
  /\ UNCHANGED <<timing, clock, conn, poll, buffered, lease, revoked, message, tries, queue, issued, late>>

(***************************************************************************)
(* Closing.                                                                *)
(***************************************************************************)
Close ==
  /\ conn = "open"
  /\ conn' = "closing"
  /\ poll' = NoPoll
  /\ buffered' = <<>>
  /\ message' = [h \in Handles |->
       IF poll.phase = "taken" /\ h \in Range(poll.got) THEN "lost"
       ELSE IF h \in Range(poll.got) \cup Range(buffered) THEN "buffered" ELSE message[h]]
  /\ UNCHANGED <<timing, clock, lease, revoked, tries, releases, keeper, queue, issued, late>>

CloseDrains(arrives) ==
  /\ conn = "closing" /\ keeper.phase = "gone"
  /\ arrives \/ timing.faults
  /\ conn' = "closed"
  /\ lease' = Without(lease, DOMAIN lease)
  /\ queue' = IF arrives THEN Shown(DOMAIN lease) ELSE queue
  /\ message' = [h \in Handles |-> IF h \in DOMAIN lease THEN "released" ELSE message[h]]
  /\ UNCHANGED <<timing, clock, poll, buffered, revoked, tries, releases, keeper, issued, late>>

(***************************************************************************)
(* The environment: time, and another consumer of the queue.               *)
(***************************************************************************)
Advance ==
  /\ clock < timing.bound
  /\ timing.prompt => /\ keeper.phase \in {"idle", "gone"} /\ keeper.at # clock
                      /\ poll.phase # "taken"
  /\ clock' = clock + 1
  /\ UNCHANGED <<timing, conn, poll, buffered, lease, revoked, message, tries, releases, keeper, queue, issued, late>>

OtherConsumerTakes(m) ==
  /\ ~queue[m].gone /\ queue[m].hidden <= clock /\ timing.faults
  /\ queue' = [queue EXCEPT ![m].handle = 0, ![m].gone = TRUE]
  /\ UNCHANGED <<timing, clock, conn, poll, buffered, lease, revoked, message, tries, releases, keeper, issued, late>>

MessageSteps == \E h \in Handles :
  Ack(h) \/ Drop(h) \/ \E arrives, answered \in BOOLEAN : Delete(h, arrives, answered)
KeeperSteps ==
  \/ Tick \/ ExtendArrives \/ ExtendAnswered \/ ExtendFails
  \/ ReleaseStarts \/ KeeperStops \/ \E arrives \in BOOLEAN : ReleaseEnds(arrives)
Next ==
  \/ Connect \/ StartPoll \/ PollAnswered \/ PollFails \/ Receive
  \/ \E chosen \in SetToAllKPermutations(timing.messages) : QueueHandsOut(chosen)
  \/ MessageSteps \/ KeeperSteps
  \/ Close \/ \E arrives \in BOOLEAN : CloseDrains(arrives)
  \/ Advance \/ \E m \in Messages : OtherConsumerTakes(m)

Spec == Init /\ [][Next]_vars

(***************************************************************************)
(* Properties.                                                             *)
(***************************************************************************)
TypeOK ==
  /\ clock \in 0 .. timing.bound
  /\ conn \in {"none", "open", "closing", "closed"}
  /\ DOMAIN lease \subseteq Handles /\ revoked \subseteq Handles /\ late \subseteq Handles
  /\ Range(releases) \cup Range(buffered) \subseteq Handles
  /\ tries \in [Handles -> 0 .. MaxAttempts]

(* Leases::add and extend count a lease from the request, so a lease the   *)
(* source still holds ends no later than the time SQS hides the message,   *)
(* by less than the second that as_secs() cuts off.                        *)
LeaseIsConservative ==
  \A h \in DOMAIN lease, m \in Messages :
    queue[m].handle = h => lease[h].expires < queue[m].hidden + timing.second

(* Drop hands the handle to the keeper, which makes one call at a time: an *)
(* extension already sent never lands after the release, which would hide  *)
(* a message nobody holds.                                                 *)
ReleasedStaysVisible ==
  \A m \in Messages : queue[m].released => queue[m].hidden <= clock

(* When every call is answered within a tick, Leases::interval and due     *)
(* extend each lease before SQS shows the message to another consumer,     *)
(* until its limit; for a timeout of whole seconds.                        *)
KeepsInvisible ==
  timing.prompt /\ conn = "open" =>
    \A h \in DOMAIN lease, m \in Messages :
      (queue[m].handle = h /\ clock + timing.second <= lease[h].received + timing.limit)
        => queue[m].hidden > clock

(* close makes the messages received but not acknowledged visible again:   *)
(* each is handed to a release call, unless its lease had ended or it was  *)
(* dropped while the keeper's last call was under way.                     *)
CloseReleases ==
  conn = "closed" =>
    \A h \in Handles : message[h] \in {"held", "buffered", "dropped"} => h \in revoked \cup late
=============================================================================
