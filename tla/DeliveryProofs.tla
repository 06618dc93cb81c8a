--------------------------- MODULE DeliveryProofs ---------------------------
(***************************************************************************)
(* What four components promise of a delivery, for any number of them: the *)
(* status the client of the HTTP source reads (module HttpSource), the     *)
(* order in which the lanes let deliveries through (module Distribution),  *)
(* what a transactional batch commits (module TransactionBatch), and that  *)
(* a blocking handler's call is answered (module BlockingPool).  The four  *)
(* share no state.                                                         *)
(***************************************************************************)
EXTENDS HttpSource, Distribution, TransactionBatch, BlockingPool, TLAPS, FiniteSetTheorems,
        WellFoundedInduction

(* Steps are first-order unless they cite the SMT solver; each prover has    *)
(* thirty seconds for a step.                                                *)
USE ZenonT(30)

-----------------------------------------------------------------------------
(* The HTTP source.                                                         *)

\* The queue holds at most one request, and it is the one whose delivery is
\* queued.
QueueMatches ==
  /\ requests = <<>> \/ \E q \in Requests : requests = <<q>>
  /\ \A r \in Requests : delivery[r] = "queued" <=> requests = <<r>>

\* Where a handler waits decides how far its delivery can be: only a finished
\* handler has an answer.
HandlerMatches(r) ==
  /\ handler[r] # "done" => answered[r] = 0
  /\ handler[r] \in {"none", "body", "decoded"} => delivery[r] = "none"
  /\ handler[r] = "waiting" => delivery[r] = "queued" \/ (delivery[r] = "received" /\ response = "ack")
  /\ delivery[r] = "queued" => handler[r] \in {"waiting", "gone"}

Fields ==
  /\ response \in {"ack", "receive"} /\ shutdown \in BOOLEAN
  /\ state \in {"bound", "serving", "closing", "closed"}
  /\ handler \in [Requests -> {"none", "body", "decoded", "waiting", "done", "gone"}]
  /\ answered \in [Requests -> {0, 200, 202, 400, 405, 413, 503}]
  /\ delivery \in [Requests -> {"none", "queued", "received", "acked", "dropped"}]

HttpInv ==
  Fields /\ QueueMatches /\ AnswerTellsOutcome /\ \A r \in Requests : HandlerMatches(r)

(* A source that was just bound has no requests.                           *)
LEMMA HttpInvInit == HttpInit => HttpInv
<1> SUFFICES ASSUME HttpInit PROVE HttpInv
  OBVIOUS
<1>1. Fields
  BY DEF HttpInit, Fields
<1>2. QueueMatches
  BY DEF HttpInit, QueueMatches
<1>3. AnswerTellsOutcome
  BY SMTT(30) DEF HttpInit, AnswerTellsOutcome
<1>4. \A r \in Requests : HandlerMatches(r)
  BY DEF HttpInit, HandlerMatches
<1> QED
  BY <1>1, <1>2, <1>3, <1>4 DEF HttpInv

(* Every step of clients, server and source keeps the invariant.           *)
LEMMA HttpInvStep == HttpInv /\ [HttpNext]_httpVars => HttpInv'
<1> SUFFICES ASSUME HttpInv, [HttpNext]_httpVars PROVE HttpInv'
  OBVIOUS
<1> USE DEF HttpInv, Fields, QueueMatches, AnswerTellsOutcome, HandlerMatches
<1>1. CASE start
  BY <1>1, SMTT(30) DEF start
<1>2. CASE stop_receiving
  BY <1>2, SMTT(30) DEF stop_receiving, Discard, Respond
<1>3. CASE Close
  <2>1. Fields'
    BY <1>3, SMTT(30) DEF Close, Discard, Respond
  <2>2. QueueMatches'
    BY <1>3, SMTT(30) DEF Close, Discard, Respond
  <2>3. AnswerTellsOutcome'
    BY <1>3, SMTT(30) DEF Close, Discard, Respond
  <2>4. \A r \in Requests : HandlerMatches(r)'
    BY <1>3, SMTT(30) DEF Close, Discard, Respond
  <2> QED
    BY <2>1, <2>2, <2>3, <2>4, SMTT(30)
<1>4. CASE Receive
  <2>1. Fields'
    BY <1>4, SMTT(30) DEF Receive, Respond
  <2>2. QueueMatches'
    <3>1. PICK q \in Requests : requests = <<q>>
      BY <1>4 DEF Receive
    <3>2. requests' = <<>> /\ delivery' = [delivery EXCEPT ![q] = "received"]
      BY <1>4, <3>1, SMTT(30) DEF Receive
    <3>3. \A r \in Requests : delivery[r] = "queued" => r = q
      BY <3>1, SMTT(30)
    <3> QED
      BY <3>2, <3>3, SMTT(30)
  <2>3. AnswerTellsOutcome'
    BY <1>4, SMTT(30) DEF Receive, Respond
  <2>4. \A r \in Requests : HandlerMatches(r)'
    BY <1>4, SMTT(30) DEF Receive, Respond
  <2> QED
    BY <2>1, <2>2, <2>3, <2>4, SMTT(30)
<1>5. CASE CloseReturns
  BY <1>5, SMTT(30) DEF CloseReturns
<1>6. ASSUME NEW r \in Requests, Enqueue(r) PROVE HttpInv'
  BY <1>6, SMTT(30) DEF Enqueue
<1>7. ASSUME NEW r \in Requests, Ack(r) PROVE HttpInv'
  BY <1>7, SMTT(30) DEF Ack, Respond
<1>8. ASSUME NEW r \in Requests, Accept(r) PROVE HttpInv'
  BY <1>8, SMTT(30) DEF Accept
<1>9. ASSUME NEW r \in Requests, BodyRefused(r) PROVE HttpInv'
  BY <1>9, SMTT(30) DEF BodyRefused
<1>10. ASSUME NEW r \in Requests, Disconnect(r) PROVE HttpInv'
  BY <1>10, SMTT(30) DEF Disconnect
<1>11. ASSUME NEW r \in Requests, DropDelivery(r) PROVE HttpInv'
  <2>1. Fields'
    BY <1>11, SMTT(30) DEF DropDelivery, Respond
  <2>2. QueueMatches'
    BY <1>11, SMTT(30) DEF DropDelivery
  <2>3. AnswerTellsOutcome'
    BY <1>11, SMTT(30) DEF DropDelivery, Respond
  <2>4. \A q \in Requests : HandlerMatches(q)'
    BY <1>11, SMTT(30) DEF DropDelivery, Respond
  <2> QED
    BY <2>1, <2>2, <2>3, <2>4, SMTT(30)
<1>12. CASE UNCHANGED httpVars
  BY <1>12, SMTT(30) DEF httpVars
<1>13. ASSUME NEW r \in Requests, BodyRead(r) PROVE HttpInv'
  BY <1>13, SMTT(30) DEF BodyRead
<1> HIDE DEF HttpInv
<1> QED
  BY <1>1, <1>2, <1>3, <1>4, <1>5, <1>6, <1>7, <1>8, <1>9, <1>10, <1>11, <1>12, <1>13
  DEF HttpNext, Steps

(* Whatever clients, the runtime, stop_receiving and close do, a client    *)
(* reads 200 only after the acknowledgement of its delivery, 503 only when *)
(* there will be none, and nothing while a response on acknowledgement is  *)
(* still open (HttpMessage::ack, HttpSource::receive, the drop of          *)
(* `respond`).                                                             *)
THEOREM AnswersTellOutcome == HttpSpec => [](HttpTypeOK /\ AnswerTellsOutcome)
<1>1. HttpInv => HttpTypeOK /\ AnswerTellsOutcome
  <2> SUFFICES ASSUME HttpInv PROVE HttpTypeOK
    BY DEF HttpInv
  <2>1. requests \in Seq(Requests) /\ Len(requests) <= 1
    <3>1. CASE requests = <<>>
      BY <3>1, SMTT(30)
    <3>2. CASE \E q \in Requests : requests = <<q>>
      BY <3>2, SMTT(30)
    <3> QED
      BY <3>1, <3>2 DEF HttpInv, QueueMatches
  <2> QED
    BY <2>1, SMTT(30) DEF HttpInv, Fields, HttpTypeOK
<1> QED
  BY HttpInvInit, HttpInvStep, <1>1, PTL DEF HttpSpec

-----------------------------------------------------------------------------
(* The lanes.  LaneInOrder is what the lanes give; the two orders the program *)
(* promises follow from how a lane is computed.                               *)

\* The lanes' own promise: of two deliveries in one lane the later one leaves
\* the queue only after the earlier one's job has ended.
LaneInOrder ==
  \A i, j \in Received :
    i < j /\ LaneOf(i) # None /\ LaneOf(i) = LaneOf(j) /\ step[j] # "received"
      => step[i] \in JobEnded

\* The inductive invariant: the subscription and its log are among those the
\* builder accepts and never change, and lanes are in order.
DistInv ==
  /\ sub \in Subscriptions /\ validate(sub) /\ log \in Logs
  /\ step \in [Received -> DeliverySteps]
  /\ LaneInOrder

-----------------------------------------------------------------------------
\* Every action moves one unfinished delivery forward, out of the queue only
\* when its lane is free.
Leaves(i, to) ==
  /\ step' = [step EXCEPT ![i] = to]
  /\ step[i] \notin Finished
  /\ step[i] \in JobEnded => to = "done"
  /\ step[i] = "received" => LaneIsFree(i)

\* A step of the deliveries moves exactly one of them.
LEMMA OneDeliveryMoves ==
  ASSUME DistNext
  PROVE  /\ UNCHANGED <<sub, log>>
         /\ \E i \in Received, to \in DeliverySteps \ {"received"} : Leaves(i, to)
<1>1. PICK i \in Received :
        \/ StartDelivery(i) \/ PreHandlerEnds(i) \/ BeginState(i) \/ Handle(i)
        \/ Complete(i) \/ OutputsComplete(i)
  BY DEF DistNext
<1>2. UNCHANGED <<sub, log>>
  BY <1>1 DEF StartDelivery, PreHandlerEnds, BeginState, Handle, Complete, OutputsComplete
<1>3. \E to \in {"rejected", "done", "started", "skipped", "begun", "handled", "holding", "waiting"} :
        Leaves(i, to)
  <2>1. CASE StartDelivery(i)
    <3>1. Leaves(i, "rejected") \/ Leaves(i, "started")
      BY <2>1 DEF StartDelivery, Advance, Finished, JobEnded, Leaves
    <3>. QED  BY <3>1
  <2>2. CASE PreHandlerEnds(i)
    <3>1. Leaves(i, "rejected") \/ Leaves(i, "done") \/ Leaves(i, "waiting")
      BY <2>2 DEF PreHandlerEnds, Advance, Finished, JobEnded, Leaves
    <3>. QED  BY <3>1
  <2>3. CASE BeginState(i)
    <3>1. Leaves(i, "rejected") \/ Leaves(i, "skipped") \/ Leaves(i, "begun")
      BY <2>3 DEF BeginState, Advance, Finished, JobEnded, Leaves
    <3>. QED  BY <3>1
  <2>4. CASE Handle(i)
    <3>1. Leaves(i, "handled") \/ Leaves(i, "rejected") \/ Leaves(i, "started")
      BY <2>4 DEF Handle, Advance, Finished, JobEnded, Leaves
    <3>. QED  BY <3>1
  <2>5. CASE Complete(i)
    <3>1. Leaves(i, "done") \/ Leaves(i, "rejected") \/ Leaves(i, "holding") \/ Leaves(i, "waiting")
      BY <2>5 DEF Complete, Advance, Finished, JobEnded, Leaves
    <3>. QED  BY <3>1
  <2>6. CASE OutputsComplete(i)
    <3>1. Leaves(i, "done")
      BY <2>6 DEF OutputsComplete, Advance, Finished, JobEnded, Leaves
    <3>. QED  BY <3>1
  <2>. QED  BY <1>1, <2>1, <2>2, <2>3, <2>4, <2>5, <2>6
<1>. QED  BY <1>2, <1>3 DEF DeliverySteps, JobEnded, Finished

\* A log nothing of which was processed yet is in order.
LEMMA DistInvInit == DistInit => DistInv
BY DEF DistInit, DistInv, LaneInOrder, DeliverySteps, Received

\* A delivery moved out of its queue follows jobs of its lane that have ended,
\* and one whose job has ended can only be done.
LEMMA DistInvStep == DistInv /\ [DistNext]_distVars => DistInv'
<1>. SUFFICES ASSUME DistInv, [DistNext]_distVars
              PROVE  DistInv'
  OBVIOUS
<1>1. CASE UNCHANGED distVars
  BY <1>1 DEF DistInv, LaneInOrder, LaneOf, Received, distVars
<1>2. CASE DistNext
  <2>1. UNCHANGED <<sub, log>>
    BY <1>2, OneDeliveryMoves
  <2>2. PICK m \in Received, to \in DeliverySteps \ {"received"} :
          /\ step' = [step EXCEPT ![m] = to]
          /\ step[m] \in JobEnded => to = "done"
          /\ step[m] = "received" => LaneIsFree(m)
    BY <1>2, OneDeliveryMoves DEF Leaves
  <2>3. Received' = Received /\ \A i \in Received : LaneOf(i)' = LaneOf(i)
    BY <2>1 DEF Received, LaneOf
  <2>4. step' \in [Received -> DeliverySteps]
    BY <2>2 DEF DistInv
  <2>5. LaneInOrder'
    <3>. SUFFICES ASSUME NEW i \in Received, NEW j \in Received, i < j,
                         LaneOf(i) # None, LaneOf(i) = LaneOf(j), step'[j] # "received"
                  PROVE  step'[i] \in JobEnded
      BY <2>3 DEF LaneInOrder
    <3>1. step[i] \in JobEnded
      <4>1. CASE step[j] # "received"
        BY <4>1 DEF DistInv, LaneInOrder
      <4>2. CASE step[j] = "received"
        <5>1. j = m
          BY <4>2, <2>2 DEF DistInv
        <5>2. i \in 1..(j - 1)
          BY LogsAreSequences, SMTT(30) DEF Received, DistInv
        <5>. QED  BY <5>1, <5>2, <4>2, <2>2 DEF LaneIsFree
      <4>. QED  BY <4>1, <4>2
    <3>2. i = m => to = "done"
      BY <3>1, <2>2
    <3>. QED  BY <3>1, <3>2, <2>2 DEF DistInv, JobEnded, Finished
  <2>. QED  BY <2>1, <2>3, <2>4, <2>5 DEF DistInv
<1>. QED  BY <1>1, <1>2

\* Whatever the distribution, jobs of one lane run one at a time in receive
\* order: what Scheduler promises, and StartDelivery takes from it.
LEMMA LanesStayInOrder == DistSpec => []DistInv
BY DistInvInit, DistInvStep, PTL DEF DistSpec

-----------------------------------------------------------------------------
\* The lane of a decodable delivery under a keyed store is the key `begin`
\* computes, when no hook before the handler changes the handler's input.
LEMMA LaneIsStateKey ==
  ASSUME ~sub.rewrites, NEW i, Decoded(i) # Garbled, KeyAtBegin(i) # None
  PROVE  LaneOf(i) = KeyAtBegin(i)
<1>1. KeyAtBegin(i) = StateKey(sub, log[i], Decoded(i))
  BY DEF KeyAtBegin, pre_handler
<1>2. Keyed(sub)
  BY <1>1 DEF StateKey, Keyed
<1>. QED  BY <1>1, <1>2 DEF LaneOf, Lane, Decoded

\* A turn on the state is over for good: those before in its lane have ended
\* when a delivery begins, and the entry's lock leaves none of them holding.
LEMMA StateStep ==
  ASSUME \A s \in Subscriptions : ~s.rewrites, DistInv, changes \in Seq(Received), SharedStateInOrder,
         [DistNext]_distVars
  PROVE  SharedStateInOrder'
<1>1. CASE UNCHANGED distVars
  BY <1>1 DEF distVars, SharedStateInOrder, UsedState, Holds, Decoded, KeyAtBegin, Received
<1>2. CASE DistNext
  <2>1. UNCHANGED <<sub, log>> /\ Received' = Received /\ step \in [Received -> DeliverySteps]
    BY <1>2, OneDeliveryMoves DEF Received, DistInv
  <2>2. \A i \in Received : Decoded(i)' = Decoded(i) /\ KeyAtBegin(i)' = KeyAtBegin(i)
    BY <2>1 DEF Decoded, KeyAtBegin
  <2>3. PICK m \in Received :
          \/ StartDelivery(m) \/ PreHandlerEnds(m) \/ BeginState(m) \/ Handle(m)
          \/ Complete(m) \/ OutputsComplete(m)
    BY <1>2 DEF DistNext
  <2>. SUFFICES ASSUME NEW i \in Received, NEW j \in Received, i < j,
                       Decoded(i) # Garbled, Decoded(j) # Garbled,
                       KeyAtBegin(i) # None, KeyAtBegin(i) = KeyAtBegin(j), UsedState(j)'
                PROVE  step'[i] \in JobEnded \ {"holding"}
    BY <2>1, <2>2 DEF SharedStateInOrder
  <2>4. \A n \in Received : n # m => step'[n] = step[n]
    BY <2>1, <2>3 DEF StartDelivery, PreHandlerEnds, BeginState, Handle, Complete, OutputsComplete,
                      Advance
  <2>5. Keyed(sub)
    BY DEF KeyAtBegin, StateKey, Keyed
  <2>6. UsedState(j) => step[i] \in JobEnded \ {"holding"}
    BY DEF SharedStateInOrder
  <2>7. step[i] \in JobEnded \ {"holding"} => step'[i] \in JobEnded \ {"holding"}
    <3>1. CASE i # m
      BY <2>4, <3>1
    <3>2. CASE i = m
      BY <2>1, <2>3, <3>2 DEF StartDelivery, PreHandlerEnds, BeginState, Handle, Complete,
         OutputsComplete, Advance, JobEnded, Finished
    <3>. QED  BY <3>1, <3>2
  <2>8. CASE ~UsedState(j)
    <3>1. j = m /\ BeginState(m) /\ ~IsHeld(KeyAtBegin(j))
      <4>1. CASE j # m
        <5>1. step'[j] = step[j]
          BY <2>4, <4>1
        <5>2. changes' = changes \/ changes' = Append(changes, m)
          BY <2>3 DEF StartDelivery, PreHandlerEnds, BeginState, Handle, Complete, OutputsComplete,
                      MayChange
        <5>3. \A k \in DOMAIN changes' : changes'[k] = m \/ (k \in DOMAIN changes /\ changes'[k] = changes[k])
          BY <5>2, SMTT(30)
        <5>. QED  BY <4>1, <5>1, <5>3, <2>8 DEF UsedState, Holds
      <4>2. CASE j = m
        <5>1. ~BeginState(m) => UNCHANGED changes \/ Holds(m)
          BY <2>3 DEF StartDelivery, PreHandlerEnds, Handle, Complete, OutputsComplete, Holds
        <5>2. UNCHANGED changes
          BY <4>2, <5>1, <2>8 DEF UsedState, BeginState
        <5>3. Holds(j)' \/ step'[j] = "skipped"
          BY <5>2, <2>8 DEF UsedState
        <5>4. BeginState(m)
          BY <2>1, <2>3, <2>5, <2>8, <4>2, <5>3
             DEF StartDelivery, PreHandlerEnds, Handle, Complete, OutputsComplete, Advance, Holds, UsedState
        <5>. QED  BY <4>2, <5>4, <2>1 DEF BeginState
      <4>. QED  BY <4>1, <4>2
    <3>2. step[i] # "holding"
      BY <3>1 DEF IsHeld, Holds
    <3>3. step[j] # "received"
      BY <3>1 DEF BeginState
    <3>4. LaneOf(i) = KeyAtBegin(i) /\ LaneOf(j) = KeyAtBegin(j)
      BY LaneIsStateKey DEF DistInv
    <3>5. step[i] \in JobEnded
      BY <3>3, <3>4 DEF DistInv, LaneInOrder
    <3>. QED  BY <3>2, <3>5, <2>7
  <2>. QED  BY <2>6, <2>7, <2>8
<1>. QED  BY <1>1, <1>2

\* The store's changes are those of deliveries of the log.
LEMMA ChangesAreReceived ==
  changes \in Seq(Received) /\ [DistNext]_distVars => (changes \in Seq(Received))'
<1>. SUFFICES ASSUME changes \in Seq(Received), [DistNext]_distVars
              PROVE  changes' \in Seq(Received')
  OBVIOUS
<1>1. CASE UNCHANGED distVars
  BY <1>1 DEF distVars, Received
<1>2. CASE DistNext
  <2>1. PICK m \in Received : changes' = changes \/ changes' = Append(changes, m)
    BY <1>2 DEF DistNext, StartDelivery, PreHandlerEnds, BeginState, Handle, Complete, OutputsComplete,
                MayChange
  <2>2. Received' = Received
    BY <1>2, OneDeliveryMoves DEF Received
  <2>. QED  BY <2>1, <2>2, SMTT(30)
<1>. QED  BY <1>1, <1>2

\* Without a hook that rewrites the handler's input, deliveries that share
\* state use it one at a time in receive order, outputs pending or not: the key
\* for the lane and the key in `begin` agree (KeyedStateStore, handler.rs).
THEOREM SharedStateIsOrdered ==
  ASSUME \A s \in Subscriptions : ~s.rewrites
  PROVE  DistSpec => []SharedStateInOrder
<1>. DEFINE Inv == changes \in Seq(Received) /\ SharedStateInOrder
<1>1. DistInit => Inv
  <2>. SUFFICES ASSUME DistInit PROVE Inv
    OBVIOUS
  <2>1. \A j \in Received : ~UsedState(j)
    BY SMTT(30) DEF DistInit, UsedState, Holds
  <2>2. changes \in Seq(Received)
    BY SMTT(30) DEF DistInit
  <2>. QED  BY <2>1, <2>2 DEF SharedStateInOrder
<1>2. DistInv /\ Inv /\ [DistNext]_distVars => Inv'
  BY StateStep, ChangesAreReceived
<1>3. Inv => SharedStateInOrder
  OBVIOUS
<1>. QED  BY <1>1, <1>2, <1>3, LanesStayInOrder, PTL DEF DistSpec

-----------------------------------------------------------------------------
\* What a delivery went through: one that did not decode goes no further than
\* the error policy, and the store's changes are of deliveries that are done.
ChangesInv ==
  /\ \A i \in Received : step[i] \notin {"received", "rejected"} => Decoded(i) # Garbled
  /\ changes \in Seq(Received) /\ \A k \in DOMAIN changes : step[changes[k]] = "done"
  /\ AppliedIsHeld

\* The delivery the last change of the entry covers was received before it, and
\* so was the first reception of its record: whatever shares the key is done
\* with the state by then.
LEMMA CoveredIsHeld ==
  ASSUME DistInv, ChangesInv, SharedStateInOrder, NEW i \in Received,
         step[i] = "started", KeyAtBegin(i) # None, Applied(i)
  PROVE  \E j \in Received : /\ j # i
                             /\ log[j].partition = log[i].partition /\ log[j].offset = log[i].offset
                             /\ step[j] \in {"done", "rejected", "waiting"}
<1>1. PICK c \in DOMAIN changes :
        KeyAtBegin(changes[c]) = KeyAtBegin(i) /\ is_covered_by(log[i], log[changes[c]])
  BY DEF Applied, EntryOf
<1>2. PICK e \in Received : e = changes[c]
  BY SMTT(30) DEF ChangesInv
<1>3. step[e] = "done" /\ e # i /\ UsedState(e)
  BY <1>1, <1>2 DEF ChangesInv, UsedState
<1>4. Decoded(i) # Garbled /\ Decoded(e) # Garbled
  BY <1>3 DEF ChangesInv
<1>5. \A a \in Received :
        a < e /\ Decoded(a) # Garbled /\ KeyAtBegin(a) = KeyAtBegin(i) => step[a] \in JobEnded \ {"holding"}
  BY <1>1, <1>2, <1>3, <1>4 DEF SharedStateInOrder
<1>6. DOMAIN log = 1..Len(log) /\ Len(log) \in Nat /\ log \in Logs
  BY LogsAreSequences DEF DistInv
<1>7. i \in Nat /\ e \in Nat
  BY <1>6, SMTT(30) DEF Received
<1>8. e < i
  <2>1. ~(i < e)
    BY <1>4, <1>5 DEF JobEnded, Finished
  <2> QED
    BY <1>3, <1>7, <2>1, SMTT(30)
<1>9. PICK k \in 1..e : log[k] = log[i]
  BY <1>1, <1>2, <1>6, <1>8, RewindsRepeat DEF is_covered_by, Received
<1>10. k \in Received /\ k # i
  BY <1>6, <1>7, <1>8, <1>9, SMTT(30) DEF Received
<1>11. step[k] \in {"done", "rejected", "skipped", "waiting"}
  <2>1. CASE k = e
    BY <1>3, <2>1
  <2>2. CASE k # e
    <3>1. k < e
      BY <1>7, <2>2, SMTT(30)
    <3>2. Decoded(k) = Decoded(i) /\ KeyAtBegin(k) = KeyAtBegin(i)
      BY <1>9 DEF Decoded, KeyAtBegin
    <3>3. step[k] \in JobEnded \ {"holding"}
      BY <1>4, <1>5, <1>10, <3>1, <3>2
    <3> QED
      BY <3>3 DEF JobEnded, Finished
  <2> QED
    BY <2>1, <2>2
<1>12. CASE step[k] \in {"done", "rejected", "waiting"}
  BY <1>9, <1>10, <1>12
<1>13. CASE step[k] = "skipped"
  <2>1. PICK j \in Received : /\ log[j].partition = log[k].partition /\ log[j].offset = log[k].offset
                              /\ step[j] \in {"done", "rejected", "waiting"}
    BY <1>10, <1>13 DEF ChangesInv, AppliedIsHeld
  <2> QED
    BY <1>9, <2>1
<1> QED
  BY <1>11, <1>12, <1>13

\* Only `begin` skips a delivery, and only `commit` changes an entry.
LEMMA ChangesStep ==
  ASSUME DistInv, ChangesInv, SharedStateInOrder, [DistNext]_distVars
  PROVE  ChangesInv'
<1>1. CASE UNCHANGED distVars
  BY <1>1 DEF distVars, ChangesInv, AppliedIsHeld, Decoded, Received
<1>2. CASE DistNext
  <2>1. UNCHANGED <<sub, log>> /\ Received' = Received /\ step \in [Received -> DeliverySteps]
    BY <1>2, OneDeliveryMoves DEF Received, DistInv
  <2>2. PICK m \in Received :
          \/ StartDelivery(m) \/ PreHandlerEnds(m) \/ BeginState(m) \/ Handle(m)
          \/ Complete(m) \/ OutputsComplete(m)
    BY <1>2 DEF DistNext
  <2>3. PICK to \in DeliverySteps : step' = [step EXCEPT ![m] = to]
    <3>1. \E to \in {"rejected", "started", "done", "skipped", "begun", "handled", "holding", "waiting"} :
            step' = [step EXCEPT ![m] = to]
      BY <2>2 DEF StartDelivery, PreHandlerEnds, BeginState, Handle, Complete, OutputsComplete, Advance
    <3> QED
      BY <3>1 DEF DeliverySteps, JobEnded, Finished
  <2>4. \A i \in Received : step'[i] = IF i = m THEN to ELSE step[i]
    BY <2>1, <2>3
  <2>5. /\ step[m] \notin Finished
        /\ step[m] = "waiting" => to = "done"
        /\ to \in {"rejected", "received"} \/ Decoded(m) # Garbled
        /\ to = "skipped" => step[m] = "started" /\ KeyAtBegin(m) # None /\ Applied(m)
        /\ changes' = changes \/ (changes' = Append(changes, m) /\ to = "done")
    <3>1. to = step'[m]
      BY <2>4
    <3>2. step[m] = "received" \/ step[m] = "rejected" \/ Decoded(m) # Garbled
      BY DEF ChangesInv
    <3>3. CASE StartDelivery(m)
      BY <2>1, <3>1, <3>2, <3>3 DEF StartDelivery, Advance, Finished
    <3>4. CASE PreHandlerEnds(m)
      BY <2>1, <3>1, <3>2, <3>4 DEF PreHandlerEnds, Advance, Finished
    <3>5. CASE BeginState(m)
      BY <2>1, <3>1, <3>2, <3>5 DEF BeginState, Advance, Finished
    <3>6. CASE Handle(m)
      BY <2>1, <3>1, <3>2, <3>6 DEF Handle, Advance, Finished
    <3>7. CASE Complete(m)
      BY <2>1, <3>1, <3>2, <3>7 DEF Complete, MayChange, Advance, Finished
    <3>8. CASE OutputsComplete(m)
      BY <2>1, <3>1, <3>2, <3>8 DEF OutputsComplete, MayChange, Advance, Finished
    <3> QED
      BY <2>2, <3>3, <3>4, <3>5, <3>6, <3>7, <3>8
  <2>6. \A i \in Received : Decoded(i)' = Decoded(i)
    BY <2>1 DEF Decoded
  <2>7. \A i \in Received : step'[i] \notin {"received", "rejected"} => Decoded(i) # Garbled
    BY <2>4, <2>5 DEF ChangesInv
  <2>8. changes' \in Seq(Received) /\ \A k \in DOMAIN changes' : step'[changes'[k]] = "done"
    <3>1. \A k \in DOMAIN changes : changes[k] \in Received /\ step'[changes[k]] = "done"
      BY <2>4, <2>5, SMTT(30) DEF ChangesInv, Finished
    <3>2. CASE changes' = changes
      BY <3>1, <3>2 DEF ChangesInv
    <3>3. CASE changes' = Append(changes, m) /\ to = "done"
      BY <2>4, <3>1, <3>3, SMTT(30) DEF ChangesInv
    <3> QED
      BY <2>5, <3>2, <3>3
  <2>9. AppliedIsHeld'
    <3> SUFFICES ASSUME NEW i \in Received, step'[i] = "skipped"
                 PROVE  \E j \in Received :
                          /\ j # i
                          /\ log[j].partition = log[i].partition /\ log[j].offset = log[i].offset
                          /\ step'[j] \in {"done", "rejected", "waiting"}
      BY <2>1 DEF AppliedIsHeld
    <3>1. PICK j \in Received : /\ j # i
                                /\ log[j].partition = log[i].partition /\ log[j].offset = log[i].offset
                                /\ step[j] \in {"done", "rejected", "waiting"}
      <4>1. CASE i = m
        BY <2>4, <2>5, <4>1, CoveredIsHeld
      <4>2. CASE i # m
        BY <2>4, <4>2, SMTT(30) DEF ChangesInv, AppliedIsHeld
      <4> QED
        BY <4>1, <4>2
    <3>2. step'[j] = step[j] \/ step'[j] = "done"
      BY <2>4, <2>5, <3>1 DEF Finished
    <3> QED
      BY <3>1, <3>2
  <2> QED
    BY <2>1, <2>6, <2>7, <2>8, <2>9 DEF ChangesInv
<1> QED
  BY <1>1, <1>2

\* Without a hook that rewrites the handler's input, a delivery acknowledged
\* unprocessed was processed, answered by a hook or rejected as an earlier
\* reception of the same record (Begin::Applied, memory.rs).
THEOREM AppliedWasHeld ==
  ASSUME \A s \in Subscriptions : ~s.rewrites
  PROVE  DistSpec => []AppliedIsHeld
<1>1. DistInit => ChangesInv
  BY SMTT(30) DEF DistInit, ChangesInv, AppliedIsHeld, Received
<1>2. DistInv /\ SharedStateInOrder /\ ChangesInv /\ [DistNext]_distVars => ChangesInv'
  BY ChangesStep
<1>3. ChangesInv => AppliedIsHeld
  BY DEF ChangesInv
<1> QED
  BY <1>1, <1>2, <1>3, LanesStayInOrder, SharedStateIsOrdered, PTL DEF DistSpec

-----------------------------------------------------------------------------
\* Under a distribution that keeps the source order, two decodable deliveries
\* of one ordering scope have one lane.
LEMMA ScopeHasOneLane ==
  ASSUME NEW s \in Subscriptions, keeps_source_order(s.by), ~Keyed(s),
         NEW l \in Logs, NEW i \in DOMAIN l, NEW j \in DOMAIN l,
         decode(s, l[i]) # Garbled, decode(s, l[j]) # Garbled,
         ordering_key(s, l[i]) # None, ordering_key(s, l[i]) = ordering_key(s, l[j])
  PROVE  Lane(s, l[i]) # None /\ Lane(s, l[i]) = Lane(s, l[j])
<1>. DEFINE d == l[i]
            e == l[j]
<1>1. Lane(s, d) = DistributionKey(s, d) /\ Lane(s, e) = DistributionKey(s, e)
  BY DEF Lane
<1>2. partition(d) # None
  BY NoneIsNoScope DEF partition
<1>3. s.platform \in {"kafka", "pulsar"} => partition(d) = partition(e)
  BY DEF ordering_key, kafka_ordering_key, pulsar_ordering_key, keyed_partition, partition,
         KeyedScope, Scope
<1>4. CASE s.by = "Partition"
  BY <1>1, <1>2, <1>3, <1>4, SubscriptionsAreBuildable DEF DistributionKey
<1>5. CASE s.by = "SourceOrder"
  <2>1. Lane(s, d) = ReportedKey(s, d) /\ Lane(s, e) = ReportedKey(s, e)
    BY <1>1, <1>5 DEF DistributionKey, SourceOrder
  <2>2. CASE ~s.test
    BY <2>1, <2>2 DEF ReportedKey
  <2>3. CASE s.test
    <3>1. ReportedKey(s, d) = test_key(s, d) /\ ReportedKey(s, e) = test_key(s, e)
      BY <2>3 DEF ReportedKey
    <3>2. CASE s.platform \in {"kafka", "pulsar"}
      BY <1>2, <1>3, <2>1, <3>1, <3>2 DEF test_key, kafka_test_key, pulsar_test_key
    <3>3. CASE s.platform = "sqs"
      BY <2>1, <3>1, <3>3 DEF test_key, sqs_test_key, ordering_key, sqs_ordering_key, KeyedScope
    <3>4. CASE s.platform = "pubsub"
      BY <2>1, <3>1, <3>4 DEF test_key, pubsub_test_key, ordering_key, pubsub_ordering_key, KeyedScope
    <3>5. CASE s.platform \notin {"kafka", "pulsar", "sqs", "pubsub"}
      BY <2>3, <3>5, SubscriptionsAreBuildable DEF ordering_key, rabbitmq_ordering_key
    <3>. QED  BY <3>2, <3>3, <3>4, <3>5
  <2>. QED  BY <2>2, <2>3
<1>. QED  BY <1>4, <1>5 DEF keeps_source_order

\* A transactional subscription, and any other whose distribution keeps the
\* source order, starts the decodable deliveries of one ordering scope of the
\* source in receive order, each after the job of the one before has ended.
THEOREM ScopesAreOrdered == DistSpec => []ScopeInOrder
<1>1. DistInv => ScopeInOrder
  <2>. SUFFICES ASSUME DistInv,
                       sub.transactional \/ (keeps_source_order(sub.by) /\ ~Keyed(sub)),
                       NEW i \in Received, NEW j \in Received, i < j,
                       Decoded(i) # Garbled, Decoded(j) # Garbled,
                       ordering_key(sub, log[i]) # None,
                       ordering_key(sub, log[i]) = ordering_key(sub, log[j]),
                       step[j] # "received"
                PROVE  step[i] \in JobEnded
    BY DEF ScopeInOrder
  <2>1. keeps_source_order(sub.by) /\ ~Keyed(sub)
    BY DEF DistInv, validate, Keyed
  <2>2. LaneOf(i) # None /\ LaneOf(i) = LaneOf(j)
    BY <2>1, ScopeHasOneLane DEF DistInv, LaneOf, Decoded, Received
  <2>. QED  BY <2>2 DEF DistInv, LaneInOrder
<1>. QED  BY <1>1, LanesStayInOrder, PTL

-----------------------------------------------------------------------------
(* Transactional batches, for any number of deliveries and scopes, any batch *)
(* size and any number of attempts, when every delivery decodes: one that    *)
(* does not has no lane and may overtake.                                    *)

InQueue(d) == \E i \in DOMAIN queue : queue[i] = d
Waiting(d) == InQueue(d) \/ d \in members

BatchTypes ==
  /\ stage \in [Ids -> Stages]
  /\ answer \in [Ids -> {"none", "ok", "error", "lost"}]
  /\ queue \in Seq(Ids)
  /\ members \subseteq Ids
  /\ cpc \in {"recv", "collect", "retain", "commit", "answer", "closed"}
  /\ attempt \in Nat \ {0} /\ refusals \in Nat
  /\ failure \in BOOLEAN /\ aborting \in BOOLEAN
  /\ position \in [Scopes -> Nat]
  /\ published \subseteq Ids

(* A delivery starts after the jobs of the earlier ones of its scope, and    *)
(* behind one whose job failed none starts.                                  *)
StartsInOrder ==
  \A e, d \in Ids :
    e < d /\ ScopeOf[e] = ScopeOf[d] /\ stage[d] # "unstarted" =>
      /\ stage[e] \notin {"unstarted", "job"}
      /\ stage[e] = "failed" => answer[e] = "error"

(* Where the entry of a delivery is, by what its task and channel say.       *)
EntriesMatch ==
  \A d \in Ids :
    /\ Waiting(d) => stage[d] \in {"enlisted", "dropped"} /\ answer[d] = "none"
    /\ d \in published \/ answer[d] # "none" => stage[d] \notin {"unstarted", "job"}
    /\ stage[d] = "enlisted" => Waiting(d) \/ answer[d] # "none"
    /\ stage[d] = "acked" => answer[d] = "ok"
    /\ stage[d] = "failed" => answer[d] \in {"none", "error"}
    /\ stage[d] = "dropped" => ScopeOf[d] \in revoked \/ aborting
    /\ answer[d] = "ok" => d \in published
    /\ answer[d] = "error" => failure
    /\ answer[d] = "lost" => stage[d] = "dropped" \/ ScopeOf[d] \in revoked

(* Deliveries of one scope are committed, collected and queued in order.     *)
QueueInOrder ==
  \A i, j \in DOMAIN queue :
    i < j /\ ScopeOf[queue[i]] = ScopeOf[queue[j]] => queue[i] < queue[j]

MembersInOrder ==
  \A m \in members : \A i \in DOMAIN queue :
    ScopeOf[m] = ScopeOf[queue[i]] => m < queue[i]

PublishedFirst ==
  \A d \in published :
    /\ \A i \in DOMAIN queue : ScopeOf[d] = ScopeOf[queue[i]] => d < queue[i]
    /\ cpc \in {"collect", "retain", "commit"} =>
         \A m \in members : ScopeOf[d] = ScopeOf[m] => d < m

(* What the committer knows of its batch at each point, and its counters.    *)
CommitterMatches ==
  /\ cpc \in {"retain", "commit"} => ~failure /\ refusals >= attempt - 1
  /\ cpc \in {"recv", "closed"} => members = {}
  /\ cpc = "answer" /\ ~failure => members \subseteq published
  /\ failure => refusals >= attempt

PositionsMatch ==
  /\ \A d \in published : position[ScopeOf[d]] > d
  /\ CoversEarlierUntilAbort

BatchInv ==
  /\ BatchTypes /\ StartsInOrder /\ EntriesMatch /\ QueueInOrder /\ MembersInOrder
  /\ PublishedFirst /\ CommitterMatches /\ PositionsMatch

-----------------------------------------------------------------------------
(* A nonempty set of deliveries has a last one: Max of the offsets that      *)
(* SourceOffsets::new collects is one of them.                               *)
LEMMA LastOf ==
  ASSUME NEW T \in SUBSET Ids, T # {}
  PROVE  Max(T) \in T /\ \A y \in T : Max(T) >= y
<1> DEFINE U == {N - x : x \in T}
           R == {ss \in Nat \X Nat : ss[1] < ss[2]}
<1>0. N \in Nat /\ \A x \in T : x \in Int /\ x <= N
  BY BatchAssumption, SMTT(30) DEF Ids
<1>1. U \subseteq Nat /\ U # {}
  <2>1. \A x \in T : N - x \in Nat
    BY <1>0, SMTT(30)
  <2> QED
    BY <2>1
<1>2. PICK u \in U : \A y \in U : <<y, u>> \notin R
  <2>1. IsWellFoundedOn(R, Nat)
    BY NatLessThanWellFounded DEF OpToRel
  <2> HIDE DEF U, R
  <2> QED
    BY <1>1, <2>1, WFMin
<1>3. \A y \in U : ~(y < u)
  BY <1>1, <1>2
<1>4. PICK x \in T : u = N - x
  BY <1>2
<1>5. \A y \in T : x >= y
  <2> SUFFICES ASSUME NEW y \in T PROVE x >= y
    OBVIOUS
  <2>1. ~(N - y < N - x)
    BY <1>3, <1>4
  <2> QED
    BY <2>1, <1>0, SMTT(30)
<1>6. \E z \in T : \A y \in T : z >= y
  BY <1>4, <1>5
<1> QED
  BY <1>6 DEF Max

(* A sink that was just built has an empty queue and no batch.               *)
LEMMA BatchInvInit == Init => BatchInv
<1> SUFFICES ASSUME Init PROVE BatchInv
  OBVIOUS
<1>1. BatchTypes
  <2>1. queue \in Seq(Ids)
    BY SMTT(30) DEF Init
  <2>2. position \in [Scopes -> Nat]
    BY DEF Init
  <2>3. stage \in [Ids -> Stages] /\ answer \in [Ids -> {"none", "ok", "error", "lost"}]
    BY DEF Init, Stages
  <2>4. members \subseteq Ids /\ published \subseteq Ids
    BY DEF Init
  <2>5. attempt \in Nat \ {0} /\ refusals \in Nat
    BY SMTT(30) DEF Init
  <2>6. cpc = "recv" /\ failure \in BOOLEAN /\ aborting \in BOOLEAN
    BY DEF Init
  <2> QED
    BY <2>1, <2>2, <2>3, <2>4, <2>5, <2>6 DEF BatchTypes
<1>2. DOMAIN queue = {}
  BY SMTT(30) DEF Init
<1>3. \A d \in Ids : position[ScopeOf[d]] = 0
  BY BatchAssumption DEF Init, Ids
<1>4. StartsInOrder /\ EntriesMatch
  BY <1>2 DEF Init, StartsInOrder, EntriesMatch, Waiting, InQueue
<1>5. QueueInOrder /\ MembersInOrder /\ PublishedFirst /\ CommitterMatches
  BY <1>2 DEF Init, QueueInOrder, MembersInOrder, PublishedFirst, CommitterMatches
<1>6. PositionsMatch
  BY <1>3, SMTT(30) DEF Init, PositionsMatch, CoversEarlierUntilAbort, CommitCoversEarlier, Ids
<1> QED
  BY <1>1, <1>4, <1>5, <1>6 DEF BatchInv

(* Steps of jobs, acknowledgements and the source leave queue and batch.     *)
LEMMA TaskSteps ==
  ASSUME Undecodable = {}, BatchInv, UNCHANGED <<answer, queue, batchVars, brokerVars>>,
         \/ \E d \in Ids : Start(d) \/ JobFails(d) \/ Answered(d) \/ DropTask(d)
         \/ \E s \in Scopes : Revoke(s)
         \/ Shutdown \/ DrainTimeout
         \/ UNCHANGED <<stage, revoked, aborting>>
  PROVE  BatchInv'
<1> USE DEF BatchInv, batchVars, brokerVars
<1>1. /\ QueueInOrder' /\ MembersInOrder' /\ PublishedFirst' /\ CommitterMatches'
  BY DEF QueueInOrder, MembersInOrder, PublishedFirst, CommitterMatches
<1>2. \A d \in Ids : Waiting(d)' <=> Waiting(d)
  BY DEF Waiting, InQueue
<1>3. ASSUME NEW d \in Ids, Start(d) PROVE BatchInv'
  <2>1. BatchTypes'
    BY <1>3 DEF BatchTypes, Start, Stages, sourceVars
  <2>2. StartsInOrder'
    BY <1>3, Undecodable = {}, SMTT(30) DEF BatchTypes, StartsInOrder, Start, LaneFree, Stages, Ids
  <2>3. EntriesMatch'
    BY <1>2, <1>3, SMTT(30) DEF BatchTypes, EntriesMatch, Start, Stages, sourceVars
  <2>4. PositionsMatch'
    BY <1>3 DEF PositionsMatch, CoversEarlierUntilAbort, CommitCoversEarlier, Start, sourceVars
  <2> QED
    BY <1>1, <2>1, <2>2, <2>3, <2>4
<1>4. ASSUME NEW d \in Ids, JobFails(d) PROVE BatchInv'
  <2>1. BatchTypes'
    BY <1>4 DEF BatchTypes, JobFails, Stages, sourceVars
  <2>2. StartsInOrder'
    BY <1>4 DEF BatchTypes, StartsInOrder, JobFails, Stages
  <2>3. EntriesMatch'
    BY <1>2, <1>4, SMTT(30) DEF BatchTypes, EntriesMatch, JobFails, Stages, sourceVars
  <2>4. PositionsMatch'
    BY <1>4 DEF PositionsMatch, CoversEarlierUntilAbort, CommitCoversEarlier, JobFails, sourceVars
  <2> QED
    BY <1>1, <2>1, <2>2, <2>3, <2>4
<1>5. ASSUME NEW d \in Ids, Answered(d) PROVE BatchInv'
  <2>1. BatchTypes'
    BY <1>5 DEF BatchTypes, Answered, Stages, sourceVars
  <2>2. StartsInOrder'
    BY <1>5 DEF BatchTypes, StartsInOrder, EntriesMatch, Answered, Stages
  <2>3. EntriesMatch'
    BY <1>2, <1>5, SMTT(30) DEF BatchTypes, EntriesMatch, Answered, Stages, sourceVars
  <2>4. PositionsMatch'
    BY <1>5 DEF PositionsMatch, CoversEarlierUntilAbort, CommitCoversEarlier, Answered, sourceVars
  <2> QED
    BY <1>1, <2>1, <2>2, <2>3, <2>4
<1>6. ASSUME NEW d \in Ids, DropTask(d) PROVE BatchInv'
  <2>1. BatchTypes'
    BY <1>6 DEF BatchTypes, DropTask, Stages, sourceVars
  <2>2. StartsInOrder'
    BY <1>6 DEF BatchTypes, StartsInOrder, DropTask, Stages
  <2>3. EntriesMatch'
    BY <1>2, <1>6, SMTT(30) DEF BatchTypes, EntriesMatch, DropTask, Stages, sourceVars
  <2>4. PositionsMatch'
    BY <1>6 DEF PositionsMatch, CoversEarlierUntilAbort, CommitCoversEarlier, DropTask, sourceVars
  <2> QED
    BY <1>1, <2>1, <2>2, <2>3, <2>4
<1>7. CASE (\E s \in Scopes : Revoke(s)) \/ Shutdown \/ DrainTimeout \/ UNCHANGED <<stage, revoked, aborting>>
  <2>1. stage' = stage /\ revoked \subseteq revoked' /\ (aborting => aborting') /\ aborting' \in BOOLEAN
    BY <1>7 DEF BatchTypes, Revoke, Shutdown, DrainTimeout, jobVars, sourceVars
  <2>2. BatchTypes' /\ StartsInOrder'
    BY <2>1 DEF BatchTypes, StartsInOrder
  <2>3. EntriesMatch'
    BY <2>1, <1>2 DEF EntriesMatch
  <2>4. PositionsMatch'
    BY <2>1 DEF PositionsMatch, CoversEarlierUntilAbort, CommitCoversEarlier
  <2> QED
    BY <1>1, <2>2, <2>3, <2>4
<1> QED
  BY <1>3, <1>4, <1>5, <1>6, <1>7

(* A delivery enters the queue behind all earlier ones of its scope.         *)
LEMMA EnlistStep ==
  ASSUME BatchInv, NEW d \in Ids, Enlist(d)
  PROVE  BatchInv'
<1> USE DEF BatchInv
<1> DEFINE n == Len(queue)
<1>1. queue \in Seq(Ids) /\ n \in Nat /\ DOMAIN queue = 1..n /\ \A i \in 1..n : queue[i] \in Ids
  BY SMTT(30) DEF BatchTypes
<1>2. /\ DOMAIN queue' = 1..(n + 1) /\ queue' \in Seq(Ids)
      /\ \A i \in 1..n : queue'[i] = queue[i]
      /\ queue'[n + 1] = d
  BY <1>1, SMTT(30) DEF Enlist
<1> HIDE DEF n
<1>3. /\ stage' = [stage EXCEPT ![d] = "enlisted"] /\ stage[d] = "job"
      /\ UNCHANGED <<answer, members, cpc, attempt, failure, refusals, revoked, aborting, position,
                     published>>
  BY DEF Enlist, batchVars, sourceVars, brokerVars
<1>4. \A e \in Ids : Waiting(e)' <=> Waiting(e) \/ e = d
  BY <1>1, <1>2, <1>3, SMTT(30) DEF Waiting, InQueue
<1>5. BatchTypes'
  BY <1>2, <1>3 DEF BatchTypes, Stages
<1>6. StartsInOrder'
  BY <1>3 DEF BatchTypes, StartsInOrder, Stages
<1>7. EntriesMatch'
  BY <1>3, <1>4 DEF BatchTypes, EntriesMatch, Stages
<1>8. \A e \in Ids : stage[e] \notin {"unstarted", "job"} /\ ScopeOf[e] = ScopeOf[d] => e < d
  BY <1>3, SMTT(30) DEF StartsInOrder, BatchTypes, Ids
<1>9. \A i \in 1..n : stage[queue[i]] \notin {"unstarted", "job"}
  BY <1>1 DEF EntriesMatch, Waiting, InQueue
<1>10. QueueInOrder'
  BY <1>1, <1>2, <1>8, <1>9, SMTT(30) DEF QueueInOrder
<1>11. MembersInOrder'
  <2>1. \A m \in members : m \in Ids /\ stage[m] \notin {"unstarted", "job"}
    BY DEF BatchTypes, EntriesMatch, Waiting
  <2> QED
    BY <1>1, <1>2, <1>3, <1>8, <2>1, SMTT(30) DEF MembersInOrder
<1>12. PublishedFirst'
  <2>1. \A e \in published : e \in Ids /\ stage[e] \notin {"unstarted", "job"}
    BY DEF BatchTypes, EntriesMatch
  <2> QED
    BY <1>1, <1>2, <1>3, <1>8, <2>1, SMTT(30) DEF PublishedFirst
<1>13. CommitterMatches' /\ PositionsMatch'
  BY <1>3 DEF CommitterMatches, PositionsMatch, CoversEarlierUntilAbort, CommitCoversEarlier
<1> QED
  BY <1>5, <1>6, <1>7, <1>10, <1>11, <1>12, <1>13

(* The committer takes the first delivery of the queue into its batch.       *)
LEMMA RecvStep ==
  ASSUME BatchInv, RecvFirst \/ RecvMore
  PROVE  BatchInv'
<1> USE DEF BatchInv
<1> DEFINE n == Len(queue)
           h == queue[1]
<1>1. queue \in Seq(Ids) /\ n \in Nat /\ DOMAIN queue = 1..n /\ \A i \in 1..n : queue[i] \in Ids
  BY SMTT(30) DEF BatchTypes
<1>2. /\ n >= 1 /\ h \in Ids
      /\ DOMAIN queue' = 1..(n - 1) /\ queue' \in Seq(Ids)
      /\ \A i \in 1..(n - 1) : queue'[i] = queue[i + 1]
  BY <1>1, SMTT(30) DEF RecvFirst, RecvMore
<1>3. /\ members' = members \cup {h}
      /\ cpc' = "collect" /\ cpc \in {"recv", "collect"}
      /\ UNCHANGED <<stage, answer, attempt, failure, refusals, revoked, aborting, position,
                     published>>
  BY <1>1, SMTT(30) DEF RecvFirst, RecvMore, CommitterMatches, sourceVars, brokerVars, jobVars
<1> HIDE DEF n, h
<1>4. \A e \in Ids : Waiting(e)' <=> Waiting(e)
  <2> SUFFICES ASSUME NEW e \in Ids PROVE Waiting(e)' <=> Waiting(e)
    OBVIOUS
  <2>1. ASSUME NEW i \in 1..n, queue[i] = e PROVE Waiting(e)'
    <3>1. CASE i = 1
      BY <1>3, <2>1, <3>1 DEF Waiting, h
    <3>2. CASE i # 1
      <4>1. i - 1 \in 1..(n - 1) /\ queue'[i - 1] = e
        BY <1>1, <1>2, <2>1, <3>2, SMTT(30)
      <4> QED
        BY <1>2, <4>1 DEF Waiting, InQueue
    <3> QED
      BY <3>1, <3>2
  <2>2. ASSUME NEW i \in 1..(n - 1), queue'[i] = e PROVE Waiting(e)
    <3>1. i + 1 \in 1..n /\ queue[i + 1] = e
      BY <1>1, <1>2, <2>2, SMTT(30)
    <3> QED
      BY <1>1, <3>1 DEF Waiting, InQueue
  <2>3. InQueue(h)
    BY <1>1, <1>2, SMTT(30) DEF InQueue, h
  <2> QED
    BY <1>1, <1>2, <1>3, <2>1, <2>2, <2>3 DEF Waiting, InQueue
<1>5. BatchTypes'
  BY <1>2, <1>3 DEF BatchTypes
<1>6. StartsInOrder' /\ EntriesMatch'
  BY <1>3, <1>4 DEF StartsInOrder, EntriesMatch
<1>7. QueueInOrder'
  <2> SUFFICES ASSUME NEW i \in 1..(n - 1), NEW j \in 1..(n - 1), i < j,
                      ScopeOf[queue'[i]] = ScopeOf[queue'[j]]
               PROVE  queue'[i] < queue'[j]
    BY <1>2 DEF QueueInOrder
  <2>1. i + 1 \in 1..n /\ j + 1 \in 1..n /\ i + 1 < j + 1
    BY <1>1, SMTT(30)
  <2> QED
    BY <1>1, <1>2, <2>1 DEF QueueInOrder
<1>8. MembersInOrder'
  <2>1. \A i \in 1..(n - 1) : ScopeOf[h] = ScopeOf[queue[i + 1]] => h < queue[i + 1]
    BY <1>1, <1>2, SMTT(30) DEF QueueInOrder, h
  <2> SUFFICES ASSUME NEW m \in members', NEW i \in 1..(n - 1), ScopeOf[m] = ScopeOf[queue'[i]]
               PROVE  m < queue'[i]
    BY <1>2 DEF MembersInOrder
  <2>2. i + 1 \in 1..n
    BY <1>1, SMTT(30)
  <2> QED
    BY <1>1, <1>2, <1>3, <2>1, <2>2 DEF MembersInOrder
<1>9. PublishedFirst'
  <2>1. \A e \in published : ScopeOf[e] = ScopeOf[h] => e < h
    BY <1>1, <1>2, SMTT(30) DEF PublishedFirst, h
  <2>2. cpc = "recv" => members = {}
    BY DEF CommitterMatches
  <2>3. ASSUME NEW e \in published, NEW i \in 1..(n - 1), ScopeOf[e] = ScopeOf[queue'[i]]
        PROVE  e < queue'[i]
    <3>1. i + 1 \in 1..n
      BY <1>1, SMTT(30)
    <3> QED
      BY <1>1, <1>2, <2>3, <3>1 DEF PublishedFirst
  <2>4. ASSUME NEW e \in published, NEW m \in members', ScopeOf[e] = ScopeOf[m]
        PROVE  e < m
    BY <1>3, <2>1, <2>2, <2>4 DEF PublishedFirst
  <2> QED
    BY <1>2, <1>3, <2>3, <2>4 DEF PublishedFirst
<1>10. CommitterMatches' /\ PositionsMatch'
  BY <1>3 DEF CommitterMatches, PositionsMatch, CoversEarlierUntilAbort, CommitCoversEarlier
<1> QED
  BY <1>5, <1>6, <1>7, <1>8, <1>9, <1>10

(* The batch is closed, fails to commit, or the committer ends: nothing is   *)
(* answered.                                                                 *)
LEMMA ClosingSteps ==
  ASSUME BatchInv,
         BatchCloses \/ CloseBatcher \/ \E cause \in {"transient", "revoked", "rejected"} : CommitFails(cause)
  PROVE  BatchInv'
<1> USE DEF BatchInv
<1>1. /\ UNCHANGED <<stage, answer, queue, members, revoked, aborting, position, published>>
      /\ failure => failure'
  BY SMTT(30) DEF BatchCloses, CloseBatcher, CommitFails, jobVars, sourceVars, brokerVars, CommitterMatches
<1>2. \A d \in Ids : Waiting(d)' <=> Waiting(d)
  BY <1>1 DEF Waiting, InQueue
<1>3. BatchTypes' /\ CommitterMatches' /\ (cpc' \in {"collect", "retain", "commit"} => cpc \in {"collect", "retain", "commit"})
  <2>1. CASE BatchCloses
    BY <2>1, <1>1, SMTT(30) DEF BatchCloses, BatchTypes, CommitterMatches
  <2>2. CASE CloseBatcher
    BY <2>2, <1>1 DEF CloseBatcher, BatchTypes, CommitterMatches
  <2>3. ASSUME NEW cause \in {"transient", "revoked", "rejected"}, CommitFails(cause)
        PROVE  BatchTypes' /\ CommitterMatches' /\ cpc = "commit"
    <3>1. cpc = "commit" /\ ~failure /\ refusals >= attempt - 1
      BY <2>3 DEF CommitFails, CommitterMatches
    <3>2. cause = "revoked" => \E d \in members : Abandoned(d)
      BY <2>3 DEF CommitFails, Abandoned
    <3>3. /\ refusals' \in Nat /\ refusals' >= refusals
          /\ cause # "revoked" => refusals' = refusals + 1
      BY <2>3, SMTT(30) DEF CommitFails, BatchTypes
    <3>4. \/ cpc' = "retain" /\ attempt' = attempt /\ failure' = failure
          \/ cpc' = "retain" /\ attempt' = attempt + 1 /\ failure' = failure /\ cause # "revoked"
          \/ cpc' = "answer" /\ attempt' = attempt /\ failure' = TRUE /\ cause # "revoked"
      BY <2>3, <3>2 DEF CommitFails
    <3>5. BatchTypes'
      <4>1. attempt' \in Nat \ {0}
        BY <3>4, SMTT(30) DEF BatchTypes
      <4>2. cpc' \in {"recv", "collect", "retain", "commit", "answer", "closed"} /\ failure' \in BOOLEAN
        BY <3>4 DEF BatchTypes
      <4>3. /\ stage' \in [Ids -> Stages] /\ answer' \in [Ids -> {"none", "ok", "error", "lost"}]
            /\ queue' \in Seq(Ids) /\ members' \subseteq Ids /\ aborting' \in BOOLEAN
            /\ position' \in [Scopes -> Nat] /\ published' \subseteq Ids
        BY <1>1 DEF BatchTypes
      <4> QED
        BY <3>3, <4>1, <4>2, <4>3 DEF BatchTypes
    <3>6. CommitterMatches'
      BY <3>1, <3>3, <3>4, SMTT(30) DEF BatchTypes, CommitterMatches
    <3> QED
      BY <3>1, <3>5, <3>6
  <2> QED
    BY <2>1, <2>2, <2>3
<1>4. StartsInOrder' /\ EntriesMatch' /\ QueueInOrder' /\ MembersInOrder'
  BY <1>1, <1>2 DEF StartsInOrder, EntriesMatch, QueueInOrder, MembersInOrder
<1>5. PublishedFirst'
  BY <1>1, <1>3 DEF PublishedFirst
<1>6. PositionsMatch'
  BY <1>1 DEF PositionsMatch, CoversEarlierUntilAbort, CommitCoversEarlier
<1> QED
  BY <1>3, <1>4, <1>5, <1>6

(* Abandoned deliveries leave the batch, or the whole batch is answered.     *)
LEMMA AnswerSteps ==
  ASSUME BatchInv, Retain \/ Answer
  PROVE  BatchInv'
<1> USE DEF BatchInv
<1>1. /\ UNCHANGED <<stage, queue, attempt, failure, refusals, revoked, aborting, position, published>>
      /\ members' \subseteq members
      /\ answer' \in [Ids -> {"none", "ok", "error", "lost"}]
      /\ \A d \in Ids : IF d \in members \ members' THEN answer'[d] # "none" ELSE answer'[d] = answer[d]
  BY DEF Retain, Answer, jobVars, sourceVars, brokerVars, BatchTypes
<1>2. \A d \in Ids : d \in members \ members' =>
        /\ answer'[d] = "ok" => d \in published
        /\ answer'[d] = "error" => failure
        /\ answer'[d] = "lost" => stage[d] = "dropped" \/ ScopeOf[d] \in revoked
  BY DEF Retain, Answer, Abandoned, BatchTypes, CommitterMatches
<1>3. \A d \in members : ~InQueue(d)
  BY SMTT(30) DEF MembersInOrder, InQueue, BatchTypes, Ids
<1>4. \A d \in Ids : Waiting(d)' <=> Waiting(d) /\ ~(d \in members \ members')
  BY <1>1, <1>3 DEF Waiting, InQueue
<1>5. \A d \in members : stage[d] \in {"enlisted", "dropped"} /\ d \in Ids
  BY DEF EntriesMatch, Waiting, BatchTypes
<1>6. BatchTypes' /\ CommitterMatches' /\ (cpc' \in {"collect", "retain", "commit"} => cpc \in {"collect", "retain", "commit"})
  BY <1>1 DEF Retain, Answer, BatchTypes, CommitterMatches
<1>7. StartsInOrder'
  BY <1>1, <1>5 DEF StartsInOrder
<1>8. EntriesMatch'
  BY <1>1, <1>2, <1>4, <1>5 DEF EntriesMatch
<1>9. QueueInOrder' /\ MembersInOrder' /\ PublishedFirst'
  BY <1>1, <1>6 DEF QueueInOrder, MembersInOrder, PublishedFirst
<1>10. PositionsMatch'
  BY <1>1 DEF PositionsMatch, CoversEarlierUntilAbort, CommitCoversEarlier
<1> QED
  BY <1>6, <1>7, <1>8, <1>9, <1>10

(* A commit publishes the batch and moves the offset of each of its scopes   *)
(* past the batch's last delivery, and everything before that is published:  *)
(* an earlier delivery of the scope is not queued behind the batch, was not  *)
(* dropped, and failed no earlier batch.                                     *)
LEMMA CommitStep ==
  ASSUME BatchInv, CommitSucceeds
  PROVE  BatchInv'
<1> USE DEF BatchInv
<1> DEFINE Of(s) == {d \in members : ScopeOf[d] = s}
<1>1. /\ UNCHANGED <<stage, answer, queue, members, attempt, failure, refusals, revoked, aborting>>
      /\ cpc = "commit" /\ cpc' = "answer" /\ ~failure
      /\ published' = published \cup members
      /\ \A d \in members : d \in Ids /\ ScopeOf[d] \notin revoked
  BY DEF CommitSucceeds, jobVars, sourceVars, CommitterMatches, BatchTypes
<1>2. \A d \in Ids : ScopeOf[d] \in Scopes
  BY BatchAssumption DEF Ids
<1>3. ASSUME NEW s \in Scopes
      PROVE  \/ (\A d \in members : ScopeOf[d] # s) /\ position'[s] = position[s]
             \/ \E m \in members : /\ ScopeOf[m] = s /\ position'[s] = m + 1
                                   /\ \A d \in members : ScopeOf[d] = s => d <= m
  <2>1. Of(s) \in SUBSET Ids
    BY <1>1
  <2>2. position'[s] = IF Of(s) = {} THEN position[s] ELSE Max(Of(s)) + 1
    BY DEF CommitSucceeds, NextOffset
  <2>3. CASE Of(s) = {}
    BY <2>2, <2>3
  <2>4. CASE Of(s) # {}
    <3> DEFINE S == Of(s)
               m == Max(S)
    <3>1. m \in S /\ \A y \in S : m >= y
      <4> HIDE DEF Of
      <4> QED
        BY <2>1, <2>4, LastOf
    <3>2. position'[s] = m + 1
      BY <2>2, <2>4
    <3> HIDE DEF m
    <3> QED
      BY <2>1, <3>1, <3>2 DEF Ids
  <2> QED
    BY <2>3, <2>4
<1> HIDE DEF Of
<1>4. \A d \in Ids : Waiting(d)' <=> Waiting(d)
  BY <1>1 DEF Waiting, InQueue
<1>5. BatchTypes'
  <2>1. position' \in [Scopes -> Nat]
    <3>1. \A s \in Scopes : position'[s] \in Nat
      BY <1>1, <1>3, SMTT(30) DEF BatchTypes, Ids
    <3>2. position' = [s \in Scopes |-> NextOffset(s)]
      BY DEF CommitSucceeds
    <3> QED
      BY <3>1, <3>2
  <2> QED
    BY <2>1, <1>1 DEF BatchTypes
<1>6. StartsInOrder'
  BY <1>1 DEF StartsInOrder
<1>7. EntriesMatch'
  <2>1. \A d \in members : stage[d] \in {"enlisted", "dropped"}
    BY <1>1 DEF EntriesMatch, Waiting
  <2> QED
    BY <1>1, <1>4, <2>1 DEF EntriesMatch
<1>8. QueueInOrder' /\ MembersInOrder' /\ PublishedFirst' /\ CommitterMatches'
  BY <1>1 DEF QueueInOrder, MembersInOrder, PublishedFirst, CommitterMatches
<1>9. \A d \in published' : position'[ScopeOf[d]] > d
  <2> SUFFICES ASSUME NEW d \in published' PROVE position'[ScopeOf[d]] > d
    OBVIOUS
  <2>1. d \in Ids /\ ScopeOf[d] \in Scopes
    BY <1>1, <1>2 DEF BatchTypes
  <2>2. CASE d \in members
    <3>1. PICK m \in members : position'[ScopeOf[d]] = m + 1 /\ d <= m
      BY <1>3, <2>1, <2>2
    <3>2. d \in Nat /\ m \in Nat
      BY <1>1, <2>2, SMTT(30) DEF Ids
    <3> QED
      BY <3>1, <3>2, SMTT(30)
  <2>3. CASE d \in published /\ position'[ScopeOf[d]] = position[ScopeOf[d]]
    BY <2>3 DEF PositionsMatch
  <2>4. ASSUME d \in published, NEW m \in members, ScopeOf[m] = ScopeOf[d],
               position'[ScopeOf[d]] = m + 1
        PROVE  position'[ScopeOf[d]] > d
    <3>1. d < m /\ m \in Ids
      BY <1>1, <2>4 DEF PublishedFirst
    <3> QED
      BY <2>1, <2>4, <3>1, SMTT(30) DEF Ids
  <2> QED
    BY <1>1, <1>3, <2>1, <2>2, <2>3, <2>4
<1>10. ASSUME ~aborting, NEW e \in Ids, e < position'[ScopeOf[e]] PROVE e \in published'
  <2> DEFINE s == ScopeOf[e]
  <2>1. CASE position'[s] = position[s]
    BY <1>1, <1>10, <2>1 DEF PositionsMatch, CoversEarlierUntilAbort, CommitCoversEarlier
  <2>2. ASSUME NEW m \in members, ScopeOf[m] = s, position'[s] = m + 1 PROVE e \in published'
    <3>1. m \in Ids /\ e <= m
      BY <1>1, <1>10, <2>2, SMTT(30) DEF Ids
    <3>2. CASE e = m
      BY <1>1, <2>2, <3>2
    <3>3. CASE e < m
      <4>1. stage[m] # "unstarted"
        BY <3>1, <2>2 DEF EntriesMatch, Waiting
      <4>2. /\ stage[e] \in {"enlisted", "acked", "failed", "dropped"}
            /\ stage[e] = "failed" => answer[e] = "error"
        BY <2>2, <3>1, <3>3, <4>1 DEF StartsInOrder, BatchTypes, Stages
      <4>3. stage[e] # "dropped" /\ s \notin revoked
        BY <1>1, <1>10, <2>2, <3>1 DEF EntriesMatch
      <4>4. ~InQueue(e)
        BY <2>2, <3>1, <3>3, SMTT(30) DEF MembersInOrder, InQueue, Ids
      <4> QED
        BY <1>1, <4>2, <4>3, <4>4 DEF EntriesMatch, Waiting, BatchTypes
    <3> QED
      BY <3>1, <3>2, <3>3, SMTT(30) DEF Ids
  <2> QED
    BY <1>2, <1>3, <2>1, <2>2
<1>11. PositionsMatch'
  BY <1>1, <1>9, <1>10 DEF PositionsMatch, CoversEarlierUntilAbort, CommitCoversEarlier
<1> QED
  BY <1>5, <1>6, <1>7, <1>8, <1>11

(* Every step of the committer, its callers and its source keeps it.         *)
LEMMA BatchInvStep ==
  ASSUME Undecodable = {}, BatchInv, [Next]_vars
  PROVE  BatchInv'
<1>1. CASE RecvFirst \/ RecvMore
  BY <1>1, RecvStep
<1>2. CASE BatchCloses \/ CloseBatcher \/ \E cause \in {"transient", "revoked", "rejected"} : CommitFails(cause)
  BY <1>2, ClosingSteps
<1>3. CASE Retain \/ Answer
  BY <1>3, AnswerSteps
<1>4. CASE CommitSucceeds
  BY <1>4, CommitStep
<1>5. ASSUME NEW d \in Ids, Enlist(d) PROVE BatchInv'
  BY <1>5, EnlistStep
<1>6. ASSUME NEW d \in Ids, Start(d) \/ JobFails(d) \/ Answered(d) \/ DropTask(d) PROVE BatchInv'
  <2>1. UNCHANGED <<answer, queue, batchVars, brokerVars>>
    BY <1>6 DEF Start, JobFails, Answered, DropTask
  <2> QED
    BY <1>6, <2>1, TaskSteps, Undecodable = {}
<1>7. CASE (\E s \in Scopes : Revoke(s)) \/ Shutdown \/ DrainTimeout
  <2>1. UNCHANGED <<answer, queue, batchVars, brokerVars>>
    BY <1>7 DEF Revoke, Shutdown, DrainTimeout
  <2> QED
    BY <1>7, <2>1, TaskSteps, Undecodable = {}
<1>8. CASE UNCHANGED vars
  <2>1. UNCHANGED <<answer, queue, batchVars, brokerVars>> /\ UNCHANGED <<stage, revoked, aborting>>
    BY <1>8 DEF vars, batchVars, brokerVars
  <2> QED
    BY <2>1, TaskSteps, Undecodable = {}
<1> QED
  BY <1>1, <1>2, <1>3, <1>4, <1>5, <1>6, <1>7, <1>8 DEF Next, Committer

(* The inductive invariant of the batch committer holds throughout.          *)
THEOREM BatchInvHolds ==
  ASSUME Undecodable = {}
  PROVE  Spec => []BatchInv
<1>1. BatchInv /\ [Next]_vars => BatchInv'
  BY BatchInvStep, Undecodable = {}
<1> QED
  BY BatchInvInit, <1>1, PTL DEF Spec

(* Whatever fails, is retried, revoked or dropped, the runtime counts a      *)
(* delivery of a transactional subscription as acknowledged only when its    *)
(* outputs and its offset are committed.                                     *)
THEOREM AcknowledgedIsCommitted ==
  ASSUME Undecodable = {}
  PROVE  Spec => []AckedIsCommitted
<1>1. BatchInv => AckedIsCommitted
  BY DEF BatchInv, EntriesMatch, PositionsMatch, AckedIsCommitted
<1> QED
  BY BatchInvHolds, <1>1, Undecodable = {}, PTL

(* Until draining times out, no committed offset covers a delivery whose     *)
(* outputs are not committed: batches keep the order of their scopes.        *)
THEOREM CommitsCoverEarlier ==
  ASSUME Undecodable = {}
  PROVE  Spec => []CoversEarlierUntilAbort
<1>1. BatchInv => CoversEarlierUntilAbort
  BY DEF BatchInv, PositionsMatch
<1> QED
  BY BatchInvHolds, <1>1, Undecodable = {}, PTL

(* Revocations neither use up commit attempts nor fail a batch, and a task   *)
(* fails with its answer only if a batch failed.                             *)
THEOREM RevocationsFailNothing ==
  ASSUME Undecodable = {}
  PROVE  Spec => []RevocationIsNoFailure
<1>1. BatchInv => RevocationIsNoFailure
  BY DEF BatchInv, EntriesMatch, CommitterMatches, RevocationIsNoFailure
<1> QED
  BY BatchInvHolds, <1>1, Undecodable = {}, PTL

(* What the limits of a batch add to the types: the channel and the batch    *)
(* hold at most max_deliveries, and a batch is tried max_attempts times.     *)
BatchBounds ==
  /\ Len(queue) <= MaxBatch
  /\ IsFiniteSet(members) /\ Cardinality(members) <= MaxBatch
  /\ attempt <= MaxAttempts
  /\ stopping \in BOOLEAN /\ revoked \subseteq Scopes
  /\ \A s \in Scopes : position[s] <= N + 1

(* Every step keeps the channel, the batch and the attempts within limits.   *)
LEMMA BatchBoundsStep ==
  ASSUME BatchInv, BatchBounds, [Next]_vars
  PROVE  BatchBounds'
<1>0. /\ MaxBatch \in Nat \ {0} /\ MaxAttempts \in Nat \ {0} /\ N \in Nat
      /\ attempt \in Nat \ {0} /\ queue \in Seq(Ids) /\ members \subseteq Ids
      /\ position \in [Scopes -> Nat]
  BY BatchAssumption DEF BatchInv, BatchTypes
<1>1. queue # <<>> => Len(Tail(queue)) <= MaxBatch
  BY <1>0, SMTT(30) DEF BatchBounds
<1>2. IsFiniteSet(members) /\ Cardinality(members) \in Nat
  BY FS_CardinalityType DEF BatchBounds
<1>3. CASE RecvFirst
  <2>1. IsFiniteSet(members') /\ Cardinality(members') = 1
    BY <1>3, FS_Singleton DEF RecvFirst
  <2> QED
    BY <1>0, <1>1, <1>3, <2>1, SMTT(30) DEF RecvFirst, BatchBounds, jobVars, sourceVars, brokerVars
<1>4. CASE RecvMore
  <2>1. /\ IsFiniteSet(members \cup {Head(queue)})
        /\ \/ Cardinality(members \cup {Head(queue)}) = Cardinality(members)
           \/ Cardinality(members \cup {Head(queue)}) = Cardinality(members) + 1
    BY <1>2, FS_AddElement
  <2>2. IsFiniteSet(members') /\ Cardinality(members') <= MaxBatch
    BY <1>0, <1>2, <1>4, <2>1, SMTT(30) DEF RecvMore
  <2> QED
    BY <1>1, <1>4, <2>2 DEF RecvMore, BatchBounds, jobVars, sourceVars, brokerVars
<1>5. CASE Retain \/ Answer
  <2>1. members' \subseteq members
    BY <1>5 DEF Retain, Answer
  <2>2. IsFiniteSet(members') /\ Cardinality(members') <= Cardinality(members)
        /\ Cardinality(members') \in Nat
    BY <1>2, <2>1, FS_Subset, FS_CardinalityType
  <2>3. Cardinality(members') <= MaxBatch
    BY <1>0, <1>2, <2>2, SMTT(30) DEF BatchBounds
  <2> QED
    BY <1>5, <2>2, <2>3 DEF Retain, Answer, BatchBounds, jobVars, sourceVars, brokerVars
<1>6. CASE BatchCloses \/ CloseBatcher
  <2>1. attempt' <= MaxAttempts
    BY <1>0, <1>6, SMTT(30) DEF BatchCloses, CloseBatcher, BatchBounds
  <2> QED
    BY <1>6, <2>1 DEF BatchCloses, CloseBatcher, BatchBounds, jobVars, sourceVars, brokerVars
<1>7. ASSUME NEW cause \in {"transient", "revoked", "rejected"}, CommitFails(cause)
      PROVE  BatchBounds'
  <2>1. attempt' <= MaxAttempts
    BY <1>0, <1>7, SMTT(30) DEF CommitFails, BatchBounds
  <2> QED
    BY <1>7, <2>1 DEF CommitFails, BatchBounds, jobVars, sourceVars, brokerVars
<1>8. CASE CommitSucceeds
  <2>1. ASSUME NEW s \in Scopes PROVE NextOffset(s) <= N + 1
    <3> DEFINE mine == {d \in members : ScopeOf[d] = s}
    <3>1. CASE mine = {}
      BY <3>1 DEF NextOffset, BatchBounds
    <3>2. CASE mine # {}
      <4>1. mine \in SUBSET Ids
        BY <1>0
      <4>2. Max(mine) \in Ids
        BY <3>2, <4>1, LastOf
      <4>3. NextOffset(s) = Max(mine) + 1
        BY <3>2 DEF NextOffset
      <4> QED
        BY <1>0, <4>2, <4>3, SMTT(30) DEF Ids
    <3> QED
      BY <3>1, <3>2
  <2>2. position' = [s \in Scopes |-> NextOffset(s)]
    BY <1>8 DEF CommitSucceeds
  <2>3. UNCHANGED <<members, attempt, stopping, queue, revoked>>
    BY <1>8 DEF CommitSucceeds, jobVars, sourceVars
  <2> QED
    BY <2>1, <2>2, <2>3 DEF BatchBounds
<1>9. ASSUME NEW d \in Ids, Enlist(d) PROVE BatchBounds'
  <2>1. Len(queue') <= MaxBatch
    BY <1>0, <1>9, SMTT(30) DEF Enlist
  <2> QED
    BY <1>9, <2>1 DEF Enlist, BatchBounds, batchVars, sourceVars, brokerVars
<1>10. ASSUME NEW d \in Ids, Start(d) \/ JobFails(d) \/ Answered(d) \/ DropTask(d)
       PROVE  BatchBounds'
  <2>1. UNCHANGED <<queue, members, attempt, revoked, position>>
    BY <1>10 DEF Start, JobFails, Answered, DropTask, batchVars, sourceVars, brokerVars
  <2>2. stopping' \in BOOLEAN
    BY <1>10 DEF Start, JobFails, Answered, DropTask, BatchBounds
  <2> QED
    BY <2>1, <2>2 DEF BatchBounds
<1>11. CASE (\E s \in Scopes : Revoke(s)) \/ Shutdown \/ DrainTimeout \/ UNCHANGED vars
  <2>1. UNCHANGED <<queue, members, attempt, position>>
    BY <1>11 DEF Revoke, Shutdown, DrainTimeout, vars, batchVars, brokerVars
  <2>2. stopping' \in BOOLEAN
    BY <1>11 DEF Revoke, Shutdown, DrainTimeout, vars, jobVars, BatchBounds
  <2>3. revoked' \subseteq Scopes
    BY <1>11 DEF Revoke, Shutdown, DrainTimeout, vars, sourceVars, BatchBounds
  <2> QED
    BY <2>1, <2>2, <2>3 DEF BatchBounds
<1> QED
  BY <1>3, <1>4, <1>5, <1>6, <1>7, <1>8, <1>9, <1>10, <1>11 DEF Next, Committer

(* All of BatchesHold: with the above, the channel, the batch and the        *)
(* attempts stay within their limits and no committed offset passes the last *)
(* delivery.                                                                 *)
THEOREM BatchesKeepHolding ==
  ASSUME Undecodable = {}
  PROVE  Spec => []BatchesHold
<1>1. Init => BatchBounds
  <2> SUFFICES ASSUME Init PROVE BatchBounds
    OBVIOUS
  <2>1. Len(queue) = 0 /\ attempt = 1 /\ \A s \in Scopes : position[s] = 0
    BY DEF Init
  <2>2. IsFiniteSet(members) /\ Cardinality(members) = 0
    BY FS_EmptySet DEF Init
  <2>3. stopping \in BOOLEAN /\ revoked \subseteq Scopes
    BY DEF Init
  <2> QED
    BY <2>1, <2>2, <2>3, BatchAssumption, SMTT(30) DEF BatchBounds
<1>2. BatchInv /\ BatchBounds /\ [Next]_vars => BatchBounds'
  BY BatchBoundsStep
<1>3. BatchInv /\ BatchBounds /\ AckedIsCommitted /\ RevocationIsNoFailure => BatchesHold
  <2> SUFFICES ASSUME BatchInv, BatchBounds PROVE TypeOK
    BY DEF BatchesHold
  <2>1. attempt \in 1..MaxAttempts
    BY BatchAssumption, SMTT(30) DEF BatchInv, BatchTypes, BatchBounds
  <2>2. position \in [Scopes -> 0..(N + 1)]
    BY BatchAssumption, SMTT(30) DEF BatchInv, BatchTypes, BatchBounds
  <2> QED
    BY <2>1, <2>2 DEF BatchInv, BatchTypes, BatchBounds, TypeOK
<1> QED
  BY <1>1, <1>2, <1>3, BatchInvHolds, AcknowledgedIsCommitted, RevocationsFailNothing,
     Undecodable = {}, PTL DEF Spec

-----------------------------------------------------------------------------
(* The blocking pool, for any number of calls and threads and any queue.     *)

(* A thread runs from the first call until the pool is dropped, and no call  *)
(* waits before or after.                                                    *)
ThreadsLive ==
  /\ pool = "started" => \A w \in Workers : worker[w] \notin {"off", "exited"}
  /\ pool # "started" => \A j \in Jobs : call[j] \notin Pending

PoolInv == PoolTypeOK /\ NoCallLost /\ ThreadsLive

(* Taking the head of the queue leaves the other jobs in it.                 *)
LEMMA TailKeeps ==
  ASSUME NEW S, NEW s \in Seq(S), s # <<>>, NEW i \in DOMAIN s, s[i] # Head(s)
  PROVE  \E k \in DOMAIN Tail(s) : Tail(s)[k] = s[i]
<1>1. i \in 1..Len(s) /\ i # 1 /\ DOMAIN Tail(s) = 1..(Len(s) - 1)
  BY SMTT(30)
<1>2. i - 1 \in DOMAIN Tail(s) /\ Tail(s)[i - 1] = s[i]
  BY <1>1, SMTT(30)
<1> QED
  BY <1>2

(* Every step of a call, of a thread and of the pool keeps the invariant.    *)
LEMMA PoolInvStep ==
  ASSUME PoolInv, [PoolNext]_poolVars
  PROVE  PoolInv'
<1>0. PoolTypeOK /\ NoCallLost /\ ThreadsLive
  BY DEF PoolInv
<1>1. ASSUME NEW j \in Jobs, HandleBegins(j) PROVE PoolInv'
  <2>1. PoolTypeOK'
    BY <1>0, <1>1 DEF HandleBegins, PoolTypeOK, Pending
  <2>2. ThreadsLive'
    BY <1>0, <1>1 DEF HandleBegins, PoolTypeOK, ThreadsLive, Pending
  <2>3. \A k \in Jobs : call'[k] = "awaiting" => call[k] = "awaiting" /\ pool = "started"
    BY <1>0, <1>1 DEF HandleBegins, PoolTypeOK, ThreadsLive, Pending
  <2>4. \A k \in Jobs : call'[k] # "lost"
    BY <1>0, <1>1, SMTT(30) DEF HandleBegins, PoolTypeOK, NoCallLost
  <2>5. pool = "started" => UNCHANGED worker
    BY <1>1 DEF HandleBegins
  <2>6. UNCHANGED jobs
    BY <1>1 DEF HandleBegins
  <2>7. \A k \in Jobs : call'[k] = "awaiting" =>
          (\E i \in DOMAIN jobs' : jobs'[i] = k) \/ \E w \in Workers : worker'[w] = k
    BY <1>0, <2>3, <2>5, <2>6 DEF NoCallLost
  <2>8. \A k \in Jobs : call'[k] \in Pending => \A w \in Workers : worker'[w] \notin {"off", "exited"}
    BY <2>1, <2>2 DEF ThreadsLive
  <2> QED
    BY <2>1, <2>2, <2>4, <2>7, <2>8 DEF PoolInv, NoCallLost
<1>2. ASSUME NEW j \in Jobs, Submit(j) PROVE PoolInv'
  <2>1. PoolTypeOK'
    BY <1>0, <1>2, PoolAssumption, SMTT(30) DEF Submit, PoolTypeOK, Pending
  <2>2. ThreadsLive'
    BY <1>0, <1>2 DEF Submit, PoolTypeOK, ThreadsLive, Pending
  <2>3. /\ jobs'[Len(jobs) + 1] = j /\ Len(jobs) + 1 \in DOMAIN jobs'
        /\ \A i \in DOMAIN jobs : i \in DOMAIN jobs' /\ jobs'[i] = jobs[i]
    BY <1>0, <1>2, SMTT(30) DEF Submit, PoolTypeOK
  <2>4. UNCHANGED worker /\ \A k \in Jobs : k # j => call'[k] = call[k]
    BY <1>0, <1>2 DEF Submit, PoolTypeOK
  <2>5. \A k \in Jobs : call'[k] = "awaiting" =>
          (\E i \in DOMAIN jobs' : jobs'[i] = k) \/ \E w \in Workers : worker'[w] = k
    BY <1>0, <2>3, <2>4, SMTT(30) DEF NoCallLost
  <2>6. \A k \in Jobs : call'[k] # "lost" /\
          (call'[k] \in Pending => \A w \in Workers : worker'[w] \notin {"off", "exited"})
    BY <1>0, <1>2, SMTT(30) DEF Submit, PoolTypeOK, NoCallLost, Pending
  <2> QED
    BY <2>1, <2>2, <2>5, <2>6 DEF PoolInv, NoCallLost
<1>3. ASSUME NEW j \in Jobs, Cancel(j) PROVE PoolInv'
  BY <1>0, <1>3, SMTT(30) DEF Cancel, PoolInv, PoolTypeOK, NoCallLost, ThreadsLive, Pending
<1>4. ASSUME NEW w \in Workers, Take(w) PROVE PoolInv'
  <2> DEFINE j == Head(jobs)
  <2>1. /\ jobs \in Seq(Jobs) /\ jobs # <<>> /\ j \in Jobs /\ jobs' = Tail(jobs)
        /\ Tail(jobs) \in Seq(Jobs) /\ Len(Tail(jobs)) <= Queue
    BY <1>0, <1>4, PoolAssumption, SMTT(30) DEF Take, PoolTypeOK
  <2>2. /\ job' = [job EXCEPT ![j] = IF Runs(j) THEN "running" ELSE "skipped"]
        /\ worker' = IF Runs(j) THEN [worker EXCEPT ![w] = j] ELSE worker
        /\ worker[w] = "idle" /\ UNCHANGED <<call, pool>>
    BY <1>4 DEF Take
  <2> HIDE DEF j
  <2>3. PoolTypeOK'
    BY <1>0, <2>1, <2>2 DEF PoolTypeOK
  <2>4. \A v \in Workers : worker[v] \notin {"off", "exited"} => worker'[v] \notin {"off", "exited"}
    BY <1>0, <2>1, <2>2, PoolAssumption DEF PoolTypeOK
  <2>5. ThreadsLive'
    BY <1>0, <2>2, <2>4 DEF ThreadsLive
  <2>6. ASSUME NEW k \in Jobs, call[k] = "awaiting"
        PROVE  (\E i \in DOMAIN jobs' : jobs'[i] = k) \/ \E v \in Workers : worker'[v] = k
    <3>1. CASE k = j
      <4>1. worker'[w] = j
        BY <1>0, <2>2, <2>6, <3>1 DEF Runs, PoolTypeOK
      <4> QED
        BY <3>1, <4>1
    <3>2. ASSUME k # j, NEW i \in DOMAIN jobs, jobs[i] = k PROVE \E x \in DOMAIN jobs' : jobs'[x] = k
      BY <2>1, <3>2, TailKeeps DEF j
    <3>3. ASSUME NEW v \in Workers, worker[v] = k PROVE worker'[v] = k
      <4>1. v # w
        BY <2>2, <3>3, PoolAssumption
      <4> QED
        BY <1>0, <2>2, <3>3, <4>1 DEF PoolTypeOK
    <3> QED
      BY <1>0, <2>6, <3>1, <3>2, <3>3 DEF NoCallLost
  <2> QED
    BY <1>0, <2>2, <2>3, <2>4, <2>5, <2>6 DEF PoolInv, NoCallLost
<1>5. ASSUME NEW w \in Workers, Panic(w) \/ Finish(w) PROVE PoolInv'
  <2>1. PICK j \in Jobs, r \in {"fatal", "ok"} : worker[w] = j /\ Ended(w, j, r, "idle")
    BY <1>5 DEF Panic, Finish
  <2>2. worker' = [worker EXCEPT ![w] = "idle"] /\ job' = [job EXCEPT ![j] = "ran"]
        /\ UNCHANGED <<jobs, pool>>
    BY <2>1 DEF Ended
  <2>3. worker'[w] = "idle"
    BY <1>0, <2>2 DEF PoolTypeOK
  <2>4. call' = [k \in Jobs |-> IF k = j /\ call[k] # "cancelled" THEN r ELSE call[k]]
    <3>1. Orphans = {}
      BY <2>3 DEF Orphans
    <3> QED
      BY <2>1, <3>1 DEF Ended
  <2>5. PoolTypeOK'
    BY <1>0, <2>2, <2>4 DEF PoolTypeOK
  <2>6. \A k \in Jobs : call'[k] # "lost" /\ (call'[k] \in Pending => call[k] = call'[k] /\ k # j)
    BY <1>0, <2>4 DEF PoolTypeOK, NoCallLost, Pending
  <2>7. \A v \in Workers : worker[v] \notin {"off", "exited"} => worker'[v] \notin {"off", "exited"}
    BY <1>0, <2>2 DEF PoolTypeOK
  <2>8. ThreadsLive'
    BY <1>0, <2>2, <2>6, <2>7 DEF ThreadsLive
  <2>9. ASSUME NEW k \in Jobs, call'[k] = "awaiting"
        PROVE  (\E i \in DOMAIN jobs' : jobs'[i] = k) \/ \E v \in Workers : worker'[v] = k
    <3>1. call[k] = "awaiting" /\ k # j
      BY <2>6, <2>9 DEF Pending
    <3>2. ASSUME NEW v \in Workers, worker[v] = k PROVE worker'[v] = k
      BY <1>0, <2>1, <2>2, <3>1, <3>2 DEF PoolTypeOK
    <3> QED
      BY <1>0, <2>2, <3>1, <3>2 DEF NoCallLost
  <2> QED
    BY <1>0, <2>5, <2>6, <2>7, <2>8, <2>9 DEF PoolInv, NoCallLost
<1>6. ASSUME NEW w \in Workers, WorkerExits(w) PROVE PoolInv'
  <2>1. \A k \in Jobs : call[k] \notin Pending
    BY <1>0, <1>6 DEF WorkerExits, ThreadsLive
  <2> QED
    BY <1>0, <1>6, <2>1 DEF WorkerExits, PoolInv, PoolTypeOK, NoCallLost, ThreadsLive, Pending
<1>7. CASE DropPool
  BY <1>0, <1>7 DEF DropPool, PoolInv, PoolTypeOK, NoCallLost, ThreadsLive
<1>8. CASE UNCHANGED poolVars
  BY <1>0, <1>8 DEF poolVars, PoolInv, PoolTypeOK, NoCallLost, ThreadsLive
<1> QED
  BY <1>1, <1>2, <1>3, <1>4, <1>5, <1>6, <1>7, <1>8 DEF PoolNext, PoolSteps

(* No synchronous handler's call is lost: until it is answered or cancelled  *)
(* its job is queued or on a thread, and the threads survive whatever        *)
(* panics.                                                                   *)
THEOREM CallsAreKept == PoolSpec => []NoCallLost
<1>1. PoolInit => PoolInv
  <2> SUFFICES ASSUME PoolInit PROVE PoolInv
    OBVIOUS
  <2>1. PoolTypeOK
    BY PoolAssumption, SMTT(30) DEF PoolInit, PoolTypeOK
  <2>2. NoCallLost /\ ThreadsLive
    BY DEF PoolInit, NoCallLost, ThreadsLive, Pending
  <2> QED
    BY <2>1, <2>2 DEF PoolInv
<1>2. PoolInv => NoCallLost
  BY DEF PoolInv
<1> QED
  BY <1>1, <1>2, PoolInvStep, PTL DEF PoolSpec
=============================================================================
