------------------------------- MODULE Places -------------------------------
(***************************************************************************)
(* Where the scheduler keeps deliveries, and where its calls move them: what *)
(* the proofs about the receive loop use of the scheduler.  RuntimeProofs    *)
(* shows that the scheduler's invariant implies Accounted and Moves;         *)
(* RuntimeLemmas argues from these two alone.                                *)
(***************************************************************************)
EXTENDS Scheduler

(* The deliveries being decoded, queued, running, and lost with their task,  *)
(* by receive number.                                                        *)
IdsOf(T) == {t.id : t \in T}
DecodingIds == IdsOf(Range(admitted))
PendingIds == IdsOf(Pending)
RunningIds == IdsOf(running)
LostIds == IdsOf(lost)

(* A delivery the scheduler holds is decoding, queued, running or lost with  *)
(* its task, and only one of these.                                          *)
Apart ==
  /\ Held = DecodingIds \cup PendingIds \cup RunningIds \cup LostIds
  /\ DecodingIds \cap (PendingIds \cup RunningIds \cup LostIds) = {}
  /\ PendingIds \cap (RunningIds \cup LostIds) = {}
  /\ RunningIds \cap LostIds = {}
  /\ Held \subseteq 1..received

(* The receive numbers and the sizes the loop's limits speak of.             *)
Accounted ==
  /\ Apart
  /\ received \in Nat /\ MaxDeliveries \in Nat /\ received <= MaxDeliveries
  /\ outstanding \in Int
  /\ Len(admitted) \in Nat
  /\ admitted # <<>> => Head(admitted).id \in DecodingIds
  /\ Cardinality(running) \in Nat
  /\ running = {} => Cardinality(running) = 0

-----------------------------------------------------------------------------

(* admit adds the delivery to those being decoded.                           *)
AdmitMoves ==
  \A k \in MaybeKey : Admit(k) =>
    /\ DecodingIds' = DecodingIds \cup {received + 1}
    /\ PendingIds' = PendingIds
    /\ Held' = Held \cup {received + 1}
    /\ Len(admitted') = Len(admitted) + 1

(* push queues the oldest admission; withdraw, or a panic of its decoding,   *)
(* only takes it away.                                                       *)
DecodingMoves ==
  LET h == Head(admitted).id
  IN /\ admitted # <<>> /\ admitted' = Tail(admitted) => Len(admitted') = Len(admitted) - 1
     /\ \A l \in MaybeLane : Push(l) =>
          DecodingIds' = DecodingIds \ {h} /\ PendingIds' = PendingIds \cup {h} /\ Held' = Held
     /\ Withdraw =>
          DecodingIds' = DecodingIds \ {h} /\ PendingIds' = PendingIds /\ Held' = Held \ {h}
     /\ LoseAdmission =>
          DecodingIds' = DecodingIds \ {h} /\ PendingIds' = PendingIds /\ Held' = Held

(* next_ready starts the first ready delivery; one being handed off leaves.  *)
ReadyMoves ==
  LET h == Head(ready).id
  IN /\ NextReady =>
          /\ h \in PendingIds
          /\ RunningIds' = RunningIds \cup {h} /\ PendingIds' = PendingIds \ {h} /\ Held' = Held
          /\ Cardinality(running') \in {Cardinality(running), Cardinality(running) + 1}
     /\ AbandonReady =>
          h \in PendingIds /\ PendingIds' = PendingIds \ {h} /\ Held' = Held \ {h}

(* complete and a failed job give up the ticket; the queues keep their       *)
(* deliveries, though one may become ready.                                  *)
TicketMoves ==
  \A t \in running :
    /\ t.id \in RunningIds
    /\ Complete(t) =>
         RunningIds' = RunningIds \ {t.id} /\ PendingIds' = PendingIds /\ Held' = Held \ {t.id}
    /\ LoseTicket(t) =>
         RunningIds' = RunningIds \ {t.id} /\ PendingIds' = PendingIds /\ Held' = Held
    /\ running' = running \ {t} => Cardinality(running') = Cardinality(running) - 1

(* discard_pending empties the queues; aborting leaves only them.            *)
QueueMoves ==
  /\ DiscardPending =>
       /\ DecodingIds' = DecodingIds /\ PendingIds' = {} /\ Held' = Held \ PendingIds
       /\ outstanding' <= outstanding
  /\ AbortAll =>
       /\ DecodingIds' = {} /\ RunningIds' = {} /\ PendingIds' = PendingIds /\ Held' = Held
       /\ Cardinality(running') = 0

Moves == AdmitMoves /\ DecodingMoves /\ ReadyMoves /\ TicketMoves /\ QueueMoves
=============================================================================
