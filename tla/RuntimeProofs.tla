---------------------------- MODULE RuntimeProofs ----------------------------
(***************************************************************************)
(* Proofs about a running subscription (module Runtime): it follows the      *)
(* scheduler's protocol, loses no delivery, keeps the documented limits and  *)
(* implements the promise of module DeliveryPromise, for every number of     *)
(* deliveries, keys and lanes and every setting.                             *)
(***************************************************************************)
EXTENDS RuntimeLemmas, SchedulerProofs

(* Steps are first-order unless they cite the SMT solver; each prover has    *)
(* thirty seconds for a step.                                                *)
USE ZenonT(30)

-----------------------------------------------------------------------------
(* Where the scheduler's calls move deliveries.                              *)

(* The jobs that run are finitely many: their receive numbers are distinct.  *)
LEMMA RunningIsFinite == PlaceInv => IsFiniteSet(running)
<1> SUFFICES ASSUME PlaceInv PROVE IsFiniteSet(running)
  OBVIOUS
<1>1. \A t \in running : t.id \in 1..received
  BY DEF PlaceInv, AdmittedLast, Holders
<1>2. \A t, u \in running : t.id = u.id => t = u
  BY DEF PlaceInv, OnePlace, Holders
<1>3. received \in Nat
  BY ConstantsAssumption, SMTT(30) DEF PlaceInv, PlaceType
<1> QED
  BY <1>1, <1>2, <1>3, CountByIds

(* Receive numbers identify deliveries, so no two places share one.          *)
LEMMA PlacesApart == PlaceInv => Apart
<1> SUFFICES ASSUME PlaceInv PROVE Apart
  OBVIOUS
<1>1. Held = DecodingIds \cup PendingIds \cup RunningIds \cup LostIds
  BY DEF Held, DecodingIds, PendingIds, RunningIds, LostIds, IdsOf
<1>2. Pending \cup running \cup lost = Holders \cup Queued
  BY DEF Pending, Holders
<1>3. \A t \in Holders \cup Queued : t.id \in 1..received /\ \A a \in Range(admitted) : t.id < a.id
  BY DEF PlaceInv, AdmittedLast
<1>4. received \in Nat
  BY ConstantsAssumption, SMTT(30) DEF PlaceInv, PlaceType
<1>5. DecodingIds \cap (PendingIds \cup RunningIds \cup LostIds) = {}
  <2>1. \A t \in Pending \cup running \cup lost, a \in Range(admitted) : t.id # a.id
    BY <1>2, <1>3, <1>4, SMTT(30)
  <2> QED
    BY <2>1 DEF DecodingIds, PendingIds, RunningIds, LostIds, IdsOf
<1>6. \A t, u \in Pending \cup running \cup lost : t.id = u.id => t = u
  BY <1>2 DEF PlaceInv, OnePlace
<1>7. Pending \cap (running \cup lost) = {} /\ running \cap lost = {}
  BY DEF PlaceInv, OnePlace, Pending, Holders
<1>8. PendingIds \cap (RunningIds \cup LostIds) = {} /\ RunningIds \cap LostIds = {}
  BY <1>6, <1>7 DEF PendingIds, RunningIds, LostIds, IdsOf
<1>9. Held \subseteq 1..received
  <2>1. \A a \in Range(admitted) : a.id \in 1..received
    BY DEF PlaceInv, AdmittedLast
  <2> QED
    BY <1>2, <1>3, <2>1 DEF Held
<1> QED
  BY <1>1, <1>5, <1>8, <1>9 DEF Apart

(* The queued deliveries are the others that the scheduler holds.            *)
LEMMA PendingIsRest ==
  ASSUME PlaceInv, PlaceInv'
  PROVE  /\ Apart /\ Apart'
         /\ PendingIds = Held \ (DecodingIds \cup RunningIds \cup LostIds)
         /\ PendingIds' = Held' \ (DecodingIds' \cup RunningIds' \cup LostIds')
<1>1. Apart
  BY PlacesApart
<1>2. Apart'
  BY PlacesApart, PTL
<1>3. PendingIds = Held \ (DecodingIds \cup RunningIds \cup LostIds)
  BY <1>1 DEF Apart
<1>4. PendingIds' = Held' \ (DecodingIds' \cup RunningIds' \cup LostIds')
  BY <1>2 DEF Apart
<1> QED
  BY <1>1, <1>2, <1>3, <1>4

(* admit adds the delivery to those being decoded.                           *)
LEMMA AdmitMovesTo ==
  ASSUME PlaceInv, NEW k \in MaybeKey, Admit(k)
  PROVE  /\ DecodingIds' = DecodingIds \cup {received + 1}
         /\ PendingIds' = PendingIds /\ Held' = Held \cup {received + 1}
         /\ Len(admitted') = Len(admitted) + 1
<1>1. PlaceInv' /\ Held' = Held \cup {received + 1}
  BY AdmitPlaces
<1>2. DecodingIds' = DecodingIds \cup {received + 1} /\ Len(admitted') = Len(admitted) + 1
  <2> DEFINE a == [id |-> received + 1, flow |-> IF Counts(k) THEN k ELSE NoKey]
  <2>1. a \in Admission /\ a.id = received + 1
    BY ConstantsAssumption, SMTT(30) DEF PlaceInv, PlaceType, Admission, MaybeKey
  <2>2. admitted' = Append(admitted, a)
    BY DEF Admit
  <2> HIDE DEF a
  <2>3. Range(admitted') = Range(admitted) \cup {a}
    BY <2>1, <2>2, RangeAppend, SMTT(30) DEF PlaceInv, PlaceType
  <2> QED
    <3>1. IdsOf(Range(admitted) \cup {a}) = IdsOf(Range(admitted)) \cup {a.id}
      BY IdsOfAdd
    <3>2. DecodingIds' = IdsOf(Range(admitted'))
      BY DEF DecodingIds
    <3>3. Len(admitted') = Len(admitted) + 1
      BY <2>1, <2>2, SMTT(30) DEF PlaceInv, PlaceType
    <3> QED
      BY <2>1, <2>3, <3>1, <3>2, <3>3 DEF DecodingIds
<1>3. RunningIds' = RunningIds /\ LostIds' = LostIds
  BY DEF Admit, RunningIds, LostIds
<1>4. Apart /\ PendingIds = Held \ (DecodingIds \cup RunningIds \cup LostIds)
      /\ PendingIds' = Held' \ (DecodingIds' \cup RunningIds' \cup LostIds')
  BY <1>1, PendingIsRest
<1>5. received + 1 \notin Held
  BY <1>4, ConstantsAssumption, SMTT(30) DEF Apart, PlaceInv, PlaceType
<1> QED
  BY <1>1, <1>2, <1>3, <1>4, <1>5 DEF Apart

(* The oldest admission leaves the decodings.                                *)
LEMMA AdmissionLeaves ==
  ASSUME PlaceInv, admitted # <<>>, admitted' = Tail(admitted)
  PROVE  /\ Head(admitted).id \in DecodingIds
         /\ DecodingIds' = DecodingIds \ {Head(admitted).id}
         /\ Len(admitted') = Len(admitted) - 1 /\ Len(admitted) \in Nat
<1>1. /\ Head(admitted) \in Admission /\ Head(admitted) \in Range(admitted)
      /\ Range(Tail(admitted)) = Range(admitted) \ {Head(admitted)}
      /\ \A a \in Range(Tail(admitted)) : Head(admitted).id < a.id
  BY AdmittedHead
<1>2. Head(admitted).id \in Nat
  BY <1>1 DEF Admission
<1>3. Head(admitted).id \notin DecodingIds'
  BY <1>1, <1>2, SMTT(30) DEF DecodingIds, IdsOf
<1>4. DecodingIds = DecodingIds' \cup {Head(admitted).id}
  <2>1. Range(admitted) = Range(admitted') \cup {Head(admitted)}
    BY <1>1
  <2> QED
    BY <2>1, IdsOfAdd DEF DecodingIds
<1>5. Len(admitted') = Len(admitted) - 1 /\ Len(admitted) \in Nat
  BY SMTT(30) DEF PlaceInv, PlaceType
<1> QED
  BY <1>3, <1>4, <1>5

(* push queues the oldest admission; withdraw, or a panic of its decoding,   *)
(* only takes it away.                                                       *)
LEMMA DecodingMovesTo ==
  ASSUME PlaceInv
  PROVE  /\ \A l \in MaybeLane : Push(l) =>
              /\ DecodingIds' = DecodingIds \ {Head(admitted).id}
              /\ PendingIds' = PendingIds \cup {Head(admitted).id}
              /\ Held' = Held
         /\ Withdraw =>
              /\ DecodingIds' = DecodingIds \ {Head(admitted).id}
              /\ PendingIds' = PendingIds
              /\ Held' = Held \ {Head(admitted).id}
         /\ LoseAdmission =>
              /\ DecodingIds' = DecodingIds \ {Head(admitted).id}
              /\ PendingIds' = PendingIds
              /\ Held' = Held
<1>1. ASSUME NEW l \in MaybeLane, Push(l)
      PROVE  /\ DecodingIds' = DecodingIds \ {Head(admitted).id}
             /\ PendingIds' = PendingIds \cup {Head(admitted).id}
             /\ Held' = Held
  <2>1. PlaceInv' /\ Held' = Held
    BY <1>1, PushBehind, PushReady
  <2>2. Head(admitted).id \in DecodingIds /\ DecodingIds' = DecodingIds \ {Head(admitted).id}
    BY <1>1, AdmissionLeaves DEF Push
  <2>3. RunningIds' = RunningIds /\ LostIds' = LostIds
    BY <1>1 DEF Push, RunningIds, LostIds
  <2> QED
    BY <2>1, <2>2, <2>3, PendingIsRest, SMTT(30) DEF Apart
<1>2. ASSUME Withdraw
      PROVE  /\ DecodingIds' = DecodingIds \ {Head(admitted).id}
             /\ PendingIds' = PendingIds
             /\ Held' = Held \ {Head(admitted).id}
  <2>1. PlaceInv' /\ Held' = Held \ {Head(admitted).id}
    BY <1>2, WithdrawPlaces
  <2>2. Head(admitted).id \in DecodingIds /\ DecodingIds' = DecodingIds \ {Head(admitted).id}
    BY <1>2, AdmissionLeaves DEF Withdraw
  <2>3. RunningIds' = RunningIds /\ LostIds' = LostIds
    BY <1>2 DEF Withdraw, RunningIds, LostIds
  <2> QED
    BY <2>1, <2>2, <2>3, PendingIsRest, SMTT(30) DEF Apart
<1>3. ASSUME LoseAdmission
      PROVE  /\ DecodingIds' = DecodingIds \ {Head(admitted).id}
             /\ PendingIds' = PendingIds
             /\ Held' = Held
  <2>1. PlaceInv' /\ Held' = Held
    BY <1>3, LoseAdmissionPlaces
  <2>2. Head(admitted).id \in DecodingIds /\ DecodingIds' = DecodingIds \ {Head(admitted).id}
    BY <1>3, AdmissionLeaves DEF LoseAdmission
  <2>3. RunningIds' = RunningIds
    BY <1>3 DEF LoseAdmission, RunningIds
  <2>4. LostIds' = LostIds \cup {Head(admitted).id}
    <3> DEFINE t == [id |-> Head(admitted).id, lane |-> NoLane, flow |-> Head(admitted).flow]
    <3>1. lost' = lost \cup {t} /\ t.id = Head(admitted).id
      BY <1>3 DEF LoseAdmission
    <3> HIDE DEF t
    <3>2. IdsOf(lost \cup {t}) = IdsOf(lost) \cup {t.id}
      BY IdsOfAdd
    <3> QED
      BY <3>1, <3>2 DEF LostIds
  <2> QED
    BY <2>1, <2>2, <2>3, <2>4, PendingIsRest, SMTT(30) DEF Apart
<1> QED
  BY <1>1, <1>2, <1>3

(* next_ready starts the first ready delivery; one being handed off leaves.  *)
LEMMA ReadyMovesTo ==
  ASSUME PlaceInv
  PROVE  /\ NextReady =>
              /\ Head(ready).id \in PendingIds
              /\ RunningIds' = RunningIds \cup {Head(ready).id}
              /\ PendingIds' = PendingIds \ {Head(ready).id}
              /\ Held' = Held
         /\ AbandonReady =>
              /\ Head(ready).id \in PendingIds
              /\ PendingIds' = PendingIds \ {Head(ready).id}
              /\ Held' = Held \ {Head(ready).id}
<1>1. ready # <<>> => Head(ready).id \in PendingIds
  BY ReadyHead DEF PendingIds, Pending, IdsOf
<1>2. ASSUME NextReady
      PROVE  /\ RunningIds' = RunningIds \cup {Head(ready).id}
             /\ PendingIds' = PendingIds \ {Head(ready).id}
             /\ Held' = Held
  <2>1. PlaceInv' /\ Held' = Held
    BY <1>2, NextReadyPlaces
  <2>2. RunningIds' = RunningIds \cup {Head(ready).id}
    <3>1. running' = running \cup {Head(ready)}
      BY <1>2 DEF NextReady
    <3> QED
      BY <3>1, IdsOfAdd DEF RunningIds
  <2>3. DecodingIds' = DecodingIds /\ LostIds' = LostIds
    BY <1>2 DEF NextReady, DecodingIds, LostIds
  <2>4. Head(ready).id \in PendingIds
    BY <1>1, <1>2 DEF NextReady
  <2> QED
    BY <2>1, <2>2, <2>3, <2>4, PendingIsRest DEF Apart
<1>3. ASSUME AbandonReady
      PROVE  /\ PendingIds' = PendingIds \ {Head(ready).id}
             /\ Held' = Held \ {Head(ready).id}
  <2>1. PlaceInv' /\ Held' = Held \ {Head(ready).id}
    <3>1. Leaves(Head(ready), Tail(ready)) /\ Finish(Head(ready), Tail(ready))
      BY <1>3, AbandonLeaves DEF AbandonReady
    <3> QED
      BY <3>1, FinishPlaces
  <2>2. DecodingIds' = DecodingIds /\ LostIds' = LostIds /\ RunningIds' = RunningIds
    BY <1>3 DEF AbandonReady, DecodingIds, LostIds, RunningIds
  <2> QED
    BY <2>1, <2>2, PendingIsRest DEF Apart
<1> QED
  BY <1>1, <1>2, <1>3 DEF NextReady, AbandonReady

(* complete and a failed job give up the ticket; the queues keep their       *)
(* deliveries, though one may become ready.                                  *)
LEMMA TicketMovesTo ==
  ASSUME PlaceInv, NEW t \in running
  PROVE  /\ t.id \in RunningIds
         /\ Complete(t) =>
              /\ RunningIds' = RunningIds \ {t.id}
              /\ PendingIds' = PendingIds
              /\ Held' = Held \ {t.id}
         /\ LoseTicket(t) =>
              /\ RunningIds' = RunningIds \ {t.id}
              /\ PendingIds' = PendingIds
              /\ Held' = Held
<1>1. t.id \in RunningIds
  BY DEF RunningIds, IdsOf
<1>2. ASSUME running' = running \ {t} PROVE RunningIds' = RunningIds \ {t.id}
  <2>1. \A u \in running : u.id = t.id => u = t
    BY DEF PlaceInv, OnePlace, Holders
  <2> QED
    BY <1>2, <2>1 DEF RunningIds, IdsOf
<1>3. ASSUME Complete(t)
      PROVE  /\ RunningIds' = RunningIds \ {t.id}
             /\ PendingIds' = PendingIds
             /\ Held' = Held \ {t.id}
  <2>1. PlaceInv' /\ Held' = Held \ {t.id}
    <3>1. Leaves(t, ready) /\ Finish(t, ready)
      BY <1>3, CompleteLeaves DEF Complete
    <3> QED
      BY <3>1, FinishPlaces
  <2>2. DecodingIds' = DecodingIds /\ LostIds' = LostIds /\ RunningIds' = RunningIds \ {t.id}
    BY <1>2, <1>3 DEF Complete, DecodingIds, LostIds
  <2> QED
    BY <1>1, <2>1, <2>2, PendingIsRest, SMTT(30) DEF Apart
<1>4. ASSUME LoseTicket(t)
      PROVE  /\ RunningIds' = RunningIds \ {t.id}
             /\ PendingIds' = PendingIds
             /\ Held' = Held
  <2>1. PlaceInv' /\ Held' = Held
    BY <1>4, LoseTicketPlaces
  <2>2. DecodingIds' = DecodingIds /\ RunningIds' = RunningIds \ {t.id}
    BY <1>2, <1>4 DEF LoseTicket, DecodingIds
  <2>3. LostIds' = LostIds \cup {t.id}
    <3>1. lost' = lost \cup {t}
      BY <1>4 DEF LoseTicket
    <3> QED
      BY <3>1, IdsOfAdd DEF LostIds
  <2> QED
    BY <1>1, <2>1, <2>2, <2>3, PendingIsRest, SMTT(30) DEF Apart
<1> QED
  BY <1>1, <1>3, <1>4

(* discard_pending empties the queues; aborting leaves only them.            *)
LEMMA QueueMovesTo ==
  ASSUME PlaceInv
  PROVE  /\ DiscardPending =>
              /\ DecodingIds' = DecodingIds /\ PendingIds' = {}
              /\ Held' = Held \ PendingIds
         /\ AbortAll =>
              /\ DecodingIds' = {} /\ RunningIds' = {} /\ PendingIds' = PendingIds
              /\ Held' = Held
<1>1. ASSUME DiscardPending
      PROVE  DecodingIds' = DecodingIds /\ PendingIds' = {} /\ Held' = Held \ PendingIds
  <2>1. PlaceInv' /\ Held' = Held \ PendingIds
    BY <1>1, DiscardPlaces DEF PendingIds
  <2>2. DecodingIds' = DecodingIds /\ RunningIds' = RunningIds /\ LostIds' = LostIds
    BY <1>1 DEF DiscardPending, DecodingIds, RunningIds, LostIds
  <2> QED
    BY <2>1, <2>2, PendingIsRest DEF Apart
<1>2. ASSUME AbortAll
      PROVE  /\ DecodingIds' = {} /\ RunningIds' = {} /\ PendingIds' = PendingIds
             /\ Held' = Held
  <2>1. PlaceInv' /\ Held' = Held
    BY <1>2, AbortAllPlaces
  <2>2. DecodingIds' = {} /\ RunningIds' = {}
    BY <1>2, SMTT(30) DEF AbortAll, DecodingIds, RunningIds, IdsOf, Range
  <2>3. LostIds' = LostIds \cup RunningIds \cup DecodingIds
    <3> DEFINE G == {[id |-> a.id, lane |-> NoLane, flow |-> a.flow] : a \in Range(admitted)}
    <3>1. lost' = lost \cup running \cup G
      BY <1>2 DEF AbortAll
    <3>2. IdsOf(G) = DecodingIds
      <4>1. \A g \in G : \E a \in Range(admitted) : g.id = a.id
        BY SMTT(30)
      <4>2. ASSUME NEW a \in Range(admitted) PROVE \E g \in G : g.id = a.id
        <5>1. [id |-> a.id, lane |-> NoLane, flow |-> a.flow] \in G
          OBVIOUS
        <5>2. [id |-> a.id, lane |-> NoLane, flow |-> a.flow].id = a.id
          OBVIOUS
        <5> HIDE DEF G
        <5> QED
          BY <5>1, <5>2
      <4> HIDE DEF G
      <4> QED
        BY <4>1, <4>2, SMTT(30) DEF IdsOf, DecodingIds
    <3> HIDE DEF G
    <3>3. IdsOf(lost \cup running \cup G) = IdsOf(lost) \cup IdsOf(running) \cup IdsOf(G)
      BY DEF IdsOf
    <3> QED
      BY <3>1, <3>2, <3>3 DEF LostIds, RunningIds
  <2> QED
    BY <2>1, <2>2, <2>3, PendingIsRest, SMTT(30) DEF Apart
<1> QED
  BY <1>1, <1>2

(* What the scheduler's invariant says of the deliveries it holds.           *)
LEMMA SchedulerAccounts == SchedulerInv => Accounted
<1> SUFFICES ASSUME SchedulerInv PROVE Accounted
  OBVIOUS
<1>1. PlaceInv /\ outstanding \in Int
  BY InvParts
<1>2. Apart
  BY <1>1, PlacesApart
<1>3. received \in Nat /\ received <= MaxDeliveries /\ MaxDeliveries \in Nat
  BY <1>1, ConstantsAssumption, SMTT(30) DEF PlaceInv, PlaceType
<1>4. Len(admitted) \in Nat
  BY <1>1, SMTT(30) DEF PlaceInv, PlaceType
<1>5. admitted # <<>> => Head(admitted).id \in DecodingIds
  BY <1>1, AdmittedHead DEF DecodingIds, IdsOf
<1>6. Cardinality(running) \in Nat
  BY <1>1, RunningIsFinite, FS_CardinalityType
<1>7. running = {} => Cardinality(running) = 0
  BY FS_EmptySet
<1> QED
  BY <1>1, <1>2, <1>3, <1>4, <1>5, <1>6, <1>7 DEF Accounted

(* Every call moves deliveries as module Places says.                        *)
LEMMA SchedulerMoves == SchedulerInv => Moves
<1> SUFFICES ASSUME SchedulerInv PROVE Moves
  OBVIOUS
<1>1. PlaceInv /\ outstanding \in Int
  BY InvParts
<1>2. IsFiniteSet(running)
  BY <1>1, RunningIsFinite
<1>3. AdmitMoves
  BY <1>1, AdmitMovesTo DEF AdmitMoves
<1>4. DecodingMoves
  <2>1. admitted # <<>> /\ admitted' = Tail(admitted) => Len(admitted') = Len(admitted) - 1
    BY <1>1, AdmissionLeaves
  <2> QED
    BY <1>1, <2>1, DecodingMovesTo DEF DecodingMoves
<1>5. ReadyMoves
  <2>1. ASSUME NextReady
        PROVE  Cardinality(running') \in {Cardinality(running), Cardinality(running) + 1}
    <3>1. running' = running \cup {Head(ready)}
      BY <2>1 DEF NextReady
    <3>2. \/ Cardinality(running \cup {Head(ready)}) = Cardinality(running)
          \/ Cardinality(running \cup {Head(ready)}) = Cardinality(running) + 1
      BY <1>2, FS_AddElement
    <3> QED
      BY <3>1, <3>2
  <2> QED
    BY <1>1, <2>1, ReadyMovesTo DEF ReadyMoves
<1>6. TicketMoves
  <2>1. ASSUME NEW t \in running, running' = running \ {t}
        PROVE  Cardinality(running') = Cardinality(running) - 1
    BY <1>2, <2>1, FS_RemoveElement
  <2> QED
    BY <1>1, <2>1, TicketMovesTo DEF TicketMoves
<1>7. QueueMoves
  <2>1. ASSUME DiscardPending PROVE outstanding' <= outstanding
    <3>1. Cardinality(Pending) \in Nat
      BY <1>1, <2>1, DiscardPlaces, FS_CardinalityType
    <3>2. outstanding' = outstanding - Cardinality(Pending)
      BY <2>1 DEF DiscardPending
    <3> QED
      BY <1>1, <3>1, <3>2, SMTT(30)
  <2>2. ASSUME AbortAll PROVE Cardinality(running') = 0
    <3>1. running' = {}
      BY <2>2 DEF AbortAll
    <3> QED
      BY <3>1, FS_EmptySet
  <2> QED
    BY <1>1, <2>1, <2>2, QueueMovesTo DEF QueueMoves
<1> QED
  BY <1>3, <1>4, <1>5, <1>6, <1>7 DEF Moves

-----------------------------------------------------------------------------
(* The theorems.                                                             *)

(* The loop's invariant holds in every reachable state; with it, the         *)
(* scheduler's, whose guards module Scheduler takes for granted.             *)
THEOREM SubscriptionInvHolds == RSpec => []SubscriptionInv
<1>1. RInit => SubscriptionInv
  BY InitInv, SchedulerAccounts, SubscriptionInit DEF RInit
<1>2. SubscriptionInv /\ [RNext]_rvars => SubscriptionInv'
  <2> SUFFICES ASSUME SubscriptionInv, [RNext]_rvars PROVE SubscriptionInv'
    OBVIOUS
  <2>1. SchedulerInv /\ Accounted /\ Moves
    BY SchedulerAccounts, SchedulerMoves DEF SubscriptionInv
  <2>2. SchedulerInv'
    BY <2>1, LoopUsesScheduler, StepInv
  <2> QED
    BY <2>1, <2>2, SubscriptionStep
<1> QED
  BY <1>1, <1>2, PTL DEF RSpec

(* Jobs, decodings and deliveries in flight never exceed the configured      *)
(* limits, although the receive loop checks them once per turn.              *)
THEOREM LimitsHold == RSpec => []WithinLimits
<1>1. SubscriptionInv => WithinLimits
  BY DEF SubscriptionInv, WithinBounds, WithinLimits, SchedulerInv, OutstandingExact
<1> QED
  BY <1>1, SubscriptionInvHolds, PTL

(* Every delivery held is decoding, queued, running or being acknowledged    *)
(* until run returns: none is lost, run twice or run after it was settled.   *)
THEOREM HeldStaysTracked == RSpec => []HeldIsTracked
<1>1. SubscriptionInv => HeldIsTracked
  <2> SUFFICES ASSUME SubscriptionInv PROVE HeldIsTracked
    OBVIOUS
  <2>1. \A d : d \in DecodingIds <=> \E i \in DOMAIN admitted : admitted[i].id = d
    BY DEF DecodingIds, IdsOf, Range
  <2>2. \A d : d \in PendingIds <=> \E t \in Pending : t.id = d
    BY DEF PendingIds, IdsOf
  <2> QED
    BY <2>1, <2>2 DEF SubscriptionInv, Tracked, HeldIsTracked
<1> QED
  BY <1>1, SubscriptionInvHolds, PTL

(* After a task failed or the unstarted deliveries were discarded the loop   *)
(* calls neither next_ready, push nor admit: the guards of module Scheduler  *)
(* hide nothing that the loop would do.                                      *)
THEOREM NothingStartsAfterLoss == RSpec => []StartsNothingAfterLoss
<1>1. SubscriptionInv => StartsNothingAfterLoss
  <2> SUFFICES ASSUME SubscriptionInv PROVE StartsNothingAfterLoss
    OBVIOUS
  <2>1. lost # {} => failure
    BY DEF SubscriptionInv, FailuresKnown
  <2>2. discarded => admitted = <<>>
    BY DEF SubscriptionInv, SchedulerInv, LaneQueues
  <2> QED
    BY <2>1, <2>2 DEF SubscriptionInv, LoopKnows, StartsNothingAfterLoss, Active, Unstarted, CanStart
<1> QED
  BY <1>1, SubscriptionInvHolds, PTL

(* A subscription that ends well without being stopped has acknowledged      *)
(* every delivery it received and was not asked to give back.                *)
THEOREM CleanEndSettles == RSpec => []CleanEndSettlesAll
<1>1. SubscriptionInv => CleanEndSettlesAll
  <2> SUFFICES ASSUME SubscriptionInv, pc = "finished", result = "ok", ~Stopping,
                      NEW d \in 1..received
               PROVE  fate[d] = "acked" \/ d \in revoked \cup handoff
    BY DEF CleanEndSettlesAll
  <2>1. d \in Ids /\ ~(d > received)
    BY SchedulerAccounts, Facts, SMTT(30) DEF SubscriptionInv, Ids
  <2>2. fate[d] \notin {"unreceived", "held", "failed"} /\ ~failure
    BY <2>1 DEF SubscriptionInv, NotYetReceived, LoopKnows
  <2> QED
    BY <2>1, <2>2 DEF SubscriptionInv, LoopTypes, FailuresKnown
<1> QED
  BY <1>1, SubscriptionInvHolds, PTL

-----------------------------------------------------------------------------
(* The subscription implements the promise: each delivery it receives ends   *)
(* exactly once, is dropped only when the source takes it back or the        *)
(* subscription stops, and an Ok result leaves nothing held or failed.       *)
THEOREM PromiseKept == RSpec => KeepsPromise
<1>1. RInit => Promise!Init
  BY DEF RInit, Promise!Init, Stopping
<1>2. SubscriptionInv /\ [RNext]_rvars => [Promise!Next]_Promise!promiseVars
  <2> SUFFICES ASSUME SubscriptionInv, [RNext]_rvars
               PROVE  [Promise!Next]_Promise!promiseVars
    OBVIOUS
  <2>0. Accounted /\ Moves
    BY SchedulerAccounts, SchedulerMoves DEF SubscriptionInv
  <2>1. ASSUME NEW d \in Ids, JobEnd(d) \/ AckEnd(d)
        PROVE  [Promise!Next]_Promise!promiseVars
    BY <2>1, TaskKeepsPromise
  <2>2. ASSUME NEW d \in Ids, TakeBack(d) PROVE [Promise!Next]_Promise!promiseVars
    BY <2>2, QuietKeepsPromise DEF TakeBack
  <2>3. CASE Verify \/ \E k \in DOMAIN LanesOf : ReceiveMessage(k)
    BY <2>0, <2>3, ReceiveKeepsPromise
  <2>4. CASE DropHandedOff \/ DecodePanic \/ DiscardDecoding \/ DiscardQueued \/ DrainTimeout
    BY <2>0, <2>4, DropKeepsPromise
  <2>5. CASE Cleanup
    BY <2>5, CleanupKeepsPromise
  <2>6. CASE \/ StartOne \/ ApplyFlow \/ SelectStop \/ DecodeNext \/ DrainTop \/ DrainWait \/ DrainDone
             \/ ReceiveEnd \/ Shutdown \/ UNCHANGED rvars
             \/ \E fatal \in BOOLEAN : ReceiveError(fatal)
             \/ \E t \in running : JoinJob(t)
             \/ \E d \in Ids : JoinAck(d)
    <3> DEFINE Q == /\ UNCHANGED <<fate, result, revoked, handoff>>
                    /\ failure => failure'
                    /\ shutdown => shutdown'
                    /\ pc = "finished" <=> pc' = "finished"
    <3>1. Q
      <4>1. CASE StartOne \/ ApplyFlow \/ SelectStop \/ DecodeNext
        BY <4>1, SMTT(30) DEF StartOne, ApplyFlow, SelectStop, DecodeNext, tokens
      <4>2. CASE DrainTop \/ DrainWait \/ DrainDone \/ ReceiveEnd
        BY <4>2, SMTT(30) DEF DrainTop, DrainWait, DrainDone, ReceiveEnd, MayReceive, tokens
      <4>3. CASE Shutdown \/ UNCHANGED rvars
        BY <4>3, SMTT(30) DEF Shutdown, rvars, tokens
      <4>4. ASSUME NEW fatal \in BOOLEAN, ReceiveError(fatal)
            PROVE  Q
        BY <4>4 DEF ReceiveError, MayReceive, Fails, tokens
      <4>5. ASSUME NEW t \in running, JoinJob(t)
            PROVE  Q
        BY <4>5, SMTT(30) DEF JoinJob, Fails, tokens
      <4>6. ASSUME NEW d \in Ids, JoinAck(d)
            PROVE  Q
        BY <4>6, SMTT(30) DEF JoinAck, Fails, tokens
      <4> QED
        BY <2>6, <4>1, <4>2, <4>3, <4>4, <4>5, <4>6
    <3> QED
      BY <3>1, QuietKeepsPromise
  <2> QED
    BY <2>1, <2>2, <2>3, <2>4, <2>5, <2>6 DEF RNext, LoopStep, SourceStep, Terminated
<1> QED
  BY <1>1, <1>2, SubscriptionInvHolds, PTL DEF RSpec, KeepsPromise, Promise!Spec
-----------------------------------------------------------------------------
(* What RuntimeInv says beyond SubscriptionInv: the source's side.           *)

(* Tokens, counters and flags have their types; the loop receives only while *)
(* receive_retry has an attempt left.                                        *)
SourceTypes ==
  /\ revoked \subseteq Ids /\ handoff \subseteq Ids /\ srcPaused \subseteq Keys
  /\ ended \in BOOLEAN /\ verified \in BOOLEAN
  /\ failures \in 0..MaxAttempts /\ (pc \in Main => failures < MaxAttempts)
  /\ pendingKey \in MaybeKey

(* While the loop receives, the source would pause exactly the paused keys   *)
(* once the requests not yet taken are applied, and it waits with none left. *)
FlowInSync ==
  /\ pc \in Main /\ flowOn => Applied = paused
  /\ pc = "select" => changes = <<>>

(* A call of the scheduler asks the source to pause or to resume one key, or *)
(* leaves flow control alone.                                                *)
FlowRequest ==
  \/ UNCHANGED <<flowOn, paused, changes>>
  \/ \E k \in Keys :
       /\ UNCHANGED flowOn
       /\ \/ /\ paused' = paused \cup {k}
             /\ changes' = Append(changes, [op |-> "pause", key |-> k])
          \/ /\ paused' = paused \ {k}
             /\ changes' = Append(changes, [op |-> "resume", key |-> k])

(* release asks at most for one resume.                                      *)
LEMMA ReleaseRequests == ASSUME NEW k \in MaybeKey, Release(k) PROVE FlowRequest
<1>1. CASE Counts(k) /\ FlowRemove(k)
  <2>1. k \in Keys
    BY <1>1 DEF Counts, MaybeKey
  <2> QED
    BY <1>1, <2>1 DEF FlowRemove, FlowRequest
<1>2. CASE UNCHANGED flowVars
  BY <1>2 DEF flowVars, FlowRequest
<1> QED
  BY <1>1, <1>2 DEF Release

(* So do the calls that the receive loop makes.                              *)
LEMMA CallRequests ==
  ASSUME SchedulerInv
  PROVE  /\ NextReady => FlowRequest
         /\ AbandonReady => FlowRequest
         /\ \A t \in running : Complete(t) => FlowRequest
         /\ \A l \in MaybeLane : Push(l) => FlowRequest
         /\ \A k \in MaybeKey : Admit(k) => FlowRequest
<1>1. \A t \in Range(ready) \cup running : t.flow \in MaybeKey
  <2>1. \A t \in Range(ready) \cup running : t \in Ticket
    BY InvParts, ElementTypes DEF PlaceInv, Holders
  <2> QED
    BY <2>1 DEF Ticket
<1>2. NextReady => FlowRequest
  BY DEF NextReady, flowVars, FlowRequest
<1>3. ASSUME AbandonReady PROVE FlowRequest
  <2>1. Head(ready) \in Range(ready)
    BY <1>3, ReadyHead, InvParts DEF AbandonReady
  <2> QED
    BY <1>1, <1>3, <2>1, ReleaseRequests DEF AbandonReady, Finish
<1>4. ASSUME NEW t \in running, Complete(t) PROVE FlowRequest
  BY <1>1, <1>4, ReleaseRequests DEF Complete, Finish
<1>5. ASSUME NEW l \in MaybeLane, Push(l) PROVE FlowRequest
  BY <1>5 DEF Push, flowVars, FlowRequest
<1>6. ASSUME NEW k \in MaybeKey, Admit(k) PROVE FlowRequest
  <2>1. CASE Counts(k)
    <3>1. k \in Keys /\ FlowAdd(k)
      BY <1>6, <2>1 DEF Admit, Counts, MaybeKey
    <3> QED
      BY <3>1 DEF FlowAdd, FlowRequest
  <2>2. CASE ~Counts(k)
    BY <1>6, <2>2 DEF Admit, flowVars, FlowRequest
  <2> QED
    BY <2>1, <2>2
<1> QED
  BY <1>2, <1>3, <1>4, <1>5, <1>6

(* The last request for a key decides: appending one to the requests not yet *)
(* taken changes what they amount to for that key only.                      *)
LEMMA AppliedAppend ==
  ASSUME changes \in Seq(FlowChange), NEW k \in Keys, NEW o \in {"pause", "resume"},
         changes' = Append(changes, [op |-> o, key |-> k]), UNCHANGED srcPaused
  PROVE  Applied' = IF o = "pause" THEN Applied \cup {k} ELSE Applied \ {k}
<1> DEFINE n == Len(changes)
           c == [op |-> o, key |-> k]
<1>1. n \in Nat /\ DOMAIN changes = 1..n /\ c \in FlowChange
  BY SMTT(30) DEF FlowChange
<1>2. DOMAIN changes' = 1..(n + 1) /\ changes'[n + 1] = c
      /\ \A i \in 1..n : changes'[i] = changes[i]
  BY <1>1, AppendOf, SMTT(30)
<1>3. c.op = o /\ c.key = k
  OBVIOUS
<1> HIDE DEF n, c
<1>4. k \in Applied' <=> o = "pause"
  BY <1>1, <1>2, <1>3, SMTT(30) DEF Applied
<1>5. ASSUME NEW x \in Keys, x # k PROVE x \in Applied' <=> x \in Applied
  <2>1. \A i \in 1..(n + 1) : changes'[i].key = x => i \in 1..n
    BY <1>1, <1>2, <1>3, <1>5, SMTT(30)
  <2> QED
    BY <1>1, <1>2, <2>1, <1>5, SMTT(30) DEF Applied
<1>6. Applied \subseteq Keys /\ Applied' \subseteq Keys
  BY DEF Applied
<1> QED
  BY <1>4, <1>5, <1>6

(* A request leaves the source in sync with the scheduler.                   *)
LEMMA RequestKeepsSync ==
  ASSUME TypeOK, FlowRequest, UNCHANGED srcPaused, flowOn => Applied = paused
  PROVE  flowOn' => Applied' = paused'
<1>0. changes \in Seq(FlowChange)
  BY DEF TypeOK
<1>1. CASE UNCHANGED <<flowOn, paused, changes>>
  BY <1>1 DEF Applied
<1>2. CASE ~UNCHANGED <<flowOn, paused, changes>>
  <2>1. PICK k \in Keys :
          /\ UNCHANGED flowOn
          /\ \/ /\ paused' = paused \cup {k}
                /\ changes' = Append(changes, [op |-> "pause", key |-> k])
             \/ /\ paused' = paused \ {k}
                /\ changes' = Append(changes, [op |-> "resume", key |-> k])
    BY <1>2 DEF FlowRequest
  <2>2. changes' = Append(changes, [op |-> "pause", key |-> k]) => Applied' = Applied \cup {k}
    BY <1>0, AppliedAppend
  <2>3. changes' = Append(changes, [op |-> "resume", key |-> k]) => Applied' = Applied \ {k}
    <3>1. "resume" # "pause"
      OBVIOUS
    <3> QED
      BY <1>0, <3>1, AppliedAppend
  <2> QED
    BY <2>1, <2>2, <2>3
<1> QED
  BY <1>1, <1>2
(* The types on the source's side are kept by every step.                    *)
LEMMA SourceTypesStep ==
  ASSUME SubscriptionInv, SourceTypes, [RNext]_rvars
  PROVE  SourceTypes'
<1> DEFINE Q == /\ UNCHANGED <<revoked, handoff, srcPaused, ended, verified, failures, pendingKey>>
                /\ pc' \in Main => pc \in Main
<1>1. CASE Q
  BY <1>1 DEF SourceTypes
<1>2. CASE StartOne \/ DropHandedOff \/ SelectStop \/ DecodeNext \/ DecodePanic \/ DiscardDecoding
           \/ DiscardQueued \/ DrainTop \/ DrainWait \/ DrainDone \/ DrainTimeout \/ Cleanup
  <2>1. Q
    <3>1. CASE StartOne \/ DropHandedOff \/ SelectStop \/ DecodeNext
      BY <3>1 DEF StartOne, DropHandedOff, SelectStop, DecodeNext, tokens, receiving, Main
    <3>2. CASE DecodePanic \/ DiscardDecoding \/ DiscardQueued \/ DrainTimeout
      BY <3>2 DEF DecodePanic, DiscardDecoding, DiscardQueued, DrainTimeout, tokens, receiving, Main
    <3>3. CASE DrainTop \/ DrainWait \/ DrainDone \/ Cleanup
      BY <3>3 DEF DrainTop, DrainWait, DrainDone, Cleanup, tokens, receiving, Main
    <3> QED
      BY <1>2, <3>1, <3>2, <3>3
  <2> QED
    BY <1>1, <2>1
<1>3. ASSUME NEW t \in running, JoinJob(t) PROVE SourceTypes'
  <2>1. Q
    BY <1>3 DEF JoinJob, tokens, receiving, Main
  <2> QED
    BY <1>1, <2>1
<1>4. ASSUME NEW d \in Ids, JoinAck(d) \/ JobEnd(d) \/ AckEnd(d) PROVE SourceTypes'
  <2>1. Q
    BY <1>4 DEF JoinAck, JobEnd, AckEnd, EndTask, tokens, receiving, Main
  <2> QED
    BY <1>1, <2>1
<1>5. CASE Shutdown \/ UNCHANGED rvars
  <2>1. Q
    BY <1>5 DEF Shutdown, rvars, tokens, receiving
  <2> QED
    BY <1>1, <2>1
<1>6. CASE ApplyFlow
  <2>1. UNCHANGED <<revoked, handoff, ended, verified, failures, pendingKey>> /\ pc \in Main
    BY <1>6 DEF ApplyFlow, tokens, receiving, Main
  <2>2. srcPaused' \subseteq Keys
    BY <1>6 DEF ApplyFlow, Applied, SourceTypes
  <2> QED
    BY <2>1, <2>2 DEF SourceTypes
<1>7. CASE Verify
  <2>1. UNCHANGED <<revoked, handoff, srcPaused, ended, failures>> /\ pc \in Main /\ pendingKey' = NoKey
    BY <1>7 DEF Verify, tokens, Main
  <2>2. verified' \in BOOLEAN
    BY <1>7 DEF Verify, SourceTypes
  <2>3. NoKey \in MaybeKey
    BY DEF MaybeKey
  <2> QED
    BY <2>1, <2>2, <2>3 DEF SourceTypes
<1>8. CASE ReceiveEnd
  BY <1>8 DEF ReceiveEnd, MayReceive, tokens, SourceTypes, Main
<1>9. ASSUME NEW k \in DOMAIN LanesOf, ReceiveMessage(k) PROVE SourceTypes'
  <2>1. UNCHANGED <<revoked, handoff, srcPaused, ended, verified>> /\ failures' = 0
        /\ pendingKey' \in {pendingKey, k}
    BY <1>9 DEF ReceiveMessage, tokens
  <2> QED
    BY <2>1, RuntimeAssumption, SMTT(30) DEF SourceTypes
<1>10. ASSUME NEW fatal \in BOOLEAN, ReceiveError(fatal) PROVE SourceTypes'
  <2>1. UNCHANGED <<revoked, handoff, srcPaused, ended, verified, pendingKey>> /\ pc \in Main
    BY <1>10 DEF ReceiveError, MayReceive, tokens, Main
  <2>2. failures' \in {failures, failures + 1} /\ (failures' >= MaxAttempts => pc' = "discard")
    BY <1>10 DEF ReceiveError
  <2> QED
    BY <2>1, <2>2, RuntimeAssumption, SMTT(30) DEF SourceTypes, Main
<1>11. ASSUME NEW d \in Ids, TakeBack(d) PROVE SourceTypes'
  BY <1>11 DEF TakeBack, receiving, SourceTypes
<1> QED
  BY <1>2, <1>3, <1>4, <1>5, <1>6, <1>7, <1>8, <1>9, <1>10, <1>11
  DEF RNext, LoopStep, SourceStep, Terminated

(* The source stays in sync: between two turns of the loop the calls of the  *)
(* scheduler only add requests, and apply_flow takes them all.               *)
LEMMA FlowInSyncStep ==
  ASSUME SubscriptionInv, SourceTypes, FlowInSync, [RNext]_rvars
  PROVE  FlowInSync'
<1>1. SchedulerInv /\ TypeOK
  BY DEF SubscriptionInv, SchedulerInv
<1>2. ASSUME pc' \notin Main PROVE FlowInSync'
  BY <1>2 DEF FlowInSync, Main
<1>3. ASSUME UNCHANGED <<vars, srcPaused>>, pc \in Main, pc' # "select" \/ pc = "select"
      PROVE  FlowInSync'
  <2>1. Applied' = Applied
    BY <1>3 DEF vars, Applied
  <2> QED
    BY <1>3, <2>1 DEF FlowInSync, vars
<1>4. ASSUME FlowRequest, UNCHANGED srcPaused, pc \in Main, pc' # "select" PROVE FlowInSync'
  <2>1. flowOn => Applied = paused
    BY <1>4 DEF FlowInSync
  <2>2. flowOn' => Applied' = paused'
    BY <1>1, <1>4, <2>1, RequestKeepsSync
  <2> QED
    BY <1>4, <2>2 DEF FlowInSync
<1>5. CASE StartOne \/ DropHandedOff
  <2>1. FlowRequest /\ UNCHANGED <<srcPaused, pc>> /\ pc \in {"start", "drainStart"}
    BY <1>1, <1>5, CallRequests DEF StartOne, DropHandedOff
  <2> QED
    BY <1>2, <1>4, <2>1 DEF Main
<1>6. CASE ApplyFlow
  <2>1. pc = "start" /\ pc' = "select"
    BY <1>6 DEF ApplyFlow
  <2>2. CASE changes = <<>> /\ UNCHANGED <<vars, srcPaused>>
    <3>1. Applied' = Applied
      BY <2>2 DEF vars, Applied
    <3> QED
      BY <2>1, <2>2, <3>1 DEF FlowInSync, Main, vars
  <2>3. CASE TakeFlowChanges /\ srcPaused' = Applied
    <3>1. changes' = <<>> /\ UNCHANGED <<flowOn, paused>>
      BY <2>3 DEF TakeFlowChanges
    <3>2. Applied' = srcPaused' \cap Keys
      BY <3>1, SMTT(30) DEF Applied
    <3>3. Applied \subseteq Keys
      BY DEF Applied
    <3> QED
      BY <2>1, <2>3, <3>1, <3>2, <3>3 DEF FlowInSync, Main
  <2>4. CASE DisableFlowControl
    BY <2>4 DEF DisableFlowControl, FlowInSync
  <2> QED
    BY <1>6, <2>2, <2>3, <2>4 DEF ApplyFlow
<1>7. CASE DecodeNext
  <2>1. PICK l \in LanesOf[keyOf[Head(admitted).id]] \cup {NoLane} : Push(l)
    BY <1>7 DEF DecodeNext
  <2>2. admitted # <<>>
    BY <1>7 DEF DecodeNext
  <2>3. l \in MaybeLane
    BY <2>1, <2>2, OldestAdmission, SchedulerAccounts, RuntimeAssumption DEF MaybeLane, SubscriptionInv
  <2>4. FlowRequest
    BY <1>1, <2>1, <2>3, CallRequests
  <2>5. UNCHANGED srcPaused /\ pc \in {"select", "drainSelect"}
        /\ pc' = IF pc = "select" THEN "start" ELSE "drain"
    BY <1>7 DEF DecodeNext
  <2> QED
    BY <1>2, <1>4, <2>4, <2>5 DEF Main
<1>8. ASSUME NEW t \in running, JoinJob(t) PROVE FlowInSync'
  <2>1. CASE Complete(t) /\ pc' = IF pc = "select" THEN "start" ELSE "drain"
    <3>1. FlowRequest /\ UNCHANGED srcPaused
      BY <1>1, <1>8, <2>1, CallRequests DEF JoinJob
    <3> QED
      BY <1>2, <1>4, <2>1, <3>1 DEF Main
  <2>2. CASE pc' \in {"discard", "drain"}
    BY <1>2, <2>2 DEF Main
  <2> QED
    BY <1>8, <2>1, <2>2 DEF JoinJob
<1>9. ASSUME NEW k \in MaybeKey, Admitted(k), UNCHANGED srcPaused, pc \in Main, pc' = "start"
      PROVE  FlowInSync'
  BY <1>1, <1>4, <1>9, CallRequests DEF Admitted
<1>10. CASE Verify
  <2>1. pc = "verify" /\ UNCHANGED srcPaused
    BY <1>10 DEF Verify
  <2>2. pendingKey \in MaybeKey
    BY DEF SourceTypes
  <2>3. pc' = "discard" \/ (Admitted(pendingKey) /\ pc' = "start")
    BY <1>10 DEF Verify
  <2> QED
    BY <1>2, <1>9, <2>1, <2>2, <2>3 DEF Main
<1>11. ASSUME NEW k \in DOMAIN LanesOf, ReceiveMessage(k) PROVE FlowInSync'
  <2>1. pc = "select" /\ UNCHANGED srcPaused /\ k \in MaybeKey
    BY <1>11, RuntimeAssumption DEF ReceiveMessage, MayReceive
  <2>2. (Admitted(k) /\ pc' = "start") \/ (pc' = "verify" /\ UNCHANGED vars)
    BY <1>11 DEF ReceiveMessage
  <2> QED
    BY <1>3, <1>9, <2>1, <2>2 DEF Main
<1>12. CASE SelectStop \/ ReceiveEnd \/ DecodePanic \/ DiscardDecoding \/ DiscardQueued
            \/ DrainTop \/ DrainWait \/ DrainDone \/ DrainTimeout \/ Cleanup
  <2>1. SelectStop \/ ReceiveEnd \/ DecodePanic => pc' \notin Main
    BY DEF SelectStop, ReceiveEnd, DecodePanic, Main
  <2>2. DiscardDecoding \/ DiscardQueued \/ DrainTop \/ DrainWait => pc' \notin Main
    BY DEF DiscardDecoding, DiscardQueued, DrainTop, DrainWait, Main
  <2>3. DrainDone \/ DrainTimeout \/ Cleanup => pc' \notin Main
    BY DEF DrainDone, DrainTimeout, Cleanup, Main
  <2> QED
    BY <1>2, <1>12, <2>1, <2>2, <2>3
<1>13. ASSUME NEW d \in Ids, JoinAck(d) PROVE FlowInSync'
  <2>1. UNCHANGED <<vars, srcPaused>> /\ pc' \in {"start", "drain", "discard"}
        /\ (pc' = "start" => pc = "select")
    BY <1>13 DEF JoinAck
  <2> QED
    BY <1>2, <1>3, <2>1 DEF Main
<1>14. ASSUME NEW fatal \in BOOLEAN, ReceiveError(fatal) PROVE FlowInSync'
  <2>1. UNCHANGED <<vars, srcPaused>> /\ pc' \in {"start", "discard"} /\ pc = "select"
    BY <1>14 DEF ReceiveError, MayReceive
  <2> QED
    BY <1>2, <1>3, <2>1 DEF Main
<1>15. CASE UNCHANGED <<vars, srcPaused, pc>>
  <2>1. UNCHANGED <<vars, srcPaused>> /\ UNCHANGED pc
    BY <1>15
  <2> QED
    BY <1>2, <1>3, <2>1
<1>16. CASE Shutdown \/ UNCHANGED rvars \/ \E d \in Ids : JobEnd(d) \/ AckEnd(d) \/ TakeBack(d)
  BY <1>15, <1>16 DEF Shutdown, rvars, JobEnd, AckEnd, EndTask, TakeBack
<1> QED
  BY <1>5, <1>6, <1>7, <1>8, <1>10, <1>11, <1>12, <1>13, <1>14, <1>16
  DEF RNext, LoopStep, SourceStep, Terminated

(* Between any two steps the loop keeps its state well-formed and within its *)
(* limits, holds every delivery in one place, and, whenever it waits, has    *)
(* the source paused for exactly the keys flow control asked it to pause.    *)
THEOREM RuntimeInvHolds == RSpec => []RuntimeInv
<1>1. RInit => SourceTypes /\ FlowInSync
  <2> SUFFICES ASSUME RInit PROVE SourceTypes /\ FlowInSync
    OBVIOUS
  <2>1. SourceTypes
    <3>1. failures \in 0..MaxAttempts /\ failures < MaxAttempts
      BY RuntimeAssumption, SMTT(30) DEF RInit
    <3> QED
      BY <3>1 DEF RInit, SourceTypes, MaybeKey
  <2>2. Applied = {} /\ paused = {} /\ pc = "start"
    BY SMTT(30) DEF RInit, Init, Applied
  <2> QED
    BY <2>1, <2>2 DEF FlowInSync
<1>2. SubscriptionInv /\ SourceTypes /\ FlowInSync /\ [RNext]_rvars => SourceTypes' /\ FlowInSync'
  BY SourceTypesStep, FlowInSyncStep
<1>3. SubscriptionInv /\ SourceTypes /\ FlowInSync /\ WithinLimits /\ HeldIsTracked => RuntimeInv
  <2> SUFFICES ASSUME SubscriptionInv, SourceTypes, FlowInSync, WithinLimits, HeldIsTracked
               PROVE  RuntimeInv
    OBVIOUS
  <2>1. RTypeOK
    <3>1. TypeOK
      BY DEF SubscriptionInv, SchedulerInv
    <3> QED
      BY <3>1 DEF SubscriptionInv, LoopTypes, SourceTypes, RTypeOK
  <2>2. ASSUME pc = "select", flowOn PROVE srcPaused = paused
    <3>1. Applied = paused /\ changes = <<>>
      BY <2>2 DEF FlowInSync, Main
    <3>2. Applied = srcPaused \cap Keys
      BY <3>1, SMTT(30) DEF Applied
    <3> QED
      BY <3>1, <3>2 DEF SourceTypes
  <2> QED
    BY <2>1, <2>2 DEF RuntimeInv, SourcePausedInSync
<1>4. RSpec => [](SourceTypes /\ FlowInSync)
  BY <1>1, <1>2, SubscriptionInvHolds, PTL DEF RSpec
<1> QED
  BY <1>3, <1>4, SubscriptionInvHolds, LimitsHold, HeldStaysTracked, PTL
=============================================================================
