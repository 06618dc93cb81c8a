--------------------------- MODULE SchedulerProofs ---------------------------
(***************************************************************************)
(* Proofs about the delivery scheduler, for any number of keys, lanes and   *)
(* deliveries and any per-key limit.                                        *)
(***************************************************************************)
EXTENDS Places, FiniteSetTheorems, TLAPS

(* Steps are first-order unless they cite the SMT solver; each prover has    *)
(* thirty seconds for a step.                                                *)
USE ZenonT(30)

-----------------------------------------------------------------------------
(* Facts about queues.                                                      *)

(* Taking the head off a queue.                                             *)
LEMMA TailOf ==
  ASSUME NEW S, NEW s \in Seq(S), s # <<>>
  PROVE  /\ Head(s) \in S
         /\ Tail(s) \in Seq(S)
         /\ Len(Tail(s)) = Len(s) - 1
         /\ \A i \in 1..Len(Tail(s)) : Tail(s)[i] = s[i+1]
BY SMTT(30)

(* Putting an element at the back.                                          *)
LEMMA AppendOf ==
  ASSUME NEW S, NEW s \in Seq(S), NEW e \in S
  PROVE  /\ Append(s, e) \in Seq(S)
         /\ Append(s, e) # <<>>
         /\ Len(Append(s, e)) = Len(s) + 1
         /\ \A i \in 1..Len(s) : Append(s, e)[i] = s[i]
         /\ Append(s, e)[Len(s) + 1] = e
BY SMTT(30)

(* Putting one queue behind another.                                        *)
LEMMA ConcatOf ==
  ASSUME NEW S, NEW s \in Seq(S), NEW t \in Seq(S)
  PROVE  s \o t \in Seq(S)
BY SMTT(30)

(* A function on 1..n is a queue of length n.                               *)
LEMMA SequenceOf ==
  ASSUME NEW S, NEW n \in Nat, NEW f \in [1..n -> S]
  PROVE  f \in Seq(S) /\ Len(f) = n
BY SMTT(30)

LEMMA RangeAppend ==
  ASSUME NEW S, NEW s \in Seq(S), NEW e \in S
  PROVE  Range(Append(s, e)) = Range(s) \cup {e}
<1>1. DOMAIN Append(s, e) = 1..Len(s)+1 /\ DOMAIN s = 1..Len(s)
  BY SMTT(30)
<1>2. \A i \in 1..Len(s)+1 : Append(s, e)[i] = IF i = Len(s)+1 THEN e ELSE s[i]
  BY SMTT(30)
<1>3. Len(s) \in Nat
  BY SMTT(30)
<1>4. QED
  BY <1>1, <1>2, <1>3, SMTT(30) DEF Range

LEMMA RangeHeadTail ==
  ASSUME NEW S, NEW s \in Seq(S), s # <<>>
  PROVE  /\ Head(s) \in Range(s)
         /\ Range(s) = {Head(s)} \cup Range(Tail(s))
         /\ Range(s) \subseteq S
<1>1. Head(s) = s[1] /\ 1 \in DOMAIN s
  BY SMTT(30)
<1>2. \A i \in 1..Len(Tail(s)) : Tail(s)[i] = s[i+1] /\ i + 1 \in DOMAIN s
  BY TailOf, SMTT(30)
<1>3. \A i \in DOMAIN s : i = 1 \/ (i - 1 \in 1..Len(Tail(s)) /\ s[i] = Tail(s)[i-1])
  BY TailOf, SMTT(30)
<1>4. DOMAIN Tail(s) = 1..Len(Tail(s))
  BY SMTT(30)
<1>5. QED
  BY <1>1, <1>2, <1>3, <1>4, SMTT(30) DEF Range

(* Taking the head off a queue of distinct deliveries removes it.           *)
LEMMA DistinctTail ==
  ASSUME NEW S, NEW s \in Seq(S), s # <<>>, Distinct(s)
  PROVE  /\ Distinct(Tail(s))
         /\ Range(Tail(s)) = Range(s) \ {Head(s)}
<1>1. \A i \in 1..Len(Tail(s)) : Tail(s)[i] = s[i+1] /\ i + 1 \in 1..Len(s)
  BY TailOf, SMTT(30)
<1>2. Head(s) = s[1] /\ 1 \in 1..Len(s)
  BY SMTT(30)
<1>3. Distinct(Tail(s))
  BY <1>1, SMTT(30) DEF Distinct
<1>4. Head(s) \notin Range(Tail(s))
  BY <1>1, <1>2, SMTT(30) DEF Distinct, Range
<1>5. QED
  BY <1>3, <1>4, RangeHeadTail, SMTT(30)

LEMMA SortedTail ==
  ASSUME NEW S, NEW s \in Seq(S), s # <<>>, Sorted(s), \A e \in S : e.id \in Nat
  PROVE  /\ Sorted(Tail(s))
         /\ Distinct(s)
         /\ \A e \in Range(Tail(s)) : Head(s).id < e.id
<1>1. \A i \in 1..Len(Tail(s)) : Tail(s)[i] = s[i+1] /\ i + 1 \in 1..Len(s)
  BY TailOf, SMTT(30)
<1>2. Head(s) = s[1] /\ 1 \in 1..Len(s)
  BY SMTT(30)
<1>3. Sorted(Tail(s))
  BY <1>1, SMTT(30) DEF Sorted
<1>4. \A i \in 1..Len(s) : s[i].id \in Nat
  BY SMTT(30)
<1>5. Distinct(s)
  BY <1>4, SMTT(30) DEF Sorted, Distinct
<1>6. DOMAIN Tail(s) = 1..Len(Tail(s))
  BY SMTT(30)
<1>7. \A e \in Range(Tail(s)) : Head(s).id < e.id
  BY <1>1, <1>2, <1>6, SMTT(30) DEF Sorted, Range
<1>8. QED
  BY <1>3, <1>5, <1>7

(* Appending a later delivery keeps a queue in receive order.               *)
LEMMA SortedAppend ==
  ASSUME NEW S, NEW s \in Seq(S), NEW e \in S, Sorted(s),
         \A x \in Range(s) : x.id < e.id
  PROVE  Sorted(Append(s, e))
<1>1. \A i \in 1..Len(s)+1 : Append(s, e)[i] = IF i = Len(s)+1 THEN e ELSE s[i]
  BY SMTT(30)
<1>2. Len(Append(s, e)) = Len(s) + 1 /\ Len(s) \in Nat /\ DOMAIN s = 1..Len(s)
  BY SMTT(30)
<1>3. \A i \in 1..Len(s) : s[i].id < e.id
  BY <1>2 DEF Range
<1>4. QED
  BY <1>1, <1>2, <1>3, SMTT(30) DEF Sorted

LEMMA DistinctAppend ==
  ASSUME NEW S, NEW s \in Seq(S), NEW e \in S, Distinct(s),
         \A x \in Range(s) : x.id # e.id
  PROVE  Distinct(Append(s, e))
<1>1. \A i \in 1..Len(s)+1 : Append(s, e)[i] = IF i = Len(s)+1 THEN e ELSE s[i]
  BY SMTT(30)
<1>2. Len(Append(s, e)) = Len(s) + 1 /\ Len(s) \in Nat /\ DOMAIN s = 1..Len(s)
  BY SMTT(30)
<1>3. \A i \in 1..Len(s) : s[i].id # e.id
  BY <1>2 DEF Range
<1>4. QED
  BY <1>1, <1>2, <1>3, SMTT(30) DEF Distinct

-----------------------------------------------------------------------------
(* Counting deliveries by their receive numbers.                            *)

LEMMA IdsOfAdd ==
  ASSUME NEW T, NEW x
  PROVE  IdsOf(T \cup {x}) = IdsOf(T) \cup {x.id}
BY DEF IdsOf

LEMMA IdsOfRemove ==
  ASSUME NEW T, NEW U \in SUBSET T, \A t, u \in T : t.id = u.id => t = u
  PROVE  IdsOf(T \ U) = IdsOf(T) \ IdsOf(U)
BY DEF IdsOf

LEMMA CountByIds ==
  ASSUME NEW T, NEW n \in Nat,
         \A t \in T : t.id \in 1..n,
         \A t, u \in T : t.id = u.id => t = u
  PROVE  IsFiniteSet(T) /\ Cardinality(IdsOf(T)) = Cardinality(T)
<1> DEFINE f == [t \in T |-> t.id]
<1>1. IsFiniteSet(1..n)
  BY FS_Interval, SMTT(30)
<1>2. f \in Injection(T, 1..n)
  BY DEF Injection, IsInjective
<1>3. IsFiniteSet(T)
  BY <1>1, <1>2, FS_Injection
<1>4. f \in Bijection(T, IdsOf(T))
  BY DEF Bijection, Injection, Surjection, IsInjective, IdsOf
<1>5. ExistsBijection(T, IdsOf(T))
  BY <1>4 DEF ExistsBijection
<1>6. QED
  BY <1>3, <1>5, FS_Bijection

LEMMA HeldFinite ==
  ASSUME TypeOK, AdmittedLast
  PROVE  IsFiniteSet(Held) /\ Held \subseteq 1..received
<1>1. Held \subseteq 1..received
  BY DEF Held, AdmittedLast, Holders, Pending
<1>2. IsFiniteSet(1..received)
  <2>1. received \in Int
    BY ConstantsAssumption, SMTT(30) DEF TypeOK
  <2>2. QED
    BY <2>1, FS_Interval, SMTT(30)
<1>3. QED
  BY <1>1, <1>2, FS_Subset

-----------------------------------------------------------------------------
(* Flow control.                                                            *)

FlowInv ==
  /\ flowOn \in BOOLEAN
  /\ unfinished \in [Keys -> Nat]
  /\ paused \subseteq Keys
  /\ changes \in Seq(FlowChange)
  /\ FlowConfigured
  /\ PausedWhileLoaded

(* Counting a delivery pauses its key exactly when it reaches the limit.    *)
LEMMA FlowAddKeeps ==
  ASSUME FlowInv, NEW k \in Keys, FlowAdd(k)
  PROVE  FlowInv'
<1>1. /\ flowOn' \in BOOLEAN
      /\ unfinished' \in [Keys -> Nat]
      /\ paused' \subseteq Keys
  BY SMTT(30) DEF FlowInv, FlowAdd
<1>2. changes' \in Seq(FlowChange)
  <2>1. [op |-> "pause", key |-> k] \in FlowChange
    BY DEF FlowChange
  <2>2. Append(changes, [op |-> "pause", key |-> k]) \in Seq(FlowChange)
    BY <2>1, AppendOf DEF FlowInv
  <2>3. QED
    BY <2>2 DEF FlowInv, FlowAdd
<1>3. FlowConfigured'
  BY DEF FlowInv, FlowAdd, FlowConfigured
<1>4. PausedWhileLoaded'
  <2> SUFFICES ASSUME flowOn', NEW j \in Keys
               PROVE  IF j \in paused' THEN unfinished'[j] > Limit \div 2
                      ELSE unfinished'[j] < Limit
    BY DEF PausedWhileLoaded
  <2>1. flowOn /\ Limit \in Nat
    BY ConstantsAssumption DEF FlowAdd
  <2>2. CASE j # k
    BY <2>1, <2>2 DEF FlowInv, FlowAdd, PausedWhileLoaded
  <2>3. CASE j = k
    <3>1. unfinished[k] \in Nat /\ unfinished'[k] = unfinished[k] + 1
      BY DEF FlowInv, FlowAdd
    <3>2. IF k \in paused THEN unfinished[k] > Limit \div 2 ELSE unfinished[k] < Limit
      BY <2>1 DEF FlowInv, PausedWhileLoaded
    <3>3. Limit \div 2 \in Nat /\ Limit > 0 => Limit \div 2 < Limit
      BY <2>1, SMTT(30)
    <3>4. Limit > 0
      BY <2>1 DEF FlowInv, FlowConfigured
    <3>5. CASE unfinished[k] + 1 >= Limit /\ k \notin paused
      <4>1. k \in paused'
        BY <3>5 DEF FlowAdd
      <4>2. QED
        BY <4>1, <3>1, <3>2, <3>3, <3>4, <3>5, <2>1, <2>3, SMTT(30)
    <3>6. CASE ~(unfinished[k] + 1 >= Limit /\ k \notin paused)
      <4>1. paused' = paused
        BY <3>6 DEF FlowAdd
      <4>2. QED
        BY <4>1, <3>1, <3>2, <3>3, <3>4, <3>6, <2>1, <2>3, SMTT(30)
    <3>7. QED
      BY <3>5, <3>6
  <2>4. QED
    BY <2>2, <2>3
<1>5. QED
  BY <1>1, <1>2, <1>3, <1>4 DEF FlowInv

(* Releasing a delivery resumes its key exactly when it falls to half the   *)
(* limit.                                                                   *)
LEMMA ReleaseKeeps ==
  ASSUME FlowInv, NEW k \in MaybeKey, Release(k)
  PROVE  FlowInv'
<1>1. CASE UNCHANGED flowVars
  BY <1>1 DEF FlowInv, flowVars, FlowConfigured, PausedWhileLoaded
<1>2. CASE Counts(k) /\ FlowRemove(k)
  <2>1. k \in Keys /\ flowOn
    BY <1>2 DEF Counts, MaybeKey
  <2>2. /\ flowOn' \in BOOLEAN
        /\ unfinished' \in [Keys -> Nat]
        /\ paused' \subseteq Keys
    BY <1>2, <2>1, SMTT(30) DEF FlowInv, FlowRemove
  <2>3. changes' \in Seq(FlowChange)
    <3>1. [op |-> "resume", key |-> k] \in FlowChange
      BY <2>1 DEF FlowChange
    <3>2. Append(changes, [op |-> "resume", key |-> k]) \in Seq(FlowChange)
      BY <3>1, AppendOf DEF FlowInv
    <3>3. QED
      BY <1>2, <3>2 DEF FlowInv, FlowRemove
  <2>4. FlowConfigured'
    BY <1>2 DEF FlowInv, FlowRemove, FlowConfigured
  <2>5. PausedWhileLoaded'
    <3> SUFFICES ASSUME NEW j \in Keys
                 PROVE  IF j \in paused' THEN unfinished'[j] > Limit \div 2
                        ELSE unfinished'[j] < Limit
      BY DEF PausedWhileLoaded
    <3>1. Limit \in Nat /\ Limit > 0 /\ Limit \div 2 < Limit
      BY <2>1, ConstantsAssumption, SMTT(30) DEF FlowInv, FlowConfigured
    <3>2. CASE j # k
      BY <1>2, <2>1, <3>2 DEF FlowInv, FlowRemove, PausedWhileLoaded
    <3>3. CASE j = k
      <4>1. unfinished[k] \in Nat /\ unfinished'[k] = unfinished[k] - 1
        BY <1>2, <2>1 DEF FlowInv, FlowRemove
      <4>2. IF k \in paused THEN unfinished[k] > Limit \div 2 ELSE unfinished[k] < Limit
        BY <2>1 DEF FlowInv, PausedWhileLoaded
      <4>3. CASE unfinished[k] - 1 <= Limit \div 2 /\ k \in paused
        <5>1. k \notin paused'
          BY <1>2, <4>3 DEF FlowRemove
        <5>2. QED
          BY <5>1, <4>1, <4>2, <4>3, <3>1, <3>3, SMTT(30)
      <4>4. CASE ~(unfinished[k] - 1 <= Limit \div 2 /\ k \in paused)
        <5>1. paused' = paused
          BY <1>2, <4>4 DEF FlowRemove
        <5>2. QED
          BY <5>1, <4>1, <4>2, <4>4, <3>1, <3>3, SMTT(30)
      <4>5. QED
        BY <4>3, <4>4
    <3>4. QED
      BY <3>2, <3>3
  <2>6. QED
    BY <2>2, <2>3, <2>4, <2>5 DEF FlowInv
<1>3. QED
  BY <1>1, <1>2 DEF Release

-----------------------------------------------------------------------------
(* Where deliveries are.  PlaceInv is the part of the invariant about the   *)
(* queues; FlowInv the part about flow control; the counter relates to the  *)
(* first through Held.                                                      *)

PlaceType ==
  /\ ready \in Seq(Ticket)
  /\ DOMAIN waiting \subseteq Lanes
  /\ waiting \in [DOMAIN waiting -> Seq(Ticket)]
  /\ admitted \in Seq(Admission)
  /\ running \subseteq Ticket
  /\ lost \subseteq Ticket
  /\ received \in 0..MaxDeliveries
  /\ lastStarted \in [Lanes -> Nat]
  /\ discarded \in BOOLEAN

PlaceInv ==
  /\ PlaceType
  /\ AdmittedLast
  /\ OnePlace
  /\ LaneQueues
  /\ NoStrandedLane
  /\ StartedFirst

(* The admissions and tickets the scheduler accounts for.                   *)
Items == Range(admitted) \cup Holders \cup Queued

LEMMA InvParts ==
  SchedulerInv <=> PlaceInv /\ FlowInv /\ outstanding \in Int /\ OutstandingExact
BY DEF SchedulerInv, TypeOK, PlaceInv, PlaceType, FlowInv

LEMMA ElementTypes ==
  ASSUME PlaceType
  PROVE  /\ Range(ready) \subseteq Ticket
         /\ Range(admitted) \subseteq Admission
         /\ Queued \subseteq Ticket
         /\ \A l \in DOMAIN waiting : Range(waiting[l]) \subseteq Ticket
         /\ Holders \subseteq Ticket
         /\ \A t \in Ticket : t.id \in Nat /\ t.lane \in MaybeLane /\ t.flow \in MaybeKey
         /\ \A a \in Admission : a.id \in Nat /\ a.flow \in MaybeKey
<1>1. \A S : \A s \in Seq(S) : Range(s) \subseteq S
  BY SMTT(30) DEF Range
<1>2. Range(ready) \subseteq Ticket
  BY <1>1 DEF PlaceType
<1>3. Range(admitted) \subseteq Admission
  BY <1>1 DEF PlaceType
<1>4. \A l \in DOMAIN waiting : Range(waiting[l]) \subseteq Ticket
  BY <1>1 DEF PlaceType
<1>5. QED
  BY <1>2, <1>3, <1>4 DEF Queued, Holders, PlaceType, Ticket, Admission

(* No two of them have the same receive number.                             *)
LEMMA ItemsApart ==
  ASSUME PlaceInv
  PROVE  /\ \A x \in Items : x.id \in 1..received /\ x.flow \in MaybeKey
         /\ \A x, y \in Items : x.id = y.id => x = y
         /\ Range(admitted) \cap (Holders \cup Queued) = {}
<1>1. /\ \A x \in Items : x.flow \in MaybeKey /\ x.id \in Nat
      /\ admitted \in Seq(Admission) /\ \A a \in Admission : a.id \in Nat
  BY ElementTypes DEF PlaceInv, PlaceType, Items
<1>2. \A x \in Items : x.id \in 1..received
  BY DEF PlaceInv, AdmittedLast, Items
<1>3. \A t \in Holders \cup Queued, a \in Range(admitted) : t.id # a.id
  BY <1>1, SMTT(30) DEF PlaceInv, AdmittedLast, Items
<1>4. \A i, j \in 1..Len(admitted) : admitted[i].id = admitted[j].id => i = j
  BY <1>1, SMTT(30) DEF PlaceInv, AdmittedLast, Sorted
<1>5. \A a, b \in Range(admitted) : a.id = b.id => a = b
  BY <1>1, <1>4, SMTT(30) DEF Range
<1>6. \A t, u \in Holders \cup Queued : t.id = u.id => t = u
  BY DEF PlaceInv, OnePlace
<1> QED
  BY <1>1, <1>2, <1>3, <1>5, <1>6 DEF Items

(* Held, by the places deliveries can be in.                                *)
LEMMA HeldIds ==
  /\ Held = IdsOf(Range(admitted)) \cup IdsOf(Holders \cup Queued)
  /\ Held' = IdsOf(Range(admitted)') \cup IdsOf((Holders \cup Queued)')
<1>1. Pending \cup running \cup lost = Holders \cup Queued
  BY DEF Pending, Holders
<1>2. (Pending \cup running \cup lost)' = (Holders \cup Queued)'
  BY DEF Pending, Holders
<1>3. QED
  BY <1>1, <1>2 DEF Held, IdsOf

(* The effect of taking the oldest admission.                               *)
LEMMA AdmittedHead ==
  ASSUME PlaceInv, admitted # <<>>
  PROVE  /\ Head(admitted) \in Admission
         /\ Head(admitted) \in Range(admitted)
         /\ Tail(admitted) \in Seq(Admission)
         /\ Sorted(Tail(admitted))
         /\ Range(Tail(admitted)) = Range(admitted) \ {Head(admitted)}
         /\ \A a \in Range(Tail(admitted)) : Head(admitted).id < a.id
         /\ ~discarded
<1>1. admitted \in Seq(Admission) /\ Sorted(admitted)
  BY DEF PlaceInv, PlaceType, AdmittedLast
<1>2. \A a \in Admission : a.id \in Nat
  BY DEF Admission
<1>3. Distinct(admitted) /\ Sorted(Tail(admitted))
      /\ \A a \in Range(Tail(admitted)) : Head(admitted).id < a.id
  BY <1>1, <1>2, SortedTail
<1>4. Range(Tail(admitted)) = Range(admitted) \ {Head(admitted)}
  BY <1>1, <1>3, DistinctTail
<1>5. Head(admitted) \in Admission /\ Tail(admitted) \in Seq(Admission)
  BY <1>1, TailOf
<1>6. Head(admitted) \in Range(admitted)
  BY <1>1, RangeHeadTail
<1>7. ~discarded
  BY DEF PlaceInv, LaneQueues
<1>8. QED
  BY <1>3, <1>4, <1>5, <1>6, <1>7

-----------------------------------------------------------------------------
LEMMA AdmitPlaces ==
  ASSUME PlaceInv, NEW k \in MaybeKey, Admit(k)
  PROVE  /\ PlaceInv'
         /\ Held' = Held \cup {received + 1}
         /\ Items' = Items \cup {[id |-> received + 1, flow |-> IF Counts(k) THEN k ELSE NoKey]}
<1> DEFINE a == [id |-> received + 1, flow |-> IF Counts(k) THEN k ELSE NoKey]
<1>1. received \in Nat /\ received + 1 \in 1..MaxDeliveries
  BY ConstantsAssumption, SMTT(30) DEF PlaceInv, PlaceType, Admit
<1>2. a \in Admission
  BY <1>1, SMTT(30) DEF Admission, MaybeKey
<1>3. admitted' = Append(admitted, a) /\ admitted \in Seq(Admission)
  BY DEF Admit, PlaceInv, PlaceType
<1>4. Range(admitted') = Range(admitted) \cup {a} /\ admitted' \in Seq(Admission)
  BY <1>2, <1>3, RangeAppend, AppendOf, SMTT(30)
<1>5. UNCHANGED <<ready, waiting, running, lost, lastStarted, discarded>>
      /\ received' = received + 1 /\ ~discarded
  BY DEF Admit, Active
<1>6. UNCHANGED <<Range(ready), Queued, Holders>>
  BY <1>5 DEF Queued, Holders
<1>7. PlaceType'
  BY <1>1, <1>4, <1>5, SMTT(30) DEF PlaceInv, PlaceType
<1>8. AdmittedLast'
  <2>1. Sorted(admitted')
    <3>1. \A x \in Range(admitted) : x.id < a.id
      BY <1>1, SMTT(30) DEF PlaceInv, AdmittedLast
    <3>2. QED
      BY <1>2, <1>3, <3>1, SortedAppend DEF PlaceInv, AdmittedLast
  <2>2. \A x \in Range(admitted') : x.id \in 1..received'
    BY <1>1, <1>4, <1>5, SMTT(30) DEF PlaceInv, AdmittedLast
  <2>3. \A t \in Holders \cup Queued :
          t.id \in 1..received' /\ \A x \in Range(admitted') : t.id < x.id
    BY <1>1, <1>4, <1>5, SMTT(30) DEF PlaceInv, AdmittedLast
  <2>4. QED
    BY <2>1, <2>2, <2>3, <1>6 DEF AdmittedLast
<1>9. OnePlace'
  BY <1>5, <1>6 DEF PlaceInv, OnePlace
<1>10. LaneQueues'
  BY <1>5, <1>6 DEF PlaceInv, LaneQueues
<1>11. NoStrandedLane'
  BY <1>5, <1>6 DEF PlaceInv, NoStrandedLane
<1>12. StartedFirst'
  BY <1>1, <1>4, <1>5, <1>6, SMTT(30) DEF PlaceInv, StartedFirst, PlaceType
<1>13. Held' = Held \cup {received + 1}
  <2>1. IdsOf(Range(admitted')) = IdsOf(Range(admitted)) \cup {a.id}
    BY <1>4, IdsOfAdd
  <2>2. QED
    BY <2>1, <1>6, HeldIds
<1>14. Items' = Items \cup {a}
  BY <1>4, <1>6 DEF Items
<1> QED
  BY <1>7, <1>8, <1>9, <1>10, <1>11, <1>12, <1>13, <1>14 DEF PlaceInv

-----------------------------------------------------------------------------
(* push behind the holder of a lane.                                        *)
LEMMA PushBehind ==
  ASSUME PlaceInv, NEW l \in MaybeLane, Push(l), l \in DOMAIN waiting
  PROVE  /\ PlaceInv' /\ Held' = Held
         /\ admitted # <<>> /\ Head(admitted) \in Items
         /\ Items' = (Items \ {Head(admitted)})
                      \cup {[id |-> Head(admitted).id, lane |-> l, flow |-> Head(admitted).flow]}
<1> DEFINE a == Head(admitted)
           t == [id |-> a.id, lane |-> l, flow |-> a.flow]
<1>1. /\ admitted # <<>>
      /\ admitted' = Tail(admitted)
      /\ waiting' = [waiting EXCEPT ![l] = Append(@, t)]
      /\ UNCHANGED <<ready, running, lost, received, lastStarted, discarded>>
  BY DEF Push
<1>2. /\ a \in Admission
      /\ a \in Range(admitted)
      /\ Tail(admitted) \in Seq(Admission)
      /\ Sorted(Tail(admitted))
      /\ Range(Tail(admitted)) = Range(admitted) \ {a}
      /\ \A x \in Range(Tail(admitted)) : a.id < x.id
      /\ ~discarded
  BY <1>1, AdmittedHead
<1>3. t \in Ticket
  BY <1>2 DEF Ticket, Admission
<1>4. waiting[l] \in Seq(Ticket) /\ l \in Lanes /\ l # NoLane
  BY ConstantsAssumption DEF PlaceInv, PlaceType
<1>5. Range(Append(waiting[l], t)) = Range(waiting[l]) \cup {t}
      /\ Append(waiting[l], t) \in Seq(Ticket)
  BY <1>3, <1>4, RangeAppend, AppendOf, SMTT(30)
<1>6. /\ DOMAIN waiting' = DOMAIN waiting
      /\ waiting'[l] = Append(waiting[l], t)
      /\ \A m \in DOMAIN waiting : m # l => waiting'[m] = waiting[m]
  BY <1>1 DEF PlaceInv, PlaceType
<1>7. Queued' = Queued \cup {t}
  BY <1>5, <1>6 DEF Queued
<1>8. Holders' = Holders /\ Range(ready)' = Range(ready)
  BY <1>1 DEF Holders
<1>9. \A u \in Holders \cup Queued : u.id < t.id
  BY <1>2 DEF PlaceInv, AdmittedLast
<1>10. PlaceType'
  BY <1>1, <1>2, <1>5, <1>6 DEF PlaceInv, PlaceType
<1>11. AdmittedLast'
  <2>1. a.id \in 1..received
    BY <1>2 DEF PlaceInv, AdmittedLast
  <2>2. QED
    BY <1>1, <1>2, <1>7, <1>8, <2>1, SMTT(30) DEF PlaceInv, AdmittedLast
<1>12. OnePlace'
  <2>1. t.id \in Nat /\ \A u \in Holders \cup Queued : u.id \in Nat
    BY <1>3, ElementTypes DEF PlaceInv
  <2>2. QED
    BY <1>1, <1>7, <1>8, <1>9, <2>1, SMTT(30) DEF PlaceInv, OnePlace
<1>13. LaneQueues'
  <2>1. Sorted(Append(waiting[l], t))
    <3>1. \A x \in Range(waiting[l]) : x.id < t.id
      BY <1>9 DEF Queued
    <3>2. QED
      BY <1>3, <1>4, <3>1, SortedAppend DEF PlaceInv, LaneQueues
  <2>2. ASSUME NEW m \in DOMAIN waiting'
        PROVE  /\ Sorted(waiting'[m])
               /\ \A u \in Range(waiting'[m]) : u.lane = m
               /\ \A h \in Holders', u \in Range(waiting'[m]) : h.lane = m => h.id < u.id
    <3>1. CASE m # l
      BY <3>1, <1>6, <1>8 DEF PlaceInv, LaneQueues
    <3>2. CASE m = l
      <4>1. waiting'[m] = Append(waiting[l], t)
        BY <3>2, <1>6
      <4>2. \A u \in Range(waiting'[m]) : u = t \/ u \in Range(waiting[l])
        BY <4>1, <1>5
      <4>3. QED
        BY <3>2, <4>1, <4>2, <2>1, <1>8, <1>9, SMTT(30) DEF PlaceInv, LaneQueues
    <3>3. QED
      BY <3>1, <3>2
  <2>3. QED
    BY <2>2, <1>1, <1>2, <1>6, <1>8 DEF PlaceInv, LaneQueues
<1>14. NoStrandedLane'
  BY <1>1, <1>6, <1>8 DEF PlaceInv, NoStrandedLane
<1>15. StartedFirst'
  BY <1>1, <1>2, <1>7, <1>8, SMTT(30) DEF PlaceInv, StartedFirst
<1>16. Held' = Held
  <2>1. (Holders \cup Queued)' = (Holders \cup Queued) \cup {t}
    BY <1>7, <1>8
  <2>2. IdsOf((Holders \cup Queued)') = IdsOf(Holders \cup Queued) \cup {t.id}
    BY <2>1, IdsOfAdd
  <2>3. Range(admitted) = Range(admitted)' \cup {a}
    BY <1>1, <1>2
  <2>4. IdsOf(Range(admitted)) = IdsOf(Range(admitted)') \cup {a.id}
    BY <2>3, IdsOfAdd
  <2>5. QED
    BY <2>2, <2>4, HeldIds
<1>17. admitted # <<>> /\ a \in Items /\ Items' = (Items \ {a}) \cup {t}
  BY <1>1, <1>2, <1>7, <1>8, ItemsApart DEF Items
<1> QED
  BY <1>10, <1>11, <1>12, <1>13, <1>14, <1>15, <1>16, <1>17 DEF PlaceInv

(* push of a delivery that becomes ready and, if it has a lane, holds it.   *)
LEMMA PushReady ==
  ASSUME PlaceInv, NEW l \in MaybeLane, Push(l), l \notin DOMAIN waiting
  PROVE  /\ PlaceInv' /\ Held' = Held
         /\ admitted # <<>> /\ Head(admitted) \in Items
         /\ Items' = (Items \ {Head(admitted)})
                      \cup {[id |-> Head(admitted).id, lane |-> l, flow |-> Head(admitted).flow]}
<1> DEFINE a == Head(admitted)
           t == [id |-> a.id, lane |-> l, flow |-> a.flow]
<1>1. /\ admitted # <<>>
      /\ admitted' = Tail(admitted)
      /\ ready' = Append(ready, t)
      /\ UNCHANGED <<running, lost, received, lastStarted, discarded>>
  BY DEF Push
<1>2. /\ a \in Admission
      /\ a \in Range(admitted)
      /\ Tail(admitted) \in Seq(Admission)
      /\ Sorted(Tail(admitted))
      /\ Range(Tail(admitted)) = Range(admitted) \ {a}
      /\ \A x \in Range(Tail(admitted)) : a.id < x.id
      /\ ~discarded
  BY <1>1, AdmittedHead
<1>3. t \in Ticket
  BY <1>2 DEF Ticket, Admission
<1>4. ready \in Seq(Ticket)
  BY DEF PlaceInv, PlaceType
<1>5. Range(ready') = Range(ready) \cup {t} /\ ready' \in Seq(Ticket)
  BY <1>1, <1>3, <1>4, RangeAppend, AppendOf, SMTT(30)
<1>6. /\ DOMAIN waiting' = DOMAIN waiting \cup (IF l = NoLane THEN {} ELSE {l})
      /\ \A m \in DOMAIN waiting : waiting'[m] = waiting[m]
      /\ l # NoLane => waiting'[l] = <<>>
      /\ waiting' \in [DOMAIN waiting' -> Seq(Ticket)]
  <2>1. CASE l = NoLane
    BY <2>1 DEF Push, PlaceInv, PlaceType
  <2>2. CASE l # NoLane
    <3>1. waiting' = [m \in DOMAIN waiting \cup {l} |-> IF m = l THEN <<>> ELSE waiting[m]]
      BY <2>2 DEF Push
    <3>2. QED
      BY <2>2, <3>1, SMTT(30) DEF PlaceInv, PlaceType
  <2>3. QED
    BY <2>1, <2>2
<1>7. Queued' = Queued
  <2>1. Range(<<>>) = {}
    BY SMTT(30) DEF Range
  <2>2. QED
    BY <1>6, <2>1 DEF Queued
<1>8. Holders' = Holders \cup {t}
  BY <1>1, <1>5 DEF Holders
<1>9. \A u \in Holders \cup Queued : u.id < t.id /\ u.id # t.id
  <2>1. t.id \in Nat /\ \A u \in Holders \cup Queued : u.id \in Nat
    BY <1>3, ElementTypes DEF PlaceInv
  <2>2. QED
    BY <1>2, <2>1, SMTT(30) DEF PlaceInv, AdmittedLast
<1>10. PlaceType'
  BY <1>1, <1>2, <1>5, <1>6 DEF PlaceInv, PlaceType, MaybeLane
<1>11. AdmittedLast'
  <2>1. a.id \in 1..received
    BY <1>2 DEF PlaceInv, AdmittedLast
  <2>2. QED
    BY <1>1, <1>2, <1>7, <1>8, <2>1, SMTT(30) DEF PlaceInv, AdmittedLast
<1>12. OnePlace'
  <2>1. Distinct(ready')
    <3>1. \A x \in Range(ready) : x.id # t.id
      BY <1>9 DEF Holders
    <3>2. QED
      BY <1>1, <1>3, <1>4, <3>1, DistinctAppend DEF PlaceInv, OnePlace
  <2>2. t \notin Holders \cup Queued
    BY <1>9
  <2>3. QED
    BY <2>1, <2>2, <1>1, <1>5, <1>7, <1>8, <1>9, SMTT(30) DEF PlaceInv, OnePlace, Holders
<1>13. LaneQueues'
  <2>1. \A h \in Holders : h.lane # NoLane => h.lane # l
    BY <1>2 DEF PlaceInv, LaneQueues
  <2>2. \A h, u \in Holders' : h.lane = u.lane /\ h.lane # NoLane => h = u
    BY <2>1, <1>8, SMTT(30) DEF PlaceInv, LaneQueues
  <2>3. \A h \in Holders' : h.lane # NoLane => h.lane \in DOMAIN waiting'
    BY <1>2, <1>6, <1>8, SMTT(30) DEF PlaceInv, LaneQueues
  <2>4. ASSUME NEW m \in DOMAIN waiting'
        PROVE  /\ Sorted(waiting'[m])
               /\ \A u \in Range(waiting'[m]) : u.lane = m
               /\ \A h \in Holders', u \in Range(waiting'[m]) : h.lane = m => h.id < u.id
    <3>1. CASE m \in DOMAIN waiting
      BY <3>1, <1>6, <1>8, SMTT(30) DEF PlaceInv, LaneQueues
    <3>2. CASE m \notin DOMAIN waiting
      <4>1. waiting'[m] = <<>>
        BY <3>2, <1>6
      <4>2. Range(<<>>) = {} /\ Sorted(<<>>)
        BY SMTT(30) DEF Range, Sorted
      <4>3. QED
        BY <4>1, <4>2
    <3>3. QED
      BY <3>1, <3>2
  <2>5. QED
    BY <2>2, <2>3, <2>4, <1>1, <1>2 DEF LaneQueues
<1>14. NoStrandedLane'
  <2>1. \A m \in DOMAIN waiting : \E h \in Holders : h.lane = m
    BY DEF PlaceInv, NoStrandedLane, Holders
  <2>2. t \in Holders' /\ t.lane = l
    BY <1>8
  <2>3. \A m \in DOMAIN waiting' : \E h \in Holders' : h.lane = m
    BY <2>1, <2>2, <1>6, <1>8
  <2>4. QED
    BY <2>3 DEF NoStrandedLane, Holders
<1>15. StartedFirst'
  BY <1>1, <1>2, <1>5, <1>7, SMTT(30) DEF PlaceInv, StartedFirst
<1>16. Held' = Held
  <2>1. (Holders \cup Queued)' = (Holders \cup Queued) \cup {t}
    BY <1>7, <1>8
  <2>2. IdsOf((Holders \cup Queued)') = IdsOf(Holders \cup Queued) \cup {t.id}
    BY <2>1, IdsOfAdd
  <2>3. Range(admitted) = Range(admitted)' \cup {a}
    BY <1>1, <1>2
  <2>4. IdsOf(Range(admitted)) = IdsOf(Range(admitted)') \cup {a.id}
    BY <2>3, IdsOfAdd
  <2>5. QED
    BY <2>2, <2>4, HeldIds
<1>17. admitted # <<>> /\ a \in Items /\ Items' = (Items \ {a}) \cup {t}
  BY <1>1, <1>2, <1>7, <1>8, ItemsApart DEF Items
<1> QED
  BY <1>10, <1>11, <1>12, <1>13, <1>14, <1>15, <1>16, <1>17 DEF PlaceInv

-----------------------------------------------------------------------------
LEMMA WithdrawPlaces ==
  ASSUME PlaceInv, Withdraw
  PROVE  /\ PlaceInv'
         /\ Head(admitted).flow \in MaybeKey
         /\ Head(admitted).id \in Held
         /\ Held' = Held \ {Head(admitted).id}
         /\ Head(admitted) \in Items /\ Items' = Items \ {Head(admitted)}
<1> DEFINE a == Head(admitted)
<1>1. /\ admitted # <<>>
      /\ admitted' = Tail(admitted)
      /\ UNCHANGED <<ready, waiting, running, lost, received, lastStarted, discarded>>
  BY DEF Withdraw
<1>2. /\ a \in Admission
      /\ a \in Range(admitted)
      /\ Tail(admitted) \in Seq(Admission)
      /\ Sorted(Tail(admitted))
      /\ Range(Tail(admitted)) = Range(admitted) \ {a}
      /\ \A x \in Range(Tail(admitted)) : a.id < x.id
      /\ ~discarded
  BY <1>1, AdmittedHead
<1>3. UNCHANGED <<Range(ready), Queued, Holders>>
  BY <1>1 DEF Queued, Holders
<1>4. PlaceType'
  BY <1>1, <1>2 DEF PlaceInv, PlaceType
<1>5. AdmittedLast'
  BY <1>1, <1>2, <1>3 DEF PlaceInv, AdmittedLast
<1>6. OnePlace' /\ LaneQueues' /\ NoStrandedLane'
  BY <1>1, <1>2, <1>3 DEF PlaceInv, OnePlace, LaneQueues, NoStrandedLane
<1>7. StartedFirst'
  BY <1>1, <1>2, <1>3 DEF PlaceInv, StartedFirst
<1>8. a.id \in Held /\ a.flow \in MaybeKey
  BY <1>2, HeldIds DEF IdsOf, Admission
<1>9. Held' = Held \ {a.id}
  <2>1. IdsOf(Range(admitted)) = IdsOf(Range(admitted)') \cup {a.id}
    <3>1. Range(admitted) = Range(admitted)' \cup {a}
      BY <1>1, <1>2
    <3>2. QED
      BY <3>1, IdsOfAdd
  <2>2. a.id \in Nat /\ \A x \in Range(admitted)' \cup Holders \cup Queued : x.id \in Nat
    BY <1>1, <1>2, ElementTypes DEF PlaceInv, Admission
  <2>3. a.id \notin IdsOf(Range(admitted)')
    BY <1>1, <1>2, <2>2, SMTT(30) DEF IdsOf
  <2>4. a.id \notin IdsOf(Holders \cup Queued)
    BY <1>2, <2>2, SMTT(30) DEF IdsOf, PlaceInv, AdmittedLast
  <2>5. QED
    BY <2>1, <2>3, <2>4, <1>3, HeldIds
<1>10. a \in Items /\ Items' = Items \ {a}
  BY <1>1, <1>2, <1>3, ItemsApart, SMTT(30) DEF Items
<1> QED
  BY <1>4, <1>5, <1>6, <1>7, <1>8, <1>9, <1>10 DEF PlaceInv

-----------------------------------------------------------------------------
(* The effect of taking the first ready delivery.                           *)
LEMMA ReadyHead ==
  ASSUME PlaceInv, ready # <<>>
  PROVE  /\ Head(ready) \in Ticket
         /\ Head(ready) \in Range(ready)
         /\ Tail(ready) \in Seq(Ticket)
         /\ Distinct(Tail(ready))
         /\ Range(Tail(ready)) = Range(ready) \ {Head(ready)}
         /\ ~discarded
<1>1. ready \in Seq(Ticket) /\ Distinct(ready)
  BY DEF PlaceInv, PlaceType, OnePlace
<1>2. Distinct(Tail(ready)) /\ Range(Tail(ready)) = Range(ready) \ {Head(ready)}
  BY <1>1, DistinctTail
<1>3. Head(ready) \in Ticket /\ Tail(ready) \in Seq(Ticket)
  BY <1>1, TailOf
<1>4. Head(ready) \in Range(ready)
  BY <1>1, RangeHeadTail
<1>5. ~discarded
  BY DEF PlaceInv, LaneQueues
<1>6. QED
  BY <1>2, <1>3, <1>4, <1>5

LEMMA NextReadyPlaces ==
  ASSUME PlaceInv, NextReady
  PROVE  /\ PlaceInv'
         /\ Held' = Held /\ Items' = Items
         /\ \A l \in Lanes : lastStarted'[l] >= lastStarted[l]
<1> DEFINE t == Head(ready)
<1>1. /\ ready # <<>>
      /\ ready' = Tail(ready)
      /\ running' = running \cup {t}
      /\ lastStarted' = IF t.lane = NoLane THEN lastStarted
                        ELSE [lastStarted EXCEPT ![t.lane] = t.id]
      /\ UNCHANGED <<waiting, admitted, lost, received, discarded>>
  BY DEF NextReady
<1>2. /\ t \in Ticket
      /\ t \in Range(ready)
      /\ Tail(ready) \in Seq(Ticket)
      /\ Distinct(Tail(ready))
      /\ Range(Tail(ready)) = Range(ready) \ {t}
      /\ ~discarded
  BY <1>1, ReadyHead
<1>3. Holders' = Holders /\ Queued' = Queued
  BY <1>1, <1>2 DEF Holders, Queued
<1>4. t \in Holders /\ t.id \in Nat /\ t.lane \in MaybeLane
  BY <1>2 DEF Holders, Ticket
<1>5. lastStarted \in [Lanes -> Nat] /\ lastStarted' \in [Lanes -> Nat]
  BY <1>1, <1>4 DEF PlaceInv, PlaceType, MaybeLane
<1>6. PlaceType'
  BY <1>1, <1>2, <1>5 DEF PlaceInv, PlaceType
<1>7. AdmittedLast'
  BY <1>1, <1>3 DEF PlaceInv, AdmittedLast
<1>8. OnePlace'
  BY <1>1, <1>2, <1>3 DEF PlaceInv, OnePlace
<1>9. LaneQueues'
  BY <1>1, <1>2, <1>3 DEF PlaceInv, LaneQueues
<1>10. NoStrandedLane'
  <2>1. \A m \in DOMAIN waiting : \E h \in Holders : h.lane = m
    BY DEF PlaceInv, NoStrandedLane, Holders
  <2>2. \A m \in DOMAIN waiting' : \E h \in Holders' : h.lane = m
    BY <2>1, <1>1, <1>3
  <2>3. QED
    BY <2>2 DEF NoStrandedLane, Holders
<1>11. ASSUME NEW l \in Lanes, t.lane = l
       PROVE  /\ lastStarted'[l] = t.id
              /\ lastStarted[l] < t.id
              /\ t.id <= received
              /\ \A u \in Range(ready') \cup Queued : u.lane = l => t.id < u.id
              /\ \A a \in Range(admitted) : t.id < a.id
  <2>1. l # NoLane
    BY ConstantsAssumption
  <2>2. lastStarted'[l] = t.id
    BY <1>1, <1>5, <1>11, <2>1
  <2>3. lastStarted[l] < t.id
    BY <1>2, <1>11 DEF PlaceInv, StartedFirst
  <2>4. t.id <= received /\ \A a \in Range(admitted) : t.id < a.id
    BY <1>4, SMTT(30) DEF PlaceInv, AdmittedLast, PlaceType
  <2>5. \A u \in Range(ready') : u.lane # l
    <3>1. \A u \in Range(ready) : u \in Holders
      BY DEF Holders
    <3>2. QED
      BY <3>1, <1>1, <1>2, <1>4, <1>11, <2>1 DEF PlaceInv, LaneQueues
  <2>6. \A u \in Queued : u.lane = l => t.id < u.id
    BY <1>4, <1>11 DEF PlaceInv, LaneQueues, Queued
  <2>7. QED
    BY <2>2, <2>3, <2>4, <2>5, <2>6
<1>12. \A l \in Lanes : t.lane # l => lastStarted'[l] = lastStarted[l]
  BY <1>1, <1>5
<1>13. StartedFirst'
  <2> SUFFICES ASSUME NEW l \in Lanes
               PROVE  /\ lastStarted'[l] <= received
                      /\ \A u \in Range(ready') \cup Queued : u.lane = l => lastStarted'[l] < u.id
                      /\ \A a \in Range(admitted) : lastStarted'[l] < a.id
    BY <1>1, <1>3 DEF StartedFirst
  <2>1. CASE t.lane = l
    BY <2>1, <1>11
  <2>2. CASE t.lane # l
    BY <2>2, <1>1, <1>2, <1>12 DEF PlaceInv, StartedFirst
  <2>3. QED
    BY <2>1, <2>2
<1>14. Held' = Held
  BY <1>1, <1>3, HeldIds
<1>15. \A l \in Lanes : lastStarted'[l] >= lastStarted[l]
  BY <1>4, <1>5, <1>11, <1>12, SMTT(30)
<1>16. Items' = Items
  BY <1>1, <1>3 DEF Items
<1> QED
  BY <1>6, <1>7, <1>8, <1>9, <1>10, <1>13, <1>14, <1>15, <1>16 DEF PlaceInv

-----------------------------------------------------------------------------
(* A delivery that leaves the ready queue or the running jobs for good.     *)
Leaves(t, queue) ==
  /\ t \in Range(ready) \cup running
  /\ queue \in Seq(Ticket)
  /\ Distinct(queue)
  /\ Range(queue) = Range(ready) \ {t}
  /\ running' = running \ {t}
  /\ UNCHANGED <<admitted, lost, received, lastStarted, discarded>>

LEMMA LeaverHolds ==
  ASSUME PlaceInv, NEW t, NEW queue, Leaves(t, queue)
  PROVE  /\ t \in Holders /\ t \in Ticket /\ t.flow \in MaybeKey /\ t.id \in Held
         /\ Range(queue) \cup running' \cup lost' = Holders \ {t}
         /\ Range(queue) \cap (running' \cup lost') = {}
         /\ running' \cap lost' = {}
         /\ t \notin Queued
<1>1. t \in Holders
  BY DEF Leaves, Holders
<1>2. t \in Ticket
  BY <1>1, ElementTypes DEF PlaceInv
<1>3. t.id \in Held
  BY <1>1, HeldIds DEF IdsOf
<1>4. t \notin lost /\ t \notin Queued
  BY <1>1 DEF Leaves, PlaceInv, OnePlace
<1>5. Range(queue) \cup running' \cup lost' = Holders \ {t}
  BY <1>4 DEF Leaves, Holders
<1>6. /\ Range(queue) \cap (running' \cup lost') = {}
      /\ running' \cap lost' = {}
  BY DEF Leaves, PlaceInv, OnePlace
<1>7. QED
  BY <1>1, <1>2, <1>3, <1>4, <1>5, <1>6 DEF Ticket

(* The lane has nothing queued, or there is no lane: it disappears.         *)
LEMMA FinishLast ==
  ASSUME PlaceInv, NEW t, NEW queue, Leaves(t, queue), Finish(t, queue),
         t.lane \in DOMAIN waiting => waiting[t.lane] = <<>>
  PROVE  PlaceInv' /\ Held' = Held \ {t.id} /\ t \in Items /\ Items' = Items \ {t}
<1>1. /\ t \in Holders /\ t \in Ticket
      /\ Range(queue) \cup running' \cup lost' = Holders \ {t}
      /\ Range(queue) \cap (running' \cup lost') = {}
      /\ running' \cap lost' = {}
      /\ t \notin Queued
  BY LeaverHolds
<1>2. /\ queue \in Seq(Ticket)
      /\ Distinct(queue)
      /\ Range(queue) = Range(ready) \ {t}
      /\ running' = running \ {t}
      /\ UNCHANGED <<admitted, lost, received, lastStarted, discarded>>
  BY DEF Leaves
<1>3. /\ ready' = queue
      /\ DOMAIN waiting' = DOMAIN waiting \ {t.lane}
      /\ \A m \in DOMAIN waiting' : waiting'[m] = waiting[m]
      /\ waiting' \in [DOMAIN waiting' -> Seq(Ticket)]
  <2>1. CASE t.lane \notin DOMAIN waiting
    BY <2>1 DEF Finish, PlaceInv, PlaceType
  <2>2. CASE t.lane \in DOMAIN waiting
    <3>1. ready' = queue /\ waiting' = [m \in DOMAIN waiting \ {t.lane} |-> waiting[m]]
      BY <2>2 DEF Finish
    <3>2. QED
      BY <3>1 DEF PlaceInv, PlaceType
  <2>3. QED
    BY <2>1, <2>2
<1>4. Holders' = Holders \ {t}
  BY <1>1, <1>3 DEF Holders
<1>5. Queued' = Queued
  <2>1. t.lane \in DOMAIN waiting => Range(waiting[t.lane]) = {}
    BY SMTT(30) DEF Range
  <2>2. QED
    BY <1>3, <2>1, SMTT(30) DEF Queued
<1>6. PlaceType'
  BY <1>2, <1>3 DEF PlaceInv, PlaceType
<1>7. AdmittedLast'
  BY <1>2, <1>4, <1>5 DEF PlaceInv, AdmittedLast
<1>8. OnePlace'
  BY <1>1, <1>2, <1>3, <1>4, <1>5 DEF PlaceInv, OnePlace
<1>9. LaneQueues'
  <2>1. \A h \in Holders' : h.lane # NoLane => h.lane # t.lane
    BY <1>1, <1>4 DEF PlaceInv, LaneQueues
  <2>2. discarded => ready' = <<>>
    <3>1. SUFFICES ASSUME discarded PROVE ready' = <<>>
      OBVIOUS
    <3>2. Range(ready) = {}
      BY <3>1, SMTT(30) DEF PlaceInv, LaneQueues, Range
    <3>3. Range(queue) = {} /\ queue \in Seq(Ticket)
      BY <3>2, <1>2
    <3>4. queue = <<>>
      <4>1. SUFFICES ASSUME queue # <<>> PROVE FALSE
        OBVIOUS
      <4>2. Head(queue) \in Range(queue)
        BY <4>1, <3>3, RangeHeadTail
      <4>3. QED
        BY <4>2, <3>3
    <3>5. QED
      BY <3>4, <1>3
  <2>3. QED
    BY <2>1, <2>2, <1>2, <1>3, <1>4 DEF PlaceInv, LaneQueues
<1>10. NoStrandedLane'
  <2>1. \A m \in DOMAIN waiting : \E h \in Holders : h.lane = m
    BY DEF PlaceInv, NoStrandedLane, Holders
  <2>2. \A m \in DOMAIN waiting' : \E h \in Holders' : h.lane = m
    BY <2>1, <1>3, <1>4
  <2>3. QED
    BY <2>2 DEF NoStrandedLane, Holders
<1>11. StartedFirst'
  BY <1>2, <1>3, <1>5 DEF PlaceInv, StartedFirst
<1>12. Held' = Held \ {t.id}
  <2>1. (Holders \cup Queued)' = (Holders \cup Queued) \ {t}
    BY <1>1, <1>4, <1>5
  <2>2. IdsOf((Holders \cup Queued) \ {t}) = IdsOf(Holders \cup Queued) \ IdsOf({t})
    <3>1. {t} \in SUBSET (Holders \cup Queued)
      BY <1>1
    <3>2. \A h, u \in Holders \cup Queued : h.id = u.id => h = u
      BY DEF PlaceInv, OnePlace
    <3>3. QED
      BY <3>1, <3>2, IdsOfRemove
  <2>3. IdsOf({t}) = {t.id}
    BY DEF IdsOf
  <2>4. t.id \notin IdsOf(Range(admitted))
    BY <1>1, SMTT(30) DEF IdsOf, PlaceInv, AdmittedLast, Ticket
  <2>5. Range(admitted)' = Range(admitted)
    BY <1>2
  <2>6. QED
    BY <2>1, <2>2, <2>3, <2>4, <2>5, HeldIds
<1>13. t \in Items /\ Items' = Items \ {t}
  BY <1>1, <1>2, <1>4, <1>5, ItemsApart, SMTT(30) DEF Items
<1> QED
  BY <1>6, <1>7, <1>8, <1>9, <1>10, <1>11, <1>12, <1>13 DEF PlaceInv

(* The lane's next delivery becomes ready and holds the lane.               *)
LEMMA FinishNext ==
  ASSUME PlaceInv, NEW t, NEW queue, Leaves(t, queue), Finish(t, queue),
         t.lane \in DOMAIN waiting, waiting[t.lane] # <<>>
  PROVE  PlaceInv' /\ Held' = Held \ {t.id} /\ t \in Items /\ Items' = Items \ {t}
<1> DEFINE l == t.lane
           n == Head(waiting[l])
<1>1. /\ t \in Holders /\ t \in Ticket
      /\ Range(queue) \cup running' \cup lost' = Holders \ {t}
      /\ Range(queue) \cap (running' \cup lost') = {}
      /\ running' \cap lost' = {}
      /\ t \notin Queued
  BY LeaverHolds
<1>2. /\ queue \in Seq(Ticket)
      /\ Distinct(queue)
      /\ Range(queue) = Range(ready) \ {t}
      /\ running' = running \ {t}
      /\ UNCHANGED <<admitted, lost, received, lastStarted, discarded>>
  BY DEF Leaves
<1>3. /\ ready' = Append(queue, n)
      /\ waiting' = [waiting EXCEPT ![l] = Tail(@)]
  BY DEF Finish
<1>4. waiting[l] \in Seq(Ticket) /\ l \in Lanes /\ l # NoLane /\ ~discarded
  BY ConstantsAssumption DEF PlaceInv, PlaceType, LaneQueues
<1>5. /\ n \in Ticket
      /\ n \in Range(waiting[l])
      /\ Tail(waiting[l]) \in Seq(Ticket)
      /\ Sorted(Tail(waiting[l]))
      /\ Range(Tail(waiting[l])) = Range(waiting[l]) \ {n}
      /\ \A u \in Range(Tail(waiting[l])) : n.id < u.id
  <2>1. \A u \in Ticket : u.id \in Nat
    BY DEF Ticket
  <2>2. Sorted(waiting[l])
    BY DEF PlaceInv, LaneQueues
  <2>3. Distinct(waiting[l]) /\ Sorted(Tail(waiting[l]))
        /\ \A u \in Range(Tail(waiting[l])) : n.id < u.id
    BY <1>4, <2>1, <2>2, SortedTail
  <2>4. Range(Tail(waiting[l])) = Range(waiting[l]) \ {n}
    BY <1>4, <2>3, DistinctTail
  <2>5. n \in Ticket /\ Tail(waiting[l]) \in Seq(Ticket)
    BY <1>4, TailOf
  <2>6. n \in Range(waiting[l])
    BY <1>4, RangeHeadTail
  <2>7. QED
    BY <2>3, <2>4, <2>5, <2>6
<1>6. n.lane = l /\ n \in Queued /\ n \notin Holders
  BY <1>5, SMTT(30) DEF PlaceInv, LaneQueues, OnePlace, Queued
<1>7. Range(ready') = Range(queue) \cup {n} /\ ready' \in Seq(Ticket)
  BY <1>2, <1>3, <1>5, RangeAppend, AppendOf, SMTT(30)
<1>8. /\ DOMAIN waiting' = DOMAIN waiting
      /\ waiting'[l] = Tail(waiting[l])
      /\ \A m \in DOMAIN waiting : m # l => waiting'[m] = waiting[m]
      /\ waiting' \in [DOMAIN waiting' -> Seq(Ticket)]
  BY <1>3, <1>5 DEF PlaceInv, PlaceType
<1>9. Holders' = (Holders \ {t}) \cup {n}
  BY <1>1, <1>7 DEF Holders
<1>10. Queued' = Queued \ {n}
  <2>1. \A m \in DOMAIN waiting : m # l => n \notin Range(waiting[m])
    BY <1>6 DEF PlaceInv, LaneQueues
  <2>2. QED
    BY <2>1, <1>5, <1>8, SMTT(30) DEF Queued
<1>11. PlaceType'
  BY <1>2, <1>7, <1>8 DEF PlaceInv, PlaceType
<1>12. AdmittedLast'
  BY <1>2, <1>6, <1>9, <1>10 DEF PlaceInv, AdmittedLast
<1>13. OnePlace'
  <2>1. Distinct(ready')
    <3>1. \A x \in Range(queue) : x.id # n.id
      BY <1>1, <1>6, SMTT(30) DEF PlaceInv, OnePlace
    <3>2. QED
      BY <1>2, <1>3, <1>5, <3>1, DistinctAppend
  <2>2. Range(ready') \cap (running' \cup lost') = {}
    BY <1>1, <1>6, <1>7
  <2>3. (Holders \cup Queued)' \subseteq Holders \cup Queued
    BY <1>6, <1>9, <1>10
  <2>4. Holders' \cap Queued' = {}
    BY <1>9, <1>10 DEF PlaceInv, OnePlace
  <2>5. \A x, y \in (Holders \cup Queued)' : x.id = y.id => x = y
    BY <2>3 DEF PlaceInv, OnePlace
  <2>6. QED
    BY <2>1, <2>2, <2>4, <2>5, <1>1 DEF OnePlace
<1>14. LaneQueues'
  <2>1. \A h \in Holders \ {t} : h.lane # l
    BY <1>1, <1>4 DEF PlaceInv, LaneQueues
  <2>2. \A h, u \in Holders' : h.lane = u.lane /\ h.lane # NoLane => h = u
    BY <2>1, <1>6, <1>9 DEF PlaceInv, LaneQueues
  <2>3. \A h \in Holders' : h.lane # NoLane => h.lane \in DOMAIN waiting'
    BY <1>4, <1>6, <1>8, <1>9 DEF PlaceInv, LaneQueues
  <2>4. ASSUME NEW m \in DOMAIN waiting'
        PROVE  /\ Sorted(waiting'[m])
               /\ \A u \in Range(waiting'[m]) : u.lane = m
               /\ \A h \in Holders', u \in Range(waiting'[m]) : h.lane = m => h.id < u.id
    <3>1. CASE m # l
      BY <3>1, <1>6, <1>8, <1>9 DEF PlaceInv, LaneQueues
    <3>2. CASE m = l
      <4>1. Sorted(waiting'[m]) /\ Range(waiting'[m]) = Range(waiting[l]) \ {n}
        BY <3>2, <1>5, <1>8
      <4>2. \A u \in Range(waiting'[m]) : u.lane = m
        BY <3>2, <4>1 DEF PlaceInv, LaneQueues
      <4>3. \A h \in Holders', u \in Range(waiting'[m]) : h.lane = m => h.id < u.id
        BY <3>2, <4>1, <2>1, <1>5, <1>9
      <4>4. QED
        BY <4>1, <4>2, <4>3
    <3>3. QED
      BY <3>1, <3>2
  <2>5. QED
    BY <2>2, <2>3, <2>4, <1>2, <1>4 DEF LaneQueues
<1>15. NoStrandedLane'
  <2>1. \A m \in DOMAIN waiting : \E h \in Holders : h.lane = m
    BY DEF PlaceInv, NoStrandedLane, Holders
  <2>2. n \in Holders' /\ n.lane = l
    BY <1>6, <1>9
  <2>3. \A m \in DOMAIN waiting' : \E h \in Holders' : h.lane = m
    BY <2>1, <2>2, <1>8, <1>9
  <2>4. QED
    BY <2>3 DEF NoStrandedLane, Holders
<1>16. StartedFirst'
  <2>1. (Range(ready) \cup Queued)' \subseteq Range(ready) \cup Queued
    BY <1>2, <1>6, <1>7, <1>10
  <2>2. QED
    BY <2>1, <1>2 DEF PlaceInv, StartedFirst
<1>17. Held' = Held \ {t.id}
  <2>1. (Holders \cup Queued)' = (Holders \cup Queued) \ {t}
    BY <1>1, <1>6, <1>9, <1>10
  <2>2. IdsOf((Holders \cup Queued) \ {t}) = IdsOf(Holders \cup Queued) \ IdsOf({t})
    <3>1. {t} \in SUBSET (Holders \cup Queued)
      BY <1>1
    <3>2. \A h, u \in Holders \cup Queued : h.id = u.id => h = u
      BY DEF PlaceInv, OnePlace
    <3>3. QED
      BY <3>1, <3>2, IdsOfRemove
  <2>3. IdsOf({t}) = {t.id}
    BY DEF IdsOf
  <2>4. t.id \notin IdsOf(Range(admitted))
    BY <1>1, SMTT(30) DEF IdsOf, PlaceInv, AdmittedLast, Ticket
  <2>5. Range(admitted)' = Range(admitted)
    BY <1>2
  <2>6. QED
    BY <2>1, <2>2, <2>3, <2>4, <2>5, HeldIds
<1>18. t \in Items /\ Items' = Items \ {t}
  BY <1>1, <1>2, <1>6, <1>9, <1>10, ItemsApart, SMTT(30) DEF Items
<1> QED
  BY <1>11, <1>12, <1>13, <1>14, <1>15, <1>16, <1>17, <1>18 DEF PlaceInv

LEMMA FinishPlaces ==
  ASSUME PlaceInv, NEW t, NEW queue, Leaves(t, queue), Finish(t, queue)
  PROVE  /\ PlaceInv'
         /\ t.flow \in MaybeKey
         /\ t.id \in Held
         /\ Held' = Held \ {t.id}
         /\ t \in Items /\ Items' = Items \ {t}
BY LeaverHolds, FinishLast, FinishNext

-----------------------------------------------------------------------------
(* Failed and aborted tasks keep their places in the account.               *)
LEMMA LoseTicketPlaces ==
  ASSUME PlaceInv, NEW t \in running, LoseTicket(t)
  PROVE  PlaceInv' /\ Held' = Held /\ Items' = Items
<1>1. /\ running' = running \ {t}
      /\ lost' = lost \cup {t}
      /\ UNCHANGED <<ready, waiting, admitted, received, lastStarted, discarded>>
  BY DEF LoseTicket, schedVars
<1>2. Holders' = Holders /\ Queued' = Queued
  BY <1>1 DEF Holders, Queued
<1>3. PlaceType'
  BY <1>1 DEF PlaceInv, PlaceType
<1>4. AdmittedLast'
  BY <1>1, <1>2 DEF PlaceInv, AdmittedLast
<1>5. OnePlace'
  BY <1>1, <1>2 DEF PlaceInv, OnePlace
<1>6. LaneQueues'
  BY <1>1, <1>2 DEF PlaceInv, LaneQueues
<1>7. NoStrandedLane'
  BY <1>1, <1>2 DEF PlaceInv, NoStrandedLane, Holders
<1>8. StartedFirst'
  BY <1>1, <1>2 DEF PlaceInv, StartedFirst
<1>9. Held' = Held
  BY <1>1, <1>2, HeldIds
<1>10. Items' = Items
  BY <1>1, <1>2 DEF Items
<1> QED
  BY <1>3, <1>4, <1>5, <1>6, <1>7, <1>8, <1>9, <1>10 DEF PlaceInv

(* Admissions that leave with the task that decodes them.                   *)
AsLost(a) == [id |-> a.id, lane |-> NoLane, flow |-> a.flow]

LEMMA LoseAdmissionsPlaces ==
  ASSUME PlaceInv, NEW A \in SUBSET Range(admitted),
         admitted' \in Seq(Admission), Sorted(admitted'),
         Range(admitted') = Range(admitted) \ A,
         \A a \in A, b \in Range(admitted') : a.id < b.id,
         \A a, b \in A : a.id = b.id => a = b,
         running' \subseteq running,
         lost' = lost \cup (running \ running') \cup {AsLost(a) : a \in A},
         discarded => A = {} /\ admitted' = <<>>,
         UNCHANGED <<ready, waiting, received, lastStarted, discarded>>
  PROVE  /\ PlaceInv' /\ Held' = Held
         /\ Items' = (Items \ A) \cup {AsLost(a) : a \in A}
<1> DEFINE G == {AsLost(a) : a \in A}
<1>1. A \subseteq Admission /\ Holders \subseteq Ticket /\ Queued \subseteq Ticket
  BY ElementTypes DEF PlaceInv
<1>2. /\ G \subseteq Ticket
      /\ \A g \in G : g.lane = NoLane /\ \E a \in A : a.id = g.id /\ g = AsLost(a)
  BY <1>1, SMTT(30) DEF AsLost, Ticket, Admission, MaybeLane
<1>3. Holders' = Holders \cup G /\ Queued' = Queued
  BY DEF Holders, Queued
<1>4. \A g \in G, u \in Holders \cup Queued : u.id < g.id /\ u.id # g.id
  <2>1. \A a \in A, u \in Holders \cup Queued : u.id < a.id
    BY DEF PlaceInv, AdmittedLast
  <2>2. \A u \in Ticket : u.id \in Nat
    BY DEF Ticket
  <2>3. QED
    BY <1>1, <1>2, <2>1, <2>2, SMTT(30)
<1>5. PlaceType'
  BY <1>2 DEF PlaceInv, PlaceType
<1>6. AdmittedLast'
  <2>1. \A g \in G : g.id \in 1..received /\ \A b \in Range(admitted') : g.id < b.id
    BY <1>2 DEF PlaceInv, AdmittedLast
  <2>2. QED
    BY <1>3, <2>1 DEF PlaceInv, AdmittedLast
<1>7. OnePlace'
  <2>1. \A g, h \in G : g.id = h.id => g = h
    BY <1>2, SMTT(30)
  <2>2. \A t, u \in (Holders \cup Queued)' : t.id = u.id => t = u
    BY <2>1, <1>3, <1>4, SMTT(30) DEF PlaceInv, OnePlace
  <2>3. G \cap (Holders \cup Queued) = {}
    BY <1>4
  <2>4. running' \cap lost' = {} /\ Range(ready') \cap (running' \cup lost') = {}
    BY <2>3 DEF PlaceInv, OnePlace, Holders
  <2>5. Holders' \cap Queued' = {}
    BY <2>3, <1>3 DEF PlaceInv, OnePlace
  <2>6. QED
    BY <2>2, <2>4, <2>5 DEF PlaceInv, OnePlace
<1>8. LaneQueues'
  <2>1. \A l \in DOMAIN waiting : l # NoLane
    BY ConstantsAssumption DEF PlaceInv, PlaceType
  <2>2. QED
    BY <2>1, <1>2, <1>3, SMTT(30) DEF PlaceInv, LaneQueues
<1>9. NoStrandedLane'
  <2>1. \A m \in DOMAIN waiting : \E h \in Holders : h.lane = m
    BY DEF PlaceInv, NoStrandedLane, Holders
  <2>2. \A m \in DOMAIN waiting' : \E h \in Holders' : h.lane = m
    BY <2>1, <1>3
  <2>3. QED
    BY <2>2 DEF NoStrandedLane, Holders
<1>10. StartedFirst'
  BY <1>3 DEF PlaceInv, StartedFirst
<1>11. Held' = Held
  <2>1. IdsOf(G) = IdsOf(A)
    <3>1. \A a \in A : AsLost(a) \in G /\ AsLost(a).id = a.id
      BY DEF AsLost
    <3>2. \A a \in A : a.id \in IdsOf(G)
      BY <3>1 DEF IdsOf
    <3>3. \A g \in G : g.id \in IdsOf(A)
      BY <1>2 DEF IdsOf
    <3>4. QED
      BY <3>2, <3>3, SMTT(30) DEF IdsOf
  <2>2. IdsOf(Range(admitted)) = IdsOf(Range(admitted)') \cup IdsOf(A)
    BY DEF IdsOf
  <2>3. IdsOf((Holders \cup Queued)') = IdsOf(Holders \cup Queued) \cup IdsOf(G)
    BY <1>3 DEF IdsOf
  <2>4. QED
    BY <2>1, <2>2, <2>3, HeldIds
<1>12. Items' = (Items \ A) \cup G
  BY <1>3, ItemsApart DEF Items
<1> QED
  BY <1>5, <1>6, <1>7, <1>8, <1>9, <1>10, <1>11, <1>12 DEF PlaceInv

LEMMA LoseAdmissionPlaces ==
  ASSUME PlaceInv, LoseAdmission
  PROVE  /\ PlaceInv' /\ Held' = Held
         /\ \E A \in SUBSET Items : Items' = (Items \ A) \cup {AsLost(a) : a \in A}
<1> DEFINE a == Head(admitted)
<1>1. /\ admitted # <<>>
      /\ admitted' = Tail(admitted)
      /\ lost' = lost \cup {AsLost(a)}
      /\ UNCHANGED <<running, ready, waiting, received, lastStarted, discarded>>
  BY DEF LoseAdmission, AsLost, schedVars
<1>2. /\ a \in Range(admitted)
      /\ Tail(admitted) \in Seq(Admission)
      /\ Sorted(Tail(admitted))
      /\ Range(Tail(admitted)) = Range(admitted) \ {a}
      /\ \A x \in Range(Tail(admitted)) : a.id < x.id
      /\ ~discarded
  BY <1>1, AdmittedHead
<1>3. {a} \in SUBSET Range(admitted)
  BY <1>2
<1>4. lost' = lost \cup (running \ running') \cup {AsLost(x) : x \in {a}}
  BY <1>1
<1>5. /\ PlaceInv' /\ Held' = Held
      /\ Items' = (Items \ {a}) \cup {AsLost(x) : x \in {a}}
  BY <1>1, <1>2, <1>3, <1>4, LoseAdmissionsPlaces
<1>6. {a} \in SUBSET Items
  BY <1>2 DEF Items
<1> QED
  BY <1>5, <1>6

LEMMA AbortAllPlaces ==
  ASSUME PlaceInv, AbortAll
  PROVE  /\ PlaceInv' /\ Held' = Held
         /\ \E A \in SUBSET Items : Items' = (Items \ A) \cup {AsLost(a) : a \in A}
<1> DEFINE A == Range(admitted)
<1>1. /\ admitted' = <<>>
      /\ running' = {}
      /\ lost' = lost \cup running \cup {AsLost(x) : x \in A}
      /\ UNCHANGED <<ready, waiting, received, lastStarted, discarded>>
  BY DEF AbortAll, AsLost, schedVars
<1>2. Range(admitted') = {} /\ Sorted(admitted') /\ admitted' \in Seq(Admission)
  BY <1>1, SMTT(30) DEF Range, Sorted
<1>3. lost' = lost \cup (running \ running') \cup {AsLost(x) : x \in A}
  BY <1>1
<1>4. \A x, y \in A : x.id = y.id => x = y
  <2>1. DOMAIN admitted = 1..Len(admitted) /\ \A i \in DOMAIN admitted : admitted[i].id \in Nat
    <3>1. admitted \in Seq(Admission) /\ \A x \in Admission : x.id \in Nat
      BY DEF PlaceInv, PlaceType, Admission
    <3>2. QED
      BY <3>1, SMTT(30)
  <2>2. \A i, j \in DOMAIN admitted : admitted[i].id = admitted[j].id => i = j
    BY <2>1, SMTT(30) DEF PlaceInv, AdmittedLast, Sorted
  <2>3. QED
    BY <2>2 DEF Range
<1>5. discarded => A = {}
  BY SMTT(30) DEF PlaceInv, LaneQueues, Range
<1>6. A \in SUBSET Range(admitted) /\ Range(admitted') = Range(admitted) \ A
  BY <1>2
<1>7. /\ PlaceInv' /\ Held' = Held
      /\ Items' = (Items \ A) \cup {AsLost(x) : x \in A}
  BY <1>1, <1>2, <1>3, <1>4, <1>5, <1>6, LoseAdmissionsPlaces
<1>8. A \in SUBSET Items
  BY DEF Items
<1> QED
  BY <1>7, <1>8

-----------------------------------------------------------------------------
(* discard_pending.                                                         *)
LEMMA DiscardPlaces ==
  ASSUME PlaceInv, DiscardPending
  PROVE  /\ PlaceInv'
         /\ IsFiniteSet(Pending)
         /\ IdsOf(Pending) \subseteq Held
         /\ Cardinality(IdsOf(Pending)) = Cardinality(Pending)
         /\ Held' = Held \ IdsOf(Pending)
         /\ Pending \subseteq Items /\ Items' = Items \ Pending
<1>1. /\ admitted = <<>> /\ admitted' = <<>>
      /\ ready' = <<>>
      /\ waiting' = [l \in {} |-> <<>>]
      /\ discarded' = TRUE
      /\ UNCHANGED <<running, lost, received, lastStarted>>
  BY DEF DiscardPending
<1>2. Range(<<>>) = {} /\ Sorted(<<>>) /\ Distinct(<<>>)
  BY SMTT(30) DEF Range, Sorted, Distinct
<1>3. DOMAIN waiting' = {} /\ Queued' = {} /\ Holders' = running \cup lost
  BY <1>1, <1>2 DEF Queued, Holders
<1>4. Holders' \subseteq Holders
  BY <1>3 DEF Holders
<1>5. PlaceType'
  BY <1>1, <1>3, SMTT(30) DEF PlaceInv, PlaceType
<1>6. AdmittedLast'
  BY <1>1, <1>2, <1>3, <1>4 DEF PlaceInv, AdmittedLast
<1>7. OnePlace'
  BY <1>1, <1>2, <1>3, <1>4 DEF PlaceInv, OnePlace
<1>8. LaneQueues'
  BY <1>1, <1>3, <1>4 DEF PlaceInv, LaneQueues
<1>9. NoStrandedLane' /\ StartedFirst'
  BY <1>1, <1>2, <1>3 DEF PlaceInv, NoStrandedLane, StartedFirst
<1>10. Pending \subseteq Holders \cup Queued
  BY DEF Pending, Holders
<1>11. \A t, u \in Pending : t.id = u.id => t = u
  BY <1>10 DEF PlaceInv, OnePlace
<1>12. \A t \in Pending : t.id \in 1..received
  BY <1>10 DEF PlaceInv, AdmittedLast
<1>13. received \in Nat
  BY ConstantsAssumption, SMTT(30) DEF PlaceInv, PlaceType
<1>14. IsFiniteSet(Pending) /\ Cardinality(IdsOf(Pending)) = Cardinality(Pending)
  BY <1>11, <1>12, <1>13, CountByIds
<1>15. Held = IdsOf(Holders \cup Queued) /\ Held' = IdsOf(running \cup lost)
  <2>1. IdsOf({}) = {}
    BY DEF IdsOf
  <2>2. (Holders \cup Queued)' = running \cup lost
    BY <1>3
  <2>3. QED
    BY <2>1, <2>2, <1>1, <1>2, HeldIds
<1>16. Held' = Held \ IdsOf(Pending)
  <2>1. running \cup lost = (Holders \cup Queued) \ Pending
    BY DEF Holders, Pending, PlaceInv, OnePlace
  <2>2. Pending \in SUBSET (Holders \cup Queued)
    BY <1>10
  <2>3. \A t, u \in Holders \cup Queued : t.id = u.id => t = u
    BY DEF PlaceInv, OnePlace
  <2>4. QED
    BY <2>1, <2>2, <2>3, <1>15, IdsOfRemove
<1>17. IdsOf(Pending) \subseteq Held
  BY <1>10, <1>15 DEF IdsOf
<1>18. Pending \subseteq Items /\ Items' = Items \ Pending
  BY <1>1, <1>2, <1>3, <1>10 DEF Items, Pending, Holders, PlaceInv, OnePlace
<1> QED
  BY <1>5, <1>6, <1>7, <1>8, <1>9, <1>14, <1>16, <1>17, <1>18 DEF PlaceInv

LEMMA DiscardFlow ==
  ASSUME FlowInv, DiscardPending, IsFiniteSet(Pending)
  PROVE  FlowInv'
<1>1. \A k \in Keys : Dropped(k) \in Nat
  <2> SUFFICES ASSUME NEW k \in Keys PROVE Dropped(k) \in Nat
    OBVIOUS
  <2> DEFINE P == {t \in Pending : t.flow = k}
  <2>1. P \in SUBSET Pending
    OBVIOUS
  <2>2. IsFiniteSet(P)
    BY <2>1, FS_Subset
  <2>3. Cardinality(P) \in Nat
    BY <2>2, FS_CardinalityType
  <2>4. QED
    BY <2>3 DEF Dropped
<1>2. \A k \in Keys : unfinished[k] \in Nat
  BY DEF FlowInv
<1>3. \A k \in Keys : /\ Left(k) \in Nat
                      /\ Left(k) <= unfinished[k]
                      /\ Dropped(k) = 0 => Left(k) = unfinished[k]
  BY <1>1, <1>2, SMTT(30) DEF Left
<1>4. /\ flowOn' \in BOOLEAN
      /\ unfinished' \in [Keys -> Nat]
      /\ paused' \subseteq Keys
      /\ FlowConfigured'
  BY <1>3 DEF FlowInv, DiscardPending, FlowConfigured
<1>5. changes' \in Seq(FlowChange)
  <2>1. Resumed \subseteq Keys
    BY DEF FlowInv, Resumed
  <2>2. IsFiniteSet(Resumed)
    BY <2>1, ConstantsAssumption, FS_Subset
  <2>3. Cardinality(Resumed) \in Nat
    BY <2>2, FS_CardinalityType
  <2>4. PICK order \in Bijection(1..Cardinality(Resumed), Resumed) :
          changes' = changes \o [i \in 1..Cardinality(Resumed) |->
                                   [op |-> "resume", key |-> order[i]]]
    BY DEF DiscardPending
  <2> DEFINE more == [i \in 1..Cardinality(Resumed) |-> [op |-> "resume", key |-> order[i]]]
  <2>5. order \in [1..Cardinality(Resumed) -> Resumed]
    BY <2>4 DEF Bijection, Injection
  <2>7. more \in Seq(FlowChange)
    <3>1. \A i \in 1..Cardinality(Resumed) : order[i] \in Keys
      BY <2>1, <2>5
    <3>2. \A i \in 1..Cardinality(Resumed) : [op |-> "resume", key |-> order[i]] \in FlowChange
      BY <3>1 DEF FlowChange
    <3>3. more \in [1..Cardinality(Resumed) -> FlowChange]
      BY <3>2
    <3> HIDE DEF more
    <3>4. QED
      BY <2>3, <3>3, SequenceOf
  <2>8. changes \o more \in Seq(FlowChange)
    <3>1. changes \in Seq(FlowChange)
      BY DEF FlowInv
    <3> HIDE DEF more
    <3>2. QED
      BY <2>7, <3>1, ConcatOf
  <2>9. QED
    BY <2>4, <2>8
<1>6. PausedWhileLoaded'
  <2> SUFFICES ASSUME flowOn, NEW k \in Keys
               PROVE  IF k \in paused \ Resumed THEN Left(k) > Limit \div 2
                      ELSE Left(k) < Limit
    BY DEF PausedWhileLoaded, DiscardPending
  <2>1. /\ Limit \in Nat /\ Limit > 0 /\ Limit \div 2 \in Nat /\ Limit \div 2 < Limit
    BY ConstantsAssumption, SMTT(30) DEF FlowInv, FlowConfigured
  <2>2. IF k \in paused THEN unfinished[k] > Limit \div 2 ELSE unfinished[k] < Limit
    BY DEF FlowInv, PausedWhileLoaded
  <2>3. Left(k) \in Nat /\ Left(k) <= unfinished[k] /\ unfinished[k] \in Nat
        /\ Dropped(k) \in Nat /\ (Dropped(k) = 0 => Left(k) = unfinished[k])
    BY <1>1, <1>2, <1>3
  <2>4. CASE k \in Resumed
    <3>1. Left(k) <= Limit \div 2
      BY <2>4 DEF Resumed
    <3>2. QED
      BY <2>4, <3>1, <2>1, <2>3, SMTT(30)
  <2>5. CASE k \notin paused
    BY <2>5, <2>1, <2>2, <2>3, SMTT(30)
  <2>6. CASE k \in paused /\ k \notin Resumed
    <3>1. ~(Dropped(k) > 0 /\ unfinished[k] > 0 /\ Left(k) <= Limit \div 2)
      BY <2>6 DEF Resumed
    <3>2. QED
      BY <3>1, <2>6, <2>1, <2>2, <2>3, SMTT(30)
  <2>7. QED
    BY <2>4, <2>5, <2>6
<1>7. QED
  BY <1>4, <1>5, <1>6 DEF FlowInv

-----------------------------------------------------------------------------
(* The counter follows the set of deliveries held.                          *)
LEMMA CountAdd ==
  ASSUME TypeOK, AdmittedLast, OutstandingExact, NEW x, x \notin Held,
         Held' = Held \cup {x}, outstanding' = outstanding + 1
  PROVE  outstanding' \in Int /\ OutstandingExact'
<1>1. IsFiniteSet(Held)
  BY HeldFinite
<1>2. Cardinality(Held') = Cardinality(Held) + 1
  BY <1>1, FS_AddElement
<1>3. QED
  BY <1>2, SMTT(30) DEF OutstandingExact, TypeOK

LEMMA CountRemove ==
  ASSUME TypeOK, AdmittedLast, OutstandingExact, NEW x, x \in Held,
         Held' = Held \ {x}, outstanding' = outstanding - 1
  PROVE  outstanding' \in Int /\ OutstandingExact'
<1>1. IsFiniteSet(Held)
  BY HeldFinite
<1>2. Cardinality(Held') = Cardinality(Held) - 1
  BY <1>1, FS_RemoveElement
<1>3. QED
  BY <1>2, SMTT(30) DEF OutstandingExact, TypeOK

LEMMA CountSame ==
  ASSUME TypeOK, OutstandingExact, Held' = Held, outstanding' = outstanding
  PROVE  outstanding' \in Int /\ OutstandingExact'
BY DEF OutstandingExact, TypeOK

LEMMA FlowSame ==
  ASSUME FlowInv, UNCHANGED flowVars
  PROVE  FlowInv'
BY DEF FlowInv, flowVars, FlowConfigured, PausedWhileLoaded

LEMMA PlacesSame ==
  ASSUME PlaceInv, UNCHANGED <<ready, waiting, callerVars>>
  PROVE  PlaceInv' /\ Held' = Held /\ Items' = Items
<1>1. UNCHANGED <<Holders, Queued, Range(ready), Range(admitted)>>
  BY DEF callerVars, Holders, Queued
<1>2. PlaceType' /\ AdmittedLast' /\ OnePlace'
  BY <1>1 DEF PlaceInv, PlaceType, AdmittedLast, OnePlace, callerVars
<1>3. LaneQueues' /\ NoStrandedLane' /\ StartedFirst'
  BY <1>1 DEF PlaceInv, LaneQueues, NoStrandedLane, StartedFirst, callerVars
<1>4. Items' = Items
  BY <1>1 DEF Items
<1> QED
  BY <1>1, <1>2, <1>3, HeldIds, <1>4 DEF PlaceInv

LEMMA AbandonLeaves ==
  ASSUME PlaceInv, AbandonReady
  PROVE  Leaves(Head(ready), Tail(ready))
<1>1. /\ Head(ready) \in Range(ready)
      /\ Tail(ready) \in Seq(Ticket)
      /\ Distinct(Tail(ready))
      /\ Range(Tail(ready)) = Range(ready) \ {Head(ready)}
  BY ReadyHead DEF AbandonReady
<1>2. Head(ready) \notin running
  BY <1>1 DEF PlaceInv, OnePlace
<1>3. QED
  BY <1>1, <1>2 DEF Leaves, AbandonReady

LEMMA CompleteLeaves ==
  ASSUME PlaceInv, NEW t \in running, Complete(t)
  PROVE  Leaves(t, ready)
<1>1. t \notin Range(ready)
  BY DEF PlaceInv, OnePlace
<1>2. ready \in Seq(Ticket) /\ Distinct(ready)
  BY DEF PlaceInv, PlaceType, OnePlace
<1>3. QED
  BY <1>1, <1>2 DEF Leaves, Complete

-----------------------------------------------------------------------------
(* A new scheduler (Scheduler::new) satisfies the invariant.                *)
THEOREM InitInv == Init => SchedulerInv
<1> SUFFICES ASSUME Init PROVE SchedulerInv
  OBVIOUS
<1>1. Range(<<>>) = {} /\ Sorted(<<>>) /\ Distinct(<<>>)
  BY SMTT(30) DEF Range, Sorted, Distinct
<1>2. DOMAIN waiting = {} /\ Queued = {} /\ Holders = {} /\ Range(admitted) = {}
  BY <1>1 DEF Init, Queued, Holders
<1>3. PlaceType
  <2>1. waiting \in [DOMAIN waiting -> Seq(Ticket)] /\ DOMAIN waiting \subseteq Lanes
    BY <1>2 DEF Init
  <2>2. received \in 0..MaxDeliveries
    BY ConstantsAssumption, SMTT(30) DEF Init
  <2>3. ready \in Seq(Ticket) /\ admitted \in Seq(Admission)
    BY SMTT(30) DEF Init
  <2>4. QED
    BY <2>1, <2>2, <2>3 DEF Init, PlaceType
<1>4. AdmittedLast /\ OnePlace
  BY <1>1, <1>2 DEF Init, AdmittedLast, OnePlace
<1>5. LaneQueues /\ NoStrandedLane
  BY <1>1, <1>2 DEF Init, LaneQueues, NoStrandedLane
<1>6. StartedFirst
  BY <1>1, <1>2, SMTT(30) DEF Init, StartedFirst
<1>7. FlowInv
  <2>1. flowOn \in BOOLEAN
    <3>1. flowOn = (Limit > 0)
      BY DEF Init
    <3>2. CASE Limit > 0
      BY <3>1, <3>2
    <3>3. CASE ~(Limit > 0)
      BY <3>1, <3>3, SMTT(30)
    <3>4. QED
      BY <3>2, <3>3
  <2>2. flowOn => Limit > 0
    BY DEF Init
  <2>3. unfinished \in [Keys -> Nat] /\ paused \subseteq Keys /\ changes \in Seq(FlowChange)
    BY SMTT(30) DEF Init
  <2>4. PausedWhileLoaded
    BY <2>2, ConstantsAssumption DEF Init, PausedWhileLoaded
  <2>5. QED
    BY <2>1, <2>2, <2>3, <2>4 DEF FlowInv, FlowConfigured
<1>8. outstanding \in Int /\ OutstandingExact
  <2>1. Held = {}
    BY <1>2, HeldIds DEF IdsOf
  <2>2. QED
    BY <2>1, FS_EmptySet, SMTT(30) DEF Init, OutstandingExact
<1>9. QED
  BY <1>3, <1>4, <1>5, <1>6, <1>7, <1>8, InvParts DEF PlaceInv

(* Every call of the scheduler, and every step of its caller, preserves it. *)
THEOREM StepInv == SchedulerInv /\ [Next]_vars => SchedulerInv'
<1> SUFFICES ASSUME SchedulerInv, [Next]_vars PROVE SchedulerInv'
  OBVIOUS
<1>1. PlaceInv /\ FlowInv /\ OutstandingExact /\ TypeOK /\ AdmittedLast
  BY InvParts DEF SchedulerInv
<1> SUFFICES PlaceInv' /\ FlowInv' /\ outstanding' \in Int /\ OutstandingExact'
  <2>1. SchedulerInv' <=> (PlaceInv /\ FlowInv /\ outstanding \in Int /\ OutstandingExact)'
    BY InvParts DEF SchedulerInv, TypeOK, PlaceInv, PlaceType, FlowInv
  <2>2. QED
    BY <2>1
<1>2. ASSUME NEW k \in MaybeKey, Admit(k)
      PROVE  PlaceInv' /\ FlowInv' /\ outstanding' \in Int /\ OutstandingExact'
  <2>1. PlaceInv' /\ Held' = Held \cup {received + 1}
    BY <1>1, <1>2, AdmitPlaces
  <2>2. FlowInv'
    <3>1. CASE Counts(k)
      <4>1. k \in Keys /\ FlowAdd(k)
        BY <1>2, <3>1 DEF Counts, MaybeKey, Admit
      <4>2. QED
        BY <4>1, <1>1, FlowAddKeeps
    <3>2. CASE ~Counts(k)
      <4>1. UNCHANGED flowVars
        BY <1>2, <3>2 DEF Admit
      <4>2. QED
        BY <4>1, <1>1, FlowSame
    <3>3. QED
      BY <3>1, <3>2
  <2>3. received + 1 \notin Held
    <3>1. received \in Nat
      BY <1>1, ConstantsAssumption, SMTT(30) DEF TypeOK
    <3>2. QED
      BY <3>1, <1>1, HeldFinite, SMTT(30)
  <2>4. outstanding' = outstanding + 1
    BY <1>2 DEF Admit
  <2>5. QED
    BY <1>1, <2>1, <2>2, <2>3, <2>4, CountAdd
<1>3. ASSUME NEW l \in MaybeLane, Push(l)
      PROVE  PlaceInv' /\ FlowInv' /\ outstanding' \in Int /\ OutstandingExact'
  <2>1. PlaceInv' /\ Held' = Held
    BY <1>1, <1>3, PushBehind, PushReady
  <2>2. UNCHANGED flowVars /\ outstanding' = outstanding
    BY <1>3 DEF Push
  <2>3. QED
    BY <1>1, <2>1, <2>2, FlowSame, CountSame
<1>4. CASE Withdraw
  <2>1. /\ PlaceInv'
        /\ Head(admitted).flow \in MaybeKey
        /\ Head(admitted).id \in Held
        /\ Held' = Held \ {Head(admitted).id}
    BY <1>1, <1>4, WithdrawPlaces
  <2>2. Release(Head(admitted).flow) /\ outstanding' = outstanding - 1
    BY <1>4 DEF Withdraw
  <2>3. QED
    BY <1>1, <2>1, <2>2, ReleaseKeeps, CountRemove
<1>5. CASE NextReady
  <2>1. PlaceInv' /\ Held' = Held
    BY <1>1, <1>5, NextReadyPlaces
  <2>2. UNCHANGED flowVars /\ outstanding' = outstanding
    BY <1>5 DEF NextReady
  <2>3. QED
    BY <1>1, <2>1, <2>2, FlowSame, CountSame
<1>6. ASSUME NEW t, NEW queue, Leaves(t, queue), Finish(t, queue)
      PROVE  PlaceInv' /\ FlowInv' /\ outstanding' \in Int /\ OutstandingExact'
  <2>1. PlaceInv' /\ t.flow \in MaybeKey /\ t.id \in Held /\ Held' = Held \ {t.id}
    BY <1>1, <1>6, FinishPlaces
  <2>2. Release(t.flow) /\ outstanding' = outstanding - 1
    BY <1>6 DEF Finish
  <2>3. QED
    BY <1>1, <2>1, <2>2, ReleaseKeeps, CountRemove
<1>7. ASSUME NEW t \in running, Complete(t)
      PROVE  PlaceInv' /\ FlowInv' /\ outstanding' \in Int /\ OutstandingExact'
  <2>1. Leaves(t, ready) /\ Finish(t, ready)
    BY <1>1, <1>7, CompleteLeaves DEF Complete
  <2>2. QED
    BY <2>1, <1>6
<1>8. CASE AbandonReady
  <2>1. Leaves(Head(ready), Tail(ready)) /\ Finish(Head(ready), Tail(ready))
    BY <1>1, <1>8, AbandonLeaves DEF AbandonReady
  <2>2. QED
    BY <2>1, <1>6
<1>9. ASSUME NEW t \in running, LoseTicket(t)
      PROVE  PlaceInv' /\ FlowInv' /\ outstanding' \in Int /\ OutstandingExact'
  <2>1. UNCHANGED flowVars /\ outstanding' = outstanding
    BY <1>9 DEF LoseTicket, schedVars
  <2>2. QED
    BY <1>1, <1>9, <2>1, LoseTicketPlaces, FlowSame, CountSame
<1>10. CASE LoseAdmission
  <2>1. UNCHANGED flowVars /\ outstanding' = outstanding
    BY <1>10 DEF LoseAdmission, schedVars
  <2>2. QED
    BY <1>1, <1>10, <2>1, LoseAdmissionPlaces, FlowSame, CountSame
<1>11. CASE AbortAll
  <2>1. UNCHANGED flowVars /\ outstanding' = outstanding
    BY <1>11 DEF AbortAll, schedVars
  <2>2. QED
    BY <1>1, <1>11, <2>1, AbortAllPlaces, FlowSame, CountSame
<1>12. CASE TakeFlowChanges
  <2>1. UNCHANGED <<ready, waiting, callerVars>> /\ outstanding' = outstanding
    BY <1>12 DEF TakeFlowChanges
  <2>2. FlowInv'
    <3>1. changes' = <<>> /\ UNCHANGED <<flowOn, unfinished, paused>>
      BY <1>12 DEF TakeFlowChanges
    <3>2. QED
      BY <1>1, <3>1, SMTT(30) DEF FlowInv, FlowConfigured, PausedWhileLoaded
  <2>3. QED
    BY <1>1, <2>1, <2>2, PlacesSame, CountSame
<1>13. CASE DisableFlowControl
  <2>1. UNCHANGED <<ready, waiting, callerVars>> /\ outstanding' = outstanding
    BY <1>13 DEF DisableFlowControl
  <2>2. FlowInv'
    <3>1. flowOn' = FALSE /\ changes' = <<>> /\ paused' = {}
          /\ unfinished' = [k \in Keys |-> 0]
      BY <1>13 DEF DisableFlowControl
    <3>2. unfinished' \in [Keys -> Nat] /\ changes' \in Seq(FlowChange)
      BY <3>1, SMTT(30)
    <3>3. QED
      BY <3>1, <3>2 DEF FlowInv, FlowConfigured, PausedWhileLoaded
  <2>3. QED
    BY <1>1, <2>1, <2>2, PlacesSame, CountSame
<1>14. CASE DiscardPending
  <2>1. /\ PlaceInv'
        /\ IsFiniteSet(Pending)
        /\ IdsOf(Pending) \subseteq Held
        /\ Cardinality(IdsOf(Pending)) = Cardinality(Pending)
        /\ Held' = Held \ IdsOf(Pending)
    BY <1>1, <1>14, DiscardPlaces
  <2>2. FlowInv'
    BY <1>1, <1>14, <2>1, DiscardFlow
  <2>3. outstanding' \in Int /\ OutstandingExact'
    <3>1. IsFiniteSet(Held) /\ Held \cap IdsOf(Pending) = IdsOf(Pending)
      BY <1>1, <2>1, HeldFinite
    <3>2. Cardinality(Held') = Cardinality(Held) - Cardinality(Pending)
      BY <2>1, <3>1, FS_Difference, SMTT(30)
    <3>3. Cardinality(Pending) \in Nat
      BY <2>1, FS_CardinalityType
    <3>4. outstanding' = outstanding - Cardinality(Pending)
      BY <1>14 DEF DiscardPending
    <3>5. QED
      BY <1>1, <3>2, <3>3, <3>4, SMTT(30) DEF OutstandingExact, TypeOK
  <2>4. QED
    BY <2>1, <2>2, <2>3
<1>15. CASE UNCHANGED vars
  <2>1. UNCHANGED <<ready, waiting, callerVars>> /\ outstanding' = outstanding
        /\ UNCHANGED flowVars
    BY <1>15 DEF vars, callerVars, flowVars
  <2>2. QED
    BY <1>1, <2>1, PlacesSame, FlowSame, CountSame
<1>16. QED
  BY <1>2, <1>3, <1>4, <1>5, <1>7, <1>8, <1>9, <1>10, <1>11, <1>12, <1>13, <1>14,
     <1>15, SMTT(30) DEF Next

-----------------------------------------------------------------------------
(* The inductive invariant holds in every reachable state of the scheduler, *)
(* for any keys, lanes, limit and number of deliveries.                     *)
THEOREM InvHolds == Spec => []SchedulerInv
BY InitInv, StepInv, PTL DEF Spec

(* Every queue, counter and set of the scheduler keeps its type.            *)
THEOREM TypeHolds == Spec => []TypeOK
<1>1. SchedulerInv => TypeOK
  BY DEF SchedulerInv
<1>2. QED
  BY <1>1, InvHolds, PTL

(* next_ready never starts a delivery of a lane while another one of that   *)
(* lane runs, whatever push, complete and discard_pending did before.       *)
THEOREM LanesExclusive == Spec => []LaneExclusive
<1>1. SchedulerInv => LaneExclusive
  BY DEF SchedulerInv, LaneQueues, LaneExclusive, Holders
<1>2. QED
  BY <1>1, InvHolds, PTL

(* complete and push leave no lane queue without a delivery that will       *)
(* release it.                                                              *)
THEOREM LanesNotStranded == Spec => []NoStrandedLane
<1>1. SchedulerInv => NoStrandedLane
  BY DEF SchedulerInv
<1>2. QED
  BY <1>1, InvHolds, PTL

(* The counter compared with max_in_flight is the number of deliveries      *)
(* held: admit, withdraw, complete and discard_pending keep it exact.       *)
THEOREM CounterExact == Spec => []OutstandingExact
<1>1. SchedulerInv => OutstandingExact
  BY DEF SchedulerInv
<1>2. QED
  BY <1>1, InvHolds, PTL

(* FlowControl::add and remove pause a key at the limit and resume it at    *)
(* half of it, so a paused key always has deliveries left to resume it.     *)
THEOREM PausedKeysLoaded == Spec => []PausedWhileLoaded
<1>1. SchedulerInv => PausedWhileLoaded
  BY DEF SchedulerInv
<1>2. QED
  BY <1>1, InvHolds, PTL

(* Deliveries of one lane start in receive order.                           *)
THEOREM LanesInOrder == Spec => LaneOrder
<1>1. SchedulerInv /\ [Next]_vars => [\A l \in Lanes : lastStarted'[l] >= lastStarted[l]]_vars
  <2> SUFFICES ASSUME SchedulerInv, Next
               PROVE  \A l \in Lanes : lastStarted'[l] >= lastStarted[l]
    OBVIOUS
  <2>1. PlaceInv /\ lastStarted \in [Lanes -> Nat]
    BY InvParts DEF SchedulerInv, TypeOK
  <2>2. CASE NextReady
    BY <2>1, <2>2, NextReadyPlaces
  <2>3. CASE UNCHANGED lastStarted
    BY <2>1, <2>3, SMTT(30)
  <2>4. QED
    BY <2>2, <2>3 DEF Next, Admit, Push, Withdraw, Complete, AbandonReady, LoseTicket,
                      LoseAdmission, AbortAll, TakeFlowChanges, DisableFlowControl,
                      DiscardPending, callerVars
<1>2. QED
  BY <1>1, InvHolds, PTL DEF Spec, LaneOrder

-----------------------------------------------------------------------------
(* The count of a key, by the receive numbers of its deliveries.             *)

KeyIds(T, k) == IdsOf({x \in T : x.flow = k})

KeyCount == flowOn => \A k \in Keys : unfinished[k] = Cardinality(KeyIds(Items, k))

DistinctIds(T) == \A x, y \in T : x.id = y.id => x = y

(* The receive numbers of a key when a delivery is admitted, ...             *)
LEMMA KeyIdsAdd ==
  ASSUME NEW T, NEW x, NEW k
  PROVE  KeyIds(T \cup {x}, k) = IF x.flow = k THEN KeyIds(T, k) \cup {x.id} ELSE KeyIds(T, k)
BY DEF KeyIds, IdsOf

(* ... and when one leaves.                                                  *)
LEMMA KeyIdsRemoveOne ==
  ASSUME NEW T, NEW x \in T, DistinctIds(T), NEW k
  PROVE  /\ KeyIds(T \ {x}, k) = IF x.flow = k THEN KeyIds(T, k) \ {x.id} ELSE KeyIds(T, k)
         /\ x.flow = k => x.id \in KeyIds(T, k)
BY DEF KeyIds, IdsOf, DistinctIds

(* A delivery that moves keeps its number and its key.                       *)
LEMMA KeyIdsSwap ==
  ASSUME NEW T, NEW x \in T, NEW y, y.id = x.id, y.flow = x.flow, DistinctIds(T), NEW k
  PROVE  KeyIds((T \ {x}) \cup {y}, k) = KeyIds(T, k)
<1>1. KeyIds((T \ {x}) \cup {y}, k)
        = IF y.flow = k THEN KeyIds(T \ {x}, k) \cup {y.id} ELSE KeyIds(T \ {x}, k)
  <2> DEFINE U == T \ {x}
  <2> HIDE DEF U
  <2>1. KeyIds(U \cup {y}, k) = IF y.flow = k THEN KeyIds(U, k) \cup {y.id} ELSE KeyIds(U, k)
    BY DEF KeyIds, IdsOf
  <2> QED
    BY <2>1 DEF U
<1>2. /\ KeyIds(T \ {x}, k) = IF x.flow = k THEN KeyIds(T, k) \ {x.id} ELSE KeyIds(T, k)
      /\ x.flow = k => x.id \in KeyIds(T, k)
  BY KeyIdsRemoveOne
<1> QED
  BY <1>1, <1>2

(* Deliveries whose tasks fail stay counted for their keys.                  *)
LEMMA KeyIdsLost ==
  ASSUME NEW T, NEW A \in SUBSET T, NEW k
  PROVE  KeyIds((T \ A) \cup {AsLost(a) : a \in A}, k) = KeyIds(T, k)
<1>1. \A a \in A : AsLost(a).id = a.id /\ AsLost(a).flow = a.flow
  BY DEF AsLost
<1> QED
  BY <1>1, SMTT(30) DEF KeyIds, IdsOf

(* A key has finitely many, all received.                                    *)
LEMMA KeyIdsFinite ==
  ASSUME PlaceInv, NEW k
  PROVE  /\ IsFiniteSet(KeyIds(Items, k)) /\ Cardinality(KeyIds(Items, k)) \in Nat
         /\ KeyIds(Items, k) \subseteq 1..received
         /\ received \in Nat
<1>1. received \in Nat
  BY ConstantsAssumption, SMTT(30) DEF PlaceInv, PlaceType
<1>2. KeyIds(Items, k) \subseteq 1..received
  BY ItemsApart DEF KeyIds, IdsOf
<1>3. IsFiniteSet(1..received)
  BY <1>1, FS_Interval, SMTT(30)
<1>4. IsFiniteSet(KeyIds(Items, k))
  BY <1>2, <1>3, FS_Subset
<1> QED
  BY <1>1, <1>2, <1>4, FS_CardinalityType

(* The two counts of UnfinishedExact are over disjoint sets, whose sum is    *)
(* the number of the key's receive numbers.                                  *)
LEMMA CountsByPlace ==
  ASSUME PlaceInv, NEW k
  PROVE  Cardinality({a \in Range(admitted) : a.flow = k})
           + Cardinality({t \in Pending \cup running \cup lost : t.flow = k})
         = Cardinality(KeyIds(Items, k))
<1> DEFINE S == {a \in Range(admitted) : a.flow = k}
           T == {t \in Holders \cup Queued : t.flow = k}
<1>1. Pending \cup running \cup lost = Holders \cup Queued
  BY DEF Pending, Holders
<1>2. /\ \A x \in S \cup T : x.id \in 1..received
      /\ \A x, y \in S \cup T : x.id = y.id => x = y
      /\ S \cap T = {} /\ {x \in Items : x.flow = k} = S \cup T
  BY ItemsApart DEF Items
<1>3. received \in Nat
  BY KeyIdsFinite
<1> HIDE DEF S, T
<1>4. /\ IsFiniteSet(S) /\ IsFiniteSet(T) /\ IsFiniteSet(S \cup T)
      /\ Cardinality(IdsOf(S \cup T)) = Cardinality(S \cup T)
  BY <1>2, <1>3, CountByIds
<1>5. Cardinality(S \cup T) = Cardinality(S) + Cardinality(T)
  <2>1. Cardinality(S \cup T) = Cardinality(S) + Cardinality(T) - Cardinality(S \cap T)
    BY <1>4, FS_Union
  <2>2. Cardinality(S \cap T) = 0 /\ Cardinality(S) \in Nat /\ Cardinality(T) \in Nat
    BY <1>2, <1>4, FS_EmptySet, FS_CardinalityType
  <2> QED
    BY <2>1, <2>2, SMTT(30)
<1>6. KeyIds(Items, k) = IdsOf(S \cup T)
  BY <1>2 DEF KeyIds
<1> QED
  BY <1>1, <1>4, <1>5, <1>6 DEF S, T

(* The count of every key follows the deliveries, operation by operation.    *)
LEMMA KeyCountSame ==
  ASSUME KeyCount, UNCHANGED <<flowOn, unfinished>>,
         \A k \in Keys : KeyIds(Items', k) = KeyIds(Items, k)
  PROVE  KeyCount'
BY DEF KeyCount

(* A delivery that ends is taken off its key's count once.                   *)
LEMMA KeyCountReleased ==
  ASSUME PlaceInv, FlowInv, KeyCount, NEW x \in Items, Items' = Items \ {x}, Release(x.flow)
  PROVE  KeyCount'
<1> SUFFICES ASSUME flowOn', NEW k \in Keys
             PROVE  unfinished'[k] = Cardinality(KeyIds(Items', k))
  BY DEF KeyCount
<1>1. flowOn /\ flowOn' = flowOn
  BY DEF Release, FlowRemove, flowVars
<1>2. unfinished[k] = Cardinality(KeyIds(Items, k)) /\ unfinished \in [Keys -> Nat]
  BY <1>1 DEF KeyCount, FlowInv
<1>3. DistinctIds(Items)
  BY ItemsApart DEF DistinctIds
<1>4. CASE x.flow = k
  <2>1. x.id \in KeyIds(Items, k) /\ KeyIds(Items', k) = KeyIds(Items, k) \ {x.id}
    BY <1>3, <1>4, KeyIdsRemoveOne
  <2>2. /\ Cardinality(KeyIds(Items', k)) = Cardinality(KeyIds(Items, k)) - 1
        /\ Cardinality(KeyIds(Items, k)) # 0
    <3>1. IsFiniteSet(KeyIds(Items, k))
      BY KeyIdsFinite
    <3>2. Cardinality(KeyIds(Items, k) \ {x.id}) = Cardinality(KeyIds(Items, k)) - 1
      BY <2>1, <3>1, FS_RemoveElement
    <3>3. Cardinality(KeyIds(Items, k)) # 0
      BY <2>1, <3>1, FS_EmptySet
    <3> QED
      BY <2>1, <3>2, <3>3
  <2>3. Counts(k)
    BY <1>1, ConstantsAssumption DEF Counts
  <2>4. FlowRemove(k)
    BY <1>2, <1>4, <2>2, <2>3 DEF Release
  <2>5. unfinished'[k] = unfinished[k] - 1
    BY <1>2, <2>4 DEF FlowRemove
  <2> QED
    BY <1>2, <2>2, <2>5
<1>5. CASE x.flow # k
  <2>1. KeyIds(Items', k) = KeyIds(Items, k)
    BY <1>3, <1>5, KeyIdsRemoveOne
  <2>2. unfinished'[k] = unfinished[k]
    <3>1. CASE unfinished' = unfinished
      BY <3>1
    <3>2. CASE unfinished' = [unfinished EXCEPT ![x.flow] = @ - 1]
      BY <1>2, <1>5, <3>2
    <3> QED
      BY <3>1, <3>2 DEF Release, FlowRemove, flowVars
  <2> QED
    BY <1>2, <2>1, <2>2
<1> QED
  BY <1>4, <1>5

(* A delivery that is admitted is added to its key's count.                  *)
LEMMA KeyCountAdmitted ==
  ASSUME PlaceInv, FlowInv, KeyCount, NEW f \in MaybeKey, Admit(f)
  PROVE  KeyCount'
<1> SUFFICES ASSUME flowOn', NEW k \in Keys
             PROVE  unfinished'[k] = Cardinality(KeyIds(Items', k))
  BY DEF KeyCount
<1> DEFINE a == [id |-> received + 1, flow |-> IF Counts(f) THEN f ELSE NoKey]
<1>1. flowOn /\ flowOn' = flowOn
  BY DEF Admit, FlowAdd, flowVars
<1>2. unfinished[k] = Cardinality(KeyIds(Items, k)) /\ unfinished \in [Keys -> Nat]
  BY <1>1 DEF KeyCount, FlowInv
<1>3. Items' = Items \cup {a} /\ a.id = received + 1
  BY AdmitPlaces
<1>4. a.flow = f /\ k # NoKey
  BY <1>1, ConstantsAssumption DEF Counts
<1> HIDE DEF a
<1>5. CASE f = k
  <2>1. KeyIds(Items', k) = KeyIds(Items, k) \cup {received + 1}
    <3>1. KeyIds(Items \cup {a}, k) = IF a.flow = k THEN KeyIds(Items, k) \cup {a.id} ELSE KeyIds(Items, k)
      BY KeyIdsAdd
    <3> QED
      BY <1>3, <1>4, <1>5, <3>1
  <2>2. received + 1 \notin KeyIds(Items, k)
    BY KeyIdsFinite, SMTT(30)
  <2>3. Cardinality(KeyIds(Items', k)) = Cardinality(KeyIds(Items, k)) + 1
    <3>1. IsFiniteSet(KeyIds(Items, k))
      BY KeyIdsFinite
    <3>2. Cardinality(KeyIds(Items, k) \cup {received + 1}) = Cardinality(KeyIds(Items, k)) + 1
      BY <2>2, <3>1, FS_AddElement
    <3> QED
      BY <2>1, <3>2
  <2>4. FlowAdd(k)
    BY <1>1, <1>4, <1>5 DEF Admit, Counts
  <2>5. unfinished'[k] = unfinished[k] + 1
    BY <1>2, <2>4 DEF FlowAdd
  <2> QED
    BY <1>2, <2>3, <2>5
<1>6. CASE f # k
  <2>1. KeyIds(Items', k) = KeyIds(Items, k)
    <3>1. KeyIds(Items \cup {a}, k) = IF a.flow = k THEN KeyIds(Items, k) \cup {a.id} ELSE KeyIds(Items, k)
      BY KeyIdsAdd
    <3> QED
      BY <1>3, <1>4, <1>6, <3>1
  <2>2. unfinished'[k] = unfinished[k]
    <3>1. CASE unfinished' = unfinished
      BY <3>1
    <3>2. CASE unfinished' = [unfinished EXCEPT ![f] = @ + 1]
      BY <1>2, <1>6, <3>2
    <3> QED
      BY <3>1, <3>2 DEF Admit, FlowAdd, flowVars
  <2> QED
    BY <1>2, <2>1, <2>2
<1> QED
  BY <1>5, <1>6

(* discard_pending takes what it drops off the count of each key.            *)
LEMMA KeyCountDiscarded ==
  ASSUME PlaceInv, FlowInv, KeyCount, DiscardPending
  PROVE  KeyCount'
<1> SUFFICES ASSUME flowOn', NEW k \in Keys
             PROVE  unfinished'[k] = Cardinality(KeyIds(Items', k))
  BY DEF KeyCount
<1> DEFINE D == {t \in Pending : t.flow = k}
<1>1. flowOn /\ unfinished' = [j \in Keys |-> Left(j)]
  BY DEF DiscardPending
<1>2. unfinished[k] = Cardinality(KeyIds(Items, k)) /\ unfinished[k] \in Nat
  BY <1>1 DEF KeyCount, FlowInv
<1>3. Pending \subseteq Items /\ Items' = Items \ Pending
  BY DiscardPlaces
<1>4. KeyIds(Items', k) = KeyIds(Items, k) \ IdsOf(D)
  <2>1. DistinctIds(Items)
    BY ItemsApart DEF DistinctIds
  <2>2. KeyIds(Items \ Pending, k) = KeyIds(Items, k) \ KeyIds(Pending, k)
    <3>1. Pending \in SUBSET Items
      BY <1>3
    <3> QED
      BY <2>1, <3>1 DEF KeyIds, IdsOf, DistinctIds
  <2> QED
    BY <1>3, <2>2 DEF KeyIds
<1>5. IdsOf(D) \subseteq KeyIds(Items, k)
  BY <1>3 DEF KeyIds, IdsOf
<1>6. IsFiniteSet(D) /\ Cardinality(IdsOf(D)) = Cardinality(D)
  <2>1. D \subseteq Items
    BY <1>3
  <2> HIDE DEF D
  <2> QED
    BY <2>1, ItemsApart, KeyIdsFinite, CountByIds
<1>7. Dropped(k) = Cardinality(D)
  BY <1>1 DEF Dropped
<1> HIDE DEF D
<1>8. Cardinality(KeyIds(Items', k)) = Cardinality(KeyIds(Items, k)) - Cardinality(D)
  <2>1. KeyIds(Items, k) \cap IdsOf(D) = IdsOf(D)
    BY <1>5
  <2> QED
    <3>1. IsFiniteSet(KeyIds(Items, k))
      BY KeyIdsFinite
    <3>2. Cardinality(KeyIds(Items, k) \ IdsOf(D))
            = Cardinality(KeyIds(Items, k)) - Cardinality(KeyIds(Items, k) \cap IdsOf(D))
      BY <3>1, FS_Difference
    <3> QED
      BY <1>4, <1>6, <2>1, <3>2
<1>9. Cardinality(D) \in Nat /\ Cardinality(D) <= Cardinality(KeyIds(Items, k))
  BY <1>5, <1>6, KeyIdsFinite, FS_Subset, FS_CardinalityType
<1> QED
  BY <1>1, <1>2, <1>7, <1>8, <1>9, SMTT(30) DEF Left

(* Every call keeps the counts exact while flow control is on.               *)
LEMMA KeyCountStep ==
  ASSUME SchedulerInv, KeyCount, [Next]_vars
  PROVE  KeyCount'
<1>1. PlaceInv /\ FlowInv
  BY InvParts
<1>2. DistinctIds(Items)
  BY <1>1, ItemsApart DEF DistinctIds
<1>3. ASSUME NEW f \in MaybeKey, Admit(f) PROVE KeyCount'
  BY <1>1, <1>3, KeyCountAdmitted
<1>4. ASSUME NEW l \in MaybeLane, Push(l) PROVE KeyCount'
  <2> DEFINE h == Head(admitted)
             t == [id |-> h.id, lane |-> l, flow |-> h.flow]
  <2>1. h \in Items /\ Items' = (Items \ {h}) \cup {t}
    BY <1>1, <1>4, PushBehind, PushReady
  <2>2. t.id = h.id /\ t.flow = h.flow
    OBVIOUS
  <2>3. UNCHANGED <<flowOn, unfinished>>
    BY <1>4 DEF Push, flowVars
  <2> HIDE DEF h, t
  <2> QED
    BY <1>2, <2>1, <2>2, <2>3, KeyIdsSwap, KeyCountSame, SMTT(30)
<1>5. CASE Withdraw
  <2>1. Head(admitted) \in Items /\ Items' = Items \ {Head(admitted)}
    BY <1>1, <1>5, WithdrawPlaces
  <2> QED
    BY <1>1, <1>5, <2>1, KeyCountReleased DEF Withdraw
<1>6. CASE NextReady
  <2>1. Items' = Items /\ UNCHANGED <<flowOn, unfinished>>
    BY <1>1, <1>6, NextReadyPlaces DEF NextReady, flowVars
  <2> QED
    BY <2>1, KeyCountSame
<1>7. ASSUME NEW t, NEW queue, Leaves(t, queue), Finish(t, queue) PROVE KeyCount'
  <2>1. t \in Items /\ Items' = Items \ {t}
    BY <1>1, <1>7, FinishPlaces
  <2>2. Release(t.flow)
    BY <1>7 DEF Finish
  <2> QED
    BY <1>1, <2>1, <2>2, KeyCountReleased
<1>8. ASSUME NEW t \in running, Complete(t) PROVE KeyCount'
  BY <1>1, <1>7, <1>8, CompleteLeaves DEF Complete
<1>9. CASE AbandonReady
  BY <1>1, <1>7, <1>9, AbandonLeaves DEF AbandonReady
<1>10. ASSUME NEW t \in running, LoseTicket(t) PROVE KeyCount'
  <2>1. Items' = Items /\ UNCHANGED <<flowOn, unfinished>>
    BY <1>1, <1>10, LoseTicketPlaces DEF LoseTicket, schedVars, flowVars
  <2> QED
    BY <2>1, KeyCountSame
<1>11. CASE LoseAdmission \/ AbortAll
  <2>1. PICK A \in SUBSET Items : Items' = (Items \ A) \cup {AsLost(a) : a \in A}
    BY <1>1, <1>11, LoseAdmissionPlaces, AbortAllPlaces
  <2>2. UNCHANGED <<flowOn, unfinished>>
    BY <1>11 DEF LoseAdmission, AbortAll, schedVars, flowVars
  <2> QED
    BY <2>1, <2>2, KeyIdsLost, KeyCountSame
<1>12. CASE TakeFlowChanges
  <2>1. Items' = Items /\ UNCHANGED <<flowOn, unfinished>>
    BY <1>1, <1>12, PlacesSame DEF TakeFlowChanges
  <2> QED
    BY <2>1, KeyCountSame
<1>13. CASE DisableFlowControl
  BY <1>13 DEF DisableFlowControl, KeyCount
<1>14. CASE DiscardPending
  BY <1>1, <1>14, KeyCountDiscarded
<1>15. CASE UNCHANGED vars
  <2>1. Items' = Items /\ UNCHANGED <<flowOn, unfinished>>
    BY <1>1, <1>15, PlacesSame DEF vars, callerVars
  <2> QED
    BY <2>1, KeyCountSame
<1> QED
  BY <1>3, <1>4, <1>5, <1>6, <1>8, <1>9, <1>10, <1>11, <1>12, <1>13, <1>14, <1>15 DEF Next

(* FlowControl's count of a key is the number of its deliveries that were    *)
(* admitted and not released, wherever they are: decoding, queued, running,  *)
(* or gone with a failed task.                                               *)
THEOREM KeyCountsExact == Spec => []UnfinishedExact
<1>1. Init => KeyCount
  <2> SUFFICES ASSUME Init PROVE KeyCount
    OBVIOUS
  <2>1. Items = {}
    BY SMTT(30) DEF Init, Items, Holders, Queued, Range
  <2>2. \A k \in Keys : KeyIds(Items, k) = {} /\ unfinished[k] = 0
    BY <2>1 DEF KeyIds, IdsOf, Init
  <2> QED
    BY <2>2, FS_EmptySet DEF KeyCount
<1>2. SchedulerInv /\ KeyCount /\ [Next]_vars => KeyCount'
  BY KeyCountStep
<1>3. SchedulerInv /\ KeyCount => UnfinishedExact
  BY InvParts, CountsByPlace DEF KeyCount, UnfinishedExact
<1> QED
  BY <1>1, <1>2, <1>3, InvHolds, PTL DEF Spec

=============================================================================
