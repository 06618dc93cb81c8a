------------------------------ MODULE Scheduler ------------------------------
(***************************************************************************)
(* The delivery scheduler of a subscription (src/subscription/scheduler.rs):*)
(* distribution lanes and per-key flow control between decoding and the     *)
(* bounded set of running jobs.                                             *)
(*                                                                          *)
(* A delivery is known by its receive number.  The scheduler's own state is *)
(* ready, waiting, outstanding and the FlowControl fields; the remaining    *)
(* variables hold what its caller owns: the admissions being decoded        *)
(* (src/subscription/decoding.rs keeps them first in, first out), the       *)
(* tickets of running jobs, and the tickets that a panicked or failed task  *)
(* took with it.  The guards on the caller's variables are the protocol     *)
(* that the subscription runtime follows; module Runtime shows that it does.*)
(***************************************************************************)
EXTENDS Integers, Sequences, FiniteSets, Functions

CONSTANTS
  Keys,           \* ordering keys of the source
  NoKey,          \* a delivery without an ordering scope
  Lanes,          \* hashes of distribution keys
  NoLane,         \* a delivery that runs independently
  Limit,          \* max_in_flight_per_key; 0 stands for None
  MaxDeliveries   \* bound: deliveries received in one behaviour

ASSUME ConstantsAssumption ==
  /\ NoKey \notin Keys
  /\ NoLane \notin Lanes
  /\ IsFiniteSet(Keys)
  /\ Limit \in Nat
  /\ MaxDeliveries \in Nat

VARIABLES
  ready,          \* deliveries that may start, in order
  waiting,        \* lane -> deliveries queued behind the lane's holder
  outstanding,    \* admitted deliveries that have not completed
  flowOn,         \* flow: Option<FlowControl> is Some
  unfinished,     \* key -> unfinished deliveries (0: no entry)
  paused,         \* keys for which a pause was requested
  changes,        \* pause and resume requests not yet taken
  admitted,       \* caller: admissions being decoded, oldest first
  running,        \* caller: tickets of running jobs
  lost,           \* caller: tickets and admissions gone with a failed task
  received,       \* caller: deliveries received so far
  lastStarted,    \* history: lane -> delivery of it that started last
  discarded       \* history: discard_pending was called

flowVars == <<flowOn, unfinished, paused, changes>>
schedVars == <<ready, waiting, outstanding, flowVars>>
callerVars == <<admitted, running, lost, received, lastStarted, discarded>>
vars == <<ready, waiting, outstanding, flowOn, unfinished, paused, changes,
          admitted, running, lost, received, lastStarted, discarded>>

MaybeKey == Keys \cup {NoKey}
MaybeLane == Lanes \cup {NoLane}
Admission == [id : Nat, flow : MaybeKey]
Ticket == [id : Nat, lane : MaybeLane, flow : MaybeKey]
FlowChange == [op : {"pause", "resume"}, key : Keys]

Init ==
  /\ ready = <<>>
  /\ waiting = [l \in {} |-> <<>>]
  /\ outstanding = 0
  /\ flowOn = (Limit > 0)
  /\ unfinished = [k \in Keys |-> 0]
  /\ paused = {}
  /\ changes = <<>>
  /\ admitted = <<>>
  /\ running = {}
  /\ lost = {}
  /\ received = 0
  /\ lastStarted = [l \in Lanes |-> 0]
  /\ discarded = FALSE

-----------------------------------------------------------------------------
(* FlowControl::add, FlowControl::remove and Scheduler::release.            *)

FlowAdd(k) ==
  /\ unfinished' = [unfinished EXCEPT ![k] = @ + 1]
  /\ IF unfinished[k] + 1 >= Limit /\ k \notin paused
       THEN /\ paused' = paused \cup {k}
            /\ changes' = Append(changes, [op |-> "pause", key |-> k])
       ELSE UNCHANGED <<paused, changes>>
  /\ UNCHANGED flowOn

(* Mutant: resumes only below half the limit.                               *)
FlowRemoveBelowHalf(k) ==
  /\ unfinished[k] > 0
  /\ unfinished' = [unfinished EXCEPT ![k] = @ - 1]
  /\ IF unfinished[k] - 1 < Limit \div 2 /\ k \in paused
       THEN /\ paused' = paused \ {k}
            /\ changes' = Append(changes, [op |-> "resume", key |-> k])
       ELSE UNCHANGED <<paused, changes>>
  /\ UNCHANGED flowOn

FlowRemove(k) ==
  /\ unfinished[k] > 0
  /\ unfinished' = [unfinished EXCEPT ![k] = @ - 1]
  /\ IF unfinished[k] - 1 <= Limit \div 2 /\ k \in paused
       THEN /\ paused' = paused \ {k}
            /\ changes' = Append(changes, [op |-> "resume", key |-> k])
       ELSE UNCHANGED <<paused, changes>>
  /\ UNCHANGED flowOn

Counts(k) == flowOn /\ k # NoKey

Release(k) ==
  \/ Counts(k) /\ FlowRemove(k)
  \/ Counts(k) /\ unfinished[k] = 0 /\ UNCHANGED flowVars
  \/ ~Counts(k) /\ UNCHANGED flowVars

-----------------------------------------------------------------------------
(* The caller stops receiving, decoding and starting deliveries once a task *)
(* has failed or the unstarted deliveries have been discarded.              *)

Active == lost = {} /\ ~discarded

Admit(k) ==
  /\ Active
  /\ received < MaxDeliveries
  /\ received' = received + 1
  /\ outstanding' = outstanding + 1
  /\ IF Counts(k) THEN FlowAdd(k) ELSE UNCHANGED flowVars
  /\ admitted' = Append(admitted, [id |-> received + 1,
                                   flow |-> IF Counts(k) THEN k ELSE NoKey])
  /\ UNCHANGED <<ready, waiting, running, lost, lastStarted, discarded>>

(* Only the oldest admission is pushed, whichever decodes first.            *)
Push(l) ==
  /\ Active
  /\ admitted # <<>>
  /\ admitted' = Tail(admitted)
  /\ LET a == Head(admitted)
         t == [id |-> a.id, lane |-> l, flow |-> a.flow]
     IN IF l \in DOMAIN waiting
          THEN /\ waiting' = [waiting EXCEPT ![l] = Append(@, t)]
               /\ UNCHANGED ready
          ELSE /\ ready' = Append(ready, t)
               /\ waiting' = IF l = NoLane THEN waiting
                             ELSE [m \in DOMAIN waiting \cup {l} |->
                                     IF m = l THEN <<>> ELSE waiting[m]]
  /\ UNCHANGED <<outstanding, flowVars, running, lost, received, lastStarted,
                 discarded>>

(* Mutant: a withdrawn admission stays in its key's count.                  *)
WithdrawKeepsCount ==
  /\ admitted # <<>>
  /\ admitted' = Tail(admitted)
  /\ outstanding' = outstanding - 1
  /\ UNCHANGED <<flowVars, ready, waiting, running, lost, received, lastStarted,
                 discarded>>

Withdraw ==
  /\ admitted # <<>>
  /\ admitted' = Tail(admitted)
  /\ outstanding' = outstanding - 1
  /\ Release(Head(admitted).flow)
  /\ UNCHANGED <<ready, waiting, running, lost, received, lastStarted,
                 discarded>>

NextReady ==
  /\ lost = {}
  /\ ready # <<>>
  /\ ready' = Tail(ready)
  /\ LET t == Head(ready)
     IN /\ running' = running \cup {t}
        /\ lastStarted' = IF t.lane = NoLane THEN lastStarted
                          ELSE [lastStarted EXCEPT ![t.lane] = t.id]
  /\ UNCHANGED <<waiting, outstanding, flowVars, admitted, lost, received,
                 discarded>>

-----------------------------------------------------------------------------
(* Mutant: the lane disappears with its last queued delivery, which is yet  *)
(* to run.                                                                  *)
FinishRemovesEarly(t, queue) ==
  /\ outstanding' = outstanding - 1
  /\ Release(t.flow)
  /\ IF t.lane \notin DOMAIN waiting
       THEN ready' = queue /\ UNCHANGED waiting
       ELSE /\ ready' = IF waiting[t.lane] = <<>> THEN queue
                        ELSE Append(queue, Head(waiting[t.lane]))
            /\ waiting' = IF Len(waiting[t.lane]) <= 1
                          THEN [m \in DOMAIN waiting \ {t.lane} |-> waiting[m]]
                          ELSE [waiting EXCEPT ![t.lane] = Tail(@)]

(* Mutant: the delivery queued last becomes ready.                          *)
FinishLastQueued(t, queue) ==
  /\ outstanding' = outstanding - 1
  /\ Release(t.flow)
  /\ IF t.lane \notin DOMAIN waiting
       THEN ready' = queue /\ UNCHANGED waiting
       ELSE IF waiting[t.lane] = <<>>
         THEN /\ ready' = queue
              /\ waiting' = [m \in DOMAIN waiting \ {t.lane} |-> waiting[m]]
         ELSE /\ ready' = Append(queue, waiting[t.lane][Len(waiting[t.lane])])
              /\ waiting' = [waiting EXCEPT ![t.lane] = SubSeq(@, 1, Len(@) - 1)]

(* Scheduler::complete, on a ready queue that may just have lost its head:  *)
(* the lane's next delivery becomes ready, or the lane disappears.          *)

Finish(t, queue) ==
  /\ outstanding' = outstanding - 1
  /\ Release(t.flow)
  /\ IF t.lane \notin DOMAIN waiting
       THEN ready' = queue /\ UNCHANGED waiting
       ELSE IF waiting[t.lane] = <<>>
         THEN /\ ready' = queue
              /\ waiting' = [m \in DOMAIN waiting \ {t.lane} |-> waiting[m]]
         ELSE /\ ready' = Append(queue, Head(waiting[t.lane]))
              /\ waiting' = [waiting EXCEPT ![t.lane] = Tail(@)]

Complete(t) ==
  /\ t \in running
  /\ running' = running \ {t}
  /\ Finish(t, ready)
  /\ UNCHANGED <<admitted, lost, received, lastStarted, discarded>>

(* Mutant: the delivery is dropped without completing its ticket's lane.    *)
AbandonReadyKeepsLane ==
  /\ lost = {}
  /\ ready # <<>>
  /\ ready' = Tail(ready)
  /\ outstanding' = outstanding - 1
  /\ Release(Head(ready).flow)
  /\ UNCHANGED <<waiting, admitted, running, lost, received, lastStarted, discarded>>

(* A delivery being handed off leaves the ready queue and completes at once.*)
AbandonReady ==
  /\ lost = {}
  /\ ready # <<>>
  /\ Finish(Head(ready), Tail(ready))
  /\ UNCHANGED <<admitted, running, lost, received, lastStarted, discarded>>

(* A job that fails or panics never hands its ticket back, and a decoding   *)
(* task that panics takes its admission with it.                            *)
LoseTicket(t) ==
  /\ t \in running
  /\ running' = running \ {t}
  /\ lost' = lost \cup {t}
  /\ UNCHANGED <<schedVars, admitted, received, lastStarted, discarded>>

LoseAdmission ==
  /\ Active
  /\ admitted # <<>>
  /\ admitted' = Tail(admitted)
  /\ lost' = lost \cup {[id |-> Head(admitted).id, lane |-> NoLane,
                         flow |-> Head(admitted).flow]}
  /\ UNCHANGED <<schedVars, running, received, lastStarted, discarded>>

(* Every task is aborted and the scheduler is not called again.             *)
AbortAll ==
  /\ running' = {}
  /\ admitted' = <<>>
  /\ lost' = lost \cup running
               \cup {[id |-> a.id, lane |-> NoLane, flow |-> a.flow] :
                       a \in Range(admitted)}
  /\ UNCHANGED <<schedVars, received, lastStarted, discarded>>

-----------------------------------------------------------------------------
TakeFlowChanges ==
  /\ Active
  /\ changes # <<>>
  /\ changes' = <<>>
  /\ UNCHANGED <<ready, waiting, outstanding, flowOn, unfinished, paused,
                 callerVars>>

DisableFlowControl ==
  /\ Active
  /\ flowOn
  /\ flowOn' = FALSE
  /\ unfinished' = [k \in Keys |-> 0]
  /\ paused' = {}
  /\ changes' = <<>>
  /\ UNCHANGED <<ready, waiting, outstanding, callerVars>>

(* Deliveries distributed but not started.                                  *)
Queued == UNION {Range(waiting[l]) : l \in DOMAIN waiting}
Pending == Range(ready) \cup Queued

(* What releasing every pending delivery takes off the count of a key.  The *)
(* map's order is arbitrary, and with it the order of the resume requests.  *)
Dropped(k) ==
  IF flowOn THEN Cardinality({t \in Pending : t.flow = k}) ELSE 0

Left(k) ==
  IF Dropped(k) >= unfinished[k] THEN 0 ELSE unfinished[k] - Dropped(k)

Resumed ==
  {k \in paused : Dropped(k) > 0 /\ unfinished[k] > 0 /\ Left(k) <= Limit \div 2}

(* Mutant: only the ready deliveries are taken off the counter.             *)
DiscardPendingReadyOnly ==
  /\ admitted = <<>>
  /\ ready' = <<>>
  /\ waiting' = [l \in {} |-> <<>>]
  /\ outstanding' = outstanding - Len(ready)
  /\ unfinished' = [k \in Keys |-> Left(k)]
  /\ paused' = paused \ Resumed
  /\ \E order \in Bijection(1..Cardinality(Resumed), Resumed) :
       changes' = changes \o [i \in 1..Cardinality(Resumed) |->
                                [op |-> "resume", key |-> order[i]]]
  /\ discarded' = TRUE
  /\ UNCHANGED <<flowOn, admitted, running, lost, received, lastStarted>>

DiscardPending ==
  /\ admitted = <<>>
  /\ ready' = <<>>
  /\ waiting' = [l \in {} |-> <<>>]
  /\ outstanding' = outstanding - Cardinality(Pending)
  /\ unfinished' = [k \in Keys |-> Left(k)]
  /\ paused' = paused \ Resumed
  /\ \E order \in Bijection(1..Cardinality(Resumed), Resumed) :
       changes' = changes \o [i \in 1..Cardinality(Resumed) |->
                                [op |-> "resume", key |-> order[i]]]
  /\ discarded' = TRUE
  /\ UNCHANGED <<flowOn, admitted, running, lost, received, lastStarted>>

-----------------------------------------------------------------------------
Next ==
  \/ \E k \in MaybeKey : Admit(k)
  \/ \E l \in MaybeLane : Push(l)
  \/ Withdraw
  \/ NextReady
  \/ \E t \in running : Complete(t)
  \/ AbandonReady
  \/ \E t \in running : LoseTicket(t)
  \/ LoseAdmission
  \/ AbortAll
  \/ TakeFlowChanges
  \/ DisableFlowControl
  \/ DiscardPending

Spec == Init /\ [][Next]_vars

-----------------------------------------------------------------------------
TypeOK ==
  /\ ready \in Seq(Ticket)
  /\ DOMAIN waiting \subseteq Lanes
  /\ waiting \in [DOMAIN waiting -> Seq(Ticket)]
  /\ outstanding \in Int
  /\ flowOn \in BOOLEAN
  /\ unfinished \in [Keys -> Nat]
  /\ paused \subseteq Keys
  /\ changes \in Seq(FlowChange)
  /\ admitted \in Seq(Admission)
  /\ running \subseteq Ticket
  /\ lost \subseteq Ticket
  /\ received \in 0..MaxDeliveries
  /\ lastStarted \in [Lanes -> Nat]
  /\ discarded \in BOOLEAN

(* Deliveries the scheduler still accounts for, by receive number.          *)
Held ==
  {a.id : a \in Range(admitted)} \cup {t.id : t \in Pending \cup running \cup lost}

(* "Deliveries with equal lanes run one at a time": no two running jobs     *)
(* share a lane, whatever the order of push, complete and discard_pending.  *)
LaneExclusive ==
  \A t, u \in running : t.lane = u.lane /\ t.lane # NoLane => t = u

(* Every delivery queued in `waiting` has a delivery of its lane ahead of   *)
(* it that is ready or running (or went down with a failed task): complete  *)
(* and push never strand a lane's queue.                                    *)
NoStrandedLane ==
  \A l \in DOMAIN waiting : \E t \in Range(ready) \cup running \cup lost : t.lane = l

(* The counter that is compared with max_in_flight is exactly the number of *)
(* deliveries admitted and not finished, so `outstanding -= ...` can        *)
(* neither underflow nor leak a slot.                                       *)
OutstandingExact == outstanding = Cardinality(Held)

(* Flow control hysteresis: a key is paused from the limit down to half of  *)
(* it and not paused below that, so a paused key always has an unfinished   *)
(* delivery whose completion can resume it.                                 *)
PausedWhileLoaded ==
  flowOn => \A k \in Keys :
    IF k \in paused THEN unfinished[k] > Limit \div 2 ELSE unfinished[k] < Limit

(* Each key's count is the number of its deliveries the scheduler holds.    *)
UnfinishedExact ==
  flowOn => \A k \in Keys :
    unfinished[k] =
      Cardinality({a \in Range(admitted) : a.flow = k})
      + Cardinality({t \in Pending \cup running \cup lost : t.flow = k})

(* Deliveries of one lane start in the order they were received: a later    *)
(* start in a lane is always of a later delivery.                           *)
LaneOrder ==
  [][\A l \in Lanes : lastStarted'[l] >= lastStarted[l]]_vars

-----------------------------------------------------------------------------
(* The inductive invariant behind the properties above.                     *)

(* A lane's holder is ready, running, or went down with a failed task.      *)
Holders == Range(ready) \cup running \cup lost

Sorted(s) == \A i, j \in 1..Len(s) : i < j => s[i].id < s[j].id
Distinct(s) == \A i, j \in 1..Len(s) : s[i].id = s[j].id => i = j

(* Admissions are numbered in receive order, after everything distributed.  *)
AdmittedLast ==
  /\ Sorted(admitted)
  /\ \A a \in Range(admitted) : a.id \in 1..received
  /\ \A t \in Holders \cup Queued :
       t.id \in 1..received /\ \A a \in Range(admitted) : t.id < a.id

(* No delivery is in two places.                                            *)
OnePlace ==
  /\ Distinct(ready)
  /\ running \cap lost = {}
  /\ Range(ready) \cap (running \cup lost) = {}
  /\ \A t, u \in Holders \cup Queued : t.id = u.id => t = u
  /\ Holders \cap Queued = {}

(* A lane is present in `waiting` while it has exactly one holder, and its  *)
(* queue holds later deliveries of the lane in receive order.               *)
LaneQueues ==
  /\ \A t, u \in Holders : t.lane = u.lane /\ t.lane # NoLane => t = u
  /\ ~discarded => \A t \in Holders : t.lane # NoLane => t.lane \in DOMAIN waiting
  /\ discarded => ready = <<>> /\ DOMAIN waiting = {} /\ admitted = <<>>
  /\ \A l \in DOMAIN waiting :
       /\ Sorted(waiting[l])
       /\ \A u \in Range(waiting[l]) : u.lane = l
       /\ \A t \in Holders, u \in Range(waiting[l]) : t.lane = l => t.id < u.id

(* What started last in a lane precedes everything of it yet to start.      *)
StartedFirst ==
  \A l \in Lanes :
    /\ lastStarted[l] <= received
    /\ \A t \in Range(ready) \cup Queued : t.lane = l => lastStarted[l] < t.id
    /\ \A a \in Range(admitted) : lastStarted[l] < a.id

FlowConfigured == flowOn => Limit > 0

SchedulerInv ==
  /\ TypeOK
  /\ FlowConfigured
  /\ AdmittedLast
  /\ OnePlace
  /\ LaneQueues
  /\ NoStrandedLane
  /\ StartedFirst
  /\ PausedWhileLoaded
  /\ OutstandingExact
=============================================================================
