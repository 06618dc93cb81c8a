---------------------------- MODULE KafkaProgress ----------------------------
(***************************************************************************)
(* Offset progress of a Kafka source (src/adapters/kafka/progress.rs,        *)
(* source.rs, poller.rs and the offset commit of transaction.rs).            *)
(*                                                                           *)
(* Four kinds of threads share it.  The polling thread polls records and     *)
(* runs the rebalance callbacks; the subscription's task receives records    *)
(* and pauses and resumes partitions; jobs acknowledge or drop deliveries,   *)
(* one at a time inside the commit gate; a transactional sink commits        *)
(* offsets inside the transaction gate.  Every access to the shared progress *)
(* under its mutex is one step; broker calls happen outside that mutex.      *)
(***************************************************************************)
EXTENDS Integers, FiniteSets, FiniteSetsExt, Functions

CONSTANTS
  Partitions,
  Records,      \* the offsets at which a partition has a record
  Configs,      \* settings: graceful handoff, transactional sink, limit per key
  MaxAssigns,   \* bound: assignments by rebalances
  Nobody        \* the absence of a value

Status == {"pending", "done", "released"}

ASSUME KafkaAssumption ==
  /\ IsFiniteSet(Partitions) /\ Partitions # {}
  /\ Records # {} /\ Records \subseteq Nat
  /\ \A S \in (SUBSET Records) \ {{}} :   \* finitely many: each set of them has a last one
       \E first, last \in S : \A o \in S : first <= o /\ o <= last
  /\ Configs \subseteq [graceful : BOOLEAN, transactional : BOOLEAN, limited : BOOLEAN]
  /\ MaxAssigns \in Nat
  /\ Nobody \notin [generation : Nat, handoff : BOOLEAN, next : Int,
                    received : UNION {[S -> Status] : S \in SUBSET Records}]
  /\ Nobody \notin [d : Partitions \X Nat \X Records, at : {"lost", "commit", "landed"}, next : Int]
  /\ Nobody \notin {"ack", "handoff"} /\ Nobody \notin Partitions \X Nat \X Records

VARIABLES
  config,      \* the source's settings
  active,      \* partition -> its PartitionProgress, or Inactive
  generations, \* partition -> its last generation
  paused,      \* partitions the runtime paused
  assigned,    \* partitions librdkafka assigned to this consumer
  conPaused,   \* partitions paused in librdkafka
  fetch,       \* partition -> offset from which librdkafka returns records
  lost,        \* Consumer::assignment_lost
  assigns,     \* assignments so far
  pc,          \* where the polling thread is
  polled,      \* the record it is sending, or the callback's data
  channel,     \* the records between the polling thread and receive
  held,        \* deliveries neither acknowledged nor dropped
  gate,        \* the commit gate
  acking,      \* the acknowledgement inside the commit gate
  orphans,     \* broker commits whose acknowledgement was dropped
  txn,         \* offsets of the transaction inside the transaction gate
  flow,        \* the runtime's pause or resume that still has to reach librdkafka
  closed,      \* close was called
  committed,   \* partition -> its committed offset in the broker
  acked        \* deliveries processed to their acknowledgement, by any consumer,
               \* and the records a transaction's offsets passed, as Overtaken

progressVars == <<active, generations>>
pollVars == <<pc, polled>>
consumerVars == <<assigned, fetch, lost, assigns>>
flowVars == <<paused, conPaused, flow>>
ackVars == <<gate, acking, orphans>>
brokerVars == <<committed, acked>>
vars == <<config, progressVars, pollVars, consumerVars, flowVars, ackVars, brokerVars,
          channel, held, txn, closed>>

Inactive == Nobody
None == -1
Overtaken == -1   \* in the place of a generation
End == Max(Records) + 1
Gens == 0..(3 * MaxAssigns)
Callback == {"settle", "gate", "handoffCommit", "revoke", "pauseNew"}
Delivery == Partitions \X Gens \X Records
PartitionProgress ==
  [generation : Gens, handoff : BOOLEAN, next : Records \cup 0..End \cup {None},
   received : UNION {[S -> Status] : S \in SUBSET Records}]

Init ==
  /\ config \in Configs
  /\ active = [p \in Partitions |-> Inactive]
  /\ generations = [p \in Partitions |-> 0]
  /\ paused = {} /\ conPaused = {} /\ flow = <<Nobody>>
  /\ assigned = {}
  /\ fetch = [p \in Partitions |-> 0]
  /\ lost = FALSE
  /\ assigns = 0
  /\ pc = "poll" /\ polled = Nobody
  /\ channel = Nobody
  /\ held = {}
  /\ gate = Nobody /\ acking = Nobody /\ orphans = {}
  /\ txn = Nobody
  /\ closed = FALSE
  /\ committed = [p \in Partitions |-> 0]
  /\ acked = {}

---------------------------------------------------------------------------
(* Progress                                                                  *)

IsActive(p) == active[p] # Inactive

IsCurrent(p, g) == IsActive(p) /\ active[p].generation = g

(* Mutant: dropped deliveries do not hold the commit back.                   *)
CommitPositionPastReleased(p) ==
  LET r == active[p].received
      open == {o \in DOMAIN r : r[o] = "pending"}
      candidate == IF open # {} THEN Min(open)
                   ELSE IF DOMAIN r # {} THEN Max(DOMAIN r) + 1
                   ELSE active[p].next
  IN IF active[p].next # None /\ candidate > active[p].next THEN candidate ELSE None

(* PartitionProgress::commit_position: the first registered offset that is   *)
(* not acknowledged, or the one after the last; None unless past next.       *)
CommitPosition(p) ==
  LET r == active[p].received
      open == {o \in DOMAIN r : r[o] # "done"}
      candidate == IF open # {} THEN Min(open)
                   ELSE IF DOMAIN r # {} THEN Max(DOMAIN r) + 1
                   ELSE active[p].next
  IN IF active[p].next # None /\ candidate > active[p].next THEN candidate ELSE None

Revoke(S) ==
  /\ active' = [p \in Partitions |-> IF p \in S THEN Inactive ELSE active[p]]
  /\ generations' = [p \in Partitions |->
                       IF p \in S THEN generations[p] + 1 ELSE generations[p]]

RevokeAll == Revoke({p \in Partitions : IsActive(p)})

Activate(S) ==
  LET fresh == {p \in S : ~IsActive(p)} IN
  /\ generations' = [p \in Partitions |->
                       IF p \in fresh THEN generations[p] + 1 ELSE generations[p]]
  /\ active' = [p \in Partitions |->
                  IF p \in fresh
                  THEN [generation |-> generations[p] + 1, handoff |-> FALSE,
                        next |-> None, received |-> [o \in {} |-> "pending"]]
                  ELSE active[p]]

(* register, when the record is not stale: an offset before next is          *)
(* delivered without being tracked.                                          *)
Register(p, o) ==
  active' = [active EXCEPT
    ![p].next = IF @ = None THEN o ELSE @,
    ![p].received = IF active[p].next = None \/ o >= active[p].next
                    THEN [x \in DOMAIN @ \cup {o} |-> IF x \in DOMAIN @ THEN @[x] ELSE "pending"]
                    ELSE @]

(* Mutant: records are registered during a handoff.                          *)
StaleByGeneration(p, g) == ~IsCurrent(p, g)

Stale(p, g) == ~IsCurrent(p, g) \/ active[p].handoff

(* committed, for several partitions: pos maps them to <<generation, next>>. *)
Committed(pos) ==
  active' = [p \in Partitions |->
    IF p \in DOMAIN pos /\ IsCurrent(p, pos[p][1])
         /\ active[p].next # None /\ pos[p][2] > active[p].next
    THEN [active[p] EXCEPT !.next = pos[p][2],
                           !.received = Restrict(@, {o \in DOMAIN @ : o >= pos[p][2]})]
    ELSE active[p]]

(* The broker's offsets after a commit of these positions.                   *)
Offsets(pos) ==
  [p \in Partitions |-> IF p \in DOMAIN pos THEN pos[p][2] ELSE committed[p]]

---------------------------------------------------------------------------
(* The polling thread                                                        *)

Polling == pc = "poll" /\ ~closed

(* Poller: one poll and the lookup of the record's generation.  A record of  *)
(* a partition that is not assigned is skipped.                              *)
Poll(p) ==
  /\ Polling
  /\ p \in assigned \ conPaused
  /\ fetch[p] < End
  /\ LET o == Min({r \in Records : r >= fetch[p]}) IN
     /\ fetch' = [fetch EXCEPT ![p] = o + 1]
     /\ IF IsActive(p)
        THEN pc' = "send" /\ polled' = <<p, active[p].generation, o>>
        ELSE UNCHANGED pollVars
  /\ UNCHANGED <<config, progressVars, assigned, lost, assigns, flowVars, ackVars, brokerVars,
                 channel, held, txn, closed>>

(* The channel holds one record; a dropped receiver ends the thread.         *)
Send ==
  /\ pc = "send"
  /\ channel = Nobody \/ closed
  /\ channel' = IF closed THEN channel ELSE polled
  /\ pc' = "poll" /\ polled' = Nobody
  /\ UNCHANGED <<config, progressVars, consumerVars, flowVars, ackVars, brokerVars, held, txn,
                 closed>>

(* pre_rebalance for a revoke, until it has to wait: begin_handoff unless    *)
(* the handoff is off, the assignment is lost or no partition is active.     *)
(* A lost assignment is revoked as a whole.                                  *)
RevokeBegins(S) ==
  /\ Polling
  /\ S # {} /\ S \subseteq assigned
  /\ lost => S = assigned
  /\ LET handed == {p \in S : IsActive(p)} IN
     IF config.graceful /\ ~lost /\ handed # {}
     THEN /\ active' = [p \in Partitions |-> IF p \in handed
                          THEN [active[p] EXCEPT !.handoff = TRUE] ELSE active[p]]
          /\ pc' = "settle"
          /\ polled' = [revoked |-> S, handed |-> handed, settled |-> FALSE,
                        positions |-> <<>>, ok |-> FALSE]
     ELSE /\ pc' = "revoke"
          /\ polled' = [revoked |-> S, handed |-> {}, settled |-> FALSE,
                        positions |-> <<>>, ok |-> FALSE]
          /\ UNCHANGED active
  /\ UNCHANGED <<config, generations, consumerVars, flowVars, ackVars, brokerVars, channel, held,
                 txn, closed>>

(* Whether no delivery of the handed off partitions is pending.              *)
IsSettled ==
  \A p \in polled.handed : IsActive(p) =>
    \A o \in DOMAIN active[p].received : active[p].received[o] # "pending"

(* wait_settled returns once nothing is pending or its timeout passed.       *)
Settle ==
  /\ pc = "settle"
  /\ pc' = "gate"
  /\ polled' = [polled EXCEPT !.settled = IsSettled]
  /\ UNCHANGED <<config, progressVars, consumerVars, flowVars, ackVars, brokerVars, channel, held,
                 txn, closed>>

(* hand_off takes the commit gate and reads the positions to commit.         *)
TakeGate ==
  /\ pc = "gate"
  /\ gate = Nobody
  /\ gate' = "handoff"
  /\ LET ready == {p \in polled.handed : IsActive(p) /\ CommitPosition(p) # None} IN
     /\ pc' = IF ready = {} THEN "revoke" ELSE "handoffCommit"
     /\ polled' = [polled EXCEPT
          !.positions = [p \in ready |-> <<active[p].generation, CommitPosition(p)>>],
          !.ok = ready = {}]
  /\ UNCHANGED <<config, progressVars, consumerVars, flowVars, acking, orphans, brokerVars,
                 channel, held, txn, closed>>

(* The broker accepts the handoff's commit, or refuses it.                   *)
HandoffCommit ==
  /\ pc = "handoffCommit"
  /\ pc' = "revoke"
  /\ \/ /\ committed' = Offsets(polled.positions)
        /\ Committed(polled.positions)
        /\ polled' = [polled EXCEPT !.ok = TRUE]
     \/ UNCHANGED <<committed, active, polled>>
  /\ UNCHANGED <<config, generations, consumerVars, flowVars, ackVars, acked, channel, held, txn,
                 closed>>

(* The rest of the callback, in the transaction gate, and the unassignment.  *)
RevokeEnds ==
  /\ pc = "revoke"
  /\ txn = Nobody
  /\ Revoke(polled.revoked)
  /\ assigned' = assigned \ polled.revoked
  /\ conPaused' = conPaused \ polled.revoked
  /\ lost' = (lost /\ assigned' # {})
  /\ gate' = IF polled.handed = {} THEN gate ELSE Nobody
  /\ pc' = "poll" /\ polled' = Nobody
  /\ UNCHANGED <<config, fetch, assigns, paused, flow, acking, orphans, brokerVars, channel, held,
                 txn, closed>>

(* Mutant: an assignment does not pause again.                               *)
AssignUnpaused(S) ==
  /\ Polling
  /\ assigns < MaxAssigns
  /\ S # {} /\ S \subseteq Partitions \ assigned
  /\ ~lost
  /\ assigns' = assigns + 1
  /\ assigned' = assigned \cup S
  /\ fetch' = [p \in Partitions |-> IF p \in S THEN committed[p] ELSE fetch[p]]
  /\ Activate(S)
  /\ UNCHANGED <<config, pollVars, lost, flowVars, ackVars, brokerVars, channel, held, txn, closed>>

(* librdkafka assigns partitions, then post_rebalance activates them and     *)
(* collects those to pause.  librdkafka starts from the committed offset.    *)
Assign(S) ==
  /\ Polling
  /\ assigns < MaxAssigns
  /\ S # {} /\ S \subseteq Partitions \ assigned
  /\ ~lost
  /\ assigns' = assigns + 1
  /\ assigned' = assigned \cup S
  /\ fetch' = [p \in Partitions |-> IF p \in S THEN committed[p] ELSE fetch[p]]
  /\ Activate(S)
  /\ IF S \cap paused = {} THEN UNCHANGED pollVars
     ELSE pc' = "pauseNew" /\ polled' = S \cap paused
  /\ UNCHANGED <<config, lost, flowVars, ackVars, brokerVars, channel, held, txn, closed>>

(* post_rebalance pauses them after it released the progress lock.           *)
PauseNew ==
  /\ pc = "pauseNew"
  /\ conPaused' = conPaused \cup polled
  /\ pc' = "poll" /\ polled' = Nobody
  /\ UNCHANGED <<config, progressVars, consumerVars, paused, flow, ackVars, brokerVars, channel,
                 held, txn, closed>>

---------------------------------------------------------------------------
(* The subscription's task                                                   *)

(* receive: takes a record and registers it, or skips a stale one.           *)
Receive ==
  /\ ~closed
  /\ channel # Nobody
  /\ channel' = Nobody
  /\ LET p == channel[1]
         g == channel[2]
         o == channel[3]
     IN IF Stale(p, g) THEN UNCHANGED <<active, held>>
        ELSE Register(p, o) /\ held' = held \cup {channel}
  /\ UNCHANGED <<config, generations, pollVars, consumerVars, flowVars, ackVars, brokerVars, txn,
                 closed>>

(* pause: marks the partition, and reaches librdkafka if it is active.  The  *)
(* runtime pauses a partition with unfinished deliveries.                    *)
Pause(p) ==
  /\ config.limited
  /\ flow = <<Nobody>> /\ ~closed
  /\ p \notin paused /\ \E d \in held : d[1] = p
  /\ paused' = paused \cup {p}
  /\ flow' = IF IsActive(p) THEN <<"pause", p>> ELSE flow
  /\ UNCHANGED <<config, progressVars, pollVars, consumerVars, conPaused, ackVars, brokerVars,
                 channel, held, txn, closed>>

Resume(p) ==
  /\ flow = <<Nobody>> /\ ~closed
  /\ p \in paused
  /\ paused' = paused \ {p}
  /\ flow' = IF IsActive(p) THEN <<"resume", p>> ELSE flow
  /\ UNCHANGED <<config, progressVars, pollVars, consumerVars, conPaused, ackVars, brokerVars,
                 channel, held, txn, closed>>

(* The call on the consumer; it fails for a partition that is not assigned.  *)
FlowReaches ==
  /\ flow # <<Nobody>>
  /\ conPaused' = IF flow[1] = "resume" THEN conPaused \ {flow[2]}
                  ELSE conPaused \cup ({flow[2]} \cap assigned)
  /\ flow' = <<Nobody>>
  /\ UNCHANGED <<config, progressVars, pollVars, consumerVars, paused, ackVars, brokerVars,
                 channel, held, txn, closed>>

(* close: revokes everything in the transaction gate and stops the poller.   *)
(* The runtime has joined or aborted every acknowledgement by then.          *)
Close ==
  /\ ~closed /\ flow = <<Nobody>> /\ acking = Nobody
  /\ txn = Nobody
  /\ closed' = TRUE
  /\ channel' = Nobody
  /\ RevokeAll
  /\ UNCHANGED <<config, pollVars, consumerVars, flowVars, ackVars, brokerVars, held, txn>>

---------------------------------------------------------------------------
(* Jobs                                                                      *)

(* Drop for KafkaMessage: release.                                           *)
DropDelivery(d) ==
  /\ d \in held
  /\ d \notin (IF txn = Nobody THEN {} ELSE txn.batch)
  /\ held' = held \ {d}
  /\ LET p == d[1]
         o == d[3]
     IN active' = IF IsCurrent(p, d[2]) /\ o \in DOMAIN active[p].received
                       /\ active[p].received[o] = "pending"
                  THEN [active EXCEPT ![p].received[o] = "released"] ELSE active
  /\ UNCHANGED <<config, generations, pollVars, consumerVars, flowVars, ackVars, brokerVars,
                 channel, txn, closed>>

(* complete, of a delivery of the current assignment.  The position to       *)
(* commit is None when nothing new can be committed.                         *)
Complete(p, o) ==
  active' = IF o < active[p].next THEN active
            ELSE [active EXCEPT ![p].received[o] = "done"]

(* Mutant: complete accepts a delivery of an earlier assignment.             *)
AckBeginsAnyGeneration(d) ==
  /\ ~config.transactional
  /\ d \in held
  /\ gate = Nobody
  /\ held' = held \ {d}
  /\ acked' = acked \cup {d}
  /\ ~lost /\ IsActive(d[1])
  /\ Complete(d[1], d[3])
  /\ LET n == IF d[3] < active[d[1]].next THEN None ELSE CommitPosition(d[1])' IN
     IF n = None THEN UNCHANGED <<gate, acking>>
     ELSE gate' = "ack" /\ acking' = [d |-> d, at |-> "commit", next |-> n]
  /\ UNCHANGED <<config, generations, pollVars, consumerVars, flowVars, orphans, committed,
                 channel, txn, closed>>

(* ack, inside the commit gate, up to its broker commit.  An acknowledgement *)
(* of an ended assignment fails, one with no position to commit is done.     *)
AckBegins(d) ==
  /\ ~config.transactional
  /\ d \in held
  /\ gate = Nobody
  /\ held' = held \ {d}
  /\ acked' = acked \cup {d}
  /\ LET p == d[1]
         o == d[3]
     IN \/ /\ lost
           /\ gate' = "ack" /\ acking' = [d |-> d, at |-> "lost", next |-> None]
           /\ UNCHANGED active
        \/ /\ ~lost /\ ~IsCurrent(p, d[2])
           /\ UNCHANGED <<active, gate, acking>>
        \/ /\ ~lost /\ IsCurrent(p, d[2])
           /\ Complete(p, o)
           /\ LET n == IF o < active[p].next THEN None ELSE CommitPosition(p)' IN
              IF n = None THEN UNCHANGED <<gate, acking>>
              ELSE gate' = "ack" /\ acking' = [d |-> d, at |-> "commit", next |-> n]
  /\ UNCHANGED <<config, generations, pollVars, consumerVars, flowVars, orphans, committed,
                 channel, txn, closed>>

AckEnds == gate' = Nobody /\ acking' = Nobody

(* ack found the assignment lost: revoke_all, which a rebalance may precede. *)
AckLost ==
  /\ acking # Nobody /\ acking.at = "lost"
  /\ RevokeAll
  /\ AckEnds
  /\ UNCHANGED <<config, pollVars, consumerVars, flowVars, orphans, brokerVars, channel, held,
                 txn, closed>>

(* The synchronous commit on its blocking thread.                            *)
AckCommitLands ==
  /\ acking # Nobody /\ acking.at = "commit"
  /\ committed' = [committed EXCEPT ![acking.d[1]] = acking.next]
  /\ acking' = [acking EXCEPT !.at = "landed"]
  /\ UNCHANGED <<config, progressVars, pollVars, consumerVars, flowVars, gate, orphans, acked,
                 channel, held, txn, closed>>

(* Mutant: a failed commit keeps the gate.                                   *)
AckCommitFailsHolding ==
  /\ acking # Nobody /\ acking.at = "commit"
  /\ acking' = Nobody
  /\ UNCHANGED <<config, progressVars, pollVars, consumerVars, flowVars, gate, orphans, brokerVars,
                 channel, held, txn, closed>>

(* A failed commit leaves the completed delivery in place.                   *)
AckCommitFails ==
  /\ acking # Nobody /\ acking.at = "commit"
  /\ AckEnds
  /\ UNCHANGED <<config, progressVars, pollVars, consumerVars, flowVars, orphans, brokerVars,
                 channel, held, txn, closed>>

AckCommitted ==
  /\ acking # Nobody /\ acking.at = "landed"
  /\ Committed([p \in {acking.d[1]} |-> <<acking.d[2], acking.next>>])
  /\ AckEnds
  /\ UNCHANGED <<config, generations, pollVars, consumerVars, flowVars, orphans, brokerVars,
                 channel, held, txn, closed>>

(* The task is dropped during the commit, which its thread still finishes.   *)
AckDropped ==
  /\ acking # Nobody /\ acking.at \in {"commit", "landed"}
  /\ orphans' = IF acking.at = "commit" THEN orphans \cup {<<acking.d[1], acking.next>>}
                ELSE orphans
  /\ AckEnds
  /\ UNCHANGED <<config, progressVars, pollVars, consumerVars, flowVars, brokerVars, channel,
                 held, txn, closed>>

OrphanEnds ==
  /\ \E c \in orphans :
       /\ orphans' = orphans \ {c}
       /\ committed' \in {committed, [committed EXCEPT ![c[1]] = c[2]]}
  /\ UNCHANGED <<config, progressVars, pollVars, consumerVars, flowVars, gate, acking, acked,
                 channel, held, txn, closed>>

---------------------------------------------------------------------------
(* The transactional sink                                                    *)

(* SourceOffsets::commit takes the transaction gate and checks that every    *)
(* delivery's assignment is current; a lost assignment revokes everything.   *)
(* The batch is any of the deliveries under way: what the subscription puts  *)
(* into one, and what may overtake an earlier delivery, is for module        *)
(* TransactionBatch to say.                                                  *)
TxBegins(B) ==
  /\ config.transactional
  /\ B # {} /\ B \subseteq held
  /\ txn = Nobody
  /\ \/ /\ lost
        /\ RevokeAll
        /\ UNCHANGED txn
     \/ /\ ~lost
        /\ \A d \in B : IsCurrent(d[1], d[2])
        /\ txn' = [batch |-> B,
                   next |-> [p \in {d[1] : d \in B} |->
                              LET mine == {d \in B : d[1] = p}
                              IN <<active[p].generation, Max({d[3] : d \in mine}) + 1>>]]
        /\ UNCHANGED progressVars
  /\ UNCHANGED <<config, pollVars, consumerVars, flowVars, ackVars, brokerVars, channel, held,
                 closed>>

(* The records whose deliveries are neither in the batch nor finished, and   *)
(* which `committed` forgets with those before the committed offset.         *)
Overtakes ==
  {r \in Partitions \X {Overtaken} \X Records :
     /\ r[1] \in DOMAIN txn.next
     /\ r[3] \in DOMAIN active[r[1]].received /\ r[3] < txn.next[r[1]][2]
     /\ <<r[1], txn.next[r[1]][1], r[3]>> \notin txn.batch}

TxCommits ==
  /\ txn # Nobody
  /\ committed' = Offsets(txn.next)
  /\ Committed(txn.next)
  /\ acked' = acked \cup txn.batch \cup Overtakes
  /\ held' = held \ txn.batch
  /\ txn' = Nobody
  /\ UNCHANGED <<config, generations, pollVars, consumerVars, flowVars, ackVars, channel, closed>>

(* The transaction fails and is aborted; the batch may be tried again.       *)
TxFails ==
  /\ txn # Nobody
  /\ txn' = Nobody
  /\ UNCHANGED <<config, progressVars, pollVars, consumerVars, flowVars, ackVars, brokerVars,
                 channel, held, closed>>

---------------------------------------------------------------------------
(* The broker and the rest of the group (external)                           *)

Lose ==
  /\ ~lost /\ ~closed /\ assigned # {}
  /\ lost' = TRUE
  /\ UNCHANGED <<config, progressVars, pollVars, assigned, fetch, assigns, flowVars, ackVars,
                 brokerVars, channel, held, txn, closed>>

(* Another consumer owns the partition, processes a record and commits it.   *)
OtherOwner(p) ==
  /\ p \notin assigned \/ lost
  /\ committed[p] < End
  /\ LET o == Min({r \in Records : r >= committed[p]}) IN
     /\ committed' = [committed EXCEPT ![p] = o + 1]
     /\ acked' = acked \cup {<<p, 0, o>>}
  /\ UNCHANGED <<config, progressVars, pollVars, consumerVars, flowVars, ackVars, channel, held,
                 txn, closed>>

CallbackStep == Settle \/ TakeGate \/ HandoffCommit \/ RevokeEnds \/ PauseNew
AckStep == AckLost \/ AckCommitLands \/ AckCommitFails \/ AckCommitted
TxStep == TxCommits \/ TxFails

Next ==
  \/ \E p \in Partitions : Poll(p) \/ Pause(p) \/ Resume(p) \/ OtherOwner(p)
  \/ \E S \in SUBSET Partitions : RevokeBegins(S) \/ Assign(S)
  \/ Send \/ CallbackStep \/ Receive \/ FlowReaches \/ Close
  \/ \E d \in held : DropDelivery(d) \/ AckBegins(d)
  \/ AckStep \/ AckDropped \/ OrphanEnds
  \/ \E B \in SUBSET held : TxBegins(B)
  \/ TxStep \/ Lose

(* The commit gate is granted in order of arrival, and a transaction that    *)
(* failed waits before it is tried again.                                    *)
Fairness == SF_vars(CallbackStep) /\ WF_vars(AckStep \/ TxStep)

Spec == Init /\ [][Next]_vars /\ Fairness

---------------------------------------------------------------------------
(* Properties                                                                *)

TypeOK ==
  /\ config \in Configs
  /\ \A p \in Partitions : IsActive(p) => active[p] \in PartitionProgress
  /\ generations \in [Partitions -> Gens]
  /\ {paused, assigned, conPaused} \subseteq SUBSET Partitions
  /\ fetch \in [Partitions -> 0..End]
  /\ {lost, closed} \subseteq BOOLEAN
  /\ pc \in {"poll", "send"} \cup Callback
  /\ channel \in Delivery \cup {Nobody} /\ held \subseteq Delivery
  /\ gate \in {Nobody, "ack", "handoff"}
  /\ orphans \subseteq Partitions \X (0..End)
  /\ committed \in [Partitions -> 0..End]

(* The broker's committed offset never passes a record that no consumer has  *)
(* processed: acknowledgements out of order, late commits of an earlier      *)
(* assignment, failed commits and handoffs never skip a record.  A           *)
(* transaction passes none either, but for those received and overtaken by   *)
(* a later one in its batch; without a transactional sink there are none.    *)
NothingSkipped ==
  \A p \in Partitions : \A o \in Records : o < committed[p] =>
    \/ \E g \in Gens : <<p, g, o>> \in acked
    \/ config.transactional /\ <<p, Overtaken, o>> \in acked

(* Only a delivery of the current assignment counts as progress of that      *)
(* assignment: complete rejects acknowledgements of an earlier generation,   *)
(* though the offset may be pending again.                                   *)
DoneIsOfThisAssignment ==
  \A p \in Partitions : IsActive(p) =>
    \A o \in DOMAIN active[p].received :
      active[p].received[o] = "done" => <<p, active[p].generation, o>> \in acked

(* Every pending offset has a delivery that can still be acknowledged or     *)
(* dropped, so a handoff never waits for one that nobody holds.              *)
PendingIsHeld ==
  \A p \in Partitions : IsActive(p) =>
    \A o \in DOMAIN active[p].received :
      active[p].received[o] = "pending" =>
        LET d == <<p, active[p].generation, o>>
        IN d \in held \/ (acking # Nobody /\ acking.at = "lost" /\ acking.d = d)

(* A handoff that settled before its timeout abandons no delivery but those  *)
(* a transaction has overtaken, which it does not wait for.  One whose       *)
(* commit succeeded leaves an acknowledged delivery uncommitted only behind  *)
(* an unacknowledged one, when the revoke cancels the deliveries: the commit *)
(* gate is held until then.                                                  *)
HandoffIsComplete ==
  pc = "revoke" => \A p \in polled.handed : IsActive(p) =>
    /\ polled.settled => \A d \in held :
         d[1] = p /\ d[2] = active[p].generation => <<p, Overtaken, d[3]>> \in acked
    /\ polled.ok => LET r == active[p].received
                    IN \A o \in DOMAIN r : r[o] = "done" => \E e \in DOMAIN r : e < o /\ r[e] # "done"

(* A transaction commits offsets only of assignments that have not ended:    *)
(* a revoke and close wait for the transaction gate.                         *)
TxOnlyOfAssigned ==
  txn # Nobody => \A p \in DOMAIN txn.next : IsCurrent(p, txn.next[p][1])

(* What the progress of a partition keeps true under all of this: its types  *)
(* and the three properties above that compare it with deliveries, handoffs  *)
(* and transactions of other threads.                                        *)
KafkaInv == TypeOK /\ DoneIsOfThisAssignment /\ PendingIsHeld /\ TxOnlyOfAssigned

(* A partition the runtime paused stays paused across a revoke and a later   *)
(* assignment: it returns records only while a callback is pausing it.       *)
PauseSurvives ==
  \A p \in paused \cap assigned :
    \/ p \in conPaused
    \/ flow = <<"pause", p>>
    \/ pc = "pauseNew" /\ p \in polled
    \/ ~IsActive(p)

(* A rebalance callback always returns, whatever acknowledgements and        *)
(* transactions are doing, so the consumer polls again.                      *)
CallbackReturns == pc \in Callback ~> pc = "poll"

(* A partition is paused in librdkafka only while the runtime wants it so    *)
(* (docs/adapters/kafka.md: until the runtime resumes it).                   *)
ResumedIsFetched ==
  flow = <<Nobody>> /\ pc \notin Callback /\ ~lost => conPaused \subseteq paused

(* After a lost assignment the next assignment resumes processing            *)
(* (docs/plan.md): records of an assigned partition are not skipped.         *)
NextAssignmentResumes ==
  ~lost /\ ~closed /\ acking = Nobody => \A p \in assigned : IsActive(p)
=============================================================================
