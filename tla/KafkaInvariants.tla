-------------------------- MODULE KafkaInvariants --------------------------
(***************************************************************************)
(* The inductive invariant of a Kafka source's progress (module              *)
(* KafkaProgress).                                                           *)
(***************************************************************************)
EXTENDS KafkaProgress

(* Some consumer processed the record, or a transaction overtook it; so of   *)
(* all records before an offset.                                             *)
Seen(p, o) == \E g \in Gens \cup {Overtaken} : <<p, g, o>> \in acked
SeenBelow(p, n) == \A o \in Records : o < n => Seen(p, o)

(* The record is registered in the partition's progress, or was processed.   *)
Known(p, o) == o \in DOMAIN active[p].received \/ Seen(p, o)

-----------------------------------------------------------------------------
(* The inductive invariant.                                                  *)

Tracking ==
  [generation : Nat, handoff : BOOLEAN, next : Nat \cup {None},
   received : UNION {[S -> Status] : S \in SUBSET Records}]

Types ==
  /\ active \in [Partitions -> Tracking \cup {Inactive}]
  /\ generations \in [Partitions -> Nat]
  /\ assigned \subseteq Partitions
  /\ fetch \in [Partitions -> Nat]
  /\ committed \in [Partitions -> Nat]
  /\ assigns \in Nat /\ assigns <= MaxAssigns
  /\ held \subseteq Partitions \X Nat \X Records
  /\ channel # Nobody => channel \in Partitions \X Nat \X Records
  /\ pc = "send" => polled \in Partitions \X Nat \X Records
  /\ pc \in {"settle", "gate", "handoffCommit", "revoke"} =>
       polled = [revoked |-> polled.revoked, handed |-> polled.handed, settled |-> polled.settled,
                 positions |-> polled.positions, ok |-> polled.ok]
  /\ acking # Nobody => acking = [d |-> acking.d, at |-> acking.at, next |-> acking.next]

(* Generations grow with every assignment and every revocation, at most      *)
(* three times an assignment; what is under way is of one that has begun.    *)
Generations ==
  /\ \A p \in Partitions :
       /\ generations[p] + (IF IsActive(p) THEN 2 ELSE IF p \in assigned THEN 1 ELSE 0) <= 3 * assigns
       /\ IsActive(p) => p \in assigned /\ active[p].generation = generations[p]
  /\ closed => \A p \in Partitions : ~IsActive(p)
  /\ \A d \in held : d[2] <= generations[d[1]]
  /\ channel # Nobody => channel[2] <= generations[channel[1]]
  /\ pc = "send" => polled[2] <= generations[polled[1]]
  /\ pc \in {"settle", "gate", "handoffCommit", "revoke"} =>
       polled.revoked \subseteq assigned /\ polled.handed \subseteq polled.revoked

(* Tracking starts at the first record received: everything before next was  *)
(* processed, and up to the last registered record nothing is missing.       *)
Contiguous ==
  \A p \in Partitions : IsActive(p) =>
    /\ active[p].next = None => DOMAIN active[p].received = {}
    /\ SeenBelow(p, active[p].next)
    /\ \A o \in DOMAIN active[p].received : o >= active[p].next
    /\ \A o \in Records : (\E r \in DOMAIN active[p].received : o <= r) => Known(p, o)

(* The records on their way to receive follow the registered ones in order.  *)
InOrder ==
  \A p \in Partitions : IsActive(p) /\ ~active[p].handoff =>
    LET g == active[p].generation
        sent(o) == channel = <<p, g, o>>
        taken(o) == pc = "send" /\ polled = <<p, g, o>>
    IN \A o \in Records :
         /\ o < fetch[p] => Known(p, o) \/ sent(o) \/ taken(o)
         /\ \A c \in Records :
              /\ o < c /\ taken(c) => Known(p, o) \/ sent(o)
              /\ o < c /\ sent(c) => Known(p, o)

(* A delivery in progress is registered, or precedes what is tracked.        *)
HeldIsKnown ==
  \A d \in held : IsCurrent(d[1], d[2]) =>
    d[3] \in DOMAIN active[d[1]].received \/ d[3] < active[d[1]].next

(* Every position on its way to the broker has only processed records before *)
(* it.                                                                       *)
PositionsSeen ==
  /\ \A p \in Partitions : SeenBelow(p, committed[p])
  /\ \A c \in orphans : c[1] \in Partitions /\ c[2] \in Nat /\ SeenBelow(c[1], c[2])
  /\ acking # Nobody /\ acking.at \in {"commit", "landed"} =>
       acking.d[1] \in Partitions /\ acking.next \in Nat /\ SeenBelow(acking.d[1], acking.next)
  /\ pc = "handoffCommit" =>
       \A p \in DOMAIN polled.positions :
         p \in Partitions /\ polled.positions[p][2] \in Nat /\ SeenBelow(p, polled.positions[p][2])

(* A transaction is of a transactional source and of current assignments;    *)
(* it commits the offset after the last delivery of its batch.               *)
TxCovers ==
  /\ config.transactional => acking = Nobody
  /\ txn # Nobody =>
       /\ config.transactional
       /\ DOMAIN txn.next \subseteq Partitions /\ txn.batch \subseteq held
       /\ \A p \in DOMAIN txn.next :
            /\ txn.next[p][2] \in Nat
            /\ \E d \in txn.batch : d[1] = p /\ txn.next[p][2] = d[3] + 1
       /\ \A d \in txn.batch :
            d[1] \in DOMAIN txn.next /\ d[2] = txn.next[d[1]][1] /\ d[3] < txn.next[d[1]][2]

(* Only the transactions of a transactional source overtake a record.        *)
OvertakenByTx == config.transactional \/ \A r \in acked : r[2] # Overtaken

(* The commit gate is held by the acknowledgement or the handoff inside it.  *)
GateHeld ==
  /\ acking # Nobody => gate = "ack"
  /\ pc = "handoffCommit" \/ (pc = "revoke" /\ polled.handed # {}) => gate = "handoff"

ProgressInv ==
  /\ Types /\ Generations /\ Contiguous /\ InOrder /\ HeldIsKnown /\ PositionsSeen /\ TxCovers
  /\ DoneIsOfThisAssignment /\ PendingIsHeld /\ TxOnlyOfAssigned

-----------------------------------------------------------------------------
(* Least and greatest offsets.                                               *)

(* Of any records there is a first one and a last one, which Min and Max     *)
(* return.                                                                   *)
OffsetsOrdered ==
  \A S \in SUBSET Records : S # {} =>
    /\ Min(S) \in S /\ \A y \in S : Min(S) <= y
    /\ Max(S) \in S /\ \A y \in S : Max(S) >= y

=============================================================================
