------------------------ MODULE KafkaProgressProofs ------------------------
(***************************************************************************)
(* Proofs about the offset progress of a Kafka source (module                *)
(* KafkaProgress): no committed offset passes a record that nobody           *)
(* processed, paused partitions stay paused, and handoffs are complete, for  *)
(* any number of partitions, records and assignments and every interleaving  *)
(* of polling, callbacks, acknowledgements, handoffs and transactions.       *)
(***************************************************************************)
EXTENDS KafkaProgressLemmas, KafkaHandoffLemmas

(* Steps are first-order unless they cite the SMT solver; each prover has    *)
(* thirty seconds for a step.                                                *)
USE ZenonT(30)

-----------------------------------------------------------------------------
(* Acknowledgements.                                                         *)

(* An acknowledgement, up to its commit.  It counts as processed even when   *)
(* its assignment has ended; only a current one changes the progress, and    *)
(* the position it commits is read from the progress it leaves.              *)
LEMMA AckBeginsKeeps ==
  ASSUME OffsetsOrdered, ProgressInv, GateHeld, NEW d \in held, AckBegins(d) PROVE ProgressInv'
<1> USE DEF ProgressInv
<1>0. PICK p \in Partitions, o \in Records : p = d[1] /\ o = d[3] /\ d[2] \in Nat /\ d = <<p, d[2], o>>
  BY SMTT(30) DEF Types
<1> DEFINE current == ~lost /\ IsCurrent(p, d[2])
           marks == current /\ ~(o < active[p].next)
           calls == marks /\ CommitPosition(p)' # None
<1>1. /\ UNCHANGED <<config, generations, assigned, fetch, assigns, pc, polled, channel,
                     orphans, txn, closed, committed>>
      /\ ~config.transactional
      /\ held' = held \ {d} /\ acked' = acked \cup {d}
  BY DEF AckBegins, pollVars, consumerVars
<1>2. /\ active' = IF marks THEN [active EXCEPT ![p].received[o] = "done"] ELSE active
      /\ acking' = IF lost THEN [d |-> d, at |-> "lost", next |-> None]
                   ELSE IF calls THEN [d |-> d, at |-> "commit", next |-> CommitPosition(p)']
                   ELSE acking
  BY <1>0 DEF AckBegins, Complete
<1>3. marks => IsActive(p) /\ o \in DOMAIN active[p].received /\ active[p].generation = d[2]
  BY <1>0 DEF HeldIsKnown, IsCurrent
<1>4. /\ active' \in [Partitions -> Tracking \cup {Inactive}]
      /\ \A q \in Partitions :
           /\ Shrinks(q) /\ (IsActive(q)' <=> IsActive(q))
           /\ IsActive(q) => active'[q].generation = active[q].generation
      /\ marks => active'[p].received[o] = "done"
  <2>1. CASE marks
    <3>1. active' = [active EXCEPT ![p].received[o] = "done"]
      BY <1>2, <2>1
    <3>2. <<p, active[p].generation, o>> \in acked' /\ acked \subseteq acked'
      BY <1>0, <1>1, <1>3, <2>1
    <3> QED
      BY <1>3, <2>1, <3>1, <3>2, MarkFacts
  <2>2. CASE ~marks
    <3>1. active' = active
      BY <1>2, <2>2
    <3>2. \A q \in Partitions : Shrinks(q)
      BY <1>1, <3>1, SameShrinks
    <3> QED
      BY <2>2, <3>1, <3>2 DEF Types, IsActive
  <2> QED
    BY <2>1, <2>2
<1>5. Types'
  <2>1. acking' # Nobody => acking' = [d |-> acking'.d, at |-> acking'.at, next |-> acking'.next]
    <3>1. CASE lost
      BY <1>2, <3>1
    <3>2. CASE ~lost /\ calls
      <4>1. PICK n : acking' = [d |-> d, at |-> "commit", next |-> n]
        BY <1>2, <3>2
      <4> QED
        BY <4>1
    <3>3. CASE ~lost /\ ~calls
      BY <1>2, <3>3 DEF Types
    <3> QED
      BY <3>1, <3>2, <3>3
  <2> QED
    BY <1>1, <1>4, <2>1 DEF Types
<1>6. Contiguous' /\ InOrder' /\ HeldIsKnown' /\ DoneIsOfThisAssignment'
  BY <1>1, <1>4, <1>5, ShrinkingKeeps
<1>7. Generations'
  BY <1>1, <1>4, GenerationsStay
<1>8. PendingIsHeld'
  <2> SUFFICES ASSUME NEW q \in Partitions, IsActive(q)',
                      NEW x \in DOMAIN active'[q].received, active'[q].received[x] = "pending"
               PROVE  LET e == <<q, active'[q].generation, x>>
                      IN e \in held' \/ (acking' # Nobody /\ acking'.at = "lost" /\ acking'.d = e)
    BY DEF PendingIsHeld
  <2> DEFINE e == <<q, active[q].generation, x>>
  <2>1. /\ IsActive(q) /\ x \in DOMAIN active[q].received
        /\ active'[q].generation = active[q].generation /\ active[q].received[x] = "pending"
        /\ x >= active'[q].next
    BY <1>4 DEF Shrinks
  <2>2. e \in held \/ (acking # Nobody /\ acking.at = "lost" /\ acking.d = e)
    BY <2>1 DEF PendingIsHeld
  <2>3. gate = Nobody
    BY DEF AckBegins
  <2>4. e \in held
    BY <2>2, <2>3, KafkaAssumption DEF GateHeld
  <2>5. CASE e # d
    BY <1>1, <2>1, <2>4, <2>5
  <2>6. CASE e = d /\ lost
    <3>1. acking' = [d |-> d, at |-> "lost", next |-> None]
      BY <1>2, <2>6
    <3>2. acking' \in [d : Partitions \X Nat \X Records, at : {"lost", "commit", "landed"}, next : Int]
      BY <1>0, <3>1, SMTT(30) DEF None
    <3>3. acking' # Nobody
      BY <3>2, KafkaAssumption
    <3> QED
      BY <2>1, <2>6, <3>1, <3>3
  <2>7. CASE e = d /\ ~lost
    <3>1. q = p /\ x = o /\ IsCurrent(p, d[2]) /\ current
      BY <1>0, <2>1, <2>7 DEF IsCurrent
    <3>2. o >= active[p].next
      BY <2>1, <3>1 DEF Contiguous
    <3>3. active[p].next \in Nat \cup {-1} /\ o \in Nat
      BY <2>1, <3>1, Parts, KafkaAssumption
    <3>4. marks
      BY <3>1, <3>2, <3>3, SMTT(30)
    <3> QED
      BY <1>4, <3>1, <3>4
  <2> QED
    BY <2>5, <2>6, <2>7
<1>9. PositionsSeen'
  <2>0. acked \subseteq acked'
    BY <1>1
  <2>1. \A q, n : SeenBelow(q, n) => \A x \in Records : x < n => Seen(q, x)'
    BY <2>0, SeenStays DEF SeenBelow
  <2>2. \A c \in orphans : c[1] \in Partitions /\ c[2] \in Nat /\ SeenBelow(c[1], c[2])'
    BY <2>1 DEF PositionsSeen, SeenBelow
  <2>3. pc' = "handoffCommit" => \A q \in DOMAIN polled'.positions :
          q \in Partitions /\ polled'.positions[q][2] \in Nat /\ SeenBelow(q, polled.positions[q][2])'
    BY <1>1, <2>1 DEF PositionsSeen, SeenBelow
  <2>4. \A q \in Partitions : SeenBelow(q, committed[q])'
    BY <1>1, <2>1 DEF PositionsSeen, SeenBelow
  <2>5. acking' # Nobody /\ acking'.at \in {"commit", "landed"} =>
          acking'.d[1] \in Partitions /\ acking'.next \in Nat
          /\ SeenBelow(acking.d[1], acking.next)'
    <3>1. CASE lost
      BY <1>2, <3>1
    <3>2. CASE ~lost /\ calls
      <4>1. IsActive(p)' /\ CommitPosition(p)' # None
        BY <1>3, <1>4, <3>2
      <4>2. CommitPosition(p)' \in Nat /\ SeenBelow(p, CommitPosition(p))'
        <5>1. OffsetsOrdered'
          BY DEF OffsetsOrdered
        <5>2. CommitsSeen'
          BY <1>5, <1>6, <1>7, <5>1, PositionIsSeen, PTL
        <5> QED
          BY <4>1, <5>2 DEF CommitsSeen
      <4>3. PICK n : n = CommitPosition(p)'
        OBVIOUS
      <4>4. acking' = [d |-> d, at |-> "commit", next |-> n]
        BY <1>2, <3>2, <4>3
      <4>5. acking'.d[1] = p /\ acking'.next = n /\ n \in Nat
        BY <1>0, <4>2, <4>3, <4>4
      <4>6. \A x \in Records : x < n => Seen(p, x)'
        BY <4>2, <4>3 DEF SeenBelow
      <4> QED
        BY <4>5, <4>6 DEF SeenBelow, Seen
    <3>3. CASE ~lost /\ ~calls
      <4>1. acking' = acking
        BY <1>2, <3>3
      <4> QED
        BY <2>1, <4>1 DEF PositionsSeen, SeenBelow, Seen
    <3> QED
      BY <3>1, <3>2, <3>3
  <2> QED
    BY <1>1, <2>2, <2>3, <2>4, <2>5 DEF PositionsSeen
<1>10. TxCovers' /\ TxOnlyOfAssigned'
  <2>1. txn = Nobody
    BY <1>1 DEF TxCovers
  <2> QED
    BY <1>1, <2>1 DEF TxCovers, TxOnlyOfAssigned
<1> QED
  BY <1>5, <1>6, <1>7, <1>8, <1>9, <1>10

-----------------------------------------------------------------------------
(* The records on their way: poll, send, receive, and a new assignment.      *)

LEMMA SameRest ==
  ASSUME Contiguous, HeldIsKnown, DoneIsOfThisAssignment, PendingIsHeld,
         UNCHANGED <<active, held, acked, acking>>
  PROVE  Contiguous' /\ HeldIsKnown' /\ DoneIsOfThisAssignment' /\ PendingIsHeld'
<1>1. Contiguous'
  BY DEF Contiguous, SeenBelow, Known, Seen, IsActive
<1>2. HeldIsKnown'
  BY DEF HeldIsKnown, IsCurrent, IsActive
<1>3. DoneIsOfThisAssignment'
  BY DEF DoneIsOfThisAssignment, IsActive
<1>4. PendingIsHeld'
  BY DEF PendingIsHeld, IsActive
<1> QED
  BY <1>1, <1>2, <1>3, <1>4

(* A poll takes the next record: none before it is left out.                 *)
LEMMA PollKeeps ==
  ASSUME OffsetsOrdered, ProgressInv, NEW p \in Partitions, Poll(p) PROVE ProgressInv'
<1> USE DEF ProgressInv
<1>0. PICK n, o : n = fetch[p] /\ o = Min({r \in Records : r >= n})
  OBVIOUS
<1>1. /\ UNCHANGED <<config, active, generations, assigned, assigns, channel, held, acking,
                     orphans, txn, closed, committed, acked>>
      /\ pc = "poll" /\ n < End /\ fetch' = [fetch EXCEPT ![p] = o + 1]
      /\ IF IsActive(p) THEN pc' = "send" /\ polled' = <<p, active[p].generation, o>>
                        ELSE UNCHANGED <<pc, polled>>
  BY <1>0 DEF Poll, Polling, progressVars, pollVars, ackVars, brokerVars
<1>2. n \in Nat
  BY <1>0 DEF Types
<1>3. o \in Records /\ o \in Nat /\ \A r \in Records : r < o + 1 => r = o \/ r < n
  BY <1>0, <1>1, <1>2, NextRecord
<1>4. /\ fetch'[p] = o + 1 /\ \A q \in Partitions : q # p => fetch'[q] = fetch[q]
      /\ fetch' \in [Partitions -> Nat]
  BY <1>1, <1>3, SMTT(30) DEF Types
<1>5. IsActive(p) => active[p].generation \in Nat /\ active[p].generation = generations[p]
  BY Parts DEF Generations
<1>6. Types'
  <2>1. pc' = "send" => polled' \in Partitions \X Nat \X Records
    BY <1>1, <1>3, <1>5, SMTT(30)
  <2>2. pc' \notin {"settle", "gate", "handoffCommit", "revoke"}
    BY <1>1
  <2> QED
    BY <1>1, <1>4, <2>1, <2>2 DEF Types
<1>7. Contiguous' /\ HeldIsKnown' /\ DoneIsOfThisAssignment' /\ PendingIsHeld'
  BY <1>1, SameRest
<1>8. InOrder'
  <2> SUFFICES ASSUME NEW q \in Partitions, IsActive(q), ~active[q].handoff, NEW x \in Records
               PROVE  LET g == active[q].generation
                          sent(y) == channel = <<q, g, y>>
                          taken(y) == pc' = "send" /\ polled' = <<q, g, y>>
                      IN /\ x < fetch'[q] => Known(q, x) \/ sent(x) \/ taken(x)
                         /\ \A c \in Records :
                              /\ x < c /\ taken(c) => Known(q, x) \/ sent(x)
                              /\ x < c /\ sent(c) => Known(q, x)
    BY <1>1, SMTT(30) DEF InOrder, Known, Seen, IsActive
  <2> DEFINE g == active[q].generation
             sent(y) == channel = <<q, g, y>>
  <2>1. /\ x < fetch[q] => Known(q, x) \/ sent(x)
        /\ \A c \in Records : x < c /\ sent(c) => Known(q, x)
    BY <1>1 DEF InOrder
  <2>2. CASE q = p
    <3>1. pc' = "send" /\ polled' = <<p, g, o>> /\ fetch'[q] = o + 1 /\ n = fetch[q]
      BY <1>0, <1>1, <1>4, <2>2
    <3>2. x < o + 1 => x = o \/ x < fetch[q]
      BY <1>3, <3>1
    <3>3. x < o => x # o /\ x < o + 1
      BY <1>3, KafkaAssumption, SMTT(30)
    <3> QED
      BY <2>1, <2>2, <3>1, <3>2, <3>3
  <2>3. CASE q # p
    <3>1. \A y : ~(pc' = "send" /\ polled' = <<q, g, y>>)
      BY <1>1, <2>3, SMTT(30)
    <3> QED
      BY <1>4, <2>1, <2>3, <3>1
  <2> QED
    BY <2>2, <2>3
<1>9. PositionsSeen'
  BY <1>1, PositionsStay
<1>10. TxCovers' /\ TxOnlyOfAssigned'
  <2>1. txn # Nobody => txn.batch \subseteq held'
    BY <1>1 DEF TxCovers
  <2>2. \A q \in Partitions : IsActive(q) =>
          IsActive(q)' /\ active'[q].generation = active[q].generation
    BY <1>1 DEF IsActive
  <2> QED
    BY <1>1, <2>1, <2>2, TxStays
<1>11. Generations'
  <2>1. \A q \in Partitions :
          /\ generations'[q] + (IF IsActive(q)' THEN 2 ELSE IF q \in assigned' THEN 1 ELSE 0)
               <= 3 * assigns'
          /\ IsActive(q)' => q \in assigned' /\ active'[q].generation = generations'[q]
    BY <1>1 DEF Generations, IsActive
  <2>2. /\ closed' => \A q \in Partitions : ~IsActive(q)'
        /\ \A d \in held' : d[2] <= generations'[d[1]]
        /\ channel' # Nobody => channel'[2] <= generations'[channel'[1]]
    BY <1>1 DEF Generations, IsActive
  <2>3. pc' = "send" => polled'[2] <= generations'[polled'[1]]
    BY <1>1, <1>5, SMTT(30)
  <2>4. pc' \notin {"settle", "gate", "handoffCommit", "revoke"}
    BY <1>1
  <2> QED
    BY <2>1, <2>2, <2>3, <2>4 DEF Generations
<1> QED
  BY <1>6, <1>7, <1>8, <1>9, <1>10, <1>11

(* The record enters the channel, or is lost with the closed source.         *)
LEMMA SendKeeps == ASSUME ProgressInv, Send PROVE ProgressInv'
<1> USE DEF ProgressInv
<1>1. /\ UNCHANGED <<config, active, generations, assigned, fetch, assigns, held, acking,
                     orphans, txn, closed, committed, acked>>
      /\ pc = "send" /\ pc' = "poll" /\ (channel = Nobody \/ closed)
      /\ channel' = IF closed THEN channel ELSE polled
  BY DEF Send, progressVars, consumerVars, ackVars, brokerVars
<1>2. Types'
  BY <1>1 DEF Types
<1>3. Contiguous' /\ HeldIsKnown' /\ DoneIsOfThisAssignment' /\ PendingIsHeld'
  BY <1>1, SameRest
<1>4. InOrder'
  <2> SUFFICES ASSUME NEW p \in Partitions, IsActive(p), ~active[p].handoff, NEW x \in Records
               PROVE  LET g == active[p].generation
                          sent(y) == channel' = <<p, g, y>>
                      IN /\ x < fetch[p] => Known(p, x) \/ sent(x)
                         /\ \A c \in Records : x < c /\ sent(c) => Known(p, x)
    BY <1>1 DEF InOrder, Known, Seen, IsActive
  <2>1. ~closed
    BY DEF Generations
  <2>2. channel = Nobody /\ channel' = polled
    BY <1>1, <2>1
  <2>3. active[p].generation \in Nat
    BY Parts
  <2>4. \A y \in Records : channel # <<p, active[p].generation, y>>
    BY <2>2, <2>3, KafkaAssumption, SMTT(30)
  <2> QED
    BY <1>1, <2>2, <2>4 DEF InOrder
<1>5. PositionsSeen'
  BY <1>1, PositionsStay
<1>6. TxCovers' /\ TxOnlyOfAssigned'
  <2>1. txn # Nobody => txn.batch \subseteq held'
    BY <1>1 DEF TxCovers
  <2>2. \A q \in Partitions : IsActive(q) =>
          IsActive(q)' /\ active'[q].generation = active[q].generation
    BY <1>1 DEF IsActive
  <2> QED
    BY <1>1, <2>1, <2>2, TxStays
<1>7. Generations'
  <2>1. \A q \in Partitions :
          /\ generations'[q] + (IF IsActive(q)' THEN 2 ELSE IF q \in assigned' THEN 1 ELSE 0)
               <= 3 * assigns'
          /\ IsActive(q)' => q \in assigned' /\ active'[q].generation = generations'[q]
    BY <1>1 DEF Generations, IsActive
  <2>2. /\ closed' => \A q \in Partitions : ~IsActive(q)'
        /\ \A d \in held' : d[2] <= generations'[d[1]]
    BY <1>1 DEF Generations, IsActive
  <2>3. channel' # Nobody => channel'[2] <= generations'[channel'[1]]
    BY <1>1 DEF Generations
  <2> QED
    BY <1>1, <2>1, <2>2, <2>3 DEF Generations
<1> QED
  BY <1>2, <1>3, <1>4, <1>5, <1>6, <1>7

(* A new assignment starts from the committed offset, and no delivery or     *)
(* record on its way is of its generation.                                   *)
LEMMA AssignKeeps ==
  ASSUME ProgressInv, NEW S \in SUBSET Partitions, Assign(S) PROVE ProgressInv'
<1> USE DEF ProgressInv
<1> DEFINE new(p) == [generation |-> generations[p] + 1, handoff |-> FALSE,
                      next |-> None, received |-> [o \in {} |-> "pending"]]
<1>1. /\ UNCHANGED <<config, channel, held, acking, orphans, txn, closed, committed, acked>>
      /\ pc = "poll" /\ pc' \in {"poll", "pauseNew"} /\ ~closed
      /\ assigns < MaxAssigns /\ assigns' = assigns + 1
      /\ S \subseteq Partitions \ assigned /\ assigned' = assigned \cup S
      /\ fetch' = [p \in Partitions |-> IF p \in S THEN committed[p] ELSE fetch[p]]
      /\ Activate(S)
  BY DEF Assign, Polling, pollVars, ackVars, brokerVars
<1>2. \A p \in S : ~IsActive(p)
  BY <1>1 DEF Generations
<1>3. ASSUME NEW p \in Partitions
      PROVE  /\ p \in S => active'[p] = new(p) /\ generations'[p] = generations[p] + 1
                           /\ fetch'[p] = committed[p]
             /\ p \notin S => active'[p] = active[p] /\ generations'[p] = generations[p]
                              /\ fetch'[p] = fetch[p]
             /\ generations[p] \in Nat
  BY <1>1, <1>2 DEF Activate, Types
<1>4. ASSUME NEW p \in S
      PROVE  /\ active'[p] \in Tracking /\ active'[p].generation = generations[p] + 1
             /\ active'[p].next = -1 /\ DOMAIN active'[p].received = {}
  <2>1. active'[p] = new(p) /\ generations[p] \in Nat
    BY <1>1, <1>3
  <2>2. [o \in {} |-> "pending"] \in [{} -> Status]
    OBVIOUS
  <2>3. PICK e : e = [o \in {} |-> "pending"]
    OBVIOUS
  <2>4. e \in UNION {[T -> Status] : T \in SUBSET Records} /\ DOMAIN e = {}
    BY <2>2, <2>3
  <2>5. active'[p] = [generation |-> generations[p] + 1, handoff |-> FALSE, next |-> None,
                      received |-> e]
    BY <2>1, <2>3
  <2>6. PICK g \in Nat : g = generations[p] + 1
    BY <2>1, SMTT(30)
  <2>7. active'[p] = [generation |-> g, handoff |-> FALSE, next |-> None, received |-> e]
    BY <2>5, <2>6
  <2>8. active'[p] \in Tracking
    BY <2>4, <2>7, SMTT(30) DEF Tracking
  <2> QED
    BY <2>4, <2>6, <2>7, <2>8, SMTT(30) DEF None
<1> HIDE DEF new
<1>5. Types'
  <2>1. active' \in [Partitions -> Tracking \cup {Inactive}]
    <3>1. active' = [p \in Partitions |-> active'[p]]
      BY <1>1 DEF Activate
    <3>2. \A p \in Partitions : active'[p] \in Tracking \cup {Inactive}
      BY <1>3, <1>4 DEF Types
    <3> QED
      BY <3>1, <3>2
  <2>2. generations' \in [Partitions -> Nat]
    <3>1. generations' = [p \in Partitions |-> generations'[p]]
      BY <1>1 DEF Activate
    <3>2. \A p \in Partitions : generations'[p] \in Nat
      BY <1>3, SMTT(30)
    <3> QED
      BY <3>1, <3>2
  <2>3. fetch' \in [Partitions -> Nat]
    BY <1>1 DEF Types
  <2>4. assigns' \in Nat /\ assigns' <= MaxAssigns
    BY <1>1, KafkaAssumption, SMTT(30) DEF Types
  <2> QED
    BY <1>1, <2>1, <2>2, <2>3, <2>4 DEF Types
<1>6. Records \subseteq Nat
  BY KafkaAssumption
<1>7. Contiguous'
  <2> SUFFICES ASSUME NEW p \in Partitions, IsActive(p)'
               PROVE  /\ active'[p].next = None => DOMAIN active'[p].received = {}
                      /\ SeenBelow(p, active[p].next)'
                      /\ \A o \in DOMAIN active'[p].received : o >= active'[p].next
                      /\ \A o \in Records :
                           (\E r \in DOMAIN active'[p].received : o <= r) => Known(p, o)'
    BY DEF Contiguous
  <2>1. CASE p \in S
    <3>1. SeenBelow(p, active[p].next)'
      BY <1>4, <1>6, <2>1, SMTT(30) DEF SeenBelow
    <3> QED
      BY <1>4, <2>1, <3>1
  <2>2. CASE p \notin S
    <3>1. active'[p] = active[p] /\ IsActive(p)
      BY <1>3, <2>2 DEF IsActive
    <3> QED
      BY <1>1, <3>1 DEF Contiguous, SeenBelow, Known, Seen
  <2> QED
    BY <2>1, <2>2
<1>8. InOrder'
  <2> SUFFICES ASSUME NEW p \in Partitions, IsActive(p)', ~active'[p].handoff, NEW o \in Records
               PROVE  LET g == active'[p].generation
                          sent(y) == channel = <<p, g, y>>
                      IN /\ o < fetch'[p] => Known(p, o)' \/ sent(o)
                         /\ \A c \in Records : o < c /\ sent(c) => Known(p, o)'
    BY <1>1 DEF InOrder
  <2>1. CASE p \in S
    <3>1. o < fetch'[p] => Known(p, o)'
      BY <1>1, <1>3, <2>1 DEF PositionsSeen, SeenBelow, Seen, Known
    <3>2. ASSUME NEW c \in Records, channel = <<p, active'[p].generation, c>> PROVE FALSE
      <4>1. channel = <<p, generations[p] + 1, c>> /\ generations[p] \in Nat
        BY <1>3, <1>4, <2>1, <3>2
      <4>2. channel # Nobody
        BY <4>1, KafkaAssumption, SMTT(30)
      <4>3. channel[2] <= generations[channel[1]]
        BY <4>2 DEF Generations
      <4> QED
        BY <4>1, <4>3, SMTT(30)
    <3> QED
      BY <3>1, <3>2
  <2>2. CASE p \notin S
    <3>1. active'[p] = active[p] /\ IsActive(p) /\ fetch'[p] = fetch[p]
      BY <1>3, <2>2 DEF IsActive
    <3> QED
      BY <1>1, <3>1 DEF InOrder, Known, Seen
  <2> QED
    BY <2>1, <2>2
<1>9. HeldIsKnown'
  <2> SUFFICES ASSUME NEW d \in held, IsActive(d[1])', active'[d[1]].generation = d[2]
               PROVE  d[3] \in DOMAIN active'[d[1]].received \/ d[3] < active'[d[1]].next
    BY <1>1 DEF HeldIsKnown, IsCurrent
  <2>1. d[1] \in Partitions /\ d[2] \in Nat /\ d[2] <= generations[d[1]]
    BY DEF Types, Generations
  <2>2. d[1] \notin S
    <3>1. generations[d[1]] \in Nat
      BY <1>3, <2>1
    <3>2. d[1] \in S => d[2] = generations[d[1]] + 1
      BY <1>4
    <3> QED
      BY <2>1, <3>1, <3>2, SMTT(30)
  <2>3. active'[d[1]] = active[d[1]]
    BY <1>3, <2>1, <2>2
  <2> QED
    BY <2>3 DEF HeldIsKnown, IsCurrent, IsActive
<1>10. DoneIsOfThisAssignment'
  <2> SUFFICES ASSUME NEW p \in Partitions, IsActive(p)',
                      NEW o \in DOMAIN active'[p].received, active'[p].received[o] = "done"
               PROVE  <<p, active'[p].generation, o>> \in acked
    BY <1>1 DEF DoneIsOfThisAssignment
  <2>1. p \notin S
    BY <1>4
  <2>2. active'[p] = active[p]
    BY <1>3, <2>1
  <2> QED
    BY <2>2 DEF DoneIsOfThisAssignment, IsActive
<1>11. PendingIsHeld'
  <2> SUFFICES ASSUME NEW p \in Partitions, IsActive(p)',
                      NEW o \in DOMAIN active'[p].received, active'[p].received[o] = "pending"
               PROVE  LET d == <<p, active'[p].generation, o>>
                      IN d \in held \/ (acking # Nobody /\ acking.at = "lost" /\ acking.d = d)
    BY <1>1 DEF PendingIsHeld
  <2>1. p \notin S
    BY <1>4
  <2>2. active'[p] = active[p]
    BY <1>3, <2>1
  <2> QED
    BY <2>2 DEF PendingIsHeld, IsActive
<1>12. PositionsSeen'
  BY <1>1, PositionsStay
<1>13. TxCovers' /\ TxOnlyOfAssigned'
  <2>1. txn # Nobody => txn.batch \subseteq held'
    BY <1>1 DEF TxCovers
  <2>2. ASSUME NEW p \in Partitions, IsActive(p)
        PROVE  IsActive(p)' /\ active'[p].generation = active[p].generation
    BY <1>2, <1>3, <2>2 DEF IsActive
  <2> QED
    BY <1>1, <2>1, <2>2, TxStays
<1>14. Generations'
  <2>1. ASSUME NEW p \in Partitions
        PROVE  /\ generations'[p] + (IF IsActive(p)' THEN 2 ELSE IF p \in assigned' THEN 1 ELSE 0)
                    <= 3 * assigns'
               /\ IsActive(p)' => p \in assigned' /\ active'[p].generation = generations'[p]
    <3>1. generations[p] \in Nat /\ assigns \in Nat /\ assigns' = assigns + 1
      BY <1>1, <1>3 DEF Types
    <3>2. /\ generations[p] + (IF IsActive(p) THEN 2 ELSE IF p \in assigned THEN 1 ELSE 0)
               <= 3 * assigns
          /\ IsActive(p) => p \in assigned /\ active[p].generation = generations[p]
      BY DEF Generations
    <3>3. CASE p \in S
      <4>1. /\ generations'[p] = generations[p] + 1 /\ p \in assigned' /\ ~IsActive(p)
            /\ p \notin assigned /\ active'[p].generation = generations[p] + 1
        BY <1>1, <1>2, <1>3, <1>4, <3>3
      <4> QED
        BY <3>1, <3>2, <4>1, SMTT(30)
    <3>4. CASE p \notin S
      <4>1. /\ generations'[p] = generations[p] /\ (p \in assigned' <=> p \in assigned)
            /\ (IsActive(p)' <=> IsActive(p)) /\ active'[p] = active[p]
        BY <1>1, <1>3, <3>4 DEF IsActive
      <4> QED
        BY <3>1, <3>2, <4>1, SMTT(30)
    <3> QED
      BY <3>3, <3>4
  <2>2. \A p \in Partitions : generations[p] \in Nat /\ generations'[p] \in Nat
                              /\ generations[p] <= generations'[p]
    BY <1>3, SMTT(30)
  <2>3. \A d \in held' : d[2] <= generations'[d[1]]
    <3>1. \A d \in held : d[1] \in Partitions /\ d[2] \in Nat /\ d[2] <= generations[d[1]]
      BY DEF Types, Generations
    <3> QED
      BY <1>1, <2>2, <3>1, SMTT(30)
  <2>4. channel' # Nobody => channel'[2] <= generations'[channel'[1]]
    <3>1. channel # Nobody =>
            channel[1] \in Partitions /\ channel[2] \in Nat /\ channel[2] <= generations[channel[1]]
      BY DEF Types, Generations
    <3> QED
      BY <1>1, <2>2, <3>1, SMTT(30)
  <2>5. ~closed' /\ pc' # "send" /\ pc' \notin {"settle", "gate", "handoffCommit", "revoke"}
    BY <1>1
  <2> QED
    BY <2>1, <2>3, <2>4, <2>5 DEF Generations
<1> QED
  BY <1>5, <1>7, <1>8, <1>9, <1>10, <1>11, <1>12, <1>13, <1>14

-----------------------------------------------------------------------------
(* receive.                                                                  *)

(* receive: what it registers leaves no gap.                                 *)
LEMMA ReceiveKeeps == ASSUME ProgressInv, Receive PROVE ProgressInv'
<1> USE DEF ProgressInv
<1>1. /\ UNCHANGED <<config, generations, assigned, fetch, assigns, pc, polled, acking, orphans,
                     txn, closed, committed, acked>>
      /\ ~closed /\ channel # Nobody /\ channel' = Nobody
  BY DEF Receive, pollVars, consumerVars, ackVars, brokerVars
<1>2. PICK p \in Partitions, g \in Nat, o \in Records : channel = <<p, g, o>>
  BY <1>1, SMTT(30) DEF Types
<1>3. IF Stale(p, g) THEN UNCHANGED <<active, held>>
      ELSE Register(p, o) /\ held' = held \cup {channel}
  BY <1>2 DEF Receive
<1>4. \A q, x, y : <<q, x, y>> \in Partitions \X Nat \X Records => channel' # <<q, x, y>>
  BY <1>1, KafkaAssumption
<1>5. PositionsSeen'
  BY <1>1, PositionsStay
<1>6. CASE Stale(p, g)
  <2>1. UNCHANGED <<active, held>>
    BY <1>3, <1>6
  <2>2. Types'
    BY <1>1, <2>1 DEF Types
  <2>3. Contiguous' /\ HeldIsKnown' /\ DoneIsOfThisAssignment' /\ PendingIsHeld'
    BY <1>1, <2>1, SameRest
  <2>4. InOrder'
    <3> SUFFICES ASSUME NEW q \in Partitions, IsActive(q), ~active[q].handoff, NEW x \in Records
                 PROVE  LET h == active[q].generation
                            sent(y) == channel' = <<q, h, y>>
                            taken(y) == pc = "send" /\ polled = <<q, h, y>>
                        IN /\ x < fetch[q] => Known(q, x) \/ sent(x) \/ taken(x)
                           /\ \A c \in Records :
                                /\ x < c /\ taken(c) => Known(q, x) \/ sent(x)
                                /\ x < c /\ sent(c) => Known(q, x)
      BY <1>1, <2>1, SMTT(30) DEF InOrder, Known, Seen, IsActive
    <3>1. active[q].generation \in Nat
      BY Parts
    <3>2. \A y \in Records : channel # <<q, active[q].generation, y>>
      BY <1>2, <1>6 DEF Stale, IsCurrent
    <3>3. \A y \in Records : channel' # <<q, active[q].generation, y>>
      BY <1>4, <3>1
    <3> QED
      BY <3>2, <3>3 DEF InOrder
  <2>5. TxCovers' /\ TxOnlyOfAssigned'
    <3>1. txn # Nobody => txn.batch \subseteq held'
      BY <2>1 DEF TxCovers
    <3>2. \A q \in Partitions : IsActive(q) =>
            IsActive(q)' /\ active'[q].generation = active[q].generation
      BY <2>1 DEF IsActive
    <3> QED
      BY <1>1, <3>1, <3>2, TxStays
  <2>6. Generations'
    <3>1. \A q \in Partitions : IsActive(q)' =>
            IsActive(q) /\ active'[q].generation = active[q].generation
      BY <2>1 DEF IsActive
    <3> QED
      BY <1>1, <2>1, <3>1, GenerationsStay
  <2> QED
    BY <1>5, <2>2, <2>3, <2>4, <2>5, <2>6
<1>7. CASE ~Stale(p, g)
  <2>1. /\ Register(p, o) /\ held' = held \cup {channel}
        /\ IsActive(p) /\ active[p].generation = g /\ ~active[p].handoff
    BY <1>3, <1>7 DEF Stale, IsCurrent
  <2>2. /\ active' \in [Partitions -> Tracking \cup {Inactive}]
        /\ \A q \in Partitions : q # p => active'[q] = active[q]
        /\ IsActive(p)' /\ active'[p].generation = g /\ ~active'[p].handoff
        /\ active'[p].next = IF active[p].next = None THEN o ELSE active[p].next
        /\ DOMAIN active'[p].received =
             IF active[p].next = None \/ o >= active[p].next
             THEN DOMAIN active[p].received \cup {o} ELSE DOMAIN active[p].received
        /\ \A x \in DOMAIN active'[p].received :
             active'[p].received[x] = IF x \in DOMAIN active[p].received
                                      THEN active[p].received[x] ELSE "pending"
    BY <2>1, RegisterFacts
  <2>3. /\ active[p].next \in Nat \cup {-1} /\ DOMAIN active[p].received \subseteq Records
        /\ Records \subseteq Nat /\ o \in Nat
    BY <2>1, Parts, KafkaAssumption
  <2>4. \A q \in Partitions : /\ IsActive(q)' <=> IsActive(q)
                              /\ active'[q].generation = active[q].generation
    BY <2>1, <2>2 DEF IsActive
  <2>5. Types'
    <3>1. held' \subseteq Partitions \X Nat \X Records
      BY <1>2, <2>1, SMTT(30) DEF Types
    <3> QED
      BY <1>1, <2>2, <3>1 DEF Types
  <2>6. /\ active[p].next = None => DOMAIN active[p].received = {}
        /\ SeenBelow(p, active[p].next)
        /\ \A x \in DOMAIN active[p].received : x >= active[p].next
        /\ \A x \in Records : (\E r \in DOMAIN active[p].received : x <= r) => Known(p, x)
    BY <2>1 DEF Contiguous
  <2>7. \A x \in Records : x < o => Known(p, x)
    BY <1>2, <2>1 DEF InOrder
  <2>8. \A x \in Records : Seen(p, x)' <=> Seen(p, x)
    BY <1>1 DEF Seen
  <2>9. \A x \in Records : Known(p, x) => Known(p, x)'
    BY <2>2, <2>8 DEF Known
  <2>10. Known(p, o)'
    <3>1. CASE active[p].next = None \/ o >= active[p].next
      BY <2>2, <3>1 DEF Known
    <3>2. CASE o < active[p].next
      BY <2>6, <2>8, <3>2 DEF Known, SeenBelow
    <3> QED
      BY <2>3, <3>1, <3>2, SMTT(30)
  <2>11. Contiguous'
    <3> SUFFICES ASSUME NEW q \in Partitions, IsActive(q)'
                 PROVE  /\ active'[q].next = None => DOMAIN active'[q].received = {}
                        /\ SeenBelow(q, active[q].next)'
                        /\ \A x \in DOMAIN active'[q].received : x >= active'[q].next
                        /\ \A x \in Records :
                             (\E r \in DOMAIN active'[q].received : x <= r) => Known(q, x)'
      BY DEF Contiguous
    <3>1. CASE q # p
      <4>1. active'[q] = active[q] /\ IsActive(q)
        BY <2>2, <2>4, <3>1
      <4> QED
        BY <1>1, <4>1 DEF Contiguous, SeenBelow, Known, Seen
    <3>2. CASE q = p
      <4>1. active'[p].next # None
        BY <2>2, <2>3, SMTT(30) DEF None
      <4>2. ASSUME NEW x \in Records, x < active'[p].next PROVE Seen(p, x)'
        <5>1. CASE active[p].next = None
          BY <2>2, <2>6, <2>7, <2>8, <4>2, <5>1 DEF Known
        <5>2. CASE active[p].next # None
          BY <2>2, <2>6, <2>8, <4>2, <5>2 DEF SeenBelow
        <5> QED
          BY <5>1, <5>2
      <4>3. \A x \in DOMAIN active'[p].received : x >= active'[p].next
        BY <2>2, <2>3, <2>6, SMTT(30)
      <4>4. ASSUME NEW x \in Records, NEW r \in DOMAIN active'[p].received, x <= r
            PROVE  Known(p, x)'
        <5>1. CASE r \in DOMAIN active[p].received
          BY <2>6, <2>9, <4>4, <5>1
        <5>2. CASE r = o
          <6>1. x \in Nat /\ o \in Nat /\ x <= o
            BY <2>3, <4>4, <5>2
          <6>2. x = o \/ x < o
            BY <6>1, SMTT(30)
          <6> QED
            BY <2>7, <2>9, <2>10, <6>2
        <5> QED
          BY <2>2, <4>4, <5>1, <5>2
      <4>5. SeenBelow(p, active[p].next)'
        BY <4>2 DEF SeenBelow
      <4> QED
        BY <3>2, <4>1, <4>3, <4>4, <4>5
    <3> QED
      BY <3>1, <3>2
  <2>12. InOrder'
    <3> SUFFICES ASSUME NEW q \in Partitions, IsActive(q)', ~active'[q].handoff, NEW x \in Records
                 PROVE  LET h == active'[q].generation
                            sent(y) == channel' = <<q, h, y>>
                            taken(y) == pc = "send" /\ polled = <<q, h, y>>
                        IN /\ x < fetch[q] => Known(q, x)' \/ sent(x) \/ taken(x)
                           /\ \A c \in Records :
                                /\ x < c /\ taken(c) => Known(q, x)' \/ sent(x)
                                /\ x < c /\ sent(c) => Known(q, x)'
      BY <1>1 DEF InOrder
    <3>1. active'[q].generation = active[q].generation /\ IsActive(q)
      BY <2>4
    <3>2. active[q].generation \in Nat
      BY <3>1, Parts
    <3>3. \A y \in Records : channel' # <<q, active'[q].generation, y>>
      BY <1>4, <3>1, <3>2
    <3>4. CASE q # p
      <4>1. active'[q] = active[q] /\ ~active[q].handoff
        BY <2>2, <3>4
      <4>2. Known(q, x) => Known(q, x)'
        BY <1>1, <4>1 DEF Known, Seen
      <4>3. \A y \in Records : channel # <<q, active[q].generation, y>>
        BY <1>2, <3>4
      <4> QED
        BY <3>1, <3>3, <4>1, <4>2, <4>3 DEF InOrder
    <3>5. CASE q = p
      <4>1. \A y \in Records : channel = <<p, g, y>> => y = o
        BY <1>2
      <4>2. LET taken(y) == pc = "send" /\ polled = <<p, g, y>>
            IN /\ x < fetch[p] => Known(p, x) \/ x = o \/ taken(x)
               /\ \A c \in Records : x < c /\ taken(c) => Known(p, x) \/ x = o
        BY <2>1, <4>1 DEF InOrder
      <4>3. Known(p, x) \/ x = o => Known(p, x)'
        BY <2>9, <2>10
      <4> QED
        BY <2>2, <3>3, <3>5, <4>2, <4>3
    <3> QED
      BY <3>4, <3>5
  <2>13. HeldIsKnown'
    <3> SUFFICES ASSUME NEW d \in held', IsActive(d[1])', active'[d[1]].generation = d[2]
                 PROVE  d[3] \in DOMAIN active'[d[1]].received \/ d[3] < active'[d[1]].next
      BY DEF HeldIsKnown, IsCurrent
    <3>1. CASE d = channel
      <4>1. d[1] = p /\ d[3] = o
        BY <1>2, <3>1
      <4> QED
        BY <2>2, <2>3, <4>1, SMTT(30)
    <3>2. CASE d \in held
      <4>1. d[1] \in Partitions /\ d[3] \in Nat
        BY <2>3, <3>2 DEF Types
      <4>2. d[3] \in DOMAIN active[d[1]].received \/ d[3] < active[d[1]].next
        BY <2>4, <3>2, <4>1 DEF HeldIsKnown, IsCurrent
      <4>3. CASE d[1] # p
        BY <2>2, <4>1, <4>2, <4>3
      <4>4. CASE d[1] = p
        BY <2>2, <2>3, <2>6, <4>1, <4>2, <4>4, SMTT(30) DEF None
      <4> QED
        BY <4>3, <4>4
    <3> QED
      BY <2>1, <3>1, <3>2
  <2>14. DoneIsOfThisAssignment'
    <3> SUFFICES ASSUME NEW q \in Partitions, IsActive(q)',
                        NEW x \in DOMAIN active'[q].received, active'[q].received[x] = "done"
                 PROVE  <<q, active'[q].generation, x>> \in acked
      BY <1>1 DEF DoneIsOfThisAssignment
    <3>1. IsActive(q) /\ active'[q].generation = active[q].generation
      BY <2>4
    <3>2. x \in DOMAIN active[q].received /\ active[q].received[x] = "done"
      BY <2>2
    <3> QED
      BY <3>1, <3>2 DEF DoneIsOfThisAssignment
  <2>15. PendingIsHeld'
    <3> SUFFICES ASSUME NEW q \in Partitions, IsActive(q)',
                        NEW x \in DOMAIN active'[q].received, active'[q].received[x] = "pending"
                 PROVE  LET d == <<q, active'[q].generation, x>>
                        IN d \in held' \/ (acking # Nobody /\ acking.at = "lost" /\ acking.d = d)
      BY <1>1 DEF PendingIsHeld
    <3>1. IsActive(q) /\ active'[q].generation = active[q].generation
      BY <2>4
    <3>2. CASE x \in DOMAIN active[q].received
      <4>1. active[q].received[x] = "pending"
        BY <2>2, <3>2
      <4> QED
        BY <2>1, <3>1, <3>2, <4>1 DEF PendingIsHeld
    <3>3. CASE x \notin DOMAIN active[q].received
      <4>1. q = p /\ x = o
        BY <2>2, <3>3
      <4> QED
        BY <1>2, <2>1, <2>2, <4>1
    <3> QED
      BY <3>2, <3>3
  <2>16. TxCovers' /\ TxOnlyOfAssigned'
    <3>1. txn # Nobody => txn.batch \subseteq held'
      BY <2>1 DEF TxCovers
    <3> QED
      BY <1>1, <2>4, <3>1, TxStays
  <2>17. Generations'
    <3>1. \A q \in Partitions :
            /\ generations'[q] + (IF IsActive(q)' THEN 2 ELSE IF q \in assigned' THEN 1 ELSE 0)
                 <= 3 * assigns'
            /\ IsActive(q)' => q \in assigned' /\ active'[q].generation = generations'[q]
      BY <1>1, <2>4 DEF Generations
    <3>2. closed' => \A q \in Partitions : ~IsActive(q)'
      BY <1>1
    <3>3. \A d \in held' : d[2] <= generations'[d[1]]
      BY <1>1, <2>1 DEF Generations
    <3>4. /\ pc' = "send" => polled'[2] <= generations'[polled'[1]]
          /\ pc' \in {"settle", "gate", "handoffCommit", "revoke"} =>
               polled'.revoked \subseteq assigned' /\ polled'.handed \subseteq polled'.revoked
      BY <1>1 DEF Generations
    <3> QED
      BY <1>1, <3>1, <3>2, <3>3, <3>4 DEF Generations
  <2> QED
    BY <1>5, <2>5, <2>11, <2>12, <2>13, <2>14, <2>15, <2>16, <2>17
<1> QED
  BY <1>6, <1>7

-----------------------------------------------------------------------------
(* Every step.                                                               *)

(* close, a lost assignment in ack, and one in a transaction's commit.       *)
LEMMA AllRevokedKeeps ==
  ASSUME ProgressInv,
         \/ Close \/ AckLost
         \/ \E B \in SUBSET held : TxBegins(B) /\ txn' = txn /\ RevokeAll
  PROVE  ProgressInv'
<1>1. /\ RevokeAll /\ txn = Nobody
      /\ UNCHANGED <<config, assigned, fetch, assigns, pc, polled, held, orphans, committed,
                     acked, txn>>
      /\ channel' = channel \/ channel' = Nobody
      /\ acking' = acking \/ acking' = Nobody
  <2>1. CASE Close
    BY <2>1 DEF Close, pollVars, consumerVars, ackVars, brokerVars
  <2>2. CASE AckLost
    <3>1. txn = Nobody
      BY <2>2 DEF AckLost, ProgressInv, TxCovers
    <3>2. RevokeAll /\ acking' = Nobody
      BY <2>2 DEF AckLost, AckEnds
    <3>3. UNCHANGED <<config, assigned, fetch, assigns, pc, polled, held, orphans, committed,
                      acked, txn, channel>>
      BY <2>2 DEF AckLost, pollVars, consumerVars, brokerVars
    <3> QED
      BY <3>1, <3>2, <3>3
  <2>3. CASE \E B \in SUBSET held : TxBegins(B) /\ txn' = txn /\ RevokeAll
    BY <2>3 DEF TxBegins, pollVars, consumerVars, ackVars, brokerVars
  <2> QED
    BY <2>1, <2>2, <2>3
<1> QED
  BY <1>1, RevokeAllKeeps

(* Every step keeps the invariant.                                           *)
LEMMA ProgressStep == ASSUME OffsetsOrdered, ProgressInv, GateHeld, [Next]_vars PROVE ProgressInv'
<1> DEFINE Q == ProgressInv'
<1>1. ASSUME UNCHANGED <<config, active, generations, assigned, fetch, assigns, pc, polled,
                         channel, held, acking, orphans, txn, closed, committed, acked>>
      PROVE  Q
  BY <1>1, Elsewhere
<1>2. ASSUME NEW p \in Partitions, Poll(p) \/ Pause(p) \/ Resume(p) \/ OtherOwner(p) PROVE Q
  <2>1. CASE Poll(p)
    BY <2>1, PollKeeps
  <2>2. CASE Pause(p) \/ Resume(p)
    BY <1>1, <2>2 DEF Pause, Resume, progressVars, pollVars, consumerVars, ackVars, brokerVars
  <2>3. CASE OtherOwner(p)
    BY <2>3, OtherOwnerKeeps
  <2> QED
    BY <1>2, <2>1, <2>2, <2>3
<1>3. ASSUME NEW S \in SUBSET Partitions, RevokeBegins(S) \/ Assign(S) PROVE Q
  BY <1>3, RevokeBeginsKeeps, AssignKeeps
<1>4. ASSUME Send \/ CallbackStep \/ Receive PROVE Q
  BY <1>4, SendKeeps, SettleKeeps, TakeGateKeeps, HandoffCommitKeeps, RevokeEndsKeeps,
     PauseNewKeeps, ReceiveKeeps DEF CallbackStep
<1>5. ASSUME FlowReaches \/ Lose PROVE Q
  BY <1>1, <1>5 DEF FlowReaches, Lose, progressVars, pollVars, consumerVars, ackVars, brokerVars
<1>6. ASSUME Close \/ AckLost PROVE Q
  BY <1>6, AllRevokedKeeps
<1>7. ASSUME NEW d \in held, DropDelivery(d) \/ AckBegins(d) PROVE Q
  BY <1>7, DropKeeps, AckBeginsKeeps
<1>8. ASSUME AckCommitLands \/ AckCommitFails \/ AckCommitted \/ AckDropped \/ OrphanEnds PROVE Q
  BY <1>8, AckCommitLandsKeeps, AckEndsKeeps, AckCommittedKeeps, OrphanEndsKeeps
<1>9. ASSUME NEW B \in SUBSET held, TxBegins(B) PROVE Q
  <2>1. CASE txn' # txn
    BY <1>9, <2>1, TxStarts
  <2>2. CASE txn' = txn /\ RevokeAll
    BY <1>9, <2>2, AllRevokedKeeps
  <2>3. CASE txn' = txn /\ UNCHANGED progressVars
    BY <1>1, <1>9, <2>3
       DEF TxBegins, progressVars, pollVars, consumerVars, ackVars, brokerVars
  <2>4. (RevokeAll /\ txn' = txn) \/ UNCHANGED progressVars
    BY <1>9 DEF TxBegins
  <2> QED
    BY <2>1, <2>2, <2>3, <2>4
<1>10. ASSUME TxStep PROVE Q
  BY <1>10, TxCommitsKeeps, TxFailsKeeps DEF TxStep
<1>11. ASSUME UNCHANGED vars PROVE Q
  BY <1>1, <1>11 DEF vars, progressVars, pollVars, consumerVars, ackVars, brokerVars
<1> HIDE DEF Q
<1>12. Q
  BY <1>2, <1>3, <1>4, <1>5, <1>6, <1>7, <1>8, <1>9, <1>10, <1>11 DEF Next, AckStep
<1> QED
  BY <1>12 DEF Q

(* Only a transactional source's commits overtake records.                   *)
LEMMA OvertakenStep ==
  ASSUME Types, TxCovers, OvertakenByTx, [Next]_vars PROVE OvertakenByTx'
<1> DEFINE Q == OvertakenByTx'
<1>0. \A r \in held : r[2] # Overtaken
  BY SMTT(30) DEF Types, Overtaken
<1>1. ASSUME UNCHANGED <<config, acked>> PROVE Q
  BY <1>1 DEF OvertakenByTx
<1>2. ASSUME NEW r, r[2] # Overtaken, config' = config, acked' = acked \cup {r} PROVE Q
  BY <1>2 DEF OvertakenByTx
<1>3. ASSUME NEW p \in Partitions, Poll(p) \/ Pause(p) \/ Resume(p) \/ OtherOwner(p) PROVE Q
  <2>1. CASE Poll(p) \/ Pause(p) \/ Resume(p)
    BY <1>1, <2>1 DEF Poll, Pause, Resume, brokerVars
  <2>2. CASE OtherOwner(p)
    <3>1. PICK o : config' = config /\ acked' = acked \cup {<<p, 0, o>>}
      BY <2>2 DEF OtherOwner
    <3>2. <<p, 0, o>>[2] # Overtaken
      BY SMTT(30) DEF Overtaken
    <3> QED
      BY <1>2, <3>1, <3>2
  <2> QED
    BY <1>3, <2>1, <2>2
<1>4. ASSUME NEW S \in SUBSET Partitions, RevokeBegins(S) \/ Assign(S) PROVE Q
  BY <1>1, <1>4 DEF RevokeBegins, Assign, brokerVars
<1>5. ASSUME CallbackStep \/ Send \/ Receive PROVE Q
  BY <1>1, <1>5 DEF CallbackStep, Settle, TakeGate, HandoffCommit, RevokeEnds, PauseNew, Send,
                    Receive, brokerVars
<1>6. ASSUME AckStep \/ AckDropped \/ OrphanEnds PROVE Q
  BY <1>1, <1>6 DEF AckStep, AckLost, AckCommitLands, AckCommitFails, AckCommitted, AckDropped,
                    OrphanEnds, brokerVars
<1>7. ASSUME Close \/ FlowReaches \/ Lose \/ TxFails \/ UNCHANGED vars PROVE Q
  BY <1>1, <1>7 DEF Close, FlowReaches, Lose, TxFails, vars, brokerVars
<1>8. ASSUME NEW d \in held, DropDelivery(d) \/ AckBegins(d) PROVE Q
  <2>1. CASE DropDelivery(d)
    BY <1>1, <2>1 DEF DropDelivery, brokerVars
  <2>2. CASE AckBegins(d)
    BY <1>0, <1>2, <2>2 DEF AckBegins
  <2> QED
    BY <1>8, <2>1, <2>2
<1>9. ASSUME NEW B \in SUBSET held, TxBegins(B) PROVE Q
  BY <1>1, <1>9 DEF TxBegins, brokerVars
<1>10. ASSUME TxCommits PROVE Q
  BY <1>10 DEF TxCommits, TxCovers, OvertakenByTx
<1> HIDE DEF Q
<1>11. Q
  BY <1>3, <1>4, <1>5, <1>6, <1>7, <1>8, <1>9, <1>10 DEF Next, TxStep
<1> QED
  BY <1>11 DEF Q

-----------------------------------------------------------------------------
(* Theorems.                                                                 *)

(* The inductive invariant of the shared progress holds in every reachable   *)
(* state, for any partitions, records and number of assignments.             *)
THEOREM ProgressInvHolds == Spec => [](ProgressInv /\ GateHeld)
<1>1. Init => ProgressInv /\ GateHeld
  BY ProgressStarts
<1>2. (ProgressInv /\ GateHeld) /\ [Next]_vars => (ProgressInv /\ GateHeld)'
  <2> SUFFICES ASSUME ProgressInv, GateHeld, [Next]_vars PROVE (ProgressInv /\ GateHeld)'
    OBVIOUS
  <2>1. ProgressInv'
    BY OffsetsAreOrdered, ProgressStep
  <2>2. Types
    BY DEF ProgressInv
  <2>3. GateHeld'
    BY <2>2, GateKept
  <2> QED
    BY <2>1, <2>3
<1> QED
  BY <1>1, <1>2, PTL DEF Spec

(* No committed offset passes a record that no consumer processed: not by    *)
(* acknowledgements out of order, late or failed commits or a handoff's      *)
(* commit (commit_position and committed).  The offsets of a transaction, of *)
(* whatever batch (SourceOffsets::commit), pass only records that were       *)
(* received, and none without a transactional sink.                          *)
THEOREM NoRecordSkipped == Spec => []NothingSkipped
<1>1. Init => OvertakenByTx
  BY DEF Init, OvertakenByTx
<1>2. (ProgressInv /\ GateHeld) /\ OvertakenByTx /\ [Next]_vars => OvertakenByTx'
  BY OvertakenStep DEF ProgressInv
<1>3. (ProgressInv /\ GateHeld) /\ OvertakenByTx => NothingSkipped
  <2> SUFFICES ASSUME ProgressInv, OvertakenByTx, NEW p \in Partitions, NEW o \in Records,
                      o < committed[p]
               PROVE  \/ \E g \in Gens : <<p, g, o>> \in acked
                      \/ config.transactional /\ <<p, Overtaken, o>> \in acked
    BY DEF NothingSkipped
  <2>1. PICK g \in Gens \cup {Overtaken} : <<p, g, o>> \in acked
    BY DEF ProgressInv, PositionsSeen, SeenBelow, Seen
  <2>2. ASSUME g = Overtaken PROVE config.transactional
    <3>1. <<p, g, o>>[2] = Overtaken
      BY <2>2
    <3> QED
      BY <2>1, <3>1 DEF OvertakenByTx
  <2> QED
    BY <2>1, <2>2
<1> QED
  BY <1>1, <1>2, <1>3, ProgressInvHolds, PTL DEF Spec

(* Across assignments: only deliveries of the current generation count as    *)
(* done, whatever is pending is held by someone, and a transaction is of     *)
(* assignments that have not ended (complete, release and the transaction    *)
(* gate).                                                                    *)
THEOREM AssignmentsKeptApart ==
  Spec => [](DoneIsOfThisAssignment /\ PendingIsHeld /\ TxOnlyOfAssigned)
<1>1. ProgressInv /\ GateHeld => DoneIsOfThisAssignment /\ PendingIsHeld /\ TxOnlyOfAssigned
  BY DEF ProgressInv
<1> QED
  BY <1>1, ProgressInvHolds, PTL

(* A partition the runtime paused stays paused across revocations and        *)
(* assignments (pause, resume and post_rebalance), for any number of         *)
(* partitions and any interleaving of the runtime's calls with callbacks.    *)
THEOREM PausesSurvive == Spec => []PauseSurvives
<1>1. Init => FlowInv
  BY DEF Init, FlowInv, PauseSurvives
<1>2. (ProgressInv /\ GateHeld) /\ FlowInv /\ [Next]_vars => FlowInv'
  BY FlowStep
<1>3. FlowInv => PauseSurvives
  BY DEF FlowInv
<1> QED
  BY <1>1, <1>2, <1>3, ProgressInvHolds, PTL DEF Spec

(* The invariant of a Kafka source's progress (module KafkaProgress): types  *)
(* and positions within the partition, only deliveries of the current        *)
(* assignment done, every pending record held, and transactions of current   *)
(* assignments only.                                                         *)
THEOREM KafkaInvHolds == Spec => []KafkaInv
<1>1. Init => FlowInv /\ WithinLog /\ Flags
  <2> SUFFICES ASSUME Init PROVE FlowInv /\ WithinLog /\ Flags
    OBVIOUS
  <2>1. FlowInv
    BY DEF Init, FlowInv, PauseSurvives
  <2>2. \A p \in Partitions : ~IsActive(p) /\ fetch[p] = 0 /\ committed[p] = 0
    BY DEF Init, IsActive, Inactive
  <2>3. End \in Nat
    BY OffsetsAreOrdered, EndIsLast
  <2>4. 0 <= End
    <3> HIDE DEF End
    <3> QED
      BY <2>3, SMTT(30)
  <2>5. orphans = {} /\ acking = Nobody /\ txn = Nobody /\ pc = "poll"
    BY DEF Init
  <2>6. WithinLog
    BY <2>2, <2>4, <2>5 DEF WithinLog
  <2>7. Flags
    BY <2>5 DEF Init, Flags
  <2> QED
    BY <2>1, <2>6, <2>7
<1>2. /\ ProgressInv /\ ProgressInv' /\ FlowInv /\ WithinLog /\ Flags /\ [Next]_vars
      => FlowInv' /\ WithinLog' /\ Flags'
  BY OffsetsAreOrdered, FlowStep, WithinStep, FlagsStep
<1>3. ProgressInv /\ WithinLog /\ Flags => KafkaInv
  BY OffsetsAreOrdered, TypesFollow DEF KafkaInv, ProgressInv
<1> QED
  BY <1>1, <1>2, <1>3, ProgressInvHolds, PTL DEF Spec

(* A handoff that settled abandons no delivery but what a transaction        *)
(* overtook, and one whose commit succeeded leaves nothing uncommitted that  *)
(* could have been committed, when pre_rebalance cancels the deliveries      *)
(* (begin_handoff, wait_settled and hand_off, against the records,           *)
(* acknowledgements and transactions of the other threads).                  *)
THEOREM HandoffsComplete == Spec => []HandoffIsComplete
<1>1. Init => HandoffInv
  <2> SUFFICES ASSUME Init PROVE HandoffInv
    OBVIOUS
  <2>1. /\ \A p \in Partitions : ~IsActive(p)
        /\ held = {} /\ acking = Nobody /\ txn = Nobody /\ pc = "poll"
    BY DEF Init, IsActive, Inactive
  <2>2. AheadInOrder /\ HeldArePending /\ AckBefore /\ TxBefore /\ TxNotDone
    BY <2>1 DEF AheadInOrder, HeldArePending, AckBefore, TxBefore, TxNotDone
  <2>3. HandoffSettles /\ HandoffBefore
    BY <2>1 DEF HandoffSettles, HandoffBefore
  <2> QED
    BY <2>2, <2>3 DEF HandoffInv
<1>2. /\ (ProgressInv /\ GateHeld) /\ (ProgressInv /\ GateHeld)' /\ HandoffInv /\ [Next]_vars
      => HandoffInv'
  BY OffsetsAreOrdered, HandoffStep
<1>3. (ProgressInv /\ GateHeld) /\ HandoffInv => HandoffIsComplete
  <2> SUFFICES ASSUME ProgressInv, HandoffInv, pc = "revoke", NEW p \in polled.handed, IsActive(p)
               PROVE  /\ polled.settled => \A d \in held :
                           d[1] = p /\ d[2] = active[p].generation => <<p, Overtaken, d[3]>> \in acked
                      /\ polled.ok => \A o \in DOMAIN active[p].received :
                           active[p].received[o] = "done" =>
                             \E e \in DOMAIN active[p].received :
                               e < o /\ active[p].received[e] # "done"
    BY DEF HandoffIsComplete
  <2>1. pc \in {"settle", "gate", "handoffCommit", "revoke"} /\ pc # "settle"
    OBVIOUS
  <2>2. /\ polled.settled => \A d \in held :
             d[1] = p /\ d[2] = active[p].generation => <<p, Overtaken, d[3]>> \in acked
        /\ polled.ok => Behind(p, 0)
    BY <2>1 DEF HandoffInv, HandoffSettles, IsOvertaken
  <2>3. Types /\ p \in Partitions
    BY <2>1 DEF ProgressInv, Generations, Types
  <2>4. DOMAIN active[p].received \subseteq Records
    BY <2>3, Parts
  <2>5. \A o \in DOMAIN active[p].received : 0 <= o
    <3>1. Records \subseteq Nat
      BY KafkaAssumption
    <3>2. \A o \in Records : 0 <= o
      BY <3>1, SMTT(30)
    <3> QED
      BY <2>4, <3>2
  <2> QED
    BY <2>2, <2>5 DEF Behind
<1> QED
  BY <1>1, <1>2, <1>3, ProgressInvHolds, PTL DEF Spec

=============================================================================
