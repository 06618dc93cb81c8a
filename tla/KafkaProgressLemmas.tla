------------------------ MODULE KafkaProgressLemmas ------------------------
(***************************************************************************)
(* What preserves the parts of a Kafka source's inductive invariant (module  *)
(* KafkaInvariants), and that commits, revocations, handoffs and             *)
(* transactions keep it.                                                     *)
(***************************************************************************)
EXTENDS KafkaInvariants, TLAPS

(* Steps are first-order unless they cite the SMT solver; each prover has    *)
(* thirty seconds for a step.                                                *)
USE ZenonT(30)

-----------------------------------------------------------------------------
(* The commit gate, and the initial state.                                   *)

(* The commit gate: an acknowledgement and a handoff exclude each other.     *)
LEMMA GateKept == ASSUME Types, GateHeld, [Next]_vars PROVE GateHeld'
<1> DEFINE Q == GateHeld'
<1>0. Nobody # "ack" /\ Nobody # "handoff"
  BY KafkaAssumption
<1>1. ASSUME UNCHANGED <<gate, acking, pc, polled>> PROVE Q
  BY <1>1 DEF GateHeld
<1>2. ASSUME UNCHANGED <<gate, acking>>, pc' \in {"poll", "send", "settle", "gate", "pauseNew"}
      PROVE Q
  BY <1>2 DEF GateHeld
<1>3. ASSUME AckEnds, acking # Nobody, UNCHANGED <<pc, polled>> PROVE Q
  BY <1>3 DEF GateHeld, AckEnds
<1>4. ASSUME NEW p \in Partitions, Poll(p) PROVE Q
  <2>1. UNCHANGED <<gate, acking>> /\ pc' \in {"poll", "send"}
    BY <1>4 DEF Poll, Polling, pollVars, ackVars
  <2> QED
    BY <1>2, <2>1
<1>5. ASSUME NEW p \in Partitions, Pause(p) \/ Resume(p) \/ OtherOwner(p) PROVE Q
  <2>1. UNCHANGED <<gate, acking, pc, polled>>
    BY <1>5 DEF Pause, Resume, OtherOwner, pollVars, ackVars
  <2> QED
    BY <1>1, <2>1
<1>6. ASSUME NEW S \in SUBSET Partitions, RevokeBegins(S) PROVE Q
  <2>1. UNCHANGED <<gate, acking>> /\ pc = "poll"
    BY <1>6 DEF RevokeBegins, Polling, ackVars
  <2>2. pc' = "settle" \/ (pc' = "revoke" /\ polled'.handed = {})
    BY <1>6, SMTT(30) DEF RevokeBegins
  <2> QED
    BY <2>1, <2>2 DEF GateHeld
<1>7. ASSUME NEW S \in SUBSET Partitions, Assign(S) PROVE Q
  <2>1. UNCHANGED <<gate, acking>> /\ pc' \in {"poll", "pauseNew"}
    BY <1>7 DEF Assign, Polling, pollVars, ackVars
  <2> QED
    BY <1>2, <2>1
<1>8. ASSUME Send \/ Settle \/ PauseNew PROVE Q
  <2>1. UNCHANGED <<gate, acking>> /\ pc' \in {"poll", "gate"}
    BY <1>8 DEF Send, Settle, PauseNew, ackVars
  <2> QED
    BY <1>2, <2>1
<1>9. ASSUME TakeGate PROVE Q
  BY <1>0, <1>9 DEF TakeGate, GateHeld
<1>10. ASSUME HandoffCommit PROVE Q
  BY <1>10 DEF HandoffCommit, GateHeld, ackVars
<1>11. ASSUME RevokeEnds PROVE Q
  <2>1. /\ pc = "revoke" /\ pc' = "poll" /\ acking' = acking
        /\ gate' = IF polled.handed = {} THEN gate ELSE Nobody
    BY <1>11 DEF RevokeEnds
  <2>2. polled.handed # {} => acking = Nobody
    BY <2>1 DEF GateHeld
  <2> QED
    BY <2>1, <2>2 DEF GateHeld
<1>12. ASSUME Receive \/ FlowReaches \/ Close PROVE Q
  <2>1. UNCHANGED <<gate, acking, pc, polled>>
    BY <1>12 DEF Receive, FlowReaches, Close, pollVars, ackVars
  <2> QED
    BY <1>1, <2>1
<1>13. ASSUME NEW d \in held, DropDelivery(d) PROVE Q
  <2>1. UNCHANGED <<gate, acking, pc, polled>>
    BY <1>13 DEF DropDelivery, pollVars, ackVars
  <2> QED
    BY <1>1, <2>1
<1>14. ASSUME NEW d \in held, AckBegins(d) PROVE Q
  <2>1. /\ gate = Nobody /\ UNCHANGED <<pc, polled>>
        /\ gate' = "ack" \/ UNCHANGED <<gate, acking>>
    BY <1>14 DEF AckBegins, pollVars
  <2> QED
    BY <1>0, <2>1 DEF GateHeld
<1>15. ASSUME AckLost \/ AckCommitFails \/ AckCommitted \/ AckDropped PROVE Q
  <2>1. AckEnds /\ acking # Nobody /\ UNCHANGED <<pc, polled>>
    BY <1>15 DEF AckLost, AckCommitFails, AckCommitted, AckDropped, pollVars
  <2> QED
    BY <1>3, <2>1
<1>16. ASSUME AckCommitLands PROVE Q
  BY <1>16 DEF AckCommitLands, GateHeld, pollVars
<1>17. ASSUME OrphanEnds PROVE Q
  <2>1. UNCHANGED <<gate, acking, pc, polled>>
    BY <1>17 DEF OrphanEnds, pollVars
  <2> QED
    BY <1>1, <2>1
<1>18. ASSUME NEW B \in SUBSET held, TxBegins(B) PROVE Q
  <2>1. UNCHANGED <<gate, acking, pc, polled>>
    BY <1>18 DEF TxBegins, pollVars, ackVars
  <2> QED
    BY <1>1, <2>1
<1>19. ASSUME TxCommits \/ TxFails \/ Lose PROVE Q
  <2>1. UNCHANGED <<gate, acking, pc, polled>>
    BY <1>19 DEF TxCommits, TxFails, Lose, pollVars, ackVars
  <2> QED
    BY <1>1, <2>1
<1>20. ASSUME UNCHANGED vars PROVE Q
  <2>1. UNCHANGED <<gate, acking, pc, polled>>
    BY <1>20 DEF vars, pollVars, ackVars
  <2> QED
    BY <1>1, <2>1
<1> HIDE DEF Q
<1>21. Q
  BY <1>4, <1>5, <1>6, <1>7, <1>8, <1>9, <1>10, <1>11, <1>12, <1>13, <1>14, <1>15, <1>16, <1>17,
     <1>18, <1>19, <1>20, SMTT(30) DEF Next, CallbackStep, AckStep, TxStep
<1> QED
  BY <1>21 DEF Q

(* The invariant holds before the first poll.                                *)
LEMMA ProgressStarts == ASSUME Init PROVE ProgressInv /\ GateHeld
<1>1. active = [p \in Partitions |-> Inactive] /\ \A p \in Partitions : ~IsActive(p)
  BY DEF Init, IsActive
<1>2. Types
  BY <1>1, KafkaAssumption, SMTT(30) DEF Init, Types
<1>3. Generations
  BY <1>1, KafkaAssumption, SMTT(30) DEF Init, Generations
<1>4. Contiguous /\ InOrder /\ DoneIsOfThisAssignment /\ PendingIsHeld
  BY <1>1 DEF Contiguous, InOrder, DoneIsOfThisAssignment, PendingIsHeld
<1>5. HeldIsKnown
  BY DEF Init, HeldIsKnown
<1>6. PositionsSeen
  <2>1. \A p \in Partitions : SeenBelow(p, committed[p])
    <3>1. \A p \in Partitions : committed[p] = 0
      BY DEF Init
    <3>2. \A o \in Records : ~(o < 0)
      BY KafkaAssumption, SMTT(30)
    <3> QED
      BY <3>1, <3>2 DEF SeenBelow
  <2> QED
    BY <2>1 DEF Init, PositionsSeen
<1>7. TxCovers /\ TxOnlyOfAssigned /\ GateHeld
  BY DEF Init, TxCovers, TxOnlyOfAssigned, GateHeld
<1> QED
  BY <1>2, <1>3, <1>4, <1>5, <1>6, <1>7 DEF ProgressInv

(* The assumption on the records, in terms of Min and Max.                   *)
LEMMA OffsetsAreOrdered == OffsetsOrdered
<1> SUFFICES ASSUME NEW S \in SUBSET Records, S # {}
             PROVE  /\ Min(S) \in S /\ \A y \in S : Min(S) <= y
                    /\ Max(S) \in S /\ \A y \in S : Max(S) >= y
  BY DEF OffsetsOrdered
<1>1. \E first, last \in S : \A o \in S : first <= o /\ o <= last
  BY KafkaAssumption
<1>2. Min(S) \in S /\ \A y \in S : Min(S) <= y
  BY <1>1 DEF Min
<1>3. \E last \in S : \A y \in S : last >= y
  <2>1. S \subseteq Nat
    BY KafkaAssumption
  <2> QED
    BY <1>1, <2>1
<1>4. Max(S) \in S /\ \A y \in S : Max(S) >= y
  BY <1>3 DEF Max
<1> QED
  BY <1>2, <1>4

(* While records remain, the next one to return is the first at or after the *)
(* offset, and nothing lies between.                                         *)
LEMMA NextRecord ==
  ASSUME OffsetsOrdered, NEW n \in Nat, n < End
  PROVE  LET o == Min({r \in Records : r >= n})
         IN /\ o \in Records /\ o \in Nat /\ o >= n
            /\ \A r \in Records : r < o + 1 => r = o \/ r < n
<1> DEFINE S == {r \in Records : r >= n}
<1>1. Records \subseteq Nat /\ Records # {}
  BY KafkaAssumption
<1>2. Max(Records) \in Records /\ Max(Records) \in Nat
  BY <1>1 DEF OffsetsOrdered
<1>3. Max(Records) \in S
  BY <1>1, <1>2, SMTT(30) DEF End
<1>4. S \in SUBSET Records /\ S # {}
  BY <1>3
<1>5. Min(S) \in S /\ \A y \in S : Min(S) <= y
  <2> HIDE DEF S
  <2> QED
    BY <1>4 DEF OffsetsOrdered
<1> DEFINE o == Min(S)
<1>6. o \in S /\ \A y \in S : o <= y
  BY <1>5
<1> HIDE DEF o
<1>7. /\ o \in Records /\ o \in Nat /\ o >= n
      /\ \A r \in Records : r < o + 1 => r = o \/ r < n
  BY <1>1, <1>6, SMTT(30)
<1> QED
  BY <1>7 DEF o

-----------------------------------------------------------------------------
(* Positions to commit.                                                      *)

(* What the type of an active partition's progress says of its parts.        *)
LEMMA Parts ==
  ASSUME Types, NEW p \in Partitions, IsActive(p)
  PROVE  /\ active[p] \in Tracking
         /\ active[p].generation \in Nat /\ active[p].next \in Nat \cup {-1}
         /\ active[p].handoff \in BOOLEAN
         /\ DOMAIN active[p].received \subseteq Records
         /\ active[p].received \in [DOMAIN active[p].received -> Status]
         /\ active[p] = [generation |-> active[p].generation, handoff |-> active[p].handoff,
                         next |-> active[p].next, received |-> active[p].received]
<1>1. active[p] \in Tracking
  BY DEF Types, IsActive
<1>2. /\ active[p].generation \in Nat /\ active[p].next \in Nat \cup {-1}
      /\ active[p].handoff \in BOOLEAN
      /\ active[p].received \in UNION {[S -> Status] : S \in SUBSET Records}
      /\ active[p] = [generation |-> active[p].generation, handoff |-> active[p].handoff,
                      next |-> active[p].next, received |-> active[p].received]
  BY <1>1 DEF Tracking, None
<1>3. PICK S \in SUBSET Records : active[p].received \in [S -> Status]
  BY <1>2
<1> QED
  BY <1>1, <1>2, <1>3

(* Progress is no absent value.                                              *)
LEMMA NotNobody == \A t \in Tracking : t # Nobody
<1> SUFFICES ASSUME NEW t \in Tracking PROVE t # Nobody
  OBVIOUS
<1>1. PICK S \in SUBSET Records : t.received \in [S -> Status]
  BY DEF Tracking
<1>2. /\ t = [generation |-> t.generation, handoff |-> t.handoff, next |-> t.next,
              received |-> t.received]
      /\ t.generation \in Nat /\ t.handoff \in BOOLEAN /\ t.next \in Int
  BY SMTT(30) DEF Tracking, None
<1>3. t \in [generation : Nat, handoff : BOOLEAN, next : Int,
             received : UNION {[T -> Status] : T \in SUBSET Records}]
  BY <1>1, <1>2
<1> QED
  BY <1>3, KafkaAssumption

(* Every position that may be committed is behind processed records only.    *)
CommitsSeen ==
  \A p \in Partitions : IsActive(p) /\ CommitPosition(p) # None =>
    CommitPosition(p) \in Nat /\ SeenBelow(p, CommitPosition(p))

(* commit_position never passes a record that is registered and not          *)
(* acknowledged, nor one before the tracked ones that nobody processed.      *)
LEMMA PositionIsSeen ==
  OffsetsOrdered /\ Types /\ Generations /\ Contiguous /\ DoneIsOfThisAssignment => CommitsSeen
<1> SUFFICES ASSUME OffsetsOrdered, Types, Generations, Contiguous, DoneIsOfThisAssignment,
                    NEW p \in Partitions, IsActive(p), CommitPosition(p) # None
             PROVE  CommitPosition(p) \in Nat /\ SeenBelow(p, CommitPosition(p))
  BY DEF CommitsSeen
<1> DEFINE r == active[p].received
           open == {o \in DOMAIN r : r[o] # "done"}
           n == active[p].next
           g == active[p].generation
<1>1. /\ n \in Nat \cup {-1} /\ DOMAIN r \subseteq Records /\ DOMAIN r \subseteq Nat
      /\ Records \subseteq Nat
  <2>1. n \in Nat \cup {-1} /\ DOMAIN r \subseteq Records
    BY Parts
  <2> QED
    BY <2>1, KafkaAssumption
<1>2. g \in Gens
  <2>1. generations[p] \in Nat /\ assigns \in Nat /\ assigns <= MaxAssigns /\ MaxAssigns \in Nat
    BY KafkaAssumption DEF Types
  <2>2. g = generations[p] /\ generations[p] + 2 <= 3 * assigns
    BY DEF Generations
  <2> QED
    BY <2>1, <2>2, SMTT(30) DEF Gens
<1>3. \A o \in DOMAIN r : r[o] = "done" => Seen(p, o)
  BY <1>2 DEF DoneIsOfThisAssignment, Seen
<1>4. /\ SeenBelow(p, n)
      /\ \A o \in Records : (\E x \in DOMAIN r : o <= x) => o \in DOMAIN r \/ Seen(p, o)
  BY DEF Contiguous, Known
<1>5. CASE open # {}
  <2>1. open \in SUBSET Nat /\ open \in SUBSET Records
    BY <1>1
  <2>2. Min(open) \in open /\ \A y \in open : Min(open) <= y
    <3> HIDE DEF open
    <3> QED
      BY <1>5, <2>1 DEF OffsetsOrdered
  <2>3. CommitPosition(p) = Min(open)
    BY <1>5 DEF CommitPosition
  <2> DEFINE c == Min(open)
  <2>4. c \in open /\ c \in Nat /\ \A y \in open : c <= y
    BY <2>1, <2>2
  <2> HIDE DEF c
  <2>5. ASSUME NEW o \in Records, o < c PROVE Seen(p, o)
    <3>1. c \in DOMAIN r /\ o \in Nat /\ o \notin open
      BY <1>1, <2>4, <2>5, SMTT(30)
    <3>2. o <= c
      BY <2>4, <2>5, <3>1, SMTT(30)
    <3>3. o \in DOMAIN r \/ Seen(p, o)
      BY <1>4, <3>1, <3>2
    <3> QED
      BY <1>3, <3>1, <3>3
  <2>6. CommitPosition(p) = c
    BY <2>3 DEF c
  <2> QED
    BY <2>4, <2>5, <2>6 DEF SeenBelow
<1>6. CASE open = {} /\ DOMAIN r # {}
  <2>1. Max(DOMAIN r) \in DOMAIN r /\ \A y \in DOMAIN r : Max(DOMAIN r) >= y
    <3>1. DOMAIN r \in SUBSET Records
      BY <1>1
    <3> HIDE DEF r
    <3> QED
      BY <1>6, <3>1 DEF OffsetsOrdered
  <2> DEFINE c == Max(DOMAIN r)
  <2>2. c \in DOMAIN r /\ c \in Nat /\ \A y \in DOMAIN r : c >= y
    BY <1>1, <2>1
  <2>3. CommitPosition(p) = c + 1
    BY <1>6 DEF CommitPosition
  <2> HIDE DEF c
  <2>4. ASSUME NEW o \in Records, o < c + 1 PROVE Seen(p, o)
    <3>1. o \in Nat /\ o <= c
      BY <1>1, <2>2, <2>4, SMTT(30)
    <3>2. o \in DOMAIN r \/ Seen(p, o)
      BY <1>4, <2>2, <3>1
    <3> QED
      BY <1>3, <1>6, <3>2
  <2> QED
    BY <2>2, <2>3, <2>4, SMTT(30) DEF SeenBelow
<1>7. CASE open = {} /\ DOMAIN r = {}
  <2>1. CommitPosition(p) = IF n # None /\ n > n THEN n ELSE None
    BY <1>7 DEF CommitPosition
  <2> QED
    BY <1>1, <2>1, SMTT(30)
<1> QED
  BY <1>5, <1>6, <1>7

-----------------------------------------------------------------------------
(* Steps that register nothing.                                              *)

(* The step keeps p's assignment or ends it, and only takes records out of   *)
(* its progress that everyone before next has processed.                     *)
Shrinks(p) ==
  IsActive(p)' =>
    /\ IsActive(p)
    /\ active'[p].generation = active[p].generation
    /\ active[p].handoff => active'[p].handoff
    /\ active[p].next <= active'[p].next
    /\ active'[p].next = None => active[p].next = None
    /\ \A o \in Records : o < active'[p].next => Seen(p, o)'
    /\ DOMAIN active'[p].received = {o \in DOMAIN active[p].received : o >= active'[p].next}
    /\ \A o \in DOMAIN active'[p].received :
         \/ active'[p].received[o] = active[p].received[o]
         \/ active'[p].received[o] = "released"
         \/ active'[p].received[o] = "done" /\ <<p, active[p].generation, o>> \in acked'

(* What was processed stays so.                                              *)
LEMMA SeenStays ==
  ASSUME acked \subseteq acked'
  PROVE  \A p, o : Seen(p, o) => Seen(p, o)'
BY DEF Seen

(* A partition whose progress the step leaves alone.                         *)
LEMMA SameShrinks ==
  ASSUME Types, Contiguous, acked \subseteq acked', NEW p \in Partitions, active'[p] = active[p]
  PROVE  Shrinks(p)
<1> SUFFICES ASSUME IsActive(p) PROVE Shrinks(p)
  BY DEF Shrinks, IsActive
<1>1. active[p].next \in Nat \cup {-1} /\ DOMAIN active[p].received \subseteq Records
  BY Parts
<1>2. \A o \in Records : o < active[p].next => Seen(p, o)'
  BY SeenStays DEF Contiguous, SeenBelow
<1>3. DOMAIN active[p].received = {o \in DOMAIN active[p].received : o >= active[p].next}
  BY DEF Contiguous
<1>4. active[p].next <= active[p].next
  BY <1>1, SMTT(30)
<1> QED
  BY <1>2, <1>3, <1>4 DEF Shrinks

(* What a step that registers nothing keeps: the records received stay       *)
(* without a gap, those on their way stay in order, deliveries in progress   *)
(* stay known and only acknowledged deliveries are done.                     *)
LEMMA ShrinkingKeeps ==
  ASSUME Types, Types', Contiguous, InOrder, HeldIsKnown, DoneIsOfThisAssignment,
         acked \subseteq acked', \A p \in Partitions : Shrinks(p),
         fetch' = fetch, held' \subseteq held,
         pc' = "send" <=> pc = "send", pc = "send" => polled' = polled,
         (\E p \in Partitions : IsActive(p)') => channel' = channel
  PROVE  Contiguous' /\ InOrder' /\ HeldIsKnown' /\ DoneIsOfThisAssignment'
<1>0. Records \subseteq Nat
  BY KafkaAssumption
<1>1. ASSUME NEW p \in Partitions, IsActive(p)'
      PROVE  /\ IsActive(p)
             /\ active'[p].generation = active[p].generation
             /\ active[p].handoff => active'[p].handoff
             /\ active[p].next \in Nat \cup {-1} /\ active'[p].next \in Nat \cup {-1}
             /\ active[p].next <= active'[p].next
             /\ active'[p].next = None => active[p].next = None
             /\ \A o \in Records : o < active'[p].next => Seen(p, o)'
             /\ DOMAIN active'[p].received = {o \in DOMAIN active[p].received : o >= active'[p].next}
             /\ DOMAIN active[p].received \subseteq Records
  <2>1. IsActive(p) /\ active[p].next \in Nat \cup {-1} /\ DOMAIN active[p].received \subseteq Records
    BY <1>1, Parts DEF Shrinks
  <2>2. active'[p] \in Tracking
    BY <1>1 DEF Types, IsActive
  <2>3. active'[p].next \in Nat \cup {-1}
    BY <2>2 DEF Tracking, None
  <2> QED
    BY <1>1, <2>1, <2>3 DEF Shrinks
<1>2. ASSUME NEW p \in Partitions, IsActive(p)', NEW o \in Records, Known(p, o)
      PROVE  Known(p, o)'
  <2>1. CASE Seen(p, o)
    BY <2>1, SeenStays DEF Known
  <2>2. CASE o \in DOMAIN active[p].received
    <3>1. CASE o >= active'[p].next
      BY <1>1, <1>2, <2>2, <3>1 DEF Known
    <3>2. CASE o < active'[p].next
      BY <1>1, <1>2, <3>2 DEF Known
    <3> QED
      BY <1>0, <1>1, <1>2, <3>1, <3>2, SMTT(30)
  <2> QED
    BY <1>2, <2>1, <2>2 DEF Known
<1>3. Contiguous'
  <2> SUFFICES ASSUME NEW p \in Partitions, IsActive(p)'
               PROVE  /\ active'[p].next = None => DOMAIN active'[p].received = {}
                      /\ SeenBelow(p, active[p].next)'
                      /\ \A o \in DOMAIN active'[p].received : o >= active'[p].next
                      /\ \A o \in Records :
                           (\E r \in DOMAIN active'[p].received : o <= r) => Known(p, o)'
    BY DEF Contiguous
  <2>1. active'[p].next = None => DOMAIN active'[p].received = {}
    BY <1>1 DEF Contiguous
  <2>2. SeenBelow(p, active[p].next)'
    BY <1>1 DEF SeenBelow
  <2>3. \A o \in DOMAIN active'[p].received : o >= active'[p].next
    BY <1>1
  <2>4. ASSUME NEW o \in Records, NEW r \in DOMAIN active'[p].received, o <= r
        PROVE  Known(p, o)'
    <3>1. IsActive(p) /\ r \in DOMAIN active[p].received
      BY <1>1, <2>4
    <3>2. Known(p, o)
      BY <2>4, <3>1 DEF Contiguous
    <3> QED
      BY <1>2, <3>2
  <2> QED
    BY <2>1, <2>2, <2>3, <2>4
<1>4. InOrder'
  <2> SUFFICES ASSUME NEW p \in Partitions, IsActive(p)', ~active'[p].handoff, NEW o \in Records
               PROVE  LET g == active[p].generation
                          sent(x) == channel = <<p, g, x>>
                          taken(x) == pc = "send" /\ polled = <<p, g, x>>
                      IN /\ o < fetch[p] => Known(p, o)' \/ sent(o) \/ taken(o)
                         /\ \A c \in Records :
                              /\ o < c /\ taken(c) => Known(p, o)' \/ sent(o)
                              /\ o < c /\ sent(c) => Known(p, o)'
    <3>1. \A p \in Partitions : IsActive(p)' =>
            channel' = channel /\ active'[p].generation = active[p].generation
      BY <1>1
    <3> QED
      BY <3>1 DEF InOrder
  <2>1. IsActive(p) /\ ~active[p].handoff
    BY <1>1
  <2>2. Known(p, o) => Known(p, o)'
    BY <1>2
  <2> QED
    BY <2>1, <2>2 DEF InOrder
<1>5. HeldIsKnown'
  <2> SUFFICES ASSUME NEW d \in held, IsActive(d[1])', active'[d[1]].generation = d[2]
               PROVE  d[3] \in DOMAIN active'[d[1]].received \/ d[3] < active'[d[1]].next
    BY DEF HeldIsKnown, IsCurrent
  <2>1. d[1] \in Partitions /\ d[3] \in Nat
    BY <1>0 DEF Types
  <2>2. IsCurrent(d[1], d[2])
    BY <1>1, <2>1 DEF IsCurrent
  <2>3. d[3] \in DOMAIN active[d[1]].received \/ d[3] < active[d[1]].next
    BY <2>2 DEF HeldIsKnown
  <2> QED
    BY <1>1, <2>1, <2>3, SMTT(30)
<1>6. DoneIsOfThisAssignment'
  <2> SUFFICES ASSUME NEW p \in Partitions, IsActive(p)',
                      NEW o \in DOMAIN active'[p].received, active'[p].received[o] = "done"
               PROVE  <<p, active'[p].generation, o>> \in acked'
    BY DEF DoneIsOfThisAssignment
  <2>1. /\ IsActive(p) /\ o \in DOMAIN active[p].received
        /\ active'[p].generation = active[p].generation
    BY <1>1
  <2>2. \/ active'[p].received[o] = active[p].received[o]
        \/ <<p, active[p].generation, o>> \in acked'
    BY DEF Shrinks
  <2> QED
    BY <2>1, <2>2 DEF DoneIsOfThisAssignment
<1> QED
  BY <1>3, <1>4, <1>5, <1>6

(* Nor does such a step leave a pending record without its delivery, unless  *)
(* it takes a delivery or an acknowledgement away.                           *)
LEMMA PendingStays ==
  ASSUME PendingIsHeld, \A p \in Partitions : Shrinks(p), held' = held,
         acking' = acking \/ (acking # Nobody => acking.at # "lost")
  PROVE  PendingIsHeld'
<1> SUFFICES ASSUME NEW p \in Partitions, IsActive(p)',
                    NEW o \in DOMAIN active'[p].received, active'[p].received[o] = "pending"
             PROVE  LET d == <<p, active'[p].generation, o>>
                    IN d \in held' \/ (acking' # Nobody /\ acking'.at = "lost" /\ acking'.d = d)
  BY DEF PendingIsHeld
<1>1. /\ IsActive(p) /\ o \in DOMAIN active[p].received
      /\ active'[p].generation = active[p].generation /\ active[p].received[o] = "pending"
  BY DEF Shrinks
<1> QED
  BY <1>1 DEF PendingIsHeld

(* Positions on their way stay behind processed records only.                *)
LEMMA PositionsStay ==
  ASSUME PositionsSeen, acked \subseteq acked', committed' = committed, orphans' \subseteq orphans,
         acking' = acking \/ acking' = Nobody,
         pc' = "handoffCommit" => pc = "handoffCommit" /\ polled' = polled
  PROVE  PositionsSeen'
<1>1. \A p, n : SeenBelow(p, n) => \A o \in Records : o < n => Seen(p, o)'
  BY SeenStays DEF SeenBelow
<1>2. \A p \in Partitions : \A o \in Records : o < committed'[p] => Seen(p, o)'
  BY <1>1 DEF PositionsSeen
<1>3. \A c \in orphans' : c[1] \in Partitions /\ c[2] \in Nat
                          /\ \A o \in Records : o < c[2] => Seen(c[1], o)'
  BY <1>1 DEF PositionsSeen
<1>4. acking' # Nobody /\ acking'.at \in {"commit", "landed"} =>
        acking'.d[1] \in Partitions /\ acking'.next \in Nat
        /\ \A o \in Records : o < acking'.next => Seen(acking.d[1], o)'
  BY <1>1 DEF PositionsSeen, Seen
<1>5. pc' = "handoffCommit" =>
        \A p \in DOMAIN polled'.positions :
          p \in Partitions /\ polled'.positions[p][2] \in Nat
          /\ \A o \in Records : o < polled'.positions[p][2] => Seen(p, o)'
  BY <1>1 DEF PositionsSeen
<1> QED
  BY <1>2, <1>3, <1>4, <1>5 DEF PositionsSeen, SeenBelow, Seen

(* The transaction under way keeps its batch and its assignments.            *)
LEMMA TxStays ==
  ASSUME TxCovers, TxOnlyOfAssigned, acked \subseteq acked', txn' = txn, config' = config,
         acking' = acking \/ acking' = Nobody \/ ~config.transactional,
         txn # Nobody => txn.batch \subseteq held',
         txn # Nobody => \A p \in Partitions : IsActive(p) =>
                           IsActive(p)' /\ active'[p].generation = active[p].generation
  PROVE  TxCovers' /\ TxOnlyOfAssigned'
<1>1. CASE txn = Nobody
  BY <1>1 DEF TxCovers, TxOnlyOfAssigned
<1>2. CASE txn # Nobody
  <2>1. /\ config.transactional /\ acking' = Nobody
        /\ DOMAIN txn.next \subseteq Partitions
        /\ \A d \in txn.batch :
             d[1] \in DOMAIN txn.next /\ d[2] = txn.next[d[1]][1] /\ d[3] < txn.next[d[1]][2]
    BY <1>2 DEF TxCovers
  <2>2. ASSUME NEW p \in DOMAIN txn.next
        PROVE  /\ txn.next[p][2] \in Nat
               /\ \E d \in txn.batch : d[1] = p /\ txn.next[p][2] = d[3] + 1
    BY <1>2 DEF TxCovers
  <2>3. ASSUME NEW p \in DOMAIN txn.next PROVE IsCurrent(p, txn.next[p][1])'
    BY <1>2, <2>1 DEF TxOnlyOfAssigned, IsCurrent
  <2>4. TxCovers'
    BY <2>1, <2>2 DEF TxCovers
  <2>5. TxOnlyOfAssigned'
    BY <2>3 DEF TxOnlyOfAssigned, IsCurrent
  <2> QED
    BY <2>4, <2>5
<1> QED
  BY <1>1, <1>2

(* A step that begins no assignment and sends no record.                     *)
LEMMA GenerationsStay ==
  ASSUME Types, Generations, UNCHANGED <<generations, assigned, assigns, closed>>,
         \A p \in Partitions : IsActive(p)' =>
           IsActive(p) /\ active'[p].generation = active[p].generation,
         held' \subseteq held, channel' = channel \/ channel' = Nobody,
         pc' = "send" => pc = "send" /\ polled' = polled,
         pc' \in {"settle", "gate", "handoffCommit", "revoke"} =>
           /\ pc \in {"settle", "gate", "handoffCommit", "revoke"}
           /\ polled'.revoked = polled.revoked /\ polled'.handed = polled.handed
  PROVE  Generations'
<1>1. ASSUME NEW p \in Partitions
      PROVE  /\ generations'[p] + (IF IsActive(p)' THEN 2 ELSE IF p \in assigned' THEN 1 ELSE 0)
                  <= 3 * assigns'
             /\ IsActive(p)' => p \in assigned' /\ active'[p].generation = generations'[p]
  <2>1. generations[p] \in Nat /\ assigns \in Nat
    BY DEF Types
  <2>2. /\ generations[p] + (IF IsActive(p) THEN 2 ELSE IF p \in assigned THEN 1 ELSE 0)
             <= 3 * assigns
        /\ IsActive(p) => p \in assigned /\ active[p].generation = generations[p]
    BY DEF Generations
  <2> QED
    BY <2>1, <2>2, SMTT(30)
<1>2. closed' => \A p \in Partitions : ~IsActive(p)'
  BY DEF Generations
<1>3. /\ \A d \in held' : d[2] <= generations'[d[1]]
      /\ channel' # Nobody => channel'[2] <= generations'[channel'[1]]
      /\ pc' = "send" => polled'[2] <= generations'[polled'[1]]
  BY DEF Generations
<1>4. pc' \in {"settle", "gate", "handoffCommit", "revoke"} =>
        polled'.revoked \subseteq assigned' /\ polled'.handed \subseteq polled'.revoked
  BY DEF Generations
<1> QED
  BY <1>1, <1>2, <1>3, <1>4 DEF Generations

(* A step that changes only what the invariant does not speak of: Pause,     *)
(* Resume, FlowReaches, Lose and stuttering.                                 *)
LEMMA Elsewhere ==
  ASSUME ProgressInv,
         UNCHANGED <<config, active, generations, assigned, fetch, assigns, pc, polled, channel,
                     held, acking, orphans, txn, closed, committed, acked>>
  PROVE  ProgressInv'
<1> USE DEF ProgressInv
<1>1. Types'
  BY DEF Types
<1>2. \A p \in Partitions : Shrinks(p)
  BY SameShrinks
<1>3. Contiguous' /\ InOrder' /\ HeldIsKnown' /\ DoneIsOfThisAssignment'
  BY <1>1, <1>2, ShrinkingKeeps
<1>4. PendingIsHeld'
  BY <1>2, PendingStays
<1>5. PositionsSeen'
  BY PositionsStay
<1>6. TxCovers' /\ TxOnlyOfAssigned'
  <2>1. txn # Nobody => txn.batch \subseteq held'
    BY DEF TxCovers
  <2>2. \A p \in Partitions : IsActive(p) =>
          IsActive(p)' /\ active'[p].generation = active[p].generation
    BY DEF IsActive
  <2> QED
    BY <2>1, <2>2, TxStays
<1>7. Generations'
  <2>1. \A p \in Partitions : IsActive(p)' =>
          IsActive(p) /\ active'[p].generation = active[p].generation
    BY DEF IsActive
  <2> QED
    BY <2>1, GenerationsStay
<1> QED
  BY <1>1, <1>3, <1>4, <1>5, <1>6, <1>7

-----------------------------------------------------------------------------
(* The steps that leave every partition's progress alone.                    *)

LEMMA SameProgress ==
  ASSUME ProgressInv, Types', UNCHANGED <<active, fetch, held, channel>>, acked \subseteq acked',
         pc' = "send" <=> pc = "send", pc = "send" => polled' = polled,
         acking' = acking \/ (acking # Nobody => acking.at # "lost")
  PROVE  /\ Contiguous' /\ InOrder' /\ HeldIsKnown' /\ DoneIsOfThisAssignment' /\ PendingIsHeld'
         /\ \A p \in Partitions : IsActive(p)' <=> IsActive(p)
         /\ \A p \in Partitions : active'[p].generation = active[p].generation
<1> USE DEF ProgressInv
<1>1. \A p \in Partitions : Shrinks(p)
  BY SameShrinks
<1>2. Contiguous' /\ InOrder' /\ HeldIsKnown' /\ DoneIsOfThisAssignment'
  BY <1>1, ShrinkingKeeps
<1>3. PendingIsHeld'
  BY <1>1, PendingStays
<1> QED
  BY <1>2, <1>3 DEF IsActive

(* wait_settled: the callback goes on to the commit gate.                    *)
LEMMA SettleKeeps == ASSUME ProgressInv, Settle PROVE ProgressInv'
<1> USE DEF ProgressInv
<1>1. /\ UNCHANGED <<config, active, generations, assigned, fetch, assigns, channel, held, acking,
                     orphans, txn, closed, committed, acked>>
      /\ pc = "settle" /\ pc' = "gate" /\ polled' = [polled EXCEPT !.settled = IsSettled]
  BY DEF Settle, progressVars, consumerVars, ackVars, brokerVars
<1>2. /\ polled' = [revoked |-> polled.revoked, handed |-> polled.handed, settled |-> IsSettled,
                    positions |-> polled.positions, ok |-> polled.ok]
      /\ polled'.revoked = polled.revoked /\ polled'.handed = polled.handed
  <2>1. polled = [revoked |-> polled.revoked, handed |-> polled.handed, settled |-> polled.settled,
                  positions |-> polled.positions, ok |-> polled.ok]
    BY <1>1 DEF Types
  <2> QED
    BY <1>1, <2>1
<1>3. Types'
  BY <1>1, <1>2 DEF Types
<1>4. /\ Contiguous' /\ InOrder' /\ HeldIsKnown' /\ DoneIsOfThisAssignment' /\ PendingIsHeld'
      /\ \A p \in Partitions : IsActive(p)' <=> IsActive(p)
      /\ \A p \in Partitions : active'[p].generation = active[p].generation
  BY <1>1, <1>3, SameProgress
<1>5. PositionsSeen'
  BY <1>1, PositionsStay
<1>6. TxCovers' /\ TxOnlyOfAssigned'
  <2>1. txn # Nobody => txn.batch \subseteq held'
    BY <1>1 DEF TxCovers
  <2> QED
    BY <1>1, <1>4, <2>1, TxStays
<1>7. Generations'
  BY <1>1, <1>2, <1>4, GenerationsStay
<1> QED
  BY <1>3, <1>4, <1>5, <1>6, <1>7

(* hand_off reads positions behind processed records only.                   *)
LEMMA TakeGateKeeps == ASSUME OffsetsOrdered, ProgressInv, TakeGate PROVE ProgressInv'
<1> USE DEF ProgressInv
<1> DEFINE ready == {p \in polled.handed : IsActive(p) /\ CommitPosition(p) # None}
           pos == [p \in ready |-> <<active[p].generation, CommitPosition(p)>>]
<1>1. /\ UNCHANGED <<config, active, generations, assigned, fetch, assigns, channel, held, acking,
                     orphans, txn, closed, committed, acked>>
      /\ pc = "gate" /\ pc' \in {"revoke", "handoffCommit"}
      /\ polled' = [polled EXCEPT !.positions = pos, !.ok = ready = {}]
  BY DEF TakeGate, progressVars, consumerVars, brokerVars
<1> HIDE DEF pos
<1>2. /\ polled' = [revoked |-> polled.revoked, handed |-> polled.handed,
                    settled |-> polled.settled, positions |-> pos, ok |-> ready = {}]
      /\ polled'.revoked = polled.revoked /\ polled'.handed = polled.handed
      /\ polled'.positions = pos
  <2>1. polled = [revoked |-> polled.revoked, handed |-> polled.handed, settled |-> polled.settled,
                  positions |-> polled.positions, ok |-> polled.ok]
    BY <1>1 DEF Types
  <2> HIDE DEF ready
  <2> QED
    BY <1>1, <2>1
<1>3. Types'
  BY <1>1, <1>2 DEF Types
<1>4. /\ Contiguous' /\ InOrder' /\ HeldIsKnown' /\ DoneIsOfThisAssignment' /\ PendingIsHeld'
      /\ \A p \in Partitions : IsActive(p)' <=> IsActive(p)
      /\ \A p \in Partitions : active'[p].generation = active[p].generation
  BY <1>1, <1>3, SameProgress
<1>5. PositionsSeen'
  <2>1. ASSUME NEW p \in DOMAIN pos
        PROVE  p \in Partitions /\ pos[p][2] \in Nat /\ SeenBelow(p, pos[p][2])
    <3>1. p \in ready /\ pos[p][2] = CommitPosition(p)
      BY <2>1 DEF pos
    <3>2. p \in Partitions
      BY <1>1, <3>1 DEF Generations, Types
    <3> QED
      BY <3>1, <3>2, PositionIsSeen DEF CommitsSeen
  <2>2. \A p \in Partitions : SeenBelow(p, committed[p])'
    BY <1>1 DEF PositionsSeen, SeenBelow, Seen
  <2>3. \A c \in orphans : c[1] \in Partitions /\ c[2] \in Nat /\ SeenBelow(c[1], c[2])'
    BY <1>1 DEF PositionsSeen, SeenBelow, Seen
  <2>4. acking' # Nobody /\ acking'.at \in {"commit", "landed"} =>
          acking'.d[1] \in Partitions /\ acking'.next \in Nat
          /\ SeenBelow(acking.d[1], acking.next)'
    BY <1>1 DEF PositionsSeen, SeenBelow, Seen
  <2>5. \A p \in DOMAIN polled'.positions :
          p \in Partitions /\ polled'.positions[p][2] \in Nat /\ SeenBelow(p, polled.positions[p][2])'
    BY <1>1, <1>2, <2>1 DEF SeenBelow, Seen
  <2> QED
    BY <1>1, <2>2, <2>3, <2>4, <2>5 DEF PositionsSeen
<1>6. TxCovers' /\ TxOnlyOfAssigned'
  <2>1. txn # Nobody => txn.batch \subseteq held'
    BY <1>1 DEF TxCovers
  <2> QED
    BY <1>1, <1>4, <2>1, TxStays
<1>7. Generations'
  BY <1>1, <1>2, <1>4, GenerationsStay
<1> QED
  BY <1>3, <1>4, <1>5, <1>6, <1>7

(* post_rebalance pauses and the poll returns.                               *)
LEMMA PauseNewKeeps == ASSUME ProgressInv, PauseNew PROVE ProgressInv'
<1> USE DEF ProgressInv
<1>1. /\ UNCHANGED <<config, active, generations, assigned, fetch, assigns, channel, held, acking,
                     orphans, txn, closed, committed, acked>>
      /\ pc = "pauseNew" /\ pc' = "poll"
  BY DEF PauseNew, progressVars, consumerVars, ackVars, brokerVars
<1>2. Types'
  BY <1>1 DEF Types
<1>3. /\ Contiguous' /\ InOrder' /\ HeldIsKnown' /\ DoneIsOfThisAssignment' /\ PendingIsHeld'
      /\ \A p \in Partitions : IsActive(p)' <=> IsActive(p)
      /\ \A p \in Partitions : active'[p].generation = active[p].generation
  BY <1>1, <1>2, SameProgress
<1>4. PositionsSeen'
  BY <1>1, PositionsStay
<1>5. TxCovers' /\ TxOnlyOfAssigned'
  <2>1. txn # Nobody => txn.batch \subseteq held'
    BY <1>1 DEF TxCovers
  <2> QED
    BY <1>1, <1>3, <2>1, TxStays
<1>6. Generations'
  BY <1>1, <1>3, GenerationsStay
<1> QED
  BY <1>2, <1>3, <1>4, <1>5, <1>6

(* A broker call of an acknowledgement, a transaction or another consumer:   *)
(* what is left to show is that its offsets are behind processed records.    *)
LEMMA BrokerCallKeeps ==
  ASSUME ProgressInv,
         UNCHANGED <<config, active, generations, assigned, fetch, assigns, pc, polled, channel,
                     held, closed>>,
         acked \subseteq acked', committed' \in [Partitions -> Nat],
         acking' = acking \/ (acking # Nobody => acking.at # "lost"),
         acking' # Nobody => acking' = [d |-> acking'.d, at |-> acking'.at, next |-> acking'.next],
         PositionsSeen', TxCovers', TxOnlyOfAssigned'
  PROVE  ProgressInv'
<1> USE DEF ProgressInv
<1>1. Types'
  BY DEF Types
<1>2. /\ Contiguous' /\ InOrder' /\ HeldIsKnown' /\ DoneIsOfThisAssignment' /\ PendingIsHeld'
      /\ \A p \in Partitions : IsActive(p)' <=> IsActive(p)
      /\ \A p \in Partitions : active'[p].generation = active[p].generation
  BY <1>1, SameProgress
<1>3. Generations'
  BY <1>2, GenerationsStay
<1> QED
  BY <1>1, <1>2, <1>3

(* The same, of a call outside the transaction gate.                         *)
LEMMA OtherCallKeeps ==
  ASSUME ProgressInv,
         UNCHANGED <<config, active, generations, assigned, fetch, assigns, pc, polled, channel,
                     held, closed, txn>>,
         acked \subseteq acked', committed' \in [Partitions -> Nat],
         acking' = acking \/ (acking # Nobody => acking.at # "lost"),
         acking' # Nobody => acking' = [d |-> acking'.d, at |-> acking'.at, next |-> acking'.next],
         acking' = acking \/ acking' = Nobody \/ ~config.transactional,
         PositionsSeen'
  PROVE  ProgressInv'
<1> USE DEF ProgressInv
<1>1. TxCovers' /\ TxOnlyOfAssigned'
  <2>1. txn # Nobody => txn.batch \subseteq held'
    BY DEF TxCovers
  <2>2. \A p \in Partitions : IsActive(p) =>
          IsActive(p)' /\ active'[p].generation = active[p].generation
    BY DEF IsActive
  <2> QED
    BY <2>1, <2>2, TxStays
<1> QED
  BY <1>1, BrokerCallKeeps

(* An acknowledgement's commit lands: its position was read from progress.   *)
LEMMA AckCommitLandsKeeps == ASSUME ProgressInv, AckCommitLands PROVE ProgressInv'
<1> USE DEF ProgressInv
<1>1. /\ UNCHANGED <<config, active, generations, assigned, fetch, assigns, pc, polled, channel,
                     held, closed, txn, orphans, acked>>
      /\ acking # Nobody /\ acking.at = "commit"
      /\ committed' = [committed EXCEPT ![acking.d[1]] = acking.next]
      /\ acking' = [acking EXCEPT !.at = "landed"]
  BY DEF AckCommitLands, progressVars, pollVars, consumerVars
<1>2. /\ acking' = [d |-> acking.d, at |-> "landed", next |-> acking.next]
      /\ acking'.d = acking.d /\ acking'.next = acking.next /\ acking'.at = "landed"
  <2>1. acking = [d |-> acking.d, at |-> acking.at, next |-> acking.next]
    BY <1>1 DEF Types
  <2> QED
    BY <1>1, <2>1
<1>3. /\ acking.d[1] \in Partitions /\ acking.next \in Nat
      /\ SeenBelow(acking.d[1], acking.next)
  BY <1>1 DEF PositionsSeen
<1>4. committed' \in [Partitions -> Nat]
  BY <1>1, <1>3 DEF Types
<1>5. ~config.transactional
  BY <1>1 DEF TxCovers
<1>6. PositionsSeen'
  <2>1. ASSUME NEW p \in Partitions PROVE SeenBelow(p, committed'[p])
    <3>1. CASE p = acking.d[1]
      <4>1. committed'[p] = acking.next
        BY <1>1, <3>1 DEF Types
      <4> QED
        BY <1>3, <3>1, <4>1
    <3>2. CASE p # acking.d[1]
      <4>1. committed'[p] = committed[p]
        BY <1>1, <3>2 DEF Types
      <4> QED
        BY <4>1 DEF PositionsSeen
    <3> QED
      BY <3>1, <3>2
  <2>2. \A p \in Partitions : SeenBelow(p, committed[p])'
    BY <1>1, <2>1 DEF SeenBelow, Seen
  <2>3. \A c \in orphans : c[1] \in Partitions /\ c[2] \in Nat /\ SeenBelow(c[1], c[2])'
    BY <1>1 DEF PositionsSeen, SeenBelow, Seen
  <2>4. acking'.d[1] \in Partitions /\ acking'.next \in Nat /\ SeenBelow(acking.d[1], acking.next)'
    BY <1>1, <1>2, <1>3 DEF SeenBelow, Seen
  <2>5. pc' = "handoffCommit" => \A p \in DOMAIN polled'.positions :
          p \in Partitions /\ polled'.positions[p][2] \in Nat /\ SeenBelow(p, polled.positions[p][2])'
    BY <1>1 DEF PositionsSeen, SeenBelow, Seen
  <2> QED
    BY <1>1, <2>2, <2>3, <2>4, <2>5 DEF PositionsSeen
<1> QED
  BY <1>1, <1>2, <1>4, <1>5, <1>6, OtherCallKeeps

(* A failed commit, and a task dropped while its commit is under way.        *)
LEMMA AckEndsKeeps == ASSUME ProgressInv, AckCommitFails \/ AckDropped PROVE ProgressInv'
<1> USE DEF ProgressInv
<1>1. /\ UNCHANGED <<config, active, generations, assigned, fetch, assigns, pc, polled, channel,
                     held, closed, txn, committed, acked>>
      /\ acking # Nobody /\ acking.at \in {"commit", "landed"} /\ acking' = Nobody
      /\ orphans' \subseteq orphans \cup {<<acking.d[1], acking.next>>}
  BY DEF AckCommitFails, AckDropped, AckEnds, progressVars, pollVars, consumerVars, brokerVars
<1>2. /\ acking.d[1] \in Partitions /\ acking.next \in Nat
      /\ SeenBelow(acking.d[1], acking.next)
  BY <1>1 DEF PositionsSeen
<1>3. PositionsSeen'
  <2>1. \A c \in orphans' : c[1] \in Partitions /\ c[2] \in Nat /\ SeenBelow(c[1], c[2])
    BY <1>1, <1>2, SMTT(30) DEF PositionsSeen
  <2>2. \A c \in orphans' : c[1] \in Partitions /\ c[2] \in Nat /\ SeenBelow(c[1], c[2])'
    BY <1>1, <2>1 DEF SeenBelow, Seen
  <2>3. \A p \in Partitions : SeenBelow(p, committed[p])'
    BY <1>1 DEF PositionsSeen, SeenBelow, Seen
  <2>4. pc' = "handoffCommit" => \A p \in DOMAIN polled'.positions :
          p \in Partitions /\ polled'.positions[p][2] \in Nat /\ SeenBelow(p, polled.positions[p][2])'
    BY <1>1 DEF PositionsSeen, SeenBelow, Seen
  <2> QED
    BY <1>1, <2>2, <2>3, <2>4 DEF PositionsSeen
<1>4. committed' \in [Partitions -> Nat]
  BY <1>1 DEF Types
<1> QED
  BY <1>1, <1>3, <1>4, OtherCallKeeps

(* A commit whose acknowledgement was dropped lands late, or never: the      *)
(* offset may go back, never past an unprocessed record.                     *)
LEMMA OrphanEndsKeeps == ASSUME ProgressInv, OrphanEnds PROVE ProgressInv'
<1> USE DEF ProgressInv
<1>1. PICK c \in orphans : /\ orphans' = orphans \ {c}
                           /\ committed' \in {committed, [committed EXCEPT ![c[1]] = c[2]]}
  BY DEF OrphanEnds
<1>2. UNCHANGED <<config, active, generations, assigned, fetch, assigns, pc, polled, channel,
                  held, closed, txn, acking, acked>>
  BY DEF OrphanEnds, progressVars, pollVars, consumerVars
<1>3. c[1] \in Partitions /\ c[2] \in Nat /\ SeenBelow(c[1], c[2])
  BY DEF PositionsSeen
<1>4. committed' \in [Partitions -> Nat]
  BY <1>1, <1>3 DEF Types
<1>5. PositionsSeen'
  <2>1. ASSUME NEW p \in Partitions PROVE SeenBelow(p, committed'[p])
    <3>1. committed'[p] = committed[p] \/ (p = c[1] /\ committed'[p] = c[2])
      BY <1>1 DEF Types
    <3> QED
      BY <1>3, <3>1 DEF PositionsSeen
  <2>2. \A p \in Partitions : SeenBelow(p, committed[p])'
    BY <1>2, <2>1 DEF SeenBelow, Seen
  <2>3. \A x \in orphans' : x[1] \in Partitions /\ x[2] \in Nat /\ SeenBelow(x[1], x[2])'
    BY <1>1, <1>2 DEF PositionsSeen, SeenBelow, Seen
  <2>4. acking' # Nobody /\ acking'.at \in {"commit", "landed"} =>
          acking'.d[1] \in Partitions /\ acking'.next \in Nat
          /\ SeenBelow(acking.d[1], acking.next)'
    BY <1>2 DEF PositionsSeen, SeenBelow, Seen
  <2>5. pc' = "handoffCommit" => \A p \in DOMAIN polled'.positions :
          p \in Partitions /\ polled'.positions[p][2] \in Nat /\ SeenBelow(p, polled.positions[p][2])'
    BY <1>2 DEF PositionsSeen, SeenBelow, Seen
  <2> QED
    BY <2>2, <2>3, <2>4, <2>5 DEF PositionsSeen
<1>6. acking' # Nobody => acking' = [d |-> acking'.d, at |-> acking'.at, next |-> acking'.next]
  BY <1>2 DEF Types
<1> QED
  BY <1>2, <1>4, <1>5, <1>6, OtherCallKeeps

(* Another consumer processes the record at the committed offset.            *)
LEMMA OtherOwnerKeeps ==
  ASSUME OffsetsOrdered, ProgressInv, NEW q \in Partitions, OtherOwner(q) PROVE ProgressInv'
<1> USE DEF ProgressInv
<1>0. PICK n, o : n = committed[q] /\ o = Min({r \in Records : r >= n})
  OBVIOUS
<1>1. /\ UNCHANGED <<config, active, generations, assigned, fetch, assigns, pc, polled, channel,
                     held, closed, txn, acking, orphans>>
      /\ n < End /\ committed' = [committed EXCEPT ![q] = o + 1]
      /\ acked' = acked \cup {<<q, 0, o>>}
  BY <1>0 DEF OtherOwner, progressVars, pollVars, consumerVars, ackVars
<1>2. n \in Nat
  BY <1>0 DEF Types
<1>3. o \in Records /\ o \in Nat /\ \A r \in Records : r < o + 1 => r = o \/ r < n
  BY <1>0, <1>1, <1>2, NextRecord
<1>4. committed' \in [Partitions -> Nat]
  BY <1>1, <1>3, SMTT(30) DEF Types
<1>5. Seen(q, o)'
  <2>1. 0 \in Gens
    BY KafkaAssumption, SMTT(30) DEF Gens
  <2>2. <<q, 0, o>> \in acked'
    BY <1>1
  <2> QED
    BY <2>1, <2>2 DEF Seen
<1>6. acked \subseteq acked'
  BY <1>1
<1>7. PositionsSeen'
  <2>1. \A p, x : SeenBelow(p, x) => \A r \in Records : r < x => Seen(p, r)'
    BY <1>6, SeenStays DEF SeenBelow
  <2>2. ASSUME NEW p \in Partitions, NEW r \in Records, r < committed'[p] PROVE Seen(p, r)'
    <3>1. CASE p = q
      <4>1. committed'[p] = o + 1
        BY <1>1, <3>1 DEF Types
      <4>2. r = o \/ r < committed[p]
        BY <1>0, <1>3, <2>2, <3>1, <4>1
      <4> QED
        BY <1>5, <2>1, <3>1, <4>2 DEF PositionsSeen
    <3>2. CASE p # q
      <4>1. committed'[p] = committed[p]
        BY <1>1, <3>2 DEF Types
      <4> QED
        BY <2>1, <2>2, <4>1 DEF PositionsSeen
    <3> QED
      BY <3>1, <3>2
  <2>3. \A p \in Partitions : SeenBelow(p, committed[p])'
    BY <2>2 DEF SeenBelow
  <2>4. \A x \in orphans : x[1] \in Partitions /\ x[2] \in Nat /\ SeenBelow(x[1], x[2])'
    BY <2>1 DEF PositionsSeen, SeenBelow
  <2>5. acking' # Nobody /\ acking'.at \in {"commit", "landed"} =>
          acking'.d[1] \in Partitions /\ acking'.next \in Nat
          /\ SeenBelow(acking.d[1], acking.next)'
    BY <1>1, <2>1 DEF PositionsSeen, SeenBelow, Seen
  <2>6. pc' = "handoffCommit" => \A p \in DOMAIN polled'.positions :
          p \in Partitions /\ polled'.positions[p][2] \in Nat /\ SeenBelow(p, polled.positions[p][2])'
    BY <1>1, <2>1 DEF PositionsSeen, SeenBelow, Seen
  <2> QED
    BY <1>1, <2>3, <2>4, <2>5, <2>6 DEF PositionsSeen
<1>8. acking' # Nobody => acking' = [d |-> acking'.d, at |-> acking'.at, next |-> acking'.next]
  BY <1>1 DEF Types
<1> QED
  BY <1>1, <1>4, <1>6, <1>7, <1>8, OtherCallKeeps

(* An aborted transaction.                                                   *)
LEMMA TxFailsKeeps == ASSUME ProgressInv, TxFails PROVE ProgressInv'
<1> USE DEF ProgressInv
<1>1. /\ UNCHANGED <<config, active, generations, assigned, fetch, assigns, pc, polled, channel,
                     held, closed, acking, orphans, committed, acked>>
      /\ txn' = Nobody
  BY DEF TxFails, progressVars, pollVars, consumerVars, ackVars, brokerVars
<1>2. PositionsSeen'
  BY <1>1, PositionsStay
<1>3. TxCovers' /\ TxOnlyOfAssigned'
  BY <1>1 DEF TxCovers, TxOnlyOfAssigned
<1>4. committed' \in [Partitions -> Nat]
  BY <1>1 DEF Types
<1>5. acking' # Nobody => acking' = [d |-> acking'.d, at |-> acking'.at, next |-> acking'.next]
  BY <1>1 DEF Types
<1> QED
  BY <1>1, <1>2, <1>3, <1>4, <1>5, BrokerCallKeeps

(* The generation of an active partition is one of the bounded ones.         *)
LEMMA CurrentGens ==
  ASSUME Types, Generations, NEW p \in Partitions, IsActive(p)
  PROVE  active[p].generation \in Gens
<1>1. generations[p] \in Nat /\ assigns \in Nat /\ assigns <= MaxAssigns /\ MaxAssigns \in Nat
  BY KafkaAssumption DEF Types
<1>2. active[p].generation = generations[p] /\ generations[p] + 2 <= 3 * assigns
  BY DEF Generations
<1> QED
  BY <1>1, <1>2, SMTT(30) DEF Gens

(* Up to a delivery in progress everything was received, if not processed.   *)
LEMMA HeldCovers ==
  ASSUME ProgressInv, NEW d \in held, IsCurrent(d[1], d[2]), NEW o \in Records, o <= d[3]
  PROVE  Known(d[1], o)
<1> USE DEF ProgressInv
<1> DEFINE p == d[1]
<1>1. p \in Partitions /\ d[3] \in Records /\ Records \subseteq Nat
  BY KafkaAssumption, SMTT(30) DEF Types
<1>2. IsActive(p) /\ active[p].next \in Nat \cup {-1}
  BY <1>1, Parts DEF IsCurrent
<1>3. CASE d[3] < active[p].next
  <2>1. PICK x, n : x = d[3] /\ n = active[p].next
    OBVIOUS
  <2>2. x \in Nat /\ o \in Nat /\ n \in Nat \cup {-1} /\ o <= x /\ x < n
    BY <1>1, <1>2, <1>3, <2>1
  <2>3. o < n
    BY <2>2, SMTT(30)
  <2> QED
    BY <1>1, <1>2, <2>1, <2>3 DEF Contiguous, SeenBelow, Known
<1>4. CASE d[3] \in DOMAIN active[p].received
  BY <1>1, <1>2, <1>4 DEF Contiguous
<1> QED
  BY <1>3, <1>4 DEF HeldIsKnown

(* SourceOffsets::commit, of a batch of current deliveries.                  *)
LEMMA TxStarts ==
  ASSUME OffsetsOrdered, ProgressInv, NEW B \in SUBSET held, TxBegins(B), txn' # txn PROVE ProgressInv'
<1> USE DEF ProgressInv
<1> DEFINE offs(p) == {d[3] : d \in {x \in B : x[1] = p}}
           nx == [p \in {d[1] : d \in B} |-> <<active[p].generation, Max(offs(p)) + 1>>]
<1>1. /\ UNCHANGED <<config, active, generations, assigned, fetch, assigns, pc, polled, channel,
                     held, closed, acking, orphans, committed, acked>>
      /\ config.transactional /\ \A d \in B : IsCurrent(d[1], d[2])
      /\ txn' = [batch |-> B, next |-> nx]
  BY DEF TxBegins, progressVars, pollVars, consumerVars, ackVars, brokerVars
<1>2. /\ \A d \in B : d[1] \in Partitions /\ d[3] \in Records /\ d[2] = active[d[1]].generation
      /\ Records \subseteq Nat
  BY <1>1, KafkaAssumption, SMTT(30) DEF Types, IsCurrent
<1>3. ASSUME NEW p \in {d[1] : d \in B}
      PROVE  /\ Max(offs(p)) \in Nat /\ \A d \in B : d[1] = p => d[3] <= Max(offs(p))
             /\ \E d \in B : d[1] = p /\ d[3] = Max(offs(p))
  <2>1. offs(p) \subseteq Records /\ offs(p) # {}
    BY <1>2
  <2>2. offs(p) \in SUBSET Nat /\ offs(p) \in SUBSET Records
    BY <1>2, <2>1
  <2>3. Max(offs(p)) \in offs(p) /\ \A y \in offs(p) : Max(offs(p)) >= y
    <3> HIDE DEF offs
    <3> QED
      BY <2>1, <2>2 DEF OffsetsOrdered
  <2>4. Max(offs(p)) \in Nat
    BY <2>2, <2>3
  <2>5. \A d \in B : d[1] = p => d[3] <= Max(offs(p))
    <3>1. \A d \in B : d[1] = p => d[3] \in offs(p) /\ d[3] \in Nat
      BY <1>2
    <3> HIDE DEF offs
    <3> QED
      BY <2>3, <2>4, <3>1
  <2>6. PICK d \in {x \in B : x[1] = p} : d[3] = Max(offs(p))
    BY <2>3
  <2> QED
    BY <2>4, <2>5, <2>6
<1>4. DOMAIN nx = {d[1] : d \in B} /\ DOMAIN nx \subseteq Partitions
  BY <1>2
<1>5. ASSUME NEW p \in DOMAIN nx
      PROVE  /\ nx[p][1] = active[p].generation /\ nx[p][2] = Max(offs(p)) + 1 /\ nx[p][2] \in Nat
             /\ \E d \in B : d[1] = p /\ nx[p][2] = d[3] + 1
  <2>1. nx[p][1] = active[p].generation /\ nx[p][2] = Max(offs(p)) + 1
    BY <1>4, <1>5
  <2>2. Max(offs(p)) \in Nat
    BY <1>3, <1>4, <1>5
  <2>3. PICK d \in B : d[1] = p /\ d[3] = Max(offs(p))
    BY <1>3, <1>4, <1>5
  <2> HIDE DEF nx, offs
  <2>4. nx[p][2] \in Nat
    BY <2>1, <2>2, SMTT(30)
  <2> QED
    BY <2>1, <2>3, <2>4
<1>6. \A d \in B : d[1] \in DOMAIN nx /\ d[2] = nx[d[1]][1] /\ d[3] < nx[d[1]][2]
  <2> SUFFICES ASSUME NEW d \in B
               PROVE  d[1] \in DOMAIN nx /\ d[2] = nx[d[1]][1] /\ d[3] < nx[d[1]][2]
    OBVIOUS
  <2>1. d[1] \in DOMAIN nx
    BY <1>4
  <2>2. d[3] <= Max(offs(d[1])) /\ Max(offs(d[1])) \in Nat
    BY <1>3, <1>4, <2>1
  <2>3. nx[d[1]][1] = active[d[1]].generation /\ nx[d[1]][2] = Max(offs(d[1])) + 1
    BY <1>5, <2>1
  <2> HIDE DEF nx, offs
  <2>4. d[2] = active[d[1]].generation /\ d[3] \in Nat
    BY <1>2
  <2>5. PICK m : m = Max(offs(d[1]))
    OBVIOUS
  <2>6. m \in Nat /\ d[3] <= m /\ nx[d[1]][2] = m + 1
    BY <2>2, <2>3, <2>5
  <2>7. d[3] < nx[d[1]][2]
    BY <2>4, <2>6, SMTT(30)
  <2> QED
    BY <2>1, <2>3, <2>4, <2>7
<1> HIDE DEF nx, offs
<1>7. txn'.batch = B /\ txn'.next = nx
  BY <1>1
<1>8. TxCovers'
  <2>1. acking' = Nobody /\ config'.transactional
    BY <1>1 DEF TxCovers
  <2>2. DOMAIN nx \subseteq Partitions /\ B \subseteq held'
    BY <1>1, <1>4
  <2> QED
    BY <1>5, <1>6, <1>7, <2>1, <2>2 DEF TxCovers
<1>9. TxOnlyOfAssigned'
  <2>1. ASSUME NEW p \in DOMAIN nx PROVE IsActive(p) /\ active[p].generation = nx[p][1]
    <3>1. PICK d \in B : d[1] = p
      BY <1>4, <2>1
    <3> QED
      BY <1>1, <1>5, <2>1, <3>1 DEF IsCurrent
  <2> QED
    BY <1>1, <1>7, <2>1 DEF TxOnlyOfAssigned, IsCurrent, IsActive
<1>10. PositionsSeen'
  BY <1>1, PositionsStay
<1>11. /\ committed' \in [Partitions -> Nat]
       /\ acking' # Nobody => acking' = [d |-> acking'.d, at |-> acking'.at, next |-> acking'.next]
  BY <1>1 DEF Types
<1> QED
  BY <1>1, <1>8, <1>9, <1>10, <1>11, BrokerCallKeeps

-----------------------------------------------------------------------------
(* The steps that end assignments.                                           *)

LEMMA RevokeFacts ==
  ASSUME Types, Contiguous, acked \subseteq acked', NEW S \in SUBSET Partitions, Revoke(S)
  PROVE  /\ active' \in [Partitions -> Tracking \cup {Inactive}]
         /\ generations' \in [Partitions -> Nat]
         /\ \A p \in Partitions :
              /\ Shrinks(p)
              /\ p \in S => ~IsActive(p)' /\ generations'[p] = generations[p] + 1
              /\ p \notin S => active'[p] = active[p] /\ generations'[p] = generations[p]
              /\ IsActive(p)' => p \notin S /\ IsActive(p) /\ active'[p] = active[p]
<1>1. \A p \in Partitions : generations[p] \in Nat /\ active[p] \in Tracking \cup {Inactive}
  BY DEF Types
<1>2. ASSUME NEW p \in Partitions
      PROVE  /\ p \in S => active'[p] = Inactive /\ generations'[p] = generations[p] + 1
             /\ p \notin S => active'[p] = active[p] /\ generations'[p] = generations[p]
  BY DEF Revoke
<1>3. active' \in [Partitions -> Tracking \cup {Inactive}]
  BY <1>1 DEF Revoke
<1>4. generations' \in [Partitions -> Nat]
  BY <1>1, SMTT(30) DEF Revoke
<1>5. ASSUME NEW p \in Partitions PROVE Shrinks(p)
  <2>1. CASE p \in S
    BY <1>2, <2>1 DEF Shrinks, IsActive
  <2>2. CASE p \notin S
    BY <1>2, <2>2, SameShrinks
  <2> QED
    BY <2>1, <2>2
<1> QED
  BY <1>2, <1>3, <1>4, <1>5 DEF IsActive

(* close, and a lost assignment found by an acknowledgement or a             *)
(* transaction: everything is revoked.                                       *)
LEMMA RevokeAllKeeps ==
  ASSUME ProgressInv, RevokeAll,
         UNCHANGED <<config, assigned, fetch, assigns, pc, polled, held, orphans, committed,
                     acked, txn>>,
         txn = Nobody, channel' = channel \/ channel' = Nobody,
         acking' = acking \/ acking' = Nobody
  PROVE  ProgressInv'
<1> USE DEF ProgressInv
<1> DEFINE S == {p \in Partitions : IsActive(p)}
<1>1. /\ active' \in [Partitions -> Tracking \cup {Inactive}]
      /\ generations' \in [Partitions -> Nat]
      /\ \A p \in Partitions :
           /\ p \in S => ~IsActive(p)' /\ generations'[p] = generations[p] + 1
           /\ p \notin S => generations'[p] = generations[p]
           /\ IsActive(p)' => p \notin S /\ IsActive(p)
  BY RevokeFacts DEF RevokeAll
<1>2. \A p \in Partitions : ~IsActive(p)'
  BY <1>1
<1>3. Types'
  <2>1. channel' # Nobody => channel' \in Partitions \X Nat \X Records
    BY DEF Types
  <2>2. acking' # Nobody => acking' = [d |-> acking'.d, at |-> acking'.at, next |-> acking'.next]
    BY DEF Types
  <2> QED
    BY <1>1, <2>1, <2>2 DEF Types
<1>4. Generations'
  <2>1. \A p \in Partitions : generations[p] \in Nat /\ generations[p] <= generations'[p]
    BY <1>1, SMTT(30) DEF Types
  <2>2. ASSUME NEW p \in Partitions
        PROVE  generations'[p] + (IF p \in assigned' THEN 1 ELSE 0) <= 3 * assigns'
    <3>1. generations[p] \in Nat /\ assigns \in Nat
      BY DEF Types
    <3>2. /\ generations[p] + (IF IsActive(p) THEN 2 ELSE IF p \in assigned THEN 1 ELSE 0)
               <= 3 * assigns
          /\ generations'[p] = generations[p] + (IF IsActive(p) THEN 1 ELSE 0)
      BY <1>1, SMTT(30) DEF Generations
    <3> QED
      BY <3>1, <3>2, SMTT(30)
  <2>3. \A d \in held' : d[2] <= generations'[d[1]]
    <3>1. \A d \in held : d[1] \in Partitions /\ d[2] \in Nat /\ d[2] <= generations[d[1]]
      BY DEF Types, Generations
    <3>2. \A p \in Partitions : generations'[p] \in Nat
      BY <1>1
    <3> QED
      BY <2>1, <3>1, <3>2, SMTT(30)
  <2>4. channel' # Nobody => channel'[2] <= generations'[channel'[1]]
    <3>1. channel' # Nobody =>
            channel'[1] \in Partitions /\ channel'[2] \in Nat /\ channel'[2] <= generations[channel'[1]]
      BY DEF Types, Generations
    <3>2. \A p \in Partitions : generations'[p] \in Nat
      BY <1>1
    <3> QED
      BY <2>1, <3>1, <3>2, SMTT(30)
  <2>5. pc' = "send" => polled'[2] <= generations'[polled'[1]]
    <3>1. pc = "send" =>
            polled[1] \in Partitions /\ polled[2] \in Nat /\ polled[2] <= generations[polled[1]]
      BY DEF Types, Generations
    <3>2. \A p \in Partitions : generations'[p] \in Nat
      BY <1>1
    <3> QED
      BY <2>1, <3>1, <3>2, SMTT(30)
  <2>6. pc' \in {"settle", "gate", "handoffCommit", "revoke"} =>
          polled'.revoked \subseteq assigned' /\ polled'.handed \subseteq polled'.revoked
    BY DEF Generations
  <2> QED
    BY <1>2, <2>2, <2>3, <2>4, <2>5, <2>6 DEF Generations
<1>5. Contiguous' /\ InOrder' /\ DoneIsOfThisAssignment' /\ PendingIsHeld'
  BY <1>2 DEF Contiguous, InOrder, DoneIsOfThisAssignment, PendingIsHeld
<1>6. HeldIsKnown'
  BY <1>2, <1>3 DEF HeldIsKnown, IsCurrent, Types
<1>7. PositionsSeen'
  BY PositionsStay
<1>8. TxCovers' /\ TxOnlyOfAssigned'
  BY DEF TxCovers, TxOnlyOfAssigned
<1> QED
  BY <1>3, <1>4, <1>5, <1>6, <1>7, <1>8

(* The end of the revoke callback.                                           *)
LEMMA RevokeEndsKeeps == ASSUME ProgressInv, RevokeEnds PROVE ProgressInv'
<1> USE DEF ProgressInv
<1>0. PICK S : S = polled.revoked
  OBVIOUS
<1>1. /\ UNCHANGED <<config, fetch, assigns, channel, held, acking, orphans, txn, closed,
                     committed, acked>>
      /\ pc = "revoke" /\ pc' = "poll" /\ txn = Nobody /\ Revoke(S)
      /\ assigned' = assigned \ S
  BY <1>0 DEF RevokeEnds, brokerVars
<1>2. S \subseteq assigned /\ assigned \subseteq Partitions
  BY <1>0, <1>1 DEF Generations, Types
<1>3. /\ active' \in [Partitions -> Tracking \cup {Inactive}]
      /\ generations' \in [Partitions -> Nat]
      /\ \A p \in Partitions :
           /\ Shrinks(p)
           /\ p \in S => ~IsActive(p)' /\ generations'[p] = generations[p] + 1
           /\ p \notin S => active'[p] = active[p] /\ generations'[p] = generations[p]
           /\ IsActive(p)' => p \notin S /\ IsActive(p) /\ active'[p] = active[p]
  BY <1>1, <1>2, RevokeFacts
<1>4. Types'
  BY <1>1, <1>2, <1>3 DEF Types
<1>5. Contiguous' /\ InOrder' /\ HeldIsKnown' /\ DoneIsOfThisAssignment'
  BY <1>1, <1>3, <1>4, ShrinkingKeeps
<1>6. PendingIsHeld'
  BY <1>1, <1>3, PendingStays
<1>7. PositionsSeen'
  BY <1>1, PositionsStay
<1>8. TxCovers' /\ TxOnlyOfAssigned'
  BY <1>1 DEF TxCovers, TxOnlyOfAssigned
<1>9. Generations'
  <2>1. \A p \in Partitions : generations[p] \in Nat /\ generations'[p] \in Nat
                              /\ generations[p] <= generations'[p]
    BY <1>3, SMTT(30) DEF Types
  <2>2. ASSUME NEW p \in Partitions
        PROVE  /\ generations'[p] + (IF IsActive(p)' THEN 2 ELSE IF p \in assigned' THEN 1 ELSE 0)
                    <= 3 * assigns'
               /\ IsActive(p)' => p \in assigned' /\ active'[p].generation = generations'[p]
    <3>1. generations[p] \in Nat /\ assigns \in Nat /\ assigns' = assigns
      BY <1>1 DEF Types
    <3>2. /\ generations[p] + (IF IsActive(p) THEN 2 ELSE IF p \in assigned THEN 1 ELSE 0)
               <= 3 * assigns
          /\ IsActive(p) => p \in assigned /\ active[p].generation = generations[p]
      BY DEF Generations
    <3>3. CASE p \in S
      <4>1. ~IsActive(p)' /\ generations'[p] = generations[p] + 1 /\ p \in assigned
            /\ p \notin assigned'
        BY <1>1, <1>2, <1>3, <3>3
      <4> QED
        BY <3>1, <3>2, <4>1, SMTT(30)
    <3>4. CASE p \notin S
      <4>1. generations'[p] = generations[p] /\ (p \in assigned' <=> p \in assigned)
            /\ (IsActive(p)' <=> IsActive(p)) /\ active'[p] = active[p]
        BY <1>1, <1>3, <3>4 DEF IsActive
      <4> QED
        BY <3>1, <3>2, <4>1
    <3> QED
      BY <3>3, <3>4
  <2>3. closed' => \A p \in Partitions : ~IsActive(p)'
    BY <1>1, <1>3 DEF Generations
  <2>4. \A d \in held' : d[2] <= generations'[d[1]]
    <3>1. \A d \in held : d[1] \in Partitions /\ d[2] \in Nat /\ d[2] <= generations[d[1]]
      BY DEF Types, Generations
    <3> QED
      BY <1>1, <2>1, <3>1, SMTT(30)
  <2>5. channel' # Nobody => channel'[2] <= generations'[channel'[1]]
    <3>1. channel # Nobody =>
            channel[1] \in Partitions /\ channel[2] \in Nat /\ channel[2] <= generations[channel[1]]
      BY DEF Types, Generations
    <3> QED
      BY <1>1, <2>1, <3>1, SMTT(30)
  <2> QED
    BY <1>1, <2>2, <2>3, <2>4, <2>5 DEF Generations
<1> QED
  BY <1>4, <1>5, <1>6, <1>7, <1>8, <1>9

(* The start of the revoke callback, which marks partitions as handed off.   *)
LEMMA RevokeBeginsKeeps ==
  ASSUME ProgressInv, NEW S \in SUBSET Partitions, RevokeBegins(S) PROVE ProgressInv'
<1> USE DEF ProgressInv
<1> DEFINE H == {p \in S : IsActive(p)}
<1>1. /\ UNCHANGED <<config, generations, assigned, fetch, assigns, channel, held, acking,
                     orphans, txn, closed, committed, acked>>
      /\ pc = "poll" /\ pc' \in {"settle", "revoke"} /\ S \subseteq assigned
      /\ polled' = [revoked |-> S, handed |-> polled'.handed, settled |-> FALSE,
                    positions |-> <<>>, ok |-> FALSE]
      /\ polled'.handed \subseteq S /\ polled'.revoked = S
      /\ \/ active' = active
         \/ active' = [p \in Partitions |-> IF p \in H
                         THEN [active[p] EXCEPT !.handoff = TRUE] ELSE active[p]]
  BY SMTT(30) DEF RevokeBegins, Polling, consumerVars, ackVars, brokerVars
<1>2. ASSUME NEW p \in Partitions
      PROVE  /\ active'[p] \in Tracking \cup {Inactive} /\ Shrinks(p)
             /\ IsActive(p)' <=> IsActive(p)
             /\ IsActive(p) => active'[p].generation = active[p].generation
  <2>1. CASE active'[p] = active[p]
    <3>1. active[p] \in Tracking \cup {Inactive}
      BY DEF Types
    <3>2. Shrinks(p)
      BY <1>1, <2>1, SameShrinks
    <3> QED
      BY <2>1, <3>1, <3>2 DEF IsActive
  <2>2. CASE IsActive(p) /\ active'[p] = [active[p] EXCEPT !.handoff = TRUE]
    <3>1. /\ active[p] = [generation |-> active[p].generation, handoff |-> active[p].handoff,
                          next |-> active[p].next, received |-> active[p].received]
          /\ active[p] \in Tracking /\ active[p].next \in Nat \cup {-1}
      BY <2>2, Parts
    <3>2. active'[p] = [generation |-> active[p].generation, handoff |-> TRUE,
                        next |-> active[p].next, received |-> active[p].received]
      BY <2>2, <3>1
    <3>3. active'[p] \in Tracking
      <4> HIDE DEF ProgressInv
      <4> QED
        BY <3>1, <3>2, SMTT(30) DEF Tracking
    <3>4. IsActive(p)'
      BY <3>3, NotNobody DEF IsActive, Inactive
    <3>5. \A o \in Records : o < active[p].next => Seen(p, o)'
      BY <1>1, <2>2 DEF Contiguous, SeenBelow, Seen
    <3>6. DOMAIN active[p].received = {o \in DOMAIN active[p].received : o >= active[p].next}
      BY <2>2 DEF Contiguous
    <3>7. /\ active'[p].generation = active[p].generation /\ active'[p].handoff
          /\ active'[p].next = active[p].next /\ active'[p].received = active[p].received
          /\ active[p].next <= active'[p].next
      BY <3>1, <3>2, SMTT(30)
    <3>8. Shrinks(p)
      BY <2>2, <3>5, <3>6, <3>7 DEF Shrinks
    <3> QED
      BY <2>2, <3>3, <3>4, <3>7, <3>8
  <2> QED
    BY <1>1, <2>1, <2>2
<1>3. active' \in [Partitions -> Tracking \cup {Inactive}]
  <2>1. active' = [p \in Partitions |-> active'[p]]
    BY <1>1 DEF Types
  <2> QED
    BY <1>2, <2>1
<1>4. Types'
  BY <1>1, <1>3 DEF Types
<1>5. Contiguous' /\ InOrder' /\ HeldIsKnown' /\ DoneIsOfThisAssignment'
  BY <1>1, <1>2, <1>4, ShrinkingKeeps
<1>6. PendingIsHeld'
  BY <1>1, <1>2, PendingStays
<1>7. PositionsSeen'
  BY <1>1, PositionsStay
<1>8. TxCovers' /\ TxOnlyOfAssigned'
  <2>1. txn # Nobody => txn.batch \subseteq held'
    BY <1>1 DEF TxCovers
  <2> QED
    BY <1>1, <1>2, <2>1, TxStays
<1>9. Generations'
  <2>1. ASSUME NEW p \in Partitions
        PROVE  /\ generations'[p] + (IF IsActive(p)' THEN 2 ELSE IF p \in assigned' THEN 1 ELSE 0)
                    <= 3 * assigns'
               /\ IsActive(p)' => p \in assigned' /\ active'[p].generation = generations'[p]
    BY <1>1, <1>2 DEF Generations
  <2>2. closed' => \A p \in Partitions : ~IsActive(p)'
    BY <1>1, <1>2 DEF Generations
  <2>3. /\ \A d \in held' : d[2] <= generations'[d[1]]
        /\ channel' # Nobody => channel'[2] <= generations'[channel'[1]]
    BY <1>1 DEF Generations
  <2> QED
    BY <1>1, <2>1, <2>2, <2>3 DEF Generations
<1> QED
  BY <1>4, <1>5, <1>6, <1>7, <1>8, <1>9

-----------------------------------------------------------------------------
(* The steps that move next: committed.                                      *)

(* committed moves next only over processed records, and keeps the           *)
(* assignments; a current, tracked partition reaches the position.           *)
LEMMA CommittedFacts ==
  ASSUME Types, Contiguous, acked \subseteq acked', NEW pos, Committed(pos),
         \A p \in Partitions : p \in DOMAIN pos =>
           pos[p][2] \in Nat /\ \A o \in Records : o < pos[p][2] => Seen(p, o)'
  PROVE  /\ active' \in [Partitions -> Tracking \cup {Inactive}]
         /\ \A p \in Partitions :
              /\ Shrinks(p) /\ (IsActive(p)' <=> IsActive(p))
              /\ IsActive(p) => active'[p].generation = active[p].generation
              /\ p \in DOMAIN pos /\ IsCurrent(p, pos[p][1]) =>
                   active'[p].next = None \/ pos[p][2] <= active'[p].next
<1>1. ASSUME NEW p \in Partitions
      PROVE  /\ active'[p] \in Tracking \cup {Inactive}
             /\ Shrinks(p) /\ (IsActive(p)' <=> IsActive(p))
             /\ IsActive(p) => active'[p].generation = active[p].generation
             /\ p \in DOMAIN pos /\ IsCurrent(p, pos[p][1]) =>
                  active'[p].next = None \/ pos[p][2] <= active'[p].next
  <2> DEFINE moves == /\ p \in DOMAIN pos /\ IsCurrent(p, pos[p][1])
                      /\ active[p].next # None /\ pos[p][2] > active[p].next
  <2>1. CASE ~moves
    <3>1. active'[p] = active[p]
      BY <2>1 DEF Committed
    <3>2. Shrinks(p)
      BY <3>1, SameShrinks
    <3>3. active[p] \in Tracking \cup {Inactive}
      BY DEF Types
    <3>4. p \in DOMAIN pos /\ IsCurrent(p, pos[p][1]) =>
            active'[p].next = None \/ pos[p][2] <= active'[p].next
      <4> SUFFICES ASSUME p \in DOMAIN pos, IsCurrent(p, pos[p][1]), active[p].next # None
                   PROVE  pos[p][2] <= active[p].next
        BY <3>1
      <4>1. pos[p][2] \in Nat /\ active[p].next \in Nat \cup {-1}
        BY Parts DEF IsCurrent
      <4>2. ~ (pos[p][2] > active[p].next)
        BY <2>1
      <4> QED
        BY <4>1, <4>2, SMTT(30)
    <3> QED
      BY <3>1, <3>2, <3>3, <3>4 DEF IsActive
  <2>2. CASE moves
    <3>0. PICK n : n = pos[p][2]
      OBVIOUS
    <3>1. /\ IsActive(p) /\ n \in Nat /\ n > active[p].next
          /\ \A o \in Records : o < n => Seen(p, o)'
      BY <2>2, <3>0 DEF IsCurrent
    <3>2. /\ active[p] \in Tracking
          /\ active[p].generation \in Nat /\ active[p].next \in Nat \cup {-1}
          /\ active[p].handoff \in BOOLEAN
          /\ DOMAIN active[p].received \subseteq Records
          /\ active[p].received \in [DOMAIN active[p].received -> Status]
          /\ active[p] = [generation |-> active[p].generation, handoff |-> active[p].handoff,
                          next |-> active[p].next, received |-> active[p].received]
      BY <3>1, Parts
    <3> DEFINE r == active[p].received
               kept == {o \in DOMAIN r : o >= n}
               q == [o \in kept |-> r[o]]
    <3>3. active'[p] = [active[p] EXCEPT !.next = n,
                          !.received = [o \in {x \in DOMAIN @ : x >= n} |-> @[o]]]
      BY <2>2, <3>0 DEF Committed, Restrict
    <3>4. active'[p] = [generation |-> active[p].generation, handoff |-> active[p].handoff,
                        next |-> n, received |-> q]
      BY <3>2, <3>3
    <3>5. q \in [kept -> Status] /\ kept \in SUBSET Records
      BY <3>2
    <3>6. DOMAIN q = kept /\ \A o \in kept : q[o] = r[o]
      OBVIOUS
    <3> HIDE DEF q
    <3>7. q \in UNION {[S -> Status] : S \in SUBSET Records}
      BY <3>5
    <3>8. active'[p] \in Tracking
      BY <3>1, <3>2, <3>4, <3>7, SMTT(30) DEF Tracking
    <3>9. IsActive(p)'
      BY <3>8, NotNobody DEF IsActive, Inactive
    <3>10. /\ active'[p].generation = active[p].generation
           /\ active'[p].handoff = active[p].handoff
           /\ active'[p].next = n /\ active'[p].received = q
      BY <3>4, SMTT(30)
    <3>11. active[p].next <= n /\ n # None
      BY <3>1, <3>2, SMTT(30) DEF None
    <3>12. Shrinks(p)
      BY <3>1, <3>6, <3>10, <3>11 DEF Shrinks
    <3>13. pos[p][2] <= active'[p].next
      BY <3>0, <3>1, <3>10, SMTT(30)
    <3> QED
      BY <3>1, <3>8, <3>9, <3>10, <3>12, <3>13
  <2> QED
    BY <2>1, <2>2
<1>2. active' = [p \in Partitions |-> active'[p]]
  BY DEF Committed
<1> QED
  BY <1>1, <1>2

(* The offsets of the broker after a commit of positions behind processed    *)
(* records.                                                                  *)
LEMMA OffsetsFacts ==
  ASSUME Types, PositionsSeen, acked \subseteq acked', NEW pos, committed' = Offsets(pos),
         \A p \in Partitions : p \in DOMAIN pos =>
           pos[p][2] \in Nat /\ \A o \in Records : o < pos[p][2] => Seen(p, o)'
  PROVE  /\ committed' \in [Partitions -> Nat]
         /\ \A p \in Partitions : SeenBelow(p, committed[p])'
<1>1. ASSUME NEW p \in Partitions
      PROVE  committed'[p] \in Nat /\ \A o \in Records : o < committed'[p] => Seen(p, o)'
  <2>1. committed'[p] = IF p \in DOMAIN pos THEN pos[p][2] ELSE committed[p]
    BY DEF Offsets
  <2>2. committed[p] \in Nat /\ \A o \in Records : o < committed[p] => Seen(p, o)'
    BY SeenStays DEF Types, PositionsSeen, SeenBelow
  <2> QED
    BY <2>1, <2>2
<1>2. committed' = [p \in Partitions |-> committed'[p]]
  BY DEF Offsets
<1> QED
  BY <1>1, <1>2 DEF SeenBelow

(* The handoff's commit succeeds or fails.                                   *)
LEMMA HandoffCommitKeeps == ASSUME ProgressInv, HandoffCommit PROVE ProgressInv'
<1> USE DEF ProgressInv
<1>0. PICK pos : pos = polled.positions
  OBVIOUS
<1>1. /\ UNCHANGED <<config, generations, assigned, fetch, assigns, channel, held, acking,
                     orphans, txn, closed, acked>>
      /\ pc = "handoffCommit" /\ pc' = "revoke"
      /\ \/ /\ committed' = Offsets(pos) /\ Committed(pos)
            /\ polled' = [polled EXCEPT !.ok = TRUE]
         \/ UNCHANGED <<committed, active, polled>>
  BY <1>0 DEF HandoffCommit, consumerVars, ackVars
<1>2. \A p \in Partitions : p \in DOMAIN pos =>
        pos[p][2] \in Nat /\ \A o \in Records : o < pos[p][2] => Seen(p, o)'
  BY <1>0, <1>1 DEF PositionsSeen, SeenBelow, Seen
<1>3. /\ active' \in [Partitions -> Tracking \cup {Inactive}]
      /\ committed' \in [Partitions -> Nat] /\ \A p \in Partitions : SeenBelow(p, committed[p])'
      /\ \A p \in Partitions : /\ Shrinks(p) /\ (IsActive(p)' <=> IsActive(p))
                               /\ IsActive(p) => active'[p].generation = active[p].generation
  <2>1. CASE committed' = Offsets(pos) /\ Committed(pos)
    BY <1>1, <1>2, <2>1, CommittedFacts, OffsetsFacts
  <2>2. CASE UNCHANGED <<committed, active>>
    <3>1. \A p \in Partitions : Shrinks(p)
      BY <1>1, <2>2, SameShrinks
    <3> QED
      BY <1>1, <2>2, <3>1 DEF Types, PositionsSeen, SeenBelow, Seen, IsActive
  <2> QED
    BY <1>1, <2>1, <2>2
<1>4. /\ polled' = [revoked |-> polled'.revoked, handed |-> polled'.handed,
                    settled |-> polled'.settled, positions |-> polled'.positions,
                    ok |-> polled'.ok]
      /\ polled'.revoked = polled.revoked /\ polled'.handed = polled.handed
  <2>1. polled = [revoked |-> polled.revoked, handed |-> polled.handed, settled |-> polled.settled,
                  positions |-> polled.positions, ok |-> polled.ok]
    BY <1>1 DEF Types
  <2> QED
    BY <1>1, <2>1
<1>5. Types'
  BY <1>1, <1>3, <1>4 DEF Types
<1>6. Contiguous' /\ InOrder' /\ HeldIsKnown' /\ DoneIsOfThisAssignment'
  BY <1>1, <1>3, <1>5, ShrinkingKeeps
<1>7. PendingIsHeld'
  BY <1>1, <1>3, PendingStays
<1>8. PositionsSeen'
  <2>1. \A c \in orphans : c[1] \in Partitions /\ c[2] \in Nat /\ SeenBelow(c[1], c[2])'
    BY <1>1 DEF PositionsSeen, SeenBelow, Seen
  <2>2. acking' # Nobody /\ acking'.at \in {"commit", "landed"} =>
          acking'.d[1] \in Partitions /\ acking'.next \in Nat
          /\ SeenBelow(acking.d[1], acking.next)'
    BY <1>1 DEF PositionsSeen, SeenBelow, Seen
  <2> QED
    BY <1>1, <1>3, <2>1, <2>2 DEF PositionsSeen
<1>9. TxCovers' /\ TxOnlyOfAssigned'
  <2>1. txn # Nobody => txn.batch \subseteq held'
    BY <1>1 DEF TxCovers
  <2> QED
    BY <1>1, <1>3, <2>1, TxStays
<1>10. Generations'
  BY <1>1, <1>3, <1>4, GenerationsStay
<1> QED
  BY <1>5, <1>6, <1>7, <1>8, <1>9, <1>10

(* An acknowledgement records the commit that landed.                        *)
LEMMA AckCommittedKeeps == ASSUME ProgressInv, AckCommitted PROVE ProgressInv'
<1> USE DEF ProgressInv
<1>0. PICK pos : pos = [p \in {acking.d[1]} |-> <<acking.d[2], acking.next>>]
  OBVIOUS
<1>1. /\ UNCHANGED <<config, generations, assigned, fetch, assigns, pc, polled, channel, held,
                     orphans, txn, closed, committed, acked>>
      /\ acking # Nobody /\ acking.at = "landed" /\ acking' = Nobody /\ Committed(pos)
  BY <1>0 DEF AckCommitted, AckEnds, pollVars, consumerVars, brokerVars
<1>2. \A p \in Partitions : p \in DOMAIN pos =>
        pos[p][2] \in Nat /\ \A o \in Records : o < pos[p][2] => Seen(p, o)'
  <2>1. acking.next \in Nat /\ \A o \in Records : o < acking.next => Seen(acking.d[1], o)
    BY <1>1 DEF PositionsSeen, SeenBelow
  <2>2. \A p \in DOMAIN pos : p = acking.d[1] /\ pos[p][2] = acking.next
    BY <1>0
  <2> QED
    BY <1>1, <2>1, <2>2 DEF Seen
<1>3. /\ active' \in [Partitions -> Tracking \cup {Inactive}]
      /\ \A p \in Partitions : /\ Shrinks(p) /\ (IsActive(p)' <=> IsActive(p))
                               /\ IsActive(p) => active'[p].generation = active[p].generation
  BY <1>1, <1>2, CommittedFacts
<1>4. Types'
  BY <1>1, <1>3 DEF Types
<1>5. Contiguous' /\ InOrder' /\ HeldIsKnown' /\ DoneIsOfThisAssignment'
  BY <1>1, <1>3, <1>4, ShrinkingKeeps
<1>6. PendingIsHeld'
  BY <1>1, <1>3, PendingStays
<1>7. PositionsSeen'
  BY <1>1, PositionsStay
<1>8. TxCovers' /\ TxOnlyOfAssigned'
  <2>1. txn # Nobody => txn.batch \subseteq held'
    BY <1>1 DEF TxCovers
  <2> QED
    BY <1>1, <1>3, <2>1, TxStays
<1>9. Generations'
  BY <1>1, <1>3, GenerationsStay
<1> QED
  BY <1>4, <1>5, <1>6, <1>7, <1>8, <1>9

(* A transaction's offsets are committed with its batch.                     *)
LEMMA TxCommitsKeeps == ASSUME ProgressInv, TxCommits PROVE ProgressInv'
<1> USE DEF ProgressInv
<1>0. PICK pos, B : pos = txn.next /\ B = txn.batch
  OBVIOUS
<1>1. /\ UNCHANGED <<config, generations, assigned, fetch, assigns, pc, polled, channel, acking,
                     orphans, closed>>
      /\ txn # Nobody /\ txn' = Nobody /\ committed' = Offsets(pos) /\ Committed(pos)
      /\ acked' = acked \cup B \cup Overtakes /\ held' = held \ B
  BY <1>0 DEF TxCommits, pollVars, consumerVars, ackVars
<1>2. /\ acking = Nobody /\ DOMAIN pos \subseteq Partitions /\ B \subseteq held
      /\ \A p \in DOMAIN pos :
           /\ pos[p][2] \in Nat
           /\ \E d \in B : d[1] = p /\ pos[p][2] = d[3] + 1
      /\ \A d \in B : d[1] \in DOMAIN pos /\ d[2] = pos[d[1]][1] /\ d[3] < pos[d[1]][2]
  BY <1>0, <1>1 DEF TxCovers
<1>3. \A p \in DOMAIN pos : IsCurrent(p, pos[p][1])
  BY <1>0, <1>1 DEF TxOnlyOfAssigned
<1>4. ASSUME NEW p \in Partitions, p \in DOMAIN pos
      PROVE  pos[p][2] \in Nat /\ \A o \in Records : o < pos[p][2] => Seen(p, o)'
  <2>1. pos[p][1] \in Gens
    BY <1>3, <1>4, CurrentGens DEF IsCurrent
  <2>2. PICK d \in B : d[1] = p /\ pos[p][2] = d[3] + 1
    BY <1>2, <1>4
  <2>3. d \in held /\ IsCurrent(d[1], d[2]) /\ d[3] \in Nat
    BY <1>2, <1>3, <2>2, KafkaAssumption, SMTT(30) DEF Types
  <2>4. ASSUME NEW o \in Records, o < pos[p][2] PROVE Seen(p, o)'
    <3>1. o <= d[3]
      BY <2>2, <2>3, <2>4, KafkaAssumption, SMTT(30)
    <3>2. o \in DOMAIN active[p].received \/ Seen(p, o)
      BY <2>2, <2>3, <3>1, HeldCovers DEF Known
    <3>3. CASE Seen(p, o)
      BY <1>1, <3>3, SeenStays
    <3>4. CASE <<p, pos[p][1], o>> \in B
      BY <1>1, <2>1, <3>4 DEF Seen
    <3>5. CASE o \in DOMAIN active[p].received /\ <<p, pos[p][1], o>> \notin B
      <4> DEFINE r == <<p, Overtaken, o>>
      <4>1. r \in Partitions \X {Overtaken} \X Records /\ r[1] = p /\ r[3] = o
        OBVIOUS
      <4>2. r \in Overtakes
        BY <1>0, <1>4, <2>4, <3>5, <4>1 DEF Overtakes
      <4> QED
        BY <1>1, <4>2 DEF Seen
    <3> QED
      BY <3>2, <3>3, <3>4, <3>5
  <2> QED
    BY <1>2, <1>4, <2>4
<1>5. acked \subseteq acked'
  BY <1>1
<1>6. /\ active' \in [Partitions -> Tracking \cup {Inactive}]
      /\ \A p \in Partitions :
           /\ Shrinks(p) /\ (IsActive(p)' <=> IsActive(p))
           /\ IsActive(p) => active'[p].generation = active[p].generation
           /\ p \in DOMAIN pos /\ IsCurrent(p, pos[p][1]) =>
                active'[p].next = None \/ pos[p][2] <= active'[p].next
  BY <1>1, <1>4, <1>5, CommittedFacts
<1>7. committed' \in [Partitions -> Nat] /\ \A p \in Partitions : SeenBelow(p, committed[p])'
  BY <1>1, <1>4, <1>5, OffsetsFacts
<1>8. Types'
  BY <1>1, <1>6, <1>7 DEF Types
<1>9. Contiguous' /\ InOrder' /\ HeldIsKnown' /\ DoneIsOfThisAssignment'
  BY <1>1, <1>5, <1>6, <1>8, ShrinkingKeeps
<1>10. PendingIsHeld'
  <2> SUFFICES ASSUME NEW p \in Partitions, IsActive(p)',
                      NEW o \in DOMAIN active'[p].received, active'[p].received[o] = "pending"
               PROVE  <<p, active'[p].generation, o>> \in held'
    BY DEF PendingIsHeld
  <2>1. /\ IsActive(p) /\ o \in DOMAIN active[p].received /\ o >= active'[p].next
        /\ active'[p].generation = active[p].generation /\ active[p].received[o] = "pending"
        /\ active'[p].next = None => active[p].next = None
    BY <1>6 DEF Shrinks
  <2> DEFINE d == <<p, active[p].generation, o>>
  <2>2. d \in held
    BY <1>2, <2>1 DEF PendingIsHeld
  <2>3. ASSUME d \in B PROVE FALSE
    <3>1. p \in DOMAIN pos /\ o < pos[p][2] /\ pos[p][2] \in Nat
      BY <1>2, <2>3
    <3>2. active'[p].next # None
      BY <2>1 DEF Contiguous
    <3>3. pos[p][2] <= active'[p].next
      BY <1>3, <1>6, <3>1, <3>2
    <3>4. o \in Nat /\ active'[p].next \in Nat \cup {-1}
      <4>1. active'[p] \in Tracking
        BY <1>6 DEF IsActive
      <4> QED
        BY <2>1, <4>1, Parts, KafkaAssumption DEF Tracking, None
    <3> QED
      BY <2>1, <3>1, <3>3, <3>4, SMTT(30)
  <2> QED
    BY <1>1, <2>1, <2>2, <2>3
<1>11. PositionsSeen'
  <2>1. \A p, n : SeenBelow(p, n) => \A o \in Records : o < n => Seen(p, o)'
    BY <1>5, SeenStays DEF SeenBelow
  <2>2. \A c \in orphans : c[1] \in Partitions /\ c[2] \in Nat /\ SeenBelow(c[1], c[2])'
    BY <2>1 DEF PositionsSeen, SeenBelow
  <2>3. pc' = "handoffCommit" => \A p \in DOMAIN polled'.positions :
          p \in Partitions /\ polled'.positions[p][2] \in Nat /\ SeenBelow(p, polled.positions[p][2])'
    BY <1>1, <2>1 DEF PositionsSeen, SeenBelow
  <2> QED
    BY <1>1, <1>2, <1>7, <2>2, <2>3 DEF PositionsSeen
<1>12. TxCovers' /\ TxOnlyOfAssigned'
  BY <1>1, <1>2 DEF TxCovers, TxOnlyOfAssigned
<1>13. Generations'
  BY <1>1, <1>6, GenerationsStay
<1> QED
  BY <1>8, <1>9, <1>10, <1>11, <1>12, <1>13

-----------------------------------------------------------------------------
(* The steps that mark a registered record: complete and release.            *)

LEMMA MarkFacts ==
  ASSUME Types, Contiguous, acked \subseteq acked', NEW p \in Partitions, IsActive(p),
         NEW o \in DOMAIN active[p].received, NEW s \in {"released", "done"},
         active' = [active EXCEPT ![p].received[o] = s],
         s = "done" => <<p, active[p].generation, o>> \in acked'
  PROVE  /\ active' \in [Partitions -> Tracking \cup {Inactive}]
         /\ \A q \in Partitions :
              /\ Shrinks(q) /\ (IsActive(q)' <=> IsActive(q))
              /\ IsActive(q) => active'[q].generation = active[q].generation
         /\ active'[p].received[o] = s
<1>1. /\ active[p] \in Tracking
      /\ active[p].generation \in Nat /\ active[p].next \in Nat \cup {-1}
      /\ active[p].handoff \in BOOLEAN
      /\ DOMAIN active[p].received \subseteq Records
      /\ active[p].received \in [DOMAIN active[p].received -> Status]
      /\ active[p] = [generation |-> active[p].generation, handoff |-> active[p].handoff,
                      next |-> active[p].next, received |-> active[p].received]
  BY Parts
<1> DEFINE r == active[p].received
           m == [r EXCEPT ![o] = s]
<1>2. \A q \in Partitions : q # p => active'[q] = active[q]
  BY DEF Types
<1>3. active'[p] = [active[p] EXCEPT !.received = m]
  BY DEF Types
<1>4. m \in [DOMAIN r -> Status] /\ m[o] = s /\ DOMAIN m = DOMAIN r
      /\ \A x \in DOMAIN r : x # o => m[x] = r[x]
  BY <1>1 DEF Status
<1> HIDE DEF m
<1>5. active'[p] = [generation |-> active[p].generation, handoff |-> active[p].handoff,
                    next |-> active[p].next, received |-> m]
  BY <1>1, <1>3, SMTT(30)
<1>6. m \in UNION {[S -> Status] : S \in SUBSET Records}
  BY <1>1, <1>4
<1>7. active'[p] \in Tracking
  BY <1>1, <1>5, <1>6, SMTT(30) DEF Tracking, None
<1>8. IsActive(p)'
  BY <1>7, NotNobody DEF IsActive, Inactive
<1>9. /\ active'[p].generation = active[p].generation /\ active'[p].handoff = active[p].handoff
      /\ active'[p].next = active[p].next /\ active'[p].received = m
      /\ active[p].next <= active'[p].next
  BY <1>1, <1>5, SMTT(30)
<1>10. Shrinks(p)
  <2>1. \A x \in Records : x < active'[p].next => Seen(p, x)'
    BY <1>9, SeenStays DEF Contiguous, SeenBelow
  <2>2. DOMAIN m = {x \in DOMAIN r : x >= active'[p].next}
    BY <1>4, <1>9 DEF Contiguous
  <2>3. \A x \in DOMAIN m : \/ m[x] = r[x] \/ m[x] = "released"
                            \/ m[x] = "done" /\ <<p, active[p].generation, x>> \in acked'
    BY <1>4
  <2> QED
    BY <1>9, <2>1, <2>2, <2>3 DEF Shrinks
<1>11. ASSUME NEW q \in Partitions, q # p
       PROVE  /\ active'[q] \in Tracking \cup {Inactive} /\ Shrinks(q)
              /\ IsActive(q)' <=> IsActive(q) /\ active'[q].generation = active[q].generation
  <2>1. active'[q] = active[q] /\ active[q] \in Tracking \cup {Inactive}
    BY <1>2, <1>11 DEF Types
  <2>2. Shrinks(q)
    BY <2>1, SameShrinks
  <2> QED
    BY <2>1, <2>2 DEF IsActive
<1>12. active' = [q \in Partitions |-> active'[q]]
  BY DEF Types
<1>13. active' \in [Partitions -> Tracking \cup {Inactive}]
  BY <1>7, <1>11, <1>12
<1> QED
  BY <1>4, <1>8, <1>9, <1>10, <1>11, <1>13

(* The drop of a delivery.                                                   *)
LEMMA DropKeeps ==
  ASSUME ProgressInv, NEW d \in held, DropDelivery(d) PROVE ProgressInv'
<1> USE DEF ProgressInv
<1>0. /\ d[1] \in Partitions /\ d[2] \in Nat /\ d[3] \in Records /\ d = <<d[1], d[2], d[3]>>
  BY SMTT(30) DEF Types
<1> DEFINE marks == /\ IsCurrent(d[1], d[2]) /\ d[3] \in DOMAIN active[d[1]].received
                    /\ active[d[1]].received[d[3]] = "pending"
<1>1. /\ UNCHANGED <<config, generations, assigned, fetch, assigns, pc, polled, channel, acking,
                     orphans, txn, closed, committed, acked>>
      /\ held' = held \ {d} /\ (txn # Nobody => d \notin txn.batch)
      /\ active' = IF marks THEN [active EXCEPT ![d[1]].received[d[3]] = "released"] ELSE active
  BY DEF DropDelivery, pollVars, consumerVars, ackVars, brokerVars
<1>2. /\ active' \in [Partitions -> Tracking \cup {Inactive}]
      /\ \A q \in Partitions :
           /\ Shrinks(q) /\ (IsActive(q)' <=> IsActive(q))
           /\ IsActive(q) => active'[q].generation = active[q].generation
      /\ marks => active'[d[1]].received[d[3]] = "released"
  <2>1. CASE marks
    <3>1. active' = [active EXCEPT ![d[1]].received[d[3]] = "released"] /\ IsActive(d[1])
      BY <1>1, <2>1 DEF IsCurrent
    <3> QED
      BY <1>0, <1>1, <2>1, <3>1, MarkFacts
  <2>2. CASE ~marks
    <3>1. active' = active
      BY <1>1, <2>2
    <3>2. \A q \in Partitions : Shrinks(q)
      BY <1>1, <3>1, SameShrinks
    <3> QED
      BY <2>2, <3>1, <3>2 DEF Types, IsActive
  <2> QED
    BY <2>1, <2>2
<1>3. Types'
  BY <1>1, <1>2 DEF Types
<1>4. Contiguous' /\ InOrder' /\ HeldIsKnown' /\ DoneIsOfThisAssignment'
  BY <1>1, <1>2, <1>3, ShrinkingKeeps
<1>5. PendingIsHeld'
  <2> SUFFICES ASSUME NEW p \in Partitions, IsActive(p)',
                      NEW o \in DOMAIN active'[p].received, active'[p].received[o] = "pending"
               PROVE  LET e == <<p, active'[p].generation, o>>
                      IN e \in held' \/ (acking' # Nobody /\ acking'.at = "lost" /\ acking'.d = e)
    BY DEF PendingIsHeld
  <2>1. /\ IsActive(p) /\ o \in DOMAIN active[p].received
        /\ active'[p].generation = active[p].generation /\ active[p].received[o] = "pending"
    BY <1>2 DEF Shrinks
  <2>2. <<p, active[p].generation, o>> # d
    BY <1>0, <1>2, <2>1, SMTT(30) DEF IsCurrent
  <2> QED
    BY <1>1, <2>1, <2>2, SMTT(30) DEF PendingIsHeld
<1>6. PositionsSeen'
  BY <1>1, PositionsStay
<1>7. TxCovers' /\ TxOnlyOfAssigned'
  <2>1. txn # Nobody => txn.batch \subseteq held'
    BY <1>1 DEF TxCovers
  <2> QED
    BY <1>1, <1>2, <2>1, TxStays
<1>8. Generations'
  BY <1>1, <1>2, GenerationsStay
<1> QED
  BY <1>3, <1>4, <1>5, <1>6, <1>7, <1>8

=============================================================================
