------------------------ MODULE KafkaHandoffLemmas -------------------------
(***************************************************************************)
(* What a handoff of a Kafka source (module KafkaProgress) may abandon or    *)
(* leave uncommitted, and that every step keeps it.                          *)
(***************************************************************************)
EXTENDS KafkaInvariants, TLAPS

(* Steps are first-order unless they cite the SMT solver; each prover has    *)
(* thirty seconds for a step.                                                *)
USE ZenonT(30)

-----------------------------------------------------------------------------
(* Pausing across assignments.                                               *)

(* The runtime's one pause or resume under way is the last it asked for: a   *)
(* partition it resumes is no longer paused, so the resume that reaches      *)
(* librdkafka late undoes no newer pause.                                    *)
FlowInv ==
  /\ flow = <<Nobody>> \/ \E p \in Partitions : flow \in {<<"pause", p>>, <<"resume", p>>}
  /\ \A p \in Partitions : flow = <<"resume", p>> => p \notin paused
  /\ paused \subseteq Partitions
  /\ PauseSurvives

(* A step that pauses and assigns nothing keeps what is paused.              *)
LEMMA FlowRest ==
  ASSUME FlowInv, UNCHANGED <<flow, paused>>, assigned' \subseteq assigned,
         \A p \in assigned' : p \in conPaused => p \in conPaused',
         \A p \in Partitions : IsActive(p)' => IsActive(p),
         pc = "pauseNew" => UNCHANGED <<pc, polled>>
  PROVE  FlowInv'
<1>1. PauseSurvives'
  BY DEF FlowInv, PauseSurvives
<1> QED
  BY <1>1 DEF FlowInv

(* Revocations end assignments and begin none.                               *)
LEMMA RevokeEndsOnly ==
  ASSUME NEW S, Revoke(S) PROVE \A p \in Partitions : IsActive(p)' => IsActive(p)
BY DEF Revoke, IsActive, Inactive

(* Every step keeps it: an assignment of paused partitions pauses them       *)
(* before the next poll.                                                     *)
LEMMA FlowStep == ASSUME ProgressInv, FlowInv, [Next]_vars PROVE FlowInv'
<1> DEFINE Q == FlowInv'
           Rest == UNCHANGED <<flow, paused, assigned, conPaused>>
           Still == \A p \in Partitions : IsActive(p)' => IsActive(p)
           Pc == pc = "pauseNew" => UNCHANGED <<pc, polled>>
<1>0. Types
  BY DEF ProgressInv
<1>1. ASSUME Rest, Still, Pc PROVE Q
  BY <1>1, FlowRest
<1>2. ASSUME UNCHANGED active PROVE Still
  BY <1>2 DEF IsActive
<1>3. ASSUME NEW p \in Partitions, Poll(p) \/ OtherOwner(p) PROVE Q
  <2>1. Rest /\ UNCHANGED active /\ Pc
    BY <1>3 DEF Poll, OtherOwner, Polling, flowVars, progressVars, pollVars, consumerVars
  <2> QED
    BY <1>1, <1>2, <2>1
<1>4. ASSUME NEW p \in Partitions, Pause(p) PROVE Q
  <2>1. /\ UNCHANGED <<active, pc, polled, assigned, conPaused>> /\ flow = <<Nobody>>
        /\ paused' = paused \cup {p}
        /\ flow' = IF IsActive(p) THEN <<"pause", p>> ELSE flow
    BY <1>4 DEF Pause, progressVars, pollVars, consumerVars
  <2>2. \A q : flow # <<"pause", q>> /\ flow # <<"resume", q>> /\ <<"pause", p>> # <<"resume", q>>
    BY <2>1
  <2>3. PauseSurvives'
    BY <2>1, <2>2 DEF FlowInv, PauseSurvives, IsActive
  <2>4. flow' = <<Nobody>> \/ flow' = <<"pause", p>>
    BY <2>1
  <2> QED
    BY <2>1, <2>2, <2>3, <2>4 DEF FlowInv
<1>5. ASSUME NEW p \in Partitions, Resume(p) PROVE Q
  <2>1. /\ UNCHANGED <<active, pc, polled, assigned, conPaused>> /\ flow = <<Nobody>>
        /\ paused' = paused \ {p}
        /\ flow' = IF IsActive(p) THEN <<"resume", p>> ELSE flow
    BY <1>5 DEF Resume, progressVars, pollVars, consumerVars
  <2>2. \A q : flow # <<"pause", q>> /\ flow # <<"resume", q>>
    BY <2>1
  <2>3. PauseSurvives'
    BY <2>1, <2>2 DEF FlowInv, PauseSurvives, IsActive
  <2>4. flow' = <<Nobody>> \/ flow' = <<"resume", p>>
    BY <2>1
  <2>5. \A q : flow' = <<"resume", q>> => q = p
    BY <2>2, <2>4, SMTT(30)
  <2> QED
    BY <2>1, <2>3, <2>4, <2>5 DEF FlowInv
<1>6. ASSUME NEW S \in SUBSET Partitions, RevokeBegins(S) PROVE Q
  <2>1. Rest /\ Pc
    BY <1>6 DEF RevokeBegins, Polling, flowVars, consumerVars
  <2>2. Still
    BY <1>6 DEF RevokeBegins, IsActive
  <2> QED
    BY <1>1, <2>1, <2>2
<1>7. ASSUME NEW S \in SUBSET Partitions, Assign(S) PROVE Q
  <2>1. /\ UNCHANGED <<flow, paused, conPaused>> /\ assigned' = assigned \cup S /\ pc = "poll"
        /\ IF S \cap paused = {} THEN UNCHANGED <<pc, polled>>
           ELSE pc' = "pauseNew" /\ polled' = S \cap paused
    BY <1>7 DEF Assign, Polling, flowVars, pollVars
  <2>2. \A p \in Partitions : p \notin S => active'[p] = active[p]
    BY <1>7 DEF Assign, Activate
  <2>3. PauseSurvives'
    <3> SUFFICES ASSUME NEW p \in paused, p \in assigned \cup S
                 PROVE  \/ p \in conPaused \/ flow = <<"pause", p>>
                        \/ (pc' = "pauseNew" /\ p \in polled') \/ ~IsActive(p)'
      BY <2>1 DEF PauseSurvives
    <3>1. CASE p \in S
      BY <2>1, <3>1
    <3>2. CASE p \notin S
      <4>1. p \in Partitions /\ p \in paused \cap assigned /\ (IsActive(p)' <=> IsActive(p))
        BY <1>0, <2>2, <3>2 DEF Types, IsActive
      <4>2. p \in conPaused \/ flow = <<"pause", p>> \/ ~IsActive(p)
        BY <2>1, <4>1 DEF FlowInv, PauseSurvives
      <4> QED
        BY <4>1, <4>2
    <3> QED
      BY <3>1, <3>2
  <2> QED
    BY <2>1, <2>3 DEF FlowInv
<1>8. ASSUME Send \/ Settle \/ TakeGate PROVE Q
  <2>1. Rest /\ UNCHANGED active /\ Pc
    BY <1>8 DEF Send, Settle, TakeGate, flowVars, progressVars, consumerVars
  <2> QED
    BY <1>1, <1>2, <2>1
<1>9. ASSUME HandoffCommit PROVE Q
  <2>1. Rest /\ Pc
    BY <1>9 DEF HandoffCommit, flowVars, consumerVars
  <2>2. Still
    BY <1>9 DEF HandoffCommit, Committed, IsActive, IsCurrent
  <2> QED
    BY <1>1, <2>1, <2>2
<1>10. ASSUME RevokeEnds PROVE Q
  <2>1. /\ UNCHANGED <<flow, paused>> /\ assigned' = assigned \ polled.revoked
        /\ conPaused' = conPaused \ polled.revoked /\ pc = "revoke" /\ Revoke(polled.revoked)
    BY <1>10 DEF RevokeEnds
  <2>2. Still
    BY <2>1, RevokeEndsOnly
  <2>3. assigned' \subseteq assigned /\ \A p \in assigned' : p \in conPaused => p \in conPaused'
    BY <2>1
  <2>4. Pc
    BY <2>1
  <2> QED
    BY <2>1, <2>2, <2>3, <2>4, FlowRest
<1>11. ASSUME PauseNew PROVE Q
  <2>1. /\ UNCHANGED <<flow, paused, assigned, active>> /\ conPaused' = conPaused \cup polled
    BY <1>11 DEF PauseNew, progressVars, consumerVars
  <2>2. PauseSurvives'
    BY <2>1 DEF FlowInv, PauseSurvives, IsActive
  <2> QED
    BY <2>1, <2>2 DEF FlowInv
<1>12. ASSUME Receive PROVE Q
  <2>1. Rest /\ Pc
    BY <1>12 DEF Receive, flowVars, pollVars, consumerVars
  <2>2. Still
    <3>1. CASE UNCHANGED active
      BY <1>2, <3>1
    <3>2. CASE Register(channel[1], channel[3]) /\ IsActive(channel[1])
      BY <1>0, <3>2 DEF Register, IsActive, Types
    <3> QED
      BY <1>12, <3>1, <3>2 DEF Receive, Stale, IsCurrent
  <2> QED
    BY <1>1, <2>1, <2>2
<1>13. ASSUME FlowReaches PROVE Q
  <2>1. /\ UNCHANGED <<active, pc, polled, assigned, paused>> /\ flow' = <<Nobody>>
        /\ conPaused' = IF flow[1] = "resume" THEN conPaused \ {flow[2]}
                        ELSE conPaused \cup ({flow[2]} \cap assigned)
        /\ flow # <<Nobody>>
    BY <1>13 DEF FlowReaches, progressVars, pollVars, consumerVars
  <2>2. PICK p \in Partitions : flow \in {<<"pause", p>>, <<"resume", p>>}
    BY <2>1 DEF FlowInv
  <2>3. CASE flow = <<"pause", p>>
    <3>1. conPaused' = conPaused \cup ({p} \cap assigned) /\ \A q : flow = <<"pause", q>> => q = p
      BY <2>1, <2>3
    <3>2. PauseSurvives'
      BY <2>1, <3>1 DEF FlowInv, PauseSurvives, IsActive
    <3> QED
      BY <2>1, <3>2 DEF FlowInv
  <2>4. CASE flow = <<"resume", p>>
    <3>1. conPaused' = conPaused \ {p} /\ (\A q : flow # <<"pause", q>>) /\ p \notin paused
      BY <2>1, <2>4 DEF FlowInv
    <3>2. PauseSurvives'
      BY <2>1, <3>1 DEF FlowInv, PauseSurvives, IsActive
    <3> QED
      BY <2>1, <3>2 DEF FlowInv
  <2> QED
    BY <2>2, <2>3, <2>4
<1>14. ASSUME Close \/ AckLost PROVE Q
  <2>1. Rest /\ Pc /\ RevokeAll
    BY <1>14 DEF Close, AckLost, flowVars, pollVars, consumerVars
  <2> QED
    BY <1>1, <2>1, RevokeEndsOnly DEF RevokeAll
<1>15. ASSUME NEW d \in held, DropDelivery(d) \/ AckBegins(d) PROVE Q
  <2>1. Rest /\ Pc
    BY <1>15 DEF DropDelivery, AckBegins, flowVars, pollVars, consumerVars
  <2>2. \/ UNCHANGED active
        \/ \E s : IsActive(d[1]) /\ active' = [active EXCEPT ![d[1]].received[d[3]] = s]
    BY <1>15 DEF DropDelivery, AckBegins, Complete, IsCurrent
  <2>3. Still
    BY <1>0, <2>2 DEF IsActive, Types
  <2> QED
    BY <1>1, <2>1, <2>3
<1>16. ASSUME AckCommitLands \/ AckCommitFails \/ AckDropped \/ OrphanEnds PROVE Q
  <2>1. Rest /\ UNCHANGED active /\ Pc
    BY <1>16 DEF AckCommitLands, AckCommitFails, AckDropped, OrphanEnds, flowVars, progressVars,
                 pollVars, consumerVars
  <2> QED
    BY <1>1, <1>2, <2>1
<1>17. ASSUME AckCommitted \/ TxCommits PROVE Q
  <2>1. Rest /\ Pc
    BY <1>17 DEF AckCommitted, TxCommits, flowVars, pollVars, consumerVars
  <2>2. \E pos : Committed(pos)
    BY <1>17 DEF AckCommitted, TxCommits
  <2>3. Still
    BY <2>2 DEF Committed, IsActive, IsCurrent
  <2> QED
    BY <1>1, <2>1, <2>3
<1>18. ASSUME NEW B \in SUBSET held, TxBegins(B) PROVE Q
  <2>1. Rest /\ Pc /\ (RevokeAll \/ UNCHANGED active)
    BY <1>18 DEF TxBegins, flowVars, pollVars, consumerVars, progressVars
  <2> QED
    BY <1>1, <1>2, <2>1, RevokeEndsOnly DEF RevokeAll
<1>19. ASSUME TxFails \/ Lose \/ UNCHANGED vars PROVE Q
  <2>1. Rest /\ UNCHANGED active /\ Pc
    BY <1>19 DEF TxFails, Lose, vars, flowVars, pollVars, consumerVars, progressVars
  <2> QED
    BY <1>1, <1>2, <2>1
<1> HIDE DEF Q
<1>20. Q
  BY <1>3, <1>4, <1>5, <1>6, <1>7, <1>8, <1>9, <1>10, <1>11, <1>12, <1>13, <1>14, <1>15, <1>16,
     <1>17, <1>18, <1>19, SMTT(30) DEF Next, CallbackStep, AckStep, TxStep
<1> QED
  BY <1>20 DEF Q

-----------------------------------------------------------------------------
(* Positions, and the progress after a delivery is done.                     *)

(* While records remain, the next one to return is the first at or after the *)
(* offset, and nothing lies between.                                         *)
LEMMA NextOnWay ==
  ASSUME OffsetsOrdered, NEW n \in Nat, n < End
  PROVE  LET o == Min({r \in Records : r >= n})
         IN /\ o \in Records /\ o \in Nat /\ o >= n
            /\ \A r \in Records : r < o + 1 => r = o \/ r < n
<1> DEFINE S == {r \in Records : r >= n}
<1>1. Records \subseteq Nat /\ Records # {}
  BY KafkaAssumption
<1>2. Max(Records) \in Records /\ Max(Records) \in Nat
  BY <1>1 DEF OffsetsOrdered
<1>3. Max(Records) \in S
  BY <1>1, <1>2, SMTT(30) DEF End
<1>4. S \in SUBSET Records /\ S # {}
  BY <1>3
<1>5. Min(S) \in S /\ \A y \in S : Min(S) <= y
  <2> HIDE DEF S
  <2> QED
    BY <1>4 DEF OffsetsOrdered
<1> DEFINE o == Min(S)
<1>6. o \in S /\ \A y \in S : o <= y
  BY <1>5
<1> HIDE DEF o
<1>7. /\ o \in Records /\ o \in Nat /\ o >= n
      /\ \A r \in Records : r < o + 1 => r = o \/ r < n
  BY <1>1, <1>6, SMTT(30)
<1> QED
  BY <1>7 DEF o

(* What the type of an active partition's progress says of its parts.        *)
LEMMA ProgressParts ==
  ASSUME Types, NEW p \in Partitions, IsActive(p)
  PROVE  /\ active[p] \in Tracking
         /\ active[p].generation \in Nat /\ active[p].next \in Nat \cup {-1}
         /\ active[p].handoff \in BOOLEAN
         /\ DOMAIN active[p].received \subseteq Records
         /\ active[p].received \in [DOMAIN active[p].received -> Status]
         /\ active[p] = [generation |-> active[p].generation, handoff |-> active[p].handoff,
                         next |-> active[p].next, received |-> active[p].received]
<1>1. active[p] \in Tracking
  BY DEF Types, IsActive
<1>2. /\ active[p].generation \in Nat /\ active[p].next \in Nat \cup {-1}
      /\ active[p].handoff \in BOOLEAN
      /\ active[p].received \in UNION {[S -> Status] : S \in SUBSET Records}
      /\ active[p] = [generation |-> active[p].generation, handoff |-> active[p].handoff,
                      next |-> active[p].next, received |-> active[p].received]
  BY <1>1 DEF Tracking, None
<1>3. PICK S \in SUBSET Records : active[p].received \in [S -> Status]
  BY <1>2
<1> QED
  BY <1>1, <1>2, <1>3

(* Progress is no absent value.                                              *)
LEMMA ProgressIsThere == \A t \in Tracking : t # Nobody
<1> SUFFICES ASSUME NEW t \in Tracking PROVE t # Nobody
  OBVIOUS
<1>1. PICK S \in SUBSET Records : t.received \in [S -> Status]
  BY DEF Tracking
<1>2. /\ t = [generation |-> t.generation, handoff |-> t.handoff, next |-> t.next,
              received |-> t.received]
      /\ t.generation \in Nat /\ t.handoff \in BOOLEAN /\ t.next \in Int
  BY SMTT(30) DEF Tracking, None
<1>3. t \in [generation : Nat, handoff : BOOLEAN, next : Int,
             received : UNION {[T -> Status] : T \in SUBSET Records}]
  BY <1>1, <1>2
<1> QED
  BY <1>3, KafkaAssumption

(* Every record lies before the end of its partition.                        *)
LEMMA EndIsLast ==
  ASSUME OffsetsOrdered PROVE End \in Nat /\ \A o \in Records : o \in Nat /\ o + 1 <= End
<1>1. Records \subseteq Nat /\ Records # {} /\ Records \in SUBSET Records
  BY KafkaAssumption
<1>2. PICK m : m = Max(Records)
  OBVIOUS
<1>3. End = m + 1 /\ m \in Records /\ \A y \in Records : m >= y
  BY <1>1, <1>2 DEF OffsetsOrdered, End
<1> HIDE DEF End
<1> QED
  BY <1>1, <1>3, SMTT(30)

(* Behind each acknowledged record from n on is one that is not.             *)
Behind(p, n) ==
  LET r == active[p].received
  IN \A o \in DOMAIN r : r[o] = "done" /\ n <= o =>
       \E e \in DOMAIN r : n <= e /\ e < o /\ r[e] # "done"

(* commit_position returns the first registered record that is not           *)
(* acknowledged, or the offset after the last one; and when it returns       *)
(* nothing, what was acknowledged is behind a record that was not.           *)
PositionIsFirst(p) ==
  LET c == CommitPosition(p)
      r == active[p].received
  IN /\ c # None =>
          /\ c \in Nat /\ c <= End
          /\ \A o \in DOMAIN r : r[o] # "done" => c <= o
          /\ \E x \in DOMAIN r : c <= x + 1
          /\ (c \in DOMAIN r /\ r[c] # "done") \/ \A o \in DOMAIN r : o < c
     /\ c = None => Behind(p, 0)

PositionsAreFirst == \A p \in Partitions : IsActive(p) => PositionIsFirst(p)

LEMMA PositionFacts ==
  ASSUME OffsetsOrdered, Types, Contiguous, NEW p \in Partitions, IsActive(p)
  PROVE  LET c == CommitPosition(p)
             r == active[p].received
         IN /\ c # None =>
                 /\ c \in Nat
                 /\ \A o \in DOMAIN r : r[o] # "done" => c <= o
                 /\ \E x \in DOMAIN r : c <= x + 1
                 /\ (c \in DOMAIN r /\ r[c] # "done") \/ \A o \in DOMAIN r : o < c
            /\ c = None => Behind(p, 0)
<1> DEFINE c == CommitPosition(p)
           r == active[p].received
           open == {o \in DOMAIN r : r[o] # "done"}
           n == active[p].next
<1>1. n \in Nat \cup {-1} /\ DOMAIN r \in SUBSET Records /\ Records \subseteq Nat
  BY ProgressParts, KafkaAssumption
<1>10. \A o \in DOMAIN r : o \in Nat
  BY <1>1
<1>2. (n = None => DOMAIN r = {}) /\ \A o \in DOMAIN r : o >= n
  BY DEF Contiguous
<1>3. CASE open # {}
  <2>1. open \in SUBSET Records
    BY <1>1
  <2>2. PICK m : m = Min(open)
    OBVIOUS
  <2>3. m \in open /\ \A y \in open : m <= y
    <3> HIDE DEF open
    <3> QED
      BY <1>3, <2>1, <2>2 DEF OffsetsOrdered
  <2>4. c = IF n # None /\ m > n THEN m ELSE None
    BY <1>3, <2>2 DEF CommitPosition
  <2>5. m \in Nat /\ m \in DOMAIN r /\ r[m] # "done" /\ m <= m + 1
        /\ \A o \in DOMAIN r : r[o] # "done" => m <= o
    <3>1. m \in DOMAIN r /\ r[m] # "done" /\ \A o \in DOMAIN r : r[o] # "done" => m <= o
      BY <2>3
    <3>2. m \in Nat
      BY <1>10, <3>1
    <3> QED
      BY <3>1, <3>2, SMTT(30)
  <2>6. ASSUME c = None PROVE Behind(p, 0)
    <3>1. m = n
      BY <1>1, <1>2, <2>4, <2>5, <2>6, SMTT(30) DEF None
    <3>2. \A o \in DOMAIN r : r[o] = "done" => 0 <= m /\ m < o
      BY <1>2, <1>10, <2>5, <3>1, SMTT(30)
    <3> HIDE DEF r
    <3>3. \A o \in DOMAIN r : r[o] = "done" /\ 0 <= o =>
            \E e \in DOMAIN r : 0 <= e /\ e < o /\ r[e] # "done"
      BY <2>5, <3>2
    <3> QED
      BY <3>3 DEF Behind, r
  <2>7. c # None => c = m
    BY <2>4
  <2> HIDE DEF c
  <2> QED
    BY <2>5, <2>6, <2>7 DEF c
<1>4. CASE open = {} /\ DOMAIN r # {}
  <2>1. PICK m : m = Max(DOMAIN r)
    OBVIOUS
  <2>2. m \in DOMAIN r /\ \A y \in DOMAIN r : m >= y
    <3> HIDE DEF r
    <3> QED
      BY <1>1, <1>4, <2>1 DEF OffsetsOrdered
  <2>3. c = IF n # None /\ m + 1 > n THEN m + 1 ELSE None
    BY <1>4, <2>1 DEF CommitPosition
  <2>4. m \in Nat /\ m >= n /\ n # None
    BY <1>2, <1>10, <2>2
  <2>5. c = m + 1
    <3>1. n \in Nat \cup {-1}
      BY <1>1
    <3> HIDE DEF c, r, n
    <3>2. m + 1 > n
      BY <2>4, <3>1, SMTT(30)
    <3> QED
      BY <2>3, <2>4, <3>2
  <2>6. /\ c \in Nat /\ c # None /\ m \in DOMAIN r /\ c <= m + 1 /\ \A o \in DOMAIN r : o < c
    <3>1. \A o \in DOMAIN r : o <= m /\ o \in Nat
      BY <1>10, <2>2, <2>4
    <3> HIDE DEF c, r
    <3> QED
      BY <2>2, <2>4, <2>5, <3>1, SMTT(30) DEF None
  <2>7. \A o \in DOMAIN r : r[o] = "done"
    BY <1>4
  <2> HIDE DEF c
  <2> QED
    BY <2>6, <2>7 DEF c
<1>5. CASE open = {} /\ DOMAIN r = {}
  <2>1. c = IF n # None /\ n > n THEN n ELSE None
    BY <1>5 DEF CommitPosition
  <2>2. c = None
    BY <1>1, <2>1, SMTT(30)
  <2>3. Behind(p, 0)
    BY <1>5 DEF Behind
  <2> QED
    BY <2>2, <2>3
<1> QED
  BY <1>3, <1>4, <1>5

LEMMA PositionsFirst == OffsetsOrdered /\ Types /\ Contiguous => PositionsAreFirst
<1> SUFFICES ASSUME OffsetsOrdered, Types, Contiguous, NEW p \in Partitions, IsActive(p)
             PROVE  PositionIsFirst(p)
  BY DEF PositionsAreFirst
<1>1. CommitPosition(p) # None => CommitPosition(p) \in Nat /\ CommitPosition(p) <= End
  <2> SUFFICES ASSUME CommitPosition(p) # None
               PROVE  CommitPosition(p) \in Nat /\ CommitPosition(p) <= End
    OBVIOUS
  <2>1. PICK x \in DOMAIN active[p].received :
          CommitPosition(p) \in Nat /\ CommitPosition(p) <= x + 1
    BY PositionFacts
  <2>2. x \in Records
    BY ProgressParts
  <2>3. End \in Nat /\ x \in Nat /\ x + 1 <= End
    BY <2>2, EndIsLast
  <2> QED
    BY <2>1, <2>3, SMTT(30)
<1> QED
  BY <1>1, PositionFacts DEF PositionIsFirst

(* What committed does to a partition: nothing, or it moves next to the      *)
(* position and forgets what lies before it.                                 *)
LEMMA CommittedShape ==
  ASSUME Types, NEW pos, Committed(pos), \A p \in Partitions : p \in DOMAIN pos => pos[p][2] \in Nat
  PROVE  \A p \in Partitions :
           /\ IsActive(p)' <=> IsActive(p)
           /\ IsActive(p) =>
                /\ active'[p].generation = active[p].generation
                /\ active'[p].handoff = active[p].handoff
                /\ \/ /\ active'[p] = active[p]
                      /\ p \in DOMAIN pos /\ IsCurrent(p, pos[p][1]) =>
                           active[p].next = None \/ pos[p][2] <= active[p].next
                   \/ /\ p \in DOMAIN pos /\ IsCurrent(p, pos[p][1])
                      /\ active'[p].next = pos[p][2]
                      /\ DOMAIN active'[p].received =
                           {o \in DOMAIN active[p].received : o >= pos[p][2]}
                      /\ \A o \in DOMAIN active'[p].received :
                           active'[p].received[o] = active[p].received[o]
<1> SUFFICES ASSUME NEW p \in Partitions
             PROVE  /\ IsActive(p)' <=> IsActive(p)
                    /\ IsActive(p) =>
                         /\ active'[p].generation = active[p].generation
                         /\ active'[p].handoff = active[p].handoff
                         /\ \/ /\ active'[p] = active[p]
                               /\ p \in DOMAIN pos /\ IsCurrent(p, pos[p][1]) =>
                                    active[p].next = None \/ pos[p][2] <= active[p].next
                            \/ /\ p \in DOMAIN pos /\ IsCurrent(p, pos[p][1])
                               /\ active'[p].next = pos[p][2]
                               /\ DOMAIN active'[p].received =
                                    {o \in DOMAIN active[p].received : o >= pos[p][2]}
                               /\ \A o \in DOMAIN active'[p].received :
                                    active'[p].received[o] = active[p].received[o]
  OBVIOUS
<1> DEFINE moves == /\ p \in DOMAIN pos /\ IsCurrent(p, pos[p][1])
                    /\ active[p].next # None /\ pos[p][2] > active[p].next
<1>1. CASE ~moves
  <2>1. active'[p] = active[p]
    BY <1>1 DEF Committed
  <2>2. p \in DOMAIN pos /\ IsCurrent(p, pos[p][1]) =>
          active[p].next = None \/ pos[p][2] <= active[p].next
    <3> SUFFICES ASSUME p \in DOMAIN pos, IsCurrent(p, pos[p][1]), active[p].next # None
                 PROVE  pos[p][2] <= active[p].next
      OBVIOUS
    <3>1. pos[p][2] \in Nat /\ active[p].next \in Nat \cup {-1}
      BY ProgressParts DEF IsCurrent
    <3>2. ~ (pos[p][2] > active[p].next)
      BY <1>1
    <3> QED
      BY <3>1, <3>2, SMTT(30)
  <2> QED
    BY <2>1, <2>2 DEF IsActive
<1>2. CASE moves
  <2>1. PICK n : n = pos[p][2]
    OBVIOUS
  <2>2. IsActive(p) /\ n \in Nat
    BY <1>2, <2>1 DEF IsCurrent
  <2>3. /\ active[p].generation \in Nat /\ active[p].handoff \in BOOLEAN
        /\ DOMAIN active[p].received \subseteq Records
        /\ active[p].received \in [DOMAIN active[p].received -> Status]
        /\ active[p] = [generation |-> active[p].generation, handoff |-> active[p].handoff,
                        next |-> active[p].next, received |-> active[p].received]
    BY <2>2, ProgressParts
  <2> DEFINE r == active[p].received
             kept == {o \in DOMAIN r : o >= n}
             q == [o \in kept |-> r[o]]
  <2>4. active'[p] = [active[p] EXCEPT !.next = n,
                        !.received = [o \in {x \in DOMAIN @ : x >= n} |-> @[o]]]
    BY <1>2, <2>1 DEF Committed, Restrict
  <2>5. active'[p] = [generation |-> active[p].generation, handoff |-> active[p].handoff,
                      next |-> n, received |-> q]
    BY <2>3, <2>4
  <2>6. DOMAIN q = kept /\ \A o \in kept : q[o] = r[o]
    OBVIOUS
  <2>7. q \in [kept -> Status] /\ kept \in SUBSET Records
    BY <2>3
  <2> HIDE DEF q
  <2>8. q \in UNION {[S -> Status] : S \in SUBSET Records}
    BY <2>7
  <2>9. active'[p] \in Tracking
    BY <2>2, <2>3, <2>5, <2>8, SMTT(30) DEF Tracking
  <2>10. IsActive(p)'
    BY <2>9, ProgressIsThere DEF IsActive, Inactive
  <2>11. /\ active'[p].generation = active[p].generation
         /\ active'[p].handoff = active[p].handoff
         /\ active'[p].next = n /\ active'[p].received = q
    BY <2>5, SMTT(30)
  <2> QED
    BY <1>2, <2>1, <2>2, <2>6, <2>10, <2>11
<1> QED
  BY <1>1, <1>2

(* What complete and release do to a registered record: only its status      *)
(* changes.                                                                  *)
LEMMA MarkShape ==
  ASSUME Types, NEW p \in Partitions, IsActive(p), NEW o \in DOMAIN active[p].received,
         NEW s \in Status, active' = [active EXCEPT ![p].received[o] = s]
  PROVE  /\ \A q \in Partitions : (IsActive(q)' <=> IsActive(q)) /\ (q # p => active'[q] = active[q])
         /\ active'[p].generation = active[p].generation /\ active'[p].handoff = active[p].handoff
         /\ active'[p].next = active[p].next
         /\ DOMAIN active'[p].received = DOMAIN active[p].received
         /\ \A x \in DOMAIN active[p].received :
              active'[p].received[x] = IF x = o THEN s ELSE active[p].received[x]
<1>1. /\ active[p].generation \in Nat /\ active[p].next \in Nat \cup {-1}
      /\ active[p].handoff \in BOOLEAN
      /\ DOMAIN active[p].received \subseteq Records
      /\ active[p].received \in [DOMAIN active[p].received -> Status]
      /\ active[p] = [generation |-> active[p].generation, handoff |-> active[p].handoff,
                      next |-> active[p].next, received |-> active[p].received]
  BY ProgressParts
<1> DEFINE r == active[p].received
           m == [r EXCEPT ![o] = s]
<1>2. \A q \in Partitions : q # p => active'[q] = active[q]
  BY DEF Types
<1>3. active'[p] = [active[p] EXCEPT !.received = m]
  BY DEF Types
<1>4. /\ m \in [DOMAIN r -> Status] /\ DOMAIN m = DOMAIN r
      /\ \A x \in DOMAIN r : m[x] = IF x = o THEN s ELSE r[x]
  BY <1>1
<1> HIDE DEF m
<1>5. active'[p] = [generation |-> active[p].generation, handoff |-> active[p].handoff,
                    next |-> active[p].next, received |-> m]
  BY <1>1, <1>3, SMTT(30)
<1>6. m \in UNION {[S -> Status] : S \in SUBSET Records}
  BY <1>1, <1>4
<1>7. active'[p] \in Tracking
  BY <1>1, <1>5, <1>6, SMTT(30) DEF Tracking, None
<1>8. IsActive(p)'
  BY <1>7, ProgressIsThere DEF IsActive, Inactive
<1>9. /\ active'[p].generation = active[p].generation /\ active'[p].handoff = active[p].handoff
      /\ active'[p].next = active[p].next /\ active'[p].received = m
  BY <1>5, SMTT(30)
<1>10. \A q \in Partitions : IsActive(q)' <=> IsActive(q)
  BY <1>2, <1>8 DEF IsActive
<1> QED
  BY <1>2, <1>4, <1>9, <1>10

(* The step of a delivery: nothing but its record's status changes.          *)
LEMMA DeliveryShape ==
  ASSUME ProgressInv, NEW d \in held, DropDelivery(d) \/ AckBegins(d)
  PROVE  /\ d[1] \in Partitions /\ d[2] \in Nat /\ d[3] \in Records /\ d = <<d[1], d[2], d[3]>>
         /\ held' = held \ {d}
         /\ \/ UNCHANGED active
            \/ /\ IsCurrent(d[1], d[2]) /\ d[3] \in DOMAIN active[d[1]].received
               /\ \/ DropDelivery(d) /\ active' = [active EXCEPT ![d[1]].received[d[3]] = "released"]
                  \/ ~DropDelivery(d) /\ active' = [active EXCEPT ![d[1]].received[d[3]] = "done"]
<1>1. d[1] \in Partitions /\ d[2] \in Nat /\ d[3] \in Records /\ d = <<d[1], d[2], d[3]>>
  BY SMTT(30) DEF ProgressInv, Types
<1>2. CASE DropDelivery(d)
  BY <1>1, <1>2 DEF DropDelivery
<1>3. CASE ~DropDelivery(d)
  <2>1. /\ held' = held \ {d}
        /\ \/ UNCHANGED active
           \/ /\ IsCurrent(d[1], d[2]) /\ ~(d[3] < active[d[1]].next)
              /\ active' = [active EXCEPT ![d[1]].received[d[3]] = "done"]
    BY <1>3 DEF AckBegins, Complete
  <2>2. IsCurrent(d[1], d[2]) /\ ~(d[3] < active[d[1]].next) => d[3] \in DOMAIN active[d[1]].received
    BY DEF ProgressInv, HeldIsKnown
  <2> QED
    BY <1>1, <1>3, <2>1, <2>2
<1> QED
  BY <1>2, <1>3

(* register, of a record of the current assignment that is not handed off.   *)
LEMMA RegisterFacts ==
  ASSUME Types, Contiguous, NEW p \in Partitions, NEW o \in Records, IsActive(p), Register(p, o)
  PROVE  /\ active' \in [Partitions -> Tracking \cup {Inactive}]
         /\ \A q \in Partitions : q # p => active'[q] = active[q]
         /\ IsActive(p)' /\ active'[p].generation = active[p].generation
         /\ active'[p].handoff = active[p].handoff
         /\ active'[p].next = IF active[p].next = None THEN o ELSE active[p].next
         /\ DOMAIN active'[p].received =
              IF active[p].next = None \/ o >= active[p].next
              THEN DOMAIN active[p].received \cup {o} ELSE DOMAIN active[p].received
         /\ \A x \in DOMAIN active'[p].received :
              active'[p].received[x] = IF x \in DOMAIN active[p].received
                                       THEN active[p].received[x] ELSE "pending"
<1>1. /\ active[p] \in Tracking
      /\ active[p].generation \in Nat /\ active[p].next \in Nat \cup {-1}
      /\ active[p].handoff \in BOOLEAN
      /\ DOMAIN active[p].received \subseteq Records
      /\ active[p].received \in [DOMAIN active[p].received -> Status]
      /\ active[p] = [generation |-> active[p].generation, handoff |-> active[p].handoff,
                      next |-> active[p].next, received |-> active[p].received]
  BY ProgressParts
<1> DEFINE r == active[p].received
           n == IF active[p].next = None THEN o ELSE active[p].next
           m == IF active[p].next = None \/ o >= active[p].next
                THEN [x \in DOMAIN r \cup {o} |-> IF x \in DOMAIN r THEN r[x] ELSE "pending"]
                ELSE r
<1>2. active'[p] = [active[p] EXCEPT !.next = n, !.received = m]
  BY DEF Register, Types
<1>3. \A q \in Partitions : q # p => active'[q] = active[q]
  BY DEF Register, Types
<1>4. /\ DOMAIN m = IF active[p].next = None \/ o >= active[p].next
                    THEN DOMAIN r \cup {o} ELSE DOMAIN r
      /\ \A x \in DOMAIN m : m[x] = IF x \in DOMAIN r THEN r[x] ELSE "pending"
  OBVIOUS
<1>5. m \in [DOMAIN m -> Status]
  <2>1. CASE active[p].next = None \/ o >= active[p].next
    BY <1>1, <2>1 DEF Status
  <2>2. CASE ~(active[p].next = None \/ o >= active[p].next)
    BY <1>1, <2>2
  <2> QED
    BY <2>1, <2>2
<1>6. DOMAIN m \subseteq Records
  BY <1>1, <1>4
<1>7. n \in Nat \cup {None}
  BY <1>1, KafkaAssumption DEF None
<1> HIDE DEF m, n
<1>8. active'[p] = [generation |-> active[p].generation, handoff |-> active[p].handoff,
                    next |-> n, received |-> m]
  BY <1>1, <1>2
<1>9. m \in UNION {[T -> Status] : T \in SUBSET Records}
  BY <1>5, <1>6
<1>10. active'[p] \in Tracking
  BY <1>1, <1>7, <1>8, <1>9, SMTT(30) DEF Tracking
<1>11. IsActive(p)'
  BY <1>10, ProgressIsThere DEF IsActive, Inactive
<1>12. active' = [q \in Partitions |-> active'[q]]
  BY DEF Register, Types
<1>13. active' \in [Partitions -> Tracking \cup {Inactive}]
  <2>1. \A q \in Partitions : active'[q] \in Tracking \cup {Inactive}
    BY <1>3, <1>10 DEF Types
  <2> QED
    BY <1>12, <2>1
<1>14. /\ active'[p].generation = active[p].generation /\ active'[p].handoff = active[p].handoff
       /\ active'[p].next = n /\ active'[p].received = m
  BY <1>8, SMTT(30)
<1> QED
  BY <1>3, <1>4, <1>11, <1>13, <1>14 DEF n

-----------------------------------------------------------------------------
(* Types.                                                                    *)

(* Every position lies within its partition.                                 *)
WithinLog ==
  /\ \A p \in Partitions : IsActive(p) => active[p].next <= End
  /\ \A p \in Partitions : fetch[p] <= End /\ committed[p] <= End
  /\ orphans \subseteq Partitions \X (0..End)
  /\ acking # Nobody => acking.next <= End
  /\ txn # Nobody => \A p \in DOMAIN txn.next : txn.next[p][2] <= End
  /\ pc = "handoffCommit" => \A p \in DOMAIN polled.positions : polled.positions[p][2] <= End

(* What the steps do to the settings, the flags and the sets of partitions.  *)
Flags ==
  /\ config \in Configs
  /\ paused \subseteq Partitions /\ conPaused \subseteq Partitions
  /\ lost \in BOOLEAN /\ closed \in BOOLEAN
  /\ pc \in {"poll", "send"} \cup Callback
  /\ gate \in {Nobody, "ack", "handoff"}
  /\ pc = "pauseNew" => polled \subseteq Partitions

(* Every step keeps positions within the partition.                          *)
LEMMA WithinStep ==
  ASSUME OffsetsOrdered, ProgressInv, ProgressInv', WithinLog, [Next]_vars PROVE WithinLog'
<1> DEFINE Q == WithinLog'
           Nexts == \A p \in Partitions : IsActive(p)' => active'[p].next <= End
           Positions == pc' = "handoffCommit" => pc = "handoffCommit" /\ polled' = polled
<1>0. Types /\ Types' /\ Contiguous /\ Contiguous' /\ PositionsSeen /\ TxCovers
  BY DEF ProgressInv
<1>00. End \in Nat /\ \A o \in Records : o \in Nat /\ o + 1 <= End /\ o <= End
  <2>1. End \in Nat /\ \A o \in Records : o \in Nat /\ o + 1 <= End
    BY EndIsLast
  <2> HIDE DEF End
  <2> QED
    BY <2>1, SMTT(30)
<1>1. ASSUME UNCHANGED <<fetch, committed, orphans, acking, txn>>, Nexts, Positions PROVE Q
  BY <1>1 DEF WithinLog
<1>2. ASSUME UNCHANGED active PROVE Nexts
  BY <1>2 DEF WithinLog, IsActive
<1>3. ASSUME NEW S, Revoke(S) PROVE Nexts
  BY <1>3 DEF WithinLog, Revoke, IsActive, Inactive
<1>4. ASSUME NEW pos, Committed(pos),
             \A p \in Partitions : p \in DOMAIN pos => pos[p][2] \in Nat /\ pos[p][2] <= End
      PROVE  Nexts
  BY <1>0, <1>4, CommittedShape DEF WithinLog
<1>5. ASSUME NEW p \in Partitions, Poll(p) PROVE Q
  <2>1. /\ UNCHANGED <<active, committed, orphans, acking, txn>> /\ Positions /\ fetch[p] < End
        /\ fetch' = [fetch EXCEPT ![p] = Min({r \in Records : r >= fetch[p]}) + 1]
    BY <1>5 DEF Poll, Polling, progressVars, pollVars, ackVars, brokerVars
  <2>2. PICK o : o = Min({r \in Records : r >= fetch[p]})
    OBVIOUS
  <2>3. o \in Records
    <3>1. fetch[p] \in Nat
      BY <1>0 DEF Types
    <3> QED
      BY <2>1, <2>2, <3>1, NextOnWay
  <2>4. \A q \in Partitions : fetch'[q] = IF q = p THEN o + 1 ELSE fetch[q]
    BY <1>0, <2>1, <2>2 DEF Types
  <2>5. \A q \in Partitions : fetch'[q] <= End
    BY <1>00, <2>3, <2>4 DEF WithinLog
  <2> QED
    BY <1>2, <2>1, <2>5 DEF WithinLog
<1>6. ASSUME NEW p \in Partitions, OtherOwner(p) PROVE Q
  <2>1. /\ UNCHANGED <<active, fetch, orphans, acking, txn>> /\ Positions /\ committed[p] < End
        /\ committed' = [committed EXCEPT ![p] = Min({r \in Records : r >= committed[p]}) + 1]
    BY <1>6 DEF OtherOwner, progressVars, pollVars, ackVars, consumerVars
  <2>2. PICK o : o = Min({r \in Records : r >= committed[p]})
    OBVIOUS
  <2>3. o \in Records
    <3>1. committed[p] \in Nat
      BY <1>0 DEF Types
    <3> QED
      BY <2>1, <2>2, <3>1, NextOnWay
  <2>4. \A q \in Partitions : committed'[q] = IF q = p THEN o + 1 ELSE committed[q]
    BY <1>0, <2>1, <2>2 DEF Types
  <2>5. \A q \in Partitions : committed'[q] <= End
    BY <1>00, <2>3, <2>4 DEF WithinLog
  <2> QED
    BY <1>2, <2>1, <2>5 DEF WithinLog
<1>7. ASSUME NEW p \in Partitions, Pause(p) \/ Resume(p) PROVE Q
  <2>1. UNCHANGED <<active, fetch, committed, orphans, acking, txn>> /\ Positions
    BY <1>7 DEF Pause, Resume, progressVars, pollVars, ackVars, consumerVars, brokerVars
  <2> QED
    BY <1>1, <1>2, <2>1
<1>8. ASSUME NEW S \in SUBSET Partitions, RevokeBegins(S) PROVE Q
  <2>1. UNCHANGED <<fetch, committed, orphans, acking, txn>> /\ Positions
    BY <1>8 DEF RevokeBegins, ackVars, consumerVars, brokerVars
  <2>2. \A p \in Partitions : IsActive(p)' =>
          IsActive(p) /\ (active'[p] = active[p] \/ active'[p] = [active[p] EXCEPT !.handoff = TRUE])
    BY <1>8 DEF RevokeBegins, IsActive
  <2>3. Nexts
    <3> SUFFICES ASSUME NEW p \in Partitions, IsActive(p)' PROVE active'[p].next <= End
      OBVIOUS
    <3>1. active[p] = [generation |-> active[p].generation, handoff |-> active[p].handoff,
                       next |-> active[p].next, received |-> active[p].received]
      BY <1>0, <2>2, ProgressParts
    <3>2. CASE active'[p] = [active[p] EXCEPT !.handoff = TRUE]
      <4>1. active'[p] = [generation |-> active[p].generation, handoff |-> TRUE,
                          next |-> active[p].next, received |-> active[p].received]
        BY <3>1, <3>2
      <4>2. active'[p].next = active[p].next
        BY <4>1, SMTT(30)
      <4> QED
        BY <2>2, <4>2 DEF WithinLog
    <3> QED
      BY <2>2, <3>2 DEF WithinLog
  <2> QED
    BY <1>1, <2>1, <2>3
<1>9. ASSUME NEW S \in SUBSET Partitions, Assign(S) PROVE Q
  <2>1. /\ UNCHANGED <<committed, orphans, acking, txn>> /\ Positions /\ Activate(S)
        /\ fetch' = [p \in Partitions |-> IF p \in S THEN committed[p] ELSE fetch[p]]
    BY <1>9 DEF Assign, Polling, pollVars, ackVars, brokerVars
  <2>2. \A p \in Partitions : fetch'[p] <= End
    BY <2>1 DEF WithinLog
  <2>3. \A p \in Partitions : active'[p] = active[p] \/ active'[p].next = None
    BY <2>1 DEF Activate
  <2>4. None <= End
    BY <1>00, SMTT(30) DEF None
  <2>5. Nexts
    BY <2>3, <2>4 DEF WithinLog, IsActive
  <2> QED
    BY <2>1, <2>2, <2>5 DEF WithinLog
<1>10. ASSUME Send \/ Settle \/ PauseNew PROVE Q
  <2>1. UNCHANGED <<active, fetch, committed, orphans, acking, txn>> /\ Positions
    BY <1>10 DEF Send, Settle, PauseNew, progressVars, ackVars, consumerVars, brokerVars
  <2> QED
    BY <1>1, <1>2, <2>1
<1>11. ASSUME TakeGate PROVE Q
  <2> DEFINE ready == {p \in polled.handed : IsActive(p) /\ CommitPosition(p) # None}
  <2>1. /\ UNCHANGED <<active, fetch, committed, orphans, acking, txn>> /\ pc = "gate"
        /\ polled' = [polled EXCEPT
             !.positions = [p \in ready |-> <<active[p].generation, CommitPosition(p)>>],
             !.ok = ready = {}]
    BY <1>11 DEF TakeGate, progressVars, consumerVars, brokerVars
  <2>2. /\ polled = [revoked |-> polled.revoked, handed |-> polled.handed,
                     settled |-> polled.settled, positions |-> polled.positions, ok |-> polled.ok]
        /\ polled.handed \subseteq Partitions
    BY <2>1 DEF ProgressInv, Types, Generations
  <2>3. polled'.positions = [p \in ready |-> <<active[p].generation, CommitPosition(p)>>]
    BY <2>1, <2>2
  <2>4. ASSUME NEW p \in DOMAIN polled'.positions PROVE polled'.positions[p][2] <= End
    <3>1. /\ p \in Partitions /\ IsActive(p) /\ CommitPosition(p) # None
          /\ polled'.positions[p][2] = CommitPosition(p)
      BY <2>2, <2>3, <2>4, SMTT(30)
    <3>2. CommitPosition(p) <= End
      BY <1>0, <3>1, PositionsFirst DEF PositionsAreFirst, PositionIsFirst
    <3> QED
      BY <3>1, <3>2
  <2>5. Nexts
    BY <1>2, <2>1
  <2> QED
    BY <2>1, <2>4, <2>5 DEF WithinLog
<1>12. ASSUME HandoffCommit PROVE Q
  <2>1. UNCHANGED <<fetch, orphans, acking, txn>> /\ pc = "handoffCommit" /\ pc' = "revoke"
    BY <1>12 DEF HandoffCommit, ackVars, consumerVars
  <2>2. CASE UNCHANGED <<committed, active>>
    BY <1>2, <2>1, <2>2 DEF WithinLog
  <2>3. CASE committed' = Offsets(polled.positions) /\ Committed(polled.positions)
    <3>1. \A p \in Partitions : p \in DOMAIN polled.positions =>
            polled.positions[p][2] \in Nat /\ polled.positions[p][2] <= End
      BY <1>0, <2>1 DEF WithinLog, PositionsSeen
    <3>2. Nexts
      BY <1>4, <2>3, <3>1
    <3>3. \A p \in Partitions : committed'[p] <= End
      BY <2>3, <3>1 DEF Offsets, WithinLog
    <3>4. pc' # "handoffCommit"
      BY <2>1
    <3> QED
      BY <2>1, <3>2, <3>3, <3>4 DEF WithinLog
  <2> QED
    BY <1>12, <2>2, <2>3 DEF HandoffCommit
<1>13. ASSUME RevokeEnds PROVE Q
  <2>1. UNCHANGED <<fetch, committed, orphans, acking, txn>> /\ Positions /\ Revoke(polled.revoked)
    BY <1>13 DEF RevokeEnds, brokerVars
  <2> QED
    BY <1>1, <1>3, <2>1
<1>14. ASSUME Receive PROVE Q
  <2>1. UNCHANGED <<fetch, committed, orphans, acking, txn>> /\ Positions
    BY <1>14 DEF Receive, pollVars, ackVars, consumerVars, brokerVars
  <2>2. Nexts
    <3>1. CASE UNCHANGED active
      BY <1>2, <3>1
    <3>2. CASE ~Stale(channel[1], channel[2]) /\ Register(channel[1], channel[3])
      <4>1. channel[1] \in Partitions /\ channel[3] \in Records /\ IsActive(channel[1])
        BY <1>0, <1>14, <3>2 DEF Types, Receive, Stale, IsCurrent
      <4>2. /\ \A q \in Partitions : q # channel[1] => active'[q] = active[q]
            /\ active'[channel[1]].next \in {channel[3], active[channel[1]].next}
        BY <1>0, <3>2, <4>1, RegisterFacts
      <4> QED
        BY <1>00, <4>1, <4>2 DEF WithinLog, IsActive
    <3> QED
      BY <1>14, <3>1, <3>2 DEF Receive
  <2> QED
    BY <1>1, <2>1, <2>2
<1>15. ASSUME FlowReaches \/ TxFails \/ Lose \/ UNCHANGED vars PROVE Q
  <2>1. UNCHANGED <<active, fetch, committed, orphans, acking>> /\ Positions
        /\ (txn' = txn \/ txn' = Nobody)
    BY <1>15 DEF FlowReaches, TxFails, Lose, vars, progressVars, pollVars, ackVars, consumerVars,
                 brokerVars
  <2> QED
    BY <1>2, <2>1 DEF WithinLog
<1>16. ASSUME Close \/ AckLost PROVE Q
  <2>1. /\ UNCHANGED <<fetch, committed, orphans, txn>> /\ Positions /\ RevokeAll
        /\ acking' = acking \/ acking' = Nobody
    BY <1>16 DEF Close, AckLost, AckEnds, pollVars, ackVars, consumerVars, brokerVars
  <2>2. Nexts
    BY <1>3, <2>1 DEF RevokeAll
  <2> QED
    BY <2>1, <2>2 DEF WithinLog
<1>17. ASSUME NEW d \in held, DropDelivery(d) \/ AckBegins(d) PROVE Q
  <2>1. UNCHANGED <<fetch, committed, orphans, txn>> /\ Positions
    BY <1>17 DEF DropDelivery, AckBegins, pollVars, ackVars, consumerVars, brokerVars
  <2>2. Nexts
    <3>1. CASE UNCHANGED active
      BY <1>2, <3>1
    <3>2. CASE ~UNCHANGED active
      <4>1. PICK s \in {"released", "done"} :
              /\ d[1] \in Partitions /\ IsCurrent(d[1], d[2])
              /\ d[3] \in DOMAIN active[d[1]].received
              /\ active' = [active EXCEPT ![d[1]].received[d[3]] = s]
        BY <1>17, <3>2, DeliveryShape
      <4>2. IsActive(d[1]) /\ s \in Status
        BY <4>1 DEF IsCurrent, Status
      <4>3. /\ active'[d[1]].next = active[d[1]].next
            /\ \A q \in Partitions :
                 (IsActive(q)' <=> IsActive(q)) /\ (q # d[1] => active'[q] = active[q])
        BY <1>0, <4>1, <4>2, MarkShape
      <4> QED
        BY <4>1, <4>3 DEF WithinLog
    <3> QED
      BY <3>1, <3>2
  <2>3. acking' # Nobody => acking'.next <= End
    <3>1. CASE UNCHANGED acking
      BY <3>1 DEF WithinLog
    <3>2. CASE acking' = [d |-> d, at |-> "lost", next |-> None]
      BY <1>00, <3>2, SMTT(30) DEF None
    <3>3. CASE /\ CommitPosition(d[1])' # None
               /\ acking' = [d |-> d, at |-> "commit", next |-> CommitPosition(d[1])']
               /\ IsCurrent(d[1], d[2])
      <4>1. d[1] \in Partitions /\ IsActive(d[1])'
        <5>1. d[1] \in Partitions
          BY <1>17, DeliveryShape
        <5>2. active'[d[1]] # Inactive
          BY <3>3, <5>1, <1>0, <1>17, DeliveryShape, MarkShape DEF IsActive, IsCurrent, Status
        <5> QED
          BY <5>1, <5>2 DEF IsActive, Inactive
      <4>2. PositionsAreFirst'
        <5>1. OffsetsOrdered'
          BY DEF OffsetsOrdered
        <5> QED
          BY <1>0, <5>1, PositionsFirst, PTL
      <4>3. PICK n : n = CommitPosition(d[1])'
        OBVIOUS
      <4>4. n <= End
        BY <3>3, <4>1, <4>2, <4>3 DEF PositionsAreFirst, PositionIsFirst
      <4> QED
        BY <3>3, <4>3, <4>4
    <3> QED
      BY <1>17, <3>1, <3>2, <3>3 DEF AckBegins, DropDelivery, ackVars
  <2> QED
    BY <2>1, <2>2, <2>3 DEF WithinLog
<1>18. ASSUME AckCommitLands PROVE Q
  <2>1. /\ UNCHANGED <<active, fetch, orphans, txn>> /\ Positions
        /\ acking # Nobody /\ acking' = [acking EXCEPT !.at = "landed"]
        /\ committed' = [committed EXCEPT ![acking.d[1]] = acking.next]
    BY <1>18 DEF AckCommitLands, progressVars, pollVars, consumerVars
  <2>2. acking'.next = acking.next /\ acking.next <= End
    BY <1>0, <2>1 DEF WithinLog, Types
  <2>3. \A p \in Partitions : committed'[p] \in {committed[p], acking.next}
    BY <1>0, <2>1 DEF Types
  <2>4. \A p \in Partitions : committed'[p] <= End
    BY <2>2, <2>3 DEF WithinLog
  <2> QED
    BY <1>2, <2>1, <2>2, <2>4 DEF WithinLog
<1>19. ASSUME AckCommitFails \/ AckDropped PROVE Q
  <2>1. /\ UNCHANGED <<active, fetch, committed, txn>> /\ Positions /\ acking' = Nobody
        /\ \/ orphans' = orphans
           \/ /\ acking # Nobody /\ acking.at = "commit"
              /\ orphans' = orphans \cup {<<acking.d[1], acking.next>>}
    BY <1>19 DEF AckCommitFails, AckDropped, AckEnds, progressVars, pollVars, consumerVars,
                 brokerVars
  <2>2. acking # Nobody /\ acking.at = "commit" => <<acking.d[1], acking.next>> \in Partitions \X (0..End)
    BY <1>0, <1>00, SMTT(30) DEF PositionsSeen, WithinLog
  <2>3. orphans' \subseteq Partitions \X (0..End)
    BY <2>1, <2>2 DEF WithinLog
  <2> QED
    BY <1>2, <2>1, <2>3 DEF WithinLog
<1>20. ASSUME AckCommitted PROVE Q
  <2> DEFINE pos == [p \in {acking.d[1]} |-> <<acking.d[2], acking.next>>]
  <2>1. /\ UNCHANGED <<fetch, committed, orphans, txn>> /\ Positions /\ acking' = Nobody
        /\ Committed(pos) /\ acking # Nobody /\ acking.at = "landed"
    BY <1>20 DEF AckCommitted, AckEnds, pollVars, consumerVars, brokerVars
  <2>2. \A p \in Partitions : p \in DOMAIN pos => pos[p][2] \in Nat /\ pos[p][2] <= End
    BY <1>0, <2>1 DEF PositionsSeen, WithinLog
  <2>3. Nexts
    <3> HIDE DEF pos
    <3> QED
      BY <1>4, <2>1, <2>2
  <2> QED
    BY <2>1, <2>3 DEF WithinLog
<1>21. ASSUME OrphanEnds PROVE Q
  <2>1. UNCHANGED <<active, fetch, acking, txn>> /\ Positions
    BY <1>21 DEF OrphanEnds, progressVars, pollVars, consumerVars
  <2>2. PICK c \in orphans : /\ orphans' = orphans \ {c}
                             /\ committed' \in {committed, [committed EXCEPT ![c[1]] = c[2]]}
    BY <1>21 DEF OrphanEnds
  <2>3. c[2] <= End /\ orphans' \subseteq Partitions \X (0..End)
    BY <1>00, <2>2, SMTT(30) DEF WithinLog
  <2>4. \A p \in Partitions : committed'[p] \in {committed[p], c[2]}
    BY <1>0, <2>2 DEF Types
  <2>5. \A p \in Partitions : committed'[p] <= End
    BY <2>3, <2>4 DEF WithinLog
  <2> QED
    BY <1>2, <2>1, <2>3, <2>5 DEF WithinLog
<1>22. ASSUME NEW B \in SUBSET held, TxBegins(B) PROVE Q
  <2>1. UNCHANGED <<fetch, committed, orphans, acking>> /\ Positions
    BY <1>22 DEF TxBegins, pollVars, ackVars, consumerVars, brokerVars
  <2>2. Nexts
    BY <1>2, <1>3, <1>22 DEF TxBegins, RevokeAll, progressVars
  <2>3. txn' # Nobody => \A p \in DOMAIN txn'.next : txn'.next[p][2] <= End
    <3>1. CASE txn' = txn
      BY <3>1 DEF WithinLog
    <3>2. CASE txn' # txn
      <4> DEFINE offs(p) == {d[3] : d \in {e \in B : e[1] = p}}
                 top == [p \in {d[1] : d \in B} |-> <<active[p].generation, Max(offs(p)) + 1>>]
      <4>1. txn' = [batch |-> B, next |-> top]
        BY <1>22, <3>2 DEF TxBegins
      <4>2. ASSUME NEW p \in DOMAIN top PROVE top[p][2] <= End
        <5>1. PICK m : m = Max(offs(p))
          OBVIOUS
        <5>2. top[p] = <<active[p].generation, m + 1>>
          BY <4>2, <5>1
        <5>3. offs(p) # {} /\ offs(p) \in SUBSET Records
          BY <1>0, <4>2, SMTT(30) DEF Types
        <5>4. m \in Records
          <6> HIDE DEF offs
          <6> QED
            BY <5>1, <5>3 DEF OffsetsOrdered
        <5>5. m + 1 <= End
          BY <1>00, <5>4
        <5>6. top[p][2] = m + 1
          <6> HIDE DEF top
          <6> QED
            BY <5>2, SMTT(30)
        <5> QED
          BY <5>5, <5>6
      <4>3. DOMAIN txn'.next = DOMAIN top /\ \A p \in DOMAIN top : txn'.next[p] = top[p]
        BY <4>1
      <4> QED
        BY <4>2, <4>3
    <3> QED
      BY <3>1, <3>2
  <2> QED
    BY <2>1, <2>2, <2>3 DEF WithinLog
<1>23. ASSUME TxCommits PROVE Q
  <2>1. /\ UNCHANGED <<fetch, orphans, acking>> /\ Positions /\ txn # Nobody /\ txn' = Nobody
        /\ committed' = Offsets(txn.next) /\ Committed(txn.next)
    BY <1>23 DEF TxCommits, pollVars, ackVars, consumerVars
  <2>2. \A p \in Partitions : p \in DOMAIN txn.next => txn.next[p][2] \in Nat /\ txn.next[p][2] <= End
    BY <1>0, <2>1 DEF TxCovers, WithinLog
  <2>3. Nexts
    BY <1>4, <2>1, <2>2
  <2>4. \A p \in Partitions : committed'[p] <= End
    BY <2>1, <2>2 DEF Offsets, WithinLog
  <2> QED
    BY <2>1, <2>3, <2>4 DEF WithinLog
<1> HIDE DEF Q
<1>24. Q
  BY <1>5, <1>6, <1>7, <1>8, <1>9, <1>10, <1>11, <1>12, <1>13, <1>14, <1>15, <1>16, <1>17, <1>18,
     <1>19, <1>20, <1>21, <1>22, <1>23, SMTT(30) DEF Next, CallbackStep, AckStep, TxStep
<1> QED
  BY <1>24 DEF Q

(* Every step keeps the settings and the flags.                              *)
LEMMA FlagsStep == ASSUME ProgressInv, FlowInv, Flags, [Next]_vars PROVE Flags'
<1> DEFINE Q == Flags'
           Flow == UNCHANGED <<paused, conPaused>>
           Places == {"poll", "send"} \cup Callback
<1>0. Types
  BY DEF ProgressInv
<1>1. ASSUME UNCHANGED <<config, paused, conPaused>>, lost' \in BOOLEAN, closed' \in BOOLEAN,
             pc' \in Places, gate' \in {Nobody, "ack", "handoff"},
             pc' = "pauseNew" => UNCHANGED <<pc, polled>>
      PROVE  Q
  BY <1>1 DEF Flags
<1>2. ASSUME UNCHANGED <<config, paused, conPaused, lost, closed, gate>>,
             pc' \in Places, pc' = "pauseNew" => UNCHANGED <<pc, polled>>
      PROVE  Q
  BY <1>2 DEF Flags
<1>3. ASSUME UNCHANGED <<config, paused, conPaused, lost, closed, pc, polled>>,
             gate' \in {gate, Nobody, "ack"}
      PROVE  Q
  BY <1>3 DEF Flags
<1>4. ASSUME NEW p \in Partitions, Poll(p) \/ OtherOwner(p) PROVE Q
  <2>1. /\ UNCHANGED <<config, paused, conPaused, lost, closed, gate>>
        /\ pc' \in Places /\ (pc' = "pauseNew" => UNCHANGED <<pc, polled>>)
    BY <1>4 DEF Poll, OtherOwner, Polling, flowVars, pollVars, ackVars, consumerVars, Flags
  <2> QED
    BY <1>2, <2>1
<1>5. ASSUME NEW p \in Partitions, Pause(p) \/ Resume(p) PROVE Q
  <2>1. /\ UNCHANGED <<config, conPaused, lost, closed, gate, pc, polled>>
        /\ paused' \in {paused \cup {p}, paused \ {p}}
    BY <1>5 DEF Pause, Resume, pollVars, ackVars, consumerVars
  <2>2. paused' \subseteq Partitions
    BY <2>1 DEF Flags
  <2> QED
    BY <2>1, <2>2 DEF Flags
<1>6. ASSUME NEW S \in SUBSET Partitions, RevokeBegins(S) PROVE Q
  <2>1. /\ UNCHANGED <<config, paused, conPaused, lost, closed, gate>> /\ pc' \in {"settle", "revoke"}
    BY <1>6 DEF RevokeBegins, flowVars, ackVars, consumerVars
  <2>2. pc' \in Places /\ pc' # "pauseNew"
    BY <2>1 DEF Callback
  <2> QED
    BY <1>2, <2>1, <2>2
<1>7. ASSUME NEW S \in SUBSET Partitions, Assign(S) PROVE Q
  <2>1. /\ UNCHANGED <<config, paused, conPaused, lost, closed, gate>> /\ pc = "poll"
        /\ UNCHANGED <<pc, polled>> \/ (pc' = "pauseNew" /\ polled' = S \cap paused)
    BY <1>7 DEF Assign, Polling, flowVars, ackVars, pollVars
  <2>2. pc' \in Places /\ (pc' = "pauseNew" => polled' \subseteq Partitions)
    BY <2>1 DEF Callback
  <2> QED
    BY <2>1, <2>2 DEF Flags
<1>8. ASSUME Send \/ Settle \/ HandoffCommit PROVE Q
  <2>1. /\ UNCHANGED <<config, paused, conPaused, lost, closed, gate>> /\ pc' \in {"poll", "gate", "revoke"}
    BY <1>8 DEF Send, Settle, HandoffCommit, flowVars, ackVars, consumerVars
  <2>2. pc' \in Places /\ pc' # "pauseNew"
    BY <2>1 DEF Callback
  <2> QED
    BY <1>2, <2>1, <2>2
<1>9. ASSUME TakeGate PROVE Q
  <2>1. /\ UNCHANGED <<config, paused, conPaused, lost, closed>> /\ gate' = "handoff"
        /\ pc' \in {"revoke", "handoffCommit"}
    BY <1>9 DEF TakeGate, flowVars, consumerVars
  <2>2. pc' \in Places /\ pc' # "pauseNew"
    BY <2>1 DEF Callback
  <2> QED
    BY <1>1, <2>1, <2>2 DEF Flags
<1>10. ASSUME RevokeEnds PROVE Q
  <2>1. /\ UNCHANGED <<config, paused, closed>> /\ gate' \in {gate, Nobody} /\ pc' = "poll"
        /\ conPaused' = conPaused \ polled.revoked /\ lost' = (lost /\ assigned' # {})
    BY <1>10 DEF RevokeEnds
  <2>2. conPaused' \subseteq Partitions /\ pc' \in Places /\ pc' # "pauseNew" /\ lost' \in BOOLEAN
    BY <2>1 DEF Flags
  <2>3. gate' \in {Nobody, "ack", "handoff"}
    BY <2>1 DEF Flags
  <2> QED
    BY <2>1, <2>2, <2>3 DEF Flags
<1>11. ASSUME PauseNew PROVE Q
  <2>1. /\ UNCHANGED <<config, paused, lost, closed, gate>> /\ pc = "pauseNew" /\ pc' = "poll"
        /\ conPaused' = conPaused \cup polled
    BY <1>11 DEF PauseNew, ackVars, consumerVars
  <2>2. conPaused' \subseteq Partitions /\ pc' \in Places /\ pc' # "pauseNew"
    BY <2>1 DEF Flags
  <2> QED
    BY <2>1, <2>2 DEF Flags
<1>12. ASSUME FlowReaches PROVE Q
  <2>1. /\ UNCHANGED <<config, paused, lost, closed, gate, pc, polled>>
        /\ conPaused' \in {conPaused \ {flow[2]}, conPaused \cup ({flow[2]} \cap assigned)}
    BY <1>12 DEF FlowReaches, pollVars, ackVars, consumerVars
  <2>2. conPaused' \subseteq Partitions
    BY <1>0, <2>1 DEF Flags, Types
  <2> QED
    BY <2>1, <2>2 DEF Flags
<1>13. ASSUME Close PROVE Q
  <2>1. UNCHANGED <<config, paused, conPaused, lost, gate, pc, polled>> /\ closed' = TRUE
    BY <1>13 DEF Close, flowVars, pollVars, ackVars, consumerVars
  <2> QED
    BY <2>1 DEF Flags
<1>14. ASSUME Lose PROVE Q
  <2>1. UNCHANGED <<config, paused, conPaused, closed, gate, pc, polled>> /\ lost' = TRUE
    BY <1>14 DEF Lose, flowVars, pollVars, ackVars
  <2> QED
    BY <2>1 DEF Flags
<1>15. ASSUME NEW d \in held, DropDelivery(d) \/ AckBegins(d) PROVE Q
  <2>1. UNCHANGED <<config, paused, conPaused, lost, closed, pc, polled>> /\ gate' \in {gate, Nobody, "ack"}
    BY <1>15 DEF DropDelivery, AckBegins, flowVars, pollVars, consumerVars, ackVars
  <2> QED
    BY <1>3, <2>1
<1>16. ASSUME Receive \/ TxCommits \/ TxFails \/ UNCHANGED vars PROVE Q
  <2>1. UNCHANGED <<config, paused, conPaused, lost, closed, pc, polled, gate>>
    BY <1>16 DEF Receive, TxCommits, TxFails, vars, flowVars, pollVars, consumerVars, ackVars
  <2> QED
    BY <1>3, <2>1
<1>17. ASSUME AckLost \/ AckCommitLands \/ AckCommitFails \/ AckCommitted \/ AckDropped \/ OrphanEnds
       PROVE  Q
  <2>1. UNCHANGED <<config, paused, conPaused, lost, closed, pc, polled>> /\ gate' \in {gate, Nobody}
    BY <1>17 DEF AckLost, AckCommitLands, AckCommitFails, AckCommitted, AckDropped, OrphanEnds,
                 AckEnds, flowVars, pollVars, consumerVars
  <2> QED
    BY <1>3, <2>1
<1>18. ASSUME NEW B \in SUBSET held, TxBegins(B) PROVE Q
  <2>1. UNCHANGED <<config, paused, conPaused, lost, closed, pc, polled, gate>>
    BY <1>18 DEF TxBegins, flowVars, pollVars, consumerVars, ackVars
  <2> QED
    BY <1>3, <2>1
<1> HIDE DEF Q
<1>19. Q
  BY <1>4, <1>5, <1>6, <1>7, <1>8, <1>9, <1>10, <1>11, <1>12, <1>13, <1>14, <1>15, <1>16, <1>17,
     <1>18, SMTT(30) DEF Next, CallbackStep, AckStep, TxStep
<1> QED
  BY <1>19 DEF Q

(* Together these are the types of the module.                               *)
LEMMA TypesFollow == ASSUME OffsetsOrdered, ProgressInv, WithinLog, Flags PROVE TypeOK
<1>0. Types /\ Generations /\ MaxAssigns \in Nat /\ End \in Nat
  BY KafkaAssumption, EndIsLast DEF ProgressInv
<1>1. \A p \in Partitions : generations[p] \in Gens
  <2> SUFFICES ASSUME NEW p \in Partitions PROVE generations[p] \in Gens
    OBVIOUS
  <2>1. generations[p] \in Nat /\ assigns \in Nat /\ assigns <= MaxAssigns
    BY <1>0 DEF Types
  <2>2. PICK x \in {0, 1, 2} : generations[p] + x <= 3 * assigns
    BY <1>0 DEF Generations
  <2> QED
    BY <1>0, <2>1, <2>2, SMTT(30) DEF Gens
<1>2. \A d \in Partitions \X Nat \X Records : d[2] <= generations[d[1]] => d \in Delivery
  <2> SUFFICES ASSUME NEW p \in Partitions, NEW g \in Nat, NEW o \in Records, g <= generations[p]
               PROVE  <<p, g, o>> \in Delivery
    BY SMTT(30)
  <2>1. g \in Gens
    BY <1>0, <1>1, SMTT(30) DEF Gens
  <2> QED
    BY <2>1 DEF Delivery
<1>3. ASSUME NEW p \in Partitions, IsActive(p) PROVE active[p] \in PartitionProgress
  <2>1. /\ active[p].next \in Nat \cup {-1} /\ active[p].handoff \in BOOLEAN
        /\ active[p] \in Tracking
        /\ active[p] = [generation |-> active[p].generation, handoff |-> active[p].handoff,
                        next |-> active[p].next, received |-> active[p].received]
    BY <1>0, <1>3, ProgressParts
  <2>2. active[p].received \in UNION {[S -> Status] : S \in SUBSET Records}
    BY <2>1 DEF Tracking
  <2>3. active[p].generation \in Gens
    BY <1>0, <1>1, <1>3 DEF Generations
  <2>4. active[p].next <= End
    BY <1>3 DEF WithinLog
  <2>5. active[p].next \in Records \cup 0..End \cup {None}
    BY <1>0, <2>1, <2>4, SMTT(30) DEF None
  <2> QED
    BY <2>1, <2>2, <2>3, <2>5 DEF PartitionProgress
<1>4. generations \in [Partitions -> Gens]
  BY <1>0, <1>1 DEF Types
<1>5. fetch \in [Partitions -> 0..End] /\ committed \in [Partitions -> 0..End]
  <2>1. \A p \in Partitions : fetch[p] \in 0..End /\ committed[p] \in 0..End
    BY <1>0, SMTT(30) DEF Types, WithinLog
  <2> QED
    BY <1>0, <2>1 DEF Types
<1>6. channel \in Delivery \cup {Nobody} /\ held \subseteq Delivery
  BY <1>0, <1>2 DEF Types, Generations
<1>7. {paused, assigned, conPaused} \subseteq SUBSET Partitions
  BY <1>0 DEF Types, Flags
<1>8. {lost, closed} \subseteq BOOLEAN
  BY DEF Flags
<1> QED
  BY <1>3, <1>4, <1>5, <1>6, <1>7, <1>8 DEF TypeOK, Flags, WithinLog

-----------------------------------------------------------------------------
(* Handoffs.                                                                 *)

(* A record of p's current assignment that is still on its way to receive.   *)
Ahead(p, o) ==
  LET d == <<p, active[p].generation, o>>
  IN channel = d \/ (pc = "send" /\ polled = d) \/ o >= fetch[p]

(* No record still on its way, and none registered and not acknowledged,     *)
(* lies before n.                                                            *)
NothingPassed(p, n) ==
  /\ \A o \in Records : Ahead(p, o) => n <= o
  /\ \A o \in DOMAIN active[p].received : active[p].received[o] # "done" => n <= o

(* Records are received in the order of their offsets: those on their way    *)
(* follow the registered ones, and one another.                              *)
AheadInOrder ==
  \A p \in Partitions : IsActive(p) =>
    LET d(o) == <<p, active[p].generation, o>> IN
    \A o \in Records :
      /\ Ahead(p, o) => active[p].next <= o /\ \A r \in DOMAIN active[p].received : r < o
      /\ \A c \in Records :
           /\ channel = d(o) /\ pc = "send" /\ polled = d(c) => o < c
           /\ channel = d(o) /\ c >= fetch[p] => o < c
           /\ pc = "send" /\ polled = d(o) /\ c >= fetch[p] => o < c

(* A transaction's offsets have passed the delivery.                         *)
IsOvertaken(d) == <<d[1], Overtaken, d[3]>> \in acked

(* A delivery in progress of a current assignment is registered and pending, *)
(* or it was overtaken.                                                      *)
HeldArePending ==
  \A d \in held : IsCurrent(d[1], d[2]) =>
    /\ d[3] \in DOMAIN active[d[1]].received \/ IsOvertaken(d)
    /\ d[3] \in DOMAIN active[d[1]].received => active[d[1]].received[d[3]] = "pending"

(* The position an acknowledgement of the current assignment commits passes  *)
(* nothing that may still be processed.                                      *)
AckBefore ==
  acking # Nobody =>
    /\ acking.d \in Partitions \X Nat \X Records /\ acking.d[2] <= generations[acking.d[1]]
    /\ acking.at \in {"commit", "landed"} /\ IsCurrent(acking.d[1], acking.d[2]) =>
         NothingPassed(acking.d[1], acking.next)

(* The offsets of a transaction pass no record that is still on its way.     *)
TxBefore ==
  txn # Nobody => \A p \in DOMAIN txn.next :
    \A o \in Records : Ahead(p, o) => txn.next[p][2] <= o

(* The progress of a transactional source is committed, never marked done.   *)
TxNotDone ==
  config.transactional => \A p \in Partitions : IsActive(p) =>
    \A o \in DOMAIN active[p].received : active[p].received[o] # "done"

(* Partitions being handed off register nothing, so that none of a settled   *)
(* handoff is held again, but for what was overtaken; and a successful       *)
(* commit of the positions read under the gate leaves nothing done that      *)
(* could have been committed.                                                *)
HandoffSettles ==
  pc \in {"settle", "gate", "handoffCommit", "revoke"} =>
    \A p \in polled.handed : IsActive(p) =>
      /\ active[p].handoff
      /\ pc # "settle" /\ polled.settled =>
           \A d \in held : d[1] = p /\ d[2] = active[p].generation => IsOvertaken(d)
      /\ pc = "handoffCommit" =>
           Behind(p, IF p \in DOMAIN polled.positions THEN polled.positions[p][2] ELSE 0)
      /\ pc = "revoke" /\ polled.ok => Behind(p, 0)

(* The positions of a handoff pass nothing that may still be processed.      *)
HandoffBefore ==
  pc = "handoffCommit" =>
    /\ polled.ok = FALSE
    /\ \A p \in DOMAIN polled.positions : IsActive(p) =>
         active[p].generation = polled.positions[p][1] /\ NothingPassed(p, polled.positions[p][2])

HandoffInv ==
  /\ AheadInOrder /\ HeldArePending /\ AckBefore /\ TxBefore /\ TxNotDone
  /\ HandoffSettles /\ HandoffBefore

(* The step registers nothing in p's progress and takes no acknowledgement   *)
(* back.                                                                     *)
Keeps(p) ==
  IsActive(p)' =>
    /\ IsActive(p) /\ active'[p].generation = active[p].generation
    /\ active[p].handoff => active'[p].handoff
    /\ DOMAIN active'[p].received \subseteq DOMAIN active[p].received
    /\ \A o \in DOMAIN active'[p].received :
         active[p].received[o] = "done" => active'[p].received[o] = "done"

(* Such a step, when it moves next over nothing on its way, keeps the order  *)
(* of the records, and what a position does not pass.                        *)
LEMMA AheadKept ==
  ASSUME Types, AheadInOrder, fetch' = fetch, channel' \in {channel, Nobody},
         pc' = "send" => pc = "send" /\ polled' = polled,
         \A p \in Partitions : Keeps(p),
         \A p \in Partitions : IsActive(p)' =>
           \/ active'[p].next = active[p].next
           \/ \A o \in Records : Ahead(p, o) => active'[p].next <= o
  PROVE  /\ AheadInOrder'
         /\ \A p \in Partitions : IsActive(p)' =>
              /\ \A o \in Records : Ahead(p, o)' => Ahead(p, o)
              /\ \A n : NothingPassed(p, n) => NothingPassed(p, n)'
<1>1. ASSUME NEW p \in Partitions, IsActive(p)'
      PROVE  /\ IsActive(p) /\ active'[p].generation = active[p].generation
             /\ \A o \in Records : channel' = <<p, active[p].generation, o>> => channel' = channel
             /\ \A o \in Records : Ahead(p, o)' => Ahead(p, o)
  <2>1. /\ IsActive(p) /\ active'[p].generation = active[p].generation
        /\ active[p].generation \in Nat
    BY <1>1, ProgressParts DEF Keeps
  <2>2. \A o \in Records : Nobody # <<p, active[p].generation, o>>
    BY <2>1, KafkaAssumption, SMTT(30)
  <2>3. \A o \in Records : channel' = <<p, active[p].generation, o>> => channel' = channel
    BY <2>2
  <2> QED
    BY <2>1, <2>3 DEF Ahead
<1>2. ASSUME NEW p \in Partitions, IsActive(p)'
      PROVE  \A n : NothingPassed(p, n) => NothingPassed(p, n)'
  BY <1>1, <1>2 DEF NothingPassed, Keeps
<1>3. ASSUME NEW p \in Partitions, IsActive(p)', NEW o \in Records
      PROVE  Ahead(p, o)' =>
               active'[p].next <= o /\ \A r \in DOMAIN active'[p].received : r < o
  BY <1>1, <1>3 DEF AheadInOrder, Keeps
<1>4. AheadInOrder'
  BY <1>1, <1>3 DEF AheadInOrder
<1> QED
  BY <1>1, <1>2, <1>4

(* A step after which every current assignment is as before, but for a       *)
(* handoff that begins.                                                      *)
Alike(p) ==
  IsActive(p)' =>
    /\ IsActive(p) /\ active'[p].generation = active[p].generation
    /\ active[p].handoff => active'[p].handoff
    /\ active'[p].next = active[p].next /\ active'[p].received = active[p].received

(* The rest of a handoff's step keeps what settled and what was committed.   *)
LEMMA SettlesKept ==
  ASSUME ProgressInv, HandoffSettles, UNCHANGED <<pc, polled>>, acked \subseteq acked',
         \A d \in held' : d \in held \/ ~active[d[1]].handoff,
         \A p \in Partitions : IsActive(p)' =>
           /\ IsActive(p) /\ active'[p].generation = active[p].generation
           /\ active[p].handoff => active'[p].handoff,
         pc = "handoffCommit" \/ (pc = "revoke" /\ polled.handed # {}) =>
           \A p \in Partitions : IsActive(p)' /\ active[p].handoff =>
             \A n : Behind(p, n) => Behind(p, n)'
  PROVE  HandoffSettles'
<1>1. pc \in {"settle", "gate", "handoffCommit", "revoke"} => polled.handed \subseteq Partitions
  BY DEF ProgressInv, Generations, Types
<1>2. ASSUME pc \in {"settle", "gate", "handoffCommit", "revoke"},
             NEW p \in polled.handed, IsActive(p)'
      PROVE  /\ active'[p].handoff
             /\ pc # "settle" /\ polled.settled =>
                  \A d \in held' : d[1] = p /\ d[2] = active'[p].generation => IsOvertaken(d)'
             /\ pc = "handoffCommit" /\ p \in DOMAIN polled.positions =>
                  Behind(p, polled.positions[p][2])'
             /\ pc = "handoffCommit" /\ p \notin DOMAIN polled.positions => Behind(p, 0)'
             /\ pc = "revoke" /\ polled.ok => Behind(p, 0)'
  <2>1. /\ p \in Partitions /\ IsActive(p) /\ active'[p].generation = active[p].generation
        /\ active[p].handoff /\ active'[p].handoff
    BY <1>1, <1>2 DEF HandoffSettles
  <2>2. pc = "handoffCommit" \/ pc = "revoke" => \A n : Behind(p, n) => Behind(p, n)'
    BY <1>2, <2>1
  <2>3. \A d : IsOvertaken(d) => IsOvertaken(d)'
    BY DEF IsOvertaken
  <2> QED
    BY <1>2, <2>1, <2>2, <2>3 DEF HandoffSettles
<1> QED
  BY <1>2 DEF HandoffSettles

(* Steps that register, mark and commit nothing.                             *)
LEMMA RestKeeps ==
  ASSUME ProgressInv, ProgressInv', HandoffInv, UNCHANGED <<config, held>>, acked \subseteq acked',
         AheadInOrder',
         \A p \in Partitions : IsActive(p)' => \A o \in Records : Ahead(p, o)' => Ahead(p, o),
         \A p \in Partitions : Alike(p) /\ generations[p] <= generations'[p],
         txn' \in {txn, Nobody} \/ TxBefore',
         acking' # Nobody =>
           /\ acking # Nobody /\ acking'.d = acking.d /\ acking'.next = acking.next
           /\ acking'.at \in {"commit", "landed"} => acking.at \in {"commit", "landed"},
         UNCHANGED <<pc, polled>> \/ (HandoffSettles' /\ HandoffBefore')
  PROVE  HandoffInv'
<1> USE DEF HandoffInv
<1>0. Types /\ Types'
  BY DEF ProgressInv
<1>1. \A p \in Partitions : IsActive(p)' => \A n : NothingPassed(p, n) => NothingPassed(p, n)'
  BY DEF NothingPassed, Alike
<1>2. HeldArePending' /\ TxNotDone'
  <2>1. \A d \in held : d[1] \in Partitions
    BY <1>0 DEF Types
  <2> QED
    BY <2>1 DEF HeldArePending, IsOvertaken, TxNotDone, IsCurrent, Alike
<1>3. AckBefore'
  <2> SUFFICES ASSUME acking' # Nobody PROVE AckBefore'
    BY DEF AckBefore
  <2>1. acking.d \in Partitions \X Nat \X Records /\ acking.d[2] <= generations[acking.d[1]]
    BY DEF AckBefore
  <2>2. /\ acking.d[1] \in Partitions /\ acking.d[2] \in Nat
        /\ generations[acking.d[1]] \in Nat /\ generations'[acking.d[1]] \in Nat
    BY <1>0, <2>1 DEF Types
  <2>3. acking.d[2] <= generations'[acking.d[1]]
    BY <2>1, <2>2, SMTT(30)
  <2> QED
    BY <1>1, <2>1, <2>2, <2>3 DEF AckBefore, IsCurrent, Alike
<1>4. TxBefore'
  <2> SUFFICES ASSUME txn' \in {txn, Nobody}, txn' # Nobody, NEW p \in DOMAIN txn'.next
               PROVE  \A o \in Records : Ahead(p, o)' => txn'.next[p][2] <= o
    BY DEF TxBefore
  <2>1. txn' = txn /\ p \in Partitions /\ IsActive(p)'
    BY DEF ProgressInv, TxCovers, TxOnlyOfAssigned, IsCurrent
  <2> QED
    BY <2>1 DEF TxBefore
<1>5. HandoffSettles' /\ HandoffBefore'
  <2> SUFFICES ASSUME UNCHANGED <<pc, polled>> PROVE HandoffSettles' /\ HandoffBefore'
    OBVIOUS
  <2>1. \A p, n : IsActive(p)' /\ Alike(p) /\ Behind(p, n) => Behind(p, n)'
    <3> SUFFICES ASSUME NEW p, NEW n, IsActive(p)', Alike(p), Behind(p, n) PROVE Behind(p, n)'
      OBVIOUS
    <3>1. active'[p].received = active[p].received
      BY DEF Alike
    <3> QED
      BY <3>1 DEF Behind
  <2>2. HandoffSettles'
    <3>1. \A p \in Partitions : IsActive(p)' =>
            /\ IsActive(p) /\ active'[p].generation = active[p].generation
            /\ active[p].handoff => active'[p].handoff
      BY DEF Alike
    <3> QED
      BY <2>1, <3>1, SettlesKept
  <2>3. pc = "handoffCommit" => DOMAIN polled.positions \subseteq Partitions
    BY DEF ProgressInv, PositionsSeen
  <2>4. HandoffBefore'
    BY <1>1, <2>3 DEF HandoffBefore, Alike
  <2> QED
    BY <2>2, <2>4
<1> QED
  BY <1>2, <1>3, <1>4, <1>5

(* The same, of steps that also poll and send nothing.                       *)
LEMMA StillKeeps ==
  ASSUME ProgressInv, ProgressInv', HandoffInv, UNCHANGED <<config, held, fetch>>,
         acked \subseteq acked',
         channel' \in {channel, Nobody}, pc' = "send" => pc = "send" /\ polled' = polled,
         \A p \in Partitions : Alike(p) /\ generations[p] <= generations'[p],
         txn' \in {txn, Nobody} \/ TxBefore',
         acking' # Nobody =>
           /\ acking # Nobody /\ acking'.d = acking.d /\ acking'.next = acking.next
           /\ acking'.at \in {"commit", "landed"} => acking.at \in {"commit", "landed"},
         UNCHANGED <<pc, polled>> \/ (HandoffSettles' /\ HandoffBefore')
  PROVE  HandoffInv'
<1>1. Types /\ AheadInOrder
  BY DEF ProgressInv, HandoffInv
<1>2. \A p \in Partitions : Keeps(p) /\ (IsActive(p)' => active'[p].next = active[p].next)
  BY DEF Alike, Keeps
<1>3. /\ AheadInOrder'
      /\ \A p \in Partitions : IsActive(p)' => \A o \in Records : Ahead(p, o)' => Ahead(p, o)
  BY <1>1, <1>2, AheadKept
<1> QED
  BY <1>3, RestKeeps

(* A delivery is dropped, or acknowledged up to its commit.                  *)
LEMMA DeliveryKeepsHandoff ==
  ASSUME OffsetsOrdered, ProgressInv, ProgressInv', GateHeld, HandoffInv, acked \subseteq acked',
         NEW d \in held, DropDelivery(d) \/ AckBegins(d)
  PROVE  HandoffInv'
<1> USE DEF HandoffInv
<1>0. Types /\ Types' /\ Contiguous'
  BY DEF ProgressInv
<1>1. /\ UNCHANGED <<config, generations, fetch, channel, pc, polled, txn>> /\ held' = held \ {d}
      /\ d[1] \in Partitions /\ d[2] \in Nat /\ d[3] \in Records /\ d = <<d[1], d[2], d[3]>>
  <2>1. UNCHANGED <<config, generations, fetch, channel, pc, polled, txn>>
    BY DEF DropDelivery, AckBegins, pollVars, consumerVars
  <2> QED
    BY <2>1, DeliveryShape
<1>2. ASSUME NEW q \in Partitions
      PROVE  /\ IsActive(q)' <=> IsActive(q)
             /\ IsActive(q) =>
                  /\ active'[q].generation = active[q].generation
                  /\ active'[q].handoff = active[q].handoff /\ active'[q].next = active[q].next
                  /\ DOMAIN active'[q].received = DOMAIN active[q].received
                  /\ \A x \in DOMAIN active[q].received :
                       \/ active'[q].received[x] = active[q].received[x]
                       \/ /\ <<q, active[q].generation, x>> = d
                          /\ active[q].received[x] = "pending"
                          /\ \/ DropDelivery(d) /\ active'[q].received[x] = "released"
                             \/ ~DropDelivery(d) /\ active'[q].received[x] = "done"
  <2>1. CASE UNCHANGED active
    BY <2>1 DEF IsActive
  <2>2. CASE ~UNCHANGED active
    <3>0. /\ IsCurrent(d[1], d[2]) /\ d[3] \in DOMAIN active[d[1]].received
          /\ \/ DropDelivery(d) /\ active' = [active EXCEPT ![d[1]].received[d[3]] = "released"]
             \/ ~DropDelivery(d) /\ active' = [active EXCEPT ![d[1]].received[d[3]] = "done"]
      BY <2>2, DeliveryShape
    <3>1. PICK t \in {"released", "done"} :
            /\ IsCurrent(d[1], d[2]) /\ d[3] \in DOMAIN active[d[1]].received
            /\ active' = [active EXCEPT ![d[1]].received[d[3]] = t]
            /\ (DropDelivery(d) /\ t = "released") \/ (~DropDelivery(d) /\ t = "done")
      BY <3>0
    <3>2. IsActive(d[1]) /\ t \in Status /\ active[d[1]].generation = d[2]
      BY <3>1 DEF IsCurrent, Status
    <3>3. active[d[1]].received[d[3]] = "pending"
      BY <3>1 DEF HeldArePending
    <3>4. /\ \A r \in Partitions : (IsActive(r)' <=> IsActive(r)) /\ (r # d[1] => active'[r] = active[r])
          /\ active'[d[1]].generation = active[d[1]].generation
          /\ active'[d[1]].handoff = active[d[1]].handoff
          /\ active'[d[1]].next = active[d[1]].next
          /\ DOMAIN active'[d[1]].received = DOMAIN active[d[1]].received
          /\ \A x \in DOMAIN active[d[1]].received :
               active'[d[1]].received[x] = IF x = d[3] THEN t ELSE active[d[1]].received[x]
      BY <1>0, <1>1, <3>1, <3>2, MarkShape
    <3>5. CASE q # d[1]
      BY <3>4, <3>5
    <3>6. CASE q = d[1]
      <4>1. <<q, active[q].generation, d[3]>> = d
        BY <1>1, <3>2, <3>6
      <4>2. ASSUME NEW x \in DOMAIN active[q].received
            PROVE  \/ active'[q].received[x] = active[q].received[x]
                   \/ /\ <<q, active[q].generation, x>> = d
                      /\ active[q].received[x] = "pending"
                      /\ \/ DropDelivery(d) /\ active'[q].received[x] = "released"
                         \/ ~DropDelivery(d) /\ active'[q].received[x] = "done"
        <5>1. CASE x = d[3]
          <6>1. active'[q].received[x] = t /\ active[q].received[x] = "pending"
            BY <3>3, <3>4, <3>6, <4>2, <5>1
          <6> QED
            BY <3>1, <4>1, <5>1, <6>1
        <5>2. CASE x # d[3]
          BY <3>4, <3>6, <4>2, <5>2
        <5> QED
          BY <5>1, <5>2
      <4> QED
        BY <3>4, <3>6, <4>2
    <3> QED
      BY <3>5, <3>6
  <2> QED
    BY <2>1, <2>2
<1>3. \A q \in Partitions : Keeps(q) /\ (IsActive(q)' => active'[q].next = active[q].next)
  <2> SUFFICES ASSUME NEW q \in Partitions, IsActive(q)'
               PROVE  Keeps(q) /\ active'[q].next = active[q].next
    BY DEF Keeps
  <2> QED
    BY <1>2 DEF Keeps
<1>4. /\ AheadInOrder'
      /\ \A p \in Partitions : IsActive(p)' =>
           /\ \A o \in Records : Ahead(p, o)' => Ahead(p, o)
           /\ \A n : NothingPassed(p, n) => NothingPassed(p, n)'
  BY <1>0, <1>1, <1>3, AheadKept
<1>5. HeldArePending'
  <2> SUFFICES ASSUME NEW e \in held, e # d, IsCurrent(e[1], e[2])'
               PROVE  /\ e[3] \in DOMAIN active'[e[1]].received \/ IsOvertaken(e)'
                      /\ e[3] \in DOMAIN active'[e[1]].received =>
                           active'[e[1]].received[e[3]] = "pending"
    BY <1>1 DEF HeldArePending
  <2>1. e[1] \in Partitions /\ e = <<e[1], e[2], e[3]>>
    BY <1>0, SMTT(30) DEF Types
  <2>2. IsActive(e[1]) /\ active[e[1]].generation = e[2] /\ IsCurrent(e[1], e[2])
    BY <1>2, <2>1 DEF IsCurrent
  <2>3. <<e[1], active[e[1]].generation, e[3]>> # d
    BY <2>1, <2>2
  <2>4. /\ e[3] \in DOMAIN active[e[1]].received \/ IsOvertaken(e)'
        /\ e[3] \in DOMAIN active[e[1]].received => active[e[1]].received[e[3]] = "pending"
    BY <2>2 DEF HeldArePending, IsOvertaken
  <2> QED
    BY <1>2, <2>1, <2>2, <2>3, <2>4
<1>6. TxNotDone'
  <2>1. ~DropDelivery(d) => ~config.transactional
    BY DEF AckBegins
  <2> QED
    BY <1>1, <1>2, <2>1, SMTT(30) DEF TxNotDone
<1>7. TxBefore'
  <2> SUFFICES ASSUME txn # Nobody, NEW p \in DOMAIN txn.next
               PROVE  \A o \in Records : Ahead(p, o)' => txn.next[p][2] <= o
    BY <1>1 DEF TxBefore
  <2>1. p \in Partitions /\ IsActive(p)'
    BY <1>1 DEF ProgressInv, TxCovers, TxOnlyOfAssigned, IsCurrent
  <2> QED
    BY <1>1, <1>4, <2>1 DEF TxBefore
<1>8. HandoffBefore'
  <2>1. pc = "handoffCommit" => DOMAIN polled.positions \subseteq Partitions
    BY DEF ProgressInv, PositionsSeen
  <2>2. \A p \in Partitions : IsActive(p)' =>
          IsActive(p) /\ active'[p].generation = active[p].generation
    BY <1>2
  <2> QED
    BY <1>1, <1>4, <2>1, <2>2 DEF HandoffBefore
<1>9. HandoffSettles'
  <2>1. ASSUME NEW p \in Partitions, IsActive(p)', DropDelivery(d), NEW n, Behind(p, n)
        PROVE  Behind(p, n)'
    <3> DEFINE r == active[p].received
               t == active'[p].received
    <3>1. /\ DOMAIN t = DOMAIN r
          /\ \A x \in DOMAIN r : t[x] = "done" <=> r[x] = "done"
      BY <1>2, <2>1
    <3> QED
      BY <2>1, <3>1 DEF Behind
  <2>2. ~DropDelivery(d) => ~(pc = "handoffCommit" \/ (pc = "revoke" /\ polled.handed # {}))
    BY KafkaAssumption DEF AckBegins, GateHeld
  <2>3. \A p \in Partitions : IsActive(p)' =>
          /\ IsActive(p) /\ active'[p].generation = active[p].generation
          /\ active[p].handoff => active'[p].handoff
    BY <1>2
  <2>4. pc = "handoffCommit" \/ (pc = "revoke" /\ polled.handed # {}) =>
          \A p \in Partitions : IsActive(p)' /\ active[p].handoff =>
            \A n : Behind(p, n) => Behind(p, n)'
    BY <2>1, <2>2
  <2>5. \A e \in held' : e \in held \/ ~active[e[1]].handoff
    BY <1>1
  <2> QED
    BY <1>1, <2>3, <2>4, <2>5, SettlesKept
<1>10. AckBefore'
  <2>1. CASE acking' = acking
    <3>1. acking # Nobody => acking.d \in Partitions \X Nat \X Records
      BY DEF AckBefore
    <3>2. acking # Nobody => acking.d[1] \in Partitions
      BY <3>1
    <3> QED
      BY <1>1, <1>2, <1>4, <2>1, <3>2 DEF AckBefore, IsCurrent
  <2>2. CASE acking' # acking
    <3>1. \/ acking' = [d |-> d, at |-> "lost", next |-> None]
          \/ /\ CommitPosition(d[1])' # None
             /\ acking' = [d |-> d, at |-> "commit", next |-> CommitPosition(d[1])']
      BY <2>2 DEF AckBegins, DropDelivery, ackVars
    <3>2. PICK n : n = CommitPosition(d[1])'
      OBVIOUS
    <3>3. d \in Partitions \X Nat \X Records /\ d[2] <= generations'[d[1]]
      BY <1>0, <1>1 DEF ProgressInv, Generations, Types
    <3>4. ASSUME n # None, IsActive(d[1])' PROVE NothingPassed(d[1], n)'
      <4>1. PositionIsFirst(d[1])'
        <5>1. OffsetsOrdered'
          BY DEF OffsetsOrdered
        <5>2. PositionsAreFirst'
          BY <1>0, <5>1, PositionsFirst, PTL
        <5> QED
          BY <1>1, <3>4, <5>2 DEF PositionsAreFirst
      <4>2. /\ n \in Nat /\ \A o \in DOMAIN active'[d[1]].received :
                 active'[d[1]].received[o] # "done" => n <= o
            /\ \E x \in DOMAIN active'[d[1]].received : n <= x + 1
        BY <3>2, <3>4, <4>1 DEF PositionIsFirst
      <4>3. PICK x \in DOMAIN active'[d[1]].received : n <= x + 1
        BY <4>2
      <4>4. x \in Records /\ x \in Nat
        BY <1>0, <1>1, <3>4, <4>3, KafkaAssumption, SMTT(30) DEF Types, Tracking, IsActive, Inactive
      <4>5. ASSUME NEW o \in Records, Ahead(d[1], o)' PROVE n <= o
        <5>1. x < o /\ o \in Nat
          BY <1>1, <1>4, <3>4, <4>3, <4>5, KafkaAssumption DEF AheadInOrder
        <5> QED
          BY <4>2, <4>3, <4>4, <5>1, SMTT(30)
      <4> QED
        BY <4>2, <4>5 DEF NothingPassed
    <3>5. CASE acking' = [d |-> d, at |-> "lost", next |-> None]
      <4>1. acking'.d = d /\ acking'.at \notin {"commit", "landed"}
        BY <3>5
      <4> QED
        BY <3>3, <4>1 DEF AckBefore
    <3>6. CASE n # None /\ acking' = [d |-> d, at |-> "commit", next |-> n]
      <4>1. acking'.d = d /\ acking'.next = n
        BY <3>6
      <4> QED
        BY <3>3, <3>4, <3>6, <4>1 DEF AckBefore, IsCurrent
    <3> QED
      BY <3>1, <3>2, <3>5, <3>6
  <2> QED
    BY <2>1, <2>2
<1> QED
  BY <1>4, <1>5, <1>6, <1>7, <1>8, <1>9, <1>10

(* The positions of current assignments pass nothing that is still on its    *)
(* way, or registered and held after the commit, unless they overtake it.    *)
Admits(pos) ==
  \A p \in Partitions : p \in DOMAIN pos =>
    /\ pos[p][2] \in Nat
    /\ IsCurrent(p, pos[p][1]) =>
         /\ \A o \in Records : Ahead(p, o) => pos[p][2] <= o
         /\ \A d \in held' : d[1] = p /\ d[2] = active[p].generation
                              /\ d[3] \in DOMAIN active[p].received =>
              pos[p][2] <= d[3] \/ IsOvertaken(d)'

(* committed, after a commit of an acknowledgement, a handoff or a           *)
(* transaction.                                                              *)
LEMMA CommittedKeepsHandoff ==
  ASSUME ProgressInv, ProgressInv', HandoffInv, NEW pos, Committed(pos), Admits(pos),
         UNCHANGED <<config, generations, fetch, channel>>, held' \subseteq held,
         acked \subseteq acked',
         pc' = "send" => pc = "send" /\ polled' = polled,
         txn' \in {txn, Nobody}, acking' \in {acking, Nobody}
  PROVE  /\ AheadInOrder' /\ HeldArePending' /\ AckBefore' /\ TxBefore' /\ TxNotDone'
         /\ UNCHANGED <<pc, polled>> => HandoffBefore'
<1> USE DEF HandoffInv
<1>0. Types /\ Types'
  BY DEF ProgressInv
<1>1. \A p \in Partitions :
        /\ IsActive(p)' <=> IsActive(p)
        /\ IsActive(p) =>
             /\ active'[p].generation = active[p].generation
             /\ active'[p].handoff = active[p].handoff
             /\ \/ active'[p] = active[p]
                \/ /\ p \in DOMAIN pos /\ IsCurrent(p, pos[p][1])
                   /\ active'[p].next = pos[p][2]
                   /\ DOMAIN active'[p].received =
                        {o \in DOMAIN active[p].received : o >= pos[p][2]}
                   /\ \A o \in DOMAIN active'[p].received :
                        active'[p].received[o] = active[p].received[o]
  BY <1>0, CommittedShape DEF Admits
<1>2. ASSUME NEW p \in Partitions, IsActive(p)'
      PROVE  /\ Keeps(p)
             /\ \/ active'[p].next = active[p].next
                \/ \A o \in Records : Ahead(p, o) => active'[p].next <= o
             /\ \A o \in DOMAIN active'[p].received :
                  o \in DOMAIN active[p].received /\ active'[p].received[o] = active[p].received[o]
  <2>1. CASE active'[p] = active[p]
    BY <1>1, <1>2, <2>1 DEF Keeps
  <2>2. CASE active'[p] # active[p]
    <3>1. /\ IsActive(p) /\ p \in DOMAIN pos /\ IsCurrent(p, pos[p][1])
          /\ active'[p].next = pos[p][2]
          /\ DOMAIN active'[p].received \subseteq DOMAIN active[p].received
          /\ \A o \in DOMAIN active'[p].received : active'[p].received[o] = active[p].received[o]
      BY <1>1, <1>2, <2>2
    <3> QED
      BY <1>1, <3>1 DEF Keeps, Admits
  <2> QED
    BY <2>1, <2>2
<1>3. /\ AheadInOrder'
      /\ \A p \in Partitions : IsActive(p)' =>
           /\ \A o \in Records : Ahead(p, o)' => Ahead(p, o)
           /\ \A n : NothingPassed(p, n) => NothingPassed(p, n)'
  <2>1. \A p \in Partitions : Keeps(p)
    BY <1>2 DEF Keeps
  <2> QED
    BY <1>0, <1>2, <2>1, AheadKept
<1>4. HeldArePending'
  <2> SUFFICES ASSUME NEW d \in held', IsCurrent(d[1], d[2])'
               PROVE  /\ d[3] \in DOMAIN active'[d[1]].received \/ IsOvertaken(d)'
                      /\ d[3] \in DOMAIN active'[d[1]].received =>
                           active'[d[1]].received[d[3]] = "pending"
    BY DEF HeldArePending
  <2>1. d \in held /\ d[1] \in Partitions /\ d[3] \in Nat
    BY <1>0, KafkaAssumption DEF Types
  <2>2. IsActive(d[1]) /\ active[d[1]].generation = d[2] /\ IsCurrent(d[1], d[2])
    BY <1>1, <2>1 DEF IsCurrent
  <2>3. /\ d[3] \in DOMAIN active[d[1]].received \/ IsOvertaken(d)'
        /\ d[3] \in DOMAIN active[d[1]].received => active[d[1]].received[d[3]] = "pending"
    BY <2>1, <2>2 DEF HeldArePending, IsOvertaken
  <2>4. CASE active'[d[1]] = active[d[1]]
    BY <2>3, <2>4
  <2>5. CASE active'[d[1]] # active[d[1]]
    <3>1. /\ d[1] \in DOMAIN pos /\ IsCurrent(d[1], pos[d[1]][1])
          /\ DOMAIN active'[d[1]].received = {o \in DOMAIN active[d[1]].received : o >= pos[d[1]][2]}
          /\ \A o \in DOMAIN active'[d[1]].received :
               active'[d[1]].received[o] = active[d[1]].received[o]
      BY <1>1, <2>1, <2>2, <2>5
    <3>2. d[3] \in DOMAIN active[d[1]].received => pos[d[1]][2] <= d[3] \/ IsOvertaken(d)'
      BY <2>1, <2>2, <3>1 DEF Admits
    <3>3. pos[d[1]][2] <= d[3] => d[3] >= pos[d[1]][2]
      OBVIOUS
    <3> QED
      BY <2>3, <3>1, <3>2, <3>3
  <2> QED
    BY <2>4, <2>5
<1>5. TxNotDone'
  BY <1>1, <1>2, SMTT(30) DEF TxNotDone
<1>6. AckBefore'
  <2>1. acking # Nobody => acking.d \in Partitions \X Nat \X Records
    BY DEF AckBefore
  <2>2. acking # Nobody => acking.d[1] \in Partitions
    BY <2>1
  <2>3. ASSUME NEW p \in Partitions, NEW g, IsCurrent(p, g)' PROVE IsCurrent(p, g) /\ IsActive(p)'
    BY <1>1, <2>3 DEF IsCurrent
  <2>4. ASSUME acking' # Nobody
        PROVE  /\ acking' = acking /\ acking.d[1] \in Partitions
               /\ acking.d \in Partitions \X Nat \X Records /\ acking.d[2] <= generations'[acking.d[1]]
               /\ acking.at \in {"commit", "landed"} /\ IsCurrent(acking.d[1], acking.d[2]) =>
                    NothingPassed(acking.d[1], acking.next)
    BY <2>2, <2>4 DEF AckBefore
  <2>5. ASSUME acking' # Nobody, acking.at \in {"commit", "landed"}, IsCurrent(acking.d[1], acking.d[2])'
        PROVE  NothingPassed(acking.d[1], acking.next)'
    BY <1>3, <2>3, <2>4, <2>5
  <2> QED
    BY <2>4, <2>5 DEF AckBefore
<1>7. TxBefore'
  <2> SUFFICES ASSUME txn' # Nobody, NEW p \in DOMAIN txn'.next
               PROVE  \A o \in Records : Ahead(p, o)' => txn'.next[p][2] <= o
    BY DEF TxBefore
  <2>1. txn' = txn /\ p \in Partitions /\ IsActive(p)'
    BY DEF ProgressInv, TxCovers, TxOnlyOfAssigned, IsCurrent
  <2> QED
    BY <1>3, <2>1 DEF TxBefore
<1>8. UNCHANGED <<pc, polled>> => HandoffBefore'
  <2>1. pc = "handoffCommit" => DOMAIN polled.positions \subseteq Partitions
    BY DEF ProgressInv, PositionsSeen
  <2> QED
    BY <1>1, <1>3, <2>1 DEF HandoffBefore
<1> QED
  BY <1>3, <1>4, <1>5, <1>6, <1>7, <1>8

(* The commit of an acknowledgement returns.                                 *)
LEMMA AckCommittedKeepsHandoff ==
  ASSUME ProgressInv, ProgressInv', GateHeld, HandoffInv, acked \subseteq acked', AckCommitted
  PROVE  HandoffInv'
<1> DEFINE pos == [p \in {acking.d[1]} |-> <<acking.d[2], acking.next>>]
<1>1. /\ UNCHANGED <<config, generations, fetch, channel, held, pc, polled, txn>>
      /\ acking' = Nobody /\ acking # Nobody /\ acking.at = "landed" /\ Committed(pos)
  BY DEF AckCommitted, AckEnds, pollVars, consumerVars
<1>2. Admits(pos)
  <2> SUFFICES ASSUME NEW p \in Partitions, p = acking.d[1]
               PROVE  /\ pos[p][2] \in Nat
                      /\ IsCurrent(p, pos[p][1]) =>
                           /\ \A o \in Records : Ahead(p, o) => pos[p][2] <= o
                           /\ \A d \in held' : d[1] = p /\ d[2] = active[p].generation
                                                /\ d[3] \in DOMAIN active[p].received =>
                                pos[p][2] <= d[3]
    BY DEF Admits
  <2>1. pos[p][1] = acking.d[2] /\ pos[p][2] = acking.next /\ acking.next \in Nat
    BY <1>1 DEF ProgressInv, PositionsSeen
  <2> HIDE DEF pos
  <2>2. IsCurrent(p, acking.d[2]) => NothingPassed(p, acking.next)
    BY <1>1 DEF HandoffInv, AckBefore
  <2>3. \A d \in held : d[1] = p /\ d[2] = active[p].generation /\ IsActive(p)
                        /\ d[3] \in DOMAIN active[p].received =>
          active[p].received[d[3]] # "done"
    BY DEF HandoffInv, HeldArePending, IsCurrent
  <2> QED
    BY <1>1, <2>1, <2>2, <2>3 DEF NothingPassed, IsCurrent
<1>3. /\ AheadInOrder' /\ HeldArePending' /\ AckBefore' /\ TxBefore' /\ TxNotDone'
      /\ HandoffBefore'
  <2> HIDE DEF pos
  <2>1. held' \subseteq held /\ txn' \in {txn, Nobody} /\ acking' \in {acking, Nobody}
    BY <1>1
  <2> QED
    BY <1>1, <1>2, <2>1, CommittedKeepsHandoff
<1>4. HandoffSettles'
  <2>1. ~(pc = "handoffCommit" \/ (pc = "revoke" /\ polled.handed # {}))
    BY <1>1 DEF GateHeld
  <2>2. \A p \in Partitions : p \in DOMAIN pos => pos[p][2] \in Nat
    BY <1>2 DEF Admits
  <2>3. \A p \in Partitions : IsActive(p)' =>
          /\ IsActive(p) /\ active'[p].generation = active[p].generation
          /\ active[p].handoff => active'[p].handoff
    <3> HIDE DEF pos
    <3> QED
      BY <1>1, <2>2, CommittedShape DEF ProgressInv
  <2>4. \A d \in held' : d \in held \/ ~active[d[1]].handoff
    BY <1>1
  <2> QED
    BY <1>1, <2>1, <2>3, <2>4, SettlesKept DEF HandoffInv
<1> QED
  BY <1>3, <1>4 DEF HandoffInv

(* The handoff's commit: what it leaves done is behind a record that is not. *)
LEMMA HandoffCommitKeepsHandoff ==
  ASSUME ProgressInv, ProgressInv', GateHeld, HandoffInv, acked \subseteq acked', HandoffCommit
  PROVE  HandoffInv'
<1> USE DEF HandoffInv
<1>0. /\ Types /\ Contiguous /\ UNCHANGED <<config, generations, fetch, channel, held, txn, acking>>
      /\ pc = "handoffCommit" /\ pc' = "revoke" /\ polled.ok = FALSE
  BY DEF HandoffCommit, ProgressInv, HandoffBefore, ackVars, consumerVars
<1>00. \A d : IsOvertaken(d) => IsOvertaken(d)'
  BY DEF IsOvertaken
<1>1. polled = [revoked |-> polled.revoked, handed |-> polled.handed, settled |-> polled.settled,
                positions |-> polled.positions, ok |-> polled.ok] /\ polled.handed \subseteq Partitions
  BY <1>0 DEF Types, ProgressInv, Generations
<1>2. CASE UNCHANGED <<committed, active, polled>>
  <2>1. \A p \in Partitions : Alike(p) /\ generations[p] <= generations'[p]
    BY <1>0, <1>2, SMTT(30) DEF Alike, Types, IsActive
  <2>2. HandoffSettles' /\ HandoffBefore'
    BY <1>0, <1>00, <1>2 DEF HandoffSettles, HandoffBefore, IsActive
  <2> QED
    BY <1>0, <2>1, <2>2, StillKeeps
<1>3. CASE Committed(polled.positions) /\ polled' = [polled EXCEPT !.ok = TRUE]
  <2> DEFINE pos == polled.positions
  <2>1. Admits(pos)
    <3> SUFFICES ASSUME NEW p \in Partitions, p \in DOMAIN pos
                 PROVE  /\ pos[p][2] \in Nat
                        /\ IsCurrent(p, pos[p][1]) =>
                             /\ \A o \in Records : Ahead(p, o) => pos[p][2] <= o
                             /\ \A d \in held' : d[1] = p /\ d[2] = active[p].generation
                                                  /\ d[3] \in DOMAIN active[p].received =>
                                  pos[p][2] <= d[3]
      BY DEF Admits
    <3>1. pos[p][2] \in Nat /\ (IsActive(p) => NothingPassed(p, pos[p][2]))
      BY <1>0 DEF ProgressInv, PositionsSeen, HandoffBefore
    <3>2. \A d \in held : d[1] = p /\ d[2] = active[p].generation /\ IsActive(p)
                          /\ d[3] \in DOMAIN active[p].received =>
            active[p].received[d[3]] # "done"
      BY DEF HeldArePending, IsCurrent
    <3> QED
      BY <1>0, <3>1, <3>2 DEF NothingPassed, IsCurrent
  <2>2. AheadInOrder' /\ HeldArePending' /\ AckBefore' /\ TxBefore' /\ TxNotDone'
    <3>1. /\ held' \subseteq held /\ txn' \in {txn, Nobody} /\ acking' \in {acking, Nobody}
          /\ pc' # "send"
      BY <1>0
    <3> QED
      BY <1>0, <1>3, <2>1, <3>1, CommittedKeepsHandoff
  <2>3. /\ polled'.handed = polled.handed /\ polled'.settled = polled.settled
    BY <1>1, <1>3
  <2>4. \A p \in Partitions : p \in DOMAIN pos => pos[p][2] \in Nat
    BY <2>1 DEF Admits
  <2>5. ASSUME NEW p \in polled.handed, IsActive(p)'
        PROVE  /\ active'[p].handoff
               /\ polled.settled =>
                    \A d \in held : d[1] = p /\ d[2] = active'[p].generation => IsOvertaken(d)'
               /\ Behind(p, 0)'
    <3> DEFINE r == active[p].received
               t == active'[p].received
               n == IF p \in DOMAIN pos THEN pos[p][2] ELSE 0
    <3>0. p \in Partitions
      BY <1>1
    <3>1. /\ IsActive(p) /\ active'[p].generation = active[p].generation
          /\ active'[p].handoff = active[p].handoff
          /\ \/ /\ active'[p] = active[p]
                /\ p \in DOMAIN pos /\ IsCurrent(p, pos[p][1]) =>
                     active[p].next = None \/ pos[p][2] <= active[p].next
             \/ /\ p \in DOMAIN pos /\ DOMAIN t = {o \in DOMAIN r : o >= pos[p][2]}
                /\ \A o \in DOMAIN t : t[o] = r[o]
      BY <1>0, <1>3, <2>4, <2>5, <3>0, CommittedShape
    <3>2. /\ active[p].handoff
          /\ polled.settled =>
               \A d \in held : d[1] = p /\ d[2] = active[p].generation => IsOvertaken(d)
          /\ Behind(p, n)
      BY <1>0, <3>1 DEF HandoffSettles
    <3>3. p \in DOMAIN pos => IsCurrent(p, pos[p][1])
      BY <1>0, <3>1 DEF HandoffBefore, IsCurrent
    <3>4. /\ DOMAIN r \subseteq Nat /\ active[p].next \in Nat \cup {-1}
          /\ (active[p].next = None => DOMAIN r = {}) /\ \A o \in DOMAIN r : o >= active[p].next
      <4>1. DOMAIN r \subseteq Records /\ active[p].next \in Nat \cup {-1}
        BY <1>0, <3>0, <3>1, ProgressParts
      <4>2. DOMAIN r \subseteq Nat
        BY <4>1, KafkaAssumption
      <4>3. (active[p].next = None => DOMAIN r = {}) /\ \A o \in DOMAIN r : o >= active[p].next
        BY <1>0, <3>0, <3>1 DEF Contiguous
      <4> QED
        BY <4>1, <4>2, <4>3
    <3>5. n \in Nat
      BY <2>4, <3>0
    <3>6. /\ DOMAIN t \subseteq DOMAIN r /\ \A o \in DOMAIN t : t[o] = r[o] /\ n <= o
          /\ \A o \in DOMAIN r : n <= o => o \in DOMAIN t
      <4>1. CASE p \in DOMAIN pos /\ DOMAIN t = {o \in DOMAIN r : o >= pos[p][2]}
                 /\ \A o \in DOMAIN t : t[o] = r[o]
        BY <3>4, <3>5, <4>1
      <4>2. CASE active'[p] = active[p] /\ p \in DOMAIN pos
        <5>1. t = r /\ n = pos[p][2] /\ (active[p].next = None \/ n <= active[p].next \/
                 DOMAIN t = {o \in DOMAIN r : o >= n})
          BY <3>1, <3>3, <4>2
        <5> HIDE DEF t, n
        <5>2. \A o \in DOMAIN r : n <= o
          BY <3>4, <3>5, <5>1, SMTT(30)
        <5> QED
          BY <5>1, <5>2
      <4>3. CASE active'[p] = active[p] /\ p \notin DOMAIN pos
        BY <3>4, <4>3, SMTT(30)
      <4> QED
        BY <3>1, <4>1, <4>2, <4>3
    <3>7. ASSUME NEW o \in DOMAIN t, t[o] = "done"
          PROVE  \E e \in DOMAIN t : 0 <= e /\ e < o /\ t[e] # "done"
      <4> HIDE DEF t, n
      <4>1. o \in DOMAIN r /\ r[o] = "done" /\ n <= o
        BY <3>6, <3>7
      <4>2. PICK e \in DOMAIN r : n <= e /\ e < o /\ r[e] # "done"
        BY <3>2, <4>1 DEF Behind
      <4>3. e \in DOMAIN t /\ t[e] # "done" /\ 0 <= e
        <5>1. e \in Nat
          BY <3>4, <4>2
        <5> QED
          BY <3>6, <4>2, <5>1, SMTT(30)
      <4> QED
        BY <4>2, <4>3
    <3>8. Behind(p, 0)'
      BY <3>7 DEF Behind
    <3> QED
      BY <1>00, <3>1, <3>2, <3>8
  <2>6. HandoffSettles' /\ HandoffBefore'
    <3>1. pc' = "revoke" /\ pc' # "handoffCommit"
      BY <1>0
    <3> QED
      BY <1>0, <2>3, <2>5, <3>1 DEF HandoffSettles, HandoffBefore
  <2> QED
    BY <2>2, <2>6
<1> QED
  BY <1>2, <1>3 DEF HandoffCommit

(* A transaction commits: what it passes is its batch, which is held no      *)
(* more, and what it overtakes.                                              *)
LEMMA TxCommitsKeepsHandoff ==
  ASSUME ProgressInv, ProgressInv', HandoffInv, acked \subseteq acked', TxCommits
  PROVE  HandoffInv'
<1> USE DEF HandoffInv
<1>0. /\ UNCHANGED <<config, generations, fetch, channel, pc, polled, acking>>
      /\ txn # Nobody /\ txn' = Nobody /\ held' = held \ txn.batch /\ Committed(txn.next)
      /\ Overtakes \subseteq acked'
  BY DEF TxCommits, pollVars, ackVars, consumerVars
<1>1. Admits(txn.next)
  <2> SUFFICES ASSUME NEW p \in Partitions, p \in DOMAIN txn.next
               PROVE  /\ txn.next[p][2] \in Nat
                      /\ IsCurrent(p, txn.next[p][1]) =>
                           /\ \A o \in Records : Ahead(p, o) => txn.next[p][2] <= o
                           /\ \A d \in held' : d[1] = p /\ d[2] = active[p].generation
                                                /\ d[3] \in DOMAIN active[p].received =>
                                txn.next[p][2] <= d[3] \/ IsOvertaken(d)'
    BY DEF Admits
  <2>1. txn.next[p][2] \in Nat
    BY <1>0 DEF ProgressInv, TxCovers
  <2>2. ASSUME IsCurrent(p, txn.next[p][1]), NEW d \in held', d[1] = p,
               d[2] = active[p].generation, d[3] \in DOMAIN active[p].received
        PROVE  txn.next[p][2] <= d[3] \/ IsOvertaken(d)'
    <3>1. /\ d \in held /\ d \notin txn.batch /\ d[3] \in Records /\ d[3] \in Nat
          /\ d = <<p, d[2], d[3]>>
      BY <1>0, <2>2, KafkaAssumption, SMTT(30) DEF ProgressInv, Types
    <3>2. d = <<p, txn.next[p][1], d[3]>>
      BY <2>2, <3>1 DEF IsCurrent
    <3>3. ASSUME d[3] < txn.next[p][2] PROVE IsOvertaken(d)'
      <4> DEFINE r == <<p, Overtaken, d[3]>>
      <4>1. r \in Partitions \X {Overtaken} \X Records /\ r[1] = p /\ r[3] = d[3]
        BY <3>1
      <4>2. r \in Overtakes
        BY <2>2, <3>1, <3>2, <3>3, <4>1 DEF Overtakes
      <4> QED
        BY <1>0, <2>2, <4>2 DEF IsOvertaken
    <3> QED
      BY <2>1, <3>1, <3>3, SMTT(30)
  <2> QED
    BY <1>0, <2>1, <2>2 DEF TxBefore
<1>2. /\ AheadInOrder' /\ HeldArePending' /\ AckBefore' /\ TxBefore' /\ TxNotDone'
      /\ HandoffBefore'
  <2>1. held' \subseteq held /\ txn' \in {txn, Nobody} /\ acking' \in {acking, Nobody}
    BY <1>0
  <2> QED
    BY <1>0, <1>1, <2>1, CommittedKeepsHandoff
<1>3. HandoffSettles'
  <2>1. config.transactional
    BY <1>0 DEF ProgressInv, TxCovers
  <2>2. \A p \in Partitions : IsActive(p)' => \A n : Behind(p, n)'
    BY <1>0, <1>2, <2>1 DEF TxNotDone, Behind
  <2>3. \A p \in Partitions : p \in DOMAIN txn.next => txn.next[p][2] \in Nat
    BY <1>1 DEF Admits
  <2>4. \A p \in Partitions : IsActive(p)' =>
          /\ IsActive(p) /\ active'[p].generation = active[p].generation
          /\ active[p].handoff => active'[p].handoff
    BY <1>0, <2>3, CommittedShape DEF ProgressInv
  <2>5. \A d \in held' : d \in held \/ ~active[d[1]].handoff
    BY <1>0
  <2> QED
    BY <1>0, <2>2, <2>4, <2>5, SettlesKept
<1> QED
  BY <1>2, <1>3

(* A transaction begins, with offsets after received records only.           *)
LEMMA TxBeginsKeepsHandoff ==
  ASSUME OffsetsOrdered, ProgressInv, ProgressInv', HandoffInv, acked \subseteq acked',
         NEW B \in SUBSET held, TxBegins(B)
  PROVE  HandoffInv'
<1> USE DEF HandoffInv
<1>0. /\ UNCHANGED <<config, fetch, channel, held, pc, polled, acking>>
      /\ Types /\ txn = Nobody
  BY DEF TxBegins, pollVars, ackVars, consumerVars, ProgressInv
<1>1. \A p \in Partitions : Alike(p) /\ generations[p] <= generations'[p]
  <2>1. CASE RevokeAll
    BY <1>0, <2>1, SMTT(30) DEF RevokeAll, Revoke, Alike, IsActive, Inactive, Types
  <2>2. CASE UNCHANGED progressVars
    BY <1>0, <2>2, SMTT(30) DEF progressVars, Alike, IsActive, Types
  <2> QED
    BY <2>1, <2>2 DEF TxBegins
<1>2. txn' = txn \/ TxBefore'
  <2> SUFFICES ASSUME txn' # txn PROVE TxBefore'
    OBVIOUS
  <2> DEFINE offs(p) == {d[3] : d \in {e \in B : e[1] = p}}
             top == [p \in {d[1] : d \in B} |-> <<active[p].generation, Max(offs(p)) + 1>>]
  <2>1. /\ txn' = [batch |-> B, next |-> top] /\ (\A d \in B : IsCurrent(d[1], d[2]))
        /\ UNCHANGED active
    BY DEF TxBegins, progressVars
  <2>2. txn'.batch = B /\ DOMAIN txn'.next = {d[1] : d \in B}
        /\ \A p \in {d[1] : d \in B} : txn'.next[p] = top[p]
    BY <2>1
  <2>3. ASSUME NEW p \in {d[1] : d \in B}
        PROVE  \A o \in Records : Ahead(p, o)' => txn'.next[p][2] <= o
    <3>1. PICK m : m = Max(offs(p))
      OBVIOUS
    <3>2. top[p] = <<active[p].generation, m + 1>>
      BY <2>3, <3>1
    <3>3. offs(p) # {} /\ offs(p) \in SUBSET Records
      BY <1>0, <2>3, SMTT(30) DEF Types
    <3>4. m \in offs(p)
      <4> HIDE DEF offs
      <4> QED
        BY <3>1, <3>3 DEF OffsetsOrdered
    <3>5. PICK e \in B : e[1] = p /\ e[3] = m
      BY <3>4
    <3>6. /\ p \in Partitions /\ m \in Records /\ m \in Nat /\ e \in held /\ IsActive(p)
          /\ e = <<p, active[p].generation, m>>
      BY <1>0, <2>1, <3>5, KafkaAssumption, SMTT(30) DEF Types, IsCurrent
    <3>7. /\ m \in DOMAIN active[p].received \/ m < active[p].next
          /\ active[p].next \in Nat \cup {-1}
      BY <1>0, <2>1, <3>5, <3>6, ProgressParts DEF ProgressInv, HeldIsKnown
    <3> HIDE DEF top, offs
    <3>8. txn'.next[p] = <<active[p].generation, m + 1>>
      BY <2>2, <2>3, <3>2
    <3>9. txn'.next[p][1] = active[p].generation /\ txn'.next[p][2] = m + 1
      BY <3>8, SMTT(30)
    <3>10. ASSUME NEW o \in Records, Ahead(p, o)' PROVE m + 1 <= o
      <4>1. Ahead(p, o)
        BY <1>0, <2>1, <3>10 DEF Ahead
      <4>2. (m < o \/ (m < active[p].next /\ active[p].next <= o)) /\ o \in Nat
        BY <3>6, <3>7, <4>1, KafkaAssumption DEF AheadInOrder
      <4> QED
        BY <3>6, <3>7, <4>2, SMTT(30)
    <3> QED
      BY <3>9, <3>10
  <2> HIDE DEF top, offs
  <2> QED
    BY <2>2, <2>3 DEF TxBefore
<1>3. channel' \in {channel, Nobody} /\ (txn' \in {txn, Nobody} \/ TxBefore')
  BY <1>0, <1>2
<1> QED
  BY <1>0, <1>1, <1>3, StillKeeps

(* The handoff reads its positions under the commit gate.                    *)
LEMMA TakeGateKeepsHandoff ==
  ASSUME OffsetsOrdered, ProgressInv, ProgressInv', HandoffInv, acked \subseteq acked', TakeGate
  PROVE  HandoffInv'
<1> USE DEF HandoffInv
<1> DEFINE ready == {p \in polled.handed : IsActive(p) /\ CommitPosition(p) # None}
           pos == [p \in ready |-> <<active[p].generation, CommitPosition(p)>>]
<1>0. /\ UNCHANGED <<config, active, generations, fetch, channel, held, acking, txn>>
      /\ Types /\ Contiguous /\ pc = "gate"
      /\ pc' = IF ready = {} THEN "revoke" ELSE "handoffCommit"
      /\ polled' = [polled EXCEPT !.positions = pos, !.ok = ready = {}]
  BY DEF TakeGate, progressVars, consumerVars, ProgressInv
<1>1. /\ polled = [revoked |-> polled.revoked, handed |-> polled.handed,
                   settled |-> polled.settled, positions |-> polled.positions, ok |-> polled.ok]
      /\ polled.handed \subseteq Partitions
  BY <1>0 DEF ProgressInv, Types, Generations
<1>2. /\ polled'.handed = polled.handed /\ polled'.settled = polled.settled
      /\ polled'.positions = pos
  <2> HIDE DEF pos
  <2> QED
    BY <1>0, <1>1
<1>3. polled'.ok = (ready = {})
  <2> HIDE DEF pos, ready
  <2> QED
    BY <1>0, <1>1
<1>4. DOMAIN pos = ready /\ \A p \in ready : pos[p][1] = active[p].generation /\ pos[p][2] = CommitPosition(p)
  OBVIOUS
<1>5. ASSUME NEW p \in polled.handed, IsActive(p)
      PROVE  /\ active[p].handoff
             /\ polled.settled =>
                  \A d \in held : d[1] = p /\ d[2] = active[p].generation => IsOvertaken(d)'
             /\ PositionIsFirst(p) /\ p \in Partitions
  <2>1. PositionsAreFirst
    BY <1>0, PositionsFirst
  <2>2. \A d : IsOvertaken(d) => IsOvertaken(d)'
    BY DEF IsOvertaken
  <2> QED
    BY <1>0, <1>1, <1>5, <2>1, <2>2 DEF HandoffSettles, PositionsAreFirst
<1>6. ASSUME NEW p \in polled.handed, IsActive(p), p \notin ready PROVE Behind(p, 0)
  BY <1>5, <1>6 DEF PositionIsFirst
<1>7. ASSUME NEW p \in ready PROVE Behind(p, pos[p][2]) /\ NothingPassed(p, pos[p][2])
  <2>0. p \in polled.handed /\ IsActive(p) /\ p \in Partitions /\ CommitPosition(p) # None
    BY <1>1, <1>7
  <2>1. PICK n : n = CommitPosition(p)
    OBVIOUS
  <2> DEFINE r == active[p].received
  <2>2. /\ n \in Nat /\ \A o \in DOMAIN r : r[o] # "done" => n <= o
        /\ \E x \in DOMAIN r : n <= x + 1
        /\ (n \in DOMAIN r /\ r[n] # "done") \/ \A o \in DOMAIN r : o < n
    BY <1>5, <2>0, <2>1 DEF PositionIsFirst
  <2>3. DOMAIN r \subseteq Records /\ \A o \in Records : o \in Nat
    BY <1>0, <2>0, ProgressParts, KafkaAssumption
  <2>4. pos[p][2] = n
    BY <1>4, <1>7, <2>1
  <2>5. ASSUME NEW o \in DOMAIN r, r[o] = "done", n <= o
        PROVE  n \in DOMAIN r /\ n <= n /\ n < o /\ r[n] # "done"
    <3>1. o \in Nat /\ ~(o < n)
      BY <2>2, <2>3, <2>5, SMTT(30)
    <3> QED
      BY <2>2, <2>5, <3>1, SMTT(30)
  <2>6. Behind(p, n)
    BY <2>5 DEF Behind
  <2>7. PICK x \in DOMAIN r : n <= x + 1
    BY <2>2
  <2>8. ASSUME NEW o \in Records, Ahead(p, o) PROVE n <= o
    <3>1. x < o /\ o \in Nat /\ x \in Nat
      BY <2>0, <2>3, <2>7, <2>8 DEF AheadInOrder
    <3> QED
      BY <2>2, <2>7, <3>1, SMTT(30)
  <2>9. NothingPassed(p, n)
    BY <2>2, <2>8 DEF NothingPassed
  <2> QED
    BY <2>4, <2>6, <2>9
<1>8. \A p, n : (Behind(p, n)' <=> Behind(p, n)) /\ (IsActive(p)' <=> IsActive(p))
  BY <1>0 DEF Behind, IsActive
<1>9. \A p, n : NothingPassed(p, n) => NothingPassed(p, n)'
  <2>1. pc # "send" /\ pc' # "send"
    BY <1>0
  <2> QED
    BY <1>0, <2>1 DEF NothingPassed, Ahead
<1> HIDE DEF pos, ready
<1>10. HandoffSettles'
  <2> SUFFICES ASSUME NEW p \in polled.handed, IsActive(p)
               PROVE  /\ active[p].handoff
                      /\ polled.settled =>
                           \A d \in held : d[1] = p /\ d[2] = active[p].generation => IsOvertaken(d)'
                      /\ p \in DOMAIN pos => Behind(p, pos[p][2])
                      /\ p \notin DOMAIN pos => Behind(p, 0)
                      /\ ready = {} => Behind(p, 0)
    BY <1>0, <1>2, <1>3, <1>8 DEF HandoffSettles
  <2> QED
    BY <1>4, <1>5, <1>6, <1>7
<1>11. HandoffBefore'
  <2>1. pc' = "handoffCommit" => polled'.ok = FALSE
    <3>1. pc' = "handoffCommit" => ready # {}
      BY <1>0
    <3> QED
      BY <1>3, <3>1
  <2>2. ASSUME NEW p \in DOMAIN polled'.positions
        PROVE  /\ active'[p].generation = polled'.positions[p][1]
               /\ NothingPassed(p, polled.positions[p][2])'
    BY <1>0, <1>2, <1>4, <1>7, <1>9, <2>2
  <2> QED
    BY <2>1, <2>2 DEF HandoffBefore
<1>12. \A p \in Partitions : Alike(p) /\ generations[p] <= generations'[p]
  BY <1>0, SMTT(30) DEF Alike, Types, IsActive
<1>13. pc' # "send" /\ channel' \in {channel, Nobody} /\ txn' \in {txn, Nobody}
  BY <1>0
<1> QED
  BY <1>0, <1>10, <1>11, <1>12, <1>13, StillKeeps

(* A poll takes the first record not fetched yet.                            *)
LEMMA PollKeepsHandoff ==
  ASSUME OffsetsOrdered, ProgressInv, ProgressInv', HandoffInv, acked \subseteq acked',
         NEW p \in Partitions, Poll(p)
  PROVE  HandoffInv'
<1> USE DEF HandoffInv
<1>0. PICK n, o : n = fetch[p] /\ o = Min({r \in Records : r >= n})
  OBVIOUS
<1>1. /\ UNCHANGED <<config, active, generations, channel, held, acking, txn>> /\ Types
      /\ pc = "poll" /\ n < End /\ fetch' = [fetch EXCEPT ![p] = o + 1]
      /\ IF IsActive(p) THEN pc' = "send" /\ polled' = <<p, active[p].generation, o>>
                        ELSE UNCHANGED <<pc, polled>>
  BY <1>0 DEF Poll, Polling, progressVars, pollVars, ackVars, ProgressInv
<1>2. n \in Nat
  BY <1>0, <1>1 DEF Types
<1>3. o \in Records /\ o \in Nat /\ o >= n
  BY <1>0, <1>1, <1>2, NextOnWay
<1>4. /\ fetch'[p] = o + 1 /\ \A q \in Partitions : q # p => fetch'[q] = fetch[q]
  BY <1>1, <1>3 DEF Types
<1>5. \A r \in Records : r \in Nat
  BY KafkaAssumption
<1>6. ASSUME NEW q \in Partitions, IsActive(q), NEW x \in Records
      PROVE  LET d == <<q, active[q].generation, x>>
             IN /\ x >= fetch'[q] => x >= fetch[q]
                /\ pc' = "send" /\ polled' = d => x >= fetch[q] /\ \A c \in Records : c >= fetch'[q] => x < c
  <2>1. CASE q = p
    <3>1. x >= fetch'[q] => x >= fetch[q]
      BY <1>0, <1>2, <1>3, <1>4, <1>5, <1>6, <2>1, SMTT(30)
    <3>2. polled' = <<q, active[q].generation, x>> => x = o
      BY <1>1, <1>6, <2>1, SMTT(30)
    <3>3. o >= fetch[q] /\ \A c \in Records : c >= fetch'[q] => o < c
      <4>1. \A c \in Records : c >= o + 1 => o < c
        BY <1>3, <1>5, SMTT(30)
      <4>2. fetch'[q] = o + 1 /\ fetch[q] = n
        BY <1>0, <1>4, <2>1
      <4> QED
        BY <1>3, <4>1, <4>2
    <3> QED
      BY <3>1, <3>2, <3>3
  <2>2. CASE q # p
    <3>1. fetch'[q] = fetch[q]
      BY <1>4, <2>2
    <3>2. ~(pc' = "send" /\ polled' = <<q, active[q].generation, x>>)
      BY <1>1, <2>2, SMTT(30)
    <3> QED
      BY <3>1, <3>2
  <2> QED
    BY <2>1, <2>2
<1>7. \A q \in Partitions : IsActive(q)' => \A x \in Records : Ahead(q, x)' => Ahead(q, x)
  BY <1>1, <1>6 DEF Ahead, IsActive
<1>8. AheadInOrder'
  <2> SUFFICES ASSUME NEW q \in Partitions, IsActive(q), NEW x \in Records
               PROVE  LET d(y) == <<q, active[q].generation, y>> IN
                      /\ Ahead(q, x)' =>
                           active[q].next <= x /\ \A r \in DOMAIN active[q].received : r < x
                      /\ \A c \in Records :
                           /\ channel = d(x) /\ pc' = "send" /\ polled' = d(c) => x < c
                           /\ channel = d(x) /\ c >= fetch'[q] => x < c
                           /\ pc' = "send" /\ polled' = d(x) /\ c >= fetch'[q] => x < c
    BY <1>1 DEF AheadInOrder, IsActive
  <2>1. Ahead(q, x)' => Ahead(q, x)
    BY <1>1, <1>7 DEF IsActive
  <2> QED
    BY <1>6, <2>1 DEF AheadInOrder
<1>9. \A q \in Partitions : Alike(q) /\ generations[q] <= generations'[q]
  BY <1>1, SMTT(30) DEF Alike, Types, IsActive
<1>10. HandoffSettles' /\ HandoffBefore'
  <2>1. pc' \notin {"settle", "gate", "handoffCommit", "revoke"}
    BY <1>1
  <2> QED
    BY <2>1 DEF HandoffSettles, HandoffBefore
<1>11. txn' \in {txn, Nobody}
  BY <1>1
<1> QED
  BY <1>1, <1>7, <1>8, <1>9, <1>10, <1>11, RestKeeps

(* The record enters the channel, where it stays before the ones to fetch.   *)
LEMMA SendKeepsHandoff ==
  ASSUME ProgressInv, ProgressInv', HandoffInv, acked \subseteq acked', Send PROVE HandoffInv'
<1> USE DEF HandoffInv
<1>1. /\ UNCHANGED <<config, active, generations, fetch, held, acking, txn, closed>> /\ Types
      /\ pc = "send" /\ pc' = "poll" /\ channel' = IF closed THEN channel ELSE polled
  BY DEF Send, progressVars, consumerVars, ackVars, ProgressInv
<1>2. \A q \in Partitions : IsActive(q) => channel' = polled
  BY <1>1 DEF ProgressInv, Generations
<1>3. pc' # "send"
  BY <1>1
<1>4. \A q \in Partitions : IsActive(q)' => \A x \in Records : Ahead(q, x)' => Ahead(q, x)
  BY <1>1, <1>2, <1>3 DEF Ahead, IsActive
<1>5. AheadInOrder'
  BY <1>1, <1>2, <1>3, <1>4 DEF AheadInOrder, IsActive
<1>6. \A q \in Partitions : Alike(q) /\ generations[q] <= generations'[q]
  BY <1>1, SMTT(30) DEF Alike, Types, IsActive
<1>7. HandoffSettles' /\ HandoffBefore'
  <2>1. pc' \notin {"settle", "gate", "handoffCommit", "revoke"}
    BY <1>1
  <2> QED
    BY <2>1 DEF HandoffSettles, HandoffBefore
<1>8. txn' \in {txn, Nobody}
  BY <1>1
<1> QED
  BY <1>1, <1>4, <1>5, <1>6, <1>7, <1>8, RestKeeps

(* receive: a record is registered after all the others, and pending.        *)
LEMMA ReceiveKeepsHandoff ==
  ASSUME ProgressInv, ProgressInv', HandoffInv, acked \subseteq acked', Receive PROVE HandoffInv'
<1> USE DEF HandoffInv
<1>1. /\ UNCHANGED <<config, generations, fetch, pc, polled, acking, txn>> /\ Types /\ Contiguous
      /\ channel # Nobody /\ channel' = Nobody
  BY DEF Receive, pollVars, consumerVars, ackVars, ProgressInv
<1>2. PICK p \in Partitions, g \in Nat, o \in Records : channel = <<p, g, o>>
  BY <1>1, SMTT(30) DEF Types
<1>3. IF Stale(p, g) THEN UNCHANGED <<active, held>>
      ELSE Register(p, o) /\ held' = held \cup {channel}
  BY <1>2 DEF Receive
<1>4. CASE Stale(p, g)
  <2>1. \A q \in Partitions : Alike(q) /\ generations[q] <= generations'[q]
    BY <1>1, <1>3, <1>4, SMTT(30) DEF Alike, Types, IsActive
  <2>2. held' = held
    BY <1>3, <1>4
  <2>3. channel' \in {channel, Nobody} /\ txn' \in {txn, Nobody}
    BY <1>1
  <2> QED
    BY <1>1, <2>1, <2>2, <2>3, StillKeeps
<1>5. CASE ~Stale(p, g)
  <2>1. /\ IsActive(p) /\ active[p].generation = g /\ ~active[p].handoff
        /\ Register(p, o) /\ held' = held \cup {channel}
    BY <1>3, <1>5 DEF Stale, IsCurrent
  <2> DEFINE r == active[p].received
             t == active'[p].received
  <2>2. Ahead(p, o)
    BY <1>2, <2>1 DEF Ahead
  <2>3. active[p].next <= o /\ \A x \in DOMAIN r : x < o
    BY <2>1, <2>2 DEF AheadInOrder
  <2>4. /\ active[p].next \in Nat \cup {-1} /\ DOMAIN r \subseteq Records
        /\ \A x \in Records : x \in Nat
    BY <1>1, <2>1, ProgressParts, KafkaAssumption
  <2>5. o \notin DOMAIN r /\ o >= active[p].next /\ o \in Nat
    BY <2>3, <2>4, SMTT(30)
  <2>6. /\ \A q \in Partitions : q # p => active'[q] = active[q]
        /\ IsActive(p)' /\ active'[p].generation = active[p].generation
        /\ active'[p].handoff = active[p].handoff
        /\ active'[p].next \in {o, active[p].next}
        /\ DOMAIN t = DOMAIN r \cup {o}
        /\ \A x \in DOMAIN t : t[x] = IF x \in DOMAIN r THEN r[x] ELSE "pending"
    BY <1>1, <2>1, <2>5, RegisterFacts
  <2>7. t[o] = "pending" /\ \A x \in DOMAIN r : x \in DOMAIN t /\ t[x] = r[x]
    BY <2>5, <2>6
  <2> HIDE DEF t
  <2>8. \A q \in Partitions : /\ IsActive(q)' <=> IsActive(q)
                              /\ IsActive(q) => active'[q].generation = active[q].generation
    BY <2>1, <2>6 DEF IsActive
  <2>9. ASSUME NEW q \in Partitions, IsActive(q), NEW x \in Records
        PROVE  channel' # <<q, active[q].generation, x>>
    <3>1. active[q].generation \in Nat
      BY <1>1, <2>9, ProgressParts
    <3> QED
      BY <1>1, <3>1, KafkaAssumption, SMTT(30)
  <2>10. ASSUME NEW q \in Partitions, IsActive(q), NEW x \in Records, Ahead(q, x)'
         PROVE  Ahead(q, x) /\ (q = p => o < x)
    <3>1. (pc = "send" /\ polled = <<q, active[q].generation, x>>) \/ x >= fetch[q]
      BY <1>1, <2>8, <2>9, <2>10 DEF Ahead
    <3>2. q = p => o < x
      BY <1>2, <2>1, <3>1 DEF AheadInOrder
    <3> QED
      BY <3>1, <3>2 DEF Ahead
  <2>11. AheadInOrder'
    <3> SUFFICES ASSUME NEW q \in Partitions, IsActive(q), NEW x \in Records
                 PROVE  LET d(y) == <<q, active[q].generation, y>> IN
                        /\ Ahead(q, x)' => /\ active'[q].next <= x
                                           /\ \A y \in DOMAIN active'[q].received : y < x
                        /\ \A c \in Records :
                             pc = "send" /\ polled = d(x) /\ c >= fetch[q] => x < c
      BY <1>1, <2>8, <2>9 DEF AheadInOrder
    <3>1. \A c \in Records :
            pc = "send" /\ polled = <<q, active[q].generation, x>> /\ c >= fetch[q] => x < c
      BY DEF AheadInOrder
    <3>2. CASE q # p
      BY <2>6, <2>10, <3>1, <3>2 DEF AheadInOrder
    <3>3. ASSUME q = p, Ahead(q, x)'
          PROVE  active'[p].next <= x /\ \A y \in DOMAIN t : y < x
      <4>1. o < x /\ active[p].next <= x /\ \A y \in DOMAIN r : y < x
        BY <2>1, <2>10, <3>3 DEF AheadInOrder
      <4>2. o <= x
        <5>1. x \in Nat /\ o \in Nat
          BY <2>4, <2>5
        <5> QED
          BY <4>1, <5>1, SMTT(30)
      <4> QED
        BY <2>6, <4>1, <4>2
    <3> QED
      BY <3>1, <3>2, <3>3 DEF t
  <2>12. ASSUME NEW q \in Partitions, IsActive(q), NEW n, NothingPassed(q, n) PROVE NothingPassed(q, n)'
    <3>1. CASE q # p
      BY <2>6, <2>10, <2>12, <3>1 DEF NothingPassed
    <3>2. CASE q = p
      <4>1. n <= o
        BY <2>2, <2>12, <3>2 DEF NothingPassed
      <4>2. \A y \in DOMAIN t : t[y] # "done" => n <= y
        BY <2>6, <2>7, <2>12, <3>2, <4>1 DEF NothingPassed
      <4> QED
        BY <2>10, <2>12, <3>2, <4>2 DEF NothingPassed, t
    <3> QED
      BY <3>1, <3>2
  <2>13. HeldArePending'
    <3> SUFFICES ASSUME NEW d \in held', IsCurrent(d[1], d[2])'
                 PROVE  /\ d[3] \in DOMAIN active'[d[1]].received \/ IsOvertaken(d)'
                        /\ d[3] \in DOMAIN active'[d[1]].received =>
                             active'[d[1]].received[d[3]] = "pending"
      BY DEF HeldArePending
    <3>1. CASE d = channel
      <4>1. d[1] = p /\ d[3] = o
        BY <1>2, <3>1
      <4> QED
        BY <2>6, <2>7, <4>1 DEF t
    <3>2. CASE d \in held
      <4>1. d[1] \in Partitions
        BY <1>1, <3>2 DEF Types
      <4>2. IsCurrent(d[1], d[2])
        BY <2>8, <4>1 DEF IsCurrent
      <4>3. /\ d[3] \in DOMAIN active[d[1]].received \/ IsOvertaken(d)'
            /\ d[3] \in DOMAIN active[d[1]].received => active[d[1]].received[d[3]] = "pending"
        BY <3>2, <4>2 DEF HeldArePending, IsOvertaken
      <4>4. CASE d[1] # p
        BY <2>6, <4>1, <4>3, <4>4
      <4>5. CASE d[1] = p
        BY <2>6, <2>7, <4>3, <4>5 DEF t
      <4> QED
        BY <4>4, <4>5
    <3> QED
      BY <2>1, <3>1, <3>2
  <2>14. TxNotDone'
    <3> SUFFICES ASSUME config.transactional, NEW q \in Partitions, IsActive(q),
                        NEW x \in DOMAIN active'[q].received
                 PROVE  active'[q].received[x] # "done"
      BY <1>1, <2>8 DEF TxNotDone
    <3>1. CASE q # p
      BY <2>6, <3>1 DEF TxNotDone
    <3>2. CASE q = p
      BY <2>1, <2>6, <3>2, SMTT(30) DEF TxNotDone, t
    <3> QED
      BY <3>1, <3>2
  <2>15. AckBefore'
    <3>1. acking # Nobody => acking.d \in Partitions \X Nat \X Records
      BY DEF AckBefore
    <3>2. acking # Nobody => acking.d[1] \in Partitions
      BY <3>1
    <3>3. ASSUME acking # Nobody, acking.at \in {"commit", "landed"},
                 IsCurrent(acking.d[1], acking.d[2])'
          PROVE  NothingPassed(acking.d[1], acking.next)'
      <4>1. IsActive(acking.d[1]) /\ IsCurrent(acking.d[1], acking.d[2])
        BY <1>1, <2>8, <3>2, <3>3 DEF IsCurrent
      <4> QED
        BY <1>1, <2>12, <3>2, <3>3, <4>1 DEF AckBefore
    <3> QED
      BY <1>1, <3>3 DEF AckBefore
  <2>16. TxBefore'
    <3> SUFFICES ASSUME txn # Nobody, NEW q \in DOMAIN txn.next
                 PROVE  \A x \in Records : Ahead(q, x)' => txn.next[q][2] <= x
      BY <1>1 DEF TxBefore
    <3>1. q \in Partitions /\ IsActive(q)
      BY DEF ProgressInv, TxCovers, TxOnlyOfAssigned, IsCurrent
    <3> QED
      BY <2>10, <3>1 DEF TxBefore
  <2>17. HandoffBefore'
    <3>1. pc = "handoffCommit" => DOMAIN polled.positions \subseteq Partitions
      BY DEF ProgressInv, PositionsSeen
    <3> QED
      BY <1>1, <2>8, <2>12, <3>1 DEF HandoffBefore
  <2>18. HandoffSettles'
    <3>1. \A d \in held' : d \in held \/ ~active[d[1]].handoff
      <4>1. channel[1] = p
        BY <1>2
      <4> QED
        BY <2>1, <4>1
    <3>2. \A q \in Partitions : IsActive(q)' =>
            /\ IsActive(q) /\ active'[q].generation = active[q].generation
            /\ active[q].handoff => active'[q].handoff
      BY <2>6, <2>8
    <3>3. \A q \in Partitions : IsActive(q)' /\ active[q].handoff =>
            \A n : Behind(q, n) => Behind(q, n)'
      <4> SUFFICES ASSUME NEW q \in Partitions, active[q].handoff, NEW n, Behind(q, n)
                   PROVE  Behind(q, n)'
        OBVIOUS
      <4>1. active'[q].received = active[q].received
        BY <2>1, <2>6
      <4> QED
        BY <4>1 DEF Behind
    <3> QED
      BY <1>1, <3>1, <3>2, <3>3, SettlesKept
  <2> QED
    BY <2>11, <2>13, <2>14, <2>15, <2>16, <2>17, <2>18
<1> QED
  BY <1>4, <1>5

(* An assignment starts with empty progress, which nothing that is under way *)
(* belongs to.                                                               *)
LEMMA AssignKeepsHandoff ==
  ASSUME ProgressInv, ProgressInv', HandoffInv, acked \subseteq acked',
         NEW S \in SUBSET Partitions, Assign(S)
  PROVE  HandoffInv'
<1> USE DEF HandoffInv
<1>1. /\ UNCHANGED <<config, channel, held, acking, txn>> /\ Types /\ Generations
      /\ pc' \in {"poll", "pauseNew"} /\ S \cap assigned = {} /\ Activate(S)
      /\ fetch' = [p \in Partitions |-> IF p \in S THEN committed[p] ELSE fetch[p]]
  BY DEF Assign, Polling, pollVars, ackVars, ProgressInv
<1>2. \A p \in S : ~IsActive(p)
  BY <1>1 DEF Generations
<1>3. \A p \in S :
        /\ IsActive(p)' => active'[p].generation = generations[p] + 1
        /\ active'[p].next = -1 /\ DOMAIN active'[p].received = {}
        /\ generations'[p] = generations[p] + 1
  BY <1>1, <1>2 DEF Activate, None
<1>4. \A p \in Partitions \ S : /\ active'[p] = active[p] /\ fetch'[p] = fetch[p]
                                /\ generations'[p] = generations[p]
  BY <1>1 DEF Activate
<1>5. \A p \in Partitions : generations[p] \in Nat
  BY <1>1 DEF Types
<1>6. \A p \in S, n \in Nat : IsActive(p)' /\ active'[p].generation = n => ~(n <= generations[p])
  BY <1>3, <1>5, SMTT(30)
<1>7. \A o \in Records : o \in Nat
  BY KafkaAssumption
<1>8. ASSUME NEW p \in S, IsActive(p)', NEW o \in Records PROVE channel # <<p, active'[p].generation, o>>
  <2> SUFFICES ASSUME channel = <<p, active'[p].generation, o>> PROVE FALSE
    OBVIOUS
  <2>1. active'[p].generation \in Nat
    BY <1>3, <1>5, <1>8, SMTT(30)
  <2>2. channel[1] = p /\ channel[2] = active'[p].generation /\ channel # Nobody
    BY <2>1, KafkaAssumption, SMTT(30)
  <2>3. active'[p].generation <= generations[p]
    BY <1>1, <2>2 DEF Generations
  <2> QED
    BY <1>6, <1>8, <2>1, <2>3
<1>9. pc' # "send"
  BY <1>1
<1>10. \A p \in Partitions \ S : IsActive(p)' =>
         /\ IsActive(p) /\ \A o \in Records : Ahead(p, o)' => Ahead(p, o)
         /\ \A n : NothingPassed(p, n) => NothingPassed(p, n)'
  <2>1. ASSUME NEW p \in Partitions \ S, IsActive(p)'
        PROVE  IsActive(p) /\ \A o \in Records : Ahead(p, o)' => Ahead(p, o)
    BY <1>1, <1>4, <1>9, <2>1 DEF Ahead, IsActive
  <2> QED
    BY <1>4, <2>1 DEF NothingPassed
<1>11. AheadInOrder'
  <2>1. ASSUME NEW p \in S, IsActive(p)', NEW o \in Records
        PROVE  LET d(y) == <<p, active'[p].generation, y>> IN
               /\ active'[p].next <= o /\ \A r \in DOMAIN active'[p].received : r < o
               /\ \A c \in Records :
                    /\ channel' = d(o) /\ pc' = "send" /\ polled' = d(c) => o < c
                    /\ channel' = d(o) /\ c >= fetch'[p] => o < c
                    /\ pc' = "send" /\ polled' = d(o) /\ c >= fetch'[p] => o < c
    <3>1. active'[p].next <= o /\ \A r \in DOMAIN active'[p].received : r < o
      BY <1>3, <1>7, SMTT(30)
    <3> QED
      BY <1>1, <1>8, <1>9, <2>1, <3>1
  <2>2. ASSUME NEW p \in Partitions \ S, IsActive(p)', NEW o \in Records
        PROVE  LET d(y) == <<p, active'[p].generation, y>> IN
               /\ Ahead(p, o)' =>
                    active'[p].next <= o /\ \A r \in DOMAIN active'[p].received : r < o
               /\ \A c \in Records :
                    /\ channel' = d(o) /\ pc' = "send" /\ polled' = d(c) => o < c
                    /\ channel' = d(o) /\ c >= fetch'[p] => o < c
                    /\ pc' = "send" /\ polled' = d(o) /\ c >= fetch'[p] => o < c
    <3>1. IsActive(p) /\ (Ahead(p, o)' => Ahead(p, o))
      BY <1>10, <2>2
    <3> QED
      BY <1>1, <1>4, <1>9, <3>1 DEF AheadInOrder
  <2> QED
    BY <2>1, <2>2 DEF AheadInOrder
<1>12. ASSUME NEW p \in Partitions, NEW n \in Nat, n <= generations[p], IsCurrent(p, n)'
       PROVE  p \notin S /\ IsCurrent(p, n)
  <2>1. p \notin S
    BY <1>6, <1>12 DEF IsCurrent
  <2> QED
    BY <1>4, <1>12, <2>1 DEF IsCurrent, IsActive
<1>13. HeldArePending'
  <2> SUFFICES ASSUME NEW d \in held, IsCurrent(d[1], d[2])'
               PROVE  /\ d[3] \in DOMAIN active'[d[1]].received \/ IsOvertaken(d)'
                      /\ d[3] \in DOMAIN active'[d[1]].received =>
                           active'[d[1]].received[d[3]] = "pending"
    BY <1>1 DEF HeldArePending
  <2>1. d[1] \in Partitions /\ d[2] \in Nat
    BY <1>1 DEF Types
  <2>2. d[2] <= generations[d[1]]
    BY <1>1 DEF Generations
  <2>3. d[1] \notin S /\ IsCurrent(d[1], d[2])
    BY <1>12, <2>1, <2>2
  <2> QED
    BY <1>4, <2>1, <2>3 DEF HeldArePending, IsOvertaken
<1>14. AckBefore'
  <2> SUFFICES ASSUME acking # Nobody
               PROVE  /\ acking.d \in Partitions \X Nat \X Records
                      /\ acking.d[2] <= generations'[acking.d[1]]
                      /\ acking.at \in {"commit", "landed"} /\ IsCurrent(acking.d[1], acking.d[2])' =>
                           NothingPassed(acking.d[1], acking.next)'
    BY <1>1 DEF AckBefore
  <2>1. acking.d \in Partitions \X Nat \X Records /\ acking.d[2] <= generations[acking.d[1]]
    BY DEF AckBefore
  <2>2. acking.d[1] \in Partitions /\ acking.d[2] \in Nat
    BY <2>1
  <2>3. acking.d[2] <= generations'[acking.d[1]]
    BY <1>3, <1>4, <1>5, <2>1, <2>2, SMTT(30)
  <2>4. ASSUME acking.at \in {"commit", "landed"}, IsCurrent(acking.d[1], acking.d[2])'
        PROVE  NothingPassed(acking.d[1], acking.next)'
    <3>1. acking.d[1] \notin S /\ IsCurrent(acking.d[1], acking.d[2])
      BY <1>1, <1>12, <2>1, <2>2, <2>4
    <3>2. NothingPassed(acking.d[1], acking.next)
      BY <2>4, <3>1 DEF AckBefore
    <3> QED
      BY <1>1, <1>10, <2>2, <2>4, <3>1, <3>2 DEF IsCurrent
  <2> QED
    BY <2>1, <2>3, <2>4
<1>15. TxBefore'
  <2> SUFFICES ASSUME txn # Nobody, NEW p \in DOMAIN txn.next
               PROVE  \A o \in Records : Ahead(p, o)' => txn.next[p][2] <= o
    BY <1>1 DEF TxBefore
  <2>1. p \in Partitions /\ IsActive(p)
    BY DEF ProgressInv, TxCovers, TxOnlyOfAssigned, IsCurrent
  <2>2. p \notin S /\ IsActive(p)'
    BY <1>2, <1>4, <2>1 DEF IsActive
  <2> QED
    BY <1>10, <2>1, <2>2 DEF TxBefore
<1>16. TxNotDone'
  <2> SUFFICES ASSUME config.transactional, NEW p \in Partitions, IsActive(p)',
                      NEW o \in DOMAIN active'[p].received
               PROVE  active'[p].received[o] # "done"
    BY <1>1 DEF TxNotDone
  <2>1. p \notin S
    BY <1>3
  <2> QED
    BY <1>4, <1>10, <2>1 DEF TxNotDone
<1>17. HandoffSettles' /\ HandoffBefore'
  <2>1. pc' \notin {"settle", "gate", "handoffCommit", "revoke"}
    BY <1>1
  <2> QED
    BY <2>1 DEF HandoffSettles, HandoffBefore
<1> QED
  BY <1>11, <1>13, <1>14, <1>15, <1>16, <1>17

(* begin_handoff marks the partitions that are handed off.                   *)
LEMMA RevokeBeginsKeepsHandoff ==
  ASSUME ProgressInv, ProgressInv', HandoffInv, acked \subseteq acked',
         NEW S \in SUBSET Partitions, RevokeBegins(S)
  PROVE  HandoffInv'
<1> DEFINE handed == {p \in S : IsActive(p)}
<1>1. /\ UNCHANGED <<config, generations, fetch, channel, held, acking, txn>> /\ Types
      /\ pc' \in {"settle", "revoke"}
  BY DEF RevokeBegins, ackVars, consumerVars, ProgressInv
<1>2. \/ /\ active' = [p \in Partitions |-> IF p \in handed
                         THEN [active[p] EXCEPT !.handoff = TRUE] ELSE active[p]]
         /\ pc' = "settle" /\ polled'.handed = handed
      \/ UNCHANGED active /\ pc' = "revoke" /\ polled'.handed = {}
  BY SMTT(30) DEF RevokeBegins
<1>3. ASSUME NEW p \in Partitions
      PROVE  Alike(p) /\ (IsActive(p)' /\ p \in handed /\ pc' = "settle" => active'[p].handoff)
  <2>1. CASE active'[p] = active[p] /\ ~(p \in handed /\ pc' = "settle")
    BY <2>1 DEF Alike, IsActive
  <2>2. CASE p \in handed /\ active'[p] = [active[p] EXCEPT !.handoff = TRUE]
    <3>1. IsActive(p)
      BY <2>2
    <3>2. active[p] = [generation |-> active[p].generation, handoff |-> active[p].handoff,
                       next |-> active[p].next, received |-> active[p].received]
      BY <1>1, <3>1, ProgressParts
    <3>3. active'[p] = [generation |-> active[p].generation, handoff |-> TRUE,
                        next |-> active[p].next, received |-> active[p].received]
      BY <2>2, <3>2
    <3>4. /\ active'[p].generation = active[p].generation /\ active'[p].handoff = TRUE
          /\ active'[p].next = active[p].next /\ active'[p].received = active[p].received
      BY <3>3, SMTT(30)
    <3> QED
      BY <3>1, <3>4 DEF Alike
  <2>3. \/ active'[p] = active[p] /\ ~(p \in handed /\ pc' = "settle")
        \/ p \in handed /\ active'[p] = [active[p] EXCEPT !.handoff = TRUE]
    <3>1. CASE UNCHANGED active /\ pc' = "revoke"
      BY <3>1
    <3>2. CASE active' = [q \in Partitions |-> IF q \in handed
                            THEN [active[q] EXCEPT !.handoff = TRUE] ELSE active[q]]
      <4> HIDE DEF handed
      <4> QED
        BY <3>2
    <3> QED
      BY <1>2, <3>1, <3>2
  <2> QED
    BY <2>1, <2>2, <2>3
<1>4. HandoffSettles'
  <2>1. CASE pc' = "settle"
    <3>1. polled'.handed = handed /\ handed \subseteq Partitions
      BY <1>2, <2>1
    <3>2. pc' # "handoffCommit" /\ pc' # "revoke"
      BY <2>1
    <3> HIDE DEF handed
    <3> QED
      BY <1>3, <2>1, <3>1, <3>2 DEF HandoffSettles
  <2>2. CASE pc' = "revoke"
    <3>1. polled'.handed = {}
      BY <1>2, <2>2
    <3> QED
      BY <3>1 DEF HandoffSettles
  <2> QED
    BY <1>1, <2>1, <2>2
<1>5. HandoffBefore'
  BY <1>1 DEF HandoffBefore
<1>6. \A p \in Partitions : Alike(p) /\ generations[p] <= generations'[p]
  BY <1>1, <1>3, SMTT(30) DEF Types
<1>7. pc' # "send" /\ channel' \in {channel, Nobody} /\ txn' \in {txn, Nobody}
  BY <1>1
<1> QED
  BY <1>1, <1>4, <1>5, <1>6, <1>7, StillKeeps

(* wait_settled: of a partition with nothing pending only overtaken          *)
(* deliveries are held.                                                      *)
LEMMA SettleKeepsHandoff ==
  ASSUME ProgressInv, ProgressInv', HandoffInv, acked \subseteq acked', Settle PROVE HandoffInv'
<1>1. /\ UNCHANGED <<config, generations, active, fetch, channel, held, acking, txn>> /\ Types
      /\ pc = "settle" /\ pc' = "gate" /\ polled' = [polled EXCEPT !.settled = IsSettled]
  BY DEF Settle, progressVars, ackVars, consumerVars, ProgressInv
<1>2. polled = [revoked |-> polled.revoked, handed |-> polled.handed, settled |-> polled.settled,
                positions |-> polled.positions, ok |-> polled.ok]
  BY <1>1 DEF Types
<1>3. polled' = [revoked |-> polled.revoked, handed |-> polled.handed, settled |-> IsSettled,
                 positions |-> polled.positions, ok |-> polled.ok]
  BY <1>1, <1>2
<1>4. polled'.handed = polled.handed
  BY <1>3
<1>5. polled'.settled = IsSettled
  <2> HIDE DEF IsSettled
  <2> QED
    BY <1>3
<1>6. HandoffSettles'
  <2> SUFFICES ASSUME NEW p \in polled.handed, IsActive(p)
               PROVE  /\ active[p].handoff
                      /\ IsSettled => \A d \in held :
                           d[1] = p /\ d[2] = active[p].generation => IsOvertaken(d)'
    <3>1. pc' # "handoffCommit" /\ pc' # "revoke"
      BY <1>1
    <3> QED
      BY <1>1, <1>4, <1>5, <3>1 DEF HandoffSettles, IsActive
  <2>1. active[p].handoff
    BY <1>1 DEF HandoffInv, HandoffSettles
  <2>2. ASSUME IsSettled, NEW d \in held, d[1] = p, d[2] = active[p].generation
        PROVE  IsOvertaken(d)'
    BY <2>2 DEF HandoffInv, HeldArePending, IsCurrent, IsSettled, IsOvertaken
  <2> QED
    BY <2>1, <2>2
<1>7. HandoffBefore'
  BY <1>1 DEF HandoffBefore
<1>8. \A p \in Partitions : Alike(p) /\ generations[p] <= generations'[p]
  BY <1>1, SMTT(30) DEF Types, Alike, IsActive
<1>9. pc' # "send" /\ channel' \in {channel, Nobody} /\ txn' \in {txn, Nobody}
  BY <1>1
<1> QED
  BY <1>1, <1>6, <1>7, <1>8, <1>9, StillKeeps

(* What was processed or overtaken stays so.                                 *)
LEMMA AckedGrows == ASSUME [Next]_vars PROVE acked \subseteq acked'
<1> DEFINE Q == acked \subseteq acked'
<1>1. ASSUME NEW p \in Partitions, Poll(p) \/ Pause(p) \/ Resume(p) \/ OtherOwner(p) PROVE Q
  BY <1>1 DEF Poll, Pause, Resume, OtherOwner, brokerVars
<1>2. ASSUME NEW S \in SUBSET Partitions, RevokeBegins(S) \/ Assign(S) PROVE Q
  BY <1>2 DEF RevokeBegins, Assign, brokerVars
<1>3. ASSUME Settle \/ TakeGate \/ HandoffCommit \/ RevokeEnds \/ PauseNew \/ Send \/ Receive PROVE Q
  BY <1>3 DEF Settle, TakeGate, HandoffCommit, RevokeEnds, PauseNew, Send, Receive, brokerVars
<1>4. ASSUME AckLost \/ AckCommitLands \/ AckCommitFails \/ AckCommitted \/ AckDropped \/ OrphanEnds PROVE Q
  BY <1>4 DEF AckLost, AckCommitLands, AckCommitFails, AckCommitted, AckDropped, OrphanEnds, brokerVars
<1>5. ASSUME Close \/ FlowReaches \/ Lose \/ TxFails \/ TxCommits \/ UNCHANGED vars PROVE Q
  BY <1>5 DEF Close, FlowReaches, Lose, TxFails, TxCommits, vars, brokerVars
<1>6. ASSUME NEW d \in held, DropDelivery(d) \/ AckBegins(d) PROVE Q
  BY <1>6 DEF DropDelivery, AckBegins, brokerVars
<1>7. ASSUME NEW B \in SUBSET held, TxBegins(B) PROVE Q
  BY <1>7 DEF TxBegins, brokerVars
<1> HIDE DEF Q
<1> QED
  BY <1>1, <1>2, <1>3, <1>4, <1>5, <1>6, <1>7 DEF Next, CallbackStep, AckStep, TxStep, Q

(* Every step keeps it.                                                      *)
LEMMA HandoffStep ==
  ASSUME OffsetsOrdered, ProgressInv, ProgressInv', GateHeld, HandoffInv, [Next]_vars
  PROVE  HandoffInv'
<1> DEFINE Q == HandoffInv'
           Same == UNCHANGED <<config, held, fetch, pc, polled>>
           Acking == acking' # Nobody =>
             /\ acking # Nobody /\ acking'.d = acking.d /\ acking'.next = acking.next
             /\ acking'.at \in {"commit", "landed"} => acking.at \in {"commit", "landed"}
           Activity == \A p \in Partitions : Alike(p) /\ generations[p] <= generations'[p]
<1>0. Types
  BY DEF ProgressInv
<1>00. acked \subseteq acked'
  BY AckedGrows
<1>1. ASSUME UNCHANGED <<active, generations>> PROVE Activity
  BY <1>0, <1>1, SMTT(30) DEF Types, Alike, IsActive
<1>2. ASSUME NEW S, Revoke(S) PROVE Activity
  <2> SUFFICES ASSUME NEW p \in Partitions PROVE Alike(p) /\ generations[p] <= generations'[p]
    OBVIOUS
  <2>1. Alike(p)
    BY <1>2 DEF Revoke, Alike, IsActive, Inactive
  <2>2. generations'[p] = IF p \in S THEN generations[p] + 1 ELSE generations[p]
    BY <1>2 DEF Revoke
  <2>3. generations[p] \in Nat
    BY <1>0 DEF Types
  <2> QED
    BY <2>1, <2>2, <2>3, SMTT(30)
<1> HIDE DEF Activity
<1>3. ASSUME Same, channel' \in {channel, Nobody}, txn' \in {txn, Nobody}, Acking, Activity PROVE Q
  BY <1>00, <1>3, StillKeeps DEF Activity
<1>4. ASSUME NEW p \in Partitions, Pause(p) \/ Resume(p) \/ OtherOwner(p) PROVE Q
  <2>1. UNCHANGED <<active, generations, channel, txn, acking>> /\ Same
    BY <1>4 DEF Pause, Resume, OtherOwner, progressVars, pollVars, ackVars, consumerVars
  <2> QED
    BY <1>1, <1>3, <2>1
<1>5. ASSUME RevokeEnds PROVE Q
  <2>1. /\ UNCHANGED <<config, held, fetch, acking, txn, channel>> /\ pc' = "poll"
        /\ Revoke(polled.revoked)
    BY <1>5 DEF RevokeEnds
  <2>2. HandoffSettles' /\ HandoffBefore' /\ pc' # "send"
    BY <2>1 DEF HandoffSettles, HandoffBefore
  <2>3. Activity
    BY <1>2, <2>1
  <2>4. Acking /\ channel' \in {channel, Nobody} /\ txn' \in {txn, Nobody}
    BY <2>1
  <2> QED
    BY <1>00, <2>1, <2>2, <2>3, <2>4, StillKeeps DEF Activity
<1>6. ASSUME PauseNew PROVE Q
  <2>1. /\ UNCHANGED <<config, active, generations, held, fetch, acking, txn, channel>> /\ pc' = "poll"
    BY <1>6 DEF PauseNew, progressVars, ackVars, consumerVars
  <2>2. HandoffSettles' /\ HandoffBefore' /\ pc' # "send"
    BY <2>1 DEF HandoffSettles, HandoffBefore
  <2>3. Activity
    BY <1>1, <2>1
  <2>4. Acking /\ channel' \in {channel, Nobody} /\ txn' \in {txn, Nobody}
    BY <2>1
  <2> QED
    BY <1>00, <2>1, <2>2, <2>3, <2>4, StillKeeps DEF Activity
<1>7. ASSUME Close PROVE Q
  <2>1. UNCHANGED <<txn, acking>> /\ Same /\ channel' = Nobody /\ RevokeAll
    BY <1>7 DEF Close, pollVars, ackVars, consumerVars
  <2>2. Activity
    BY <1>2, <2>1 DEF RevokeAll
  <2> QED
    BY <1>3, <2>1, <2>2
<1>8. ASSUME FlowReaches \/ Lose \/ TxFails \/ OrphanEnds \/ UNCHANGED vars PROVE Q
  <2>1. UNCHANGED <<active, generations, channel, acking>> /\ Same /\ txn' \in {txn, Nobody}
    BY <1>8 DEF FlowReaches, Lose, TxFails, OrphanEnds, vars, progressVars, pollVars, ackVars,
                consumerVars
  <2> QED
    BY <1>1, <1>3, <2>1
<1>9. ASSUME AckLost PROVE Q
  <2>1. UNCHANGED <<txn, channel>> /\ Same /\ acking' = Nobody /\ RevokeAll
    BY <1>9 DEF AckLost, AckEnds, pollVars, consumerVars
  <2>2. Activity
    BY <1>2, <2>1 DEF RevokeAll
  <2> QED
    BY <1>3, <2>1, <2>2
<1>10. ASSUME AckCommitFails \/ AckDropped PROVE Q
  <2>1. UNCHANGED <<active, generations, txn, channel>> /\ Same /\ acking' = Nobody
    BY <1>10 DEF AckCommitFails, AckDropped, AckEnds, progressVars, pollVars, consumerVars
  <2> QED
    BY <1>1, <1>3, <2>1
<1>11. ASSUME AckCommitLands PROVE Q
  <2>1. /\ UNCHANGED <<active, generations, txn, channel>> /\ Same
        /\ acking # Nobody /\ acking.at = "commit" /\ acking' = [acking EXCEPT !.at = "landed"]
    BY <1>11 DEF AckCommitLands, progressVars, pollVars, consumerVars
  <2>2. acking = [d |-> acking.d, at |-> acking.at, next |-> acking.next]
    BY <1>0, <2>1 DEF Types
  <2>3. acking' = [d |-> acking.d, at |-> "landed", next |-> acking.next]
    BY <2>1, <2>2
  <2>4. acking'.d = acking.d /\ acking'.next = acking.next
    BY <2>3
  <2>5. Acking
    BY <2>1, <2>4
  <2> QED
    BY <1>1, <1>3, <2>1, <2>5
<1>12. ASSUME NEW p \in Partitions, Poll(p) PROVE Q
  BY <1>00, <1>12, PollKeepsHandoff
<1>13. ASSUME NEW S \in SUBSET Partitions, RevokeBegins(S) \/ Assign(S) PROVE Q
  BY <1>00, <1>13, RevokeBeginsKeepsHandoff, AssignKeepsHandoff
<1>14. ASSUME Send \/ Settle \/ TakeGate \/ HandoffCommit \/ Receive PROVE Q
  BY <1>00, <1>14, SendKeepsHandoff, SettleKeepsHandoff, TakeGateKeepsHandoff, HandoffCommitKeepsHandoff,
     ReceiveKeepsHandoff
<1>15. ASSUME NEW d \in held, DropDelivery(d) \/ AckBegins(d) PROVE Q
  BY <1>00, <1>15, DeliveryKeepsHandoff
<1>16. ASSUME AckCommitted \/ TxCommits PROVE Q
  BY <1>00, <1>16, AckCommittedKeepsHandoff, TxCommitsKeepsHandoff
<1>17. ASSUME NEW B \in SUBSET held, TxBegins(B) PROVE Q
  BY <1>00, <1>17, TxBeginsKeepsHandoff
<1> HIDE DEF Q
<1>18. Q
  BY <1>4, <1>5, <1>6, <1>7, <1>8, <1>9, <1>10, <1>11, <1>12, <1>13, <1>14, <1>15, <1>16, <1>17 DEF Next, CallbackStep, AckStep, TxStep
<1> QED
  BY <1>18 DEF Q

=============================================================================
