-------------------------- MODULE ProcessingProofs --------------------------
(***************************************************************************)
(* Proofs about the jobs of a subscription and the state they share (module  *)
(* Processing): what an acknowledgement and a stored change stand for, for   *)
(* any number of deliveries, outputs, attempts, redeliveries and             *)
(* revocations and every interleaving of the jobs.                           *)
(***************************************************************************)
EXTENDS Processing, TLAPS

(* Steps are first-order unless they cite the SMT solver; each prover has    *)
(* thirty seconds for a step.                                                *)
USE ZenonT(30)

-----------------------------------------------------------------------------
(* The inductive invariant.                                                  *)

Change == [of : Deliveries, run : Nat, token : Tokens]

Jobs ==
  [pc : Stages, run : Nat, token : Tokens, attempts : 0..HandlerAttempts,
   tries : 0..(PublishAttempts - 1), outputs : OutputCounts \cup {0}, sent : Nat,
   open : SUBSET Nat, broken : SUBSET Nat, kind : FailureKinds \cup {"none"},
   change : Changes \cup {"none"}, seen : Seq(Change), dead : BOOLEAN, detached : BOOLEAN]

Types ==
  /\ setting \in Settings
  /\ job \in [Deliveries -> Jobs]
  /\ entry \in [value : Seq(Change), position : Deliveries \cup {Nobody}, owners : SUBSET Tokens]
  /\ holder \in Deliveries \cup {Nobody}
  /\ generation \in [Partitions -> 0..MaxRevokes]

(* Stages before the handler returned, those in which a job may hold the     *)
(* entry, and those in which nothing is left to publish.                     *)
Early == Ended \cup {"pre", "handle", "entry", "handler"}
Holding == {"handler", "post", "prepare", "submit", "drain", "await", "commit"}
Settled == Ended \cup {"ack"}

(* No failure, and all outputs have reached the sink's boundary.             *)
Clean(j) == j.kind = "none" /\ j.sent = j.outputs /\ j.open = {}

(* What a job has published and routed at each of its stages.                *)
JobInv(j, s) ==
  /\ j.sent <= j.outputs /\ j.open \subseteq 1..j.sent /\ j.broken \subseteq j.open
  /\ j.pc \in Early => j.change = "none" /\ j.outputs = 0 /\ Clean(j)
  /\ j.pc \in {"pre", "handle"} => j.attempts < HandlerAttempts
  /\ j.pc \in {"post", "prepare"} => j.sent = 0 /\ j.open = {}
  /\ j.pc \in {"post", "prepare", "submit", "drain", "await", "commit"} => j.kind = "none"
  /\ j.pc \in {"await", "commit"} => j.sent = j.outputs
  /\ j.pc \in {"commit", "route", "dead letter", "ack"} => j.open = {}
  /\ j.pc \in {"route", "dead letter"} => j.kind # "none"
  /\ j.pc \in {"route", "dead letter", "ack"} => j.change = "none"
  /\ j.kind \in FailureKinds \ {"PublishRejected"} => j.sent = 0
  /\ j.pc = "ack" =>
       \/ Clean(j) \/ j.dead \/ (j.kind # "none" /\ s.policy[j.kind] = "Discard")
  /\ ~s.stateful => j.change = "none" /\ j.pc # "entry"

(* The job that holds the entry works on it, and it is not covered by it.    *)
Held ==
  holder # Nobody => job[holder].pc \in Holding /\ ~Covered(holder, entry)

(* Every change in the value was made by an earlier run of its delivery, or  *)
(* by the current one after its outputs.                                     *)
Built ==
  \A i \in 1..Len(entry.value) :
    LET c == entry.value[i]
    IN /\ c.run <= job[c.of].run
       /\ c.run = job[c.of].run => job[c.of].pc \in Settled /\ Clean(job[c.of])

JobsInv ==
  /\ Types
  /\ \A d \in Deliveries : JobInv(job[d], setting)
  /\ Held /\ SeesLastCommit /\ Built

-----------------------------------------------------------------------------
(* A step of one job that leaves the entry alone.                            *)

(* The job keeps what it holds of the entry, or gives it back.               *)
Keeps(d, j) ==
  /\ holder' = holder
  /\ job[d].pc \in Holding => j.pc \in Holding
  /\ setting.stateful /\ (j.pc = "handler" \/ j.change # "none") =>
       j.seen = job[d].seen /\ (job[d].pc = "handler" \/ job[d].change # "none")

GivesBack(d, j) == Drops(d) /\ j.pc # "handler" /\ j.change = "none"

Moves(d) ==
  /\ \E j \in Jobs :
       /\ job' = [job EXCEPT ![d] = j]
       /\ JobInv(j, setting)
       /\ j.run = job[d].run /\ j.token = job[d].token
       /\ job[d].pc \in Settled => j.pc \in Settled /\ (Clean(job[d]) => Clean(j))
       /\ Keeps(d, j) \/ GivesBack(d, j)
  /\ UNCHANGED <<setting, entry, generation>>

(* What a new job starts from.                                               *)
LEMMA Blank ==
  0 \in 0..HandlerAttempts /\ 0 \in 0..(PublishAttempts - 1) /\ <<>> \in Seq(Change)
BY ProcessingAssumption, SMTT(30)

(* A handler returns a number of outputs.                                    *)
LEMMA CountsAreNumbers == \A n \in OutputCounts \cup {0} : n \in Nat
<1>1. OutputCounts \subseteq Nat
  BY ProcessingAssumption
<1> QED
  BY <1>1, SMTT(30)

(* A job that ended is a job like a new one, with its outcome.               *)
LEMMA OverIsJob ==
  ASSUME JobsInv, NEW d \in Deliveries, NEW pc \in Ended
  PROVE  /\ Over(d, pc) \in Jobs /\ JobInv(Over(d, pc), setting) /\ Clean(Over(d, pc))
         /\ Over(d, pc).run = job[d].run /\ Over(d, pc).token = job[d].token
         /\ Over(d, pc).pc = pc /\ Over(d, pc).change = "none"
<1>1. job[d] \in Jobs
  BY DEF JobsInv, Types
<1>2. job[d].run \in Nat /\ job[d].token \in Tokens
  BY <1>1 DEF Jobs
<1>3. 0 \in 0..HandlerAttempts /\ 0 \in 0..(PublishAttempts - 1) /\ <<>> \in Seq(Change)
  BY Blank
<1>4. PICK run \in Nat, token \in Tokens : run = job[d].run /\ token = job[d].token
  BY <1>2
<1>5. PICK n : n = NewJob(run, token)
  OBVIOUS
<1>6. n \in Jobs
  BY <1>3, <1>5 DEF NewJob, Jobs, Stages, Ended
<1>7. /\ n.run = run /\ n.token = token /\ n.outputs = 0 /\ n.sent = 0 /\ n.open = {}
      /\ n.broken = {} /\ n.kind = "none" /\ n.change = "none"
  BY <1>5 DEF NewJob
<1>8. PICK o : o = [n EXCEPT !.pc = pc]
  OBVIOUS
<1>9. Over(d, pc) = o
  BY <1>4, <1>5, <1>8 DEF Over
<1>10. o \in Jobs
  BY <1>6, <1>8 DEF Jobs, Stages
<1>11. /\ o.run = run /\ o.token = token /\ o.outputs = 0 /\ o.sent = 0 /\ o.open = {}
       /\ o.broken = {} /\ o.kind = "none" /\ o.change = "none" /\ o.pc = pc
  BY <1>6, <1>7, <1>8 DEF Jobs
<1>12. Clean(o)
  BY <1>11 DEF Clean
<1>13. JobInv(o, setting)
  <2>1. o.pc \in {"idle", "acked", "failed", "abandoned"}
    BY <1>11 DEF Ended
  <2>2. o.sent <= o.outputs /\ o.open \subseteq 1..o.sent /\ o.broken \subseteq o.open
    BY <1>11, SMTT(30)
  <2>3. o.kind \notin FailureKinds
    BY <1>11 DEF FailureKinds
  <2> QED
    BY <1>11, <1>12, <2>1, <2>2, <2>3 DEF JobInv
<1> QED
  BY <1>4, <1>9, <1>10, <1>11, <1>12, <1>13

(* A job that ends gives the entry back, whatever it was doing.              *)
LEMMA EndMoves ==
  ASSUME JobsInv, NEW d \in Deliveries, NEW pc \in Ended,
         job' = [job EXCEPT ![d] = Over(d, pc)], Drops(d),
         UNCHANGED <<setting, entry, generation>>
  PROVE  Moves(d)
<1>1. pc # "handler" /\ pc \in Settled
  BY DEF Ended, Settled
<1>2. PICK j \in Jobs : /\ j = Over(d, pc) /\ JobInv(j, setting) /\ Clean(j)
                         /\ j.run = job[d].run /\ j.token = job[d].token
                         /\ j.pc = pc /\ j.change = "none"
  BY OverIsJob
<1>3. GivesBack(d, j)
  BY <1>1, <1>2 DEF GivesBack
<1> QED
  BY <1>1, <1>2, <1>3 DEF Moves

LEMMA FailsMoves ==
  ASSUME JobsInv, NEW d \in Deliveries, Fails(d), UNCHANGED <<setting, entry, generation>>
  PROVE  Moves(d)
<1>1. "abandoned" \in Ended /\ "failed" \in Ended
  BY DEF Ended
<1> QED
  BY <1>1, EndMoves DEF Fails

(* Only a job without open outputs is routed; one that was not refused by    *)
(* the sink has published nothing.                                           *)
LEMMA RoutesMoves ==
  ASSUME JobsInv, NEW d \in Deliveries, NEW kind \in FailureKinds, Routes(d, kind),
         UNCHANGED <<setting, entry, generation>>,
         job[d].open = {}, kind = "PublishRejected" \/ job[d].sent = 0,
         job[d].pc \notin Settled
  PROVE  Moves(d)
<1>1. job[d] \in Jobs /\ JobInv(job[d], setting)
  BY DEF JobsInv, Types
<1> DEFINE j == [job[d] EXCEPT !.change = "none", !.seen = <<>>, !.pc = "route",
                               !.kind = kind, !.attempts = 0, !.tries = 0]
<1>2. job' = [job EXCEPT ![d] = j]
  BY DEF Routes, Forgetting
<1>3. 0 \in 0..HandlerAttempts /\ 0 \in 0..(PublishAttempts - 1) /\ <<>> \in Seq(Change)
  BY Blank
<1>4. j \in Jobs
  BY <1>1, <1>3 DEF Jobs, Stages
<1>5. j.pc = "route" /\ j.kind = kind /\ j.change = "none" /\ j.open = {} /\ j.sent = job[d].sent
      /\ j.outputs = job[d].outputs /\ j.broken = job[d].broken
      /\ j.run = job[d].run /\ j.token = job[d].token
  BY <1>1 DEF Jobs
<1> HIDE DEF j
<1>6. JobInv(j, setting)
  BY <1>1, <1>5 DEF JobInv, Early, Ended, FailureKinds
<1> QED
  BY <1>2, <1>4, <1>5, <1>6 DEF Moves, GivesBack, Routes

(* A job that only goes to another stage.                                    *)
LEMMA GotoMoves ==
  ASSUME JobsInv, NEW d \in Deliveries, NEW pc \in Stages, Goto(d, pc),
         UNCHANGED <<setting, entry, generation, holder>>,
         JobInv([job[d] EXCEPT !.pc = pc], setting),
         pc # "handler", job[d].pc \in Holding => pc \in Holding, job[d].pc \notin Settled
  PROVE  Moves(d)
<1>1. job[d] \in Jobs
  BY DEF JobsInv, Types
<1>2. PICK j : j = [job[d] EXCEPT !.pc = pc]
  OBVIOUS
<1>3. j \in Jobs /\ j.pc = pc /\ j.change = job[d].change /\ j.seen = job[d].seen
      /\ j.run = job[d].run /\ j.token = job[d].token
  BY <1>1, <1>2 DEF Jobs
<1>4. job' = [job EXCEPT ![d] = j]
  BY <1>2 DEF Goto
<1> QED
  BY <1>2, <1>3, <1>4 DEF Moves, Keeps

(* The stages a job goes through, each step of its task.                     *)

LEMMA PreHandlerMoves ==
  ASSUME JobsInv, NEW d \in Deliveries, PreHandler(d) PROVE Moves(d)
<1>1. job[d] \in Jobs /\ JobInv(job[d], setting) /\ job[d].pc = "pre"
  BY DEF JobsInv, Types, PreHandler, At
<1>2. job[d].pc \notin Settled /\ job[d].pc \notin Holding /\ job[d].pc \in Early
  BY <1>1 DEF Settled, Holding, Early, Ended
<1>3. UNCHANGED <<setting, entry, generation>> /\ job[d].open = {} /\ job[d].sent = 0
  BY <1>1, <1>2 DEF PreHandler, JobInv, Clean
<1>4. CASE Goto(d, "handle") /\ UNCHANGED holder
  <2>1. JobInv([job[d] EXCEPT !.pc = "handle"], setting)
    BY <1>1, <1>2 DEF JobInv, Jobs, Clean, Early, Ended
  <2> QED
    BY <1>2, <1>3, <1>4, <2>1, GotoMoves DEF Stages
<1>5. CASE \E n \in OutputCounts :
             job' = [job EXCEPT ![d].pc = "post", ![d].outputs = n] /\ UNCHANGED holder
  <2>1. PICK n \in OutputCounts : job' = [job EXCEPT ![d].pc = "post", ![d].outputs = n]
    BY <1>5
  <2>2. PICK j : j = [job[d] EXCEPT !.pc = "post", !.outputs = n]
    OBVIOUS
  <2>3. job' = [job EXCEPT ![d] = j]
    BY <1>1, <2>1, <2>2 DEF JobsInv, Types
  <2>4. j \in Jobs /\ j = [job[d] EXCEPT !.pc = "post", !.outputs = n]
    BY <1>1, <2>2 DEF Jobs, Stages
  <2>5. /\ j.pc = "post" /\ j.outputs = n /\ j.sent = job[d].sent /\ j.open = job[d].open
        /\ j.broken = job[d].broken /\ j.kind = job[d].kind /\ j.change = job[d].change
        /\ j.run = job[d].run /\ j.token = job[d].token /\ j.seen = job[d].seen
    BY <1>1, <2>2 DEF Jobs
  <2>6. JobInv(j, setting)
    BY <1>1, <1>2, <1>3, <2>5, ProcessingAssumption, SMTT(30) DEF JobInv, Clean, Early, Ended
  <2>7. job[d].change = "none"
    BY <1>1, <1>2 DEF JobInv
  <2>8. Keeps(d, j)
    BY <1>2, <1>5, <2>5, <2>7 DEF Keeps
  <2> QED
    BY <1>2, <1>3, <2>3, <2>4, <2>5, <2>6, <2>8 DEF Moves
<1>6. CASE Routes(d, "Rejected")
  BY <1>2, <1>3, <1>6, RoutesMoves DEF FailureKinds
<1>7. CASE Fails(d)
  BY <1>3, <1>7, FailsMoves
<1> QED
  BY <1>4, <1>5, <1>6, <1>7 DEF PreHandler

LEMMA AttemptMoves ==
  ASSUME JobsInv, NEW d \in Deliveries, Attempt(d) PROVE Moves(d)
<1>1. job[d] \in Jobs /\ JobInv(job[d], setting) /\ job[d].pc = "handle"
  BY DEF JobsInv, Types, Attempt, At
<1>2. job[d].pc \notin Settled /\ job[d].pc \notin Holding /\ job[d].pc \in Early
  BY <1>1 DEF Settled, Holding, Early, Ended
<1>3. UNCHANGED <<setting, entry, generation>> /\ job[d].open = {} /\ job[d].sent = 0
  BY <1>1, <1>2 DEF Attempt, JobInv, Clean
<1>4. CASE setting.stateful /\ Routes(d, "Rejected")
  BY <1>2, <1>3, <1>4, RoutesMoves DEF FailureKinds
<1>5. CASE /\ job' = [job EXCEPT ![d].attempts = @ + 1,
                                 ![d].pc = IF setting.stateful THEN "entry" ELSE "handler"]
           /\ UNCHANGED holder
  <2>1. PICK pc : pc = IF setting.stateful THEN "entry" ELSE "handler"
    OBVIOUS
  <2>2. PICK j : j = [job[d] EXCEPT !.attempts = @ + 1, !.pc = pc]
    OBVIOUS
  <2>3. job' = [job EXCEPT ![d] = j]
    BY <1>1, <1>5, <2>1, <2>2 DEF JobsInv, Types
  <2>4. job[d].attempts \in Nat /\ job[d].attempts + 1 \in 0..HandlerAttempts
    BY <1>1, ProcessingAssumption, SMTT(30) DEF JobInv, Jobs
  <2>5. j \in Jobs
    <3>1. pc \in Stages
      BY <2>1 DEF Stages
    <3>2. PICK a \in 0..HandlerAttempts : a = job[d].attempts + 1
      BY <2>4
    <3>3. j = [job[d] EXCEPT !.attempts = a, !.pc = pc]
      BY <2>2, <3>2
    <3> QED
      BY <1>1, <3>1, <3>3 DEF Jobs
  <2>6. /\ j.pc = pc /\ j.outputs = job[d].outputs /\ j.sent = job[d].sent
        /\ j.open = job[d].open /\ j.broken = job[d].broken /\ j.kind = job[d].kind
        /\ j.change = job[d].change /\ j.run = job[d].run /\ j.token = job[d].token
    BY <1>1, <2>2 DEF Jobs
  <2>7. JobInv(j, setting)
    BY <1>1, <1>2, <1>3, <2>1, <2>6 DEF JobInv, Clean, Early, Ended
  <2>8. j.change = "none"
    BY <1>1, <1>2, <2>6 DEF JobInv
  <2>9. Keeps(d, j)
    BY <1>2, <1>5, <2>1, <2>6, <2>8 DEF Keeps
  <2> QED
    BY <1>2, <1>3, <2>3, <2>5, <2>6, <2>7, <2>9 DEF Moves
<1> QED
  BY <1>4, <1>5 DEF Attempt

LEMMA HandlerMoves ==
  ASSUME JobsInv, NEW d \in Deliveries, Handler(d) PROVE Moves(d)
<1>1. job[d] \in Jobs /\ JobInv(job[d], setting) /\ job[d].pc = "handler"
  BY DEF JobsInv, Types, Handler, At
<1>2. job[d].pc \notin Settled /\ job[d].pc \in Holding /\ job[d].pc \in Early
  BY <1>1 DEF Settled, Holding, Early, Ended
<1>3. UNCHANGED <<setting, entry, generation>> /\ job[d].open = {} /\ job[d].sent = 0
  BY <1>1, <1>2 DEF Handler, JobInv, Clean
<1>4. CASE Routes(d, "Rejected")
  BY <1>2, <1>3, <1>4, RoutesMoves DEF FailureKinds
<1>5. CASE Fails(d)
  BY <1>3, <1>5, FailsMoves
<1>6. CASE Retries(d)
  <2>1. CASE job[d].attempts >= HandlerAttempts
    BY <1>2, <1>3, <1>6, <2>1, RoutesMoves DEF FailureKinds, Retries
  <2>2. CASE ~(job[d].attempts >= HandlerAttempts)
    <3>1. job' = [job EXCEPT ![d] = [Forgetting(@) EXCEPT !.pc = "handle"]] /\ Drops(d)
      BY <1>6, <2>2 DEF Retries
    <3>2. PICK j : j = [job[d] EXCEPT !.change = "none", !.seen = <<>>, !.pc = "handle"]
      OBVIOUS
    <3>3. job' = [job EXCEPT ![d] = j]
      BY <3>1, <3>2 DEF Forgetting
    <3>4. j \in Jobs
      BY <1>1, <3>2, Blank DEF Jobs, Stages
    <3>5. /\ j.pc = "handle" /\ j.outputs = job[d].outputs /\ j.sent = job[d].sent
          /\ j.open = job[d].open /\ j.broken = job[d].broken /\ j.kind = job[d].kind
          /\ j.change = "none" /\ j.run = job[d].run /\ j.token = job[d].token
          /\ j.attempts = job[d].attempts
      BY <1>1, <3>2 DEF Jobs
    <3>6. job[d].attempts < HandlerAttempts
      BY <1>1, <2>2, ProcessingAssumption, SMTT(30) DEF Jobs
    <3>7. JobInv(j, setting)
      BY <1>1, <1>2, <1>3, <3>5, <3>6 DEF JobInv, Clean, Early, Ended
    <3> QED
      BY <1>2, <1>3, <3>1, <3>3, <3>4, <3>5, <3>7 DEF Moves, GivesBack
  <2> QED
    BY <2>1, <2>2
<1>7. ASSUME NEW n \in OutputCounts, NEW c \in Changes \cup {"none"},
             job' = [job EXCEPT ![d].pc = "post", ![d].attempts = 0, ![d].outputs = n,
                                ![d].change = c],
             c # "none" => setting.stateful, UNCHANGED holder
      PROVE  Moves(d)
  <2>1. PICK j : j = [job[d] EXCEPT !.pc = "post", !.attempts = 0, !.outputs = n, !.change = c]
    OBVIOUS
  <2>2. job' = [job EXCEPT ![d] = j]
    BY <1>1, <1>7, <2>1 DEF JobsInv, Types
  <2>3. j \in Jobs
    BY <1>1, <2>1, Blank DEF Jobs, Stages
  <2>4. /\ j.pc = "post" /\ j.outputs = n /\ j.sent = job[d].sent
        /\ j.open = job[d].open /\ j.broken = job[d].broken /\ j.kind = job[d].kind
        /\ j.change = c /\ j.run = job[d].run /\ j.token = job[d].token /\ j.seen = job[d].seen
    BY <1>1, <2>1 DEF Jobs
  <2>5. JobInv(j, setting)
    BY <1>1, <1>2, <1>3, <1>7, <2>4, ProcessingAssumption, SMTT(30) DEF JobInv, Clean, Early, Ended
  <2>6. Keeps(d, j)
    BY <1>1, <1>7, <2>4 DEF Keeps, Holding
  <2> QED
    BY <1>2, <1>3, <2>2, <2>3, <2>4, <2>5, <2>6 DEF Moves
<1>8. CASE \E n \in OutputCounts : \E c \in Changes :
             /\ setting.stateful /\ UNCHANGED holder
             /\ job' = [job EXCEPT ![d].pc = "post", ![d].attempts = 0,
                                   ![d].outputs = n, ![d].change = c]
  BY <1>7, <1>8
<1>9. CASE \E n \in OutputCounts :
             /\ ~setting.stateful /\ UNCHANGED holder
             /\ job' = [job EXCEPT ![d].pc = "post", ![d].attempts = 0, ![d].outputs = n]
  <2>1. PICK n \in OutputCounts :
          job' = [job EXCEPT ![d].pc = "post", ![d].attempts = 0, ![d].outputs = n]
    BY <1>9
  <2>2. job[d].change = "none"
    BY <1>1, <1>2 DEF JobInv
  <2>3. PICK j : j = [job[d] EXCEPT !.pc = "post", !.attempts = 0, !.outputs = n]
    OBVIOUS
  <2>4. job' = [job EXCEPT ![d] = j]
    BY <1>1, <2>1, <2>3 DEF JobsInv, Types
  <2>5. j \in Jobs
    BY <1>1, <2>3, Blank DEF Jobs, Stages
  <2>6. /\ j.pc = "post" /\ j.outputs = n /\ j.sent = job[d].sent
        /\ j.open = job[d].open /\ j.broken = job[d].broken /\ j.kind = job[d].kind
        /\ j.change = "none" /\ j.run = job[d].run /\ j.token = job[d].token
    BY <1>1, <2>2, <2>3 DEF Jobs
  <2>7. JobInv(j, setting)
    BY <1>1, <1>2, <1>3, <2>6, ProcessingAssumption, SMTT(30) DEF JobInv, Clean, Early, Ended
  <2>8. Keeps(d, j)
    BY <1>9, <2>6 DEF Keeps, Holding
  <2> QED
    BY <1>2, <1>3, <2>4, <2>5, <2>6, <2>7, <2>8 DEF Moves
<1> QED
  BY <1>4, <1>5, <1>6, <1>8, <1>9 DEF Handler

LEMMA FinishMoves ==
  ASSUME JobsInv, NEW d \in Deliveries, Finish(d) \/ Prepare(d) PROVE Moves(d)
<1>1. job[d] \in Jobs /\ JobInv(job[d], setting) /\ job[d].pc \in {"post", "prepare"}
  BY DEF JobsInv, Types, Finish, Prepare, At
<1>2. job[d].pc \notin Settled /\ job[d].pc \in Holding
  BY <1>1 DEF Settled, Holding, Ended
<1>3. /\ UNCHANGED <<setting, entry, generation>>
      /\ job[d].open = {} /\ job[d].sent = 0 /\ job[d].kind = "none"
  BY <1>1 DEF Finish, Prepare, JobInv
<1>4. ASSUME NEW pc \in {"prepare", "submit"}, Goto(d, pc), UNCHANGED holder
      PROVE  Moves(d)
  <2>1. PICK j : j = [job[d] EXCEPT !.pc = pc]
    OBVIOUS
  <2>2. /\ j.pc = pc /\ j.outputs = job[d].outputs /\ j.sent = job[d].sent
        /\ j.open = job[d].open /\ j.broken = job[d].broken /\ j.kind = job[d].kind
        /\ j.change = job[d].change
    BY <1>1, <2>1 DEF Jobs
  <2>3. JobInv(j, setting)
    BY <1>1, <1>3, <2>2 DEF JobInv, Early, Ended, FailureKinds
  <2>4. pc \in Stages /\ pc \in Holding
    BY DEF Stages, Holding
  <2> QED
    BY <1>2, <1>3, <1>4, <2>1, <2>3, <2>4, GotoMoves
<1>5. CASE Routes(d, "Rejected") \/ Routes(d, "Encode")
  BY <1>2, <1>3, <1>5, RoutesMoves DEF FailureKinds
<1>6. CASE Fails(d)
  BY <1>3, <1>6, FailsMoves
<1> QED
  BY <1>4, <1>5, <1>6 DEF Finish, Prepare

(* The tries of a publication stay below the attempts allowed.               *)
LEMMA PublishFailsMoves ==
  ASSUME JobsInv, NEW d \in Deliveries, PublishFails(d),
         UNCHANGED <<setting, entry, generation>>, job[d].pc \notin Settled
  PROVE  Moves(d)
<1>1. job[d] \in Jobs /\ JobInv(job[d], setting)
  BY DEF JobsInv, Types
<1>2. CASE job[d].tries + 1 >= PublishAttempts
  BY <1>2, FailsMoves DEF PublishFails
<1>3. CASE ~(job[d].tries + 1 >= PublishAttempts)
  <2>1. job' = [job EXCEPT ![d].tries = @ + 1] /\ UNCHANGED holder
    BY <1>3 DEF PublishFails
  <2>2. PICK j : j = [job[d] EXCEPT !.tries = @ + 1]
    OBVIOUS
  <2>3. job' = [job EXCEPT ![d] = j]
    BY <2>1, <2>2
  <2>4. job[d].tries + 1 \in 0..(PublishAttempts - 1)
    <3>1. job[d].tries \in 0..(PublishAttempts - 1)
      BY <1>1 DEF Jobs
    <3>2. PublishAttempts \in Nat \ {0}
      BY ProcessingAssumption
    <3> QED
      BY <1>3, <3>1, <3>2, SMTT(30)
  <2>5. j \in Jobs
    BY <1>1, <2>2, <2>4 DEF Jobs
  <2>6. /\ j.pc = job[d].pc /\ j.outputs = job[d].outputs /\ j.sent = job[d].sent
        /\ j.open = job[d].open /\ j.broken = job[d].broken /\ j.kind = job[d].kind
        /\ j.change = job[d].change /\ j.run = job[d].run /\ j.token = job[d].token
        /\ j.seen = job[d].seen /\ j.dead = job[d].dead /\ j.attempts = job[d].attempts
    BY <1>1, <2>2 DEF Jobs
  <2>7. JobInv(j, setting)
    BY <1>1, <2>6 DEF JobInv, Clean
  <2>8. Keeps(d, j)
    BY <2>1, <2>6 DEF Keeps
  <2> QED
    BY <2>3, <2>5, <2>6, <2>7, <2>8 DEF Moves
<1> QED
  BY <1>2, <1>3

LEMMA SubmitMoves ==
  ASSUME JobsInv, NEW d \in Deliveries, Submit(d) PROVE Moves(d)
<1>1. job[d] \in Jobs /\ JobInv(job[d], setting) /\ job[d].pc = "submit"
  BY DEF JobsInv, Types, Submit, At
<1>2. job[d].pc \notin Settled /\ job[d].pc \in Holding
  BY <1>1 DEF Settled, Holding, Ended
<1>3. UNCHANGED <<setting, entry, generation>> /\ job[d].kind = "none"
  BY <1>1 DEF Submit, JobInv
<1>4. CASE Goto(d, "drain") /\ UNCHANGED holder
  <2>1. PICK j : j = [job[d] EXCEPT !.pc = "drain"]
    OBVIOUS
  <2>2. /\ j.pc = "drain" /\ j.outputs = job[d].outputs /\ j.sent = job[d].sent
        /\ j.open = job[d].open /\ j.broken = job[d].broken /\ j.kind = job[d].kind
        /\ j.change = job[d].change
    BY <1>1, <2>1 DEF Jobs
  <2>3. JobInv(j, setting)
    BY <1>1, <1>3, <2>2 DEF JobInv, Early, Ended, FailureKinds
  <2>4. "drain" \in Stages /\ "drain" \in Holding
    BY DEF Stages, Holding
  <2> QED
    BY <1>2, <1>3, <1>4, <2>1, <2>3, <2>4, GotoMoves
<1>5. CASE PublishFails(d)
  BY <1>2, <1>3, <1>5, PublishFailsMoves
<1>6. /\ job[d].sent \in Nat /\ job[d].outputs \in Nat /\ job[d].open \in SUBSET Nat
      /\ job[d].sent < job[d].outputs
      /\ job[d].open \subseteq 1..job[d].sent /\ job[d].broken \subseteq job[d].open
  BY <1>1, CountsAreNumbers DEF Jobs, Submit, JobInv
<1>7. ASSUME NEW j \in Jobs, job' = [job EXCEPT ![d] = j], UNCHANGED holder,
             j.open = job[d].open \/ j.open = job[d].open \cup {job[d].sent + 1},
             j.pc = "submit", j.outputs = job[d].outputs, j.sent = job[d].sent + 1,
             j.broken = job[d].broken, j.kind = "none", j.change = job[d].change,
             j.run = job[d].run, j.token = job[d].token, j.seen = job[d].seen
      PROVE  Moves(d)
  <2>1. j.open \subseteq 1..(job[d].sent + 1) /\ j.broken \subseteq j.open
    BY <1>6, <1>7, SMTT(30)
  <2>2. j.sent <= j.outputs
    BY <1>6, <1>7, SMTT(30)
  <2>3. JobInv(j, setting)
    BY <1>1, <1>3, <1>7, <2>1, <2>2 DEF JobInv, Early, Ended, FailureKinds
  <2>4. Keeps(d, j)
    BY <1>1, <1>2, <1>7 DEF Keeps
  <2> QED
    BY <1>2, <1>3, <1>7, <2>3, <2>4 DEF Moves
<1>8. CASE job' = [job EXCEPT ![d].sent = job[d].sent + 1, ![d].tries = 0] /\ UNCHANGED holder
  <2>1. PICK j : j = [job[d] EXCEPT !.sent = job[d].sent + 1, !.tries = 0]
    OBVIOUS
  <2>2. job' = [job EXCEPT ![d] = j]
    BY <1>1, <1>8, <2>1 DEF JobsInv, Types
  <2>3. job[d].sent + 1 \in Nat
    BY <1>6, SMTT(30)
  <2>4. j \in Jobs
    BY <1>1, <2>1, <2>3, Blank DEF Jobs
  <2>5. /\ j.pc = "submit" /\ j.outputs = job[d].outputs /\ j.sent = job[d].sent + 1
        /\ j.open = job[d].open /\ j.broken = job[d].broken /\ j.kind = "none"
        /\ j.change = job[d].change /\ j.run = job[d].run /\ j.token = job[d].token
        /\ j.seen = job[d].seen
    BY <1>1, <1>3, <2>1 DEF Jobs
  <2> QED
    BY <1>7, <1>8, <2>2, <2>4, <2>5
<1>9. CASE /\ job' = [job EXCEPT ![d].sent = job[d].sent + 1, ![d].tries = 0,
                                 ![d].open = @ \cup {job[d].sent + 1}]
           /\ UNCHANGED holder
  <2>1. PICK more : more = job[d].open \cup {job[d].sent + 1}
    OBVIOUS
  <2>2. PICK j : j = [job[d] EXCEPT !.sent = job[d].sent + 1, !.tries = 0, !.open = more]
    OBVIOUS
  <2>3. job' = [job EXCEPT ![d] = j]
    BY <1>1, <1>9, <2>1, <2>2 DEF JobsInv, Types
  <2>4. job[d].sent + 1 \in Nat /\ more \in SUBSET Nat
    BY <1>6, <2>1, SMTT(30)
  <2>5. j \in Jobs
    BY <1>1, <2>2, <2>4, Blank DEF Jobs
  <2>6. /\ j.pc = "submit" /\ j.outputs = job[d].outputs /\ j.sent = job[d].sent + 1
        /\ j.open = more /\ j.broken = job[d].broken /\ j.kind = "none"
        /\ j.change = job[d].change /\ j.run = job[d].run /\ j.token = job[d].token
        /\ j.seen = job[d].seen
    BY <1>1, <1>3, <2>2 DEF Jobs
  <2> QED
    BY <1>7, <1>9, <2>1, <2>3, <2>5, <2>6
<1> QED
  BY <1>4, <1>5, <1>8, <1>9 DEF Submit

LEMMA SubmittedMoves ==
  ASSUME JobsInv, NEW d \in Deliveries, Submitted(d) PROVE Moves(d)
<1>1. job[d] \in Jobs /\ JobInv(job[d], setting) /\ job[d].pc = "submit"
  BY DEF JobsInv, Types, Submitted, At
<1>2. job[d].pc \notin Settled /\ job[d].pc \in Holding
  BY <1>1 DEF Settled, Holding, Ended
<1>3. UNCHANGED <<setting, entry, generation, holder>> /\ job[d].sent = job[d].outputs
  BY DEF Submitted
<1>4. CASE job[d].open = {} /\ Goto(d, "commit")
  <2>1. PICK j : j = [job[d] EXCEPT !.pc = "commit"]
    OBVIOUS
  <2>2. /\ j.pc = "commit" /\ j.outputs = job[d].outputs /\ j.sent = job[d].sent
        /\ j.open = job[d].open /\ j.broken = job[d].broken /\ j.kind = job[d].kind
        /\ j.change = job[d].change
    BY <1>1, <2>1 DEF Jobs
  <2>3. JobInv(j, setting)
    BY <1>1, <1>3, <1>4, <2>2 DEF JobInv, Early, Ended, FailureKinds
  <2>4. "commit" \in Stages /\ "commit" \in Holding
    BY DEF Stages, Holding
  <2> QED
    BY <1>2, <1>3, <1>4, <2>1, <2>3, <2>4, GotoMoves
<1>5. CASE job' = [job EXCEPT ![d].pc = "await", ![d].detached = TRUE]
  <2>1. PICK j : j = [job[d] EXCEPT !.pc = "await", !.detached = TRUE]
    OBVIOUS
  <2>2. job' = [job EXCEPT ![d] = j]
    BY <1>1, <1>5, <2>1 DEF JobsInv, Types
  <2>3. j \in Jobs
    BY <1>1, <2>1 DEF Jobs, Stages
  <2>4. /\ j.pc = "await" /\ j.outputs = job[d].outputs /\ j.sent = job[d].sent
        /\ j.open = job[d].open /\ j.broken = job[d].broken /\ j.kind = job[d].kind
        /\ j.change = job[d].change /\ j.run = job[d].run /\ j.token = job[d].token
        /\ j.seen = job[d].seen
    BY <1>1, <2>1 DEF Jobs
  <2>5. JobInv(j, setting)
    BY <1>1, <1>3, <2>4 DEF JobInv, Early, Ended, FailureKinds
  <2>6. Keeps(d, j)
    BY <1>1, <1>3, <2>4 DEF Keeps, Holding
  <2> QED
    BY <1>2, <1>3, <2>2, <2>3, <2>4, <2>5, <2>6 DEF Moves
<1> QED
  BY <1>4, <1>5 DEF Submitted

(* The sink resolves what a job waits for, submits or drains.                *)
LEMMA SinkResolvesMoves ==
  ASSUME JobsInv, NEW d \in Deliveries, SinkResolves(d) PROVE Moves(d)
<1>1. job[d] \in Jobs /\ JobInv(job[d], setting)
  BY DEF JobsInv, Types
<1>2. PICK o \in job[d].open \ job[d].broken :
        \/ job' = [job EXCEPT ![d].open = @ \ {o}]
        \/ job' = [job EXCEPT ![d].broken = @ \cup {o}]
  BY DEF SinkResolves
<1>3. UNCHANGED <<setting, entry, generation, holder>>
  BY DEF SinkResolves
<1>4. job[d].pc \in {"submit", "drain", "await"}
  <2>1. job[d].open # {} /\ job[d].pc \in Stages
    BY <1>1, <1>2 DEF Jobs
  <2>2. job[d].pc \notin Early
    BY <1>1, <2>1 DEF JobInv, Clean
  <2>3. job[d].pc \notin {"post", "prepare", "commit", "route", "dead letter", "ack"}
    BY <1>1, <2>1 DEF JobInv
  <2> QED
    BY <2>1, <2>2, <2>3 DEF Stages, Early, Ended
<1>5. job[d].pc \notin Settled /\ job[d].pc \notin Early
  BY <1>4 DEF Settled, Early, Ended
<1>6. /\ job[d].open \in SUBSET Nat /\ job[d].broken \in SUBSET Nat
      /\ job[d].open \subseteq 1..job[d].sent /\ job[d].broken \subseteq job[d].open
  BY <1>1 DEF Jobs, JobInv
<1>7. ASSUME NEW open \in SUBSET Nat, NEW broken \in SUBSET Nat, NEW j \in Jobs,
             open \subseteq job[d].open, broken \subseteq open,
             job' = [job EXCEPT ![d] = j],
             j.open = open, j.broken = broken, j.pc = job[d].pc,
             j.outputs = job[d].outputs, j.sent = job[d].sent,
             j.kind = job[d].kind, j.change = job[d].change, j.run = job[d].run,
             j.token = job[d].token, j.seen = job[d].seen
      PROVE  Moves(d)
  <2>1. j.open \subseteq 1..j.sent /\ j.broken \subseteq j.open
    BY <1>6, <1>7
  <2>2. JobInv(j, setting)
    BY <1>1, <1>4, <1>5, <1>7, <2>1 DEF JobInv
  <2>3. Keeps(d, j)
    BY <1>3, <1>7 DEF Keeps
  <2> QED
    BY <1>3, <1>5, <1>7, <2>2, <2>3 DEF Moves
<1>8. CASE job' = [job EXCEPT ![d].open = @ \ {o}]
  <2>1. PICK open : open = job[d].open \ {o}
    OBVIOUS
  <2>2. PICK j : j = [job[d] EXCEPT !.open = open]
    OBVIOUS
  <2>3. job' = [job EXCEPT ![d] = j]
    BY <1>8, <2>1, <2>2
  <2>4. open \in SUBSET Nat /\ open \subseteq job[d].open /\ job[d].broken \subseteq open
    BY <1>2, <1>6, <2>1
  <2>5. j \in Jobs
    BY <1>1, <2>2, <2>4 DEF Jobs
  <2>6. /\ j.pc = job[d].pc /\ j.outputs = job[d].outputs /\ j.sent = job[d].sent
        /\ j.open = open /\ j.broken = job[d].broken /\ j.kind = job[d].kind
        /\ j.change = job[d].change /\ j.run = job[d].run /\ j.token = job[d].token
        /\ j.seen = job[d].seen
    BY <1>1, <2>2 DEF Jobs
  <2> QED
    BY <1>6, <1>7, <2>3, <2>4, <2>5, <2>6
<1>9. CASE job' = [job EXCEPT ![d].broken = @ \cup {o}]
  <2>1. PICK broken : broken = job[d].broken \cup {o}
    OBVIOUS
  <2>2. PICK j : j = [job[d] EXCEPT !.broken = broken]
    OBVIOUS
  <2>3. job' = [job EXCEPT ![d] = j]
    BY <1>9, <2>1, <2>2
  <2>4. broken \in SUBSET Nat /\ broken \subseteq job[d].open
    BY <1>2, <1>6, <2>1
  <2>5. j \in Jobs
    BY <1>1, <2>2, <2>4 DEF Jobs
  <2>6. /\ j.pc = job[d].pc /\ j.outputs = job[d].outputs /\ j.sent = job[d].sent
        /\ j.open = job[d].open /\ j.broken = broken /\ j.kind = job[d].kind
        /\ j.change = job[d].change /\ j.run = job[d].run /\ j.token = job[d].token
        /\ j.seen = job[d].seen
    BY <1>1, <2>2 DEF Jobs
  <2> QED
    BY <1>6, <1>7, <2>3, <2>4, <2>5, <2>6
<1> QED
  BY <1>2, <1>8, <1>9

LEMMA AwaitMoves ==
  ASSUME JobsInv, NEW d \in Deliveries, Await(d) \/ Drain(d) PROVE Moves(d)
<1>1. job[d] \in Jobs /\ JobInv(job[d], setting) /\ job[d].pc \in {"await", "drain"}
  BY DEF JobsInv, Types, Await, Drain, At
<1>2. job[d].pc \notin Settled /\ job[d].pc \in Holding
  BY <1>1 DEF Settled, Holding, Ended
<1>3. UNCHANGED <<setting, entry, generation>>
  BY DEF Await, Drain
<1>4. CASE job[d].pc = "await" /\ job[d].open = {} /\ Goto(d, "commit") /\ UNCHANGED holder
  <2>1. PICK j : j = [job[d] EXCEPT !.pc = "commit"]
    OBVIOUS
  <2>2. /\ j.pc = "commit" /\ j.outputs = job[d].outputs /\ j.sent = job[d].sent
        /\ j.open = job[d].open /\ j.broken = job[d].broken /\ j.kind = job[d].kind
        /\ j.change = job[d].change
    BY <1>1, <2>1 DEF Jobs
  <2>3. JobInv(j, setting)
    BY <1>1, <1>4, <2>2 DEF JobInv, Early, Ended, FailureKinds
  <2>4. "commit" \in Stages /\ "commit" \in Holding
    BY DEF Stages, Holding
  <2> QED
    BY <1>2, <1>3, <1>4, <2>1, <2>3, <2>4, GotoMoves
<1>5. CASE job[d].open = {} /\ Routes(d, "PublishRejected")
  BY <1>2, <1>3, <1>5, RoutesMoves DEF FailureKinds
<1>6. CASE Fails(d)
  BY <1>3, <1>6, FailsMoves
<1> QED
  BY <1>4, <1>5, <1>6 DEF Await, Drain, At

LEMMA AcknowledgeMoves ==
  ASSUME JobsInv, NEW d \in Deliveries, Acknowledge(d) PROVE Moves(d)
<1>1. job[d] \in Jobs /\ JobInv(job[d], setting) /\ job[d].pc = "ack"
  BY DEF JobsInv, Types, Acknowledge, At
<1>2. UNCHANGED <<setting, entry, generation>>
  BY DEF Acknowledge
<1>3. CASE job' = [job EXCEPT ![d] = Over(d, "acked")] /\ UNCHANGED holder
  <2>1. "acked" \in Ended /\ "acked" \in Settled /\ job[d].pc \notin Holding
    BY <1>1 DEF Ended, Settled, Holding
  <2>2. Over(d, "acked") \in Jobs /\ Keeps(d, Over(d, "acked"))
    BY <1>3, <2>1, OverIsJob DEF Keeps
  <2> QED
    BY <1>2, <1>3, <2>1, <2>2, OverIsJob DEF Moves
<1>4. CASE Fails(d)
  BY <1>2, <1>4, FailsMoves
<1> QED
  BY <1>3, <1>4 DEF Acknowledge

LEMMA RouteMoves ==
  ASSUME JobsInv, NEW d \in Deliveries, Route(d) \/ DeadLetter(d) PROVE Moves(d)
<1>1. job[d] \in Jobs /\ JobInv(job[d], setting) /\ job[d].pc \in {"route", "dead letter"}
  BY DEF JobsInv, Types, Route, DeadLetter, At
<1>2. job[d].pc \notin Settled /\ job[d].pc \notin Holding
  BY <1>1 DEF Settled, Holding, Ended
<1>3. /\ UNCHANGED <<setting, entry, generation>>
      /\ job[d].kind # "none" /\ job[d].open = {} /\ job[d].change = "none"
  BY <1>1 DEF Route, DeadLetter, JobInv
<1>4. CASE Fails(d)
  BY <1>3, <1>4, FailsMoves
<1>5. CASE PublishFails(d)
  BY <1>2, <1>3, <1>5, PublishFailsMoves
<1>6. ASSUME NEW pc \in {"ack", "dead letter"}, Goto(d, pc), UNCHANGED holder,
             pc = "ack" => setting.policy[job[d].kind] = "Discard"
      PROVE  Moves(d)
  <2>1. PICK j : j = [job[d] EXCEPT !.pc = pc]
    OBVIOUS
  <2>2. /\ j.pc = pc /\ j.outputs = job[d].outputs /\ j.sent = job[d].sent
        /\ j.open = job[d].open /\ j.broken = job[d].broken /\ j.kind = job[d].kind
        /\ j.change = job[d].change
    BY <1>1, <2>1 DEF Jobs
  <2>3. JobInv(j, setting)
    BY <1>1, <1>3, <1>6, <2>2 DEF JobInv, Early, Ended
  <2>4. pc \in Stages /\ pc # "handler"
    BY DEF Stages
  <2> QED
    BY <1>2, <1>3, <1>6, <2>1, <2>3, <2>4, GotoMoves
<1>7. CASE /\ job' = [job EXCEPT ![d].pc = "ack", ![d].dead = TRUE, ![d].tries = 0]
           /\ UNCHANGED holder
  <2>1. PICK j : j = [job[d] EXCEPT !.pc = "ack", !.dead = TRUE, !.tries = 0]
    OBVIOUS
  <2>2. job' = [job EXCEPT ![d] = j]
    BY <1>1, <1>7, <2>1 DEF JobsInv, Types
  <2>3. j \in Jobs
    BY <1>1, <2>1, Blank DEF Jobs, Stages
  <2>4. /\ j.pc = "ack" /\ j.dead /\ j.outputs = job[d].outputs /\ j.sent = job[d].sent
        /\ j.open = job[d].open /\ j.broken = job[d].broken /\ j.kind = job[d].kind
        /\ j.change = job[d].change /\ j.run = job[d].run /\ j.token = job[d].token
    BY <1>1, <2>1 DEF Jobs
  <2>5. JobInv(j, setting)
    BY <1>1, <1>3, <2>4 DEF JobInv, Early, Ended
  <2>6. Keeps(d, j)
    BY <1>2, <1>3, <1>7, <2>4 DEF Keeps
  <2> QED
    BY <1>2, <1>3, <2>2, <2>3, <2>4, <2>5, <2>6 DEF Moves
<1>8. CASE Route(d)
  BY <1>4, <1>6, <1>8 DEF Route
<1>9. CASE DeadLetter(d)
  BY <1>4, <1>5, <1>7, <1>9 DEF DeadLetter
<1> QED
  BY <1>8, <1>9

LEMMA AbandonMoves ==
  ASSUME JobsInv, NEW d \in Deliveries, Abandon(d) PROVE Moves(d)
<1>1. "abandoned" \in Ended
  BY DEF Ended
<1> QED
  BY <1>1, EndMoves DEF Abandon

-----------------------------------------------------------------------------
(* The invariant holds initially and is kept by every step.                  *)

(* What one job does without touching the entry keeps the invariant.         *)
LEMMA MovesKeep ==
  ASSUME JobsInv, NEW d \in Deliveries, Moves(d) PROVE JobsInv'
<1>1. PICK j \in Jobs :
        /\ job' = [job EXCEPT ![d] = j]
        /\ JobInv(j, setting)
        /\ j.run = job[d].run /\ j.token = job[d].token
        /\ job[d].pc \in Settled => j.pc \in Settled /\ (Clean(job[d]) => Clean(j))
        /\ Keeps(d, j) \/ GivesBack(d, j)
  BY DEF Moves
<1>2. UNCHANGED <<setting, entry, generation>>
  BY DEF Moves
<1>3. Types
  BY DEF JobsInv
<1>4. job \in [Deliveries -> Jobs] /\ job' \in [Deliveries -> Jobs]
  BY <1>1, <1>3 DEF Types
<1>5. \A e \in Deliveries : job'[e] = IF e = d THEN j ELSE job[e]
  BY <1>1, <1>4
<1>6. holder \in Deliveries \cup {Nobody} /\ holder' \in Deliveries \cup {Nobody}
      /\ holder' \in {holder, Nobody}
  BY <1>1, <1>3 DEF Types, Keeps, GivesBack, Drops
<1>7. Types'
  BY <1>2, <1>3, <1>4, <1>6 DEF Types
<1>8. \A e \in Deliveries : JobInv(job'[e], setting')
  BY <1>1, <1>2, <1>5 DEF JobsInv
<1>9. Held'
  <2> SUFFICES ASSUME holder' # Nobody PROVE job'[holder'].pc \in Holding /\ ~Covered(holder', entry)
    BY <1>2 DEF Held, Covered
  <2>1. holder' = holder /\ holder \in Deliveries /\ job[holder].pc \in Holding
        /\ ~Covered(holder, entry)
    BY <1>6 DEF JobsInv, Held
  <2>2. CASE holder # d
    BY <1>5, <2>1, <2>2
  <2>3. CASE holder = d
    <3>1. Keeps(d, j)
      BY <1>1, <2>1, <2>3 DEF GivesBack, Drops
    <3> QED
      BY <1>5, <2>1, <2>3, <3>1 DEF Keeps
  <2> QED
    BY <2>2, <2>3
<1>10. SeesLastCommit'
  <2> SUFFICES ASSUME NEW e \in Deliveries, setting.stateful,
                      job'[e].pc = "handler" \/ job'[e].change # "none"
               PROVE  holder' = e /\ job'[e].seen = entry.value
    BY <1>2 DEF SeesLastCommit, At
  <2>1. CASE e = d
    <3>1. Keeps(d, j)
      BY <1>1, <1>5, <2>1 DEF GivesBack
    <3>2. holder' = holder /\ j.seen = job[d].seen
          /\ (job[d].pc = "handler" \/ job[d].change # "none")
      BY <1>5, <2>1, <3>1 DEF Keeps
    <3> QED
      BY <1>5, <2>1, <3>2 DEF JobsInv, SeesLastCommit, At
  <2>2. CASE e # d
    <3>1. holder = e /\ job[e].seen = entry.value
      BY <1>5, <2>2 DEF JobsInv, SeesLastCommit, At
    <3>2. holder' = holder
      BY <1>1, <2>2, <3>1 DEF Keeps, GivesBack, Drops
    <3> QED
      BY <1>5, <2>2, <3>1, <3>2
  <2> QED
    BY <2>1, <2>2
<1>11. Built'
  <2> SUFFICES ASSUME NEW i \in 1..Len(entry.value)
               PROVE  /\ entry.value[i].run <= job'[entry.value[i].of].run
                      /\ entry.value[i].run = job'[entry.value[i].of].run =>
                           /\ job'[entry.value[i].of].pc \in Settled
                           /\ Clean(job'[entry.value[i].of])
    BY <1>2 DEF Built, Clean
  <2>1. PICK c : c = entry.value[i]
    OBVIOUS
  <2>2. c \in Change
    BY <1>3, <2>1, SMTT(30) DEF Types
  <2>3. c.of \in Deliveries
    BY <2>2 DEF Change
  <2>4. /\ c.run <= job[c.of].run
        /\ c.run = job[c.of].run => job[c.of].pc \in Settled /\ Clean(job[c.of])
    BY <2>1 DEF JobsInv, Built
  <2> QED
    BY <1>1, <1>5, <2>1, <2>3, <2>4
<1> QED
  BY <1>7, <1>8, <1>9, <1>10, <1>11 DEF JobsInv

LEMMA StartKeeps ==
  ASSUME JobsInv, NEW d \in Deliveries, Start(d) PROVE JobsInv'
<1>1. Types /\ job[d] \in Jobs /\ JobInv(job[d], setting) /\ job[d].pc \in Ended
  BY DEF JobsInv, Types, Start, Active
<1>2. UNCHANGED <<setting, entry, holder, generation>>
  BY DEF Start
<1>3. PICK token : token = <<PartitionOf[d], generation[PartitionOf[d]]>>
  OBVIOUS
<1>4. token \in Tokens
  BY <1>1, <1>3, ProcessingAssumption DEF Types, Tokens
<1>5. PICK run : run = job[d].run + 1
  OBVIOUS
<1>6. run \in Nat /\ job[d].run \in Nat /\ job[d].run < run
  BY <1>1, <1>5, SMTT(30) DEF Jobs
<1>7. PICK n : n = NewJob(run, token)
  OBVIOUS
<1>8. n \in Jobs
  BY <1>4, <1>6, <1>7, Blank DEF NewJob, Jobs, Stages, Ended
<1>9. /\ n.run = run /\ n.token = token /\ n.outputs = 0 /\ n.sent = 0 /\ n.open = {}
      /\ n.broken = {} /\ n.kind = "none" /\ n.change = "none" /\ n.attempts = 0
  BY <1>7 DEF NewJob
<1>10. PICK j \in Jobs :
         /\ job' = [job EXCEPT ![d] = j] /\ JobInv(j, setting)
         /\ j.run = run /\ j.change = "none" /\ j.pc # "handler"
  <2>1. CASE job' = [job EXCEPT ![d] = [n EXCEPT !.pc = "pre"]]
    <3>1. PICK j : j = [n EXCEPT !.pc = "pre"]
      OBVIOUS
    <3>2. j \in Jobs
      BY <1>8, <3>1 DEF Jobs, Stages
    <3>3. /\ j.run = run /\ j.outputs = 0 /\ j.sent = 0 /\ j.open = {} /\ j.broken = {}
          /\ j.kind = "none" /\ j.change = "none" /\ j.attempts = 0 /\ j.pc = "pre"
      BY <1>8, <1>9, <3>1 DEF Jobs
    <3>4. 0 < HandlerAttempts
      BY ProcessingAssumption, SMTT(30)
    <3>5. JobInv(j, setting)
      BY <3>3, <3>4, SMTT(30) DEF JobInv, Clean, FailureKinds
    <3> QED
      BY <2>1, <3>1, <3>2, <3>3, <3>5
  <2>2. CASE job' = [job EXCEPT ![d] = [n EXCEPT !.pc = "route", !.kind = "Decode"]]
    <3>1. PICK j : j = [n EXCEPT !.pc = "route", !.kind = "Decode"]
      OBVIOUS
    <3>2. j \in Jobs
      BY <1>8, <3>1 DEF Jobs, Stages, FailureKinds
    <3>3. /\ j.run = run /\ j.outputs = 0 /\ j.sent = 0 /\ j.open = {} /\ j.broken = {}
          /\ j.kind = "Decode" /\ j.change = "none" /\ j.pc = "route"
      BY <1>8, <1>9, <3>1 DEF Jobs
    <3>4. JobInv(j, setting)
      BY <3>3, SMTT(30) DEF JobInv, Early, Ended
    <3> QED
      BY <2>2, <3>1, <3>2, <3>3, <3>4
  <2> QED
    BY <1>3, <1>5, <1>7, <2>1, <2>2 DEF Start
<1>11. job \in [Deliveries -> Jobs] /\ job' \in [Deliveries -> Jobs]
  BY <1>1, <1>10 DEF Types
<1>12. \A e \in Deliveries : job'[e] = IF e = d THEN j ELSE job[e]
  BY <1>10, <1>11
<1>13. Types'
  BY <1>1, <1>2, <1>11 DEF Types
<1>14. \A e \in Deliveries : JobInv(job'[e], setting')
  BY <1>2, <1>10, <1>12 DEF JobsInv
<1>15. holder # d
  <2>1. job[d].pc \notin Holding
    BY <1>1 DEF Ended, Holding
  <2> QED
    BY <2>1, ProcessingAssumption DEF JobsInv, Held
<1>16. Held'
  <2>1. holder # Nobody => holder \in Deliveries /\ job'[holder] = job[holder]
    BY <1>1, <1>12, <1>15 DEF Types
  <2> QED
    BY <1>2, <2>1 DEF JobsInv, Held, Covered
<1>17. SeesLastCommit'
  BY <1>2, <1>10, <1>12, SMTT(30) DEF JobsInv, SeesLastCommit, At
<1>18. Built'
  <2> SUFFICES ASSUME NEW i \in 1..Len(entry.value)
               PROVE  /\ entry.value[i].run <= job'[entry.value[i].of].run
                      /\ entry.value[i].run = job'[entry.value[i].of].run =>
                           /\ job'[entry.value[i].of].pc \in Settled
                           /\ Clean(job'[entry.value[i].of])
    BY <1>2 DEF Built, Clean
  <2>1. PICK c : c = entry.value[i]
    OBVIOUS
  <2>2. c \in Change
    BY <1>1, <2>1, SMTT(30) DEF Types
  <2>3. c.of \in Deliveries /\ c.run \in Nat
    BY <2>2 DEF Change
  <2>4. /\ c.run <= job[c.of].run
        /\ c.run = job[c.of].run => job[c.of].pc \in Settled /\ Clean(job[c.of])
    BY <2>1 DEF JobsInv, Built
  <2>5. CASE c.of = d
    BY <1>6, <1>10, <1>12, <2>1, <2>3, <2>4, <2>5, SMTT(30)
  <2>6. CASE c.of # d
    BY <1>12, <2>1, <2>3, <2>4, <2>6
  <2> QED
    BY <2>5, <2>6
<1> QED
  BY <1>13, <1>14, <1>16, <1>17, <1>18 DEF JobsInv

(* Taking the entry: nobody holds it, so nobody has seen the value it loses. *)
LEMMA BeginKeeps ==
  ASSUME JobsInv, NEW d \in Deliveries, Begin(d) PROVE JobsInv'
<1>1. Types /\ job[d] \in Jobs /\ JobInv(job[d], setting) /\ job[d].pc = "entry"
  BY DEF JobsInv, Types, Begin, At
<1>2. UNCHANGED <<setting, generation>> /\ holder = Nobody
  BY DEF Begin
<1>3. entry' \in {entry, NewEntry}
  BY DEF Begin
<1>4. /\ entry' \in [value : Seq(Change), position : Deliveries \cup {Nobody}, owners : SUBSET Tokens]
      /\ entry'.value \in Seq(Change)
  <2> DEFINE Entries ==
        [value : Seq(Change), position : Deliveries \cup {Nobody}, owners : SUBSET Tokens]
  <2>1. NewEntry \in Entries
    BY Blank DEF NewEntry
  <2>2. entry \in Entries
    BY <1>1 DEF Types
  <2> QED
    BY <1>3, <2>1, <2>2
<1>5. \A e \in Deliveries : setting.stateful => job[e].pc # "handler" /\ job[e].change = "none"
  BY <1>2, ProcessingAssumption DEF JobsInv, SeesLastCommit, At
<1>6. setting.stateful
  BY <1>1 DEF JobInv
<1>7. PICK j \in Jobs :
        /\ job' = [job EXCEPT ![d] = j] /\ JobInv(j, setting)
        /\ j.run = job[d].run /\ j.change = "none" /\ j.pc \in Holding
        /\ \/ holder' = d /\ j.seen = entry'.value /\ ~Covered(d, entry')
           \/ holder' = Nobody /\ j.pc # "handler"
  <2>1. CASE Goto(d, "post") /\ UNCHANGED holder
    <3>1. PICK j : j = [job[d] EXCEPT !.pc = "post"]
      OBVIOUS
    <3>2. j \in Jobs
      BY <1>1, <3>1 DEF Jobs, Stages
    <3>3. /\ j.pc = "post" /\ j.outputs = job[d].outputs /\ j.sent = job[d].sent
          /\ j.open = job[d].open /\ j.broken = job[d].broken /\ j.kind = job[d].kind
          /\ j.change = job[d].change /\ j.run = job[d].run
      BY <1>1, <3>1 DEF Jobs
    <3>4. JobInv(j, setting) /\ j.change = "none"
      BY <1>1, <3>3 DEF JobInv, Clean, Early, Ended
    <3> QED
      BY <1>2, <2>1, <3>1, <3>2, <3>3, <3>4 DEF Goto, Holding
  <2>2. CASE /\ job' = [job EXCEPT ![d].pc = "handler", ![d].seen = entry'.value]
             /\ holder' = d /\ ~Covered(d, entry')
    <3>1. PICK v : v = entry'.value
      OBVIOUS
    <3>2. PICK j : j = [job[d] EXCEPT !.pc = "handler", !.seen = v]
      OBVIOUS
    <3>3. job' = [job EXCEPT ![d] = j]
      BY <1>1, <2>2, <3>1, <3>2 DEF Types
    <3>4. j \in Jobs
      BY <1>1, <1>4, <3>1, <3>2 DEF Jobs, Stages
    <3>5. /\ j.pc = "handler" /\ j.outputs = job[d].outputs /\ j.sent = job[d].sent
          /\ j.open = job[d].open /\ j.broken = job[d].broken /\ j.kind = job[d].kind
          /\ j.change = job[d].change /\ j.run = job[d].run /\ j.seen = v
      BY <1>1, <3>2 DEF Jobs
    <3>6. JobInv(j, setting) /\ j.change = "none"
      BY <1>1, <3>5 DEF JobInv, Clean, Early, Ended
    <3> QED
      BY <2>2, <3>1, <3>3, <3>4, <3>5, <3>6 DEF Holding
  <2> QED
    BY <2>1, <2>2 DEF Begin
<1>8. job \in [Deliveries -> Jobs] /\ job' \in [Deliveries -> Jobs]
  BY <1>1, <1>7 DEF Types
<1>9. \A e \in Deliveries : job'[e] = IF e = d THEN j ELSE job[e]
  BY <1>7, <1>8
<1>10. Types'
  BY <1>1, <1>2, <1>4, <1>7, <1>8 DEF Types
<1>11. \A e \in Deliveries : JobInv(job'[e], setting')
  BY <1>2, <1>7, <1>9 DEF JobsInv
<1>12. Held'
  BY <1>7, <1>9 DEF Held, Covered
<1>13. SeesLastCommit'
  <2> SUFFICES ASSUME NEW e \in Deliveries, job'[e].pc = "handler" \/ job'[e].change # "none"
               PROVE  holder' = e /\ job'[e].seen = entry'.value
    BY <1>2 DEF SeesLastCommit, At
  <2>1. e = d
    BY <1>5, <1>6, <1>9
  <2>2. job'[e] = j
    BY <1>9, <2>1
  <2> QED
    BY <1>7, <2>1, <2>2
<1>14. Built'
  <2>1. CASE entry' = NewEntry
    <3>1. Len(entry'.value) = 0
      BY <2>1 DEF NewEntry
    <3> QED
      BY <3>1, SMTT(30) DEF Built
  <2>2. CASE entry' = entry
    <3> SUFFICES ASSUME NEW i \in 1..Len(entry.value)
                 PROVE  /\ entry.value[i].run <= job'[entry.value[i].of].run
                        /\ entry.value[i].run = job'[entry.value[i].of].run =>
                             /\ job'[entry.value[i].of].pc \in Settled
                             /\ Clean(job'[entry.value[i].of])
      BY <2>2 DEF Built, Clean
    <3>1. PICK c : c = entry.value[i]
      OBVIOUS
    <3>2. c \in Change
      BY <1>1, <3>1, SMTT(30) DEF Types
    <3>3. c.of \in Deliveries
      BY <3>2 DEF Change
    <3>4. /\ c.run <= job[c.of].run
          /\ c.run = job[c.of].run => job[c.of].pc \in Settled /\ Clean(job[c.of])
      BY <3>1 DEF JobsInv, Built
    <3>5. "entry" \notin Settled
      BY DEF Settled, Ended
    <3> QED
      BY <1>1, <1>7, <1>9, <3>1, <3>3, <3>4, <3>5
  <2> QED
    BY <1>3, <2>1, <2>2
<1> QED
  BY <1>10, <1>11, <1>12, <1>13, <1>14 DEF JobsInv

(* A commit is the holder's, appends to the value it saw, and ends its hold; *)
(* without a change, or when the change was kept back, the entry stays.      *)
LEMMA CommitKeeps ==
  ASSUME JobsInv, NEW d \in Deliveries, Commit(d) PROVE JobsInv'
<1>1. Types /\ job[d] \in Jobs /\ JobInv(job[d], setting) /\ job[d].pc = "commit"
  BY DEF JobsInv, Types, Commit, At
<1>2. UNCHANGED <<setting, generation>>
  BY DEF Commit
<1>3. job[d].pc \notin Settled /\ Clean(job[d])
  BY <1>1 DEF Settled, Ended, JobInv, Clean
<1>4. ASSUME Fails(d), UNCHANGED entry PROVE JobsInv'
  BY <1>2, <1>4, FailsMoves, MovesKeep
<1>5. ASSUME job' = [job EXCEPT ![d] = [Forgetting(@) EXCEPT !.pc = "ack"]]
      PROVE  \E j \in Jobs :
               /\ job' = [job EXCEPT ![d] = j] /\ JobInv(j, setting) /\ Clean(j)
               /\ j.run = job[d].run /\ j.token = job[d].token
               /\ j.change = "none" /\ j.pc = "ack"
  <2>1. PICK j : j = [job[d] EXCEPT !.change = "none", !.seen = <<>>, !.pc = "ack"]
    OBVIOUS
  <2>2. job' = [job EXCEPT ![d] = j]
    BY <1>5, <2>1 DEF Forgetting
  <2>3. j \in Jobs
    BY <1>1, <2>1, Blank DEF Jobs, Stages
  <2>4. /\ j.pc = "ack" /\ j.outputs = job[d].outputs /\ j.sent = job[d].sent
        /\ j.open = job[d].open /\ j.broken = job[d].broken /\ j.kind = job[d].kind
        /\ j.change = "none" /\ j.run = job[d].run /\ j.token = job[d].token
    BY <1>1, <2>1 DEF Jobs
  <2>5. Clean(j)
    BY <1>3, <2>4 DEF Clean
  <2>6. JobInv(j, setting)
    BY <1>1, <2>4, <2>5 DEF JobInv, Early, Ended
  <2> QED
    BY <2>2, <2>3, <2>4, <2>5, <2>6
<1>6. CASE /\ job' = [job EXCEPT ![d] = [Forgetting(@) EXCEPT !.pc = "ack"]]
           /\ Drops(d) /\ UNCHANGED entry
  <2>1. PICK j \in Jobs :
          /\ job' = [job EXCEPT ![d] = j] /\ JobInv(j, setting) /\ Clean(j)
          /\ j.run = job[d].run /\ j.token = job[d].token
          /\ j.change = "none" /\ j.pc = "ack"
    BY <1>5, <1>6
  <2>2. GivesBack(d, j)
    BY <1>6, <2>1 DEF GivesBack
  <2>3. Moves(d)
    BY <1>2, <1>3, <1>6, <2>1, <2>2 DEF Moves
  <2> QED
    BY <2>3, MovesKeep
<1>7. CASE /\ job[d].change \in {"Set", "Clear"}
           /\ entry' = [value |-> Value(d), position |-> d, owners |-> Owners(d)]
           /\ job' = [job EXCEPT ![d] = [Forgetting(@) EXCEPT !.pc = "ack"]]
           /\ Drops(d)
  <2>1. PICK j \in Jobs :
          /\ job' = [job EXCEPT ![d] = j] /\ JobInv(j, setting) /\ Clean(j)
          /\ j.run = job[d].run /\ j.token = job[d].token
          /\ j.change = "none" /\ j.pc = "ack"
    BY <1>5, <1>7
  <2>2. setting.stateful /\ holder = d /\ job[d].seen = entry.value
    <3>1. setting.stateful
      BY <1>1, <1>7 DEF JobInv
    <3> QED
      BY <1>7, <3>1 DEF JobsInv, SeesLastCommit
  <2>3. holder' = Nobody
    BY <1>7, <2>2 DEF Drops
  <2>4. job \in [Deliveries -> Jobs] /\ job' \in [Deliveries -> Jobs]
    BY <1>1, <2>1 DEF Types
  <2>5. \A e \in Deliveries : job'[e] = IF e = d THEN j ELSE job[e]
    BY <2>1, <2>4
  <2>6. PICK c : c = [of |-> d, run |-> job[d].run, token |-> job[d].token]
    OBVIOUS
  <2>7. c \in Change /\ c.of = d /\ c.run = job[d].run
    BY <1>1, <2>6 DEF Change, Jobs
  <2>8. entry.value \in Seq(Change) /\ entry.owners \in SUBSET Tokens
    BY <1>1 DEF Types
  <2>9. Value(d) = <<>> \/ Value(d) = Append(entry.value, c)
    BY <2>2, <2>6 DEF Value
  <2>10. Value(d) \in Seq(Change)
    <3>1. Append(entry.value, c) \in Seq(Change)
      BY <2>7, <2>8, SMTT(30)
    <3> QED
      BY <2>9, <3>1, Blank
  <2>11. Owners(d) \in SUBSET Tokens
    BY <1>1, <2>8 DEF Owners, Jobs
  <2>12. /\ entry'.value = Value(d)
         /\ entry' \in [value : Seq(Change), position : Deliveries \cup {Nobody}, owners : SUBSET Tokens]
    BY <1>7, <2>10, <2>11
  <2>13. Types'
    BY <1>1, <1>2, <2>3, <2>4, <2>12 DEF Types
  <2>14. \A e \in Deliveries : JobInv(job'[e], setting')
    BY <1>2, <2>1, <2>5 DEF JobsInv
  <2>15. Held'
    BY <2>3 DEF Held
  <2>16. SeesLastCommit'
    <3> SUFFICES ASSUME NEW e \in Deliveries, setting.stateful,
                        job'[e].pc = "handler" \/ job'[e].change # "none"
                 PROVE  FALSE
      BY <1>2 DEF SeesLastCommit, At
    <3>1. CASE e = d
      BY <2>1, <2>5, <3>1
    <3>2. CASE e # d
      BY <2>2, <2>5, <3>2 DEF JobsInv, SeesLastCommit, At
    <3> QED
      BY <3>1, <3>2
  <2>17. Built'
    <3>1. ASSUME NEW x \in Change,
                 \/ x = c
                 \/ /\ x.run <= job[x.of].run
                    /\ x.run = job[x.of].run => job[x.of].pc \in Settled /\ Clean(job[x.of])
          PROVE  /\ x.run <= job'[x.of].run
                 /\ x.run = job'[x.of].run => job'[x.of].pc \in Settled /\ Clean(job'[x.of])
      <4>1. x.of \in Deliveries /\ x.run \in Nat
        BY DEF Change
      <4>2. j.pc \in Settled /\ j.run \in Nat
        BY <2>1 DEF Settled, Jobs
      <4> QED
        BY <1>3, <2>1, <2>5, <2>7, <3>1, <4>1, <4>2, SMTT(30)
    <3>2. \A i \in 1..Len(Value(d)) :
            \/ Value(d)[i] = c
            \/ i \in 1..Len(entry.value) /\ Value(d)[i] = entry.value[i]
      <4>1. CASE Value(d) = <<>>
        BY <4>1, SMTT(30)
      <4>2. CASE Value(d) = Append(entry.value, c)
        BY <2>8, <4>2, SMTT(30)
      <4> QED
        BY <2>9, <4>1, <4>2
    <3> SUFFICES ASSUME NEW i \in 1..Len(Value(d))
                 PROVE  LET x == Value(d)[i]
                        IN /\ x.run <= job'[x.of].run
                           /\ x.run = job'[x.of].run =>
                                job'[x.of].pc \in Settled /\ Clean(job'[x.of])
      BY <2>12 DEF Built, Clean
    <3>3. PICK x : x = Value(d)[i]
      OBVIOUS
    <3>4. x \in Change
      BY <2>10, <3>3, SMTT(30)
    <3>5. \/ x = c
          \/ /\ x.run <= job[x.of].run
             /\ x.run = job[x.of].run => job[x.of].pc \in Settled /\ Clean(job[x.of])
      BY <3>2, <3>3 DEF JobsInv, Built
    <3> QED
      BY <3>1, <3>3, <3>4, <3>5
  <2> QED
    BY <2>13, <2>14, <2>15, <2>16, <2>17 DEF JobsInv
<1> QED
  BY <1>4, <1>6, <1>7 DEF Commit

LEMMA RevokeKeeps ==
  ASSUME JobsInv, NEW p \in Partitions, Revoke(p) PROVE JobsInv'
<1>1. UNCHANGED <<setting, job, entry, holder>>
  BY DEF Revoke
<1>2. generation' \in [Partitions -> 0..MaxRevokes]
  BY ProcessingAssumption, SMTT(30) DEF Revoke, JobsInv, Types
<1>3. Types'
  BY <1>1, <1>2 DEF JobsInv, Types
<1>4. \A e \in Deliveries : JobInv(job'[e], setting')
  BY <1>1 DEF JobsInv
<1> QED
  BY <1>1, <1>3, <1>4 DEF JobsInv, Held, Covered, SeesLastCommit, At, Built, Clean

LEMMA JobsStart == ASSUME Init PROVE JobsInv
<1>1. setting \in Settings /\ entry = NewEntry /\ holder = Nobody
      /\ generation = [p \in Partitions |-> 0]
      /\ job = [d \in Deliveries |-> NewJob(0, <<PartitionOf[d], 0>>)]
  BY DEF Init
<1>2. /\ entry \in [value : Seq(Change), position : Deliveries \cup {Nobody}, owners : SUBSET Tokens]
      /\ entry.value = <<>> /\ generation \in [Partitions -> 0..MaxRevokes]
  BY <1>1, Blank, ProcessingAssumption, SMTT(30) DEF NewEntry
<1>3. ASSUME NEW d \in Deliveries
      PROVE  /\ job[d] \in Jobs /\ JobInv(job[d], setting)
             /\ job[d].pc = "idle" /\ job[d].change = "none"
  <2>1. PICK token : token = <<PartitionOf[d], 0>>
    OBVIOUS
  <2>2. token \in Tokens
    BY <2>1, ProcessingAssumption, SMTT(30) DEF Tokens
  <2>3. PICK n : n = NewJob(0, token)
    OBVIOUS
  <2>4. n = job[d]
    BY <1>1, <2>1, <2>3
  <2>5. n \in Jobs
    BY <2>2, <2>3, Blank DEF NewJob, Jobs, Stages, Ended
  <2>6. /\ n.outputs = 0 /\ n.sent = 0 /\ n.open = {} /\ n.broken = {}
        /\ n.kind = "none" /\ n.change = "none" /\ n.pc = "idle"
    BY <2>3 DEF NewJob
  <2>7. JobInv(n, setting)
    BY <2>6, SMTT(30) DEF JobInv, Clean, FailureKinds
  <2> QED
    BY <2>4, <2>5, <2>6, <2>7
<1>4. job \in [Deliveries -> Jobs]
  BY <1>1, <1>3
<1>5. Types
  BY <1>1, <1>2, <1>4 DEF Types
<1>6. Held /\ Built
  BY <1>1, <1>2, SMTT(30) DEF Held, Built
<1>7. SeesLastCommit
  BY <1>3 DEF SeesLastCommit, At
<1> QED
  BY <1>3, <1>5, <1>6, <1>7 DEF JobsInv

LEMMA JobsStep == ASSUME JobsInv, [Next]_vars PROVE JobsInv'
<1>1. CASE UNCHANGED vars
  <2>1. UNCHANGED <<setting, job, entry, holder, generation>>
    BY <1>1 DEF vars
  <2>2. Types'
    BY <2>1 DEF JobsInv, Types
  <2>3. \A d \in Deliveries : JobInv(job[d], setting)'
    BY <2>1 DEF JobsInv
  <2>4. Held' /\ SeesLastCommit'
    BY <2>1 DEF JobsInv, Held, SeesLastCommit, At
  <2>5. Built'
    BY <2>1 DEF JobsInv, Built
  <2> QED
    BY <2>2, <2>3, <2>4, <2>5 DEF JobsInv
<1>2. CASE \E p \in Partitions : Revoke(p)
  BY <1>2, RevokeKeeps
<1>3. ASSUME NEW d \in Deliveries, Step(d) PROVE JobsInv'
  <2>1. CASE Begin(d)
    BY <2>1, BeginKeeps
  <2>2. CASE Commit(d)
    BY <2>2, CommitKeeps
  <2>3. CASE \/ PreHandler(d) \/ Attempt(d) \/ Handler(d) \/ Finish(d) \/ Prepare(d)
             \/ Submit(d) \/ Submitted(d) \/ Await(d) \/ Drain(d) \/ Acknowledge(d)
             \/ Route(d) \/ DeadLetter(d)
    <3>1. Moves(d)
      BY <2>3, PreHandlerMoves, AttemptMoves, HandlerMoves, FinishMoves, SubmitMoves,
         SubmittedMoves, AwaitMoves, AcknowledgeMoves, RouteMoves
    <3> QED
      BY <3>1, MovesKeep
  <2> QED
    BY <1>3, <2>1, <2>2, <2>3 DEF Step
<1>4. ASSUME NEW d \in Deliveries, Start(d) \/ SinkResolves(d) \/ Abandon(d) PROVE JobsInv'
  <2>1. CASE Start(d)
    BY <2>1, StartKeeps
  <2>2. CASE SinkResolves(d) \/ Abandon(d)
    BY <2>2, SinkResolvesMoves, AbandonMoves, MovesKeep
  <2> QED
    BY <1>4, <2>1, <2>2
<1> QED
  BY <1>1, <1>2, <1>3, <1>4 DEF Next

(* Every stage of a job has published what it should have, the holder of the *)
(* entry sees its last commit, and the value is built from complete jobs.    *)
THEOREM JobsInvHolds == Spec => []JobsInv
<1>1. Init => JobsInv
  BY JobsStart
<1>2. JobsInv /\ [Next]_vars => JobsInv'
  BY JobsStep
<1> QED
  BY <1>1, <1>2, PTL DEF Spec

(* An acknowledgement follows the outputs, or the failure's routing, and     *)
(* what is routed before the sink refused an output has published nothing:   *)
(* processing.rs and completion.rs never acknowledge what is still open.     *)
THEOREM OutputsAreSafe == Spec => []OutputsInv
<1>1. JobsInv => OutputsInv
  <2> SUFFICES ASSUME JobsInv PROVE OutputsInv
    OBVIOUS
  <2>1. \A d \in Deliveries : job[d] \in Jobs /\ JobInv(job[d], setting)
    BY DEF JobsInv, Types
  <2>2. TypeOK
    <3>1. /\ setting \in Settings /\ holder \in Deliveries \cup {Nobody}
          /\ generation \in [Partitions -> 0..MaxRevokes]
          /\ entry.position \in Deliveries \cup {Nobody} /\ entry.owners \subseteq Tokens
      BY DEF JobsInv, Types
    <3>2. ASSUME NEW d \in Deliveries
          PROVE  LET j == job[d]
                 IN /\ j.pc \in Stages /\ j.run \in Nat /\ j.token \in Tokens
                    /\ j.attempts \in 0..HandlerAttempts /\ j.tries \in 0..(PublishAttempts - 1)
                    /\ j.outputs \in OutputCounts \cup {0} /\ j.sent \in 0..j.outputs
                    /\ j.open \subseteq 1..j.sent /\ j.broken \subseteq j.open
                    /\ j.kind \in FailureKinds \cup {"none"} /\ j.change \in Changes \cup {"none"}
      <4>1. PICK j : j = job[d]
        OBVIOUS
      <4>2. j \in Jobs /\ JobInv(j, setting)
        BY <2>1, <4>1
      <4>3. j.sent \in Nat /\ j.outputs \in OutputCounts \cup {0}
        BY <4>2 DEF Jobs
      <4>4. j.sent \in 0..j.outputs /\ j.open \subseteq 1..j.sent /\ j.broken \subseteq j.open
        <5>1. j.outputs \in Nat
          BY <4>3, CountsAreNumbers
        <5>2. j.sent <= j.outputs /\ j.open \subseteq 1..j.sent /\ j.broken \subseteq j.open
          BY <4>2 DEF JobInv
        <5> QED
          BY <4>3, <5>1, <5>2, SMTT(30)
      <4>5. /\ j.pc \in Stages /\ j.run \in Nat /\ j.token \in Tokens
            /\ j.attempts \in 0..HandlerAttempts /\ j.tries \in 0..(PublishAttempts - 1)
            /\ j.outputs \in OutputCounts \cup {0}
            /\ j.kind \in FailureKinds \cup {"none"} /\ j.change \in Changes \cup {"none"}
        BY <4>2 DEF Jobs
      <4> QED
        BY <4>1, <4>4, <4>5
    <3> QED
      BY <3>1, <3>2 DEF TypeOK
  <2>3. AckFollowsOutputs
    BY <2>1 DEF AckFollowsOutputs, At, JobInv, Clean
  <2>4. RoutedUnpublished
    BY <2>1 DEF RoutedUnpublished, JobInv
  <2> QED
    BY <2>2, <2>3, <2>4 DEF OutputsInv
<1> QED
  BY <1>1, JobsInvHolds, PTL

(* A change is stored only after the outputs of the delivery that made it    *)
(* (Complete::complete commits the state last).                              *)
THEOREM StateIsCommittedLast == Spec => []StateFollowsOutputs
<1>1. JobsInv => StateFollowsOutputs
  BY DEF JobsInv, Built, Clean, StateFollowsOutputs
<1> QED
  BY <1>1, JobsInvHolds, PTL

(* No commit overwrites a change its handler did not see: the entry of       *)
(* memory.rs stays locked from begin to commit.                              *)
THEOREM NoLostUpdate == Spec => []SeesLastCommit
<1>1. JobsInv => SeesLastCommit
  BY DEF JobsInv
<1> QED
  BY <1>1, JobsInvHolds, PTL

-----------------------------------------------------------------------------
(* Redeliveries and revocations, when the deliveries of the state key come   *)
(* from one partition.                                                       *)

OneSource == \A d, e \in Deliveries : PartitionOf[d] = PartitionOf[e]

(* A job's token is of its partition and not of a later assignment; every    *)
(* owner of the entry is such a token.                                       *)
TokensKnown ==
  /\ \A d \in Deliveries :
       job[d].token[1] = PartitionOf[d] /\ job[d].token[2] <= generation[PartitionOf[d]]
  /\ \A t \in entry.owners : \E d \in Deliveries : t[1] = PartitionOf[d]

(* Changes are in the order of their deliveries, up to the entry's position. *)
InOrder ==
  \A i \in 1..Len(entry.value) :
    /\ entry.position # Nobody /\ entry.value[i].of <= entry.position
    /\ \A k \in 1..Len(entry.value) : i < k => entry.value[i].of < entry.value[k].of

(* A value in use is owned by the assignments of all its changes, and a job  *)
(* that is not revoked does not hold a stale one.                            *)
Owned ==
  /\ Stale(entry) \/ \A i \in 1..Len(entry.value) : entry.value[i].token \in entry.owners
  /\ holder # Nobody /\ ~Cancelled(job[holder].token) => ~Stale(entry)

EntryInv == TokensKnown /\ InOrder /\ Owned

LEMMA EntryStart == ASSUME Init PROVE EntryInv
<1>1. entry.value = <<>> /\ entry.owners = {} /\ holder = Nobody
  BY DEF Init, NewEntry
<1>2. ASSUME NEW d \in Deliveries
      PROVE  job[d].token[1] = PartitionOf[d] /\ job[d].token[2] <= generation[PartitionOf[d]]
  <2>1. job[d].token = <<PartitionOf[d], 0>>
    BY DEF Init, NewJob
  <2>2. generation[PartitionOf[d]] = 0
    BY ProcessingAssumption DEF Init
  <2> QED
    BY <2>1, <2>2, SMTT(30)
<1> QED
  BY <1>1, <1>2, SMTT(30) DEF EntryInv, TokensKnown, InOrder, Owned

(* What one job does without touching the entry leaves its owners alone.     *)
LEMMA MovesKeepEntry ==
  ASSUME JobsInv, EntryInv, NEW d \in Deliveries, Moves(d) PROVE EntryInv'
<1>1. PICK j \in Jobs :
        /\ job' = [job EXCEPT ![d] = j] /\ j.token = job[d].token
        /\ Keeps(d, j) \/ GivesBack(d, j)
  BY DEF Moves
<1>2. UNCHANGED <<entry, generation>>
  BY DEF Moves
<1>3. \A e \in Deliveries : job'[e].token = job[e].token
  BY <1>1 DEF JobsInv, Types
<1>4. holder' \in {holder, Nobody} /\ holder \in Deliveries \cup {Nobody}
  BY <1>1 DEF Keeps, GivesBack, Drops, JobsInv, Types
<1>5. TokensKnown'
  BY <1>2, <1>3 DEF EntryInv, TokensKnown
<1>6. InOrder'
  BY <1>2 DEF EntryInv, InOrder
<1>7. Stale(entry)' <=> Stale(entry)
  BY <1>2 DEF Stale, Cancelled
<1>8. holder' # Nobody => holder' = holder /\ job'[holder].token = job[holder].token
  BY <1>3, <1>4
<1>9. Owned'
  BY <1>2, <1>7, <1>8 DEF EntryInv, Owned, Cancelled
<1> QED
  BY <1>5, <1>6, <1>9 DEF EntryInv

LEMMA StartKeepsEntry ==
  ASSUME JobsInv, EntryInv, NEW d \in Deliveries, Start(d) PROVE EntryInv'
<1>1. Types /\ job[d] \in Jobs /\ job[d].pc \in Ended
  BY DEF JobsInv, Types, Start, Active
<1>2. UNCHANGED <<entry, holder, generation>>
  BY DEF Start
<1>3. PICK token : token = <<PartitionOf[d], generation[PartitionOf[d]]>>
  OBVIOUS
<1>4. PICK n : n = NewJob(job[d].run + 1, token)
  OBVIOUS
<1>5. PICK j :
        /\ job' = [job EXCEPT ![d] = j]
        /\ j = [n EXCEPT !.pc = "pre"] \/ j = [n EXCEPT !.pc = "route", !.kind = "Decode"]
  BY <1>3, <1>4 DEF Start
<1>6. j.token = token
  BY <1>4, <1>5 DEF NewJob
<1>7. holder # d
  <2>1. job[d].pc \notin Holding
    BY <1>1 DEF Ended, Holding
  <2> QED
    BY <2>1, ProcessingAssumption DEF JobsInv, Held
<1>8. \A e \in Deliveries : job'[e].token = IF e = d THEN token ELSE job[e].token
  BY <1>1, <1>5, <1>6 DEF Types
<1>9. TokensKnown'
  <2>1. generation[PartitionOf[d]] \in Nat
    BY <1>1, ProcessingAssumption, SMTT(30) DEF Types
  <2>2. token[1] = PartitionOf[d] /\ token[2] = generation[PartitionOf[d]]
    BY <1>3
  <2> QED
    BY <1>2, <1>8, <2>1, <2>2, SMTT(30) DEF EntryInv, TokensKnown
<1>10. InOrder'
  BY <1>2 DEF EntryInv, InOrder
<1>11. Stale(entry)' <=> Stale(entry)
  BY <1>2 DEF Stale, Cancelled
<1>12. holder # Nobody => job'[holder].token = job[holder].token
  BY <1>1, <1>7, <1>8 DEF Types
<1>13. Owned'
  BY <1>2, <1>11, <1>12 DEF EntryInv, Owned, Cancelled
<1> QED
  BY <1>9, <1>10, <1>13 DEF EntryInv

(* The job that takes the entry leaves no stale value in it.                 *)
LEMMA BeginKeepsEntry ==
  ASSUME JobsInv, EntryInv, NEW d \in Deliveries, Begin(d) PROVE EntryInv'
<1>1. Types /\ UNCHANGED generation
  BY DEF JobsInv, Begin
<1>2. \/ entry' = NewEntry
      \/ entry' = entry /\ ~Stale(entry)
  BY DEF Begin
<1>3. \A e \in Deliveries : job'[e].token = job[e].token
  <2>1. job \in [Deliveries -> Jobs] /\ job[d] \in Jobs
    BY <1>1 DEF Types
  <2>2. CASE Goto(d, "post")
    <3>1. job' = [job EXCEPT ![d] = [job[d] EXCEPT !.pc = "post"]]
      BY <2>2 DEF Goto
    <3>2. [job[d] EXCEPT !.pc = "post"].token = job[d].token
      BY <2>1 DEF Jobs
    <3> QED
      BY <2>1, <3>1, <3>2
  <2>3. CASE job' = [job EXCEPT ![d].pc = "handler", ![d].seen = entry'.value]
    <3>1. PICK j : j = [job[d] EXCEPT !.pc = "handler", !.seen = entry'.value]
      OBVIOUS
    <3>2. job' = [job EXCEPT ![d] = j]
      BY <2>1, <2>3, <3>1
    <3>3. j.token = job[d].token
      BY <2>1, <3>1 DEF Jobs
    <3> QED
      BY <2>1, <3>2, <3>3
  <2> QED
    BY <2>2, <2>3 DEF Begin
<1>4. ~Stale(entry)'
  BY <1>1, <1>2, SMTT(30) DEF Stale, Cancelled, NewEntry
<1>5. TokensKnown'
  BY <1>1, <1>2, <1>3, SMTT(30) DEF EntryInv, TokensKnown, NewEntry
<1>6. InOrder'
  BY <1>2, SMTT(30) DEF EntryInv, InOrder, NewEntry
<1>7. \A i \in 1..Len(entry'.value) : entry'.value[i].token \in entry'.owners
  BY <1>2, SMTT(30) DEF EntryInv, Owned, NewEntry
<1>8. Owned'
  BY <1>4, <1>7 DEF Owned
<1> QED
  BY <1>5, <1>6, <1>8 DEF EntryInv

(* A revocation makes the value stale for the jobs it does not revoke.       *)
LEMMA RevokeKeepsEntry ==
  ASSUME OneSource, JobsInv, EntryInv, NEW p \in Partitions, Revoke(p) PROVE EntryInv'
<1>1. Types /\ UNCHANGED <<job, entry, holder>>
  BY DEF JobsInv, Revoke
<1>2. generation' = [generation EXCEPT ![p] = @ + 1] /\ generation \in [Partitions -> Nat]
  BY <1>1, SMTT(30) DEF Revoke, Types
<1>3. \A q \in Partitions : generation'[q] \in Nat /\ generation[q] \in Nat
        /\ generation[q] <= generation'[q] /\ (q # p => generation'[q] = generation[q])
        /\ (q = p => generation'[q] = generation[q] + 1)
  BY <1>2, SMTT(30)
<1>4. \A d \in Deliveries : PartitionOf[d] \in Partitions
  BY ProcessingAssumption
<1>5. \A d \in Deliveries :
        /\ job[d].token \in Tokens /\ job[d].token[2] \in Nat
        /\ job[d].token[1] = PartitionOf[d] /\ job[d].token[2] <= generation[PartitionOf[d]]
  BY <1>1, SMTT(30) DEF EntryInv, TokensKnown, Types, Jobs, Tokens
<1>6. \A t \in entry.owners : t[1] \in Partitions /\ t[2] \in Nat
  BY <1>1, SMTT(30) DEF Types, Tokens
<1>7. TokensKnown'
  <2>1. ASSUME NEW d \in Deliveries PROVE job[d].token[2] <= generation'[PartitionOf[d]]
    BY <1>3, <1>4, <1>5, SMTT(30)
  <2> QED
    BY <1>1, <1>5, <2>1 DEF EntryInv, TokensKnown
<1>8. InOrder'
  BY <1>1 DEF EntryInv, InOrder
<1>9. \A t \in Tokens : Cancelled(t) => Cancelled(t)'
  BY <1>3, SMTT(30) DEF Cancelled, Tokens
<1>10. Stale(entry) => Stale(entry)'
  BY <1>1, <1>9 DEF Stale, Types
<1>11. ASSUME holder # Nobody, ~Cancelled(job[holder].token)' PROVE ~Stale(entry)'
  <2>1. holder \in Deliveries /\ job[holder].token \in Tokens
    BY <1>1, <1>5, <1>11 DEF Types
  <2>2. ~Cancelled(job[holder].token)
    BY <1>1, <1>9, <1>11, <2>1
  <2>3. ~Stale(entry)
    BY <1>11, <2>2 DEF EntryInv, Owned
  <2>4. PartitionOf[holder] # p
    BY <1>1, <1>3, <1>4, <1>5, <1>11, <2>1, SMTT(30) DEF Cancelled
  <2>5. \A t \in entry.owners : t[1] # p
    BY <2>1, <2>4 DEF EntryInv, TokensKnown, OneSource
  <2>6. \A t \in entry.owners : ~(t[2] < generation[t[1]]) /\ generation'[t[1]] = generation[t[1]]
    BY <1>3, <1>6, <2>3, <2>5 DEF Stale, Cancelled
  <2> QED
    BY <1>1, <2>6 DEF Stale, Cancelled
<1>12. Owned'
  BY <1>1, <1>10, <1>11 DEF EntryInv, Owned
<1> QED
  BY <1>7, <1>8, <1>12 DEF EntryInv

(* A commit is of a delivery past the entry's position, and of one that is   *)
(* revoked itself if the value it saw is stale.                              *)
LEMMA CommitKeepsEntry ==
  ASSUME OneSource, JobsInv, EntryInv, NEW d \in Deliveries, Commit(d) PROVE EntryInv'
<1>1. Types /\ job[d] \in Jobs /\ JobInv(job[d], setting) /\ job[d].pc = "commit"
  BY DEF JobsInv, Types, Commit, At
<1>2. UNCHANGED <<setting, generation>>
  BY DEF Commit
<1>3. CASE Fails(d) /\ UNCHANGED entry
  BY <1>2, <1>3, FailsMoves, MovesKeepEntry
<1>4. job' = [job EXCEPT ![d] = [Forgetting(@) EXCEPT !.pc = "ack"]] =>
        \A e \in Deliveries : job'[e].token = job[e].token
  BY <1>1, SMTT(30) DEF Types, Jobs, Forgetting
<1>5. CASE /\ job' = [job EXCEPT ![d] = [Forgetting(@) EXCEPT !.pc = "ack"]]
           /\ Drops(d) /\ UNCHANGED entry
  <2>1. \A e \in Deliveries : job'[e].token = job[e].token
    BY <1>4, <1>5
  <2>2. holder' # Nobody => holder' = holder /\ holder \in Deliveries
    BY <1>1, <1>5 DEF Drops, Types
  <2>3. TokensKnown'
    BY <1>2, <1>5, <2>1 DEF EntryInv, TokensKnown
  <2>4. InOrder'
    BY <1>5 DEF EntryInv, InOrder
  <2>5. Stale(entry)' <=> Stale(entry)
    BY <1>2, <1>5 DEF Stale, Cancelled
  <2>6. Owned'
    BY <1>2, <1>5, <2>1, <2>2, <2>5 DEF EntryInv, Owned, Cancelled
  <2> QED
    BY <2>3, <2>4, <2>6 DEF EntryInv
<1>6. CASE /\ job[d].change \in {"Set", "Clear"}
           /\ entry' = [value |-> Value(d), position |-> d, owners |-> Owners(d)]
           /\ job' = [job EXCEPT ![d] = [Forgetting(@) EXCEPT !.pc = "ack"]]
           /\ Drops(d)
  <2>1. \A e \in Deliveries : job'[e].token = job[e].token
    BY <1>4, <1>6
  <2>2. setting.stateful /\ holder = d /\ job[d].seen = entry.value
    <3>1. setting.stateful
      BY <1>1, <1>6 DEF JobInv
    <3> QED
      BY <1>6, <3>1 DEF JobsInv, SeesLastCommit
  <2>3. holder' = Nobody
    BY <1>6, <2>2 DEF Drops
  <2>4. PICK token : token = job[d].token
    OBVIOUS
  <2>5. PICK c : c = [of |-> d, run |-> job[d].run, token |-> token]
    OBVIOUS
  <2>6. entry.value \in Seq(Change)
    BY <1>1 DEF Types
  <2>7. Value(d) = <<>> \/ Value(d) = Append(entry.value, c)
    BY <2>2, <2>4, <2>5 DEF Value
  <2>8. entry'.value = Value(d) /\ entry'.position = d /\ entry'.owners = Owners(d)
    BY <1>6
  <2>9. token \in Owners(d) /\ \A t \in Owners(d) : t \in entry.owners \/ t = token
    BY <2>4 DEF Owners
  <2>10. TokensKnown'
    <3>1. token[1] = PartitionOf[d]
      BY <2>4 DEF EntryInv, TokensKnown
    <3> QED
      BY <1>2, <2>1, <2>8, <2>9, <3>1 DEF EntryInv, TokensKnown
  <2>11. \A i \in 1..Len(Value(d)) :
           \/ i \in 1..Len(entry.value) /\ Value(d)[i] = entry.value[i]
           \/ i = Len(entry.value) + 1 /\ Len(Value(d)) = i /\ Value(d)[i] = c
    <3>1. CASE Value(d) = <<>>
      BY <3>1, SMTT(30)
    <3>2. CASE Value(d) = Append(entry.value, c)
      BY <2>6, <3>2, SMTT(30)
    <3> QED
      BY <2>7, <3>1, <3>2
  <2>12. Len(entry.value) \in Nat /\ Len(Value(d)) \in Nat
    <3>1. CASE Value(d) = <<>>
      BY <2>6, <3>1, SMTT(30)
    <3>2. CASE Value(d) = Append(entry.value, c)
      BY <2>6, <3>2, SMTT(30)
    <3> QED
      BY <2>7, <3>1, <3>2
  <2>13. InOrder'
    <3>1. ASSUME NEW i \in 1..Len(entry.value) PROVE entry.value[i].of < d
      <4>1. entry.position # Nobody /\ entry.value[i].of <= entry.position
        BY DEF EntryInv, InOrder
      <4>2. entry.position \in Deliveries /\ entry.value[i] \in Change
        BY <1>1, <4>1, SMTT(30) DEF Types
      <4>3. entry.value[i].of \in Deliveries
        BY <4>2 DEF Change
      <4>4. ~Covered(d, entry)
        BY <2>2, ProcessingAssumption DEF JobsInv, Held
      <4>5. ~(d <= entry.position)
        BY <4>1, <4>2, <4>4 DEF Covered, OneSource
      <4>6. entry.position \in Nat /\ entry.value[i].of \in Nat /\ d \in Nat
        BY <4>2, <4>3, ProcessingAssumption
      <4> QED
        BY <4>1, <4>5, <4>6, SMTT(30)
    <3>2. d # Nobody /\ c.of = d /\ d \in Nat
      BY <2>5, ProcessingAssumption
    <3>3. ASSUME NEW i \in 1..Len(Value(d)) PROVE Value(d)[i].of <= d
      <4>1. CASE i \in 1..Len(entry.value) /\ Value(d)[i] = entry.value[i]
        <5>1. entry.value[i] \in Change
          BY <2>6, <4>1, SMTT(30)
        <5>2. entry.value[i].of \in Nat
          BY <5>1, ProcessingAssumption DEF Change
        <5> QED
          BY <3>1, <3>2, <4>1, <5>2, SMTT(30)
      <4>2. CASE Value(d)[i] = c
        BY <3>2, <4>2, SMTT(30)
      <4> QED
        BY <2>11, <4>1, <4>2
    <3>4. ASSUME NEW i \in 1..Len(Value(d)), NEW k \in 1..Len(Value(d)), i < k
          PROVE  Value(d)[i].of < Value(d)[k].of
      <4>1. i \in 1..Len(entry.value) /\ Value(d)[i] = entry.value[i]
        BY <2>11, <2>12, <3>4, SMTT(30)
      <4>2. CASE k \in 1..Len(entry.value) /\ Value(d)[k] = entry.value[k]
        BY <3>4, <4>1, <4>2 DEF EntryInv, InOrder
      <4>3. CASE Value(d)[k] = c
        BY <3>1, <3>2, <4>1, <4>3
      <4> QED
        BY <2>11, <4>2, <4>3
    <3> QED
      BY <2>8, <3>2, <3>3, <3>4 DEF InOrder
  <2>14. Owned'
    <3>1. CASE Cancelled(token)
      <4>1. Stale(entry)'
        BY <1>2, <2>8, <2>9, <3>1 DEF Stale, Cancelled
      <4> QED
        BY <2>3, <4>1 DEF Owned
    <3>2. CASE ~Cancelled(token)
      <4>1. ~Stale(entry)
        BY <2>2, <2>4, <3>2, ProcessingAssumption DEF EntryInv, Owned
      <4>2. entry.owners \subseteq Owners(d)
        BY <4>1 DEF Owners, Orphaned, Stale
      <4>3. ASSUME NEW i \in 1..Len(Value(d)) PROVE Value(d)[i].token \in Owners(d)
        <5>1. CASE i \in 1..Len(entry.value) /\ Value(d)[i] = entry.value[i]
          BY <4>1, <4>2, <5>1 DEF EntryInv, Owned
        <5>2. CASE Value(d)[i] = c
          BY <2>5, <2>9, <5>2, SMTT(30)
        <5> QED
          BY <2>11, <5>1, <5>2
      <4> QED
        BY <2>3, <2>8, <4>3 DEF Owned
    <3> QED
      BY <3>1, <3>2
  <2> QED
    BY <2>10, <2>13, <2>14 DEF EntryInv
<1> QED
  BY <1>3, <1>5, <1>6 DEF Commit

LEMMA EntryStep ==
  ASSUME OneSource, JobsInv, EntryInv, [Next]_vars PROVE EntryInv'
<1>1. CASE UNCHANGED vars
  BY <1>1 DEF vars, EntryInv, TokensKnown, InOrder, Owned, Stale, Cancelled
<1>2. CASE \E p \in Partitions : Revoke(p)
  BY <1>2, RevokeKeepsEntry
<1>3. ASSUME NEW d \in Deliveries, Step(d) PROVE EntryInv'
  <2>1. CASE Begin(d)
    BY <2>1, BeginKeepsEntry
  <2>2. CASE Commit(d)
    BY <2>2, CommitKeepsEntry
  <2>3. CASE \/ PreHandler(d) \/ Attempt(d) \/ Handler(d) \/ Finish(d) \/ Prepare(d)
             \/ Submit(d) \/ Submitted(d) \/ Await(d) \/ Drain(d) \/ Acknowledge(d)
             \/ Route(d) \/ DeadLetter(d)
    <3>1. Moves(d)
      BY <2>3, PreHandlerMoves, AttemptMoves, HandlerMoves, FinishMoves, SubmitMoves,
         SubmittedMoves, AwaitMoves, AcknowledgeMoves, RouteMoves
    <3> QED
      BY <3>1, MovesKeepEntry
  <2> QED
    BY <1>3, <2>1, <2>2, <2>3 DEF Step
<1>4. ASSUME NEW d \in Deliveries, Start(d) \/ SinkResolves(d) \/ Abandon(d) PROVE EntryInv'
  <2>1. CASE Start(d)
    BY <2>1, StartKeepsEntry
  <2>2. CASE SinkResolves(d) \/ Abandon(d)
    BY <2>2, SinkResolvesMoves, AbandonMoves, MovesKeepEntry
  <2> QED
    BY <1>4, <2>1, <2>2
<1> QED
  BY <1>1, <1>2, <1>3, <1>4 DEF Next

(* With one partition behind a state key, the value is built in the order of *)
(* the deliveries and every assignment it comes from is among its owners.    *)
THEOREM EntryInvHolds == ASSUME OneSource PROVE Spec => []EntryInv
<1>1. Init => EntryInv
  BY EntryStart
<1>2. JobsInv /\ EntryInv /\ [Next]_vars => EntryInv'
  BY EntryStep, OneSource
<1> QED
  BY <1>1, <1>2, JobsInvHolds, PTL DEF Spec

(* However often a delivery of that partition arrives, its change is applied *)
(* once (begin skips what the entry covers and empties a stale entry).       *)
THEOREM ChangesApplyOnce == ASSUME OneSource PROVE Spec => []AppliedOnce
<1>1. JobsInv /\ EntryInv => AppliedOnce
  <2> SUFFICES ASSUME JobsInv, EntryInv, NEW i \in 1..Len(entry.value),
                      NEW k \in 1..Len(entry.value), entry.value[i].of = entry.value[k].of
               PROVE  i = k
    BY DEF AppliedOnce
  <2>1. entry.value \in Seq(Change) /\ Deliveries \subseteq Nat
    BY ProcessingAssumption DEF JobsInv, Types
  <2>2. entry.value[i] \in Change
    BY <2>1, SMTT(30)
  <2>3. entry.value[i].of \in Nat /\ i \in Nat /\ k \in Nat
    <3>1. entry.value[i].of \in Deliveries
      BY <2>2 DEF Change
    <3>2. Len(entry.value) \in Nat
      BY <2>1, SMTT(30)
    <3>3. entry.value[i].of \in Nat
      BY <2>1, <3>1
    <3>4. \A n \in Nat : \A x \in 1..n : x \in Nat
      BY SMTT(30)
    <3> QED
      BY <3>2, <3>3, <3>4
  <2>4. /\ i < k => entry.value[i].of < entry.value[k].of
        /\ k < i => entry.value[k].of < entry.value[i].of
    BY DEF EntryInv, InOrder
  <2>5. ~(i < k) /\ ~(k < i)
    BY <2>3, <2>4, SMTT(30)
  <2> QED
    BY <2>3, <2>5, SMTT(30)
<1> QED
  BY <1>1, JobsInvHolds, EntryInvHolds, OneSource, PTL

(* A value that holds a change of a revoked assignment is never used again   *)
(* (memory.rs, Entry::owners).                                               *)
THEOREM RevokedIsNotUsed == ASSUME OneSource PROVE Spec => []RevokedIsStale
<1>1. EntryInv => RevokedIsStale
  BY DEF EntryInv, Owned, RevokedIsStale, Stale
<1> QED
  BY <1>1, EntryInvHolds, OneSource, PTL

=============================================================================
