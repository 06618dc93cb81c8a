------------------------------ MODULE Processing ------------------------------
(***************************************************************************)
(* One decoded delivery from the handler to its acknowledgement              *)
(* (src/subscription/processing.rs and completion.rs): middleware, handler   *)
(* attempts, preparing and submitting the outputs, failure routing, the      *)
(* state commit and the ACK; together with the store its handler keeps state *)
(* in (src/state/memory.rs).  The jobs of several deliveries run             *)
(* concurrently and meet at the store's entry, which one of them holds from  *)
(* `begin` until `commit`.                                                   *)
(*                                                                           *)
(* The stored value is the sequence of the changes that built it, each with  *)
(* the delivery that made it and the assignment that delivery came from.     *)
(* Every delivery here has the same state key, so they share a lane: a job   *)
(* starts when the jobs before it have ended, though their acknowledgements  *)
(* may still wait for the sink.                                              *)
(***************************************************************************)
EXTENDS Integers, Sequences, FiniteSets, FiniteSetsExt

CONSTANTS
  Deliveries,       \* deliveries, by the offset they have in their partition
  Partitions,       \* partitions of the source
  PartitionOf,      \* delivery -> its partition
  OutputCounts,     \* how many outputs a handler may return
  HandlerAttempts,  \* handler_retry.max_attempts
  PublishAttempts,  \* publish_retry and dead_letter_retry max_attempts
  Settings,         \* subscriptions to consider
  MaxStarts,        \* bound: jobs started, redeliveries included
  MaxRevokes,       \* bound: revocations of one partition
  Nobody            \* no job

FailureKinds == {"Decode", "Rejected", "RetryExhausted", "Encode", "PublishRejected"}
FailureActions == {"Stop", "DeadLetter", "Discard"}

ASSUME ProcessingAssumption ==
  /\ Deliveries \subseteq Nat
  /\ PartitionOf \in [Deliveries -> Partitions]
  /\ OutputCounts \subseteq Nat
  /\ {HandlerAttempts, PublishAttempts, MaxStarts} \subseteq Nat \ {0}
  /\ MaxRevokes \in Nat
  /\ Nobody \notin Deliveries

(* ErrorPolicy::default and ErrorPolicy::dead_letter_all.                    *)
DefaultPolicy ==
  [k \in FailureKinds |-> IF k \in {"Decode", "Encode"} THEN "Stop" ELSE "DeadLetter"]
DeadLetterAll == [k \in FailureKinds |-> "DeadLetter"]

(* Validation refuses to dead-letter what no handler saw without a sink.     *)
Validate(s) == s.dlq \/ \A k \in {"Decode", "Encode"} : s.policy[k] # "DeadLetter"

VARIABLES
  setting,     \* error policy, dead-letter sink, stateful handler
  job,         \* delivery -> its job
  entry,       \* the store's entry: value, position, owners
  holder,      \* the job that holds the entry's lock
  generation   \* partition -> number of its current assignment

vars == <<setting, job, entry, holder, generation>>

Ended == {"idle", "acked", "failed", "abandoned"}
Stages == Ended \cup {"pre", "handle", "entry", "handler", "post", "prepare", "submit", "drain",
                      "await", "commit", "route", "dead letter", "ack"}
Changes == {"Unchanged", "Set", "Clear", "Kept"}

Tokens == Partitions \X (0..MaxRevokes)
NewEntry == [value |-> <<>>, position |-> Nobody, owners |-> {}]

(* `outputs` the handler returned, the `sent` first of them are submitted;   *)
(* `open` are accepted but not complete and `broken` will fail to.  A job    *)
(* is `detached` once only its acknowledgement is left to run.               *)
NewJob(run, token) ==
  [pc |-> "idle", run |-> run, token |-> token, attempts |-> 0, tries |-> 0,
   outputs |-> 0, sent |-> 0, open |-> {}, broken |-> {}, kind |-> "none",
   change |-> "none", seen |-> <<>>, dead |-> FALSE, detached |-> FALSE]

Init ==
  /\ setting \in {s \in Settings : Validate(s)}
  /\ job = [d \in Deliveries |-> NewJob(0, <<PartitionOf[d], 0>>)]
  /\ entry = NewEntry
  /\ holder = Nobody
  /\ generation = [p \in Partitions |-> 0]

Active(d) == job[d].pc \notin Ended
Cancelled(t) == t[2] < generation[t[1]]

(* The source drops its token when it cancels it; a started job keeps one.   *)
Orphaned(t) == Cancelled(t) /\ \A d \in Deliveries : Active(d) => job[d].token # t

-----------------------------------------------------------------------------
(* Moving a job on.  A transaction that is dropped gives the lock back and   *)
(* forgets the change.                                                       *)

At(d, pc) == job[d].pc = pc
Goto(d, pc) == job' = [job EXCEPT ![d].pc = pc]
Drops(d) == holder' = IF holder = d THEN Nobody ELSE holder
Forgetting(j) == [j EXCEPT !.change = "none", !.seen = <<>>]
Over(d, pc) == [NewJob(job[d].run, job[d].token) EXCEPT !.pc = pc]

(* The job ends with an error, which counts for nothing once the delivery    *)
(* is revoked.                                                               *)
Fails(d) ==
  /\ job' = [job EXCEPT ![d] = Over(d, IF Cancelled(@.token) THEN "abandoned" ELSE "failed")]
  /\ Drops(d)

Routes(d, kind) ==
  /\ job' = [job EXCEPT ![d] = [Forgetting(@) EXCEPT !.pc = "route", !.kind = kind,
                                                   !.attempts = 0, !.tries = 0]]
  /\ Drops(d)

(* The job is dropped: its delivery is revoked, or draining timed out.       *)
Abandon(d) ==
  /\ Active(d)
  /\ job' = [job EXCEPT ![d] = Over(d, "abandoned")]
  /\ Drops(d)
  /\ UNCHANGED <<setting, entry, generation>>

-----------------------------------------------------------------------------
(* The source, outside this module: it delivers a partition in order,        *)
(* delivers again what was not acknowledged, and may take the partition away.*)

LaneFree == \A d \in Deliveries : Active(d) => job[d].detached

Starts == MapThenSumSet(LAMBDA e : job[e].run, Deliveries)

Start(d) ==
  /\ ~Active(d)
  /\ LaneFree
  /\ \A e \in Deliveries : e < d /\ PartitionOf[e] = PartitionOf[d] => job[e].run > 0
  /\ ~At(d, "acked") \/ Cancelled(job[d].token)
  /\ Starts < MaxStarts
  /\ LET fresh == NewJob(job[d].run + 1, <<PartitionOf[d], generation[PartitionOf[d]]>>)
     IN \/ job' = [job EXCEPT ![d] = [fresh EXCEPT !.pc = "pre"]]
        \/ job' = [job EXCEPT ![d] = [fresh EXCEPT !.pc = "route", !.kind = "Decode"]]
  /\ UNCHANGED <<setting, entry, holder, generation>>

Revoke(p) ==
  /\ generation[p] < MaxRevokes
  /\ generation' = [generation EXCEPT ![p] = @ + 1]
  /\ UNCHANGED <<setting, job, entry, holder>>

-----------------------------------------------------------------------------
(* Middleware and handler.                                                   *)

PreHandler(d) ==
  /\ At(d, "pre")
  /\ \/ Goto(d, "handle") /\ UNCHANGED holder
     \/ \E n \in OutputCounts :
          job' = [job EXCEPT ![d].pc = "post", ![d].outputs = n] /\ UNCHANGED holder
     \/ Routes(d, "Rejected")
     \/ Fails(d)
  /\ UNCHANGED <<setting, entry, generation>>

Stale(e) == \E t \in e.owners : Cancelled(t)

(* Mutant: a delivery is not covered by its own commit.                      *)
CoveredBefore(d, e) ==
  e.position # Nobody /\ PartitionOf[d] = PartitionOf[e.position] /\ d < e.position

Covered(d, e) ==
  e.position # Nobody /\ PartitionOf[d] = PartitionOf[e.position] /\ d <= e.position

(* An attempt begins.  A handler without state runs at once; a delivery      *)
(* without a state key is rejected; the others need the entry.               *)
Attempt(d) ==
  /\ At(d, "handle")
  /\ \/ /\ job' = [job EXCEPT ![d].attempts = @ + 1,
                              ![d].pc = IF setting.stateful THEN "entry" ELSE "handler"]
        /\ UNCHANGED holder
     \/ setting.stateful /\ Routes(d, "Rejected")
  /\ UNCHANGED <<setting, entry, generation>>

(* Mutant: the job does not wait for the entry.                              *)
BeginUnlocked(d) ==
  /\ At(d, "entry")
  /\ job' = [job EXCEPT ![d].pc = "handler", ![d].seen = entry.value]
  /\ holder' = d
  /\ UNCHANGED <<setting, entry, generation>>

(* The job takes the entry, empties it if it is stale, and skips the handler *)
(* if the entry covers the delivery.                                         *)
Begin(d) ==
  /\ At(d, "entry")
  /\ holder = Nobody
  /\ entry' = IF Stale(entry) THEN NewEntry ELSE entry
  /\ IF Covered(d, entry')
     THEN Goto(d, "post") /\ UNCHANGED holder
     ELSE /\ job' = [job EXCEPT ![d].pc = "handler", ![d].seen = entry'.value]
          /\ holder' = d
  /\ UNCHANGED <<setting, generation>>

(* Mutant: the transaction outlives its attempt.                             *)
RetriesHolding(d) ==
  IF job[d].attempts >= HandlerAttempts
  THEN Routes(d, "RetryExhausted")
  ELSE Goto(d, "handle") /\ UNCHANGED holder

(* The handler asks for another attempt; the transaction of this one is      *)
(* dropped.                                                                  *)
Retries(d) ==
  IF job[d].attempts >= HandlerAttempts
  THEN Routes(d, "RetryExhausted")
  ELSE job' = [job EXCEPT ![d] = [Forgetting(@) EXCEPT !.pc = "handle"]] /\ Drops(d)

Handler(d) ==
  /\ At(d, "handler")
  /\ \/ \E n \in OutputCounts :
          /\ \/ setting.stateful /\ \E c \in Changes :
                  job' = [job EXCEPT ![d].pc = "post", ![d].attempts = 0,
                                     ![d].outputs = n, ![d].change = c]
             \/ /\ ~setting.stateful
                /\ job' = [job EXCEPT ![d].pc = "post", ![d].attempts = 0, ![d].outputs = n]
          /\ UNCHANGED holder
     \/ Retries(d)
     \/ Routes(d, "Rejected")
     \/ Fails(d)
  /\ UNCHANGED <<setting, entry, generation>>

(* Post-handler hooks see every output before any is prepared.               *)
Finish(d) ==
  /\ At(d, "post")
  /\ \/ Goto(d, "prepare") /\ UNCHANGED holder
     \/ job[d].outputs > 0 /\ (Routes(d, "Rejected") \/ Fails(d))
  /\ UNCHANGED <<setting, entry, generation>>

-----------------------------------------------------------------------------
(* Publishing.                                                               *)

(* All outputs are prepared first, so a failure to encode publishes nothing. *)
Prepare(d) ==
  /\ At(d, "prepare")
  /\ \/ Goto(d, "submit") /\ UNCHANGED holder
     \/ job[d].outputs > 0 /\ Routes(d, "Encode")
  /\ UNCHANGED <<setting, entry, generation>>

(* A publication fails and is tried again with the same prepared output.     *)
PublishFails(d) ==
  IF job[d].tries + 1 >= PublishAttempts
  THEN Fails(d)
  ELSE job' = [job EXCEPT ![d].tries = @ + 1] /\ UNCHANGED holder

(* The next output is submitted: done, accepted, refused for good, or failed.*)
Submit(d) ==
  /\ At(d, "submit")
  /\ job[d].sent < job[d].outputs
  /\ LET o == job[d].sent + 1
     IN \/ job' = [job EXCEPT ![d].sent = o, ![d].tries = 0] /\ UNCHANGED holder
        \/ /\ job' = [job EXCEPT ![d].sent = o, ![d].tries = 0, ![d].open = @ \cup {o}]
           /\ UNCHANGED holder
        \/ Goto(d, "drain") /\ UNCHANGED holder
        \/ PublishFails(d)
  /\ UNCHANGED <<setting, entry, generation>>

(* Mutant: the change is committed while outputs are open.                   *)
SubmittedCommits(d) ==
  /\ At(d, "submit")
  /\ job[d].sent = job[d].outputs
  /\ Goto(d, "commit")
  /\ UNCHANGED <<setting, entry, holder, generation>>

(* Every output is submitted: the job ends here if some are still open.      *)
Submitted(d) ==
  /\ At(d, "submit")
  /\ job[d].sent = job[d].outputs
  /\ IF job[d].open = {}
     THEN Goto(d, "commit")
     ELSE job' = [job EXCEPT ![d].pc = "await", ![d].detached = TRUE]
  /\ UNCHANGED <<setting, entry, holder, generation>>

(* The sink, outside this module, completes an output or fails to.           *)
SinkResolves(d) ==
  /\ \E o \in job[d].open \ job[d].broken :
       \/ job' = [job EXCEPT ![d].open = @ \ {o}]
       \/ job' = [job EXCEPT ![d].broken = @ \cup {o}]
  /\ UNCHANGED <<setting, entry, holder, generation>>

(* Completions are awaited in the order of the outputs.                      *)
FirstOpenIsBroken(d) ==
  \E o \in job[d].broken : \A q \in job[d].open : o <= q

Await(d) ==
  /\ At(d, "await")
  /\ \/ job[d].open = {} /\ Goto(d, "commit") /\ UNCHANGED holder
     \/ FirstOpenIsBroken(d) /\ Fails(d)
  /\ UNCHANGED <<setting, entry, generation>>

(* Mutant: a refused output is routed at once.                               *)
DrainAtOnce(d) ==
  /\ At(d, "drain")
  /\ Routes(d, "PublishRejected")
  /\ UNCHANGED <<setting, entry, generation>>

(* A refused output is routed once the outputs before it are complete.       *)
Drain(d) ==
  /\ At(d, "drain")
  /\ \/ job[d].open = {} /\ Routes(d, "PublishRejected")
     \/ FirstOpenIsBroken(d) /\ Fails(d)
  /\ UNCHANGED <<setting, entry, generation>>

-----------------------------------------------------------------------------
(* State commit and acknowledgement.                                         *)

(* Mutant: the entry remembers its latest owner only when it had none.       *)
OwnersOnce(d) == IF entry.owners = {} THEN {job[d].token} ELSE {}

Owners(d) == {t \in entry.owners : ~Orphaned(t)} \cup {job[d].token}

Value(d) ==
  IF job[d].change = "Clear" THEN <<>>
  ELSE Append(job[d].seen, [of |-> d, run |-> job[d].run, token |-> job[d].token])

Commit(d) ==
  /\ At(d, "commit")
  /\ \/ job[d].change = "Kept" /\ Fails(d) /\ UNCHANGED entry
     \/ /\ job[d].change \in {"none", "Unchanged"}
        /\ job' = [job EXCEPT ![d] = [Forgetting(@) EXCEPT !.pc = "ack"]]
        /\ Drops(d)
        /\ UNCHANGED entry
     \/ /\ job[d].change \in {"Set", "Clear"}
        /\ entry' = [value |-> Value(d), position |-> d, owners |-> Owners(d)]
        /\ job' = [job EXCEPT ![d] = [Forgetting(@) EXCEPT !.pc = "ack"]]
        /\ Drops(d)
  /\ UNCHANGED <<setting, generation>>

Acknowledge(d) ==
  /\ At(d, "ack")
  /\ \/ job' = [job EXCEPT ![d] = Over(d, "acked")] /\ UNCHANGED holder
     \/ Fails(d)
  /\ UNCHANGED <<setting, entry, generation>>

-----------------------------------------------------------------------------
(* Failure routing.                                                          *)

Route(d) ==
  /\ At(d, "route")
  /\ LET action == setting.policy[job[d].kind]
     IN \/ action = "Discard" /\ Goto(d, "ack") /\ UNCHANGED holder
        \/ /\ action = "DeadLetter" /\ setting.dlq
           /\ Goto(d, "dead letter")
           /\ UNCHANGED holder
        \/ action = "Stop" /\ Fails(d)
        \/ action = "DeadLetter" /\ ~setting.dlq /\ Fails(d)
  /\ UNCHANGED <<setting, entry, generation>>

(* Converting or preparing the dead letter fails, or publishing it succeeds, *)
(* fails, or is refused for good; no failure here is routed again.           *)
DeadLetter(d) ==
  /\ At(d, "dead letter")
  /\ \/ job' = [job EXCEPT ![d].pc = "ack", ![d].dead = TRUE, ![d].tries = 0]
        /\ UNCHANGED holder
     \/ PublishFails(d)
     \/ Fails(d)
  /\ UNCHANGED <<setting, entry, generation>>

-----------------------------------------------------------------------------
Step(d) ==
  \/ PreHandler(d) \/ Attempt(d) \/ Begin(d) \/ Handler(d) \/ Finish(d) \/ Prepare(d)
  \/ Submit(d) \/ Submitted(d) \/ Await(d) \/ Drain(d)
  \/ Commit(d) \/ Acknowledge(d) \/ Route(d) \/ DeadLetter(d)

Next ==
  \/ \E d \in Deliveries : Start(d) \/ Step(d) \/ SinkResolves(d) \/ Abandon(d)
  \/ \E p \in Partitions : Revoke(p)

(* Handlers return, sinks resolve what they accepted, and tokio runs a job   *)
(* that can go on.                                                           *)
Fairness == WF_vars(\E d \in Deliveries : Step(d) \/ SinkResolves(d))

Spec == Init /\ [][Next]_vars /\ Fairness

-----------------------------------------------------------------------------
(* Properties.                                                               *)

(* The variables have their types: attempts stay within the retry policies   *)
(* of processing.rs.                                                         *)
TypeOK ==
  /\ setting \in Settings
  /\ holder \in Deliveries \cup {Nobody}
  /\ generation \in [Partitions -> 0..MaxRevokes]
  /\ entry.position \in Deliveries \cup {Nobody}
  /\ entry.owners \subseteq Tokens
  /\ \A d \in Deliveries :
       LET j == job[d]
       IN /\ j.pc \in Stages /\ j.run \in Nat /\ j.token \in Tokens
          /\ j.attempts \in 0..HandlerAttempts /\ j.tries \in 0..(PublishAttempts - 1)
          /\ j.outputs \in OutputCounts \cup {0} /\ j.sent \in 0..j.outputs
          /\ j.open \subseteq 1..j.sent /\ j.broken \subseteq j.open
          /\ j.kind \in FailureKinds \cup {"none"} /\ j.change \in Changes \cup {"none"}

(* When a delivery is acknowledged nothing is lost: whatever it submitted    *)
(* reached the sink's boundary, and unless its failure was dead-lettered, or *)
(* discarded as the policy says, that is all its outputs (completion.rs      *)
(* waits, also before it has a refused output routed).                       *)
AckFollowsOutputs ==
  \A d \in Deliveries : At(d, "ack") =>
    /\ job[d].open = {}
    /\ \/ job[d].kind = "none" /\ job[d].sent = job[d].outputs
       \/ job[d].dead
       \/ job[d].kind # "none" /\ setting.policy[job[d].kind] = "Discard"

(* A change is stored only after the outputs of the delivery that made it,   *)
(* and never for one routed as a failure (Complete::complete).               *)
StateFollowsOutputs ==
  \A i \in 1..Len(entry.value) :
    LET c == entry.value[i]
    IN c.run = job[c.of].run =>
         /\ job[c.of].kind = "none"
         /\ job[c.of].sent = job[c.of].outputs
         /\ job[c.of].open = {}

(* What is routed before the sink refused an output has published nothing:   *)
(* handler, middleware and encoding are through with every output before the *)
(* first is submitted (finish, prepare).                                     *)
RoutedUnpublished ==
  \A d \in Deliveries :
    job[d].kind \in FailureKinds \ {"PublishRejected"} => job[d].sent = 0

(* An acknowledgement stands for outputs that are published or accounted     *)
(* for, at every stage of a job: the two properties above, with the types.   *)
OutputsInv == TypeOK /\ AckFollowsOutputs /\ RoutedUnpublished

(* However often a delivery arrives, a value in use holds its change once    *)
(* (begin skips a delivery the entry covers and empties a stale entry).      *)
AppliedOnce ==
  Stale(entry) \/ \A i, k \in 1..Len(entry.value) :
    entry.value[i].of = entry.value[k].of => i = k

(* A job works on the value the last commit left, so no commit overwrites a  *)
(* change its handler did not see (the entry stays locked until commit).     *)
SeesLastCommit ==
  \A d \in Deliveries :
    setting.stateful /\ (At(d, "handler") \/ job[d].change # "none") =>
      holder = d /\ job[d].seen = entry.value

(* A value any part of which comes from a partition since revoked is stale:  *)
(* the next use starts from the default (memory.rs, Entry::owners).          *)
RevokedIsStale ==
  (\E i \in 1..Len(entry.value) : Cancelled(entry.value[i].token)) => Stale(entry)

(* Every job comes to an end; none waits for ever for the entry.             *)
JobEnds == \A d \in Deliveries : Active(d) ~> ~Active(d)
=============================================================================
