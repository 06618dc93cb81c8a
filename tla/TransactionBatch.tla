--------------------------- MODULE TransactionBatch ---------------------------
(***************************************************************************)
(* A transactional subscription: jobs enlist their deliveries with the       *)
(* batcher (src/subscription/transaction.rs), whose committer task commits   *)
(* one batch at a time through the sink, and the Kafka sink commits the      *)
(* batch's outputs together with the offset after the last delivery of each  *)
(* partition (src/adapters/kafka/transaction.rs).                            *)
(*                                                                           *)
(* Deliveries are numbered in receive order, and the number serves as the    *)
(* offset.  A delivery's job and the acknowledgement that follows it are one *)
(* process here, since both only wait: for the earlier deliveries of the     *)
(* lane, for room in the channel, for the result of the batch.               *)
(***************************************************************************)
EXTENDS Integers, Sequences, FiniteSets, FiniteSetsExt

CONSTANTS
  N,             \* bound: deliveries received
  Scopes,        \* ordering scopes of the source (topic partitions)
  ScopeOf,       \* delivery -> its scope
  Undecodable,   \* deliveries that fail to decode and are discarded or
                 \* dead-lettered by the error policy
  MaxBatch,      \* TransactionBatch::max_deliveries
  MaxAttempts,   \* publish_retry.max_attempts
  Aborts         \* whether draining may time out

ASSUME BatchAssumption ==
  /\ N \in Nat
  /\ ScopeOf \in [1..N -> Scopes]
  /\ Undecodable \subseteq 1..N
  /\ MaxBatch \in Nat \ {0}
  /\ MaxAttempts \in Nat \ {0}
  /\ Aborts \in BOOLEAN

VARIABLES
  stage,       \* delivery -> where its job or acknowledgement is
  answer,      \* delivery -> what its oneshot channel holds
  queue,       \* the channel between the jobs and the committer
  members,     \* the batch being collected or committed, as a set
  cpc,         \* where the committer is
  attempt,     \* commit attempts of this batch, revocations not counted
  failure,     \* a batch has failed
  revoked,     \* scopes the source has lost
  stopping,    \* no further delivery starts
  aborting,    \* draining timed out
  position,    \* broker: scope -> committed offset
  published,   \* broker: deliveries whose outputs are visible
  refusals     \* history: failed attempts of this batch that no revocation caused

vars == <<stage, answer, queue, members, cpc, attempt, failure, revoked, stopping,
          aborting, position, published, refusals>>

Ids == 1..N
Stages == {"unstarted", "job", "enlisted", "acked", "failed", "dropped"}
jobVars == <<stage, stopping>>
batchVars == <<members, cpc, attempt, failure, refusals>>
brokerVars == <<position, published>>
sourceVars == <<revoked, aborting>>

Init ==
  /\ stage = [d \in Ids |-> "unstarted"]
  /\ answer = [d \in Ids |-> "none"]
  /\ queue = <<>>
  /\ members = {}
  /\ cpc = "recv"
  /\ attempt = 1
  /\ failure = FALSE
  /\ revoked = {}
  /\ stopping = FALSE
  /\ aborting = FALSE
  /\ position = [s \in Scopes |-> 0]
  /\ published = {}
  /\ refusals = 0

-----------------------------------------------------------------------------
(* Jobs.  A delivery waits for the earlier ones of its lane, which is its    *)
(* scope, until their jobs have ended; one that failed to decode has no lane.*)

LaneFree(d) ==
  d \in Undecodable \/
  \A e \in 1..(d - 1) : ScopeOf[e] = ScopeOf[d] /\ e \notin Undecodable =>
                          stage[e] \in {"enlisted", "acked", "dropped"}

(* Job slots go to the ready deliveries in order, and one that never waited  *)
(* for its lane has been ready since it was received.                        *)
InTurn(d) ==
  \A e \in 1..(d - 1) : stage[e] = "unstarted" =>
    /\ e \notin Undecodable
    /\ \E c \in 1..(e - 1) : ScopeOf[c] = ScopeOf[e] /\ c \notin Undecodable

Start(d) ==
  /\ stage[d] = "unstarted"
  /\ ~stopping
  /\ LaneFree(d)
  /\ InTurn(d)
  /\ stage' = [stage EXCEPT ![d] = "job"]
  /\ UNCHANGED <<stopping, answer, queue, batchVars, sourceVars, brokerVars>>

(* Transact::complete: the prepared outputs are enlisted once the channel    *)
(* has room.  The batcher is closed only after the last job has ended.       *)
Enlist(d) ==
  /\ stage[d] = "job"
  /\ Len(queue) < MaxBatch
  /\ queue' = Append(queue, d)
  /\ stage' = [stage EXCEPT ![d] = "enlisted"]
  /\ UNCHANGED <<stopping, answer, batchVars, sourceVars, brokerVars>>

(* The handler fails or the failure policy stops the subscription.           *)
JobFails(d) ==
  /\ stage[d] = "job"
  /\ ScopeOf[d] \notin revoked
  /\ stage' = [stage EXCEPT ![d] = "failed"]
  /\ stopping' = TRUE
  /\ UNCHANGED <<answer, queue, batchVars, sourceVars, brokerVars>>

(* await_commit, inside abandon_on_revocation: an error counts as a failure  *)
(* of the subscription only while the delivery is not revoked.               *)
Answered(d) ==
  /\ stage[d] = "enlisted"
  /\ answer[d] # "none"
  /\ ScopeOf[d] \notin revoked
  /\ stage' = [stage EXCEPT ![d] = IF answer[d] = "ok" THEN "acked" ELSE "failed"]
  /\ stopping' = (stopping \/ answer[d] # "ok")
  /\ UNCHANGED <<answer, queue, batchVars, sourceVars, brokerVars>>

(* A task is dropped: its delivery was revoked, or draining timed out and    *)
(* the runtime aborts one task after the other.                              *)
DropTask(d) ==
  /\ stage[d] \in {"job", "enlisted"}
  /\ ScopeOf[d] \in revoked \/ aborting
  /\ stage' = [stage EXCEPT ![d] = "dropped"]
  /\ UNCHANGED <<stopping, answer, queue, batchVars, sourceVars, brokerVars>>

-----------------------------------------------------------------------------
(* Committer::run.                                                           *)

RecvFirst ==
  /\ cpc = "recv"
  /\ queue # <<>>
  /\ members' = {Head(queue)}
  /\ queue' = Tail(queue)
  /\ cpc' = "collect"
  /\ UNCHANGED <<attempt, failure, refusals, jobVars, answer, sourceVars, brokerVars>>

RecvMore ==
  /\ cpc = "collect"
  /\ Cardinality(members) < MaxBatch
  /\ queue # <<>>
  /\ members' = members \cup {Head(queue)}
  /\ queue' = Tail(queue)
  /\ UNCHANGED <<cpc, attempt, failure, refusals, jobVars, answer, sourceVars, brokerVars>>

(* Mutant: later batches commit although an earlier one failed.              *)
BatchClosesAnyway ==
  /\ cpc = "collect"
  /\ Cardinality(members) = MaxBatch \/ queue = <<>>
  /\ attempt' = 1
  /\ refusals' = 0
  /\ cpc' = "retain"
  /\ UNCHANGED <<members, failure, jobVars, answer, queue, sourceVars, brokerVars>>

(* The batch is full, or its linger has passed or the channel is closed      *)
(* while nothing more is queued.                                             *)
BatchCloses ==
  /\ cpc = "collect"
  /\ Cardinality(members) = MaxBatch \/ queue = <<>>
  /\ IF failure
       THEN cpc' = "answer" /\ UNCHANGED <<attempt, refusals>>
       ELSE cpc' = "retain" /\ attempt' = 1 /\ refusals' = 0
  /\ UNCHANGED <<members, failure, jobVars, answer, queue, sourceVars, brokerVars>>

(* Entry::abandoned: the waiting task is gone, or the delivery was revoked.  *)
Abandoned(d) == stage[d] = "dropped" \/ ScopeOf[d] \in revoked

(* Committer::commit.  An entry that leaves the batch drops its channel.     *)
Retain ==
  /\ cpc = "retain"
  /\ members' = {d \in members : ~Abandoned(d)}
  /\ answer' = [d \in Ids |-> IF d \in members /\ Abandoned(d)
                              THEN "lost" ELSE answer[d]]
  /\ cpc' = IF members' = {} THEN "answer" ELSE "commit"
  /\ UNCHANGED <<attempt, failure, refusals, jobVars, queue, sourceVars, brokerVars>>

(* SourceOffsets::new: the offset after the batch's last delivery of a scope.*)
NextOffset(s) ==
  LET mine == {d \in members : ScopeOf[d] = s}
  IN IF mine = {} THEN position[s] ELSE Max(mine) + 1

(* SourceOffsets::commit holds the transaction gate, so no revocation comes  *)
(* between its check of the assignment and the broker's commit.              *)
CommitSucceeds ==
  /\ cpc = "commit"
  /\ \A d \in members : ScopeOf[d] \notin revoked
  /\ position' = [s \in Scopes |-> NextOffset(s)]
  /\ published' = published \cup members
  /\ cpc' = "answer"
  /\ UNCHANGED <<members, attempt, failure, refusals, jobVars, answer, queue, sourceVars>>

(* A failed commit leaves none of the batch in effect.  It is retried        *)
(* without the deliveries abandoned meanwhile, and then not counted.         *)
CommitFails(cause) ==
  /\ cpc = "commit"
  /\ cause = "revoked" => \E d \in members : ScopeOf[d] \in revoked
  /\ refusals' = IF cause = "revoked" THEN refusals ELSE refusals + 1
  /\ LET retried == cause # "rejected" /\ \E d \in members : Abandoned(d)
     IN \/ /\ retried
           /\ cpc' = "retain"
           /\ UNCHANGED <<attempt, failure>>
        \/ /\ ~retried /\ cause # "rejected" /\ attempt < MaxAttempts
           /\ cpc' = "retain"
           /\ attempt' = attempt + 1
           /\ UNCHANGED failure
        \/ /\ ~retried /\ (cause = "rejected" \/ attempt >= MaxAttempts)
           /\ cpc' = "answer"
           /\ failure' = TRUE
           /\ UNCHANGED attempt
  /\ UNCHANGED <<members, jobVars, answer, queue, sourceVars, brokerVars>>

(* Mutant: the members of a failed batch are told that it committed.         *)
AnswerOk ==
  /\ cpc = "answer"
  /\ answer' = [d \in Ids |-> IF d \in members THEN "ok" ELSE answer[d]]
  /\ members' = {}
  /\ cpc' = "recv"
  /\ UNCHANGED <<attempt, failure, refusals, jobVars, queue, sourceVars, brokerVars>>

Answer ==
  /\ cpc = "answer"
  /\ answer' = [d \in Ids |-> IF d \in members
                              THEN (IF failure THEN "error" ELSE "ok") ELSE answer[d]]
  /\ members' = {}
  /\ cpc' = "recv"
  /\ UNCHANGED <<attempt, failure, refusals, jobVars, queue, sourceVars, brokerVars>>

(* Batcher::close, after every job and acknowledgement has ended: the        *)
(* committer ends once the channel is empty.                                 *)
Settled == \A d \in Ids : stage[d] \notin {"job", "enlisted"}

CloseBatcher ==
  /\ cpc = "recv"
  /\ queue = <<>>
  /\ Settled
  /\ stopping \/ \A d \in Ids : stage[d] # "unstarted"
  /\ cpc' = "closed"
  /\ UNCHANGED <<members, attempt, failure, refusals, jobVars, answer, queue, sourceVars,
                 brokerVars>>

-----------------------------------------------------------------------------
(* The source loses a scope; the application shuts down; draining times out. *)

Revoke(s) ==
  /\ s \notin revoked
  /\ cpc # "closed"
  /\ revoked' = revoked \cup {s}
  /\ UNCHANGED <<jobVars, answer, queue, batchVars, aborting, brokerVars>>

Shutdown ==
  /\ ~stopping
  /\ stopping' = TRUE
  /\ UNCHANGED <<stage, answer, queue, batchVars, sourceVars, brokerVars>>

DrainTimeout ==
  /\ Aborts
  /\ stopping
  /\ ~aborting
  /\ ~Settled
  /\ aborting' = TRUE
  /\ UNCHANGED <<jobVars, answer, queue, batchVars, revoked, brokerVars>>

Committer ==
  \/ RecvFirst \/ RecvMore \/ BatchCloses \/ Retain \/ CommitSucceeds
  \/ \E cause \in {"transient", "revoked", "rejected"} : CommitFails(cause)
  \/ Answer \/ CloseBatcher

Next ==
  \/ Committer
  \/ \E d \in Ids : Start(d) \/ Enlist(d) \/ JobFails(d) \/ Answered(d) \/ DropTask(d)
  \/ \E s \in Scopes : Revoke(s)
  \/ Shutdown
  \/ DrainTimeout
  \/ cpc = "closed" /\ UNCHANGED vars

(* The committer is a task of its own and its sink's commit returns; tasks   *)
(* are polled when their answer or their revocation arrives.                 *)
Spec ==
  /\ Init /\ [][Next]_vars
  /\ WF_vars(Committer)
  /\ \A d \in Ids : WF_vars(Answered(d) \/ DropTask(d))

-----------------------------------------------------------------------------
TypeOK ==
  /\ stage \in [Ids -> Stages]
  /\ answer \in [Ids -> {"none", "ok", "error", "lost"}]
  /\ queue \in Seq(Ids) /\ Len(queue) <= MaxBatch
  /\ members \subseteq Ids /\ Cardinality(members) <= MaxBatch
  /\ cpc \in {"recv", "collect", "retain", "commit", "answer", "closed"}
  /\ attempt \in 1..MaxAttempts
  /\ {failure, stopping, aborting} \subseteq BOOLEAN
  /\ revoked \subseteq Scopes
  /\ position \in [Scopes -> 0..(N + 1)]
  /\ published \subseteq Ids
  /\ refusals \in Nat

(* "The delivery counts as acknowledged when its batch commits": the runtime *)
(* counts no delivery as acknowledged whose outputs and offset are not       *)
(* committed together.                                                       *)
AckedIsCommitted ==
  \A d \in Ids : stage[d] = "acked" => d \in published /\ position[ScopeOf[d]] > d

(* The offset a batch commits for a scope covers no delivery whose outputs   *)
(* are not committed: the next owner of the scope skips nothing.             *)
CommitCoversEarlier ==
  \A d \in Ids : d < position[ScopeOf[d]] => d \in published

(* As long as draining has not timed out, and every delivery decodes, the    *)
(* above holds whatever fails, is retried, revoked or shut down.             *)
CoversEarlierUntilAbort == ~aborting => CommitCoversEarlier

(* Revocations neither use up the commit attempts nor fail a batch, and an   *)
(* acknowledgement fails only with its batch: losing a partition does not    *)
(* stop a transactional subscription.                                        *)
RevocationIsNoFailure ==
  /\ failure => refusals >= attempt
  /\ \A d \in Ids : stage[d] = "failed" /\ answer[d] # "none" => failure

(* What an acknowledgement and a failure of a transactional subscription     *)
(* stand for: AckedIsCommitted and RevocationIsNoFailure, with the types.    *)
BatchesHold == TypeOK /\ AckedIsCommitted /\ RevocationIsNoFailure

(* Every enlisted delivery leaves its batch: no entry is forgotten between   *)
(* collecting, retrying and answering, and linger closes a batch that never  *)
(* fills.                                                                    *)
EnlistedIsAnswered ==
  \A d \in Ids : stage[d] = "enlisted" ~> stage[d] # "enlisted"
=============================================================================
