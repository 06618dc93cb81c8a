------------------------ MODULE ServiceBusConnection ------------------------
(***************************************************************************)
(* What the links of one Service Bus handle share                          *)
(* (adapters/servicebus/client.rs, connection.rs, auth.rs, management.rs): *)
(* the slot of the connection, the tokens that authorize its entities and  *)
(* the task that renews them, and a management link whose requests are     *)
(* matched to their answers.  Times are ticks of RENEW_POLL.               *)
(***************************************************************************)
EXTENDS Integers, Sequences, FiniteSets, FiniteSetsExt

CONSTANTS Entities,      \* one link for each entity
          MaxConns,      \* bound: connections opened
          Lifetime,      \* TOKEN_LIFETIME
          BeforeExpiry,  \* RENEW_BEFORE_EXPIRY
          MaxRequests,   \* bound: management requests
          Plans          \* what happens: faults among "slow", "refused" and "fails",
                         \* or "requests"; when the credential's signature expires,
                         \* 0 for a shared access key; and the bound of the clock

VARIABLES
  plan,       \* what may happen in this behaviour
  time,
  slot,       \* Shared::connection: the handle's connection, 0 for none
  slotHolder, \* the link inside ServiceBus::connection's lock, or "none"
  lost,       \* connection -> whether is_lost
  conn,       \* link -> the connection it uses, 0 for none
  phase,      \* link -> "idle", "opening", "authorizing", "putting", "held"
  began,      \* link -> when the token it puts was signed, 0 for none
  expiries,   \* connection -> entity -> expiry of its token, -1 for none
  wake,       \* connection -> when its renewal task wakes
  renewing,   \* connection -> the due entities of the task's round, while it runs
  replaced,   \* whether a connection was opened while the slot's was usable
  nextId,     \* Management::next_id
  awaiting,   \* the request that waits, 0 for none
  replies,    \* answers on their way, in order, by the request they answer
  answer      \* the answer the last request got, 0 for none

busConnVars == <<plan, time, slot, slotHolder, lost, conn, phase, began, expiries, wake,
                 renewing, replaced, nextId, awaiting, replies, answer>>
linkVars == <<slot, slotHolder, lost, conn, phase, began, expiries, wake, renewing, replaced>>
managementVars == <<nextId, awaiting, replies, answer>>

Opened == DOMAIN expiries
Unauthorized == [e \in Entities |-> -1]

Init ==
  /\ plan \in Plans /\ time = 0
  /\ slot = 0 /\ slotHolder = "none" /\ lost = <<>>
  /\ conn = [e \in Entities |-> 0] /\ phase = [e \in Entities |-> "idle"]
  /\ began = [e \in Entities |-> 0]
  /\ expiries = <<>> /\ wake = <<>> /\ renewing = <<>> /\ replaced = FALSE
  /\ nextId = 0 /\ awaiting = 0 /\ replies = <<>> /\ answer = 0

(***************************************************************************)
(* ServiceBus::connection.                                                 *)
(***************************************************************************)
Free == slotHolder = "none"

LockSlot(e) ==
  /\ "requests" \notin plan.faults
  /\ phase[e] = "idle" /\ Free
  /\ IF slot # 0 /\ ~lost[slot]
     THEN /\ conn' = [conn EXCEPT ![e] = slot]
          /\ phase' = [phase EXCEPT ![e] = "authorizing"]
          /\ UNCHANGED slotHolder
     ELSE /\ Len(expiries) < MaxConns
          /\ slotHolder' = e
          /\ phase' = [phase EXCEPT ![e] = "opening"] /\ UNCHANGED conn
  /\ UNCHANGED <<plan, time, slot, lost, began, expiries, wake, renewing, replaced, managementVars>>

Faulty == plan.faults \cap {"refused", "fails"} # {}

(* The transport, the session or the authorization link fails, or the time *)
(* is up.                                                                  *)
OpenFails(e) ==
  /\ Faulty
  /\ phase' = [phase EXCEPT ![e] = "idle"]
  /\ UNCHANGED <<slot, conn, replaced, lost, expiries, wake, renewing>>

(* Connection::open: the renewal task, which there is for a credential that *)
(* can be renewed, runs its first round at once, on no tokens.             *)
Open(e) ==
  /\ phase[e] = "opening"
  /\ slotHolder' = "none"
  /\ \/ /\ slot' = Len(expiries) + 1
        /\ conn' = [conn EXCEPT ![e] = slot']
        /\ phase' = [phase EXCEPT ![e] = "authorizing"]
        /\ replaced' = (replaced \/ (slot # 0 /\ ~lost[slot]))
        /\ lost' = Append(lost, FALSE) /\ expiries' = Append(expiries, Unauthorized)
        /\ wake' = Append(wake, time + 1) /\ renewing' = Append(renewing, {})
     \/ OpenFails(e)
  /\ UNCHANGED <<plan, time, began, managementVars>>

(***************************************************************************)
(* Connection::authorize and put_token.                                    *)
(***************************************************************************)
(* The authorizations' lock is with the renewal task during its round. *)
Unlocked(c) == renewing[c] = {} /\ \A e \in Entities : conn[e] = c => phase[e] # "putting"

(* Credential::renewable and token: a shared access key signs a token at   *)
(* `now`; a shared access signature is the token, and says when it expires. *)
Renewable == plan.signature = 0
Expiry(now) == IF Renewable THEN now + Lifetime ELSE plan.signature

Authorize(e) ==
  /\ phase[e] = "authorizing" /\ Unlocked(conn[e])
  /\ IF expiries[conn[e]][e] > time
     THEN phase' = [phase EXCEPT ![e] = "held"] /\ UNCHANGED began
     ELSE phase' = [phase EXCEPT ![e] = "putting"] /\ began' = [began EXCEPT ![e] = time]
  /\ UNCHANGED <<plan, time, slot, slotHolder, lost, conn, expiries, wake, renewing, replaced,
                 managementVars>>

(* Service Bus takes a token until it expires. *)
PutToken(e) ==
  /\ phase[e] = "putting" /\ Expiry(began[e]) > time
  /\ expiries' = [expiries EXCEPT ![conn[e]][e] = Expiry(began[e])]
  /\ phase' = [phase EXCEPT ![e] = "held"] /\ began' = [began EXCEPT ![e] = 0]
  /\ UNCHANGED <<plan, time, slot, slotHolder, lost, conn, wake, renewing, replaced, managementVars>>

(* Refused or timed out, waiting for the lock included: the connection is  *)
(* broken for later links and stays with those that hold it.               *)
AuthorizeFails(e) ==
  /\ \/ Faulty /\ phase[e] \in {"authorizing", "putting"}
     \/ phase[e] = "putting" /\ Expiry(began[e]) <= time
  /\ lost' = [lost EXCEPT ![conn[e]] = TRUE]
  /\ phase' = [phase EXCEPT ![e] = "idle"] /\ conn' = [conn EXCEPT ![e] = 0]
  /\ began' = [began EXCEPT ![e] = 0]
  /\ UNCHANGED <<plan, time, slot, slotHolder, expiries, wake, renewing, replaced, managementVars>>

(* A link is given up, as its source or sink reconnects or closes, or as   *)
(* Service Bus detaches it because its token has expired.                  *)
Detach(e) ==
  /\ phase[e] = "held" /\ (Faulty \/ expiries[conn[e]][e] <= time)
  /\ phase' = [phase EXCEPT ![e] = "idle"] /\ conn' = [conn EXCEPT ![e] = 0]
  /\ UNCHANGED <<plan, time, slot, slotHolder, lost, began, expiries, wake, renewing, replaced,
                 managementVars>>

(***************************************************************************)
(* renew: the task of a connection that a link or the slot still holds.    *)
(***************************************************************************)
Due(expires, now) == IF expires - BeforeExpiry > now THEN expires - BeforeExpiry - now ELSE 0
Tokens(c) == {e \in Entities : expiries[c][e] >= 0}
AliveInSlot(c) == slot = c
Alive(c) == slot = c \/ \E e \in Entities : conn[e] = c

(* The end of a round: asleep for the shortest time to a due token, for    *)
(* RENEW_RETRY after a failure (less than a tick), at most RENEW_POLL.     *)
Sleep(c) == wake' = [wake EXCEPT ![c] = time + 1]

RenewWake(c) ==
  /\ Renewable /\ Alive(c) /\ wake[c] <= time /\ Unlocked(c)
  /\ LET round == {e \in Tokens(c) : Due(expiries[c][e], time) = 0}
     IN  /\ renewing' = [renewing EXCEPT ![c] = round]
         /\ IF round = {} THEN Sleep(c) ELSE UNCHANGED wake
  /\ UNCHANGED <<plan, time, slot, slotHolder, lost, conn, phase, began, expiries, replaced,
                 managementVars>>

RenewToken(c, e) ==
  /\ Alive(c) /\ e \in renewing[c]
  /\ \/ expiries' = [expiries EXCEPT ![c][e] = Expiry(time)]
     \/ "fails" \in plan.faults /\ UNCHANGED expiries
  /\ renewing' = [renewing EXCEPT ![c] = @ \ {e}]
  /\ IF renewing'[c] = {} THEN Sleep(c) ELSE UNCHANGED wake
  /\ UNCHANGED <<plan, time, slot, slotHolder, lost, conn, phase, began, replaced, managementVars>>

(* The connection or its session stops. *)
Stops(c) ==
  /\ "fails" \in plan.faults /\ ~lost[c]
  /\ lost' = [lost EXCEPT ![c] = TRUE]
  /\ UNCHANGED <<plan, time, slot, slotHolder, conn, phase, began, expiries, wake, renewing,
                 replaced, managementVars>>

(* Time passes; unless put_token is slow, a round and an authorization are *)
(* over within a tick.                                                     *)
Awake(c) == Renewable /\ Alive(c) /\ (wake[c] <= time \/ renewing[c] # {})
Tick ==
  /\ time < plan.ticks /\ "requests" \notin plan.faults
  /\ \/ "slow" \in plan.faults
     \/ (\A c \in Opened : ~Awake(c)) /\ \A e \in Entities : phase[e] # "putting"
  /\ time' = time + 1
  /\ UNCHANGED <<plan, linkVars, managementVars>>

(***************************************************************************)
(* Management::request: one at a time, as it borrows the link mutably.     *)
(***************************************************************************)
Request ==
  /\ "requests" \in plan.faults /\ awaiting = 0 /\ nextId < MaxRequests
  /\ nextId' = nextId + 1 /\ awaiting' = nextId + 1 /\ answer' = 0
  /\ UNCHANGED <<plan, time, linkVars, replies>>

(* Service Bus answers the requests sent so far, each at most once. *)
Replies(r) ==
  /\ r \in 1 .. nextId /\ Len(replies) < MaxRequests
  /\ r \notin {replies[i] : i \in DOMAIN replies} \cup {answer}
  /\ replies' = Append(replies, r)
  /\ UNCHANGED <<plan, time, linkVars, nextId, awaiting, answer>>

Answers(r) == r = awaiting

(* A response is accepted, and skipped unless its correlation id is that   *)
(* of the request that waits.                                              *)
TakeReply ==
  /\ awaiting # 0 /\ replies # <<>>
  /\ replies' = Tail(replies)
  /\ IF Answers(Head(replies)) THEN awaiting' = 0 /\ answer' = Head(replies)
     ELSE UNCHANGED <<awaiting, answer>>
  /\ UNCHANGED <<plan, time, linkVars, nextId>>

RequestTimesOut ==
  /\ awaiting # 0
  /\ awaiting' = 0
  /\ UNCHANGED <<plan, time, linkVars, nextId, replies, answer>>

Next ==
  \/ \E e \in Entities :
       LockSlot(e) \/ Open(e) \/ Authorize(e) \/ PutToken(e) \/ AuthorizeFails(e) \/ Detach(e)
  \/ \E c \in Opened : RenewWake(c) \/ Stops(c) \/ \E e \in Entities : RenewToken(c, e)
  \/ Tick
  \/ Request \/ TakeReply \/ RequestTimesOut
  \/ \E r \in 1 .. nextId : Replies(r)

Spec == Init /\ [][Next]_busConnVars

(***************************************************************************)
(* Properties.                                                             *)
(***************************************************************************)
(* While renewals succeed within a tick, no link's token lapses: the task  *)
(* of the connection it is on renews it before it expires, also when       *)
(* another link's authorization failed and the handle has moved on to      *)
(* another connection.  A signature cannot be renewed: its links do lapse. *)
(* (renew, due, Connection::authorize.)                                    *)
TokensOutlast ==
  Renewable /\ plan.faults \subseteq {"requests", "refused"} =>
    \A e \in Entities : phase[e] = "held" => expiries[conn[e]][e] > time

(* The links of a handle share one connection: another one is opened only  *)
(* when the slot's is lost or an authorization failed on it, and a link is *)
(* attached only once the token of its entity was put on its connection.   *)
SharedUntilLost ==
  /\ ~replaced
  /\ \A e \in Entities : phase[e] = "held" => expiries[conn[e]][e] >= 0

(* A request gets its own answer: one that comes after its request timed   *)
(* out is not taken for the answer of a later request.                     *)
AnswersOwn == answer # 0 => answer = nextId
=============================================================================
