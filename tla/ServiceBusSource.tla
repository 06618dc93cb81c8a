-------------------------- MODULE ServiceBusSource --------------------------
(***************************************************************************)
(* The Service Bus source (adapters/servicebus/source.rs, lock.rs and the  *)
(* renewal requests of management.rs): links one after the other, the task *)
(* that owns the link, the task that renews locks, and the entity.         *)
(*                                                                         *)
(* A delivery number names one delivery of a message on one link.  Both    *)
(* sides read the same clock.                                              *)
(***************************************************************************)
EXTENDS Naturals, Sequences, FiniteSets, Functions

CONSTANTS Entity,        \* messages of the entity
          Oversized,     \* those larger than the link accepts
          Deliveries,    \* bound: deliveries are 1 .. Deliveries
          Links,         \* bound: links are 1 .. Links
          Duration, MinLock, MaxLock,  \* the entity's lock duration and the clamps
          Bounds         \* smaller bounds to choose from: deliveries, links, ticks

VARIABLES
  bound,     \* a member of Bounds
  now,       \* the clock
  link,      \* the current link, 0 for none
  state,     \* link -> "none", "up", "stopping", "draining", "gone"
  broken,    \* links that lost their connection
  ended,     \* links given up by Link::end
  serving,   \* the request the task of the current link answers
  waiting,   \* the request in the channel of one: "none", "live" or "dropped"
  at,        \* delivery -> where it is
  on,        \* delivery -> [message, link, until]
  lock,      \* Locks::entries of all links: delivery -> [expires, duration]
  cancelled, \* deliveries whose revocation token is cancelled
  renewal,   \* the renewing task: phase, the deliveries asked, their answer
  entity     \* message -> [owner, until, gone]

Fresh == Cardinality({d \in 1 .. Deliveries : at[d] # "none"}) + 1
Sent(l) == {d \in 1 .. Deliveries : at[d] # "none" /\ on[d].link = l}
In(l, place) == {d \in Sent(l) : at[d] = place}
Least(S) == CHOOSE d \in S : \A e \in S : d <= e
Forget(S) == Restrict(lock, DOMAIN lock \ S)
Owns(d) == LET e == entity[on[d].message] IN e.owner = d /\ e.until > now /\ ~e.gone
IdleRenewal == [phase |-> "idle", asked |-> {}, lost |-> {}, until |-> 0]

linkVars == <<bound, link, state, broken, ended>>
taskVars == <<serving, waiting>>
lockVars == <<lock, cancelled>>
vars == <<now, linkVars, taskVars, at, on, lockVars, renewal, entity>>

Init ==
  /\ bound \in Bounds
  /\ now = 0 /\ link = 0 /\ state = [l \in 1 .. Links |-> "none"]
  /\ broken = {} /\ ended = {}
  /\ serving = "none" /\ waiting = "none"
  /\ at = [d \in 1 .. Deliveries |-> "none"]
  /\ on = [d \in 1 .. Deliveries |-> [message |-> 0, link |-> 0, until |-> 0]]
  /\ lock = [d \in {} |-> 0] /\ cancelled = {}
  /\ renewal = IdleRenewal
  /\ entity = [m \in Entity |-> [owner |-> 0, until |-> 0, gone |-> FALSE]]

(***************************************************************************)
(* The entity: it locks a message to a delivery and sends it ahead on the  *)
(* link's credit.  A settlement reaches it over a link that is not broken. *)
(***************************************************************************)
SendsAhead(m) ==
  /\ link # 0 /\ state[link] = "up" /\ link \notin broken /\ Fresh <= bound.deliveries
  /\ ~entity[m].gone /\ entity[m].until <= now
  /\ entity' = [entity EXCEPT ![m].owner = Fresh, ![m].until = now + Duration]
  /\ at' = [at EXCEPT ![Fresh] = "ahead"]
  /\ on' = [on EXCEPT ![Fresh] = [message |-> m, link |-> link, until |-> now + Duration]]
  /\ UNCHANGED <<now, linkVars, taskVars, lockVars, renewal>>

(* The messages of `ds` are unlocked for another delivery. *)
Returned(ds) ==
  [m \in Entity |-> IF \E d \in ds : on[d].message = m /\ Owns(d) /\ on[d].link \notin broken
                    THEN [entity[m] EXCEPT !.until = now] ELSE entity[m]]

Breaks ==
  /\ link # 0 /\ link \notin broken
  /\ broken' = broken \cup {link}
  /\ UNCHANGED <<bound, now, link, state, ended, taskVars, at, on, lockVars, renewal, entity>>

Ticks ==
  /\ now < bound.ticks
  /\ now' = now + 1
  /\ UNCHANGED <<linkVars, taskVars, at, on, lockVars, renewal, entity>>

(***************************************************************************)
(* Source::receive: connect, ask the task, take its answer.                *)
(***************************************************************************)
Connect ==
  /\ link = 0
  /\ \E l \in 1 .. bound.links :
       /\ state[l] = "none" /\ \A k \in 1 .. l - 1 : state[k] # "none"
       /\ link' = l
       /\ state' = [state EXCEPT ![l] = "up"]
  /\ serving' = "none" /\ waiting' = "none" /\ renewal' = IdleRenewal
  /\ UNCHANGED <<bound, now, broken, ended, at, on, lockVars, entity>>

Asking == "live" \in {serving, waiting} \/ (link # 0 /\ In(link, "reply") # {})
Ask ==
  /\ link # 0 /\ state[link] = "up" /\ ~Asking /\ waiting = "none" /\ serving # "failed"
  /\ waiting' = "live"
  /\ UNCHANGED <<now, linkVars, serving, at, on, lockVars, renewal, entity>>

(* The future of receive is dropped, with the answer that may be in it. *)
CancelReceive ==
  /\ Asking
  /\ serving' = IF serving = "live" THEN "dropped" ELSE serving
  /\ waiting' = IF waiting = "live" THEN "dropped" ELSE waiting
  /\ at' = [d \in DOMAIN at |-> IF d \in In(link, "reply") THEN "lost" ELSE at[d]]
  /\ UNCHANGED <<now, linkVars, on, lockVars, renewal, entity>>

Clamp(t) == IF t < MinLock THEN MinLock ELSE IF t > MaxLock THEN MaxLock ELSE t
Add(d) ==
  [e \in DOMAIN lock \cup {d} |->
     IF e = d THEN [expires |-> on[d].until, duration |-> Clamp(on[d].until - now)] ELSE lock[e]]

(* A message too large, or whose lock ended in the buffer, is skipped and  *)
(* the next one asked for.                                                 *)
TakeAnswer ==
  \E d \in Sent(link) :
    /\ at[d] = "reply"
    /\ LET skip == on[d].message \in Oversized \/ on[d].until <= now
       IN  /\ at' = [at EXCEPT ![d] = IF skip THEN "skipped" ELSE "held"]
           /\ waiting' = IF skip THEN "live" ELSE waiting
           /\ lock' = IF skip THEN lock ELSE Add(d)
    /\ UNCHANGED <<now, linkVars, serving, on, cancelled, renewal, entity>>

(* As EndLink, but the deliveries keep their locks. *)
EndLinkKeepsLocks ==
  /\ link # 0 /\ serving = "failed"
  /\ ended' = ended \cup {link}
  /\ state' = [state EXCEPT ![link] = "gone"]
  /\ link' = 0 /\ serving' = "none" /\ waiting' = "none" /\ renewal' = IdleRenewal
  /\ UNCHANGED <<bound, now, broken, at, on, lockVars, entity>>

(* Link::end after an error or a stopped task: every delivery is revoked.  *)
(* The task has returned; closing the rest happens in the background.      *)
EndLink ==
  /\ link # 0 /\ serving = "failed"
  /\ ended' = ended \cup {link}
  /\ state' = [state EXCEPT ![link] = "gone"]
  /\ lock' = [d \in {} |-> 0]
  /\ cancelled' = cancelled \cup DOMAIN lock
  /\ link' = 0 /\ serving' = "none" /\ waiting' = "none" /\ renewal' = IdleRenewal
  /\ UNCHANGED <<bound, now, broken, at, on, entity>>

(***************************************************************************)
(* The task that owns the link.                                            *)
(***************************************************************************)
TakeRequest ==
  /\ link # 0 /\ state[link] = "up" /\ serving = "none" /\ waiting # "none"
  /\ serving' = waiting /\ waiting' = "none"
  /\ UNCHANGED <<now, linkVars, at, on, lockVars, renewal, entity>>

(* The delivery answered next: the one kept, then the buffer in order. *)
NewestFirst(l) == IF In(l, "ahead") # {} THEN In(l, "ahead") ELSE In(l, "kept")
NextDelivery(l) == IF In(l, "kept") # {} THEN In(l, "kept") ELSE In(l, "ahead")

Answer ==
  /\ link # 0 /\ state[link] = "up" /\ serving \in {"live", "dropped"}
  /\ NextDelivery(link) # {}
  /\ at' = [at EXCEPT ![Least(NextDelivery(link))] = IF serving = "live" THEN "reply" ELSE "kept"]
  /\ serving' = "none"
  /\ UNCHANGED <<now, linkVars, waiting, on, lockVars, renewal, entity>>

(* The link fails: its error answers a live request and ends the task; for *)
(* a dropped request it is kept and answers the next one.                  *)
AnswerError ==
  /\ link # 0 /\ link \in broken /\ state[link] = "up" /\ serving \in {"live", "dropped"}
  /\ In(link, "kept") = {}
  /\ serving' = IF serving = "live" THEN "failed" ELSE "none"
  /\ UNCHANGED <<now, linkVars, waiting, at, on, lockVars, renewal, entity>>

Abandon ==
  \E l \in 1 .. Links : \E d \in In(l, "abandoned") :
    /\ state[l] \in {"up", "draining"} /\ serving # "failed"
    /\ at' = [at EXCEPT ![d] = "returned"]
    /\ entity' = Returned({d})
    /\ UNCHANGED <<now, linkVars, taskVars, on, lockVars, renewal>>

(***************************************************************************)
(* A delivery with the application.                                        *)
(***************************************************************************)
(* The accepted disposition is sent without a confirmation. *)
Ack(d) ==
  /\ at[d] = "held"
  /\ LET sent == d \in DOMAIN lock /\ on[d].link \notin broken
     IN  /\ at' = [at EXCEPT ![d] = IF sent THEN "acked" ELSE "failed"]
         /\ cancelled' = IF sent THEN cancelled ELSE cancelled \cup {d}
         /\ entity' = IF sent /\ Owns(d) THEN [entity EXCEPT ![on[d].message].gone = TRUE] ELSE entity
  /\ lock' = Forget({d})
  /\ UNCHANGED <<now, linkVars, taskVars, on, renewal>>

DropMessage(d) ==
  /\ at[d] = "held"
  /\ at' = [at EXCEPT ![d] =
       IF d \in DOMAIN lock /\ state[on[d].link] # "gone" THEN "abandoned" ELSE "dropped"]
  /\ lock' = Forget({d})
  /\ UNCHANGED <<now, linkVars, taskVars, on, cancelled, renewal, entity>>

(***************************************************************************)
(* The renewing task.                                                      *)
(***************************************************************************)
Ended == {d \in DOMAIN lock : lock[d].expires <= now}
DueLocks == {d \in DOMAIN lock \ Ended : 3 * (lock[d].expires - now) <= 2 * lock[d].duration}

RenewTick ==
  /\ link # 0 /\ renewal.phase = "idle" /\ Ended \cup DueLocks # {}
  /\ lock' = Forget(Ended)
  /\ cancelled' = cancelled \cup Ended
  /\ renewal' = IF DueLocks = {} THEN renewal ELSE [IdleRenewal EXCEPT !.phase = "asked", !.asked = DueLocks]
  /\ UNCHANGED <<now, linkVars, taskVars, at, on, entity>>

(* A request of several locks renews all or fails as a whole; the locks    *)
(* are then renewed one by one.  Either way those still owned are renewed  *)
(* and the others are reported lost.                                       *)
RenewArrives ==
  /\ renewal.phase = "asked" /\ link \notin broken
  /\ LET kept == {d \in renewal.asked : Owns(d)}
     IN  /\ entity' = [m \in Entity |-> IF \E d \in kept : on[d].message = m
                         THEN [entity[m] EXCEPT !.until = now + Duration] ELSE entity[m]]
         /\ renewal' = [renewal EXCEPT !.phase = "answered", !.asked = kept,
                                       !.lost = renewal.asked \ kept, !.until = now + Duration]
  /\ UNCHANGED <<now, linkVars, taskVars, at, on, lockVars>>

Renewed(d) ==
  LET later(a, b) == IF a < b THEN b ELSE a
      left == IF renewal.until > now THEN renewal.until - now ELSE 0
  IN  [expires |-> later(lock[d].expires, now + left), duration |-> Clamp(later(lock[d].duration, left))]

RenewAnswered ==
  /\ renewal.phase = "answered"
  /\ lock' = [d \in DOMAIN lock \ renewal.lost |-> IF d \in renewal.asked THEN Renewed(d) ELSE lock[d]]
  /\ cancelled' = cancelled \cup (renewal.lost \cap DOMAIN lock)
  /\ renewal' = IdleRenewal
  /\ UNCHANGED <<now, linkVars, taskVars, at, on, entity>>

(* An error or a timeout; a late response is skipped by its request id. *)
RenewFails ==
  /\ renewal.phase \in {"asked", "answered"}
  /\ renewal' = IdleRenewal
  /\ UNCHANGED <<now, linkVars, taskVars, at, on, lockVars, entity>>

(***************************************************************************)
(* Source::close: the task hands back what it holds, then the locks end.   *)
(***************************************************************************)
Close ==
  /\ link # 0 /\ state[link] = "up"
  /\ state' = [state EXCEPT ![link] = IF serving = "failed" THEN "gone" ELSE "stopping"]
  /\ serving' = "none" /\ waiting' = "none"
  /\ at' = [d \in DOMAIN at |-> IF d \in In(link, "reply") THEN "lost" ELSE at[d]]
  /\ UNCHANGED <<bound, now, link, broken, ended, on, lockVars, renewal, entity>>

StopsServing ==
  /\ link # 0 /\ state[link] = "stopping"
  /\ state' = [state EXCEPT ![link] = "draining"]
  /\ at' = [d \in DOMAIN at |-> IF d \in In(link, "kept") THEN "returned" ELSE at[d]]
  /\ entity' = Returned(In(link, "kept"))
  /\ UNCHANGED <<bound, now, link, broken, ended, taskVars, on, lockVars, renewal>>

Release(d) ==
  /\ link # 0 /\ state[link] = "draining" /\ d \in In(link, "ahead")
  /\ at' = [at EXCEPT ![d] = "returned"]
  /\ entity' = Returned({d})
  /\ UNCHANGED <<now, linkVars, taskVars, on, lockVars, renewal>>

(* The drain ended: no more message came, or its time or the link ran out. *)
TaskReturns ==
  /\ link # 0 /\ state[link] = "draining"
  /\ state' = [state EXCEPT ![link] = "gone"]
  /\ at' = [d \in DOMAIN at |-> CASE d \in In(link, "abandoned") -> "returned"
                                  [] d \in In(link, "ahead") -> "timed out"
                                  [] OTHER -> at[d]]
  /\ entity' = Returned(In(link, "abandoned"))
  /\ UNCHANGED <<bound, now, link, broken, ended, taskVars, on, lockVars, renewal>>

CloseReturns ==
  /\ link # 0 /\ state[link] = "gone" /\ link \notin ended
  /\ lock' = [d \in {} |-> 0]
  /\ cancelled' = cancelled \cup DOMAIN lock
  /\ link' = 0 /\ ended' = ended \cup 1 .. Links /\ renewal' = IdleRenewal
  /\ state' = [l \in 1 .. Links |-> "gone"]
  /\ UNCHANGED <<bound, now, broken, taskVars, at, on, entity>>

Next ==
  \/ \E m \in Entity : SendsAhead(m)
  \/ Breaks \/ Ticks \/ Connect \/ Ask \/ CancelReceive \/ (link # 0 /\ TakeAnswer) \/ EndLink
  \/ TakeRequest \/ Answer \/ AnswerError \/ Abandon
  \/ \E d \in 1 .. Deliveries : Ack(d) \/ DropMessage(d) \/ Release(d)
  \/ RenewTick \/ RenewArrives \/ RenewAnswered \/ RenewFails
  \/ Close \/ StopsServing \/ TaskReturns \/ CloseReturns

Spec == Init /\ [][Next]_vars

(***************************************************************************)
(* Properties.                                                             *)
(***************************************************************************)
TypeOK ==
  /\ now \in 0 .. bound.ticks /\ link \in 0 .. Links
  /\ serving \in {"none", "live", "dropped", "failed"} /\ waiting \in {"none", "live", "dropped"}
  /\ DOMAIN lock \subseteq {d \in 1 .. Deliveries : at[d] = "held"}
  /\ renewal.asked \cup renewal.lost \subseteq 1 .. Deliveries

(* add and renewed take the expiry Service Bus names, so a lock the source *)
(* takes for running never outlives the one Service Bus holds, however     *)
(* late a renewal is answered.                                             *)
LockIsConservative ==
  \A d \in DOMAIN lock : entity[on[d].message].owner = d /\ lock[d].expires > now =>
    lock[d].expires <= entity[on[d].message].until

(* A delivery the application holds is renewed or revoked: it leaves the   *)
(* table of locks only with its token cancelled, and Link::end revokes all *)
(* of its link, which no later link renews.                                *)
HeldIsRenewedOrRevoked ==
  \A d \in 1 .. Deliveries : at[d] = "held" /\ d \notin cancelled =>
    d \in DOMAIN lock /\ on[d].link = link

(* The task answers with the kept delivery before the buffer, so receive   *)
(* returns the deliveries of a link in the order it got them, whatever     *)
(* requests were cancelled in between.                                     *)
ReceivesInOrder ==
  \A l \in 1 .. Links : \A d, e \in Sent(l) :
    d < e /\ at[d] \in {"ahead", "kept"} => at[e] \in {"ahead", "kept", "returned"}

(* Closing returns every delivery that never reached the application but   *)
(* those of a broken link, of the drain's deadline, or of an answer whose  *)
(* receive was cancelled: none stays with a task that is gone.             *)
ClosedHoldsNothing ==
  \A l \in 1 .. Links : state[l] = "gone" /\ l \notin broken => In(l, "kept") \cup In(l, "ahead") = {}

=============================================================================
