--------------------------- MODULE DeliveryPromise ---------------------------
(***************************************************************************)
(* What a subscription promises about each delivery it receives, without    *)
(* lanes, jobs or queues (docs/runtime.md): a delivery ends acknowledged,    *)
(* failed or dropped, and exactly once; it is dropped unacknowledged only    *)
(* when the source takes it back or the subscription is stopping; and a      *)
(* subscription that ends well has settled everything it received.           *)
(***************************************************************************)
EXTENDS Naturals

CONSTANT Deliveries

VARIABLES
  fate,      \* delivery -> what became of it
  excused,   \* deliveries the source is taking back (handoff or revocation)
  phase,     \* "running", "stopping" (shutdown or failure) or "closed"
  outcome    \* what the closed subscription returned

promiseVars == <<fate, excused, phase, outcome>>

Init ==
  /\ fate = [d \in Deliveries |-> "unreceived"]
  /\ excused = {}
  /\ phase = "running"
  /\ outcome = "none"

Receive(d) ==
  /\ phase = "running"
  /\ fate[d] = "unreceived"
  /\ fate' = [fate EXCEPT ![d] = "held"]
  /\ UNCHANGED <<excused, phase, outcome>>

Settle(d, result) ==
  /\ phase # "closed"
  /\ fate[d] = "held"
  /\ fate' = [fate EXCEPT ![d] = result]
  /\ UNCHANGED <<excused, outcome>>

Excuse(d) ==
  /\ fate[d] # "unreceived"
  /\ excused' = excused \cup {d}
  /\ UNCHANGED <<fate, phase, outcome>>

Stop ==
  /\ phase = "running"
  /\ phase' = "stopping"
  /\ UNCHANGED <<fate, excused, outcome>>

DropSome ==
  /\ phase # "closed"
  /\ phase' = "stopping"
  /\ \E D \in SUBSET {d \in Deliveries : fate[d] = "held"} :
       fate' = [d \in Deliveries |-> IF d \in D THEN "dropped" ELSE fate[d]]
  /\ UNCHANGED <<excused, outcome>>

Close ==
  /\ phase # "closed"
  /\ phase' = "closed"
  /\ outcome' \in {"ok", "failed"}
  /\ outcome' = "ok" => \A d \in Deliveries : fate[d] \notin {"held", "failed"}
  /\ fate' = [d \in Deliveries |-> IF fate[d] = "held" THEN "dropped" ELSE fate[d]]
  /\ UNCHANGED excused

Next ==
  \/ \E d \in Deliveries :
       \/ Receive(d)
       \/ Settle(d, "acked") /\ UNCHANGED phase
       \/ Settle(d, "failed") /\ phase' \in {phase, "stopping"}
       \/ d \in excused /\ Settle(d, "dropped") /\ UNCHANGED phase
       \/ Excuse(d)
  \/ Stop
  \/ DropSome
  \/ Close

Spec == Init /\ [][Next]_promiseVars
=============================================================================
