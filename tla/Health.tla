------------------------------- MODULE Health -------------------------------
(***************************************************************************)
(* The health of one subscription (src/health/state.rs), written by its    *)
(* runtime loop and its jobs (subscription/runtime.rs, processing.rs) and  *)
(* read by the probes of src/health/server.rs.  The tracker is a set of    *)
(* separate atomics: the loop publishes the number of deliveries in flight *)
(* only at its top, and a report loads one atomic after the other while    *)
(* the loop and the jobs go on.  Stores are seen in the order they are     *)
(* made.                                                                   *)
(***************************************************************************)
EXTENDS Integers, Sequences, FiniteSets

CONSTANTS
  Deliveries,    \* deliveries 1 .. Deliveries
  StallTimeout,
  MaxFailures,   \* receive_retry.max_attempts
  MaxTime        \* bound on the clock

VARIABLES
  clock,
  status,        \* SubscriptionStatus
  failures,      \* receive_failures
  backoff,       \* receive_backoff
  retries,       \* publish_retries
  in_flight,
  progress,      \* last_progress
  connected,     \* FALSE while the source's probe says it is disconnected
  shutdown,      \* the application's token, "unset" before Health::start
  loop,          \* the runtime: at the "top" of its loop, "verifying" its first
                 \* delivery, in its "select", or past the drain, "closing" or "aborted"
  verified,
  failure,       \* whether the subscription has failed
  left,          \* the number of deliveries not received yet
  held,          \* deliveries received and not finished
  retrying,      \* those whose job waits to retry its publication
  stepped,       \* when a delivery last arrived or finished a step
  emptied,       \* when the last of the deliveries was finished or dropped
  report         \* a probe's report: its path, its time, the status it loaded and
                 \* the number of its next load, 0 without a report

healthVars == <<clock, status, failures, backoff, retries, in_flight, progress, connected,
                shutdown, loop, verified, failure, left, held, retrying, stepped, emptied, report>>
tracked == <<failures, backoff, retries, in_flight, progress>>
real == <<verified, failure, left, held, retrying, stepped, emptied>>

NoReport == [path |-> "none", now |-> 0, status |-> "pending", next |-> 0]

TypeOK ==
  /\ {clock, progress, stepped, emptied, report.now} \subseteq 0..MaxTime
  /\ status \in {"pending", "running", "stopping", "stopped", "failed"}
  /\ failures \in 0..MaxFailures /\ {backoff, connected, verified, failure} \subseteq BOOLEAN
  /\ {retries, in_flight, left} \subseteq 0..Deliveries
  /\ shutdown \in {"unset", "no", "yes"}
  /\ loop \in {"top", "verifying", "select", "closing", "aborted"}
  /\ retrying \subseteq held /\ held \subseteq 1 .. Deliveries - left

Init ==
  /\ clock = 0 /\ status = "pending"
  /\ failures = 0 /\ backoff = FALSE /\ retries = 0 /\ in_flight = 0 /\ progress = 0
  /\ connected = TRUE /\ shutdown = "unset" /\ loop = "top"
  /\ verified \in BOOLEAN /\ failure = FALSE
  /\ left = Deliveries /\ held = {} /\ retrying = {} /\ stepped = 0 /\ emptied = 0
  /\ report = NoReport

-----------------------------------------------------------------------------
(* Reports.                                                                *)

(* What the answer for a path depends on, in the order it is loaded; and   *)
(* an order that loads the progress before the number in flight.           *)
ProgressFirst(path) ==
  IF path = "/livez" THEN <<"status", "last_progress", "in_flight">>
  ELSE <<"status", "receive_backoff", "publish_retries", "connected", "shutdown">>

ReportLoads(path) ==
  IF path = "/livez" THEN <<"status", "in_flight", "last_progress">>
  ELSE <<"status", "receive_backoff", "publish_retries", "connected", "shutdown">>

(* Whether what a load finds leaves "stalled", or "ready", possible. *)
Stalled(load) ==
  CASE load = "status" -> status \in {"running", "stopping"}
    [] load = "in_flight" -> in_flight > 0
    [] load = "last_progress" -> report.now - progress >= StallTimeout

Ready(load) ==
  CASE load = "status" -> status \in {"running", "stopped"}
    [] load = "receive_backoff" -> report.status = "stopped" \/ ~backoff
    [] load = "publish_retries" -> report.status = "stopped" \/ retries = 0
    [] load = "connected" -> report.status = "stopped" \/ connected
    [] load = "shutdown" -> shutdown = "no"

(* A GET of one of the two paths starts a report with the time. *)
Respond(path) ==
  /\ report.next = 0
  /\ report' = [path |-> path, now |-> IF path = "/livez" THEN clock ELSE 0,
                status |-> "pending", next |-> 1]
  /\ UNCHANGED <<clock, status, tracked, connected, shutdown, loop, real>>

Loading == ReportLoads(report.path)[report.next]
Open == IF report.path = "/livez" THEN Stalled(Loading) ELSE Ready(Loading)
LastLoad == report.next = Len(ReportLoads(report.path))

(* One load: the rest of the report does not matter once its answer is     *)
(* known.                                                                  *)
Load ==
  /\ report.next # 0
  /\ report' = IF ~Open \/ LastLoad THEN NoReport
               ELSE [report EXCEPT !.next = @ + 1,
                                   !.status = IF Loading = "status" THEN status ELSE @]
  /\ UNCHANGED <<clock, status, tracked, connected, shutdown, loop, real>>

(* The report that ends with this state says that the subscription is      *)
(* stalled, so that /livez answers 503; that it is ready, and /readyz 200. *)
SaysStalled == report.path = "/livez" /\ LastLoad /\ Open
SaysReady == report.path = "/readyz" /\ LastLoad /\ Open

-----------------------------------------------------------------------------
(* The runtime.                                                            *)

(* Health::start, then Tracker::start in the subscription's task. *)
AppStarts ==
  /\ shutdown = "unset"
  /\ shutdown' = "no"
  /\ UNCHANGED <<clock, status, tracked, connected, loop, real, report>>

Start ==
  /\ status = "pending" /\ shutdown # "unset"
  /\ progress' = clock /\ stepped' = clock /\ status' = "running"
  /\ UNCHANGED <<clock, failures, backoff, retries, in_flight, connected, shutdown, loop,
                 verified, failure, left, held, retrying, emptied, report>>

Receiving == status = "running" /\ loop = "select"

(* Deliveries leave the subscription's hands. *)
Lets(ds) ==
  /\ held' = held \ ds
  /\ emptied' = IF held # {} /\ held \subseteq ds THEN clock ELSE emptied

(* failure is set, the application's token cancelled, and the loop left. *)
Fails == failure' = TRUE /\ shutdown' = "yes" /\ status' = "stopping"

(* discard_unstarted: those that have not started, any but the retrying. *)
Discards == \E ds \in SUBSET (held \ retrying) : Lets(ds)
KeepsAll == UNCHANGED <<held, emptied>>

(* set_in_flight at the top of the receive and of the drain loop, which    *)
(* discards first once the subscription is shut down or has failed.        *)
LoopTop ==
  /\ status \in {"running", "stopping"} /\ loop = "top"
  /\ IF status = "stopping" /\ shutdown = "yes" THEN Discards ELSE KeepsAll
  /\ in_flight' = Cardinality(held')
  /\ loop' = "select"
  /\ UNCHANGED <<clock, status, failures, backoff, retries, progress, connected, shutdown,
                 verified, failure, left, retrying, stepped, report>>

(* The receive future gets past its delay. *)
ReceiveResumed ==
  /\ Receiving /\ backoff
  /\ backoff' = FALSE
  /\ UNCHANGED <<clock, status, failures, retries, in_flight, progress, connected, shutdown,
                 loop, real, report>>

(* A delivery arrives; the first waits for the check of the output. *)
Received ==
  /\ Receiving /\ ~backoff /\ left > 0
  /\ progress' = clock /\ failures' = 0
  /\ left' = left - 1 /\ held' = held \cup {Deliveries - left'} /\ stepped' = clock
  /\ loop' = IF verified THEN "top" ELSE "verifying"
  /\ UNCHANGED <<clock, status, backoff, retries, in_flight, connected, shutdown, verified,
                 failure, retrying, emptied, report>>

(* The check succeeds, fails, or is given up at shutdown, and the delivery *)
(* with it.                                                                *)
Verified ==
  /\ loop = "verifying"
  /\ loop' = "top"
  /\ \/ verified' = TRUE /\ KeepsAll /\ UNCHANGED <<status, shutdown, failure>>
     \/ Fails /\ Lets(held) /\ UNCHANGED verified
     \/ /\ shutdown = "yes" /\ status' = "stopping"
        /\ Lets(held) /\ UNCHANGED <<verified, shutdown, failure>>
  /\ UNCHANGED <<clock, tracked, connected, left, retrying, stepped, report>>

(* A failed receive: a delay, or the failure of the subscription, at once  *)
(* for a fatal error.                                                      *)
ReceiveFails ==
  /\ Receiving /\ ~backoff
  /\ \/ /\ failures' = failures + 1 /\ backoff' = TRUE
        /\ IF failures + 1 >= MaxFailures THEN Fails ELSE UNCHANGED <<status, shutdown, failure>>
     \/ Fails /\ UNCHANGED <<failures, backoff>>
  /\ loop' = "top"
  /\ UNCHANGED <<clock, retries, in_flight, progress, connected, verified, left, held, retrying,
                 stepped, emptied, report>>

(* A stage of a job is recorded, by the job itself. *)
StageFinishes(d) ==
  /\ d \in held \ retrying /\ loop # "verifying"
  /\ progress' = clock /\ stepped' = clock
  /\ UNCHANGED <<clock, status, failures, backoff, retries, in_flight, connected, shutdown, loop,
                 verified, failure, left, held, retrying, emptied, report>>

(* retry_publish: a failed attempt is progress, and the first takes a      *)
(* guard.                                                                  *)
PublishFails(d) ==
  /\ d \in held /\ loop # "verifying"
  /\ progress' = clock /\ stepped' = clock
  /\ retries' = IF d \in retrying THEN retries ELSE retries + 1
  /\ retrying' = retrying \cup {d}
  /\ UNCHANGED <<clock, status, failures, backoff, in_flight, connected, shutdown, loop,
                 verified, failure, left, held, emptied, report>>

(* The publication succeeds, which drops the guard. *)
PublishSucceeds(d) ==
  /\ d \in retrying
  /\ retries' = retries - 1 /\ retrying' = retrying \ {d}
  /\ progress' = clock /\ stepped' = clock
  /\ UNCHANGED <<clock, status, failures, backoff, in_flight, connected, shutdown, loop,
                 verified, failure, left, held, emptied, report>>

(* The loop joins a finished job or acknowledgement, which may have        *)
(* failed.                                                                 *)
Joined(d) ==
  /\ d \in held \ retrying /\ status \in {"running", "stopping"} /\ loop = "select"
  /\ Lets({d}) /\ loop' = "top"
  /\ Fails \/ UNCHANGED <<status, shutdown, failure>>
  /\ UNCHANGED <<clock, tracked, connected, verified, left, retrying, stepped, report>>

(* The retry gives up: the job fails, and with it the subscription. *)
GivesUp(d) ==
  /\ d \in retrying /\ status \in {"running", "stopping"} /\ loop = "select"
  /\ retries' = retries - 1 /\ retrying' = retrying \ {d} /\ Lets({d})
  /\ progress' = clock /\ stepped' = clock
  /\ Fails /\ loop' = "top"
  /\ UNCHANGED <<clock, failures, backoff, in_flight, connected, verified, left, report>>

(* Shutdown or the end of the source ends the receive loop. *)
Stops ==
  /\ Receiving /\ (shutdown = "yes" \/ (left = 0 /\ ~backoff))
  /\ status' = "stopping" /\ loop' = "top"
  /\ UNCHANGED <<clock, tracked, connected, shutdown, real, report>>

(* The drain timeout aborts the jobs, and their guards are dropped with    *)
(* them.                                                                   *)
AbortAll ==
  /\ status = "stopping" /\ loop = "select" /\ held # {}
  /\ Lets(held) /\ retrying' = {} /\ retries' = retries - Cardinality(retrying)
  /\ Fails /\ loop' = "aborted"
  /\ UNCHANGED <<clock, failures, backoff, in_flight, progress, connected, verified, left, stepped,
                 report>>

Drained ==
  /\ status = "stopping" /\ loop = "select" /\ held = {}
  /\ loop' = "closing"
  /\ UNCHANGED <<clock, status, tracked, connected, shutdown, real, report>>

(* After the cleanup, which may fail: set_in_flight(0), the token of a     *)
(* failed subscription, then the final status.                             *)
Finishes ==
  /\ loop \in {"closing", "aborted"} /\ status = "stopping" /\ in_flight' = 0
  /\ \/ ~failure /\ failure' = TRUE /\ shutdown' = "yes" /\ UNCHANGED status
     \/ /\ status' = IF failure THEN "failed" ELSE "stopped"
        /\ UNCHANGED <<shutdown, failure>>
  /\ UNCHANGED <<clock, failures, backoff, retries, progress, connected, loop, verified, left, held,
                 retrying, stepped, emptied, report>>

-----------------------------------------------------------------------------
(* Surroundings.                                                           *)

Signal ==
  /\ shutdown = "no"
  /\ shutdown' = "yes"
  /\ UNCHANGED <<clock, status, tracked, connected, loop, real, report>>

ProbeChanges ==
  /\ status = "running"
  /\ connected' = ~connected
  /\ UNCHANGED <<clock, status, tracked, shutdown, loop, real, report>>

(* Time passes while the loop waits; its straight code takes none. *)
Tick ==
  /\ clock < MaxTime /\ loop # "top"
  /\ clock' = clock + 1
  /\ UNCHANGED <<status, tracked, connected, shutdown, loop, real, report>>

Next ==
  \/ AppStarts
  \/ Start
  \/ LoopTop
  \/ ReceiveResumed
  \/ Received
  \/ ReceiveFails
  \/ Verified
  \/ Stops
  \/ AbortAll
  \/ Drained
  \/ Finishes
  \/ Signal
  \/ ProbeChanges
  \/ Tick
  \/ Load
  \/ \E path \in {"/livez", "/readyz"} : Respond(path)
  \/ \E d \in 1 .. Deliveries :
       StageFinishes(d) \/ PublishFails(d) \/ PublishSucceeds(d)
       \/ Joined(d) \/ GivesUp(d)

Spec == Init /\ [][Next]_healthVars

-----------------------------------------------------------------------------
(* Properties.                                                             *)

(* /livez reports a subscription stalled only when, at the time of the     *)
(* report, no delivery had arrived or taken a step for the stall timeout,  *)
(* and deliveries were in its hands at that time or later: one that was    *)
(* idle for longer is not stalled when a delivery arrives, whichever       *)
(* writes of the tracker the loads of the report fall between.  Past a     *)
(* drain that timed out, the number in flight stays until the cleanup is   *)
(* over.  And while deliveries are stuck the values say so, except for the *)
(* first one during its check, which is not in flight yet.                 *)
(* (Tracker::report_at, the order of progressed() and set_in_flight() in   *)
(* the runtime.)                                                           *)
StallIsReal ==
  /\ SaysStalled /\ loop # "aborted" =>
       report.now - stepped >= StallTimeout /\ (held # {} \/ emptied >= report.now)
  /\ loop = "select" /\ held # {} /\ clock - stepped >= StallTimeout =>
       status \in {"running", "stopping"} /\ in_flight > 0 /\ clock - progress >= StallTimeout

(* The count of deliveries that wait to publish again is exact, after      *)
(* aborts too, so a subscription is not left unready; and /readyz never    *)
(* answers that the application is ready once a subscription has failed,   *)
(* however old the status is that the report has loaded.  (Health::report, *)
(* which asks for the shutdown last; the order of shutdown.cancel() and    *)
(* set_status; Tracker::publish_retry and its guard.)                      *)
ReadyIsReal ==
  /\ retries = Cardinality(retrying)
  /\ SaysReady => ~failure /\ status # "failed"
=============================================================================
