----------------------------- MODULE MCRuntime -----------------------------
(***************************************************************************)
(* Small instances of Runtime for TLC: one whose tasks fail and whose source *)
(* pauses keys, and one whose source takes deliveries back and cannot pause. *)
(* `part` says which.  The constants of the configuration are the first's;   *)
(* of those the properties speak of, only max_in_flight is smaller in the    *)
(* second.                                                                   *)
(***************************************************************************)
EXTENDS Runtime

CONSTANTS k1, k2

VARIABLE part

MCKeys == {k1, k2}

(* SourceOrder, the default distribution: the lane is the ordering key.     *)
SourceOrder == [k \in MCKeys |-> {k}]

(* A distribution by a key of the value: one ordering key spread over two   *)
(* lanes, and deliveries without an ordering key that share one of them.    *)
ByValue == [k \in {k1, NoKey} |-> IF k = k1 THEN MCKeys ELSE {k1}]

TakesBack == INSTANCE Runtime WITH
  LanesOf <- ByValue, Limit <- 1, MaxInFlight <- 2, CanPause <- FALSE, MaxTakenBack <- 2,
  TasksFail <- FALSE

MCInit ==
  \/ part = "faults" /\ RInit
  \/ part = "takeBack" /\ TakesBack!RInit

MCNext ==
  \/ part = "faults" /\ RNext /\ UNCHANGED part
  \/ part = "takeBack" /\ TakesBack!RNext /\ UNCHANGED part

MCSpec == MCInit /\ [][MCNext]_<<part, rvars>>
=============================================================================
