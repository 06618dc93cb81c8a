---------------------------- MODULE MCProcessing ----------------------------
(* Small instances of Processing for TLC.                                    *)
EXTENDS Processing

CONSTANTS p1, p2

(* One partition feeds the state key, or two do.                             *)
OnePartition == [d \in Deliveries |-> p1]
TwoPartitions == [d \in Deliveries |-> IF d = 1 THEN p1 ELSE p2]

(* Every action for some failure.                                            *)
MixedPolicy ==
  [DeadLetterAll EXCEPT !["Decode"] = "Discard", !["RetryExhausted"] = "Stop",
                        !["Encode"] = "Discard"]

(* Validation removes the last.                                              *)
MCSettings ==
  {[policy |-> MixedPolicy, dlq |-> TRUE, stateful |-> TRUE],
   [policy |-> DefaultPolicy, dlq |-> FALSE, stateful |-> FALSE],
   [policy |-> DeadLetterAll, dlq |-> FALSE, stateful |-> TRUE]}

MCStateful == {[policy |-> DefaultPolicy, dlq |-> FALSE, stateful |-> TRUE]}
=============================================================================
