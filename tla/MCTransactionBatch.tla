-------------------------- MODULE MCTransactionBatch --------------------------
(* Small instances of TransactionBatch for TLC.                              *)
EXTENDS TransactionBatch

CONSTANTS s1, s2

MCScopes == {s1, s2}

(* A delivery of one scope between two of another.                           *)
TwoScopes == [d \in 1..N |-> IF d = 2 THEN s2 ELSE s1]
=============================================================================
