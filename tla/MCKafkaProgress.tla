--------------------------- MODULE MCKafkaProgress ---------------------------
EXTENDS KafkaProgress

CONSTANTS p1, p2

OnePartition == {p1}
TwoPartitions == {p1, p2}
Gap == {0, 2}
Setting(graceful, transactional, limited) ==
  [graceful |-> graceful, transactional |-> transactional, limited |-> limited]
Settings == {Setting(FALSE, FALSE, TRUE), Setting(TRUE, FALSE, FALSE), Setting(TRUE, TRUE, FALSE)}
Limited == {Setting(FALSE, FALSE, TRUE)}
Unlimited == {Setting(FALSE, FALSE, FALSE)}
=============================================================================
