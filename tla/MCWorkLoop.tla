----------------------------- MODULE MCWorkLoop -----------------------------
(* The build queues of WorkLoop for TLC: one has a duplicate, and is longer *)
(* than a batch.                                                           *)
EXTENDS WorkLoop

CONSTANTS t1, t2, t3

BuildQueues == {<<t2>>, <<t1, t2, t1, t3>>}
=============================================================================
