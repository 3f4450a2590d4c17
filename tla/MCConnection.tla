---------------------------- MODULE MCConnection ----------------------------
(* Connection with one task that waits for one poll and one that waits for *)
(* two.                                                                    *)
EXTENDS Connection

CONSTANTS w1, w2

MCWaiters == {w1, w2}
MCMinPolls == [w \in MCWaiters |-> IF w = w1 THEN 1 ELSE 2]

=============================================================================
