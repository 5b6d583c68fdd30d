------------------------ MODULE MCEvaluationPipeline ------------------------
(* Small instances of the evaluation pipeline for TLC. *)
EXTENDS EvaluationPipeline

CONSTANTS self, other, t1, o1, o2, m1

Good(o)     == [order |-> o, net |-> 15000, readable |-> TRUE, refunded |-> FALSE]
Refunded(o) == [order |-> o, net |-> 15000, readable |-> TRUE, refunded |-> TRUE]
Garbled(o)  == [order |-> o, net |-> 0, readable |-> FALSE, refunded |-> FALSE]

\* A refund appended after the sale, a correction after a refund, an unreadable
\* amount, and no records at all.
MCRecordLists ==
    { <<Good(o1), Refunded(o1)>>, <<Refunded(o1), Good(o1), Garbled(o2)>>, <<>> }
=============================================================================
