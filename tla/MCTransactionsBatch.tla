------------------------ MODULE MCTransactionsBatch ------------------------
(* Small batches for TLC. *)
EXTENDS TransactionsBatch, TLC

CONSTANTS b1, t1, t2, t3, r1, h1, h2, s1

\* A group of two transactions before a group of one.
TwoThenOne == [b \in Batch |-> << <<t1, t2>>, <<t3>> >>]

\* Two groups of one transaction.
OneThenOne == [b \in Batch |-> << <<t1>>, <<t2>> >>]

OwnIds == [b \in Batch |-> b]

PostsB1 == [r \in Request |-> b1]
=============================================================================
