---------------------- MODULE MCTransactionsBatchQuiet ----------------------
(* Batches posted once, for TLC. *)
EXTENDS TransactionsBatchQuiet, TLC

CONSTANTS b1, b2, b3, t1, t2, t3, r1, r2, r3, h1, s1

\* A regular batch, one without groups and one whose first group is empty.
Shapes ==
    (b1 :> << <<t1, t2>>, <<t3>> >>) @@ (b2 :> << >>) @@ (b3 :> << << >>, <<t1>> >>)

\* The last two have the same id, for two senders.
SharedId == [b \in Batch |-> IF b = b1 THEN b1 ELSE b2]

PostsEach == [r \in Request |-> IF r = r1 THEN b1 ELSE IF r = r2 THEN b2 ELSE b3]
=============================================================================
