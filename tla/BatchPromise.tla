---------------------------- MODULE BatchPromise ----------------------------
(***************************************************************************)
(* What transaction batches promise their sender, whatever overlaps, fails *)
(* or expires: a group is handed to the network only after every           *)
(* transaction of the groups before it has succeeded, and a batch is       *)
(* reported successful only when all its transactions have.                *)
(***************************************************************************)
EXTENDS Naturals, Sequences

CONSTANTS Batch, Tx, Groups

VARIABLES
    submitted,  \* <<b, t>>: t was handed to the network for batch b
    succeeded,  \* transactions the network executed with success
    reported    \* batches whose stored status is success

promiseVars == <<submitted, succeeded, reported>>

InGroup(b, k, t) == \E i \in DOMAIN Groups[b][k] : Groups[b][k][i] = t

\* Every transaction of the groups of b before group k has succeeded.
PrefixSucceeded(b, k) ==
    \A j \in DOMAIN Groups[b] : j < k =>
        \A i \in DOMAIN Groups[b][j] : Groups[b][j][i] \in succeeded

PromiseInit == submitted = {} /\ succeeded = {} /\ reported = {}

Submit(b, t) ==
    /\ \E k \in DOMAIN Groups[b] : InGroup(b, k, t) /\ PrefixSucceeded(b, k)
    /\ submitted' = submitted \cup {<<b, t>>}
    /\ UNCHANGED <<succeeded, reported>>

Succeed(t) ==
    /\ \E b \in Batch : <<b, t>> \in submitted
    /\ succeeded' = succeeded \cup {t}
    /\ UNCHANGED <<submitted, reported>>

ReportSuccess(b) ==
    /\ PrefixSucceeded(b, Len(Groups[b]) + 1)
    /\ reported' = reported \cup {b}
    /\ UNCHANGED <<submitted, succeeded>>

\* The record expires, or is overwritten.
Withdraw(b) ==
    /\ reported' = reported \ {b}
    /\ UNCHANGED <<submitted, succeeded>>

PromiseNext ==
    \/ \E b \in Batch : ReportSuccess(b) \/ Withdraw(b) \/ \E t \in Tx : Submit(b, t)
    \/ \E t \in Tx : Succeed(t)

Promise == PromiseInit /\ [][PromiseNext]_promiseVars

=============================================================================
