----------------------- MODULE TransactionsBatchQuiet -----------------------
(***************************************************************************)
(* TransactionsBatch when the runs do not overlap: a request, a block's    *)
(* handler and a run of the cron each end before the next one starts, and  *)
(* nothing fails or expires.  This is what a quiet deployment does most of *)
(* the time; the code does not enforce it.                                 *)
(***************************************************************************)
EXTENDS TransactionsBatch

Resting == \A p \in Proc : local[p].pc \in {"idle", "done", "failed"}

Post(r)  == Resting /\ StartTransactionBatch(r)
Block(h) == Resting /\ HandleTransactionBatches(h)
Cron(s)  == Resting /\ HandleDroppedTransactions(s)

Progress(p) ==
    \/ p \in Request /\ (\/ ExecuteTransaction(p) \/ GroupSent(p)
                         \/ SetPendingTransaction(p) \/ FirstGroupStarted(p)
                         \/ SaveNewBatch(p))
    \/ p \in Handler /\ HandlerStep(p)
    \/ p \in Sweep /\ SweepStep(p)

Settle(t) == ExecuteOnChain(t) \/ ForgetTransaction(t)

QuietNext ==
    \/ \E r \in Request : Post(r)
    \/ \E h \in Handler : Block(h)
    \/ \E s \in Sweep : Cron(s)
    \/ \E p \in Proc : Progress(p)
    \/ \E t \in Tx : Settle(t)
    \/ \E h \in Hash : TenMinutesPass(h)

\* Awaits return; time passes; the network decides on every transaction; both
\* crons are scheduled again and again, each finding the other one at rest.
QuietSpec ==
    /\ Init /\ [][QuietNext]_vars
    /\ \A p \in Proc : WF_vars(Progress(p))
    /\ \A h \in Hash : WF_vars(TenMinutesPass(h))
    /\ \A t \in Tx : WF_vars(Settle(t))
    /\ \A h \in Handler : SF_vars(Block(h))
    /\ \A s \in Sweep : SF_vars(Cron(s))

----------------------------------------------------------------------------
(* Properties of quiet runs *)

StatusOf(b) == IF stored[b] = None THEN "none" ELSE stored[b].status

\* A stored status leaves pending at most once: success and dropped are final,
\* and only the cron changes an invalid batch (handleDroppedTransactions has no
\* test of the batch's status), to dropped.
StatusIsDecidedOnce ==
    [][\A b \in Batch : StatusOf(b) # StatusOf(b)' =>
          \/ StatusOf(b) \in {"none", "pending"}
          \/ StatusOf(b) = "invalid" /\ StatusOf(b)' = "dropped"]_vars

(* The inductive invariant behind StatusIsDecidedOnce: one process is under way,
   and its copy of a batch is the newest.  A transaction's success is written once,
   when its pending key is taken up; so a group that was sent has only successful
   items before it, and a successful batch has no item that the cron could drop. *)

AtRest(l) == l.pc \in {"idle", "done", "failed"}
Writing(l) == l.pc \in {"send", "register", "save"}

\* A handler works on the entry of transaction t in batch b.
Current(t, b) == \E h \in Handler : Holding(local[h]) /\ local[h].tx = t /\ local[h].id = b

\* A handler has still to take up the outcome of t for batch b.
Due(t, b) ==
    /\ ~Current(t, b)
    /\ pendingKey[t] = b \/ \E h \in Handler : <<t, b>> \in local[h].work

GroupStarted(b, k) == \E t \in GroupItems(b, k) : <<b, t>> \in sent

\* The newest copy c of batch b.
Newest(b, c) ==
    /\ \A k, j \in DOMAIN Groups[b] : j < k /\ GroupStarted(b, k) => GroupSucceeded(b, j, c)
    /\ \A t \in BatchItems(b) : c.item[t] = "success" => ~Due(t, b)
    /\ c.status = "success" => \A t \in BatchItems(b) : c.item[t] = "success"

QuietRequest(l) ==
    /\ RequestOnce(l)
    /\ Writing(l) => stored[l.id] = None

QuietHandler(l) ==
    /\ AtRest(l) => l.work = {}
    /\ l.pc # "load"
    /\ Writing(l) =>
          /\ Newest(l.id, l.batch)
          /\ stored[l.id] # None
          /\ stored[l.id].status \in {"pending", l.batch.status}
    /\ l.pc \in {"send", "register"} =>
          /\ stored[l.id].status = "pending" /\ l.batch.status = "pending"
          /\ \A t \in l.hashes \cap BatchItems(l.id) : l.batch.item[t] # "success"
    /\ l.pc = "send" =>
          \A k \in DOMAIN Groups[l.id] :
              /\ k < l.group => GroupSucceeded(l.id, k, l.batch)
              /\ k > l.group => ~GroupStarted(l.id, k)

QuietSweep(l) ==
    l.pc = "save" =>
        /\ Newest(l.id, l.batch) /\ l.batch.status = "dropped"
        /\ stored[l.id] # None /\ stored[l.id].status # "success"

QuietProc(p, l) ==
    /\ p \in Request => QuietRequest(l)
    /\ p \in Handler => QuietHandler(l)
    /\ p \in Sweep => QuietSweep(l)

\* Without a handler's newer copy, what Redis holds is the newest.
QuietStored(b) ==
    /\ stored[b] = None => \A k \in DOMAIN Groups[b] : k > 1 => ~GroupStarted(b, k)
    /\ stored[b] # None =>
          \/ Newest(b, stored[b])
          \/ \E h \in Handler : Writing(local[h]) /\ local[h].id = b

\* At most one process is under way; the copy of a batch that it is about to write, or
\* else the one in Redis, has recorded every success before its group and none that is
\* still due (processTransaction writes a success when its key is taken up, once).
QuietInv ==
    /\ \A p, q \in Proc : p # q => AtRest(local[p]) \/ AtRest(local[q])
    /\ \A p \in Proc : QuietProc(p, local[p])
    /\ \A b \in Batch : QuietStored(b)

\* What keeps a stored batch pending: an empty group was reached, an item failed
\* on chain, or an item's hash was lost with the gateway's answer.
Stuck(b) ==
    \/ \E k \in DOMAIN Groups[b] : Groups[b][k] = << >>
    \/ \E t \in BatchItems(b) : stored[b].item[t] = "fail" \/ stored[b].hash[t] = NoHash

\* A stored batch is decided in the end, unless it is stuck for one of these reasons.
BatchIsDecided ==
    \A b \in Batch : stored[b] # None ~> (StatusOf(b) # "pending" \/ Stuck(b))

\* Every save of a batch by the processor or the cron is followed by an
\* onBatchUpdated event: the one sent before the save of an invalid batch is not
\* the last.  The batch must be the only one with its id: see EverySaveIsAnnounced.
SavesAreAnnounced ==
    \A b \in Batch : OwnId(b) => (b \in unannounced ~> b \notin unannounced)

\* The same of every batch, which does not hold: a run that goes through batches of two
\* senders with the same id announces the first one's only (groupBy in
\* handleTransactionBatches and handleDroppedTransactions).
EverySaveIsAnnounced ==
    \A b \in Batch : b \in unannounced ~> b \notin unannounced

\* "if it's invalid, we only update the transaction status" (processTransaction):
\* a batch stored as invalid stays invalid.
InvalidStaysInvalid ==
    [][\A b \in Batch : StatusOf(b) = "invalid" => StatusOf(b)' = "invalid"]_vars

----------------------------------------------------------------------------
(* The answer of GET /batch *)

\* convertFromTransactionBatch: the status shown for item t of the stored batch.
ShownStatus(b, t) ==
    IF stored[b].status = "invalid" /\ stored[b].item[t] = "pending"
      THEN "invalid" ELSE stored[b].item[t]

\* "if batch failed all transactions within that batch should be marked as
\* failed" (convertFromTransactionBatch): no item of a batch that ended without
\* success is shown as pending.
FailedBatchShowsNoPending ==
    \A b \in Batch : StatusOf(b) \in {"invalid", "dropped"} =>
        \A t \in BatchItems(b) : ShownStatus(b, t) # "pending"

=============================================================================
