------------------------- MODULE TransactionsBatch -------------------------
(***************************************************************************)
(* Transaction batches: POST /batch sends the first group of a batch to    *)
(* the network and stores the batch in Redis; the batch processor follows  *)
(* the executed transactions and sends each next group once the previous   *)
(* one succeeded; a cron drops what the network no longer knows.           *)
(*                                                                         *)
(* A step of this module is the code between two awaits.  A process (a     *)
(* POST request, the un-awaited handler of a block, a run of the cron)     *)
(* keeps its own deserialised copy of the batch between its awaits, and    *)
(* writes the whole copy back.                                             *)
(***************************************************************************)
EXTENDS Naturals, Sequences

CONSTANTS
    Batch,        \* batch keys: a sender address with a batch id
    BatchId,      \* BatchId[b]: the id in b, which another sender's batch can have too
    Tx,           \* signed transactions, named by the hash computed from them
    Groups,       \* Groups[b]: the groups of batch b, each a sequence of Tx
    Request,      \* POST /batch calls
    RequestBatch, \* RequestBatch[r]: the batch key that request r posts
    Handler,      \* runs of handleTransactionBatches that can overlap
    Sweep,        \* runs of handleDroppedTransactions that can overlap
    None,         \* null: no entry in Redis, no batch, no hash
    NoHash,       \* the hash 'undefined' left by a send without an answer
    Faults,       \* TRUE: Redis calls can fail and processes can crash
    Expiry,       \* TRUE: the time-to-live of a Redis entry can run out
    Redelivery    \* TRUE: a block whose nonce could not be saved is received again

Proc == Request \cup Handler \cup Sweep
Hash == Tx \cup {NoHash}

GroupItems(b, k) == {Groups[b][k][i] : i \in DOMAIN Groups[b][k]}
BatchItems(b) == UNION {GroupItems(b, k) : k \in DOMAIN Groups[b]}

ASSUME ProcAssumption ==
    /\ Request \cap Handler = {} /\ Request \cap Sweep = {}
    /\ Handler \cap Sweep = {}
    /\ RequestBatch \in [Request -> Batch]
ASSUME FlagAssumption == {Faults, Expiry, Redelivery} \subseteq BOOLEAN
\* A transaction is signed with one nonce of its sender: two items of a batch differ.
ASSUME GroupsAssumption ==
    /\ Groups \in [Batch -> Seq(Seq(Tx))]
    /\ \A b \in Batch : \A k, l \in DOMAIN Groups[b] :
          \A i \in DOMAIN Groups[b][k], j \in DOMAIN Groups[b][l] :
             Groups[b][k][i] = Groups[b][l][j] => k = l /\ i = j

----------------------------------------------------------------------------
(* Data *)

BatchStatus == {"pending", "success", "invalid", "dropped"}
Outcome     == {"success", "invalid", "fail"}
ItemStatus  == {"pending", "dropped"} \cup Outcome

TransactionBatch == [status : BatchStatus, item : [Tx -> ItemStatus], hash : [Tx -> Hash]]

ASSUME NullAssumption ==
    /\ None \notin Batch \cup Hash \cup TransactionBatch
    /\ NoHash \notin Tx

\* Mutant: the hashes are not computed before the sends.
NewBatchUnhashed == [status |-> "pending", item |-> [t \in Tx |-> "pending"],
                     hash |-> [t \in Tx |-> None]]

\* The batch a request starts with: every item pending, with its computed hash.
NewBatch == [status |-> "pending",
             item   |-> [t \in Tx |-> "pending"],
             hash   |-> [t \in Tx |-> t]]

PC == {"idle", "scan", "load", "send", "register", "save", "delete", "done", "failed"}

Local == [pc     : PC,
          id     : Batch \cup {None},            \* the batch being worked on
          batch  : TransactionBatch \cup {None}, \* the local copy of it
          group  : Nat,                          \* group being sent
          next   : Nat,                          \* next item of it to send
          hashes : SUBSET Hash,                  \* pending keys still to write
          work   : SUBSET (Hash \X Batch),       \* pending entries read, not yet handled
          tx     : Hash \cup {None},             \* the entry being handled
          touched : SUBSET Batch]                \* batches to announce at the end

Idle == [pc |-> "idle", id |-> None, batch |-> None, group |-> 0, next |-> 0,
         hashes |-> {}, work |-> {}, tx |-> None, touched |-> {}]

VARIABLES
    stored,      \* Redis: transactionbatch:<address>:<id>
    pendingKey,  \* Redis: pendingtransaction:<hash>, the batch it belongs to
    aged,        \* pending entries whose date is more than 10 minutes ago
    chain,       \* what the network knows of a transaction
    delivered,   \* transactions whose block reached onTransactionsReceived
    unannounced, \* batches saved by a cron and not yet announced by onBatchUpdated
    sent,        \* history: <<b, t>> when t was handed to the gateway for batch b
    local        \* the processes

vars == <<stored, pendingKey, aged, chain, delivered, unannounced, sent, local>>

TypeOK ==
    /\ stored \in [Batch -> TransactionBatch \cup {None}]
    /\ pendingKey \in [Hash -> Batch \cup {None}]
    /\ aged \in SUBSET Hash
    /\ chain \in [Tx -> {"unknown", "pool"} \cup Outcome]
    /\ delivered \in SUBSET Tx
    /\ unannounced \in SUBSET Batch
    /\ sent \in SUBSET (Batch \X Tx)
    /\ local \in [Proc -> Local]

Init ==
    /\ stored = [b \in Batch |-> None]
    /\ pendingKey = [h \in Hash |-> None]
    /\ aged = {}
    /\ chain = [t \in Tx |-> "unknown"]
    /\ delivered = {}
    /\ unannounced = {}
    /\ sent = {}
    /\ local = [p \in Proc |-> Idle]

Becomes(p, l) == local' = [local EXCEPT ![p] = l]

\* The local state of a process that begins to send group k of its copy c of batch b.
StartGroup(l, b, c, k) ==
    [l EXCEPT !.pc = "send", !.id = b, !.batch = c, !.group = k, !.next = 1, !.hashes = {}]

\* Mutant: the batches gone through are forgotten with each entry.
ScanningForgetful(work, touched) ==
    [Idle EXCEPT !.pc = "scan", !.work = work, !.touched = {}]

\* A cron's run between two entries: those left to handle, the batches to announce.
Scanning(work, touched) == [Idle EXCEPT !.pc = "scan", !.work = work, !.touched = touched]

----------------------------------------------------------------------------
(* POST /batch *)

\* The existence check, and everything up to the first transaction's send.
StartTransactionBatch(r) ==
    LET b == RequestBatch[r] IN
    /\ local[r].pc = "idle"
    /\ \/ /\ stored[b] # None                          \* duplicate: 400
          /\ Becomes(r, [Idle EXCEPT !.pc = "failed"])
       \/ /\ stored[b] = None /\ Groups[b] = << >>     \* returned as it is
          /\ Becomes(r, [Idle EXCEPT !.pc = "done"])
       \/ /\ stored[b] = None /\ Groups[b] # << >> /\ Groups[b][1] = << >>
          /\ Becomes(r, [Idle EXCEPT !.pc = "failed"]) \* getAddress throws
       \/ /\ stored[b] = None /\ Groups[b] # << >> /\ Groups[b][1] # << >>
          /\ Becomes(r, StartGroup(Idle, b, NewBatch, 1))
    /\ UNCHANGED <<stored, pendingKey, aged, chain, delivered, unannounced, sent>>

\* One executeTransaction of startTransactionGroup.  The gateway takes the
\* transaction and answers; or createTransaction turns its error into a string,
\* whose txHash is undefined, whether or not the network took it; or
\* createTransaction throws, which makes the item invalid and ends the loop.
ExecuteTransaction(p) ==
    LET l == local[p]
        group == Groups[l.id][l.group]
        t == group[l.next]
        pooled == [chain EXCEPT ![t] = IF @ = "unknown" THEN "pool" ELSE @]
        Executed(hash) ==
            [l EXCEPT !.next = @ + 1,
                      !.batch.hash[t] = hash,
                      !.hashes = IF l.batch.item[t] = "pending" THEN @ \cup {hash} ELSE @]
    IN
    /\ l.pc = "send" /\ l.next \in DOMAIN group
    /\ \/ /\ chain' = pooled /\ Becomes(p, Executed(t))
          /\ sent' = sent \cup {<<l.id, t>>}
       \/ /\ chain' \in {chain, pooled} /\ Becomes(p, Executed(NoHash))
          /\ sent' = sent \cup {<<l.id, t>>}
       \/ /\ Becomes(p, [l EXCEPT !.next = Len(group) + 1, !.batch.item[t] = "invalid"])
          /\ UNCHANGED <<chain, sent>>
    /\ UNCHANGED <<stored, pendingKey, aged, delivered, unannounced>>

\* The loop of startTransactionGroup is over.
GroupSent(p) ==
    LET l == local[p] IN
    /\ l.pc = "send" /\ l.next \notin DOMAIN Groups[l.id][l.group]
    /\ Becomes(p, [l EXCEPT !.pc = "register"])
    /\ UNCHANGED <<stored, pendingKey, aged, chain, delivered, unannounced, sent>>

\* One of the setCacheRemote calls of the final Promise.all.
SetPendingTransaction(p) ==
    /\ local[p].pc = "register"
    /\ \E h \in local[p].hashes :
          /\ pendingKey' = [pendingKey EXCEPT ![h] = local[p].id]
          /\ aged' = aged \ {h}
          /\ Becomes(p, [local[p] EXCEPT !.hashes = @ \ {h}])
    /\ UNCHANGED <<stored, chain, delivered, unannounced, sent>>

GroupHasInvalid(l) ==
    \E t \in GroupItems(l.id, l.group) : l.batch.item[t] = "invalid"

\* startTransactionGroup returned to the request: an invalid item ends it
\* without a save.
FirstGroupStarted(r) ==
    LET l == local[r] IN
    /\ l.pc = "register" /\ l.hashes = {}
    /\ \/ /\ GroupHasInvalid(l)
          /\ Becomes(r, [l EXCEPT !.pc = "done", !.batch.status = "invalid"])
       \/ ~GroupHasInvalid(l) /\ Becomes(r, [l EXCEPT !.pc = "save"])
    /\ UNCHANGED <<stored, pendingKey, aged, chain, delivered, unannounced, sent>>

SaveNewBatch(r) ==
    LET l == local[r] IN
    /\ l.pc = "save"
    /\ stored' = [stored EXCEPT ![l.id] = l.batch]
    /\ Becomes(r, [l EXCEPT !.pc = "done"])
    /\ UNCHANGED <<pendingKey, aged, chain, delivered, unannounced, sent>>

RequestStep(r) ==
    \/ StartTransactionBatch(r) \/ ExecuteTransaction(r) \/ GroupSent(r)
    \/ SetPendingTransaction(r) \/ FirstGroupStarted(r) \/ SaveNewBatch(r)

----------------------------------------------------------------------------
(* The batch processor: handleTransactionBatches, one run for each block *)

\* A block's transactions, looked up among the pending keys.  The handler is not
\* awaited: the block is received again when setLastProcessedNonce then fails.
HandleTransactionBatches(h) ==
    /\ local[h].pc = "idle"
    /\ \E T \in SUBSET {t \in Tx : chain[t] \in Outcome /\ (Redelivery \/ t \notin delivered)} :
          /\ T # {}
          /\ delivered' = delivered \cup T
          /\ LET found == {w \in T \X Batch : pendingKey[w[1]] = w[2]} IN
             IF found = {} THEN UNCHANGED local
             ELSE Becomes(h, Scanning(found, {}))
    /\ UNCHANGED <<stored, pendingKey, aged, chain, unannounced, sent>>

\* Mutants: a failed execution counts as a success; one success is enough for a
\* group; every group is waited for; the last group is found one group early; the
\* status of an invalid or dropped batch is not looked at.
ReceivedStatusLenient(t) == IF chain[t] = "fail" THEN "success" ELSE chain[t]
GroupSucceededOnce(b, k, batch) == \E u \in GroupItems(b, k) : batch.item[u] = "success"
GroupSucceededAll(b, k, batch) == \A u \in BatchItems(b) : batch.item[u] = "success"
IsLastGroupEarly(b, k) == k + 1 >= Len(Groups[b])
IsActiveLoose(batch) == batch.status # "success"

\* The status a block reports for its transaction.
ReceivedStatus(t) == chain[t]
GroupSucceeded(b, k, batch) == \A u \in GroupItems(b, k) : batch.item[u] = "success"
IsLastGroup(b, k) == k = Len(Groups[b])
IsActive(batch) == batch.status = "pending"

\* The status of the item of group k is updated in the handler's copy; only a
\* pending batch moves on: to invalid, to success, or to its next group.
UpdateItem(h, l, k) ==
    LET status == ReceivedStatus(l.tx)
        batch == [l.batch EXCEPT !.item[l.tx] = status]
        active == IsActive(batch)
        groupDone == GroupSucceeded(l.id, k, batch)
        Saved(s) == Becomes(h, [l EXCEPT !.pc = "save", !.batch = [batch EXCEPT !.status = s]])
    IN
    \/ active /\ status = "invalid" /\ Saved("invalid")
    \/ /\ active /\ status = "success" /\ groupDone
       /\ \/ IsLastGroup(l.id, k) /\ Saved("success")
          \/ ~IsLastGroup(l.id, k) /\ Becomes(h, StartGroup(l, l.id, batch, k + 1))
    \/ /\ ~active \/ status = "fail" \/ (status = "success" /\ ~groupDone)
       /\ Saved(batch.status)

\* processTransaction: its read of the batch, up to its next await.
ProcessTransaction(h) ==
    /\ local[h].pc = "scan"
    /\ \E w \in local[h].work :
       LET t == w[1]
           b == w[2]
           l == [local[h] EXCEPT !.pc = "load", !.tx = t, !.id = b, !.batch = stored[b]]
           matches == stored[b] # None /\ t \in BatchItems(b) /\ stored[b].hash[t] = t
       IN
       \/ ~matches /\ Becomes(h, [l EXCEPT !.pc = "delete"])   \* nothing to save
       \/ /\ matches
          /\ \E k \in DOMAIN Groups[b] : t \in GroupItems(b, k) /\ UpdateItem(h, l, k)
    /\ UNCHANGED <<stored, pendingKey, aged, chain, delivered, unannounced, sent>>

\* startTransactionGroup returned to processTransaction: an invalid item makes
\* the batch invalid, which is announced before it is saved.
NextGroupStarted(h) ==
    LET l == local[h] IN
    /\ l.pc = "register" /\ l.hashes = {}
    /\ \/ /\ GroupHasInvalid(l)
          /\ Becomes(h, [l EXCEPT !.pc = "save", !.batch.status = "invalid"])
          /\ unannounced' = unannounced \ {l.id}
       \/ /\ ~GroupHasInvalid(l)
          /\ Becomes(h, [l EXCEPT !.pc = "save"])
          /\ UNCHANGED unannounced
    /\ UNCHANGED <<stored, pendingKey, aged, chain, delivered, sent>>

\* The save of a cron's copy of a batch, whatever Redis holds by then.
SaveBatch(p) ==
    LET l == local[p] IN
    /\ l.pc = "save"
    /\ stored' = [stored EXCEPT ![l.id] = l.batch]
    /\ unannounced' = unannounced \cup {l.id}
    /\ Becomes(p, [l EXCEPT !.pc = "delete"])
    /\ UNCHANGED <<pendingKey, aged, chain, delivered, sent>>

\* What is left of a cron's run once the entry w has been handled.
AfterEntry(l) == Scanning(l.work \ {<<l.tx, l.id>>}, l.touched)

\* The batches a run announces once it has handled its entry: the entries are grouped by
\* batch id, and a group is announced to the sender of its first entry only.
ToAnnounce(l) ==
    IF \E b \in l.touched : BatchId[b] = BatchId[l.id] THEN l.touched ELSE l.touched \cup {l.id}

\* The end of an entry that was found in its batch, or of a handler's entry.
DeletePendingTransaction(p) ==
    LET l == local[p] IN
    /\ l.pc = "delete"
    /\ pendingKey' = [pendingKey EXCEPT ![l.tx] = None]
    /\ aged' = aged \ {l.tx}
    /\ Becomes(p, Scanning(l.work \ {<<l.tx, l.id>>}, ToAnnounce(l)))
    /\ UNCHANGED <<stored, chain, delivered, unannounced, sent>>

\* The end of a cron's run: onBatchUpdated for the batches it went through.
EmitBatchUpdated(p) ==
    /\ local[p].pc = "scan" /\ local[p].work = {}
    /\ unannounced' = unannounced \ local[p].touched
    /\ Becomes(p, Idle)
    /\ UNCHANGED <<stored, pendingKey, aged, chain, delivered, sent>>

HandlerStep(h) ==
    \/ ProcessTransaction(h) \/ ExecuteTransaction(h) \/ GroupSent(h)
    \/ SetPendingTransaction(h) \/ NextGroupStarted(h) \/ SaveBatch(h)
    \/ DeletePendingTransaction(h) \/ EmitBatchUpdated(h)

----------------------------------------------------------------------------
(* handleDroppedTransactions *)

\* The pending entries that are old when they are read.
HandleDroppedTransactions(s) ==
    LET old == {w \in aged \X Batch : pendingKey[w[1]] = w[2]} IN
    /\ local[s].pc = "idle" /\ old # {}
    /\ Becomes(s, Scanning(old, {}))
    /\ UNCHANGED <<stored, pendingKey, aged, chain, delivered, unannounced, sent>>

\* getTransaction finds nothing when the network does not know the transaction
\* and, the gateway's error being turned into null, when the gateway fails.
LookupTransaction(s) ==
    /\ local[s].pc = "scan"
    /\ \E w \in local[s].work :
       LET l == [local[s] EXCEPT !.tx = w[1], !.id = w[2]]
           known == w[1] \in Tx /\ chain[w[1]] # "unknown"
       IN \/ known /\ Becomes(s, AfterEntry(l))
          \/ (~known \/ Faults) /\ Becomes(s, [l EXCEPT !.pc = "load"])
    /\ UNCHANGED <<stored, pendingKey, aged, chain, delivered, unannounced, sent>>

DropTransaction(s) ==
    LET l == local[s]
        t == l.tx
        b == l.id
        matches == /\ stored[b] # None /\ t \in BatchItems(b)
                   /\ stored[b].hash[t] = t /\ stored[b].item[t] = "pending"
    IN
    /\ l.pc = "load"
    /\ \/ ~matches /\ Becomes(s, AfterEntry(l))
       \/ /\ matches
          /\ Becomes(s, [l EXCEPT !.pc = "save",
                          !.batch = [stored[b] EXCEPT !.item[t] = "dropped",
                                                      !.status = "dropped"]])
    /\ UNCHANGED <<stored, pendingKey, aged, chain, delivered, unannounced, sent>>

SweepStep(s) ==
    \/ LookupTransaction(s) \/ DropTransaction(s) \/ SaveBatch(s)
    \/ DeletePendingTransaction(s) \/ EmitBatchUpdated(s)

----------------------------------------------------------------------------
(* The network, time and failures *)

ExecuteOnChain(t) ==
    /\ chain[t] = "pool"
    /\ \E o \in Outcome : chain' = [chain EXCEPT ![t] = o]
    /\ UNCHANGED <<stored, pendingKey, aged, delivered, unannounced, sent, local>>

\* The network forgets a transaction it has not executed.
ForgetTransaction(t) ==
    /\ chain[t] = "pool"
    /\ chain' = [chain EXCEPT ![t] = "unknown"]
    /\ UNCHANGED <<stored, pendingKey, aged, delivered, unannounced, sent, local>>

TenMinutesPass(h) ==
    /\ pendingKey[h] # None /\ h \notin aged
    /\ aged' = aged \cup {h}
    /\ UNCHANGED <<stored, pendingKey, chain, delivered, unannounced, sent, local>>

\* 15 minutes for a pending key, 20 for a batch since its last save.
ExpirePendingKey(h) ==
    /\ Expiry /\ h \in aged /\ pendingKey[h] # None
    /\ pendingKey' = [pendingKey EXCEPT ![h] = None]
    /\ aged' = aged \ {h}
    /\ UNCHANGED <<stored, chain, delivered, unannounced, sent, local>>

ExpireBatch(b) ==
    /\ Expiry /\ stored[b] # None
    /\ stored' = [stored EXCEPT ![b] = None]
    /\ UNCHANGED <<pendingKey, aged, chain, delivered, unannounced, sent, local>>

\* A crash ends a request or a cron's run.  A Redis error ends a request and a
\* block's handler, which still goes through the finally block and deletes the
\* key; the cron catches it and goes on with the next entry.
Fail(p) ==
    LET l == local[p] IN
    /\ Faults /\ l.pc \notin {"idle", "done", "failed"}
    /\ \/ p \in Request /\ Becomes(p, [l EXCEPT !.pc = "failed"])
       \/ p \notin Request /\ Becomes(p, Idle)
       \/ /\ p \in Handler /\ l.pc \in {"register", "save"}
          /\ Becomes(p, [l EXCEPT !.pc = "delete", !.touched = {},
                                  !.work = @ \cap {<<l.tx, l.id>>}])
       \/ /\ p \in Handler /\ l.pc = "scan"
          /\ \E w \in l.work :
                Becomes(p, [l EXCEPT !.pc = "delete", !.tx = w[1], !.id = w[2],
                                     !.work = {w}, !.touched = {}])
       \/ /\ p \in Sweep /\ l.pc = "scan"
          /\ \E w \in l.work : Becomes(p, [l EXCEPT !.work = @ \ {w}])
       \/ /\ p \in Sweep /\ l.pc \in {"load", "save", "delete"}
          /\ Becomes(p, AfterEntry(l))
    /\ UNCHANGED <<stored, pendingKey, aged, chain, delivered, unannounced, sent>>

Environment ==
    \/ \E t \in Tx : ExecuteOnChain(t) \/ ForgetTransaction(t)
    \/ \E h \in Hash : TenMinutesPass(h) \/ ExpirePendingKey(h)
    \/ \E b \in Batch : ExpireBatch(b)
    \/ \E p \in Proc : Fail(p)

Next ==
    \/ \E r \in Request : RequestStep(r)
    \/ \E h \in Handler : HandleTransactionBatches(h) \/ HandlerStep(h)
    \/ \E s \in Sweep : HandleDroppedTransactions(s) \/ SweepStep(s)
    \/ Environment

Spec == Init /\ [][Next]_vars

----------------------------------------------------------------------------
(* Properties that hold whatever overlaps, fails or expires *)

\* A transaction is handed to the gateway for a batch only after every
\* transaction of the batch's earlier groups has succeeded on chain
\* (startTransactionGroup is called for group k+1 only once group k succeeded).
GroupOrder ==
    \A b \in Batch : \A k, j \in DOMAIN Groups[b] : \A t \in GroupItems(b, k) :
        <<b, t>> \in sent /\ j < k => \A u \in GroupItems(b, j) : chain[u] = "success"

\* A batch is stored as successful only when each of its transactions
\* succeeded on chain, although only the last group is examined at that point.
SuccessIsReal ==
    \A b \in Batch : stored[b] # None /\ stored[b].status = "success" =>
        \A t \in BatchItems(b) : chain[t] = "success"

\* No two block handlers start the same group, and none starts a group that was
\* sent already, although each decides on its own copy of the batch, as long as a
\* block is received once.
NextGroupStartedOnce ==
    \A h \in Handler : local[h].pc = "send" /\ local[h].next = 1 =>
        LET fresh == GroupItems(local[h].id, local[h].group) IN
        /\ \A t \in fresh : <<local[h].id, t>> \notin sent
        /\ \A g \in Handler \ {h} :
              ~(/\ local[g].pc = "send" /\ local[g].id = local[h].id
                /\ local[g].group = local[h].group)

\* "this is to prevent an invalid batch to become successful": a batch stored as
\* invalid is never stored as successful later (processTransaction), as long as a
\* block is received once.
InvalidNeverSuccessful ==
    \A b \in Batch :
        []((stored[b] # None /\ stored[b].status = "invalid")
            => [](stored[b] # None => stored[b].status # "success"))

\* No other sender's batch has the id of b.
OwnId(b) == \A c \in Batch \ {b} : BatchId[c] # BatchId[b]

\* A save that is not announced yet has a run that will announce it: no run of a cron
\* forgets a batch between its save and the onBatchUpdated events at its end, over all
\* the entries in between (handleTransactionBatches, handleDroppedTransactions), as long
\* as nothing fails and no batch of another sender has its id.
SavesHaveAnnouncer ==
    \A b \in unannounced : OwnId(b) => \E p \in Handler \cup Sweep :
        \/ b \in local[p].touched
        \/ local[p].pc = "delete" /\ local[p].id = b

(* The inductive invariant behind GroupOrder and SuccessIsReal: every copy of a
   batch, in Redis or held by a process across an await, only claims success
   that the chain confirms, for transactions the batch itself sent. *)

\* The groups of b before group k have succeeded on chain.
PrefixSucceeded(b, k, ch) ==
    \A j \in DOMAIN Groups[b] : j < k => \A u \in GroupItems(b, j) : ch[u] = "success"

\* The copy c of batch b claims no success that chain ch and history s do not have.
Truthful(b, c, ch, s) ==
    /\ \A t \in BatchItems(b) :
          c.item[t] = "success" => ch[t] = "success" /\ <<b, t>> \in s
    /\ c.status = "success" => \A t \in BatchItems(b) : ch[t] = "success"

LocalTruthful(l, ch, s) ==
    /\ l.pc \in {"send", "register", "save", "delete", "load"} => l.id \in Batch
    /\ l.pc \in {"send", "register", "save"} => l.batch # None
    /\ l.pc \in {"scan", "load"} => l.hashes = {}
    /\ l.pc = "scan" => l.batch = None
    /\ l.batch # None => l.id \in Batch /\ Truthful(l.id, l.batch, ch, s)
    /\ l.pc = "send" => /\ l.group \in DOMAIN Groups[l.id]
                        /\ PrefixSucceeded(l.id, l.group, ch)
    /\ \A h \in l.hashes : h \in Tx => <<l.id, h>> \in s
    /\ \A w \in l.work : w[1] \in Tx => <<w[2], w[1]>> \in s

HandlerTruthful(l, ch) == \A w \in l.work : w[1] \in Tx /\ ch[w[1]] \in Outcome

IInv ==
    /\ TypeOK
    /\ GroupOrder
    /\ \A b \in Batch : stored[b] # None => Truthful(b, stored[b], chain, sent)
    /\ \A t \in Tx : pendingKey[t] # None => <<pendingKey[t], t>> \in sent
    /\ \A t \in Tx : chain[t] # "unknown" => \E b \in Batch : <<b, t>> \in sent
    /\ \A p \in Proc : LocalTruthful(local[p], chain, sent)
    /\ \A h \in Handler : HandlerTruthful(local[h], chain)

(* The inductive invariant behind NextGroupStartedOnce and InvalidNeverSuccessful:
   the success of a transaction reaches one handler, and the handler that takes
   up a group's last success starts the next group, so that no success is left
   with which another handler could start it again; an item that a handler failed
   to send is then never sent. *)

\* The handler is past its read of the batch for the entry it works on.
Holding(l) == l.pc \in {"send", "register", "save", "delete"}

\* Transaction t was delivered, and no handler has still to take it up for batch b.
Taken(t, b) ==
    /\ t \in delivered
    /\ \A h \in Handler : <<t, b>> \in local[h].work =>
          Holding(local[h]) /\ local[h].tx = t /\ local[h].id = b

GroupTaken(b, k) == \A u \in GroupItems(b, k) : Taken(u, b)

Sending(h, b, k) == local[h].pc = "send" /\ local[h].id = b /\ local[h].group = k

\* A handler went past item t of a later group without sending it.
Skipped(b, t) ==
    /\ <<b, t>> \notin sent
    /\ \E k \in DOMAIN Groups[b] : \E i \in DOMAIN Groups[b][k] :
          /\ t = Groups[b][k][i] /\ k > 1 /\ GroupTaken(b, k - 1)
          /\ \A h \in Handler : Sending(h, b, k) => i < local[h].next

Void(b, t) == chain[t] = "invalid" \/ Skipped(b, t)

\* The batch cannot succeed any more.
Doomed(b) == \E t \in BatchItems(b) : Void(b, t)

\* What a copy c of batch b, in Redis or with a cron, shows of its transactions.
Shows(b, c) ==
    /\ \A t \in BatchItems(b) :
          /\ c.item[t] = "success" => Taken(t, b)
          /\ c.item[t] = "invalid" => Void(b, t)
    /\ c.status = "success" => \A t \in BatchItems(b) : <<b, t>> \in sent
    /\ c.status = "invalid" => Doomed(b)

\* A request sends the first group, and saves a batch without an invalid item.
RequestOnce(l) ==
    /\ l.pc \in {"send", "register"} => l.group = 1
    /\ l.pc \in {"send", "register", "save"} =>
          /\ l.batch.status = "pending"
          /\ \A t \in BatchItems(l.id) :
                \/ l.batch.item[t] = "pending"
                \/ l.batch.item[t] = "invalid" /\ l.pc # "save" /\ t \in GroupItems(l.id, 1)

HandlerOnce(h, l) ==
    /\ l.pc # "load"
    /\ \A w \in l.work : w[1] \in delivered
    /\ \A g \in Handler \ {h} : local[g].work \cap l.work = {}
    /\ l.pc = "register" => l.group \in DOMAIN Groups[l.id]
    /\ l.pc = "send" =>
          /\ l.group > 1
          /\ \A i \in DOMAIN Groups[l.id][l.group] :
                l.next <= i => <<l.id, Groups[l.id][l.group][i]>> \notin sent
          /\ \A g \in Handler \ {h} : ~Sending(g, l.id, l.group)

Started(b, k) ==
    /\ k > 1
    /\ \/ \E t \in GroupItems(b, k) : <<b, t>> \in sent
       \/ \E h \in Handler : Sending(h, b, k)

OnceInv ==
    /\ \A r \in Request : RequestOnce(local[r])
    /\ \A h \in Handler : HandlerOnce(h, local[h])
    /\ \A p \in Handler \cup Sweep : local[p].batch # None => Shows(local[p].id, local[p].batch)
    /\ \A b \in Batch : stored[b] # None => Shows(b, stored[b])
    /\ \A b \in Batch : \A k \in DOMAIN Groups[b] : Started(b, k) =>
          /\ GroupTaken(b, k - 1)
          /\ \A j \in 1..(k - 1) : \A u \in GroupItems(b, j) : <<b, u>> \in sent

Promised == INSTANCE BatchPromise WITH
    submitted <- sent,
    succeeded <- {t \in Tx : chain[t] = "success"},
    reported <- {b \in Batch : stored[b] # None /\ stored[b].status = "success"}

\* The processor, the cron and the requests together keep BatchPromise.
KeepsPromise == Promised!Promise

=============================================================================
