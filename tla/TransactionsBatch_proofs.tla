---------------------- MODULE TransactionsBatch_proofs ----------------------
(***************************************************************************)
(* Proofs that the batches keep their type, that groups are sent in order  *)
(* and that a success in Redis is a success on chain, for every number of  *)
(* batches, transactions, requests, handlers and runs of the cron.         *)
(***************************************************************************)
EXTENDS TransactionsBatch, TLAPS

USE DEF Proc, Hash

\* The groups hold transactions.
LEMMA GroupItemsType ==
    ASSUME NEW b \in Batch, NEW k \in DOMAIN Groups[b]
    PROVE  /\ Groups[b][k] \in Seq(Tx)
           /\ GroupItems(b, k) \subseteq Tx
           /\ GroupItems(b, k) \subseteq BatchItems(b)
           /\ k \in Nat \ {0} /\ k <= Len(Groups[b])
<1>1. Groups[b] \in Seq(Seq(Tx))
  BY GroupsAssumption
<1>2. Groups[b][k] \in Seq(Tx) /\ k \in Nat \ {0} /\ k <= Len(Groups[b])
  BY <1>1
<1> QED  BY <1>2 DEF GroupItems, BatchItems

LEMMA BatchItemsType ==
    ASSUME NEW b \in Batch
    PROVE  BatchItems(b) \subseteq Tx
BY GroupItemsType DEF BatchItems

\* A step keeps every success on chain, every final outcome and every send.
Grows(ch, ch2, s, s2) ==
    /\ \A t \in Tx : ch[t] \in Outcome => ch2[t] = ch[t]
    /\ s \subseteq s2

LEMMA GrowsTruthful ==
    ASSUME NEW ch, NEW ch2, NEW s, NEW s2, Grows(ch, ch2, s, s2),
           NEW b \in Batch, NEW c, Truthful(b, c, ch, s)
    PROVE  Truthful(b, c, ch2, s2)
BY BatchItemsType DEF Truthful, Grows, Outcome

LEMMA GrowsPrefix ==
    ASSUME NEW ch, NEW ch2, NEW s, NEW s2, Grows(ch, ch2, s, s2),
           NEW b \in Batch, NEW k, PrefixSucceeded(b, k, ch)
    PROVE  PrefixSucceeded(b, k, ch2)
<1> SUFFICES ASSUME NEW j \in DOMAIN Groups[b], j < k, NEW u \in GroupItems(b, j)
             PROVE  ch2[u] = "success"
  BY DEF PrefixSucceeded
<1>1. u \in Tx /\ ch[u] = "success"
  BY GroupItemsType DEF PrefixSucceeded
<1> QED  BY <1>1 DEF Grows, Outcome

\* A process that does not move stays truthful while the chain and the history grow.
LEMMA GrowsLocal ==
    ASSUME NEW ch, NEW ch2, NEW s, NEW s2, Grows(ch, ch2, s, s2),
           NEW l, LocalTruthful(l, ch, s)
    PROVE  LocalTruthful(l, ch2, s2)
<1>1. l.batch # None => l.id \in Batch /\ Truthful(l.id, l.batch, ch2, s2)
  BY GrowsTruthful DEF LocalTruthful
<1>2. l.pc = "send" => /\ l.group \in DOMAIN Groups[l.id]
                       /\ PrefixSucceeded(l.id, l.group, ch2)
  BY GrowsPrefix DEF LocalTruthful
<1>3. s \subseteq s2
  BY DEF Grows
<1> QED  BY <1>1, <1>2, <1>3 DEF LocalTruthful

LEMMA GrowsHandler ==
    ASSUME NEW ch, NEW ch2, NEW s, NEW s2, Grows(ch, ch2, s, s2),
           NEW l, HandlerTruthful(l, ch)
    PROVE  HandlerTruthful(l, ch2)
BY DEF HandlerTruthful, Grows

\* A process at rest claims nothing.
LEMMA IdleLocal ==
    ASSUME NEW ch, NEW s
    PROVE  /\ Idle \in Local
           /\ LocalTruthful(Idle, ch, s)
           /\ HandlerTruthful(Idle, ch)
<1>1. Idle \in Local
  BY DEF Idle, Local, PC
<1> QED  BY <1>1 DEF Idle, LocalTruthful, HandlerTruthful

THEOREM InitIInv == Init => IInv
<1> SUFFICES ASSUME Init PROVE IInv
  OBVIOUS
<1> USE DEF Init
<1>1. TypeOK
  BY IdleLocal DEF TypeOK
<1>2. GroupOrder
  BY DEF GroupOrder
<1>3. \A p \in Proc : LocalTruthful(local[p], chain, sent)
  BY IdleLocal
<1>4. \A h \in Handler : HandlerTruthful(local[h], chain)
  BY IdleLocal
<1> QED  BY <1>1, <1>2, <1>3, <1>4 DEF IInv

----------------------------------------------------------------------------
(* The part of the invariant about shared state, and the part about a process. *)

DataType ==
    /\ stored \in [Batch -> TransactionBatch \cup {None}]
    /\ pendingKey \in [Hash -> Batch \cup {None}]
    /\ aged \in SUBSET Hash
    /\ chain \in [Tx -> {"unknown", "pool"} \cup Outcome]
    /\ delivered \in SUBSET Tx
    /\ unannounced \in SUBSET Batch
    /\ sent \in SUBSET (Batch \X Tx)

StoredTruthful == \A b \in Batch : stored[b] # None => Truthful(b, stored[b], chain, sent)
PendingSent == \A t \in Tx : pendingKey[t] # None => <<pendingKey[t], t>> \in sent
ChainSent == \A t \in Tx : chain[t] # "unknown" => \E b \in Batch : <<b, t>> \in sent

DataInv == DataType /\ GroupOrder /\ StoredTruthful /\ PendingSent /\ ChainSent

\* What the invariant says of a process p in local state l.
ProcessInv(p, l, ch, s) ==
    /\ l \in Local
    /\ LocalTruthful(l, ch, s)
    /\ p \in Handler => HandlerTruthful(l, ch)

LEMMA IInvParts ==
    /\ IInv => DataInv /\ \A p \in Proc : ProcessInv(p, local[p], chain, sent)
    /\ DataInv /\ local \in [Proc -> Local]
         /\ (\A p \in Proc : ProcessInv(p, local[p], chain, sent)) => IInv
BY DEF IInv, DataInv, DataType, StoredTruthful, PendingSent, ChainSent, ProcessInv, TypeOK

\* A step that moves one process.
LEMMA ProcessStep ==
    ASSUME IInv, DataInv', Grows(chain, chain', sent, sent'),
           NEW p \in Proc, NEW l, Becomes(p, l), ProcessInv(p, l, chain', sent')
    PROVE  IInv'
<1>1. \A q \in Proc : ProcessInv(q, local[q], chain, sent)
  BY IInvParts
<1>2. local \in [Proc -> Local]
  BY DEF IInv, TypeOK
<1>3. local' = [local EXCEPT ![p] = l] /\ l \in Local
  BY DEF Becomes, ProcessInv
<1>4. local' \in [Proc -> Local]
  BY <1>2, <1>3
<1>5. ASSUME NEW q \in Proc
      PROVE  ProcessInv(q, local'[q], chain', sent')
  <2>1. CASE q = p
    BY <2>1, <1>2, <1>3
  <2>2. CASE q # p
    <3>1. local'[q] = local[q]
      BY <2>2, <1>2, <1>3
    <3>2. LocalTruthful(local[q], chain', sent')
      BY <1>1, GrowsLocal DEF ProcessInv
    <3>3. q \in Handler => HandlerTruthful(local[q], chain')
      BY <1>1, GrowsHandler DEF ProcessInv
    <3> QED  BY <1>1, <3>1, <3>2, <3>3 DEF ProcessInv
  <2> QED  BY <2>1, <2>2
<1> QED  BY <1>4, <1>5, IInvParts
         DEF IInv, DataInv, DataType, StoredTruthful, PendingSent, ChainSent, ProcessInv, TypeOK

\* A step that moves no process.
LEMMA EnvironmentStep ==
    ASSUME IInv, DataInv', Grows(chain, chain', sent, sent'), UNCHANGED local
    PROVE  IInv'
<1>1. \A q \in Proc : ProcessInv(q, local[q], chain, sent)
  BY IInvParts
<1>2. local' \in [Proc -> Local]
  BY DEF IInv, TypeOK
<1>3. ASSUME NEW q \in Proc
      PROVE  ProcessInv(q, local'[q], chain', sent')
  <2>1. LocalTruthful(local[q], chain', sent')
    BY <1>1, GrowsLocal DEF ProcessInv
  <2>2. q \in Handler => HandlerTruthful(local[q], chain')
    BY <1>1, GrowsHandler DEF ProcessInv
  <2> QED  BY <1>1, <2>1, <2>2 DEF ProcessInv
<1> QED  BY <1>2, <1>3
         DEF IInv, DataInv, DataType, StoredTruthful, PendingSent, ChainSent, ProcessInv, TypeOK

\* Shared state that the processes only read keeps its invariant.
LEMMA DataUnchanged ==
    ASSUME DataInv, UNCHANGED <<stored, pendingKey, chain, sent>>,
           aged' \in SUBSET Hash, delivered' \in SUBSET Tx, unannounced' \in SUBSET Batch
    PROVE  DataInv' /\ Grows(chain, chain', sent, sent')
<1>1. DataType' /\ Grows(chain, chain', sent, sent')
  BY DEF DataInv, DataType, Grows
<1>2. GroupOrder' /\ StoredTruthful' /\ PendingSent' /\ ChainSent'
  BY DEF DataInv, GroupOrder, StoredTruthful, PendingSent, ChainSent, GroupItems, BatchItems
<1> QED  BY <1>1, <1>2 DEF DataInv

\* The network moves a transaction that has no outcome yet.
LEMMA ChainStep ==
    ASSUME DataInv, NEW t \in Tx, chain[t] = "pool",
           NEW v \in {"unknown", "pool"} \cup Outcome,
           chain' = [chain EXCEPT ![t] = v],
           UNCHANGED <<stored, pendingKey, aged, delivered, unannounced>>,
           sent \subseteq sent', sent' \in SUBSET (Batch \X Tx), GroupOrder'
    PROVE  DataInv' /\ Grows(chain, chain', sent, sent')
<1>1. DataType'
  BY DEF DataInv, DataType
<1>2. Grows(chain, chain', sent, sent')
  BY DEF DataInv, DataType, Grows, Outcome
<1>3. StoredTruthful'
  BY <1>2, GrowsTruthful DEF DataInv, StoredTruthful
<1>4. PendingSent' /\ ChainSent'
  BY DEF DataInv, DataType, PendingSent, ChainSent
<1> QED  BY <1>1, <1>2, <1>3, <1>4 DEF DataInv

\* A save of a truthful copy.
LEMMA SaveStep ==
    ASSUME DataInv, NEW b \in Batch, NEW c \in TransactionBatch \cup {None},
           c # None => Truthful(b, c, chain, sent),
           stored' = [stored EXCEPT ![b] = c],
           unannounced' \in SUBSET Batch,
           UNCHANGED <<pendingKey, aged, chain, delivered, sent>>
    PROVE  DataInv' /\ Grows(chain, chain', sent, sent')
<1>1. DataType' /\ Grows(chain, chain', sent, sent')
  BY DEF DataInv, DataType, Grows
<1>2. StoredTruthful'
  BY DEF DataInv, DataType, StoredTruthful, Truthful, BatchItems, GroupItems
<1>3. GroupOrder' /\ PendingSent' /\ ChainSent'
  BY DEF DataInv, GroupOrder, PendingSent, ChainSent, GroupItems
<1> QED  BY <1>1, <1>2, <1>3 DEF DataInv

\* A pending key is set for a transaction that was sent, or deleted.
LEMMA PendingStep ==
    ASSUME DataInv, NEW h, NEW b \in Batch \cup {None},
           h \in Tx /\ b # None => <<b, h>> \in sent,
           pendingKey' = [pendingKey EXCEPT ![h] = b],
           aged' \in SUBSET Hash,
           UNCHANGED <<stored, chain, delivered, unannounced, sent>>
    PROVE  DataInv' /\ Grows(chain, chain', sent, sent')
<1>1. DataType' /\ Grows(chain, chain', sent, sent')
  BY DEF DataInv, DataType, Grows
<1>2. PendingSent'
  BY DEF DataInv, DataType, PendingSent
<1>3. GroupOrder' /\ StoredTruthful' /\ ChainSent'
  BY DEF DataInv, GroupOrder, StoredTruthful, ChainSent, Truthful, GroupItems, BatchItems
<1> QED  BY <1>1, <1>2, <1>3 DEF DataInv

----------------------------------------------------------------------------
(* Every action preserves the invariant. *)

\* What an action may assume of the process it moves.
LEMMA Moving ==
    ASSUME IInv, NEW p \in Proc
    PROVE  /\ DataInv
           /\ ProcessInv(p, local[p], chain, sent)
           /\ local[p] \in Local
BY IInvParts DEF ProcessInv

LEMMA NewBatchTruthful ==
    ASSUME NEW b \in Batch, NEW ch, NEW s
    PROVE  NewBatch \in TransactionBatch /\ Truthful(b, NewBatch, ch, s)
<1>1. NewBatch \in TransactionBatch
  BY DEF NewBatch, TransactionBatch, BatchStatus, ItemStatus
<1> QED  BY <1>1, BatchItemsType DEF NewBatch, Truthful

LEMMA StartTransactionBatchStep ==
    ASSUME IInv, NEW r \in Request, StartTransactionBatch(r)
    PROVE  IInv'
<1> DEFINE b == RequestBatch[r]
           done == [Idle EXCEPT !.pc = "done"]
           failed == [Idle EXCEPT !.pc = "failed"]
           started == StartGroup(Idle, b, NewBatch, 1)
<1>1. DataInv' /\ Grows(chain, chain', sent, sent')
  BY Moving, DataUnchanged DEF StartTransactionBatch, DataInv, DataType
<1>2. r \notin Handler /\ b \in Batch
  BY ProcAssumption
<1>3. ProcessInv(r, done, chain', sent') /\ ProcessInv(r, failed, chain', sent')
  BY <1>2 DEF ProcessInv, Idle, Local, PC, LocalTruthful
<1>4. Groups[b] # << >> => ProcessInv(r, started, chain', sent')
  <2> SUFFICES ASSUME Groups[b] # << >>
               PROVE  ProcessInv(r, started, chain', sent')
    OBVIOUS
  <2>1. 1 \in DOMAIN Groups[b]
    BY <1>2, GroupsAssumption
  <2>2. started \in Local
    BY <1>2, NewBatchTruthful DEF StartGroup, Idle, Local, PC
  <2>3. PrefixSucceeded(b, 1, chain')
    BY <1>2, GroupItemsType DEF PrefixSucceeded
  <2>4. LocalTruthful(started, chain', sent')
    <3>1. /\ started.pc = "send" /\ started.id = b /\ started.batch = NewBatch
          /\ started.group = 1 /\ started.hashes = {} /\ started.work = {}
      BY DEF StartGroup, Idle
    <3>2. Truthful(b, NewBatch, chain', sent')
      BY <1>2, NewBatchTruthful
    <3>3. NewBatch # None
      BY <1>2, NewBatchTruthful, NullAssumption
    <3> QED  BY <1>2, <2>1, <2>3, <3>3, <3>1, <3>2 DEF LocalTruthful
  <2> QED  BY <1>2, <2>2, <2>4 DEF ProcessInv
<1>5. \/ Becomes(r, failed) \/ Becomes(r, done)
      \/ Groups[b] # << >> /\ Becomes(r, started)
  BY DEF StartTransactionBatch
<1> QED  BY <1>1, <1>3, <1>4, <1>5, ProcessStep

\* A transaction is recorded as sent for a batch whose earlier groups succeeded.
LEMMA SendKeepsOrder ==
    ASSUME DataInv, NEW b \in Batch, NEW k \in DOMAIN Groups[b],
           NEW i \in DOMAIN Groups[b][k],
           PrefixSucceeded(b, k, chain),
           sent' \in {sent, sent \cup {<<b, Groups[b][k][i]>>}},
           \A t \in Tx : chain[t] \in Outcome => chain'[t] = chain[t]
    PROVE  GroupOrder'
<1> SUFFICES ASSUME NEW c \in Batch, NEW m \in DOMAIN Groups[c], NEW j \in DOMAIN Groups[c],
                    NEW t \in GroupItems(c, m), <<c, t>> \in sent', j < m,
                    NEW u \in GroupItems(c, j)
             PROVE  chain'[u] = "success"
  BY DEF GroupOrder, GroupItems
<1>1. u \in Tx /\ t \in Tx
  BY GroupItemsType
<1>2. CASE <<c, t>> \in sent
  <2>1. chain[u] = "success"
    BY <1>2 DEF DataInv, GroupOrder
  <2> QED  BY <1>1, <2>1 DEF Outcome
<1>3. CASE <<c, t>> \notin sent
  <2>1. c = b /\ t = Groups[b][k][i]
    BY <1>3
  <2>2. m = k
    BY <2>1, GroupsAssumption DEF GroupItems
  <2>3. chain[u] = "success"
    BY <2>1, <2>2 DEF PrefixSucceeded
  <2> QED  BY <1>1, <2>3 DEF Outcome
<1> QED  BY <1>2, <1>3

\* Changing the hash of an item, or making it invalid, claims no new success.
LEMMA SentItemTruthful ==
    ASSUME NEW b \in Batch, NEW c \in TransactionBatch, NEW t \in Tx, NEW hash \in Hash,
           NEW ch, NEW s, Truthful(b, c, ch, s)
    PROVE  /\ [c EXCEPT !.hash[t] = hash] \in TransactionBatch
           /\ Truthful(b, [c EXCEPT !.hash[t] = hash], ch, s)
           /\ [c EXCEPT !.item[t] = "invalid"] \in TransactionBatch
           /\ Truthful(b, [c EXCEPT !.item[t] = "invalid"], ch, s)
<1>1. /\ [c EXCEPT !.hash[t] = hash] \in TransactionBatch
      /\ [c EXCEPT !.item[t] = "invalid"] \in TransactionBatch
  BY DEF TransactionBatch, ItemStatus, Outcome
<1>2. Truthful(b, [c EXCEPT !.hash[t] = hash], ch, s)
  BY DEF Truthful, TransactionBatch
<1>3. Truthful(b, [c EXCEPT !.item[t] = "invalid"], ch, s)
  BY BatchItemsType DEF Truthful, TransactionBatch
<1> QED  BY <1>1, <1>2, <1>3

LEMMA ExecuteTransactionStep ==
    ASSUME IInv, NEW p \in Proc, ExecuteTransaction(p)
    PROVE  IInv'
<1> DEFINE l == local[p]
           group == Groups[l.id][l.group]
           t == group[l.next]
           pooled == [chain EXCEPT ![t] = IF @ = "unknown" THEN "pool" ELSE @]
           Executed(hash) ==
               [l EXCEPT !.next = @ + 1,
                         !.batch.hash[t] = hash,
                         !.hashes = IF l.batch.item[t] = "pending" THEN @ \cup {hash} ELSE @]
           refused == [l EXCEPT !.next = Len(group) + 1, !.batch.item[t] = "invalid"]
<1>1. DataInv /\ ProcessInv(p, l, chain, sent) /\ l \in Local
  BY Moving
<1>2. /\ l.pc = "send" /\ l.id \in Batch /\ l.batch \in TransactionBatch
      /\ Truthful(l.id, l.batch, chain, sent)
      /\ l.group \in DOMAIN Groups[l.id] /\ l.next \in DOMAIN group
      /\ PrefixSucceeded(l.id, l.group, chain)
  BY <1>1 DEF ExecuteTransaction, ProcessInv, LocalTruthful, Local
<1>3. group \in Seq(Tx) /\ t \in Tx /\ Len(group) + 1 \in Nat /\ t \in GroupItems(l.id, l.group)
  BY <1>2, GroupItemsType DEF GroupItems
<1>4. /\ sent \subseteq sent' /\ sent' \in SUBSET (Batch \X Tx)
      /\ sent' \in {sent, sent \cup {<<l.id, t>>}}
      /\ chain' \in {chain, pooled}
      /\ chain' = pooled => <<l.id, t>> \in sent' \/ chain' = chain
      /\ UNCHANGED <<stored, pendingKey, aged, delivered, unannounced>>
  <2>1. /\ sent' \in {sent, sent \cup {<<l.id, t>>}}
        /\ chain' \in {chain, pooled}
        /\ chain' = pooled => <<l.id, t>> \in sent' \/ chain' = chain
        /\ UNCHANGED <<stored, pendingKey, aged, delivered, unannounced>>
    BY DEF ExecuteTransaction
  <2>2. sent \in SUBSET (Batch \X Tx)
    BY <1>1 DEF DataInv, DataType
  <2>3. <<l.id, t>> \in Batch \X Tx
    BY <1>2, <1>3
  <2>4. sent \subseteq sent' /\ sent' \in SUBSET (Batch \X Tx)
    <3> HIDE DEF l, t
    <3> QED  BY <2>1, <2>2, <2>3
  <2> QED  BY <2>1, <2>4
<1>5. chain \in [Tx -> {"unknown", "pool"} \cup Outcome]
  BY <1>1 DEF DataInv, DataType
<1>6. /\ \A u \in Tx : chain[u] \in Outcome => chain'[u] = chain[u]
      /\ chain' \in [Tx -> {"unknown", "pool"} \cup Outcome]
  BY <1>3, <1>4, <1>5 DEF Outcome
<1>7. GroupOrder'
  BY <1>1, <1>2, <1>4, <1>6, SendKeepsOrder
<1>8. Grows(chain, chain', sent, sent')
  BY <1>4, <1>6 DEF Grows
<1>9. DataInv'
  <2>1. DataType'
    BY <1>1, <1>4, <1>6 DEF DataInv, DataType
  <2>2. StoredTruthful'
    BY <1>1, <1>4, <1>8, GrowsTruthful DEF DataInv, StoredTruthful
  <2>3. PendingSent'
    BY <1>1, <1>4 DEF DataInv, PendingSent
  <2>4. ChainSent'
    BY <1>1, <1>2, <1>3, <1>4, <1>5 DEF DataInv, ChainSent
  <2> QED  BY <1>7, <2>1, <2>2, <2>3, <2>4 DEF DataInv
<1>10. Truthful(l.id, l.batch, chain', sent')
  BY <1>2, <1>8, GrowsTruthful
<1>11. ASSUME NEW hash \in {t, NoHash}, <<l.id, t>> \in sent', Becomes(p, Executed(hash))
       PROVE  IInv'
  <2> DEFINE c == [l.batch EXCEPT !.hash[t] = hash]
             hs == IF l.batch.item[t] = "pending" THEN l.hashes \cup {hash} ELSE l.hashes
             n == [l EXCEPT !.next = l.next + 1, !.batch = c, !.hashes = hs]
  <2>1. Executed(hash) = n
    BY <1>1, <1>2 DEF Local
  <2>2. hash \in Hash /\ c \in TransactionBatch /\ Truthful(l.id, c, chain', sent')
    BY <1>2, <1>3, <1>10, SentItemTruthful
  <2>3. n \in Local
    <3>1a. l.hashes \in SUBSET Hash /\ l.next \in Nat
      BY <1>1 DEF Local
    <3>1b. \A S \in SUBSET Hash : S \cup {hash} \in SUBSET Hash
      BY <2>2
    <3>1c. hs \in SUBSET Hash
      <4>1. hs = l.hashes \cup {hash} \/ hs = l.hashes
        OBVIOUS
      <4> HIDE DEF hs
      <4> QED  BY <3>1a, <3>1b, <4>1
    <3>1. hs \in SUBSET Hash /\ l.next + 1 \in Nat
      <4> HIDE DEF hs
      <4> QED  BY <3>1a, <3>1c
    <3> HIDE DEF c, hs
    <3> QED  BY <1>1, <2>2, <3>1 DEF Local
  <2>4. /\ n.pc = "send" /\ n.id = l.id /\ n.batch = c /\ n.group = l.group
        /\ n.hashes = hs /\ n.work = l.work
    BY <1>1, <1>2 DEF Local
  <2>5. c # None
    BY <2>2, NullAssumption
  <2>2a. \A h \in hs : h \in Tx => <<l.id, h>> \in sent'
    BY <1>1, <1>4, <1>11, NullAssumption DEF ProcessInv, LocalTruthful
  <2>7. \A w \in l.work : w[1] \in Tx => <<w[2], w[1]>> \in sent'
    BY <1>1, <1>4 DEF ProcessInv, LocalTruthful
  <2>8. PrefixSucceeded(l.id, l.group, chain')
    BY <1>2, <1>8, GrowsPrefix
  <2>9. LocalTruthful(n, chain', sent')
    BY <1>2, <2>2, <2>4, <2>5, <2>2a, <2>7, <2>8 DEF LocalTruthful
  <2>10. p \in Handler => HandlerTruthful(n, chain')
    BY <1>1, <1>8, <2>4, GrowsHandler DEF ProcessInv, HandlerTruthful
  <2> QED  BY <1>8, <1>9, <1>11, <2>1, <2>3, <2>9, <2>10, ProcessStep DEF ProcessInv
<1>12. ASSUME Becomes(p, refused)
       PROVE  IInv'
  <2> DEFINE c == [l.batch EXCEPT !.item[t] = "invalid"]
             n == [l EXCEPT !.next = Len(group) + 1, !.batch = c]
  <2>1. refused = n
    BY <1>1, <1>2 DEF Local
  <2>2. c \in TransactionBatch /\ Truthful(l.id, c, chain', sent')
    BY <1>2, <1>3, <1>10, SentItemTruthful
  <2>3. n \in Local
    BY <1>1, <1>3, <2>2 DEF Local
  <2>4. /\ n.pc = "send" /\ n.id = l.id /\ n.batch = c /\ n.group = l.group
        /\ n.hashes = l.hashes /\ n.work = l.work
    BY <1>1, <1>2 DEF Local
  <2>5. c # None
    BY <2>2, NullAssumption
  <2>2a. LocalTruthful(l, chain', sent')
    BY <1>1, <1>8, GrowsLocal DEF ProcessInv
  <2>7. LocalTruthful(n, chain', sent')
    BY <1>2, <2>2, <2>4, <2>5, <2>2a DEF LocalTruthful
  <2>8. p \in Handler => HandlerTruthful(n, chain')
    BY <1>1, <1>8, <2>4, GrowsHandler DEF ProcessInv, HandlerTruthful
  <2> QED  BY <1>8, <1>9, <1>12, <2>1, <2>3, <2>7, <2>8, ProcessStep DEF ProcessInv
<1>13. \/ Becomes(p, Executed(t)) /\ <<l.id, t>> \in sent'
       \/ Becomes(p, Executed(NoHash)) /\ <<l.id, t>> \in sent'
       \/ Becomes(p, refused)
  BY DEF ExecuteTransaction
<1> QED  BY <1>11, <1>12, <1>13

\* A process that only changes where it stands keeps what it claims.
LEMMA Relocated ==
    ASSUME NEW p, NEW l \in Local, ProcessInv(p, l, chain, sent), NEW pc \in PC,
           pc \notin {"scan", "load"}, l.pc = "send" \/ pc # "send",
           pc \in {"send", "register", "save"} => l.batch # None,
           pc = "delete" => l.id \in Batch
    PROVE  ProcessInv(p, [l EXCEPT !.pc = pc], chain, sent)
<1> DEFINE n == [l EXCEPT !.pc = pc]
<1>1. n \in Local
  BY DEF Local
<1>2. /\ n.pc = pc /\ n.id = l.id /\ n.batch = l.batch /\ n.group = l.group
      /\ n.hashes = l.hashes /\ n.work = l.work
  BY DEF Local
<1>3. LocalTruthful(n, chain, sent)
  BY <1>2 DEF ProcessInv, LocalTruthful
<1>4. p \in Handler => HandlerTruthful(n, chain)
  BY <1>2 DEF ProcessInv, HandlerTruthful
<1> QED  BY <1>1, <1>3, <1>4 DEF ProcessInv

\* Marking the copy of a batch invalid claims no success.
LEMMA Invalidated ==
    ASSUME NEW p, NEW l \in Local, ProcessInv(p, l, chain, sent),
           NEW pc \in {"save", "done"}, l.pc = "register"
    PROVE  ProcessInv(p, [l EXCEPT !.pc = pc, !.batch.status = "invalid"], chain, sent)
<1> DEFINE c == [l.batch EXCEPT !.status = "invalid"]
           n == [l EXCEPT !.pc = pc, !.batch = c]
<1>1. l.batch \in TransactionBatch /\ l.id \in Batch /\ Truthful(l.id, l.batch, chain, sent)
  BY DEF ProcessInv, LocalTruthful, Local
<1>2. c \in TransactionBatch /\ c.item = l.batch.item /\ c.status = "invalid"
  BY <1>1 DEF TransactionBatch, BatchStatus
<1>3. Truthful(l.id, c, chain, sent) /\ c # None
  BY <1>1, <1>2, NullAssumption DEF Truthful
<1>4. n \in Local /\ n = [l EXCEPT !.pc = pc, !.batch.status = "invalid"]
  BY <1>2 DEF Local, PC
<1>5. /\ n.pc = pc /\ n.id = l.id /\ n.batch = c
      /\ n.hashes = l.hashes /\ n.work = l.work
  BY DEF Local
<1>6. LocalTruthful(n, chain, sent)
  BY <1>1, <1>3, <1>5 DEF ProcessInv, LocalTruthful
<1>7. p \in Handler => HandlerTruthful(n, chain)
  BY <1>5 DEF ProcessInv, HandlerTruthful
<1> QED  BY <1>4, <1>6, <1>7 DEF ProcessInv

LEMMA GroupSentStep ==
    ASSUME IInv, NEW p \in Proc, GroupSent(p)
    PROVE  IInv'
<1>1. DataInv /\ ProcessInv(p, local[p], chain, sent) /\ local[p] \in Local
  BY Moving
<1>2. DataInv' /\ Grows(chain, chain', sent, sent') /\ UNCHANGED <<chain, sent>>
  BY <1>1, DataUnchanged DEF GroupSent, DataInv, DataType
<1>3. ProcessInv(p, [local[p] EXCEPT !.pc = "register"], chain, sent)
  BY <1>1, Relocated DEF GroupSent, ProcessInv, LocalTruthful, PC
<1> QED  BY <1>2, <1>3, ProcessStep DEF GroupSent

LEMMA SetPendingTransactionStep ==
    ASSUME IInv, NEW p \in Proc, SetPendingTransaction(p)
    PROVE  IInv'
<1> DEFINE l == local[p]
<1>1. DataInv /\ ProcessInv(p, l, chain, sent) /\ l \in Local
  BY Moving
<1>2. PICK h \in l.hashes : /\ pendingKey' = [pendingKey EXCEPT ![h] = l.id]
                            /\ aged' = aged \ {h}
                            /\ Becomes(p, [l EXCEPT !.hashes = @ \ {h}])
  BY DEF SetPendingTransaction
<1>3. l.id \in Batch /\ (h \in Tx => <<l.id, h>> \in sent)
  BY <1>1, <1>2 DEF SetPendingTransaction, ProcessInv, LocalTruthful
<1>4. UNCHANGED <<stored, chain, delivered, unannounced, sent>>
  BY DEF SetPendingTransaction
<1>5. aged' \in SUBSET Hash
  BY <1>1, <1>2 DEF DataInv, DataType
<1>6. DataInv' /\ Grows(chain, chain', sent, sent')
  BY <1>1, <1>2, <1>3, <1>4, <1>5, PendingStep
<1>7. ProcessInv(p, [l EXCEPT !.hashes = @ \ {h}], chain, sent)
  <2> DEFINE n == [l EXCEPT !.hashes = l.hashes \ {h}]
  <2>1. n \in Local
    BY <1>1 DEF Local
  <2>2. /\ n.pc = l.pc /\ n.id = l.id /\ n.batch = l.batch /\ n.group = l.group
        /\ n.hashes = l.hashes \ {h} /\ n.work = l.work
    BY <1>1 DEF Local
  <2>3. LocalTruthful(n, chain, sent)
    BY <1>1, <2>2 DEF ProcessInv, LocalTruthful
  <2>4. p \in Handler => HandlerTruthful(n, chain)
    BY <1>1, <2>2 DEF ProcessInv, HandlerTruthful
  <2>5. n = [l EXCEPT !.hashes = @ \ {h}]
    BY <1>1 DEF Local
  <2> QED  BY <2>1, <2>3, <2>4, <2>5 DEF ProcessInv
<1> QED  BY <1>2, <1>4, <1>6, <1>7, ProcessStep

\* The end of startTransactionGroup, in a request or in a handler.
LEMMA GroupStartedStep ==
    ASSUME IInv, NEW p \in Proc, FirstGroupStarted(p) \/ NextGroupStarted(p)
    PROVE  IInv'
<1> DEFINE l == local[p]
<1>1. DataInv /\ ProcessInv(p, l, chain, sent) /\ l \in Local /\ l.pc = "register"
  BY Moving DEF FirstGroupStarted, NextGroupStarted
<1>2. DataInv' /\ Grows(chain, chain', sent, sent') /\ UNCHANGED <<chain, sent>>
  BY <1>1, DataUnchanged DEF FirstGroupStarted, NextGroupStarted, DataInv, DataType
<1>3. \A pc \in {"save", "done"} :
         ProcessInv(p, [l EXCEPT !.pc = pc, !.batch.status = "invalid"], chain, sent)
  BY <1>1, Invalidated
<1>4. ProcessInv(p, [l EXCEPT !.pc = "save"], chain, sent)
  BY <1>1, Relocated DEF ProcessInv, LocalTruthful, PC
<1>5. \/ Becomes(p, [l EXCEPT !.pc = "done", !.batch.status = "invalid"])
      \/ Becomes(p, [l EXCEPT !.pc = "save", !.batch.status = "invalid"])
      \/ Becomes(p, [l EXCEPT !.pc = "save"])
  BY DEF FirstGroupStarted, NextGroupStarted
<1> QED  BY <1>2, <1>3, <1>4, <1>5, ProcessStep

LEMMA SaveBatchStep ==
    ASSUME IInv, NEW p \in Proc, SaveNewBatch(p) \/ SaveBatch(p)
    PROVE  IInv'
<1> DEFINE l == local[p]
<1>1. DataInv /\ ProcessInv(p, l, chain, sent) /\ l \in Local /\ l.pc = "save"
  BY Moving DEF SaveNewBatch, SaveBatch
<1>2. /\ l.id \in Batch /\ l.batch \in TransactionBatch
      /\ Truthful(l.id, l.batch, chain, sent) /\ l.batch # None
  BY <1>1 DEF ProcessInv, LocalTruthful, Local
<1>3. /\ stored' = [stored EXCEPT ![l.id] = l.batch]
      /\ UNCHANGED <<pendingKey, aged, chain, delivered, sent>>
      /\ unannounced' \in {unannounced, unannounced \cup {l.id}}
  BY DEF SaveNewBatch, SaveBatch
<1>4. unannounced' \in SUBSET Batch
  BY <1>1, <1>2, <1>3 DEF DataInv, DataType
<1>5. DataInv' /\ Grows(chain, chain', sent, sent')
  BY <1>1, <1>2, <1>3, <1>4, SaveStep
<1>6. /\ ProcessInv(p, [l EXCEPT !.pc = "done"], chain, sent)
      /\ ProcessInv(p, [l EXCEPT !.pc = "delete"], chain, sent)
  BY <1>1, <1>2, Relocated DEF PC
<1>7. Becomes(p, [l EXCEPT !.pc = "done"]) \/ Becomes(p, [l EXCEPT !.pc = "delete"])
  BY DEF SaveNewBatch, SaveBatch
<1> QED  BY <1>3, <1>5, <1>6, <1>7, ProcessStep

\* The entries a cron reads from the pending keys are of transactions sent for
\* the batch they name; of entries it drops from its work nothing is claimed.
LEMMA ScanningTruthful ==
    ASSUME NEW p, NEW W \in SUBSET (Hash \X Batch), NEW T \in SUBSET Batch,
           \A w \in W : w[1] \in Tx => <<w[2], w[1]>> \in sent,
           p \in Handler => \A w \in W : w[1] \in Tx /\ chain[w[1]] \in Outcome
    PROVE  ProcessInv(p, Scanning(W, T), chain, sent)
<1> DEFINE n == Scanning(W, T)
<1>1. n \in Local
  BY IdleLocal DEF Local, PC, Idle, Scanning
<1>2. n.pc = "scan" /\ n.batch = None /\ n.hashes = {} /\ n.work = W
  BY DEF Idle, Scanning
<1>3. LocalTruthful(n, chain, sent)
  BY <1>2 DEF LocalTruthful
<1>4. p \in Handler => HandlerTruthful(n, chain)
  BY <1>2 DEF HandlerTruthful
<1> QED  BY <1>1, <1>3, <1>4 DEF ProcessInv

LEMMA ReadPendingStep ==
    ASSUME IInv, NEW p \in Proc, HandleTransactionBatches(p) \/ HandleDroppedTransactions(p),
           p \in Handler => HandleTransactionBatches(p)
    PROVE  IInv'
<1>1. DataInv /\ IInv
  BY Moving
<1>2. DataInv' /\ Grows(chain, chain', sent, sent') /\ UNCHANGED <<chain, sent>>
  <2>1. delivered' \in SUBSET Tx
    BY <1>1 DEF HandleTransactionBatches, HandleDroppedTransactions, DataInv, DataType
  <2> QED  BY <1>1, <2>1, DataUnchanged
           DEF HandleTransactionBatches, HandleDroppedTransactions, DataInv, DataType
<1>3. ASSUME NEW W \in SUBSET (Hash \X Batch),
             \A w \in W : pendingKey[w[1]] = w[2],
             p \in Handler => \A w \in W : w[1] \in Tx /\ chain[w[1]] \in Outcome,
             Becomes(p, Scanning(W, {}))
      PROVE  IInv'
  <2>1. \A w \in W : w[1] \in Tx => <<w[2], w[1]>> \in sent
    BY <1>1, <1>3, NullAssumption DEF DataInv, PendingSent
  <2>2. ProcessInv(p, Scanning(W, {}), chain, sent)
    BY <1>3, <2>1, ScanningTruthful
  <2> QED  BY <1>2, <1>3, <2>2, ProcessStep
<1>4. CASE HandleTransactionBatches(p)
  <2>1. PICK T \in SUBSET {t \in Tx : chain[t] \in Outcome /\ (Redelivery \/ t \notin delivered)} :
            LET found == {w \in T \X Batch : pendingKey[w[1]] = w[2]} IN
            IF found = {} THEN UNCHANGED local
            ELSE Becomes(p, Scanning(found, {}))
    BY <1>4 DEF HandleTransactionBatches
  <2> DEFINE found == {w \in T \X Batch : pendingKey[w[1]] = w[2]}
  <2>2. /\ found \in SUBSET (Hash \X Batch)
        /\ \A w \in found : pendingKey[w[1]] = w[2] /\ w[1] \in Tx /\ chain[w[1]] \in Outcome
    OBVIOUS
  <2>3. CASE found = {}
    BY <1>1, <1>2, <2>1, <2>3, EnvironmentStep
  <2>4. CASE found # {}
    <3>1. Becomes(p, Scanning(found, {}))
      BY <2>1, <2>4
    <3> HIDE DEF found
    <3> QED  BY <1>3, <2>2, <3>1
  <2> QED  BY <2>3, <2>4
<1>5. CASE HandleDroppedTransactions(p) /\ p \notin Handler
  <2> DEFINE old == {w \in aged \X Batch : pendingKey[w[1]] = w[2]}
  <2>1. old \in SUBSET (Hash \X Batch) /\ \A w \in old : pendingKey[w[1]] = w[2]
    BY <1>1 DEF DataInv, DataType
  <2>2. Becomes(p, Scanning(old, {}))
    BY <1>5 DEF HandleDroppedTransactions
  <2> HIDE DEF old
  <2> QED  BY <1>3, <1>5, <2>1, <2>2
<1> QED  BY <1>4, <1>5

\* A handler's or a cron's entry is over.
LEMMA AfterEntryTruthful ==
    ASSUME NEW p, NEW l \in Local, ProcessInv(p, l, chain, sent),
           NEW W \in SUBSET l.work, NEW T \in SUBSET Batch
    PROVE  ProcessInv(p, Scanning(W, T), chain, sent)
BY ScanningTruthful DEF ProcessInv, LocalTruthful, HandlerTruthful, Local

LEMMA DeletePendingTransactionStep ==
    ASSUME IInv, NEW p \in Proc, DeletePendingTransaction(p)
    PROVE  IInv'
<1> DEFINE l == local[p]
           W == l.work \ {<<l.tx, l.id>>}
           T == ToAnnounce(l)
<1>1. DataInv /\ ProcessInv(p, l, chain, sent) /\ l \in Local /\ l.id \in Batch
  BY Moving DEF DeletePendingTransaction, ProcessInv, LocalTruthful
<1>2. DataInv' /\ Grows(chain, chain', sent, sent') /\ UNCHANGED <<chain, sent>>
  <2>1. aged' \in SUBSET Hash
    BY <1>1 DEF DeletePendingTransaction, DataInv, DataType
  <2> QED  BY <1>1, <2>1, PendingStep DEF DeletePendingTransaction
<1>3. T \in SUBSET Batch /\ W \in SUBSET l.work
  BY <1>1 DEF Local, ToAnnounce
<1>4. ProcessInv(p, Scanning(W, T), chain, sent)
  <2> HIDE DEF W, T, l
  <2> QED  BY <1>1, <1>3, AfterEntryTruthful
<1>5. Becomes(p, Scanning(W, T))
  BY DEF DeletePendingTransaction
<1> QED  BY <1>2, <1>4, <1>5, ProcessStep

LEMMA EmitBatchUpdatedStep ==
    ASSUME IInv, NEW p \in Proc, EmitBatchUpdated(p)
    PROVE  IInv'
<1>1. DataInv /\ ProcessInv(p, Idle, chain, sent)
  BY Moving, IdleLocal DEF ProcessInv
<1>2. DataInv' /\ Grows(chain, chain', sent, sent') /\ UNCHANGED <<chain, sent>>
  BY <1>1, DataUnchanged DEF EmitBatchUpdated, DataInv, DataType
<1> QED  BY <1>1, <1>2, ProcessStep DEF EmitBatchUpdated

\* A copy of a batch read from Redis, held by a process that handles entry <<t, b>>.
LEMMA LoadedTruthful ==
    ASSUME NEW p, NEW l \in Local, ProcessInv(p, l, chain, sent),
           l.hashes = {}, NEW b \in Batch, NEW t \in Hash,
           NEW c \in TransactionBatch \cup {None},
           c # None => Truthful(b, c, chain, sent)
    PROVE  ProcessInv(p, [l EXCEPT !.pc = "load", !.tx = t, !.id = b, !.batch = c], chain, sent)
<1> DEFINE n == [l EXCEPT !.pc = "load", !.tx = t, !.id = b, !.batch = c]
<1>1. n \in Local
  BY DEF Local, PC
<1>2. n.pc = "load" /\ n.id = b /\ n.batch = c /\ n.hashes = {} /\ n.work = l.work
  BY DEF Local
<1>3. LocalTruthful(n, chain, sent)
  BY <1>2 DEF ProcessInv, LocalTruthful
<1>4. p \in Handler => HandlerTruthful(n, chain)
  BY <1>2 DEF ProcessInv, HandlerTruthful
<1> QED  BY <1>1, <1>3, <1>4 DEF ProcessInv

\* The status of an executed transaction is truthful.
LEMMA ItemUpdated ==
    ASSUME NEW b \in Batch, NEW c \in TransactionBatch, Truthful(b, c, chain, sent),
           NEW t \in Tx, NEW v \in ItemStatus,
           v = "success" => chain[t] = "success" /\ <<b, t>> \in sent
    PROVE  /\ [c EXCEPT !.item[t] = v] \in TransactionBatch
           /\ [c EXCEPT !.item[t] = v].status = c.status
           /\ Truthful(b, [c EXCEPT !.item[t] = v], chain, sent)
<1>1. [c EXCEPT !.item[t] = v] \in TransactionBatch
  BY DEF TransactionBatch
<1>2. Truthful(b, [c EXCEPT !.item[t] = v], chain, sent)
  BY BatchItemsType DEF Truthful, TransactionBatch
<1> QED  BY <1>1, <1>2 DEF TransactionBatch

\* A group whose items all show success succeeded, and so did the groups before it.
LEMMA GroupSucceededPrefix ==
    ASSUME GroupOrder, NEW b \in Batch, NEW c, Truthful(b, c, chain, sent),
           NEW k \in DOMAIN Groups[b], NEW t \in GroupItems(b, k), GroupSucceeded(b, k, c)
    PROVE  /\ PrefixSucceeded(b, k + 1, chain)
           /\ IsLastGroup(b, k) => \A u \in BatchItems(b) : chain[u] = "success"
<1>1. \A u \in GroupItems(b, k) : chain[u] = "success" /\ <<b, u>> \in sent
  BY GroupItemsType DEF Truthful, GroupSucceeded
<1>2. \A j \in DOMAIN Groups[b] : j < k => \A u \in GroupItems(b, j) : chain[u] = "success"
  BY <1>1 DEF GroupOrder
<1>3. \A j \in DOMAIN Groups[b] : j \in Nat /\ k \in Nat
  BY GroupItemsType
<1>4. PrefixSucceeded(b, k + 1, chain)
  <2> SUFFICES ASSUME NEW j \in DOMAIN Groups[b], j < k + 1, NEW u \in GroupItems(b, j)
               PROVE  chain[u] = "success"
    BY DEF PrefixSucceeded
  <2>1. j < k \/ j = k
    BY <1>3
  <2> QED  BY <1>1, <1>2, <2>1
<1>5. ASSUME IsLastGroup(b, k), NEW u \in BatchItems(b)
      PROVE  chain[u] = "success"
  <2>1. PICK j \in DOMAIN Groups[b] : u \in GroupItems(b, j)
    BY DEF BatchItems
  <2>2. j < k + 1
    BY <1>5, GroupItemsType DEF IsLastGroup
  <2> QED  BY <1>4, <2>1, <2>2 DEF PrefixSucceeded
<1> QED  BY <1>4, <1>5

\* The copy a handler saves, or starts the next group with.
LEMMA SavedTruthful ==
    ASSUME NEW p, NEW l \in Local, ProcessInv(p, l, chain, sent), l.id \in Batch,
           NEW c \in TransactionBatch, Truthful(l.id, c, chain, sent)
    PROVE  /\ ProcessInv(p, [l EXCEPT !.pc = "save", !.batch = c], chain, sent)
           /\ \A k \in DOMAIN Groups[l.id] : PrefixSucceeded(l.id, k, chain) =>
                 ProcessInv(p, StartGroup(l, l.id, c, k), chain, sent)
<1>1. c # None
  BY NullAssumption
<1>2. ProcessInv(p, [l EXCEPT !.pc = "save", !.batch = c], chain, sent)
  <2> DEFINE n == [l EXCEPT !.pc = "save", !.batch = c]
  <2>1. n \in Local
    BY DEF Local, PC
  <2>2. n.pc = "save" /\ n.id = l.id /\ n.batch = c /\ n.hashes = l.hashes /\ n.work = l.work
    BY DEF Local
  <2>3. LocalTruthful(n, chain, sent)
    BY <1>1, <2>2 DEF ProcessInv, LocalTruthful
  <2>4. p \in Handler => HandlerTruthful(n, chain)
    BY <2>2 DEF ProcessInv, HandlerTruthful
  <2> QED  BY <2>1, <2>3, <2>4 DEF ProcessInv
<1>3. ASSUME NEW k \in DOMAIN Groups[l.id], PrefixSucceeded(l.id, k, chain)
      PROVE  ProcessInv(p, StartGroup(l, l.id, c, k), chain, sent)
  <2> DEFINE n == StartGroup(l, l.id, c, k)
  <2>1. n \in Local
    BY GroupItemsType DEF Local, PC, StartGroup
  <2>2. /\ n.pc = "send" /\ n.id = l.id /\ n.batch = c /\ n.group = k
        /\ n.hashes = {} /\ n.work = l.work
    BY DEF Local, StartGroup
  <2>3. LocalTruthful(n, chain, sent)
    BY <1>1, <1>3, <2>2 DEF ProcessInv, LocalTruthful
  <2>4. p \in Handler => HandlerTruthful(n, chain)
    BY <2>2 DEF ProcessInv, HandlerTruthful
  <2> QED  BY <2>1, <2>3, <2>4 DEF ProcessInv
<1> QED  BY <1>2, <1>3

LEMMA StatusUpdated ==
    ASSUME NEW b \in Batch, NEW c \in TransactionBatch, Truthful(b, c, chain, sent),
           NEW v \in BatchStatus, 
           v = "success" => \A u \in BatchItems(b) : chain[u] = "success"
    PROVE  /\ [c EXCEPT !.status = v] \in TransactionBatch
           /\ Truthful(b, [c EXCEPT !.status = v], chain, sent)
BY DEF Truthful, TransactionBatch

LEMMA UpdateItemTruthful ==
    ASSUME IInv, NEW h \in Handler, NEW l \in Local, ProcessInv(h, l, chain, sent),
           l.id \in Batch, l.batch # None, l.tx \in Tx,
           chain[l.tx] \in Outcome, <<l.id, l.tx>> \in sent,
           NEW k \in DOMAIN Groups[l.id], l.tx \in GroupItems(l.id, k),
           UpdateItem(h, l, k)
    PROVE  \E n : Becomes(h, n) /\ ProcessInv(h, n, chain, sent)
<1> DEFINE t == l.tx
           b == l.id
           batch == [l.batch EXCEPT !.item[t] = chain[t]]
           saved(v) == [batch EXCEPT !.status = v]
<1>1. l.batch \in TransactionBatch /\ Truthful(b, l.batch, chain, sent)
  BY DEF ProcessInv, LocalTruthful, Local
<1>2. batch \in TransactionBatch /\ Truthful(b, batch, chain, sent)
  BY <1>1, ItemUpdated DEF ItemStatus
<1>3. ASSUME NEW v \in BatchStatus, v = "success" => \A u \in BatchItems(b) : chain[u] = "success",
             Becomes(h, [l EXCEPT !.pc = "save", !.batch = saved(v)])
      PROVE  \E n : Becomes(h, n) /\ ProcessInv(h, n, chain, sent)
  <2>1. saved(v) \in TransactionBatch /\ Truthful(b, saved(v), chain, sent)
    <3> HIDE DEF batch
    <3> QED  BY <1>2, <1>3, StatusUpdated
  <2> HIDE DEF saved
  <2>2. ProcessInv(h, [l EXCEPT !.pc = "save", !.batch = saved(v)], chain, sent)
    BY <2>1, SavedTruthful
  <2> QED  BY <1>3, <2>2
<1>4. CASE Becomes(h, [l EXCEPT !.pc = "save", !.batch = saved("invalid")])
  BY <1>3, <1>4 DEF BatchStatus
<1>5. CASE GroupSucceeded(b, k, batch) /\ IsLastGroup(b, k)
           /\ Becomes(h, [l EXCEPT !.pc = "save", !.batch = saved("success")])
  <2>1. \A u \in BatchItems(b) : chain[u] = "success"
    BY <1>2, <1>5, GroupSucceededPrefix DEF IInv
  <2> QED  BY <1>3, <1>5, <2>1 DEF BatchStatus
<1>6. CASE GroupSucceeded(b, k, batch) /\ ~IsLastGroup(b, k)
           /\ Becomes(h, StartGroup(l, b, batch, k + 1))
  <2>1. PrefixSucceeded(b, k + 1, chain)
    BY <1>2, <1>6, GroupSucceededPrefix DEF IInv
  <2>2. k + 1 \in DOMAIN Groups[b]
    <3>1. Groups[b] \in Seq(Seq(Tx)) /\ k \in Nat /\ k <= Len(Groups[b]) /\ k # Len(Groups[b])
      BY <1>6, GroupItemsType, GroupsAssumption DEF IsLastGroup
    <3> QED  BY <3>1
  <2>3. ProcessInv(h, StartGroup(l, b, batch, k + 1), chain, sent)
    <3> HIDE DEF batch
    <3> QED  BY <1>2, <2>1, <2>2, SavedTruthful
  <2> QED  BY <1>6, <2>3
<1>7. CASE Becomes(h, [l EXCEPT !.pc = "save", !.batch = saved(batch.status)])
  <2>1. batch.status \in BatchStatus
        /\ (batch.status = "success" => \A u \in BatchItems(b) : chain[u] = "success")
    BY <1>2 DEF TransactionBatch, Truthful
  <2> QED  BY <1>3, <1>7, <2>1
<1> QED  BY <1>4, <1>5, <1>6, <1>7 DEF UpdateItem, ReceivedStatus

LEMMA ProcessTransactionStep ==
    ASSUME IInv, NEW h \in Handler, ProcessTransaction(h)
    PROVE  IInv'
<1>1. /\ DataInv /\ ProcessInv(h, local[h], chain, sent) /\ local[h] \in Local
      /\ local[h].pc = "scan" /\ local[h].hashes = {}
  BY Moving DEF ProcessTransaction, ProcessInv, LocalTruthful
<1>2. DataInv' /\ Grows(chain, chain', sent, sent') /\ UNCHANGED <<chain, sent>>
  BY <1>1, DataUnchanged DEF ProcessTransaction, DataInv, DataType
<1> DEFINE loaded(w) == [local[h] EXCEPT !.pc = "load", !.tx = w[1], !.id = w[2],
                                         !.batch = stored[w[2]]]
<1>3. PICK w \in local[h].work :
        \/ Becomes(h, [loaded(w) EXCEPT !.pc = "delete"])
        \/ /\ stored[w[2]] # None
           /\ \E k \in DOMAIN Groups[w[2]] :
                 w[1] \in GroupItems(w[2], k) /\ UpdateItem(h, loaded(w), k)
  BY DEF ProcessTransaction
<1> DEFINE t == w[1]
           b == w[2]
           l == [local[h] EXCEPT !.pc = "load", !.tx = t, !.id = b, !.batch = stored[b]]
<1>4. /\ t \in Tx /\ b \in Batch /\ chain[t] \in Outcome /\ <<b, t>> \in sent
  BY <1>1, <1>3 DEF ProcessInv, LocalTruthful, HandlerTruthful, Local
<1>5. /\ stored[b] \in TransactionBatch \cup {None}
      /\ stored[b] # None => Truthful(b, stored[b], chain, sent)
  BY <1>1, <1>4 DEF DataInv, DataType, StoredTruthful
<1>6. ProcessInv(h, l, chain, sent) /\ l \in Local
  BY <1>1, <1>4, <1>5, LoadedTruthful DEF ProcessInv
<1>7. loaded(w) = l /\ l.tx = t /\ l.id = b /\ l.batch = stored[b]
  BY <1>1 DEF Local
<1> HIDE DEF l, loaded
<1>8. CASE Becomes(h, [l EXCEPT !.pc = "delete"])
  <2>1. ProcessInv(h, [l EXCEPT !.pc = "delete"], chain, sent)
    BY <1>4, <1>6, <1>7, Relocated DEF PC
  <2> QED  BY <1>2, <1>8, <2>1, ProcessStep
<1>9. CASE stored[b] # None /\ \E k \in DOMAIN Groups[b] :
                 t \in GroupItems(b, k) /\ UpdateItem(h, l, k)
  <2>1. \E n : Becomes(h, n) /\ ProcessInv(h, n, chain, sent)
    BY <1>4, <1>6, <1>7, <1>9, UpdateItemTruthful
  <2> QED  BY <1>2, <2>1, ProcessStep
<1> QED  BY <1>3, <1>7, <1>8, <1>9

LEMMA AfterEntryStep ==
    ASSUME IInv, DataInv', Grows(chain, chain', sent, sent'), UNCHANGED <<chain, sent>>,
           NEW p \in Proc, NEW W \in SUBSET local[p].work, Becomes(p, Scanning(W, local[p].touched))
    PROVE  IInv'
<1>1. local[p] \in Local /\ ProcessInv(p, local[p], chain, sent)
  BY Moving
<1>2. local[p].touched \in SUBSET Batch
  BY <1>1 DEF Local
<1>3. ProcessInv(p, Scanning(W, local[p].touched), chain, sent)
  BY <1>1, <1>2, AfterEntryTruthful
<1> QED  BY <1>3, ProcessStep

LEMMA LookupTransactionStep ==
    ASSUME IInv, NEW s \in Sweep, LookupTransaction(s)
    PROVE  IInv'
<1>1. /\ DataInv /\ ProcessInv(s, local[s], chain, sent) /\ local[s] \in Local
      /\ local[s].pc = "scan" /\ local[s].hashes = {}
  BY Moving DEF LookupTransaction, ProcessInv, LocalTruthful
<1>2. DataInv' /\ Grows(chain, chain', sent, sent') /\ UNCHANGED <<chain, sent>>
  BY <1>1, DataUnchanged DEF LookupTransaction, DataInv, DataType
<1> DEFINE found(w) == [local[s] EXCEPT !.tx = w[1], !.id = w[2]]
<1>3. PICK w \in local[s].work : \/ Becomes(s, AfterEntry(found(w)))
                                 \/ Becomes(s, [found(w) EXCEPT !.pc = "load"])
  BY DEF LookupTransaction
<1>4. w[1] \in Hash /\ w[2] \in Batch
  BY <1>1, <1>3 DEF Local
<1>5. CASE Becomes(s, AfterEntry(found(w)))
  <2>1. found(w).work = local[s].work /\ found(w).touched = local[s].touched
    BY <1>1 DEF Local
  <2> DEFINE W == local[s].work \ {<<found(w).tx, found(w).id>>}
  <2>2. Becomes(s, Scanning(W, local[s].touched)) /\ W \in SUBSET local[s].work
    BY <1>5, <2>1 DEF AfterEntry
  <2> HIDE DEF W
  <2> QED  BY <1>2, <2>2, AfterEntryStep
<1>6. CASE Becomes(s, [found(w) EXCEPT !.pc = "load"])
  <2> DEFINE n == [local[s] EXCEPT !.pc = "load", !.tx = w[1], !.id = w[2], !.batch = None]
  <2>1. local[s].batch = None
    BY <1>1 DEF ProcessInv, LocalTruthful
  <2>2. [found(w) EXCEPT !.pc = "load"] = n
    BY <1>1, <2>1 DEF Local
  <2>3. ProcessInv(s, n, chain, sent)
    BY <1>1, <1>4, LoadedTruthful
  <2> QED  BY <1>2, <1>6, <2>2, <2>3, ProcessStep
<1> QED  BY <1>3, <1>5, <1>6

LEMMA DropTransactionStep ==
    ASSUME IInv, NEW s \in Sweep, DropTransaction(s)
    PROVE  IInv'
<1> DEFINE l == local[s]
           t == l.tx
           b == l.id
           c == [stored[b] EXCEPT !.item[t] = "dropped"]
           d == [c EXCEPT !.status = "dropped"]
<1>1. /\ DataInv /\ ProcessInv(s, l, chain, sent) /\ l \in Local
      /\ b \in Batch
  BY Moving DEF DropTransaction, ProcessInv, LocalTruthful
<1>2. DataInv' /\ Grows(chain, chain', sent, sent') /\ UNCHANGED <<chain, sent>>
  BY <1>1, DataUnchanged DEF DropTransaction, DataInv, DataType
<1>3. CASE Becomes(s, AfterEntry(l))
  <2> DEFINE W == l.work \ {<<l.tx, l.id>>}
  <2>1. Becomes(s, Scanning(W, l.touched)) /\ W \in SUBSET l.work
    BY <1>3 DEF AfterEntry
  <2> HIDE DEF W
  <2> QED  BY <1>2, <2>1, AfterEntryStep
<1>4. CASE /\ stored[b] # None /\ t \in BatchItems(b)
           /\ Becomes(s, [l EXCEPT !.pc = "save",
                            !.batch = [stored[b] EXCEPT !.item[t] = "dropped",
                                                        !.status = "dropped"]])
  <2>1. stored[b] \in TransactionBatch /\ Truthful(b, stored[b], chain, sent) /\ t \in Tx
    BY <1>1, <1>4, BatchItemsType DEF DataInv, DataType, StoredTruthful
  <2>2. c \in TransactionBatch /\ Truthful(b, c, chain, sent)
    BY <1>1, <2>1, ItemUpdated DEF ItemStatus
  <2>3. d \in TransactionBatch /\ Truthful(b, d, chain, sent)
    <3> HIDE DEF c
    <3> QED  BY <1>1, <2>2, StatusUpdated DEF BatchStatus
  <2>4. d = [stored[b] EXCEPT !.item[t] = "dropped", !.status = "dropped"]
    BY <2>1 DEF TransactionBatch
  <2>5. ProcessInv(s, [l EXCEPT !.pc = "save", !.batch = d], chain, sent)
    <3> HIDE DEF d
    <3> QED  BY <1>1, <2>3, SavedTruthful
  <2> QED  BY <1>2, <1>4, <2>4, <2>5, ProcessStep
<1> QED  BY <1>3, <1>4 DEF DropTransaction

\* A handler whose Redis call failed goes on to delete the key of one entry.
LEMMA AbortedTruthful ==
    ASSUME NEW p, NEW l \in Local, ProcessInv(p, l, chain, sent),
           NEW t \in Hash \cup {None}, NEW b \in Batch, b = l.id \/ l.pc = "scan",
           NEW W \in SUBSET l.work
    PROVE  ProcessInv(p, [l EXCEPT !.pc = "delete", !.tx = t, !.id = b, !.work = W, !.touched = {}],
                      chain, sent)
<1> DEFINE n == [l EXCEPT !.pc = "delete", !.tx = t, !.id = b, !.work = W, !.touched = {}]
<1>1. n \in Local
  BY DEF Local, PC
<1>2. /\ n.pc = "delete" /\ n.id = b /\ n.batch = l.batch
      /\ n.hashes = l.hashes /\ n.work = W
  BY DEF Local
<1>3. LocalTruthful(n, chain, sent)
  BY <1>2 DEF ProcessInv, LocalTruthful
<1>4. p \in Handler => HandlerTruthful(n, chain)
  BY <1>2 DEF ProcessInv, HandlerTruthful
<1> QED  BY <1>1, <1>3, <1>4 DEF ProcessInv

LEMMA FailStep ==
    ASSUME IInv, NEW p \in Proc, Fail(p)
    PROVE  IInv'
<1> DEFINE l == local[p]
           current == l.work \cap {<<l.tx, l.id>>}
<1>1. /\ DataInv /\ ProcessInv(p, l, chain, sent) /\ l \in Local
      /\ ProcessInv(p, Idle, chain, sent)
  BY Moving, IdleLocal DEF ProcessInv
<1>2. DataInv' /\ Grows(chain, chain', sent, sent') /\ UNCHANGED <<chain, sent>>
  BY <1>1, DataUnchanged DEF Fail, DataInv, DataType
<1>3. CASE Becomes(p, [l EXCEPT !.pc = "failed"])
  <2>1. ProcessInv(p, [l EXCEPT !.pc = "failed"], chain, sent)
    BY <1>1, Relocated DEF PC
  <2> QED  BY <1>2, <1>3, <2>1, ProcessStep
<1>4. CASE Becomes(p, Idle)
  BY <1>1, <1>2, <1>4, ProcessStep
<1>5. CASE /\ l.pc \in {"register", "save"}
           /\ Becomes(p, [l EXCEPT !.pc = "delete", !.touched = {},
                                    !.work = @ \cap {<<l.tx, l.id>>}])
  <2> DEFINE n == [l EXCEPT !.pc = "delete", !.tx = l.tx, !.id = l.id, !.work = current,
                            !.touched = {}]
  <2>1. n = [l EXCEPT !.pc = "delete", !.touched = {}, !.work = @ \cap {<<l.tx, l.id>>}]
    BY <1>1 DEF Local
  <2>2. l.id \in Batch /\ l.tx \in Hash \cup {None}
    BY <1>1, <1>5 DEF ProcessInv, LocalTruthful, Local
  <2>3. ProcessInv(p, n, chain, sent)
    <3>1. current \in SUBSET l.work
      OBVIOUS
    <3> HIDE DEF current
    <3> QED  BY <1>1, <2>2, <3>1, AbortedTruthful
  <2> QED  BY <1>2, <1>5, <2>1, <2>3, ProcessStep
<1>6. CASE /\ l.pc = "scan"
           /\ \E w \in l.work :
                Becomes(p, [l EXCEPT !.pc = "delete", !.tx = w[1], !.id = w[2],
                                     !.work = {w}, !.touched = {}])
  <2>1. PICK w \in l.work : Becomes(p, [l EXCEPT !.pc = "delete", !.tx = w[1], !.id = w[2],
                                                 !.work = {w}, !.touched = {}])
    BY <1>6
  <2>2. w[1] \in Hash /\ w[2] \in Batch /\ {w} \in SUBSET l.work
    BY <1>1 DEF Local
  <2>3. ProcessInv(p, [l EXCEPT !.pc = "delete", !.tx = w[1], !.id = w[2],
                                !.work = {w}, !.touched = {}], chain, sent)
    BY <1>1, <1>6, <2>2, AbortedTruthful
  <2> QED  BY <1>2, <2>1, <2>3, ProcessStep
<1>7. CASE /\ l.pc = "scan"
           /\ \E w \in l.work : Becomes(p, [l EXCEPT !.work = @ \ {w}])
  <2>1. PICK w \in l.work : Becomes(p, [l EXCEPT !.work = @ \ {w}])
    BY <1>7
  <2> DEFINE n == [l EXCEPT !.work = l.work \ {w}]
  <2>2. n \in Local /\ n = [l EXCEPT !.work = @ \ {w}]
    BY <1>1 DEF Local
  <2>3. /\ n.pc = l.pc /\ n.id = l.id /\ n.batch = l.batch /\ n.group = l.group
        /\ n.hashes = l.hashes /\ n.work = l.work \ {w}
    BY <1>1 DEF Local
  <2>4. LocalTruthful(n, chain, sent) /\ (p \in Handler => HandlerTruthful(n, chain))
    BY <1>1, <2>3 DEF ProcessInv, LocalTruthful, HandlerTruthful
  <2>5. ProcessInv(p, n, chain, sent)
    BY <2>2, <2>4 DEF ProcessInv
  <2> QED  BY <1>2, <2>1, <2>2, <2>5, ProcessStep
<1>8. CASE Becomes(p, AfterEntry(l))
  <2> DEFINE W == l.work \ {<<l.tx, l.id>>}
  <2>1. Becomes(p, Scanning(W, l.touched)) /\ W \in SUBSET l.work
    BY <1>8 DEF AfterEntry
  <2> HIDE DEF W
  <2> QED  BY <1>2, <2>1, AfterEntryStep
<1> QED  BY <1>3, <1>4, <1>5, <1>6, <1>7, <1>8 DEF Fail

LEMMA ChainEnvironmentStep ==
    ASSUME IInv, NEW t \in Tx, ExecuteOnChain(t) \/ ForgetTransaction(t)
    PROVE  IInv'
<1>1. DataInv /\ chain[t] = "pool"
  BY IInvParts DEF ExecuteOnChain, ForgetTransaction
<1>2. PICK v \in {"unknown", "pool"} \cup Outcome : chain' = [chain EXCEPT ![t] = v]
  BY DEF ExecuteOnChain, ForgetTransaction
<1>3. UNCHANGED <<stored, pendingKey, aged, delivered, unannounced, sent, local>>
  BY DEF ExecuteOnChain, ForgetTransaction
<1>4. Grows(chain, chain', sent, sent')
  BY <1>1, <1>2, <1>3 DEF Grows, DataInv, DataType, Outcome
<1>5. GroupOrder'
  <2> SUFFICES ASSUME NEW b \in Batch, NEW k \in DOMAIN Groups[b], NEW j \in DOMAIN Groups[b],
                      NEW u \in GroupItems(b, k), <<b, u>> \in sent, j < k,
                      NEW v2 \in GroupItems(b, j)
               PROVE  chain'[v2] = "success"
    BY <1>3 DEF GroupOrder, GroupItems
  <2>1. v2 \in Tx /\ chain[v2] = "success"
    BY <1>1, GroupItemsType DEF DataInv, GroupOrder
  <2> QED  BY <1>4, <2>1 DEF Grows, Outcome
<1>6. DataInv'
  <2>1. sent' \in SUBSET (Batch \X Tx) /\ sent \subseteq sent'
    BY <1>1, <1>3 DEF DataInv, DataType
  <2> QED  BY <1>1, <1>2, <1>3, <1>5, <2>1, ChainStep
<1> QED  BY <1>3, <1>4, <1>6, EnvironmentStep

LEMMA RedisEnvironmentStep ==
    ASSUME IInv,
           \/ \E h \in Hash : TenMinutesPass(h) \/ ExpirePendingKey(h)
           \/ \E b \in Batch : ExpireBatch(b)
    PROVE  IInv'
<1>1. DataInv
  BY IInvParts
<1>2. ASSUME NEW h \in Hash, TenMinutesPass(h)
      PROVE  DataInv' /\ Grows(chain, chain', sent, sent') /\ UNCHANGED local
  BY <1>1, <1>2, DataUnchanged DEF TenMinutesPass, DataInv, DataType
<1>3. ASSUME NEW h \in Hash, ExpirePendingKey(h)
      PROVE  DataInv' /\ Grows(chain, chain', sent, sent') /\ UNCHANGED local
  <2>1. aged' \in SUBSET Hash
    BY <1>1, <1>3 DEF ExpirePendingKey, DataInv, DataType
  <2> QED  BY <1>1, <1>3, <2>1, PendingStep DEF ExpirePendingKey
<1>4. ASSUME NEW b \in Batch, ExpireBatch(b)
      PROVE  DataInv' /\ Grows(chain, chain', sent, sent') /\ UNCHANGED local
  <2>1. unannounced' \in SUBSET Batch
    BY <1>1, <1>4 DEF ExpireBatch, DataInv, DataType
  <2> QED  BY <1>1, <1>4, <2>1, SaveStep DEF ExpireBatch
<1> QED  BY <1>2, <1>3, <1>4, EnvironmentStep

THEOREM StepIInv == IInv /\ [Next]_vars => IInv'
<1> SUFFICES ASSUME IInv, [Next]_vars PROVE IInv'
  OBVIOUS
<1>1. ASSUME NEW r \in Request, RequestStep(r) PROVE IInv'
  BY <1>1, StartTransactionBatchStep, ExecuteTransactionStep, GroupSentStep,
     SetPendingTransactionStep, GroupStartedStep, SaveBatchStep DEF RequestStep
<1>2. ASSUME NEW h \in Handler, HandleTransactionBatches(h) \/ HandlerStep(h) PROVE IInv'
  BY <1>2, ReadPendingStep, ProcessTransactionStep, ExecuteTransactionStep, GroupSentStep,
     SetPendingTransactionStep, GroupStartedStep, SaveBatchStep,
     DeletePendingTransactionStep, EmitBatchUpdatedStep DEF HandlerStep
<1>3. ASSUME NEW s \in Sweep, HandleDroppedTransactions(s) \/ SweepStep(s) PROVE IInv'
  <2>1. s \notin Handler
    BY ProcAssumption
  <2> QED  BY <1>3, <2>1, ReadPendingStep, LookupTransactionStep,
              DropTransactionStep, SaveBatchStep,
              DeletePendingTransactionStep, EmitBatchUpdatedStep DEF SweepStep
<1>4. CASE Environment
  BY <1>4, ChainEnvironmentStep, RedisEnvironmentStep, FailStep DEF Environment
<1>5. CASE UNCHANGED vars
  <2>1. UNCHANGED <<stored, pendingKey, aged, chain, delivered, unannounced, sent, local>>
    BY <1>5 DEF vars
  <2>2. DataInv' /\ Grows(chain, chain', sent, sent')
    BY <2>1, IInvParts, DataUnchanged DEF DataInv, DataType
  <2> QED  BY <2>1, <2>2, EnvironmentStep
<1> QED  BY <1>1, <1>2, <1>3, <1>4, <1>5 DEF Next

\* The inductive invariant holds in every reachable state.
THEOREM Invariance == Spec => []IInv
<1> QED  BY InitIInv, StepIInv, PTL DEF Spec

\* Every variable keeps its type: no save, key or local copy is malformed.
THEOREM TypeCorrect == Spec => []TypeOK
<1>1. IInv => TypeOK
  BY DEF IInv
<1> QED  BY <1>1, Invariance, PTL

\* A transaction is handed to the gateway for a batch only after every
\* transaction of the batch's earlier groups succeeded on chain.
THEOREM GroupsInOrder == Spec => []GroupOrder
<1>1. IInv => GroupOrder
  BY DEF IInv
<1> QED  BY <1>1, Invariance, PTL

\* A batch stored as successful has only transactions that succeeded on chain.
THEOREM SuccessesAreReal == Spec => []SuccessIsReal
<1>1. IInv => SuccessIsReal
  BY DEF IInv, SuccessIsReal, Truthful
<1> QED  BY <1>1, Invariance, PTL

----------------------------------------------------------------------------
(* Batches implement BatchPromise. *)

Succeeded == {t \in Tx : chain[t] = "success"}
Reported == {b \in Batch : stored[b] # None /\ stored[b].status = "success"}

\* The steps of a batch system, by what they do to the three abstract variables.
LEMMA StepShape ==
    ASSUME IInv, [Next]_vars
    PROVE  \/ UNCHANGED <<stored, chain, sent>>
           \/ UNCHANGED <<stored, Succeeded>>
              /\ \E b \in Batch : \E k \in DOMAIN Groups[b] : \E i \in DOMAIN Groups[b][k] :
                    /\ PrefixSucceeded(b, k, chain)
                    /\ sent' = sent \cup {<<b, Groups[b][k][i]>>}
           \/ UNCHANGED <<stored, sent>>
              /\ \E t \in Tx : /\ chain[t] = "pool"
                               /\ \E v : chain' = [chain EXCEPT ![t] = v]
           \/ UNCHANGED <<chain, sent>>
              /\ \E b \in Batch : \E c : stored' = [stored EXCEPT ![b] = c]
<1>1. ASSUME NEW p \in Proc, ExecuteTransaction(p)
      PROVE  \/ UNCHANGED <<stored, chain, sent>>
             \/ UNCHANGED <<stored, Succeeded>>
                /\ \E b \in Batch : \E k \in DOMAIN Groups[b] : \E i \in DOMAIN Groups[b][k] :
                      /\ PrefixSucceeded(b, k, chain)
                      /\ sent' = sent \cup {<<b, Groups[b][k][i]>>}
  <2> DEFINE b == local[p].id
             k == local[p].group
             i == local[p].next
             t == Groups[b][k][i]
             pooled == [chain EXCEPT ![t] = IF @ = "unknown" THEN "pool" ELSE @]
  <2>1. /\ b \in Batch /\ k \in DOMAIN Groups[b] /\ i \in DOMAIN Groups[b][k]
        /\ PrefixSucceeded(b, k, chain)
    BY <1>1, Moving DEF ExecuteTransaction, ProcessInv, LocalTruthful
  <2>2. \/ UNCHANGED <<stored, chain, sent>>
        \/ /\ stored' = stored /\ sent' = sent \cup {<<b, t>>}
           /\ chain' \in {chain, pooled}
    BY <1>1 DEF ExecuteTransaction
  <2>3. chain' \in {chain, pooled} => Succeeded' = Succeeded
    <3>1. t \in Tx
      BY <2>1, GroupItemsType
    <3>2. chain \in [Tx -> {"unknown", "pool"} \cup Outcome]
      BY Moving, <1>1 DEF DataInv, DataType
    <3> QED  BY <3>1, <3>2 DEF Succeeded
  <2> QED  BY <2>1, <2>2, <2>3
<1>2. ASSUME NEW p \in Proc, SaveNewBatch(p) \/ SaveBatch(p)
      PROVE  UNCHANGED <<chain, sent>>
             /\ \E b \in Batch : \E c : stored' = [stored EXCEPT ![b] = c]
  <2>1. local[p].id \in Batch
    BY <1>2, Moving DEF SaveNewBatch, SaveBatch, ProcessInv, LocalTruthful
  <2> QED  BY <1>2, <2>1 DEF SaveNewBatch, SaveBatch
<1>3. ASSUME NEW p \in Proc,
             \/ StartTransactionBatch(p) \/ GroupSent(p) \/ SetPendingTransaction(p)
             \/ FirstGroupStarted(p) \/ HandleTransactionBatches(p) \/ ProcessTransaction(p)
             \/ NextGroupStarted(p) \/ DeletePendingTransaction(p) \/ EmitBatchUpdated(p)
             \/ HandleDroppedTransactions(p) \/ LookupTransaction(p) \/ DropTransaction(p)
             \/ Fail(p)
      PROVE  UNCHANGED <<stored, chain, sent>>
  BY <1>3 DEF StartTransactionBatch, GroupSent, SetPendingTransaction, FirstGroupStarted,
     HandleTransactionBatches, ProcessTransaction, NextGroupStarted, DeletePendingTransaction,
     EmitBatchUpdated, HandleDroppedTransactions, LookupTransaction, DropTransaction, Fail
<1>4. ASSUME NEW t \in Tx, ExecuteOnChain(t) \/ ForgetTransaction(t)
      PROVE  UNCHANGED <<stored, sent>> /\ chain[t] = "pool"
             /\ \E v : chain' = [chain EXCEPT ![t] = v]
  BY <1>4 DEF ExecuteOnChain, ForgetTransaction
<1>5. ASSUME NEW h \in Hash, TenMinutesPass(h) \/ ExpirePendingKey(h)
      PROVE  UNCHANGED <<stored, chain, sent>>
  BY <1>5 DEF TenMinutesPass, ExpirePendingKey
<1>6. ASSUME NEW b \in Batch, ExpireBatch(b)
      PROVE  UNCHANGED <<chain, sent>> /\ \E c : stored' = [stored EXCEPT ![b] = c]
  BY <1>6 DEF ExpireBatch
<1>7. CASE UNCHANGED vars
  BY <1>7 DEF vars
<1> QED  BY <1>1, <1>2, <1>3, <1>4, <1>5, <1>6, <1>7
         DEF Next, RequestStep, HandlerStep, SweepStep, Environment

\* What BatchPromise calls a succeeded prefix.
LEMMA PromisedPrefix ==
    ASSUME IInv, NEW b \in Batch, NEW k, PrefixSucceeded(b, k, chain)
    PROVE  Promised!PrefixSucceeded(b, k)
<1> SUFFICES ASSUME NEW j \in DOMAIN Groups[b], j < k, NEW i \in DOMAIN Groups[b][j]
             PROVE  Groups[b][j][i] \in {t \in Tx : chain[t] = "success"}
  BY DEF Promised!PrefixSucceeded
<1>1. Groups[b][j][i] \in GroupItems(b, j)
  BY DEF GroupItems
<1> QED  BY <1>1, GroupItemsType DEF PrefixSucceeded

\* Every step of the batches is a step of BatchPromise, or changes nothing of it.
LEMMA StepPromise ==
    ASSUME IInv, IInv', [Next]_vars
    PROVE  [Promised!PromiseNext]_(Promised!promiseVars)
<1> USE DEF Succeeded, Reported
<1>1. CASE UNCHANGED <<stored, chain, sent>>
  BY <1>1 DEF Promised!promiseVars
<1>2. CASE UNCHANGED <<stored, Succeeded>>
           /\ \E b \in Batch : \E k \in DOMAIN Groups[b] : \E i \in DOMAIN Groups[b][k] :
                 /\ PrefixSucceeded(b, k, chain)
                 /\ sent' = sent \cup {<<b, Groups[b][k][i]>>}
  <2>1. PICK b \in Batch : \E k \in DOMAIN Groups[b] : \E i \in DOMAIN Groups[b][k] :
                 /\ PrefixSucceeded(b, k, chain)
                 /\ sent' = sent \cup {<<b, Groups[b][k][i]>>}
    BY <1>2
  <2>2. PICK k \in DOMAIN Groups[b] : \E i \in DOMAIN Groups[b][k] :
                 /\ PrefixSucceeded(b, k, chain)
                 /\ sent' = sent \cup {<<b, Groups[b][k][i]>>}
    BY <2>1
  <2>2a. PICK i \in DOMAIN Groups[b][k] :
                 /\ PrefixSucceeded(b, k, chain)
                 /\ sent' = sent \cup {<<b, Groups[b][k][i]>>}
    BY <2>2
  <2> DEFINE t == Groups[b][k][i]
  <2>3. t \in Tx
    BY GroupItemsType
  <2>4. Promised!PrefixSucceeded(b, k) /\ Promised!InGroup(b, k, t)
    BY <2>2a, PromisedPrefix DEF Promised!InGroup
  <2>5. Promised!Submit(b, t)
    BY <1>2, <2>2a, <2>4 DEF Promised!Submit
  <2> QED  BY <2>3, <2>5 DEF Promised!PromiseNext
<1>3. CASE UNCHANGED <<stored, sent>>
           /\ \E t \in Tx : /\ chain[t] = "pool"
                            /\ \E v : chain' = [chain EXCEPT ![t] = v]
  <2>1. PICK t \in Tx : chain[t] = "pool" /\ \E v : chain' = [chain EXCEPT ![t] = v]
    BY <1>3
  <2>1a. PICK v : chain' = [chain EXCEPT ![t] = v]
    BY <2>1
  <2>2. chain \in [Tx -> {"unknown", "pool"} \cup Outcome]
        /\ \E b \in Batch : <<b, t>> \in sent
    BY <2>1 DEF IInv, TypeOK
  <2>3. Succeeded' = Succeeded \/ Succeeded' = Succeeded \cup {t}
    BY <2>1, <2>1a, <2>2
  <2>4. CASE Succeeded' = Succeeded
    BY <1>3, <2>4 DEF Promised!promiseVars
  <2>5. CASE Succeeded' = Succeeded \cup {t}
    <3>1. Promised!Succeed(t)
      BY <1>3, <2>2, <2>5 DEF Promised!Succeed
    <3> QED  BY <3>1 DEF Promised!PromiseNext
  <2> QED  BY <2>3, <2>4, <2>5
<1>4. CASE UNCHANGED <<chain, sent>>
           /\ \E b \in Batch : \E c : stored' = [stored EXCEPT ![b] = c]
  <2>1. PICK b \in Batch : \E c : stored' = [stored EXCEPT ![b] = c]
    BY <1>4
  <2>1a. PICK c : stored' = [stored EXCEPT ![b] = c]
    BY <2>1
  <2>2. stored \in [Batch -> TransactionBatch \cup {None}]
    BY DEF IInv, TypeOK
  <2>3. CASE b \in Reported'
    <3>1. Reported' = Reported \cup {b}
      BY <2>1a, <2>2, <2>3
    <3>2. \A u \in BatchItems(b) : chain[u] = "success"
      BY <1>4, <2>3 DEF IInv, Truthful, BatchItems, GroupItems
    <3>3. PrefixSucceeded(b, Len(Groups[b]) + 1, chain)
      BY <3>2, GroupItemsType DEF PrefixSucceeded
    <3>4. Promised!ReportSuccess(b)
      BY <1>4, <3>1, <3>3, PromisedPrefix DEF Promised!ReportSuccess
    <3> QED  BY <3>4 DEF Promised!PromiseNext
  <2>4. CASE b \notin Reported'
    <3>1. Reported' = Reported \ {b}
      BY <2>1a, <2>2, <2>4
    <3>2. Promised!Withdraw(b)
      BY <1>4, <3>1 DEF Promised!Withdraw
    <3> QED  BY <3>2 DEF Promised!PromiseNext
  <2> QED  BY <2>3, <2>4
<1> QED  BY <1>1, <1>2, <1>3, <1>4, StepShape

\* The requests, the batch processor and the cron together implement BatchPromise.
THEOREM PromiseKept == Spec => KeepsPromise
<1>1. Init => Promised!PromiseInit
  BY DEF Init, Promised!PromiseInit
<1>2. IInv /\ IInv' /\ [Next]_vars => [Promised!PromiseNext]_(Promised!promiseVars)
  BY StepPromise
<1> QED  BY <1>1, <1>2, Invariance, PTL DEF Spec, Promised!Promise, KeepsPromise

----------------------------------------------------------------------------
(* Saves are announced by somebody. *)

\* A run in local state l will announce b.
WillAnnounce(l, b) == b \in l.touched \/ (l.pc = "delete" /\ l.id = b)

\* SavesHaveAnnouncer is inductive, as a run begins with nothing to announce.
AnnouncerInv ==
    /\ SavesHaveAnnouncer
    /\ \A p \in Handler \cup Sweep : local[p].pc = "idle" => local[p].touched = {}

LEMMA AnnouncerStep ==
    ASSUME TypeOK, AnnouncerInv, NEW p \in Handler \cup Sweep, NEW n, Becomes(p, n),
           \A b \in unannounced' \cap unannounced : OwnId(b) =>
              (WillAnnounce(local[p], b) => WillAnnounce(n, b)),
           \A b \in unannounced' \ unannounced : OwnId(b) => WillAnnounce(n, b),
           n.pc = "idle" => n.touched = {}
    PROVE  AnnouncerInv'
<1>1. local'[p] = n /\ \A q \in Proc \ {p} : local'[q] = local[q]
  BY DEF TypeOK, Becomes
<1>2. ASSUME NEW b \in unannounced', OwnId(b)
      PROVE  \E q \in Handler \cup Sweep : WillAnnounce(local'[q], b)
  <2>1. CASE b \in unannounced
    <3>1. PICK q \in Handler \cup Sweep : WillAnnounce(local[q], b)
      BY <1>2, <2>1 DEF AnnouncerInv, SavesHaveAnnouncer, WillAnnounce
    <3>2. WillAnnounce(local'[q], b)
      BY <1>1, <1>2, <2>1, <3>1
    <3> QED  BY <3>2
  <2>2. CASE b \notin unannounced
    BY <1>1, <1>2, <2>2
  <2> QED  BY <2>1, <2>2
<1>3. \A q \in Handler \cup Sweep : local'[q].pc = "idle" => local'[q].touched = {}
  BY <1>1 DEF AnnouncerInv
<1> QED  BY <1>2, <1>3 DEF AnnouncerInv, SavesHaveAnnouncer, WillAnnounce, OwnId

LEMMA RequestAnnounces ==
    ASSUME TypeOK, AnnouncerInv, NEW r \in Request, RequestStep(r)
    PROVE  AnnouncerInv'
<1>1. UNCHANGED unannounced /\ \E n : Becomes(r, n)
  BY DEF RequestStep, StartTransactionBatch, ExecuteTransaction, GroupSent,
         SetPendingTransaction, FirstGroupStarted, SaveNewBatch
<1>2. \A p \in Handler \cup Sweep : local'[p] = local[p]
  BY <1>1, ProcAssumption DEF TypeOK, Becomes
<1> QED  BY <1>1, <1>2 DEF AnnouncerInv, SavesHaveAnnouncer

\* A step after which a run has the same batches to announce.
LEMMA SameAnnounced ==
    ASSUME TypeOK, AnnouncerInv, NEW p \in Handler \cup Sweep, local[p].pc # "delete",
           unannounced' \subseteq unannounced,
           NEW n, Becomes(p, n), n.touched = local[p].touched, n.pc # "idle"
    PROVE  AnnouncerInv'
BY AnnouncerStep DEF WillAnnounce

LEMMA ReadingAnnounces ==
    ASSUME TypeOK, AnnouncerInv, NEW p \in Handler \cup Sweep,
           HandleTransactionBatches(p) \/ HandleDroppedTransactions(p)
    PROVE  AnnouncerInv'
<1>1. UNCHANGED unannounced /\ local[p].pc = "idle" /\ local[p].touched = {}
  BY DEF HandleTransactionBatches, HandleDroppedTransactions, AnnouncerInv
<1>2. CASE UNCHANGED local
  BY <1>1, <1>2 DEF AnnouncerInv, SavesHaveAnnouncer
<1>3. ASSUME NEW W, Becomes(p, Scanning(W, {})) PROVE AnnouncerInv'
  <2>1. Scanning(W, {}).touched = {} /\ Scanning(W, {}).pc = "scan"
    BY DEF Scanning, Idle
  <2> QED  BY <1>1, <1>3, <2>1, SameAnnounced
<1> QED  BY <1>2, <1>3 DEF HandleTransactionBatches, HandleDroppedTransactions

LEMMA SendingAnnounces ==
    ASSUME TypeOK, AnnouncerInv, NEW p \in Handler \cup Sweep,
           \/ ExecuteTransaction(p) \/ GroupSent(p)
           \/ SetPendingTransaction(p) \/ NextGroupStarted(p)
    PROVE  AnnouncerInv'
<1>1. PICK l \in Local : l = local[p]
  BY DEF TypeOK
<1>2. l.pc \in {"send", "register"} /\ unannounced' \subseteq unannounced
  BY <1>1 DEF ExecuteTransaction, GroupSent, SetPendingTransaction, NextGroupStarted
<1>3. PICK n : Becomes(p, n) /\ n.touched = l.touched /\ n.pc \in {"send", "register", "save"}
  <2>1. CASE ExecuteTransaction(p)
    <3> DEFINE t == Groups[l.id][l.group][l.next]
               Executed(hash) ==
                   [l EXCEPT !.next = @ + 1,
                             !.batch.hash[t] = hash,
                             !.hashes = IF l.batch.item[t] = "pending" THEN @ \cup {hash} ELSE @]
               refused == [l EXCEPT !.next = Len(Groups[l.id][l.group]) + 1,
                                    !.batch.item[t] = "invalid"]
    <3>1. Becomes(p, refused) \/ \E hash : Becomes(p, Executed(hash))
      BY <1>1, <2>1 DEF ExecuteTransaction
    <3>2. refused.touched = l.touched /\ refused.pc = l.pc
      BY <1>1 DEF Local
    <3>3. \A hash : Executed(hash).touched = l.touched /\ Executed(hash).pc = l.pc
      BY <1>1 DEF Local
    <3> HIDE DEF Executed, refused
    <3> QED  BY <1>2, <3>1, <3>2, <3>3
  <2>2. CASE GroupSent(p)
    BY <1>1, <2>2 DEF GroupSent, Local
  <2>3. CASE SetPendingTransaction(p)
    BY <1>1, <2>3 DEF SetPendingTransaction, Local
  <2>4. CASE NextGroupStarted(p)
    <3> DEFINE invalid == [l EXCEPT !.pc = "save", !.batch.status = "invalid"]
               saved == [l EXCEPT !.pc = "save"]
    <3>1. Becomes(p, invalid) \/ Becomes(p, saved)
      BY <1>1, <2>4 DEF NextGroupStarted
    <3>2. /\ invalid.touched = l.touched /\ invalid.pc = "save"
          /\ saved.touched = l.touched /\ saved.pc = "save"
      BY <1>1 DEF Local
    <3> HIDE DEF invalid, saved
    <3> QED  BY <3>1, <3>2
  <2> QED  BY <2>1, <2>2, <2>3, <2>4
<1> QED  BY <1>1, <1>2, <1>3, SameAnnounced

LEMMA EntryAnnounces ==
    ASSUME TypeOK, AnnouncerInv, NEW p \in Handler \cup Sweep,
           ProcessTransaction(p) \/ LookupTransaction(p) \/ DropTransaction(p)
    PROVE  AnnouncerInv'
<1>1. PICK l \in Local : l = local[p]
  BY DEF TypeOK
<1>2. l.pc \in {"scan", "load"} /\ UNCHANGED unannounced
  BY <1>1 DEF ProcessTransaction, LookupTransaction, DropTransaction
<1>3. \A m : AfterEntry(m).touched = m.touched /\ AfterEntry(m).pc = "scan"
  BY DEF AfterEntry, Scanning, Idle
<1>4. PICK n : Becomes(p, n) /\ n.touched = l.touched /\ n.pc # "idle"
  <2>1. CASE ProcessTransaction(p)
    <3>1. PICK w : LET m == [l EXCEPT !.pc = "load", !.tx = w[1], !.id = w[2],
                                      !.batch = stored[w[2]]]
                   IN  Becomes(p, [m EXCEPT !.pc = "delete"]) \/ \E k : UpdateItem(p, m, k)
      BY <1>1, <2>1 DEF ProcessTransaction
    <3>2. PICK m : m = [l EXCEPT !.pc = "load", !.tx = w[1], !.id = w[2],
                                 !.batch = stored[w[2]]]
      OBVIOUS
    <3>3. m.touched = l.touched
      BY <1>1, <3>2 DEF Local
    <3>4. ASSUME NEW k, UpdateItem(p, m, k)
          PROVE  \E n : Becomes(p, n) /\ n.touched = l.touched /\ n.pc # "idle"
      <4> DEFINE Saved(c) == [m EXCEPT !.pc = "save", !.batch = c]
                 Sends(c) == StartGroup(m, m.id, c, k + 1)
      <4>1. \E c : Becomes(p, Saved(c)) \/ Becomes(p, Sends(c))
        BY <3>4 DEF UpdateItem
      <4>2. \A c : /\ Saved(c).touched = l.touched /\ Saved(c).pc = "save"
                   /\ Sends(c).touched = l.touched /\ Sends(c).pc = "send"
        BY <1>1, <3>2 DEF StartGroup, Local
      <4> HIDE DEF Saved, Sends
      <4> QED  BY <4>1, <4>2
    <3>5. PICK d : d = [m EXCEPT !.pc = "delete"]
      OBVIOUS
    <3>6. d.touched = l.touched /\ d.pc = "delete"
      BY <1>1, <3>2, <3>5 DEF Local
    <3> QED  BY <3>1, <3>2, <3>4, <3>5, <3>6
  <2>2. CASE LookupTransaction(p)
    <3>1. PICK w : LET m == [l EXCEPT !.tx = w[1], !.id = w[2]]
                   IN  Becomes(p, AfterEntry(m)) \/ Becomes(p, [m EXCEPT !.pc = "load"])
      BY <1>1, <2>2 DEF LookupTransaction
    <3>2. PICK m : m = [l EXCEPT !.tx = w[1], !.id = w[2]]
      OBVIOUS
    <3>3. PICK d : d = [m EXCEPT !.pc = "load"]
      OBVIOUS
    <3>4. m.touched = l.touched /\ d.touched = l.touched /\ d.pc = "load"
      BY <1>1, <3>2, <3>3 DEF Local
    <3> QED  BY <1>3, <3>1, <3>2, <3>3, <3>4
  <2>3. CASE DropTransaction(p)
    <3> DEFINE Dropped(c) == [l EXCEPT !.pc = "save", !.batch = c]
    <3>1. Becomes(p, AfterEntry(l)) \/ \E c : Becomes(p, Dropped(c))
      BY <1>1, <2>3 DEF DropTransaction
    <3>2. \A c : Dropped(c).touched = l.touched /\ Dropped(c).pc = "save"
      BY <1>1 DEF Local
    <3> HIDE DEF Dropped
    <3> QED  BY <1>3, <3>1, <3>2
  <2> QED  BY <2>1, <2>2, <2>3
<1> QED  BY <1>1, <1>2, <1>4, SameAnnounced

LEMMA SavingAnnounces ==
    ASSUME TypeOK, AnnouncerInv, NEW p \in Handler \cup Sweep,
           SaveBatch(p) \/ DeletePendingTransaction(p) \/ EmitBatchUpdated(p)
    PROVE  AnnouncerInv'
<1>1. PICK l \in Local : l = local[p]
  BY DEF TypeOK
<1>2. CASE SaveBatch(p)
  <2>1. PICK n : n = [l EXCEPT !.pc = "delete"]
    OBVIOUS
  <2>2. n.pc = "delete" /\ n.id = l.id /\ n.touched = l.touched
    BY <2>1 DEF Local
  <2> QED  BY <1>1, <1>2, <2>1, <2>2, AnnouncerStep DEF SaveBatch, WillAnnounce
<1>3. CASE DeletePendingTransaction(p)
  <2>1. PICK n : n = Scanning(l.work \ {<<l.tx, l.id>>}, ToAnnounce(l))
    OBVIOUS
  <2>2. n.pc = "scan" /\ n.touched = ToAnnounce(l)
    BY <2>1 DEF Scanning, Idle
  <2>3. l.touched \subseteq n.touched /\ (OwnId(l.id) => l.id \in n.touched)
    BY <1>1, <2>2 DEF ToAnnounce, OwnId, Local
  <2> QED  BY <1>1, <1>3, <2>1, <2>2, <2>3, AnnouncerStep
           DEF DeletePendingTransaction, WillAnnounce
<1>4. CASE EmitBatchUpdated(p)
  <2>1. Idle.touched = {} /\ Idle.pc = "idle"
    BY DEF Idle
  <2> QED  BY <1>4, <2>1, AnnouncerStep DEF EmitBatchUpdated, WillAnnounce
<1> QED  BY <1>2, <1>3, <1>4

LEMMA StepAnnouncer ==
    ASSUME ~Faults, TypeOK, AnnouncerInv, [Next]_vars
    PROVE  AnnouncerInv'
<1>1. ASSUME NEW r \in Request, RequestStep(r) PROVE AnnouncerInv'
  BY <1>1, RequestAnnounces
<1>2. ASSUME NEW h \in Handler, HandleTransactionBatches(h) \/ HandlerStep(h)
      PROVE  AnnouncerInv'
  BY <1>2, ReadingAnnounces, SendingAnnounces, EntryAnnounces, SavingAnnounces DEF HandlerStep
<1>3. ASSUME NEW s \in Sweep, HandleDroppedTransactions(s) \/ SweepStep(s)
      PROVE  AnnouncerInv'
  BY <1>3, ReadingAnnounces, EntryAnnounces, SavingAnnounces DEF SweepStep
<1>4. CASE Environment \/ UNCHANGED vars
  <2>1. UNCHANGED <<unannounced, local>>
    BY <1>4 DEF Environment, ExecuteOnChain, ForgetTransaction, TenMinutesPass,
                ExpirePendingKey, ExpireBatch, Fail, vars
  <2> QED  BY <2>1 DEF AnnouncerInv, SavesHaveAnnouncer
<1> QED  BY <1>1, <1>2, <1>3, <1>4 DEF Next

\* SavesHaveAnnouncer, for any overlapping runs and expiring entries, when nothing fails:
\* every batch of its own id that a cron saved has a run left to announce it.
THEOREM SavesAnnounced ==
    ASSUME ~Faults
    PROVE  Spec => []SavesHaveAnnouncer
<1>1. Init => AnnouncerInv
  BY DEF Init, AnnouncerInv, SavesHaveAnnouncer, Idle
<1>2. TypeOK /\ AnnouncerInv /\ [Next]_vars => AnnouncerInv'
  BY StepAnnouncer
<1>3. AnnouncerInv => SavesHaveAnnouncer
  BY DEF AnnouncerInv
<1> QED  BY <1>1, <1>2, <1>3, TypeCorrect, PTL DEF Spec

=============================================================================
