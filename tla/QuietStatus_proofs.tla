------------------------- MODULE QuietStatus_proofs -------------------------
(***************************************************************************)
(* Proofs that a batch's status is decided once when the runs do not       *)
(* overlap, for every number of batches, transactions and runs, with       *)
(* batches that share transactions or are posted again, and with blocks    *)
(* that are received again.                                                *)
(***************************************************************************)
EXTENDS TransactionsBatchQuiet, TransactionsBatch_proofs

USE DEF Proc, Hash

----------------------------------------------------------------------------
(* Steps of one process while the others rest. *)

LEMMA Alone ==
    ASSUME QuietInv, NEW p \in Proc, ~AtRest(local[p])
    PROVE  \A q \in Proc \ {p} : AtRest(local[q])
BY DEF QuietInv

\* A process at rest claims nothing.
LEMMA RestQuiet ==
    ASSUME NEW p \in Proc, NEW l, AtRest(l), p \in Handler => l.work = {}
    PROVE  QuietProc(p, l)
BY DEF QuietProc, QuietRequest, RequestOnce, QuietHandler, QuietSweep, AtRest, Writing

LEMMA MoveQuiet ==
    ASSUME TypeOK, QuietInv, NEW p \in Proc, \A q \in Proc \ {p} : AtRest(local[q]),
           NEW n, n \in Local, Becomes(p, n), QuietProc(p, n)',
           \A b \in Batch : QuietStored(b)'
    PROVE  QuietInv'
<1>1. local' \in [Proc -> Local] /\ local'[p] = n /\ \A q \in Proc \ {p} : local'[q] = local[q]
  BY DEF TypeOK, Becomes
<1>2. ASSUME NEW q \in Proc PROVE QuietProc(q, local[q])'
  <2>1. CASE q = p
    BY <1>1, <2>1
  <2>2. CASE q # p
    <3>1. local'[q] = local[q] /\ AtRest(local[q]) /\ (q \in Handler => local[q].work = {})
      BY <1>1, <2>2 DEF QuietInv, QuietProc, QuietHandler
    <3> QED  BY <3>1 DEF QuietProc, QuietRequest, RequestOnce, QuietHandler, QuietSweep,
                         AtRest, Writing
  <2> QED  BY <2>1, <2>2
<1>3. ASSUME NEW q1 \in Proc, NEW q2 \in Proc, q1 # q2
      PROVE  AtRest(local[q1])' \/ AtRest(local[q2])'
  BY <1>1, <1>3 DEF AtRest
<1> QED  BY <1>2, <1>3 DEF QuietInv

\* The sends of a step start no group after the first.
StartsNone(b) ==
    \A k \in DOMAIN Groups[b] : k > 1 /\ GroupStarted(b, k)' => GroupStarted(b, k)

LEMMA NewestStays ==
    ASSUME NEW b \in Batch, NEW c, Newest(b, c), StartsNone(b),
           \A t \in BatchItems(b) : Due(t, b)' => Due(t, b) \/ c.item[t] # "success"
    PROVE  Newest(b, c)'
<1>1. \A j, k \in DOMAIN Groups[b] : j < k => k > 1
  <2> SUFFICES ASSUME NEW j \in DOMAIN Groups[b], NEW k \in DOMAIN Groups[b], j < k
               PROVE  k > 1
    OBVIOUS
  <2> QED  BY GroupItemsType
<1> QED  BY <1>1 DEF Newest, StartsNone, GroupSucceeded

LEMMA StoredStays ==
    ASSUME NEW b \in Batch, QuietStored(b), stored'[b] = stored[b], StartsNone(b),
           \A t \in BatchItems(b) : Due(t, b)' => Due(t, b),
           \A h \in Handler : Writing(local[h]) /\ local[h].id = b
              => Writing(local'[h]) /\ local'[h].id = b
    PROVE  QuietStored(b)'
<1>1. PICK c : c = stored[b]
  OBVIOUS
<1>2. Newest(b, c) => Newest(b, c)'
  BY NewestStays
<1>3. Newest(b, stored[b])' <=> Newest(b, c)'
  BY <1>1 DEF Newest, GroupSucceeded
<1> QED  BY <1>1, <1>2, <1>3 DEF QuietStored, StartsNone, Writing

LEMMA SentStays ==
    ASSUME NEW b \in Batch, sent' = sent
    PROVE  StartsNone(b)
BY DEF StartsNone, GroupStarted

\* The entries that p goes on with in n were pending, and the one at hand stays at hand.
KeepsEntries(p, n) ==
    p \in Handler =>
        /\ \A w \in n.work : w \in local[p].work \/ pendingKey[w[1]] = w[2]
        /\ Holding(local[p]) => Holding(n) /\ n.tx = local[p].tx /\ n.id = local[p].id

\* No entry becomes due by a step that writes no pending key for it.
LEMMA DueStays ==
    ASSUME TypeOK, NEW p \in Proc, \A q \in Proc \ {p} : AtRest(local[q]),
           NEW n, Becomes(p, n), KeepsEntries(p, n),
           NEW t, NEW b, pendingKey'[t] = b => pendingKey[t] = b, Due(t, b)'
    PROVE  Due(t, b)
<1>1. local'[p] = n /\ \A q \in Proc \ {p} : local'[q] = local[q]
  BY DEF TypeOK, Becomes
<1>2. ~Current(t, b)
  <2> SUFFICES ASSUME NEW h \in Handler, Holding(local[h]), local[h].tx = t, local[h].id = b
               PROVE  Current(t, b)'
    BY DEF Due, Current
  <2>1. h = p
    BY DEF AtRest, Holding
  <2>2. Holding(local'[h]) /\ local'[h].tx = t /\ local'[h].id = b
    BY <1>1, <2>1 DEF KeepsEntries
  <2> QED  BY <2>2 DEF Current, Holding
<1>3. ASSUME NEW h \in Handler, <<t, b>> \in local'[h].work
      PROVE  pendingKey[t] = b \/ <<t, b>> \in local[h].work
  <2>1. CASE h = p
    <3>1. <<t, b>> \in n.work
      BY <1>1, <1>3, <2>1
    <3> QED  BY <3>1, <2>1 DEF KeepsEntries
  <2>2. CASE h # p
    BY <1>1, <1>3, <2>2
  <2> QED  BY <2>1, <2>2
<1> QED  BY <1>2, <1>3 DEF Due

LEMMA NewestKept ==
    ASSUME TypeOK, NEW p \in Proc, \A q \in Proc \ {p} : AtRest(local[q]),
           NEW n, Becomes(p, n), KeepsEntries(p, n), UNCHANGED <<pendingKey, sent>>,
           NEW b \in Batch, NEW c, Newest(b, c)
    PROVE  Newest(b, c)'
<1>1. \A t : Due(t, b)' => Due(t, b)
  BY DueStays
<1> QED  BY <1>1, SentStays, NewestStays

\* A step that writes neither a batch nor a pending key.
LEMMA LocalStep ==
    ASSUME TypeOK, QuietInv, NEW p \in Proc, \A q \in Proc \ {p} : AtRest(local[q]),
           NEW n, n \in Local, Becomes(p, n), QuietProc(p, n)',
           UNCHANGED <<stored, pendingKey>>,
           \A b \in Batch : StartsNone(b) \/ (p \in Handler /\ Writing(n) /\ n.id = b),
           KeepsEntries(p, n),
           p \in Handler /\ Writing(local[p]) => Writing(n) /\ n.id = local[p].id
    PROVE  QuietInv'
<1>1. local'[p] = n /\ \A q \in Proc \ {p} : local'[q] = local[q]
  BY DEF TypeOK, Becomes
<1>2. ASSUME NEW b \in Batch PROVE QuietStored(b)'
  <2>1. CASE p \in Handler /\ Writing(n) /\ n.id = b
    BY <1>1, <2>1 DEF QuietProc, QuietHandler, QuietStored, Writing
  <2>2. CASE StartsNone(b)
    <3>1. \A t \in BatchItems(b) : Due(t, b)' => Due(t, b)
      BY DueStays
    <3>2. \A h \in Handler : Writing(local[h]) /\ local[h].id = b
              => Writing(local'[h]) /\ local'[h].id = b
      <4> SUFFICES ASSUME NEW h \in Handler, Writing(local[h]), local[h].id = b
                   PROVE  Writing(local'[h]) /\ local'[h].id = b
        OBVIOUS
      <4>1. h = p
        BY DEF AtRest, Writing
      <4> QED  BY <1>1, <4>1
    <3>3. QuietStored(b)
      BY DEF QuietInv
    <3> QED  BY <2>2, <3>1, <3>2, <3>3, StoredStays
  <2> QED  BY <2>1, <2>2
<1> QED  BY <1>2, MoveQuiet

LEMMA NothingQuiet ==
    ASSUME IInv, QuietInv, UNCHANGED <<stored, pendingKey, sent, local>>
    PROVE  QuietInv'
<1>1. \A b \in Batch : StartsNone(b)
  BY SentStays
<1>2. \A b, t : Due(t, b)' => Due(t, b)
  BY DEF Due, Current, Holding
<1>3. ASSUME NEW b \in Batch, NEW c, Newest(b, c) PROVE Newest(b, c)'
  BY <1>1, <1>2, <1>3, NewestStays
<1>4. ASSUME NEW b \in Batch PROVE QuietStored(b)'
  <2>1. QuietStored(b)
    BY DEF QuietInv
  <2> QED  BY <1>1, <1>2, <2>1, StoredStays
<1>5. ASSUME NEW p \in Proc PROVE QuietProc(p, local[p])'
  <2>1. PICK l : l = local[p] /\ l = local'[p]
    OBVIOUS
  <2>2. QuietProc(p, l) /\ (Writing(l) => l.id \in Batch)
    BY <2>1 DEF QuietInv, IInv, LocalTruthful, Writing
  <2>3. QuietProc(p, l)'
    <3>1. l.id \in Batch /\ Newest(l.id, l.batch) => Newest(l.id, l.batch)'
      BY <1>3
    <3> QED  BY <2>2, <3>1 DEF QuietProc, QuietRequest, RequestOnce, QuietHandler, QuietSweep,
                               Writing, AtRest, GroupStarted, GroupSucceeded
  <2> QED  BY <2>1, <2>3
<1> QED  BY <1>4, <1>5 DEF QuietInv, AtRest

----------------------------------------------------------------------------
(* Requests. *)

\* A process under way, its record and its batch.
LEMMA UnderWay ==
    ASSUME IInv, QuietInv, NEW p \in Proc
    PROVE  /\ TypeOK /\ local[p] \in Local /\ LocalTruthful(local[p], chain, sent)
           /\ QuietProc(p, local[p])
           /\ p \in Handler => HandlerTruthful(local[p], chain)
           /\ ~AtRest(local[p]) => \A q \in Proc \ {p} : AtRest(local[q])
BY Alone DEF IInv, TypeOK, QuietInv

LEMMA StartTransactionBatchQuiet ==
    ASSUME IInv, QuietInv, NEW r \in Request, Post(r)
    PROVE  QuietInv'
<1>1. /\ \A q \in Proc : AtRest(local[q])
      /\ UNCHANGED <<stored, pendingKey, sent>> /\ TypeOK /\ r \notin Handler /\ r \notin Sweep
  BY ProcAssumption DEF Post, Resting, AtRest, StartTransactionBatch, IInv
<1>2. ASSUME NEW n, n \in Local, Becomes(r, n), QuietRequest(n)' PROVE QuietInv'
  <2>1. QuietProc(r, n)'
    BY <1>1, <1>2 DEF QuietProc
  <2> QED  BY <1>1, <1>2, <2>1, SentStays, LocalStep DEF KeepsEntries
<1> DEFINE b == RequestBatch[r]
<1>3. ASSUME NEW pc \in {"done", "failed"}, Becomes(r, [Idle EXCEPT !.pc = pc]) PROVE QuietInv'
  <2>1. PICK n : n = [Idle EXCEPT !.pc = pc]
    OBVIOUS
  <2>2. n \in Local /\ n.pc = pc
    BY <2>1, IdleLocal DEF Local, PC, Idle
  <2>3. QuietRequest(n)'
    BY <2>2 DEF QuietRequest, RequestOnce, Writing
  <2> QED  BY <1>2, <1>3, <2>1, <2>2, <2>3
<1>4. CASE stored[b] = None /\ Becomes(r, StartGroup(Idle, b, NewBatch, 1))
  <2>1. PICK n : n = StartGroup(Idle, b, NewBatch, 1)
    OBVIOUS
  <2>2. b \in Batch /\ NewBatch \in TransactionBatch
    BY ProcAssumption, NewBatchTruthful
  <2>3. n \in Local /\ n.pc = "send" /\ n.group = 1 /\ n.batch = NewBatch /\ n.id = b
    BY <2>1, <2>2, IdleLocal DEF Local, PC, Idle, StartGroup
  <2>4. QuietRequest(n)'
    <3>1. stored'[n.id] = None
      BY <1>1, <1>4, <2>3
    <3>2. /\ n.batch.status = "pending"
          /\ \A t \in BatchItems(n.id) : n.batch.item[t] = "pending"
      BY <2>2, <2>3, BatchItemsType DEF NewBatch
    <3> QED  BY <2>3, <3>1, <3>2 DEF QuietRequest, RequestOnce, Writing
  <2> QED  BY <1>2, <1>4, <2>1, <2>3, <2>4
<1> QED  BY <1>3, <1>4 DEF Post, StartTransactionBatch

\* What one send does to the local state l of p: item t of the group is given a hash,
\* or is made invalid.
SentItem(l, n, t) ==
    /\ n.pc = "send" /\ n.id = l.id /\ n.group = l.group /\ n.tx = l.tx /\ n.work = l.work
    /\ t \in GroupItems(l.id, l.group) /\ sent' \in {sent, sent \cup {<<l.id, t>>}}
    /\ n.batch \in TransactionBatch /\ n.batch.status = l.batch.status
    /\ \/ /\ n.batch.item = l.batch.item
          /\ \A h \in n.hashes :
                h \in l.hashes \/ h = NoHash \/ (h = t /\ l.batch.item[t] = "pending")
       \/ /\ \A u \in Tx : n.batch.item[u] = IF u = t THEN "invalid" ELSE l.batch.item[u]
          /\ n.hashes = l.hashes

LEMMA ExecuteTransactionShape ==
    ASSUME IInv, NEW p \in Proc, ExecuteTransaction(p)
    PROVE  /\ UNCHANGED <<stored, pendingKey>>
           /\ \E n \in Local : \E t \in Tx : Becomes(p, n) /\ SentItem(local[p], n, t)
<1>l. PICK l : l = local[p]
  OBVIOUS
<1>0. /\ l \in Local /\ l.pc = "send" /\ l.id \in Batch /\ l.batch \in TransactionBatch
      /\ l.group \in DOMAIN Groups[l.id] /\ l.next \in DOMAIN Groups[l.id][l.group]
  BY <1>l, Moving DEF ExecuteTransaction, ProcessInv, LocalTruthful, Local
<1>b. PICK b \in Batch : b = l.id
  BY <1>0
<1>k. PICK k \in DOMAIN Groups[b] : k = l.group
  BY <1>0, <1>b
<1>i. PICK i \in DOMAIN Groups[b][k] : i = l.next
  BY <1>0, <1>b, <1>k
<1>t. PICK t : t = Groups[b][k][i]
  OBVIOUS
<1> DEFINE Executed(hash) ==
               [l EXCEPT !.next = @ + 1,
                         !.batch.hash[t] = hash,
                         !.hashes = IF l.batch.item[t] = "pending" THEN @ \cup {hash} ELSE @]
           refused == [l EXCEPT !.next = Len(Groups[b][k]) + 1, !.batch.item[t] = "invalid"]
<1>1. /\ l \in Local /\ l.pc = "send" /\ l.batch \in TransactionBatch
      /\ l.id = b /\ l.group = k /\ l.next = i
  BY <1>0, <1>b, <1>k, <1>i
<1>2. /\ t \in Tx /\ t \in GroupItems(b, k) /\ i + 1 \in Nat /\ Len(Groups[b][k]) + 1 \in Nat
  <2>1. Groups[b][k] \in Seq(Tx)
    BY GroupItemsType
  <2> QED  BY <1>t, <2>1 DEF GroupItems
<1>3. UNCHANGED <<stored, pendingKey>> /\ sent' \in {sent, sent \cup {<<b, t>>}}
  BY <1>l, <1>1, <1>t DEF ExecuteTransaction
<1>4. ASSUME NEW hash \in {t, NoHash}, NEW n, n = Executed(hash)
      PROVE  n \in Local /\ SentItem(l, n, t)
  <2> DEFINE c == [l.batch EXCEPT !.hash[t] = hash]
             hs == IF l.batch.item[t] = "pending" THEN l.hashes \cup {hash} ELSE l.hashes
  <2>1. n = [l EXCEPT !.next = i + 1, !.batch = c, !.hashes = hs]
    BY <1>1, <1>4 DEF Local
  <2>2. c \in TransactionBatch /\ c.status = l.batch.status /\ c.item = l.batch.item
    BY <1>1, <1>2, <1>4 DEF TransactionBatch
  <2>3. /\ n.pc = "send" /\ n.id = b /\ n.group = k /\ n.tx = l.tx /\ n.work = l.work
        /\ n.batch = c /\ n.hashes = hs
    BY <1>1, <2>1 DEF Local
  <2>4. n \in Local
    <3>1. hs \in SUBSET Hash
      BY <1>1, <1>2, <1>4 DEF Local
    <3> HIDE DEF c, hs
    <3> QED  BY <1>1, <1>2, <2>1, <2>2, <3>1 DEF Local
  <2>5. \A h \in hs : h \in l.hashes \/ h = NoHash \/ (h = t /\ l.batch.item[t] = "pending")
    BY <1>4
  <2> HIDE DEF c, hs, Executed
  <2> QED  BY <1>1, <1>2, <1>3, <2>2, <2>3, <2>4, <2>5 DEF SentItem
<1>5. ASSUME NEW n, n = refused PROVE n \in Local /\ SentItem(l, n, t)
  <2> DEFINE c == [l.batch EXCEPT !.item[t] = "invalid"]
  <2>1. n = [l EXCEPT !.next = Len(Groups[b][k]) + 1, !.batch = c]
    BY <1>1, <1>5 DEF Local
  <2>2. /\ c \in TransactionBatch /\ c.status = l.batch.status
        /\ \A v \in Tx : c.item[v] = IF v = t THEN "invalid" ELSE l.batch.item[v]
    BY <1>1, <1>2 DEF TransactionBatch, ItemStatus, Outcome
  <2>3. n \in Local
    <3> HIDE DEF c
    <3> QED  BY <1>1, <1>2, <2>1, <2>2 DEF Local
  <2>4. /\ n.pc = "send" /\ n.id = b /\ n.group = k /\ n.tx = l.tx /\ n.work = l.work
        /\ n.batch = c /\ n.hashes = l.hashes
    BY <1>1, <2>1 DEF Local
  <2> HIDE DEF c, refused
  <2> QED  BY <1>1, <1>2, <1>3, <2>2, <2>3, <2>4 DEF SentItem
<1>6. PICK n : Becomes(p, n) /\ (n = refused \/ \E hash \in {t, NoHash} : n = Executed(hash))
  BY <1>l, <1>1, <1>t DEF ExecuteTransaction
<1> HIDE DEF Executed, refused
<1>7. n \in Local /\ SentItem(l, n, t)
  BY <1>4, <1>5, <1>6
<1> QED  BY <1>l, <1>2, <1>3, <1>6, <1>7

\* A group is started by its first send only.
LEMMA OwnGroup ==
    ASSUME NEW b \in Batch, NEW k \in DOMAIN Groups[b], NEW t \in GroupItems(b, k),
           sent' \in {sent, sent \cup {<<b, t>>}}
    PROVE  \A e \in Batch : \A j \in DOMAIN Groups[e] :
              GroupStarted(e, j)' /\ (e # b \/ j # k) => GroupStarted(e, j)
<1> SUFFICES ASSUME NEW e \in Batch, NEW j \in DOMAIN Groups[e], NEW u \in GroupItems(e, j),
                    <<e, u>> \in sent', e # b \/ j # k
             PROVE  <<e, u>> \in sent
  BY DEF GroupStarted
<1>1. CASE e = b /\ u = t
  <2>1. PICK i \in DOMAIN Groups[b][k] : t = Groups[b][k][i]
    BY DEF GroupItems
  <2>2. PICK m \in DOMAIN Groups[b][j] : u = Groups[b][j][m]
    BY <1>1 DEF GroupItems
  <2> QED  BY <1>1, <2>1, <2>2, GroupsAssumption
<1> QED  BY <1>1

LEMMA RequestSends ==
    ASSUME IInv, QuietInv, NEW r \in Request, ExecuteTransaction(r)
    PROVE  QuietInv'
<1>1. PICK l : l = local[r]
  OBVIOUS
<1>2. PICK n \in Local, t \in Tx : Becomes(r, n) /\ SentItem(l, n, t)
  BY <1>1, ExecuteTransactionShape
<1>3. /\ UNCHANGED <<stored, pendingKey>> /\ l.pc = "send" /\ TypeOK
      /\ l.id \in Batch /\ l.group = 1 /\ l.group \in DOMAIN Groups[l.id]
      /\ RequestOnce(l) /\ stored[l.id] = None
      /\ r \in Proc /\ r \notin Handler /\ r \notin Sweep
      /\ \A q \in Proc \ {r} : AtRest(local[q])
  BY <1>1, UnderWay, ExecuteTransactionShape, ProcAssumption
     DEF ExecuteTransaction, LocalTruthful, QuietProc, QuietRequest, RequestOnce, Writing, AtRest
<1>4. QuietProc(r, n)'
  <2>1. \A u \in BatchItems(n.id) :
            \/ n.batch.item[u] = "pending"
            \/ n.batch.item[u] = "invalid" /\ u \in GroupItems(n.id, 1)
    BY <1>2, <1>3, BatchItemsType DEF SentItem, RequestOnce
  <2> QED  BY <1>2, <1>3, <2>1 DEF SentItem, RequestOnce, QuietProc, QuietRequest, Writing
<1>5. \A e \in Batch : \A j \in DOMAIN Groups[e] :
          GroupStarted(e, j)' /\ (e # l.id \/ j # l.group) => GroupStarted(e, j)
  <2>1. /\ l.id \in Batch /\ l.group \in DOMAIN Groups[l.id] /\ t \in GroupItems(l.id, l.group)
        /\ sent' \in {sent, sent \cup {<<l.id, t>>}}
    BY <1>2, <1>3 DEF SentItem
  <2> QED  BY <2>1, OwnGroup
<1>6. ASSUME NEW b \in Batch PROVE StartsNone(b)
  <2>1. \A k \in DOMAIN Groups[b] : k > 1 => k # l.group
    BY <1>3, GroupItemsType
  <2> QED  BY <1>5, <2>1 DEF StartsNone
<1> QED  BY <1>2, <1>3, <1>4, <1>6, LocalStep DEF KeepsEntries

LEMMA HandlerSends ==
    ASSUME IInv, QuietInv, NEW h \in Handler, ExecuteTransaction(h)
    PROVE  QuietInv'
<1>1. PICK l : l = local[h]
  OBVIOUS
<1>2. PICK n \in Local, t \in Tx : Becomes(h, n) /\ SentItem(l, n, t)
  BY <1>1, ExecuteTransactionShape
<1>3. /\ UNCHANGED <<stored, pendingKey>> /\ l.pc = "send" /\ TypeOK
      /\ l.id \in Batch /\ l.group \in DOMAIN Groups[l.id] /\ l.batch.status = "pending"
      /\ QuietHandler(l) /\ Newest(l.id, l.batch) /\ l \in Local /\ l.batch # None
      /\ h \in Proc /\ h \notin Request /\ h \notin Sweep
      /\ \A q \in Proc \ {h} : AtRest(local[q])
  BY <1>1, UnderWay, ExecuteTransactionShape, ProcAssumption
     DEF ExecuteTransaction, LocalTruthful, QuietProc, QuietHandler, Writing, AtRest
<1>4. \A b \in Batch : \A u : Due(u, b)' => Due(u, b)
  BY <1>1, <1>2, <1>3, DueStays DEF SentItem, Holding, KeepsEntries
<1>5. \A e \in Batch : \A j \in DOMAIN Groups[e] :
          GroupStarted(e, j)' /\ (e # l.id \/ j # l.group) => GroupStarted(e, j)
  BY <1>2, <1>3, OwnGroup DEF SentItem
<1>6. \A u \in Tx :
          \/ n.batch.item[u] = l.batch.item[u]
          \/ u = t /\ n.batch.item[u] = "invalid"
  BY <1>2 DEF SentItem
<1>7. ASSUME NEW k \in DOMAIN Groups[l.id], k < l.group
      PROVE  GroupSucceeded(l.id, k, n.batch)
  <2> SUFFICES ASSUME NEW u \in GroupItems(l.id, k)
               PROVE  n.batch.item[u] = "success"
    BY DEF GroupSucceeded
  <2>1. l.batch.item[u] = "success" /\ u \in Tx
    BY <1>3, <1>7, GroupItemsType DEF QuietHandler, GroupSucceeded
  <2>2. u # t
    <3>1. PICK i \in DOMAIN Groups[l.id][k] : u = Groups[l.id][k][i]
      BY DEF GroupItems
    <3>2. PICK m \in DOMAIN Groups[l.id][l.group] : t = Groups[l.id][l.group][m]
      BY <1>2 DEF SentItem, GroupItems
    <3>3. k # l.group
      BY <1>3, <1>7, GroupItemsType
    <3> QED  BY <1>3, <3>1, <3>2, <3>3, GroupsAssumption
  <2> QED  BY <1>6, <2>1, <2>2
<1>8. Newest(l.id, n.batch)'
  <2>1. ASSUME NEW k \in DOMAIN Groups[l.id], NEW j \in DOMAIN Groups[l.id], j < k,
               GroupStarted(l.id, k)'
        PROVE  GroupSucceeded(l.id, j, n.batch)
    <3>1. k \in Nat /\ j \in Nat /\ l.group \in Nat
      BY <1>3, GroupItemsType
    <3>2. ~(k > l.group)
      BY <1>3, <1>5, <2>1, <3>1 DEF QuietHandler
    <3> QED  BY <1>7, <2>1, <3>1, <3>2
  <2>2. \A u \in BatchItems(l.id) : n.batch.item[u] = "success" => ~Due(u, l.id)'
    BY <1>3, <1>4, <1>6, BatchItemsType DEF Newest
  <2>3. n.batch.status = "pending"
    BY <1>2, <1>3 DEF SentItem
  <2> QED  BY <2>1, <2>2, <2>3 DEF Newest, GroupSucceeded
<1>9. QuietHandler(n)'
  <2>1. /\ n.pc = "send" /\ n.id = l.id /\ n.group = l.group /\ n.batch.status = "pending"
        /\ stored'[n.id] # None /\ stored'[n.id].status = "pending"
    BY <1>2, <1>3 DEF SentItem, QuietHandler, Writing
  <2>2. \A x \in n.hashes \cap BatchItems(n.id) : n.batch.item[x] # "success"
    <3> SUFFICES ASSUME NEW x \in n.hashes, x \in BatchItems(l.id), n.batch.item[x] = "success"
                 PROVE  FALSE
      BY <2>1
    <3>1. x \in Tx /\ x # NoHash
      BY <1>3, BatchItemsType, NullAssumption
    <3>2. x \in l.hashes => l.batch.item[x] # "success"
      BY <1>3 DEF QuietHandler
    <3> QED  BY <1>2, <1>6, <3>1, <3>2 DEF SentItem
  <2>3. \A k \in DOMAIN Groups[n.id] : k > n.group => ~GroupStarted(n.id, k)'
    <3> SUFFICES ASSUME NEW k \in DOMAIN Groups[l.id], k > l.group
                 PROVE  ~GroupStarted(l.id, k)'
      BY <2>1
    <3>1. k # l.group
      BY <1>3, GroupItemsType
    <3> QED  BY <1>3, <1>5, <3>1 DEF QuietHandler
  <2> QED  BY <1>7, <1>8, <2>1, <2>2, <2>3 DEF QuietHandler, AtRest, Writing, GroupSucceeded
<1>10. \A b \in Batch : StartsNone(b) \/ (Writing(n) /\ n.id = b)
  BY <1>2, <1>5 DEF StartsNone, SentItem, Writing
<1> QED  BY <1>1, <1>2, <1>3, <1>9, <1>10, LocalStep
         DEF QuietProc, SentItem, Writing, Holding, KeepsEntries

LEMMA GroupSentQuiet ==
    ASSUME IInv, QuietInv, NEW p \in Request \cup Handler, GroupSent(p)
    PROVE  QuietInv'
<1>1. PICK l : l = local[p]
  OBVIOUS
<1>2. PICK n : n = [l EXCEPT !.pc = "register"]
  OBVIOUS
<1>3. /\ UNCHANGED <<stored, pendingKey, sent>> /\ Becomes(p, n) /\ l.pc = "send"
      /\ p \in Proc /\ p \notin Sweep /\ l \in Local /\ TypeOK /\ l.id \in Batch
      /\ QuietProc(p, l) /\ \A q \in Proc \ {p} : AtRest(local[q])
  BY <1>1, <1>2, UnderWay, ProcAssumption DEF GroupSent, LocalTruthful, AtRest
<1>4. /\ n \in Local /\ n.pc = "register" /\ n.id = l.id /\ n.batch = l.batch /\ n.tx = l.tx
      /\ n.group = l.group /\ n.work = l.work /\ n.hashes = l.hashes
  BY <1>2, <1>3 DEF Local, PC
<1>5. KeepsEntries(p, n)
  BY <1>1, <1>3, <1>4 DEF KeepsEntries, Holding
<1>6. Newest(l.id, l.batch) => Newest(l.id, l.batch)'
  BY <1>3, <1>5, NewestKept
<1>7. p \in Request => QuietRequest(n)'
  BY <1>3, <1>4 DEF QuietProc, QuietRequest, RequestOnce, Writing
<1>8. p \in Handler => QuietHandler(n)'
  BY <1>3, <1>4, <1>6 DEF QuietProc, QuietHandler, Writing, AtRest
<1>9. QuietProc(p, n)'
  BY <1>3, <1>7, <1>8 DEF QuietProc
<1> QED  BY <1>1, <1>3, <1>4, <1>5, <1>9, SentStays, LocalStep DEF Writing

LEMMA FirstGroupStartedQuiet ==
    ASSUME IInv, QuietInv, NEW r \in Request, FirstGroupStarted(r)
    PROVE  QuietInv'
<1>1. PICK l : l = local[r]
  OBVIOUS
<1>2. /\ UNCHANGED <<stored, pendingKey, sent>> /\ l.pc = "register" /\ l \in Local /\ TypeOK
      /\ l.id \in Batch /\ l.batch \in TransactionBatch /\ QuietRequest(l)
      /\ r \in Proc /\ r \notin Handler /\ r \notin Sweep
      /\ \A q \in Proc \ {r} : AtRest(local[q])
  BY <1>1, UnderWay, ProcAssumption
     DEF FirstGroupStarted, LocalTruthful, AtRest, QuietProc, Local
<1>3. ASSUME NEW n, n \in Local, Becomes(r, n), QuietRequest(n)' PROVE QuietInv'
  <2>1. QuietProc(r, n)' /\ KeepsEntries(r, n)
    BY <1>2, <1>3 DEF QuietProc, KeepsEntries
  <2> QED  BY <1>2, <1>3, <2>1, SentStays, LocalStep
<1>4. CASE Becomes(r, [l EXCEPT !.pc = "done", !.batch.status = "invalid"])
  <2>1. PICK n : n = [l EXCEPT !.pc = "done", !.batch.status = "invalid"]
    OBVIOUS
  <2>2. n \in Local /\ n.pc = "done"
    <3> DEFINE c == [l.batch EXCEPT !.status = "invalid"]
    <3>1. n = [l EXCEPT !.pc = "done", !.batch = c]
      BY <1>2, <2>1 DEF Local
    <3>2. c \in TransactionBatch
      BY <1>2 DEF TransactionBatch, BatchStatus
    <3> HIDE DEF c
    <3> QED  BY <1>2, <3>1, <3>2 DEF Local, PC
  <2> QED  BY <1>3, <1>4, <2>1, <2>2 DEF QuietRequest, RequestOnce, Writing
<1>5. CASE ~GroupHasInvalid(l) /\ Becomes(r, [l EXCEPT !.pc = "save"])
  <2>1. PICK n : n = [l EXCEPT !.pc = "save"]
    OBVIOUS
  <2>2. n \in Local /\ n.pc = "save" /\ n.id = l.id /\ n.batch = l.batch
    BY <1>2, <2>1 DEF Local, PC
  <2>3. \A t \in BatchItems(l.id) : l.batch.item[t] = "pending"
    BY <1>2, <1>5 DEF QuietRequest, RequestOnce, GroupHasInvalid
  <2>4. QuietRequest(n)'
    BY <1>2, <2>2, <2>3 DEF QuietRequest, RequestOnce, Writing
  <2> QED  BY <1>3, <1>5, <2>1, <2>2, <2>4
<1> QED  BY <1>1, <1>4, <1>5 DEF FirstGroupStarted

LEMMA SetPendingTransactionQuiet ==
    ASSUME IInv, QuietInv, NEW p \in Request \cup Handler, SetPendingTransaction(p)
    PROVE  QuietInv'
<1>1. PICK l : l = local[p]
  OBVIOUS
<1>2. PICK x \in l.hashes : /\ pendingKey' = [pendingKey EXCEPT ![x] = l.id]
                            /\ Becomes(p, [l EXCEPT !.hashes = @ \ {x}])
  BY <1>1 DEF SetPendingTransaction
<1>3. PICK n : n = [l EXCEPT !.hashes = @ \ {x}]
  OBVIOUS
<1>4. /\ UNCHANGED <<stored, sent>> /\ Becomes(p, n) /\ l.pc = "register"
      /\ p \in Proc /\ p \notin Sweep /\ l \in Local /\ TypeOK /\ l.id \in Batch
      /\ QuietProc(p, l) /\ \A q \in Proc \ {p} : AtRest(local[q])
  BY <1>1, <1>2, <1>3, UnderWay, ProcAssumption
     DEF SetPendingTransaction, LocalTruthful, AtRest
<1>5. /\ n \in Local /\ n.pc = "register" /\ n.id = l.id /\ n.batch = l.batch /\ n.tx = l.tx
      /\ n.group = l.group /\ n.work = l.work /\ n.hashes = l.hashes \ {x}
  BY <1>3, <1>4 DEF Local
<1>6. KeepsEntries(p, n)
  BY <1>1, <1>4, <1>5 DEF KeepsEntries, Holding
<1>7. ASSUME NEW b \in Batch, NEW t, Due(t, b)' PROVE Due(t, b) \/ (t = x /\ b = l.id)
  <2>1. CASE t = x /\ b = l.id
    BY <2>1
  <2>2. CASE ~(t = x /\ b = l.id)
    <3>1. pendingKey'[t] = b => pendingKey[t] = b
      BY <1>2, <1>4, <2>2 DEF TypeOK
    <3> QED  BY <1>4, <1>6, <1>7, <3>1, DueStays
  <2> QED  BY <2>1, <2>2
<1>8. p \in Request => QuietRequest(n)' /\ stored[l.id] = None
  BY <1>4, <1>5 DEF QuietProc, QuietRequest, RequestOnce, Writing
<1>9. ASSUME p \in Handler PROVE QuietHandler(n)'
  <2>1. QuietHandler(l)
    BY <1>4, <1>9 DEF QuietProc
  <2>2. x \in BatchItems(l.id) => l.batch.item[x] # "success"
    BY <1>4, <2>1 DEF QuietHandler
  <2>3. Newest(l.id, l.batch)
    BY <1>4, <2>1 DEF QuietHandler, Writing
  <2>4. Newest(l.id, l.batch)'
    BY <1>4, <1>7, <2>2, <2>3, SentStays, NewestStays
  <2> QED  BY <1>4, <1>5, <2>1, <2>4 DEF QuietHandler, Writing, AtRest
<1>10. QuietProc(p, n)'
  BY <1>4, <1>8, <1>9 DEF QuietProc
<1>11. local'[p] = n /\ \A q \in Proc \ {p} : local'[q] = local[q]
  BY <1>4 DEF TypeOK, Becomes
<1>12. ASSUME NEW b \in Batch PROVE QuietStored(b)'
  <2>1. CASE b = l.id /\ p \in Handler
    BY <1>5, <1>9, <1>11, <2>1 DEF QuietHandler, QuietStored, Writing
  <2>2. CASE b = l.id /\ p \in Request
    BY <1>4, <1>8, <2>2 DEF QuietInv, QuietStored, GroupStarted
  <2>3. CASE b # l.id
    <3>1. \A h \in Handler : ~(Writing(local[h]) /\ local[h].id = b)
      BY <1>1, <1>4, <2>3 DEF AtRest, Writing
    <3>2. \A t \in BatchItems(b) : Due(t, b)' => Due(t, b)
      BY <1>7, <2>3
    <3>3. QuietStored(b)
      BY DEF QuietInv
    <3> QED  BY <1>4, <3>1, <3>2, <3>3, SentStays, StoredStays
  <2> QED  BY <2>1, <2>2, <2>3
<1> QED  BY <1>4, <1>5, <1>10, <1>12, MoveQuiet

LEMMA SaveNewBatchQuiet ==
    ASSUME IInv, QuietInv, NEW r \in Request, SaveNewBatch(r)
    PROVE  QuietInv'
<1>1. PICK l : l = local[r]
  OBVIOUS
<1>2. PICK n : n = [l EXCEPT !.pc = "done"]
  OBVIOUS
<1>3. /\ UNCHANGED <<pendingKey, sent>> /\ stored' = [stored EXCEPT ![l.id] = l.batch]
      /\ Becomes(r, n) /\ l.pc = "save" /\ l \in Local /\ TypeOK
      /\ l.id \in Batch /\ l.batch \in TransactionBatch /\ QuietRequest(l)
      /\ r \in Proc /\ r \notin Handler /\ r \notin Sweep
      /\ \A q \in Proc \ {r} : AtRest(local[q])
  BY <1>1, <1>2, UnderWay, ProcAssumption
     DEF SaveNewBatch, LocalTruthful, AtRest, QuietProc, Local
<1>4. n \in Local /\ n.pc = "done"
  BY <1>2, <1>3 DEF Local, PC
<1>5. QuietProc(r, n)' /\ KeepsEntries(r, n)
  BY <1>3, <1>4 DEF QuietProc, QuietRequest, RequestOnce, Writing, KeepsEntries
<1>6. ASSUME NEW b \in Batch PROVE QuietStored(b)'
  <2>1. \A t : Due(t, b)' => Due(t, b)
    BY <1>3, <1>5, DueStays
  <2>2. \A h \in Handler : ~Writing(local[h])
    BY <1>3 DEF AtRest, Writing
  <2>3. QuietStored(b)
    BY DEF QuietInv
  <2>4. CASE b = l.id
    <3>1. stored'[b] = l.batch
      BY <1>3, <2>4 DEF TypeOK
    <3>2. Newest(b, l.batch)
      <4>1. stored[b] = None /\ l.batch.status = "pending"
        BY <1>3, <2>4 DEF QuietRequest, RequestOnce, Writing
      <4>2. \A t \in BatchItems(b) : l.batch.item[t] # "success"
        BY <1>3, <2>4 DEF QuietRequest, RequestOnce
      <4>3. \A k, j \in DOMAIN Groups[b] : j < k => ~GroupStarted(b, k)
        <5> SUFFICES ASSUME NEW k \in DOMAIN Groups[b], NEW j \in DOMAIN Groups[b], j < k
                     PROVE  ~GroupStarted(b, k)
          OBVIOUS
        <5>1. k > 1
          BY GroupItemsType
        <5> QED  BY <2>3, <4>1, <5>1 DEF QuietStored
      <4> QED  BY <4>1, <4>2, <4>3 DEF Newest
    <3>3. Newest(b, l.batch)'
      BY <1>3, <1>5, <3>2, NewestKept
    <3>4. Newest(b, stored[b])'
      BY <3>1, <3>3 DEF Newest, GroupSucceeded
    <3>5. stored'[b] # None
      BY <1>3, <3>1, NullAssumption
    <3> QED  BY <3>4, <3>5 DEF QuietStored
  <2>5. CASE b # l.id
    <3>1. stored'[b] = stored[b]
      BY <1>3, <2>5 DEF TypeOK
    <3> QED  BY <1>3, <2>1, <2>2, <2>3, <3>1, SentStays, StoredStays
  <2> QED  BY <2>4, <2>5
<1> QED  BY <1>3, <1>4, <1>5, <1>6, MoveQuiet

----------------------------------------------------------------------------
(* The processor and the cron. *)

LEMMA NextGroupStartedQuiet ==
    ASSUME IInv, QuietInv, NEW h \in Handler, NextGroupStarted(h)
    PROVE  QuietInv'
<1>1. PICK l : l = local[h]
  OBVIOUS
<1>2. /\ UNCHANGED <<stored, pendingKey, sent>> /\ l.pc = "register" /\ l \in Local /\ TypeOK
      /\ l.id \in Batch /\ l.batch \in TransactionBatch /\ QuietHandler(l)
      /\ h \in Proc /\ h \notin Request /\ h \notin Sweep
      /\ \A q \in Proc \ {h} : AtRest(local[q])
  BY <1>1, UnderWay, ProcAssumption
     DEF NextGroupStarted, LocalTruthful, AtRest, QuietProc, Local
<1>3. PICK n : /\ Becomes(h, n)
               /\ \/ n = [l EXCEPT !.pc = "save", !.batch.status = "invalid"]
                  \/ n = [l EXCEPT !.pc = "save"]
  BY <1>1 DEF NextGroupStarted
<1>4. /\ n.pc = "save" /\ n.id = l.id /\ n.tx = l.tx /\ n.work = l.work /\ n \in Local
      /\ n.batch.item = l.batch.item /\ n.batch.status \in {"invalid", l.batch.status}
  <2> DEFINE c == [l.batch EXCEPT !.status = "invalid"]
  <2>1. c \in TransactionBatch /\ c.item = l.batch.item /\ c.status = "invalid"
    BY <1>2 DEF TransactionBatch, BatchStatus
  <2>2. n = [l EXCEPT !.pc = "save", !.batch = c] \/ n = [l EXCEPT !.pc = "save"]
    BY <1>2, <1>3 DEF Local
  <2> HIDE DEF c
  <2> QED  BY <1>2, <2>1, <2>2 DEF Local, PC
<1>5. KeepsEntries(h, n)
  BY <1>1, <1>4 DEF KeepsEntries, Holding
<1>6. Newest(l.id, n.batch)'
  <2>1. Newest(l.id, n.batch)
    BY <1>2, <1>4 DEF QuietHandler, Writing, Newest, GroupSucceeded
  <2> QED  BY <1>2, <1>3, <1>5, <2>1, NewestKept
<1>7. QuietProc(h, n)'
  BY <1>2, <1>4, <1>6 DEF QuietProc, QuietHandler, Writing, AtRest
<1> QED  BY <1>1, <1>2, <1>3, <1>4, <1>5, <1>7, SentStays, LocalStep DEF Writing

LEMMA SaveBatchQuiet ==
    ASSUME IInv, QuietInv, NEW p \in Handler \cup Sweep, SaveBatch(p)
    PROVE  QuietInv'
<1>1. PICK l : l = local[p]
  OBVIOUS
<1>2. PICK n : n = [l EXCEPT !.pc = "delete"]
  OBVIOUS
<1>3. /\ UNCHANGED <<pendingKey, sent>> /\ stored' = [stored EXCEPT ![l.id] = l.batch]
      /\ Becomes(p, n) /\ l.pc = "save" /\ l \in Local /\ TypeOK
      /\ l.id \in Batch /\ l.batch \in TransactionBatch /\ QuietProc(p, l)
      /\ p \in Proc /\ p \notin Request
      /\ \A q \in Proc \ {p} : AtRest(local[q])
  BY <1>1, <1>2, UnderWay, ProcAssumption DEF SaveBatch, LocalTruthful, AtRest, Local
<1>4. /\ n \in Local /\ n.pc = "delete" /\ n.id = l.id /\ n.tx = l.tx /\ n.work = l.work
  BY <1>2, <1>3 DEF Local, PC
<1>5. QuietProc(p, n)' /\ KeepsEntries(p, n)
  BY <1>1, <1>3, <1>4
     DEF QuietProc, QuietHandler, QuietSweep, Writing, AtRest, KeepsEntries, Holding
<1>6. ASSUME NEW b \in Batch PROVE QuietStored(b)'
  <2>1. CASE b = l.id
    <3>1. stored'[b] = l.batch
      BY <1>3, <2>1 DEF TypeOK
    <3>2. Newest(b, l.batch)
      BY <1>3, <2>1 DEF QuietProc, QuietHandler, QuietSweep, Writing
    <3>3. Newest(b, l.batch)'
      BY <1>3, <1>5, <3>2, NewestKept
    <3>4. Newest(b, stored[b])'
      BY <3>1, <3>3 DEF Newest, GroupSucceeded
    <3>5. stored'[b] # None
      BY <1>3, <3>1, NullAssumption
    <3> QED  BY <3>4, <3>5 DEF QuietStored
  <2>2. CASE b # l.id
    <3>1. stored'[b] = stored[b]
      BY <1>3, <2>2 DEF TypeOK
    <3>2. \A t : Due(t, b)' => Due(t, b)
      BY <1>3, <1>5, DueStays
    <3>3. \A h \in Handler : ~(Writing(local[h]) /\ local[h].id = b)
      BY <1>1, <1>3, <2>2 DEF AtRest, Writing
    <3>4. QuietStored(b)
      BY DEF QuietInv
    <3> QED  BY <1>3, <3>1, <3>2, <3>3, <3>4, SentStays, StoredStays
  <2> QED  BY <2>1, <2>2
<1> QED  BY <1>3, <1>4, <1>5, <1>6, MoveQuiet

\* A run between two entries, or at its end, claims nothing.
LEMMA ScanningQuiet ==
    ASSUME NEW W \in SUBSET (Hash \X Batch), NEW T \in SUBSET Batch
    PROVE  /\ Scanning(W, T) \in Local /\ Scanning(W, T).work = W
           /\ Scanning(W, T).pc = "scan" /\ Idle.pc = "idle" /\ Idle.work = {}
BY IdleLocal DEF Scanning, Idle, Local, PC

LEMMA DeletePendingTransactionQuiet ==
    ASSUME IInv, QuietInv, NEW p \in Handler \cup Sweep, DeletePendingTransaction(p)
    PROVE  QuietInv'
<1>1. PICK l : l = local[p]
  OBVIOUS
<1>2. PICK n : n = Scanning(l.work \ {<<l.tx, l.id>>}, ToAnnounce(l))
  OBVIOUS
<1>3. /\ UNCHANGED <<stored, sent>> /\ pendingKey' = [pendingKey EXCEPT ![l.tx] = None]
      /\ Becomes(p, n) /\ l.pc = "delete" /\ l \in Local /\ TypeOK /\ l.id \in Batch
      /\ QuietProc(p, l) /\ p \in Proc /\ p \notin Request
      /\ \A q \in Proc \ {p} : AtRest(local[q])
  BY <1>1, <1>2, UnderWay, ProcAssumption DEF DeletePendingTransaction, LocalTruthful, AtRest
<1>4. n \in Local /\ n.pc = "scan" /\ n.work = l.work \ {<<l.tx, l.id>>}
  <2>1. /\ l.work \ {<<l.tx, l.id>>} \in SUBSET (Hash \X Batch)
        /\ ToAnnounce(l) \in SUBSET Batch
    BY <1>3 DEF Local, ToAnnounce
  <2> QED  BY <1>2, <2>1, ScanningQuiet
<1>5. QuietProc(p, n)'
  BY <1>3, <1>4 DEF QuietProc, QuietHandler, QuietSweep, Writing, AtRest
<1>6. local'[p] = n /\ \A q \in Proc \ {p} : local'[q] = local[q]
  BY <1>3 DEF TypeOK, Becomes
<1>7. ASSUME NEW b \in Batch, NEW t \in Hash, Due(t, b)' PROVE Due(t, b)
  <2>1. pendingKey'[t] = b => pendingKey[t] = b
    BY <1>3, NullAssumption DEF TypeOK
  <2>2. CASE p \in Sweep
    <3>1. KeepsEntries(p, n)
      BY <2>2, ProcAssumption DEF KeepsEntries
    <3> QED  BY <1>3, <1>7, <2>1, <3>1, DueStays
  <2>3. CASE p \in Handler
    <3>1. ASSUME NEW g \in Handler, <<t, b>> \in local'[g].work PROVE <<t, b>> \in local[g].work
      BY <1>1, <1>4, <1>6, <3>1
    <3>2. ~(t = l.tx /\ b = l.id)
      <4> SUFFICES ASSUME t = l.tx, b = l.id PROVE FALSE
        OBVIOUS
      <4>1. pendingKey'[t] # b
        <5>1. pendingKey \in [Hash -> Batch \cup {None}]
          BY <1>3 DEF TypeOK
        <5>2. pendingKey'[l.tx] = None
          BY <1>3, <1>7, <5>1
        <5> QED  BY <5>2, NullAssumption
      <4>2. PICK g \in Handler : <<t, b>> \in local'[g].work
        BY <1>7, <4>1 DEF Due
      <4>3. g # p
        BY <1>4, <1>6, <4>2
      <4>4. AtRest(local[g]) /\ local[g].work = {}
        BY <1>3, <4>3 DEF QuietInv, QuietProc, QuietHandler
      <4> QED  BY <1>6, <4>2, <4>3, <4>4
    <3>3. ~Current(t, b)
      <4> SUFFICES ASSUME NEW g \in Handler, Holding(local[g]), local[g].tx = t, local[g].id = b
                   PROVE  FALSE
        BY DEF Current
      <4>1. g = p
        BY <1>3 DEF AtRest, Holding
      <4> QED  BY <1>1, <3>2, <4>1
    <3> QED  BY <1>7, <2>1, <3>1, <3>3 DEF Due
  <2> QED  BY <2>2, <2>3
<1>8. ASSUME NEW b \in Batch PROVE QuietStored(b)'
  <2>1. \A h \in Handler : ~Writing(local[h])
    BY <1>1, <1>3 DEF AtRest, Writing
  <2>2. QuietStored(b)
    BY DEF QuietInv
  <2>3. \A t \in BatchItems(b) : Due(t, b)' => Due(t, b)
    BY <1>7, BatchItemsType
  <2> QED  BY <1>3, <2>1, <2>2, <2>3, SentStays, StoredStays
<1> QED  BY <1>3, <1>4, <1>5, <1>8, MoveQuiet

\* A step of the processor or the cron that only moves its local state, to one that
\* holds no copy of a batch to write.
LEMMA IndifferentStep ==
    ASSUME IInv, QuietInv, NEW p \in Handler \cup Sweep,
           \A q \in Proc \ {p} : AtRest(local[q]),
           UNCHANGED <<stored, pendingKey, sent>>,
           local[p].pc \in {"idle", "scan"} \/ (p \in Sweep /\ local[p].pc = "load"),
           NEW n \in Local, Becomes(p, n),
           n.pc \in {"idle", "scan", "delete"} \/ (p \in Sweep /\ n.pc = "load"),
           p \in Handler =>
              /\ \A w \in n.work : w \in local[p].work \/ pendingKey[w[1]] = w[2]
              /\ n.pc = "idle" => n.work = {}
    PROVE  QuietInv'
<1>1. /\ p \in Proc /\ p \notin Request /\ TypeOK /\ ~(p \in Handler /\ p \in Sweep)
  BY UnderWay, ProcAssumption
<1>2. KeepsEntries(p, n) /\ (p \in Handler => ~Writing(local[p]))
  BY <1>1 DEF KeepsEntries, Holding, Writing
<1>3. QuietProc(p, n)'
  BY <1>1 DEF QuietProc, QuietHandler, QuietSweep, Writing, AtRest
<1> QED  BY <1>1, <1>2, <1>3, SentStays, LocalStep

LEMMA EmitBatchUpdatedQuiet ==
    ASSUME IInv, QuietInv, NEW p \in Handler \cup Sweep, EmitBatchUpdated(p)
    PROVE  QuietInv'
<1>1. /\ UNCHANGED <<stored, pendingKey, sent>> /\ local[p].pc = "scan" /\ Becomes(p, Idle)
      /\ \A q \in Proc \ {p} : AtRest(local[q])
  BY UnderWay DEF EmitBatchUpdated, AtRest
<1>2. PICK n : n = Idle
  OBVIOUS
<1>3. n \in Local /\ n.pc = "idle" /\ n.work = {}
  BY <1>2, IdleLocal DEF Idle
<1> QED  BY <1>1, <1>2, <1>3, IndifferentStep

LEMMA BlockQuiet ==
    ASSUME IInv, QuietInv, NEW h \in Handler, Block(h)
    PROVE  QuietInv'
<1>1. /\ \A q \in Proc : AtRest(local[q])
      /\ UNCHANGED <<stored, pendingKey, sent>> /\ local[h].pc = "idle"
  BY DEF Block, Resting, AtRest, HandleTransactionBatches
<1>2. PICK T \in SUBSET Tx :
          LET found == {w \in T \X Batch : pendingKey[w[1]] = w[2]} IN
          IF found = {} THEN UNCHANGED local ELSE Becomes(h, Scanning(found, {}))
  BY DEF Block, HandleTransactionBatches
<1>3. CASE UNCHANGED local
  BY <1>1, <1>3, NothingQuiet
<1>4. CASE ~UNCHANGED local
  <2>1. PICK F : F = {w \in T \X Batch : pendingKey[w[1]] = w[2]}
    OBVIOUS
  <2>2. PICK n : n = Scanning(F, {})
    OBVIOUS
  <2>3. F \in SUBSET (Hash \X Batch) /\ \A w \in F : pendingKey[w[1]] = w[2]
    BY <2>1
  <2>4. n \in Local /\ n.pc = "scan" /\ n.work = F
    BY <2>2, <2>3, ScanningQuiet
  <2>5. Becomes(h, n)
    BY <1>2, <1>4, <2>1, <2>2
  <2> QED  BY <1>1, <2>3, <2>4, <2>5, IndifferentStep
<1> QED  BY <1>3, <1>4

LEMMA CronQuiet ==
    ASSUME IInv, QuietInv, NEW s \in Sweep, Cron(s)
    PROVE  QuietInv'
<1>1. /\ \A q \in Proc : AtRest(local[q])
      /\ UNCHANGED <<stored, pendingKey, sent>> /\ local[s].pc = "idle" /\ s \notin Handler
      /\ aged \in SUBSET Hash
  BY ProcAssumption DEF Cron, Resting, AtRest, HandleDroppedTransactions, IInv, TypeOK
<1>2. PICK F : F = {w \in aged \X Batch : pendingKey[w[1]] = w[2]}
  OBVIOUS
<1>3. PICK n : n = Scanning(F, {})
  OBVIOUS
<1>4. n \in Local /\ n.pc = "scan"
  BY <1>1, <1>2, <1>3, ScanningQuiet
<1>5. Becomes(s, n)
  BY <1>2, <1>3 DEF Cron, HandleDroppedTransactions
<1> QED  BY <1>1, <1>4, <1>5, IndifferentStep

LEMMA LookupTransactionQuiet ==
    ASSUME IInv, QuietInv, NEW s \in Sweep, LookupTransaction(s)
    PROVE  QuietInv'
<1>1. PICK l : l = local[s]
  OBVIOUS
<1>2. /\ \A q \in Proc \ {s} : AtRest(local[q])
      /\ l \in Local
      /\ UNCHANGED <<stored, pendingKey, sent>> /\ l.pc = "scan" /\ s \notin Handler
  BY <1>1, UnderWay, ProcAssumption DEF LookupTransaction, AtRest
<1>3. PICK w \in l.work : \E m : /\ m = [l EXCEPT !.tx = w[1], !.id = w[2]]
                                 /\ \/ Becomes(s, AfterEntry(m))
                                    \/ Becomes(s, [m EXCEPT !.pc = "load"])
  BY <1>1 DEF LookupTransaction
<1>m. PICK m : /\ m = [l EXCEPT !.tx = w[1], !.id = w[2]]
               /\ \/ Becomes(s, AfterEntry(m))
                  \/ Becomes(s, [m EXCEPT !.pc = "load"])
  BY <1>3
<1>4. m \in Local
  <2>1. l.work \subseteq Hash \X Batch
    BY <1>2 DEF Local
  <2>2. w[1] \in Hash /\ w[2] \in Batch
    BY <2>1
  <2>3. m = [l EXCEPT !.tx = w[1], !.id = w[2]]
    BY <1>m
  <2> QED  BY <1>2, <2>2, <2>3 DEF Local, PC
<1>5. PICK n : Becomes(s, n) /\ n \in {AfterEntry(m), [m EXCEPT !.pc = "load"]}
  BY <1>m
<1>6. n \in Local /\ n.pc \in {"scan", "load"}
  <2>1. m.work \ {<<m.tx, m.id>>} \in SUBSET (Hash \X Batch) /\ m.touched \in SUBSET Batch
    BY <1>4 DEF Local
  <2>2. AfterEntry(m) \in Local /\ AfterEntry(m).pc = "scan"
    BY <2>1, ScanningQuiet DEF AfterEntry
  <2>3. [m EXCEPT !.pc = "load"] \in Local /\ [m EXCEPT !.pc = "load"].pc = "load"
    BY <1>4 DEF Local, PC
  <2> QED  BY <1>5, <2>2, <2>3
<1> QED  BY <1>1, <1>2, <1>5, <1>6, IndifferentStep

LEMMA DropTransactionQuiet ==
    ASSUME IInv, QuietInv, NEW s \in Sweep, DropTransaction(s)
    PROVE  QuietInv'
<1>1. PICK l : l = local[s]
  OBVIOUS
<1>2. /\ UNCHANGED <<stored, pendingKey, sent>> /\ l.pc = "load" /\ l \in Local /\ TypeOK
      /\ l.id \in Batch /\ s \in Proc /\ s \notin Request /\ s \notin Handler
      /\ \A q \in Proc \ {s} : AtRest(local[q])
  BY <1>1, UnderWay, ProcAssumption DEF DropTransaction, LocalTruthful, AtRest
<1>b. PICK b \in Batch : b = l.id
  BY <1>2
<1>t. PICK t : t = l.tx
  OBVIOUS
<1>3. CASE Becomes(s, AfterEntry(l))
  <2>1. PICK n : n = AfterEntry(l)
    OBVIOUS
  <2>2. l.work \ {<<l.tx, l.id>>} \in SUBSET (Hash \X Batch) /\ l.touched \in SUBSET Batch
    BY <1>2 DEF Local
  <2>3. n \in Local /\ n.pc = "scan"
    BY <2>1, <2>2, ScanningQuiet DEF AfterEntry
  <2> QED  BY <1>1, <1>2, <1>3, <2>1, <2>3, IndifferentStep
<1>4. CASE /\ stored[b] # None /\ t \in BatchItems(b) /\ stored[b].item[t] = "pending"
           /\ Becomes(s, [l EXCEPT !.pc = "save",
                             !.batch = [stored[b] EXCEPT !.item[t] = "dropped",
                                                         !.status = "dropped"]])
  <2>1. PICK o : o = stored[b]
    OBVIOUS
  <2>2. PICK c : c = [o EXCEPT !.item[t] = "dropped", !.status = "dropped"]
    OBVIOUS
  <2>3. PICK n : n = [l EXCEPT !.pc = "save", !.batch = c]
    OBVIOUS
  <2>4. o \in TransactionBatch /\ t \in Tx
    BY <1>2, <1>4, <2>1, BatchItemsType DEF TypeOK
  <2>5. /\ c \in TransactionBatch /\ c.status = "dropped"
        /\ \A u \in Tx : c.item[u] = IF u = t THEN "dropped" ELSE o.item[u]
    BY <2>2, <2>4 DEF TransactionBatch, BatchStatus, ItemStatus
  <2>6. n \in Local /\ n.pc = "save" /\ n.id = b /\ n.batch = c
    BY <1>2, <1>b, <2>3, <2>5 DEF Local, PC
  <2>7. Becomes(s, n)
    BY <1>4, <2>1, <2>2, <2>3
  <2>8. KeepsEntries(s, n)
    BY <1>2 DEF KeepsEntries
  <2>9. Newest(b, o)
    <3>1. \A h \in Handler : ~Writing(local[h])
      BY <1>2 DEF AtRest, Writing
    <3> QED  BY <1>4, <2>1, <3>1 DEF QuietInv, QuietStored
  <2>10. Newest(b, c)
    <3>1. \A j \in DOMAIN Groups[b] : GroupSucceeded(b, j, o) => GroupSucceeded(b, j, c)
      BY <1>4, <2>1, <2>5, GroupItemsType DEF GroupSucceeded
    <3>2. \A u \in BatchItems(b) : c.item[u] = "success" => o.item[u] = "success"
      BY <2>5, BatchItemsType
    <3> QED  BY <2>5, <2>9, <3>1, <3>2 DEF Newest
  <2>11. Newest(b, c)'
    BY <1>2, <2>7, <2>8, <2>10, NewestKept
  <2>12. o.status # "success"
    BY <1>4, <2>1, <2>9 DEF Newest
  <2>13. QuietProc(s, n)'
    BY <1>2, <1>4, <2>1, <2>5, <2>6, <2>11, <2>12 DEF QuietProc, QuietSweep
  <2> QED  BY <1>2, <2>6, <2>7, <2>8, <2>13, SentStays, LocalStep
<1> QED  BY <1>1, <1>b, <1>t, <1>3, <1>4 DEF DropTransaction

\* What a handler goes on with once it has updated item t of group k in its copy of o.
Updated(n, b, k, t, o) ==
    /\ n \in Local /\ n.id = b /\ n.tx = t
    /\ \A u \in Tx : n.batch.item[u] = IF u = t THEN chain[t] ELSE o.item[u]
    /\ \/ n.pc = "save" /\ o.status = "pending" /\ n.batch.status = "invalid"
       \/ /\ n.pc = "save" /\ o.status = "pending" /\ n.batch.status = "success"
          /\ GroupSucceeded(b, k, n.batch) /\ k = Len(Groups[b])
       \/ /\ n.pc = "send" /\ n.group = k + 1 /\ n.hashes = {}
          /\ o.status = "pending" /\ n.batch.status = "pending" /\ GroupSucceeded(b, k, n.batch)
       \/ n.pc = "save" /\ n.batch.status = o.status

LEMMA UpdateItemShape ==
    ASSUME NEW h \in Handler, NEW l \in Local, NEW b \in Batch, NEW t \in Tx,
           NEW k \in DOMAIN Groups[b], NEW o \in TransactionBatch, chain[t] \in Outcome,
           l.id = b, l.tx = t, l.batch = o, UpdateItem(h, l, k)
    PROVE  \E n : Becomes(h, n) /\ n.work = l.work /\ Updated(n, b, k, t, o)
<1>1. PICK v : v = chain[t]
  OBVIOUS
<1>2. PICK c : c = [o EXCEPT !.item[t] = v]
  OBVIOUS
<1>3. /\ c \in TransactionBatch /\ c.status = o.status
      /\ \A u \in Tx : c.item[u] = IF u = t THEN v ELSE o.item[u]
  BY <1>1, <1>2 DEF TransactionBatch, ItemStatus
<1>4. ASSUME NEW s \in BatchStatus, NEW n,
             n = [l EXCEPT !.pc = "save", !.batch = [c EXCEPT !.status = s]]
      PROVE  /\ n \in Local /\ n.id = b /\ n.tx = t /\ n.work = l.work /\ n.pc = "save"
             /\ n.batch.item = c.item /\ n.batch.status = s
  <2>1. PICK d : d = [c EXCEPT !.status = s]
    OBVIOUS
  <2>2. d \in TransactionBatch /\ d.item = c.item /\ d.status = s
    BY <1>3, <2>1 DEF TransactionBatch
  <2>3. n = [l EXCEPT !.pc = "save", !.batch = d]
    BY <1>4, <2>1
  <2> QED  BY <2>2, <2>3 DEF Local, PC
<1>5. ASSUME NEW n, n = StartGroup(l, b, c, k + 1)
      PROVE  /\ n \in Local /\ n.id = b /\ n.tx = t /\ n.work = l.work /\ n.pc = "send"
             /\ n.batch = c /\ n.group = k + 1 /\ n.hashes = {}
  <2>1. k + 1 \in Nat
    BY GroupItemsType
  <2> QED  BY <1>3, <1>5, <2>1 DEF StartGroup, Local, PC
<1>6. /\ o.status \in BatchStatus /\ {"invalid", "success"} \subseteq BatchStatus
  BY DEF TransactionBatch, BatchStatus
<1>7. \/ /\ o.status = "pending"
         /\ Becomes(h, [l EXCEPT !.pc = "save", !.batch = [c EXCEPT !.status = "invalid"]])
      \/ /\ o.status = "pending" /\ GroupSucceeded(b, k, c) /\ k = Len(Groups[b])
         /\ Becomes(h, [l EXCEPT !.pc = "save", !.batch = [c EXCEPT !.status = "success"]])
      \/ /\ o.status = "pending" /\ GroupSucceeded(b, k, c)
         /\ Becomes(h, StartGroup(l, b, c, k + 1))
      \/ Becomes(h, [l EXCEPT !.pc = "save", !.batch = [c EXCEPT !.status = o.status]])
  BY <1>1, <1>2, <1>3 DEF UpdateItem, ReceivedStatus, IsActive, IsLastGroup
<1>8. CASE /\ o.status = "pending"
           /\ Becomes(h, [l EXCEPT !.pc = "save", !.batch = [c EXCEPT !.status = "invalid"]])
  <2>1. PICK n : n = [l EXCEPT !.pc = "save", !.batch = [c EXCEPT !.status = "invalid"]]
    OBVIOUS
  <2>2. /\ n \in Local /\ n.id = b /\ n.tx = t /\ n.work = l.work /\ n.pc = "save"
        /\ n.batch.item = c.item /\ n.batch.status = "invalid"
    BY <1>4, <1>6, <2>1
  <2>3. Updated(n, b, k, t, o)
    BY <1>1, <1>3, <1>8, <2>2 DEF Updated
  <2> QED  BY <1>8, <2>1, <2>2, <2>3
<1>9. CASE /\ o.status = "pending" /\ GroupSucceeded(b, k, c) /\ k = Len(Groups[b])
           /\ Becomes(h, [l EXCEPT !.pc = "save", !.batch = [c EXCEPT !.status = "success"]])
  <2>1. PICK n : n = [l EXCEPT !.pc = "save", !.batch = [c EXCEPT !.status = "success"]]
    OBVIOUS
  <2>2. /\ n \in Local /\ n.id = b /\ n.tx = t /\ n.work = l.work /\ n.pc = "save"
        /\ n.batch.item = c.item /\ n.batch.status = "success"
    BY <1>4, <1>6, <2>1
  <2>3. Updated(n, b, k, t, o)
    BY <1>1, <1>3, <1>9, <2>2 DEF Updated, GroupSucceeded
  <2> QED  BY <1>9, <2>1, <2>2, <2>3
<1>10. CASE /\ o.status = "pending" /\ GroupSucceeded(b, k, c)
            /\ Becomes(h, StartGroup(l, b, c, k + 1))
  <2>1. PICK n : n = StartGroup(l, b, c, k + 1)
    OBVIOUS
  <2> QED  BY <1>1, <1>3, <1>5, <1>10, <2>1 DEF Updated
<1>11. CASE Becomes(h, [l EXCEPT !.pc = "save", !.batch = [c EXCEPT !.status = o.status]])
  <2>0. PICK s \in BatchStatus : s = o.status
    BY <1>6
  <2>1. PICK n : n = [l EXCEPT !.pc = "save", !.batch = [c EXCEPT !.status = s]]
    OBVIOUS
  <2>2. /\ n \in Local /\ n.id = b /\ n.tx = t /\ n.work = l.work /\ n.pc = "save"
        /\ n.batch.item = c.item /\ n.batch.status = s
    BY <1>4, <2>1
  <2>3. Updated(n, b, k, t, o)
    BY <1>1, <1>3, <1>11, <2>0, <2>2 DEF Updated
  <2> QED  BY <1>11, <2>0, <2>1, <2>2, <2>3
<1> QED  BY <1>7, <1>8, <1>9, <1>10, <1>11

LEMMA UpdateItemQuiet ==
    ASSUME IInv, QuietInv, NEW h \in Handler, \A q \in Proc \ {h} : AtRest(local[q]),
           local[h].pc = "scan", UNCHANGED <<stored, pendingKey, sent>>,
           NEW b \in Batch, NEW k \in DOMAIN Groups[b], NEW t \in GroupItems(b, k),
           <<t, b>> \in local[h].work, <<b, t>> \in sent, stored[b] # None,
           NEW n, Becomes(h, n), n.work = local[h].work, Updated(n, b, k, t, stored[b])
    PROVE  QuietInv'
<1>1. PICK o : o = stored[b]
  OBVIOUS
<1>2. PICK c : c = n.batch
  OBVIOUS
<1>3. /\ TypeOK /\ h \in Proc /\ h \notin Request /\ h \notin Sweep
      /\ o \in TransactionBatch /\ t \in Tx /\ t \in BatchItems(b) /\ k \in Nat \ {0}
      /\ n \in Local /\ n.id = b /\ n.tx = t /\ n.pc \in {"save", "send"}
  BY <1>1, ProcAssumption, GroupItemsType DEF IInv, TypeOK, Updated
<1>4. \A u \in Tx : u # t => c.item[u] = o.item[u]
  BY <1>1, <1>2, <1>3 DEF Updated
<1>5. KeepsEntries(h, n) /\ ~Writing(local[h])
  BY DEF KeepsEntries, Holding, Writing
<1>6. Newest(b, o)
  <2>1. \A g \in Handler : ~Writing(local[g])
    BY <1>5 DEF AtRest, Writing
  <2> QED  BY <1>1, <2>1 DEF QuietInv, QuietStored
\* The entry is due, so that its success is new: no later group was sent.
<1>7. o.item[t] # "success" /\ o.status # "success"
  <2>1. ~Current(t, b)
    <3> SUFFICES ASSUME NEW g \in Handler, Holding(local[g]) PROVE FALSE
      BY DEF Current
    <3>1. g = h
      BY DEF AtRest, Holding
    <3> QED  BY <3>1 DEF Holding
  <2>2. Due(t, b)
    BY <2>1 DEF Due
  <2> QED  BY <1>3, <1>6, <2>2 DEF Newest
<1>8. \A j \in DOMAIN Groups[b] : GroupStarted(b, j) => ~(k < j)
  BY <1>6, <1>7 DEF Newest, GroupSucceeded
<1>9. ASSUME NEW j \in DOMAIN Groups[b], j < k PROVE GroupSucceeded(b, j, c)
  <2>1. GroupSucceeded(b, j, o)
    BY <1>6, <1>9 DEF Newest, GroupStarted
  <2> QED  BY <1>4, <1>7, <2>1, GroupItemsType DEF GroupSucceeded
<1>10. Newest(b, c)'
  <2>1. ASSUME NEW i \in DOMAIN Groups[b], NEW j \in DOMAIN Groups[b], j < i, GroupStarted(b, i)
        PROVE  GroupSucceeded(b, j, c)
    <3>1. i \in Nat /\ j \in Nat /\ ~(k < i)
      BY <1>8, <2>1, GroupItemsType
    <3> QED  BY <1>3, <1>9, <2>1, <3>1
  <2>2. local'[h] = n
    BY <1>3 DEF TypeOK, Becomes
  <2>3. Current(t, b)'
    BY <1>3, <2>2 DEF Current, Holding
  <2>4. ASSUME NEW u \in BatchItems(b), c.item[u] = "success" PROVE ~Due(u, b)'
    <3>1. CASE u = t
      BY <2>3, <3>1 DEF Due
    <3>2. CASE u # t
      <4>1. ~Due(u, b)
        BY <1>4, <1>6, <2>4, <3>2, BatchItemsType DEF Newest
      <4> QED  BY <1>3, <1>5, <4>1, DueStays
    <3> QED  BY <3>1, <3>2
  <2>5. ASSUME c.status = "success", NEW u \in BatchItems(b) PROVE c.item[u] = "success"
    <3>1. GroupSucceeded(b, k, c) /\ k = Len(Groups[b])
      BY <1>1, <1>2, <1>7, <2>5 DEF Updated
    <3>2. PICK j \in DOMAIN Groups[b] : u \in GroupItems(b, j)
      BY DEF BatchItems
    <3>3. j \in Nat /\ j <= k
      BY <3>1, GroupItemsType
    <3>4. GroupSucceeded(b, j, c)
      BY <1>3, <1>9, <3>1, <3>3
    <3> QED  BY <3>2, <3>4 DEF GroupSucceeded
  <2> QED  BY <2>1, <2>4, <2>5 DEF Newest, GroupStarted, GroupSucceeded
<1>11. QuietHandler(n)'
  <2>1. stored'[b] = o /\ o # None /\ o.status \in {"pending", c.status}
    BY <1>1, <1>2 DEF Updated
  <2>2. CASE n.pc = "save"
    BY <1>2, <1>3, <1>10, <2>1, <2>2 DEF QuietHandler, Writing, AtRest
  <2>3. CASE n.pc = "send"
    <3>1. /\ n.group = k + 1 /\ n.hashes = {} /\ o.status = "pending" /\ c.status = "pending"
          /\ GroupSucceeded(b, k, c)
      BY <1>1, <1>2, <2>3 DEF Updated
    <3>2. ASSUME NEW j \in DOMAIN Groups[b], j < k + 1 PROVE GroupSucceeded(b, j, c)
      <4>1. j = k \/ j < k
        BY <1>3, <3>2, GroupItemsType
      <4> QED  BY <1>9, <3>1, <4>1
    <3>3. ASSUME NEW j \in DOMAIN Groups[b], j > k + 1 PROVE ~GroupStarted(b, j)
      <4>1. k < j
        BY <1>3, <3>3, GroupItemsType
      <4> QED  BY <1>8, <4>1
    <3>4. /\ AtRest(n) => n.work = {}
          /\ n.pc # "load"
      BY <2>3 DEF AtRest
    <3> QED  BY <1>2, <1>3, <1>10, <2>1, <2>3, <3>1, <3>2, <3>3, <3>4
             DEF QuietHandler, Writing, GroupStarted, GroupSucceeded
  <2> QED  BY <1>3, <2>2, <2>3
<1>12. QuietProc(h, n)'
  BY <1>3, <1>11 DEF QuietProc
<1> QED  BY <1>3, <1>5, <1>12, SentStays, LocalStep

LEMMA ProcessTransactionQuiet ==
    ASSUME IInv, QuietInv, NEW h \in Handler, ProcessTransaction(h)
    PROVE  QuietInv'
<1>1. PICK g : g = local[h]
  OBVIOUS
<1>2. /\ UNCHANGED <<stored, pendingKey, sent>> /\ g.pc = "scan" /\ g \in Local /\ TypeOK
      /\ LocalTruthful(g, chain, sent) /\ HandlerTruthful(g, chain)
      /\ \A q \in Proc \ {h} : AtRest(local[q])
  BY <1>1, UnderWay DEF ProcessTransaction, AtRest
<1>3. PICK w \in g.work :
        LET l == [g EXCEPT !.pc = "load", !.tx = w[1], !.id = w[2], !.batch = stored[w[2]]] IN
        \/ Becomes(h, [l EXCEPT !.pc = "delete"])
        \/ /\ stored[w[2]] # None
           /\ \E k \in DOMAIN Groups[w[2]] : w[1] \in GroupItems(w[2], k) /\ UpdateItem(h, l, k)
  BY <1>1 DEF ProcessTransaction
<1>4. PICK t \in Tx, b \in Batch : w = <<t, b>>
  <2>1. g.work \subseteq Hash \X Batch /\ w[1] \in Tx
    BY <1>2 DEF Local, HandlerTruthful
  <2> QED  BY <2>1
<1>5. chain[t] \in Outcome /\ <<b, t>> \in sent
  BY <1>2, <1>4 DEF HandlerTruthful, LocalTruthful
<1>6. PICK o : o = stored[b]
  OBVIOUS
<1>7. PICK l : l = [g EXCEPT !.pc = "load", !.tx = t, !.id = b, !.batch = o]
  OBVIOUS
<1>8. /\ o \in TransactionBatch \cup {None} /\ l \in Local
      /\ l.id = b /\ l.tx = t /\ l.batch = o /\ l.work = g.work
  <2>1. o \in TransactionBatch \cup {None}
    BY <1>2, <1>6 DEF TypeOK
  <2> QED  BY <1>2, <1>7, <2>1 DEF Local, PC
<1>9. CASE Becomes(h, [l EXCEPT !.pc = "delete"])
  <2>1. PICK n : n = [l EXCEPT !.pc = "delete"]
    OBVIOUS
  <2>2. n \in Local /\ n.pc = "delete" /\ n.work = local[h].work
    BY <1>1, <1>8, <2>1 DEF Local, PC
  <2> QED  BY <1>1, <1>2, <1>9, <2>1, <2>2, IndifferentStep
<1>10. CASE /\ stored[b] # None
            /\ \E k \in DOMAIN Groups[b] : t \in GroupItems(b, k) /\ UpdateItem(h, l, k)
  <2>1. PICK k \in DOMAIN Groups[b] : t \in GroupItems(b, k) /\ UpdateItem(h, l, k)
    BY <1>10
  <2>2. o \in TransactionBatch
    BY <1>6, <1>8, <1>10
  <2>3. PICK n : Becomes(h, n) /\ n.work = l.work /\ Updated(n, b, k, t, o)
    BY <1>5, <1>8, <2>1, <2>2, UpdateItemShape
  <2> QED  BY <1>1, <1>2, <1>3, <1>4, <1>5, <1>6, <1>8, <1>10, <2>1, <2>3, UpdateItemQuiet
<1> QED  BY <1>3, <1>4, <1>6, <1>7, <1>9, <1>10

----------------------------------------------------------------------------
(* The invariant and what follows from it. *)

LEMMA QuietInit == Init => QuietInv
<1> SUFFICES ASSUME Init PROVE QuietInv
  OBVIOUS
<1>1. \A p \in Proc : local[p].pc = "idle" /\ local[p].work = {}
  BY DEF Init, Idle
<1>2. \A p \in Proc : QuietProc(p, local[p])
  BY <1>1, RestQuiet DEF AtRest
<1>3. \A b \in Batch : QuietStored(b)
  BY DEF Init, QuietStored, GroupStarted
<1> QED  BY <1>1, <1>2, <1>3 DEF QuietInv, AtRest

\* Quiet runs are runs of TransactionsBatch.
LEMMA QuietIsNext == QuietNext => Next
BY ProcAssumption DEF QuietNext, Next, Post, Block, Cron, Progress, Settle, RequestStep, Environment

\* So that all theorems about Spec hold of quiet runs.
LEMMA QuietRuns == QuietSpec => Spec
<1>1. [QuietNext]_vars => [Next]_vars
  BY QuietIsNext
<1> QED  BY <1>1, PTL DEF QuietSpec, Spec

LEMMA QuietStep ==
    ASSUME IInv, QuietInv, [QuietNext]_vars
    PROVE  QuietInv'
<1>1. ASSUME NEW r \in Request, Post(r) PROVE QuietInv'
  BY <1>1, StartTransactionBatchQuiet
<1>2. ASSUME NEW h \in Handler, Block(h) PROVE QuietInv'
  BY <1>2, BlockQuiet
<1>3. ASSUME NEW s \in Sweep, Cron(s) PROVE QuietInv'
  BY <1>3, CronQuiet
<1>4. ASSUME NEW p \in Proc, Progress(p) PROVE QuietInv'
  BY <1>4, RequestSends, HandlerSends, GroupSentQuiet, SetPendingTransactionQuiet,
     FirstGroupStartedQuiet, SaveNewBatchQuiet, ProcessTransactionQuiet, NextGroupStartedQuiet,
     SaveBatchQuiet, DeletePendingTransactionQuiet, EmitBatchUpdatedQuiet,
     LookupTransactionQuiet, DropTransactionQuiet
     DEF Progress, HandlerStep, SweepStep
<1>5. ASSUME NEW t \in Tx, Settle(t) PROVE QuietInv'
  BY <1>5, NothingQuiet DEF Settle, ExecuteOnChain, ForgetTransaction
<1>6. ASSUME NEW x \in Hash, TenMinutesPass(x) PROVE QuietInv'
  BY <1>6, NothingQuiet DEF TenMinutesPass
<1>7. CASE UNCHANGED vars
  BY <1>7, NothingQuiet DEF vars
<1> QED  BY <1>1, <1>2, <1>3, <1>4, <1>5, <1>6, <1>7 DEF QuietNext

\* When runs do not overlap, the one under way holds the newest copy of its batch, and a
\* success is written once: a group that was sent follows successful items only.
THEOREM QuietInvariance == QuietSpec => [](IInv /\ QuietInv)
<1>1. Init => IInv /\ QuietInv
  BY InitIInv, QuietInit
<1>2. IInv /\ QuietInv /\ [QuietNext]_vars => (IInv /\ QuietInv)'
  BY StepIInv, QuietIsNext, QuietStep
<1> QED  BY <1>1, <1>2, PTL DEF QuietSpec

LEMMA StepDecided ==
    ASSUME IInv, QuietInv, [QuietNext]_vars, NEW b \in Batch, StatusOf(b) # StatusOf(b)'
    PROVE  \/ StatusOf(b) \in {"none", "pending"}
           \/ StatusOf(b) = "invalid" /\ StatusOf(b)' = "dropped"
<1>1. stored'[b] # stored[b] /\ stored \in [Batch -> TransactionBatch \cup {None}]
  BY DEF StatusOf, IInv, TypeOK
<1>2. CASE \E r \in Request : SaveNewBatch(r)
  <2>1. PICK r \in Request : SaveNewBatch(r)
    BY <1>2
  <2>2. b = local[r].id /\ stored[local[r].id] = None
    BY <1>1, <2>1, UnderWay DEF SaveNewBatch, QuietProc, QuietRequest, Writing
  <2> QED  BY <2>2 DEF StatusOf
<1>3. CASE \E p \in Handler \cup Sweep : SaveBatch(p)
  <2>1. PICK p \in Handler \cup Sweep : SaveBatch(p)
    BY <1>3
  <2>2. PICK l : l = local[p]
    OBVIOUS
  <2>3. /\ l.pc = "save" /\ stored' = [stored EXCEPT ![l.id] = l.batch] /\ QuietProc(p, l)
        /\ l.batch \in TransactionBatch
    BY <2>1, <2>2, UnderWay DEF SaveBatch, LocalTruthful, Local
  <2>4. b = l.id /\ stored'[b] = l.batch /\ stored'[b] # None
    BY <1>1, <2>3, NullAssumption
  <2>5. StatusOf(b)' = l.batch.status
    BY <2>4 DEF StatusOf
  <2>6. CASE p \in Handler
    BY <2>3, <2>4, <2>5, <2>6 DEF QuietProc, QuietHandler, Writing, StatusOf
  <2>7. CASE p \in Sweep
    <3>1. stored[b] # None /\ stored[b].status # "success" /\ l.batch.status = "dropped"
      BY <2>3, <2>4, <2>7 DEF QuietProc, QuietSweep
    <3>2. stored[b].status \in BatchStatus
      BY <1>1, <3>1 DEF TransactionBatch
    <3> QED  BY <2>5, <3>1, <3>2 DEF StatusOf, BatchStatus
  <2> QED  BY <2>1, <2>6, <2>7
<1>4. CASE UNCHANGED stored
  BY <1>1, <1>4
<1>5. \/ UNCHANGED stored
      \/ \E r \in Request : SaveNewBatch(r)
      \/ \E p \in Handler \cup Sweep : SaveBatch(p)
  BY DEF QuietNext, Post, Block, Cron, Progress, Settle, HandlerStep, SweepStep,
         StartTransactionBatch, ExecuteTransaction, GroupSent, SetPendingTransaction,
         FirstGroupStarted, HandleTransactionBatches, ProcessTransaction, NextGroupStarted,
         DeletePendingTransaction, EmitBatchUpdated, HandleDroppedTransactions,
         LookupTransaction, DropTransaction, ExecuteOnChain, ForgetTransaction,
         TenMinutesPass, vars
<1> QED  BY <1>2, <1>3, <1>4, <1>5

\* StatusIsDecidedOnce: a batch that was decided keeps its status, except that the cron
\* can drop an invalid one, for any batches, also those that share transactions.
THEOREM DecidedOnce == QuietSpec => StatusIsDecidedOnce
<1>1. IInv /\ QuietInv /\ [QuietNext]_vars =>
        [\A b \in Batch : StatusOf(b) # StatusOf(b)' =>
            \/ StatusOf(b) \in {"none", "pending"}
            \/ StatusOf(b) = "invalid" /\ StatusOf(b)' = "dropped"]_vars
  BY StepDecided
<1> QED  BY <1>1, QuietInvariance, PTL DEF QuietSpec, StatusIsDecidedOnce

=============================================================================
