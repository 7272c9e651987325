-------------------------- MODULE NextGroup_proofs --------------------------
(***************************************************************************)
(* Proofs that the next group of a batch is started by one handler and     *)
(* once, and that a batch stored as invalid is never stored as successful  *)
(* later, whatever overlaps, fails, expires or is posted again, as long as *)
(* a block is received once.                                               *)
(***************************************************************************)
EXTENDS TransactionsBatch_proofs

USE DEF Proc, Hash

----------------------------------------------------------------------------
(* What a step of process p to local state n may do. *)

\* The entries of a handler: only newly delivered ones are added, and the one at
\* hand stays at hand.
KeepsEntries(p, n) ==
    p \in Handler =>
       /\ n.pc # "load"
       /\ n.pc = "register" => n.group \in DOMAIN Groups[n.id]
       /\ \A w \in n.work :
             /\ w \in local[p].work \/ w[1] \in delivered' \ delivered
             /\ w = <<local[p].tx, local[p].id>> /\ Holding(local[p])
                   => Holding(n) /\ n.tx = local[p].tx /\ n.id = local[p].id

\* Item i of group k of batch b is sent by p.
Sends(p, b, k, i) ==
    /\ p \notin Sweep /\ local[p].pc = "send"
    /\ b = local[p].id /\ k = local[p].group /\ i = local[p].next

KeepsSends(p, n) ==
    \/ sent' = sent
    \/ \E b \in Batch : \E k \in DOMAIN Groups[b] : \E i \in DOMAIN Groups[b][k] :
          /\ Sends(p, b, k, i) /\ sent' = sent \cup {<<b, Groups[b][k][i]>>}
          /\ n.pc = "send" => i < n.next

\* p goes on with its group.
GoesOn(p, n) ==
    /\ local[p].pc = "send" /\ n.id = local[p].id /\ n.group = local[p].group
    /\ n.next \in Nat /\ local[p].next <= n.next

\* p takes up the last success of group k and starts group k + 1 of batch b.
Starts(p, n, b, k) ==
    /\ sent' = sent
    /\ n.id = b /\ n.group = k + 1 /\ k + 1 \in DOMAIN Groups[b] /\ k \in DOMAIN Groups[b]
    /\ GroupTaken(b, k)' /\ \A u \in GroupItems(b, k) : <<b, u>> \in sent
    /\ local[p].pc = "scan" /\ \E u \in GroupItems(b, k) : <<u, b>> \in local[p].work

Moves(p, n) ==
    /\ Becomes(p, n) /\ n \in Local
    /\ delivered \subseteq delivered' /\ Grows(chain, chain', sent, sent')
    /\ KeepsEntries(p, n) /\ KeepsSends(p, n)
    /\ p \in Handler /\ n.pc = "send" =>
          \/ GoesOn(p, n)
          \/ \E b \in Batch : \E k \in DOMAIN Groups[b] : Starts(p, n, b, k)

LEMMA Moved ==
    ASSUME TypeOK, NEW p \in Proc, NEW n, Becomes(p, n), n \in Local
    PROVE  /\ local' \in [Proc -> Local] /\ local'[p] = n
           /\ \A q \in Proc \ {p} : local'[q] = local[q]
BY DEF TypeOK, Becomes

\* A transaction that was taken up stays so.
LEMMA TakenKept ==
    ASSUME TypeOK, NEW p \in Proc, NEW n, Becomes(p, n), n \in Local,
           delivered \subseteq delivered', KeepsEntries(p, n),
           NEW t, NEW b, Taken(t, b)
    PROVE  Taken(t, b)'
<1>1. /\ local'[p] = n /\ \A q \in Proc \ {p} : local'[q] = local[q]
  BY Moved
<1>2. t \in delivered'
  BY DEF Taken
<1>3. ASSUME NEW h \in Handler, <<t, b>> \in local'[h].work
      PROVE  Holding(local'[h]) /\ local'[h].tx = t /\ local'[h].id = b
  <2>1. CASE h # p
    BY <1>1, <1>3, <2>1 DEF Taken
  <2>2. CASE h = p
    <3>1. <<t, b>> \in n.work
      BY <1>1, <1>3, <2>2
    <3>2. <<t, b>> \in local[p].work
      BY <2>2, <3>1 DEF KeepsEntries, Taken
    <3>3. Holding(local[p]) /\ local[p].tx = t /\ local[p].id = b
      BY <2>2, <3>2 DEF Taken
    <3> QED  BY <1>1, <2>2, <3>1, <3>3 DEF KeepsEntries
  <2> QED  BY <2>1, <2>2
<1> QED  BY <1>2, <1>3 DEF Taken

LEMMA TakenStays ==
    ASSUME TypeOK, NEW p \in Proc, NEW n, Moves(p, n), NEW t, NEW b, Taken(t, b)
    PROVE  Taken(t, b)'
BY TakenKept DEF Moves

\* An item of a batch has one place.
LEMMA OnePlace ==
    ASSUME NEW b \in Batch, NEW k \in DOMAIN Groups[b], NEW l \in DOMAIN Groups[b],
           NEW i \in DOMAIN Groups[b][k], NEW j \in DOMAIN Groups[b][l],
           Groups[b][k][i] = Groups[b][l][j]
    PROVE  k = l /\ i = j
BY GroupsAssumption

LEMMA PreviousGroup ==
    ASSUME NEW b \in Batch, NEW k \in DOMAIN Groups[b], k > 1
    PROVE  k - 1 \in DOMAIN Groups[b] /\ k - 1 + 1 = k
<1>1. Groups[b] \in Seq(Seq(Tx))
  BY GroupsAssumption
<1> QED  BY <1>1

\* A group whose predecessor was taken up is not started by any step.
LEMMA NotStarted ==
    ASSUME NEW p \in Handler, NEW n, NEW b \in Batch, NEW k \in DOMAIN Groups[b],
           k > 1, GroupTaken(b, k - 1),
           NEW c \in Batch, NEW j \in DOMAIN Groups[c], Starts(p, n, c, j)
    PROVE  ~(n.id = b /\ n.group = k)
<1> SUFFICES ASSUME c = b, j + 1 = k
             PROVE  FALSE
  BY DEF Starts
<1>1. j = k - 1
  BY GroupItemsType
<1>2. PICK u \in GroupItems(b, k - 1) : <<u, b>> \in local[p].work
  BY <1>1 DEF Starts
<1>3. Holding(local[p])
  BY <1>2 DEF GroupTaken, Taken
<1> QED  BY <1>3 DEF Starts, Holding

\* An item that was skipped is never sent.
LEMMA SkippedStays ==
    ASSUME IInv, OnceInv, NEW p \in Proc, NEW n, Moves(p, n),
           NEW b \in Batch, NEW t, Skipped(b, t)
    PROVE  Skipped(b, t)'
<1>0. TypeOK
  BY DEF IInv
<1>1. /\ local' \in [Proc -> Local] /\ local'[p] = n
      /\ \A q \in Proc \ {p} : local'[q] = local[q]
  BY <1>0, Moved DEF Moves
<1>2. PICK k \in DOMAIN Groups[b] : \E i \in DOMAIN Groups[b][k] :
          /\ t = Groups[b][k][i] /\ k > 1 /\ GroupTaken(b, k - 1)
          /\ \A h \in Handler : Sending(h, b, k) => i < local[h].next
  BY DEF Skipped
<1>3. PICK i \in DOMAIN Groups[b][k] :
          /\ t = Groups[b][k][i] /\ k > 1 /\ GroupTaken(b, k - 1)
          /\ \A h \in Handler : Sending(h, b, k) => i < local[h].next
  BY <1>2
<1>4. k - 1 \in DOMAIN Groups[b] /\ i \in Nat
  BY <1>3, PreviousGroup, GroupItemsType
<1>5. GroupTaken(b, k - 1)'
  BY <1>0, <1>3, TakenStays DEF GroupTaken
<1>6. \A h \in Handler : Sending(h, b, k)' => i < local'[h].next
  <2> SUFFICES ASSUME NEW h \in Handler, Sending(h, b, k)'
               PROVE  i < local'[h].next
    OBVIOUS
  <2>1. CASE h # p
    BY <1>1, <1>3, <2>1 DEF Sending
  <2>2. CASE h = p /\ GoesOn(p, n)
    <3>1. Sending(p, b, k) /\ local[p].next \in Nat
      BY <1>0, <1>1, <2>2 DEF Sending, GoesOn, TypeOK, Local
    <3> QED  BY <1>1, <1>3, <1>4, <2>2, <3>1 DEF GoesOn
  <2>3. CASE h = p /\ \E c \in Batch : \E j \in DOMAIN Groups[c] : Starts(p, n, c, j)
    BY <1>1, <1>3, <2>3, NotStarted DEF Sending
  <2> QED  BY <1>1, <2>1, <2>2, <2>3 DEF Moves, Sending
<1>7. <<b, t>> \notin sent'
  <2> SUFFICES ASSUME NEW c \in Batch, NEW l \in DOMAIN Groups[c],
                      NEW j \in DOMAIN Groups[c][l], Sends(p, c, l, j),
                      <<b, t>> = <<c, Groups[c][l][j]>>
               PROVE  FALSE
    BY DEF Skipped, Moves, KeepsSends
  <2>1. l = k /\ j = i
    BY <1>3, OnePlace
  <2>2. CASE p \in Request
    <3>1. RequestOnce(local[p]) /\ local[p].pc = "send" /\ local[p].group = k
      BY <2>1, <2>2 DEF OnceInv, Sends
    <3>2. k = 1
      BY <3>1 DEF RequestOnce
    <3> QED  BY <1>3, <3>2
  <2>3. CASE p \in Handler
    <3>1. Sending(p, b, k) /\ local[p].next = i
      BY <2>1 DEF Sending, Sends
    <3> QED  BY <1>3, <1>4, <2>3, <3>1
  <2> QED  BY <2>2, <2>3 DEF Sends
<1> QED  BY <1>3, <1>5, <1>6, <1>7 DEF Skipped

LEMMA ShowsStays ==
    ASSUME IInv, OnceInv, NEW p \in Proc, NEW n, Moves(p, n), NEW b \in Batch
    PROVE  /\ \A t \in Tx : Void(b, t) => Void(b, t)'
           /\ Doomed(b) => Doomed(b)'
           /\ \A c : Shows(b, c) => Shows(b, c)'
<1>1. ASSUME NEW t \in Tx, Void(b, t)
      PROVE  Void(b, t)'
  BY <1>1, SkippedStays DEF Void, Moves, Grows, Outcome
<1>2. Doomed(b) => Doomed(b)'
  BY <1>1, BatchItemsType DEF Doomed
<1>3. ASSUME NEW c, Shows(b, c)
      PROVE  Shows(b, c)'
  <2>1. \A t \in BatchItems(b) : Taken(t, b) => Taken(t, b)'
    BY TakenStays DEF IInv
  <2>2. sent \subseteq sent'
    BY DEF Moves, Grows
  <2> QED  BY <1>1, <1>2, <1>3, <2>1, <2>2, BatchItemsType DEF Shows
<1> QED  BY <1>1, <1>2, <1>3

\* The groups that were started stay as they are, and the one that p starts follows.
LEMMA StartedStays ==
    ASSUME IInv, OnceInv, NEW p \in Proc, NEW n, Moves(p, n),
           p \in Request => RequestOnce(n),
           NEW b \in Batch, NEW k \in DOMAIN Groups[b], Started(b, k)'
    PROVE  /\ GroupTaken(b, k - 1)'
           /\ \A j \in 1..(k - 1) : \A u \in GroupItems(b, j) : <<b, u>> \in sent'
<1>0. /\ TypeOK /\ k > 1 /\ sent \subseteq sent'
  BY DEF IInv, Started, Moves, Grows
<1>1. /\ local'[p] = n /\ \A q \in Proc \ {p} : local'[q] = local[q]
  BY <1>0, Moved DEF Moves
<1>2. CASE Started(b, k)
  <2>1. /\ GroupTaken(b, k - 1)
        /\ \A j \in 1..(k - 1) : \A u \in GroupItems(b, j) : <<b, u>> \in sent
    BY <1>2 DEF OnceInv
  <2>2. GroupTaken(b, k - 1)'
    BY <1>0, <2>1, TakenStays DEF GroupTaken
  <2> QED  BY <1>0, <2>1, <2>2
<1>3. ASSUME NEW t \in GroupItems(b, k), <<b, t>> \in sent'
      PROVE  Started(b, k)
  <2>1. CASE <<b, t>> \in sent
    BY <1>0, <2>1 DEF Started
  <2>2. CASE <<b, t>> \notin sent
    <3>1. PICK i \in DOMAIN Groups[b][k] : t = Groups[b][k][i]
      BY DEF GroupItems
    <3>2. PICK c \in Batch : \E l \in DOMAIN Groups[c] : \E j \in DOMAIN Groups[c][l] :
             Sends(p, c, l, j) /\ sent' = sent \cup {<<c, Groups[c][l][j]>>}
      BY <1>3, <2>2 DEF Moves, KeepsSends
    <3>3. PICK l \in DOMAIN Groups[c] : \E j \in DOMAIN Groups[c][l] :
             Sends(p, c, l, j) /\ sent' = sent \cup {<<c, Groups[c][l][j]>>}
      BY <3>2
    <3>4. PICK j \in DOMAIN Groups[c][l] :
             Sends(p, c, l, j) /\ sent' = sent \cup {<<c, Groups[c][l][j]>>}
      BY <3>3
    <3>5. <<b, t>> = <<c, Groups[c][l][j]>>
      BY <1>3, <2>2, <3>4
    <3>6. b = c /\ l = k
      BY <3>1, <3>5, OnePlace
    <3>7. CASE p \in Request
      <4>1. RequestOnce(local[p]) /\ local[p].pc = "send" /\ local[p].group = k
        BY <3>4, <3>6, <3>7 DEF OnceInv, Sends
      <4>2. k = 1
        BY <4>1 DEF RequestOnce
      <4> QED  BY <1>0, <4>2
    <3>8. CASE p \in Handler
      BY <1>0, <3>4, <3>6, <3>8 DEF Started, Sending, Sends
    <3> QED  BY <3>4, <3>7, <3>8 DEF Sends
  <2> QED  BY <2>1, <2>2
<1>4. ASSUME NEW h \in Handler, Sending(h, b, k)'
      PROVE  \/ Started(b, k)
             \/ /\ GroupTaken(b, k - 1)'
                /\ \A j \in 1..(k - 1) : \A u \in GroupItems(b, j) : <<b, u>> \in sent
  <2>1. CASE h # p
    BY <1>0, <1>1, <1>4, <2>1 DEF Started, Sending
  <2>2. CASE h = p /\ GoesOn(p, n)
    BY <1>0, <1>1, <1>4, <2>2 DEF Started, Sending, GoesOn
  <2>3. CASE h = p /\ \E c \in Batch : \E l \in DOMAIN Groups[c] : Starts(p, n, c, l)
    <3>1. PICK c \in Batch : \E l \in DOMAIN Groups[c] : Starts(p, n, c, l)
      BY <2>3
    <3>2. PICK l \in DOMAIN Groups[c] : Starts(p, n, c, l)
      BY <3>1
    <3>3. c = b /\ l = k - 1 /\ l \in Nat /\ k \in Nat /\ l >= 1
      <4>1. c = b /\ k = l + 1
        BY <1>1, <1>4, <2>3, <3>2 DEF Sending, Starts
      <4>2. l \in Nat \ {0} /\ k \in Nat
        BY GroupItemsType
      <4> QED  BY <4>1, <4>2
    <3>4. GroupTaken(b, k - 1)' /\ \A u \in GroupItems(b, k - 1) : <<b, u>> \in sent
      BY <3>2, <3>3 DEF Starts
    <3>5. PICK u \in GroupItems(b, k - 1) : <<b, u>> \in sent
      BY <3>2, <3>3, <3>4 DEF Starts
    <3>6. ASSUME NEW j \in 1..(k - 1), NEW v \in GroupItems(b, j)
          PROVE  <<b, v>> \in sent
      <4>1. CASE j = k - 1
        BY <3>4, <4>1
      <4>2. CASE j # k - 1
        <5>1. j \in 1..(l - 1) /\ l > 1
          BY <3>3, <4>2
        <5>2. Started(b, l)
          BY <3>3, <3>5, <5>1 DEF Started
        <5> QED  BY <3>3, <5>1, <5>2 DEF OnceInv
      <4> QED  BY <4>1, <4>2
    <3> QED  BY <3>4, <3>6
  <2> QED  BY <1>1, <1>4, <2>1, <2>2, <2>3 DEF Moves, Sending
<1>5. CASE \E t \in GroupItems(b, k) : <<b, t>> \in sent'
  BY <1>2, <1>3, <1>5
<1>6. CASE \E h \in Handler : Sending(h, b, k)'
  BY <1>0, <1>2, <1>4, <1>6
<1> QED  BY <1>5, <1>6 DEF Started

\* Every handler keeps its part of the invariant.
LEMMA HandlersStay ==
    ASSUME IInv, IInv', OnceInv, NEW p \in Proc, NEW n, Moves(p, n), NEW h \in Handler
    PROVE  HandlerOnce(h, local[h])'
<1>0. TypeOK /\ HandlerOnce(h, local[h]) /\ delivered \subseteq delivered'
  BY DEF IInv, OnceInv, Moves
<1>1. /\ local'[p] = n /\ \A q \in Proc \ {p} : local'[q] = local[q]
  BY <1>0, Moved DEF Moves
<1>2. /\ local'[h].pc # "load" /\ \A w \in local'[h].work : w[1] \in delivered'
      /\ local'[h].pc = "register" => local'[h].group \in DOMAIN Groups[local'[h].id]
  BY <1>0, <1>1 DEF HandlerOnce, Moves, KeepsEntries
<1>3. ASSUME NEW g \in Handler, g # h, NEW w, w \in local'[g].work, w \in local'[h].work
      PROVE  FALSE
  <2>1. /\ local[g].work \cap local[h].work = {}
        /\ \A q \in {g, h} : \A v \in local[q].work : v[1] \in delivered
    BY <1>3 DEF OnceInv, HandlerOnce
  <2>2. ASSUME NEW q \in {g, h}, w \notin local[q].work, w \in local'[q].work
        PROVE  q = p /\ w[1] \notin delivered
    BY <1>1, <2>2 DEF Moves, KeepsEntries
  <2> QED  BY <1>3, <2>1, <2>2
<1>4. ASSUME NEW b, NEW k, Sending(h, b, k)'
      PROVE  /\ k > 1
             /\ \A i \in DOMAIN Groups[b][k] :
                   local'[h].next <= i => <<b, Groups[b][k][i]>> \notin sent'
             /\ \A g \in Handler \ {h} : ~Sending(g, b, k)'
  <2>1. b \in Batch /\ k \in DOMAIN Groups[b]
    BY <1>4 DEF IInv, LocalTruthful, Sending
  <2>2. Sending(h, b, k) => /\ k > 1 /\ Started(b, k) /\ GroupTaken(b, k - 1)
    BY <1>0, <2>1 DEF HandlerOnce, Sending, Started, OnceInv
  <2>3. CASE h # p
    <3>1. Sending(h, b, k) /\ local'[h].next = local[h].next
      BY <1>1, <1>4, <2>3 DEF Sending
    <3>2. /\ k > 1
          /\ \A i \in DOMAIN Groups[b][k] :
                local[h].next <= i => <<b, Groups[b][k][i]>> \notin sent
          /\ \A g \in Handler \ {h} : ~Sending(g, b, k)
      BY <1>0, <3>1 DEF HandlerOnce, Sending
    <3>3. ASSUME NEW i \in DOMAIN Groups[b][k], local[h].next <= i,
                 <<b, Groups[b][k][i]>> \in sent'
          PROVE  FALSE
      <4>1. PICK c \in Batch : \E l \in DOMAIN Groups[c] : \E j \in DOMAIN Groups[c][l] :
               Sends(p, c, l, j) /\ <<b, Groups[b][k][i]>> = <<c, Groups[c][l][j]>>
        BY <3>2, <3>3 DEF Moves, KeepsSends
      <4>2. Sends(p, b, k, i)
        BY <2>1, <4>1, OnePlace
      <4>3. CASE p \in Request
        <5>1. RequestOnce(local[p]) /\ local[p].pc = "send" /\ local[p].group = k
          BY <4>2, <4>3 DEF OnceInv, Sends
        <5>2. k = 1
          BY <5>1 DEF RequestOnce
        <5> QED  BY <3>2, <5>2
      <4>4. CASE p \in Handler
        BY <2>3, <3>2, <4>2, <4>4 DEF Sending, Sends
      <4> QED  BY <4>2, <4>3, <4>4 DEF Sends
    <3>4. ASSUME NEW g \in Handler \ {h}, Sending(g, b, k)'
          PROVE  FALSE
      <4>1. g = p
        BY <1>1, <3>2, <3>4 DEF Sending
      <4>2. n.pc = "send" /\ n.id = b /\ n.group = k
        BY <1>1, <3>4, <4>1 DEF Sending
      <4>3. ~GoesOn(p, n)
        BY <3>2, <4>1, <4>2 DEF GoesOn, Sending
      <4> QED  BY <2>1, <2>2, <3>1, <4>1, <4>2, <4>3, NotStarted DEF Moves
    <3> QED  BY <3>1, <3>2, <3>3, <3>4
  <2>4. CASE h = p /\ GoesOn(p, n)
    <3>1. Sending(h, b, k)
      BY <1>1, <1>4, <2>4 DEF Sending, GoesOn
    <3>2. /\ k > 1
          /\ \A i \in DOMAIN Groups[b][k] :
                local[h].next <= i => <<b, Groups[b][k][i]>> \notin sent
          /\ \A g \in Handler \ {h} : ~Sending(g, b, k)
      BY <1>0, <3>1 DEF HandlerOnce, Sending
    <3>3. ASSUME NEW i \in DOMAIN Groups[b][k], n.next <= i,
                 <<b, Groups[b][k][i]>> \in sent'
          PROVE  FALSE
      <4>0. local[p].next \in Nat /\ n.next \in Nat /\ local[p].next <= n.next /\ i \in Nat
        BY <1>0, <2>1, <2>4, GroupItemsType DEF TypeOK, Local, GoesOn
      <4>1. <<b, Groups[b][k][i]>> \notin sent
        BY <2>4, <3>2, <3>3, <4>0
      <4>2. PICK c \in Batch : \E l \in DOMAIN Groups[c] : \E j \in DOMAIN Groups[c][l] :
               /\ Sends(p, c, l, j) /\ <<b, Groups[b][k][i]>> = <<c, Groups[c][l][j]>>
               /\ n.pc = "send" => j < n.next
        BY <3>3, <4>1 DEF Moves, KeepsSends
      <4>3. n.pc = "send" => i < n.next
        BY <2>1, <4>2, OnePlace
      <4> QED  BY <1>1, <1>4, <2>4, <3>3, <4>0, <4>3 DEF Sending
    <3>4. \A g \in Handler \ {h} : ~Sending(g, b, k)'
      BY <1>1, <2>4, <3>2 DEF Sending
    <3> QED  BY <1>1, <2>4, <3>2, <3>3, <3>4
  <2>5. CASE h = p /\ \E c \in Batch : \E l \in DOMAIN Groups[c] : Starts(p, n, c, l)
    <3>1. PICK c \in Batch : \E l \in DOMAIN Groups[c] : Starts(p, n, c, l)
      BY <2>5
    <3>2. PICK l \in DOMAIN Groups[c] : Starts(p, n, c, l)
      BY <3>1
    <3>3. n.id = b /\ n.group = k
      BY <1>1, <1>4, <2>5 DEF Sending
    <3>4. k > 1 /\ sent' = sent
      <4>1. k = l + 1 /\ c = b /\ sent' = sent
        BY <3>2, <3>3 DEF Starts
      <4>2. l \in Nat \ {0}
        BY GroupItemsType
      <4> QED  BY <4>1, <4>2
    <3>5. ~Started(b, k)
      BY <2>1, <2>5, <3>2, <3>3, <3>4, NotStarted DEF OnceInv
    <3>6. /\ \A t \in GroupItems(b, k) : <<b, t>> \notin sent
          /\ \A g \in Handler : ~Sending(g, b, k)
      BY <3>4, <3>5 DEF Started
    <3>7. \A g \in Handler \ {h} : ~Sending(g, b, k)'
      BY <1>1, <2>5, <3>6 DEF Sending
    <3> QED  BY <3>4, <3>6, <3>7 DEF GroupItems
  <2> QED  BY <1>1, <1>4, <2>3, <2>4, <2>5 DEF Moves, Sending
<1>5. PICK b : b = local'[h].id
  OBVIOUS
<1>6. PICK k : k = local'[h].group
  OBVIOUS
<1>7. local'[h].pc = "send" => Sending(h, b, k)'
  BY <1>5, <1>6 DEF Sending
<1>8. \A g \in Handler \ {h} : local'[g].work \cap local'[h].work = {}
  BY <1>3
<1> QED  BY <1>2, <1>4, <1>5, <1>6, <1>7, <1>8 DEF HandlerOnce

\* What every step keeps: the invariant, and that a doomed batch stays doomed.
OnceKept == OnceInv' /\ \A b \in Batch : Doomed(b) => Doomed(b)'

\* A step that moves process p to local state n, and may save a batch.
LEMMA OnceStep ==
    ASSUME IInv, IInv', OnceInv, NEW p \in Proc, NEW n, Moves(p, n),
           p \in Request => RequestOnce(n),
           p \notin Request /\ n.batch # None => Shows(n.id, n.batch)',
           \A b \in Batch : stored'[b] = None \/ stored'[b] = stored[b]
                              \/ Shows(b, stored[b])'
    PROVE  OnceKept
<1>1. /\ local'[p] = n /\ \A q \in Proc \ {p} : local'[q] = local[q]
  BY Moved DEF Moves, IInv
<1>2. \A r \in Request : RequestOnce(local'[r])
  BY <1>1 DEF OnceInv
<1>3. \A h \in Handler : HandlerOnce(h, local[h])'
  BY HandlersStay
<1>4. ASSUME NEW q \in Handler \cup Sweep, local'[q].batch # None
      PROVE  Shows(local[q].id, local[q].batch)'
  <2>1. CASE q = p
    BY <1>1, <1>4, <2>1, ProcAssumption
  <2>2. CASE q # p
    <3>1. local'[q] = local[q]
      BY <1>1, <2>2
    <3>2. local[q].id \in Batch /\ Shows(local[q].id, local[q].batch)
      BY <1>4, <3>1 DEF OnceInv, IInv, LocalTruthful
    <3> QED  BY <3>1, <3>2, ShowsStays
  <2> QED  BY <2>1, <2>2
<1>5. ASSUME NEW b \in Batch, stored'[b] # None
      PROVE  Shows(b, stored[b])'
  <2>1. CASE stored'[b] = stored[b]
    BY <1>5, <2>1, ShowsStays DEF OnceInv
  <2> QED  BY <1>5, <2>1
<1>6. \A b \in Batch : \A k \in DOMAIN Groups[b] : Started(b, k)' =>
          /\ GroupTaken(b, k - 1)'
          /\ \A j \in 1..(k - 1) : \A u \in GroupItems(b, j) : <<b, u>> \in sent'
  BY StartedStays
<1>7. \A b \in Batch : Doomed(b) => Doomed(b)'
  BY ShowsStays
<1> QED  BY <1>2, <1>3, <1>4, <1>5, <1>6, <1>7 DEF OnceInv, OnceKept

\* A step of process p that hands nothing to it or to the gateway and starts no group.
LEMMA QuietStep ==
    ASSUME IInv, IInv', OnceInv, UNCHANGED <<delivered, chain, sent>>,
           NEW p \in Proc, NEW n, Becomes(p, n), n \in Local,
           p \in Request => RequestOnce(n),
           p \in Handler =>
              /\ n.pc # "load" /\ n.work \subseteq local[p].work
              /\ n.pc = "register" => n.group \in DOMAIN Groups[n.id]
              /\ Holding(local[p]) /\ <<local[p].tx, local[p].id>> \in n.work
                    => Holding(n) /\ n.tx = local[p].tx /\ n.id = local[p].id
              /\ n.pc # "send",
           p \notin Request /\ n.batch # None => Shows(n.id, n.batch),
           \A b \in Batch : stored'[b] = None \/ stored'[b] = stored[b]
                              \/ \E c : stored'[b] = c /\ Shows(b, c)
    PROVE  OnceKept
<1>1. Moves(p, n)
  BY DEF Moves, Grows, KeepsEntries, KeepsSends
<1>2. ASSUME p \notin Request, n.batch # None
      PROVE  Shows(n.id, n.batch)'
  <2>1. n.id \in Batch
    <3>1. local'[p] = n
      BY Moved DEF IInv
    <3> QED  BY <1>2, <3>1 DEF IInv, LocalTruthful
  <2> QED  BY <1>1, <1>2, <2>1, ShowsStays
<1>3. ASSUME NEW b \in Batch, stored'[b] # None, stored'[b] # stored[b]
      PROVE  Shows(b, stored[b])'
  BY <1>1, <1>3, ShowsStays
<1> QED  BY <1>1, <1>2, <1>3, OnceStep

\* A step that moves no process.
LEMMA OnceEnvironment ==
    ASSUME IInv, OnceInv, UNCHANGED <<local, sent>>, delivered \subseteq delivered',
           Grows(chain, chain', sent, sent'),
           \A b \in Batch : stored'[b] = None \/ stored'[b] = stored[b]
    PROVE  OnceKept
<1>1. \A t, b : Taken(t, b) => Taken(t, b)'
  BY DEF Taken
<1>2. \A h, b, k : Sending(h, b, k)' <=> Sending(h, b, k)
  BY DEF Sending
<1>3. \A b, t : Skipped(b, t) => Skipped(b, t)'
  BY <1>1, <1>2 DEF Skipped, GroupTaken
<1>4. \A b, t : t \in Tx /\ Void(b, t) => Void(b, t)'
  BY <1>3 DEF Void, Grows, Outcome
<1>5. \A b \in Batch : Doomed(b) => Doomed(b)'
  BY <1>4, BatchItemsType DEF Doomed
<1>6. \A b \in Batch : \A c : Shows(b, c) => Shows(b, c)'
  BY <1>1, <1>4, <1>5, BatchItemsType DEF Shows
<1>7. \A r \in Request : RequestOnce(local'[r])
  BY DEF OnceInv
<1>8. \A h \in Handler : HandlerOnce(h, local[h])'
  BY <1>2 DEF OnceInv, HandlerOnce
<1>9. ASSUME NEW p \in Handler \cup Sweep, local'[p].batch # None
      PROVE  Shows(local[p].id, local[p].batch)'
  BY <1>6, <1>9 DEF OnceInv, IInv, LocalTruthful
<1>10. \A b \in Batch : stored'[b] # None => Shows(b, stored[b])'
  BY <1>6 DEF OnceInv
<1>11. \A b, k : Started(b, k)' => Started(b, k)
  BY <1>2 DEF Started
<1> QED  BY <1>1, <1>5, <1>7, <1>8, <1>9, <1>10, <1>11 DEF OnceInv, GroupTaken, OnceKept

----------------------------------------------------------------------------
(* Every action keeps OnceInv: the requests. *)

\* What an action may assume of the process it moves.
LEMMA Mover ==
    ASSUME IInv, OnceInv, NEW p \in Proc
    PROVE  /\ local[p] \in Local /\ LocalTruthful(local[p], chain, sent)
           /\ p \in Request => RequestOnce(local[p]) /\ p \notin Handler \cup Sweep
           /\ p \in Handler => HandlerOnce(p, local[p]) /\ p \notin Request \cup Sweep
           /\ p \in Handler \cup Sweep /\ local[p].batch # None
                 => Shows(local[p].id, local[p].batch)
BY ProcAssumption DEF IInv, OnceInv, TypeOK

LEMMA StartTransactionBatchOnce ==
    ASSUME IInv, IInv', OnceInv, NEW r \in Request, StartTransactionBatch(r)
    PROVE  OnceKept
<1> DEFINE b == RequestBatch[r]
           n == StartGroup(Idle, b, NewBatch, 1)
<1>1. r \notin Handler /\ b \in Batch
  BY ProcAssumption
<1>2. UNCHANGED <<stored, delivered, chain, sent>>
  BY DEF StartTransactionBatch
<1>3. ASSUME NEW pc \in {"failed", "done"}, Becomes(r, [Idle EXCEPT !.pc = pc])
      PROVE  OnceKept
  <2>1. [Idle EXCEPT !.pc = pc] \in Local /\ [Idle EXCEPT !.pc = pc].pc = pc
    BY DEF Local, Idle, PC
  <2>2. RequestOnce([Idle EXCEPT !.pc = pc])
    BY <2>1 DEF RequestOnce
  <2> QED  BY <1>1, <1>2, <1>3, <2>1, <2>2, QuietStep
<1>4. CASE Becomes(r, n) /\ Groups[b] # << >>
  <2>1. n \in Local /\ n.pc = "send" /\ n.id = b /\ n.batch = NewBatch /\ n.group = 1
    BY <1>1, NewBatchTruthful DEF Local, Idle, StartGroup, PC
  <2>2. RequestOnce(n)
    BY <1>1, <2>1, BatchItemsType DEF RequestOnce, NewBatch
  <2> HIDE DEF n
  <2> QED  BY <1>1, <1>2, <1>4, <2>1, <2>2, QuietStep
<1> QED  BY <1>3, <1>4 DEF StartTransactionBatch

\* A request or a handler that goes on to register and to wait for the registrations.
LEMMA SameBatchOnce ==
    ASSUME IInv, IInv', OnceInv, NEW p \in Proc, NEW n, Becomes(p, n), n \in Local,
           p \notin Sweep, UNCHANGED <<stored, delivered, chain, sent>>,
           local[p].pc \in {"send", "register"}, n.pc = "register",
           n.id = local[p].id, n.batch = local[p].batch, n.group = local[p].group,
           n.work = local[p].work, n.tx = local[p].tx
    PROVE  OnceKept
<1>1. CASE p \in Request
  <2>1. RequestOnce(n)
    BY <1>1, Mover DEF RequestOnce
  <2> QED  BY <1>1, <2>1, Mover, QuietStep
<1>2. CASE p \in Handler
  <2>1. n.group \in DOMAIN Groups[n.id]
    BY <1>2, Mover DEF HandlerOnce, LocalTruthful
  <2>2. n.batch # None => Shows(n.id, n.batch)
    BY <1>2, Mover
  <2> QED  BY <1>2, <2>1, <2>2, Mover, QuietStep DEF Holding
<1> QED  BY <1>1, <1>2

LEMMA GroupSentOnce ==
    ASSUME IInv, IInv', OnceInv, NEW p \in Proc, p \notin Sweep, GroupSent(p)
    PROVE  OnceKept
<1> DEFINE n == [local[p] EXCEPT !.pc = "register"]
<1>1. n \in Local
  BY Mover DEF Local, PC
<1>2. /\ n.pc = "register" /\ n.id = local[p].id /\ n.batch = local[p].batch
      /\ n.group = local[p].group /\ n.work = local[p].work /\ n.tx = local[p].tx
  BY Mover DEF Local
<1>3. Becomes(p, n) /\ local[p].pc = "send" /\ UNCHANGED <<stored, delivered, chain, sent>>
  BY DEF GroupSent
<1> QED  BY <1>1, <1>2, <1>3, SameBatchOnce

LEMMA SetPendingTransactionOnce ==
    ASSUME IInv, IInv', OnceInv, NEW p \in Proc, p \notin Sweep, SetPendingTransaction(p)
    PROVE  OnceKept
<1>1. PICK h \in local[p].hashes : Becomes(p, [local[p] EXCEPT !.hashes = @ \ {h}])
  BY DEF SetPendingTransaction
<1> DEFINE n == [local[p] EXCEPT !.hashes = @ \ {h}]
<1>2. n \in Local
  BY Mover DEF Local
<1>3. /\ n.pc = local[p].pc /\ n.id = local[p].id /\ n.batch = local[p].batch
      /\ n.group = local[p].group /\ n.work = local[p].work /\ n.tx = local[p].tx
  BY Mover DEF Local
<1>4. local[p].pc = "register" /\ UNCHANGED <<stored, delivered, chain, sent>>
  BY DEF SetPendingTransaction
<1> QED  BY <1>1, <1>2, <1>3, <1>4, SameBatchOnce

LEMMA FirstGroupStartedOnce ==
    ASSUME IInv, IInv', OnceInv, NEW r \in Request, FirstGroupStarted(r)
    PROVE  OnceKept
<1> DEFINE l == local[r]
           n == [l EXCEPT !.pc = "save"]
           m == [l EXCEPT !.pc = "done", !.batch.status = "invalid"]
<1>1. /\ l \in Local /\ RequestOnce(l) /\ r \notin Handler \cup Sweep
      /\ l.pc = "register" /\ l.batch \in TransactionBatch
  BY Mover DEF FirstGroupStarted, LocalTruthful, Local
<1>2. UNCHANGED <<stored, delivered, chain, sent>>
  BY DEF FirstGroupStarted
<1>3. CASE Becomes(r, m)
  <2>1. m \in Local /\ m.pc = "done"
    BY <1>1 DEF Local, PC, TransactionBatch, BatchStatus
  <2>2. RequestOnce(m)
    BY <2>1 DEF RequestOnce
  <2> HIDE DEF m
  <2> QED  BY <1>1, <1>2, <1>3, <2>1, <2>2, QuietStep
<1>4. CASE ~GroupHasInvalid(l) /\ Becomes(r, n)
  <2>1. n \in Local /\ n.pc = "save" /\ n.id = l.id /\ n.batch = l.batch
    BY <1>1 DEF Local, PC
  <2>2. l.group = 1 /\ \A t \in GroupItems(l.id, 1) : l.batch.item[t] # "invalid"
    BY <1>1, <1>4 DEF RequestOnce, GroupHasInvalid
  <2>3. RequestOnce(n)
    BY <1>1, <2>1, <2>2 DEF RequestOnce
  <2> HIDE DEF n
  <2> QED  BY <1>1, <1>2, <1>4, <2>1, <2>3, QuietStep
<1> QED  BY <1>3, <1>4 DEF FirstGroupStarted

LEMMA SaveNewBatchOnce ==
    ASSUME IInv, IInv', OnceInv, NEW r \in Request, SaveNewBatch(r)
    PROVE  OnceKept
<1> DEFINE l == local[r]
           n == [l EXCEPT !.pc = "done"]
<1>1. l \in Local /\ RequestOnce(l) /\ r \notin Handler \cup Sweep /\ l.pc = "save"
  BY Mover DEF SaveNewBatch
<1>2. /\ UNCHANGED <<delivered, chain, sent>> /\ Becomes(r, n)
      /\ stored' = [stored EXCEPT ![l.id] = l.batch]
  BY DEF SaveNewBatch
<1>3. Shows(l.id, l.batch)
  BY <1>1 DEF RequestOnce, Shows
<1>4. n \in Local /\ n.pc = "done"
  BY <1>1 DEF Local, PC
<1>5. RequestOnce(n)
  BY <1>4 DEF RequestOnce
<1>6. \A b \in Batch : stored'[b] = stored[b] \/ \E c : stored'[b] = c /\ Shows(b, c)
  BY <1>2, <1>3 DEF IInv, TypeOK
<1> HIDE DEF n
<1> QED  BY <1>1, <1>2, <1>4, <1>5, <1>6, QuietStep

----------------------------------------------------------------------------
(* Every action keeps OnceInv: the batch processor and the cron. *)

\* A run that goes on to its next entry, without the one at hand.
LEMMA NextEntryOnce ==
    ASSUME IInv, IInv', OnceInv, UNCHANGED <<stored, delivered, chain, sent>>,
           NEW p \in Handler \cup Sweep, NEW W \in SUBSET (Hash \X Batch), NEW T \in SUBSET Batch,
           Becomes(p, Scanning(W, T)),
           p \in Handler => /\ W \subseteq local[p].work
                            /\ Holding(local[p]) => <<local[p].tx, local[p].id>> \notin W
    PROVE  OnceKept
<1> DEFINE n == Scanning(W, T)
<1>1. n \in Local /\ n.pc = "scan" /\ n.batch = None /\ n.work = W
  BY DEF Scanning, Idle, Local, PC
<1>2. p \notin Request
  BY ProcAssumption
<1> HIDE DEF n
<1> QED  BY <1>1, <1>2, QuietStep DEF n

LEMMA DeletePendingTransactionOnce ==
    ASSUME IInv, IInv', OnceInv, NEW p \in Handler \cup Sweep, DeletePendingTransaction(p)
    PROVE  OnceKept
<1> DEFINE l == local[p]
           W == l.work \ {<<l.tx, l.id>>}
           T == ToAnnounce(l)
<1>1. l \in Local /\ l.id \in Batch
  BY Mover DEF DeletePendingTransaction, LocalTruthful
<1>2. W \in SUBSET (Hash \X Batch) /\ T \in SUBSET Batch /\ W \subseteq l.work
      /\ <<l.tx, l.id>> \notin W
  BY <1>1 DEF Local, ToAnnounce
<1>3. Becomes(p, Scanning(W, T)) /\ UNCHANGED <<stored, delivered, chain, sent>>
  BY DEF DeletePendingTransaction
<1> HIDE DEF W, T
<1> QED  BY <1>2, <1>3, NextEntryOnce

LEMMA EmitBatchUpdatedOnce ==
    ASSUME IInv, IInv', OnceInv, NEW p \in Handler \cup Sweep, EmitBatchUpdated(p)
    PROVE  OnceKept
<1>1. Becomes(p, Idle) /\ UNCHANGED <<stored, delivered, chain, sent>> /\ ~Holding(local[p])
  BY DEF EmitBatchUpdated, Holding
<1>2. Idle \in Local /\ Idle.pc = "idle" /\ Idle.batch = None /\ Idle.work = {}
  BY DEF Idle, Local, PC
<1>3. p \notin Request
  BY ProcAssumption
<1> QED  BY <1>1, <1>2, <1>3, QuietStep

LEMMA SaveBatchOnce ==
    ASSUME IInv, IInv', OnceInv, NEW p \in Handler \cup Sweep, SaveBatch(p)
    PROVE  OnceKept
<1> DEFINE l == local[p]
           n == [l EXCEPT !.pc = "delete"]
<1>1. l \in Local /\ p \notin Request /\ l.pc = "save" /\ Shows(l.id, l.batch)
  BY Mover DEF SaveBatch, LocalTruthful
<1>2. /\ UNCHANGED <<delivered, chain, sent>> /\ Becomes(p, n)
      /\ stored' = [stored EXCEPT ![l.id] = l.batch]
  BY DEF SaveBatch
<1>3. /\ n \in Local /\ n.pc = "delete" /\ n.id = l.id /\ n.batch = l.batch
      /\ n.tx = l.tx /\ n.work = l.work
  BY <1>1 DEF Local, PC
<1>4. \A b \in Batch : stored'[b] = stored[b] \/ \E c : stored'[b] = c /\ Shows(b, c)
  BY <1>1, <1>2 DEF IInv, TypeOK
<1> HIDE DEF n
<1> QED  BY <1>1, <1>2, <1>3, <1>4, QuietStep DEF Holding

\* The group that a handler sent has an item that was not sent, so the batch is doomed.
LEMMA NextGroupStartedOnceStep ==
    ASSUME IInv, IInv', OnceInv, NEW h \in Handler, NextGroupStarted(h)
    PROVE  OnceKept
<1> DEFINE l == local[h]
           c == [l.batch EXCEPT !.status = "invalid"]
           n == [l EXCEPT !.pc = "save"]
           m == [l EXCEPT !.pc = "save", !.batch = c]
<1>1. /\ l \in Local /\ h \notin Request /\ l.pc = "register" /\ l.id \in Batch
      /\ l.batch # None /\ l.batch \in TransactionBatch /\ Shows(l.id, l.batch)
      /\ l.group \in DOMAIN Groups[l.id]
  BY Mover DEF NextGroupStarted, LocalTruthful, HandlerOnce, Local
<1>2. UNCHANGED <<stored, delivered, chain, sent>>
  BY DEF NextGroupStarted
<1>3. CASE Becomes(h, n)
  <2>1. /\ n \in Local /\ n.pc = "save" /\ n.id = l.id /\ n.batch = l.batch
        /\ n.tx = l.tx /\ n.work = l.work
    BY <1>1 DEF Local, PC
  <2> HIDE DEF n
  <2> QED  BY <1>1, <1>2, <1>3, <2>1, QuietStep DEF Holding
<1>4. CASE GroupHasInvalid(l) /\ Becomes(h, m)
  <2>1. c \in TransactionBatch /\ c.item = l.batch.item /\ c.status = "invalid"
    BY <1>1 DEF TransactionBatch, BatchStatus
  <2>2. PICK t \in GroupItems(l.id, l.group) : l.batch.item[t] = "invalid"
    BY <1>4 DEF GroupHasInvalid
  <2>3. Doomed(l.id)
    BY <1>1, <2>2, GroupItemsType DEF Shows, Doomed
  <2>4. Shows(l.id, c)
    BY <1>1, <2>1, <2>3 DEF Shows
  <2>5. /\ m \in Local /\ m.pc = "save" /\ m.id = l.id /\ m.batch = c
        /\ m.tx = l.tx /\ m.work = l.work
    BY <1>1, <2>1 DEF Local, PC
  <2> HIDE DEF m, c
  <2> QED  BY <1>1, <1>2, <1>4, <2>4, <2>5, QuietStep DEF Holding
<1>5. [l EXCEPT !.pc = "save", !.batch.status = "invalid"] = m
  BY <1>1 DEF Local
<1> QED  BY <1>3, <1>4, <1>5 DEF NextGroupStarted

LEMMA HandleDroppedTransactionsOnce ==
    ASSUME IInv, IInv', OnceInv, NEW s \in Sweep, HandleDroppedTransactions(s)
    PROVE  OnceKept
<1> DEFINE old == {w \in aged \X Batch : pendingKey[w[1]] = w[2]}
<1>1. old \in SUBSET (Hash \X Batch) /\ s \notin Handler
  BY ProcAssumption DEF IInv, TypeOK
<1>2. Becomes(s, Scanning(old, {})) /\ UNCHANGED <<stored, delivered, chain, sent>>
  BY DEF HandleDroppedTransactions
<1>3. {} \in SUBSET Batch
  OBVIOUS
<1> HIDE DEF old
<1> QED  BY <1>1, <1>2, <1>3, NextEntryOnce

LEMMA AfterEntryOnce ==
    ASSUME IInv, IInv', OnceInv, NEW s \in Sweep, NEW l \in Local, l.work = local[s].work,
           Becomes(s, AfterEntry(l)), UNCHANGED <<stored, delivered, chain, sent>>
    PROVE  OnceKept
<1> DEFINE W == l.work \ {<<l.tx, l.id>>}
<1>1. W \in SUBSET (Hash \X Batch) /\ l.touched \in SUBSET Batch /\ s \notin Handler
  BY ProcAssumption DEF Local
<1>2. Becomes(s, Scanning(W, l.touched))
  BY DEF AfterEntry
<1> HIDE DEF W
<1> QED  BY <1>1, <1>2, NextEntryOnce

LEMMA LookupTransactionOnce ==
    ASSUME IInv, IInv', OnceInv, NEW s \in Sweep, LookupTransaction(s)
    PROVE  OnceKept
<1> DEFINE found(w) == [local[s] EXCEPT !.tx = w[1], !.id = w[2]]
<1>1. /\ local[s] \in Local /\ s \notin Handler \cup Request /\ local[s].batch = None
      /\ UNCHANGED <<stored, delivered, chain, sent>>
  BY Mover, ProcAssumption DEF LookupTransaction, LocalTruthful
<1>2. PICK w \in local[s].work : \/ Becomes(s, AfterEntry(found(w)))
                                 \/ Becomes(s, [found(w) EXCEPT !.pc = "load"])
  BY DEF LookupTransaction
<1>3. found(w) \in Local /\ found(w).work = local[s].work
  BY <1>1, <1>2 DEF Local
<1>4. [found(w) EXCEPT !.pc = "load"] \in Local /\ [found(w) EXCEPT !.pc = "load"].batch = None
  BY <1>1, <1>3 DEF Local, PC
<1> HIDE DEF found
<1> QED  BY <1>1, <1>2, <1>3, <1>4, AfterEntryOnce, QuietStep

LEMMA DropTransactionOnce ==
    ASSUME IInv, IInv', OnceInv, NEW s \in Sweep, DropTransaction(s)
    PROVE  OnceKept
<1> DEFINE l == local[s]
           b == l.id
           d == [stored[b] EXCEPT !.item[l.tx] = "dropped", !.status = "dropped"]
           n == [l EXCEPT !.pc = "save", !.batch = d]
<1>1. /\ l \in Local /\ s \notin Handler \cup Request /\ b \in Batch
      /\ UNCHANGED <<stored, delivered, chain, sent>>
  BY Mover, ProcAssumption DEF DropTransaction, LocalTruthful
<1>2. CASE Becomes(s, AfterEntry(l))
  BY <1>1, <1>2, AfterEntryOnce
<1>3. CASE stored[b] # None /\ l.tx \in BatchItems(b) /\ Becomes(s, n)
  <2>1. stored[b] \in TransactionBatch /\ Shows(b, stored[b]) /\ l.tx \in Tx
    BY <1>1, <1>3, BatchItemsType DEF OnceInv, IInv, TypeOK
  <2>2. /\ d \in TransactionBatch /\ d.status = "dropped"
        /\ \A t \in Tx : d.item[t] = IF t = l.tx THEN "dropped" ELSE stored[b].item[t]
    BY <2>1 DEF TransactionBatch, BatchStatus, ItemStatus
  <2>3. Shows(b, d)
    <3> HIDE DEF d
    <3> QED  BY <1>1, <2>1, <2>2, BatchItemsType DEF Shows
  <2>4. n \in Local /\ n.id = b /\ n.batch = d
    BY <1>1, <2>2 DEF Local, PC
  <2> HIDE DEF n, d
  <2> QED  BY <1>1, <1>3, <2>3, <2>4, QuietStep
<1> QED  BY <1>2, <1>3 DEF DropTransaction

LEMMA HandleTransactionBatchesOnce ==
    ASSUME ~Redelivery, IInv, IInv', OnceInv, NEW h \in Handler, HandleTransactionBatches(h)
    PROVE  OnceKept
<1>1. /\ UNCHANGED <<stored, chain, sent>> /\ h \notin Request /\ ~Holding(local[h])
      /\ Grows(chain, chain', sent, sent')
  BY ProcAssumption DEF HandleTransactionBatches, Holding, Grows
<1>2. PICK T \in SUBSET {t \in Tx : chain[t] \in Outcome /\ t \notin delivered} :
          /\ delivered' = delivered \cup T
          /\ LET found == {w \in T \X Batch : pendingKey[w[1]] = w[2]} IN
             IF found = {} THEN UNCHANGED local
             ELSE Becomes(h, Scanning(found, {}))
  BY DEF HandleTransactionBatches
<1> DEFINE found == {w \in T \X Batch : pendingKey[w[1]] = w[2]}
           n == Scanning(found, {})
<1>3. CASE UNCHANGED local
  BY <1>1, <1>2, <1>3, OnceEnvironment
<1>4. CASE Becomes(h, n)
  <2>1. \A w \in found : w \in Hash \X Batch /\ w[1] \in delivered' \ delivered
    BY <1>2
  <2> HIDE DEF found
  <2>2. n \in Local /\ n.pc = "scan" /\ n.batch = None /\ n.work = found
    BY <2>1 DEF Scanning, Idle, Local, PC
  <2> HIDE DEF n
  <2>3. Moves(h, n)
    BY <1>1, <1>2, <1>4, <2>1, <2>2 DEF Moves, KeepsEntries, KeepsSends
  <2> QED  BY <1>1, <2>2, <2>3, OnceStep
<1> QED  BY <1>2, <1>3, <1>4

LEMMA FailOnce ==
    ASSUME IInv, IInv', OnceInv, NEW p \in Proc, Fail(p)
    PROVE  OnceKept
<1> DEFINE l == local[p]
<1>1. /\ l \in Local /\ UNCHANGED <<stored, delivered, chain, sent>>
  BY Mover DEF Fail
<1>2. CASE p \in Request /\ Becomes(p, [l EXCEPT !.pc = "failed"])
  <2> DEFINE n == [l EXCEPT !.pc = "failed"]
  <2>1. n \in Local /\ n.pc = "failed"
    BY <1>1 DEF Local, PC
  <2>2. RequestOnce(n)
    BY <2>1 DEF RequestOnce
  <2> HIDE DEF n
  <2> QED  BY <1>1, <1>2, <2>1, <2>2, Mover, QuietStep DEF n
<1>3. CASE p \notin Request /\ Becomes(p, Idle)
  <2>1. Idle \in Local /\ Idle.pc = "idle" /\ Idle.batch = None /\ Idle.work = {}
    BY DEF Idle, Local, PC
  <2> QED  BY <1>1, <1>3, <2>1, QuietStep
<1>4. CASE /\ p \in Handler /\ l.pc \in {"register", "save"}
           /\ Becomes(p, [l EXCEPT !.pc = "delete", !.touched = {},
                                    !.work = @ \cap {<<l.tx, l.id>>}])
  <2> DEFINE n == [l EXCEPT !.pc = "delete", !.touched = {}, !.work = @ \cap {<<l.tx, l.id>>}]
  <2>1. /\ n \in Local /\ n.pc = "delete" /\ n.id = l.id /\ n.batch = l.batch
        /\ n.tx = l.tx /\ n.work \subseteq l.work
    BY <1>1 DEF Local, PC
  <2> HIDE DEF n
  <2> QED  BY <1>1, <1>4, <2>1, Mover, QuietStep DEF Holding, n
<1>5. CASE /\ p \in Handler /\ l.pc = "scan"
           /\ \E w \in l.work :
                 Becomes(p, [l EXCEPT !.pc = "delete", !.tx = w[1], !.id = w[2],
                                      !.work = {w}, !.touched = {}])
  <2>1. PICK w \in l.work : Becomes(p, [l EXCEPT !.pc = "delete", !.tx = w[1], !.id = w[2],
                                                 !.work = {w}, !.touched = {}])
    BY <1>5
  <2> DEFINE n == [l EXCEPT !.pc = "delete", !.tx = w[1], !.id = w[2],
                            !.work = {w}, !.touched = {}]
  <2>2. l.batch = None
    BY <1>5, Mover DEF LocalTruthful
  <2>3. n \in Local /\ n.pc = "delete" /\ n.batch = None /\ n.work \subseteq l.work
    BY <1>1, <2>2 DEF Local, PC
  <2> HIDE DEF n
  <2> QED  BY <1>1, <1>5, <2>1, <2>3, Mover, QuietStep DEF Holding, n
<1>6. CASE /\ p \in Sweep /\ l.pc = "scan"
           /\ \E w \in l.work : Becomes(p, [l EXCEPT !.work = @ \ {w}])
  <2>1. PICK w \in l.work : Becomes(p, [l EXCEPT !.work = @ \ {w}])
    BY <1>6
  <2> DEFINE n == [l EXCEPT !.work = @ \ {w}]
  <2>2. l.batch = None
    BY <1>6, Mover DEF LocalTruthful
  <2>3. n \in Local /\ n.batch = None
    BY <1>1, <2>2 DEF Local
  <2>4. p \notin Handler \cup Request
    BY <1>6, ProcAssumption
  <2> HIDE DEF n
  <2> QED  BY <1>1, <2>1, <2>3, <2>4, QuietStep DEF n
<1>7. CASE p \in Sweep /\ Becomes(p, AfterEntry(l))
  BY <1>1, <1>7, AfterEntryOnce
<1> QED  BY <1>2, <1>3, <1>4, <1>5, <1>6, <1>7 DEF Fail

----------------------------------------------------------------------------
(* Every action keeps OnceInv: the sends and the executed transactions. *)

\* A handler that fails to send an item leaves it unsent for good.
LEMMA RefusedIsVoid ==
    ASSUME IInv, OnceInv, NEW h \in Handler, NEW n, Moves(h, n), UNCHANGED sent,
           NEW b \in Batch, NEW k \in DOMAIN Groups[b], NEW i \in DOMAIN Groups[b][k],
           Sending(h, b, k), i = local[h].next, i < n.next
    PROVE  Void(b, Groups[b][k][i])'
<1>1. HandlerOnce(h, local[h]) /\ local[h] \in Local /\ TypeOK
  BY DEF OnceInv, IInv, TypeOK
<1>2. /\ k > 1 /\ <<b, Groups[b][k][i]>> \notin sent'
      /\ \A g \in Handler \ {h} : ~Sending(g, b, k)
  BY <1>1 DEF HandlerOnce, Sending, Local
<1>3. GroupTaken(b, k - 1)
  BY <1>2 DEF OnceInv, Started
<1>4. GroupTaken(b, k - 1)'
  BY <1>1, <1>3, TakenStays DEF GroupTaken
<1>5. /\ local'[h] = n /\ \A q \in Proc \ {h} : local'[q] = local[q]
  BY <1>1, Moved DEF Moves
<1>6. \A g \in Handler : Sending(g, b, k)' => i < local'[g].next
  BY <1>2, <1>5 DEF Sending
<1> QED  BY <1>2, <1>4, <1>6 DEF Void, Skipped

LEMMA ExecuteTransactionOnce ==
    ASSUME IInv, IInv', OnceInv, NEW p \in Proc, p \notin Sweep, ExecuteTransaction(p)
    PROVE  OnceKept
<1> DEFINE l == local[p]
<1>0. /\ l \in Local /\ l.pc = "send" /\ l.id \in Batch /\ l.batch \in TransactionBatch
      /\ l.batch # None /\ l.group \in DOMAIN Groups[l.id]
      /\ l.next \in DOMAIN Groups[l.id][l.group]
  BY Mover DEF ExecuteTransaction, LocalTruthful, Local
<1>b. PICK b \in Batch : b = l.id
  BY <1>0
<1>k. PICK k \in DOMAIN Groups[b] : k = l.group
  BY <1>0, <1>b
<1>i. PICK i \in DOMAIN Groups[b][k] : i = l.next
  BY <1>0, <1>b, <1>k
<1> DEFINE t == Groups[b][k][i]
           pooled == [chain EXCEPT ![t] = IF @ = "unknown" THEN "pool" ELSE @]
           Executed(hash) ==
               [l EXCEPT !.next = @ + 1,
                         !.batch.hash[t] = hash,
                         !.hashes = IF l.batch.item[t] = "pending" THEN @ \cup {hash} ELSE @]
           refused == [l EXCEPT !.next = Len(Groups[b][k]) + 1, !.batch.item[t] = "invalid"]
<1>1. /\ l \in Local /\ l.pc = "send" /\ l.batch \in TransactionBatch /\ l.batch # None
      /\ l.id = b /\ l.group = k /\ l.next = i
  BY <1>0, <1>b, <1>k, <1>i
<1>2. /\ t \in Tx /\ t \in GroupItems(b, k) /\ i \in Nat /\ i < Len(Groups[b][k]) + 1
      /\ Len(Groups[b][k]) + 1 \in Nat
  <2>1. Groups[b][k] \in Seq(Tx)
    BY GroupItemsType
  <2>2. i \in Nat /\ i <= Len(Groups[b][k]) /\ Len(Groups[b][k]) \in Nat
    BY <2>1
  <2>3. t \in Tx /\ t \in GroupItems(b, k)
    BY <2>1 DEF GroupItems
  <2> QED  BY <2>2, <2>3
<1>3. /\ UNCHANGED <<stored, delivered>> /\ chain' \in {chain, pooled}
      /\ sent' \in {sent, sent \cup {<<b, t>>}}
  BY <1>1 DEF ExecuteTransaction
<1>4. Grows(chain, chain', sent, sent')
  BY <1>2, <1>3 DEF Grows, Outcome, IInv, TypeOK
<1>5. ASSUME NEW n \in Local, Becomes(p, n), n.pc = "send", n.id = b, n.group = k,
             i < n.next, n.tx = l.tx, n.work = l.work,
             p \in Request => RequestOnce(n),
             NEW c \in TransactionBatch, n.batch = c, c.status = l.batch.status,
             \/ c.item = l.batch.item
             \/ /\ c.item = [l.batch.item EXCEPT ![t] = "invalid"] /\ sent' = sent
      PROVE  OnceKept
  <2>1. n.next \in Nat
    BY <1>5 DEF Local
  <2>2. GoesOn(p, n)
    BY <1>1, <1>2, <1>5, <2>1 DEF GoesOn
  <2>3. KeepsEntries(p, n)
    BY <1>1, <1>5 DEF KeepsEntries, Holding
  <2>4. KeepsSends(p, n)
    <3>1. Sends(p, b, k, i)
      BY <1>1 DEF Sends
    <3> QED  BY <1>1, <1>3, <1>5, <3>1 DEF KeepsSends
  <2>5. Moves(p, n)
    BY <1>3, <1>4, <1>5, <2>2, <2>3, <2>4 DEF Moves
  <2>6. ASSUME p \in Handler
        PROVE  Shows(b, c)'
    <3>1. PICK d : d = l.batch
      OBVIOUS
    <3>2. Shows(b, d)'
      BY <1>1, <2>5, <2>6, <3>1, Mover, ShowsStays
    <3>3. CASE c.item = d.item
      BY <1>5, <3>1, <3>2, <3>3 DEF Shows
    <3>4. CASE c.item = [d.item EXCEPT ![t] = "invalid"] /\ sent' = sent
      <4>1. Sending(p, b, k)
        BY <1>1 DEF Sending
      <4>2. Void(b, t)'
        BY <1>1, <1>5, <2>5, <2>6, <3>4, <4>1, RefusedIsVoid
      <4>3. \A v \in Tx : c.item[v] = IF v = t THEN "invalid" ELSE d.item[v]
        BY <1>1, <3>1, <3>4 DEF TransactionBatch
      <4> HIDE DEF t
      <4> QED  BY <1>5, <3>1, <3>2, <4>2, <4>3, BatchItemsType DEF Shows
    <3> QED  BY <1>5, <3>1, <3>3, <3>4
  <2>7. p \notin Request => p \in Handler
    OBVIOUS
  <2> QED  BY <1>3, <1>5, <2>5, <2>6, <2>7, OnceStep
<1>6. ASSUME NEW hash \in Hash, Becomes(p, Executed(hash))
      PROVE  OnceKept
  <2> DEFINE c == [l.batch EXCEPT !.hash[t] = hash]
             hs == IF l.batch.item[t] = "pending" THEN l.hashes \cup {hash} ELSE l.hashes
             n == [l EXCEPT !.next = i + 1, !.batch = c, !.hashes = hs]
  <2>1. Executed(hash) = n
    BY <1>1 DEF Local
  <2>2. c \in TransactionBatch /\ c.status = l.batch.status /\ c.item = l.batch.item
    BY <1>1, <1>2, <1>6 DEF TransactionBatch
  <2>3. n.pc = "send" /\ n.id = b /\ n.group = k /\ i < n.next /\ n.tx = l.tx
        /\ n.work = l.work /\ n.batch = c
    BY <1>1, <1>2 DEF Local
  <2>4. n \in Local
    BY <1>6, <2>1, Moved, Mover DEF IInv, TypeOK, Becomes
  <2>5. p \in Request => RequestOnce(n)
    <3> HIDE DEF n, c
    <3> QED  BY <1>1, <2>2, <2>3, Mover DEF RequestOnce
  <2> HIDE DEF n, c
  <2> QED  BY <1>5, <1>6, <2>1, <2>2, <2>3, <2>4, <2>5
<1>7. CASE Becomes(p, refused) /\ sent' = sent
  <2> DEFINE c == [l.batch EXCEPT !.item[t] = "invalid"]
             n == [l EXCEPT !.next = Len(Groups[b][k]) + 1, !.batch = c]
  <2>1. refused = n
    BY <1>1 DEF Local
  <2>2. /\ c \in TransactionBatch /\ c.status = l.batch.status
        /\ c.item = [l.batch.item EXCEPT ![t] = "invalid"]
        /\ \A v \in Tx : c.item[v] = IF v = t THEN "invalid" ELSE l.batch.item[v]
    BY <1>1, <1>2 DEF TransactionBatch, ItemStatus, Outcome
  <2>3. n \in Local
    BY <1>1, <1>2, <2>2 DEF Local
  <2>4. n.pc = "send" /\ n.id = b /\ n.group = k /\ i < n.next /\ n.tx = l.tx
        /\ n.work = l.work /\ n.batch = c
    BY <1>1, <1>2 DEF Local
  <2>5. p \in Request => RequestOnce(n)
    <3>1. p \in Request => RequestOnce(l) /\ k = 1
      BY <1>1, Mover DEF RequestOnce
    <3> HIDE DEF n, c, t
    <3> QED  BY <1>1, <1>2, <2>2, <2>4, <3>1, BatchItemsType DEF RequestOnce
  <2> HIDE DEF n, c
  <2> QED  BY <1>5, <1>7, <2>1, <2>2, <2>3, <2>4, <2>5
<1>8. \/ \E hash \in Hash : Becomes(p, Executed(hash))
      \/ Becomes(p, refused) /\ sent' = sent
  BY <1>1, <1>2 DEF ExecuteTransaction
<1> QED  BY <1>6, <1>7, <1>8

\* What the step of a handler that takes up entry <<t, b>> keeps, and that the
\* entry is taken up then.
LEMMA TakesUp ==
    ASSUME IInv, OnceInv, NEW h \in Handler, NEW t, NEW b,
           local[h].pc = "scan", <<t, b>> \in local[h].work, UNCHANGED delivered,
           NEW n \in Local, Becomes(h, n), n.pc \in {"send", "save"},
           n.tx = t, n.id = b, n.work = local[h].work
    PROVE  KeepsEntries(h, n) /\ Taken(t, b)'
<1>1. KeepsEntries(h, n)
  BY DEF KeepsEntries, Holding
<1>2. /\ local'[h] = n /\ \A q \in Proc \ {h} : local'[q] = local[q]
  BY Moved DEF IInv
<1>3. HandlerOnce(h, local[h])
  BY DEF OnceInv
<1>4. t \in delivered'
  BY <1>3 DEF HandlerOnce
<1>5. ASSUME NEW g \in Handler, <<t, b>> \in local'[g].work
      PROVE  g = h
  BY <1>2, <1>3, <1>5 DEF HandlerOnce
<1> QED  BY <1>1, <1>2, <1>4, <1>5 DEF Taken, Holding

\* The copy a handler goes on with shows what was taken up and what is void.
LEMMA UpdatedShows ==
    ASSUME IInv, OnceInv, NEW h \in Handler, NEW n, Moves(h, n), UNCHANGED sent,
           NEW b \in Batch, NEW t \in BatchItems(b), Taken(t, b)',
           chain[t] \in Outcome, UNCHANGED chain,
           NEW c \in TransactionBatch, Shows(b, c),
           NEW d \in TransactionBatch, d.item = [c.item EXCEPT ![t] = chain[t]],
           d.status = "success" =>
              d.status = c.status \/ \A u \in BatchItems(b) : <<b, u>> \in sent,
           d.status = "invalid" => d.status = c.status \/ chain[t] = "invalid"
    PROVE  Shows(b, d)'
<1>1. Shows(b, c)' /\ t \in Tx
  BY ShowsStays, BatchItemsType
<1>2. \A u \in Tx : d.item[u] = IF u = t THEN chain[t] ELSE c.item[u]
  BY <1>1 DEF TransactionBatch
<1>3. chain[t] = "invalid" => Void(b, t)' /\ Doomed(b)'
  BY DEF Void, Doomed
<1> QED  BY <1>1, <1>2, <1>3, BatchItemsType DEF Shows

\* All the items of a batch were sent once each of its last group succeeded.
LEMMA LastGroupSent ==
    ASSUME IInv, OnceInv, NEW b \in Batch, NEW k \in DOMAIN Groups[b],
           NEW t \in GroupItems(b, k), IsLastGroup(b, k),
           \A u \in GroupItems(b, k) : <<b, u>> \in sent
    PROVE  \A u \in BatchItems(b) : <<b, u>> \in sent
<1> SUFFICES ASSUME NEW j \in DOMAIN Groups[b], NEW u \in GroupItems(b, j)
             PROVE  <<b, u>> \in sent
  BY DEF BatchItems
<1>1. j \in Nat \ {0} /\ j <= k /\ k \in Nat
  BY GroupItemsType DEF IsLastGroup
<1>2. CASE j = k
  BY <1>2
<1>3. CASE j # k
  <2>1. k > 1 /\ j \in 1..(k - 1)
    BY <1>1, <1>3
  <2>2. Started(b, k)
    BY <2>1 DEF Started
  <2> QED  BY <2>1, <2>2 DEF OnceInv
<1> QED  BY <1>2, <1>3

LEMMA UpdateItemOnce ==
    ASSUME IInv, IInv', OnceInv, NEW h \in Handler, NEW l \in Local,
           local[h].pc = "scan", l.work = local[h].work, <<l.tx, l.id>> \in l.work,
           l.id \in Batch, l.batch = stored[l.id], stored[l.id] # None,
           chain[l.tx] \in Outcome, <<l.id, l.tx>> \in sent,
           UNCHANGED <<stored, delivered, chain, sent>>,
           NEW k \in DOMAIN Groups[l.id], l.tx \in GroupItems(l.id, k),
           UpdateItem(h, l, k)
    PROVE  OnceKept
<1>b. PICK b \in Batch : b = l.id
  OBVIOUS
<1>c. PICK c \in TransactionBatch : c = l.batch
  BY DEF IInv, TypeOK
<1> DEFINE t == l.tx
           v == chain[t]
           batch == [l.batch EXCEPT !.item[t] = v]
           saved(s) == [batch EXCEPT !.status = s]
<1>1. /\ t \in Tx /\ t \in BatchItems(b) /\ Shows(b, c) /\ Truthful(b, c, chain, sent)
      /\ v \in ItemStatus /\ h \notin Request
      /\ Grows(chain, chain', sent, sent')
  <2>1. t \in Tx /\ t \in BatchItems(b)
    BY <1>b, GroupItemsType
  <2>2. Shows(b, c) /\ Truthful(b, c, chain, sent)
    BY <1>b, <1>c DEF OnceInv, IInv
  <2>3. v \in ItemStatus
    BY DEF ItemStatus
  <2> QED  BY <2>1, <2>2, <2>3, ProcAssumption DEF Grows
<1>2. /\ batch \in TransactionBatch /\ batch.status = c.status
      /\ batch.item = [c.item EXCEPT ![t] = v]
      /\ \A u \in Tx : batch.item[u] = IF u = t THEN v ELSE c.item[u]
  BY <1>1, <1>c DEF TransactionBatch
<1>3. ASSUME GroupSucceeded(b, k, batch)
      PROVE  \A u \in GroupItems(b, k) :
                /\ <<b, u>> \in sent
                /\ u = t \/ Taken(u, b)
  <2> HIDE DEF batch
  <2> SUFFICES ASSUME NEW u \in GroupItems(b, k)
               PROVE  <<b, u>> \in sent /\ (u = t \/ Taken(u, b))
    OBVIOUS
  <2>1. u \in Tx /\ u \in BatchItems(b) /\ batch.item[u] = "success"
    BY <1>3, <1>b, GroupItemsType DEF GroupSucceeded
  <2>2. CASE u = t
    BY <2>2, <1>b
  <2>3. CASE u # t
    <3>1. c.item[u] = "success"
      BY <1>2, <2>1, <2>3
    <3>2. <<b, u>> \in sent
      BY <1>1, <2>1, <3>1 DEF Truthful
    <3>3. Taken(u, b)
      BY <1>1, <2>1, <3>1 DEF Shows
    <3> QED  BY <3>2, <3>3
  <2> QED  BY <2>2, <2>3
<1>4. ASSUME NEW s \in BatchStatus,
             s = "success" => s = c.status \/ \A u \in BatchItems(b) : <<b, u>> \in sent,
             s = "invalid" => s = c.status \/ v = "invalid",
             Becomes(h, [l EXCEPT !.pc = "save", !.batch = saved(s)])
      PROVE  OnceKept
  <2> DEFINE n == [l EXCEPT !.pc = "save", !.batch = saved(s)]
  <2>1. saved(s) \in TransactionBatch /\ saved(s).status = s /\ saved(s).item = batch.item
    <3> HIDE DEF batch
    <3> QED  BY <1>2 DEF TransactionBatch
  <2> HIDE DEF saved
  <2>2. /\ n \in Local /\ n.pc = "save" /\ n.id = b /\ n.tx = t /\ n.work = l.work
        /\ n.batch = saved(s)
    BY <2>1, <1>b DEF Local, PC
  <2> HIDE DEF n
  <2>3. KeepsEntries(h, n) /\ Taken(t, b)'
    BY <1>4, <1>b, <2>2, TakesUp DEF n
  <2>4. Moves(h, n)
    BY <1>1, <1>4, <2>2, <2>3 DEF Moves, KeepsSends, n
  <2>5. PICK d \in TransactionBatch : d = saved(s)
    BY <2>1
  <2>6. Shows(b, d)'
    <3> HIDE DEF batch
    <3> QED  BY <1>1, <1>2, <1>4, <2>1, <2>3, <2>4, <2>5, UpdatedShows
  <2> QED  BY <1>1, <2>2, <2>4, <2>5, <2>6, OnceStep
<1>5. CASE v = "invalid" /\ Becomes(h, [l EXCEPT !.pc = "save", !.batch = saved("invalid")])
  BY <1>4, <1>5 DEF BatchStatus
<1>6. CASE GroupSucceeded(b, k, batch) /\ IsLastGroup(b, k)
           /\ Becomes(h, [l EXCEPT !.pc = "save", !.batch = saved("success")])
  <2>1. \A u \in BatchItems(b) : <<b, u>> \in sent
    BY <1>3, <1>6, <1>b, LastGroupSent
  <2> QED  BY <1>4, <1>6, <2>1 DEF BatchStatus
<1>7. CASE GroupSucceeded(b, k, batch) /\ ~IsLastGroup(b, k)
           /\ Becomes(h, StartGroup(l, b, batch, k + 1))
  <2> DEFINE n == StartGroup(l, b, batch, k + 1)
  <2>1. k + 1 \in DOMAIN Groups[b] /\ k \in DOMAIN Groups[b] /\ k + 1 \in Nat
    <3>1. Groups[b] \in Seq(Seq(Tx)) /\ k \in Nat /\ k <= Len(Groups[b]) /\ k # Len(Groups[b])
      BY <1>7, <1>b, GroupItemsType, GroupsAssumption DEF IsLastGroup
    <3> QED  BY <1>b, <3>1
  <2>2. /\ n \in Local /\ n.pc = "send" /\ n.id = b /\ n.tx = t /\ n.work = l.work
        /\ n.batch = batch /\ n.group = k + 1
    <3> HIDE DEF batch
    <3> QED  BY <1>2, <2>1 DEF Local, PC, StartGroup
  <2> HIDE DEF n
  <2>3. KeepsEntries(h, n) /\ Taken(t, b)'
    BY <1>7, <1>b, <2>2, TakesUp DEF n
  <2>4. GroupTaken(b, k)'
    <3>1. PICK x : x = t
      OBVIOUS
    <3>2. \A u \in GroupItems(b, k) : u = x \/ Taken(u, b)
      BY <1>3, <1>7, <3>1
    <3>3. \A u : Taken(u, b) => Taken(u, b)'
      BY <1>7, <2>2, <2>3, TakenKept DEF n, IInv
    <3>4. Taken(x, b)'
      BY <2>3, <3>1
    <3> QED  BY <3>2, <3>3, <3>4 DEF GroupTaken
  <2>5. Starts(h, n, b, k)
    BY <1>3, <1>7, <1>b, <2>1, <2>2, <2>4 DEF Starts
  <2>6. Moves(h, n)
    BY <1>1, <1>7, <2>1, <2>2, <2>3, <2>5 DEF Moves, KeepsSends, n
  <2>7. PICK d \in TransactionBatch : d = batch
    BY <1>2
  <2>8. Shows(b, d)'
    <3> HIDE DEF batch
    <3> QED  BY <1>1, <1>2, <2>3, <2>6, <2>7, UpdatedShows
  <2> QED  BY <1>1, <2>2, <2>6, <2>7, <2>8, OnceStep
<1>8. CASE Becomes(h, [l EXCEPT !.pc = "save", !.batch = saved(batch.status)])
  BY <1>2, <1>4, <1>8 DEF TransactionBatch
<1> QED  BY <1>b, <1>5, <1>6, <1>7, <1>8 DEF UpdateItem, ReceivedStatus

LEMMA ProcessTransactionOnce ==
    ASSUME IInv, IInv', OnceInv, NEW h \in Handler, ProcessTransaction(h)
    PROVE  OnceKept
<1> DEFINE loaded(w) == [local[h] EXCEPT !.pc = "load", !.tx = w[1], !.id = w[2],
                                         !.batch = stored[w[2]]]
<1>1. /\ local[h] \in Local /\ local[h].pc = "scan" /\ h \notin Request /\ h \in Proc
      /\ UNCHANGED <<stored, delivered, chain, sent>>
  BY Mover DEF ProcessTransaction
<1>2. PICK w \in local[h].work :
        \/ Becomes(h, [loaded(w) EXCEPT !.pc = "delete"])
        \/ /\ stored[w[2]] # None
           /\ \E k \in DOMAIN Groups[w[2]] :
                 w[1] \in GroupItems(w[2], k) /\ UpdateItem(h, loaded(w), k)
  BY DEF ProcessTransaction
<1>3. /\ w = <<w[1], w[2]>> /\ w[1] \in Tx /\ w[2] \in Batch
      /\ chain[w[1]] \in Outcome /\ <<w[2], w[1]>> \in sent
      /\ stored[w[2]] \in TransactionBatch \cup {None}
      /\ stored[w[2]] # None => Shows(w[2], stored[w[2]])
  <2>1. w \in Hash \X Batch
    BY <1>1, <1>2 DEF Local
  <2>2. w[1] \in Tx /\ chain[w[1]] \in Outcome /\ <<w[2], w[1]>> \in sent
    BY <1>1, <1>2 DEF IInv, HandlerTruthful, LocalTruthful
  <2> QED  BY <2>1, <2>2 DEF OnceInv, IInv, TypeOK
<1>4. /\ loaded(w) \in Local /\ loaded(w).tx = w[1] /\ loaded(w).id = w[2]
      /\ loaded(w).batch = stored[w[2]] /\ loaded(w).work = local[h].work
  BY <1>1, <1>3 DEF Local, PC
<1>5. CASE Becomes(h, [loaded(w) EXCEPT !.pc = "delete"])
  <2> DEFINE n == [loaded(w) EXCEPT !.pc = "delete"]
  <2>1. /\ n \in Local /\ n.pc = "delete" /\ n.id = w[2] /\ n.batch = stored[w[2]]
        /\ n.work = local[h].work
    <3> HIDE DEF loaded
    <3> QED  BY <1>4 DEF Local, PC
  <2> HIDE DEF n
  <2> QED  BY <1>1, <1>3, <1>5, <2>1, QuietStep DEF n, Holding
<1>6. CASE /\ stored[w[2]] # None
           /\ \E k \in DOMAIN Groups[w[2]] :
                 w[1] \in GroupItems(w[2], k) /\ UpdateItem(h, loaded(w), k)
  <2>1. PICK k \in DOMAIN Groups[w[2]] :
            w[1] \in GroupItems(w[2], k) /\ UpdateItem(h, loaded(w), k)
    BY <1>6
  <2>2. PICK l \in Local : l = loaded(w)
    BY <1>4
  <2>3. /\ l.tx = w[1] /\ l.id = w[2] /\ l.batch = stored[w[2]] /\ l.work = local[h].work
        /\ UpdateItem(h, l, k)
    BY <1>4, <2>1, <2>2
  <2> QED  BY <1>1, <1>2, <1>3, <1>6, <2>1, <2>3, UpdateItemOnce
<1> QED  BY <1>2, <1>5, <1>6

LEMMA EnvironmentOnce ==
    ASSUME IInv, IInv', OnceInv, Environment
    PROVE  OnceKept
<1>1. ASSUME NEW t \in Tx, ExecuteOnChain(t) \/ ForgetTransaction(t)
      PROVE  OnceKept
  <2>1. Grows(chain, chain', sent, sent')
    BY <1>1 DEF ExecuteOnChain, ForgetTransaction, Grows, Outcome, IInv, TypeOK
  <2> QED  BY <1>1, <2>1, OnceEnvironment DEF ExecuteOnChain, ForgetTransaction
<1>2. ASSUME NEW h \in Hash, TenMinutesPass(h) \/ ExpirePendingKey(h)
      PROVE  OnceKept
  BY <1>2, OnceEnvironment DEF TenMinutesPass, ExpirePendingKey, Grows
<1>3. ASSUME NEW b \in Batch, ExpireBatch(b)
      PROVE  OnceKept
  <2>1. \A c \in Batch : stored'[c] = None \/ stored'[c] = stored[c]
    BY <1>3 DEF ExpireBatch, IInv, TypeOK
  <2> QED  BY <1>3, <2>1, OnceEnvironment DEF ExpireBatch, Grows
<1> QED  BY <1>1, <1>2, <1>3, FailOnce DEF Environment

----------------------------------------------------------------------------
(* The theorems. *)

LEMMA InitOnce == Init => OnceInv
<1> SUFFICES ASSUME Init PROVE OnceInv
  OBVIOUS
<1>1. \A p \in Proc : local[p] = Idle
  BY DEF Init
<1>2. Idle.pc = "idle" /\ Idle.batch = None /\ Idle.work = {}
  BY DEF Idle
<1>3. \A b, k : ~Started(b, k)
  BY <1>1, <1>2 DEF Init, Started, Sending
<1> QED  BY <1>1, <1>2, <1>3 DEF Init, OnceInv, RequestOnce, HandlerOnce

\* Each step of a process or of its environment keeps OnceInv, and keeps a batch
\* doomed that cannot succeed any more.
THEOREM StepOnce ==
    ASSUME ~Redelivery PROVE IInv /\ IInv' /\ OnceInv /\ [Next]_vars => OnceKept
<1> SUFFICES ASSUME IInv, IInv', OnceInv, [Next]_vars PROVE OnceKept
  OBVIOUS
<1>1. ASSUME NEW r \in Request, RequestStep(r) PROVE OnceKept
  <2>1. r \notin Sweep
    BY ProcAssumption
  <2> QED  BY <1>1, <2>1, StartTransactionBatchOnce, ExecuteTransactionOnce, GroupSentOnce,
              SetPendingTransactionOnce, FirstGroupStartedOnce, SaveNewBatchOnce
           DEF RequestStep
<1>2. ASSUME NEW h \in Handler, HandleTransactionBatches(h) \/ HandlerStep(h) PROVE OnceKept
  <2>1. h \notin Sweep
    BY ProcAssumption
  <2> QED  BY <1>2, <2>1, HandleTransactionBatchesOnce, ProcessTransactionOnce,
              ExecuteTransactionOnce, GroupSentOnce, SetPendingTransactionOnce,
              NextGroupStartedOnceStep, SaveBatchOnce, DeletePendingTransactionOnce,
              EmitBatchUpdatedOnce
           DEF HandlerStep
<1>3. ASSUME NEW s \in Sweep, HandleDroppedTransactions(s) \/ SweepStep(s) PROVE OnceKept
  BY <1>3, HandleDroppedTransactionsOnce, LookupTransactionOnce, DropTransactionOnce,
     SaveBatchOnce, DeletePendingTransactionOnce, EmitBatchUpdatedOnce DEF SweepStep
<1>4. CASE UNCHANGED vars
  BY <1>4, OnceEnvironment DEF vars, Grows
<1> QED  BY <1>1, <1>2, <1>3, <1>4, EnvironmentOnce DEF Next

\* The inductive invariant about what was started, taken up and left unsent: it
\* holds as long as the processor of blocks saves its nonces.
THEOREM OnceInvariance == ASSUME ~Redelivery PROVE Spec => []OnceInv
<1>1. IInv /\ IInv' /\ OnceInv /\ [Next]_vars => OnceInv'
  BY StepOnce DEF OnceKept
<1> QED  BY <1>1, InitOnce, Invariance, PTL DEF Spec

LEMMA OnceNextGroup == IInv /\ OnceInv => NextGroupStartedOnce
<1> SUFFICES ASSUME IInv, OnceInv, NEW h \in Handler,
                    local[h].pc = "send", local[h].next = 1
             PROVE  /\ \A t \in GroupItems(local[h].id, local[h].group) :
                          <<local[h].id, t>> \notin sent
                    /\ \A g \in Handler \ {h} : ~Sending(g, local[h].id, local[h].group)
  BY DEF NextGroupStartedOnce, Sending
<1>1. HandlerOnce(h, local[h]) /\ local[h].id \in Batch
      /\ local[h].group \in DOMAIN Groups[local[h].id]
  BY DEF OnceInv, IInv, LocalTruthful
<1>2. \A i \in DOMAIN Groups[local[h].id][local[h].group] : 1 <= i
  <2>1. Groups[local[h].id][local[h].group] \in Seq(Tx)
    BY <1>1, GroupItemsType
  <2> QED  BY <2>1
<1> QED  BY <1>1, <1>2 DEF HandlerOnce, GroupItems

\* No two handlers of blocks start the same group, and none starts a group of which
\* something was sent, as long as no block is received again: each decides on its own
\* copy of the batch (processTransaction).
THEOREM NextGroupOnce == ASSUME ~Redelivery PROVE Spec => []NextGroupStartedOnce
<1> QED  BY OnceInvariance, Invariance, OnceNextGroup, PTL

\* A batch stored as invalid is never stored as successful later: "this is to prevent
\* an invalid batch to become successful" (processTransaction), with copies of the
\* batch read before it became invalid, with sends that failed and with batches that
\* expired and were posted again, but not with blocks that are received again.
THEOREM InvalidStays == ASSUME ~Redelivery PROVE Spec => InvalidNeverSuccessful
<1> SUFFICES ASSUME NEW b \in Batch
             PROVE  Spec => []((stored[b] # None /\ stored[b].status = "invalid")
                                => [](stored[b] # None => stored[b].status # "success"))
  BY DEF InvalidNeverSuccessful
<1>1. OnceInv => (stored[b] # None /\ stored[b].status = "invalid" => Doomed(b))
  BY DEF OnceInv, Shows
<1>2. IInv /\ IInv' /\ OnceInv /\ [Next]_vars => (Doomed(b) => Doomed(b)')
  BY StepOnce DEF OnceKept
<1>3. IInv /\ OnceInv => (Doomed(b) => (stored[b] # None => stored[b].status # "success"))
  <2> SUFFICES ASSUME IInv, OnceInv, Doomed(b), stored[b] # None, stored[b].status = "success"
               PROVE  FALSE
    OBVIOUS
  <2>1. \A t \in BatchItems(b) : chain[t] = "success" /\ <<b, t>> \in sent
    BY DEF IInv, Truthful, OnceInv, Shows
  <2> QED  BY <2>1 DEF Doomed, Void, Skipped
<1> QED  BY <1>1, <1>2, <1>3, Invariance, OnceInvariance, PTL DEF Spec

=============================================================================
