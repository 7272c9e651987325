----------------------- MODULE IndexerQueries_proofs -----------------------
(***************************************************************************)
(* Proofs, for any documents and any filters, of what a caller may rely on *)
(* whichever engine serves him: a count counts its list, two filters do    *)
(* not disturb each other, and the engines agree on what both implement.   *)
(***************************************************************************)
EXTENDS IndexerQueries, TLAPS

(* f gives the names of g and those of h, with the same values; the names   *)
(* that change what others mean are in both, and no name is torn from those *)
(* that it is looked at with.                                               *)
Splits(f, g, h) ==
  /\ DOMAIN f = DOMAIN g \cup DOMAIN h
  /\ \A n \in DOMAIN g : g[n] = f[n]
  /\ \A n \in DOMAIN h : h[n] = f[n]
  /\ "condition" \notin DOMAIN f
  /\ "includeMetaESDT" \in DOMAIN f => "includeMetaESDT" \in DOMAIN g \cap DOMAIN h
  /\ \A n \in {"proposer", "validator"} \cap DOMAIN g :
        {"shard", "epoch"} \cap DOMAIN f \subseteq DOMAIN g
  /\ \A n \in {"proposer", "validator"} \cap DOMAIN h :
        {"shard", "epoch"} \cap DOMAIN f \subseteq DOMAIN h

LEMMA BlockSplits ==
  ASSUME NEW f, NEW g, NEW h, Splits(f, g, h), NEW d
  PROVE  ElasticBlock(f, d) <=> ElasticBlock(g, d) /\ ElasticBlock(h, d)
BY DEF Splits, ElasticBlock, Same, Among, Given

LEMMA CollectionSplits ==
  ASSUME NEW f, NEW g, NEW h, Splits(f, g, h), NEW a, NEW v, NEW d
  PROVE  ElasticCollection(f, a, v, d)
            <=> ElasticCollection(g, a, v, d) /\ ElasticCollection(h, a, v, d)
BY DEF Splits, ElasticCollection, InWindow, Flag, OneOf, Same, Among, Given

LEMMA NftSplits ==
  ASSUME NEW f, NEW g, NEW h, Splits(f, g, h), NEW i, NEW a, NEW v, NEW d
  PROVE  ElasticNft(f, i, a, v, d) <=> ElasticNft(g, i, a, v, d) /\ ElasticNft(h, i, a, v, d)
BY DEF Splits, ElasticNft, InWindow, Flag, OneOf, Same, Among, Given

LEMMA TransferSplits ==
  ASSUME NEW f, NEW g, NEW h, Splits(f, g, h), NEW v, NEW d
  PROVE  ElasticTransfer(f, v, d) <=> ElasticTransfer(g, v, d) /\ ElasticTransfer(h, v, d)
BY DEF Splits, ElasticTransfer, InWindow, OneOf, Same, Among, Given

LEMMA RolesSplits ==
  ASSUME NEW f, NEW g, NEW h, Splits(f, g, h), NEW a, NEW d
  PROVE  ElasticTokenWithRoles(f, a, d)
           <=> ElasticTokenWithRoles(g, a, d) /\ ElasticTokenWithRoles(h, a, d)
BY DEF Splits, ElasticTokenWithRoles, Flag, Same, Among, Given

LEMMA RoundSplits ==
  ASSUME NEW f, NEW g, NEW h, Splits(f, g, h), NEW d
  PROVE  ElasticRound(f, d) <=> ElasticRound(g, d) /\ ElasticRound(h, d)
BY DEF Splits, ElasticRound, RoundQueries, RoundMatches

LEMMA TransactionSplits ==
  ASSUME NEW f, NEW g, NEW h, Splits(f, g, h), NEW a, NEW v, NEW d
  PROVE  ElasticTransaction(f, a, v, d)
            <=> ElasticTransaction(g, a, v, d) /\ ElasticTransaction(h, a, v, d)
BY DEF Splits, ElasticTransaction, InWindow, OneOf, Same, Among, Given

LEMMA TokenSplits ==
  ASSUME NEW f, NEW g, NEW h, Splits(f, g, h), NEW d
  PROVE  ElasticToken(f, d) <=> ElasticToken(g, d) /\ ElasticToken(h, d)
BY DEF Splits, ElasticToken, Flag, OneOf, Same, Among, Given

(* The same for a query, whose other parts stay, and for all an engine asks. *)
SplitsQuery(q, r, s) ==
  /\ Splits(q.f, r.f, s.f)
  /\ r.address = q.address /\ r.id = q.id /\ r.v3 = q.v3
  /\ s.address = q.address /\ s.id = q.id /\ s.v3 = q.v3

LEMMA ElasticSplits ==
  ASSUME NEW op \in Operations, NEW q, NEW r, NEW s, SplitsQuery(q, r, s), NEW d
  PROVE  ElasticSelects(op, q, d) <=> ElasticSelects(op, r, d) /\ ElasticSelects(op, s, d)
<1>0. /\ Splits(q.f, r.f, s.f)
      /\ r.address = q.address /\ r.id = q.id /\ r.v3 = q.v3
      /\ s.address = q.address /\ s.id = q.id /\ s.v3 = q.v3
  BY DEF SplitsQuery
<1>1. ElasticBlock(q.f, d) <=> ElasticBlock(r.f, d) /\ ElasticBlock(s.f, d)
  BY <1>0, BlockSplits
<1>2. \A a : ElasticCollection(q.f, a, q.v3, d)
               <=> ElasticCollection(r.f, a, q.v3, d) /\ ElasticCollection(s.f, a, q.v3, d)
  BY <1>0, CollectionSplits
<1>3. \A i, a : ElasticNft(q.f, i, a, q.v3, d)
                  <=> ElasticNft(r.f, i, a, q.v3, d) /\ ElasticNft(s.f, i, a, q.v3, d)
  BY <1>0, NftSplits
<1>4. ElasticTransfer(q.f, q.v3, d)
        <=> ElasticTransfer(r.f, q.v3, d) /\ ElasticTransfer(s.f, q.v3, d)
  BY <1>0, TransferSplits
<1>5. ElasticTokenWithRoles(q.f, q.address, d)
        <=> ElasticTokenWithRoles(r.f, q.address, d) /\ ElasticTokenWithRoles(s.f, q.address, d)
  BY <1>0, RolesSplits
<1>6. ElasticRound(q.f, d) <=> ElasticRound(r.f, d) /\ ElasticRound(s.f, d)
  BY <1>0, RoundSplits
<1>7. ElasticTransaction(q.f, q.address, q.v3, d)
        <=> /\ ElasticTransaction(r.f, q.address, q.v3, d)
            /\ ElasticTransaction(s.f, q.address, q.v3, d)
  BY <1>0, TransactionSplits
<1>8. ElasticToken(q.f, d) <=> ElasticToken(r.f, d) /\ ElasticToken(s.f, d)
  BY <1>0, TokenSplits
<1>9. /\ Same(q.f, "search", d.tag) <=> Same(r.f, "search", d.tag) /\ Same(s.f, "search", d.tag)
      /\ Same(q.f, "miniBlockHash", d.miniBlockHash)
           <=> /\ Same(r.f, "miniBlockHash", d.miniBlockHash)
               /\ Same(s.f, "miniBlockHash", d.miniBlockHash)
      /\ OneOf(q.f, "originalTxHashes", {d.originalTxHash})
           <=> /\ OneOf(r.f, "originalTxHashes", {d.originalTxHash})
               /\ OneOf(s.f, "originalTxHashes", {d.originalTxHash})
      /\ Same(q.f, "condition", "must") /\ Same(r.f, "condition", "must")
      /\ Same(s.f, "condition", "must")
  BY <1>0 DEF Splits, Same, OneOf, Among, Given
<1>10. CASE op \in Counts
  <2>1. ElasticCount(op, q, d) <=> ElasticCount(op, r, d) /\ ElasticCount(op, s, d)
    <3>1. CASE op = "getAccountsCount"
      BY <3>1 DEF ElasticCount
    <3>2. CASE op = "getScResultsCount"
      BY <3>2 DEF ElasticCount
    <3>3. CASE op = "getAccountContractsCount"
      BY <1>0, <3>3 DEF ElasticCount
    <3>4. CASE op = "getBlocksCount"
      BY <1>1, <3>4 DEF ElasticCount
    <3>5. CASE op = "getNftCollectionCount"
      BY <1>0, <1>2, <3>5 DEF ElasticCount
    <3>6. CASE op = "getNftCountForAddress"
      BY <1>0, <1>3, <3>6 DEF ElasticCount
    <3>7. CASE op = "getCollectionCountForAddress"
      BY <1>0, <1>2, <3>7 DEF ElasticCount
    <3>8. CASE op = "getNftCount"
      BY <1>0, <1>3, <3>8 DEF ElasticCount
    <3>9. CASE op = "getNftOwnersCount"
      BY <1>0, <3>9 DEF ElasticCount
    <3>10. CASE op = "getTransfersCount"
      BY <1>0, <1>4, <3>10 DEF ElasticCount
    <3>11. CASE op = "getTokenCountForAddress"
      BY <1>0, <1>8, <3>11 DEF ElasticCount
    <3>12. CASE op = "getTokenAccountsCount"
      BY <1>0, <3>12 DEF ElasticCount
    <3>13. CASE op = "getTokensWithRolesForAddressCount"
      BY <1>0, <1>5, <3>13 DEF ElasticCount
    <3>14. CASE op = "getNftTagCount"
      BY <1>9, <3>14 DEF ElasticCount
    <3>15. CASE op = "getRoundCount"
      BY <1>6, <3>15 DEF ElasticCount
    <3>16. CASE op = "getAccountScResultsCount"
      BY <1>0, <3>16 DEF ElasticCount
    <3>17. CASE op = "getTransactionCountForAddress"
      BY <1>0, <3>17 DEF ElasticCount
    <3>18. CASE op = "getTransactionCount"
      BY <1>0, <1>7, <3>18 DEF ElasticCount
    <3> QED  BY <1>10, <3>1, <3>2, <3>3, <3>4, <3>5, <3>6, <3>7, <3>8, <3>9, <3>10, <3>11,
                <3>12, <3>13, <3>14, <3>15, <3>16, <3>17, <3>18 DEF Counts
  <2> QED  BY <1>10, <2>1 DEF ElasticSelects, Counts, Lists, OtherLists
<1>11. CASE op \in Lists
  <2>1. ElasticList(op, q, d) <=> ElasticList(op, r, d) /\ ElasticList(op, s, d)
    <3>1. CASE op = "getTransfers"
      BY <1>0, <1>4, <3>1 DEF ElasticList
    <3>2. CASE op = "getTokensWithRolesForAddress"
      BY <1>0, <1>5, <3>2 DEF ElasticList
    <3>3. CASE op = "getRounds"
      BY <1>6, <1>9, <3>3 DEF ElasticList
    <3>4. CASE op = "getNftCollections"
      BY <1>0, <1>2, <3>4 DEF ElasticList
    <3>5. CASE op = "getNftTags"
      BY <1>9, <3>5 DEF ElasticList
    <3>6. CASE op = "getScResults"
      BY <1>9, <3>6 DEF ElasticList
    <3>7. CASE op = "getAccountScResults"
      BY <1>0, <3>7 DEF ElasticList
    <3>8. CASE op = "getAccounts"
      BY <3>8 DEF ElasticList
    <3>9. CASE op = "getAccountContracts"
      BY <1>0, <3>9 DEF ElasticList
    <3> QED  BY <1>11, <3>1, <3>2, <3>3, <3>4, <3>5, <3>6, <3>7, <3>8, <3>9 DEF Lists
  <2> QED  BY <1>11, <2>1 DEF ElasticSelects, Counts, Lists, OtherLists
<1>12. CASE op \in OtherLists
  <2>1. ElasticOtherList(op, q, d) <=> ElasticOtherList(op, r, d) /\ ElasticOtherList(op, s, d)
    BY <1>0, <1>1, <1>3, <1>7, <1>8, <1>12 DEF ElasticOtherList, OtherLists
  <2> QED  BY <1>12, <2>1 DEF ElasticSelects, Counts, Lists, OtherLists
<1> QED  BY <1>10, <1>11, <1>12 DEF Operations

-----------------------------------------------------------------------------
(* Postgres *)

LEMMA PostgresCollectionSplits ==
  ASSUME NEW f, NEW g, NEW h, Splits(f, g, h), NEW a, NEW d,
         Given(f, "type") => f.type \subseteq CollectionTypes
  PROVE  PostgresCollection(f, a, d) <=> PostgresCollection(g, a, d) /\ PostgresCollection(h, a, d)
BY DEF Splits, PostgresCollection, PostgresWindow, Same, Among, Given

LEMMA PostgresNftSplits ==
  ASSUME NEW f, NEW g, NEW h, Splits(f, g, h), NEW i, NEW d
  PROVE  PostgresNft(f, i, d) <=> PostgresNft(g, i, d) /\ PostgresNft(h, i, d)
BY DEF Splits, PostgresNft, PostgresWindow, OneOf, Same, Among, Given

LEMMA PostgresTransferSplits ==
  ASSUME NEW f, NEW g, NEW h, Splits(f, g, h), NEW d,
         ~({"senderShard", "receiverShard"} \subseteq DOMAIN f)
  PROVE  PostgresTransfer(f, d) <=> PostgresTransfer(g, d) /\ PostgresTransfer(h, d)
BY DEF Splits, PostgresTransfer, SameShards, PostgresWindow, OneOf, Same, Among, Given

LEMMA PostgresRolesSplits ==
  ASSUME NEW f, NEW g, NEW h, Splits(f, g, h), NEW d
  PROVE  PostgresTokenWithRoles(f, d)
           <=> PostgresTokenWithRoles(g, d) /\ PostgresTokenWithRoles(h, d)
BY DEF Splits, PostgresTokenWithRoles, Same, Among, Given

(* The two keys of a block share a name, unless they are of one node.       *)
OneIndex(f) ==
  {"shard", "epoch", "proposer", "validator"} \subseteq DOMAIN f => f.proposer = f.validator

LEMMA PostgresBlockSplits ==
  ASSUME NEW f, NEW g, NEW h, Splits(f, g, h), OneIndex(f), NEW d
  PROVE  PostgresBlock(f, d) <=> PostgresBlock(g, d) /\ PostgresBlock(h, d)
BY DEF Splits, OneIndex, PostgresBlock, Same, Among, Given

PostgresSelects(op, q, d) ==
    IF op \in Counts THEN PostgresCount(op, q, d) ELSE PostgresList(op, q, d)

CollectionOps == {"getNftCollections", "getNftCollectionCount", "getCollectionCountForAddress"}

LEMMA PostgresSplits ==
  ASSUME NEW op \in Operations, NEW q, NEW r, NEW s, SplitsQuery(q, r, s), NEW d,
         ~PostgresThrows(op, q), ~({"senderShard", "receiverShard"} \subseteq DOMAIN q.f),
         op \notin {"getTransactions", "getTransactionCount"},
         op \in {"getBlocks", "getBlocksCount"} => OneIndex(q.f),
         op \in CollectionOps /\ Given(q.f, "type") => q.f.type \subseteq CollectionTypes
  PROVE  PostgresSelects(op, q, d) <=> PostgresSelects(op, r, d) /\ PostgresSelects(op, s, d)
<1>0. /\ Splits(q.f, r.f, s.f)
      /\ r.address = q.address /\ r.id = q.id /\ r.v3 = q.v3
      /\ s.address = q.address /\ s.id = q.id /\ s.v3 = q.v3
  BY DEF SplitsQuery
<1>1. op \in {"getBlocks", "getBlocksCount"} =>
        (PostgresBlock(q.f, d) <=> PostgresBlock(r.f, d) /\ PostgresBlock(s.f, d))
  BY <1>0, PostgresBlockSplits
<1>2. op \in CollectionOps => \A a : PostgresCollection(q.f, a, d)
        <=> PostgresCollection(r.f, a, d) /\ PostgresCollection(s.f, a, d)
  BY <1>0, PostgresCollectionSplits
<1>3. \A i : PostgresNft(q.f, i, d) <=> PostgresNft(r.f, i, d) /\ PostgresNft(s.f, i, d)
  BY <1>0, PostgresNftSplits
<1>4. PostgresTransfer(q.f, d) <=> PostgresTransfer(r.f, d) /\ PostgresTransfer(s.f, d)
  BY <1>0, PostgresTransferSplits
<1>5. PostgresTokenWithRoles(q.f, d)
        <=> PostgresTokenWithRoles(r.f, d) /\ PostgresTokenWithRoles(s.f, d)
  BY <1>0, PostgresRolesSplits
<1>6. ElasticRound(q.f, d) <=> ElasticRound(r.f, d) /\ ElasticRound(s.f, d)
  BY <1>0, RoundSplits
<1>7. /\ Same(q.f, "search", d.tag) <=> Same(r.f, "search", d.tag) /\ Same(s.f, "search", d.tag)
      /\ Same(q.f, "identifier", d.token)
           <=> Same(r.f, "identifier", d.token) /\ Same(s.f, "identifier", d.token)
      /\ OneOf(q.f, "identifiers", {d.token})
           <=> OneOf(r.f, "identifiers", {d.token}) /\ OneOf(s.f, "identifiers", {d.token})
      /\ ~Given(q.f, "condition") /\ ~Given(r.f, "condition") /\ ~Given(s.f, "condition")
  BY <1>0 DEF Splits, Same, OneOf, Among, Given
<1>8. op \notin {"getAccountsCount", "getNftCountForAddress", "getNftsForAddress",
                 "getAccountEsdtByIdentifiers", "getTransactions", "getTransactionCount"}
  BY DEF PostgresThrows
<1>9. CASE op \in Counts
  <2>1. PostgresCount(op, q, d) <=> PostgresCount(op, r, d) /\ PostgresCount(op, s, d)
    <3>1. CASE op = "getScResultsCount"
      BY <3>1 DEF PostgresCount
    <3>2. CASE op = "getAccountContractsCount"
      BY <1>0, <3>2 DEF PostgresCount
    <3>3. CASE op = "getBlocksCount"
      BY <1>1, <3>3 DEF PostgresCount
    <3>4. CASE op = "getNftCollectionCount"
      BY <1>0, <1>2, <3>4 DEF PostgresCount, CollectionOps
    <3>5. CASE op = "getCollectionCountForAddress"
      BY <1>0, <1>2, <3>5 DEF PostgresCount, CollectionOps
    <3>6. CASE op = "getNftCount"
      BY <1>0, <1>3, <3>6 DEF PostgresCount
    <3>7. CASE op = "getNftOwnersCount"
      BY <1>0, <3>7 DEF PostgresCount
    <3>8. CASE op = "getTransfersCount"
      BY <1>4, <3>8 DEF PostgresCount
    <3>9. CASE op = "getTokenCountForAddress"
      BY <1>0, <3>9 DEF PostgresCount
    <3>10. CASE op = "getTokenAccountsCount"
      BY <1>0, <3>10 DEF PostgresCount
    <3>11. CASE op = "getTokensWithRolesForAddressCount"
      BY <1>5, <3>11 DEF PostgresCount
    <3>12. CASE op = "getNftTagCount"
      BY <1>7, <3>12 DEF PostgresCount
    <3>13. CASE op = "getRoundCount"
      BY <1>6, <3>13 DEF PostgresCount
    <3>14. CASE op = "getAccountScResultsCount"
      BY <1>0, <3>14 DEF PostgresCount
    <3>15. CASE op = "getTransactionCountForAddress"
      BY <1>0, <3>15 DEF PostgresCount
    <3> QED  BY <1>8, <1>9, <3>1, <3>2, <3>3, <3>4, <3>5, <3>6, <3>7, <3>8, <3>9, <3>10, <3>11,
                <3>12, <3>13, <3>14, <3>15 DEF Counts
  <2> QED  BY <1>9, <2>1 DEF PostgresSelects
<1>10. CASE op \notin Counts
  <2>1. PostgresList(op, q, d) <=> PostgresList(op, r, d) /\ PostgresList(op, s, d)
    <3>1. CASE op = "getBlocks"
      BY <1>1, <3>1 DEF PostgresList
    <3>2. CASE op = "getTokenAccounts"
      BY <1>0, <3>2 DEF PostgresList
    <3>3. CASE op = "getTransfers"
      BY <1>4, <3>3 DEF PostgresList
    <3>4. CASE op = "getTokensWithRolesForAddress"
      BY <1>5, <3>4 DEF PostgresList
    <3>5. CASE op = "getRounds"
      BY <1>7, <3>5 DEF PostgresList
    <3>6. CASE op = "getNftCollections"
      BY <1>0, <1>2, <3>6 DEF PostgresList, CollectionOps
    <3>7. CASE op = "getNftTags"
      BY <1>7, <3>7 DEF PostgresList
    <3>8. CASE op = "getAccountScResults"
      BY <1>0, <3>8 DEF PostgresList
    <3>9. CASE op = "getTokensForAddress"
      BY <1>0, <1>7, <3>9 DEF PostgresList
    <3>10. CASE op = "getNfts"
      BY <1>0, <1>3, <3>10 DEF PostgresList
    <3>11. CASE op \in {"getScResults", "getAccounts", "getAccountContracts"}
      <4>1. op \in Lists /\ op \notin Counts /\ op \notin OtherLists
        BY <3>11 DEF Lists, Counts, OtherLists
      <4>2. ElasticList(op, q, d) <=> ElasticList(op, r, d) /\ ElasticList(op, s, d)
        BY <4>1, ElasticSplits DEF ElasticSelects
      <4> QED  BY <3>11, <4>2 DEF PostgresList
    <3> QED  BY <1>8, <1>10, <3>1, <3>2, <3>3, <3>4, <3>5, <3>6, <3>7, <3>8, <3>9, <3>10,
                <3>11 DEF Operations, Lists, OtherLists
  <2> QED  BY <1>10, <2>1 DEF PostgresSelects
<1> QED  BY <1>9, <1>10

-----------------------------------------------------------------------------
(* The invariant: a call that was served has the answer of its engine.     *)

IInv ==
  /\ engine \in Engines /\ call \in Calls
  /\ answer = None \/ answer = Ask(engine, call.op, call.q)

LEMMA InitIInv == Init => IInv
BY DEF Init, IInv

LEMMA StepIInv == IInv /\ [Next]_vars => IInv'
BY DEF IInv, Next, Serve, vars

LEMMA Invariance == Spec => []IInv
BY InitIInv, StepIInv, PTL DEF Spec

LEMMA CallShape ==
  ASSUME IInv
  PROVE  /\ engine \in {"elastic", "postgres"} /\ call.op \in Operations
         /\ call.op = "getNftCount" => call.q.id = None
         /\ call.op = "getNftCollectionCount" => call.q.address = None
         /\ call.op \in CollectionOps /\ Given(call.q.f, "type") =>
              call.q.f.type \subseteq CollectionTypes
         /\ \A f : LET r == [call.q EXCEPT !.f = f]
                   IN  r.f = f /\ r.address = call.q.address /\ r.id = call.q.id /\ r.v3 = call.q.v3
<1>1. /\ engine \in {"elastic", "postgres"} /\ call.op \in Operations
      /\ call.op = "getNftCount" => call.q.id = None
      /\ call.op = "getNftCollectionCount" => call.q.address = None
      /\ call.op \in CollectionOps /\ Given(call.q.f, "type") =>
           call.q.f.type \subseteq CollectionTypes
  BY CallsAssumption DEF IInv, Engines, CollectionOps
<1>2. ASSUME NEW f
      PROVE  LET r == [call.q EXCEPT !.f = f]
             IN  r.f = f /\ r.address = call.q.address /\ r.id = call.q.id /\ r.v3 = call.q.v3
  <2> DEFINE q == call.q
  <2>1. q = [f |-> q.f, address |-> q.address, id |-> q.id, v3 |-> q.v3]
    BY CallsAssumption DEF IInv
  <2> HIDE DEF q
  <2>2. LET r == [q EXCEPT !.f = f]
        IN  r.f = f /\ r.address = q.address /\ r.id = q.id /\ r.v3 = q.v3
    BY <2>1
  <2> QED  BY <2>2 DEF q
<1> QED  BY <1>1, <1>2

\* An answer is a part of one index, or a failure that only Postgres has.
THEOREM TypeCorrect == Spec => []TypeOK
<1>1. ASSUME IInv PROVE TypeOK
  <2>1. engine \in Engines /\ call.op \in Operations /\ call \in Calls
    BY <1>1, CallShape DEF IInv
  <2>2. IndexOf(call.op) \in DOMAIN Docs /\ "accountsesdt" \in DOMAIN Docs
    <3>1. "getTokenAccounts" \in Operations /\ IndexOf("getTokenAccounts") = "accountsesdt"
      BY DEF Operations, OtherLists, IndexOf
    <3> QED  BY <2>1, <3>1, DocsAssumption
  <2>3. CASE answer = None
    BY <2>1, <2>3 DEF TypeOK
  <2>4. CASE answer = Elastic(call.op, call.q)
    <3>1. answer # Failed
      BY <2>1, <2>4, AnswersAssumption
    <3>2. \/ answer \subseteq Docs[IndexOf(call.op)]
          \/ answer \subseteq Docs["accountsesdt"]
      BY <2>4 DEF Elastic, OrRows
    <3> QED  BY <2>1, <2>2, <3>1, <3>2 DEF TypeOK
  <2>5. CASE engine = "postgres" /\ answer = Postgres(call.op, call.q)
    <3>1. CASE PostgresThrows(call.op, call.q)
      BY <2>1, <2>5, <3>1 DEF TypeOK, Postgres
    <3>2. CASE ~PostgresThrows(call.op, call.q)
      <4>1. answer # Failed
        BY <2>1, <2>5, <3>2, AnswersAssumption
      <4>2. answer \subseteq Docs[IndexOf(call.op)]
        BY <2>5, <3>2 DEF Postgres
      <4> QED  BY <2>1, <2>2, <4>1, <4>2 DEF TypeOK
    <3> QED  BY <3>1, <3>2
  <2> QED  BY <1>1, <2>3, <2>4, <2>5 DEF IInv, Ask, Engines
<1> QED  BY <1>1, Invariance, PTL

\* The answers that are sets, as sets.
LEMMA ElasticAnswer ==
  ASSUME NEW op, NEW q, op # "getNfts" \/ q.id = None
  PROVE  Elastic(op, q) = {d \in Docs[IndexOf(op)] : ElasticSelects(op, q, d)}
BY DEF Elastic, OrRows

LEMMA PostgresAnswer ==
  ASSUME NEW op, NEW q, ~PostgresThrows(op, q)
  PROVE  Postgres(op, q) = {d \in Docs[IndexOf(op)] : PostgresSelects(op, q, d)}
BY DEF Postgres, PostgresSelects

\* Fewer names do not make a call throw.
LEMMA ThrowsLess ==
  ASSUME NEW op, NEW q, NEW r, r.id = None, r.address = q.address, PostgresThrows(op, r),
         DOMAIN r.f \subseteq DOMAIN q.f, \A n \in DOMAIN r.f : r.f[n] = q.f[n]
  PROVE  PostgresThrows(op, q)
BY DEF PostgresThrows, Given

\* Two names given together select what each of them selects alone: on either
\* engine no filter loosens, replaces or switches off another, but for the names
\* that Postgres binds to one parameter, two shards or two keys (elastic.indexer.helper.ts and
\* postgres.indexer.helper.ts build a query by long chains of conditions).
THEOREM FiltersIndependent == Spec => []FiltersAreIndependent
<1>1. ASSUME IInv PROVE FiltersAreIndependent
  <2> SUFFICES ASSUME Served, Names \cap {"condition"} = {}, call.q.id = None, ~SharedBinding,
                      NEW n \in Names \ Modifiers,
                      ~\E m \in Names \ {n} : n \in Context(m)
               PROVE  answer = Again(Only({n} \cup (Names \cap (Modifiers \cup Context(n)))))
                                 \cap Again(Only(Names \ {n}))
    BY DEF FiltersAreIndependent
  <2> DEFINE one == {n} \cup (Names \cap (Modifiers \cup Context(n)))
             rest == Names \ {n}
             op == call.op
             q == call.q
             r == [q EXCEPT !.f = Only(one)]
             s == [q EXCEPT !.f = Only(rest)]
  <2>1. /\ r.f = Only(one) /\ r.address = q.address /\ r.id = q.id /\ r.v3 = q.v3
        /\ s.f = Only(rest) /\ s.address = q.address /\ s.id = q.id /\ s.v3 = q.v3
        /\ op \in Operations /\ engine \in {"elastic", "postgres"}
        /\ op \in CollectionOps /\ Given(q.f, "type") => q.f.type \subseteq CollectionTypes
    BY <1>1, CallShape
  <2>2. answer = Ask(engine, op, q) /\ answer # Failed
    BY <1>1 DEF IInv, Served
  <2> HIDE DEF r, s
  <2>3. Splits(q.f, Only(one), Only(rest))
    BY DEF Splits, Only, Names, Modifiers, Context
  <2>4. SplitsQuery(q, r, s)
    BY <2>1, <2>3 DEF SplitsQuery
  <2>5. CASE engine = "elastic"
    <3>1. /\ answer = {d \in Docs[IndexOf(op)] : ElasticSelects(op, q, d)}
          /\ Elastic(op, r) = {d \in Docs[IndexOf(op)] : ElasticSelects(op, r, d)}
          /\ Elastic(op, s) = {d \in Docs[IndexOf(op)] : ElasticSelects(op, s, d)}
      BY <2>1, <2>2, <2>5, ElasticAnswer DEF Ask
    <3>2. answer = Elastic(op, r) \cap Elastic(op, s)
      BY <2>1, <2>4, <3>1, ElasticSplits
    <3> QED  BY <2>5, <3>2 DEF Ask, Again, r, s
  <2>6. CASE engine = "postgres"
    <3>1. ~PostgresThrows(op, q)
      BY <2>2, <2>6 DEF Ask, Postgres
    <3>2. ~PostgresThrows(op, r) /\ ~PostgresThrows(op, s)
      <4>1. /\ r.id = None /\ r.address = q.address /\ DOMAIN r.f \subseteq DOMAIN q.f
            /\ \A m \in DOMAIN r.f : r.f[m] = q.f[m]
            /\ s.id = None /\ s.address = q.address /\ DOMAIN s.f \subseteq DOMAIN q.f
            /\ \A m \in DOMAIN s.f : s.f[m] = q.f[m]
        BY <2>1, <2>3 DEF Splits
      <4> HIDE DEF q, op
      <4> QED  BY <3>1, <4>1, ThrowsLess
    <3>3. /\ answer = {d \in Docs[IndexOf(op)] : PostgresSelects(op, q, d)}
          /\ Postgres(op, r) = {d \in Docs[IndexOf(op)] : PostgresSelects(op, r, d)}
          /\ Postgres(op, s) = {d \in Docs[IndexOf(op)] : PostgresSelects(op, s, d)}
      BY <2>2, <2>6, <3>1, <3>2, PostgresAnswer DEF Ask
    <3>4. /\ ~({"senderShard", "receiverShard"} \subseteq DOMAIN q.f)
          /\ op \notin {"getTransactions", "getTransactionCount"}
          /\ op \in {"getBlocks", "getBlocksCount"} => OneIndex(q.f)
      BY <2>6 DEF SharedBinding, TwoKeys, OneIndex, Names
    <3>5. answer = Postgres(op, r) \cap Postgres(op, s)
      BY <2>1, <2>4, <3>1, <3>3, <3>4, PostgresSplits
    <3> QED  BY <2>6, <3>5 DEF Ask, Again, r, s
  <2> QED  BY <2>1, <2>5, <2>6
<1> QED  BY <1>1, Invariance, PTL

-----------------------------------------------------------------------------
(* Counts and lists *)

\* A count of Elasticsearch asks of a document what its list asks.
LEMMA ElasticCountIsList ==
  ASSUME NEW op, NEW list, op \in DOMAIN ListOf, list = ListOf[op], NEW q, NEW d,
         op = "getNftCount" => q.id = None, op = "getNftCollectionCount" => q.address = None,
         op = "getRoundCount" => Same(q.f, "condition", "must")
  PROVE  IndexOf(list) = IndexOf(op) /\ (ElasticSelects(op, q, d) <=> ElasticSelects(list, q, d))
<1>1. op \in DOMAIN ListOf
  OBVIOUS
<1>2. CASE op = "getAccountsCount"
  <2>1. list = "getAccounts"
    BY <1>2 DEF ListOf
  <2> QED  BY <1>2, <2>1 DEF IndexOf, ElasticSelects, Counts, Lists, OtherLists,
                          ElasticCount, ElasticList
<1>3. CASE op = "getAccountContractsCount"
  <2>1. list = "getAccountContracts"
    BY <1>3 DEF ListOf
  <2> QED  BY <1>3, <2>1 DEF IndexOf, ElasticSelects, Counts, Lists, OtherLists,
                          ElasticCount, ElasticList
<1>4. CASE op = "getBlocksCount"
  <2>1. list = "getBlocks"
    BY <1>4 DEF ListOf
  <2> QED  BY <1>4, <2>1 DEF IndexOf, ElasticSelects, Counts, Lists, OtherLists,
                          ElasticCount, ElasticOtherList
<1>5. CASE op = "getNftCollectionCount"
  <2>1. list = "getNftCollections"
    BY <1>5 DEF ListOf
  <2> QED  BY <1>5, <2>1 DEF IndexOf, ElasticSelects, Counts, Lists, OtherLists,
                          ElasticCount, ElasticList
<1>6. CASE op = "getNftCountForAddress"
  <2>1. list = "getNftsForAddress"
    BY <1>6 DEF ListOf
  <2> QED  BY <1>6, <2>1 DEF IndexOf, ElasticSelects, Counts, Lists, OtherLists,
                          ElasticCount, ElasticOtherList
<1>7. CASE op = "getCollectionCountForAddress"
  <2>1. list = "getNftCollections"
    BY <1>7 DEF ListOf
  <2> QED  BY <1>7, <2>1 DEF IndexOf, ElasticSelects, Counts, Lists, OtherLists,
                          ElasticCount, ElasticList
<1>8. CASE op = "getNftCount"
  <2>1. list = "getNfts"
    BY <1>8 DEF ListOf
  <2> QED  BY <1>8, <2>1 DEF IndexOf, ElasticSelects, Counts, Lists, OtherLists,
                          ElasticCount, ElasticOtherList
<1>9. CASE op = "getNftOwnersCount"
  <2>1. list = "getAccountEsdtByIdentifiers"
    BY <1>9 DEF ListOf
  <2> QED  BY <1>9, <2>1 DEF IndexOf, ElasticSelects, Counts, Lists, OtherLists,
                          ElasticCount, ElasticOtherList, OwnerCounted
<1>10. CASE op = "getTransfersCount"
  <2>1. list = "getTransfers"
    BY <1>10 DEF ListOf
  <2> QED  BY <1>10, <2>1 DEF IndexOf, ElasticSelects, Counts, Lists, OtherLists,
                          ElasticCount, ElasticList
<1>11. CASE op = "getTokenCountForAddress"
  <2>1. list = "getTokensForAddress"
    BY <1>11 DEF ListOf
  <2> QED  BY <1>11, <2>1 DEF IndexOf, ElasticSelects, Counts, Lists, OtherLists,
                          ElasticCount, ElasticOtherList
<1>12. CASE op = "getTokensWithRolesForAddressCount"
  <2>1. list = "getTokensWithRolesForAddress"
    BY <1>12 DEF ListOf
  <2> QED  BY <1>12, <2>1 DEF IndexOf, ElasticSelects, Counts, Lists, OtherLists,
                          ElasticCount, ElasticList
<1>13. CASE op = "getNftTagCount"
  <2>1. list = "getNftTags"
    BY <1>13 DEF ListOf
  <2> QED  BY <1>13, <2>1 DEF IndexOf, ElasticSelects, Counts, Lists, OtherLists,
                          ElasticCount, ElasticList
<1>14. CASE op = "getRoundCount"
  <2>1. list = "getRounds"
    BY <1>14 DEF ListOf
  <2> QED  BY <1>14, <2>1 DEF IndexOf, ElasticSelects, Counts, Lists, OtherLists,
                          ElasticCount, ElasticList
<1>15. CASE op = "getAccountScResultsCount"
  <2>1. list = "getAccountScResults"
    BY <1>15 DEF ListOf
  <2> QED  BY <1>15, <2>1 DEF IndexOf, ElasticSelects, Counts, Lists, OtherLists,
                          ElasticCount, ElasticList
<1>16. CASE op = "getTransactionCount"
  <2>1. list = "getTransactions"
    BY <1>16 DEF ListOf
  <2> QED  BY <1>16, <2>1 DEF IndexOf, ElasticSelects, Counts, Lists, OtherLists,
                          ElasticCount, ElasticOtherList
<1> QED  BY <1>1, <1>2, <1>3, <1>4, <1>5, <1>6, <1>7, <1>8, <1>9, <1>10, <1>11, <1>12, <1>13,
            <1>14, <1>15, <1>16 DEF ListOf

\* So does a count of Postgres, but for the tokens and owners it counts otherwise.
LEMMA PostgresCountIsList ==
  ASSUME NEW op, NEW list, op \in DOMAIN ListOf, list = ListOf[op], NEW q, NEW d,
         ~PostgresThrows(op, q), op # "getNftOwnersCount",
         op = "getNftCount" => q.id = None, op = "getNftCollectionCount" => q.address = None,
         op = "getRoundCount" => Given(q.f, "condition"),
         op = "getTokenCountForAddress" => DOMAIN q.f = {}
  PROVE  /\ ~PostgresThrows(list, q) /\ IndexOf(list) = IndexOf(op)
         /\ PostgresSelects(op, q, d) <=> PostgresSelects(list, q, d)
<1>1. op \in DOMAIN ListOf /\ op \notin {"getAccountsCount", "getNftCountForAddress"}
  BY DEF PostgresThrows
<1>2. CASE op = "getAccountContractsCount"
  <2>1. list = "getAccountContracts"
    BY <1>2 DEF ListOf
  <2>2. ~PostgresThrows(list, q)
    BY <1>2, <2>1 DEF PostgresThrows
  <2> QED  BY <1>2, <2>1, <2>2 DEF IndexOf, PostgresSelects, Counts,
                               PostgresCount, PostgresList, ElasticList
<1>3. CASE op = "getBlocksCount"
  <2>1. list = "getBlocks"
    BY <1>3 DEF ListOf
  <2>2. ~PostgresThrows(list, q)
    BY <1>3, <2>1 DEF PostgresThrows
  <2> QED  BY <1>3, <2>1, <2>2 DEF IndexOf, PostgresSelects, Counts,
                               PostgresCount, PostgresList
<1>4. CASE op = "getNftCollectionCount"
  <2>1. list = "getNftCollections"
    BY <1>4 DEF ListOf
  <2>2. ~PostgresThrows(list, q)
    BY <1>4, <2>1 DEF PostgresThrows
  <2> QED  BY <1>4, <2>1, <2>2 DEF IndexOf, PostgresSelects, Counts,
                               PostgresCount, PostgresList
<1>5. CASE op = "getCollectionCountForAddress"
  <2>1. list = "getNftCollections"
    BY <1>5 DEF ListOf
  <2>2. ~PostgresThrows(list, q)
    BY <1>5, <2>1 DEF PostgresThrows
  <2> QED  BY <1>5, <2>1, <2>2 DEF IndexOf, PostgresSelects, Counts,
                               PostgresCount, PostgresList
<1>6. CASE op = "getNftCount"
  <2>1. list = "getNfts"
    BY <1>6 DEF ListOf
  <2>2. ~PostgresThrows(list, q)
    BY <1>6, <2>1 DEF PostgresThrows
  <2> QED  BY <1>6, <2>1, <2>2 DEF IndexOf, PostgresSelects, Counts,
                               PostgresCount, PostgresList
<1>7. CASE op = "getTransfersCount"
  <2>1. list = "getTransfers"
    BY <1>7 DEF ListOf
  <2>2. ~PostgresThrows(list, q)
    BY <1>7, <2>1 DEF PostgresThrows
  <2> QED  BY <1>7, <2>1, <2>2 DEF IndexOf, PostgresSelects, Counts,
                               PostgresCount, PostgresList
<1>8. CASE op = "getTokenCountForAddress"
  <2>1. list = "getTokensForAddress"
    BY <1>8 DEF ListOf
  <2>2. ~PostgresThrows(list, q)
    BY <1>8, <2>1 DEF PostgresThrows
  <2> QED  BY <1>8, <2>1, <2>2 DEF IndexOf, PostgresSelects, Counts,
                               PostgresCount, PostgresList, Given, Same, OneOf, Among
<1>9. CASE op = "getTokensWithRolesForAddressCount"
  <2>1. list = "getTokensWithRolesForAddress"
    BY <1>9 DEF ListOf
  <2>2. ~PostgresThrows(list, q)
    BY <1>9, <2>1 DEF PostgresThrows
  <2> QED  BY <1>9, <2>1, <2>2 DEF IndexOf, PostgresSelects, Counts,
                               PostgresCount, PostgresList
<1>10. CASE op = "getNftTagCount"
  <2>1. list = "getNftTags"
    BY <1>10 DEF ListOf
  <2>2. ~PostgresThrows(list, q)
    BY <1>10, <2>1 DEF PostgresThrows
  <2> QED  BY <1>10, <2>1, <2>2 DEF IndexOf, PostgresSelects, Counts,
                               PostgresCount, PostgresList
<1>11. CASE op = "getRoundCount"
  <2>1. list = "getRounds"
    BY <1>11 DEF ListOf
  <2>2. ~PostgresThrows(list, q)
    BY <1>11, <2>1 DEF PostgresThrows
  <2> QED  BY <1>11, <2>1, <2>2 DEF IndexOf, PostgresSelects, Counts,
                               PostgresCount, PostgresList
<1>12. CASE op = "getAccountScResultsCount"
  <2>1. list = "getAccountScResults"
    BY <1>12 DEF ListOf
  <2>2. ~PostgresThrows(list, q)
    BY <1>12, <2>1 DEF PostgresThrows
  <2> QED  BY <1>12, <2>1, <2>2 DEF IndexOf, PostgresSelects, Counts,
                               PostgresCount, PostgresList
<1>13. CASE op = "getTransactionCount"
  <2>1. list = "getTransactions"
    BY <1>13 DEF ListOf
  <2>2. ~PostgresThrows(list, q)
    BY <1>13, <2>1 DEF PostgresThrows
  <2> QED  BY <1>13, <2>1, <2>2 DEF IndexOf, PostgresSelects, Counts,
                               PostgresCount, PostgresList
<1> QED  BY <1>1, <1>2, <1>3, <1>4, <1>5, <1>6, <1>7, <1>8, <1>9, <1>10, <1>11, <1>12,
            <1>13 DEF ListOf

\* A count selects what the list with the same filter selects, on either engine, but
\* for the calls of CountDiffers (the counts of both indexer services build their
\* queries apart from the lists).
THEOREM CountsMatch == Spec => []CountMatchesList
<1>1. ASSUME IInv PROVE CountMatchesList
  <2> SUFFICES ASSUME Served, call.op \in DOMAIN ListOf, ~CountDiffers
               PROVE  answer = Ask(engine, ListOf[call.op], call.q)
    BY DEF CountMatchesList
  <2> DEFINE op == call.op
             q == call.q
             list == ListOf[op]
  <2>1. /\ op = "getNftCount" => q.id = None
        /\ op = "getNftCollectionCount" => q.address = None
        /\ engine \in {"elastic", "postgres"}
    BY <1>1, CallShape
  <2>2. answer = Ask(engine, op, q) /\ answer # Failed
    BY <1>1 DEF IInv, Served
  <2>3. op \in Counts /\ op # "getNfts"
    BY DEF ListOf, Counts
  <2>4. CASE engine = "elastic"
    <3>1. op = "getRoundCount" => Same(q.f, "condition", "must")
      BY DEF CountDiffers, AllMust, Names, Same, Among, Given
    <3>2. list # "getNfts" \/ q.id = None
      BY <2>1 DEF ListOf
    <3>3. Elastic(op, q) = {d \in Docs[IndexOf(op)] : ElasticSelects(op, q, d)}
      BY <2>3, ElasticAnswer
    <3>4. Elastic(list, q) = {d \in Docs[IndexOf(list)] : ElasticSelects(list, q, d)}
      BY <3>2, ElasticAnswer
    <3>5. /\ IndexOf(list) = IndexOf(op)
          /\ \A d : ElasticSelects(op, q, d) <=> ElasticSelects(list, q, d)
      BY <2>1, <3>1, ElasticCountIsList
    <3>6. Elastic(list, q) = Elastic(op, q)
      BY <3>3, <3>4, <3>5
    <3> QED  BY <2>2, <2>4, <3>6 DEF Ask
  <2>5. CASE engine = "postgres"
    <3>1. ~PostgresThrows(op, q)
      BY <2>2, <2>5 DEF Ask, Postgres
    <3>2. /\ op # "getNftOwnersCount"
          /\ op = "getRoundCount" => Given(q.f, "condition")
          /\ op = "getTokenCountForAddress" => DOMAIN q.f = {}
      BY <2>5 DEF CountDiffers, AllMust, Names, Given
    <3>3. /\ ~PostgresThrows(list, q) /\ IndexOf(list) = IndexOf(op)
          /\ \A d : PostgresSelects(op, q, d) <=> PostgresSelects(list, q, d)
      BY <2>1, <3>1, <3>2, PostgresCountIsList
    <3>4. /\ Postgres(op, q) = {d \in Docs[IndexOf(op)] : PostgresSelects(op, q, d)}
          /\ Postgres(list, q) = {d \in Docs[IndexOf(list)] : PostgresSelects(list, q, d)}
      BY <3>1, <3>3, PostgresAnswer
    <3>5. Postgres(list, q) = Postgres(op, q)
      BY <3>3, <3>4
    <3> QED  BY <2>2, <2>5, <3>5 DEF Ask
  <2> QED  BY <2>1, <2>4, <2>5
<1> QED  BY <1>1, Invariance, PTL

-----------------------------------------------------------------------------
(* The engines: a builder of Postgres repeats that of Elasticsearch for the *)
(* names both implement.                                                    *)

LEMMA CollectionAgrees ==
  ASSUME NEW f, NEW v, NEW d, DOMAIN f \subseteq {"collection", "search", "type"},
         Given(f, "type") => f.type \subseteq CollectionTypes
  PROVE  ElasticCollection(f, None, v, d) <=> PostgresCollection(f, None, d)
BY DEF ElasticCollection, PostgresCollection, InWindow, PostgresWindow, CollectionRole, Flag,
       Given, Among, Same, OneOf

LEMMA BlockAgrees ==
  ASSUME NEW f, NEW d, DOMAIN f \subseteq {"shard", "epoch", "proposer", "validator"}, OneIndex(f)
  PROVE  ElasticBlock(f, d) <=> PostgresBlock(f, d)
BY DEF OneIndex, ElasticBlock, PostgresBlock, Given, Among, Same

LEMMA NftAgrees ==
  ASSUME NEW f, NEW v, NEW d,
         DOMAIN f \subseteq {"search", "collection", "collections", "identifiers"}
  PROVE  ElasticNft(f, None, None, v, d) <=> PostgresNft(f, None, d)
BY DEF ElasticNft, PostgresNft, InWindow, PostgresWindow, Flag, Given, Among, Same, OneOf

LEMMA TransferAgrees ==
  ASSUME NEW f, NEW v, v, NEW d,
         DOMAIN f \subseteq {"token", "function", "senderShard", "miniBlockHash",
                             "hashes", "status", "type", "receivers"},
         Given(f, "type") /\ f.type = "normal", Given(f, "receivers") => f.receivers # {}
  PROVE  ElasticTransfer(f, v, d) <=> PostgresTransfer(f, d)
BY DEF ElasticTransfer, PostgresTransfer, SameShards, InWindow, PostgresWindow,
       Given, Among, Same, OneOf

LEMMA TransactionAgrees ==
  ASSUME NEW f, NEW v, v, NEW d,
         DOMAIN f \subseteq {"token", "function", "senderShard", "miniBlockHash",
                             "hashes", "status", "sender", "receivers"},
         Given(f, "sender"), Given(f, "receivers") => f.receivers # {}
  PROVE  ElasticTransaction(f, None, v, d) <=> PostgresTransaction(f, None, d)
BY DEF ElasticTransaction, PostgresTransaction, SameShards, InWindow, PostgresWindow,
       Given, Among, Same, OneOf

LEMMA EnginesSelect ==
  ASSUME IInv, call.q.v3, ~EnginesDiffer, call.op \in DOMAIN CommonNames,
         Names \subseteq CommonNames[call.op]
  PROVE  /\ ~PostgresThrows(call.op, call.q) /\ (call.op # "getNfts" \/ call.q.id = None)
         /\ \A d : PostgresSelects(call.op, call.q, d) <=> ElasticSelects(call.op, call.q, d)
<1> DEFINE op == call.op
           q == call.q
           f == q.f
           Agree == /\ ~PostgresThrows(op, q) /\ (op # "getNfts" \/ q.id = None)
                    /\ \A d : PostgresSelects(op, q, d) <=> ElasticSelects(op, q, d)
<1>1. /\ op = "getNftCount" => q.id = None
      /\ op = "getNftCollectionCount" => q.address = None
      /\ op \in CollectionOps /\ Given(f, "type") => f.type \subseteq CollectionTypes
  BY CallShape
<1>2. /\ op = "getNfts" => q.id = None
      /\ op = "getNftCollections" => q.address = None
      /\ op \in {"getTransactions", "getTransactionCount"} => Given(f, "sender") /\ q.address = None
      /\ op \in {"getTransfers", "getTransfersCount"} => Given(f, "type") /\ f.type = "normal"
      /\ op = "getRounds" => Given(f, "condition") /\ f.condition = "must"
      /\ Given(f, "receivers") => f.receivers # {}
      /\ op \in {"getBlocks", "getBlocksCount"} => OneIndex(f)
  BY DEF EnginesDiffer, AllMust, TwoKeys, OneIndex, Names, Given
<1>3. /\ op \in DOMAIN CommonNames /\ DOMAIN f \subseteq CommonNames[op] /\ q.v3
  BY DEF Names
<1>4. CASE op \in {"getBlocks", "getBlocksCount"}
  <2>1. DOMAIN f \subseteq {"shard", "epoch", "proposer", "validator"}
    BY <1>3, <1>4 DEF CommonNames
  <2>2. ~PostgresThrows(op, q)
    BY <1>1, <1>2, <1>4, <2>1 DEF PostgresThrows, Given
  <2>3. \A d : PostgresSelects(op, q, d) <=> ElasticSelects(op, q, d)
    <3>1. \A d : ElasticBlock(f, d) <=> PostgresBlock(f, d)
      BY <1>2, <1>4, <2>1, BlockAgrees
    <3>2. CASE op = "getBlocks"
      BY <3>1, <3>2 DEF ElasticSelects, PostgresSelects, Counts, Lists, OtherLists,
         ElasticOtherList, PostgresList
    <3>3. CASE op = "getBlocksCount"
      BY <3>1, <3>3 DEF ElasticSelects, PostgresSelects, Counts, Lists, OtherLists,
         ElasticCount, PostgresCount
    <3> QED  BY <1>4, <3>2, <3>3
  <2> QED  BY <1>2, <2>2, <2>3
<1>5. CASE op \in {"getRounds", "getRoundCount"}
  <2>1. DOMAIN f \subseteq {"condition", "shard", "epoch", "validator"}
    BY <1>3, <1>5 DEF CommonNames
  <2>2. ~PostgresThrows(op, q)
    BY <1>1, <1>2, <1>5, <2>1 DEF PostgresThrows, Given
  <2>3. \A d : PostgresSelects(op, q, d) <=> ElasticSelects(op, q, d)
    <3>1. CASE op = "getRounds"
      BY <1>2, <3>1 DEF ElasticSelects, PostgresSelects, Counts, Lists, OtherLists,
         ElasticList, PostgresList, Same, Among
    <3>2. CASE op = "getRoundCount"
      BY <1>2, <3>2 DEF ElasticSelects, PostgresSelects, Counts, Lists, OtherLists,
         ElasticCount, PostgresCount, Same, Among
    <3> QED  BY <1>5, <3>1, <3>2
  <2> QED  BY <1>2, <2>2, <2>3
<1>6. CASE op \in {"getNftCollections", "getNftCollectionCount"}
  <2>1. DOMAIN f \subseteq {"collection", "search", "type"}
    BY <1>3, <1>6 DEF CommonNames
  <2>2. ~PostgresThrows(op, q)
    BY <1>1, <1>2, <1>6, <2>1 DEF PostgresThrows, Given
  <2>3. \A d : PostgresSelects(op, q, d) <=> ElasticSelects(op, q, d)
    <3>1. \A d : ElasticCollection(f, None, q.v3, d) <=> PostgresCollection(f, None, d)
      BY <1>1, <1>6, <2>1, CollectionAgrees DEF CollectionOps
    <3>2. CASE op = "getNftCollections"
      BY <1>1, <1>2, <3>1, <3>2 DEF ElasticSelects, PostgresSelects, Counts, Lists, OtherLists,
         CollectionOps, ElasticList, PostgresList
    <3>3. CASE op = "getNftCollectionCount"
      BY <1>1, <1>2, <3>1, <3>3 DEF ElasticSelects, PostgresSelects, Counts, Lists, OtherLists,
         CollectionOps, ElasticCount, PostgresCount
    <3> QED  BY <1>6, <3>2, <3>3
  <2> QED  BY <1>2, <2>2, <2>3
<1>7. CASE op \in {"getNfts", "getNftCount"}
  <2>1. DOMAIN f \subseteq {"search", "collection", "collections", "identifiers"}
    BY <1>3, <1>7 DEF CommonNames
  <2>2. ~PostgresThrows(op, q)
    BY <1>1, <1>2, <1>7, <2>1 DEF PostgresThrows, Given
  <2>3. \A d : PostgresSelects(op, q, d) <=> ElasticSelects(op, q, d)
    <3>1. \A d : ElasticNft(f, None, None, q.v3, d) <=> PostgresNft(f, None, d)
      BY <2>1, NftAgrees
    <3>2. CASE op = "getNfts"
      BY <1>1, <1>2, <3>1, <3>2 DEF ElasticSelects, PostgresSelects, Counts, Lists, OtherLists,
         ElasticOtherList, PostgresList
    <3>3. CASE op = "getNftCount"
      BY <1>1, <1>2, <3>1, <3>3 DEF ElasticSelects, PostgresSelects, Counts, Lists, OtherLists,
         ElasticCount, PostgresCount
    <3> QED  BY <1>7, <3>2, <3>3
  <2> QED  BY <1>2, <2>2, <2>3
<1>8. CASE op \in {"getNftTags", "getNftTagCount"}
  <2>1. DOMAIN f \subseteq {"search"}
    BY <1>3, <1>8 DEF CommonNames
  <2>2. ~PostgresThrows(op, q)
    BY <1>1, <1>2, <1>8, <2>1 DEF PostgresThrows, Given
  <2>3. \A d : PostgresSelects(op, q, d) <=> ElasticSelects(op, q, d)
    <3>1. CASE op = "getNftTags"
      BY <3>1 DEF ElasticSelects, PostgresSelects, Counts, Lists, OtherLists,
         ElasticList, PostgresList
    <3>2. CASE op = "getNftTagCount"
      BY <3>2 DEF ElasticSelects, PostgresSelects, Counts, Lists, OtherLists,
         ElasticCount, PostgresCount
    <3> QED  BY <1>8, <3>1, <3>2
  <2> QED  BY <1>2, <2>2, <2>3
<1>9. CASE op \in {"getScResults", "getScResultsCount"}
  <2>1. DOMAIN f \subseteq {"miniBlockHash", "originalTxHashes"}
    BY <1>3, <1>9 DEF CommonNames
  <2>2. ~PostgresThrows(op, q)
    BY <1>1, <1>2, <1>9, <2>1 DEF PostgresThrows, Given
  <2>3. \A d : PostgresSelects(op, q, d) <=> ElasticSelects(op, q, d)
    <3>1. CASE op = "getScResults"
      BY <3>1 DEF ElasticSelects, PostgresSelects, Counts, Lists, OtherLists,
         ElasticList, PostgresList
    <3>2. CASE op = "getScResultsCount"
      BY <3>2 DEF ElasticSelects, PostgresSelects, Counts, Lists, OtherLists,
         ElasticCount, PostgresCount
    <3> QED  BY <1>9, <3>1, <3>2
  <2> QED  BY <1>2, <2>2, <2>3
<1>10. CASE op \in {"getTokenAccounts", "getTokenAccountsCount"}
  <2>1. DOMAIN f \subseteq {}
    BY <1>3, <1>10 DEF CommonNames
  <2>2. ~PostgresThrows(op, q)
    BY <1>1, <1>2, <1>10, <2>1 DEF PostgresThrows, Given
  <2>3. \A d : PostgresSelects(op, q, d) <=> ElasticSelects(op, q, d)
    <3>1. CASE op = "getTokenAccounts"
      BY <3>1 DEF ElasticSelects, PostgresSelects, Counts, Lists, OtherLists,
         ElasticOtherList, PostgresList
    <3>2. CASE op = "getTokenAccountsCount"
      BY <3>2 DEF ElasticSelects, PostgresSelects, Counts, Lists, OtherLists,
         ElasticCount, PostgresCount
    <3> QED  BY <1>10, <3>1, <3>2
  <2> QED  BY <1>2, <2>2, <2>3
<1>11. CASE op \in {"getAccountContracts", "getAccountContractsCount", "getAccounts"}
  <2>1. DOMAIN f \subseteq {}
    BY <1>3, <1>11 DEF CommonNames
  <2>2. ~PostgresThrows(op, q)
    BY <1>1, <1>2, <1>11, <2>1 DEF PostgresThrows, Given
  <2>3. \A d : PostgresSelects(op, q, d) <=> ElasticSelects(op, q, d)
    <3>1. CASE op = "getAccountContracts"
      BY <3>1 DEF ElasticSelects, PostgresSelects, Counts, Lists, OtherLists,
         ElasticList, PostgresList
    <3>2. CASE op = "getAccountContractsCount"
      BY <3>2 DEF ElasticSelects, PostgresSelects, Counts, Lists, OtherLists,
         ElasticCount, PostgresCount
    <3>3. CASE op = "getAccounts"
      BY <3>3 DEF ElasticSelects, PostgresSelects, Counts, Lists, OtherLists,
         ElasticList, PostgresList
    <3> QED  BY <1>11, <3>1, <3>2, <3>3
  <2> QED  BY <1>2, <2>2, <2>3
<1>12. CASE op \in {"getTransactions", "getTransactionCount"}
  <2>1. DOMAIN f \subseteq {"token", "function", "senderShard", "miniBlockHash", "hashes", "status",
                       "sender", "receivers"}
    BY <1>3, <1>12 DEF CommonNames
  <2>2. ~PostgresThrows(op, q)
    BY <1>1, <1>2, <1>12, <2>1 DEF PostgresThrows, Given
  <2>3. \A d : PostgresSelects(op, q, d) <=> ElasticSelects(op, q, d)
    <3>1. \A d : ElasticTransaction(f, None, q.v3, d) <=> PostgresTransaction(f, None, d)
      BY <1>2, <1>3, <1>12, <2>1, TransactionAgrees
    <3>2. CASE op = "getTransactions"
      BY <1>2, <3>1, <3>2 DEF ElasticSelects, PostgresSelects, Counts, Lists, OtherLists,
         ElasticOtherList, PostgresList
    <3>3. CASE op = "getTransactionCount"
      BY <1>2, <3>1, <3>3 DEF ElasticSelects, PostgresSelects, Counts, Lists, OtherLists,
         ElasticCount, PostgresCount
    <3> QED  BY <1>12, <3>2, <3>3
  <2> QED  BY <1>2, <2>2, <2>3
<1>13. CASE op \in {"getTransfers", "getTransfersCount"}
  <2>1. DOMAIN f \subseteq {"token", "function", "senderShard", "miniBlockHash", "hashes", "status",
                       "type", "receivers"}
    BY <1>3, <1>13 DEF CommonNames
  <2>2. ~PostgresThrows(op, q)
    BY <1>1, <1>2, <1>13, <2>1 DEF PostgresThrows, Given
  <2>3. \A d : PostgresSelects(op, q, d) <=> ElasticSelects(op, q, d)
    <3>1. \A d : ElasticTransfer(f, q.v3, d) <=> PostgresTransfer(f, d)
      BY <1>2, <1>3, <1>13, <2>1, TransferAgrees
    <3>2. CASE op = "getTransfers"
      BY <3>1, <3>2 DEF ElasticSelects, PostgresSelects, Counts, Lists, OtherLists,
         ElasticList, PostgresList
    <3>3. CASE op = "getTransfersCount"
      BY <3>1, <3>3 DEF ElasticSelects, PostgresSelects, Counts, Lists, OtherLists,
         ElasticCount, PostgresCount
    <3> QED  BY <1>13, <3>2, <3>3
  <2> QED  BY <1>2, <2>2, <2>3
<1> QED  BY <1>3, <1>4, <1>5, <1>6, <1>7, <1>8, <1>9, <1>10, <1>11, <1>12, <1>13 DEF CommonNames

\* On the filters that both implement, a caller sees the same with either engine, but
\* for the calls of EnginesDiffer (postgres.indexer.helper.ts repeats the conditions of
\* elastic.indexer.helper.ts in another query language).
THEOREM EnginesAgreeOnCommon == Spec => []EnginesAgree
<1>1. ASSUME IInv PROVE EnginesAgree
  <2> SUFFICES ASSUME answer # None, call.q.v3, ~EnginesDiffer, call.op \in DOMAIN CommonNames,
                      Names \subseteq CommonNames[call.op], NEW e \in Engines
               PROVE  Ask(e, call.op, call.q) = answer
    BY DEF EnginesAgree
  <2> DEFINE op == call.op
             q == call.q
  <2>1. /\ ~PostgresThrows(op, q) /\ (op # "getNfts" \/ q.id = None)
        /\ \A d : PostgresSelects(op, q, d) <=> ElasticSelects(op, q, d)
    BY <1>1, EnginesSelect
  <2>2. /\ Elastic(op, q) = {d \in Docs[IndexOf(op)] : ElasticSelects(op, q, d)}
        /\ Postgres(op, q) = {d \in Docs[IndexOf(op)] : PostgresSelects(op, q, d)}
    BY <2>1, ElasticAnswer, PostgresAnswer
  <2>3. Elastic(op, q) = Postgres(op, q)
    BY <2>1, <2>2
  <2> QED  BY <1>1, <2>3 DEF IInv, Ask
<1> QED  BY <1>1, Invariance, PTL

=============================================================================
