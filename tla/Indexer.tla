------------------------------ MODULE Indexer ------------------------------
(***************************************************************************)
(* The indexer: every list, count and item the API serves is asked of one  *)
(* of two engines, Elasticsearch (elastic.indexer.service, with its        *)
(* helper) or Postgres (postgres.indexer.service), behind one interface    *)
(* (indexer.interface.ts).  A filter is a function from the names the      *)
(* caller gave to their values; a query is modelled by the documents it    *)
(* selects, its order and its paging are left out.                         *)
(*                                                                         *)
(* Abstractions: a wildcard and a match are equality; a public key stands  *)
(* for its index in the keys of its shard and epoch; the columns of the    *)
(* Postgres tables have the names of the Elasticsearch fields.             *)
(* External: a should list asks for at least one of its members; TypeORM   *)
(* keeps one map of bound parameters per query, in which the last value    *)
(* set for a name wins.                                                    *)
(***************************************************************************)
EXTENDS Naturals, FiniteSets

CONSTANTS
  Docs,       \* index -> the documents it holds
  Contracts,  \* the addresses of smart contracts
  None,
  Failed      \* the answer of a call that throws

ASSUME NotAnAnswer == None # Failed /\ None \notin Contracts

Given(f, n) == n \in DOMAIN f
Among(f, n, S) == Given(f, n) => f[n] \in S
OneOf(f, n, S) == Given(f, n) => f[n] \cap S # {}
Same(f, n, v) == Among(f, n, {v})
Flag(f, n) == Given(f, n) /\ f[n] = "true"

(* Mutant: one bound replaces the other.                                   *)
InWindowEither(f, t) == IF Given(f, "before") THEN t <= f.before
                        ELSE Given(f, "after") => t >= f.after

(* elasticQuery.withDateRangeFilter *)
InWindow(f, t) == /\ Given(f, "before") => t <= f.before
                  /\ Given(f, "after") => t >= f.after

NftTypes == {"NonFungibleESDT", "SemiFungibleESDT"}
CollectionTypes == NftTypes \cup {"MetaESDT"}

CollectionRole == [canCreate |-> "ESDTRoleNFTCreate", canBurn |-> "ESDTRoleNFTBurn",
                   canAddQuantity |-> "ESDTRoleNFTAddQuantity",
                   canUpdateAttributes |-> "ESDTRoleNFTUpdateAttributes",
                   canAddUri |-> "ESDTRoleNFTAddURI", canTransferRole |-> "ESDTTransferRole"]
CollectionRoles == {CollectionRole[n] : n \in DOMAIN CollectionRole}
TokenRole == [canMint |-> "ESDTRoleLocalMint", canBurn |-> "ESDTRoleLocalBurn"]

-----------------------------------------------------------------------------
(* Elasticsearch: one predicate for each builder of the helper.            *)

ElasticBlock(f, d) ==
  /\ Same(f, "nonce", d.nonce) /\ Same(f, "shard", d.shard) /\ Same(f, "epoch", d.epoch)
  /\ {"shard", "epoch"} \subseteq DOMAIN f =>
       Same(f, "proposer", d.proposer) /\ Among(f, "validator", d.validators)

(* A role filter holds an address, or a boolean that is about the account. *)
RoleCondition(v, role, address, d) ==
  LET target == IF v \in {"true", "false"} THEN address ELSE v
  IN  (<<role, target>> \in d.roles) <=> (v # "false")

ElasticCollection(f, address, v3, d) ==
  /\ d.identifier = None /\ d.type \in CollectionTypes
  /\ address # None => \/ d.owner = address
                       \/ v3 /\ \E r \in CollectionRoles : <<r, address>> \in d.roles
  /\ InWindow(f, d.timestamp)
  /\ v3 => \A n \in DOMAIN f \cap DOMAIN CollectionRole :
             RoleCondition(f[n], CollectionRole[n], address, d)
  /\ Flag(f, "excludeMetaESDT") => d.type \in NftTypes
  /\ Same(f, "collection", d.token) /\ OneOf(f, "identifiers", {d.token})
  /\ Among(f, "search", {d.token, d.name}) /\ OneOf(f, "type", {d.type})

ElasticNft(f, identifier, address, v3, d) ==
  /\ d.identifier # None
  /\ address # None => d.address = address
  /\ identifier # None => d.identifier = identifier
  /\ Among(f, "search", {d.token, d.name}) /\ OneOf(f, "type", {d.type})
  /\ Same(f, "collection", d.token) /\ OneOf(f, "collections", {d.token})
  /\ Same(f, "name", d.metaName) /\ Same(f, "hasUris", d.hasUris)
  /\ OneOf(f, "tags", d.tags) /\ Same(f, "creator", d.creator)
  /\ OneOf(f, "identifiers", {d.identifier})
  /\ v3 => Same(f, "isWhitelistedStorage", d.stored)
  /\ Given(f, "traits") => f.traits \subseteq d.traits
  /\ Same(f, "isNsfw", d.nsfw) /\ InWindow(f, d.timestamp)
  /\ Given(f, "nonceBefore") => d.nonce <= f.nonceBefore
  /\ Given(f, "nonceAfter") => d.nonce >= f.nonceAfter
  /\ Flag(f, "excludeMetaESDT") => d.type \in NftTypes

(* A transfer of an account: a transaction it takes part in, or a result   *)
(* it receives; results a contract sends are its transfers too.            *)
TransferOf(a, d) ==
  LET received == d.receiver = a \/ a \in d.receivers
  IN  \/ /\ d.type = "unsigned" /\ ~d.canBeIgnored
         /\ received \/ (a \in Contracts /\ d.sender = a)
      \/ d.type = "normal" /\ (d.sender = a \/ received)

ElasticTransfer(f, v3, d) ==
  /\ Given(f, "address") => TransferOf(f.address, d)
  /\ Same(f, "type", d.type)
  /\ OneOf(f, "senders", {d.sender})
  /\ Given(f, "receivers") /\ f.receivers # {} => OneOf(f, "receivers", {d.receiver} \cup d.receivers)
  /\ Among(f, "token", d.tokens)
  /\ v3 => Same(f, "function", d.function)
  /\ Same(f, "senderShard", d.senderShard) /\ Same(f, "receiverShard", d.receiverShard)
  /\ Same(f, "miniBlockHash", d.miniBlockHash) /\ OneOf(f, "hashes", {d.hash})
  /\ Same(f, "status", d.status) /\ InWindow(f, d.timestamp)
  /\ Among(f, "senderOrReceiver", {d.sender, d.receiver})

ElasticTokenWithRoles(f, address, d) ==
  LET meta == Flag(f, "includeMetaESDT")
      roles == {"ESDTRoleLocalMint", "ESDTRoleLocalBurn", "ESDTTransferRole"}
                 \cup IF meta THEN CollectionRoles ELSE {}
  IN  /\ d.identifier = None
      /\ d.owner = address \/ \E r \in roles : <<r, address>> \in d.roles
      /\ Same(f, "identifier", d.token) /\ Same(f, "owner", d.owner)
      /\ d.type \in {"FungibleESDT"} \cup IF meta THEN {"MetaESDT"} ELSE {}
      /\ Among(f, "search", {d.token, d.name})
      /\ \A n \in DOMAIN f \cap DOMAIN TokenRole : RoleCondition(f[n], TokenRole[n], address, d)

(* The queries buildElasticRoundsFilter makes, by name, and what each asks. *)
RoundQueries(f) ==
  DOMAIN f \cap ({"shard", "epoch"} \cup IF {"shard", "epoch"} \subseteq DOMAIN f
                                         THEN {"validator"} ELSE {})

RoundMatches(f, n, d) ==
  CASE n = "shard" -> d.shard = f.shard
    [] n = "epoch" -> d.epoch = f.epoch
    [] n = "validator" -> f.validator \in d.signers

ElasticRound(f, d) == \A n \in RoundQueries(f) : RoundMatches(f, n, d)

ElasticScResult(address, v3, d) ==
  address # None => \/ address \in {d.sender, d.receiver}
                    \/ v3 /\ address \in d.receivers

ElasticTransaction(f, address, v3, d) ==
  LET receivers == {d.receiver} \cup IF v3 THEN d.receivers ELSE {}
      sent == Given(f, "sender") /\ f.sender = d.sender
      received == Given(f, "receivers") /\ f.receivers \cap receivers # {}
  IN  /\ Among(f, "token", d.tokens)
      /\ v3 => Same(f, "function", d.function)
      /\ Same(f, "senderShard", d.senderShard) /\ Same(f, "receiverShard", d.receiverShard)
      /\ Same(f, "miniBlockHash", d.miniBlockHash) /\ OneOf(f, "hashes", {d.hash})
      /\ Same(f, "status", d.status) /\ OneOf(f, "tokens", d.tokens)
      /\ InWindow(f, d.timestamp)
      /\ IF Given(f, "condition") /\ f.condition = "should"
         THEN Given(f, "sender") \/ (Given(f, "receivers") /\ f.receivers # {}) => sent \/ received
         ELSE /\ Given(f, "sender") => sent
              /\ Given(f, "receivers") /\ f.receivers # {} => received
      /\ address # None => address \in {d.sender} \cup receivers
      /\ Among(f, "senderOrReceiver", {d.sender, d.receiver})

(* buildTokenFilter: without MetaESDT the rows of the token itself.        *)
ElasticToken(f, d) ==
  /\ IF Flag(f, "includeMetaESDT") THEN d.type \in {"FungibleESDT", "MetaESDT"}
                                   ELSE d.identifier = None
  /\ Same(f, "type", d.type) /\ Same(f, "identifier", d.token)
  /\ OneOf(f, "identifiers", {d.token})
  /\ Same(f, "name", d.metaName) /\ Same(f, "search", d.metaName)

(* Mutant: the owners whose NFT is still in flight are counted too.        *)
OwnerCountedPending(id, d) == d.identifier = id

(* The owners getNftOwnersCount counts.                                    *)
OwnerCounted(id, d) == d.address # "pending" /\ d.identifier = id

(* The index an operation asks; both engines keep the same ones.           *)
IndexOf(op) ==
  CASE op \in {"getAccounts", "getAccountsCount"} -> "accounts"
    [] op \in {"getAccountContracts", "getAccountContractsCount"} -> "scdeploys"
    [] op \in {"getScResults", "getScResultsCount", "getAccountScResults",
               "getAccountScResultsCount"} -> "scresults"
    [] op \in {"getBlocks", "getBlocksCount"} -> "blocks"
    [] op \in {"getRounds", "getRoundCount"} -> "rounds"
    [] op \in {"getNftTags", "getNftTagCount"} -> "tags"
    [] op \in {"getTransfers", "getTransfersCount"} -> "operations"
    [] op \in {"getTransactions", "getTransactionCount", "getTransactionCountForAddress"} ->
         "transactions"
    [] op \in {"getNftCollections", "getNftCollectionCount", "getCollectionCountForAddress",
               "getNfts", "getNftCount", "getTokensWithRolesForAddress",
               "getTokensWithRolesForAddressCount"} -> "tokens"
    [] op \in {"getNftsForAddress", "getNftCountForAddress", "getNftOwnersCount",
               "getAccountEsdtByIdentifiers", "getTokensForAddress", "getTokenCountForAddress",
               "getTokenAccounts", "getTokenAccountsCount"} -> "accountsesdt"

(* The documents a count with the query q = [f, address, id, v3] counts.    *)
ElasticCount(op, q, d) ==
  CASE op \in {"getAccountsCount", "getScResultsCount"} -> TRUE
    [] op = "getAccountContractsCount" -> d.deployer = q.address
    [] op = "getBlocksCount" -> ElasticBlock(q.f, d)
    [] op = "getNftCollectionCount" -> ElasticCollection(q.f, None, q.v3, d)
    [] op = "getNftCountForAddress" -> ElasticNft(q.f, None, q.address, q.v3, d)
    [] op = "getCollectionCountForAddress" -> ElasticCollection(q.f, q.address, q.v3, d)
    [] op = "getNftCount" -> ElasticNft(q.f, None, None, q.v3, d)
    [] op = "getNftOwnersCount" -> OwnerCounted(q.id, d)
    [] op = "getTransfersCount" -> ElasticTransfer(q.f, q.v3, d)
    [] op = "getTokenCountForAddress" -> d.address = q.address /\ ElasticToken(q.f, d)
    [] op = "getTokenAccountsCount" -> d.token = q.id
    [] op = "getTokensWithRolesForAddressCount" -> ElasticTokenWithRoles(q.f, q.address, d)
    [] op = "getNftTagCount" -> Same(q.f, "search", d.tag)
    [] op = "getRoundCount" -> ElasticRound(q.f, d)
    [] op = "getAccountScResultsCount" -> ElasticScResult(q.address, q.v3, d)
    [] op = "getTransactionCountForAddress" -> q.address \in {d.sender, d.receiver}
    [] op = "getTransactionCount" -> ElasticTransaction(q.f, q.address, q.v3, d)

(* What a list holds.  getRounds joins its queries by filter.condition.     *)
ElasticList(op, q, d) ==
  CASE op = "getTransfers" -> ElasticTransfer(q.f, q.v3, d)
    [] op = "getTokensWithRolesForAddress" -> ElasticTokenWithRoles(q.f, q.address, d)
    [] op = "getRounds" ->
         IF Same(q.f, "condition", "must") THEN ElasticRound(q.f, d)
         ELSE RoundQueries(q.f) = {} \/ \E n \in RoundQueries(q.f) : RoundMatches(q.f, n, d)
    [] op = "getNftCollections" -> ElasticCollection(q.f, q.address, q.v3, d)
    [] op = "getNftTags" -> Same(q.f, "search", d.tag)
    [] op = "getScResults" -> /\ Same(q.f, "miniBlockHash", d.miniBlockHash)
                              /\ OneOf(q.f, "originalTxHashes", {d.originalTxHash})
    [] op = "getAccountScResults" -> ElasticScResult(q.address, q.v3, d)
    [] op = "getAccounts" -> TRUE
    [] op = "getAccountContracts" -> d.deployer = q.address

(* The other lists: blocks and the rows of an account, transactions, NFTs.  *)
ElasticOtherList(op, q, d) ==
  CASE op = "getBlocks" -> ElasticBlock(q.f, d)
    [] op = "getTransactions" -> ElasticTransaction(q.f, q.address, q.v3, d)
    [] op = "getAccountEsdtByIdentifiers" -> d.address # "pending" /\ d.identifier = q.id
    [] op = "getNftsForAddress" -> ElasticNft(q.f, None, q.address, q.v3, d)
    [] op = "getNfts" -> ElasticNft(q.f, q.id, None, q.v3, d)
    [] op = "getTokensForAddress" -> d.address = q.address /\ ElasticToken(q.f, d)
    [] op = "getTokenAccounts" -> d.address # "pending" /\ d.token = q.id

Counts == {"getAccountsCount", "getScResultsCount", "getAccountContractsCount",
           "getBlocksCount", "getNftCollectionCount", "getNftCountForAddress",
           "getCollectionCountForAddress", "getNftCount", "getNftOwnersCount",
           "getTransfersCount", "getTokenCountForAddress", "getTokenAccountsCount",
           "getTokensWithRolesForAddressCount", "getNftTagCount", "getRoundCount",
           "getAccountScResultsCount", "getTransactionCountForAddress", "getTransactionCount"}
Lists == {"getTransfers", "getTokensWithRolesForAddress", "getRounds", "getNftCollections",
          "getNftTags", "getScResults", "getAccountScResults", "getAccounts",
          "getAccountContracts"}
OtherLists == {"getBlocks", "getTransactions", "getAccountEsdtByIdentifiers", "getNftsForAddress",
               "getNfts", "getTokensForAddress", "getTokenAccounts"}
Operations == Counts \cup Lists \cup OtherLists

(* There is an index for each operation.                                   *)
ASSUME DocsAssumption == \A op \in Operations : IndexOf(op) \in DOMAIN Docs

ElasticSelects(op, q, d) ==
  \/ op \in Counts /\ ElasticCount(op, q, d)
  \/ op \in Lists /\ ElasticList(op, q, d)
  \/ op \in OtherLists /\ ElasticOtherList(op, q, d)

(* An NFT that is not found among the tokens is looked for among the rows   *)
(* of the accounts.                                                         *)
OrRows(op, q, found) ==
  IF op = "getNfts" /\ q.id # None /\ found = {}
  THEN {d \in Docs.accountsesdt : d.identifier = q.id} ELSE found

(* The answer of ElasticIndexerService.                                     *)
Elastic(op, q) == OrRows(op, q, {d \in Docs[IndexOf(op)] : ElasticSelects(op, q, d)})

-----------------------------------------------------------------------------
(* Postgres: the builders of its helper.                                   *)

(* timestamp BETWEEN before AND after: a missing bound is 0 or now.        *)
PostgresWindow(f, t) ==
  Given(f, "before") \/ Given(f, "after") =>
    /\ Given(f, "before") => f.before <= t
    /\ Given(f, "after") => t <= f.after

(* The keys of the proposer and of the validator both bind the name index, *)
(* which the validator's is set to last.                                   *)
PostgresBlock(f, d) ==
  LET index == IF Given(f, "validator") THEN f.validator ELSE f.proposer
  IN  /\ Same(f, "nonce", d.nonce) /\ Same(f, "shard", d.shard) /\ Same(f, "epoch", d.epoch)
      /\ {"shard", "epoch"} \subseteq DOMAIN f =>
           /\ Given(f, "proposer") => d.proposer = index
           /\ Given(f, "validator") => index \in d.validators

(* Both conditions on the type bind the name types; an identifier is asked *)
(* of rows that have none.                                                 *)
PostgresCollection(f, address, d) ==
  /\ d.identifier = None
  /\ IF Given(f, "type") THEN d.type \in f.type ELSE d.type \in CollectionTypes
  /\ address # None => d.owner = address
  /\ PostgresWindow(f, d.timestamp)
  /\ Same(f, "collection", d.token) /\ ~Given(f, "identifiers")
  /\ Among(f, "search", {d.token, d.name})

PostgresNft(f, identifier, d) ==
  /\ d.identifier # None /\ (identifier # None => d.identifier = identifier)
  /\ Among(f, "search", {d.token, d.name})
  /\ Same(f, "collection", d.token) /\ OneOf(f, "collections", {d.token})
  /\ OneOf(f, "identifiers", {d.identifier})
  /\ PostgresWindow(f, d.timestamp)

(* Mutant: the two columns are swapped.                                    *)
SameShardsSwapped(f, d) == /\ Given(f, "senderShard") => d.receiverShard = f.senderShard
                           /\ Given(f, "receiverShard") => d.senderShard = f.receiverShard

(* Both shards bind the name shard, which the receiver's is set to last.   *)
SameShards(f, d) ==
  LET shard == IF Given(f, "receiverShard") THEN f.receiverShard ELSE f.senderShard
  IN  /\ Given(f, "senderShard") => d.senderShard = shard
      /\ Given(f, "receiverShard") => d.receiverShard = shard

(* The table holds transactions only: the results have a table of theirs.  *)
PostgresTransfer(f, d) ==
  /\ d.type = "normal" /\ Same(f, "type", d.type)
  /\ Same(f, "sender", d.sender) /\ OneOf(f, "receivers", {d.receiver} \cup d.receivers)
  /\ Among(f, "token", d.tokens) /\ Same(f, "function", d.function) /\ SameShards(f, d)
  /\ Same(f, "miniBlockHash", d.miniBlockHash) /\ OneOf(f, "hashes", {d.hash})
  /\ Same(f, "status", d.status) /\ PostgresWindow(f, d.timestamp)

(* The account is not asked for.                                           *)
PostgresTokenWithRoles(f, d) ==
  /\ d.identifier # None /\ d.type = "FungibleESDT"
  /\ Same(f, "identifier", d.token) /\ Same(f, "owner", d.owner)
  /\ Among(f, "search", {d.token, d.name})

PostgresScResult(address, d) == address # None => address \in {d.sender, d.receiver}

(* The sender of the filter and the account bind the name sender; without  *)
(* either the sender is compared to NULL.  orWhere opens an alternative to *)
(* all the conditions before it and takes those after it along.            *)
PostgresTransaction(f, address, d) ==
  LET sender == IF address # None THEN address
                ELSE IF Given(f, "sender") THEN f.sender ELSE None
      first == {"token", "function", "senderShard", "receiverShard", "miniBlockHash",
                "status", "hashes", "before", "after"}
      before == /\ Among(f, "token", d.tokens) /\ Same(f, "function", d.function)
                /\ SameShards(f, d) /\ Same(f, "miniBlockHash", d.miniBlockHash)
                /\ Same(f, "status", d.status) /\ OneOf(f, "hashes", {d.hash})
                /\ PostgresWindow(f, d.timestamp)
      after == /\ OneOf(f, "receivers", {d.receiver} \cup d.receivers)
               /\ address # None => address \in {d.sender, d.receiver} \cup d.receivers
  IN  IF Given(f, "condition") /\ f.condition = "should"
      THEN IF Given(f, "sender")
           THEN (first \cap DOMAIN f # {} /\ before) \/ (d.sender = sender /\ after)
           ELSE before /\ after
      ELSE before /\ d.sender = sender /\ after

(* Calls that throw: methods that are not implemented, columns the tables  *)
(* do not have (accounts_esdt has no identifier and no timestamp,          *)
(* txs_operations no can_be_ignored, transactions no token), a parameter   *)
(* that is not bound (nonce), a list that is empty or is a string (the     *)
(* account binds the name receivers to one, which the list is spread from). *)
PostgresThrows(op, q) ==
  \/ op \in {"getAccountsCount", "getNftCountForAddress", "getNftsForAddress",
            "getAccountEsdtByIdentifiers"}
  \/ op \in {"getBlocks", "getBlocksCount"} /\ Given(q.f, "nonce")
  \/ op \in {"getNfts", "getNftCount"} /\ Given(q.f, "type")
  \/ op \in {"getTransfers", "getTransfersCount"} /\ Given(q.f, "address")
  \/ op \in {"getTransactions", "getTransactionCount"} /\ Given(q.f, "tokens")
  \/ /\ op \in {"getTransfers", "getTransfersCount", "getTransactions", "getTransactionCount"}
     /\ Given(q.f, "receivers") /\ q.f.receivers = {}
  \/ /\ op \in {"getTransactions", "getTransactionCount"}
     /\ Given(q.f, "receivers") /\ q.address # None
  \/ /\ op = "getNfts" /\ q.id # None
     /\ ~\E d \in Docs.tokens : PostgresNft(q.f, q.id, d)

PostgresCount(op, q, d) ==
  CASE op = "getScResultsCount" -> TRUE
    [] op = "getAccountContractsCount" -> d.deployer = q.address
    [] op = "getBlocksCount" -> PostgresBlock(q.f, d)
    [] op = "getNftCollectionCount" -> PostgresCollection(q.f, None, d)
    [] op = "getCollectionCountForAddress" -> PostgresCollection(q.f, q.address, d)
    [] op = "getNftCount" -> PostgresNft(q.f, None, d)
    [] op = "getNftOwnersCount" -> d.address # "pending" /\ d.token = q.id
    [] op = "getTransfersCount" -> PostgresTransfer(q.f, d)
    [] op = "getTokenCountForAddress" -> d.address = q.address /\ d.identifier = None
    [] op = "getTokenAccountsCount" -> d.token = q.id
    [] op = "getTokensWithRolesForAddressCount" -> PostgresTokenWithRoles(q.f, d)
    [] op = "getNftTagCount" -> Same(q.f, "search", d.tag)
    [] op = "getRoundCount" -> ElasticRound(q.f, d)
    [] op = "getAccountScResultsCount" -> PostgresScResult(q.address, d)
    [] op = "getTransactionCountForAddress" -> q.address \in {d.sender, d.receiver}
    [] op = "getTransactionCount" -> PostgresTransaction(q.f, q.address, d)

(* getRounds only filters when it is given a condition.                    *)
PostgresList(op, q, d) ==
  CASE op = "getBlocks" -> PostgresBlock(q.f, d)
    [] op = "getTokenAccounts" -> d.token = q.id /\ d.address # "pending"
    [] op = "getTransfers" -> PostgresTransfer(q.f, d)
    [] op = "getTokensWithRolesForAddress" -> PostgresTokenWithRoles(q.f, d)
    [] op = "getRounds" -> Given(q.f, "condition") => ElasticRound(q.f, d)
    [] op = "getNftCollections" -> PostgresCollection(q.f, q.address, d)
    [] op = "getNftTags" -> Same(q.f, "search", d.tag)
    [] op = "getAccountScResults" -> PostgresScResult(q.address, d)
    [] op \in {"getScResults", "getAccounts", "getAccountContracts"} -> ElasticList(op, q, d)
    [] op = "getTransactions" -> PostgresTransaction(q.f, q.address, d)
    [] op = "getTokensForAddress" ->
         /\ d.identifier = None /\ d.address = q.address
         /\ Same(q.f, "identifier", d.token) /\ OneOf(q.f, "identifiers", {d.token})
    [] op = "getNfts" -> PostgresNft(q.f, q.id, d)

Postgres(op, q) ==
  IF PostgresThrows(op, q) THEN Failed
  ELSE {d \in Docs[IndexOf(op)] : IF op \in Counts THEN PostgresCount(op, q, d)
                                                   ELSE PostgresList(op, q, d)}

-----------------------------------------------------------------------------
(* IndexerService hands a call to the engine the configuration chose.      *)

Engines == {"elastic", "postgres"}

(* Mutant: both engines share the methods that are not implemented.        *)
AskShared(eng, op, q) == IF PostgresThrows(op, q) THEN Failed ELSE Elastic(op, q)

Ask(eng, op, q) == IF eng = "elastic" THEN Elastic(op, q) ELSE Postgres(op, q)
=============================================================================
