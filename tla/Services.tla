------------------------------ MODULE Services ------------------------------
(***************************************************************************)
(* The services behind the routes and the GraphQL fields: what each method *)
(* a handler calls answers to a query q = [f, address, id, v3] (a filter,  *)
(* an account or None, an identifier or None, the flag indexer-v3), with   *)
(* the calls it makes to the indexer and to the gateway.  The engine is    *)
(* Elasticsearch.  An answer is a set of items, missing (undefined or      *)
(* null), or an error that is thrown.                                      *)
(*                                                                         *)
(* Abstractions: a cache answers what it would be filled with; the fields  *)
(* of an item are those the filters look at.                               *)
(* External: the gateway's answers are documents too: the properties of    *)
(* the ESDTs, the balances of an account, transactions not indexed yet,    *)
(* and Redis's and GitHub's nodes, providers, identities and assets.       *)
(***************************************************************************)
EXTENDS Indexer

CONSTANT Addresses  \* the well-formed addresses

Items(S) == [kind |-> "items", items |-> S]
Missing == [kind |-> "missing", items |-> {}]
Throws == [kind |-> "throws", items |-> {}]
(* An error that already says that the request is a bad one.               *)
Refused == [kind |-> "refused", items |-> {}]
Found(S) == IF S = {} THEN Missing ELSE Items(S)
(* An item that is merged into an object: undefined has no fields to merge. *)
Merged(S) == IF S = {} THEN Throws ELSE Items(S)

Asked(op, q) == Items(Elastic(op, q))
At(q, address) == [q EXCEPT !.address = address]
Filtered(q, f) == [q EXCEPT !.f = f]

-----------------------------------------------------------------------------
(* token.service: the tokens are the fungible ones and the MetaESDT        *)
(* collections, all of them cached.                                        *)

AllTokens == {t \in Docs.properties : t.type \in {"FungibleESDT", "MetaESDT"}}

FilteredTokens(f) ==
  {t \in AllTokens :
     /\ Same(f, "type", t.type) /\ Among(f, "search", {t.name, t.token})
     /\ Same(f, "name", t.name) /\ Same(f, "identifier", t.token)
     /\ OneOf(f, "identifiers", {t.token})
     /\ ~Flag(f, "includeMetaESDT") => t.type = "FungibleESDT"}

IsToken(id) == \E t \in AllTokens : t.token = id

(* The gateway knows the balances of an account, by token and by NFT.      *)
AllTokensForAddress(q) ==
  {e \in Docs.balances : e.address = q.address
                           /\ \E t \in FilteredTokens(q.f) : t.token = e.token}

TokenLists(m, q) ==
  CASE m \in {"getTokens", "getTokenCount"} -> Items(FilteredTokens(q.f))
    [] m = "getTokensForAddress" ->
         IF q.address \in Contracts
         THEN Items({d \in Elastic(m, q) : IsToken(d.token)})
         ELSE Items(AllTokensForAddress(q))
    [] m = "getTokenCountForAddress" ->
         IF q.address \in Contracts THEN Asked(m, q) ELSE Items(AllTokensForAddress(q))

(* Only balances of a token itself: those of an NFT are asked of a gateway *)
(* endpoint of their own.                                                  *)
TokenOf(q) ==
  LET tokens == FilteredTokens([identifier |-> q.id, includeMetaESDT |-> "true"])
  IN  IF tokens = {} THEN Missing
      ELSE Found({e \in Docs.balances : e.address = q.address /\ e.token = q.id})

TokenProperties(id) == {t \in AllTokens : t.token = id}

TokenHolders(m, q) ==
  IF TokenProperties(q.id) = {} THEN Missing ELSE Asked(m, q)

(* With indexer-v3 the index knows the roles, otherwise the ESDT contract. *)
Roles(q) == UNION {d.roles : d \in {x \in Docs.tokens : x.token = q.id /\ x.identifier = None}}

TokenRoles(m, q) ==
  LET known == {x \in Docs.tokens : x.token = q.id /\ x.identifier = None}
  IN  CASE m = "getTokenRoles" -> IF known = {} THEN Missing ELSE Items(Roles(q))
        [] m = "getTokenRolesForIdentifierAndAddress" ->
             LET own == {r \in Roles(q) : r[2] = q.address}
             IN  IF known = {} THEN Missing
                 ELSE IF q.v3 THEN Items(own) ELSE Found(own)

TokensWithRoles(m, q) ==
  LET listed == {d \in Elastic("getTokensWithRolesForAddress", q) : IsToken(d.token)}
  IN  CASE m = "getTokensWithRolesForAddress" -> Items(listed)
        [] m = "getTokensWithRolesForAddressCount" -> Asked(m, q)
        [] m = "getTokenWithRolesForAddress" ->
             LET own == Filtered(q, [identifier |-> q.id, includeMetaESDT |-> "true"])
             IN  Found({d \in Elastic("getTokensWithRolesForAddress", own) : IsToken(d.token)})

Logo(q) == Found({a \in Docs.assets : a.token = q.id})

TokenService(m, q) ==
  CASE m \in {"getTokens", "getTokenCount", "getTokensForAddress", "getTokenCountForAddress"} ->
         TokenLists(m, q)
    [] m = "getToken" -> Found({t \in AllTokens : t.token = q.id})
    [] m = "getTokenSupply" -> Found(TokenProperties(q.id))
    [] m = "getTokenForAddress" -> TokenOf(q)
    [] m \in {"getTokenAccounts", "getTokenAccountsCount"} -> TokenHolders(m, q)
    [] m \in {"getTokenRoles", "getTokenRolesForIdentifierAndAddress"} -> TokenRoles(m, q)
    [] m \in {"getTokensWithRolesForAddress", "getTokensWithRolesForAddressCount",
              "getTokenWithRolesForAddress"} -> TokensWithRoles(m, q)
    [] m \in {"getLogoPng", "getLogoSvg"} -> Logo(q)

-----------------------------------------------------------------------------
(* collection.service *)

IndexedCollection(id) == {d \in Docs.tokens : d.identifier = None /\ d.token = id}
IsCollection(id) == IndexedCollection(id) # {}

(* applyPropertiesToCollections: those whose properties the gateway has.   *)
WithProperties(S) == {d \in S : \E p \in Docs.properties : p.token = d.token}

(* The collections of the NFTs an account holds, from the rows it owns.    *)
CollectionsForAddress(q) ==
  LET types == NftTypes \cup IF Flag(q.f, "excludeMetaESDT") THEN {} ELSE {"MetaESDT"}
      held == {d \in Docs.accountsesdt :
                 /\ d.identifier # None /\ d.address = q.address /\ d.type \in types
                 /\ Same(q.f, "collection", d.token) /\ OneOf(q.f, "identifiers", {d.token})
                 /\ Among(q.f, "search", {d.token, d.name}) /\ OneOf(q.f, "type", {d.type})}
      listed == Filtered(At(q, None), [identifiers |-> {d.token : d \in held}])
  IN  IF held = {} THEN {} ELSE WithProperties(Elastic("getNftCollections", listed))

RoleFilters == DOMAIN CollectionRole

(* esdtAddressService.getCollectionsForAddress: with indexer-v3 it refers, *)
(* for a collection without a time, to a variable that is out of scope.    *)
ListedWithRoles(q) == WithProperties(Elastic("getNftCollections", q))
Untimed(q) == q.v3 /\ \E d \in ListedWithRoles(q) : d.timestamp = 0

CollectionsWithRoles(m, q) ==
  LET own == Filtered(q, [collection |-> q.id])
  IN  CASE m = "getCollectionsWithRolesForAddress" ->
             IF ~q.v3 /\ DOMAIN q.f \cap RoleFilters # {} THEN Refused
             ELSE IF Untimed(q) THEN Throws ELSE Items(ListedWithRoles(q))
        [] m = "getCollectionForAddressWithRole" ->
             IF Untimed(own) THEN Throws ELSE Found(ListedWithRoles(own))
        [] m = "getCollectionCountForAddressWithRoles" -> Asked("getCollectionCountForAddress", q)

CollectionItem(m, q) ==
  CASE m = "getNftCollection" ->
         Found(WithProperties({d \in IndexedCollection(q.id) : d.type \in CollectionTypes}))
    [] m = "getNftCollectionRanks" ->
         IF IsCollection(q.id) THEN Found({a \in Docs.assets : a.token = q.id /\ a.ranked})
         ELSE Missing

CollectionService(m, q) ==
  CASE m = "getNftCollections" -> Items(WithProperties(Elastic(m, q)))
    [] m = "getNftCollectionCount" -> Asked(m, q)
    [] m \in {"getCollectionsForAddress", "getCollectionCountForAddress"} ->
         Items(CollectionsForAddress(q))
    [] m = "getCollectionForAddress" ->
         Found(CollectionsForAddress(Filtered(q, [collection |-> q.id])))
    [] m \in {"getCollectionsWithRolesForAddress", "getCollectionCountForAddressWithRoles",
              "getCollectionForAddressWithRole"} -> CollectionsWithRoles(m, q)
    [] m \in {"getNftCollection", "getNftCollectionRanks"} -> CollectionItem(m, q)

-----------------------------------------------------------------------------
(* nft.service and esdt.address.service *)

NftsInternal(q) == Elastic("getNfts", Filtered(q, <<>>))

(* filterEsdtsForAddressFromGateway: all the tags.  includeFlagged removes *)
(* nothing: an item has no scamInfo yet when the filter looks for it.      *)
FromGateway(q) ==
  {e \in Docs.balances :
     /\ e.identifier # None /\ e.address = q.address
     /\ Among(q.f, "search", {e.metaName, e.identifier, e.token})
     /\ OneOf(q.f, "identifiers", {e.identifier}) /\ OneOf(q.f, "type", {e.type})
     /\ Same(q.f, "collection", e.token) /\ OneOf(q.f, "collections", {e.token})
     /\ Same(q.f, "name", e.metaName)
     /\ Given(q.f, "tags") => q.f.tags \subseteq e.tags
     /\ Same(q.f, "creator", e.creator) /\ Same(q.f, "hasUris", e.hasUris)
     /\ Flag(q.f, "excludeMetaESDT") => e.type \in NftTypes}

NftsForAddress(q) ==
  IF Given(q.f, "identifiers") /\ Cardinality(q.f.identifiers) = 1 THEN FromGateway(q)
  ELSE IF q.address \in Contracts \/ (Given(q.f, "source") /\ q.f.source = "elastic")
       THEN Elastic("getNftsForAddress", q)
       ELSE FromGateway(q)

NftOwners(m, q) ==
  CASE m = "getCollectionOwners" -> Asked("getAccountEsdtByIdentifiers", q)
    [] m \in {"getNftOwners", "getNftOwnersCount"} /\ NftsInternal(q) = {} -> Missing
    [] m = "getNftOwners" /\ NftsInternal(q) # {} -> Asked("getAccountEsdtByIdentifiers", q)
    [] m = "getNftOwnersCount" /\ NftsInternal(q) # {} -> Asked(m, q)

NftService(m, q) ==
  CASE m \in {"getNfts", "getNftCount"} -> Asked(m, q)
    [] m \in {"getSingleNft", "getNftThumbnail", "getNftSupply"} -> Found(NftsInternal(q))
    [] m \in {"getNftOwners", "getNftOwnersCount", "getCollectionOwners"} -> NftOwners(m, q)
    [] m = "getNftsForAddress" -> Items(NftsForAddress(q))
    [] m = "getNftCountForAddress" -> Asked(m, q)
    [] m = "getNftForAddress" -> Found(NftsForAddress(Filtered(q, [identifiers |-> {q.id}])))

-----------------------------------------------------------------------------
(* transaction.service, transfer.service, scresult.service                 *)

(* Hashes that are not indexed yet are asked of the gateway, one by one.   *)
TransactionList(q) ==
  LET indexed == Elastic("getTransactions", q)
      missing == IF Given(q.f, "hashes") THEN q.f.hashes \ {d.hash : d \in indexed} ELSE {}
  IN  indexed \cup {d \in Docs.pool : d.hash \in missing}


(* The service never takes its two short cuts to the count of an account:  *)
(* a filter always has its list of senders (transaction.filter.ts:13), and *)
(* is written out neither as {} nor as the three names without senders     *)
(* that transaction.utils compares it to.                                  *)
TransactionCount(q) == Asked("getTransactionCount", q)

TransactionService(m, q) ==
  CASE m = "getTransactions" -> Items(TransactionList(q))
    [] m = "getTransactionCount" -> TransactionCount(q)
    [] m = "getTransaction" ->
         Found({d \in Docs.transactions \cup Docs.pool : d.hash = q.id})

TransferService(m, q) == Asked(m, q)

ScResultService(m, q) ==
  CASE m \in {"getScResults", "getScResultsCount", "getAccountScResults",
              "getAccountScResultsCount"} -> Asked(m, q)
    [] m = "getScResult" -> Found({d \in Docs.scresults : d.hash = q.id})
    [] m = "getAccountScResult" ->
         Found({d \in Docs.scresults : d.hash = q.id /\ q.address \in {d.sender, d.receiver}})

-----------------------------------------------------------------------------
(* account, block, round, tag, node, provider and identity services        *)

(* The transactions and the results of an account: with indexer-v3 they are *)
(* its transfers of that type.                                              *)
AccountFigures(m, q) ==
  LET transfers(type) == Asked("getTransfersCount",
                               Filtered(q, [address |-> q.address, type |-> type]))
  IN  CASE m = "getAccountTxCount" ->
             IF q.v3 THEN transfers("normal") ELSE Asked("getTransactionCountForAddress", q)
        [] m = "getAccountScrCount" ->
             IF q.v3 THEN transfers("unsigned") ELSE Asked("getAccountScResultsCount", q)

(* The gateway knows every address, with or without a transaction.         *)
AccountService(m, q) ==
  CASE m \in {"getAccounts", "getAccountsCount", "getAccountContracts",
              "getAccountContractsCount"} -> Asked(m, q)
    [] m \in {"getAccount", "getAccountSimple"} -> Found({q.address} \cap Addresses)
    [] m \in {"getAccountTxCount", "getAccountScrCount"} -> AccountFigures(m, q)
    [] m = "getContractUpgrades" ->
         Items({d \in Docs.scdeploys : d.contract = q.address})
    [] m = "getAccountHistory" -> Items({d \in Docs.history : d.address = q.address})
    [] m = "getAccountTokenHistory" ->
         Items({d \in Docs.history : d.address = q.address /\ d.token = q.id})

BlockService(m, q) ==
  CASE m \in {"getBlocks", "getBlocksCount"} -> Asked(m, q)
    [] m = "getBlock" -> Merged({d \in Docs.blocks : d.hash = q.id})
    [] m = "getMiniBlock" -> Merged({d \in Docs.miniblocks : d.hash = q.id})

RoundService(m, q) ==
  CASE m \in {"getRounds", "getRoundCount"} -> Asked(m, q)
    [] m = "getRound" -> Merged({d \in Docs.rounds : <<d.shard, d.round>> = q.id})

TagService(m, q) ==
  CASE m \in {"getNftTags", "getNftTagCount"} -> Asked(m, q)
    [] m = "getNftTag" -> Merged({d \in Docs.tags : d.tag = q.id})

FilteredNodes(f) ==
  {d \in Docs.nodes :
     /\ Among(f, "search", {d.bls, d.name, d.version})
     /\ Same(f, "online", d.online) /\ Same(f, "type", d.type) /\ Same(f, "status", d.status)
     /\ Same(f, "shard", d.shard) /\ Same(f, "issues", d.issues)
     /\ Same(f, "identity", d.identity) /\ Same(f, "provider", d.provider)
     /\ Same(f, "owner", d.owner) /\ Same(f, "auctioned", d.auctioned)
     /\ Same(f, "fullHistory", d.fullHistory)}

NodeService(m, q) ==
  CASE m \in {"getNodes", "getNodeCount"} -> Items(FilteredNodes(q.f))
    [] m = "getNode" -> Found({d \in Docs.nodes : d.bls = q.id})

ProviderService(m, q) ==
  CASE m = "getProviders" ->
         Items({d \in Docs.providers : /\ Same(q.f, "identity", d.identity)
                                       /\ OneOf(q.f, "providers", {d.provider})})
    [] m = "getProvider" -> Found({d \in Docs.providers : d.provider = q.address})

(* No identities means all of them, an empty list too.                     *)
IdentityService(m, q) ==
  CASE m = "getIdentities" ->
         Items({d \in Docs.identities :
                  Given(q.f, "identities") /\ q.f.identities # {} => d.identity \in q.f.identities})
    [] m = "getIdentity" -> Found({d \in Docs.identities : d.identity = q.id})

-----------------------------------------------------------------------------
TokenMethods == {"getTokens", "getTokenCount", "getTokensForAddress", "getTokenCountForAddress",
                 "getToken", "getTokenSupply", "getTokenForAddress", "getTokenAccounts",
                 "getTokenAccountsCount", "getTokenRoles", "getTokenRolesForIdentifierAndAddress",
                 "getTokensWithRolesForAddress", "getTokensWithRolesForAddressCount",
                 "getTokenWithRolesForAddress", "getLogoPng", "getLogoSvg"}
CollectionMethods == {"getNftCollections", "getNftCollectionCount", "getCollectionsForAddress",
                      "getCollectionCountForAddress", "getCollectionForAddress",
                      "getCollectionsWithRolesForAddress", "getCollectionCountForAddressWithRoles",
                      "getCollectionForAddressWithRole", "getNftCollection", "getNftCollectionRanks"}
NftMethods == {"getNfts", "getNftCount", "getSingleNft", "getNftThumbnail", "getNftSupply",
               "getNftOwners", "getNftOwnersCount", "getCollectionOwners", "getNftsForAddress",
               "getNftCountForAddress", "getNftForAddress"}
AccountMethods == {"getAccounts", "getAccountsCount", "getAccountContracts",
                   "getAccountContractsCount", "getAccount", "getAccountSimple",
                   "getAccountTxCount", "getAccountScrCount", "getContractUpgrades",
                   "getAccountHistory", "getAccountTokenHistory"}
ScResultMethods == {"getScResults", "getScResultsCount", "getAccountScResults",
                    "getAccountScResultsCount", "getScResult", "getAccountScResult"}

(* The methods whose answers the filters and the indexer decide; the others *)
(* (network figures, stakes, contract queries, proxied calls) are values.   *)
Modelled ==
  TokenMethods \cup CollectionMethods \cup NftMethods \cup AccountMethods \cup ScResultMethods
    \cup {"getTransactions", "getTransactionCount", "getTransaction", "getTransfers",
          "getTransfersCount", "getBlocks", "getBlocksCount", "getBlock", "getMiniBlock",
          "getRounds", "getRoundCount", "getRound", "getNftTags", "getNftTagCount", "getNftTag",
          "getNodes", "getNodeCount", "getNode", "getProviders", "getProvider", "getIdentities",
          "getIdentity"}

Answer(m, q) ==
  CASE m \in TokenMethods -> TokenService(m, q)
    [] m \in CollectionMethods -> CollectionService(m, q)
    [] m \in NftMethods -> NftService(m, q)
    [] m \in AccountMethods -> AccountService(m, q)
    [] m \in ScResultMethods -> ScResultService(m, q)
    [] m \in {"getTransactions", "getTransactionCount", "getTransaction"} -> TransactionService(m, q)
    [] m \in {"getTransfers", "getTransfersCount"} -> TransferService(m, q)
    [] m \in {"getBlocks", "getBlocksCount", "getBlock", "getMiniBlock"} -> BlockService(m, q)
    [] m \in {"getRounds", "getRoundCount", "getRound"} -> RoundService(m, q)
    [] m \in {"getNftTags", "getNftTagCount", "getNftTag"} -> TagService(m, q)
    [] m \in {"getNodes", "getNodeCount", "getNode"} -> NodeService(m, q)
    [] m \in {"getProviders", "getProvider"} -> ProviderService(m, q)
    [] m \in {"getIdentities", "getIdentity"} -> IdentityService(m, q)
    [] m \notin Modelled -> Items({m})
=============================================================================
