------------------------------- MODULE Routes -------------------------------
(***************************************************************************)
(* The routes of the REST API, in the order in which they are registered:  *)
(* the controllers of endpoints.controllers.module.ts, and in a controller *)
(* its handlers from top to bottom.  Of each handler: its path, what it    *)
(* checks before it calls a service, the filter field that each query name *)
(* is passed as, the service's method, and what becomes of an answer that  *)
(* is missing or of a call that throws.                                    *)
(*                                                                         *)
(* A path is a sequence of literals and parameters; a parameter (a         *)
(* capitalised name) stands for the pipe that parses it.  Left out: query  *)
(* names that only shape an answer (fields, sort, order and with...).      *)
(***************************************************************************)
EXTENDS Naturals, Sequences

(* The formats of URL segments that each parameter's pipe lets through.    *)
Formats == [Address |-> {"address"}, Token |-> {"esdt"}, Collection |-> {"esdt"},
            Nft |-> {"nft"}, TokenOrNft |-> {"esdt", "nft"}, Hash |-> {"hash"},
            Bls |-> {"bls"}, Int |-> {"int"},
            Any |-> {"address", "esdt", "nft", "hash", "bls", "int", "word"}]


(* The field a query name is passed as, unless a route renames it.         *)
Query(S) == [n \in S |-> IF n = "receiver" THEN "receivers" ELSE n]
Page == {"from", "size"}

Route(verb, path, names, method) ==
  [verb |-> verb, path |-> path, query |-> Query(names), method |-> method,
   checks |-> {}, under |-> "", missing |-> "200", thrown |-> "500"]
Get(path, names, method) == Route("GET", path, names, method)
Post(path, method) == Route("POST", path, {}, method)
Count(path, names, method) == <<Get(path \o <<"count">>, names, method),
                                Get(path \o <<"c">>, names, method)>>

(* Mutant: the handler does not look at what the service returned.         *)
OrNotFoundForgotten(r) == r

(* The status of an undefined answer and of a call that throws, and what is *)
(* checked before.  "empty" is an empty list, or a count of zero.           *)
OrNotFound(r) == [r EXCEPT !.missing = "404"]
Caught(r, as) == [r EXCEPT !.thrown = as]
Checked(S, r) == [r EXCEPT !.checks = S]
(* The path's identifier is a field of the filter.                         *)
Under(field, r) == [r EXCEPT !.under = field]
(* A name that is passed as another field, or as none.                     *)
As(n, field, r) == [r EXCEPT !.query[n] = field]
Senders(r) == As("sender", "senders", r)
Ignoring(n, r) == As(n, "", r)
Each(Op(_), routes) == [i \in DOMAIN routes |-> Op(routes[i])]

TokenNames == {"type", "search", "name", "identifier", "identifiers", "includeMetaESDT"}
TransactionNames ==
  {"sender", "receiver", "token", "senderShard", "receiverShard", "miniBlockHash", "hashes",
   "status", "function", "before", "after"}
NftNames == {"search", "identifiers", "type", "collection", "name", "tags", "creator",
             "isWhitelistedStorage", "hasUris", "isNsfw", "traits", "before", "after"}
AccountNftNames == {"search", "identifiers", "type", "collection", "collections", "name", "tags",
                    "creator", "hasUris", "includeFlagged", "excludeMetaESDT"}
CollectionNames == {"search", "identifiers", "type", "creator", "before", "after", "canCreate",
                    "canBurn", "canAddQuantity", "canUpdateAttributes", "canAddUri",
                    "canTransferRole", "excludeMetaESDT"}
RoleNames == {"search", "type", "owner", "canCreate", "canBurn", "canAddQuantity",
              "canUpdateAttributes", "canAddUri", "canTransferRole", "excludeMetaESDT"}
TokenRoleNames == {"search", "owner", "canMint", "canBurn", "includeMetaESDT"}
BlockNames == {"shard", "proposer", "validator", "epoch", "nonce"}
RoundNames == {"validator", "condition", "shard", "epoch"}
NodeNames == {"search", "online", "type", "status", "shard", "issues", "identity", "provider",
              "owner", "auctioned", "fullHistory"}

-----------------------------------------------------------------------------
(* account.controller.ts *)

Account == <<"accounts", "Address">>

AccountItems ==
  <<Get(<<"accounts">>, Page, "getAccounts")>>
  \o Count(<<"accounts">>, {}, "getAccountsCount")
  \o <<OrNotFound(Get(Account, {}, "getAccount")),
       Caught(Get(Account \o <<"deferred">>, {}, "getDeferredAccount"), "404"),
       Caught(Get(Account \o <<"verification">>, {}, "getAccountVerification"), "404"),
       Caught(Get(Account \o <<"tokens">>, TokenNames \cup Page, "getTokensForAddress"), "empty")>>

AccountTokens ==
  Each(LAMBDA r : Caught(r, "empty"),
       Count(Account \o <<"tokens">>, TokenNames, "getTokenCountForAddress"))
  \o <<OrNotFound(Get(Account \o <<"tokens", "TokenOrNft">>, {}, "getTokenForAddress")),
       Get(Account \o <<"roles", "collections">>, RoleNames \cup Page,
           "getCollectionsWithRolesForAddress")>>
  \o Count(Account \o <<"roles", "collections">>,
           RoleNames \ {"canUpdateAttributes", "canAddUri", "canTransferRole"},
           "getCollectionCountForAddressWithRoles")

AccountRoles ==
  <<OrNotFound(Get(Account \o <<"roles", "collections", "Collection">>, {},
                   "getCollectionForAddressWithRole")),
    Get(Account \o <<"roles", "tokens">>, TokenRoleNames \cup Page, "getTokensWithRolesForAddress")>>
  \o Count(Account \o <<"roles", "tokens">>, TokenRoleNames, "getTokensWithRolesForAddressCount")
  \o <<OrNotFound(Get(Account \o <<"roles", "tokens", "Token">>, {}, "getTokenWithRolesForAddress")),
       Get(Account \o <<"collections">>, {"search", "type", "excludeMetaESDT"} \cup Page,
           "getCollectionsForAddress")>>
  \o Count(Account \o <<"collections">>, {"search", "type", "excludeMetaESDT"},
           "getCollectionCountForAddress")

AccountNfts ==
  <<OrNotFound(Get(Account \o <<"collections", "Collection">>, {}, "getCollectionForAddress")),
    Get(Account \o <<"nfts">>, AccountNftNames \cup {"source"} \cup Page, "getNftsForAddress")>>
  \o Count(Account \o <<"nfts">>, AccountNftNames, "getNftCountForAddress")
  \o <<OrNotFound(Get(Account \o <<"nfts", "Nft">>, {}, "getNftForAddress"))>>

AccountTransactions ==
  <<Get(Account \o <<"stake">>, {}, "getStakeForAddress"),
    Get(Account \o <<"delegation">>, {}, "getDelegationForAddress"),
    Get(Account \o <<"delegation-legacy">>, {}, "getLegacyDelegationForAddress"),
    Get(Account \o <<"keys">>, {}, "getKeys"),
    Get(Account \o <<"waiting-list">>, {}, "getWaitingListForAddress"),
    Get(Account \o <<"transactions">>, TransactionNames \cup {"senderOrReceiver"} \cup Page,
        "getTransactions"),
    Get(Account \o <<"transactions", "count">>, TransactionNames, "getTransactionCount")>>

AccountTransfers ==
  Each(LAMBDA r : Checked({"v3"}, Under("address", r)),
    <<Senders(Get(Account \o <<"transfers">>, TransactionNames \cup {"senderOrReceiver"} \cup Page,
                  "getTransfers"))>>
    \o Count(Account \o <<"transfers">>, TransactionNames, "getTransfersCount"))

(* getContractUpgrades is not awaited: its promise is never missing.       *)
AccountResults ==
  <<Get(Account \o <<"contracts">>, Page, "getAccountContracts")>>
  \o Count(Account \o <<"contracts">>, {}, "getAccountContractsCount")
  \o <<Get(Account \o <<"upgrades">>, Page, "getContractUpgrades"),
       Get(Account \o <<"results">>, Page, "getAccountScResults"),
       Get(Account \o <<"results", "count">>, {}, "getAccountScResultsCount"),
       OrNotFound(Get(Account \o <<"results", "Hash">>, {}, "getAccountScResult")),
       Get(Account \o <<"sc-results">>, Page, "getAccountScResults"),
       Get(Account \o <<"sc-results", "count">>, {}, "getAccountScResultsCount"),
       OrNotFound(Get(Account \o <<"sc-results", "Hash">>, {}, "getAccountScResult")),
       Get(Account \o <<"history">>, Page, "getAccountHistory"),
       Checked({"isToken"}, Get(Account \o <<"history", "TokenOrNft">>, Page,
                                "getAccountTokenHistory"))>>

AccountRoutes == AccountItems \o AccountTokens \o AccountRoles \o AccountNfts
                 \o AccountTransactions \o AccountTransfers \o AccountResults

-----------------------------------------------------------------------------
(* block, collection, delegation, identities, keys, miniblock, network     *)

(* Mutant: the handler of a block is placed before those of the counts.    *)
BlockRoutesItemFirst ==
  <<Get(<<"blocks">>, BlockNames \cup Page, "getBlocks"),
    Caught(Get(<<"blocks", "Hash">>, {}, "getBlock"), "404")>>
  \o Count(<<"blocks">>, BlockNames, "getBlocksCount")

BlockRoutes ==
  <<Get(<<"blocks">>, BlockNames \cup Page, "getBlocks")>>
  \o Count(<<"blocks">>, BlockNames, "getBlocksCount")
  \o <<Caught(Get(<<"blocks", "Hash">>, {}, "getBlock"), "404")>>

Collection == <<"collections", "Collection">>

CollectionItems ==
  Each(LAMBDA r : As("creator", "canCreate", r),
    <<Get(<<"collections">>, CollectionNames \cup Page, "getNftCollections")>>
    \o Count(<<"collections">>, CollectionNames \ {"identifiers"}, "getNftCollectionCount"))
  \o <<OrNotFound(Get(Collection, {}, "getNftCollection"))>>

CollectionNftNames == (NftNames \ {"type", "collection", "before", "after"})
                        \cup {"nonceBefore", "nonceAfter"}

CollectionNfts ==
  <<OrNotFound(Get(Collection \o <<"ranks">>, {}, "getNftCollectionRanks")),
    Checked({"isCollection"},
      Under("collection", Get(Collection \o <<"nfts">>, CollectionNftNames \cup Page, "getNfts"))),
    Checked({"isCollection"},
      Under("collection", Get(Collection \o <<"nfts", "count">>, CollectionNftNames \ {"isNsfw"},
                              "getNftCount"))),
    OrNotFound(Get(Collection \o <<"accounts">>, Page, "getCollectionOwners"))>>

CollectionTransactions ==
  Each(LAMBDA r : Checked({"isCollection"}, r),
    <<Under("token", Get(Collection \o <<"transactions">>,
                         (TransactionNames \ {"token"}) \cup Page, "getTransactions")),
      Under("token", Get(Collection \o <<"transactions", "count">>,
                         TransactionNames \ {"token", "function"}, "getTransactionCount")),
      OrNotFound(Get(Collection \o <<"logo", "png">>, {}, "getLogoPng")),
      OrNotFound(Get(Collection \o <<"logo", "svg">>, {}, "getLogoSvg"))>>)

CollectionRoutes == CollectionItems \o CollectionNfts \o CollectionTransactions

DelegationRoutes == <<Get(<<"delegation">>, {}, "getDelegation")>>
DelegationLegacyRoutes == <<Get(<<"delegation-legacy">>, {}, "getLegacyDelegation")>>
IdentityRoutes ==
  <<Get(<<"identities">>, {"identities"}, "getIdentities"),
    OrNotFound(Get(<<"identities", "Any">>, {}, "getIdentity"))>>
KeyRoutes == <<OrNotFound(Get(<<"keys", "Bls", "unbond-period">>, {}, "getKeyUnbondPeriod"))>>
MiniBlockRoutes == <<Caught(Get(<<"miniblocks", "Hash">>, {}, "getMiniBlock"), "404")>>
NetworkRoutes == <<Get(<<"constants">>, {}, "getConstants"), Get(<<"economics">>, {}, "getEconomics"),
                   Get(<<"stats">>, {}, "getStats"), Get(<<"about">>, {}, "getAbout")>>

-----------------------------------------------------------------------------
(* nft, tag, node, provider *)

Nft == <<"nfts", "Nft">>

NftLists ==
  <<Get(<<"nfts">>, NftNames \cup Page, "getNfts")>>
  \o Count(<<"nfts">>, NftNames, "getNftCount")
  \o <<OrNotFound(Get(Nft, {}, "getSingleNft")),
       OrNotFound(Get(Nft \o <<"thumbnail">>, {}, "getNftThumbnail"))>>

NftItems ==
  <<OrNotFound(Get(Nft \o <<"supply">>, {}, "getNftSupply")),
    OrNotFound(Get(Nft \o <<"owners">>, Page, "getNftOwners")),
    OrNotFound(Get(Nft \o <<"owners", "count">>, {}, "getNftOwnersCount")),
    OrNotFound(Get(Nft \o <<"accounts">>, Page, "getNftOwners")),
    OrNotFound(Get(Nft \o <<"accounts", "count">>, {}, "getNftOwnersCount"))>>

NftTransactions ==
  <<Under("token", Get(Nft \o <<"transactions">>, (TransactionNames \ {"token"}) \cup Page,
                       "getTransactions")),
    Under("token", Get(Nft \o <<"transactions", "count">>,
                       TransactionNames \ {"token", "function"}, "getTransactionCount"))>>

NftRoutes == NftLists \o NftItems \o NftTransactions

TagRoutes == <<Get(<<"tags">>, {"search"} \cup Page, "getNftTags"),
               Get(<<"tags", "count">>, {"search"}, "getNftTagCount"),
               Caught(Get(<<"tags", "Any">>, {}, "getNftTag"), "404")>>

NodeRoutes ==
  <<Get(<<"nodes">>, NodeNames \cup Page, "getNodes"),
    Get(<<"nodes", "versions">>, {}, "getNodeVersions")>>
  \o Count(<<"nodes">>, NodeNames, "getNodeCount")
  \o <<OrNotFound(Get(<<"nodes", "Bls">>, {}, "getNode"))>>

ProviderRoutes == <<Get(<<"providers">>, {"identity", "providers"}, "getProviders"),
                    OrNotFound(Get(<<"providers", "Address">>, {}, "getProvider"))>>

-----------------------------------------------------------------------------
(* proxy.controller.ts: every error of the gateway is a bad request.       *)

Gateway(path) == Caught(Get(path, {}, "gateway"), "400")
GatewayPost(path) == Caught(Post(path, "gateway"), "400")

ProxyAddress ==
  [i \in 1..8 |->
     Gateway(<<"address", "Address">>
             \o <<<< >>, <<"balance">>, <<"nonce">>, <<"shard">>, <<"key", "Any">>,
                  <<"transactions">>, <<"guardian-data">>, <<"esdt">>>>[i])]

(* send asks for a sender and a receiver first, and offers the body to the *)
(* plugin.                                                                 *)
ProxyTransactions ==
  <<Checked({"sender", "receiver"}, GatewayPost(<<"transaction", "send">>)),
    GatewayPost(<<"transaction", "simulate">>), GatewayPost(<<"transaction", "send-multiple">>),
    GatewayPost(<<"transaction", "send-user-funds">>), GatewayPost(<<"transaction", "cost">>),
    Gateway(<<"transaction", "Hash">>), Gateway(<<"transaction", "Hash", "status">>),
    GatewayPost(<<"vm-values", "hex">>), GatewayPost(<<"vm-values", "string">>),
    GatewayPost(<<"vm-values", "int">>), GatewayPost(<<"vm-values", "query">>)>>

ProxyNetwork ==
  <<Gateway(<<"network", "status", "Any">>), Gateway(<<"network", "config">>),
    Gateway(<<"network", "economics">>), Gateway(<<"network", "total-staked">>),
    Gateway(<<"node", "heartbeatstatus">>), Gateway(<<"validator", "statistics">>),
    Gateway(<<"block", "Any", "by-nonce", "Any">>), Gateway(<<"block", "Any", "by-hash", "Any">>),
    Gateway(<<"block-atlas", "Any", "Any">>), Gateway(<<"hyperblock", "by-nonce", "Any">>),
    Gateway(<<"hyperblock", "by-hash", "Hash">>)>>

ProxyRoutes == ProxyAddress \o ProxyTransactions \o ProxyNetwork

-----------------------------------------------------------------------------
(* round, scresult, shard, stake, token *)

RoundRoutes ==
  <<Get(<<"rounds">>, RoundNames \cup Page, "getRounds")>>
  \o Count(<<"rounds">>, RoundNames, "getRoundCount")
  \o <<Caught(Get(<<"rounds", "Int", "Int">>, {}, "getRound"), "404")>>

ScResultRoutes ==
  LET Results(name) ==
        <<Get(<<name>>, {"miniBlockHash", "originalTxHashes"} \cup Page, "getScResults"),
          Get(<<name, "count">>, {}, "getScResultsCount"),
          OrNotFound(Get(<<name, "Hash">>, {}, "getScResult"))>>
  IN  Results("results") \o Results("sc-results")

ShardRoutes == <<Get(<<"shards">>, Page, "getShards")>>
StakeRoutes == <<Get(<<"stake">>, {}, "getGlobalStake")>>

Token == <<"tokens", "Token">>

TokenItems ==
  <<Get(<<"tokens">>, TokenNames \cup Page, "getTokens")>>
  \o Count(<<"tokens">>, TokenNames, "getTokenCount")
  \o <<OrNotFound(Get(Token, {}, "getToken")),
       Checked({"isToken"}, OrNotFound(Get(Token \o <<"supply">>, {}, "getTokenSupply"))),
       Checked({"isToken"}, OrNotFound(Get(Token \o <<"accounts">>, Page, "getTokenAccounts")))>>

TokenTransactions ==
  Each(LAMBDA r : Checked({"isToken"}, r),
    <<OrNotFound(Get(Token \o <<"accounts", "count">>, {}, "getTokenAccountsCount")),
      Under("token", Get(Token \o <<"transactions">>, (TransactionNames \ {"token"}) \cup Page,
                         "getTransactions")),
      Under("token", Get(Token \o <<"transactions", "count">>,
                         TransactionNames \ {"token", "function"}, "getTransactionCount"))>>)

TokenRoleItems ==
  Each(LAMBDA r : Checked({"isToken"}, OrNotFound(r)),
    <<Get(Token \o <<"roles">>, {}, "getTokenRoles"),
      Get(Token \o <<"roles", "Address">>, {}, "getTokenRolesForIdentifierAndAddress")>>)

TokenTransfers ==
  Each(LAMBDA r : Checked({"v3", "isToken"}, Under("token", r)),
    <<Get(Token \o <<"transfers">>, (TransactionNames \ {"token", "function"}) \cup Page,
          "getTransfers")>>
    \o Count(Token \o <<"transfers">>, TransactionNames \ {"token"}, "getTransfersCount"))

TokenLogos ==
  Each(LAMBDA r : Checked({"isToken"}, OrNotFound(r)),
    <<Get(Token \o <<"logo", "png">>, {}, "getLogoPng"),
      Get(Token \o <<"logo", "svg">>, {}, "getLogoSvg")>>)

TokenRoutes == TokenItems \o TokenTransactions \o TokenRoleItems \o TokenTransfers \o TokenLogos

-----------------------------------------------------------------------------
(* transaction, username, vm query, waiting list, and the modules after    *)

TransactionLists ==
  <<Get(<<"transactions">>, TransactionNames \cup {"condition"} \cup Page, "getTransactions")>>
  \o Count(<<"transactions">>, TransactionNames \cup {"condition"}, "getTransactionCount")

TransactionItems ==
  <<OrNotFound(Get(<<"transactions", "Hash">>, {}, "getTransaction")),
    Caught(Checked({"sender", "receiver", "signature"}, Post(<<"transactions">>, "createTransaction")),
           "400"),
    Checked({"sender", "receiver"}, Post(<<"transactions", "decode">>, "decodeTransaction"))>>

TransactionRoutes == TransactionLists \o TransactionItems

UsernameRoutes == <<OrNotFound(Get(<<"usernames", "Any">>, {}, "getAddressForUsername"))>>
VmQueryRoutes == <<Caught(Post(<<"query">>, "vmQueryFullResult"), "400")>>
WaitingListRoutes == <<Get(<<"waiting-list">>, Page, "getWaitingList")>>
                     \o Count(<<"waiting-list">>, {}, "getWaitingListCount")
HealthCheckRoutes == <<Get(<<"hello">>, {}, "hello")>>
DappConfigRoutes == <<OrNotFound(Get(<<"dapp", "config">>, {}, "getDappConfiguration"))>>
WebsocketRoutes == <<Get(<<"websocket", "config">>, {}, "getConfiguration")>>

TransferRoutes ==
  Each(LAMBDA r : Senders(r),
    <<Get(<<"transfers">>, TransactionNames \cup Page, "getTransfers")>>
    \o Count(<<"transfers">>, TransactionNames, "getTransfersCount"))

ProcessNftsRoutes ==
  <<Caught(Checked({"jwt"}, Post(<<"nfts", "process">>, "processWithOwnerCheck")), "400")>>

TransactionsBatchRoutes ==
  Each(LAMBDA r : Checked({"jwt"}, r),
    <<Post(<<"batch">>, "startTransactionBatch"),
      OrNotFound(Get(<<"batch", "Any">>, {}, "getTransactionBatch")),
      Get(<<"batch">>, {}, "getTransactionBatches")>>)

MarketplaceRoutes ==
  <<Ignoring("from", Get(<<"auctions">>, Page, "getAuctions"))>>
  \o Count(<<"auctions">>, {"status"}, "getAuctionsCount")
  \o <<Get(<<"auctions", "Any">>, {}, "getAuctionId"),
       OrNotFound(Get(Account \o <<"auction", "stats">>, {}, "getAccountStats")),
       OrNotFound(Get(Account \o <<"auctions">>, {"status"} \cup Page, "getAccountAuctions")),
       Get(Account \o <<"auctions", "count">>, {}, "getAccountAuctionsCount"),
       Get(Collection \o <<"auction", "stats">>, {}, "getCollectionStats"),
       Ignoring("from", Get(Collection \o <<"auctions">>, Page, "getCollectionAuctions")),
       Get(Collection \o <<"auctions", "count">>, {}, "getCollectionAuctionsCount")>>

MexItems ==
  <<OrNotFound(Get(<<"mex", "settings">>, {}, "getSettings")),
    Get(<<"mex", "economics">>, {}, "getMexEconomics"),
    Get(<<"mex", "pairs">>, Page, "getMexPairs"), Get(<<"mex", "pairs", "count">>, {}, "getMexPairsCount"),
    Get(<<"mex", "tokens">>, Page, "getMexTokens"),
    Get(<<"mex", "tokens", "count">>, {}, "getMexTokensCount"),
    OrNotFound(Get(<<"mex", "tokens", "Token">>, {}, "getMexTokenByIdentifier")),
    Get(<<"mex", "farms">>, Page, "getMexFarms"), Get(<<"mex", "farms", "count">>, {}, "getMexFarmsCount"),
    OrNotFound(Get(<<"mex", "pairs", "Any", "Any">>, {}, "getMexPair"))>>

MexOldItems ==
  <<Get(<<"mex-economics">>, {}, "getMexEconomics"),
    OrNotFound(Get(<<"mex-settings">>, {}, "getSettings")),
    Get(<<"mex-pairs">>, Page, "getMexPairs"), Get(<<"mex-tokens">>, Page, "getMexTokens"),
    OrNotFound(Get(<<"mex-pairs", "Any", "Any">>, {}, "getMexPair"))>>

-----------------------------------------------------------------------------
(* EndpointsControllersModule.forRoot *)
AllRoutes(marketplace, exchange) ==
  AccountRoutes \o BlockRoutes \o CollectionRoutes \o DelegationRoutes \o DelegationLegacyRoutes
  \o IdentityRoutes \o KeyRoutes \o MiniBlockRoutes \o NetworkRoutes \o NftRoutes \o TagRoutes
  \o NodeRoutes \o ProviderRoutes \o ProxyRoutes \o RoundRoutes \o ScResultRoutes \o ShardRoutes
  \o StakeRoutes \o TokenRoutes \o TransactionRoutes \o UsernameRoutes \o VmQueryRoutes
  \o WaitingListRoutes \o HealthCheckRoutes \o DappConfigRoutes \o WebsocketRoutes
  \o TransferRoutes \o ProcessNftsRoutes \o TransactionsBatchRoutes
  \o (IF marketplace THEN MarketplaceRoutes ELSE <<>>)
  \o (IF exchange THEN MexItems \o MexOldItems ELSE <<>>)
=============================================================================
