---------------------------- MODULE GraphQLFields ----------------------------
(***************************************************************************)
(* The fields of the GraphQL API, as routes: a field is asked for by its   *)
(* name, followed by the arguments that are identifiers (whose format no   *)
(* pipe checks), and for a field of an account by the account's address.   *)
(* Of each field: the names its input has, the names that its resolver     *)
(* passes on (a name that is accepted and not passed on filters nothing),  *)
(* the service's method, and what becomes of a missing answer.             *)
(*                                                                         *)
(* The inputs of a list extend those of its count with from and size.      *)
(***************************************************************************)
EXTENDS Routes

(* Mutant: the input's names are passed as they are.                       *)
FieldUnrenamed(path, input, passed, method) ==
  [Route("QUERY", path, input, method) EXCEPT
     !.query = [n \in input |-> IF n \in passed THEN n ELSE ""]]

Field(path, input, passed, method) ==
  LET query == Query(input)
  IN  [Route("QUERY", path, input, method) EXCEPT
         !.query = [n \in input |-> IF n \in passed THEN query[n] ELSE ""]]
(* A field whose resolver passes on all of its input.                      *)
Whole(path, input, method) == Field(path, input, input, method)
Paged(path, method) == Whole(path, Page, method)
Plain(path, method) == Whole(path, {}, method)

-----------------------------------------------------------------------------
(* The inputs: the names a client may give.                                *)

TokensInput == {"search", "name", "identifier", "identifiers"}
NftsInput == {"search", "identifiers", "type", "collection", "name", "tags", "creator",
              "isWhitelistedStorage", "isNsfw", "hasUris", "before", "after", "nonce"}
NodesInput == NodeNames
CollectionsInput == {"search", "type", "canBurn", "canAddQuantity", "canUpdateAttributes",
                     "canAddUri", "canTransferRole", "before", "after", "excludeMetaESDT"}
TransactionsInput == TransactionNames \cup {"search", "condition"}
TransfersInput == (TransactionNames \ {"function"}) \cup {"search"}
ResultsInput == {"miniBlockHash", "originalTxHashes"}
RoundsInput == RoundNames \ {"condition"}
BlocksInput == BlockNames

AccountNftsInput == (AccountNftNames \ {"collection"}) \cup {"source"}
AccountTransactionsInput == TransactionNames \cup {"search"}

-----------------------------------------------------------------------------
(* tokens, nfts, collections, nodes                                        *)

TokenFields ==
  <<Whole(<<"tokensCount">>, TokensInput, "getTokenCount"),
    OrNotFound(Plain(<<"tokenAccountsCount", "Token">>, "getTokenAccountsCount")),
    Whole(<<"tokens">>, TokensInput \cup Page, "getTokens"),
    OrNotFound(Plain(<<"token", "Token">>, "getToken")),
    OrNotFound(Plain(<<"tokenSupply", "Token">>, "getTokenSupply")),
    OrNotFound(Plain(<<"tokenRoles", "Token">>, "getTokenRoles")),
    OrNotFound(Plain(<<"tokenRolesAddress", "Token", "Address">>, "getTokenRolesForIdentifierAndAddress")),
    OrNotFound(Paged(<<"tokenAccounts", "Token">>, "getTokenAccounts"))>>

NftFields ==
  <<Field(<<"nftsCount">>, NftsInput, NftsInput \ {"nonce"}, "getNftCount"),
    Field(<<"nfts">>, NftsInput \cup Page, (NftsInput \ {"nonce"}) \cup Page, "getNfts"),
    OrNotFound(Plain(<<"nft", "Nft">>, "getSingleNft"))>>

CollectionFields ==
  <<Whole(<<"collectionsCount">>, CollectionsInput, "getNftCollectionCount"),
    Whole(<<"collections">>, CollectionsInput \cup {"identifiers"} \cup Page, "getNftCollections"),
    OrNotFound(Plain(<<"collection", "Collection">>, "getNftCollection")),
    OrNotFound(Plain(<<"collectionRank", "Collection">>, "getNftCollectionRanks"))>>

NodeFields ==
  <<Whole(<<"nodes">>, NodesInput \cup Page, "getNodes"),
    Whole(<<"nodesCount">>, NodesInput, "getNodeCount"),
    Plain(<<"nodesVersion">>, "getNodeVersions"),
    OrNotFound(Plain(<<"node", "Bls">>, "getNode"))>>

-----------------------------------------------------------------------------
(* transactions, transfers, results, rounds, blocks                        *)

TransactionFields ==
  <<Field(<<"transactions">>, TransactionsInput \cup Page, (TransactionsInput \ {"search"}) \cup Page,
          "getTransactions"),
    Plain(<<"transaction", "Hash">>, "getTransaction")>>

TransactionCountField ==
  <<Field(<<"transactionsCount">>, TransactionsInput, TransactionsInput \ {"search"},
          "getTransactionCount")>>

(* The list does not pass the receiver on, its count does.                 *)
TransferFields ==
  Each(LAMBDA r : Checked({"v3"}, r),
    <<Field(<<"transfers">>, TransfersInput \cup Page,
            (TransfersInput \ {"receiver", "search"}) \cup Page, "getTransfers"),
      Field(<<"transfersCount">>, TransfersInput, TransfersInput \ {"search"}, "getTransfersCount")>>)

ResultFields ==
  <<Whole(<<"results">>, ResultsInput \cup Page, "getScResults"),
    Plain(<<"resultsCount">>, "getScResultsCount"),
    Caught(Plain(<<"result", "Hash">>, "getScResult"), "404")>>

RoundFields ==
  <<Whole(<<"rounds">>, RoundsInput \cup Page, "getRounds"),
    Whole(<<"roundsCount">>, RoundsInput, "getRoundCount"),
    Caught(Plain(<<"round", "Int", "Int">>, "getRound"), "404")>>

BlockFields ==
  <<Whole(<<"blocks">>, BlocksInput \cup Page, "getBlocks"),
    Whole(<<"blocksCount">>, BlocksInput, "getBlocksCount"),
    Plain(<<"blockHash", "Hash">>, "getBlock")>>

MiniBlockFields == <<Caught(Plain(<<"miniBlockHash", "Hash">>, "getMiniBlock"), "404")>>

-----------------------------------------------------------------------------
(* accounts                                                                *)

AccountFields == <<Paged(<<"accounts">>, "getAccounts"), Plain(<<"accountsCount">>, "getAccountsCount")>>
AccountField == <<OrNotFound(Plain(<<"account", "Address">>, "getAccountSimple"))>>
UsernameField == <<OrNotFound(Plain(<<"username", "Any">>, "getAddressForUsername"))>>

Of(field) == <<"account", "Address", field>>

FiguresOfAccount ==
  <<Plain(Of("txCount"), "getAccountTxCount"), Plain(Of("scrCount"), "getAccountScrCount"),
    Plain(Of("delegation"), "getDelegationForAddress"),
    Plain(Of("delegationLegacy"), "getLegacyDelegationForAddress"),
    Plain(Of("stake"), "getStakeForAddress"), Plain(Of("keys"), "getKeys"),
    Paged(Of("resultsAccount"), "getAccountScResults"),
    Plain(Of("resultsAccountCount"), "getAccountScResultsCount"),
    Paged(Of("historyAccount"), "getAccountHistory"),
    Paged(Of("historyTokenAccount") \o <<"TokenOrNft">>, "getAccountTokenHistory"),
    Paged(Of("contractAccount"), "getAccountContracts"),
    Plain(Of("contractAccountCount"), "getAccountContractsCount")>>

(* Transactions do not pass the receiver on; transfers do not ask for the  *)
(* account, and pass a sender the transfers have no filter for.            *)
AccountLists ==
  LET passed == AccountTransactionsInput \ {"receiver", "search"}
  IN  <<Whole(Of("nftCollections"), {"search", "type"} \cup Page, "getCollectionsForAddress"),
        Whole(Of("nfts"), AccountNftsInput \cup Page, "getNftsForAddress"),
        Whole(Of("tokensAccount"), TokensInput \cup Page, "getTokensForAddress"),
        Field(Of("transactionsAccount"), AccountTransactionsInput \cup Page, passed \cup Page,
              "getTransactions"),
        Field(Of("transactionsAccountCount"), AccountTransactionsInput, passed, "getTransactionCount"),
        Field(Of("transfersAccount"), AccountTransactionsInput \cup Page, passed \cup Page,
              "getTransfers")>>

-----------------------------------------------------------------------------
(* providers, identities, tags, shards, waiting list, network, xExchange   *)

ProviderFields == <<Whole(<<"providers">>, {"identity"}, "getProviders"),
                    OrNotFound(Plain(<<"provider", "Address">>, "getProvider"))>>
IdentityFields == <<Whole(<<"identity">>, {"identities"}, "getIdentities"),
                    Plain(<<"identities">>, "getIdentities")>>
TagFields == <<Paged(<<"tags">>, "getNftTags"), Plain(<<"tagsCount">>, "getNftTagCount")>>
ShardField == <<Paged(<<"shards">>, "getShards")>>
WaitingListFields == <<Paged(<<"waitingList">>, "getWaitingList"),
                       Plain(<<"waitingListCount">>, "getWaitingListCount")>>
NetworkFields == <<Plain(<<"constants">>, "getConstants"), Plain(<<"economics">>, "getEconomics"),
                   Plain(<<"stats">>, "getStats"), Plain(<<"about">>, "getAbout")>>
FigureFields == <<Plain(<<"stake">>, "getGlobalStake"), Plain(<<"delegation">>, "getDelegation"),
                  Plain(<<"delegationLegacy">>, "getLegacyDelegation"),
                  Plain(<<"dappConfig">>, "getDappConfiguration"),
                  Plain(<<"webSocketConfig">>, "getConfiguration")>>
MexTokenFields == <<Paged(<<"mexTokens">>, "getMexTokens"),
                    OrNotFound(Plain(<<"mexToken", "Token">>, "getMexTokenByIdentifier"))>>
MexPairFields == <<Paged(<<"mexPairs">>, "getMexPairs"),
                   OrNotFound(Plain(<<"mexPair", "Any", "Any">>, "getMexPair"))>>
MexFarmFields == <<Paged(<<"mexFarms">>, "getMexFarms"), Plain(<<"mexEconomics">>, "getMexEconomics")>>


AllFields ==
  TokenFields \o NftFields \o CollectionFields \o NodeFields \o TransactionFields
  \o TransactionCountField \o TransferFields \o ResultFields \o RoundFields \o BlockFields
  \o MiniBlockFields \o AccountFields \o AccountField \o UsernameField \o FiguresOfAccount
  \o AccountLists \o ProviderFields \o IdentityFields \o TagFields \o ShardField
  \o WaitingListFields \o NetworkFields \o FigureFields \o MexTokenFields \o MexPairFields
  \o MexFarmFields
=============================================================================
