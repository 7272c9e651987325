-------------------------- MODULE MCIndexerQueries --------------------------
(***************************************************************************)
(* Model values and bounds for IndexerQueries: the documents of an index   *)
(* are a few that every filter accepts and those that differ from one of   *)
(* them in one field; a call gives at most two filters (and those that     *)
(* they depend on: both keys of a block with its shard and epoch).         *)
(***************************************************************************)
EXTENDS IndexerQueries

(* The records that differ from base in at most one field.                 *)
Near(base, other) ==
  {base} \cup UNION {{[base EXCEPT ![x] = v] : v \in other[x]} : x \in DOMAIN other}

Token == [identifier |-> "a", token |-> "a", name |-> "a", type |-> "NonFungibleESDT",
          owner |-> "a", address |-> "a", roles |-> {<<"ESDTRoleNFTCreate", "a">>},
          timestamp |-> 2, nonce |-> 2, metaName |-> "a", hasUris |-> "true", tags |-> {"a"},
          creator |-> "a", stored |-> "true", traits |-> {"a"}, nsfw |-> "true"]
TokenOther == [identifier |-> {None}, token |-> {"b"}, name |-> {"b"},
               type |-> {"MetaESDT", "FungibleESDT"}, owner |-> {"b"}, address |-> {"b", "pending"},
               roles |-> {{}, {<<"ESDTRoleLocalMint", "a">>, <<"ESDTTransferRole", "a">>}},
               timestamp |-> {1, 3}, nonce |-> {1, 3}, metaName |-> {"b"}, hasUris |-> {"false"},
               tags |-> {{}}, creator |-> {"b"}, stored |-> {"false"}, traits |-> {{}},
               nsfw |-> {"false"}]

Collection == [Token EXCEPT !.identifier = None]
Fungible == [Collection EXCEPT !.type = "FungibleESDT", !.roles = {<<"ESDTRoleLocalMint", "a">>}]

Operation == [sender |-> "a", receiver |-> "a", receivers |-> {"a"}, tokens |-> {"a"},
              function |-> "a", senderShard |-> 1, receiverShard |-> 1, miniBlockHash |-> "a",
              hash |-> "a", status |-> "a", timestamp |-> 2, type |-> "normal",
              canBeIgnored |-> FALSE]
Result == [Operation EXCEPT !.type = "unsigned", !.sender = "b", !.receiver = "b"]
OperationOther == [sender |-> {"b"}, receiver |-> {"b"}, receivers |-> {{}}, tokens |-> {{}},
                   function |-> {"b"}, senderShard |-> {2}, receiverShard |-> {2},
                   miniBlockHash |-> {"b"}, hash |-> {"b"}, status |-> {"b"},
                   timestamp |-> {1, 3}, type |-> {"unsigned"}, canBeIgnored |-> {TRUE}]

MCDocs ==
  [accounts |-> [address : {"a", "b"}],
   scdeploys |-> [deployer : {"a", "b"}],
   blocks |-> [nonce : {1, 2}, shard : {1, 2}, epoch : {1, 2}, proposer : {"a", "b"},
               validators : {{}, {"a"}}],
   tokens |-> Near(Token, TokenOther) \cup Near(Collection, TokenOther) \cup Near(Fungible, TokenOther),
   accountsesdt |-> Near(Token, TokenOther) \cup Near(Fungible, TokenOther),
   operations |-> Near(Operation, OperationOther) \cup Near(Result, OperationOther),
   transactions |-> Near(Operation, OperationOther),
   tags |-> [tag : {"a", "b"}],
   rounds |-> [shard : {1, 2}, epoch : {1, 2}, signers : {{}, {"a"}}],
   scresults |-> [sender : {"a", "b"}, receiver : {"a", "b"}, receivers : {{}, {"a"}},
                  miniBlockHash : {"a", "b"}, originalTxHash : {"a", "b"}]]

(* The filters that give at most two of the names, with these values.      *)
Filters(values) ==
  {[n \in S |-> values[n]] : S \in {{x, y} : x, y \in DOMAIN values} \cup {{}}}
With(F, values) == UNION {{[n \in DOMAIN f \cup DOMAIN values |->
                              IF n \in DOMAIN f THEN f[n] ELSE values[n]]} : f \in F}

BlockFilters ==
  LET place == [shard |-> 1, epoch |-> 1]
      F == UNION {Filters([nonce |-> 1, shard |-> 1, epoch |-> 1, proposer |-> p,
                           validator |-> "a"]) : p \in {"a", "b"}}
  IN  F \cup With(F, place)
RoundFilters ==
  LET F == Filters([shard |-> 1, epoch |-> 1, validator |-> "a"])
  IN  F \cup With(F, [shard |-> 1, epoch |-> 1]) \cup With(F, [condition |-> "must"]) \cup With(F, [condition |-> "should"])
        \cup With(F, [shard |-> 1, epoch |-> 1, condition |-> "must"])
CollectionFilters ==
  LET F == [collection |-> "a", identifiers |-> {"a"}, search |-> "a",
            type |-> {"NonFungibleESDT"}, before |-> 2, after |-> 2, canBurn |-> "true",
            canAddQuantity |-> "a", canUpdateAttributes |-> "true", canAddUri |-> "false",
            excludeMetaESDT |-> "true", canCreate |-> "true", canTransferRole |-> "true"]
  IN  Filters(F) \cup Filters([F EXCEPT !.canCreate = "false", !.canTransferRole = "false"])
NftFilters ==
  Filters([search |-> "a", identifiers |-> {"a"}, type |-> {"NonFungibleESDT"},
           collection |-> "a", collections |-> {"a"}, tags |-> {"a"}, name |-> "a",
           creator |-> "a", hasUris |-> "true", before |-> 2, after |-> 2, nonceBefore |-> 2,
           nonceAfter |-> 2, isWhitelistedStorage |-> "true", isNsfw |-> "true",
           traits |-> {"a"}, excludeMetaESDT |-> "true"])
OperationFilters ==
  Filters([receivers |-> {"a"}, token |-> "a", function |-> "a", senderShard |-> 1,
           receiverShard |-> 2, miniBlockHash |-> "a", hashes |-> {"a"}, status |-> "a",
           before |-> 2, after |-> 2, senderOrReceiver |-> "a", tokens |-> {"a"},
           type |-> "normal", sender |-> "a", senders |-> {"a"}])
TransferFilters == OperationFilters \cup Filters([address |-> "a", type |-> "unsigned", before |-> 2])
                     \cup Filters([address |-> "b", type |-> "unsigned"])
                     \cup {[receivers |-> {}]}
TransactionFilters == OperationFilters \cup
  With(Filters([sender |-> "a", receivers |-> {"b"}, token |-> "a"]), [condition |-> "should"])
RoleFilters ==
  Filters([identifier |-> "a", search |-> "a", owner |-> "a", canMint |-> "true",
           canBurn |-> "false", includeMetaESDT |-> "true"])
TokenFilters ==
  Filters([type |-> "FungibleESDT", search |-> "a", name |-> "a", identifier |-> "a",
           identifiers |-> {"a"}, includeMetaESDT |-> "true"])
ScResultFilters == Filters([miniBlockHash |-> "a", originalTxHashes |-> {"a"}])

Made(ops, F, addresses, ids) ==
  {[op |-> o, q |-> [f |-> f, address |-> a, id |-> i, v3 |-> v]] :
     o \in ops, f \in F, a \in addresses, i \in ids, v \in BOOLEAN}

MCCalls ==
  UNION {
    Made({"getAccounts", "getAccountsCount", "getScResultsCount"}, {<<>>}, {None}, {None}),
    Made({"getAccountContracts", "getAccountContractsCount", "getAccountScResults",
          "getAccountScResultsCount", "getTransactionCountForAddress"}, {<<>>}, {"a"}, {None}),
    Made({"getBlocks", "getBlocksCount"}, BlockFilters, {None}, {None}),
    Made({"getRounds", "getRoundCount"}, RoundFilters, {None}, {None}),
    Made({"getNftCollections"}, CollectionFilters, {None, "a"}, {None}),
    Made({"getNftCollectionCount"}, CollectionFilters, {None}, {None}),
    Made({"getCollectionCountForAddress"}, CollectionFilters, {"a"}, {None}),
    Made({"getNfts"}, NftFilters, {None}, {None, "a", "c"}),
    Made({"getNftCount"}, NftFilters, {None}, {None}),
    Made({"getNftsForAddress", "getNftCountForAddress"}, NftFilters, {"a"}, {None}),
    Made({"getTransfers", "getTransfersCount"}, TransferFilters, {None}, {None}),
    Made({"getTransactions", "getTransactionCount"}, TransactionFilters, {None, "a"}, {None}),
    Made({"getTokensWithRolesForAddress", "getTokensWithRolesForAddressCount"}, RoleFilters,
         {"a"}, {None}),
    Made({"getTokensForAddress", "getTokenCountForAddress"}, TokenFilters, {"a"}, {None}),
    Made({"getTokenAccounts", "getTokenAccountsCount", "getNftOwnersCount",
          "getAccountEsdtByIdentifiers"}, {<<>>}, {None}, {"a"}),
    Made({"getNftTags", "getNftTagCount"}, Filters([search |-> "a"]), {None}, {None}),
    Made({"getScResults"}, ScResultFilters, {None}, {None})}
=============================================================================
