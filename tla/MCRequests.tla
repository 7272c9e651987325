----------------------------- MODULE MCRequests -----------------------------
(***************************************************************************)
(* Model values and bounds for Requests: for each kind of item, documents  *)
(* that every value given holds of, and documents that differ from one of  *)
(* them in one field; identifiers that exist and one that does not.        *)
(***************************************************************************)
EXTENDS Requests, TLC

(* The records that differ from base in at most one field.                 *)
Near(base, other) ==
  {base} \cup UNION {{[base EXCEPT ![x] = v] : v \in other[x]} : x \in DOMAIN other}

NftDoc == [identifier |-> "COL-1", token |-> "COL", name |-> "Col", type |-> "NonFungibleESDT",
           owner |-> "alice", address |-> "alice", timestamp |-> 2, nonce |-> 2,
           metaName |-> "Nft", hasUris |-> "true", tags |-> {"art"}, creator |-> "alice",
           stored |-> "true", traits |-> {"red"}, nsfw |-> "true",
           roles |-> {<<CollectionRole[n], "alice">> : n \in DOMAIN CollectionRole}]
NftOther == [identifier |-> {"COL-2"}, token |-> {"CAT"}, name |-> {"Cat"},
             address |-> {"sc", "pending"},
             timestamp |-> {1, 3}, nonce |-> {1, 3}, metaName |-> {"Old"},
             hasUris |-> {"false"}, tags |-> {{}}, creator |-> {"bob"}, stored |-> {"false"},
             traits |-> {{}}, nsfw |-> {"false"}]
CollectionDoc == [NftDoc EXCEPT !.identifier = None, !.metaName = None]
(* A collection has one type.                                              *)
OtherNfts == {[NftDoc EXCEPT !.type = "SemiFungibleESDT", !.token = "SFT", !.identifier = "SFT-1"],
              [NftDoc EXCEPT !.type = "MetaESDT", !.token = "MET", !.identifier = "MET-1"]}
NftDocs == Near(NftDoc, NftOther) \cup OtherNfts
CollectionOther == [token |-> {"CAT"}, name |-> {"Cat"}, owner |-> {"bob"},
                    roles |-> {{}, CollectionDoc.roles \ {<<"ESDTRoleNFTCreate", "alice">>},
                               {<<r, "bob">> : r \in CollectionRoles}},
                    timestamp |-> {1, 3}]
TokenDoc == [CollectionDoc EXCEPT !.token = "TKN", !.name = "Tkn", !.type = "FungibleESDT",
                                  !.roles = {<<"ESDTRoleLocalMint", "alice">>,
                                             <<"ESDTRoleLocalBurn", "alice">>}]
TokenDocOther == [token |-> {"TOK"}, name |-> {"Tok"}, owner |-> {"bob"},
                  type |-> {"MetaESDT"}, roles |-> {{<<"ESDTRoleLocalMint", "alice">>},
                                                    {<<"ESDTRoleLocalBurn", "alice">>}}]
HeldToken == [TokenDoc EXCEPT !.metaName = "Tkn"]
HeldByContract == Near([NftDoc EXCEPT !.address = "sc"], NftOther)
                    \cup Near([HeldToken EXCEPT !.address = "sc"], [token |-> {"TOK"}, metaName |-> {"Tok"}])

Property == [token : {"TKN", "TOK"}, name : {"Tkn", "Tok"}, type : {"FungibleESDT"}]
              \cup {[token |-> "MET", name |-> "Met", type |-> "MetaESDT"],
                    [token |-> "COL", name |-> "Col", type |-> "NonFungibleESDT"],
                    [token |-> "SFT", name |-> "Col", type |-> "SemiFungibleESDT"],
                    [token |-> "CAT", name |-> "Cat", type |-> "NonFungibleESDT"]}

Operation == [sender |-> "alice", receiver |-> "bob", receivers |-> {"bob"}, tokens |-> {"TKN", "COL", "COL-1"},
              function |-> "swap", senderShard |-> "0", receiverShard |-> "1",
              miniBlockHash |-> "m1", hash |-> "h1", status |-> "success", timestamp |-> 2,
              type |-> "normal", canBeIgnored |-> FALSE]
OperationOther == [sender |-> {"bob", "sc"}, receiver |-> {"alice"}, receivers |-> {{}},
                   tokens |-> {{}}, function |-> {"claim"}, senderShard |-> {"1"},
                   receiverShard |-> {"0"}, miniBlockHash |-> {"m2"}, hash |-> {"h2"},
                   status |-> {"pending"}, timestamp |-> {1, 3}]
(* An NFT that is sent: a call of one's own account, with a receiver.      *)
Sent == [Operation EXCEPT !.sender = "bob", !.receivers = {"alice"}]
Result == [Operation EXCEPT !.type = "unsigned", !.sender = "sc", !.receiver = "alice"]

Node == [bls |-> "b1", name |-> "node", version |-> "v1", online |-> "true", type |-> "validator",
         status |-> "waiting", shard |-> "0", issues |-> "true", identity |-> "id",
         provider |-> "sc", owner |-> "alice", auctioned |-> "true", fullHistory |-> "true"]
NodeOther == [bls |-> {"b2"}, name |-> {"peer"}, version |-> {"v2"}, online |-> {"false"},
              type |-> {"observer"}, status |-> {"queued"}, shard |-> {"1"}, issues |-> {"false"},
              identity |-> {"other"}, provider |-> {"bob"}, owner |-> {"bob"},
              auctioned |-> {"false"}, fullHistory |-> {"false"}]

MCDocs ==
  [accounts |-> [address : {"alice", "bob"}],
   scdeploys |-> [deployer : {"alice", "bob"}, contract : {"sc"}],
   blocks |-> Near([nonce |-> "7", shard |-> "0", epoch |-> "1", proposer |-> "b1",
                    validators |-> {"b1"}, hash |-> "h1"],
                   [nonce |-> {"8"}, shard |-> {"1"}, epoch |-> {"2"}, proposer |-> {"b2"},
                    validators |-> {{}}, hash |-> {"h2"}]),
   miniblocks |-> [hash : {"h1", "h2"}],
   rounds |-> Near([shard |-> "0", epoch |-> "1", signers |-> {"b1"}, round |-> "0"],
                   [shard |-> {"1"}, epoch |-> {"2"}, signers |-> {{}}, round |-> {"1"}]),
   tokens |-> NftDocs \cup Near(CollectionDoc, CollectionOther)
                \cup {[d EXCEPT !.identifier = None, !.metaName = None] : d \in OtherNfts}
                \cup Near(TokenDoc, TokenDocOther)
                \cup {[CollectionDoc EXCEPT !.token = "CAT", !.owner = "sc", !.roles = {},
                                            !.timestamp = 0],
                       [CollectionDoc EXCEPT !.token = "CAT", !.owner = "bob", !.timestamp = 0,
                                             !.roles = {<<"ESDTRoleNFTCreate", "dao">>}]},
   accountsesdt |-> NftDocs \cup HeldByContract
                      \cup Near(HeldToken, [token |-> {"TOK"}, address |-> {"bob", "pending"}]),
   properties |-> Property,
   balances |-> NftDocs
                  \cup {[TokenDoc EXCEPT !.token = t, !.address = a] : t \in {"TKN", "TOK", "MET"},
                                                                      a \in {"alice", "bob"}},
   assets |-> {[token |-> t, ranked |-> TRUE] : t \in {"TKN", "TOK", "COL"}},
   transactions |-> Near(Operation, OperationOther) \cup {Sent},
   pool |-> {[Operation EXCEPT !.hash = "h3"]},
   operations |-> Near(Operation, OperationOther) \cup {Sent} \cup Near(Result, OperationOther),
   scresults |-> {[sender |-> "alice", receiver |-> "bob", receivers |-> {}, hash |-> h,
                   miniBlockHash |-> m, originalTxHash |-> t] :
                     h \in {"h1", "h2"}, m \in {"m1", "m2"}, t \in {"h1", "h2"}},
   history |-> [address : {"alice", "bob"}, token : {"TKN", "COL-1"}],
   tags |-> [tag : {"art", "w"}],
   nodes |-> Near(Node, NodeOther),
   providers |-> [provider : {"sc", "bob"}, identity : {"id", "other"}],
   identities |-> [identity : {"id", "w"}]]

MCSegments ==
  [address |-> {<<"address", "alice">>, <<"address", "sc">>, <<"address", "dao">>},
   esdt |-> {<<"esdt", "TKN">>, <<"esdt", "COL">>, <<"esdt", "NONE">>},
   nft |-> {<<"nft", "COL-1">>, <<"nft", "COL-9">>},
   hash |-> {<<"hash", "h1">>, <<"hash", "h9">>}, bls |-> {<<"bls", "b1">>},
   int |-> {<<"int", "0">>, <<"int", "1">>}, word |-> {<<"word", "w">>}]

Tokens == [search |-> "TKN", name |-> "Tkn", identifier |-> "TKN", identifiers |-> "TKN",
           type |-> "FungibleESDT", includeMetaESDT |-> "true"]
Operations_ ==
  [sender |-> "alice", receiver |-> "bob", token |-> "TKN", senderShard |-> "0",
   receiverShard |-> "1", miniBlockHash |-> "m1", hashes |-> "h1", status |-> "success",
   function |-> "swap", before |-> 2, after |-> 2, senderOrReceiver |-> "alice", search |-> "x"]
MCValues ==
  [tokens |-> Tokens,
   roles |-> [search |-> "TKN", owner |-> "alice", canMint |-> "true", canBurn |-> "false",
              includeMetaESDT |-> "true"],
   collections |-> [search |-> "COL", identifiers |-> "COL", type |-> "NonFungibleESDT",
                    creator |-> "alice", before |-> 2, after |-> 2, owner |-> "alice",
                    canCreate |-> "true", canBurn |-> "alice", canAddQuantity |-> "alice",
                    canUpdateAttributes |-> "alice", canAddUri |-> "alice",
                    canTransferRole |-> "alice", excludeMetaESDT |-> "true"],
   nfts |-> [search |-> "COL", identifiers |-> "COL-1", type |-> "NonFungibleESDT",
             collection |-> "COL", collections |-> "COL", name |-> "Nft", tags |-> "art",
             creator |-> "alice", isWhitelistedStorage |-> "true", hasUris |-> "true",
             isNsfw |-> "true", traits |-> "red", before |-> 2, after |-> 2, nonceBefore |-> 2,
             nonceAfter |-> 2, includeFlagged |-> "true", excludeMetaESDT |-> "true",
             source |-> "elastic", nonce |-> 2],
   transactions |-> Operations_, transfers |-> Operations_,
   results |-> [miniBlockHash |-> "m1", originalTxHashes |-> "h1"],
   blocks |-> [shard |-> "0", proposer |-> "b1", validator |-> "b1", epoch |-> "1", nonce |-> "7"],
   rounds |-> [shard |-> "0", validator |-> "b1", epoch |-> "1", condition |-> "must"],
   nodes |-> [Node EXCEPT !.bls = "b1"] @@ [search |-> "b1"],
   tags |-> [search |-> "art"], providers |-> [identity |-> "id", providers |-> "sc"],
   identities |-> [identities |-> "id"]]
=============================================================================
