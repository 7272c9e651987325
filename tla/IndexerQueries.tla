--------------------------- MODULE IndexerQueries ---------------------------
(***************************************************************************)
(* A process serves a call with the engine its configuration names: what a *)
(* caller may rely on whichever engine that is (CountMatchesList,          *)
(* FiltersAreIndependent, EnginesAgree).                                   *)
(***************************************************************************)
EXTENDS Indexer

CONSTANT
  Calls       \* the calls made: an operation and its query [f, address, id, v3]

(* The callers pass a filter, and the address or the identifier that the    *)
(* operation takes (indexer.interface.ts); the types of a collection are    *)
(* those of the enumeration NftType.                                        *)
ASSUME CallsAssumption ==
  \A c \in Calls :
    /\ c.op \in Operations
    /\ c.q = [f |-> c.q.f, address |-> c.q.address, id |-> c.q.id, v3 |-> c.q.v3]
    /\ c.op = "getNftCount" => c.q.id = None
    /\ c.op = "getNftCollectionCount" => c.q.address = None
    /\ c.op \in {"getNftCollections", "getNftCollectionCount", "getCollectionCountForAddress"}
         /\ Given(c.q.f, "type") => c.q.f.type \subseteq CollectionTypes

(* The documents an engine finds are neither nothing nor a failure.         *)
ASSUME AnswersAssumption ==
  \A c \in Calls :
    /\ Elastic(c.op, c.q) \notin {None, Failed}
    /\ PostgresThrows(c.op, c.q) \/ Postgres(c.op, c.q) \notin {None, Failed}

VARIABLES
  engine,     \* the engine the configuration names
  call,       \* the call being served
  answer      \* the documents it selects; None until it is served

vars == <<engine, call, answer>>

(* IndexerModule.register picks the engine once, when the process starts.   *)
Init == engine \in Engines /\ call \in Calls /\ answer = None

Serve == /\ answer = None
         /\ answer' = Ask(engine, call.op, call.q)
         /\ UNCHANGED <<engine, call>>

Next == Serve

Spec == Init /\ [][Next]_vars

-----------------------------------------------------------------------------
(* An answer is a part of one index, or a failure only Postgres has.        *)
TypeOK ==
  /\ engine \in Engines /\ call.op \in Operations
  /\ \/ answer = None
     \/ answer = Failed /\ engine = "postgres"
     \/ answer # Failed /\ \E i \in DOMAIN Docs : answer \subseteq Docs[i]

Served == answer \notin {None, Failed}
Names == DOMAIN call.q.f
Again(f) == Ask(engine, call.op, [call.q EXCEPT !.f = f])
Only(S) == [n \in S |-> call.q.f[n]]

(* The list whose items a count counts.                                     *)
ListOf == [getAccountsCount |-> "getAccounts", getAccountContractsCount |-> "getAccountContracts",
           getBlocksCount |-> "getBlocks", getNftCollectionCount |-> "getNftCollections",
           getNftCountForAddress |-> "getNftsForAddress",
           getCollectionCountForAddress |-> "getNftCollections", getNftCount |-> "getNfts",
           getNftOwnersCount |-> "getAccountEsdtByIdentifiers",
           getTransfersCount |-> "getTransfers", getTokenCountForAddress |-> "getTokensForAddress",
           getTokensWithRolesForAddressCount |-> "getTokensWithRolesForAddress",
           getNftTagCount |-> "getNftTags", getRoundCount |-> "getRounds",
           getAccountScResultsCount |-> "getAccountScResults",
           getTransactionCount |-> "getTransactions"]

(* The rounds are asked to match every one of the queries.                  *)
AllMust == Given(call.q.f, "condition") /\ call.q.f.condition = "must"

(* Calls on which a count is known to differ: getRoundCount does not look   *)
(* at the condition, and Postgres does not filter the tokens it counts, nor *)
(* the rounds it lists without a condition, nor lists owners at all.        *)
CountDiffers ==
  \/ call.op = "getRoundCount" /\ ~AllMust
     /\ ("condition" \in Names \/ engine = "postgres")
  \/ engine = "postgres" /\ call.op = "getTokenCountForAddress" /\ Names # {}
  \/ engine = "postgres" /\ call.op = "getNftOwnersCount"

(* A count selects what the list with the same filter selects, on either    *)
(* engine: a client that pages through the list sees as many items as the   *)
(* count told it (the counts of elastic.indexer.service.ts:47-175 and of    *)
(* postgres.indexer.service.ts:68-191 build their queries apart from the    *)
(* lists).                                                                  *)
CountMatchesList ==
  Served /\ call.op \in DOMAIN ListOf /\ ~CountDiffers =>
    answer = Ask(engine, ListOf[call.op], call.q)

(* A name that changes what other names mean, or adds documents.            *)
Modifiers == {"condition", "includeMetaESDT"}
Context(n) == IF n \in {"proposer", "validator"} THEN {"shard", "epoch"} ELSE {}

(* Blocks that one node proposes and another validates.                     *)
TwoKeys == /\ {"shard", "epoch", "proposer", "validator"} \subseteq Names
           /\ call.q.f.proposer # call.q.f.validator

(* Names that Postgres binds to one parameter (the shards of a transaction, *)
(* the two keys of a block), and the sender it compares whether it was      *)
(* given or not.                                                            *)
SharedBinding ==
  /\ engine = "postgres"
  /\ \/ {"senderShard", "receiverShard"} \subseteq Names
     \/ call.op \in {"getBlocks", "getBlocksCount"} /\ TwoKeys
     \/ call.op \in {"getTransactions", "getTransactionCount"}

(* Two names given together select what each of them selects alone: no      *)
(* filter loosens, replaces or switches off another (the builders are long  *)
(* chains of conditions on one query object).                               *)
FiltersAreIndependent ==
  Served /\ Names \cap {"condition"} = {} /\ call.q.id = None /\ ~SharedBinding =>
    \A n \in Names \ Modifiers :
      LET one == {n} \cup (Names \cap (Modifiers \cup Context(n)))
          rest == Names \ {n}
      IN  \/ \E m \in rest : n \in Context(m)
          \/ answer = Again(Only(one)) \cap Again(Only(rest))

(* The filters that both engines implement, by operation.                   *)
CommonNames ==
  LET tx == {"token", "function", "senderShard", "miniBlockHash", "hashes", "status"}
      block == {"shard", "epoch", "proposer", "validator"}
      nft == {"search", "collection", "collections", "identifiers"}
  IN  [getBlocks |-> block, getBlocksCount |-> block,
       getRounds |-> {"condition", "shard", "epoch", "validator"},
       getRoundCount |-> {"condition", "shard", "epoch", "validator"},
       getNftCollections |-> {"collection", "search", "type"},
       getNftCollectionCount |-> {"collection", "search", "type"},
       getNfts |-> nft, getNftCount |-> nft, getNftTags |-> {"search"},
       getNftTagCount |-> {"search"}, getScResults |-> {"miniBlockHash", "originalTxHashes"},
       getScResultsCount |-> {}, getTokenAccounts |-> {}, getTokenAccountsCount |-> {},
       getAccountContracts |-> {}, getAccountContractsCount |-> {}, getAccounts |-> {},
       getTransactions |-> tx \cup {"sender", "receivers"},
       getTransactionCount |-> tx \cup {"sender", "receivers"},
       getTransfers |-> tx \cup {"type", "receivers"},
       getTransfersCount |-> tx \cup {"type", "receivers"}]

(* Calls on which the engines are known to differ all the same: transactions *)
(* without a sender, or of an account, collections of an account, transfers  *)
(* that are results, no receivers to choose from, rounds not joined by       *)
(* "must", a fall-back list of NFTs, blocks of two keys, of which Postgres   *)
(* compares the validator's to the proposer too.                             *)
EnginesDiffer ==
  \/ call.op \in {"getTransactions", "getTransactionCount"}
     /\ ("sender" \notin Names \/ call.q.address # None)
  \/ call.op = "getNftCollections" /\ call.q.address # None
  \/ call.op \in {"getTransfers", "getTransfersCount"}
     /\ ~(Given(call.q.f, "type") /\ call.q.f.type = "normal")
  \/ Given(call.q.f, "receivers") /\ call.q.f.receivers = {}
  \/ call.op = "getRounds" /\ ~AllMust
  \/ call.op = "getNfts" /\ call.q.id # None
  \/ call.op \in {"getBlocks", "getBlocksCount"} /\ TwoKeys

(* On the filters both implement, the engine the configuration names does   *)
(* not change what a caller sees (the Postgres builders repeat the          *)
(* Elasticsearch ones condition by condition, in another query language).   *)
EnginesAgree ==
  answer # None /\ call.q.v3 /\ ~EnginesDiffer =>
    (call.op \in DOMAIN CommonNames /\ Names \subseteq CommonNames[call.op] =>
       \A e \in Engines : Ask(e, call.op, call.q) = answer)

(* A document outside the time window a caller asks for is never shown to   *)
(* him, whatever else he asks for (before and after as the controllers      *)
(* describe them).                                                          *)
WindowHolds ==
  Served /\ Names \cap {"before", "after"} # {} =>
    \A d \in answer : InWindow(call.q.f, d.timestamp)
=============================================================================
