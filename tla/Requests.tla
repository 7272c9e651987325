------------------------------ MODULE Requests ------------------------------
(***************************************************************************)
(* A request to the API, from the segments of its URL to its reply: the    *)
(* first registered route that matches takes it, the pipes parse its       *)
(* segments, the handler checks what it has to, builds the filter and      *)
(* calls the service, and an answer that is missing or a call that throws  *)
(* becomes a status.  A GraphQL field is asked for in the same way.        *)
(*                                                                         *)
(* A request [verb, path, given, v3] has a path of segments                *)
(* <<format, value>> (a literal has the format "") and gives values to     *)
(* some of the names of a route; v3 is the flag indexer-v3.  Left out:     *)
(* paging and order (an answer is a set), values a pipe would refuse.      *)
(*                                                                         *)
(* External: NestJS tries routes in the order of their registration, and   *)
(* does not go on to the next when a pipe refuses.                         *)
(***************************************************************************)
EXTENDS Services, GraphQLFields

CONSTANTS
  Marketplace, Exchange,  \* the optional modules that are enabled
  Segments,               \* format -> the segments that requests are made of
  Values                  \* kind of item -> name -> the value requests give it

VARIABLES
  request,
  asked,      \* the route or field whose documentation the client follows
  stage,      \* "received", "routed", "parsed", "answered"
  route,      \* the route that took the request
  reply       \* its status and the items of its body

vars == <<request, asked, stage, route, reply>>

Answered(status, items) == [status |-> status, items |-> items]
Unanswered == Answered("", {})

Table == AllRoutes(Marketplace, Exchange) \o AllFields
IsParameter(p) == p \in DOMAIN Formats

(* A segment is of the format it is listed under, and names something.     *)
ASSUME SegmentsAssumption ==
  /\ UNION {Formats[p] : p \in DOMAIN Formats} \subseteq DOMAIN Segments
  /\ "" \notin DOMAIN Segments
  /\ \A f \in DOMAIN Segments : \A s \in Segments[f] : s[1] = f /\ s[2] # None

(* The kinds of items the filters are about, by the methods that list them. *)
Kinds ==
  [tokens |-> {"getTokens", "getTokenCount", "getTokensForAddress", "getTokenCountForAddress"},
   roles |-> {"getTokensWithRolesForAddress", "getTokensWithRolesForAddressCount"},
   collections |-> {"getNftCollections", "getNftCollectionCount", "getCollectionsForAddress",
                    "getCollectionCountForAddress", "getCollectionsWithRolesForAddress",
                    "getCollectionCountForAddressWithRoles"},
   nfts |-> {"getNfts", "getNftCount", "getNftsForAddress", "getNftCountForAddress"},
   transactions |-> {"getTransactions", "getTransactionCount"},
   transfers |-> {"getTransfers", "getTransfersCount"},
   results |-> {"getScResults"}, blocks |-> {"getBlocks", "getBlocksCount"},
   rounds |-> {"getRounds", "getRoundCount"}, nodes |-> {"getNodes", "getNodeCount"},
   tags |-> {"getNftTags", "getNftTagCount"}, providers |-> {"getProviders"},
   identities |-> {"getIdentities"}]
KindOf(m) == IF \E k \in DOMAIN Kinds : m \in Kinds[k]
             THEN CHOOSE k \in DOMAIN Kinds : m \in Kinds[k] ELSE "other"
NamesOf(r) == IF KindOf(r.method) = "other" THEN {}
              ELSE DOMAIN r.query \cap DOMAIN Values[KindOf(r.method)]

(* A value as its pipe parses it: lists are separated by commas.           *)
Parsed(field, m, v) ==
  IF \/ field \in {"identifiers", "collections", "tags", "traits", "hashes", "receivers",
                   "senders", "identities", "providers", "originalTxHashes"}
     \/ field = "type" /\ KindOf(m) \in {"nfts", "collections"}
  THEN {v} ELSE v

-----------------------------------------------------------------------------
(* The paths a client may ask a route for, with at most one segment of     *)
(* another format than the route takes.                                    *)
Paths(r) ==
  LET Good(p) == IF IsParameter(p) THEN UNION {Segments[f] : f \in Formats[p]} ELSE {<<"", p>>}
      Bad(p) == IF IsParameter(p) THEN Segments["word"] ELSE {<<"", p>>}
      Of_(Op(_)) == {s \in [DOMAIN r.path -> UNION {Op(r.path[i]) : i \in DOMAIN r.path}] :
                       \A i \in DOMAIN s : s[i] \in Op(r.path[i])}
  IN  Of_(Good) \cup Of_(Bad)

(* The names that one request gives: all that are possible of a route with *)
(* few, at most two of a route with many.                                  *)
NamesGiven(S) == IF Cardinality(S) <= 5 THEN SUBSET S ELSE {{}} \cup {{m, n} : m, n \in S}

Init ==
  /\ stage = "received" /\ route = 0 /\ reply = Unanswered
  /\ asked \in DOMAIN Table
  /\ \E path \in Paths(Table[asked]), names \in NamesGiven(NamesOf(Table[asked])), v3 \in BOOLEAN :
          request = [verb |-> Table[asked].verb, path |-> path, v3 |-> v3,
                     given |-> [n \in names |-> Values[KindOf(Table[asked].method)][n]]]

Matches(r, req) ==
  /\ r.verb = req.verb /\ DOMAIN r.path = DOMAIN req.path
  /\ \A i \in DOMAIN r.path : ~IsParameter(r.path[i]) => req.path[i][2] = r.path[i]

(* The router takes the first route that matches.                          *)
Dispatch ==
  /\ stage = "received"
  /\ \E i \in DOMAIN Table :
       /\ Matches(Table[i], request)
       /\ \A j \in 1..(i - 1) : ~Matches(Table[j], request)
       /\ route' = i
  /\ stage' = "routed"
  /\ UNCHANGED <<request, asked, reply>>

WellFormed(r, req) ==
  \A i \in DOMAIN r.path : IsParameter(r.path[i]) => req.path[i][1] \in Formats[r.path[i]]

(* Mutant: a pipe that refuses leaves the request without an answer.       *)
ParseSilently ==
  /\ stage = "routed"
  /\ stage' = IF request.verb = "QUERY" \/ WellFormed(Table[route], request)
              THEN "parsed" ELSE "answered"
  /\ UNCHANGED <<request, asked, route, reply>>

(* The pipes of a route's parameters; the inputs of a field have none.     *)
Parse ==
  /\ stage = "routed"
  /\ IF request.verb = "QUERY" \/ WellFormed(Table[route], request)
     THEN stage' = "parsed" /\ UNCHANGED reply
     ELSE stage' = "answered" /\ reply' = Answered("400", {})
  /\ UNCHANGED <<request, asked, route>>

(* The values of a path: an account, and what else is identified.          *)
AddressOf(r, req) ==
  LET at == {i \in DOMAIN r.path : r.path[i] = "Address"}
  IN  IF at = {} THEN None ELSE req.path[CHOOSE i \in at : TRUE][2]
IdOf(r, req) ==
  LET at == {i \in DOMAIN r.path : IsParameter(r.path[i]) /\ r.path[i] # "Address"}
      last == CHOOSE i \in at : \A j \in at : j <= i
  IN  CASE at = {} -> None
        [] r.method = "getRound" -> <<req.path[last - 1][2], req.path[last][2]>>
        [] at # {} /\ r.method # "getRound" -> req.path[last][2]

(* The call a handler makes: each name it was given as the field it is     *)
(* passed as (one of the field's own name comes first), and the identifier *)
(* of the path.                                                            *)
QueryOf(r, req) ==
  LET given == {n \in DOMAIN req.given : r.query[n] # ""}
      named == {r.query[n] : n \in given}
      NameOf(field) == IF field \in given THEN field ELSE CHOOSE n \in given : r.query[n] = field
      identifier == IF r.under = "address" THEN AddressOf(r, req) ELSE IdOf(r, req)
  IN  [address |-> IF r.under = "address" THEN None ELSE AddressOf(r, req),
       id |-> IF r.under # "" THEN None ELSE IdOf(r, req), v3 |-> req.v3,
       f |-> [field \in named \cup ({r.under} \ {""}) |->
                IF field = r.under THEN identifier
                ELSE Parsed(field, r.method, req.given[NameOf(field)])]]

(* What the handler checks of the request and of the path's identifier.    *)
FailedCheck(r, req) ==
  CASE "v3" \in r.checks /\ ~req.v3 -> "501"
    [] ~("v3" \in r.checks /\ ~req.v3) /\ "isToken" \in r.checks /\ ~IsToken(IdOf(r, req)) -> "404"
    [] "isCollection" \in r.checks /\ ~IsCollection(IdOf(r, req)) -> "404"
    [] OTHER -> ""

(* What a handler, or the framework, makes of the service's answer.        *)
Rendered(r, answer) ==
  CASE answer.kind = "items" -> Answered("200", answer.items)
    [] answer.kind = "missing" ->
         Answered(IF r.missing = "200" THEN "nothing" ELSE r.missing, {})
    [] answer.kind = "refused" -> Answered("400", {})
    [] answer.kind = "throws" -> Answered(IF r.thrown = "empty" THEN "200" ELSE r.thrown, {})

(* The reply of a route to a well-formed request.                          *)
Reply(r, req) ==
  IF FailedCheck(r, req) # "" THEN Answered(FailedCheck(r, req), {})
  ELSE Rendered(r, Answer(r.method, QueryOf(r, req)))

Handle ==
  /\ stage = "parsed"
  /\ reply' = Reply(Table[route], request)
  /\ stage' = "answered"
  /\ UNCHANGED <<request, asked, route>>

(* The token of a client, or the body of a request, may be refused.        *)
Refuse ==
  /\ stage = "parsed"
  /\ \E c \in Table[route].checks \cap {"jwt", "sender", "receiver", "signature"} :
       reply' = Answered(IF c = "jwt" THEN "401" ELSE "400", {})
  /\ stage' = "answered"
  /\ UNCHANGED <<request, asked, route>>

Next == Dispatch \/ Parse \/ Handle \/ Refuse

Spec == Init /\ [][Next]_vars

-----------------------------------------------------------------------------
TypeOK ==
  /\ asked \in DOMAIN Table /\ route \in {0} \cup DOMAIN Table
  /\ stage \in {"received", "routed", "parsed", "answered"}
  /\ (stage = "answered") = (reply # Unanswered)
  /\ reply # Unanswered => reply.status \in {"200", "nothing", "400", "401", "404", "500", "501"}

Served == stage = "answered" /\ reply.status = "200"
Taken == Table[route]
Kind == KindOf(Taken.method)

(* A request made as the documentation of a route says is taken by that     *)
(* route, and by no route that was registered before it with a parameter    *)
(* where this one has a literal (endpoints.controllers.module.ts:39-75 and  *)
(* the order of the handlers in each controller).                           *)
RoutesAreReached == stage # "received" => route = asked

(* What a value given for a name says of an item, as the routes document it. *)
Role(n, v, address, d) ==
  LET target == IF v \in {"true", "false"} THEN address ELSE v
  IN  (<<CollectionRole[n], target>> \in d.roles) <=> (v # "false")

Means(kind, n, v, address, d) ==
  CASE n = "before" -> d.timestamp <= v
    [] n = "after" -> d.timestamp >= v
    [] n = "nonceBefore" -> d.nonce <= v
    [] n = "nonceAfter" -> d.nonce >= v
    [] n = "receiver" -> v \in {d.receiver} \cup d.receivers
    [] n = "senderOrReceiver" -> v \in {d.sender, d.receiver}
    [] n = "token" -> v \in d.tokens
    [] n = "hashes" -> d.hash = v
    [] n = "originalTxHashes" -> d.originalTxHash = v
    [] n = "validator" -> v \in (IF kind = "blocks" THEN d.validators ELSE d.signers)
    [] n = "identifiers" -> v = (IF kind = "nfts" THEN d.identifier ELSE d.token)
    [] n \in {"identifier", "collection", "collections"} -> d.token = v
    [] n = "name" -> v = (IF kind = "nfts" THEN d.metaName ELSE d.name)
    [] n \in {"tags", "traits"} -> v \in d[n]
    [] n = "isWhitelistedStorage" -> d.stored = v
    [] n = "isNsfw" -> d.nsfw = v
    [] n = "creator" /\ kind = "collections" -> Role("canCreate", v, address, d)
    [] n \in DOMAIN CollectionRole /\ kind = "collections" -> Role(n, v, address, d)
    [] n \in DOMAIN TokenRole /\ kind = "roles" ->
         (<<TokenRole[n], address>> \in d.roles) <=> (v # "false")
    [] n = "excludeMetaESDT" -> v = "true" => d.type # "MetaESDT"
    [] n = "search" -> \E x \in {"token", "name", "metaName", "identifier", "tag", "bls", "version"}
                                 \cap DOMAIN d : d[x] = v
    [] n = "providers" -> d.provider = v
    [] n = "identities" -> d.identity = v
    [] n \in {"includeMetaESDT", "includeFlagged", "source", "condition"} -> TRUE
    [] OTHER -> d[n] = v

(* Values that are known to be lost: names that are not passed on; the       *)
(* sender of transfers, whose filter is called senders; the owner of         *)
(* collections; what only the newer index knows; a validator or a proposer   *)
(* without the shard and the epoch his key belongs to; the deprecated        *)
(* creator next to canCreate.                                                *)
Lost(r, req, n) ==
  LET kind == KindOf(r.method)
  IN  \/ r.query[n] = ""
      \/ kind = "transfers" /\ r.query[n] = "sender"
      \/ kind = "collections" /\ n = "owner"
      \/ ~req.v3 /\ n \in {"function", "isWhitelistedStorage"}
      \/ ~req.v3 /\ kind = "collections" /\ r.query[n] \in DOMAIN CollectionRole
      \/ n \in {"validator", "proposer"} /\ ~{"shard", "epoch"} \subseteq DOMAIN req.given
      \/ r.query[n] = "canCreate" /\ n = "creator" /\ "canCreate" \in DOMAIN req.given


(* Calls whose missing answer is known to be passed on: the fields that may  *)
(* be null; and whose errors are: a block GraphQL does not find, and the     *)
(* collections an account owns or has a role in, if one of them has no time. *)
PassedOn(r, req) ==
  \/ r.verb = "QUERY" /\ r.method \in {"getTransaction", "getScResult", "getBlock"}
  \/ /\ req.v3
     /\ r.method \in {"getCollectionsWithRolesForAddress", "getCollectionForAddressWithRole"}
     /\ \E d \in Docs.tokens :
          /\ d.timestamp = 0
          /\ \/ d.owner = AddressOf(r, req)
             \/ \E role \in CollectionRoles : <<role, AddressOf(r, req)>> \in d.roles

(* A request for something that does not exist is answered "not found": no   *)
(* service's undefined becomes an empty success, and no error that is thrown *)
(* on the way becomes a failure of the server (what a handler has to do      *)
(* depends on whether the service returns undefined or throws, e.g.          *)
(* token.controller.ts:100-113 and block.controller.ts:69-80).              *)
MissingIsNotFound ==
  stage = "answered" /\ ~PassedOn(Taken, request) => reply.status \notin {"nothing", "500"}

-----------------------------------------------------------------------------
(* Figures (of the network, the exchange, the marketplace, a contract) are   *)
(* not made of items.                                                        *)
OfItems(r) == r.method \in Modelled

(* The list that a count counts: the route without "count", or the field.    *)
CountedField ==
  [tokensCount |-> "tokens", nftsCount |-> "nfts", collectionsCount |-> "collections",
   nodesCount |-> "nodes", transactionsCount |-> "transactions", transfersCount |-> "transfers",
   roundsCount |-> "rounds", blocksCount |-> "blocks", tagsCount |-> "tags",
   accountsCount |-> "accounts", transactionsAccountCount |-> "transactionsAccount",
   resultsAccountCount |-> "resultsAccount", contractAccountCount |-> "contractAccount"]

CountedPath(r) ==
  LET last == r.path[Len(r.path)]
      front == SubSeq(r.path, 1, Len(r.path) - 1)
  IN  IF r.verb = "GET" /\ last \in {"count", "c"} THEN front
      ELSE IF r.verb = "QUERY" /\ last \in DOMAIN CountedField
           THEN Append(front, CountedField[last]) ELSE <<>>

ListOf(r) == {l \in DOMAIN Table : Table[l].verb = r.verb /\ Table[l].path = CountedPath(r)}

(* The request of route r with the identifiers of a request of route q.      *)
Redirected(r, q, req) ==
  LET at == SelectSeq([i \in DOMAIN q.path |-> i], LAMBDA i : IsParameter(q.path[i]))
      Nth(i) == Cardinality({j \in 1..i : IsParameter(r.path[j])})
  IN  [req EXCEPT !.verb = r.verb,
                  !.path = [i \in DOMAIN r.path |-> IF IsParameter(r.path[i]) THEN req.path[at[Nth(i)]]
                                                    ELSE <<"", r.path[i]>>]]

LostOn(r, req) == {n \in DOMAIN req.given : Lost(r, req, n)}

(* Counts that are known to differ: of the NFTs of an account (which the     *)
(* gateway lists and the indexer counts), of the accounts of a token (of     *)
(* which one may be on its way); and what one side loses.                    *)
CountDiffers(list, req) ==
  \/ Taken.method \in {"getNftCountForAddress", "getTokenAccountsCount"}
  \/ LostOn(list, req) # LostOn(Taken, req)


-----------------------------------------------------------------------------
Parameters(r) == SelectSeq(r.path, IsParameter)

(* The transfers of an account are not asked for its address; a route checks *)
(* that a token is one, a field does not.                                    *)
InterfacesDiffer(r, req) ==
  \/ Taken.path = Of("transfersAccount")
  \/ "isToken" \in r.checks /\ ~IsToken(IdOf(Taken, request))
  \/ LostOn(r, req) # LostOn(Taken, req)

(* A question has one answer, whether it is asked over REST or GraphQL: the  *)
(* handler and the resolver of a method build its filter each in their own   *)
(* way (e.g. transfer.controller.ts:45-77 and transfers.query.ts:18-41).     *)
InterfacesAgree ==
  Served /\ request.verb = "QUERY" =>
    \A i \in DOMAIN Table :
      LET r == Table[i]
          again == Redirected(r, Taken, request)
      IN  (/\ r.verb = "GET" /\ r.method = Taken.method /\ Parameters(r) = Parameters(Taken)
           /\ WellFormed(r, again) /\ DOMAIN request.given \subseteq DOMAIN r.query
           /\ ~InterfacesDiffer(r, request))
            => Reply(r, again) = reply
=============================================================================
