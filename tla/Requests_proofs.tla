-------------------------- MODULE Requests_proofs --------------------------
(***************************************************************************)
(* Proofs, for any documents and any segments, of what becomes of an       *)
(* answer that is missing and of a call that throws.  First: what each     *)
(* service may answer to any question (which may find nothing, which may   *)
(* throw, and when).  Then: what each route and each field of the tables   *)
(* makes of such an answer (it Fits).  Last: the stages of a request, with *)
(* the invariant IInv that carries both to the reply.                      *)
(***************************************************************************)
EXTENDS Requests, SequenceTheorems, TLAPS

-----------------------------------------------------------------------------
(* The answers of the services                                             *)

(* The methods that may find nothing; that throw for what does not exist;  *)
(* that throw for a collection without a time.                             *)
Missable == {"getToken", "getTokenSupply", "getTokenForAddress", "getTokenAccounts",
             "getTokenAccountsCount", "getTokenRoles", "getTokenRolesForIdentifierAndAddress",
             "getTokenWithRolesForAddress", "getLogoPng", "getLogoSvg", "getNftCollection",
             "getNftCollectionRanks", "getCollectionForAddress", "getCollectionForAddressWithRole",
             "getSingleNft", "getNftThumbnail", "getNftSupply", "getNftOwners", "getNftOwnersCount",
             "getNftForAddress", "getTransaction", "getScResult", "getAccountScResult",
             "getAccount", "getAccountSimple", "getNode", "getProvider", "getIdentity"}
Merging == {"getBlock", "getMiniBlock", "getRound", "getNftTag"}
RoleLists == {"getCollectionsWithRolesForAddress", "getCollectionForAddressWithRole"}

(* What an account's collections of which one has no time come from.       *)
UntimedCollection(address) ==
  \E d \in Docs.tokens :
    /\ d.timestamp = 0
    /\ d.owner = address \/ \E role \in CollectionRoles : <<role, address>> \in d.roles

(* The answers that a method may give.                                     *)
Allowed(m, q, answer) ==
  /\ answer.kind \in {"items", "missing", "refused", "throws"}
  /\ answer.kind = "missing" => m \in Missable
  /\ answer.kind = "throws" =>
       \/ m \in Merging
       \/ m \in RoleLists /\ q.v3 /\ (q.address # None => UntimedCollection(q.address))

(* The kinds of the answers that the services are written with.            *)
LEMMA AnswerKinds ==
  ASSUME NEW S
  PROVE  /\ Items(S).kind = "items"
         /\ Found(S).kind \in {"items", "missing"} /\ Merged(S).kind \in {"items", "throws"}
         /\ Missing.kind = "missing" /\ Throws.kind = "throws" /\ Refused.kind = "refused"
         /\ \A op, q : Asked(op, q).kind = "items"
BY DEF Items, Found, Merged, Missing, Throws, Refused, Asked

(* What each service may answer (token.service.ts, collection.service.ts,  *)
(* and the others).                                                        *)
LEMMA TokenAllowed ==
  ASSUME NEW q, NEW m \in TokenMethods
  PROVE  Allowed(m, q, TokenService(m, q))
<1>1. CASE m \in {"getTokens", "getTokenCount", "getTokensForAddress", "getTokenCountForAddress"}
  BY <1>1, AnswerKinds DEF TokenService, TokenLists, Allowed
<1>2. CASE m \in {"getToken", "getTokenSupply", "getTokenForAddress", "getTokenAccounts",
                  "getTokenAccountsCount", "getLogoPng", "getLogoSvg"}
  BY <1>2, AnswerKinds DEF TokenService, TokenOf, TokenHolders, Logo, Allowed, Missable
<1>3. CASE m \in {"getTokenRoles", "getTokenRolesForIdentifierAndAddress"}
  BY <1>3, AnswerKinds DEF TokenService, TokenRoles, Allowed, Missable
<1>4. CASE m \in {"getTokensWithRolesForAddress", "getTokensWithRolesForAddressCount",
                  "getTokenWithRolesForAddress"}
  BY <1>4, AnswerKinds DEF TokenService, TokensWithRoles, Allowed, Missable
<1> QED  BY <1>1, <1>2, <1>3, <1>4 DEF TokenMethods

(* A collection without a time is one of the account's.                    *)
LEMMA UntimedAllowed ==
  ASSUME NEW q, Untimed(q), q.address # None
  PROVE  q.v3 /\ UntimedCollection(q.address)
<1>1. PICK d \in Elastic("getNftCollections", q) : d.timestamp = 0
  BY DEF Untimed, ListedWithRoles, WithProperties
<1>2. d \in Docs.tokens /\ ElasticSelects("getNftCollections", q, d)
  BY <1>1 DEF Elastic, OrRows, IndexOf
<1>3. ElasticCollection(q.f, q.address, q.v3, d)
  BY <1>2 DEF ElasticSelects, ElasticList, Lists, Counts, OtherLists
<1> QED  BY <1>1, <1>3, <1>2 DEF ElasticCollection, UntimedCollection, Untimed

(* Only the collections with roles can throw, and only for one without a   *)
(* time.                                                                   *)
LEMMA CollectionAllowed ==
  ASSUME NEW q, NEW m \in CollectionMethods
  PROVE  Allowed(m, q, CollectionService(m, q))
<1>1. CASE m \in {"getNftCollections", "getNftCollectionCount", "getCollectionsForAddress",
                  "getCollectionCountForAddress", "getCollectionForAddress"}
  BY <1>1, AnswerKinds DEF CollectionService, Allowed, Missable
<1>2. CASE m = "getCollectionCountForAddressWithRoles"
  BY <1>2, AnswerKinds DEF CollectionService, CollectionsWithRoles, Allowed
<1>3. CASE m = "getCollectionsWithRolesForAddress"
  <2>1. Untimed(q) => q.v3
    BY DEF Untimed
  <2> QED  BY <1>3, <2>1, AnswerKinds, UntimedAllowed
           DEF CollectionService, CollectionsWithRoles, Allowed, RoleLists
<1>4. CASE m = "getCollectionForAddressWithRole"
  <2> DEFINE own == Filtered(q, [collection |-> q.id])
  <2>1. own.v3 = q.v3 /\ own.address = q.address
    BY DEF Filtered
  <2>2. Untimed(own) => q.v3
    BY <2>1 DEF Untimed
  <2>3. Untimed(own) /\ q.address # None => UntimedCollection(q.address)
    BY <2>1, UntimedAllowed
  <2>4. CollectionService(m, q) = IF Untimed(own) THEN Throws ELSE Found(ListedWithRoles(own))
    BY <1>4 DEF CollectionService, CollectionsWithRoles
  <2> HIDE DEF own
  <2> QED  BY <1>4, <2>2, <2>3, <2>4, AnswerKinds DEF Allowed, RoleLists, Missable
<1>5. CASE m \in {"getNftCollection", "getNftCollectionRanks"}
  BY <1>5, AnswerKinds DEF CollectionService, CollectionItem, Allowed, Missable
<1> QED  BY <1>1, <1>2, <1>3, <1>4, <1>5 DEF CollectionMethods

LEMMA NftAllowed ==
  ASSUME NEW q, NEW m \in NftMethods
  PROVE  Allowed(m, q, NftService(m, q))
<1>1. CASE m \in {"getNftOwners", "getNftOwnersCount", "getCollectionOwners"}
  BY <1>1, AnswerKinds DEF NftService, NftOwners, Allowed, Missable
<1>2. CASE m \notin {"getNftOwners", "getNftOwnersCount", "getCollectionOwners"}
  BY <1>2, AnswerKinds DEF NftService, Allowed, Missable, NftMethods
<1> QED  BY <1>1, <1>2

LEMMA AccountAllowed ==
  ASSUME NEW q, NEW m \in AccountMethods
  PROVE  Allowed(m, q, AccountService(m, q))
BY AnswerKinds DEF AccountService, AccountFigures, AccountMethods, Allowed, Missable

LEMMA ResultAllowed ==
  ASSUME NEW q, NEW m \in ScResultMethods
  PROVE  Allowed(m, q, ScResultService(m, q))
BY AnswerKinds DEF ScResultService, ScResultMethods, Allowed, Missable

LEMMA TransactionAllowed ==
  ASSUME NEW q, NEW m \in {"getTransactions", "getTransactionCount", "getTransaction"}
  PROVE  Allowed(m, q, TransactionService(m, q))
<1>1. TransactionCount(q).kind = "items"
  BY AnswerKinds DEF TransactionCount
<1> QED  BY <1>1, AnswerKinds DEF TransactionService, Allowed, Missable

LEMMA OtherAllowed ==
  ASSUME NEW q, NEW m
  PROVE  /\ m \in {"getTransfers", "getTransfersCount"} => Allowed(m, q, TransferService(m, q))
         /\ m \in {"getBlocks", "getBlocksCount", "getBlock", "getMiniBlock"}
              => Allowed(m, q, BlockService(m, q))
         /\ m \in {"getRounds", "getRoundCount", "getRound"} => Allowed(m, q, RoundService(m, q))
         /\ m \in {"getNftTags", "getNftTagCount", "getNftTag"} => Allowed(m, q, TagService(m, q))
         /\ m \in {"getNodes", "getNodeCount", "getNode"} => Allowed(m, q, NodeService(m, q))
         /\ m \in {"getProviders", "getProvider"} => Allowed(m, q, ProviderService(m, q))
         /\ m \in {"getIdentities", "getIdentity"} => Allowed(m, q, IdentityService(m, q))
BY AnswerKinds DEF TransferService, BlockService, RoundService, TagService, NodeService,
              ProviderService, IdentityService, Allowed, Missable, Merging

(* Every method answers, and in one of the ways it may.                    *)
LEMMA AnswerAllowed ==
  ASSUME NEW q, NEW m
  PROVE  Allowed(m, q, Answer(m, q))
<1> USE DEF Answer, Modelled, TokenMethods, CollectionMethods, NftMethods, AccountMethods,
            ScResultMethods
<1>1. CASE m \in TokenMethods
  <2>1. Answer(m, q) = TokenService(m, q)
    BY <1>1
  <2> QED  BY <1>1, <2>1, TokenAllowed
<1>2. CASE m \in CollectionMethods
  <2>1. Answer(m, q) = CollectionService(m, q)
    BY <1>2
  <2> QED  BY <1>2, <2>1, CollectionAllowed
<1>3. CASE m \in NftMethods
  <2>1. Answer(m, q) = NftService(m, q)
    BY <1>3
  <2> QED  BY <1>3, <2>1, NftAllowed
<1>4. CASE m \in AccountMethods
  <2>1. Answer(m, q) = AccountService(m, q)
    BY <1>4
  <2> QED  BY <1>4, <2>1, AccountAllowed
<1>5. CASE m \in ScResultMethods
  <2>1. Answer(m, q) = ScResultService(m, q)
    BY <1>5
  <2> QED  BY <1>5, <2>1, ResultAllowed
<1>6. CASE m \in {"getTransactions", "getTransactionCount", "getTransaction"}
  <2>1. Answer(m, q) = TransactionService(m, q)
    BY <1>6
  <2> QED  BY <1>6, <2>1, TransactionAllowed
<1>7. CASE m \in {"getTransfers", "getTransfersCount"}
  <2>1. Answer(m, q) = TransferService(m, q)
    BY <1>7
  <2> QED  BY <1>7, <2>1, OtherAllowed
<1>8. CASE m \in {"getBlocks", "getBlocksCount", "getBlock", "getMiniBlock"}
  <2>1. Answer(m, q) = BlockService(m, q)
    BY <1>8
  <2> QED  BY <1>8, <2>1, OtherAllowed
<1>9. CASE m \in {"getRounds", "getRoundCount", "getRound"}
  <2>1. Answer(m, q) = RoundService(m, q)
    BY <1>9
  <2> QED  BY <1>9, <2>1, OtherAllowed
<1>10. CASE m \in {"getNftTags", "getNftTagCount", "getNftTag"}
  <2>1. Answer(m, q) = TagService(m, q)
    BY <1>10
  <2> QED  BY <1>10, <2>1, OtherAllowed
<1>11. CASE m \in {"getNodes", "getNodeCount", "getNode"}
  <2>1. Answer(m, q) = NodeService(m, q)
    BY <1>11
  <2> QED  BY <1>11, <2>1, OtherAllowed
<1>12. CASE m \in {"getProviders", "getProvider"}
  <2>1. Answer(m, q) = ProviderService(m, q)
    BY <1>12
  <2> QED  BY <1>12, <2>1, OtherAllowed
<1>13. CASE m \in {"getIdentities", "getIdentity"}
  <2>1. Answer(m, q) = IdentityService(m, q)
    BY <1>13
  <2> QED  BY <1>13, <2>1, OtherAllowed
<1>14. CASE m \notin Modelled
  <2>1. Answer(m, q) = Items({m})
    BY <1>14
  <2> QED  BY <2>1, AnswerKinds DEF Allowed
<1> QED  BY <1>1, <1>2, <1>3, <1>4, <1>5, <1>6, <1>7, <1>8, <1>9, <1>10, <1>11, <1>12, <1>13, <1>14
-----------------------------------------------------------------------------
(* What the routes and the fields make of an answer                        *)

Fields == {"verb", "path", "query", "method", "checks", "under", "missing", "thrown"}
IsRoute(r) ==
  /\ DOMAIN r = Fields /\ r = [x \in Fields |-> r[x]]
  /\ r.verb \in {"GET", "POST", "QUERY"}
  /\ r.missing \in {"200", "404"} /\ r.thrown \in {"400", "404", "500", "empty"}

(* The fields that may be null, and the one that passes an error on.       *)
MayBeNull(r) == r.verb = "QUERY" /\ r.method \in {"getTransaction", "getScResult", "getBlock"}

(* A route has an answer for what its service may do: it looks for a       *)
(* missing item, and catches what is thrown.                               *)
Fits(r) ==
  /\ IsRoute(r)
  /\ r.method \in Missable => r.missing = "404" \/ MayBeNull(r)
  /\ r.method \in Merging => r.thrown # "500" \/ MayBeNull(r)
  /\ r.method \in RoleLists => /\ r.verb = "GET" /\ r.under = ""
                               /\ \E i \in DOMAIN r.path : r.path[i] = "Address"

(* A table all of whose routes fit.                                        *)
Fit(s) == (\E S : s \in Seq(S)) /\ \A i \in DOMAIN s : Fits(s[i])

(* What a route is, but for what it checks and passes on.                  *)
Has(r, verb, path, method, under, missing, thrown) ==
  /\ IsRoute(r) /\ r.verb = verb /\ r.path = path /\ r.method = method
  /\ r.under = under /\ r.missing = missing /\ r.thrown = thrown

(* What a route or a field is when it is written, and what changes it.     *)
LEMMA Made ==
  ASSUME NEW verb \in {"GET", "POST", "QUERY"}, NEW path, NEW names, NEW method
  PROVE  Has(Route(verb, path, names, method), verb, path, method, "", "200", "500")
BY DEF Has, Route, IsRoute, Fields

LEMMA FieldMade ==
  ASSUME NEW path, NEW input, NEW passed, NEW method
  PROVE  Has(Field(path, input, passed, method), "QUERY", path, method, "", "200", "500")
BY DEF Has, Field, Route, IsRoute, Fields

(* Each change sets one of the fields, and leaves the others as they were. *)
LEMMA Changed ==
  ASSUME NEW r, NEW verb, NEW path, NEW method, NEW under, NEW missing, NEW thrown,
         Has(r, verb, path, method, under, missing, thrown)
  PROVE  /\ Has(OrNotFound(r), verb, path, method, under, "404", thrown)
         /\ \A as \in {"400", "404", "empty"} :
              Has(Caught(r, as), verb, path, method, under, missing, as)
         /\ \A S : Has(Checked(S, r), verb, path, method, under, missing, thrown)
         /\ \A field : Has(Under(field, r), verb, path, method, field, missing, thrown)
         /\ \A n, field : Has(As(n, field, r), verb, path, method, under, missing, thrown)
BY DEF Has, OrNotFound, Caught, Checked, Under, As, IsRoute, Fields

(* The routes of methods that list no roles fit by what they make of an    *)
(* answer.                                                                 *)
LEMMA HasFits ==
  ASSUME NEW r, NEW verb, NEW path, NEW method, NEW under, NEW missing, NEW thrown,
         Has(r, verb, path, method, under, missing, thrown),
         method \in Missable => missing = "404"
           \/ (verb = "QUERY" /\ method \in {"getTransaction", "getScResult", "getBlock"}),
         method \in Merging => thrown # "500"
           \/ (verb = "QUERY" /\ method \in {"getTransaction", "getScResult", "getBlock"}),
         method \notin RoleLists
  PROVE  Fits(r)
BY DEF Has, Fits, MayBeNull

(* A change that keeps method, statuses and path keeps a route fitting.    *)
LEMMA ChangedFits ==
  ASSUME NEW r, Fits(r), NEW x, NEW y
  PROVE  /\ Fits(Checked(x, r)) /\ Fits(As(x, y, r)) /\ Fits(Senders(r)) /\ Fits(Ignoring(x, r))
         /\ x \in {"400", "404", "empty"} => Fits(Caught(r, x))
         /\ r.method \notin RoleLists => Fits(Under(x, r))
<1>1. Has(r, r.verb, r.path, r.method, r.under, r.missing, r.thrown)
  BY DEF Has, Fits
<1>2. \A s : Has(s, r.verb, r.path, r.method, r.under, r.missing, r.thrown) => Fits(s)
  BY DEF Has, Fits, MayBeNull
<1>3. \A s : Has(s, r.verb, r.path, r.method, x, r.missing, r.thrown)
             /\ r.method \notin RoleLists => Fits(s)
  BY DEF Has, Fits, MayBeNull
<1>4. ASSUME x \in {"400", "404", "empty"}
      PROVE  Fits(Caught(r, x))
  <2>1. Has(Caught(r, x), r.verb, r.path, r.method, r.under, r.missing, x)
    BY <1>1, <1>4, Changed
  <2> QED  BY <2>1, <1>4 DEF Has, Fits, MayBeNull
<1> QED  BY <1>1, <1>2, <1>3, <1>4, Changed DEF Senders, Ignoring

(* The routes and fields as they are written.                              *)
LEMMA PlainFits ==
  ASSUME NEW path, NEW names, NEW method, method \notin Missable \cup Merging \cup RoleLists
  PROVE  Fits(Get(path, names, method)) /\ Fits(Post(path, method))
BY Made, HasFits DEF Get, Post

LEMMA NotFoundFits ==
  ASSUME NEW path, NEW names, NEW method, method \notin Merging \cup RoleLists
  PROVE  /\ Fits(OrNotFound(Get(path, names, method)))
         /\ Fits(OrNotFound(Plain(path, method))) /\ Fits(OrNotFound(Paged(path, method)))
<1>1. ASSUME NEW r, NEW verb, Has(r, verb, path, method, "", "200", "500")
      PROVE  Fits(OrNotFound(r))
  <2>1. Has(OrNotFound(r), verb, path, method, "", "404", "500")
    BY <1>1, Changed
  <2> QED  BY <2>1, HasFits
<1> QED  BY <1>1, Made, FieldMade DEF Get, Plain, Paged, Whole

LEMMA CaughtFits ==
  ASSUME NEW path, NEW names, NEW method, method \notin Missable \cup RoleLists,
         NEW as \in {"400", "404", "empty"}
  PROVE  /\ Fits(Caught(Get(path, names, method), as))
         /\ Fits(Caught(Post(path, method), as))
         /\ Fits(Caught(Plain(path, method), as))
<1>1. ASSUME NEW r, NEW verb, Has(r, verb, path, method, "", "200", "500")
      PROVE  Fits(Caught(r, as))
  <2>1. Has(Caught(r, as), verb, path, method, "", "200", as)
    BY <1>1, Changed
  <2> QED  BY <2>1, HasFits
<1> QED  BY <1>1, Made, FieldMade DEF Get, Post, Plain, Whole

LEMMA FieldFits ==
  ASSUME NEW path, NEW input, NEW passed, NEW method,
         method \notin (Missable \cup Merging \cup RoleLists) \ {"getTransaction", "getBlock"}
  PROVE  /\ Fits(Field(path, input, passed, method)) /\ Fits(Whole(path, input, method))
         /\ Fits(Plain(path, method)) /\ Fits(Paged(path, method))
<1>1. \A r : Has(r, "QUERY", path, method, "", "200", "500") => Fits(r)
  BY HasFits DEF RoleLists
<1> QED  BY <1>1, FieldMade DEF Plain, Paged, Whole

(* Of the tables that are put together from fitting routes.                *)
LEMMA FitListed ==
  ASSUME NEW S, NEW s \in Seq(S), \A x \in S : Fits(x)
  PROVE  Fit(s)
BY DEF Fit

(* Two tables, one after the other.                                        *)
LEMMA FitConcat ==
  ASSUME NEW s, NEW t, Fit(s), Fit(t)
  PROVE  Fit(s \o t)
<1>1. PICK S : s \in Seq(S)  BY DEF Fit
<1>2. PICK T : t \in Seq(T)  BY DEF Fit
<1>3. s \in Seq(S \cup T) /\ t \in Seq(S \cup T)
  BY <1>1, <1>2
<1> QED  BY <1>3, ConcatProperties DEF Fit

(* A table that is written route by route: one lemma for each length.      *)
LEMMA Fit1 ==
  ASSUME NEW a, Fits(a)
  PROVE  Fit(<<a>>)
<1>1. PICK S : S = {a}
  OBVIOUS
<1>2. <<a>> \in Seq(S) /\ \A x \in S : Fits(x)
  BY <1>1
<1> QED  BY <1>2, FitListed

LEMMA Fit2 ==
  ASSUME NEW a, Fits(a), NEW b, Fits(b)
  PROVE  Fit(<<a, b>>)
<1>1. PICK S : S = {a, b}
  OBVIOUS
<1>2. <<a, b>> \in Seq(S) /\ \A x \in S : Fits(x)
  BY <1>1
<1> QED  BY <1>2, FitListed

LEMMA Fit3 ==
  ASSUME NEW a, Fits(a), NEW b, Fits(b), NEW c, Fits(c)
  PROVE  Fit(<<a, b, c>>)
<1>1. PICK S : S = {a, b, c}
  OBVIOUS
<1>2. <<a, b, c>> \in Seq(S) /\ \A x \in S : Fits(x)
  BY <1>1
<1> QED  BY <1>2, FitListed

LEMMA Fit4 ==
  ASSUME NEW a, Fits(a), NEW b, Fits(b), NEW c, Fits(c), NEW d, Fits(d)
  PROVE  Fit(<<a, b, c, d>>)
<1>1. PICK S : S = {a, b, c, d}
  OBVIOUS
<1>2. <<a, b, c, d>> \in Seq(S) /\ \A x \in S : Fits(x)
  BY <1>1
<1> QED  BY <1>2, FitListed

LEMMA Fit5 ==
  ASSUME NEW a, Fits(a), NEW b, Fits(b), NEW c, Fits(c), NEW d, Fits(d), NEW e, Fits(e)
  PROVE  Fit(<<a, b, c, d, e>>)
<1>1. PICK S : S = {a, b, c, d, e}
  OBVIOUS
<1>2. <<a, b, c, d, e>> \in Seq(S) /\ \A x \in S : Fits(x)
  BY <1>1
<1> QED  BY <1>2, FitListed

LEMMA Fit6 ==
  ASSUME NEW a, Fits(a), NEW b, Fits(b), NEW c, Fits(c), NEW d, Fits(d), NEW e, Fits(e),
         NEW f, Fits(f)
  PROVE  Fit(<<a, b, c, d, e, f>>)
<1>1. PICK S : S = {a, b, c, d, e, f}
  OBVIOUS
<1>2. <<a, b, c, d, e, f>> \in Seq(S) /\ \A x \in S : Fits(x)
  BY <1>1
<1> QED  BY <1>2, FitListed

LEMMA Fit7 ==
  ASSUME NEW a, Fits(a), NEW b, Fits(b), NEW c, Fits(c), NEW d, Fits(d), NEW e, Fits(e),
         NEW f, Fits(f), NEW g, Fits(g)
  PROVE  Fit(<<a, b, c, d, e, f, g>>)
<1>1. PICK S : S = {a, b, c, d, e, f, g}
  OBVIOUS
<1>2. <<a, b, c, d, e, f, g>> \in Seq(S) /\ \A x \in S : Fits(x)
  BY <1>1
<1> QED  BY <1>2, FitListed

LEMMA Fit8 ==
  ASSUME NEW a, Fits(a), NEW b, Fits(b), NEW c, Fits(c), NEW d, Fits(d), NEW e, Fits(e),
         NEW f, Fits(f), NEW g, Fits(g), NEW h, Fits(h)
  PROVE  Fit(<<a, b, c, d, e, f, g, h>>)
<1>1. PICK S : S = {a, b, c, d, e, f, g, h}
  OBVIOUS
<1>2. <<a, b, c, d, e, f, g, h>> \in Seq(S) /\ \A x \in S : Fits(x)
  BY <1>1
<1> QED  BY <1>2, FitListed

LEMMA Fit9 ==
  ASSUME NEW a, Fits(a), NEW b, Fits(b), NEW c, Fits(c), NEW d, Fits(d), NEW e, Fits(e),
         NEW f, Fits(f), NEW g, Fits(g), NEW h, Fits(h), NEW i, Fits(i)
  PROVE  Fit(<<a, b, c, d, e, f, g, h, i>>)
<1>1. PICK S : S = {a, b, c, d, e, f, g, h, i}
  OBVIOUS
<1>2. <<a, b, c, d, e, f, g, h, i>> \in Seq(S) /\ \A x \in S : Fits(x)
  BY <1>1
<1> QED  BY <1>2, FitListed

LEMMA Fit10 ==
  ASSUME NEW a, Fits(a), NEW b, Fits(b), NEW c, Fits(c), NEW d, Fits(d), NEW e, Fits(e),
         NEW f, Fits(f), NEW g, Fits(g), NEW h, Fits(h), NEW i, Fits(i), NEW j, Fits(j)
  PROVE  Fit(<<a, b, c, d, e, f, g, h, i, j>>)
<1>1. PICK S : S = {a, b, c, d, e, f, g, h, i, j}
  OBVIOUS
<1>2. <<a, b, c, d, e, f, g, h, i, j>> \in Seq(S) /\ \A x \in S : Fits(x)
  BY <1>1
<1> QED  BY <1>2, FitListed

LEMMA Fit11 ==
  ASSUME NEW a, Fits(a), NEW b, Fits(b), NEW c, Fits(c), NEW d, Fits(d), NEW e, Fits(e),
         NEW f, Fits(f), NEW g, Fits(g), NEW h, Fits(h), NEW i, Fits(i), NEW j, Fits(j),
         NEW k, Fits(k)
  PROVE  Fit(<<a, b, c, d, e, f, g, h, i, j, k>>)
<1>1. PICK S : S = {a, b, c, d, e, f, g, h, i, j, k}
  OBVIOUS
<1>2. <<a, b, c, d, e, f, g, h, i, j, k>> \in Seq(S) /\ \A x \in S : Fits(x)
  BY <1>1
<1> QED  BY <1>2, FitListed

LEMMA Fit12 ==
  ASSUME NEW a, Fits(a), NEW b, Fits(b), NEW c, Fits(c), NEW d, Fits(d), NEW e, Fits(e),
         NEW f, Fits(f), NEW g, Fits(g), NEW h, Fits(h), NEW i, Fits(i), NEW j, Fits(j),
         NEW k, Fits(k), NEW l, Fits(l)
  PROVE  Fit(<<a, b, c, d, e, f, g, h, i, j, k, l>>)
<1>1. PICK S : S = {a, b, c, d, e, f, g, h, i, j, k, l}
  OBVIOUS
<1>2. <<a, b, c, d, e, f, g, h, i, j, k, l>> \in Seq(S) /\ \A x \in S : Fits(x)
  BY <1>1
<1> QED  BY <1>2, FitListed

LEMMA FitEmpty == Fit(<< >>)
BY << >> \in Seq({}) DEF Fit

(* The two routes of a count.                                              *)
LEMMA FitCount ==
  ASSUME NEW path, NEW names, NEW method, method \notin Missable \cup Merging \cup RoleLists
  PROVE  Fit(Count(path, names, method))
BY PlainFits, Fit2 DEF Count

(* A table made from another, route by route.                              *)
LEMMA FitMapped ==
  ASSUME NEW S, NEW s \in Seq(S), NEW t, t = [i \in DOMAIN s |-> t[i]],
         \A i \in DOMAIN s : Fits(t[i])
  PROVE  Fit(t)
<1>1. t \in Seq({t[i] : i \in DOMAIN s})
  OBVIOUS
<1> QED  BY <1>1 DEF Fit

(* The groups of routes whose every route is written as it is.               *)
LEMMA RoutesFit ==
  /\ Fit(AccountItems) /\ Fit(AccountNfts) /\ Fit(AccountTransactions)
  /\ Fit(AccountResults) /\ Fit(BlockRoutes) /\ Fit(DelegationRoutes)
  /\ Fit(DelegationLegacyRoutes) /\ Fit(IdentityRoutes) /\ Fit(KeyRoutes)
  /\ Fit(MiniBlockRoutes) /\ Fit(NetworkRoutes) /\ Fit(NftLists) /\ Fit(NftItems)
  /\ Fit(TagRoutes) /\ Fit(NodeRoutes) /\ Fit(ProviderRoutes) /\ Fit(ProxyTransactions)
  /\ Fit(ProxyNetwork) /\ Fit(RoundRoutes) /\ Fit(ScResultRoutes) /\ Fit(ShardRoutes)
  /\ Fit(StakeRoutes) /\ Fit(TokenItems) /\ Fit(TransactionLists) /\ Fit(TransactionItems)
  /\ Fit(UsernameRoutes) /\ Fit(VmQueryRoutes) /\ Fit(WaitingListRoutes)
  /\ Fit(HealthCheckRoutes) /\ Fit(DappConfigRoutes) /\ Fit(WebsocketRoutes)
  /\ Fit(ProcessNftsRoutes) /\ Fit(MarketplaceRoutes) /\ Fit(MexItems) /\ Fit(MexOldItems)
<1> USE Fit1, Fit2, Fit3, Fit4, Fit5, Fit6, Fit7, Fit8, Fit9, Fit10, Fit11, FitConcat, FitCount,
        PlainFits, NotFoundFits, CaughtFits, ChangedFits DEF Missable, Merging, RoleLists
<1>1. Fit(AccountItems)
  BY DEF AccountItems
<1>2. Fit(AccountNfts)
  BY DEF AccountNfts
<1>3. Fit(AccountTransactions)
  BY DEF AccountTransactions
<1>4. Fit(AccountResults)
  BY DEF AccountResults
<1>5. Fit(BlockRoutes)
  BY DEF BlockRoutes
<1>6. Fit(DelegationRoutes)
  BY DEF DelegationRoutes
<1>7. Fit(DelegationLegacyRoutes)
  BY DEF DelegationLegacyRoutes
<1>8. Fit(IdentityRoutes)
  BY DEF IdentityRoutes
<1>9. Fit(KeyRoutes)
  BY DEF KeyRoutes
<1>10. Fit(MiniBlockRoutes)
  BY DEF MiniBlockRoutes
<1>11. Fit(NetworkRoutes)
  BY DEF NetworkRoutes
<1>12. Fit(NftLists)
  BY DEF NftLists
<1>13. Fit(NftItems)
  BY DEF NftItems
<1>14. Fit(TagRoutes)
  BY DEF TagRoutes
<1>15. Fit(NodeRoutes)
  BY DEF NodeRoutes
<1>16. Fit(ProviderRoutes)
  BY DEF ProviderRoutes
<1>17. Fit(ProxyTransactions)
  BY DEF ProxyTransactions, Gateway, GatewayPost
<1>18. Fit(ProxyNetwork)
  BY DEF ProxyNetwork, Gateway, GatewayPost
<1>19. Fit(RoundRoutes)
  BY DEF RoundRoutes
<1>20. Fit(ScResultRoutes)
  BY DEF ScResultRoutes
<1>21. Fit(ShardRoutes)
  BY DEF ShardRoutes
<1>22. Fit(StakeRoutes)
  BY DEF StakeRoutes
<1>23. Fit(TokenItems)
  BY DEF TokenItems
<1>24. Fit(TransactionLists)
  BY DEF TransactionLists
<1>25. Fit(TransactionItems)
  BY DEF TransactionItems
<1>26. Fit(UsernameRoutes)
  BY DEF UsernameRoutes
<1>27. Fit(VmQueryRoutes)
  BY DEF VmQueryRoutes
<1>28. Fit(WaitingListRoutes)
  BY DEF WaitingListRoutes
<1>29. Fit(HealthCheckRoutes)
  BY DEF HealthCheckRoutes
<1>30. Fit(DappConfigRoutes)
  BY DEF DappConfigRoutes
<1>31. Fit(WebsocketRoutes)
  BY DEF WebsocketRoutes
<1>32. Fit(ProcessNftsRoutes)
  BY DEF ProcessNftsRoutes
<1>33. Fit(MarketplaceRoutes)
  BY DEF MarketplaceRoutes
<1>34. Fit(MexItems)
  BY DEF MexItems
<1>35. Fit(MexOldItems)
  BY DEF MexOldItems
<1> QED  BY <1>1, <1>2, <1>3, <1>4, <1>5, <1>6, <1>7, <1>8, <1>9, <1>10, <1>11, <1>12,
            <1>13, <1>14, <1>15, <1>16, <1>17, <1>18, <1>19, <1>20, <1>21,
            <1>22, <1>23, <1>24, <1>25, <1>26, <1>27, <1>28, <1>29, <1>30,
            <1>31, <1>32, <1>33, <1>34, <1>35

(* A list that is asked for under an item: its answer is never missing.    *)
LEMMA UnderFits ==
  ASSUME NEW path, NEW names, NEW method, method \notin Missable \cup Merging \cup RoleLists,
         NEW field
  PROVE  /\ Fits(Under(field, Get(path, names, method)))
         /\ Fits(Under(field, Senders(Get(path, names, method))))
<1>1. ASSUME NEW r, Has(r, "GET", path, method, "", "200", "500")
      PROVE  Fits(Under(field, r))
  <2>1. Has(Under(field, r), "GET", path, method, field, "200", "500")
    BY <1>1, Changed
  <2> QED  BY <2>1, HasFits
<1>2. Has(Get(path, names, method), "GET", path, method, "", "200", "500")
  BY Made DEF Get
<1>3. Has(Senders(Get(path, names, method)), "GET", path, method, "", "200", "500")
  BY <1>2, Changed DEF Senders
<1> QED  BY <1>1, <1>2, <1>3

(* The collections an account has roles in: their path has the account.    *)
LEMMA RoleFits ==
  ASSUME NEW names, NEW method \in RoleLists, NEW path,
         \E i \in DOMAIN path : path[i] = "Address"
  PROVE  /\ method \notin Missable => Fits(Get(path, names, method))
         /\ Fits(OrNotFound(Get(path, names, method)))
<1>1. Has(Get(path, names, method), "GET", path, method, "", "200", "500")
  BY Made DEF Get
<1>2. Has(OrNotFound(Get(path, names, method)), "GET", path, method, "", "404", "500")
  BY <1>1, Changed
<1>3. \A r : Has(r, "GET", path, method, "", "200", "500") /\ method \notin Missable => Fits(r)
  BY DEF Has, Fits, RoleLists, Merging, Missable
<1>4. \A r : Has(r, "GET", path, method, "", "404", "500") => Fits(r)
  BY DEF Has, Fits, RoleLists, Merging
<1> QED  BY <1>1, <1>2, <1>3, <1>4

(* A change made to every route of a table.                                *)
LEMMA FitEach ==
  ASSUME NEW s, Fit(s)
  PROVE  /\ \A S : Fit([i \in DOMAIN s |-> Checked(S, s[i])])
         /\ \A n, f : Fit([i \in DOMAIN s |-> As(n, f, s[i])])
         /\ Fit([i \in DOMAIN s |-> Senders(s[i])])
         /\ Fit([i \in DOMAIN s |-> Caught(s[i], "empty")])
<1>1. PICK S : s \in Seq(S)
  BY DEF Fit
<1>2. \A i \in DOMAIN s : Fits(s[i])
  BY DEF Fit
<1> QED  BY <1>1, <1>2, FitMapped, ChangedFits

(* The groups with a route of a method that may throw, and others whose    *)
(* routes are not all written out.                                         *)
LEMMA AccountTokensFit == Fit(AccountTokens)
<1> DEFINE counts == Count(Account \o <<"tokens">>, TokenNames, "getTokenCountForAddress")
<1>1. Fit(Each(LAMBDA r : Caught(r, "empty"), counts))
  <2>1. Fit(counts)
    BY FitCount DEF Missable, Merging, RoleLists
  <2> HIDE DEF counts
  <2> QED  BY <2>1, FitEach DEF Each
<1>2. Fits(Get(Account \o <<"roles", "collections">>, RoleNames \cup Page,
               "getCollectionsWithRolesForAddress"))
  <2>1. PICK path : path = Account \o <<"roles", "collections">>
    OBVIOUS
  <2>2. 2 \in DOMAIN path /\ path[2] = "Address"
    BY <2>1 DEF Account
  <2> QED  BY <2>1, <2>2, RoleFits DEF RoleLists, Missable
<1> QED  BY <1>1, <1>2, Fit2, FitConcat, FitCount, NotFoundFits
         DEF AccountTokens, Missable, Merging, RoleLists

LEMMA AccountRolesFit == Fit(AccountRoles)
<1>2. Fits(OrNotFound(Get(Account \o <<"roles", "collections", "Collection">>, {},
                          "getCollectionForAddressWithRole")))
  <2>1. PICK path : path = Account \o <<"roles", "collections", "Collection">>
    OBVIOUS
  <2>2. 2 \in DOMAIN path /\ path[2] = "Address"
    BY <2>1 DEF Account
  <2> QED  BY <2>1, <2>2, RoleFits DEF RoleLists
<1> QED  BY <1>2, Fit2, FitConcat, FitCount, PlainFits, NotFoundFits
         DEF AccountRoles, Missable, Merging, RoleLists

LEMMA CollectionNftsFit == Fit(CollectionNfts)
BY Fit4, PlainFits, NotFoundFits, ChangedFits, UnderFits
   DEF CollectionNfts, Missable, Merging, RoleLists
LEMMA NftTransactionsFit == Fit(NftTransactions)
BY Fit2, UnderFits DEF NftTransactions, Missable, Merging, RoleLists

LEMMA ResultFieldsFit == Fit(ResultFields)
<1>1. Fits(Caught(Plain(<<"result", "Hash">>, "getScResult"), "404"))
  <2>1. Has(Plain(<<"result", "Hash">>, "getScResult"), "QUERY", <<"result", "Hash">>, "getScResult",
            "", "200", "500")
    BY FieldMade DEF Plain, Whole
  <2>2. Has(Caught(Plain(<<"result", "Hash">>, "getScResult"), "404"), "QUERY", <<"result", "Hash">>,
            "getScResult", "", "200", "404")
    BY <2>1, Changed
  <2>3. \A r : Has(r, "QUERY", <<"result", "Hash">>, "getScResult", "", "200", "404") => Fits(r)
    BY DEF Has, Fits, MayBeNull, Merging, RoleLists
  <2> QED  BY <2>2, <2>3
<1> QED  BY <1>1, Fit3, FieldFits DEF ResultFields, Missable, Merging, RoleLists

LEMMA ProxyAddressFit == Fit(ProxyAddress)
<1> DEFINE ends == << << >>, <<"balance">>, <<"nonce">>, <<"shard">>, <<"key", "Any">>,
                      <<"transactions">>, <<"guardian-data">>, <<"esdt">> >>
<1>1. \A path : Fits(Gateway(path))
  BY CaughtFits DEF Gateway, Missable, RoleLists
<1>2. ProxyAddress = [i \in 1..8 |-> Gateway(<<"address", "Address">> \o ends[i])]
  BY DEF ProxyAddress
<1> HIDE DEF ends
<1>3. ProxyAddress \in Seq({Gateway(<<"address", "Address">> \o ends[i]) : i \in 1..8})
  BY <1>2
<1> QED  BY <1>1, <1>3, FitListed

(* The routes that are changed one like the other.                         *)
LEMMA FitUnder ==
  ASSUME NEW list, NEW S, NEW field, Fits(Under(field, list)),
         NEW path, NEW names, NEW method, method \notin Missable \cup Merging \cup RoleLists,
         NEW routes, routes = <<list>> \o Count(path, names, method)
  PROVE  Fit([i \in DOMAIN routes |-> Checked(S, Under(field, routes[i]))])
<1>1. PICK T : T = {list, Get(path \o <<"count">>, names, method), Get(path \o <<"c">>, names, method)}
  OBVIOUS
<1>2. routes \in Seq(T)
  BY <1>1 DEF Count
<1>3. \A r \in T : Fits(Checked(S, Under(field, r)))
  BY <1>1, UnderFits, ChangedFits
<1>4. PICK t : t = [i \in DOMAIN routes |-> Checked(S, Under(field, routes[i]))]
  OBVIOUS
<1>5. t = [i \in DOMAIN routes |-> t[i]] /\ \A i \in DOMAIN routes : Fits(t[i])
  BY <1>2, <1>3, <1>4
<1>6. Fit(t)
  BY <1>2, <1>5, FitMapped
<1> QED  BY <1>4, <1>6

LEMMA AccountTransfersFit == Fit(AccountTransfers)
<1> DEFINE list == Senders(Get(Account \o <<"transfers">>,
                               TransactionNames \cup {"senderOrReceiver"} \cup Page, "getTransfers"))
           routes == <<list>> \o Count(Account \o <<"transfers">>, TransactionNames, "getTransfersCount")
<1>1. Fits(Under("address", list))
  BY UnderFits DEF Missable, Merging, RoleLists
<1>2. AccountTransfers = [i \in DOMAIN routes |-> Checked({"v3"}, Under("address", routes[i]))]
  BY DEF AccountTransfers, Each
<1> QED  BY <1>1, <1>2, FitUnder DEF Missable, Merging, RoleLists

LEMMA TokenTransfersFit == Fit(TokenTransfers)
<1> DEFINE list == Get(Token \o <<"transfers">>,
                       (TransactionNames \ {"token", "function"}) \cup Page, "getTransfers")
           routes == <<list>> \o Count(Token \o <<"transfers">>, TransactionNames \ {"token"},
                                       "getTransfersCount")
<1>1. Fits(Under("token", list))
  BY UnderFits DEF Missable, Merging, RoleLists
<1>2. TokenTransfers = [i \in DOMAIN routes |-> Checked({"v3", "isToken"}, Under("token", routes[i]))]
  BY DEF TokenTransfers, Each
<1> QED  BY <1>1, <1>2, FitUnder DEF Missable, Merging, RoleLists

LEMMA TransferRoutesFit == Fit(TransferRoutes)
<1>1. PICK s : s = <<Get(<<"transfers">>, TransactionNames \cup Page, "getTransfers")>>
                   \o Count(<<"transfers">>, TransactionNames, "getTransfersCount")
  OBVIOUS
<1>2. Fit(s)
  BY <1>1, Fit1, FitConcat, FitCount, PlainFits DEF Missable, Merging, RoleLists
<1>3. TransferRoutes = [i \in DOMAIN s |-> Senders(s[i])]
  BY <1>1 DEF TransferRoutes, Each
<1> QED  BY <1>2, <1>3, FitEach

LEMMA CollectionItemsFit == Fit(CollectionItems)
<1>1. PICK s : s = <<Get(<<"collections">>, CollectionNames \cup Page, "getNftCollections")>>
                   \o Count(<<"collections">>, CollectionNames \ {"identifiers"}, "getNftCollectionCount")
  OBVIOUS
<1>2. Fit(s)
  BY <1>1, Fit1, FitConcat, FitCount, PlainFits DEF Missable, Merging, RoleLists
<1>3. CollectionItems = [i \in DOMAIN s |-> As("creator", "canCreate", s[i])]
                        \o <<OrNotFound(Get(Collection, {}, "getNftCollection"))>>
  BY <1>1 DEF CollectionItems, Each
<1> QED  BY <1>2, <1>3, FitEach, FitConcat, Fit1, NotFoundFits DEF Merging, RoleLists

LEMMA CollectionTransactionsFit == Fit(CollectionTransactions)
<1>1. PICK s : s = <<Under("token", Get(Collection \o <<"transactions">>,
                                        (TransactionNames \ {"token"}) \cup Page, "getTransactions")),
                     Under("token", Get(Collection \o <<"transactions", "count">>,
                                        TransactionNames \ {"token", "function"}, "getTransactionCount")),
                     OrNotFound(Get(Collection \o <<"logo", "png">>, {}, "getLogoPng")),
                     OrNotFound(Get(Collection \o <<"logo", "svg">>, {}, "getLogoSvg"))>>
  OBVIOUS
<1>2. Fit(s)
  BY <1>1, Fit4, UnderFits, NotFoundFits DEF Missable, Merging, RoleLists
<1>3. CollectionTransactions = [i \in DOMAIN s |-> Checked({"isCollection"}, s[i])]
  BY <1>1 DEF CollectionTransactions, Each
<1> QED  BY <1>2, <1>3, FitEach

LEMMA TokenTransactionsFit == Fit(TokenTransactions)
<1>1. PICK s : s = <<OrNotFound(Get(Token \o <<"accounts", "count">>, {}, "getTokenAccountsCount")),
                     Under("token", Get(Token \o <<"transactions">>,
                                        (TransactionNames \ {"token"}) \cup Page, "getTransactions")),
                     Under("token", Get(Token \o <<"transactions", "count">>,
                                        TransactionNames \ {"token", "function"}, "getTransactionCount"))>>
  OBVIOUS
<1>2. Fit(s)
  BY <1>1, Fit3, UnderFits, NotFoundFits DEF Missable, Merging, RoleLists
<1>3. TokenTransactions = [i \in DOMAIN s |-> Checked({"isToken"}, s[i])]
  BY <1>1 DEF TokenTransactions, Each
<1> QED  BY <1>2, <1>3, FitEach

(* Two routes that look for a missing item one like the other.             *)
LEMMA FitNotFound ==
  ASSUME NEW p, NEW q, NEW m, NEW n, {m, n} \cap (Merging \cup RoleLists) = {},
         NEW s, s = <<Get(p, {}, m), Get(q, {}, n)>>
  PROVE  Fit([i \in DOMAIN s |-> Checked({"isToken"}, OrNotFound(s[i]))])
<1>1. PICK T : T = {Get(p, {}, m), Get(q, {}, n)}
  OBVIOUS
<1>2. s \in Seq(T)
  BY <1>1
<1>3. \A r \in T : Fits(Checked({"isToken"}, OrNotFound(r)))
  BY <1>1, NotFoundFits, ChangedFits
<1>4. PICK t : t = [i \in DOMAIN s |-> Checked({"isToken"}, OrNotFound(s[i]))]
  OBVIOUS
<1>5. t = [i \in DOMAIN s |-> t[i]] /\ \A i \in DOMAIN s : Fits(t[i])
  BY <1>2, <1>3, <1>4
<1>6. Fit(t)
  BY <1>2, <1>5, FitMapped
<1> QED  BY <1>4, <1>6

LEMMA TokenRoleItemsFit == Fit(TokenRoleItems) /\ Fit(TokenLogos)
BY FitNotFound DEF TokenRoleItems, TokenLogos, Each, Merging, RoleLists

LEMMA TransactionsBatchRoutesFit == Fit(TransactionsBatchRoutes)
<1>1. PICK s : s = <<Post(<<"batch">>, "startTransactionBatch"),
                     OrNotFound(Get(<<"batch", "Any">>, {}, "getTransactionBatch")),
                     Get(<<"batch">>, {}, "getTransactionBatches")>>
  OBVIOUS
<1>2. Fit(s)
  BY <1>1, Fit3, PlainFits, NotFoundFits DEF Missable, Merging, RoleLists
<1>3. TransactionsBatchRoutes = [i \in DOMAIN s |-> Checked({"jwt"}, s[i])]
  BY <1>1 DEF TransactionsBatchRoutes, Each
<1> QED  BY <1>2, <1>3, FitEach

LEMMA TransferFieldsFit == Fit(TransferFields)
<1>1. PICK s : s = <<Field(<<"transfers">>, TransfersInput \cup Page,
                           (TransfersInput \ {"receiver", "search"}) \cup Page, "getTransfers"),
                     Field(<<"transfersCount">>, TransfersInput, TransfersInput \ {"search"},
                           "getTransfersCount")>>
  OBVIOUS
<1>2. Fit(s)
  BY <1>1, Fit2, FieldFits DEF Missable, Merging, RoleLists
<1>3. TransferFields = [i \in DOMAIN s |-> Checked({"v3"}, s[i])]
  BY <1>1 DEF TransferFields, Each
<1> QED  BY <1>2, <1>3, FitEach

(* The groups of fields.                                                     *)
LEMMA FieldsFit ==
  /\ Fit(TokenFields) /\ Fit(NftFields) /\ Fit(CollectionFields) /\ Fit(NodeFields)
  /\ Fit(TransactionFields) /\ Fit(TransactionCountField) /\ Fit(RoundFields)
  /\ Fit(BlockFields) /\ Fit(MiniBlockFields) /\ Fit(AccountFields) /\ Fit(AccountField)
  /\ Fit(UsernameField) /\ Fit(FiguresOfAccount) /\ Fit(AccountLists) /\ Fit(ProviderFields)
  /\ Fit(IdentityFields) /\ Fit(TagFields) /\ Fit(ShardField) /\ Fit(WaitingListFields)
  /\ Fit(NetworkFields) /\ Fit(FigureFields) /\ Fit(MexTokenFields) /\ Fit(MexPairFields)
  /\ Fit(MexFarmFields)
<1> USE Fit1, Fit2, Fit3, Fit4, Fit5, Fit6, Fit7, Fit8, Fit9, Fit10, Fit11, Fit12, FieldFits, NotFoundFits,
        CaughtFits DEF Missable, Merging, RoleLists
<1>1. Fit(TokenFields)
  BY DEF TokenFields
<1>2. Fit(NftFields)
  BY DEF NftFields
<1>3. Fit(CollectionFields)
  BY DEF CollectionFields
<1>4. Fit(NodeFields)
  BY DEF NodeFields
<1>5. Fit(TransactionFields)
  BY DEF TransactionFields
<1>6. Fit(TransactionCountField)
  BY DEF TransactionCountField
<1>7. Fit(RoundFields)
  BY DEF RoundFields
<1>8. Fit(BlockFields)
  BY DEF BlockFields
<1>9. Fit(MiniBlockFields)
  BY DEF MiniBlockFields
<1>10. Fit(AccountFields)
  BY DEF AccountFields
<1>11. Fit(AccountField)
  BY DEF AccountField
<1>12. Fit(UsernameField)
  BY DEF UsernameField
<1>13. Fit(FiguresOfAccount)
  BY DEF FiguresOfAccount
<1>14. Fit(AccountLists)
  BY DEF AccountLists
<1>15. Fit(ProviderFields)
  BY DEF ProviderFields
<1>16. Fit(IdentityFields)
  BY DEF IdentityFields
<1>17. Fit(TagFields)
  BY DEF TagFields
<1>18. Fit(ShardField)
  BY DEF ShardField
<1>19. Fit(WaitingListFields)
  BY DEF WaitingListFields
<1>20. Fit(NetworkFields)
  BY DEF NetworkFields
<1>21. Fit(FigureFields)
  BY DEF FigureFields
<1>22. Fit(MexTokenFields)
  BY DEF MexTokenFields
<1>23. Fit(MexPairFields)
  BY DEF MexPairFields
<1>24. Fit(MexFarmFields)
  BY DEF MexFarmFields
<1> QED  BY <1>1, <1>2, <1>3, <1>4, <1>5, <1>6, <1>7, <1>8, <1>9, <1>10, <1>11, <1>12,
            <1>13, <1>14, <1>15, <1>16, <1>17, <1>18, <1>19, <1>20, <1>21,
            <1>22, <1>23, <1>24

(* Every route and every field fits its service.                           *)
LEMMA TableFits == Fit(Table)
<1> USE FitConcat, FitEmpty
<1>1. Fit(AccountRoutes)
  BY RoutesFit, AccountTokensFit, AccountRolesFit, AccountTransfersFit DEF AccountRoutes
<1>2. Fit(CollectionRoutes) /\ Fit(NftRoutes)
  BY RoutesFit, CollectionItemsFit, CollectionNftsFit, CollectionTransactionsFit, NftTransactionsFit
     DEF CollectionRoutes, NftRoutes
<1>3. Fit(ProxyRoutes)
  BY RoutesFit, ProxyAddressFit DEF ProxyRoutes
<1>4. Fit(TokenRoutes) /\ Fit(TransactionRoutes)
  BY RoutesFit, TokenTransactionsFit, TokenRoleItemsFit, TokenTransfersFit
     DEF TokenRoutes, TransactionRoutes
<1>5. Fit(IF Marketplace THEN MarketplaceRoutes ELSE << >>)
  BY RoutesFit
<1>6. Fit(IF Exchange THEN MexItems \o MexOldItems ELSE << >>)
  BY RoutesFit
<1>7. Fit(AllRoutes(Marketplace, Exchange))
  BY <1>1, <1>2, <1>3, <1>4, <1>5, <1>6, RoutesFit, TransferRoutesFit, TransactionsBatchRoutesFit
     DEF AllRoutes
<1>8. Fit(AllFields)
  BY FieldsFit, TransferFieldsFit, ResultFieldsFit DEF AllFields
<1> QED  BY <1>7, <1>8 DEF Table

-----------------------------------------------------------------------------
(* The steps of a request                                                  *)

(* What a path is made of: literals, and segments of a format.             *)
IsSegment(s) == s[1] = "" \/ \E f \in DOMAIN Segments : s \in Segments[f]

(* What the stages have established: the segments of the path, that the    *)
(* route matches it, and that its pipes let it through.                    *)
Staged ==
  /\ asked \in DOMAIN Table /\ route \in {0} \cup DOMAIN Table
  /\ stage \in {"received", "routed", "parsed", "answered"}
  /\ request.v3 \in BOOLEAN /\ \A i \in DOMAIN request.path : IsSegment(request.path[i])
  /\ stage # "received" => route \in DOMAIN Table /\ Matches(Table[route], request)
  /\ stage = "parsed" => request.verb = "QUERY" \/ WellFormed(Table[route], request)
  /\ stage # "answered" => reply = Unanswered
  /\ stage = "answered" =>
       \E status \in {"200", "nothing", "400", "401", "404", "500", "501"} : \E items :
         reply = Answered(status, items)

IInv == Staged /\ MissingIsNotFound

(* The address in a path that the pipes let through.                       *)
LEMMA AddressGiven ==
  ASSUME NEW r, NEW req, DOMAIN r.path = DOMAIN req.path, WellFormed(r, req),
         \A i \in DOMAIN req.path : IsSegment(req.path[i]),
         \E i \in DOMAIN r.path : r.path[i] = "Address"
  PROVE  AddressOf(r, req) # None
<1> DEFINE at == {i \in DOMAIN r.path : r.path[i] = "Address"}
<1>1. PICK k : k \in at /\ AddressOf(r, req) = req.path[k][2]
  BY DEF AddressOf
<1>2. IsParameter(r.path[k]) /\ Formats["Address"] = {"address"}
  BY <1>1 DEF IsParameter, Formats
<1>3. req.path[k][1] = "address"
  BY <1>1, <1>2 DEF WellFormed
<1>4. PICK f \in DOMAIN Segments : req.path[k] \in Segments[f]
  BY <1>1, <1>3 DEF IsSegment
<1> QED  BY <1>1, <1>4, SegmentsAssumption

(* The reply of a route that fits to a request that the pipes let through. *)
LEMMA ReplyFits ==
  ASSUME NEW r, Fits(r), NEW req, req.v3 \in BOOLEAN,
         r.verb = "QUERY" \/ WellFormed(r, req), DOMAIN r.path = DOMAIN req.path,
         \A i \in DOMAIN req.path : IsSegment(req.path[i])
  PROVE  \E status \in {"200", "nothing", "400", "404", "500", "501"} : \E items :
           /\ Reply(r, req) = Answered(status, items)
           /\ ~PassedOn(r, req) => status \notin {"nothing", "500"}
<1> DEFINE q == QueryOf(r, req)
           a == Answer(r.method, q)
<1>1. CASE FailedCheck(r, req) # ""
  <2>1. FailedCheck(r, req) \in {"501", "404"}
    BY <1>1 DEF FailedCheck
  <2> QED  BY <1>1, <2>1 DEF Reply
<1>2. CASE FailedCheck(r, req) = ""
  <2>1. Reply(r, req) = Rendered(r, a)
    BY <1>2 DEF Reply
  <2>2. Allowed(r.method, q, a)
    BY AnswerAllowed
  <2>3. q.v3 = req.v3 /\ (r.under = "" => q.address = AddressOf(r, req))
    BY DEF QueryOf
  <2> HIDE DEF q, a
  <2>4. CASE a.kind = "items"
    <3>1. Reply(r, req) = Answered("200", a.items)
      BY <2>1, <2>4 DEF Rendered
    <3> QED  BY <3>1
  <2>5. CASE a.kind = "missing"
    <3>1. Reply(r, req) = Answered(IF r.missing = "200" THEN "nothing" ELSE r.missing, {})
      BY <2>1, <2>5 DEF Rendered
    <3>2. r.missing \in {"200", "404"} /\ (r.missing = "200" => PassedOn(r, req))
      BY <2>2, <2>5 DEF Allowed, Fits, IsRoute, MayBeNull, PassedOn
    <3> QED  BY <3>1, <3>2
  <2>6. CASE a.kind = "refused"
    <3>1. Reply(r, req) = Answered("400", {})
      BY <2>1, <2>6 DEF Rendered
    <3> QED  BY <3>1
  <2>7. CASE a.kind = "throws"
    <3>1. Reply(r, req) = Answered(IF r.thrown = "empty" THEN "200" ELSE r.thrown, {})
      BY <2>1, <2>7 DEF Rendered
    <3>2. r.thrown \in {"400", "404", "500", "empty"}
      BY DEF Fits, IsRoute
    <3>3. ASSUME r.thrown = "500"
          PROVE  PassedOn(r, req)
      <4>1. CASE r.method \in Merging
        BY <3>3, <4>1 DEF Fits, MayBeNull, PassedOn
      <4>2. CASE r.method \notin Merging
        <5>1. r.method \in RoleLists /\ req.v3 /\ (q.address # None => UntimedCollection(q.address))
          BY <2>2, <2>3, <2>7, <4>2 DEF Allowed
        <5>2. r.verb = "GET" /\ r.under = "" /\ \E i \in DOMAIN r.path : r.path[i] = "Address"
          BY <5>1 DEF Fits
        <5>3. AddressOf(r, req) # None
          BY <5>2, AddressGiven
        <5> QED  BY <2>3, <5>1, <5>2, <5>3 DEF UntimedCollection, PassedOn, RoleLists
      <4> QED  BY <4>1, <4>2
    <3> QED  BY <3>1, <3>2, <3>3
  <2> QED  BY <2>2, <2>4, <2>5, <2>6, <2>7 DEF Allowed
<1> QED  BY <1>1, <1>2

(* The initial states: the paths that a client may ask for are segments.   *)
LEMMA InitStaged == Init => IInv
<1> SUFFICES ASSUME Init
             PROVE  IInv
  OBVIOUS
<1>1. \A i \in DOMAIN request.path : IsSegment(request.path[i])
  <2>1. PICK path \in Paths(Table[asked]) : request.path = path
    BY DEF Init
  <2>2. ASSUME NEW i \in DOMAIN path
        PROVE  IsSegment(path[i])
    <3> DEFINE p == Table[asked].path[i]
    <3>1. \/ IsParameter(p) /\ path[i] \in UNION {Segments[f] : f \in Formats[p]}
          \/ IsParameter(p) /\ path[i] \in Segments["word"]
          \/ path[i] = <<"", p>>
      BY <2>1, <2>2 DEF Paths
    <3>2. ASSUME NEW x \in DOMAIN Formats, NEW f \in Formats[x]
          PROVE  f \in DOMAIN Segments
      <4>1. f \in UNION {Formats[y] : y \in DOMAIN Formats}
        OBVIOUS
      <4> QED  BY <4>1, SegmentsAssumption
    <3>3. "word" \in DOMAIN Segments
      BY <3>2 DEF Formats
    <3>4. CASE IsParameter(p) /\ path[i] \in UNION {Segments[f] : f \in Formats[p]}
      <4>1. PICK f \in Formats[p] : path[i] \in Segments[f]
        BY <3>4
      <4> QED  BY <3>2, <3>4, <4>1 DEF IsSegment, IsParameter
    <3>5. CASE IsParameter(p) /\ path[i] \in Segments["word"]
      BY <3>3, <3>5 DEF IsSegment
    <3>6. CASE path[i] = <<"", p>>
      <4>1. \A x : IsSegment(<<"", x>>)
        BY DEF IsSegment
      <4> HIDE DEF p
      <4> QED  BY <3>6, <4>1
    <3> QED  BY <3>1, <3>4, <3>5, <3>6
  <2> QED  BY <2>1, <2>2
<1> QED  BY <1>1 DEF Init, IInv, Staged, MissingIsNotFound

(* Each step moves a request to its next stage, and only Handle replies    *)
(* with what the route makes of an answer.                                 *)
LEMMA NextStaged == IInv /\ [Next]_vars => IInv'
<1> SUFFICES ASSUME IInv, [Next]_vars
             PROVE  IInv'
  OBVIOUS
<1> USE DEF IInv, Staged
<1>1. CASE Dispatch
  <2>1. PICK i \in DOMAIN Table : Matches(Table[i], request) /\ route' = i
    BY <1>1 DEF Dispatch
  <2>2. stage = "received" /\ stage' = "routed" /\ request' = request /\ asked' = asked /\ reply' = reply
    BY <1>1 DEF Dispatch
  <2>3. Staged'
    BY <2>1, <2>2
  <2> QED  BY <2>2, <2>3 DEF MissingIsNotFound
<1>2. CASE Parse
  <2>1. stage = "routed" /\ request' = request /\ asked' = asked /\ route' = route
    BY <1>2 DEF Parse
  <2>2. CASE stage' = "parsed" /\ reply' = reply
    <3>1. request.verb = "QUERY" \/ WellFormed(Table[route], request)
      BY <1>2, <2>2 DEF Parse
    <3>2. Staged'
      BY <2>1, <2>2, <3>1
    <3> QED  BY <2>2, <3>2 DEF MissingIsNotFound
  <2>3. CASE stage' = "answered" /\ reply' = Answered("400", {})
    <3>1. Staged'
      BY <2>1, <2>3
    <3> QED  BY <2>3, <3>1 DEF MissingIsNotFound, Answered
  <2> QED  BY <1>2, <2>2, <2>3 DEF Parse
<1>3. CASE Handle
  <2>1. /\ stage = "parsed" /\ stage' = "answered" /\ reply' = Reply(Table[route], request)
        /\ request' = request /\ asked' = asked /\ route' = route
    BY <1>3 DEF Handle
  <2>2. Fits(Table[route])
    BY <2>1, TableFits DEF Fit
  <2>3. PICK status \in {"200", "nothing", "400", "404", "500", "501"} :
          /\ \E items : reply' = Answered(status, items)
          /\ ~PassedOn(Table[route], request) => status \notin {"nothing", "500"}
    <3>1. PICK r : r = Table[route]
      OBVIOUS
    <3>2. /\ Fits(r) /\ DOMAIN r.path = DOMAIN request.path
          /\ r.verb = "QUERY" \/ WellFormed(r, request)
      BY <2>1, <2>2, <3>1 DEF Matches
    <3>3. \E status \in {"200", "nothing", "400", "404", "500", "501"} : \E items :
            /\ Reply(r, request) = Answered(status, items)
            /\ ~PassedOn(r, request) => status \notin {"nothing", "500"}
      BY <3>2, ReplyFits
    <3> QED  BY <2>1, <3>1, <3>3
  <2>4. Staged'
    BY <2>1, <2>3
  <2>5. reply'.status = status
    BY <2>3 DEF Answered
  <2>6. PassedOn(Taken, request)' = PassedOn(Table[route], request)
    BY <2>1 DEF PassedOn, Taken, AddressOf
  <2> QED  BY <2>1, <2>3, <2>4, <2>5, <2>6 DEF MissingIsNotFound
<1>4. CASE Refuse
  <2>1. /\ stage = "parsed" /\ stage' = "answered"
        /\ request' = request /\ asked' = asked /\ route' = route
    BY <1>4 DEF Refuse
  <2>2. PICK status \in {"400", "401"} : reply' = Answered(status, {})
    BY <1>4 DEF Refuse
  <2>3. Staged'
    BY <2>1, <2>2
  <2> QED  BY <2>1, <2>2, <2>3 DEF MissingIsNotFound, Answered
<1>5. CASE UNCHANGED vars
  BY <1>5 DEF vars, MissingIsNotFound, Taken, PassedOn, AddressOf
<1> QED  BY <1>1, <1>2, <1>3, <1>4, <1>5 DEF Next

(* The stages give the types.                                              *)
LEMMA StagedTyped == IInv => TypeOK
<1> SUFFICES ASSUME IInv
             PROVE  TypeOK
  OBVIOUS
<1>1. CASE stage = "answered"
  <2>1. PICK status \in {"200", "nothing", "400", "401", "404", "500", "501"} :
          \E items : reply = Answered(status, items)
    BY <1>1 DEF IInv, Staged
  <2>2. reply.status = status /\ Unanswered.status = ""
    BY <2>1 DEF Answered, Unanswered
  <2> QED  BY <1>1, <2>2 DEF IInv, Staged, TypeOK
<1>2. CASE stage # "answered"
  BY <1>2 DEF IInv, Staged, TypeOK
<1> QED  BY <1>1, <1>2

-----------------------------------------------------------------------------
(* The inductive invariant: the route a request was given takes it, its    *)
(* segments are of their formats once parsed, and its reply is one of the  *)
(* statuses that the route has, none of them an empty body or an error of  *)
(* the server unless the handler passes the answer on.                     *)
THEOREM Invariant == Spec => []IInv
<1> QED  BY InitStaged, NextStaged, PTL DEF Spec

(* A request is unanswered until its last stage, where its reply has one   *)
(* of the API's statuses (the guards, pipes and handlers of every          *)
(* controller and resolver).                                               *)
THEOREM TypeCorrect == Spec => []TypeOK
<1> QED  BY Invariant, StagedTyped, PTL

(* Whatever is stored, an answer that is missing and a call that throws    *)
(* become the 404 or 400 of their route: the controllers' checks for       *)
(* undefined and their try/catch leave out only the routes of PassedOn.    *)
THEOREM MissingNotFound == Spec => []MissingIsNotFound
<1>1. IInv => MissingIsNotFound
  BY DEF IInv
<1> QED  BY <1>1, Invariant, PTL

=============================================================================
