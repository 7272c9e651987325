------------------------ MODULE KeybaseConfirmation ------------------------
(***************************************************************************)
(* Which nodes and providers have a confirmed identity.  A node (in its     *)
(* heartbeat) and a provider (in its metadata) claim an identity; the       *)
(* identity vouches for them by listing their keys in a file on GitHub or   *)
(* on its page at keybase.pub.  One cron of the cache warmer reads these    *)
(* lists into Redis, and into a database that stands in for a list that is  *)
(* gone; another one combines them with the claims into the cached keybases *)
(* that nodes, providers and identities are computed from.                  *)
(*                                                                          *)
(* Each cron holds a lock, so it does not overlap itself.  A step is the    *)
(* code between two awaits.                                                 *)
(***************************************************************************)
EXTENDS Naturals

CONSTANTS
    Bls,         \* the keys of the nodes
    Provider,    \* the addresses of the providers
    Identity,
    MaxChanges,  \* how often the world outside changes (a bound)
    None         \* null or undefined

Keybase == Bls \cup Provider

ASSUME KeybaseAssumption ==
    /\ Bls \cap Provider = {} /\ None \notin Keybase \cup Identity
    /\ MaxChanges \in Nat

\* A key's identity, if it has one, and an identity's keys, if it has a list.
Claim == Identity \cup {None}
NoList == {None}
List == (SUBSET Keybase) \cup {NoList}

\* The runs of the two crons: what they read and have not used yet.  "github" and
\* "keybase.pub" are the two attempts to read an identity's list.
PubRun == [pc : {"idle", "heartbeat", "database", "files", "github", "keybase.pub"},
           phase : {"database", "files"},
           todo : SUBSET Identity,     \* the distinct identities still to look at
           identity : Claim,           \* the one whose list is read
           keys : List]                \* the list, until it is saved
CacheRun == [pc : {"idle", "heartbeat", "confirmations", "save"},
             keybases : [Keybase -> Claim]]

NoKeybases == [k \in Keybase |-> None]
PubIdle == [pc |-> "idle", phase |-> "database", todo |-> {}, identity |-> None,
            keys |-> NoList]
CacheIdle == [pc |-> "idle", keybases |-> NoKeybases]

VARIABLES
    claim,     \* what heartbeat and provider metadata say of each key
    file,      \* the keys in an identity's file on GitHub
    page,      \* the keys on an identity's page at keybase.pub
    changes,   \* how often these changed
    database,  \* Mongo: the confirmed keys of each identity
    confirmed, \* Redis: the keys k with keybase:<k>
    keybases,  \* Redis: keybases, the identity of a key that is confirmed
    pub,       \* the run of handleKeybaseAgainstKeybasePubInvalidations
    cached,    \* the run of handleKeybaseAgainstCacheInvalidations
    claimed,   \* history: the <<key, identity>> that were claimed
    vouched    \* history: the keys that were listed

world == <<claim, file, page, changes, claimed, vouched>>
vars == <<world, database, confirmed, keybases, pub, cached>>

TypeOK ==
    /\ claim \in [Keybase -> Claim]
    /\ file \in [Identity -> List] /\ page \in [Identity -> List]
    /\ changes \in 0..MaxChanges
    /\ claimed \subseteq Keybase \X Identity /\ vouched \subseteq Keybase
    /\ database \in [Identity -> List] /\ confirmed \subseteq Keybase
    /\ keybases \in [Keybase -> Claim]
    /\ pub \in PubRun /\ cached \in CacheRun
    /\ pub.pc \in {"github", "keybase.pub"} => pub.identity # None
    /\ pub.keys # NoList => pub.pc \in {"github", "keybase.pub"}

Init ==
    /\ claim = NoKeybases /\ changes = 0
    /\ file = [i \in Identity |-> NoList] /\ page = file /\ database = file
    /\ claimed = {} /\ vouched = {} /\ confirmed = {} /\ keybases = NoKeybases
    /\ pub = PubIdle /\ cached = CacheIdle

Identities(keys) == {claim[k] : k \in keys} \ {None}

----------------------------------------------------------------------------
(* The world outside *)

Change == changes < MaxChanges /\ changes' = changes + 1

ChangeClaim(k, i) ==
    /\ Change /\ i # claim[k]
    /\ claim' = [claim EXCEPT ![k] = i]
    /\ claimed' = claimed \cup ({<<k, i>>} \cap (Keybase \X Identity))
    /\ UNCHANGED <<file, page, vouched, database, confirmed, keybases, pub, cached>>

\* An identity's file or page is written, or removed.
ChangeFile(i, keys) ==
    /\ Change /\ keys # file[i]
    /\ file' = [file EXCEPT ![i] = keys]
    /\ vouched' = vouched \cup (keys \ NoList)
    /\ UNCHANGED <<claim, page, claimed, database, confirmed, keybases, pub, cached>>

ChangePage(i, keys) ==
    /\ Change /\ keys # page[i]
    /\ page' = [page EXCEPT ![i] = keys]
    /\ vouched' = vouched \cup (keys \ NoList)
    /\ UNCHANGED <<claim, file, claimed, database, confirmed, keybases, pub, cached>>

\* Redis is replaced by an empty one.
FlushRedis ==
    /\ Change
    /\ confirmed' = {} /\ keybases' = NoKeybases
    /\ UNCHANGED <<claim, file, page, claimed, vouched, database, pub, cached>>

\* Six months pass without a renewal.
ExpireConfirmation(k) ==
    /\ k \in confirmed /\ k \notin pub.keys
    /\ \A i \in Identities(Keybase) : k \notin file[i] \cup page[i] \cup database[i]
    /\ confirmed' = confirmed \ {k}
    /\ UNCHANGED <<world, database, keybases, pub, cached>>

----------------------------------------------------------------------------
(* Keybases against the database, then against GitHub or keybase.pub *)

\* getDistinctIdentities: the providers' identities ...
GetProvidersKeybases ==
    /\ \/ pub.pc = "idle" /\ pub' = [PubIdle EXCEPT !.pc = "heartbeat",
                                                    !.todo = Identities(Provider)]
       \/ pub.pc = "database" /\ pub.todo = {}
          /\ pub' = [PubIdle EXCEPT !.pc = "heartbeat", !.phase = "files",
                                    !.todo = Identities(Provider)]
    /\ UNCHANGED <<world, database, confirmed, keybases, cached>>

\* ... and the nodes'.
GetNodesKeybases ==
    /\ pub.pc = "heartbeat"
    /\ pub' = [pub EXCEPT !.pc = pub.phase, !.todo = @ \cup Identities(Bls)]
    /\ UNCHANGED <<world, database, confirmed, keybases, cached>>

Confirm(keys) == confirmed' = confirmed \cup (keys \ NoList)

\* Mutant: the keys are read, and not confirmed.
ConfirmAgainstDatabaseDry(i) ==
    /\ pub.pc = "database" /\ i \in pub.todo
    /\ pub' = [pub EXCEPT !.todo = @ \ {i}]
    /\ UNCHANGED <<world, database, confirmed, keybases, cached>>

ConfirmAgainstDatabase(i) ==
    /\ pub.pc = "database" /\ i \in pub.todo
    /\ Confirm(database[i])
    /\ pub' = [pub EXCEPT !.todo = @ \ {i}]
    /\ UNCHANGED <<world, database, keybases, cached>>

\* The database cannot be read: the next identity.
DatabaseError(i) ==
    /\ pub.pc = "database" /\ i \in pub.todo
    /\ pub' = [pub EXCEPT !.todo = @ \ {i}]
    /\ UNCHANGED <<world, database, confirmed, keybases, cached>>

\* The next identity: its file on GitHub is tried first.
NextIdentity(i) ==
    /\ pub.pc = "files" /\ i \in pub.todo
    /\ pub' = [pub EXCEPT !.pc = "github", !.todo = @ \ {i}, !.identity = i]
    /\ UNCHANGED <<world, database, confirmed, keybases, cached>>

Reading(source) == pub.pc = source /\ pub.keys = NoList

ReadKeys(keys) ==
    /\ keys # NoList
    /\ Confirm(keys)
    /\ pub' = [pub EXCEPT !.keys = keys]
    /\ UNCHANGED <<world, database, keybases, cached>>

\* Mutant: the keys stay.
NoKeysKept(pc) ==
    /\ pub' = [pub EXCEPT !.pc = pc, !.identity = IF pc = "files" THEN None ELSE @]
    /\ UNCHANGED <<world, database, confirmed, keybases, cached>>

\* The attempt is over: without a list, or because it failed on the way.
NoKeys(pc) ==
    /\ pub' = [pub EXCEPT !.pc = pc, !.keys = NoList,
                          !.identity = IF pc = "files" THEN None ELSE @]
    /\ UNCHANGED <<world, database, confirmed, keybases, cached>>

ConfirmAgainstGithub == Reading("github") /\ ReadKeys(file[pub.identity])
\* Mutant: without a file, the page is not tried.
NoFileEnds == Reading("github") /\ file[pub.identity] = NoList /\ NoKeys("files")
NoFile == Reading("github") /\ file[pub.identity] = NoList /\ NoKeys("keybase.pub")
ConfirmAgainstKeybasePub == Reading("keybase.pub") /\ ReadKeys(page[pub.identity])
NoPage == Reading("keybase.pub") /\ page[pub.identity] = NoList /\ NoKeys("files")

\* An error at GitHub, or when the keys are saved, leads to keybase.pub; one at
\* keybase.pub to another try, up to the third.
GithubError == pub.pc = "github" /\ NoKeys("keybase.pub")
KeybasePubError == pub.pc = "keybase.pub" /\ (NoKeys("keybase.pub") \/ NoKeys("files"))

\* Mutant: the keys are added.
SetKeybaseConfirmationMerged ==
    /\ pub.pc \in {"github", "keybase.pub"} /\ pub.keys # NoList
    /\ database' = [database EXCEPT ![pub.identity] = (@ \ NoList) \cup pub.keys]
    /\ pub' = [pub EXCEPT !.pc = "files", !.identity = None, !.keys = NoList]
    /\ UNCHANGED <<world, confirmed, keybases, cached>>

\* The keys replace those in the database.
SetKeybaseConfirmation ==
    /\ pub.pc \in {"github", "keybase.pub"} /\ pub.keys # NoList
    /\ database' = [database EXCEPT ![pub.identity] = pub.keys]
    /\ pub' = [pub EXCEPT !.pc = "files", !.identity = None, !.keys = NoList]
    /\ UNCHANGED <<world, confirmed, keybases, cached>>

\* The profiles of the identities follow, and the cron against the cache.
PubEnds ==
    /\ pub.pc = "files" /\ pub.todo = {}
    /\ pub' = PubIdle
    /\ UNCHANGED <<world, database, confirmed, keybases, cached>>

PubStep ==
    \/ GetProvidersKeybases \/ GetNodesKeybases
    \/ \E i \in Identity : ConfirmAgainstDatabase(i) \/ NextIdentity(i)
    \/ ConfirmAgainstGithub \/ NoFile \/ ConfirmAgainstKeybasePub \/ NoPage
    \/ SetKeybaseConfirmation \/ PubEnds

----------------------------------------------------------------------------
(* Keybases against the cache *)

Only(keys, f) == [k \in Keybase |-> IF k \in keys THEN f[k] ELSE None]

\* confirmKeybasesAgainstCache: the claims of the providers ...
ReadProviderClaims ==
    /\ cached.pc = "idle"
    /\ cached' = [pc |-> "heartbeat", keybases |-> Only(Provider, claim)]
    /\ UNCHANGED <<world, database, confirmed, keybases, pub>>

\* Mutant: a node without a claim keeps the one it was shown with.
ReadNodeClaimsKept ==
    /\ cached.pc = "heartbeat"
    /\ cached' = [pc |-> "confirmations",
                  keybases |-> [k \in Keybase |->
                                  CASE k \notin Bls -> cached.keybases[k]
                                    [] claim[k] = None -> keybases[k]
                                    [] OTHER -> claim[k]]]
    /\ UNCHANGED <<world, database, confirmed, keybases, pub>>

\* ... and of the nodes ...
ReadNodeClaims ==
    /\ cached.pc = "heartbeat"
    /\ cached' = [pc |-> "confirmations",
                  keybases |-> [k \in Keybase |->
                                  IF k \in Bls THEN claim[k] ELSE cached.keybases[k]]]
    /\ UNCHANGED <<world, database, confirmed, keybases, pub>>

\* Mutant: a key without a confirmation counts too.
ReadConfirmationsLenient ==
    /\ cached.pc = "confirmations"
    /\ cached' = [cached EXCEPT !.pc = "save"]
    /\ UNCHANGED <<world, database, confirmed, keybases, pub>>

\* ... of which those with a confirmed key count, whoever listed it.
ReadConfirmations ==
    /\ cached.pc = "confirmations"
    /\ cached' = [pc |-> "save", keybases |-> Only(confirmed, cached.keybases)]
    /\ UNCHANGED <<world, database, confirmed, keybases, pub>>

InvalidateKeybases ==
    /\ cached.pc = "save"
    /\ keybases' = cached.keybases
    /\ cached' = CacheIdle
    /\ UNCHANGED <<world, database, confirmed, pub>>

CacheStep ==
    ReadProviderClaims \/ ReadNodeClaims \/ ReadConfirmations \/ InvalidateKeybases

----------------------------------------------------------------------------

\* A run throws, or the warmer restarts.
Fail ==
    /\ \/ pub # PubIdle /\ pub' = PubIdle /\ UNCHANGED cached
       \/ cached # CacheIdle /\ cached' = CacheIdle /\ UNCHANGED pub
    /\ UNCHANGED <<world, database, confirmed, keybases>>

Faults ==
    \/ Fail \/ GithubError \/ KeybasePubError
    \/ \E i \in Identity : DatabaseError(i)

World ==
    \/ \E k \in Keybase, i \in Claim : ChangeClaim(k, i)
    \/ \E i \in Identity, keys \in List : ChangeFile(i, keys) \/ ChangePage(i, keys)
    \/ FlushRedis

Next ==
    \/ World
    \/ \E k \in Keybase : ExpireConfirmation(k)
    \/ PubStep \/ CacheStep \/ Faults

Spec == Init /\ [][Next]_vars

----------------------------------------------------------------------------
(* Properties *)

\* A key is shown with an identity only if it claimed that identity, and an identity's
\* list held the key, at some time: whatever the claims and lists were when each await
\* of the two crons returned.
KeybasesWereVouched ==
    \A k \in Keybase :
       keybases[k] # None => <<k, keybases[k]>> \in claimed /\ k \in vouched

\* Both crons run again and again, and six months without a renewal pass.  Errors with
\* an effect, that is, steps that no cron takes without an error, end.
FairSpec ==
    /\ Spec
    /\ WF_vars(PubStep) /\ WF_vars(CacheStep)
    /\ \A k \in Keybase : WF_vars(ExpireConfirmation(k))
    /\ <>[][~(Faults /\ ~PubStep /\ ~CacheStep)]_vars

\* What an identity lists: in its file, or else on its page.
Listed(i) == IF file[i] = NoList THEN page[i] ELSE file[i]

\* A key that claims an identity which lists it is in the end shown with it for good.
ListedClaimIsShown ==
    \A k \in Keybase, i \in Identity :
       <>[](claim[k] = i /\ k \in Listed(i)) => <>[](keybases[k] = i)

\* A key that no longer claims an identity is in the end shown without one.
WithdrawnClaimIsDropped ==
    \A k \in Keybase : <>[](claim[k] = None) => <>[](keybases[k] = None)

\* A key that no claimed identity lists any more is in the end shown without one,
\* as long as each of these identities has a list.
UnlistedClaimIsDropped ==
    \A k \in Keybase :
       <>[](\A i \in Identities(Keybase) :
               Listed(i) # NoList /\ k \notin file[i] \cup page[i])
          => <>[](keybases[k] = None)

\* An identity that removes its file and its page keeps its keys: they are confirmed
\* from the database, also in an empty Redis.
DatabaseStandsIn ==
    \A k \in Keybase, i \in Identity :
       <>[](claim[k] = i /\ Listed(i) = NoList /\ k \in database[i])
          => <>[](keybases[k] = i)

=============================================================================
