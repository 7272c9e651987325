----------------------------- MODULE NodeOwners -----------------------------
(***************************************************************************)
(* Who owns a node.  The node warmer asks the contracts for the owner of   *)
(* each key, and Redis keeps the answers for a day under the epoch they    *)
(* were read in.  When a validator merges its keys into a staking provider *)
(* the transaction processor deletes the owners of the sender's keys, which *)
(* it finds in its own copy of the nodes.                                  *)
(*                                                                         *)
(* A step of the warmer or of the processor is the code between two awaits. *)
(***************************************************************************)
EXTENDS Naturals, FiniteSets

CONSTANTS
    Bls,          \* the keys of the validator nodes
    Wallet,       \* addresses of validators
    Provider,     \* delegation contracts
    Validator,    \* who owns each key at first
    OwnerOf,      \* the wallet that owns a delegation contract
    MaxEpoch,     \* how many epochs start (a bound)
    Expiring,     \* the keys whose cached owners expire (a bound)
    None          \* null or undefined

ASSUME OwnersAssumption ==
    /\ Wallet \cap Provider = {} /\ None \notin Wallet \cup Provider
    /\ Validator \in [Bls -> Wallet \cup Provider]
    /\ OwnerOf \in [Provider -> Wallet]
    /\ MaxEpoch \in Nat /\ Expiring \subseteq Bls

Address == Wallet \cup Provider
Epoch == 0..MaxEpoch
Found == [Bls -> Address \cup {None}]

\* What the API shows of a node.
Node == [owner : Address \cup {None}, provider : Provider \cup {None}]

NoneFound == [n \in Bls |-> None]

\* Mutant: the owner is taken for a provider.
NodeOfProvider(address) == [owner |-> address, provider |-> address]

\* A validator whose owner is a provider is shown with the provider's owner.
NodeOf(address) ==
    IF address \in Provider THEN [owner |-> OwnerOf[address], provider |-> address]
    ELSE [owner |-> address, provider |-> None]

Warmer == [pc : {"idle", "cached", "owner", "blses", "nodes"},
           epoch : Epoch,
           cached : Found,               \* Redis's answers
           todo : SUBSET Bls,            \* missing ones, still to be asked for
           key : Bls \cup {None},        \* asked for, with its owner
           owner : Address \cup {None},
           owners : Found]               \* the contracts' answers

Resting == [pc |-> "idle", epoch |-> 0, cached |-> NoneFound, todo |-> {}, key |-> None,
            owner |-> None, owners |-> NoneFound]

Processor == [pc : {"idle", "epoch", "delete"},
              sender : Wallet \cup {None},
              mine : SUBSET Bls,         \* its keys, in the processor's copy of the nodes
              keys : SUBSET (Epoch \X Bls)]

Waiting == [pc |-> "idle", sender |-> None, mine |-> {}, keys |-> {}]

VARIABLES
    owner,     \* the contracts: the owner of each key
    before,    \* ... and as it was when the round began: VM answers are cached that long
    epochs,    \* the epochs of the shards' latest blocks
    merges,    \* senders of merge transactions that are not yet processed
    cache,     \* Redis: owner:<epoch>:<bls>
    nodes,     \* Redis: nodes
    local,     \* the transaction processor's own copy of the nodes
    warmer,    \* the run of handleNodeInvalidations
    auctions,  \* the nodes that handleNodeAuctionInvalidations is adding auctions to
    processor, \* the run of onTransactionsReceived
    excused,   \* history: the entries of cache that were wrong when they were cached
    turned     \* history: senders of merges that were pending when the epoch changed

chainVars == <<owner, before, epochs, turned>>
vars == <<chainVars, merges, cache, nodes, local, warmer, auctions, processor, excused>>

TypeOK ==
    /\ owner \in [Bls -> Address] /\ before \in [Bls -> Address]
    /\ epochs \subseteq Epoch
    /\ merges \subseteq Wallet
    /\ cache \in [Epoch -> Found]
    /\ nodes \in [Bls -> Node] /\ local \in [Bls -> Node]
    /\ auctions \in [Bls -> Node] \cup {None}
    /\ warmer \in Warmer /\ processor \in Processor
    /\ excused \subseteq Epoch \X Bls
    /\ turned \subseteq Wallet

Init ==
    /\ owner = Validator /\ before = Validator
    /\ epochs = {0} /\ merges = {}
    /\ cache = [e \in Epoch |-> NoneFound]
    /\ nodes = [n \in Bls |-> NodeOf(Validator[n])] /\ local = nodes
    /\ auctions = None /\ warmer = Resting /\ processor = Waiting
    /\ excused = {} /\ turned = {}

----------------------------------------------------------------------------
(* The chain *)

\* The shards, or a run of the warmer, are not all in the same epoch.
EpochChanges ==
    \/ \E e \in epochs : epochs # {e}
    \/ warmer.pc # "idle" /\ warmer.epoch \notin epochs

\* mergeValidatorToDelegationWithWhitelist: all keys of a go to provider p.
Merge(a, p) ==
    /\ \E n \in Bls : owner[n] = a
    /\ owner' = [n \in Bls |-> IF owner[n] = a THEN p ELSE owner[n]]
    /\ merges' = merges \cup {a}
    /\ turned' = IF EpochChanges THEN turned \cup {a} ELSE turned
    /\ UNCHANGED <<before, epochs, cache, nodes, local, warmer, auctions, processor, excused>>

RoundPasses ==
    /\ before # owner
    /\ before' = owner
    /\ UNCHANGED <<turned, owner, epochs, merges, cache, nodes, local, warmer, auctions, processor, excused>>

\* A new epoch starts in some shards, then in all of them.
EpochStarts ==
    /\ \E e \in epochs : epochs = {e} /\ e < MaxEpoch /\ epochs' = {e, e + 1}
    /\ turned' = turned \cup merges
    /\ UNCHANGED <<owner, before, merges, cache, nodes, local, warmer, auctions, processor, excused>>

EpochSettles ==
    /\ \E e \in epochs : e + 1 \in epochs /\ epochs' = {e + 1}
    /\ UNCHANGED <<turned, owner, before, merges, cache, nodes, local, warmer, auctions, processor, excused>>

\* The views that a query of the contracts can answer from.
Views == {owner, before}

----------------------------------------------------------------------------
(* The warmer: getNodesOwnerAndProvider and getOwners *)

Warms == UNCHANGED <<chainVars, merges, local, auctions, processor>>

\* getCurrentEpoch: that of the latest block, whose shard may be behind.
GetCurrentEpoch ==
    /\ warmer.pc = "idle"
    /\ \E e \in epochs : warmer' = [Resting EXCEPT !.pc = "cached", !.epoch = e]
    /\ Warms /\ UNCHANGED <<cache, nodes, excused>>

BatchGetCacheRemote ==
    /\ warmer.pc = "cached"
    /\ LET cached == cache[warmer.epoch] IN
       warmer' = [warmer EXCEPT !.pc = "owner", !.cached = cached,
                                !.todo = {n \in Bls : cached[n] = None}]
    /\ Warms /\ UNCHANGED <<cache, nodes, excused>>

GetBlsOwner ==
    /\ warmer.pc = "owner"
    /\ \E n \in warmer.todo, view \in Views :
          warmer' = [warmer EXCEPT !.pc = "blses", !.key = n, !.owner = view[n]]
    /\ Warms /\ UNCHANGED <<cache, nodes, excused>>

\* The owner is put down for the keys that the contract lists for it, which need
\* not be the key it was asked for.
GetOwnerBlses ==
    /\ warmer.pc = "blses"
    /\ \E view \in Views :
       LET owners == [n \in Bls |-> IF view[n] = warmer.owner THEN warmer.owner
                                    ELSE warmer.owners[n]] IN
       warmer' = [warmer EXCEPT !.pc = "owner", !.owners = owners, !.key = None, !.owner = None,
                                !.todo = {n \in @ \ {warmer.key} : owners[n] = None}]
    /\ Warms /\ UNCHANGED <<cache, nodes, excused>>

\* batchSetCache; an owner that changed since it was read is cached nevertheless.
\* The answer for a key that Redis had is Redis's, for the others the contracts'.
BatchSetCache ==
    LET answered == {n \in Bls : warmer.owners[n] # None}
        stale == {n \in answered : warmer.owners[n] # owner[n]}
        answer(n) == IF warmer.cached[n] = None THEN warmer.owners[n] ELSE warmer.cached[n] IN
    /\ warmer.pc = "owner" /\ warmer.todo = {}
    /\ cache' = [cache EXCEPT ![warmer.epoch] =
                    [n \in Bls |-> IF n \in answered THEN warmer.owners[n] ELSE @[n]]]
    /\ excused' = (excused \ ({warmer.epoch} \X answered)) \cup ({warmer.epoch} \X stale)
    /\ warmer' = [warmer EXCEPT !.pc = "nodes", !.cached = NoneFound,
                                !.owners = [n \in Bls |-> answer(n)]]
    /\ Warms /\ UNCHANGED nodes

InvalidateNodes ==
    /\ warmer.pc = "nodes"
    /\ nodes' = [n \in Bls |-> NodeOf(warmer.owners[n])]
    /\ warmer' = Resting
    /\ Warms /\ UNCHANGED <<cache, excused>>

\* The run throws.
WarmerFails ==
    /\ warmer.pc # "idle"
    /\ warmer' = Resting
    /\ Warms /\ UNCHANGED <<cache, nodes, excused>>

\* handleNodeAuctionInvalidations reads the nodes, asks the gateway for the auctions,
\* and puts the nodes back, or the gateway fails.
GetValidatorAuctions ==
    /\ auctions = None
    /\ auctions' = nodes
    /\ UNCHANGED <<chainVars, merges, cache, nodes, local, warmer, processor, excused>>

ProcessAuctions ==
    /\ auctions # None
    /\ auctions' = None
    /\ nodes' \in {nodes, auctions}
    /\ UNCHANGED <<chainVars, merges, cache, local, warmer, processor, excused>>

\* The refreshCacheKey event reaches the processor's process.
RefreshCacheLocal ==
    /\ local # nodes
    /\ local' = nodes
    /\ UNCHANGED <<chainVars, merges, cache, nodes, warmer, auctions, processor, excused>>

\* Mutant: owners are cached without a time-to-live.
ExpireOwnerNever(e, n) == cache[e][n] # None /\ UNCHANGED vars

\* The time-to-live of an owner.
ExpireOwner(e, n) ==
    /\ n \in Expiring /\ cache[e][n] # None
    /\ cache' = [cache EXCEPT ![e][n] = None]
    /\ excused' = excused \ {<<e, n>>}
    /\ UNCHANGED <<chainVars, merges, nodes, local, warmer, auctions, processor>>

WarmerStep ==
    \/ GetCurrentEpoch \/ BatchGetCacheRemote
    \/ GetBlsOwner \/ GetOwnerBlses \/ BatchSetCache \/ InvalidateNodes

----------------------------------------------------------------------------
(* The transaction processor: tryInvalidateOwner *)

Processes == UNCHANGED <<chainVars, nodes, local, warmer, auctions>>

\* Mutant: the nodes are looked up by their provider.
NodesOfProvider(a) == {n \in Bls : local[n].provider = a}

\* deleteOwnersForAddressInCache: the sender's nodes, from the copy at hand ...
NodesOf(a) == {n \in Bls : local[n].owner = a}

TryInvalidateOwner ==
    /\ processor.pc = "idle"
    /\ \E a \in merges :
          processor' = [Waiting EXCEPT !.pc = "epoch", !.sender = a, !.mine = NodesOf(a)]
    /\ Processes /\ UNCHANGED <<merges, cache, excused>>

\* ... the epoch ...
ReadEpoch ==
    /\ processor.pc = "epoch"
    /\ \E e \in epochs :
          processor' = [processor EXCEPT !.pc = "delete", !.keys = {e} \X processor.mine,
                                            !.mine = {}]
    /\ Processes /\ UNCHANGED <<merges, cache, excused>>

\* ... and each key is deleted.
DeleteInCache ==
    /\ processor.pc = "delete"
    /\ \E x \in processor.keys :
          /\ cache' = [cache EXCEPT ![x[1]][x[2]] = None]
          /\ excused' = excused \ {x}
          /\ processor' = [processor EXCEPT !.keys = @ \ {x}]
    /\ Processes /\ UNCHANGED merges

\* The transactions are processed: the shard's nonce is stored.
SetLastProcessedNonce ==
    /\ processor.pc = "delete" /\ processor.keys = {}
    /\ merges' = merges \ {processor.sender}
    /\ processor' = Waiting
    /\ Processes /\ UNCHANGED <<cache, excused>>

\* The run throws, or the process restarts: the block is processed again.
ProcessorFails ==
    /\ processor.pc # "idle"
    /\ processor' = Waiting
    /\ Processes /\ UNCHANGED <<merges, cache, excused>>

ProcessorStep ==
    \/ TryInvalidateOwner \/ ReadEpoch \/ DeleteInCache \/ SetLastProcessedNonce

Next ==
    \/ \E a \in Wallet, p \in Provider : Merge(a, p)
    \/ RoundPasses \/ EpochStarts \/ EpochSettles
    \/ WarmerStep \/ WarmerFails
    \/ GetValidatorAuctions \/ ProcessAuctions \/ RefreshCacheLocal
    \/ \E e \in Epoch, n \in Bls : ExpireOwner(e, n)
    \/ ProcessorStep \/ ProcessorFails

Spec == Init /\ [][Next]_vars

----------------------------------------------------------------------------
(* Properties *)

\* Once a merge was processed, Redis answers no owner of before the merge that was
\* right when it was cached, although the keys to delete come from a copy of the
\* nodes that may be old and wrong (deleteOwnersForAddressInCache).  Excused are
\* owners cached after they changed, and merges while the epoch changes.
MergeIsSeen ==
    \A e \in epochs, n \in Bls :
        cache[e][n] \in {None, owner[n]} \cup merges \cup turned \/ <<e, n>> \in excused

----------------------------------------------------------------------------
(* Fairness *)

\* The cron runs, rounds pass, and owners expire a day after they were cached;
\* the warmer's runs do not fail for ever.
FairSpec ==
    /\ Spec
    /\ WF_vars(WarmerStep) /\ WF_vars(ProcessAuctions) /\ WF_vars(RoundPasses)
    /\ \A e \in Epoch, n \in Expiring : WF_vars(ExpireOwner(e, n))
    /\ <>[][~WarmerFails]_vars

\* Whatever was cached while owners or epochs changed, the API comes to show the
\* owner, and the provider, that the contracts know of each node.  Not for good: the
\* nodes that auctions are added to may be older than those they replace.
OwnersShown == []<>(\A n \in Bls : nodes[n] = NodeOf(owner[n]))

=============================================================================
