-------------------------- MODULE NodeOwners_proofs --------------------------
(***************************************************************************)
(* Proofs that the owners keep their type, and that a processed merge is   *)
(* seen, for every set of keys, wallets and providers and any number of    *)
(* epochs.  The argument: only the warmer caches owners, and it shows what *)
(* it cached; so while Redis has an owner of before a merge that was right *)
(* when it was cached, every copy of the nodes shows that owner, and the   *)
(* processor finds the key.                                                *)
(***************************************************************************)
EXTENDS NodeOwners, TLAPS

Moved(n) == owner[n] # Validator[n]

\* What can be answered about a key.
Told(n, v) == v \in {None, Validator[n], owner[n]}

Reading == warmer.pc \in {"owner", "blses"}

\* Keys move once, from the wallet they began with to a provider.
ChainInv ==
    /\ \A n \in Bls : before[n] \in {Validator[n], owner[n]}
    /\ \A n \in Bls : Moved(n) =>
          /\ Validator[n] \in Wallet /\ owner[n] \in Provider
          /\ \A m \in Bls : owner[m] # Validator[n]
    /\ \A a \in merges, n \in Bls : owner[n] # a
    /\ processor.pc # "idle" => processor.sender \in merges

\* Nothing is cached for an epoch to come.
EpochInv ==
    /\ \E e \in Epoch : epochs = {e} \/ (e + 1 \in Epoch /\ epochs = {e, e + 1})
    /\ warmer.pc # "idle" => \E x \in epochs : warmer.epoch <= x
    /\ \A e \in Epoch : (\A x \in epochs : e > x) => \A n \in Bls : cache[e][n] = None
    /\ merges \subseteq turned \/ ~EpochChanges

\* Owners are those of before or after a merge; the warmer alone caches them.
ValuesInv ==
    /\ \A n \in Bls : /\ \A e \in Epoch : Told(n, cache[e][n])
                      /\ Told(n, warmer.cached[n]) /\ Told(n, warmer.owners[n])
    /\ Reading => \A n \in Bls : cache[warmer.epoch][n] \in {None, warmer.cached[n]}

\* A key that did not move is known to every copy of the nodes.
UnmovedInv ==
    \A n \in Bls : ~Moved(n) =>
        /\ nodes[n] = NodeOf(Validator[n]) /\ local[n] = NodeOf(Validator[n])
        /\ auctions # None => auctions[n] = NodeOf(Validator[n])
        /\ warmer.pc = "nodes" => warmer.owners[n] = Validator[n]
        /\ Reading => \/ n \in warmer.todo
                      \/ Validator[n] \in {warmer.cached[n], warmer.owners[n]}
        /\ warmer.pc = "blses" /\ warmer.key = n => warmer.owner = Validator[n]

\* The entry e, n was right when it was cached, its epoch is the current one, and
\* the key's wallet merged.
Outdated(e, n) ==
    /\ cache[e][n] \notin {None, owner[n]}
    /\ <<e, n>> \notin excused /\ Validator[n] \notin turned

\* The merge is then pending, every copy of the nodes shows the wallet, and the
\* processor has the key on its list.
OutdatedInv ==
    \A e \in epochs, n \in Bls : Outdated(e, n) =>
        /\ Validator[n] \in merges
        /\ nodes[n].owner = Validator[n] /\ local[n].owner = Validator[n]
        /\ auctions # None => auctions[n].owner = Validator[n]
        /\ warmer.pc = "nodes" => warmer.owners[n] = Validator[n]
        /\ processor.sender = Validator[n] =>
              /\ processor.pc = "epoch" => n \in processor.mine
              /\ processor.pc = "delete" => <<e, n>> \in processor.keys

IInv == TypeOK /\ ChainInv /\ EpochInv /\ ValuesInv /\ UnmovedInv /\ OutdatedInv

----------------------------------------------------------------------------
(* Types *)

LEMMA NodeOfType ==
    ASSUME NEW a \in Address \cup {None}
    PROVE  NodeOf(a) \in Node
BY OwnersAssumption DEF NodeOf, Node, Address

LEMMA NodeOfWallet ==
    ASSUME NEW a \in Wallet
    PROVE  NodeOf(a).owner = a
BY OwnersAssumption DEF NodeOf

LEMMA RestingType == Resting \in Warmer /\ Waiting \in Processor
<1>1. NoneFound \in Found /\ 0 \in Epoch
  BY OwnersAssumption DEF NoneFound, Found, Epoch
<1> QED  BY <1>1 DEF Resting, Warmer, Waiting, Processor

LEMMA InitIInv == Init => IInv
<1> SUFFICES ASSUME Init  PROVE IInv
  OBVIOUS
<1> USE DEF Init
<1>0. NoneFound \in Found /\ 0 \in Epoch /\ \A n \in Bls : NoneFound[n] = None
  BY OwnersAssumption DEF NoneFound, Found, Epoch
<1>1. TypeOK
  <2>1. owner \in [Bls -> Address] /\ before \in [Bls -> Address]
    BY OwnersAssumption DEF Address
  <2>2. \A n \in Bls : NodeOf(Validator[n]) \in Node
    BY NodeOfType, OwnersAssumption DEF Address
  <2>3. nodes \in [Bls -> Node] /\ local \in [Bls -> Node]
    BY <2>2
  <2> QED  BY <1>0, <2>1, <2>3, RestingType DEF TypeOK
<1>2. ChainInv
  BY OwnersAssumption DEF ChainInv, Moved, Waiting
<1>3. EpochInv
  <2>1. \A x \in epochs : x = 0
    OBVIOUS
  <2> QED  BY <1>0, <2>1 DEF EpochInv, EpochChanges, Resting
<1>4. ValuesInv
  BY <1>0 DEF ValuesInv, Told, Resting, Reading
<1>5. UnmovedInv
  BY DEF UnmovedInv, Moved, Resting, Reading
<1>6. OutdatedInv
  BY <1>0 DEF OutdatedInv, Outdated
<1> QED  BY <1>1, <1>2, <1>3, <1>4, <1>5, <1>6 DEF IInv

----------------------------------------------------------------------------
(* Steps *)

\* A step within an epoch: the warmer's epoch is a current one when its run starts,
\* and nothing is cached for another.
LEMMA EpochFrame ==
    ASSUME TypeOK, TypeOK', EpochInv,
           UNCHANGED <<epochs, turned>>, merges' \subseteq merges,
           warmer'.pc # "idle" =>
               warmer'.epoch \in epochs \/ (warmer.pc # "idle" /\ warmer'.epoch = warmer.epoch),
           \A e \in Epoch, n \in Bls :
               cache'[e][n] # None => cache[e][n] # None \/ (warmer.pc # "idle" /\ e = warmer.epoch)
    PROVE  EpochInv'
<1>0. \A e \in Epoch : e \in Nat
  BY DEF Epoch
<1>1. warmer'.pc # "idle" => \E x \in epochs : warmer'.epoch <= x
  <2>1. CASE warmer'.epoch \in epochs
    BY <1>0, <2>1 DEF TypeOK
  <2>2. CASE warmer.pc # "idle" /\ warmer'.epoch = warmer.epoch
    BY <2>2 DEF EpochInv
  <2> QED  BY <2>1, <2>2
<1>2. ASSUME NEW e \in Epoch, \A x \in epochs : e > x, NEW n \in Bls
      PROVE  cache'[e][n] = None
  <2>1. cache[e][n] = None
    BY <1>2 DEF EpochInv
  <2>2. CASE warmer.pc # "idle" /\ e = warmer.epoch
    <3>1. PICK x \in epochs : e <= x
      BY <2>2 DEF EpochInv
    <3>2. x \in Nat /\ e \in Nat /\ e > x
      BY <1>0, <1>2 DEF TypeOK
    <3> QED  BY <3>1, <3>2
  <2> QED  BY <2>1, <2>2
<1>3. EpochChanges' => EpochChanges
  BY DEF EpochChanges
<1> QED  BY <1>1, <1>2, <1>3 DEF EpochInv

LEMMA MergeStep == ASSUME NEW a \in Wallet, NEW p \in Provider, IInv, Merge(a, p) PROVE IInv'
<1> USE DEF IInv, Merge, Warms, Processes, chainVars
<1>1. TypeOK'
  BY DEF TypeOK, Address
<1>2. ChainInv'
  BY OwnersAssumption DEF TypeOK, ChainInv, Moved
<1>3. EpochInv'
  BY DEF EpochInv, EpochChanges
<1>4. ValuesInv'
  BY OwnersAssumption DEF ValuesInv, Told, Reading, ChainInv, Moved
<1>5. UnmovedInv'
  BY OwnersAssumption DEF UnmovedInv, Moved, Reading, ChainInv
<1>6. OutdatedInv'
  BY OwnersAssumption, NodeOfWallet DEF OutdatedInv, Outdated, ChainInv, UnmovedInv, Moved
<1> QED  BY <1>1, <1>2, <1>3, <1>4, <1>5, <1>6

LEMMA RoundPassesStep == ASSUME IInv, RoundPasses PROVE IInv'
<1> USE DEF IInv, RoundPasses, Warms, Processes, chainVars
<1>1. TypeOK'
  BY DEF TypeOK
<1>2. ChainInv'
  BY DEF ChainInv, Moved
<1>3. EpochInv'
  BY <1>1, EpochFrame DEF TypeOK, Warmer, Resting, Found
<1>4. ValuesInv'
  BY DEF ValuesInv, Told, Reading
<1>5. UnmovedInv'
  BY DEF UnmovedInv, Moved, Reading
<1>6. OutdatedInv'
  BY DEF OutdatedInv, Outdated
<1> QED  BY <1>1, <1>2, <1>3, <1>4, <1>5, <1>6

LEMMA EpochStartsStep == ASSUME IInv, EpochStarts PROVE IInv'
<1> USE DEF IInv, EpochStarts, Warms, Processes, chainVars
<1>1. TypeOK'
  BY OwnersAssumption DEF TypeOK, Epoch
<1>2. ChainInv'
  BY DEF ChainInv, Moved
<1>3. EpochInv'
  BY OwnersAssumption DEF EpochInv, Epoch
<1>4. ValuesInv'
  BY DEF ValuesInv, Told, Reading
<1>5. UnmovedInv'
  BY DEF UnmovedInv, Moved, Reading
<1>6. OutdatedInv'
  <2>1. PICK e \in epochs : epochs = {e} /\ epochs' = {e, e + 1}
    OBVIOUS
  <2>2. e \in Epoch /\ e \in Nat
    BY DEF TypeOK, Epoch
  <2>3. \A n \in Bls : e + 1 \in Epoch => cache[e + 1][n] = None
    BY <2>1, <2>2 DEF EpochInv, Epoch
  <2>4. \A d \in epochs', n \in Bls : Outdated(d, n)' => Outdated(d, n) /\ d = e
    BY <1>1, <2>1, <2>3 DEF Outdated, TypeOK
  <2>5. \A d \in epochs', n \in Bls : ~Outdated(d, n)'
    BY <2>4 DEF OutdatedInv, Outdated
  <2> QED  BY <2>5 DEF OutdatedInv
<1> QED  BY <1>1, <1>2, <1>3, <1>4, <1>5, <1>6

LEMMA EpochSettlesStep == ASSUME IInv, EpochSettles PROVE IInv'
<1> USE DEF IInv, EpochSettles, Warms, Processes, chainVars
<1>1. TypeOK'
  BY DEF TypeOK
<1>2. ChainInv'
  BY DEF ChainInv, Moved
<1>3. EpochInv'
  <2>1. PICK e \in epochs : e + 1 \in epochs /\ epochs' = {e + 1}
    OBVIOUS
  <2>2. e \in Nat /\ e + 1 \in Epoch /\ epochs = {e, e + 1}
    BY <2>1 DEF TypeOK, EpochInv, Epoch
  <2>3. warmer.pc # "idle" => warmer.epoch <= e + 1
    BY <2>2 DEF EpochInv, TypeOK, Warmer, Epoch
  <2>4. \A d \in Epoch, n \in Bls : d > e + 1 => cache[d][n] = None
    BY <2>2 DEF EpochInv, Epoch
  <2>5. merges \subseteq turned
    BY <2>2 DEF EpochInv, EpochChanges
  <2> QED  BY <2>1, <2>2, <2>3, <2>4, <2>5 DEF EpochInv
<1>4. ValuesInv'
  BY DEF ValuesInv, Told, Reading
<1>5. UnmovedInv'
  BY DEF UnmovedInv, Moved, Reading
<1>6. OutdatedInv'
  BY DEF OutdatedInv, Outdated
<1> QED  BY <1>1, <1>2, <1>3, <1>4, <1>5, <1>6

LEMMA GetCurrentEpochStep == ASSUME IInv, GetCurrentEpoch PROVE IInv'
<1> USE DEF IInv, GetCurrentEpoch, Warms, Processes, chainVars
<1>1. TypeOK'
  <2>1. warmer' \in Warmer
    BY RestingType DEF TypeOK, Warmer
  <2> QED  BY <2>1 DEF TypeOK
<1>2. ChainInv'
  BY DEF ChainInv, Moved
<1>3. EpochInv'
  BY <1>1, EpochFrame DEF TypeOK, Warmer, Resting, Found
<1>4. ValuesInv'
  BY DEF ValuesInv, Told, Reading, Resting, NoneFound
<1>5. UnmovedInv'
  BY DEF UnmovedInv, Moved, Reading
<1>6. OutdatedInv'
  BY DEF OutdatedInv, Outdated
<1> QED  BY <1>1, <1>2, <1>3, <1>4, <1>5, <1>6

LEMMA BatchGetCacheRemoteStep == ASSUME IInv, BatchGetCacheRemote PROVE IInv'
<1> USE DEF IInv, BatchGetCacheRemote, Warms, Processes, chainVars
<1>1. TypeOK'
  BY DEF TypeOK, Warmer
<1>2. ChainInv'
  BY DEF ChainInv, Moved
<1>3. EpochInv'
  BY <1>1, EpochFrame DEF TypeOK, Warmer, Resting, Found
<1>4. ValuesInv'
  BY DEF TypeOK, Warmer, ValuesInv, Told
<1>5. UnmovedInv'
  BY DEF TypeOK, Warmer, UnmovedInv, Moved, ValuesInv, Told
<1>6. OutdatedInv'
  BY DEF OutdatedInv, Outdated
<1> QED  BY <1>1, <1>2, <1>3, <1>4, <1>5, <1>6

LEMMA GetBlsOwnerStep == ASSUME IInv, GetBlsOwner PROVE IInv'
<1> USE DEF IInv, GetBlsOwner, Warms, Processes, chainVars
<1>1. TypeOK'
  <2>1. PICK n \in warmer.todo, view \in Views :
            warmer' = [warmer EXCEPT !.pc = "blses", !.key = n, !.owner = view[n]]
    OBVIOUS
  <2>2. n \in Bls /\ view[n] \in Address
    BY DEF TypeOK, Warmer, Views
  <2>3. warmer' \in Warmer
    BY <2>1, <2>2 DEF TypeOK, Warmer
  <2> QED  BY <2>3 DEF TypeOK
<1>2. ChainInv'
  BY DEF ChainInv, Moved
<1>3. EpochInv'
  BY <1>1, EpochFrame DEF TypeOK, Warmer, Resting, Found
<1>4. ValuesInv'
  BY DEF ValuesInv, Told, Reading
<1>5. UnmovedInv'
  BY DEF UnmovedInv, Moved, Reading, ChainInv, Views
<1>6. OutdatedInv'
  BY DEF OutdatedInv, Outdated
<1> QED  BY <1>1, <1>2, <1>3, <1>4, <1>5, <1>6

LEMMA GetOwnerBlsesStep == ASSUME IInv, GetOwnerBlses PROVE IInv'
<1> USE DEF IInv, GetOwnerBlses, Warms, Processes, chainVars
<1>1. TypeOK'
  <2> DEFINE owners(view) == [n \in Bls |-> IF view[n] = warmer.owner THEN warmer.owner
                                           ELSE warmer.owners[n]]
             todo(view) == {n \in warmer.todo \ {warmer.key} : owners(view)[n] = None}
  <2>1. PICK view \in Views :
            warmer' = [warmer EXCEPT !.pc = "owner", !.owners = owners(view), !.key = None,
                                     !.owner = None, !.todo = todo(view)]
    OBVIOUS
  <2>2. owners(view) \in Found /\ todo(view) \in SUBSET Bls
    BY DEF TypeOK, Warmer, Found
  <2> HIDE DEF owners, todo
  <2>3. warmer' \in Warmer
    BY <2>1, <2>2 DEF TypeOK, Warmer
  <2> QED  BY <2>3 DEF TypeOK
<1>2. ChainInv'
  BY DEF ChainInv, Moved
<1>3. EpochInv'
  BY <1>1, EpochFrame DEF TypeOK, Warmer, Resting, Found
<1>4. ValuesInv'
  BY DEF ValuesInv, Told, Reading, Views, ChainInv
<1>5. UnmovedInv'
  BY DEF UnmovedInv, Moved, Reading, ChainInv, ValuesInv, Told, Views
<1>6. OutdatedInv'
  BY DEF OutdatedInv, Outdated
<1> QED  BY <1>1, <1>2, <1>3, <1>4, <1>5, <1>6

LEMMA BatchSetCacheStep == ASSUME IInv, BatchSetCache PROVE IInv'
<1> USE DEF IInv, BatchSetCache, Warms, Processes, chainVars
<1>1. TypeOK'
  <2> DEFINE answer(n) == IF warmer.cached[n] = None THEN warmer.owners[n] ELSE warmer.cached[n]
             entry == [n \in Bls |-> IF n \in {m \in Bls : warmer.owners[m] # None}
                                      THEN warmer.owners[n] ELSE cache[warmer.epoch][n]]
  <2>0. warmer.cached \in Found /\ warmer.owners \in Found /\ warmer.epoch \in Epoch
    BY DEF TypeOK, Warmer
  <2>1. [n \in Bls |-> answer(n)] \in Found /\ NoneFound \in Found
    BY <2>0 DEF Found, NoneFound
  <2>2. warmer' \in Warmer
    BY <2>1 DEF TypeOK, Warmer
  <2>3. entry \in Found
    BY <2>0 DEF TypeOK, Found
  <2>4. cache' = [cache EXCEPT ![warmer.epoch] = entry]
    OBVIOUS
  <2>5. cache' \in [Epoch -> Found]
    BY <2>0, <2>3, <2>4 DEF TypeOK
  <2>6. excused' \subseteq Epoch \X Bls
    BY <2>0 DEF TypeOK
  <2> QED  BY <2>2, <2>5, <2>6 DEF TypeOK
<1>2. ChainInv'
  BY DEF ChainInv, Moved
<1>3. EpochInv'
  <2>1. \A e \in Epoch, n \in Bls :
            cache'[e][n] # None => cache[e][n] # None \/ e = warmer.epoch
    BY DEF TypeOK, Warmer, Found
  <2> QED  BY <1>1, <2>1, EpochFrame DEF TypeOK, Warmer
<1>4. ValuesInv'
  BY DEF ValuesInv, Told, Reading, NoneFound
<1>5. UnmovedInv'
  BY DEF UnmovedInv, Moved, Reading, ValuesInv, Told
<1>6. OutdatedInv'
  BY DEF TypeOK, OutdatedInv, Outdated, EpochInv, EpochChanges, ValuesInv, Told, Reading
<1> QED  BY <1>1, <1>2, <1>3, <1>4, <1>5, <1>6

LEMMA InvalidateNodesStep == ASSUME IInv, InvalidateNodes PROVE IInv'
<1> USE DEF IInv, InvalidateNodes, Warms, Processes, chainVars
<1>1. TypeOK'
  BY RestingType, NodeOfType DEF TypeOK, Warmer, Found
<1>2. ChainInv'
  BY DEF ChainInv, Moved
<1>3. EpochInv'
  BY <1>1, EpochFrame DEF TypeOK, Warmer, Resting, Found
<1>4. ValuesInv'
  BY DEF ValuesInv, Told, Reading, Resting, NoneFound
<1>5. UnmovedInv'
  BY DEF UnmovedInv, Moved, Reading, Resting
<1>6. OutdatedInv'
  BY NodeOfWallet DEF TypeOK, OutdatedInv, Outdated, Resting
<1> QED  BY <1>1, <1>2, <1>3, <1>4, <1>5, <1>6

LEMMA WarmerFailsStep == ASSUME IInv, WarmerFails PROVE IInv'
<1> USE DEF IInv, WarmerFails, Warms, Processes, chainVars
<1>1. TypeOK'
  BY RestingType DEF TypeOK
<1>2. ChainInv'
  BY DEF ChainInv, Moved
<1>3. EpochInv'
  BY <1>1, EpochFrame DEF TypeOK, Warmer, Resting, Found
<1>4. ValuesInv'
  BY DEF ValuesInv, Told, Reading, Resting, NoneFound
<1>5. UnmovedInv'
  BY DEF UnmovedInv, Moved, Reading, Resting
<1>6. OutdatedInv'
  BY DEF OutdatedInv, Outdated, Resting
<1> QED  BY <1>1, <1>2, <1>3, <1>4, <1>5, <1>6

LEMMA GetValidatorAuctionsStep == ASSUME IInv, GetValidatorAuctions PROVE IInv'
<1> USE DEF IInv, GetValidatorAuctions, Warms, Processes, chainVars
<1>1. TypeOK'
  BY DEF TypeOK
<1>2. ChainInv'
  BY DEF ChainInv, Moved
<1>3. EpochInv'
  BY <1>1, EpochFrame DEF TypeOK, Warmer, Resting, Found
<1>4. ValuesInv'
  BY DEF ValuesInv, Told, Reading
<1>5. UnmovedInv'
  BY DEF UnmovedInv, Moved, Reading
<1>6. OutdatedInv'
  BY DEF OutdatedInv, Outdated
<1> QED  BY <1>1, <1>2, <1>3, <1>4, <1>5, <1>6

LEMMA ProcessAuctionsStep == ASSUME IInv, ProcessAuctions PROVE IInv'
<1> USE DEF IInv, ProcessAuctions, Warms, Processes, chainVars
<1>1. TypeOK'
  BY DEF TypeOK
<1>2. ChainInv'
  BY DEF ChainInv, Moved
<1>3. EpochInv'
  BY <1>1, EpochFrame DEF TypeOK, Warmer, Resting, Found
<1>4. ValuesInv'
  BY DEF ValuesInv, Told, Reading
<1>5. UnmovedInv'
  BY DEF UnmovedInv, Moved, Reading
<1>6. OutdatedInv'
  BY DEF OutdatedInv, Outdated
<1> QED  BY <1>1, <1>2, <1>3, <1>4, <1>5, <1>6

LEMMA RefreshCacheLocalStep == ASSUME IInv, RefreshCacheLocal PROVE IInv'
<1> USE DEF IInv, RefreshCacheLocal, Warms, Processes, chainVars
<1>1. TypeOK'
  BY DEF TypeOK
<1>2. ChainInv'
  BY DEF ChainInv, Moved
<1>3. EpochInv'
  BY <1>1, EpochFrame DEF TypeOK, Warmer, Resting, Found
<1>4. ValuesInv'
  BY DEF ValuesInv, Told, Reading
<1>5. UnmovedInv'
  BY DEF UnmovedInv, Moved, Reading
<1>6. OutdatedInv'
  BY DEF OutdatedInv, Outdated
<1> QED  BY <1>1, <1>2, <1>3, <1>4, <1>5, <1>6

LEMMA ExpireOwnerStep == ASSUME NEW e \in Epoch, NEW n \in Bls, IInv, ExpireOwner(e, n) PROVE IInv'
<1> USE DEF IInv, ExpireOwner, Warms, Processes, chainVars
<1>1. TypeOK'
  BY DEF TypeOK, Found
<1>2. ChainInv'
  BY DEF ChainInv, Moved
<1>3. EpochInv'
  BY <1>1, EpochFrame DEF TypeOK, Warmer, Resting, Found
<1>4. ValuesInv'
  BY DEF ValuesInv, Told, Reading
<1>5. UnmovedInv'
  BY DEF UnmovedInv, Moved, Reading
<1>6. OutdatedInv'
  BY DEF TypeOK, Found, OutdatedInv, Outdated
<1> QED  BY <1>1, <1>2, <1>3, <1>4, <1>5, <1>6

LEMMA TryInvalidateOwnerStep == ASSUME IInv, TryInvalidateOwner PROVE IInv'
<1> USE DEF IInv, TryInvalidateOwner, Warms, Processes, chainVars
<1>1. TypeOK'
  <2>1. PICK a \in merges :
            processor' = [Waiting EXCEPT !.pc = "epoch", !.sender = a, !.mine = NodesOf(a)]
    OBVIOUS
  <2>2. a \in Wallet /\ NodesOf(a) \in SUBSET Bls
    BY DEF TypeOK, NodesOf
  <2>3. processor' \in Processor
    BY <2>1, <2>2, RestingType DEF Processor
  <2> QED  BY <2>3 DEF TypeOK
<1>2. ChainInv'
  BY DEF ChainInv, Moved
<1>3. EpochInv'
  BY <1>1, EpochFrame DEF TypeOK, Warmer, Resting, Found
<1>4. ValuesInv'
  BY DEF ValuesInv, Told, Reading
<1>5. UnmovedInv'
  BY DEF UnmovedInv, Moved, Reading
<1>6. OutdatedInv'
  BY DEF OutdatedInv, Outdated, NodesOf
<1> QED  BY <1>1, <1>2, <1>3, <1>4, <1>5, <1>6

LEMMA ReadEpochStep == ASSUME IInv, ReadEpoch PROVE IInv'
<1> USE DEF IInv, ReadEpoch, Warms, Processes, chainVars
<1>1. TypeOK'
  <2>1. PICK e \in epochs : processor' = [processor EXCEPT !.pc = "delete",
                                              !.keys = {e} \X processor.mine, !.mine = {}]
    OBVIOUS
  <2>2. {e} \X processor.mine \in SUBSET (Epoch \X Bls)
    BY DEF TypeOK, Processor
  <2>3. processor' \in Processor
    BY <2>1, <2>2 DEF TypeOK, Processor
  <2> QED  BY <2>3 DEF TypeOK
<1>2. ChainInv'
  BY DEF ChainInv, Moved
<1>3. EpochInv'
  BY <1>1, EpochFrame DEF TypeOK, Warmer, Resting, Found
<1>4. ValuesInv'
  BY DEF ValuesInv, Told, Reading
<1>5. UnmovedInv'
  BY DEF UnmovedInv, Moved, Reading
<1>6. OutdatedInv'
  BY DEF OutdatedInv, Outdated, EpochInv, EpochChanges
<1> QED  BY <1>1, <1>2, <1>3, <1>4, <1>5, <1>6

LEMMA DeleteInCacheStep == ASSUME IInv, DeleteInCache PROVE IInv'
<1> USE DEF IInv, DeleteInCache, Warms, Processes, chainVars
<1>1. TypeOK'
  <2>1. PICK x \in processor.keys :
            /\ cache' = [cache EXCEPT ![x[1]][x[2]] = None]
            /\ processor' = [processor EXCEPT !.keys = @ \ {x}]
    OBVIOUS
  <2>2. x[1] \in Epoch /\ x[2] \in Bls
    BY DEF TypeOK, Processor
  <2>3. cache' \in [Epoch -> Found]
    BY <2>1, <2>2 DEF TypeOK, Found
  <2>4. processor' \in Processor
    BY <2>1 DEF TypeOK, Processor
  <2> QED  BY <2>3, <2>4 DEF TypeOK
<1>2. ChainInv'
  BY DEF ChainInv, Moved
<1>3. EpochInv'
  <2>1. \A e \in Epoch, n \in Bls : cache'[e][n] # None => cache[e][n] # None
    BY DEF TypeOK, Processor, Found
  <2> QED  BY <1>1, <2>1, EpochFrame DEF TypeOK
<1>4. ValuesInv'
  BY DEF ValuesInv, Told, Reading
<1>5. UnmovedInv'
  BY DEF UnmovedInv, Moved, Reading
<1>6. OutdatedInv'
  BY DEF TypeOK, Found, OutdatedInv, Outdated
<1> QED  BY <1>1, <1>2, <1>3, <1>4, <1>5, <1>6

LEMMA SetLastProcessedNonceStep == ASSUME IInv, SetLastProcessedNonce PROVE IInv'
<1> USE DEF IInv, SetLastProcessedNonce, Warms, Processes, chainVars
<1>1. TypeOK'
  BY DEF TypeOK, Processor, Waiting
<1>2. ChainInv'
  BY DEF ChainInv, Moved, Waiting
<1>3. EpochInv'
  BY <1>1, EpochFrame DEF TypeOK, Warmer, Resting, Found
<1>4. ValuesInv'
  BY DEF ValuesInv, Told, Reading
<1>5. UnmovedInv'
  BY DEF UnmovedInv, Moved, Reading
<1>6. OutdatedInv'
  BY DEF OutdatedInv, Outdated, Waiting
<1> QED  BY <1>1, <1>2, <1>3, <1>4, <1>5, <1>6

LEMMA ProcessorFailsStep == ASSUME IInv, ProcessorFails PROVE IInv'
<1> USE DEF IInv, ProcessorFails, Warms, Processes, chainVars
<1>1. TypeOK'
  BY DEF TypeOK, Processor, Waiting
<1>2. ChainInv'
  BY DEF ChainInv, Moved, Waiting
<1>3. EpochInv'
  BY <1>1, EpochFrame DEF TypeOK, Warmer, Resting, Found
<1>4. ValuesInv'
  BY DEF ValuesInv, Told, Reading
<1>5. UnmovedInv'
  BY DEF UnmovedInv, Moved, Reading
<1>6. OutdatedInv'
  BY DEF OutdatedInv, Outdated, Waiting
<1> QED  BY <1>1, <1>2, <1>3, <1>4, <1>5, <1>6

LEMMA StepIInv == IInv /\ [Next]_vars => IInv'
<1> SUFFICES ASSUME IInv, [Next]_vars  PROVE IInv'
  OBVIOUS
<1>1. CASE UNCHANGED vars
  <2> USE <1>1 DEF IInv, vars, chainVars
  <2>1. TypeOK' /\ ChainInv'
    BY DEF TypeOK, ChainInv, Moved
  <2>2. EpochInv'
    BY DEF EpochInv, EpochChanges
  <2>3. ValuesInv' /\ UnmovedInv'
    BY DEF ValuesInv, UnmovedInv, Told, Reading, Moved
  <2>4. OutdatedInv'
    BY DEF OutdatedInv, Outdated
  <2> QED  BY <2>1, <2>2, <2>3, <2>4
<1>2. ASSUME NEW a \in Wallet, NEW p \in Provider, Merge(a, p)  PROVE IInv'
  BY <1>2, MergeStep
<1>3. CASE RoundPasses \/ EpochStarts \/ EpochSettles
  BY <1>3, RoundPassesStep, EpochStartsStep, EpochSettlesStep
<1>4. CASE WarmerStep \/ WarmerFails
  BY <1>4, GetCurrentEpochStep, BatchGetCacheRemoteStep, GetBlsOwnerStep, GetOwnerBlsesStep,
     BatchSetCacheStep, InvalidateNodesStep, WarmerFailsStep DEF WarmerStep
<1>5. CASE GetValidatorAuctions \/ ProcessAuctions \/ RefreshCacheLocal
  BY <1>5, GetValidatorAuctionsStep, ProcessAuctionsStep, RefreshCacheLocalStep
<1>6. ASSUME NEW e \in Epoch, NEW n \in Bls, ExpireOwner(e, n)  PROVE IInv'
  BY <1>6, ExpireOwnerStep
<1>7. CASE ProcessorStep \/ ProcessorFails
  BY <1>7, TryInvalidateOwnerStep, ReadEpochStep, DeleteInCacheStep, SetLastProcessedNonceStep,
     ProcessorFailsStep DEF ProcessorStep
<1> QED  BY <1>1, <1>2, <1>3, <1>4, <1>5, <1>6, <1>7 DEF Next

THEOREM Invariance == Spec => []IInv
<1> QED  BY InitIInv, StepIInv, PTL DEF Spec

\* Every reachable state has its type.
THEOREM TypeCorrect == Spec => []TypeOK
<1>1. IInv => TypeOK
  BY DEF IInv
<1> QED  BY <1>1, Invariance, PTL

\* After a merge was processed, Redis answers no owner of before the merge, save for
\* those cached too late and those of merges while the epoch changes
\* (deleteOwnersForAddressInCache and getOwners).
THEOREM MergesAreSeen == Spec => []MergeIsSeen
<1>1. IInv => MergeIsSeen
  <2> SUFFICES ASSUME IInv, NEW e \in epochs, NEW n \in Bls,
                      cache[e][n] \notin {None, owner[n]}, <<e, n>> \notin excused
               PROVE  cache[e][n] \in merges \cup turned
    BY DEF MergeIsSeen
  <2>1. cache[e][n] = Validator[n]
    BY DEF IInv, ValuesInv, Told, TypeOK
  <2>2. Validator[n] \notin turned => Validator[n] \in merges
    BY DEF IInv, OutdatedInv, Outdated
  <2> QED  BY <2>1, <2>2
<1> QED  BY <1>1, Invariance, PTL

==============================================================================
