--------------------- MODULE KeybaseConfirmation_proofs ---------------------
(***************************************************************************)
(* Proofs that the keybases keep their type, and that what they show was    *)
(* claimed and vouched for, for every set of keys and identities.  The      *)
(* argument: a list that was read is kept whole, in the database and in the *)
(* run, and a key enters Redis only from such a list; a run holds only      *)
(* claims that were made, and when it saves them only those whose key was   *)
(* confirmed.  None of this is lost when a claim or a list changes, since   *)
(* the histories only grow.                                                 *)
(***************************************************************************)
EXTENDS KeybaseConfirmation, TLAPS

\* Where keys come from: every copy of a list was listed.
ListsInv ==
    /\ \A i \in Identity :
          (file[i] \cup page[i] \cup database[i]) \ NoList \subseteq vouched
    /\ confirmed \subseteq vouched /\ pub.keys \ NoList \subseteq vouched

\* Where claims come from: every copy of a claim was made.
ClaimsInv ==
    \A k \in Keybase :
       /\ claim[k] # None => <<k, claim[k]>> \in claimed
       /\ cached.keybases[k] # None => <<k, cached.keybases[k]>> \in claimed
       /\ cached.pc = "save" /\ cached.keybases[k] # None => k \in vouched

IInv == TypeOK /\ ListsInv /\ ClaimsInv /\ KeybasesWereVouched

\* A list is a set of keys, or none.
LEMMA ListFacts ==
    /\ NoList \in List /\ \A keys \in SUBSET Keybase : keys \in List
    /\ \A keys \in List : keys \ NoList \subseteq Keybase
  BY DEF List

\* The claimed identities are identities.
LEMMA IdentitiesFact ==
  ASSUME TypeOK PROVE \A keys \in SUBSET Keybase : Identities(keys) \subseteq Identity
  BY DEF TypeOK, Claim, Identities

\* A run of the first cron starts without a list.
LEMMA PubIdleFact == PubIdle \in PubRun /\ PubIdle.pc = "idle" /\ PubIdle.keys = NoList
  BY ListFacts DEF PubIdle, PubRun, Claim

\* Every step keeps the types: among them, that a run which reads a list has an
\* identity, and that a run has a list only while it reads it.
LEMMA TypeStep == TypeOK /\ [Next]_vars => TypeOK'
<1> SUFFICES ASSUME TypeOK, [Next]_vars PROVE TypeOK'
  OBVIOUS
<1>1. ASSUME NEW k \in Keybase, NEW i \in Claim, ChangeClaim(k, i) PROVE TypeOK'
  BY <1>1, KeybaseAssumption DEF TypeOK, ChangeClaim, Change
<1>2. ASSUME NEW i \in Identity, NEW keys \in List, ChangeFile(i, keys) PROVE TypeOK'
  BY <1>2, ListFacts, KeybaseAssumption DEF TypeOK, ChangeFile, Change
<1>3. ASSUME NEW i \in Identity, NEW keys \in List, ChangePage(i, keys) PROVE TypeOK'
  BY <1>3, ListFacts, KeybaseAssumption DEF TypeOK, ChangePage, Change
<1>4. CASE FlushRedis
  BY <1>4, KeybaseAssumption DEF TypeOK, Claim, NoKeybases, FlushRedis, Change
<1>5. ASSUME NEW k \in Keybase, ExpireConfirmation(k) PROVE TypeOK'
  BY <1>5 DEF TypeOK, ExpireConfirmation, world
<1>6. CASE GetProvidersKeybases
  <2>1. PICK phase \in {"database", "files"} :
           pub' = [PubIdle EXCEPT !.pc = "heartbeat", !.phase = phase,
                                  !.todo = Identities(Provider)]
    BY <1>6, PubIdleFact DEF GetProvidersKeybases, PubRun
  <2>2. pub' \in PubRun /\ pub'.pc = "heartbeat" /\ pub'.keys = NoList
    BY <2>1, IdentitiesFact, PubIdleFact DEF PubRun, Keybase
  <2> QED
    BY <1>6, <2>2 DEF TypeOK, GetProvidersKeybases, world
<1>7. CASE GetNodesKeybases
  BY <1>7, IdentitiesFact DEF TypeOK, PubRun, Keybase, GetNodesKeybases, world
<1>8. ASSUME NEW i \in Identity, ConfirmAgainstDatabase(i) PROVE TypeOK'
  BY <1>8, ListFacts DEF TypeOK, PubRun, ConfirmAgainstDatabase, Confirm, world
<1>9. ASSUME NEW i \in Identity, DatabaseError(i) PROVE TypeOK'
  BY <1>9 DEF TypeOK, PubRun, DatabaseError, world
<1>10. ASSUME NEW i \in Identity, NextIdentity(i) PROVE TypeOK'
  BY <1>10, KeybaseAssumption DEF TypeOK, PubRun, Claim, NextIdentity, world
<1>11. CASE ConfirmAgainstGithub
  BY <1>11, ListFacts
     DEF TypeOK, PubRun, Claim, ConfirmAgainstGithub, Reading, ReadKeys, Confirm, world
<1>12. CASE NoFile
  BY <1>12 DEF TypeOK, PubRun, NoFile, Reading, NoKeys, world
<1>13. CASE ConfirmAgainstKeybasePub
  BY <1>13, ListFacts
     DEF TypeOK, PubRun, Claim, ConfirmAgainstKeybasePub, Reading, ReadKeys, Confirm, world
<1>14. CASE NoPage
  BY <1>14 DEF TypeOK, PubRun, Claim, NoPage, NoKeys, world
<1>15. CASE GithubError
  BY <1>15, ListFacts DEF TypeOK, PubRun, GithubError, NoKeys, world
<1>16. CASE KeybasePubError
  BY <1>16, ListFacts DEF TypeOK, PubRun, Claim, KeybasePubError, NoKeys, world
<1>17. CASE SetKeybaseConfirmation
  BY <1>17, ListFacts DEF TypeOK, PubRun, Claim, SetKeybaseConfirmation, world
<1>18. CASE PubEnds
  BY <1>18 DEF TypeOK, PubRun, Claim, PubIdle, PubEnds, world
<1>19. CASE ReadProviderClaims
  BY <1>19 DEF TypeOK, CacheRun, Claim, ReadProviderClaims, Only, world
<1>20. CASE ReadNodeClaims
  BY <1>20 DEF TypeOK, CacheRun, ReadNodeClaims, world
<1>21. CASE ReadConfirmations
  BY <1>21 DEF TypeOK, CacheRun, Claim, ReadConfirmations, Only, world
<1>22. CASE InvalidateKeybases
  BY <1>22 DEF TypeOK, CacheRun, Claim, NoKeybases, CacheIdle, InvalidateKeybases, world
<1>23. CASE Fail
  BY <1>23, ListFacts
     DEF TypeOK, PubRun, CacheRun, Claim, NoKeybases, PubIdle, CacheIdle, Fail, world
<1>24. CASE UNCHANGED vars
  BY <1>24 DEF TypeOK, world, vars
<1> QED
  BY <1>1, <1>2, <1>3, <1>4, <1>5, <1>6, <1>7, <1>8, <1>9, <1>10, <1>11, <1>12, <1>13, <1>14,
       <1>15, <1>16, <1>17, <1>18, <1>19, <1>20, <1>21, <1>22, <1>23, <1>24
     DEF Next, World, PubStep, CacheStep, Faults

\* The first state is well-typed.
LEMMA TypeInit == Init => TypeOK
  BY ListFacts, KeybaseAssumption
     DEF Init, TypeOK, PubRun, CacheRun, Claim, NoKeybases, PubIdle, CacheIdle

\* Every reachable state is well-typed.
THEOREM TypeCorrect == Spec => []TypeOK
  BY TypeInit, TypeStep, PTL DEF Spec

\* Every step keeps the invariant.
LEMMA IInvStep == IInv /\ [Next]_vars => IInv'
<1> SUFFICES ASSUME IInv, [Next]_vars PROVE ListsInv' /\ ClaimsInv' /\ KeybasesWereVouched'
  BY TypeStep DEF IInv
<1>1. ASSUME NEW k \in Keybase, NEW i \in Claim, ChangeClaim(k, i)
      PROVE  ListsInv' /\ ClaimsInv' /\ KeybasesWereVouched'
  BY <1>1 DEF IInv, ListsInv, ClaimsInv, KeybasesWereVouched, TypeOK, Claim, ChangeClaim
<1>2. ASSUME NEW i \in Identity, NEW keys \in List, ChangeFile(i, keys)
      PROVE  ListsInv' /\ ClaimsInv' /\ KeybasesWereVouched'
  BY <1>2 DEF IInv, ListsInv, ClaimsInv, KeybasesWereVouched, ChangeFile
<1>3. ASSUME NEW i \in Identity, NEW keys \in List, ChangePage(i, keys)
      PROVE  ListsInv' /\ ClaimsInv' /\ KeybasesWereVouched'
  BY <1>3 DEF IInv, ListsInv, ClaimsInv, KeybasesWereVouched, ChangePage
<1>4. CASE FlushRedis
  BY <1>4 DEF IInv, ListsInv, ClaimsInv, KeybasesWereVouched, NoKeybases, FlushRedis
<1>5. ASSUME NEW k \in Keybase, ExpireConfirmation(k)
      PROVE  ListsInv' /\ ClaimsInv' /\ KeybasesWereVouched'
  BY <1>5 DEF IInv, ListsInv, ClaimsInv, KeybasesWereVouched, ExpireConfirmation, world
<1>6. CASE GetProvidersKeybases
  <2>1. pub'.keys = NoList
    BY <1>6, PubIdleFact DEF GetProvidersKeybases, PubRun
  <2> QED
    BY <1>6, <2>1 DEF IInv, ListsInv, ClaimsInv, KeybasesWereVouched, GetProvidersKeybases, world
<1>7. CASE GetNodesKeybases
  BY <1>7 DEF IInv, ListsInv, ClaimsInv, KeybasesWereVouched, GetNodesKeybases, world
<1>8. ASSUME NEW i \in Identity, ConfirmAgainstDatabase(i)
      PROVE  ListsInv' /\ ClaimsInv' /\ KeybasesWereVouched'
  BY <1>8
     DEF IInv, ListsInv, ClaimsInv, KeybasesWereVouched, ConfirmAgainstDatabase, Confirm, world
<1>9. ASSUME NEW i \in Identity, DatabaseError(i)
      PROVE  ListsInv' /\ ClaimsInv' /\ KeybasesWereVouched'
  BY <1>9 DEF IInv, ListsInv, ClaimsInv, KeybasesWereVouched, DatabaseError, world
<1>10. ASSUME NEW i \in Identity, NextIdentity(i)
      PROVE  ListsInv' /\ ClaimsInv' /\ KeybasesWereVouched'
  BY <1>10 DEF IInv, ListsInv, ClaimsInv, KeybasesWereVouched, NextIdentity, world
<1>11. CASE ConfirmAgainstGithub
  BY <1>11
     DEF IInv, ListsInv, ClaimsInv, KeybasesWereVouched, TypeOK, PubRun, Claim,
          ConfirmAgainstGithub, Reading, ReadKeys, Confirm, world
<1>12. CASE NoFile
  BY <1>12 DEF IInv, ListsInv, ClaimsInv, KeybasesWereVouched, NoFile, NoKeys, world
<1>13. CASE ConfirmAgainstKeybasePub
  BY <1>13
     DEF IInv, ListsInv, ClaimsInv, KeybasesWereVouched, TypeOK, PubRun, Claim,
          ConfirmAgainstKeybasePub, Reading, ReadKeys, Confirm, world
<1>14. CASE NoPage
  BY <1>14 DEF IInv, ListsInv, ClaimsInv, KeybasesWereVouched, NoPage, NoKeys, world
<1>15. CASE GithubError
  BY <1>15 DEF IInv, ListsInv, ClaimsInv, KeybasesWereVouched, GithubError, NoKeys, world
<1>16. CASE KeybasePubError
  BY <1>16
     DEF IInv, ListsInv, ClaimsInv, KeybasesWereVouched, TypeOK, PubRun, KeybasePubError,
          NoKeys, world
<1>17. CASE SetKeybaseConfirmation
  BY <1>17 DEF IInv, ListsInv, ClaimsInv, KeybasesWereVouched, SetKeybaseConfirmation, world
<1>18. CASE PubEnds
  BY <1>18 DEF IInv, ListsInv, ClaimsInv, KeybasesWereVouched, PubIdle, PubEnds, world
<1>19. CASE ReadProviderClaims
  BY <1>19 DEF IInv, ListsInv, ClaimsInv, KeybasesWereVouched, ReadProviderClaims, Only, world
<1>20. CASE ReadNodeClaims
  BY <1>20 DEF IInv, ListsInv, ClaimsInv, KeybasesWereVouched, ReadNodeClaims, world
<1>21. CASE ReadConfirmations
  BY <1>21 DEF IInv, ListsInv, ClaimsInv, KeybasesWereVouched, ReadConfirmations, Only, world
<1>22. CASE InvalidateKeybases
  BY <1>22
     DEF IInv, ListsInv, ClaimsInv, KeybasesWereVouched, NoKeybases, CacheIdle,
          InvalidateKeybases, world
<1>23. CASE Fail
  <2>1. CASE pub' = PubIdle /\ UNCHANGED cached
    BY <1>23, <2>1, PubIdleFact DEF IInv, ListsInv, ClaimsInv, KeybasesWereVouched, Fail, world
  <2>2. CASE cached' = CacheIdle /\ UNCHANGED pub
    BY <1>23, <2>2
       DEF IInv, ListsInv, ClaimsInv, KeybasesWereVouched, CacheIdle, NoKeybases, Fail, world
  <2> QED
    BY <1>23, <2>1, <2>2 DEF Fail
<1>24. CASE UNCHANGED vars
  BY <1>24 DEF IInv, ListsInv, ClaimsInv, KeybasesWereVouched, world, vars
<1> QED
  BY <1>1, <1>2, <1>3, <1>4, <1>5, <1>6, <1>7, <1>8, <1>9, <1>10, <1>11, <1>12, <1>13, <1>14,
       <1>15, <1>16, <1>17, <1>18, <1>19, <1>20, <1>21, <1>22, <1>23, <1>24
     DEF Next, World, PubStep, CacheStep, Faults

\* Every copy of a list was listed, and every copy of a claim was claimed.
THEOREM Invariance == Spec => []IInv
<1>1. Init => IInv
  <2> SUFFICES ASSUME Init PROVE ListsInv /\ ClaimsInv /\ KeybasesWereVouched
    BY TypeInit DEF IInv
  <2>1. ListsInv
    BY DEF Init, ListsInv, PubIdle
  <2>2. ClaimsInv /\ KeybasesWereVouched
    BY DEF Init, ClaimsInv, KeybasesWereVouched, NoKeybases, CacheIdle
  <2> QED
    BY <2>1, <2>2
<1> QED
  BY <1>1, IInvStep, PTL DEF Spec

\* A key is only ever shown with an identity that it claimed, after an identity listed it.
THEOREM ShownAfterVouching == Spec => []KeybasesWereVouched
  BY Invariance, PTL DEF IInv

=============================================================================
