---------------------------- MODULE MCNodeOwners ----------------------------
(***************************************************************************)
(* A key that its wallet merges into a provider, which has a key already.  *)
(***************************************************************************)
EXTENDS NodeOwners, TLC

CONSTANTS n1, n2, a, b, p

FirstOwners == n1 :> a @@ n2 :> p
ContractOwners == p :> b

=============================================================================
