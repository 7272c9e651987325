\* Two epochs, a merge, failing runs, and auctions added to the nodes.
CONSTANTS
    n1 = n1
    n2 = n2
    a = a
    b = b
    p = p
    None = None
    Bls = {n1, n2}
    Wallet = {a, b}
    Provider = {p}
    Validator <- FirstOwners
    OwnerOf <- ContractOwners
    MaxEpoch = 1
    Expiring = {n1}
SPECIFICATION FairSpec
INVARIANTS
    TypeOK
    MergeIsSeen
PROPERTY OwnersShown
