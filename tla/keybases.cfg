\* A node, a provider and an identity that change, and Redis is emptied, up to four times.
CONSTANTS
    n1 = n1
    p1 = p1
    i1 = i1
    None = None
    Bls = {n1}
    Provider = {p1}
    Identity = {i1}
    MaxChanges = 4
SPECIFICATION FairSpec
INVARIANTS
    TypeOK
    KeybasesWereVouched
PROPERTIES
    ListedClaimIsShown
    WithdrawnClaimIsDropped
    UnlistedClaimIsDropped
    DatabaseStandsIn
