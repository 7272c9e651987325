-------------------------- MODULE MCNftProcessing --------------------------
(* Model values and symmetry for NftProcessing. *)
EXTENDS NftProcessing, TLC

CONSTANTS u1, w1, w2, j1, j2

Refreshes == {{"forceMedia", "forceMetadata", "forceThumbnail"}}
Thumbnails == {{"forceThumbnail"}}
NoRequests == {}

Symmetry == Permutations({w1, w2}) \cup Permutations({j1, j2})

=============================================================================
