--------------------------- MODULE MCRefreshTokens ---------------------------
(* Small instances of RefreshTokens for TLC. *)
EXTENDS RefreshTokens, TLC

\* uuids, requests and devices are interchangeable
Symmetry == Permutations(TokenId) \cup Permutations(Request)
            \cup Permutations(Device) \cup Permutations(User)
=============================================================================
