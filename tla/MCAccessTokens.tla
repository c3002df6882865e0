---------------------------- MODULE MCAccessTokens ----------------------------
(* Small instances of AccessTokens for TLC. *)
EXTENDS AccessTokens, TLC

\* uuids, handlers, users and devices are interchangeable
Symmetry == Permutations(Jti) \cup Permutations(SessionId)
            \cup Permutations(Issuer) \cup Permutations(Request)
            \cup Permutations(User) \cup Permutations(Device)
=============================================================================
