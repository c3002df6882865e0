---------------------------- MODULE MCTokenMapping ----------------------------
(* Small instances of TokenMapping for TLC. *)
EXTENDS TokenMapping, TLC

CONSTANTS u1, u2, x1

\* The token of a registration and of a login of one user, and another user's.
Accounts == {[userId |-> u1, authId |-> u1], [userId |-> u1, authId |-> x1],
             [userId |-> u2, authId |-> u2]}

\* uuids and calls are interchangeable
Symmetry == Permutations(OpaqueId) \cup Permutations(Handler)

\* Of the two exceptions of ListComplete, only that calls have overlapped on the
\* list which a registration and a login share.
FewExceptions ==
    extended = {} /\ overlapped \subseteq {[kind |-> "userId", id |-> u1]}
=============================================================================
