------------------------------- MODULE MCLogin -------------------------------
(* Small instances of Login for TLC. *)
EXTENDS Login

\* +234 803 1234567, and the same with the zero and the spaces people write
Normal == [plus |-> TRUE, marks |-> FALSE,
           digits |-> <<2, 3, 4, 8, 0, 3, 1, 2, 3, 4, 5, 6, 7>>]
Spaced == [plus |-> TRUE, marks |-> TRUE,
           digits |-> <<2, 3, 4, 0, 8, 0, 3, 1, 2, 3, 4, 5, 6, 7>>]

\* as it is dialled in Nigeria, and a number that is none
Local == [plus |-> FALSE, marks |-> FALSE,
          digits |-> <<0, 8, 0, 3, 1, 2, 3, 4, 5, 6, 7>>]
Short == [plus |-> FALSE, marks |-> FALSE, digits |-> <<8, 0, 3>>]

\* of them, those that a registration accepts
Numbers == {Normal, Spaced, Local, Short}
Phones1 == {n \in {Normal, Local, Short} : Accepted(n, 0)}
Phones2 == {n \in Numbers : Accepted(n, 0)}
=============================================================================
