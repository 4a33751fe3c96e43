------------------------- MODULE MCGroupMembership -------------------------
(* TLC instances of GroupMembership. *)
EXTENDS GroupMembership, TLC

\* Users, request ids, transactions and group ids are interchangeable.
Symmetry == Permutations(Users) \cup Permutations(Requests)
              \cup Permutations(Txns) \cup Permutations(Groups)

=============================================================================
