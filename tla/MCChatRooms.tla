---------------------------- MODULE MCChatRooms ----------------------------
(***************************************************************************)
(* Instances of ChatRooms for TLC; the .cfg files set the bounds.          *)
(***************************************************************************)
EXTENDS ChatRooms, TLC

Symmetry == Permutations(Users) \cup Permutations(Sockets) \cup Permutations(Calls)

=============================================================================
