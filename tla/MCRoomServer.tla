---------------------------- MODULE MCRoomServer ----------------------------
(* RoomServer with its history, its refinement and its documented claims for  *)
(* TLC.  Steady and the other users are told apart by the bounds, so each set *)
(* permutes alone; Renewers is empty, all of Users or Steady.                 *)
EXTENDS RoomServerAccess, RoomServerClaims, RoomServerNames, TLC

Symmetry == Permutations(Steady) \cup Permutations(Users \ Steady)
              \cup Permutations(Rooms) \cup Permutations(Names)
              \cup Permutations(Slots)
=============================================================================
