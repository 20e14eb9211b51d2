--------------------------- MODULE MCRoomSession ---------------------------
(* RoomSession for TLC.  The owner and the fragile clients are told apart.    *)
EXTENDS RoomSession, TLC

Symmetry == Permutations(Fragile \ {Owner})
              \cup Permutations((Clients \ Fragile) \ {Owner})
=============================================================================
