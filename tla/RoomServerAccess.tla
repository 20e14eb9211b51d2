-------------------------- MODULE RoomServerAccess --------------------------
(* The server implements RoomAccess: a room that has left the rooms map has *)
(* nobody inside, even if a late continuation still writes to its object.   *)
EXTENDS RoomServer

Access == INSTANCE RoomAccess WITH
  alive <- live,
  creator <- ownerUsername,
  inside <- [r \in Rooms |-> IF r \in live THEN users[r] ELSE {}]

\* Every step of the server is a step RoomAccess allows, or changes nothing
\* that RoomAccess shows.
ImplementsRoomAccess == Access!Spec
=============================================================================
