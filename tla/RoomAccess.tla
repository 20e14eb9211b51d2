----------------------------- MODULE RoomAccess -----------------------------
(***************************************************************************)
(* What lepeerchat promises about getting into a room, without messages,   *)
(* sockets, promises, tokens or time: a room is joined on invitation only, *)
(* a locked room invites nobody new, whoever has been let in may come      *)
(* back, and a room is discarded only when nobody is inside.               *)
(***************************************************************************)
CONSTANTS Users, Rooms, Names, NoName

VARIABLES
  alive,    \* rooms that exist
  creator,  \* the name each room was created under
  guests,   \* names let in by invitation
  locked,
  inside    \* participants of each room

vars == <<alive, creator, guests, locked, inside>>

Participant == [user : Users, name : Names]

Init ==
  /\ alive = {}
  /\ creator = [r \in Rooms |-> NoName]
  /\ guests = [r \in Rooms |-> {}]
  /\ locked = [r \in Rooms |-> FALSE]
  /\ inside = [r \in Rooms |-> {}]

Found(r, u, n) ==
  /\ creator[r] = NoName
  /\ alive' = alive \cup {r}
  /\ creator' = [creator EXCEPT ![r] = n]
  /\ inside' = [inside EXCEPT ![r] = {[user |-> u, name |-> n]}]
  /\ UNCHANGED <<guests, locked>>

\* Only somebody inside under the creator's name locks and unlocks.
SetLock(r, b) ==
  /\ \E m \in inside[r] : m.name = creator[r]
  /\ locked' = [locked EXCEPT ![r] = b]
  /\ UNCHANGED <<alive, creator, guests, inside>>

Admit(r, n) ==
  /\ r \in alive /\ ~locked[r]
  /\ guests' = [guests EXCEPT ![r] = @ \cup {n}]
  /\ UNCHANGED <<alive, creator, locked, inside>>

\* Locked or not, an admitted name comes in, comes back, or changes seats.
Enter(r, u, n) ==
  /\ r \in alive /\ n \in guests[r] \cup {creator[r]}
  /\ inside' = [inside EXCEPT ![r] =
       {m \in @ : m.user # u} \cup {[user |-> u, name |-> n]}]
  /\ UNCHANGED <<alive, creator, guests, locked>>

\* The participants in out[r] leave each room r, and empty rooms may go.
Depart(out, gone) ==
  /\ gone \subseteq alive
  /\ inside' = [r \in Rooms |-> {m \in inside[r] : m.user \notin out[r]}]
  /\ \A r \in gone : inside'[r] = {}
  /\ alive' = alive \ gone
  /\ UNCHANGED <<creator, guests, locked>>

Next ==
  \/ \E r \in Rooms, u \in Users, n \in Names : Found(r, u, n) \/ Enter(r, u, n)
  \/ \E r \in Rooms, b \in BOOLEAN : SetLock(r, b)
  \/ \E r \in Rooms, n \in Names : Admit(r, n)
  \/ \E out \in [Rooms -> SUBSET Users], gone \in SUBSET Rooms : Depart(out, gone)

Spec == Init /\ [][Next]_vars
=============================================================================
