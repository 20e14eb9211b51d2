-------------------------- MODULE RoomServerNames --------------------------
(* RoomServer with a history of the joins that overlap: the names that two    *)
(* continuations at once were about to add to a room.                         *)
EXTENDS RoomServer

VARIABLE raced  \* names of each room that overlapping joins have got through

\* A join of room r under name n has been accepted, its user is not added yet.
Joins(s, r, n) ==
  Runs(s, "add") /\ job[s].token.room = r /\ job[s].token.name = n
Overlapping(r, n) ==
  \E s, z \in Slots : s # z /\ Joins(s, r, n) /\ Joins(z, r, n)
\* Two have the name, or one has it while a join under it is pending.
Doubled(r, n) ==
  \/ isInUseUsername(r, n) /\ \E s \in Slots : Joins(s, r, n)
  \/ \E m, w \in users[r] : m # w /\ m.name = n /\ w.name = n

\* A name is noted when two joins under it are pending, and forgotten when it
\* is no longer double.
NoteRaces ==
  raced' = [r \in Rooms |->
    {n \in Names : Overlapping(r, n)' \/ (n \in raced[r] /\ Doubled(r, n)')}]

NotedInit == Init /\ raced = [r \in Rooms |-> {}]
NotedNext == Next /\ NoteRaces
NotedSpec == NotedInit /\ [][NotedNext]_<<vars, raced>>
NotedFairSpec == NotedSpec /\ Fairness

\* Two participants of a room carry one name only when their joins overlapped
\* or a token for the name has expired: joinRoom's checks, the room's memory
\* of tokens and its cleaner let no name in twice otherwise, whatever users
\* present, leave and close in between.
UniqueNames ==
  \A r \in Rooms : \A m, w \in users[r] :
    m.name = w.name /\ m # w => m.name \in raced[r] \/ ExpiredName(r, m.name)
=============================================================================
