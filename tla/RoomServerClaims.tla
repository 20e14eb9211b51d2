-------------------------- MODULE RoomServerClaims --------------------------
(* What the repository's documents say of rooms and the server does not do.  *)
(* TLC shows a run of the server against each; the README has the instances.  *)
EXTENDS RoomServer

\* README.md:16: a locked room lets in nobody but guests that joined before.
\* joinRoom reads the lock, then awaits the token, and adds the guest whatever
\* lockRoom has answered meanwhile.
LockBarsNewGuests ==
  [][\A r \in live : locked[r] =>
       \A m \in users'[r] \ users[r] : ~isUniqueUsername(r, m.name)]_vars

\* README.md:16: a room is locked by its creator.  No guest is ever accepted
\* by invitation under the name that carries the creator's privileges.
\* _cleanExpiredRoomMemory frees the creator's name while it is in use.
OwnerIsCreator == \A r \in Rooms : ownerUsername[r] \notin guests[r]

\* README.md:14: a room is discarded once nobody has been connected for its
\* lifespan.  A continuation that ends after onclose adds a participant no
\* callback and no collector pass will ever remove.
AllGone == \A u \in Users : ws[u] = "closed"
ShortLivedRooms ==
  (AllGone /\ clock + EmptyRoomLife < MaxClock) ~> (live = {})

\* README.md:15: a user can join back any room that is still alive.  While a
\* valid token of a name nobody uses is in a client's hands, the room accepts
\* one of them.  addUser replaces the remembered token even when the reply that
\* carries the new one finds the socket closing.
RejoinStaysPossible ==
  \A r \in live, n \in Names :
    LET valid == {t \in handed : t.room = r /\ t.name = n /\ ~Expired(t)}
    IN  valid # {} /\ ~isInUseUsername(r, n) => \E t \in valid : Accepts(t)
=============================================================================
