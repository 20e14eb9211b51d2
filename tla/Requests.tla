------------------------------- MODULE Requests -------------------------------
(***************************************************************************)
(* What SocketService.send promises its callers, and what it does not: a   *)
(* request ends at most once, with the server's answer to it or with a     *)
(* failure; the server handles it at most once, perhaps after it failed,   *)
(* and it may fail although the server has handled it.                     *)
(***************************************************************************)
CONSTANT Ask  \* the requests callers make

VARIABLES
  request,  \* "idle", "waiting", "answered" or "failed"
  served    \* those the server has handled

requestsVars == <<request, served>>

Init == request = [r \in Ask |-> "idle"] /\ served = {}

Make(r) ==
  /\ request[r] = "idle"
  /\ request' = [request EXCEPT ![r] = "waiting"]
  /\ UNCHANGED served
Serve(r) ==
  /\ request[r] # "idle" /\ r \notin served
  /\ served' = served \cup {r}
  /\ UNCHANGED request
Answer(r) ==
  /\ request[r] = "waiting" /\ r \in served
  /\ request' = [request EXCEPT ![r] = "answered"]
  /\ UNCHANGED served
Fail(r) ==
  /\ request[r] = "waiting"
  /\ request' = [request EXCEPT ![r] = "failed"]
  /\ UNCHANGED served

Next == \E r \in Ask : Make(r) \/ Serve(r) \/ Answer(r) \/ Fail(r)
Spec == Init /\ [][Next]_requestsVars
===============================================================================
