--------------------------- MODULE SharedResource ---------------------------
(***************************************************************************)
(* What a process-wide resource shared by several users promises: it is    *)
(* brought up on behalf of somebody who is using it and it is given back   *)
(* only when nobody is.  OtelLifecycle implements this specification       *)
(* twice, for the dynamically loaded OTel library and for the log file.    *)
(***************************************************************************)
CONSTANT Users

VARIABLES
  users,   \* the members of Users that currently rely on the resource
  up       \* TRUE while the resource is held by the process

Init == users = {} /\ up = FALSE

Join(u) ==
  /\ u \notin users
  /\ users' = users \cup {u}
  /\ UNCHANGED up

Leave(u) ==
  /\ u \in users
  /\ users' = users \ {u}
  /\ UNCHANGED up

Acquire == 
  /\ users # {}
  /\ up' = TRUE
  /\ UNCHANGED users

Release == 
  /\ users = {}
  /\ up' = FALSE
  /\ UNCHANGED users

Next == 
  \/ \E u \in Users : Join(u) \/ Leave(u)
  \/ Acquire
  \/ Release

Spec == Init /\ [][Next]_<<users, up>>
=============================================================================
