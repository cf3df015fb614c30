------------------------------ MODULE Presence ------------------------------
(***************************************************************************)
(* Who is online (NotificationsGateway).  A user has one room and any      *)
(* number of sockets; joining it first and leaving it last are broadcast,  *)
(* the second only after lastSeenAt was saved, and the sockets of an       *)
(* account that only sees a branch join after a query.                     *)
(***************************************************************************)
EXTENDS Integers, FiniteSets

CONSTANTS
  Sockets,       \* sockets of one user
  MaxConnects    \* bound: connections ever made

VARIABLES
  branchOnly,    \* isBranchOnlyUser
  socket,        \* where the handler of each socket is
  shown,         \* what the last presenceChanged said
  connects,
  drift          \* history: a departure announced after a later arrival

vars == << branchOnly, socket, shown, connects, drift >>

Room == {s \in Sockets : socket[s] = "dentro"}

Init ==
  /\ branchOnly \in BOOLEAN
  /\ socket = [s \in Sockets |-> "fuera"]
  /\ shown = FALSE
  /\ connects = 0
  /\ drift = FALSE

At(s, where) == socket' = [socket EXCEPT ![s] = where]

FirstIn(room) == Cardinality(room) = 1

(* Joining the room and looking at its size are one synchronous block.      *)
Join(s) ==
  /\ At(s, "dentro")
  /\ shown' = (shown \/ FirstIn(Room \cup {s}))
  /\ UNCHANGED << branchOnly, drift >>

Connect(s) ==
  /\ socket[s] = "fuera"
  /\ connects < MaxConnects
  /\ connects' = connects + 1
  /\ IF branchOnly THEN At(s, "consulta") /\ UNCHANGED << branchOnly, shown, drift >>
                   ELSE Join(s)

(* branchIdOfUser answered.  A socket that closed meanwhile joins nothing,  *)
(* but the handler still looks at the room.                                 *)
BranchRead(s) ==
  /\ \/ socket[s] = "consulta" /\ Join(s)
     \/ /\ socket[s] = "abandona"
        /\ At(s, "fuera")
        /\ shown' = (shown \/ FirstIn(Room))
        /\ UNCHANGED << branchOnly, drift >>
  /\ UNCHANGED connects

LastOut(room) == room = {}

Disconnect(s) ==
  /\ \/ socket[s] = "consulta" /\ At(s, "abandona")
     \/ socket[s] = "dentro" /\ At(s, IF LastOut(Room \ {s}) THEN "guarda" ELSE "fuera")
  /\ UNCHANGED << branchOnly, shown, connects, drift >>

(* lastSeenAt was saved, or failed to be.                                   *)
Saved(s) ==
  /\ socket[s] = "guarda"
  /\ At(s, "fuera")
  /\ shown' = FALSE
  /\ drift' = (drift \/ Room # {})
  /\ UNCHANGED << branchOnly, connects >>

Next == \E s \in Sockets : Connect(s) \/ BranchRead(s) \/ Disconnect(s) \/ Saved(s)

Spec == Init /\ [][Next]_vars

-----------------------------------------------------------------------------
(* Type invariant.                                                          *)
TypeOK ==
  /\ socket \in [Sockets -> {"fuera", "consulta", "abandona", "dentro", "guarda"}]
  /\ {branchOnly, shown, drift} \subseteq BOOLEAN
  /\ connects \in 0..MaxConnects

(* Nobody is shown online for ever: somebody shown online has a socket, or  *)
(* the departure of the last one is about to be announced.  And somebody    *)
(* with a socket is shown online, unless the announcement of an earlier     *)
(* departure overtook the connection.                                       *)
PresenceTold ==
  /\ shown => Room # {} \/ \E s \in Sockets : socket[s] = "guarda"
  /\ Room # {} /\ ~drift => shown
=============================================================================
