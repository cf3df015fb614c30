----------------------------- MODULE Accounts ------------------------------
(***************************************************************************)
(* The accounts of the people (UserService in user.service.ts): roles say  *)
(* what one may do, areas where one works, and the account of a branch is  *)
(* shared by the whole branch, whose orders hang from it.  An update looks *)
(* at the row before it writes, and a removal takes the account's orders   *)
(* with it, once it has seen that none is of a branch.  A session keeps the *)
(* roles and areas of its last login (AuthService), so it may act on what   *)
(* the account no longer is.                                                *)
(***************************************************************************)
EXTENDS Integers, FiniteSets

CONSTANTS
  Users,       \* accounts that may come to exist
  Roles,       \* roles: "sucursal" and those that see everything
  Areas,       \* areas
  Workers,     \* requests that may run at the same time
  MaxRequests  \* bound: requests ever made

BranchRole == "sucursal"      \* BRANCH_ROLE_NAME
Branches == {{}, {"la sucursal"}}   \* branchId, or none
Nobody == "nadie"
Same   == {"igual"}           \* a field an update does not give
Gone   == [roles |-> {}, areas |-> {}, branch |-> {}]
NoJob  == [user |-> Nobody, roles |-> Same, areas |-> Same, branch |-> Same, late |-> FALSE]
Causes == {"solapadas", "rol borrado", "desvinculada"}

NoToken == "sin sesion"

VARIABLES
  live,      \* accounts that exist
  account,   \* their roles, areas and branchId
  role,      \* roles that exist
  area,      \* areas that are active
  open,      \* Branch.active
  orders,    \* accounts with orders: of the house, and of the branch
  token,     \* what the session of each account says it is
  pc, job,   \* where each request is, and what it asks for
  drift,     \* history: what an account went through, besides its own edits
  lost,      \* history: accounts removed with orders of the branch
  requests

vars == << live, account, role, area, open, orders, token, pc, job, drift, lost, requests >>
world == << role, area, open, token >>

Init ==
  /\ live = {} /\ account = [u \in Users |-> Gone]
  /\ role = Roles /\ area = Areas /\ open = TRUE
  /\ orders = [house |-> {}, branch |-> {}] /\ token = [u \in Users |-> NoToken]
  /\ pc = [w \in Workers |-> "libre"] /\ job = [w \in Workers |-> NoJob]
  /\ drift = [u \in Users |-> {}] /\ lost = {} /\ requests = 0

-----------------------------------------------------------------------------
(* assertBranchForRoles and assertAssignableAreas.                          *)
BranchGiven(roles, branch) == BranchRole \in roles => branch # {}
Assignable(areas) == areas \subseteq area

Given(asked, now) == IF asked = Same THEN now ELSE asked

(* Mutant of KeepsSome: an account without roles is fine.                   *)
KeepsSomeArea(u, roles, areas) ==
  areas = {} => Given(roles, account[u].roles) # {}
(* assertKeepsSomeAccess, when one of the two lists given is empty.         *)
KeepsSome(u, roles, areas) ==
  {} \in {roles, areas} =>
    Given(roles, account[u].roles) # {} \/ Given(areas, account[u].areas) # {}

Request == requests < MaxRequests /\ requests' = requests + 1
Begin(w, where, j) ==
  /\ pc[w] = "libre" /\ Request
  /\ pc' = [pc EXCEPT ![w] = where]
  /\ job' = [job EXCEPT ![w] = j]

(* A request writes: those under way about the account have read it before. *)
Cut(u, w) == [v \in Workers |-> IF v = w THEN NoJob
                                ELSE [job[v] EXCEPT !.late = @ \/ job[v].user = u]]
End(w) ==
  /\ pc' = [pc EXCEPT ![w] = "libre"]
  /\ job' = Cut(job[w].user, w)
  /\ UNCHANGED requests

Create(u, roles, areas, branch) ==
  /\ u \notin live /\ account[u] = Gone /\ drift[u] = {} /\ Request
  /\ roles # {} \/ areas # {}
  /\ BranchGiven(roles, branch) /\ Assignable(areas) /\ roles \subseteq role
  /\ live' = live \cup {u}
  /\ account' = [account EXCEPT ![u] = [roles |-> roles, areas |-> areas, branch |-> branch]]
  /\ UNCHANGED << world, orders, pc, job, drift, lost >>

-----------------------------------------------------------------------------
(* update: each list it gives replaces the account's; branchId null unlinks.*)
UpdateRead(w, u, roles, areas, branch) ==
  /\ u \in live
  /\ roles # Same => BranchGiven(roles, Given(branch, account[u].branch))
  /\ areas # Same => Assignable(areas)
  /\ KeepsSome(u, roles, areas)
  /\ Begin(w, "edita", [NoJob EXCEPT !.user = u, !.roles = roles, !.areas = areas,
                                     !.branch = branch])
  /\ UNCHANGED << live, account, world, orders, drift, lost >>

UpdateWrite(w) ==
  LET j == job[w]
      u == j.user
      next == [roles  |-> Given(j.roles, account[u].roles),
               areas  |-> Given(j.areas, account[u].areas),
               branch |-> Given(j.branch, account[u].branch)]
  IN /\ pc[w] = "edita"
     /\ IF u \in live /\ next.roles \subseteq role
        THEN /\ account' = [account EXCEPT ![u] = next]
             /\ drift' = [drift EXCEPT ![u] = @
                  \cup (IF j.late THEN {"solapadas"} ELSE {})
                  \cup (IF j.roles = Same /\ j.branch = {} THEN {"desvinculada"} ELSE {})]
        ELSE UNCHANGED << account, drift >>              \* P2025
     /\ End(w)
     /\ UNCHANGED << live, world, orders, lost >>

-----------------------------------------------------------------------------
(* remove: refused for the account of a branch or one with orders of it.    *)
Removable(u) ==
  /\ account[u].branch = {} /\ BranchRole \notin account[u].roles
  /\ u \notin orders.branch

RemoveRead(w, u) ==
  /\ u \in live /\ Removable(u)
  /\ Begin(w, "borra", [NoJob EXCEPT !.user = u])
  /\ UNCHANGED << live, account, world, orders, drift, lost >>

(* Mutant of OrdersAfter: the orders of the account outlive it.             *)
OrdersAfterKept(u) == orders
(* The transaction: the account's orders, whichever they are, and itself.   *)
OrdersAfter(u) == [house |-> orders.house \ {u}, branch |-> orders.branch \ {u}]

RemoveWrite(w) ==
  LET u == job[w].user
  IN /\ pc[w] = "borra"
     /\ IF u \in live
        THEN /\ lost' = lost \cup ({u} \cap orders.branch)
             /\ drift' = [drift EXCEPT ![u] = @ \cup (IF job[w].late THEN {"solapadas"} ELSE {})]
        ELSE UNCHANGED << lost, drift >>
     /\ live' = live \ {u}
     /\ account' = [account EXCEPT ![u] = Gone]
     /\ orders' = OrdersAfter(u)
     /\ End(w)
     /\ UNCHANGED world

-----------------------------------------------------------------------------
(* login and refresh: roles and active areas as they are now.  What counts   *)
(* here is whether the role of a branch is there, and alone                  *)
(* (isBranchOnlyUser).                                                       *)
SessionOf(u) ==
  IF BranchRole \notin account[u].roles THEN "de la casa"
  ELSE IF account[u].roles = {BranchRole} /\ account[u].areas \cap area = {}
       THEN "solo sucursal" ELSE "sucursal"

Login(u) ==
  /\ u \in live
  /\ token' = [token EXCEPT ![u] = SessionOf(u)]
  /\ UNCHANGED << live, account, role, area, open, orders, pc, job, drift, lost, requests >>

(* OrderService.create: a session with the role makes orders of its branch  *)
(* (branchOfUser), which has to be active; any other, of the house.  Only   *)
(* one that is a branch and nothing else cannot make them for someone else. *)
TakeOrder(u, owner) ==
  /\ token[u] # NoToken /\ owner \in live      \* the session outlives its account
  /\ token[u] = "solo sucursal" => owner = u
  /\ IF token[u] = "de la casa"
     THEN orders' = [orders EXCEPT !.house = @ \cup {owner}]
     ELSE /\ account[u].branch # {} /\ open
          /\ orders' = [orders EXCEPT !.branch = @ \cup {owner}]
  /\ job' = [v \in Workers |-> [job[v] EXCEPT !.late = @ \/ job[v].user = owner]]
  /\ UNCHANGED << live, account, world, pc, drift, lost, requests >>

(* RoleService.remove: the role leaves every account that has it.           *)
DeleteRole(r) ==
  /\ r \in role /\ role' = role \ {r}
  /\ account' = [u \in Users |-> [account[u] EXCEPT !.roles = @ \ {r}]]
  /\ drift' = [u \in Users |-> IF u \in live /\ r \in account[u].roles
                               THEN drift[u] \cup {"rol borrado"} ELSE drift[u]]
  /\ UNCHANGED << live, area, open, token, orders, pc, job, lost, requests >>

(* AreaAdminService.update and BranchService.update.                        *)
SwitchArea(a) ==
  /\ Request
  /\ area' = (area \cup {a}) \ (area \cap {a})
  /\ UNCHANGED << live, account, role, open, token, orders, pc, job, drift, lost >>
SwitchBranch ==
  /\ Request
  /\ open' = ~open
  /\ UNCHANGED << live, account, role, area, token, orders, pc, job, drift, lost >>

-----------------------------------------------------------------------------
Next ==
  \/ \E u \in Users, r \in SUBSET Roles, a \in SUBSET Areas, b \in Branches :
       Create(u, r, a, b)
  \/ \E w \in Workers, u \in Users :
       \/ \E r \in {Same} \cup SUBSET Roles, a \in {Same} \cup SUBSET Areas,
             b \in {Same} \cup Branches : UpdateRead(w, u, r, a, b)
       \/ RemoveRead(w, u)
  \/ \E w \in Workers : UpdateWrite(w) \/ RemoveWrite(w)
  \/ \E u \in Users : Login(u) \/ \E owner \in Users : TakeOrder(u, owner)
  \/ \E r \in Roles : DeleteRole(r)
  \/ \E a \in Areas : SwitchArea(a)
  \/ SwitchBranch

Spec == Init /\ [][Next]_vars

-----------------------------------------------------------------------------
(* Type invariant.                                                          *)
TypeOK ==
  /\ live \subseteq Users
  /\ account \in [Users -> [roles : SUBSET Roles, areas : SUBSET Areas, branch : Branches]]
  /\ \A u \in Users \ live : account[u] = Gone
  /\ role \subseteq Roles /\ area \subseteq Areas /\ open \in BOOLEAN
  /\ token \in [Users -> {NoToken, "de la casa", "sucursal", "solo sucursal"}]
  /\ orders.house \subseteq live /\ orders.branch \subseteq live
  /\ pc \in [Workers -> {"libre", "edita", "borra"}]
  /\ \A w \in Workers : (pc[w] = "libre") = (job[w] = NoJob)
  /\ drift \in [Users -> SUBSET Causes]

(* No edit leaves an account with neither role nor area, nor the account of *)
(* a branch without its branch, unless two requests about it overlapped, a  *)
(* role of its own was deleted or its branch was taken without giving its   *)
(* roles; and no order of a branch goes with an account, unless the account *)
(* changed or took the order while it was being removed.                    *)
AccountsKeepAccess ==
  /\ \A u \in live :
       /\ account[u].roles = {} /\ account[u].areas = {} =>
            drift[u] \cap {"solapadas", "rol borrado"} # {}
       /\ BranchRole \in account[u].roles /\ account[u].branch = {} =>
            drift[u] \cap {"solapadas", "desvinculada"} # {}
  /\ \A u \in lost : "solapadas" \in drift[u]
=============================================================================
