---------------------------- MODULE OrderNotices ----------------------------
(***************************************************************************)
(* Who hears of one order.  A handler commits its change and then gives    *)
(* its notices one by one: a notice is a row for each person it is for, by *)
(* what the database says now, and a ring to the sockets of a room, which  *)
(* each socket joined when it connected.  The notice of a round goes to    *)
(* whoever followed the order when the handler read it.                    *)
(***************************************************************************)
EXTENDS Naturals, Sequences, FiniteSets

CONSTANTS
  Workers,       \* requests in progress
  MaxRequests,   \* bound: requests
  MaxRounds,     \* bound: rounds sent
  MaxMoves       \* bound: changes of areas, branches, sockets and preferences

VARIABLES
  order,     \* Order: stage, userId, attendedByUserId, assignedUserId, branch
  member,    \* areas of the person who moves; Home of the branch account
  rooms,     \* rooms its socket joined, {} with none
  muted,     \* notificationsMuted
  rows,      \* Notification rows: person, matter, round
  heard,     \* what the sockets were told
  pc, job,   \* where each request is; what it read and what it has to tell
  requests, moves,
  debts,     \* history: who had to be told of each change, when it was made
  excused    \* history: who missed something for a known reason

people  == << member, rooms, muted, moves >>
vars == << order, people, rows, heard, pc, job, requests, debts, excused >>

Nobody == "nadie"
Reception == {"rosa", "rita"}
Dora == "dora"             \* of design
Tito == "tito"             \* of an area, or of another: he moves
Tienda == "tienda"         \* the account of a branch, which may change branch
People == Reception \cup {Dora, Tito, Tienda}
Movers == {Tito, Tienda}
Areas == {"diseno", "taller"}
Branches == {"punto", "centro"}

AreasOf(u) == CASE u = Dora -> {"diseno"} [] u = Tito -> member[Tito] [] OTHER -> {}
UserIdsForArea(a) == {u \in People : a \in AreasOf(u)}

(* handleConnection: the rooms of the roles, of the areas and of the branch. *)
RoomsOf(u) ==
  CASE u \in Reception -> { << "rol", "recepcion" >> }
    [] u = Tienda -> { << "solo", "sucursal" >>, << "sucursal", member[Tienda] >> }
    [] OTHER -> {<< "area", a >> : a \in AreasOf(u)} \cup { << "usuario", u >> }
Joined(u) == IF u \in Movers THEN rooms[u] ELSE RoomsOf(u)
Online(u) == Joined(u) # {}
In(room) == {u \in People : room \in Joined(u)}

NoOrder == [stage |-> "ninguno", round |-> 0, sender |-> Nobody, creator |-> Nobody,
            attended |-> Nobody, who |-> Nobody, branch |-> Nobody]
Idle == [by |-> Nobody, owner |-> Nobody, round |-> 0, mails |-> << >>]

Init ==
  /\ order = NoOrder
  /\ member = [u \in Movers |-> IF u = Tito THEN {"taller"} ELSE "punto"]
  /\ rooms = [u \in Movers |-> RoomsOf(u)]
  /\ muted = {} /\ rows = {} /\ heard = {} /\ debts = {} /\ excused = {}
  /\ pc = [w \in Workers |-> "libre"]
  /\ job = [w \in Workers |-> Idle]
  /\ requests = 0 /\ moves = 0

Exists == order.stage # "ninguno"

-----------------------------------------------------------------------------
(* A notice: for one person, for an area - which Recepcion is not - or for  *)
(* whoever follows the order when it is written.                            *)
For(p, what)  == [what |-> what, to |-> "persona", who |-> p, rings |-> TRUE, first |-> FALSE]
Row(p, what)  == [For(p, what) EXCEPT !.rings = FALSE]
ForArea(a, what) == [For(a, what) EXCEPT !.to = "area"]
ForOwner(what) == [Row(Nobody, what) EXCEPT !.to = "duena"]
First(mail)   == [mail EXCEPT !.first = TRUE]        \* it rings, then is written

(* Mutant of ReceptionOwner: whoever made the order, taken or not.          *)
CreatorAlways(o) == o.creator
ReceptionOwner(o) == IF o.attended # Nobody THEN o.attended ELSE o.creator

Recipients(mail, by) ==
  CASE mail.to = "persona" -> {mail.who}
    [] mail.to = "area" -> UserIdsForArea(mail.who)
    [] mail.to = "duena" -> {ReceptionOwner(order)} \ {by}
    [] mail.to = "todos" -> {}

ShouldNotify(u) == u \notin muted
(* The account of a branch is not told of an order of another.              *)
Stranger(u) == u = Tienda /\ order.branch # member[Tienda]
Written(mail, j) ==
  {<< u, mail.what, j.round >> :
     u \in {r \in Recipients(mail, j.by) : ShouldNotify(r) /\ ~Stranger(r)}}

Rung(mail) ==
  IF ~mail.rings THEN {}
  ELSE CASE mail.to = "todos" ->
              ({u \in People : Online(u)} \ In(<< "solo", "sucursal" >>))
                \cup In(<< "sucursal", order.branch >>)
         [] mail.to = "persona" -> {mail.who} \cap {u \in People : Online(u)}
         [] mail.to = "area" ->
              In(<< IF mail.who = "recepcion" THEN "rol" ELSE "area", mail.who >>)
RungOf(mail, j) == {<< u, mail.what, j.round >> : u \in Rung(mail)}

(* The handler gives the next notice of its list.                           *)
Tell(w) ==
  LET mail == Head(job[w].mails) IN
  /\ pc[w] = "avisa"
  /\ rows' = rows \cup Written(mail, job[w])
  /\ heard' = heard \cup RungOf(mail, job[w])
  /\ IF Tail(job[w].mails) = << >>
     THEN pc' = [pc EXCEPT ![w] = "libre"] /\ job' = [job EXCEPT ![w] = Idle]
     ELSE UNCHANGED pc /\ job' = [job EXCEPT ![w].mails = Tail(@)]
  /\ UNCHANGED << order, people, requests, debts, excused >>

(* The database refuses: the change stays, the notices left are not given.  *)
Fail(w) ==
  LET mail == Head(job[w].mails) IN
  /\ pc[w] = "avisa"
  /\ heard' = IF mail.first THEN heard \cup RungOf(mail, job[w]) ELSE heard
  /\ pc' = [pc EXCEPT ![w] = "libre"] /\ job' = [job EXCEPT ![w] = Idle]
  /\ excused' = excused \cup UNION {Recipients(job[w].mails[i], job[w].by) :
                                     i \in DOMAIN job[w].mails}
  /\ UNCHANGED << order, people, rows, requests, debts >>

-----------------------------------------------------------------------------
(* A handler commits: the order changes, and what it has to tell is noted - *)
(* by the rules of the house, for the history; by its code, for the list.   *)
Begin == requests < MaxRequests /\ requests' = requests + 1
Owe(round, facts) == debts' = debts \cup {<< f[1], f[2], round >> : f \in facts}
Commit(w, by, o, mails) ==
  /\ order' = o
  /\ IF mails = << >>
     THEN pc' = [pc EXCEPT ![w] = "libre"] /\ job' = [job EXCEPT ![w] = Idle]
     ELSE /\ pc' = [pc EXCEPT ![w] = "avisa"]
          /\ job' = [job EXCEPT ![w] =
               [by |-> by, owner |-> Nobody, round |-> o.round, mails |-> mails]]
  /\ UNCHANGED << people, rows, heard >>
ToAll(us, what) == us \X {what}

(* The person it is for, if it is a person; else the whole of design.       *)
NewMail(who) == First(IF who # Nobody THEN For(who, "asignado") ELSE ForArea("diseno", "nuevo"))
NewOwed(who) ==
  IF who # Nobody THEN ToAll({who}, "asignado") ELSE ToAll(UserIdsForArea("diseno"), "nuevo")
Create(w) ==
  \E creator \in {"rosa"}, who \in {Nobody, Dora} :
    /\ pc[w] = "libre" /\ ~Exists /\ Begin
    /\ Commit(w, Nobody, [NoOrder EXCEPT !.stage = "diseno", !.creator = creator,
                            !.who = who], << NewMail(who) >>)
    /\ Owe(0, NewOwed(who))
    /\ UNCHANGED excused
CreateBranch(w) ==
  /\ pc[w] = "libre" /\ ~Exists /\ Begin
  /\ Commit(w, Nobody, [NoOrder EXCEPT !.stage = "diseno", !.creator = Tienda,
                         !.branch = member[Tienda]],
            << First(ForArea("recepcion", "sucursal")), NewMail(Nobody) >>)
  /\ Owe(0, ToAll(Reception, "sucursal") \cup NewOwed(Nobody))
  /\ UNCHANGED excused

(* Another receptionist follows the order from now on; or the edit of the   *)
(* order names somebody else as the one who made it, and no notice says so. *)
(* What a request has read already goes to the one of before.               *)
Follower == IF order.attended = Nobody THEN order.creator ELSE order.attended
Follows(r, o) ==
  /\ Exists /\ Begin
  /\ order' = o
  /\ excused' = IF \E w \in Workers : pc[w] # "libre" THEN excused \cup {r, Follower} ELSE excused
  /\ UNCHANGED << people, rows, heard, pc, job, debts >>
TakeReception(r) == order.attended # r /\ Follows(r, [order EXCEPT !.attended = r])
EditCreator(r) == Follows(r, [order EXCEPT !.creator = r])

(* A round: the order is read, the round and its files are saved, and then  *)
(* the one who followed the order is told, unless it is who sent it.        *)
ReadForRound(w) ==
  \E u \in {"rosa", Dora} :
    /\ pc[w] = "libre" /\ Exists /\ Begin
    /\ order.round + Cardinality({x \in Workers : pc[x] = "leyo"}) < MaxRounds
    /\ pc' = [pc EXCEPT ![w] = "leyo"]
    /\ job' = [job EXCEPT ![w] = [Idle EXCEPT !.by = u, !.owner = ReceptionOwner(order)]]
    /\ UNCHANGED << order, people, rows, heard, debts, excused >>
SendRound(w) ==
  LET j == job[w] IN
  /\ pc[w] = "leyo"
  /\ Commit(w, j.by, [order EXCEPT !.stage = "esperando", !.round = @ + 1, !.sender = j.by],
            IF j.owner = j.by THEN << >> ELSE << For(j.owner, "montaje") >>)
  /\ Owe(order.round + 1, ToAll({Follower} \ {j.by}, "montaje"))
  /\ UNCHANGED << requests, excused >>

Awaiting == order.stage = "esperando"
Feedback(w) ==
    /\ pc[w] = "libre" /\ Awaiting /\ Begin
    /\ Commit(w, Nobody, [order EXCEPT !.stage = "diseno", !.who = order.sender],
              << For(order.sender, "cambios") >>)
    /\ Owe(order.round, ToAll({order.sender}, "cambios"))
    /\ UNCHANGED excused
Approve(w) ==
  \E r \in Reception :
    /\ pc[w] = "libre" /\ Awaiting /\ Begin
    /\ Commit(w, Nobody, [order EXCEPT !.stage = "produccion", !.who = Nobody],
              << ForArea("taller", "autorizado") >> \o
              IF order.sender = r THEN << >> ELSE << Row(order.sender, "pasa") >>)
    /\ Owe(order.round, ToAll(UserIdsForArea("taller"), "autorizado")
                          \cup ToAll({order.sender} \ {r}, "pasa"))
    /\ UNCHANGED excused

(* The last area ends: that the order is ready, and that the area ended,    *)
(* go to whoever follows the order when each is written.                    *)
TaskDone(w) ==
  \E u \in UserIdsForArea("taller") \cup Reception :
    /\ pc[w] = "libre" /\ order.stage = "produccion" /\ Begin
    /\ Commit(w, u, [order EXCEPT !.stage = "listo"], << ForOwner("listo"), ForOwner("termino") >>)
    /\ Owe(order.round, ToAll({Follower} \ {u}, "listo") \cup ToAll({Follower} \ {u}, "termino"))
    /\ UNCHANGED excused

(* The edit: a status by hand is told to all, to the branch of the order    *)
(* among the branches, and to Recepcion; a new responsible to her; and what *)
(* somebody of an area changed, to Recepcion.                               *)
ForAll(what) == [ForArea("todos", what) EXCEPT !.to = "todos"]
EditStatus(w) ==
  \E stage \in {"diseno", "produccion"} :
    /\ pc[w] = "libre" /\ Exists /\ stage # order.stage /\ Begin
    /\ Commit(w, Nobody, [order EXCEPT !.stage = stage],
              << ForAll("estado"), ForArea("recepcion", "cambio") >>)
    /\ Owe(order.round, ToAll(Reception, "cambio"))
    /\ UNCHANGED excused
EditOther(w) ==
  \E u \in {"rosa", Dora}, who \in {Nobody, Dora} :
    LET told == who # order.who /\ who # Nobody /\ who # u
        ofArea == AreasOf(u) # {}
        changed == who # order.who       \* or another of the audited fields
    IN
    /\ pc[w] = "libre" /\ Exists /\ Begin
    /\ changed
    /\ Commit(w, Nobody, [order EXCEPT !.who = who],
              (IF told THEN << First(For(who, "asignado")) >> ELSE << >>) \o
              (IF ofArea THEN << ForArea("recepcion", "edicion") >> ELSE << >>))
    /\ Owe(order.round, (IF told THEN ToAll({who}, "asignado") ELSE {})
                          \cup (IF ofArea THEN ToAll(Reception, "edicion") ELSE {}))
    /\ UNCHANGED excused

-----------------------------------------------------------------------------
(* The people: areas, branch, sockets and preferences.                      *)
Move(u) == moves < MaxMoves /\ moves' = moves + 1 /\ excused' = excused \cup {u}
           /\ UNCHANGED << order, rows, heard, pc, job, requests, debts >>
ChangeAreas(A) == member[Tito] # A /\ member' = [member EXCEPT ![Tito] = A]
                  /\ Move(Tito) /\ UNCHANGED << rooms, muted >>
ChangeBranch(b) == member[Tienda] # b /\ member' = [member EXCEPT ![Tienda] = b]
                   /\ Move(Tienda) /\ UNCHANGED << rooms, muted >>
Disconnect(u) == rooms[u] # {} /\ rooms' = [rooms EXCEPT ![u] = {}]
                 /\ moves < MaxMoves /\ moves' = moves + 1
                 /\ UNCHANGED << order, member, muted, rows, heard, pc, job, requests,
                                 debts, excused >>
Connect(u) == rooms[u] = {} /\ rooms' = [rooms EXCEPT ![u] = RoomsOf(u)]
              /\ UNCHANGED << order, member, muted, moves, rows, heard, pc, job, requests,
                              debts, excused >>
Mute(u) == muted' = muted \cup {u} /\ u \notin muted /\ Move(u) /\ UNCHANGED << member, rooms >>
Unmute(u) == muted' = muted \ {u} /\ u \in muted /\ Move(u) /\ UNCHANGED << member, rooms >>

Next ==
  \/ \E w \in Workers :
       \/ Tell(w) \/ Fail(w) \/ Create(w) \/ CreateBranch(w) \/ ReadForRound(w) \/ SendRound(w)
       \/ Feedback(w) \/ Approve(w) \/ TaskDone(w) \/ EditStatus(w) \/ EditOther(w)
  \/ \E r \in Reception : TakeReception(r) \/ EditCreator(r)
  \/ \E A \in SUBSET Areas : ChangeAreas(A)
  \/ \E b \in Branches : ChangeBranch(b)
  \/ \E u \in Movers : Disconnect(u) \/ Connect(u)
  \/ \E u \in {"rita", Tito} : Mute(u) \/ Unmute(u)

Spec == Init /\ [][Next]_vars

-----------------------------------------------------------------------------
Matters == {"asignado", "nuevo", "sucursal", "montaje", "cambios", "autorizado", "pasa",
            "listo", "termino", "estado", "cambio", "edicion"}
ForReception == {"sucursal", "cambio", "edicion"}      \* Recepcion as a whole
OnlyLive == {"estado"}

(* Type invariant.                                                          *)
TypeOK ==
  /\ order \in [stage: {"ninguno", "diseno", "esperando", "produccion", "listo"},
                round: 0..MaxRounds, sender: People \cup {Nobody},
                creator: People \cup {Nobody}, attended: Reception \cup {Nobody},
                who: {Nobody, Dora} \cup Reception, branch: Branches \cup {Nobody}]
  /\ rows \cup heard \cup debts \subseteq People \X Matters \X (0..MaxRounds)
  /\ muted \cup excused \subseteq People
  /\ pc \in [Workers -> {"libre", "leyo", "avisa"}]
  /\ \A w \in Workers : (pc[w] = "avisa") <=> (job[w].mails # << >>)
  /\ requests \in 0..MaxRequests /\ moves \in 0..MaxMoves

(* Once nothing is in progress, whoever had to be told of a change has the  *)
(* row - the one who follows the order now, not who made it -, and whoever  *)
(* was rung has it too; but for those who moved, muted their notices or     *)
(* took the order meanwhile, and after a failure.  The account of a branch  *)
(* hears of the orders of its branch only.                                  *)
Rest == \A w \in Workers : pc[w] = "libre"
NoticesFollow ==
  /\ Rest => \A d \in debts :
       d[2] \notin ForReception => d \in rows \/ d[1] \in excused
  /\ Rest => \A h \in heard :
       h[2] \notin ForReception \cup OnlyLive => h \in rows \/ h[1] \in excused
  /\ \A h \in rows \cup heard :
       h[1] = Tienda => order.branch = member[Tienda] \/ Tienda \in excused

(* What Recepcion as a whole has to be told of is written for each of its   *)
(* people, so that it is not lost if she is not connected.                  *)
ReceptionTold ==
  Rest => \A d \in debts : d[2] \in ForReception => d \in rows \/ d[1] \in excused
=============================================================================
