---------------------------- MODULE OrderBoards ----------------------------
(***************************************************************************)
(* One order from its capture to its delivery, and what each list and each *)
(* panel shows of it: the lists and the record of the order, the work of a *)
(* designer and of an area, the panels of design, production and           *)
(* reception and the load that coordination reads.  Every one of them asks *)
(* the database its own question; the order moves by the handlers, by hand *)
(* and by the areas that work ahead.  A handler is one step here: how two  *)
(* of them interleave is the matter of DesignCycle, TaskWork and           *)
(* OrderClosure.                                                           *)
(***************************************************************************)
EXTENDS Naturals, FiniteSets

CONSTANTS
  Areas,        \* the production areas; Design is apart
  MaxRounds,    \* rounds of one order
  MaxEdits,     \* changes by hand
  MaxMoves      \* times the person changes areas

VARIABLES
  order,        \* the row
  tasks,        \* the task of each area
  member,       \* the areas of the person in the database
  token,        \* the areas in the session of the person
  edits, moves,
  drift         \* what happened that takes the order off its way

vars == << order, tasks, member, token, edits, moves, drift >>

None == "nadie"
Design == "diseno"
Person == "ana"
Shared == "mesa"         \* the account several people use, of every area
Manager == "jefa"        \* reception or an administrator
Branch == "tienda"       \* the account of a branch, of no area
Sessions == {Person, Shared, Manager, Branch}

(* Work of nobody and work of the shared account is free alike: None.       *)
Holders == {Person, Manager}
Holder(s) == IF s = Shared THEN None ELSE s

DesignStatuses == {"en_diseno", "cambios"}
Closed == {"entregado", "cancelado"}
(* "pendiente" stands for every status the boards do not tell apart.        *)
Statuses == DesignStatuses \cup Closed
              \cup {"pendiente", "esperando", "autorizado", "terminado"}

(* sender: who sent the round that awaits an answer.                        *)
NoOrder == [status |-> "ninguno", area |-> None, design |-> FALSE, started |-> FALSE,
            who |-> None, branch |-> FALSE, rounds |-> 0, sender |-> None]
NoTask == [status |-> "ninguno", who |-> None]
NoTasks == [a \in Areas |-> NoTask]
Fresh == [status |-> "pendiente", who |-> None]

Init ==
  /\ order = NoOrder
  /\ tasks = NoTasks
  /\ member \in SUBSET (Areas \cup {Design}) /\ token = member
  /\ edits = 0 /\ moves = 0 /\ drift = {}

(* A change by hand excuses everything that comes after it.                 *)
Drifted(cause) ==
  IF cause = "a_mano" \/ "a_mano" \in drift THEN {"a_mano"} ELSE drift \cup {cause}

-----------------------------------------------------------------------------
(* Who may do what.  A session carries the areas it was opened with; some   *)
(* handlers ask the database instead.                                       *)
Token(s) == CASE s = Person -> token [] s = Shared -> Areas \cup {Design} [] OTHER -> {}
Member(s) == IF s = Person THEN member ELSE Token(s)
Belongs(who, a) == who # None => a \in Member(who)
Full(s) == s = Manager
BranchOnly(s) == s = Branch
Editor(s) == Full(s) \/ Design \in Token(s)
Free(who) == who = None
VisibleTo(s, who) == Free(who) \/ who = s

Exists == order.status # "ninguno"
Active == Exists /\ order.status \notin Closed
Open(a) == tasks[a].status \in {"pendiente", "en_proceso"}

(* The record of one order: notes, rounds and their files, tasks, materials *)
(* and mockups ask the same.                                                *)
ByArea(s) == order.area # None /\ order.area \in Token(s)
Accessible(s) ==
  Exists /\ IF BranchOnly(s) THEN order.branch ELSE Full(s) \/ ByArea(s)

(* The lists (orders, history, of a client, export) filter in the database. *)
Listed(s) ==
  /\ Exists
  /\ BranchOnly(s) => order.branch
  /\ ~BranchOnly(s) /\ ~Full(s) => Token(s) # {} /\ order.area \in Token(s)

-----------------------------------------------------------------------------
(* The closing of the order by its tasks: after a task changes or goes.     *)
AllDone(ts) ==
  /\ \E a \in Areas : ts[a].status # "ninguno"
  /\ \A a \in Areas : ts[a].status \in {"ninguno", "terminado"}
Synced(ts) ==
  CASE order.status \in Closed -> order.status
    [] AllDone(ts) -> "terminado"
    [] ~AllDone(ts) /\ order.status = "terminado" -> "autorizado"
    [] OTHER -> order.status
Sync(ts) ==
  /\ tasks' = ts
  /\ order' = [order EXCEPT !.status = Synced(ts)]
  /\ drift' = IF Synced(ts) # order.status /\ order.area = Design
              THEN Drifted("adelantada") ELSE drift

WithTasks(A) == [a \in Areas |-> IF a \in A /\ tasks[a] = NoTask THEN Fresh ELSE tasks[a]]

Held == << member, token, edits, moves >>

(* Reception: with design, whoever is to do it must be of design; without,  *)
(* the order goes to an area or to none.                                    *)
Create ==
  \E design \in BOOLEAN, dest \in Areas \cup {None}, plan \in SUBSET Areas,
     area \in Areas \cup {None}, who \in Holders \cup {None} :
    /\ ~Exists
    /\ design => area = None /\ Belongs(who, Design)
    /\ ~design /\ area # None => Belongs(who, area)
    /\ order' = [NoOrder EXCEPT
         !.status = IF design THEN "en_diseno" ELSE "pendiente",
         !.area = IF design THEN Design ELSE area,
         !.design = design, !.who = who]
    /\ tasks' = WithTasks(CASE plan # {} -> plan
                            [] plan = {} /\ dest # None -> {dest}
                            [] plan = {} /\ dest = None /\ area # None -> {area}
                            [] OTHER -> {})
    /\ UNCHANGED << Held, drift >>

(* The account of a branch: always with design, for the shared account.     *)
CreateBranch ==
  \E plan \in SUBSET Areas :
    /\ ~Exists
    /\ order' = [NoOrder EXCEPT !.status = "en_diseno", !.area = Design,
                   !.design = TRUE, !.branch = TRUE]
    /\ tasks' = WithTasks(plan)
    /\ UNCHANGED << Held, drift >>

ByHand(o) ==
  /\ edits < MaxEdits /\ edits' = edits + 1
  /\ order' = o
  /\ UNCHANGED << tasks, member, token, moves >>

(* The edit of an order: whoever works in an area may send it, of whatever  *)
(* order; one field after the other.                                        *)
Hand(s) == Exists /\ (Full(s) \/ Token(s) # {})
EditStatus(s) ==
  \E st \in Statuses :
    /\ Hand(s)
    /\ st = "entregado" => Full(s)
    /\ ByHand([order EXCEPT !.status = st])
    /\ drift' = IF st \in Closed THEN drift ELSE Drifted("a_mano")
EditArea(s) ==
  \E area \in Areas \cup {Design} :
    /\ Hand(s)
    /\ ByHand([order EXCEPT !.area = area])
    /\ drift' = Drifted("a_mano")
EditDesign(s) ==
  \E design \in BOOLEAN :
    /\ Hand(s) /\ Editor(s)
    /\ ByHand([order EXCEPT !.design = design])
    /\ drift' = IF design = order.design THEN drift ELSE Drifted("a_mano")
EditWho(s) ==
  \E who \in Holders \cup {None} :
    /\ Hand(s)
    /\ order.area = Design => Belongs(who, Design)
    /\ ByHand([order EXCEPT !.who = who])
    /\ UNCHANGED drift

(* The bulk change: status, area or both, of an order one sees.             *)
Bulk(s) ==
  \E st \in Statuses, area \in Areas \cup {Design} :
    /\ Hand(s) /\ Accessible(s)
    /\ area # order.area => Editor(s)
    /\ st = "entregado" => Full(s)
    /\ ByHand([order EXCEPT !.status = st, !.area = area])
    /\ drift' = IF st \in Closed /\ area = order.area THEN drift ELSE Drifted("a_mano")

Remove ==
  /\ Exists
  /\ order' = NoOrder /\ tasks' = NoTasks
  /\ drift' = drift \ {"fuera", "adelantada", "ajena"}
  /\ UNCHANGED Held

-----------------------------------------------------------------------------
(* Design.                                                                  *)
Designer(s) == Design \in Token(s) /\ Design \in Member(s) /\ Accessible(s)
Take(s) ==
  /\ Designer(s)
  /\ Free(order.who)
  /\ order' = [order EXCEPT !.who = Holder(s), !.started = TRUE]
  /\ UNCHANGED << Held, tasks, drift >>
Start(s) ==
  /\ Designer(s)
  /\ order.design /\ order.area = Design /\ ~order.started
  /\ order' = [order EXCEPT !.started = TRUE]
  /\ UNCHANGED << Held, tasks, drift >>

SendRound(s) ==
  /\ Editor(s) /\ Accessible(s) /\ order.rounds < MaxRounds
  /\ order' = [order EXCEPT !.status = "esperando", !.rounds = @ + 1, !.sender = s]
  /\ drift' = IF order.area = Design /\ order.design THEN drift ELSE Drifted("fuera")
  /\ UNCHANGED << Held, tasks >>

Awaiting == Exists /\ order.sender # None /\ order.status = "esperando"

(* The changes go back to whoever sent the round.                           *)
Feedback ==
  /\ Awaiting
  /\ order' = [order EXCEPT !.status = "cambios", !.area = Design, 
                            !.who = Holder(order.sender), !.sender = None]
  /\ drift' = IF Design \in Member(order.sender) THEN drift ELSE Drifted("ajena")
  /\ UNCHANGED << Held, tasks >>

(* The areas the call names, else those of the tasks planned, else the      *)
(* destination - the call's, or what the order says.                        *)
Resolved(given, dest, planned) ==
  CASE given # {} -> given
    [] given = {} /\ \E a \in Areas : tasks[a] # NoTask ->
         {a \in Areas : tasks[a] # NoTask}
    [] OTHER -> {IF dest # None THEN dest ELSE planned} \ {None}
(* Mutant of ApprovedArea: the order stays where it was.                    *)
ApprovedAreaKept(dest, first) == order.area
ApprovedArea(dest, first) == IF dest # None THEN dest ELSE first
Approve ==
  \E given \in SUBSET Areas, dest \in Areas \cup {None}, planned \in Areas \cup {None} :
    \E first \in Resolved(given, dest, planned) :
      /\ Awaiting
      /\ order' = [order EXCEPT !.status = "autorizado", !.area = ApprovedArea(dest, first),
                     !.who = None, !.sender = None]
      /\ tasks' = WithTasks(Resolved(given, dest, planned))
      /\ UNCHANGED << Held, drift >>

-----------------------------------------------------------------------------
(* The areas.                                                               *)
AddTasks(s) ==
  \E A \in SUBSET Areas :
    /\ Exists /\ Editor(s)
    /\ tasks' = WithTasks(A)
    /\ UNCHANGED << Held, order, drift >>

Works(s, a) == Exists /\ tasks[a] # NoTask /\ (Full(s) \/ a \in Token(s))
Goes(from, to) ==
  << from, to >> \in { << "pendiente", "en_proceso" >>, << "en_proceso", "terminado" >>,
                       << "en_proceso", "pendiente" >>, << "terminado", "en_proceso" >> }

(* Whoever starts a task nobody took keeps it.                              *)
Claims(s, a, to) == to = "en_proceso" /\ a \in Token(s) /\ Free(tasks[a].who)
TaskStatus(s, a) ==
  \E to \in {"pendiente", "en_proceso", "terminado"} :
    /\ Works(s, a) /\ Goes(tasks[a].status, to)
    /\ Sync([tasks EXCEPT ![a] =
         [status |-> to, who |-> IF Claims(s, a, to) THEN Holder(s) ELSE @.who]])
    /\ UNCHANGED Held

Assign(s, a) ==
  \E who \in Holders \cup {None} :
    /\ Works(s, a) /\ (Full(s) \/ who = Holder(s))
    /\ Belongs(who, a)
    /\ tasks' = [tasks EXCEPT ![a].who = who]
    /\ UNCHANGED << Held, order, drift >>

RemoveTask(a) ==
  /\ Exists /\ tasks[a] # NoTask
  /\ Sync([tasks EXCEPT ![a] = NoTask])
  /\ UNCHANGED Held

-----------------------------------------------------------------------------
(* The person changes areas; the session keeps the old ones till renewed.   *)
ChangeAreas ==
  \E A \in SUBSET (Areas \cup {Design}) :
    /\ moves < MaxMoves /\ moves' = moves + 1
    /\ member' = A /\ A # member
    /\ drift' = IF member \ A = {} THEN drift ELSE Drifted("se_fue")
    /\ UNCHANGED << order, tasks, token, edits >>
Login ==
  /\ token # member /\ token' = member
  /\ UNCHANGED << order, tasks, member, edits, moves, drift >>

Next ==
  \/ Create \/ CreateBranch \/ Remove
  \/ \E s \in Sessions :
       \/ EditStatus(s) \/ EditArea(s) \/ EditDesign(s) \/ EditWho(s) \/ Bulk(s)
       \/ Take(s) \/ Start(s) \/ SendRound(s) \/ AddTasks(s)
       \/ \E a \in Areas : TaskStatus(s, a) \/ Assign(s, a)
  \/ Feedback \/ Approve
  \/ \E a \in Areas : RemoveTask(a)
  \/ ChangeAreas \/ Login

-----------------------------------------------------------------------------
(* What each screen shows.  Every way of reading the order checks the       *)
(* session on its own: by its role first, and then by the order.            *)
House(s) == Full(s) \/ Token(s) # {}                      \* works in the matriz
InList(s)    == (House(s) \/ BranchOnly(s)) /\ Listed(s)
InHistory(s) == House(s) /\ Listed(s)
OfClient(s)  == House(s) /\ Listed(s)
Exported(s)  == Full(s) /\ Listed(s)
Record(s)    == (House(s) \/ BranchOnly(s)) /\ Accessible(s)
Notes(s)     == House(s) /\ Accessible(s)
AuditLog(s)  == Full(s) /\ Accessible(s)
Rounds(s)    == (House(s) \/ BranchOnly(s)) /\ Accessible(s)
RoundFiles(s) == Rounds(s) /\ order.rounds > 0
Mockups(s)   == (House(s) \/ BranchOnly(s)) /\ Accessible(s)
Materials(s) == House(s) /\ Accessible(s)
Attached(s)  == House(s) /\ Accessible(s)                 \* to a message of the chat
Tasks(s)     == IF (House(s) \/ BranchOnly(s)) /\ Accessible(s)
                THEN {a \in Areas : tasks[a] # NoTask} ELSE {}
SheetAreas(s) ==
  IF House(s) /\ Accessible(s) /\ ~BranchOnly(s)
  THEN {a \in Areas : tasks[a] # NoTask /\ (Full(s) \/ a \in Token(s))} ELSE {}
(* A notice about the order is written, and shown, to the account of a      *)
(* branch when the order is of the branch.                                  *)
Told(s) == Exists /\ (BranchOnly(s) => order.branch)

InDesignList == order.design /\ order.area = Design
OutOfDesign == order.area \notin {None, Design}     \* NOT area = 'diseno', in SQL

(* My tasks: the designs and the tasks of the areas of the session that are *)
(* nobody's or one's own.                                                   *)
MyDesign(s) ==
  /\ Design \in Token(s) /\ InDesignList
  /\ order.status \in DesignStatuses
  /\ VisibleTo(s, order.who)
MyTasks(s) ==
  {a \in Areas \cap Token(s) :
     Active /\ OutOfDesign /\ Open(a) /\ VisibleTo(s, tasks[a].who)}

(* The tasks of my areas, whoever has them.                                 *)
AreaTasks(s) ==
  {a \in Areas : (Full(s) \/ a \in Token(s)) /\ Active /\ OutOfDesign /\ Open(a)}

(* The panel of production.                                                 *)
PanelAreas(s) == IF Areas \cap Token(s) = {} /\ Full(s) THEN Areas ELSE Areas \cap Token(s)
PanelTasks(s) == {a \in PanelAreas(s) : Active /\ Open(a)}
Upcoming(s) == {a \in PanelTasks(s) : order.area = Design}
PanelItems(s) == {a \in PanelTasks(s) \ Upcoming(s) : VisibleTo(s, tasks[a].who)}
Team(s) == {a \in PanelTasks(s) \ Upcoming(s) :
              tasks[a].status = "en_proceso" /\ ~Free(tasks[a].who)}

(* The panel of design: the team's and the client's.                        *)
DesignTeam == InDesignList /\ order.status \in DesignStatuses
DesignWaiting == InDesignList /\ order.status = "esperando"
DesignItems(s) == DesignTeam /\ VisibleTo(s, order.who)

(* The panel of reception.                                                  *)
Phase ==
  CASE order.status = "terminado" -> "ready"
    [] order.status = "esperando" -> "waiting_client"
    [] order.status = "cambios" -> "changes"
    [] order.status = "en_diseno" ->
         IF order.started THEN "design_working" ELSE "design_new"
    [] OTHER -> "production"
Begun ==
  IF Phase = "production"
    THEN \E a \in Areas : tasks[a].status \in {"en_proceso", "terminado"}
    ELSE Phase # "design_new"
Load(a) ==
  LET out == Active /\ Open(a) /\ order.area # Design
  IN [pending    |-> out /\ tasks[a].status = "pendiente",
      inProgress |-> out /\ tasks[a].status = "en_proceso",
      upcoming   |-> Active /\ Open(a) /\ order.area = Design,
      people     |-> out /\ tasks[a].status = "en_proceso" /\ ~Free(tasks[a].who)]

(* Time goes in half days.  A delivery is late for the panels from its      *)
(* instant on, and for coordination from the next day on.                   *)
Day(t) == t \div 2
RiskWindow == 4                                             \* AT_RISK_WINDOW_MS
DeadlineTone(due, now) ==
  CASE due < now -> "overdue" [] due \in now..(now + RiskWindow - 1) -> "at_risk" [] OTHER -> "on_time"
DeadlineState(due, now) ==
  CASE Day(due) < Day(now) -> "atrasado"
    [] Day(due) \in {Day(now), Day(now) + 1} -> "pronto"
    [] OTHER -> None

(* Why reception has to look at an order that has a date; long is whether   *)
(* it has been as it is for more than the limit of the reason.              *)
Attention(tone, long) ==
  CASE Phase = "ready" -> IF tone = "overdue" \/ long THEN "ready_not_delivered" ELSE None
    [] Phase # "ready" /\ tone = "overdue" -> "overdue"
    [] tone = "at_risk" /\ ~Begun /\ Phase \notin {"ready", "waiting_client"} ->
         "at_risk_not_started"
    [] tone # "overdue" /\ long /\ Phase = "waiting_client" -> "waiting_client"
    [] tone # "overdue" /\ long /\ Phase = "changes" -> "changes_requested"
    [] tone = "on_time" /\ long /\ Phase = "design_new" -> "design_not_started"
    [] OTHER -> None

(* The light of an area, and that of design.                                *)
Health(overdue, atRisk, stale) ==
  CASE overdue -> "critical" [] ~overdue /\ (atRisk \/ stale) -> "warning" [] OTHER -> "ok"
AreaHealth(a, tone, stale) ==
  LET working == Load(a).pending \/ Load(a).inProgress
  IN Health(working /\ tone = "overdue", working /\ tone = "at_risk", Load(a).pending /\ stale)
DesignHealth(tone, stale) ==
  LET own == Phase \in {"design_new", "design_working", "changes"}
  IN Health(own /\ tone = "overdue", own /\ tone = "at_risk", Phase = "design_new" /\ stale)

(* The load coordination reads.                                             *)
CoordLoad(a) ==
  LET in == Active /\ OutOfDesign /\ Open(a)
  IN [pendiente  |-> in /\ tasks[a].status = "pendiente",
      enProceso  |-> in /\ tasks[a].status = "en_proceso",
      sinPersona |-> in /\ Free(tasks[a].who),
      people     |-> in /\ ~Free(tasks[a].who)]

-----------------------------------------------------------------------------
(* Type invariant.                                                          *)
TypeOK ==
  /\ order.status \in Statuses \cup {"ninguno"}
  /\ order.area \in Areas \cup {None, Design}
  /\ order.who \in Holders \cup {None}
  /\ order.rounds \in 0..MaxRounds
  /\ order.sender \in {None, Person, Shared, Manager}
  /\ \A a \in Areas :
       /\ tasks[a].status \in {"ninguno", "pendiente", "en_proceso", "terminado"}
       /\ tasks[a].who \in {None, Person}
  /\ member \subseteq Areas \cup {Design} /\ token \subseteq Areas \cup {Design}
  /\ edits \in 0..MaxEdits /\ moves \in 0..MaxMoves
  /\ drift \subseteq {"a_mano", "fuera", "adelantada", "ajena", "se_fue"}

(* An order is in a list for exactly those who may open it, whichever the   *)
(* way in: who has it in the list can open all of it that the role has a    *)
(* page for, a branch is told of what it can open, and the materials shown  *)
(* are those of the tasks one may move.                                     *)
ListsFollowAccess ==
  \A s \in Sessions :
    /\ {InList(s), Record(s), Rounds(s), Mockups(s)} \subseteq {InList(s)}
    /\ RoundFiles(s) = (InList(s) /\ order.rounds > 0)
    /\ Tasks(s) = {a \in Areas : InList(s) /\ tasks[a] # NoTask}
    /\ House(s) => {InList(s), InHistory(s), OfClient(s), Notes(s), Materials(s), Attached(s)}
                      \subseteq {InList(s)}
    /\ Full(s) => Exported(s) = AuditLog(s) /\ Exported(s) = InHistory(s)
    /\ ~House(s) => ~InHistory(s) /\ ~Notes(s) /\ SheetAreas(s) = {}
    /\ BranchOnly(s) => Told(s) = Record(s)
    /\ SheetAreas(s) = {a \in Areas : Works(s, a) /\ Record(s)}

(* What reception counts as being in design, or as waiting for the client,  *)
(* is what design has on its panel - unless somebody moved the order by     *)
(* hand, sent a round of an order that was not in design, or the areas      *)
(* finished their tasks before design did.                                  *)
DesignHasIt ==
  Active /\ drift \cap {"a_mano", "fuera", "adelantada"} = {} =>
    /\ Phase \in {"design_new", "design_working", "changes"} <=> DesignTeam
    /\ Phase = "waiting_client" <=> DesignWaiting

(* Work that may be done is on the list of somebody who works there, unless *)
(* who has it left, or the changes went back to somebody who is not of      *)
(* design; and once the client has approved there is no way back to waiting *)
(* for design.                                                              *)
SomebodySeesIt ==
  token = member /\ drift \cap {"ajena", "se_fue", "a_mano"} = {} =>
    /\ DesignTeam => \E s \in Sessions : MyDesign(s)
    /\ \A a \in Areas : Active /\ OutOfDesign /\ Open(a) =>
         \E s \in Sessions : a \in MyTasks(s)
    /\ Active /\ Phase = "production" /\ drift = {} => order.area # Design

(* The panel of an area has its list of tasks, its team are those who have  *)
(* the rest, and the three loads are of the same tasks; only a task of an   *)
(* order of no area is missing of the list and of coordination.             *)
PanelsAgree ==
  /\ \A s \in Sessions :
       /\ Token(s) # {} /\ order.area # None => PanelItems(s) = MyTasks(s)
       /\ MyTasks(s) \subseteq AreaTasks(s)
       /\ Token(s) # {} /\ order.area # None =>
            \A a \in AreaTasks(s) \ MyTasks(s) :
              tasks[a].status = "en_proceso" => a \in Team(s)
       /\ Design \in Token(s) => (DesignItems(s) <=> MyDesign(s))
  /\ \A a \in Areas :
       /\ Active /\ Open(a) <=> Load(a).pending \/ Load(a).inProgress \/ Load(a).upcoming
       /\ order.area # None =>
            /\ CoordLoad(a).pendiente = Load(a).pending
            /\ CoordLoad(a).enProceso = Load(a).inProgress
            /\ Load(a).people => CoordLoad(a).people

(* Whatever way it came to be off the boards, an order that coordination    *)
(* has as late is one reception is told of, and whoever has it is in red:   *)
(* the areas coordination counts it in, or design.  What reception has as   *)
(* late, coordination has as late or due.                                   *)
LateIsTold ==
  Active =>
    \A now \in {2, 3}, due \in 0..7 :
      LET tone == DeadlineTone(due, now)
      IN /\ DeadlineState(due, now) = "atrasado" =>
              \A long \in BOOLEAN :
                /\ Attention(tone, long) \in {"overdue", "ready_not_delivered"}
                /\ \A a \in Areas : CoordLoad(a).pendiente \/ CoordLoad(a).enProceso =>
                                      AreaHealth(a, tone, long) = "critical"
                /\ DesignTeam => DesignHealth(tone, long) = "critical"
         /\ tone = "overdue" => DeadlineState(due, now) # None

BoardsTell ==
  ListsFollowAccess /\ DesignHasIt /\ SomebodySeesIt /\ PanelsAgree /\ LateIsTold
=============================================================================
