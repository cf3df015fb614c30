---------------------------- MODULE OrderClosure ----------------------------
(***************************************************************************)
(* How an order closes by itself: the status of one order against those of *)
(* its area tasks (OrderAreaTaskService in order-area-task.service.ts).    *)
(*                                                                         *)
(* A Worker is an HTTP request in flight.  It changes a task in one        *)
(* transaction (AreaSupply looks inside it) and then, outside it and in    *)
(* separate database calls, reads all the tasks, reads the order, and      *)
(* applies a new order status on condition that it is still the one read.  *)
(* Other requests run between any two of these calls, and the process may  *)
(* die between them.                                                       *)
(***************************************************************************)
EXTENDS Integers, Sequences, FiniteSets

CONSTANTS
  Areas,        \* production areas the order may have
  Earlier,      \* order statuses before "autorizado"
  Final,        \* final statuses, never overwritten: "entregado", "cancelado"
  Workers,      \* requests that may run at the same time
  MaxRequests   \* bound: requests ever made

ASSUME StatusAssumption ==
  /\ Earlier \cap Final = {}
  /\ \A s \in {"autorizado", "terminado"} : s \notin Earlier \cup Final
ASSUME BoundAssumption == MaxRequests \in Nat

TaskStatuses  == {"pendiente", "en_proceso", "terminado"}
OrderStatuses == {"autorizado", "terminado"} \cup Earlier \cup Final
(* What can leave the order out of step with its tasks.                     *)
Causes == {"carrera", "caida", "area_nueva", "manual"}

NoArea == "ninguna"
ASSUME AreaAssumption == NoArea \notin Areas
NoJob  == [area |-> NoArea, seen |-> "pendiente", target |-> "pendiente"]

VARIABLES
  task,      \* OrderAreaTask.status by area, or "sin_tarea"
  order,     \* Order.statusId, by name
  history,   \* OrderHistory rows this service wrote
  notices,   \* order_ready notices sent to Recepcion
  pc,        \* where each request is
  job,       \* the area it works on, what it read there, what it wants
  seenDone,  \* what it read of the tasks: all of them finished
  seenOrder, \* what it read of the order
  requests,  \* requests made so far
  drift      \* history: causes of disagreement that have occurred

db   == << task, order, history, notices >>
vars == << db, pc, job, seenDone, seenOrder, requests, drift >>

Init ==
  /\ task \in [Areas -> {"sin_tarea", "pendiente"}]
  /\ order \in {"autorizado"} \cup Earlier
  /\ history = << >>
  /\ notices = 0
  /\ pc = [w \in Workers |-> "libre"]
  /\ job = [w \in Workers |-> NoJob]
  /\ seenDone = [w \in Workers |-> FALSE]
  /\ seenOrder = [w \in Workers |-> "autorizado"]
  /\ requests = 0
  /\ drift = {}

-----------------------------------------------------------------------------
(* With no task nothing is finished.                                        *)
Complete(tasks) ==
  /\ \E a \in Areas : tasks[a] # "sin_tarea"
  /\ \A a \in Areas : tasks[a] \in {"sin_tarea", "terminado"}

AllDone == Complete(task)

(* A request that has read the tasks and may still write the order.         *)
InWindow(w) == pc[w] \in {"pedido", "aplica"}

(* A request that changed a task and has not finished its sync.             *)
Owes(w) == pc[w] \in {"sincroniza", "pedido", "aplica"}

(* The order says what its tasks say.                                       *)
InStep(status, done) == status \in Final \/ (status = "terminado") = done

(* Ghost: a step that leaves the tasks as given races a request that read   *)
(* them when they said the opposite and may still act on it.                *)
Raced(tasks) ==
  IF Complete(tasks) # AllDone /\ \E w \in Workers : InWindow(w) THEN {"carrera"} ELSE {}

Allowed(from, to) ==
  \/ from = to
  \/ << from, to >> \in { << "pendiente", "en_proceso" >>,
                          << "en_proceso", "terminado" >>,
                          << "en_proceso", "pendiente" >>,
                          << "terminado", "en_proceso" >> }

Begin(w) ==
  /\ pc[w] = "libre"
  /\ requests < MaxRequests
  /\ requests' = requests + 1

(* The request is over: what it had read is gone.                           *)
End(w) ==
  /\ pc' = [pc EXCEPT ![w] = "libre"]
  /\ job' = [job EXCEPT ![w] = NoJob]
  /\ seenDone' = [seenDone EXCEPT ![w] = FALSE]
  /\ seenOrder' = [seenOrder EXCEPT ![w] = "autorizado"]

(* updateStatus: the read before the transaction.                           *)
ReadForStatus(w, a, to) ==
  /\ Begin(w)
  /\ task[a] # "sin_tarea"
  /\ Allowed(task[a], to)
  /\ pc' = [pc EXCEPT ![w] = "leido"]
  /\ job' = [job EXCEPT ![w] = [area |-> a, seen |-> task[a], target |-> to]]
  /\ UNCHANGED << db, seenDone, seenOrder, drift >>

(* Under the task's lock the request finds it gone, no longer able to make  *)
(* the change, or already changed by another request.                       *)
Refused(w) ==
  LET now == task[job[w].area] IN
  \/ now = "sin_tarea"
  \/ ~Allowed(now, job[w].target)
  \/ now = job[w].target /\ job[w].seen # job[w].target

(* updateStatus: the transaction that changes the task.                     *)
StatusTx(w) ==
  /\ pc[w] = "leido"
  /\ IF Refused(w)
     THEN End(w) /\ UNCHANGED << task, drift >>
     ELSE /\ task' = [task EXCEPT ![job[w].area] = job[w].target]
          /\ pc' = [pc EXCEPT ![w] = "sincroniza"]
          /\ drift' = drift \cup Raced(task')
          /\ UNCHANGED << job, seenDone, seenOrder >>
  /\ UNCHANGED << order, history, notices, requests >>

(* remove: the area leaves the order.                                       *)
RemoveTask(w, a) ==
  /\ Begin(w)
  /\ task[a] # "sin_tarea"
  /\ task' = [task EXCEPT ![a] = "sin_tarea"]
  /\ pc' = [pc EXCEPT ![w] = "sincroniza"]
  /\ drift' = drift \cup Raced(task')
  /\ UNCHANGED << order, history, notices, job, seenDone, seenOrder >>

-----------------------------------------------------------------------------
(* syncOrderStatusFromTasks, one database call after the other.             *)

SyncReadTasks(w) ==
  /\ pc[w] = "sincroniza"
  /\ seenDone' = [seenDone EXCEPT ![w] = AllDone]
  /\ pc' = [pc EXCEPT ![w] = "pedido"]
  /\ UNCHANGED << db, job, seenOrder, requests, drift >>

(* Mutants of SyncSettled: the way back to "autorizado" is missing; only an *)
(* authorized order is closed.                                              *)
SyncSettledOnlyCloses(w)     == InStep(order, seenDone[w]) \/ ~seenDone[w]
SyncSettledOnlyAuthorized(w) == InStep(order, seenDone[w]) \/ order \in Earlier

(* Nothing to do: the order is final, or already says what the tasks said.  *)
SyncSettled(w) == InStep(order, seenDone[w])

SyncReadOrder(w) ==
  /\ pc[w] = "pedido"
  /\ IF SyncSettled(w)
     THEN End(w)
     ELSE /\ seenOrder' = [seenOrder EXCEPT ![w] = order]
          /\ pc' = [pc EXCEPT ![w] = "aplica"]
          /\ UNCHANGED << job, seenDone >>
  /\ UNCHANGED << db, requests, drift >>

(* Mutant of StillAsRead: an update that does not repeat the status read.   *)
StillAsReadUnasked(w) == TRUE

(* applyOrderStatus writes only if the order is still as it was read.       *)
StillAsRead(w) == order = seenOrder[w]

(* Mutant of SyncTarget: the status of a task, not of an order.             *)
SyncTargetOfTask(w) == IF seenDone[w] THEN "terminado" ELSE "en_proceso"

SyncTarget(w) == IF seenDone[w] THEN "terminado" ELSE "autorizado"

(* Mutant of Announces: applyOrderStatus's answer is ignored.               *)
AnnouncesUnapplied(w) == seenDone[w]

(* The ready notice is sent by the call that made the transition.           *)
Announces(w) == seenDone[w] /\ StillAsRead(w)

SyncApply(w) ==
  /\ pc[w] = "aplica"
  /\ IF StillAsRead(w)
     THEN /\ order' = SyncTarget(w)
          /\ history' = Append(history, << seenOrder[w], SyncTarget(w) >>)
     ELSE UNCHANGED << order, history >>
  /\ IF Announces(w)
     THEN pc' = [pc EXCEPT ![w] = "avisa"] /\ UNCHANGED << job, seenDone, seenOrder >>
     ELSE End(w)
  /\ UNCHANGED << task, notices, requests, drift >>

(* order_ready goes to the receptionist of the order, unless there is none  *)
(* or it is the one who acted.                                              *)
NotifyReady(w) ==
  /\ pc[w] = "avisa"
  /\ notices' \in {notices, notices + 1}
  /\ End(w)
  /\ UNCHANGED << task, order, history, requests, drift >>

(* The process dies, or a call fails, before the request is over.           *)
Crash(w) ==
  /\ pc[w] # "libre"
  /\ End(w)
  /\ drift' = drift \cup
       (IF Owes(w) /\ ~InStep(order, AllDone) THEN {"caida"} ELSE {})
  /\ UNCHANGED << db, requests >>

-----------------------------------------------------------------------------
(* Requests that are one write.                                             *)

(* POST area-tasks: the area starts pending and the order is not synced.    *)
(* The row is new: a request that read the one it replaces will find it     *)
(* gone, so it is let to find out first.                                    *)
AddArea(a) ==
  /\ requests < MaxRequests
  /\ requests' = requests + 1
  /\ task[a] = "sin_tarea"
  /\ \A w \in Workers : pc[w] = "leido" => job[w].area # a
  /\ task' = [task EXCEPT ![a] = "pendiente"]
  /\ drift' = drift \cup
       (IF AllDone /\ (order = "terminado" \/ \E w \in Workers : InWindow(w))
        THEN {"area_nueva"} ELSE {})
  /\ UNCHANGED << order, history, notices, pc, job, seenDone, seenOrder >>

(* PATCH /orders/:id and the bulk action write the status they are given,   *)
(* whatever it was, and leave no row in the history.  The design cycle does *)
(* the same with its own statuses, once it has checked a round of design.   *)
SetOrderStatus(s) ==
  /\ requests < MaxRequests
  /\ requests' = requests + 1
  /\ order' = s
  /\ drift' = drift \cup (IF InStep(s, AllDone) THEN {} ELSE {"manual"})
  /\ UNCHANGED << task, history, notices, pc, job, seenDone, seenOrder >>

SetByHand == \E s \in OrderStatuses : SetOrderStatus(s)

-----------------------------------------------------------------------------
Handler(w) ==
  \/ StatusTx(w)
  \/ SyncReadTasks(w)
  \/ SyncReadOrder(w)
  \/ SyncApply(w)
  \/ NotifyReady(w)

Next ==
  \/ \E w \in Workers : Handler(w) \/ Crash(w)
  \/ \E w \in Workers, a \in Areas, to \in TaskStatuses : ReadForStatus(w, a, to)
  \/ \E w \in Workers, a \in Areas : RemoveTask(w, a)
  \/ \E a \in Areas : AddArea(a)
  \/ SetByHand

Spec == Init /\ [][Next]_vars

(* A handler that is not interrupted goes on to its next call.              *)
FairSpec == Spec /\ \A w \in Workers : WF_vars(Handler(w))

-----------------------------------------------------------------------------
(* Type invariant.                                                          *)
TypeOK ==
  /\ task \in [Areas -> TaskStatuses \cup {"sin_tarea"}]
  /\ order \in OrderStatuses
  /\ history \in Seq(OrderStatuses \X OrderStatuses)
  /\ notices \in Nat
  /\ pc \in [Workers -> {"libre", "leido", "sincroniza", "pedido", "aplica", "avisa"}]
  /\ job \in [Workers -> [area : Areas \cup {NoArea}, seen : TaskStatuses,
                          target : TaskStatuses]]
  /\ seenDone \in [Workers -> BOOLEAN]
  /\ seenOrder \in [Workers -> OrderStatuses]
  /\ requests \in 0..MaxRequests
  /\ drift \subseteq Causes

(* Once no request owes a sync, the order is "terminado" exactly when it    *)
(* has tasks and all are finished, unless one of four things ever happened: *)
(* the last area finished, or one went back, between another request's read *)
(* of the tasks and its write; a request died before it repaired the order; *)
(* an area was added to an order that was ready or being closed; a person   *)
(* set the order's status against its tasks.                                *)
InStepUnlessDrift ==
  drift = {} /\ (\A w \in Workers : ~Owes(w)) => InStep(order, AllDone)

(* The same with races allowed: what WORKFLOW.md promises of the automatic  *)
(* closing and of its return to "autorizado".                               *)
InStepDespiteRaces ==
  drift \subseteq {"carrera"} /\ (\A w \in Workers : ~Owes(w)) => InStep(order, AllDone)

(* Each row of the automatic history is a change of the order, in the step  *)
(* that made it: two areas that finish together never write two rows.       *)
OneRowPerTransition ==
  [][history' # history
       => /\ order' # order
          /\ history' = Append(history, << order, order' >>)]_vars

(* A delivered or cancelled order only leaves that status by hand, however  *)
(* long ago a sync decided to write.                                        *)
FinalOnlyLeftByHand ==
  [][(order \in Final /\ order' # order) => SetByHand]_vars

(* "El cambio de estado ya queda registrado en OrderHistory".               *)
EveryChangeInHistory == [][order' # order => history' # history]_vars

Closures == Cardinality({k \in DOMAIN history : history[k][2] = "terminado"})

(* At most one order_ready notice for each time the order closed.           *)
OneNoticePerClosure == notices <= Closures

(* The sync of the last area to finish closes the order, or something       *)
(* stopped it: the order is never simply forgotten.                         *)
ReadyEventually ==
  (AllDone /\ order \notin Final)
    ~> (order \in Final \cup {"terminado"} \/ ~AllDone \/ drift # {})
=============================================================================
