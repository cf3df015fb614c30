------------------------ MODULE OrderClosure_proofs ------------------------
(***************************************************************************)
(* What TLAPS proves of OrderClosure, for any set of areas, any statuses   *)
(* and any number of requests in flight.                                   *)
(***************************************************************************)
EXTENDS OrderClosure, FiniteSetTheorems, SequenceTheorems, TLAPS

-----------------------------------------------------------------------------
(* The statuses written by the sync are different from one another and      *)
(* from the ones it may not touch.                                          *)
LEMMA StatusFacts ==
  /\ "autorizado" \in OrderStatuses /\ "terminado" \in OrderStatuses
  /\ Final \subseteq OrderStatuses /\ Earlier \subseteq OrderStatuses
  /\ "autorizado" \notin Final /\ "terminado" \notin Final
  /\ "terminado" \notin Earlier
BY StatusAssumption DEF OrderStatuses

(* A request's sync never carries a value that is not an order status.      *)
LEMMA SyncTargetType ==
  ASSUME NEW w \in Workers PROVE SyncTarget(w) \in OrderStatuses
BY StatusFacts DEF SyncTarget

LEMMA EndType ==
  ASSUME NEW w \in Workers, TypeOK, End(w)
  PROVE  /\ pc' \in [Workers -> {"libre", "leido", "sincroniza", "pedido", "aplica", "avisa"}]
         /\ job' \in [Workers -> [area : Areas \cup {NoArea}, seen : TaskStatuses,
                                  target : TaskStatuses]]
         /\ seenDone' \in [Workers -> BOOLEAN]
         /\ seenOrder' \in [Workers -> OrderStatuses]
<1>1. NoJob \in [area : Areas \cup {NoArea}, seen : TaskStatuses, target : TaskStatuses]
  BY DEF NoJob, TaskStatuses
<1> QED  BY <1>1, StatusFacts DEF End, TypeOK

-----------------------------------------------------------------------------
(* Type correctness.                                                        *)
LEMMA TypeInit == Init => TypeOK
<1> SUFFICES ASSUME Init PROVE TypeOK
  OBVIOUS
<1>1. task \in [Areas -> TaskStatuses \cup {"sin_tarea"}]
  BY DEF Init, TaskStatuses
<1>2. NoJob \in [area : Areas \cup {NoArea}, seen : TaskStatuses, target : TaskStatuses]
  BY DEF NoJob, TaskStatuses
<1>3. history \in Seq(OrderStatuses \X OrderStatuses)
  BY DEF Init
<1>4. requests \in 0..MaxRequests
  BY BoundAssumption DEF Init
<1> QED  BY <1>1, <1>2, <1>3, <1>4, StatusFacts DEF Init, TypeOK

LEMMA BeginType ==
  ASSUME TypeOK, requests < MaxRequests, requests' = requests + 1
  PROVE  requests' \in 0..MaxRequests
BY BoundAssumption DEF TypeOK

LEMMA TypeStep == TypeOK /\ [Next]_vars => TypeOK'
<1> SUFFICES ASSUME TypeOK, [Next]_vars PROVE TypeOK'
  OBVIOUS
<1>1. ASSUME NEW w \in Workers, NEW a \in Areas, NEW to \in TaskStatuses,
             ReadForStatus(w, a, to)
      PROVE  TypeOK'
  <2>1. [area |-> a, seen |-> task[a], target |-> to]
          \in [area : Areas \cup {NoArea}, seen : TaskStatuses, target : TaskStatuses]
    BY <1>1 DEF ReadForStatus, TypeOK, TaskStatuses
  <2> QED  BY <1>1, <2>1, BeginType DEF ReadForStatus, Begin, db, TypeOK
<1>2. ASSUME NEW w \in Workers, StatusTx(w) PROVE TypeOK'
  <2>1. CASE Refused(w)
    BY <1>2, <2>1, EndType DEF StatusTx, TypeOK
  <2>2. CASE ~Refused(w)
    <3>1. task' \in [Areas -> TaskStatuses \cup {"sin_tarea"}]
      BY <1>2, <2>2 DEF StatusTx, TypeOK
    <3>2. drift' \subseteq Causes
      BY <1>2, <2>2 DEF StatusTx, Raced, Causes, TypeOK
    <3> QED  BY <1>2, <2>2, <3>1, <3>2 DEF StatusTx, TypeOK
  <2> QED  BY <2>1, <2>2
<1>3. ASSUME NEW w \in Workers, NEW a \in Areas, RemoveTask(w, a) PROVE TypeOK'
  <2>1. drift' \subseteq Causes
    BY <1>3 DEF RemoveTask, Raced, Causes, TypeOK
  <2> QED  BY <1>3, <2>1, BeginType DEF RemoveTask, Begin, TypeOK
<1>4. ASSUME NEW w \in Workers, SyncReadTasks(w) PROVE TypeOK'
  <2>1. AllDone \in BOOLEAN
    BY DEF AllDone, Complete
  <2> QED  BY <1>4, <2>1 DEF SyncReadTasks, db, TypeOK
<1>5. ASSUME NEW w \in Workers, SyncReadOrder(w) PROVE TypeOK'
  <2>1. CASE SyncSettled(w)
    BY <1>5, <2>1, EndType DEF SyncReadOrder, db, TypeOK
  <2>2. CASE ~SyncSettled(w)
    BY <1>5, <2>2 DEF SyncReadOrder, db, TypeOK
  <2> QED  BY <2>1, <2>2
<1>6. ASSUME NEW w \in Workers, SyncApply(w) PROVE TypeOK'
  <2>1. order' \in OrderStatuses /\ history' \in Seq(OrderStatuses \X OrderStatuses)
    <3> DEFINE row == << seenOrder[w], SyncTarget(w) >>
    <3>1. SyncTarget(w) \in OrderStatuses
      BY SyncTargetType
    <3>2. row \in OrderStatuses \X OrderStatuses
      BY <3>1 DEF TypeOK
    <3>3. history \in Seq(OrderStatuses \X OrderStatuses)
      BY DEF TypeOK
    <3>4. Append(history, row) \in Seq(OrderStatuses \X OrderStatuses)
      <4> HIDE DEF row
      <4> QED  BY <3>2, <3>3
    <3> QED  BY <1>6, <3>1, <3>4 DEF SyncApply, TypeOK
  <2>2. CASE Announces(w)
    BY <1>6, <2>1, <2>2 DEF SyncApply, TypeOK
  <2>3. CASE ~Announces(w)
    BY <1>6, <2>1, <2>3, EndType DEF SyncApply, TypeOK
  <2> QED  BY <2>2, <2>3
<1>7. ASSUME NEW w \in Workers, NotifyReady(w) PROVE TypeOK'
  BY <1>7, EndType DEF NotifyReady, TypeOK
<1>8. ASSUME NEW w \in Workers, Crash(w) PROVE TypeOK'
  <2>1. drift' \subseteq Causes
    BY <1>8 DEF Crash, Causes, TypeOK
  <2> QED  BY <1>8, <2>1, EndType DEF Crash, db, TypeOK
<1>9. ASSUME NEW a \in Areas, AddArea(a) PROVE TypeOK'
  <2>1. drift' \subseteq Causes
    BY <1>9 DEF AddArea, Causes, TypeOK
  <2>2. task' \in [Areas -> TaskStatuses \cup {"sin_tarea"}]
    BY <1>9 DEF AddArea, TaskStatuses, TypeOK
  <2> QED  BY <1>9, <2>1, <2>2, BeginType DEF AddArea, TypeOK
<1>10. ASSUME NEW s \in OrderStatuses, SetOrderStatus(s) PROVE TypeOK'
  <2>1. drift' \subseteq Causes
    BY <1>10 DEF SetOrderStatus, Causes, TypeOK
  <2> QED  BY <1>10, <2>1, BeginType DEF SetOrderStatus, TypeOK
<1>11. CASE UNCHANGED vars
  BY <1>11 DEF vars, db, TypeOK
<1> QED
  BY <1>1, <1>2, <1>3, <1>4, <1>5, <1>6, <1>7, <1>8, <1>9, <1>10, <1>11
  DEF Next, Handler, SetByHand

(* Every variable keeps its type: no sync writes a status of another kind   *)
(* and no request is counted past the bound.                                *)
THEOREM TypeCorrect == Spec => []TypeOK
<1> QED  BY TypeInit, TypeStep, PTL DEF Spec

-----------------------------------------------------------------------------
(* The inductive invariant.                                                 *)

(* A sync about to write saw an order that was not final and did not say    *)
(* what it had read of the tasks.                                           *)
DisagreementSeen ==
  \A w \in Workers : pc[w] = "aplica" => ~InStep(seenOrder[w], seenDone[w])

(* Without drift, what a sync read of the tasks is still so.                *)
TasksAsRead ==
  drift = {} => \A w \in Workers : InWindow(w) => seenDone[w] = AllDone

(* A sync that will look at the order as it is, or write over it.           *)
Repairs(w) ==
  \/ pc[w] \in {"sincroniza", "pedido"}
  \/ pc[w] = "aplica" /\ StillAsRead(w)

(* Without drift, an order out of step has a request that repairs it.       *)
SomeoneRepairs ==
  drift = {} /\ ~InStep(order, AllDone) => \E w \in Workers : Repairs(w)

IInv == TypeOK /\ DisagreementSeen /\ TasksAsRead /\ SomeoneRepairs

(* Agreement as two implications.                                           *)
LEMMA InStepCases ==
  ASSUME NEW status, NEW d \in BOOLEAN
  PROVE  InStep(status, d) <=> \/ status \in Final
                               \/ d /\ status = "terminado"
                               \/ ~d /\ status # "terminado"
BY DEF InStep

LEMMA AllDoneType == AllDone \in BOOLEAN /\ AllDone' \in BOOLEAN
BY DEF AllDone, Complete

LEMMA IInvInit == Init => IInv
<1> SUFFICES ASSUME Init PROVE IInv
  OBVIOUS
<1>1. TypeOK
  BY TypeInit
<1>2. \A w \in Workers : pc[w] = "libre"
  BY DEF Init
<1>3. ~AllDone
  BY DEF Init, AllDone, Complete
<1>4. InStep(order, AllDone)
  <2>1. order # "terminado"
    BY StatusFacts DEF Init
  <2> QED  BY <1>3, <2>1, InStepCases, AllDoneType
<1> QED
  BY <1>1, <1>2, <1>4
  DEF IInv, DisagreementSeen, TasksAsRead, SomeoneRepairs, InWindow

(* What a write of the tasks by one request leaves of the invariant, when   *)
(* that request has its sync still to do.                                   *)
LEMMA TaskWrite ==
  ASSUME IInv, NEW w \in Workers,
         UNCHANGED << order, seenDone, seenOrder >>,
         pc' = [pc EXCEPT ![w] = "sincroniza"],
         drift' = drift \cup Raced(task')
  PROVE  (DisagreementSeen /\ TasksAsRead /\ SomeoneRepairs)'
<1> USE DEF IInv, TypeOK
<1>1. pc'[w] = "sincroniza" /\ \A v \in Workers : InWindow(v)' => InWindow(v) /\ pc'[v] = pc[v]
  BY DEF InWindow
<1>2. DisagreementSeen'
  BY <1>1 DEF DisagreementSeen, InWindow
<1>3. TasksAsRead'
  <2>1. SUFFICES ASSUME drift' = {}, NEW v \in Workers, InWindow(v)'
                 PROVE  seenDone[v] = AllDone'
    BY DEF TasksAsRead
  <2>2. drift = {} /\ InWindow(v) /\ seenDone[v] = AllDone
    BY <1>1, <2>1 DEF TasksAsRead
  <2>3. AllDone' = Complete(task')
    BY DEF AllDone, Complete
  <2> QED  BY <2>1, <2>2, <2>3 DEF Raced
<1>4. SomeoneRepairs'
  BY <1>1 DEF SomeoneRepairs, Repairs
<1> QED  BY <1>2, <1>3, <1>4

(* What the end of a request leaves of the invariant, when it is not the    *)
(* one an order out of step is waiting for.                                 *)
LEMMA RequestOver ==
  ASSUME IInv, NEW w \in Workers, End(w), UNCHANGED << task, order >>,
         drift \subseteq drift',
         drift' = {} /\ Repairs(w) => InStep(order, AllDone)
  PROVE  (DisagreementSeen /\ TasksAsRead /\ SomeoneRepairs)'
<1> USE DEF IInv, TypeOK
<1>1. /\ pc'[w] = "libre"
      /\ \A v \in Workers \ {w} : /\ pc'[v] = pc[v] /\ seenDone'[v] = seenDone[v]
                                  /\ seenOrder'[v] = seenOrder[v]
  BY DEF End
<1>2. AllDone' = AllDone /\ InStep(order, AllDone)' = InStep(order, AllDone)
  BY DEF AllDone, Complete, InStep
<1>3. DisagreementSeen'
  BY <1>1 DEF DisagreementSeen, InStep
<1>4. TasksAsRead'
  BY <1>1, <1>2 DEF TasksAsRead, InWindow
<1>5. SomeoneRepairs'
  <2>1. SUFFICES ASSUME drift' = {}, ~InStep(order, AllDone)
                 PROVE  \E v \in Workers : Repairs(v)'
    BY <1>2 DEF SomeoneRepairs
  <2>2. PICK v \in Workers : Repairs(v)
    BY <2>1 DEF SomeoneRepairs
  <2>3. v # w
    BY <2>1, <2>2
  <2> QED  BY <1>1, <2>2, <2>3 DEF Repairs, StillAsRead
<1> QED  BY <1>3, <1>4, <1>5

LEMMA IInvStep == IInv /\ [Next]_vars => IInv'
<1> SUFFICES ASSUME IInv, [Next]_vars
             PROVE  (DisagreementSeen /\ TasksAsRead /\ SomeoneRepairs)'
  BY TypeStep DEF IInv
<1>0. TypeOK
  BY DEF IInv
<1>1. ASSUME NEW w \in Workers, NEW a \in Areas, NEW to \in TaskStatuses,
             ReadForStatus(w, a, to)
      PROVE  (DisagreementSeen /\ TasksAsRead /\ SomeoneRepairs)'
  <2>1. /\ pc[w] = "libre" /\ pc' = [pc EXCEPT ![w] = "leido"]
        /\ UNCHANGED << task, order, seenDone, seenOrder, drift >>
    BY <1>1 DEF ReadForStatus, Begin, db
  <2> QED
    BY <1>0, <2>1
    DEF IInv, TypeOK, DisagreementSeen, TasksAsRead, SomeoneRepairs, Repairs, InWindow,
        InStep, AllDone, Complete, StillAsRead
<1>2. ASSUME NEW w \in Workers, StatusTx(w)
      PROVE  (DisagreementSeen /\ TasksAsRead /\ SomeoneRepairs)'
  <2>1. CASE Refused(w)
    BY <1>2, <2>1, RequestOver DEF StatusTx, Repairs
  <2>2. CASE ~Refused(w)
    BY <1>2, <2>2, TaskWrite DEF StatusTx
  <2> QED  BY <2>1, <2>2
<1>3. ASSUME NEW w \in Workers, NEW a \in Areas, RemoveTask(w, a)
      PROVE  (DisagreementSeen /\ TasksAsRead /\ SomeoneRepairs)'
  BY <1>3, TaskWrite DEF RemoveTask
<1>4. ASSUME NEW w \in Workers, SyncReadTasks(w)
      PROVE  (DisagreementSeen /\ TasksAsRead /\ SomeoneRepairs)'
  <2>1. /\ pc' = [pc EXCEPT ![w] = "pedido"]
        /\ seenDone' = [seenDone EXCEPT ![w] = AllDone]
        /\ UNCHANGED << task, order, seenOrder, drift >>
    BY <1>4 DEF SyncReadTasks, db
  <2> QED
    BY <1>0, <2>1
    DEF IInv, TypeOK, DisagreementSeen, TasksAsRead, SomeoneRepairs, Repairs, InWindow,
        InStep, AllDone, Complete, StillAsRead
<1>5. ASSUME NEW w \in Workers, SyncReadOrder(w)
      PROVE  (DisagreementSeen /\ TasksAsRead /\ SomeoneRepairs)'
  <2>1. CASE SyncSettled(w)
    <3>1. drift = {} => InStep(order, AllDone)
      BY <1>5, <2>1 DEF SyncReadOrder, SyncSettled, IInv, TasksAsRead, InWindow
    <3> QED  BY <1>5, <2>1, <3>1, RequestOver DEF SyncReadOrder, db
  <2>2. CASE ~SyncSettled(w)
    <3>1. /\ pc[w] = "pedido" /\ pc' = [pc EXCEPT ![w] = "aplica"]
          /\ seenOrder' = [seenOrder EXCEPT ![w] = order]
          /\ UNCHANGED << task, order, seenDone, drift >>
      BY <1>5, <2>2 DEF SyncReadOrder, db
    <3> QED
      BY <1>0, <2>2, <3>1
      DEF IInv, TypeOK, DisagreementSeen, TasksAsRead, SomeoneRepairs, Repairs, InWindow,
          InStep, AllDone, Complete, StillAsRead, SyncSettled
  <2> QED  BY <2>1, <2>2
<1>6. ASSUME NEW w \in Workers, SyncApply(w)
      PROVE  (DisagreementSeen /\ TasksAsRead /\ SomeoneRepairs)'
  <2>1. CASE ~StillAsRead(w)
    BY <1>6, <2>1, RequestOver DEF SyncApply, Announces, Repairs
  <2>2. CASE StillAsRead(w)
    <3>1. AllDone' = AllDone /\ UNCHANGED << task, drift >> /\ order' = SyncTarget(w)
      BY <1>6, <2>2 DEF SyncApply, AllDone, Complete
    <3>2. \A v \in Workers \ {w} :
            pc'[v] = pc[v] /\ seenDone'[v] = seenDone[v] /\ seenOrder'[v] = seenOrder[v]
      BY <1>0, <1>6 DEF SyncApply, End, TypeOK
    <3>3. pc'[w] \in {"avisa", "libre"}
      BY <1>0, <1>6 DEF SyncApply, End, TypeOK
    <3>4. DisagreementSeen'
      BY <3>2, <3>3 DEF IInv, DisagreementSeen, InStep
    <3>5. TasksAsRead'
      BY <3>1, <3>2, <3>3 DEF IInv, TasksAsRead, InWindow
    <3>6. drift = {} => seenDone[w] = AllDone
      BY <1>6 DEF SyncApply, IInv, TasksAsRead, InWindow
    <3>7. SomeoneRepairs'
      <4>1. SUFFICES ASSUME drift = {} PROVE InStep(order, AllDone)'
        BY <3>1 DEF SomeoneRepairs
      <4>2. AllDone' = seenDone[w]
        BY <3>1, <3>6, <4>1
      <4>3. CASE seenDone[w]
        BY <3>1, <4>2, <4>3, InStepCases, AllDoneType DEF SyncTarget, InStep
      <4>4. CASE ~seenDone[w]
        BY <3>1, <4>2, <4>4, InStepCases, AllDoneType DEF SyncTarget, InStep
      <4> QED  BY <4>3, <4>4
    <3> QED  BY <3>4, <3>5, <3>7
  <2> QED  BY <2>1, <2>2
<1>7. ASSUME NEW w \in Workers, NotifyReady(w)
      PROVE  (DisagreementSeen /\ TasksAsRead /\ SomeoneRepairs)'
  BY <1>7, RequestOver DEF NotifyReady, Repairs
<1>8. ASSUME NEW w \in Workers, Crash(w)
      PROVE  (DisagreementSeen /\ TasksAsRead /\ SomeoneRepairs)'
  <2>1. drift' = {} /\ Repairs(w) => InStep(order, AllDone)
    BY <1>8 DEF Crash, Repairs, Owes
  <2> QED  BY <1>8, <2>1, RequestOver DEF Crash, db
<1>9. ASSUME NEW a \in Areas, AddArea(a)
      PROVE  (DisagreementSeen /\ TasksAsRead /\ SomeoneRepairs)'
  <2>1. /\ UNCHANGED << order, pc, seenDone, seenOrder >>
        /\ task' = [task EXCEPT ![a] = "pendiente"]
    BY <1>9 DEF AddArea
  <2>2. ~AllDone'
    BY <1>0, <2>1 DEF AllDone, Complete, TypeOK
  <2>3. drift' = {} => /\ drift = {}
                       /\ AllDone => order # "terminado" /\ \A w \in Workers : ~InWindow(w)
    BY <1>9 DEF AddArea
  <2>4. DisagreementSeen'
    BY <2>1 DEF IInv, DisagreementSeen, InStep
  <2>5. AllDone \in BOOLEAN
    BY DEF AllDone, Complete
  <2>6. TasksAsRead'
    <3>1. SUFFICES ASSUME drift' = {}, NEW w \in Workers, InWindow(w)
                   PROVE  seenDone[w] = AllDone'
      BY <2>1 DEF TasksAsRead, InWindow
    <3>2. ~AllDone /\ seenDone[w] = AllDone
      BY <2>3, <3>1 DEF IInv, TasksAsRead
    <3> QED  BY <2>2, <2>5, <3>2, AllDoneType
  <2>7. SomeoneRepairs'
    <3>1. CASE AllDone
      <4>1. drift' = {} => InStep(order, AllDone')
        BY <2>2, <2>3, <3>1, InStepCases, AllDoneType
      <4> QED  BY <2>1, <4>1 DEF SomeoneRepairs, InStep
    <3>2. CASE ~AllDone
      <4>1. AllDone' = AllDone
        BY <2>2, <3>2, AllDoneType
      <4> QED
        BY <2>1, <2>3, <4>1 DEF IInv, SomeoneRepairs, InStep, Repairs, StillAsRead
    <3> QED  BY <3>1, <3>2
  <2> QED  BY <2>4, <2>6, <2>7
<1>10. ASSUME NEW s \in OrderStatuses, SetOrderStatus(s)
       PROVE  (DisagreementSeen /\ TasksAsRead /\ SomeoneRepairs)'
  <2>1. /\ UNCHANGED << task, pc, seenDone, seenOrder >> /\ order' = s
        /\ drift' = {} => drift = {} /\ InStep(s, AllDone)
    BY <1>10 DEF SetOrderStatus
  <2>2. AllDone' = AllDone
    BY <2>1 DEF AllDone, Complete
  <2> QED
    BY <2>1, <2>2
    DEF IInv, DisagreementSeen, TasksAsRead, SomeoneRepairs, InWindow, InStep
<1>11. CASE UNCHANGED vars
  BY <1>11
  DEF vars, db, IInv, DisagreementSeen, TasksAsRead, SomeoneRepairs, Repairs, InWindow,
      InStep, AllDone, Complete, StillAsRead
<1> QED
  BY <1>1, <1>2, <1>3, <1>4, <1>5, <1>6, <1>7, <1>8, <1>9, <1>10, <1>11
  DEF Next, Handler, SetByHand

LEMMA Inductive == Spec => []IInv
<1> QED  BY IInvInit, IInvStep, PTL DEF Spec

-----------------------------------------------------------------------------
(* The order is in step with its tasks once no request owes a sync, unless  *)
(* one of the named causes of drift has occurred: syncOrderStatusFromTasks, *)
(* with its reads outside any transaction, has no other hole.               *)
THEOREM InStep_Unless_Drift == Spec => []InStepUnlessDrift
<1>1. IInv => InStepUnlessDrift
  BY DEF IInv, SomeoneRepairs, Repairs, InStepUnlessDrift, Owes
<1> QED  BY <1>1, Inductive, PTL

(* Two areas that finish together never write two history rows for one      *)
(* transition, nor a row for a transition that was not theirs: the          *)
(* conditional update of applyOrderStatus.                                  *)
THEOREM One_Row_Per_Transition == Spec => OneRowPerTransition
<1>1. IInv /\ [Next]_vars
        => [history' # history
              => /\ order' # order
                 /\ history' = Append(history, << order, order' >>)]_vars
  <2>1. SUFFICES ASSUME IInv, Next, history' # history
                 PROVE  order' # order /\ history' = Append(history, << order, order' >>)
    OBVIOUS
  <2>2. PICK w \in Workers : SyncApply(w)
    BY <2>1
    DEF Next, Handler, ReadForStatus, StatusTx, RemoveTask, SyncReadTasks, SyncReadOrder,
        NotifyReady, Crash, AddArea, SetByHand, SetOrderStatus, db
  <2>3. /\ StillAsRead(w) /\ order' = SyncTarget(w)
        /\ history' = Append(history, << seenOrder[w], SyncTarget(w) >>)
    BY <2>1, <2>2 DEF SyncApply
  <2>4. ~InStep(order, seenDone[w]) /\ seenDone[w] \in BOOLEAN
    <3>1. order = seenOrder[w] /\ ~InStep(seenOrder[w], seenDone[w])
      BY <2>1, <2>2, <2>3 DEF SyncApply, StillAsRead, IInv, DisagreementSeen
    <3>2. seenDone[w] \in BOOLEAN
      BY <2>1 DEF IInv, TypeOK
    <3> QED  BY <3>1, <3>2
  <2> QED  BY <2>3, <2>4, InStepCases DEF StillAsRead, SyncTarget
<1> QED  BY <1>1, Inductive, PTL DEF Spec, OneRowPerTransition

(* A delivered or cancelled order only leaves that status by hand: however  *)
(* late a sync writes, the status it repeats in its update is not final.    *)
THEOREM Final_Only_Left_By_Hand == Spec => FinalOnlyLeftByHand
<1>1. IInv /\ [Next]_vars => [(order \in Final /\ order' # order) => SetByHand]_vars
  <2>1. SUFFICES ASSUME IInv, Next, order \in Final, order' # order
                 PROVE  SetByHand
    OBVIOUS
  <2>2. ASSUME NEW w \in Workers, SyncApply(w) PROVE FALSE
    <3>1. pc[w] = "aplica" /\ order = seenOrder[w]
      BY <2>1, <2>2 DEF SyncApply, StillAsRead
    <3> QED  BY <2>1, <3>1 DEF IInv, DisagreementSeen, InStep
  <2> QED
    BY <2>1, <2>2
    DEF Next, Handler, ReadForStatus, StatusTx, RemoveTask, SyncReadTasks, SyncReadOrder,
        NotifyReady, Crash, AddArea, db
<1> QED  BY <1>1, Inductive, PTL DEF Spec, FinalOnlyLeftByHand

-----------------------------------------------------------------------------
(* Notices against closures: a request about to announce has a closure of   *)
(* its own that nobody has announced.                                       *)
Announcing == {w \in Workers : pc[w] = "avisa"}
ClosingRows == {k \in DOMAIN history : history[k][2] = "terminado"}

NoticesCovered == /\ IsFiniteSet(Announcing)
                  /\ notices + Cardinality(Announcing) <= Cardinality(ClosingRows)

LEMMA ClosingRowsFinite == TypeOK => IsFiniteSet(ClosingRows)
<1> SUFFICES ASSUME TypeOK PROVE IsFiniteSet(ClosingRows)
  OBVIOUS
<1>1. Len(history) \in Nat /\ DOMAIN history = 1..Len(history)
  BY DEF TypeOK
<1>2. IsFiniteSet(1..Len(history))
  BY <1>1, FS_Interval
<1>3. ClosingRows \subseteq 1..Len(history)
  BY <1>1 DEF ClosingRows
<1> QED  BY <1>2, <1>3, FS_Subset

(* A step after which fewer requests are about to announce, and no history  *)
(* row is written, sends one notice at most for each that is not any more.  *)
LEMMA FewerAnnouncing ==
  ASSUME TypeOK, NoticesCovered, history' = history, notices' = notices,
         Announcing' \subseteq Announcing
  PROVE  NoticesCovered'
<1>1. /\ IsFiniteSet(Announcing') /\ Cardinality(Announcing') <= Cardinality(Announcing)
  BY FS_Subset DEF NoticesCovered
<1>2. Cardinality(Announcing') \in Nat /\ Cardinality(Announcing) \in Nat
  BY <1>1, FS_CardinalityType DEF NoticesCovered
<1>3. ClosingRows' = ClosingRows
  BY DEF ClosingRows
<1>4. Cardinality(ClosingRows) \in Nat /\ notices \in Nat
  BY ClosingRowsFinite, FS_CardinalityType DEF TypeOK
<1> QED  BY <1>1, <1>2, <1>3, <1>4 DEF NoticesCovered

LEMMA ApplyCovered ==
  ASSUME TypeOK, NoticesCovered, NEW w \in Workers, SyncApply(w)
  PROVE  NoticesCovered'
<1>1. notices' = notices /\ pc \in [Workers -> {"libre", "leido", "sincroniza", "pedido",
                                                "aplica", "avisa"}]
      /\ pc[w] = "aplica" /\ w \notin Announcing
  BY DEF SyncApply, TypeOK, Announcing
<1>2. CASE ~StillAsRead(w)
  <2>1. history' = history /\ pc' = [pc EXCEPT ![w] = "libre"]
    BY <1>2 DEF SyncApply, Announces, End
  <2>2. Announcing' \subseteq Announcing
    BY <1>1, <2>1 DEF Announcing
  <2> QED  BY <1>1, <2>1, <2>2, FewerAnnouncing
<1>3. CASE StillAsRead(w)
  <2> DEFINE row == << seenOrder[w], SyncTarget(w) >>
             n   == Len(history) + 1
  <2>1. row \in OrderStatuses \X OrderStatuses
    BY SyncTargetType DEF TypeOK
  <2>2. history' = Append(history, row)
    BY <1>3 DEF SyncApply
  <2>3. row[2] = "terminado" <=> seenDone[w]
    BY DEF SyncTarget
  <2> HIDE DEF row
  <2>4. /\ DOMAIN history' = DOMAIN history \cup {n} /\ n \notin DOMAIN history
        /\ history'[n] = row /\ \A k \in DOMAIN history : history'[k] = history[k]
    BY <2>1, <2>2 DEF TypeOK
  <2>5. n \notin ClosingRows
    BY <2>4 DEF ClosingRows
  <2>6. IsFiniteSet(ClosingRows) /\ Cardinality(ClosingRows) \in Nat
    BY ClosingRowsFinite, FS_CardinalityType
  <2>7. /\ IsFiniteSet(Announcing) /\ Cardinality(Announcing) \in Nat /\ notices \in Nat
        /\ notices + Cardinality(Announcing) <= Cardinality(ClosingRows)
    BY FS_CardinalityType DEF NoticesCovered, TypeOK
  <2>8. CASE seenDone[w]
    <3>1. ClosingRows' = ClosingRows \cup {n}
      BY <2>3, <2>4, <2>8 DEF ClosingRows
    <3>2. pc' = [pc EXCEPT ![w] = "avisa"]
      BY <1>3, <2>8 DEF SyncApply, Announces
    <3>3. Announcing' = Announcing \cup {w}
      BY <1>1, <3>2 DEF Announcing
    <3>4. /\ Cardinality(ClosingRows') = Cardinality(ClosingRows) + 1
          /\ Cardinality(Announcing') = Cardinality(Announcing) + 1
          /\ IsFiniteSet(Announcing')
      BY <1>1, <2>5, <2>6, <2>7, <3>1, <3>3, FS_AddElement
    <3> QED  BY <1>1, <2>6, <2>7, <3>4 DEF NoticesCovered
  <2>9. CASE ~seenDone[w]
    <3>1. ClosingRows' = ClosingRows
      BY <2>3, <2>4, <2>9 DEF ClosingRows
    <3>2. pc' = [pc EXCEPT ![w] = "libre"]
      BY <2>9 DEF SyncApply, Announces, End
    <3>3. Announcing' = Announcing
      BY <1>1, <3>2 DEF Announcing
    <3> QED  BY <1>1, <2>7, <3>1, <3>3 DEF NoticesCovered
  <2> QED  BY <2>8, <2>9
<1> QED  BY <1>2, <1>3

LEMMA NoticesCoveredStep == TypeOK /\ NoticesCovered /\ [Next]_vars => NoticesCovered'
<1> SUFFICES ASSUME TypeOK, NoticesCovered, [Next]_vars PROVE NoticesCovered'
  OBVIOUS
<1>1. pc \in [Workers -> {"libre", "leido", "sincroniza", "pedido", "aplica", "avisa"}]
  BY DEF TypeOK
<1>2. ASSUME NEW w \in Workers, NotifyReady(w) PROVE NoticesCovered'
  <2>1. Announcing' = Announcing \ {w} /\ w \in Announcing
    BY <1>1, <1>2 DEF NotifyReady, End, Announcing
  <2>2. IsFiniteSet(Announcing') /\ Cardinality(Announcing') = Cardinality(Announcing) - 1
    BY <2>1, FS_RemoveElement DEF NoticesCovered
  <2>3. Cardinality(Announcing) \in Nat /\ notices \in Nat
    BY FS_CardinalityType DEF NoticesCovered, TypeOK
  <2>4. Cardinality(ClosingRows) \in Nat
    BY ClosingRowsFinite, FS_CardinalityType
  <2>5. ClosingRows' = ClosingRows /\ notices' \in {notices, notices + 1}
    BY <1>2 DEF NotifyReady, ClosingRows
  <2> QED  BY <2>2, <2>3, <2>4, <2>5 DEF NoticesCovered
<1>3. ASSUME NEW w \in Workers, Crash(w) PROVE NoticesCovered'
  <2>1. Announcing' \subseteq Announcing
    BY <1>1, <1>3 DEF Crash, End, Announcing
  <2> QED  BY <1>3, <2>1, FewerAnnouncing DEF Crash, db
<1>4. ASSUME NEW w \in Workers,
             StatusTx(w) \/ SyncReadTasks(w) \/ SyncReadOrder(w)
      PROVE  NoticesCovered'
  <2>1. Announcing' \subseteq Announcing /\ history' = history /\ notices' = notices
    BY <1>1, <1>4 DEF StatusTx, SyncReadTasks, SyncReadOrder, End, Announcing, db
  <2> QED  BY <2>1, FewerAnnouncing
<1>5. ASSUME NEW w \in Workers, NEW a \in Areas, NEW to \in TaskStatuses,
             ReadForStatus(w, a, to) \/ RemoveTask(w, a)
      PROVE  NoticesCovered'
  <2>1. Announcing' \subseteq Announcing /\ history' = history /\ notices' = notices
    BY <1>1, <1>5 DEF ReadForStatus, RemoveTask, Begin, Announcing, db
  <2> QED  BY <2>1, FewerAnnouncing
<1>6. ASSUME UNCHANGED << pc, history, notices >> PROVE NoticesCovered'
  BY <1>6, FewerAnnouncing DEF Announcing
<1>7. (\E a \in Areas : AddArea(a)) \/ SetByHand \/ UNCHANGED vars
        => UNCHANGED << pc, history, notices >>
  BY DEF AddArea, SetByHand, SetOrderStatus, vars, db
<1>8. (\E w \in Workers, a \in Areas : RemoveTask(w, a)) => NoticesCovered'
  BY <1>5 DEF TaskStatuses
<1> QED
  BY <1>2, <1>3, <1>4, <1>5, <1>6, <1>7, <1>8, ApplyCovered DEF Next, Handler

(* Reception hears of a closing once at most: a notice is sent by the       *)
(* request whose write closed the order and by no other.                    *)
THEOREM One_Notice_Per_Closure == Spec => []OneNoticePerClosure
<1>1. Init => NoticesCovered
  <2> SUFFICES ASSUME Init PROVE NoticesCovered
    OBVIOUS
  <2>1. Announcing = {} /\ ClosingRows = {} /\ notices = 0
    BY DEF Init, Announcing, ClosingRows
  <2> QED  BY <2>1, FS_EmptySet DEF NoticesCovered
<1>2. TypeOK /\ NoticesCovered => OneNoticePerClosure
  <2> SUFFICES ASSUME TypeOK, NoticesCovered PROVE notices <= Closures
    BY DEF OneNoticePerClosure
  <2>1. Cardinality(Announcing) \in Nat /\ notices \in Nat
    BY FS_CardinalityType DEF NoticesCovered, TypeOK
  <2>2. Cardinality(ClosingRows) \in Nat /\ Closures = Cardinality(ClosingRows)
    BY ClosingRowsFinite, FS_CardinalityType DEF Closures, ClosingRows
  <2> QED  BY <2>1, <2>2 DEF NoticesCovered
<1> QED  BY <1>1, <1>2, TypeInit, TypeStep, NoticesCoveredStep, PTL DEF Spec
=============================================================================
