----------------------------- MODULE AreaUpkeep ----------------------------
(***************************************************************************)
(* The upkeep of one production area (AreaAdminService in                  *)
(* area-admin.service.ts): it is switched off, or stops being a place of   *)
(* production, only while it has no open work, and a machine is taken away *)
(* only while no open task uses it.  Both are counted before they are      *)
(* written, while orders come in (OrderService.create), tasks are put on   *)
(* machines and finished work is opened again (OrderAreaTaskService),      *)
(* against a list of areas that is cached (AreaService).                   *)
(***************************************************************************)
EXTENDS Integers, Sequences, FiniteSets

CONSTANTS
  Orders,       \* orders that may come to exist, with one task in the area each
  Names,        \* names of machines
  Workers,      \* requests that may run at the same time
  MaxMachines,  \* MAX_AREA_MACHINES, as far as it is explored
  MaxRows,      \* bound: machine rows ever created
  MaxRequests   \* bound: requests ever made

None    == 0                    \* machineId null
Rows    == 1..MaxRows
NoOrder == [order |-> "no hay", here |-> FALSE, task |-> "no hay", machine |-> None]
NoJob   == [on |-> "", rows |-> {}, row |-> None, keep |-> << >>, fresh |-> {},
            late |-> FALSE]
Causes  == {"solapadas", "vista", "reabierto", "caida"}

VARIABLES
  area,      \* active and isProductionDestination
  machines,  \* AreaMachine rows: name and active
  cache,     \* AreaService.cache: an area that was read, if any
  work,      \* each order and its task in the area
  pc, job,   \* where each request is, and what it read or was asked
  requests,
  drift      \* history: what has made a write act on something out of date

vars == << area, machines, cache, work, pc, job, requests, drift >>
config == << area, machines, cache >>

-----------------------------------------------------------------------------
Active == {m \in DOMAIN machines : machines[m].active}
Now    == [active |-> area.active, production |-> area.production, machines |-> Active]
View   == IF cache = {} THEN Now ELSE CHOOSE a \in cache : TRUE

(* slugs('production').                                                     *)
Offered == View.active /\ View.production

(* openWork: open orders of the area and unfinished tasks of open orders.   *)
Open(o)  == work[o].order = "abierto"
Doing(o) == Open(o) /\ work[o].task = "sin terminar"
Busy     == \E o \in Orders : Doing(o) \/ (Open(o) /\ work[o].here)
Uses(m)  == \E o \in Orders : Doing(o) /\ work[o].machine = m

(* assertValidMachineList: few enough, and each name once.                  *)
Valid(keep, fresh) ==
  /\ Cardinality(DOMAIN keep) + Cardinality(fresh) <= MaxMachines
  /\ \A a, b \in DOMAIN keep : a # b => keep[a] # keep[b]
  /\ \A a \in DOMAIN keep : keep[a] \notin fresh

Init ==
  /\ area = [active |-> TRUE, production |-> TRUE]
  /\ \E named \in SUBSET Names :
       /\ Cardinality(named) <= 1
       /\ machines = [m \in 1..Cardinality(named) |->
                        [name |-> CHOOSE n \in named : TRUE, active |-> TRUE]]
  /\ cache = {}
  /\ work = [o \in Orders |-> NoOrder]
  /\ pc = [w \in Workers |-> "libre"] /\ job = [w \in Workers |-> NoJob]
  /\ requests = 0 /\ drift = {}

-----------------------------------------------------------------------------
Begin(w, where, j) ==
  /\ pc[w] = "libre"
  /\ requests < MaxRequests /\ requests' = requests + 1
  /\ pc' = [pc EXCEPT ![w] = where]
  /\ job' = [job EXCEPT ![w] = j]
  /\ drift' = drift \cup (IF View = Now THEN {} ELSE {"vista"})

(* A request writes; those under way have read what it changes.             *)
Late(w) == drift' = drift \cup (IF job[w].late THEN {"solapadas"} ELSE {})

Written(w) ==
  /\ pc' = [pc EXCEPT ![w] = "libre"]
  /\ job' = [v \in Workers |-> IF v = w \/ pc[v] = "libre" THEN NoJob
                               ELSE [job[v] EXCEPT !.late = TRUE]]
  /\ Late(w)
  /\ UNCHANGED requests

(* invalidate; what was being loaded may be stored after it.                *)
Forget == cache' \in {{}, {Now}}
CacheExpire ==
  /\ cache # {} /\ cache' = {}
  /\ UNCHANGED << area, machines, work, pc, job, requests, drift >>

-----------------------------------------------------------------------------
(* Mutant of Retirable: the open work is not counted.                       *)
RetirableAnyway(what) == area[what]
(* assertNoOpenWork, to switch the area off or take it out of production.   *)
Retirable(what) == area[what] /\ ~Busy

RetireRead(w, what) ==
  /\ Retirable(what)
  /\ Begin(w, "retira", [NoJob EXCEPT !.on = what])
  /\ UNCHANGED << config, work >>

RetireWrite(w) ==
  /\ pc[w] = "retira"
  /\ area' = [area EXCEPT ![job[w].on] = FALSE]
  /\ Forget
  /\ Written(w)
  /\ UNCHANGED << machines, work >>

(* update back to active, or to production: nothing to check.               *)
Restore(what) ==
  /\ ~area[what]
  /\ requests < MaxRequests /\ requests' = requests + 1
  /\ area' = [area EXCEPT ![what] = TRUE]
  /\ Forget
  /\ job' = [v \in Workers |-> IF pc[v] = "libre" THEN NoJob ELSE [job[v] EXCEPT !.late = TRUE]]
  /\ UNCHANGED << machines, work, pc, drift >>

-----------------------------------------------------------------------------
(* setMachines: the rows kept, each with its name, and names for new ones;  *)
(* those left out must not be in use.                                       *)
MachinesRead(w, keep, fresh) ==
  /\ DOMAIN keep \subseteq Active /\ Valid(keep, fresh)
  /\ \A m \in Active \ DOMAIN keep : ~Uses(m)
  /\ Begin(w, "maquinas", [NoJob EXCEPT !.keep = keep, !.fresh = fresh,
                                        !.rows = Active \ DOMAIN keep])
  /\ UNCHANGED << config, work >>

(* The new names, in some order.                                            *)
Rank(new) == CHOOSE r \in [new -> 1..Cardinality(new)] :
               \A a, b \in new : a # b => r[a] # r[b]

MachinesWrite(w) ==
  LET new == job[w].fresh
      n   == Len(machines)
  IN /\ pc[w] = "maquinas"
     /\ n + Cardinality(new) <= MaxRows
     /\ machines' = [m \in 1..(n + Cardinality(new)) |->
          IF m > n THEN [name |-> CHOOSE x \in new : Rank(new)[x] = m - n, active |-> TRUE]
          ELSE [name   |-> IF m \in DOMAIN job[w].keep THEN job[w].keep[m] ELSE machines[m].name,
                active |-> machines[m].active /\ m \notin job[w].rows]]
     /\ Forget
     /\ Written(w)
     /\ UNCHANGED << area, work >>

-----------------------------------------------------------------------------
(* OrderService.create of an order with a task in the area: the area is     *)
(* looked at, the order is written, and then the task - by another call,    *)
(* that looks at the area again.                                            *)
OrderRead(w, o) ==
  /\ work[o] = NoOrder /\ \A v \in Workers : job[v].on # o
  /\ Offered
  /\ Begin(w, "pedido", [NoJob EXCEPT !.on = o])
  /\ UNCHANGED << config, work >>

OrderWrite(w, here) ==
  LET o == job[w].on
  IN /\ pc[w] = "pedido"
     /\ work' = [work EXCEPT ![o] = [NoOrder EXCEPT !.order = "abierto", !.here = here]]
     /\ pc' = [pc EXCEPT ![w] = "tarea"]
     /\ job' = [v \in Workers |-> IF pc[v] = "libre" \/ v = w THEN job[v]
                                  ELSE [job[v] EXCEPT !.late = TRUE]]
     /\ Late(w)
     /\ UNCHANGED << config, requests >>

(* createTasksForAreas: refused if the area is no longer offered; the order *)
(* stays.                                                                   *)
TaskWrite(w) ==
  LET o == job[w].on
  IN /\ pc[w] = "tarea"
     /\ \/ /\ Offered
           /\ work' = [work EXCEPT ![o].task = "sin terminar"]
           /\ Written(w)
        \/ /\ ~Offered
           /\ Written(w) /\ UNCHANGED work
     /\ UNCHANGED config

Crash(w) ==
  /\ pc[w] = "tarea"
  /\ pc' = [pc EXCEPT ![w] = "libre"] /\ job' = [job EXCEPT ![w] = NoJob]
  /\ drift' = drift \cup {"caida"}
  /\ UNCHANGED << config, work, requests >>

(* setMachine of a task: one of the area's, or none.                        *)
AssignRead(w, o, m) ==
  /\ work[o].task # "no hay"
  /\ m \in {None} \cup View.machines
  /\ Begin(w, "asigna", [NoJob EXCEPT !.on = o, !.row = m])
  /\ UNCHANGED << config, work >>

AssignWrite(w) ==
  /\ pc[w] = "asigna"
  /\ work' = [work EXCEPT ![job[w].on].machine = job[w].row]
  /\ Written(w)
  /\ UNCHANGED config

-----------------------------------------------------------------------------
(* The rest of the life of a task and of its order, here one step each.     *)
Move(o, row) ==
  /\ work' = [work EXCEPT ![o] = row]
  /\ job' = [v \in Workers |-> IF pc[v] = "libre" THEN NoJob ELSE [job[v] EXCEPT !.late = TRUE]]
  /\ UNCHANGED << config, pc, requests >>

Finish(o) == Doing(o) /\ Move(o, [work[o] EXCEPT !.task = "terminada"]) /\ UNCHANGED drift
Close(o)  == Open(o) /\ Move(o, [work[o] EXCEPT !.order = "cerrado"]) /\ UNCHANGED drift

(* terminado -> en_proceso, and a delivered or cancelled order set back:    *)
(* neither looks at the area.                                               *)
Reopen(o) ==
  /\ \/ work[o].task = "terminada" /\ Move(o, [work[o] EXCEPT !.task = "sin terminar"])
     \/ work[o].order = "cerrado" /\ Move(o, [work[o] EXCEPT !.order = "abierto"])
  /\ drift' = drift \cup {"reabierto"}

-----------------------------------------------------------------------------
Keeps == UNION {[S -> Names] : S \in SUBSET Active}

Next ==
  \/ CacheExpire
  \/ \E what \in {"active", "production"} :
       Restore(what) \/ \E w \in Workers : RetireRead(w, what)
  \/ \E w \in Workers, k \in Keeps, f \in SUBSET Names : MachinesRead(w, k, f)
  \/ \E w \in Workers :
       \/ RetireWrite(w) \/ MachinesWrite(w) \/ TaskWrite(w) \/ AssignWrite(w) \/ Crash(w)
       \/ \E here \in BOOLEAN : OrderWrite(w, here)
       \/ \E o \in Orders : OrderRead(w, o) \/ \E m \in {None} \cup Rows : AssignRead(w, o, m)
  \/ \E o \in Orders : Finish(o) \/ Close(o) \/ Reopen(o)

Spec == Init /\ [][Next]_vars

-----------------------------------------------------------------------------
(* Type invariant.                                                          *)
TypeOK ==
  /\ area \in [active : BOOLEAN, production : BOOLEAN]
  /\ machines \in UNION {[1..n -> [name : Names, active : BOOLEAN]] : n \in 0..MaxRows}
  /\ Cardinality(cache) <= 1 /\ View.machines \subseteq Rows
  /\ work \in [Orders -> [order : {"no hay", "abierto", "cerrado"}, here : BOOLEAN,
                          task : {"no hay", "sin terminar", "terminada"},
                          machine : {None} \cup Rows]]
  /\ pc \in [Workers -> {"libre", "retira", "maquinas", "pedido", "tarea", "asigna"}]
  /\ drift \subseteq Causes

(* An area that is off, or no place of production, has no open work, and a  *)
(* machine that was taken away no open task, unless requests overlapped, an *)
(* old list of areas was read or finished work was opened again; an order   *)
(* made for the area has its task, unless besides its request died; and the *)
(* names of the machines stay distinct unless two edits overlapped.         *)
RetiredIsIdle ==
  /\ drift \cap {"solapadas", "vista", "reabierto"} = {} =>
       /\ ~(area.active /\ area.production) =>
            \A o \in Orders : ~Doing(o) /\ (Open(o) /\ work[o].here => drift # {})
       /\ \A o \in Orders : Doing(o) => work[o].machine \in {None} \cup Active
  /\ drift \cap {"solapadas", "vista", "caida"} = {} =>
       \A o \in Orders : work[o].order # "no hay" /\ (\A w \in Workers : job[w].on # o)
                           => work[o].task # "no hay"
  /\ "solapadas" \notin drift =>
       /\ Cardinality(Active) <= MaxMachines
       /\ \A a, b \in Active : a # b => machines[a].name # machines[b].name
=============================================================================
