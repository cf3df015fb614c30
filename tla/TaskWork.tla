------------------------------ MODULE TaskWork ------------------------------
(***************************************************************************)
(* The work on the task of one area (OrderAreaTaskService in               *)
(* order-area-task.service.ts) against the edits of the area's stages      *)
(* (AreaAdminService in area-admin.service.ts), with the cache of areas in *)
(* between (AreaService in area.service.ts).                               *)
(*                                                                         *)
(* A task is born in the first stage of its area and goes through them one *)
(* by one before production: a work stage is sent on, a review stage opens *)
(* a round of samples and is approved (one on) or rejected (one back).     *)
(* A Worker is a request in flight; other requests run between its calls.  *)
(***************************************************************************)
EXTENDS Integers, Sequences, FiniteSets, SequencesExt

CONSTANTS
  People,       \* users of the area
  Fields,       \* fields the area captures
  Required,     \* those needed to start
  Lists,        \* lists of stage kinds the area may start with
  Workers,      \* requests that may run at the same time
  MaxList,      \* MAX_AREA_STAGES, as far as it is explored
  MaxRows,      \* bound: stage rows ever created
  MaxEdits,     \* bound: edits of the list
  MaxTests,     \* bound: rounds of samples
  MaxRequests   \* bound: requests ever made

NoOne == "sin_asignar"        \* nobody, or the shared account of the area
Kinds == {"work", "review"}
Stages == 1..MaxRows
Production == 0               \* stageId null
Empty == << >>
NoTask == [status |-> "sin_tarea", stage |-> Production, holder |-> NoOne, values |-> {}]
NoJob  == [who |-> NoOne, from |-> Production, view |-> Empty, keys |-> {}, seen |-> {},
           to |-> "pendiente", claim |-> FALSE, draft |-> Empty, known |-> Empty, old |-> FALSE]
Causes == {"vista", "edicion", "cerrado", "reclamo", "captura"}

VARIABLES
  rows,      \* AreaStage rows: kind, sortOrder, active
  cache,     \* AreaService.cache: a list that was read, if any
  order,     \* the order: "en_diseno", "abierto" or "cerrado"
  task,      \* OrderAreaTask: status, stageId, assignedUserId, fieldValues
  tests,     \* results of its AreaTaskSampleTest rows, round by round
  pc, job,   \* where each request is; what it read and what it wants
  requests,  \* requests made so far
  edits,     \* edits of the list so far
  drift      \* history: what has made a write act on something out of date

config == << rows, cache, edits >>
work   == << order, task, tests >>
vars   == << config, work, pc, job, requests, drift >>

-----------------------------------------------------------------------------
Row(kind, place) == [kind |-> kind, place |-> place, active |-> TRUE]

(* The members of a set in the order of a relation: the k-th is the one     *)
(* that k - 1 others precede.                                               *)
InOrder(S, before) ==
  [k \in 1..Cardinality(S) |->
     CHOOSE s \in S : Cardinality({t \in S : << t, s >> \in before}) = k - 1]

(* The active stages, by sortOrder and then by id.                          *)
Active == {s \in DOMAIN rows : rows[s].active}
Earlier ==
  {p \in Active \X Active :
     \/ rows[p[1]].place < rows[p[2]].place
     \/ rows[p[1]].place = rows[p[2]].place /\ p[1] < p[2]}
Listed(ids) == [k \in DOMAIN ids |-> [id |-> ids[k], kind |-> rows[ids[k]].kind]]
List == Listed(InOrder(Active, Earlier))

Ids(list) == {list[k].id : k \in DOMAIN list}

(* Mutant of ValidList: a review may come first.                            *)
ValidListFromReview(list) ==
  /\ Len(list) <= MaxList
  /\ \A k \in DOMAIN list \ {1} : list[k].kind = "review" => list[k - 1].kind = "work"

(* assertValidStageList.                                                    *)
ValidList(list) ==
  /\ Len(list) <= MaxList
  /\ \A k \in DOMAIN list : list[k].kind = "review" => k > 1 /\ list[k - 1].kind = "work"

(* nextStage and previousStage: what follows or precedes a stage in a list; *)
(* production when there is nothing, or when the stage is not in it.        *)
Beside(list, stage, step) ==
  LET at == {k \in DOMAIN list : list[k].id = stage /\ k + step \in DOMAIN list}
  IN IF at = {} THEN [id |-> Production, kind |-> "work"]
     ELSE list[(CHOOSE k \in at : TRUE) + step]
Next1(list, stage)     == Beside(list, stage, 1)
Previous1(list, stage) == Beside(list, stage, -1)

First(list) == IF list = Empty THEN Production ELSE list[1].id

(* stagesOf.  A cached list that is the database's is the same as none: the *)
(* cache is emptied by every edit, but a list read before the edit may be   *)
(* stored after it, and lives until it expires.                             *)
View == IF cache = {} THEN List ELSE CHOOSE l \in cache : TRUE

Init ==
  \E l \in Lists :
    /\ rows = [k \in DOMAIN l |-> Row(l[k], k)]
    /\ cache = {}
    /\ \/ order = "en_diseno" /\ task = NoTask
       \/ order = "abierto" /\ task = [NoTask EXCEPT !.status = "pendiente",
                                         !.stage = IF l = Empty THEN Production ELSE 1]
    /\ tests = Empty
    /\ pc = [w \in Workers |-> "libre"] /\ job = [w \in Workers |-> NoJob]
    /\ requests = 0 /\ edits = 0 /\ drift = {}

-----------------------------------------------------------------------------
(* 30 seconds at most after it was stored.                                  *)
CacheExpire ==
  /\ cache # {}
  /\ cache' = {}
  /\ UNCHANGED << rows, edits, work, pc, job, requests, drift >>

-----------------------------------------------------------------------------
Begin(w, where, j) ==
  /\ pc[w] = "libre"
  /\ requests < MaxRequests
  /\ requests' = requests + 1
  /\ pc' = [pc EXCEPT ![w] = where]
  /\ job' = [job EXCEPT ![w] = j]
  /\ UNCHANGED << config, work, drift >>

End(w) ==
  /\ pc' = [pc EXCEPT ![w] = "libre"]
  /\ job' = [job EXCEPT ![w] = NoJob]
  /\ UNCHANGED requests

GiveUp(w) == pc[w] # "libre" /\ End(w) /\ UNCHANGED << config, work, drift >>

Note(cause, when) == drift' = drift \cup (IF when THEN {cause} ELSE {})

(* The task has not changed stage since the request read it.                *)
StillThere(w) == task.status # "sin_tarea" /\ task.stage = job[w].from

(* What a request that moves the task reads: where it is, and the list.     *)
Reading(from) == [NoJob EXCEPT !.from = from, !.view = View, !.old = View # List]

(* The stages were not those of the database, when read or when written.    *)
Outdated(w) == job[w].old \/ job[w].view # List

(* createTasksForAreas: the unique row of the area, in the first stage.     *)
CreateRead(w) ==
  task = NoTask /\ Begin(w, "crea", Reading(Production))

CreateTask(w) ==
  /\ pc[w] = "crea"
  /\ IF task = NoTask
     THEN /\ task' = [task EXCEPT !.status = "pendiente", !.stage = First(job[w].view)]
          /\ Note("vista", Outdated(w))
     ELSE UNCHANGED << task, drift >>
  /\ End(w)
  /\ UNCHANGED << config, order, tests >>

-----------------------------------------------------------------------------
(* advanceStage: from a work stage to the next one, opening a round of      *)
(* samples if that one is a review and the order is out of design.          *)

AdvanceRead(w) ==
  /\ task.stage \in Stages
  /\ rows[task.stage].kind = "work"
  /\ Next1(View, task.stage).kind = "review" => order # "en_diseno"
  /\ Begin(w, "avanza", Reading(task.stage))

Opens(stage) == stage.kind = "review"

Advance(w) ==
  LET next == Next1(job[w].view, job[w].from) IN
  /\ pc[w] = "avanza"
  /\ StillThere(w)
  /\ Len(tests) < MaxTests
  /\ task' = [task EXCEPT !.stage = next.id]
  /\ tests' = IF Opens(next) THEN Append(tests, "abierta") ELSE tests
  /\ Note("vista", Outdated(w))
  /\ End(w)
  /\ UNCHANGED << config, order >>

(* decideStage: the verdict of a review closes its round and moves the task *)
(* forward or back.                                                         *)
DecideRead(w, verdict) ==
  /\ task.stage \in Stages
  /\ rows[task.stage].kind = "review"
  /\ Begin(w, verdict, Reading(task.stage))

OpenTests == {k \in DOMAIN tests : tests[k] = "abierta"}

(* Mutant of Target: a rejected review does not move the task.              *)
TargetApproved(w) == Next1(job[w].view, job[w].from).id
Target(w) ==
  IF pc[w] = "aprobada" THEN Next1(job[w].view, job[w].from).id
                        ELSE Previous1(job[w].view, job[w].from).id

Decide(w) ==
  /\ pc[w] \in {"aprobada", "rechazada"}
  /\ StillThere(w)
  /\ OpenTests # {}
  /\ task' = [task EXCEPT !.stage = Target(w)]
  /\ tests' = [tests EXCEPT ![CHOOSE k \in OpenTests : \A m \in OpenTests : m <= k] = pc[w]]
  /\ Note("vista", Outdated(w))
  /\ End(w)
  /\ UNCHANGED << config, order >>

-----------------------------------------------------------------------------
(* updateStatus: starting needs the required fields and claims a task that  *)
(* nobody holds; nothing but "pendiente" is allowed while it is in a stage. *)

Allowed(from, to) ==
  from = to \/ << from, to >> \in { << "pendiente", "en_proceso" >>,
    << "en_proceso", "terminado" >>, << "en_proceso", "pendiente" >>,
    << "terminado", "en_proceso" >> }

OutOfStages(to) == to = "pendiente" \/ task.stage = Production

(* Mutant of Unclaimed: whoever starts the task takes it.                   *)
UnclaimedAlways == TRUE
Unclaimed == task.holder = NoOne

StatusRead(w, p, to) ==
  /\ task # NoTask
  /\ Allowed(task.status, to)
  /\ OutOfStages(to)
  /\ p # NoOne => to = "en_proceso"
  /\ to = "en_proceso" => Required \subseteq task.values
  /\ Begin(w, "estado", [NoJob EXCEPT !.who = p, !.to = to,
                           !.claim = to = "en_proceso" /\ p # NoOne /\ Unclaimed])

StatusTx(w) ==
  LET job1 == job[w] IN
  /\ pc[w] = "estado"
  /\ IF task # NoTask /\ Allowed(task.status, job1.to)
     THEN /\ task' = [task EXCEPT !.status = job1.to,
                                  !.holder = IF job1.claim THEN job1.who ELSE @]
          /\ Note("reclamo", job1.claim /\ ~Unclaimed)
     ELSE UNCHANGED << task, drift >>
  /\ End(w)
  /\ UNCHANGED << config, order, tests >>

(* assign: one write, of a person of the area or of nobody.                 *)
Assign(p) ==
  /\ requests < MaxRequests /\ requests' = requests + 1
  /\ task # NoTask
  /\ task' = [task EXCEPT !.holder = p]
  /\ UNCHANGED << config, order, tests, pc, job, drift >>

(* setFieldValues: read, merge in the process, write.                       *)
CaptureRead(w, keys) ==
  task # NoTask /\ Begin(w, "captura", [NoJob EXCEPT !.keys = keys, !.seen = task.values])

(* Mutant of Merged: a field the area does not have is kept.                *)
MergedUnknown(w, cleared) == job[w].seen \cup job[w].keys \cup {"otro"}
Merged(w, cleared) == (job[w].seen \cup job[w].keys) \ cleared

Capture(w) ==
  /\ pc[w] = "captura"
  /\ \E cleared \in SUBSET job[w].keys :
       task' = [task EXCEPT !.values = Merged(w, cleared)]
  /\ Note("captura", task.values # job[w].seen)
  /\ End(w)
  /\ UNCHANGED << config, order, tests >>

(* The rest of the system moves the order.                                  *)
SetOrder(s) ==
  /\ requests < MaxRequests /\ requests' = requests + 1
  /\ order' = s
  /\ UNCHANGED << config, task, tests, pc, job, drift >>

-----------------------------------------------------------------------------
(* setStages: the list is read, the draft validated, the stages that go or  *)
(* change kind are found to have no open task, and then a transaction       *)
(* writes the draft.  In a draft the id Production stands for a new stage.  *)

Drafts ==
  {d \in UNION {[1..n -> [id : Ids(List) \cup {Production}, kind : Kinds]] : n \in 0..MaxList} :
     /\ ValidList(d)
     /\ \A j, k \in DOMAIN d : j # k /\ d[j].id = d[k].id => d[j].id = Production
     /\ Len(rows) + Cardinality({k \in DOMAIN d : d[k].id = Production}) <= MaxRows}

EditRead(w, d) ==
  /\ edits < MaxEdits /\ requests < MaxRequests
  /\ d # List
  /\ pc[w] = "libre"
  /\ edits' = edits + 1 /\ requests' = requests + 1
  /\ pc' = [pc EXCEPT ![w] = "revisa"]
  /\ job' = [job EXCEPT ![w] = [NoJob EXCEPT !.draft = d, !.known = List]]
  /\ UNCHANGED << rows, cache, work, drift >>

(* Stages the draft removes or changes the kind of.                         *)
Touched(w) ==
  {job[w].known[k].id : k \in {k \in DOMAIN job[w].known : job[w].known[k] \notin Range(job[w].draft)}}

Busy(s) == task.stage = s /\ task.status \in {"pendiente", "en_proceso"}

(* Mutant of Vacant: the stages are not looked at.                          *)
VacantUnasked(s) == TRUE
(* assertStageEmpty: only tasks of orders that are not closed count.        *)
Vacant(s) == ~Busy(s) \/ order = "cerrado"

EditCheck(w) ==
  /\ pc[w] = "revisa"
  /\ \A s \in Touched(w) : Vacant(s)
  /\ pc' = [pc EXCEPT ![w] = "edita"]
  /\ UNCHANGED << config, work, job, requests, drift >>

(* A row after the edit: by its place in the draft; off, if it was left out. *)
Kept(s, draft, known) ==
  IF s \in Ids(draft)
  THEN LET k == CHOOSE k \in DOMAIN draft : draft[k].id = s
       IN [rows[s] EXCEPT !.kind = draft[k].kind, !.place = k]
  ELSE IF s \in Ids(known) THEN [rows[s] EXCEPT !.active = FALSE] ELSE rows[s]

(* The places of the new stages.                                            *)
Fresh(draft) == {k \in DOMAIN draft : draft[k].id = Production}
New(draft) == InOrder(Fresh(draft), {p \in Fresh(draft) \X Fresh(draft) : p[1] < p[2]})

EditTx(w) ==
  LET draft == job[w].draft IN
  /\ pc[w] = "edita"
  /\ Len(rows) + Len(New(draft)) <= MaxRows
  /\ rows' = [s \in DOMAIN rows |-> Kept(s, draft, job[w].known)]
             \o [k \in DOMAIN New(draft) |-> Row(draft[New(draft)[k]].kind, New(draft)[k])]
  /\ cache' \in {{}, {List}}
  /\ drift' = drift
       \cup (IF job[w].known # List \/ \E s \in Touched(w) : ~Vacant(s)
             THEN {"edicion"} ELSE {})
       \cup (IF \E s \in Touched(w) : Busy(s) /\ order = "cerrado"
             THEN {"cerrado"} ELSE {})
  /\ End(w)
  /\ UNCHANGED << edits, work >>

-----------------------------------------------------------------------------
Handler(w) ==
  \/ CreateTask(w) \/ Advance(w) \/ Decide(w) \/ StatusTx(w) \/ Capture(w)
  \/ EditCheck(w)  \/ EditTx(w)  \/ GiveUp(w)

Next ==
  \/ CacheExpire
  \/ \E w \in Workers : Handler(w)
  \/ \E w \in Workers : CreateRead(w) \/ AdvanceRead(w)
  \/ \E w \in Workers, v \in {"aprobada", "rechazada"} : DecideRead(w, v)
  \/ \E w \in Workers, p \in People \cup {NoOne},
        to \in {"pendiente", "en_proceso", "terminado"} : StatusRead(w, p, to)
  \/ \E p \in People \cup {NoOne} : Assign(p)
  \/ \E w \in Workers, f \in Fields : CaptureRead(w, {f})
  \/ \E s \in {"abierto", "cerrado"} \ {order} : SetOrder(s)
  \/ \E w \in Workers : \E d \in Drafts : EditRead(w, d)

Spec == Init /\ [][Next]_vars

-----------------------------------------------------------------------------
(* Type invariant.                                                          *)
TypeOK ==
  /\ rows \in Seq([kind : Kinds, place : Nat, active : BOOLEAN]) /\ Len(rows) <= MaxRows
  /\ task.stage \in Stages \cup {Production}
  /\ task.status \in {"sin_tarea", "pendiente", "en_proceso", "terminado"}
  /\ task.holder \in People \cup {NoOne}
  /\ task.values \subseteq Fields
  /\ Range(tests) \subseteq {"abierta", "aprobada", "rechazada"}
  /\ requests \in 0..MaxRequests /\ edits \in 0..MaxEdits
  /\ drift \subseteq Causes

(* A task that was started has no stage left, whatever stages are edited    *)
(* and however long ago a request read it: production is never undone.      *)
StartedIsOutOfStages ==
  task.status \in {"en_proceso", "terminado"} => task.stage = Production

(* The list of an area starts with work and has no two reviews in a row,    *)
(* unless two edits of it overlapped.                                       *)
StageListValid ==
  "edicion" \notin drift /\ List # Empty =>
    /\ List[1].kind = "work"
    /\ \A k \in 2..Len(List) : "work" \in {List[k].kind, List[k - 1].kind}

(* A task is in a review exactly when its last round of samples is open, so *)
(* that there is a verdict to give: unless an edit raced the task, was made *)
(* while its order was closed, or the task moved by an old list.            *)
ReviewHasOpenTest ==
  drift \cap {"edicion", "vista", "cerrado"} = {} =>
    /\ Cardinality(OpenTests) <= 1
    /\ (task.stage \in Stages /\ rows[task.stage].kind = "review")
         <=> (tests # Empty /\ Last(tests) = "abierta")

(* A task moves one stage at a time along the list: forward from work or    *)
(* with an approved round, back with a rejected one; with the same causes   *)
(* aside.                                                                   *)
StageMoves ==
  task.stage # Production /\ task'.stage # task.stage
    /\ drift' \cap {"edicion", "vista", "cerrado"} = {}
  => \/ task'.stage = Next1(List, task.stage).id
        /\ (rows[task.stage].kind = "review" => Last(tests') = "aprobada")
     \/ task'.stage = Previous1(List, task.stage).id /\ Last(tests') = "rechazada"

(* Starting a task takes it from nobody, and a capture changes no field but *)
(* those it names, unless another request wrote between the read and the    *)
(* write.                                                                   *)
TakesOrLosesNothing ==
  \A w \in Workers :
    /\ StatusTx(w) /\ task.holder # NoOne /\ "reclamo" \notin drift'
         => task'.holder = task.holder
    /\ Capture(w) /\ "captura" \notin drift'
         => task'.values \ job[w].keys = task.values \ job[w].keys
=============================================================================
