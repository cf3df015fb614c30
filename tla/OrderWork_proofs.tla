------------------------- MODULE OrderWork_proofs -------------------------
(***************************************************************************)
(* The work of an order and its notices keep what their run checks,        *)
(* whatever the number of requests, people, fields, stages, edits, rounds  *)
(* and moves.  For each machine: the inductive invariant (XInv), that it   *)
(* implies the machine's type invariant and properties (XInvSafe), that it *)
(* holds at the start (XInvInit), that each action keeps it (a lemma each, *)
(* together XInvStep), and that a step of the other machine does           *)
(* (XInvKept).  The theorems about the whole are at the end.               *)
(***************************************************************************)
EXTENDS OrderWork, FiniteSetTheorems, TLAPS

(* The number of elements of a set, as each machine names it.               *)
LEMMA WorkCardinality == \A S : Work!Cardinality(S) = Cardinality(S)
BY DEF Work!Cardinality, Cardinality
LEMMA NoticesCardinality == \A S : Notices!Cardinality(S) = Cardinality(S)
BY DEF Notices!Cardinality, Cardinality

-----------------------------------------------------------------------------
(* The members of a finite set in order.                                    *)

Orders(R, S) ==
  /\ \A s \in S : << s, s >> \notin R
  /\ \A s, t \in S : s # t => << s, t >> \in R \/ << t, s >> \in R
  /\ \A s, t, u \in S : << s, t >> \in R /\ << t, u >> \in R => << s, u >> \in R
Before(S, R, s) == {t \in S : << t, s >> \in R}
Rank(S, R, s) == Cardinality(Before(S, R, s))

LEMMA InOrderIs ==
  \A S, R : Work!InOrder(S, R) =
              [k \in 1..Cardinality(S) |-> CHOOSE s \in S : Rank(S, R, s) = k - 1]
BY Zenon DEF Work!InOrder, Rank, Before, Work!Cardinality, Cardinality

LEMMA RankGrows ==
  ASSUME NEW S, IsFiniteSet(S), NEW R, Orders(R, S)
  PROVE  /\ \A s \in S : Rank(S, R, s) \in 0..(Cardinality(S) - 1)
         /\ \A s, t \in S : << s, t >> \in R => Rank(S, R, s) < Rank(S, R, t)
         /\ Cardinality(S) \in Nat
<1>0. Cardinality(S) \in Nat
  BY FS_CardinalityType
<1>1. ASSUME NEW s \in S
      PROVE  /\ IsFiniteSet(Before(S, R, s)) /\ Rank(S, R, s) \in 0..(Cardinality(S) - 1)
  <2>1. Before(S, R, s) \in SUBSET S /\ s \notin Before(S, R, s)
    BY DEF Before, Orders
  <2>2. IsFiniteSet(Before(S, R, s)) /\ Rank(S, R, s) \in Nat
    BY <2>1, FS_Subset, FS_CardinalityType DEF Rank
  <2>3. Rank(S, R, s) <= Cardinality(S) /\ Rank(S, R, s) # Cardinality(S)
    BY <2>1, FS_Subset DEF Rank
  <2> QED  BY <1>0, <2>2, <2>3
<1>2. ASSUME NEW s \in S, NEW t \in S, << s, t >> \in R
      PROVE  Rank(S, R, s) < Rank(S, R, t)
  <2>1. Before(S, R, s) \in SUBSET Before(S, R, t)
    BY <1>2 DEF Before, Orders
  <2>2. s \in Before(S, R, t) /\ s \notin Before(S, R, s)
    BY <1>2 DEF Before, Orders
  <2>3. Rank(S, R, s) <= Rank(S, R, t) /\ Rank(S, R, s) # Rank(S, R, t)
    BY <1>1, <2>1, <2>2, FS_Subset DEF Rank
  <2> QED  BY <1>0, <1>1, <2>3
<1> QED  BY <1>0, <1>1, <1>2

LEMMA RankOnto ==
  ASSUME NEW S, IsFiniteSet(S), NEW R, Orders(R, S), NEW k \in 1..Cardinality(S)
  PROVE  \E s \in S : Rank(S, R, s) = k - 1
<1> DEFINE n == Cardinality(S)
           T == 0..(n - 1)
           f == [s \in S |-> Rank(S, R, s)]
<1>1. n \in Nat
  BY FS_CardinalityType
<1>2. IsFiniteSet(T) /\ Cardinality(T) = n
  <2> HIDE DEF n
  <2>1. n - 1 \in Int /\ (IF 0 > n - 1 THEN 0 ELSE (n - 1) - 0 + 1) = n
    BY <1>1
  <2>2. /\ IsFiniteSet(0..(n - 1))
        /\ Cardinality(0..(n - 1)) = IF 0 > n - 1 THEN 0 ELSE (n - 1) - 0 + 1
    BY <2>1, FS_Interval
  <2> QED  BY <2>1, <2>2
<1>3. f \in [S -> T]
  BY RankGrows
<1>4. \A s, t \in S : f[s] = f[t] => s = t
  <2>1. ASSUME NEW s \in S, NEW t \in S, s # t PROVE f[s] # f[t]
    <3>1. << s, t >> \in R \/ << t, s >> \in R
      BY <2>1 DEF Orders
    <3>2. Rank(S, R, s) \in Nat /\ Rank(S, R, t) \in Nat
      BY <1>1, RankGrows
    <3> QED  BY <3>1, <3>2, RankGrows
  <2> QED  BY <2>1
<1>5. f \in Injection(S, T)
  BY <1>3, <1>4 DEF Injection, IsInjective
<1>6. f \in Surjection(S, T)
  BY <1>2, <1>5, FS_Injection
<1>7. k - 1 \in T
  BY <1>1
<1> QED  BY <1>6, <1>7 DEF Surjection

(* Each member is in its place, once.                                       *)
LEMMA InOrderEnumerates ==
  ASSUME NEW S, IsFiniteSet(S), NEW R, Orders(R, S)
  PROVE  /\ Cardinality(S) \in Nat /\ Work!InOrder(S, R) \in [1..Cardinality(S) -> S]
         /\ \A k \in 1..Cardinality(S) : Rank(S, R, Work!InOrder(S, R)[k]) = k - 1
         /\ \A s \in S : \E k \in 1..Cardinality(S) : Work!InOrder(S, R)[k] = s
         /\ \A j, k \in 1..Cardinality(S) : Work!InOrder(S, R)[j] = Work!InOrder(S, R)[k] => j = k
<1>0. PICK e : e = Work!InOrder(S, R)
  OBVIOUS
<1>1. e = [k \in 1..Cardinality(S) |-> CHOOSE s \in S : Rank(S, R, s) = k - 1]
  BY <1>0, InOrderIs
<1>2. Cardinality(S) \in Nat
  BY FS_CardinalityType
<1>3. \A k \in 1..Cardinality(S) : e[k] \in S /\ Rank(S, R, e[k]) = k - 1
  BY <1>1, RankOnto
<1>4. ASSUME NEW s \in S PROVE \E k \in 1..Cardinality(S) : e[k] = s
  <2>1. Rank(S, R, s) \in 0..(Cardinality(S) - 1)
    BY RankGrows
  <2>2. PICK k \in 1..Cardinality(S) : k - 1 = Rank(S, R, s)
    <3>1. Rank(S, R, s) + 1 \in 1..Cardinality(S) /\ (Rank(S, R, s) + 1) - 1 = Rank(S, R, s)
      BY <1>2, <2>1
    <3> QED  BY <3>1
  <2>3. e[k] \in S /\ Rank(S, R, e[k]) = Rank(S, R, s)
    BY <1>3, <2>2
  <2>4. e[k] # s => << e[k], s >> \in R \/ << s, e[k] >> \in R
    BY <2>3 DEF Orders
  <2>5. ~(Rank(S, R, s) < Rank(S, R, s))
    BY <2>1
  <2> QED  BY <2>3, <2>4, <2>5, RankGrows
<1>5. \A j, k \in 1..Cardinality(S) : e[j] = e[k] => j = k
  BY <1>2, <1>3
<1> QED  BY <1>0, <1>1, <1>2, <1>3, <1>4, <1>5

(* There is no other way to put a set in order.                             *)
LEMMA InOrderOnly ==
  ASSUME NEW S, NEW R, Orders(R, S), NEW n \in Nat, NEW f \in [1..n -> S],
         \A s \in S : \E k \in 1..n : f[k] = s,
         \A j, k \in 1..n : j < k => << f[j], f[k] >> \in R
  PROVE  IsFiniteSet(S) /\ Cardinality(S) = n /\ Work!InOrder(S, R) = f
<1>1. \A j, k \in 1..n : f[j] = f[k] => j = k
  <2>1. ASSUME NEW j \in 1..n, NEW k \in 1..n, f[j] = f[k] PROVE j = k
    <3>1. ~(j < k)
      BY <2>1 DEF Orders
    <3>2. ~(k < j)
      BY <2>1 DEF Orders
    <3> QED  BY <3>1, <3>2
  <2> QED  BY <2>1
<1>2. f \in Bijection(1..n, S)
  BY <1>1 DEF Bijection, Injection, Surjection, IsInjective
<1>3. IsFiniteSet(S) /\ Cardinality(S) = n
  BY <1>2, FS_Interval, FS_Bijection, FS_CountingElements, FS_NatBijection DEF ExistsBijection
<1>4. ASSUME NEW k \in 1..n PROVE Rank(S, R, f[k]) = k - 1
  <2> DEFINE g == [j \in 1..(k - 1) |-> f[j]]
  <2>1. Before(S, R, f[k]) = {f[j] : j \in 1..(k - 1)}
    <3>1. ASSUME NEW j \in 1..n, << f[j], f[k] >> \in R PROVE j < k
      <4>1. j # k
        BY <3>1 DEF Orders
      <4>2. ~(k < j)
        <5> SUFFICES ASSUME k < j PROVE FALSE
          OBVIOUS
        <5>1. << f[k], f[j] >> \in R
          OBVIOUS
        <5> QED  BY <3>1, <5>1 DEF Orders
      <4> QED  BY <4>1, <4>2
    <3>2. ASSUME NEW j \in 1..n, j < k PROVE j \in 1..(k - 1)
      BY <3>2
    <3>3. ASSUME NEW j \in 1..(k - 1) PROVE j \in 1..n /\ j < k
      OBVIOUS
    <3>4. ASSUME NEW t \in Before(S, R, f[k]) PROVE t \in {f[j] : j \in 1..(k - 1)}
      <4>1. PICK j \in 1..n : t = f[j]
        BY DEF Before
      <4> QED  BY <3>1, <3>2, <4>1 DEF Before
    <3>5. ASSUME NEW j \in 1..(k - 1) PROVE f[j] \in Before(S, R, f[k])
      BY <3>3 DEF Before
    <3> QED  BY <3>4, <3>5
  <2>2. g \in Bijection(1..(k - 1), Before(S, R, f[k]))
    <3>1. \A j \in 1..(k - 1) : j \in 1..n
      OBVIOUS
    <3> QED  BY <1>1, <2>1, <3>1 DEF Bijection, Injection, Surjection, IsInjective
  <2>3. k - 1 \in Nat
    OBVIOUS
  <2> QED  BY <2>2, <2>3, FS_CountingElements DEF Rank, ExistsBijection
<1>6. /\ Work!InOrder(S, R) \in [1..n -> S]
      /\ \A k \in 1..n : Rank(S, R, Work!InOrder(S, R)[k]) = k - 1
  <2>1. IsFiniteSet(S) /\ Cardinality(S) = n
    BY <1>3
  <2>2. /\ Work!InOrder(S, R) \in [1..Cardinality(S) -> S]
        /\ \A k \in 1..Cardinality(S) : Rank(S, R, Work!InOrder(S, R)[k]) = k - 1
    BY <2>1, InOrderEnumerates
  <2> QED  BY <2>1, <2>2
<1>7. ASSUME NEW k \in 1..n PROVE Work!InOrder(S, R)[k] = f[k]
  <2>1. PICK j \in 1..n : Work!InOrder(S, R)[k] = f[j]
    BY <1>6
  <2> QED  BY <1>4, <1>6, <2>1
<1> QED  BY <1>3, <1>6, <1>7

-----------------------------------------------------------------------------
(* The list of stages.                                                      *)

WorkRow   == [kind : Work!Kinds, place : Nat, active : BOOLEAN]
WorkItem  == [id : Work!Stages, kind : Work!Kinds]
WorkEntry == [id : Work!Stages \cup {Work!Production}, kind : Work!Kinds]
RowsTyped == rows \in Seq(WorkRow) /\ Len(rows) <= MaxRows

(* The list has each active stage once.                                     *)
ListTells ==
  /\ Work!List \in Seq(WorkItem)
  /\ \A k \in DOMAIN Work!List : Work!List[k].id \in Work!Active
       /\ Work!List[k].kind = rows[Work!List[k].id].kind
  /\ \A s \in Work!Active : \E k \in DOMAIN Work!List : Work!List[k].id = s
  /\ \A j, k \in DOMAIN Work!List : Work!List[j].id = Work!List[k].id => j = k

LEMMA WorkNumbers ==
  /\ Work!Production \notin Work!Stages /\ Work!Production \in Nat /\ Work!Stages \subseteq Nat
  /\ \A s \in Work!Stages : s # Work!Production /\ s >= 1 /\ s <= MaxRows
BY WorkAssumption DEF Work!Production, Work!Stages

LEMMA RowAt ==
  RowsTyped => \A s \in 1..Len(rows) : /\ rows[s] \in WorkRow /\ rows[s].kind \in Work!Kinds
                                      /\ rows[s].place \in Nat /\ rows[s].active \in BOOLEAN
<1> SUFFICES ASSUME RowsTyped, NEW s \in 1..Len(rows)
             PROVE  /\ rows[s] \in WorkRow /\ rows[s].kind \in Work!Kinds
                    /\ rows[s].place \in Nat /\ rows[s].active \in BOOLEAN
  OBVIOUS
<1>1. rows[s] \in WorkRow
  BY DEF RowsTyped
<1> QED  BY <1>1 DEF WorkRow

ActiveOrdered ==
  /\ Work!Active \subseteq Work!Stages /\ Work!Active \subseteq 1..Len(rows)
  /\ IsFiniteSet(Work!Active) /\ Orders(Work!Earlier, Work!Active)

LEMMA EarlierOrders == RowsTyped => ActiveOrdered
<1> SUFFICES ASSUME RowsTyped PROVE ActiveOrdered
  OBVIOUS
<1>1. Work!Active \subseteq 1..Len(rows) /\ Len(rows) \in Nat
  BY DEF RowsTyped, Work!Active
<1>2. Work!Active \subseteq Work!Stages
  BY <1>1, WorkAssumption DEF RowsTyped, Work!Stages
<1>3. IsFiniteSet(Work!Active)
  <2>1. IsFiniteSet(1..Len(rows)) /\ Work!Active \in SUBSET (1..Len(rows))
    BY <1>1, FS_Interval
  <2> QED  BY <2>1, FS_Subset
<1>4. \A s \in Work!Active : s \in Nat /\ rows[s].place \in Nat
  BY <1>1, RowAt
<1>5. Orders(Work!Earlier, Work!Active)
  BY <1>4 DEF Orders, Work!Earlier
<1> QED  BY <1>1, <1>2, <1>3, <1>5 DEF ActiveOrdered

LEMMA ListIs == RowsTyped => ListTells
<1> SUFFICES ASSUME RowsTyped PROVE ListTells
  OBVIOUS
<1>1. PICK e : e = Work!InOrder(Work!Active, Work!Earlier)
  OBVIOUS
<1>2. PICK n : n = Cardinality(Work!Active)
  OBVIOUS
<1>3. /\ n \in Nat /\ e \in [1..n -> Work!Active]
      /\ \A s \in Work!Active : \E k \in 1..n : e[k] = s
      /\ \A j, k \in 1..n : e[j] = e[k] => j = k
  BY <1>1, <1>2, EarlierOrders, InOrderEnumerates DEF ActiveOrdered
<1>4. Work!List = [k \in 1..n |-> [id |-> e[k], kind |-> rows[e[k]].kind]]
  BY <1>1, <1>3 DEF Work!List, Work!Listed
<1>5. \A s \in Work!Active : s \in Work!Stages /\ rows[s].kind \in Work!Kinds
  BY EarlierOrders, RowAt DEF ActiveOrdered
<1>6. \A k \in 1..n : Work!List[k] \in WorkItem /\ Work!List[k].id = e[k]
        /\ Work!List[k].kind = rows[e[k]].kind
  BY <1>3, <1>4, <1>5 DEF WorkItem
<1>7. DOMAIN Work!List = 1..n /\ Work!List \in Seq(WorkItem)
  BY <1>3, <1>4, <1>6
<1> QED  BY <1>3, <1>6, <1>7 DEF ListTells

LEMMA ListSame == UNCHANGED rows => UNCHANGED << Work!List, Work!Active, Work!Earlier >>
BY DEF Work!List, Work!Listed, Work!Active, Work!Earlier

(* The stage beside another, in a list.                                     *)
LEMMA BesideIs ==
  ASSUME NEW l \in Seq(WorkItem), NEW s, NEW step \in {1, -1}
  PROVE  /\ Work!Beside(l, s, step) \in WorkEntry
         /\ \/ Work!Beside(l, s, step) = [id |-> Work!Production, kind |-> "work"]
            \/ \E k \in DOMAIN l : /\ k + step \in DOMAIN l /\ l[k].id = s
                                   /\ Work!Beside(l, s, step) = l[k + step]
<1>1. PICK at : at = {k \in DOMAIN l : l[k].id = s /\ k + step \in DOMAIN l}
  OBVIOUS
<1>2. Work!Beside(l, s, step) = IF at = {} THEN [id |-> Work!Production, kind |-> "work"]
                           ELSE l[(CHOOSE m \in at : TRUE) + step]
  BY <1>1 DEF Work!Beside
<1>3. [id |-> Work!Production, kind |-> "work"] \in WorkEntry
  BY DEF WorkEntry, Work!Kinds
<1>4. CASE at = {}
  BY <1>2, <1>3, <1>4
<1>5. CASE at # {}
  <2>1. PICK k : k = CHOOSE m \in at : TRUE
    OBVIOUS
  <2>2. k \in at
    BY <1>5, <2>1
  <2>3. k \in DOMAIN l /\ l[k].id = s /\ k + step \in DOMAIN l
    BY <1>1, <2>2
  <2>4. Work!Beside(l, s, step) = l[k + step]
    BY <1>2, <1>5, <2>1
  <2>5. l[k + step] \in WorkItem
    BY <2>3
  <2> QED  BY <2>3, <2>4, <2>5 DEF WorkItem, WorkEntry
<1> QED  BY <1>4, <1>5

LEMMA FirstIs ==
  ASSUME NEW l \in Seq(WorkItem)
  PROVE  /\ Work!First(l) \in Work!Stages \cup {Work!Production}
         /\ Work!First(l) = Work!Production \/ (1 \in DOMAIN l /\ Work!First(l) = l[1].id)
<1>1. CASE l = Work!Empty
  BY <1>1 DEF Work!First
<1>2. CASE l # Work!Empty
  <2>1. 1 \in DOMAIN l
    BY <1>2 DEF Work!Empty
  <2>2. Work!First(l) = l[1].id /\ l[1] \in WorkItem
    BY <1>2, <2>1 DEF Work!First
  <2> QED  BY <2>1, <2>2 DEF WorkItem
<1> QED  BY <1>1, <1>2

-----------------------------------------------------------------------------
(* The inductive invariant.                                                 *)

WorkResults == {"abierta", "aprobada", "rechazada"}
WorkStates  == {"sin_tarea", "pendiente", "en_proceso", "terminado"}
WorkPlaces  == {"libre", "crea", "avanza", "aprobada", "rechazada", "estado", "captura",
                "revisa", "edita"}
WorkTask == [status : WorkStates, stage : Work!Stages \cup {Work!Production},
             holder : Staff \cup {Work!NoOne}, values : SUBSET Fields]
WorkJob == [who : Staff \cup {Work!NoOne}, from : Work!Stages \cup {Work!Production},
            view : Seq(WorkItem), keys : SUBSET Fields, seen : SUBSET Fields,
            to : {"pendiente", "en_proceso", "terminado"}, claim : BOOLEAN,
            draft : Seq(WorkEntry), known : Seq(WorkItem), old : BOOLEAN]

WorkTypes ==
  /\ RowsTyped
  /\ cache \subseteq Seq(WorkItem)
  /\ task \in WorkTask
  /\ tests \in Seq(WorkResults)
  /\ pc \in [Workers -> WorkPlaces]
  /\ job \in [Workers -> WorkJob]
  /\ requests \in 0..MaxRequests /\ edits \in 0..MaxEdits
  /\ drift \subseteq Work!Causes

(* A task there is not has nothing; one that was started has no stage.      *)
WorkStatus == (task.status = "sin_tarea" => task = Work!NoTask) /\ Work!StartedIsOutOfStages

(* A draft is valid, and keeps stages of the list it was made from, once    *)
(* each.                                                                    *)
WorkDraft(d, known) ==
  /\ Work!ValidList(d)
  /\ \A j, k \in DOMAIN d : j # k /\ d[j].id = d[k].id => d[j].id = Work!Production
  /\ \A k \in DOMAIN d : d[k].id = Work!Production \/ \E m \in DOMAIN known : known[m].id = d[k].id

(* What a request has checked of what it brings.  Whoever starts or ends a  *)
(* task found it out of its stages, and it will not go back to them.        *)
WorkFits(p, j) ==
  /\ p \in {"avanza", "aprobada", "rechazada"} => j.from \in Work!Stages
  /\ p \in {"estado", "captura"} => task.status # "sin_tarea"
  /\ p = "estado" /\ j.to # "pendiente" => task.stage = Work!Production
  /\ p \in {"revisa", "edita"} => WorkDraft(j.draft, j.known)

(* Nothing has acted on stages out of date.                                 *)
WorkCalm == drift \cap {"edicion", "vista", "cerrado"} = {}

(* Then the stage of the task is an active one; only the last round may be  *)
(* open, and it is while the task is in a review;                           *)
WorkPlaced ==
  /\ task.stage \in Work!Stages => task.stage \in Work!Active
  /\ \A k \in DOMAIN tests : tests[k] = "abierta" => k = Len(tests)
  /\ (task.stage \in Work!Stages /\ rows[task.stage].kind = "review")
       <=> (tests # Work!Empty /\ Work!Last(tests) = "abierta")

(* and a request that read the list of the database found the stage of the  *)
(* task in it, of the kind its verb is for.                                 *)
WorkFound(p, j) ==
  ~j.old =>
    /\ p = "avanza" => \E k \in DOMAIN j.view : j.view[k] = [id |-> j.from, kind |-> "work"]
    /\ p \in {"aprobada", "rechazada"} =>
         \E k \in DOMAIN j.view : j.view[k] = [id |-> j.from, kind |-> "review"]

WorkInv ==
  /\ WorkTypes
  /\ WorkStatus
  /\ \A w \in Workers : WorkFits(pc[w], job[w])
  /\ Work!StageListValid
  /\ WorkCalm => WorkPlaced /\ \A w \in Workers : WorkFound(pc[w], job[w])

LEMMA WorkNoJob ==
  /\ Work!NoJob \in WorkJob /\ Work!NoJob.from = Work!Production /\ Work!NoJob.old = FALSE
  /\ Work!NoJob.to = "pendiente"
  /\ Work!NoTask \in WorkTask /\ Work!NoTask.status = "sin_tarea"
  /\ Work!NoTask.stage = Work!Production
  /\ WorkFits("libre", Work!NoJob) /\ WorkFound("libre", Work!NoJob)
<1>1. Work!Empty \in Seq(WorkItem) /\ Work!Empty \in Seq(WorkEntry)
  BY DEF Work!Empty
<1> QED  BY <1>1 DEF Work!NoJob, WorkJob, Work!NoTask, WorkTask, WorkStates, WorkFits, WorkFound

LEMMA WorkInvSafe == WorkInv => /\ Work!TypeOK /\ Work!StageListValid /\ Work!StartedIsOutOfStages
                                /\ Work!ReviewHasOpenTest
<1> SUFFICES ASSUME WorkInv PROVE Work!TypeOK /\ Work!ReviewHasOpenTest
  BY DEF WorkInv, WorkStatus
<1>1. Work!TypeOK
  <2>1. rows \in Seq([kind : Work!Kinds, place : Nat, active : BOOLEAN]) /\ Len(rows) <= MaxRows
    BY DEF WorkInv, WorkTypes, RowsTyped, WorkRow
  <2>2. Work!Range(tests) \subseteq WorkResults
    BY DEF WorkInv, WorkTypes, Work!Range
  <2> QED  BY <2>1, <2>2 DEF WorkInv, WorkTypes, WorkTask, WorkStates, WorkResults, Work!TypeOK
<1>2. Work!ReviewHasOpenTest
  <2> SUFFICES ASSUME WorkCalm PROVE
        /\ Cardinality(Work!OpenTests) <= 1
        /\ (task.stage \in Work!Stages /\ rows[task.stage].kind = "review")
             <=> (tests # Work!Empty /\ Work!Last(tests) = "abierta")
    BY WorkCardinality DEF Work!ReviewHasOpenTest, WorkCalm
  <2>1. WorkPlaced
    BY DEF WorkInv
  <2>2. Work!OpenTests \in SUBSET {Len(tests)}
    BY <2>1 DEF WorkPlaced, Work!OpenTests
  <2>3. Cardinality(Work!OpenTests) <= 1
    <3>1. IsFiniteSet({Len(tests)}) /\ Cardinality({Len(tests)}) = 1
      BY FS_Singleton, Zenon
    <3>2. Cardinality(Work!OpenTests) <= Cardinality({Len(tests)})
      BY <2>2, <3>1, FS_Subset, Zenon
    <3> QED  BY <3>1, <3>2
  <2> QED  BY <2>1, <2>3 DEF WorkPlaced
<1> QED  BY <1>1, <1>2

LEMMA WorkInvInit == Work!Init => WorkInv
<1> SUFFICES ASSUME Work!Init PROVE WorkInv
  OBVIOUS
<1>1. PICK l \in Lists :
        /\ rows = [k \in DOMAIN l |-> Work!Row(l[k], k)]
        /\ \/ order = "en_diseno" /\ task = Work!NoTask
           \/ order = "abierto" /\ task = [Work!NoTask EXCEPT !.status = "pendiente",
                                             !.stage = IF l =
                                               Work!Empty THEN Work!Production ELSE 1]
  BY DEF Work!Init
<1>2. /\ cache = {} /\ tests = Work!Empty /\ pc = [w \in Workers |-> "libre"]
      /\ job = [w \in Workers |-> Work!NoJob] /\ requests = 0 /\ edits = 0 /\ drift = {}
  BY DEF Work!Init
<1>3. /\ l \in Seq(Work!Kinds) /\ Len(l) <= MaxRows /\ Len(l) \in Nat /\ DOMAIN l = 1..Len(l)
      /\ Work!ValidList([k \in DOMAIN l |-> [id |-> k, kind |-> l[k]]])
  BY WorkAssumption
<1>4. /\ \A k \in 1..Len(l) : rows[k] = Work!Row(l[k], k) /\ rows[k] \in WorkRow
      /\ \A k \in 1..Len(l) : rows[k].kind = l[k] /\ rows[k].place = k /\ rows[k].active = TRUE
      /\ DOMAIN rows = 1..Len(l)
  BY <1>1, <1>3 DEF Work!Row, WorkRow
<1>5. RowsTyped /\ Work!Active = 1..Len(l)
  <2>1. rows \in Seq(WorkRow) /\ Len(rows) = Len(l)
    BY <1>1, <1>3, <1>4
  <2> QED  BY <1>3, <1>4, <2>1 DEF RowsTyped, Work!Active
<1>6. /\ task.stage \in Work!Stages \cup {Work!Production} /\ task \in WorkTask
      /\ task.status \in {"sin_tarea", "pendiente"}
      /\ task.status = "sin_tarea" => task = Work!NoTask
      /\ task.stage = Work!Production \/ (task.stage = 1 /\ l # Work!Empty)
  <2>1. l # Work!Empty => 1 \in Work!Stages
    BY <1>3, WorkAssumption DEF Work!Empty, Work!Stages
  <2> QED  BY <1>1, <2>1, WorkNoJob DEF Work!NoTask, WorkTask, WorkStates
<1>7. WorkTypes
  <2>1. tests \in Seq(WorkResults) /\ pc \in [Workers -> WorkPlaces] /\ job \in [Workers -> WorkJob]
    BY <1>2, WorkNoJob DEF Work!Empty, WorkPlaces
  <2>2. requests \in 0..MaxRequests /\ edits \in 0..MaxEdits
    BY <1>2, WorkAssumption
  <2> QED  BY <1>2, <1>5, <1>6, <2>1, <2>2 DEF WorkTypes
<1>8. WorkStatus
  BY <1>6 DEF WorkStatus, Work!StartedIsOutOfStages
<1>9. \A w \in Workers : WorkFits(pc[w], job[w]) /\ WorkFound(pc[w], job[w])
  BY <1>2 DEF WorkFits, WorkFound
<1>10. DOMAIN Work!List = 1..Len(l) /\ \A k \in 1..Len(l) : Work!List[k].kind = l[k]
  <2> DEFINE f == [k \in 1..Len(l) |-> k]
  <2>1. f \in [1..Len(l) -> Work!Active]
    BY <1>5
  <2>2. \A j, k \in 1..Len(l) : j < k => << f[j], f[k] >> \in Work!Earlier
    BY <1>3, <1>4, <1>5 DEF Work!Earlier
  <2>3. \A s \in Work!Active : \E k \in 1..Len(l) : f[k] = s
    BY <1>5
  <2>4. Work!InOrder(Work!Active, Work!Earlier) = f
    <3> HIDE DEF f
    <3>1. Orders(Work!Earlier, Work!Active) /\ Len(l) \in Nat
      BY <1>3, <1>5, EarlierOrders DEF ActiveOrdered
    <3> QED  BY <2>1, <2>2, <2>3, <3>1, InOrderOnly, Zenon
  <2> QED  BY <1>4, <2>4 DEF Work!List, Work!Listed
<1>11. \A k \in 1..Len(l) : l[k] \in Work!Kinds /\ (l[k] = "review" => k > 1 /\ l[k - 1] = "work")
  <2> SUFFICES ASSUME NEW k \in 1..Len(l)
               PROVE  l[k] \in Work!Kinds /\ (l[k] = "review" => k > 1 /\ l[k - 1] = "work")
    OBVIOUS
  <2>1. l[k] \in Work!Kinds
    BY <1>3
  <2>2. PICK m : m = [j \in DOMAIN l |-> [id |-> j, kind |-> l[j]]]
    OBVIOUS
  <2>3. \A j \in 1..Len(l) : m[j].kind = l[j]
    BY <1>3, <2>2
  <2>4. m[k].kind = "review" => k > 1 /\ m[k - 1].kind = "work"
    BY <1>3, <2>2 DEF Work!ValidList
  <2>5. k > 1 => k - 1 \in 1..Len(l)
    BY <1>3
  <2> QED  BY <2>1, <2>3, <2>4, <2>5
<1>12. Work!StageListValid
  <2>1. RowsTyped => Work!List \in Seq(WorkItem)
    BY ListIs DEF ListTells
  <2> SUFFICES ASSUME Work!List # Work!Empty
               PROVE  /\ Work!List[1].kind = "work"
                      /\ \A k \in 2..Len(Work!List) : "work" \in {Work!List[k].kind,
                           Work!List[k - 1].kind}
    BY DEF Work!StageListValid
  <2>2. Len(Work!List) = Len(l) /\ Len(l) >= 1
    BY <1>3, <1>5, <1>10, <2>1 DEF Work!Empty
  <2>3. Work!List[1].kind = "work"
    <3>1. 1 \in 1..Len(l) /\ ~(1 > 1)
      BY <1>3, <2>2
    <3> QED  BY <1>10, <1>11, <3>1 DEF Work!Kinds
  <2>4. ASSUME NEW k \in 2..Len(Work!List) PROVE "work" \in {Work!List[k].kind,
               Work!List[k - 1].kind}
    <3>1. k \in 1..Len(l) /\ k - 1 \in 1..Len(l)
      BY <1>3, <2>2
    <3> QED  BY <1>10, <1>11, <3>1 DEF Work!Kinds
  <2> QED  BY <2>3, <2>4
<1>13. WorkPlaced
  <2>1. task.stage \in Work!Stages => task.stage \in Work!Active /\ rows[task.stage].kind = "work"
    <3> SUFFICES ASSUME task.stage \in Work!Stages
                 PROVE  task.stage \in Work!Active /\ rows[task.stage].kind = "work"
      OBVIOUS
    <3>1. task.stage = 1 /\ 1 \in 1..Len(l) /\ ~(1 > 1)
      BY <1>3, <1>6, WorkNumbers DEF Work!Empty
    <3> QED  BY <1>4, <1>5, <1>11, <3>1 DEF Work!Kinds
  <2> QED  BY <1>2, <2>1 DEF WorkPlaced, Work!Empty
<1> QED  BY <1>7, <1>8, <1>9, <1>12, <1>13 DEF WorkInv

-----------------------------------------------------------------------------
(* Steps that move a request and nothing else, and those that move the task.*)

LEMMA WorkJobs ==
  ASSUME WorkInv, NEW w \in Workers, NEW p \in WorkPlaces, NEW j \in WorkJob,
         pc' = [pc EXCEPT ![w] = p], job' = [job EXCEPT ![w] = j],
         UNCHANGED << rows, cache, order, task, tests, drift >>,
         requests' \in 0..MaxRequests, edits' \in 0..MaxEdits,
         WorkFits(p, j), WorkCalm => WorkFound(p, j)
  PROVE  WorkInv'
<1>1. /\ pc'[w] = p /\ job'[w] = j
      /\ \A v \in Workers \ {w} : pc'[v] = pc[v] /\ job'[v] = job[v]
      /\ pc' \in [Workers -> WorkPlaces] /\ job' \in [Workers -> WorkJob]
  BY DEF WorkInv, WorkTypes
<1>2. UNCHANGED << Work!List, Work!Active >>
  BY ListSame
<1>3. WorkTypes' /\ WorkStatus'
  BY <1>1 DEF WorkInv, WorkTypes, RowsTyped, WorkStatus, Work!StartedIsOutOfStages
<1>4. \A v \in Workers : WorkFits(pc[v], job[v])'
  BY <1>1 DEF WorkInv, WorkFits
<1>5. Work!StageListValid'
  BY <1>2 DEF WorkInv, Work!StageListValid
<1>6. WorkCalm' => WorkPlaced'
  BY <1>2 DEF WorkInv, WorkCalm, WorkPlaced
<1>7. WorkCalm' => \A v \in Workers : WorkFound(pc[v], job[v])'
  BY <1>1 DEF WorkInv, WorkCalm, WorkFound
<1> QED  BY <1>3, <1>4, <1>5, <1>6, <1>7 DEF WorkInv

LEMMA WorkMoves ==
  ASSUME WorkInv, UNCHANGED << rows, edits >>, cache' \subseteq cache,
         \A v \in Workers : (pc'[v] = pc[v] /\ job'[v] = job[v]) \/ pc'[v] = "libre",
         pc' \in [Workers -> WorkPlaces], job' \in [Workers -> WorkJob],
         requests' \in 0..MaxRequests,
         drift \subseteq drift', drift' \subseteq Work!Causes,
         task' \in WorkTask, tests' \in Seq(WorkResults), WorkStatus',
         task.status # "sin_tarea" => task'.status # "sin_tarea",
         task.status # "sin_tarea" /\ task.stage = Work!Production => task'.stage = Work!Production,
         WorkCalm' => WorkPlaced'
  PROVE  WorkInv'
<1>1. UNCHANGED Work!List
  BY ListSame
<1>2. WorkTypes'
  BY DEF WorkInv, WorkTypes, RowsTyped
<1>3. \A v \in Workers : WorkFits(pc[v], job[v])'
  BY DEF WorkInv, WorkFits
<1>4. Work!StageListValid'
  BY <1>1 DEF WorkInv, Work!StageListValid
<1>5. WorkCalm' => WorkCalm
  BY DEF WorkCalm
<1>6. WorkCalm' => \A v \in Workers : WorkFound(pc[v], job[v])'
  BY <1>5 DEF WorkInv, WorkFound
<1> QED  BY <1>2, <1>3, <1>4, <1>6 DEF WorkInv

-----------------------------------------------------------------------------
(* What a request reads.                                                    *)

LEMMA WorkReads ==
  ASSUME WorkInv
  PROVE  /\ RowsTyped /\ ListTells /\ Work!View \in Seq(WorkItem)
         /\ task.stage \in Work!Stages \cup {Work!Production} /\ task.values \subseteq Fields
         /\ \A from \in Work!Stages \cup {Work!Production} :
              /\ Work!Reading(from) \in WorkJob /\ Work!Reading(from).from = from
              /\ Work!Reading(from).view = Work!View
              /\ Work!Reading(from).old = (Work!View # Work!List)
<1>1. RowsTyped /\ ListTells
  BY ListIs DEF WorkInv, WorkTypes
<1>2. Work!View \in Seq(WorkItem)
  BY <1>1 DEF Work!View, ListTells, WorkInv, WorkTypes
<1>3. task.stage \in Work!Stages \cup {Work!Production} /\ task.values \subseteq Fields
  BY DEF WorkInv, WorkTypes, WorkTask
<1>4. ASSUME NEW from \in Work!Stages \cup {Work!Production}
      PROVE  /\ Work!Reading(from) \in WorkJob /\ Work!Reading(from).from = from
             /\ Work!Reading(from).view = Work!View
             /\ Work!Reading(from).old = (Work!View # Work!List)
  <2>1. PICK v : v = Work!View
    OBVIOUS
  <2>2. PICK b \in BOOLEAN : b = (Work!View # Work!List)
    OBVIOUS
  <2>3. Work!Reading(from) = [Work!NoJob EXCEPT !.from = from, !.view = v, !.old = b]
    BY <2>1, <2>2 DEF Work!Reading
  <2>4. v \in Seq(WorkItem)
    BY <1>2, <2>1
  <2> QED  BY <2>1, <2>2, <2>3, <2>4, WorkNoJob DEF WorkJob, Work!NoJob
<1> QED  BY <1>1, <1>2, <1>3, <1>4

(* The stage of the task is in the list, in calm.                           *)
LEMMA WorkStageListed ==
  ASSUME WorkInv, WorkCalm, task.stage \in Work!Stages
  PROVE  \E k \in DOMAIN Work!List :
           Work!List[k] = [id |-> task.stage, kind |-> rows[task.stage].kind]
<1>1. PICK k \in DOMAIN Work!List : Work!List[k].id = task.stage
  BY WorkReads DEF WorkInv, WorkPlaced, ListTells
<1>2. Work!List[k].kind = rows[task.stage].kind /\ Work!List[k] \in WorkItem
  BY <1>1, WorkReads DEF ListTells
<1>3. Work!List[k] = [id |-> task.stage, kind |-> rows[task.stage].kind]
  BY <1>1, <1>2 DEF WorkItem
<1> QED  BY <1>3

LEMMA WorkBegins ==
  ASSUME WorkInv, NEW w \in Workers, NEW p \in WorkPlaces, NEW j \in WorkJob, Work!Begin(w, p, j),
         WorkFits(p, j), WorkCalm => WorkFound(p, j)
  PROVE  WorkInv'
<1>1. requests' \in 0..MaxRequests /\ edits' \in 0..MaxEdits
  BY WorkAssumption DEF Work!Begin, Work!config, WorkInv, WorkTypes
<1> QED  BY <1>1, WorkJobs DEF Work!Begin, Work!config, Work!work

LEMMA WorkCreateRead ==
  ASSUME WorkInv, NEW w \in Workers, Work!CreateRead(w)
  PROVE  WorkInv'
<1>1. PICK j : j = Work!Reading(Work!Production)
  OBVIOUS
<1>2. j \in WorkJob /\ Work!Begin(w, "crea", j)
  BY <1>1, WorkReads DEF Work!CreateRead
<1>3. WorkFits("crea", j) /\ WorkFound("crea", j)
  BY DEF WorkFits, WorkFound
<1> QED  BY <1>2, <1>3, WorkBegins DEF WorkPlaces

LEMMA WorkAdvanceRead ==
  ASSUME WorkInv, NEW w \in Workers, Work!AdvanceRead(w)
  PROVE  WorkInv'
<1>1. PICK j : j = Work!Reading(task.stage)
  OBVIOUS
<1>2. /\ j \in WorkJob /\ Work!Begin(w, "avanza", j) /\ task.stage \in Work!Stages
      /\ j.from = task.stage /\ j.view = Work!View /\ j.old = (Work!View # Work!List)
      /\ rows[task.stage].kind = "work"
  BY <1>1, WorkReads DEF Work!AdvanceRead
<1>3. WorkFits("avanza", j)
  BY <1>2 DEF WorkFits
<1>4. WorkCalm => WorkFound("avanza", j)
  BY <1>2, WorkStageListed DEF WorkFound
<1> QED  BY <1>2, <1>3, <1>4, WorkBegins DEF WorkPlaces

LEMMA WorkDecideRead ==
  ASSUME WorkInv, NEW w \in Workers, NEW v \in {"aprobada", "rechazada"}, Work!DecideRead(w, v)
  PROVE  WorkInv'
<1>1. PICK j : j = Work!Reading(task.stage)
  OBVIOUS
<1>2. /\ j \in WorkJob /\ Work!Begin(w, v, j) /\ task.stage \in Work!Stages
      /\ j.from = task.stage /\ j.view = Work!View /\ j.old = (Work!View # Work!List)
      /\ rows[task.stage].kind = "review"
  BY <1>1, WorkReads DEF Work!DecideRead
<1>3. WorkFits(v, j)
  BY <1>2 DEF WorkFits
<1>4. WorkCalm => WorkFound(v, j)
  BY <1>2, WorkStageListed DEF WorkFound
<1> QED  BY <1>2, <1>3, <1>4, WorkBegins DEF WorkPlaces

LEMMA WorkStatusRead ==
  ASSUME WorkInv, NEW w \in Workers, NEW p \in Staff \cup {Work!NoOne},
         NEW to \in {"pendiente", "en_proceso", "terminado"}, Work!StatusRead(w, p, to)
  PROVE  WorkInv'
<1>1. PICK claim \in BOOLEAN : claim = (to = "en_proceso" /\ p # Work!NoOne /\ Work!Unclaimed)
  OBVIOUS
<1>2. PICK j : j = [Work!NoJob EXCEPT !.who = p, !.to = to, !.claim = claim]
  OBVIOUS
<1>3. Work!Begin(w, "estado", j) /\ task # Work!NoTask /\ Work!OutOfStages(to)
  BY <1>1, <1>2 DEF Work!StatusRead
<1>4. j \in WorkJob /\ j.to = to
  BY <1>2, WorkNoJob DEF WorkJob
<1>5. WorkFits("estado", j)
  BY <1>3, <1>4 DEF WorkFits, Work!OutOfStages, WorkInv, WorkStatus
<1>6. WorkFound("estado", j)
  BY DEF WorkFound
<1> QED  BY <1>3, <1>4, <1>5, <1>6, WorkBegins DEF WorkPlaces

LEMMA WorkCaptureRead ==
  ASSUME WorkInv, NEW w \in Workers, NEW f \in Fields, Work!CaptureRead(w, {f})
  PROVE  WorkInv'
<1>1. PICK j : j = [Work!NoJob EXCEPT !.keys = {f}, !.seen = task.values]
  OBVIOUS
<1>2. Work!Begin(w, "captura", j)
  BY <1>1 DEF Work!CaptureRead
<1>3. j \in WorkJob
  BY <1>1, WorkNoJob, WorkReads DEF WorkJob
<1>4. WorkFits("captura", j) /\ WorkFound("captura", j)
  BY DEF Work!CaptureRead, WorkFits, WorkFound, WorkInv, WorkStatus
<1> QED  BY <1>2, <1>3, <1>4, WorkBegins DEF WorkPlaces

LEMMA WorkEditRead ==
  ASSUME WorkInv, NEW w \in Workers, NEW d \in Work!Drafts, Work!EditRead(w, d)
  PROVE  WorkInv'
<1>1. PICK j : j = [Work!NoJob EXCEPT !.draft = d, !.known = Work!List]
  OBVIOUS
<1>2. PICK n \in 0..MaxList : d \in [1..n -> [id : Work!Ids(Work!List) \cup {Work!Production},
             kind : Work!Kinds]]
  BY DEF Work!Drafts
<1>3. /\ Work!ValidList(d)
      /\ \A i, k \in DOMAIN d : i # k /\ d[i].id = d[k].id => d[i].id = Work!Production
  BY DEF Work!Drafts
<1>4. /\ Work!Ids(Work!List) \subseteq Work!Stages
      /\ \A i \in Work!Ids(Work!List) : \E m \in DOMAIN Work!List : Work!List[m].id = i
  BY WorkReads, EarlierOrders DEF Work!Ids, ListTells, ActiveOrdered
<1>5. \A k \in 1..n : d[k].id \in Work!Ids(Work!List) \cup {Work!Production} /\ d[k] \in WorkEntry
  BY <1>2, <1>4 DEF WorkEntry
<1>6. DOMAIN d = 1..n /\ d \in Seq(WorkEntry)
  BY <1>2, <1>5, WorkAssumption
<1>7. Work!List \in Seq(WorkItem)
  BY WorkReads DEF ListTells
<1>8. j \in WorkJob /\ j.draft = d /\ j.known = Work!List
  BY <1>1, <1>6, <1>7, WorkNoJob DEF WorkJob
<1>9. WorkFits("revisa", j) /\ WorkFound("revisa", j)
  BY <1>3, <1>4, <1>5, <1>6, <1>8 DEF WorkFits, WorkFound, WorkDraft
<1>10. requests' \in 0..MaxRequests /\ edits' \in 0..MaxEdits
  BY WorkAssumption DEF Work!EditRead, WorkInv, WorkTypes
<1>11. /\ pc' = [pc EXCEPT ![w] = "revisa"] /\ job' = [job EXCEPT ![w] = j]
       /\ UNCHANGED << rows, cache, order, task, tests, drift >>
  BY <1>1 DEF Work!EditRead, Work!work
<1> QED  BY <1>8, <1>9, <1>10, <1>11, WorkJobs DEF WorkPlaces

LEMMA WorkEditCheck ==
  ASSUME WorkInv, NEW w \in Workers, Work!EditCheck(w)
  PROVE  WorkInv'
<1>1. PICK j : j = job[w]
  OBVIOUS
<1>2. j \in WorkJob /\ WorkFits("revisa", j)
  BY <1>1 DEF WorkInv, WorkTypes, Work!EditCheck
<1>3. WorkFits("edita", j) /\ WorkFound("edita", j)
  BY <1>2 DEF WorkFits, WorkFound
<1>4. pc' = [pc EXCEPT ![w] = "edita"] /\ job' = [job EXCEPT ![w] = j]
  BY <1>1 DEF Work!EditCheck, WorkInv, WorkTypes
<1>5. requests' \in 0..MaxRequests /\ edits' \in 0..MaxEdits
  BY DEF Work!EditCheck, Work!config, WorkInv, WorkTypes
<1> QED  BY <1>2, <1>3, <1>4, <1>5, WorkJobs DEF Work!EditCheck, Work!config, Work!work, WorkPlaces

LEMMA WorkGiveUp ==
  ASSUME WorkInv, NEW w \in Workers, Work!GiveUp(w)
  PROVE  WorkInv'
<1>1. requests' \in 0..MaxRequests /\ edits' \in 0..MaxEdits
  BY DEF Work!GiveUp, Work!End, Work!config, WorkInv, WorkTypes
<1> QED  BY <1>1, WorkNoJob, WorkJobs DEF Work!GiveUp, Work!End, Work!config, Work!work, WorkPlaces

-----------------------------------------------------------------------------
(* Steps that move the task, or the order.                                  *)

LEMMA WorkEnded ==
  ASSUME WorkInv, NEW w \in Workers, Work!End(w)
  PROVE  /\ \A v \in Workers : (pc'[v] = pc[v] /\ job'[v] = job[v]) \/ pc'[v] = "libre"
         /\ pc' \in [Workers -> WorkPlaces] /\ job' \in [Workers -> WorkJob]
         /\ requests' \in 0..MaxRequests /\ pc[w] \in WorkPlaces /\ job[w] \in WorkJob
         /\ WorkFits(pc[w], job[w]) /\ (WorkCalm => WorkPlaced /\ WorkFound(pc[w], job[w]))
BY WorkNoJob DEF Work!End, WorkInv, WorkTypes, WorkPlaces

LEMMA WorkNotes ==
  ASSUME WorkInv, NEW c \in Work!Causes, NEW when \in BOOLEAN, Work!Note(c, when)
  PROVE  /\ drift \subseteq drift' /\ drift' \subseteq Work!Causes /\ (when => c \in drift')
         /\ WorkCalm' => WorkCalm
BY DEF Work!Note, WorkInv, WorkTypes, WorkCalm

LEMMA WorkSame ==
  ASSUME WorkInv, NEW w \in Workers, drift \subseteq drift',
         UNCHANGED << rows, tests >>, task'.stage = task.stage
  PROVE  WorkCalm' => WorkPlaced'
BY ListSame DEF WorkInv, WorkCalm, WorkPlaced

(* What moves the task by a list that is that of the database.              *)
LEMMA WorkCalmList ==
  ASSUME WorkInv, NEW w \in Workers, Work!Note("vista", Work!Outdated(w)), WorkCalm'
  PROVE  /\ WorkCalm /\ ~job[w].old /\ job[w].view = Work!List /\ "edicion" \notin drift
<1>1. PICK b \in BOOLEAN : b = Work!Outdated(w)
  BY DEF Work!Outdated
<1>2. drift \subseteq drift' /\ (b => "vista" \in drift') /\ WorkCalm
  BY <1>1, WorkNotes DEF Work!Causes
<1>3. ~Work!Outdated(w)
  BY <1>1, <1>2 DEF WorkCalm
<1> QED  BY <1>2, <1>3 DEF Work!Outdated, WorkCalm

LEMMA WorkNoted ==
  ASSUME WorkInv, NEW w \in Workers, Work!Note("vista", Work!Outdated(w))
  PROVE  drift \subseteq drift' /\ drift' \subseteq Work!Causes
<1>1. PICK b \in BOOLEAN : b = Work!Outdated(w)
  BY DEF Work!Outdated
<1> QED  BY <1>1, WorkNotes DEF Work!Causes

(* The stages of the list, in calm: the first is work, and so is that       *)
(* beside a review.                                                         *)
LEMMA WorkListStages ==
  ASSUME WorkInv, "edicion" \notin drift
  PROVE  /\ Work!List \in Seq(WorkItem)
         /\ \A k \in DOMAIN Work!List : /\ Work!List[k].id \in Work!Stages
                                            /\ Work!List[k].id \in Work!Active
                                        /\ Work!List[k].kind = rows[Work!List[k].id].kind
         /\ 1 \in DOMAIN Work!List => Work!List[1].kind = "work"
         /\ \A k \in DOMAIN Work!List, step \in {1, -1} :
              Work!List[k].kind = "review" /\ k + step \in DOMAIN Work!List =>
                Work!List[k + step].kind = "work"
<1>1. /\ Work!List \in Seq(WorkItem)
      /\ \A k \in DOMAIN Work!List : /\ Work!List[k].id \in Work!Stages
                                         /\ Work!List[k].id \in Work!Active
                                     /\ Work!List[k].kind = rows[Work!List[k].id].kind
  BY WorkReads, EarlierOrders DEF ListTells, ActiveOrdered
<1>2. DOMAIN Work!List = 1..Len(Work!List) /\ Len(Work!List) \in Nat
  BY <1>1
<1>3. Work!List # Work!Empty => /\ Work!List[1].kind = "work"
                                /\ \A k \in 2..Len(Work!List) : "work" \in {Work!List[k].kind,
                                     Work!List[k - 1].kind}
  BY DEF WorkInv, Work!StageListValid
<1>4. \A k \in DOMAIN Work!List : Work!List # Work!Empty
  BY <1>2 DEF Work!Empty
<1>5. ASSUME NEW k \in DOMAIN Work!List, NEW step \in {1, -1}, Work!List[k].kind = "review",
             k + step \in DOMAIN Work!List
      PROVE  Work!List[k + step].kind = "work"
  <2>1. \A m \in 2..Len(Work!List) : "work" \in {Work!List[m].kind, Work!List[m - 1].kind}
    BY <1>3, <1>4
  <2>2. CASE step = 1
    <3>1. k + 1 \in 2..Len(Work!List) /\ (k + 1) - 1 = k
      BY <1>2, <1>5, <2>2
    <3>2. "work" \in {Work!List[k + 1].kind, Work!List[k].kind}
      BY <2>1, <3>1
    <3> QED  BY <1>5, <2>2, <3>2
  <2>3. CASE step = -1
    <3>1. k \in 2..Len(Work!List) /\ k + step = k - 1
      BY <1>2, <1>5, <2>3
    <3>2. "work" \in {Work!List[k].kind, Work!List[k - 1].kind}
      BY <2>1, <3>1
    <3> QED  BY <1>5, <3>1, <3>2
  <2> QED  BY <2>2, <2>3
<1> QED  BY <1>1, <1>3, <1>4, <1>5

LEMMA WorkCreateTask ==
  ASSUME WorkInv, NEW w \in Workers, Work!CreateTask(w)
  PROVE  WorkInv'
<1>1. /\ Work!End(w) /\ UNCHANGED << rows, cache, edits, tests >>
  BY DEF Work!CreateTask, Work!config
<1>2. CASE task = Work!NoTask
  <2>1. /\ task' = [task EXCEPT !.status = "pendiente", !.stage = Work!First(job[w].view)]
        /\ Work!Note("vista", Work!Outdated(w))
    BY <1>2 DEF Work!CreateTask
  <2>2. PICK v : v = job[w].view
    OBVIOUS
  <2>3. v \in Seq(WorkItem)
    BY <1>1, <2>2, WorkEnded DEF WorkJob
  <2>4. PICK s \in Work!Stages \cup {Work!Production} :
          /\ s = Work!First(job[w].view)
          /\ s = Work!Production \/ (1 \in DOMAIN v /\ s = v[1].id)
    BY <2>2, <2>3, FirstIs
  <2>5. task' \in WorkTask /\ task'.status = "pendiente" /\ task'.stage = s
    BY <1>2, <2>1, <2>4, WorkNoJob DEF WorkTask, WorkStates
  <2>6. WorkStatus'
    BY <2>5 DEF WorkStatus, Work!StartedIsOutOfStages
  <2>7. task.status = "sin_tarea"
    BY <1>2, WorkNoJob
  <2>8. ASSUME WorkCalm' PROVE WorkPlaced'
    <3>1. WorkCalm /\ v = Work!List /\ "edicion" \notin drift
      BY <2>1, <2>2, <2>8, WorkCalmList
    <3>2. WorkPlaced
      BY <1>1, <3>1, WorkEnded
    <3>3. ~(tests # Work!Empty /\ Work!Last(tests) = "abierta")
      BY <1>2, <3>2, WorkNoJob, WorkNumbers DEF WorkPlaced
    <3>4. s \in Work!Stages => s \in Work!Active /\ rows[s].kind = "work"
      BY <2>4, <3>1, WorkListStages, WorkNumbers
    <3> QED  BY <1>1, <2>5, <3>2, <3>3, <3>4, ListSame DEF WorkPlaced
  <2> QED  BY <1>1, <2>1, <2>5, <2>6, <2>7, <2>8, WorkEnded, WorkNoted, WorkMoves DEF WorkInv,
              WorkTypes
<1>3. CASE task # Work!NoTask
  <2>1. UNCHANGED << task, drift >>
    BY <1>3 DEF Work!CreateTask
  <2>2. /\ task' \in WorkTask /\ tests' \in Seq(WorkResults) /\ WorkStatus'
        /\ drift' \subseteq Work!Causes
    BY <1>1, <2>1 DEF WorkInv, WorkTypes, WorkStatus, Work!StartedIsOutOfStages
  <2>3. WorkCalm' => WorkPlaced'
    BY <1>1, <2>1, WorkSame
  <2> QED  BY <1>1, <2>1, <2>2, <2>3, WorkEnded, WorkMoves
<1> QED  BY <1>2, <1>3

(* The task is still in the stage it was read in, so it has not started.    *)
LEMMA WorkStill ==
  ASSUME WorkInv, NEW w \in Workers, pc[w] \in {"avanza", "aprobada", "rechazada"},
         Work!StillThere(w)
  PROVE  /\ task.stage = job[w].from /\ task.stage \in Work!Stages /\ task.stage # Work!Production
         /\ task.status = "pendiente" /\ task \in WorkTask /\ job[w].view \in Seq(WorkItem)
<1>1. job[w].from \in Work!Stages
  BY DEF WorkInv, WorkFits
<1>2. task.stage = job[w].from /\ task.status # "sin_tarea"
  BY DEF Work!StillThere
<1>3. task \in WorkTask /\ task.status \in WorkStates /\ job[w].view \in Seq(WorkItem)
  BY DEF WorkInv, WorkTypes, WorkTask, WorkJob
<1>4. task.stage # Work!Production
  BY <1>1, <1>2, WorkNumbers
<1>5. ~(task.status \in {"en_proceso", "terminado"})
  BY <1>4 DEF WorkInv, WorkStatus, Work!StartedIsOutOfStages
<1> QED  BY <1>1, <1>2, <1>3, <1>4, <1>5 DEF WorkStates

(* In calm, the stage of the task is in the list, of the kind of the verb.  *)
LEMMA WorkStillFound ==
  ASSUME WorkInv, NEW w \in Workers, pc[w] \in {"avanza", "aprobada", "rechazada"},
         Work!StillThere(w),
         Work!Note("vista", Work!Outdated(w)), WorkCalm'
  PROVE  /\ WorkCalm /\ WorkPlaced /\ job[w].view = Work!List /\ "edicion" \notin drift
         /\ rows[task.stage].kind = IF pc[w] = "avanza" THEN "work" ELSE "review"
<1>1. WorkCalm /\ ~job[w].old /\ job[w].view = Work!List /\ "edicion" \notin drift
  BY WorkCalmList
<1>2. WorkPlaced /\ WorkFound(pc[w], job[w])
  BY <1>1 DEF WorkInv
<1>3. task.stage = job[w].from
  BY WorkStill
<1>4. PICK k \in DOMAIN Work!List :
        Work!List[k] = [id |-> task.stage, kind |-> IF pc[w] = "avanza" THEN "work" ELSE "review"]
  BY <1>1, <1>2, <1>3 DEF WorkFound
<1>5. Work!List[k].kind = rows[Work!List[k].id].kind
  BY <1>1, WorkListStages
<1> QED  BY <1>1, <1>2, <1>4, <1>5

LEMMA WorkAdvance ==
  ASSUME WorkInv, NEW w \in Workers, Work!Advance(w)
  PROVE  WorkInv'
<1>1. PICK next : next = Work!Next1(job[w].view, job[w].from)
  OBVIOUS
<1>2. /\ pc[w] = "avanza" /\ Work!StillThere(w) /\ Work!End(w)
      /\ Work!Note("vista", Work!Outdated(w))
      /\ task' = [task EXCEPT !.stage = next.id]
      /\ tests' = IF next.kind = "review" THEN Append(tests, "abierta") ELSE tests
      /\ UNCHANGED << rows, cache, edits >>
  BY <1>1 DEF Work!Advance, Work!Opens, Work!config
<1>3. /\ task.stage \in Work!Stages /\ task.stage # Work!Production /\ task \in WorkTask
      /\ task.status = "pendiente" /\ task.stage = job[w].from /\ job[w].view \in Seq(WorkItem)
  BY <1>2, WorkStill
<1>4. /\ next \in WorkEntry
      /\ \/ next = [id |-> Work!Production, kind |-> "work"]
         \/ \E k \in DOMAIN job[w].view : /\ k + 1 \in DOMAIN job[w].view
                                          /\ next = job[w].view[k + 1]
  <2>1. PICK v \in Seq(WorkItem) : v = job[w].view
    BY <1>3
  <2>2. next = Work!Beside(v, job[w].from, 1)
    BY <1>1, <2>1 DEF Work!Next1
  <2> QED  BY <2>1, <2>2, BesideIs
<1>5. /\ task' \in WorkTask /\ task'.status = "pendiente" /\ task'.stage = next.id
      /\ next.id \in Work!Stages \cup {Work!Production}
  BY <1>2, <1>3, <1>4 DEF WorkTask, WorkEntry
<1>6. WorkStatus'
  BY <1>5 DEF WorkStatus, Work!StartedIsOutOfStages
<1>7. tests \in Seq(WorkResults) /\ tests' \in Seq(WorkResults)
  BY <1>2 DEF WorkInv, WorkTypes, WorkResults
<1>8. ASSUME WorkCalm' PROVE WorkPlaced'
  <2>1. /\ WorkCalm /\ WorkPlaced /\ job[w].view = Work!List /\ "edicion" \notin drift
        /\ rows[task.stage].kind = "work"
    BY <1>2, <1>8, WorkStillFound
  <2>2. ~(tests # Work!Empty /\ Work!Last(tests) = "abierta")
    BY <2>1 DEF WorkPlaced
  <2>3. \A k \in DOMAIN tests : tests[k] # "abierta"
    BY <1>7, <2>1, <2>2 DEF WorkPlaced, Work!Last, Work!Empty
  <2>4. CASE next.kind = "review"
    <3>1. next.id \in Work!Stages /\ next.id \in Work!Active /\ rows[next.id].kind = "review"
      BY <1>4, <2>1, <2>4, WorkListStages
    <3>2. tests' = Append(tests, "abierta")
      BY <1>2, <2>4
    <3>3. /\ tests' # Work!Empty /\ Work!Last(tests') = "abierta"
          /\ \A k \in DOMAIN tests' : tests'[k] = "abierta" => k = Len(tests')
      BY <1>7, <2>3, <3>2 DEF Work!Last, Work!Empty
    <3> QED  BY <1>2, <1>5, <3>1, <3>3, ListSame DEF WorkPlaced
  <2>5. CASE next.kind # "review"
    <3>1. next.id \in Work!Stages => next.id \in Work!Active /\ rows[next.id].kind # "review"
      BY <1>4, <2>1, <2>5, WorkListStages, WorkNumbers
    <3>2. tests' = tests
      BY <1>2, <2>5
    <3> QED  BY <1>2, <1>5, <2>1, <2>2, <3>1, <3>2, ListSame DEF WorkPlaced
  <2> QED  BY <2>4, <2>5
<1>9. drift \subseteq drift' /\ drift' \subseteq Work!Causes
  BY <1>2, WorkNoted
<1> QED  BY <1>2, <1>3, <1>5, <1>6, <1>7, <1>8, <1>9, WorkEnded, WorkMoves

(* In calm, the round decided is the last one, and none is open after it.   *)
LEMMA WorkRound ==
  ASSUME WorkInv, WorkPlaced, Work!OpenTests # {}, NEW r \in WorkResults, r # "abierta", NEW i,
         i = CHOOSE k \in Work!OpenTests : \A m \in Work!OpenTests : m <= k,
         tests' = [tests EXCEPT ![i] = r]
  PROVE  /\ tests # Work!Empty /\ Work!Last(tests) = "abierta" /\ Work!Last(tests') = r
         /\ \A k \in DOMAIN tests' : tests'[k] # "abierta"
<1>1. PICK n : n = Len(tests)
  OBVIOUS
<1>2. n \in Nat /\ DOMAIN tests = 1..n /\ tests \in Seq(WorkResults)
  BY <1>1 DEF WorkInv, WorkTypes
<1>3. Work!OpenTests = {n}
  BY <1>1 DEF WorkPlaced, Work!OpenTests
<1>4. n \in 1..n /\ tests[n] = "abierta"
  BY <1>2, <1>3 DEF Work!OpenTests
<1>5. i = n
  BY <1>2, <1>3
<1>6. Len(tests') = n /\ DOMAIN tests' = 1..n /\ tests'[n] = r
  BY <1>1, <1>2, <1>4, <1>5
<1>7. \A k \in 1..n : tests'[k] # "abierta"
  <2>1. \A k \in 1..n : k # n => tests[k] # "abierta"
    BY <1>2, <1>3 DEF Work!OpenTests
  <2> QED  BY <1>2, <1>5, <2>1
<1> QED  BY <1>1, <1>2, <1>4, <1>6, <1>7 DEF Work!Last, Work!Empty

LEMMA WorkTarget ==
  ASSUME WorkInv, NEW w \in Workers, pc[w] \in {"avanza", "aprobada", "rechazada"},
         Work!StillThere(w)
  PROVE  \E step \in {1, -1} :
           /\ Work!Target(w) \in Work!Stages \cup {Work!Production}
           /\ \/ Work!Target(w) = Work!Production
              \/ \E k \in DOMAIN job[w].view :
                   /\ job[w].view[k].id = task.stage /\ k + step \in DOMAIN job[w].view
                   /\ Work!Target(w) = job[w].view[k + step].id
<1>1. job[w].view \in Seq(WorkItem) /\ task.stage = job[w].from
  BY WorkStill
<1>2. PICK step \in {1, -1} : Work!Target(w) = Work!Beside(job[w].view, job[w].from, step).id
  BY DEF Work!Target, Work!Next1, Work!Previous1
<1>3. PICK v \in Seq(WorkItem) : v = job[w].view
  BY <1>1
<1>4. PICK e \in WorkEntry : e = Work!Beside(v, task.stage, step)
  BY BesideIs
<1>5. \/ e = [id |-> Work!Production, kind |-> "work"]
      \/ \E k \in DOMAIN v : k + step \in DOMAIN v /\ v[k].id = task.stage /\ e = v[k + step]
  BY <1>4, BesideIs
<1>6. Work!Target(w) = e.id
  BY <1>1, <1>2, <1>3, <1>4
<1>7. Work!Target(w) \in Work!Stages \cup {Work!Production}
  BY <1>6 DEF WorkEntry
<1>8. \/ Work!Target(w) = Work!Production
      \/ \E k \in DOMAIN job[w].view :
           /\ job[w].view[k].id = task.stage /\ k + step \in DOMAIN job[w].view
           /\ Work!Target(w) = job[w].view[k + step].id
  BY <1>3, <1>5, <1>6
<1> QED  BY <1>7, <1>8

LEMMA WorkDecide ==
  ASSUME WorkInv, NEW w \in Workers, Work!Decide(w)
  PROVE  WorkInv'
<1>1. /\ pc[w] \in {"aprobada", "rechazada"} /\ Work!StillThere(w) /\ Work!OpenTests # {}
      /\ Work!End(w)
      /\ task' = [task EXCEPT !.stage = Work!Target(w)] /\ Work!Note("vista", Work!Outdated(w))
      /\ UNCHANGED << rows, cache, edits >>
  BY DEF Work!Decide, Work!config
<1>2. PICK i : /\ i = CHOOSE k \in Work!OpenTests : \A m \in Work!OpenTests : m <= k
               /\ tests' = [tests EXCEPT ![i] = pc[w]]
  BY DEF Work!Decide
<1>3. /\ task.stage \in Work!Stages /\ task.stage # Work!Production /\ task \in WorkTask
      /\ task.status = "pendiente"
  BY <1>1, WorkStill
<1>4. Work!Target(w) \in Work!Stages \cup {Work!Production}
  BY <1>1, WorkTarget
<1>5. task' \in WorkTask /\ task'.status = "pendiente" /\ task'.stage = Work!Target(w)
  BY <1>1, <1>3, <1>4 DEF WorkTask
<1>6. WorkStatus'
  BY <1>5 DEF WorkStatus, Work!StartedIsOutOfStages
<1>7. tests' \in Seq(WorkResults)
  <2>1. PICK r \in WorkResults : r = pc[w]
    BY <1>1 DEF WorkResults
  <2>2. tests \in Seq(WorkResults) /\ tests' = [tests EXCEPT ![i] = r]
    BY <1>2, <2>1 DEF WorkInv, WorkTypes
  <2>3. PICK n \in Nat : tests \in [1..n -> WorkResults]
    BY <2>2
  <2>4. tests' \in [1..n -> WorkResults]
    BY <2>2, <2>3
  <2> QED  BY <2>4
<1>8. ASSUME WorkCalm' PROVE WorkPlaced'
  <2>1. /\ WorkPlaced /\ job[w].view = Work!List /\ "edicion" \notin drift
        /\ rows[task.stage].kind = "review"
    BY <1>1, <1>8, WorkStillFound
  <2>2. \A k \in DOMAIN tests' : tests'[k] # "abierta"
    <3>1. pc[w] \in WorkResults /\ pc[w] # "abierta"
      BY <1>1 DEF WorkResults
    <3> QED  BY <1>1, <1>2, <2>1, <3>1, WorkRound
  <2>3. ~(tests' # Work!Empty /\ Work!Last(tests') = "abierta")
    <3>1. tests' # Work!Empty => Len(tests') \in DOMAIN tests'
      BY <1>7 DEF Work!Empty
    <3> QED  BY <2>2, <3>1 DEF Work!Last
  <2>4. Work!Target(w) \in Work!Stages => Work!Target(w) \in Work!Active
          /\ rows[Work!Target(w)].kind = "work"
    <3> SUFFICES ASSUME Work!Target(w) \in Work!Stages
                 PROVE  Work!Target(w) \in Work!Active /\ rows[Work!Target(w)].kind = "work"
      OBVIOUS
    <3>1. PICK step \in {1, -1}, k \in DOMAIN Work!List :
            Work!List[k].id = task.stage /\ k + step \in DOMAIN Work!List
              /\ Work!Target(w) = Work!List[k + step].id
      BY <1>1, <2>1, WorkTarget, WorkNumbers
    <3>2. Work!List[k].kind = "review"
      BY <2>1, <3>1, WorkListStages
    <3>3. Work!List[k + step].kind = "work"
      BY <2>1, <3>1, <3>2, WorkListStages
    <3> QED  BY <2>1, <3>1, <3>3, WorkListStages
  <2> QED  BY <1>1, <1>5, <2>2, <2>3, <2>4, ListSame DEF WorkPlaced
<1>9. drift \subseteq drift' /\ drift' \subseteq Work!Causes
  BY <1>1, WorkNoted
<1> QED  BY <1>1, <1>3, <1>5, <1>6, <1>7, <1>8, <1>9, WorkEnded, WorkMoves

LEMMA WorkStatusTx ==
  ASSUME WorkInv, NEW w \in Workers, Work!StatusTx(w)
  PROVE  WorkInv'
<1>1. /\ pc[w] = "estado" /\ Work!End(w) /\ UNCHANGED << rows, cache, edits, tests >>
  BY DEF Work!StatusTx, Work!config
<1>2. PICK j : j = job[w]
  OBVIOUS
<1>3. /\ j \in WorkJob /\ task.status # "sin_tarea"
      /\ j.to # "pendiente" => task.stage = Work!Production
  BY <1>1, <1>2, WorkEnded DEF WorkFits
<1>4. CASE task # Work!NoTask /\ Work!Allowed(task.status, j.to)
  <2>1. /\ task' = [task EXCEPT !.status = j.to, !.holder = IF j.claim THEN j.who ELSE @]
        /\ Work!Note("reclamo", j.claim /\ ~Work!Unclaimed)
    BY <1>2, <1>4 DEF Work!StatusTx
  <2>2. task' \in WorkTask /\ task'.status = j.to /\ task'.stage = task.stage
    <3>1. j.to \in WorkStates /\ j.who \in Staff \cup {Work!NoOne}
      BY <1>3 DEF WorkJob, WorkStates
    <3> QED  BY <2>1, <3>1 DEF WorkTask, WorkInv, WorkTypes
  <2>3. j.to \in {"pendiente", "en_proceso", "terminado"}
    BY <1>3 DEF WorkJob
  <2>4. WorkStatus'
    BY <1>3, <2>2, <2>3 DEF WorkStatus, Work!StartedIsOutOfStages
  <2>5. drift \subseteq drift' /\ drift' \subseteq Work!Causes
    <3>1. PICK b \in BOOLEAN : b = (j.claim /\ ~Work!Unclaimed)
      OBVIOUS
    <3> QED  BY <2>1, <3>1, WorkNotes DEF Work!Causes
  <2>6. WorkCalm' => WorkPlaced'
    BY <1>1, <2>2, <2>5, WorkSame
  <2>7. tests' \in Seq(WorkResults)
    BY <1>1 DEF WorkInv, WorkTypes
  <2> QED  BY <1>1, <2>2, <2>3, <2>4, <2>5, <2>6, <2>7, WorkEnded, WorkMoves
<1>5. CASE ~(task # Work!NoTask /\ Work!Allowed(task.status, j.to))
  <2>1. UNCHANGED << task, drift >>
    BY <1>2, <1>5 DEF Work!StatusTx
  <2>2. /\ task' \in WorkTask /\ tests' \in Seq(WorkResults) /\ WorkStatus'
        /\ drift' \subseteq Work!Causes
    BY <1>1, <2>1 DEF WorkInv, WorkTypes, WorkStatus, Work!StartedIsOutOfStages
  <2>3. WorkCalm' => WorkPlaced'
    BY <1>1, <2>1, WorkSame
  <2> QED  BY <1>1, <2>1, <2>2, <2>3, WorkEnded, WorkMoves
<1> QED  BY <1>4, <1>5

LEMMA WorkCapture ==
  ASSUME WorkInv, NEW w \in Workers, Work!Capture(w)
  PROVE  WorkInv'
<1>1. PICK cleared \in SUBSET job[w].keys : task' = [task EXCEPT !.values = Work!Merged(w, cleared)]
  BY DEF Work!Capture
<1>2. /\ Work!End(w) /\ Work!Note("captura", task.values # job[w].seen)
      /\ UNCHANGED << rows, cache, edits, tests >>
  BY DEF Work!Capture, Work!config
<1>3. Work!Merged(w, cleared) \subseteq Fields
  BY <1>2, WorkEnded DEF Work!Merged, WorkJob
<1>4. /\ task' \in WorkTask /\ task'.status = task.status /\ task'.stage = task.stage
      /\ task.status # "sin_tarea" => WorkStatus'
  BY <1>1, <1>3 DEF WorkInv, WorkTypes, WorkTask, WorkStatus, Work!StartedIsOutOfStages
<1>5. drift \subseteq drift' /\ drift' \subseteq Work!Causes
  <2>1. PICK b \in BOOLEAN : b = (task.values # job[w].seen)
    OBVIOUS
  <2> QED  BY <1>2, <2>1, WorkNotes DEF Work!Causes
<1>6. WorkCalm' => WorkPlaced'
  BY <1>2, <1>4, <1>5, WorkSame
<1>7. task.status # "sin_tarea"
  BY WorkEnded, <1>2 DEF WorkFits, Work!Capture
<1>8. tests' \in Seq(WorkResults)
  BY <1>2 DEF WorkInv, WorkTypes
<1> QED  BY <1>2, <1>4, <1>5, <1>6, <1>7, <1>8, WorkEnded, WorkMoves

LEMMA WorkAssign ==
  ASSUME WorkInv, NEW p \in Staff \cup {Work!NoOne}, Work!Assign(p)
  PROVE  WorkInv'
<1>1. /\ task.status # "sin_tarea" /\ task' = [task EXCEPT !.holder = p]
      /\ UNCHANGED << rows, cache, edits, tests, pc, job, drift >>
      /\ requests' \in 0..MaxRequests
  BY WorkAssumption DEF Work!Assign, Work!config, WorkInv, WorkTypes, WorkStatus
<1>2. /\ task' \in WorkTask /\ task'.status = task.status /\ task'.stage = task.stage
      /\ WorkStatus'
  BY <1>1 DEF WorkInv, WorkTypes, WorkTask, WorkStatus, Work!StartedIsOutOfStages
<1>3. WorkCalm' => WorkPlaced'
  BY <1>1, <1>2, ListSame DEF WorkInv, WorkCalm, WorkPlaced
<1>4. /\ tests' \in Seq(WorkResults) /\ pc' \in [Workers -> WorkPlaces]
      /\ job' \in [Workers -> WorkJob] /\ drift' \subseteq Work!Causes
  BY <1>1 DEF WorkInv, WorkTypes
<1> QED  BY <1>1, <1>2, <1>3, <1>4, WorkMoves

(* A step that moves only the order, the requests or the cache.             *)
LEMMA WorkAround ==
  ASSUME WorkInv, UNCHANGED << rows, edits, task, tests, pc, job, drift >>, cache' \subseteq cache,
         requests' \in 0..MaxRequests
  PROVE  WorkInv'
<1>1. WorkTypes' /\ WorkStatus'
  BY DEF WorkInv, WorkTypes, WorkStatus, Work!StartedIsOutOfStages, RowsTyped
<1>2. WorkCalm' => WorkPlaced'
  BY ListSame DEF WorkInv, WorkCalm, WorkPlaced
<1> QED  BY <1>1, <1>2, WorkMoves DEF WorkTypes

LEMMA WorkSetOrder ==
  ASSUME WorkInv, NEW s, Work!SetOrder(s)
  PROVE  WorkInv'
<1>1. /\ UNCHANGED << rows, cache, edits, task, tests, pc, job, drift >>
      /\ requests' \in 0..MaxRequests
  BY WorkAssumption DEF Work!SetOrder, Work!config, WorkInv, WorkTypes
<1> QED  BY <1>1, WorkAround

LEMMA WorkCacheExpire == WorkInv /\ Work!CacheExpire => WorkInv'
<1> SUFFICES ASSUME WorkInv, Work!CacheExpire PROVE WorkInv'
  OBVIOUS
<1>1. /\ UNCHANGED << rows, edits, task, tests, pc, job, drift >> /\ cache' = {}
      /\ requests' \in 0..MaxRequests
  BY DEF Work!CacheExpire, Work!work, WorkInv, WorkTypes
<1> QED  BY <1>1, WorkAround

-----------------------------------------------------------------------------
(* An edit of the list is written.                                          *)

(* The rows after it: those of the draft in its order, those it leaves out  *)
(* switched off, the others as they were, and a new one for each new stage. *)
WorkWritten(d, known, at) ==
  /\ RowsTyped' /\ Len(rows') >= Len(rows)
  /\ \A k \in DOMAIN d : d[k].id # Work!Production /\ d[k].id \in 1..Len(rows) =>
       rows'[d[k].id] = [rows[d[k].id] EXCEPT !.kind = d[k].kind, !.place = k]
  /\ \A s \in 1..Len(rows) : s \notin Work!Ids(d) =>
       rows'[s] = IF s \in Work!Ids(known) THEN [rows[s] EXCEPT !.active = FALSE] ELSE rows[s]
  /\ \A k \in Work!Fresh(d) : /\ at[k] \in (Len(rows) + 1)..Len(rows')
                              /\ rows'[at[k]] = Work!Row(d[k].kind, k)
  /\ \A s \in (Len(rows) + 1)..Len(rows') : \E k \in Work!Fresh(d) : s = at[k]

LEMMA Joined ==
  ASSUME NEW S, NEW n \in Nat, NEW c \in Nat, NEW a \in [1..n -> S], NEW b \in [1..c -> S]
  PROVE  /\ a \o b \in Seq(S) /\ Len(a \o b) = n + c
         /\ \A i \in 1..n : (a \o b)[i] = a[i]
         /\ \A j \in 1..c : (a \o b)[n + j] = b[j]
<1>1. a \in Seq(S) /\ b \in Seq(S) /\ Len(a) = n /\ Len(b) = c
  OBVIOUS
<1>2. \A j \in 1..c : n + j \in 1..(n + c) /\ ~(n + j <= n) /\ (n + j) - n = j
  OBVIOUS
<1> QED  BY <1>1, <1>2

LEMMA WorkEdited ==
  ASSUME WorkInv, NEW w \in Workers, Work!EditTx(w), NEW d, d = job[w].draft
  PROVE  \E at : WorkWritten(d, job[w].known, at)
<1>1. PICK new : new = Work!New(d)
  OBVIOUS
<1>2. PICK n : n = Len(rows)
  OBVIOUS
<1>3. PICK place : place = [s \in Work!Stages |-> CHOOSE k \in DOMAIN d : d[k].id = s]
  OBVIOUS
<1>4. /\ n \in Nat /\ n <= MaxRows /\ DOMAIN rows = 1..n /\ RowsTyped
      /\ \A s \in 1..n : s \in Work!Stages /\ s # Work!Production
  BY <1>2, WorkAssumption DEF WorkInv, WorkTypes, RowsTyped, Work!Stages, Work!Production
<1>5. pc[w] = "edita" /\ n + Len(new) <= MaxRows
  BY <1>1, <1>2 DEF Work!EditTx
<1>0. PICK a : a = [s \in DOMAIN rows |-> Work!Kept(s, d, job[w].known)]
  OBVIOUS
<1>b. PICK b : b = [j \in DOMAIN new |-> Work!Row(d[new[j]].kind, new[j])]
  OBVIOUS
<1>c. rows' = a \o b
  BY <1>1, <1>0, <1>b DEF Work!EditTx
<1>6. WorkDraft(d, job[w].known) /\ d \in Seq(WorkEntry)
  BY <1>5 DEF WorkInv, WorkTypes, WorkFits, WorkJob
<1>7. /\ Len(d) \in Nat /\ DOMAIN d = 1..Len(d)
      /\ \A k \in 1..Len(d) : d[k].id \in Work!Stages \cup {Work!Production}
           /\ d[k].kind \in Work!Kinds
  <2>1. \A k \in 1..Len(d) : d[k] \in WorkEntry
    BY <1>6
  <2> QED  BY <1>6, <2>1 DEF WorkEntry
<1>8. PICK c : c = Cardinality(Work!Fresh(d))
  OBVIOUS
<1>9. /\ c \in Nat /\ new \in [1..c -> Work!Fresh(d)]
      /\ \A k \in Work!Fresh(d) : \E j \in 1..c : new[j] = k
      /\ \A i, j \in 1..c : new[i] = new[j] => i = j
  <2>1. Work!Fresh(d) \in SUBSET (1..Len(d)) /\ IsFiniteSet(1..Len(d))
    BY <1>7, FS_Interval DEF Work!Fresh
  <2>2. IsFiniteSet(Work!Fresh(d))
    BY <2>1, FS_Subset
  <2>3. PICK R : R = {p \in Work!Fresh(d) \X Work!Fresh(d) : p[1] < p[2]}
    OBVIOUS
  <2>4. \A k \in Work!Fresh(d) : k \in Nat
    BY <2>1
  <2>5. Orders(R, Work!Fresh(d))
    BY <2>3, <2>4 DEF Orders
  <2>6. new = Work!InOrder(Work!Fresh(d), R)
    BY <1>1, <2>3 DEF Work!New
  <2> QED  BY <1>8, <2>2, <2>5, <2>6, InOrderEnumerates
<1>10. Len(new) = c /\ DOMAIN new = 1..c
  BY <1>9
<1>11. ASSUME NEW s \in 1..n, s \in Work!Ids(d)
       PROVE  place[s] \in DOMAIN d /\ d[place[s]].id = s
  BY <1>3, <1>4, <1>11 DEF Work!Ids
<1>12. ASSUME NEW k \in DOMAIN d, d[k].id # Work!Production, d[k].id \in 1..n
       PROVE  d[k].id \in Work!Ids(d) /\ place[d[k].id] = k
  <2>1. d[k].id \in Work!Ids(d)
    BY DEF Work!Ids
  <2>2. place[d[k].id] \in DOMAIN d /\ d[place[d[k].id]].id = d[k].id
    BY <1>11, <1>12, <2>1
  <2> QED  BY <1>6, <1>12, <2>1, <2>2 DEF WorkDraft
<1>13. ASSUME NEW s \in 1..n
       PROVE  /\ s \in Work!Ids(d) => a[s] = [rows[s] EXCEPT !.kind = d[place[s]].kind,
                  !.place = place[s]]
              /\ s \notin Work!Ids(d) => a[s] = IF s \in Work!Ids(job[w].known)
                                           THEN [rows[s] EXCEPT !.active = FALSE] ELSE rows[s]
  <2>1. place[s] = CHOOSE k \in DOMAIN d : d[k].id = s
    BY <1>3, <1>4
  <2>2. a[s] = Work!Kept(s, d, job[w].known)
    BY <1>4, <1>0
  <2> QED  BY <2>1, <2>2 DEF Work!Kept
<1>14. \A j \in 1..c : b[j] = Work!Row(d[new[j]].kind, new[j])
  BY <1>10, <1>b
<1>15. a \in [1..n -> WorkRow]
  <2>1. ASSUME NEW s \in 1..n PROVE a[s] \in WorkRow
    <3>1. rows[s] \in WorkRow
      BY <1>2, <1>4, RowAt
    <3>2. s \in Work!Ids(d) => place[s] \in Nat /\ d[place[s]].kind \in Work!Kinds
      BY <1>7, <1>11
    <3> QED  BY <1>13, <3>1, <3>2 DEF WorkRow
  <2> QED  BY <1>4, <1>0, <2>1
<1>16. b \in [1..c -> WorkRow]
  <2>1. ASSUME NEW j \in 1..c PROVE b[j] \in WorkRow
    <3>1. new[j] \in DOMAIN d
      BY <1>9 DEF Work!Fresh
    <3>2. new[j] \in Nat /\ d[new[j]].kind \in Work!Kinds
      BY <1>7, <3>1
    <3>3. b[j] = Work!Row(d[new[j]].kind, new[j])
      BY <1>14
    <3> QED  BY <3>2, <3>3 DEF Work!Row, WorkRow
  <2> QED  BY <1>10, <1>b, <2>1
<1>17. n \in Nat /\ c \in Nat
  BY <1>4, <1>9
<1>18. /\ rows' \in Seq(WorkRow) /\ Len(rows') = n + c
       /\ \A s \in 1..n : rows'[s] = a[s]
       /\ \A j \in 1..c : rows'[n + j] = b[j]
  <2>1. /\ a \o b \in Seq(WorkRow) /\ Len(a \o b) = n + c
        /\ \A s \in 1..n : (a \o b)[s] = a[s]
        /\ \A j \in 1..c : (a \o b)[n + j] = b[j]
    <3> HIDE DEF WorkRow
    <3> QED  BY <1>15, <1>16, <1>17, Joined
  <2> QED  BY <1>c, <2>1
<1>19. RowsTyped'
  BY <1>5, <1>10, <1>18 DEF RowsTyped
<1>20. PICK at : at = [k \in Work!Fresh(d) |-> n + (CHOOSE j \in 1..c : new[j] = k)]
  OBVIOUS
<1>21. ASSUME NEW k \in Work!Fresh(d)
       PROVE  at[k] \in (n + 1)..Len(rows') /\ rows'[at[k]] = Work!Row(d[k].kind, k)
  <2>1. PICK j \in 1..c : j = (CHOOSE i \in 1..c : new[i] = k) /\ new[j] = k
    BY <1>9
  <2>2. at[k] = n + j
    BY <1>20, <2>1
  <2>3. n + j \in (n + 1)..(n + c)
    BY <1>4, <1>9
  <2>4. rows'[n + j] = Work!Row(d[k].kind, k)
    BY <1>14, <1>18, <2>1
  <2> QED  BY <1>18, <2>2, <2>3, <2>4
<1>22. ASSUME NEW s \in (n + 1)..Len(rows') PROVE \E k \in Work!Fresh(d) : s = at[k]
  <2>1. s - n \in 1..c /\ n + (s - n) = s
    BY <1>4, <1>9, <1>18
  <2>2. PICK k \in Work!Fresh(d) : k = new[s - n]
    BY <1>9, <2>1
  <2>3. (CHOOSE j \in 1..c : new[j] = k) = s - n
    BY <1>9, <2>1, <2>2
  <2> QED  BY <1>20, <2>1, <2>2, <2>3
<1>23. ASSUME NEW k \in DOMAIN d, d[k].id # Work!Production, d[k].id \in 1..n
       PROVE  rows'[d[k].id] = [rows[d[k].id] EXCEPT !.kind = d[k].kind, !.place = k]
  <2>1. PICK s \in 1..n : s = d[k].id
    BY <1>23
  <2>2. s \in Work!Ids(d) /\ place[s] = k
    BY <1>12, <1>23, <2>1
  <2>3. rows'[s] = [rows[s] EXCEPT !.kind = d[k].kind, !.place = k]
    BY <1>13, <1>18, <2>2
  <2> QED  BY <2>1, <2>3
<1>24. ASSUME NEW s \in 1..n, s \notin Work!Ids(d)
       PROVE  rows'[s] = IF s \in Work!Ids(job[w].known) THEN [rows[s] EXCEPT !.active = FALSE]
                         ELSE rows[s]
  BY <1>13, <1>18, <1>24
<1>25. Len(rows') >= n
  BY <1>4, <1>9, <1>18
<1>26. \A k \in DOMAIN d : d[k].id # Work!Production /\ d[k].id \in 1..n =>
         rows'[d[k].id] = [rows[d[k].id] EXCEPT !.kind = d[k].kind, !.place = k]
  BY <1>23
<1>27. \A s \in 1..n : s \notin Work!Ids(d) =>
         rows'[s] = IF s \in Work!Ids(job[w].known) THEN [rows[s] EXCEPT !.active =
           FALSE] ELSE rows[s]
  BY <1>24
<1>28. \A k \in Work!Fresh(d) : /\ at[k] \in (n + 1)..Len(rows')
                                /\ rows'[at[k]] = Work!Row(d[k].kind, k)
  BY <1>21
<1>29. \A s \in (n + 1)..Len(rows') : \E k \in Work!Fresh(d) : s = at[k]
  BY <1>22
<1>30. WorkWritten(d, job[w].known, at)
  BY <1>2, <1>19, <1>25, <1>26, <1>27, <1>28, <1>29, Zenon DEF WorkWritten
<1> QED  BY <1>30

(* Without another edit in between, the new list is the draft.              *)
LEMMA WorkEditList ==
  ASSUME WorkInv, NEW w \in Workers, Work!EditTx(w), NEW d, d = job[w].draft,
         job[w].known = Work!List
  PROVE  /\ Work!List' \in Seq(WorkItem) /\ Len(Work!List') = Len(d)
         /\ \A k \in 1..Len(d) : Work!List'[k].kind = d[k].kind
<1>1. PICK at : WorkWritten(d, Work!List, at)
  BY WorkEdited
<1>2. PICK n : n = Len(rows)
  OBVIOUS
<1>3. /\ pc[w] = "edita" /\ RowsTyped /\ RowsTyped' /\ n \in Nat /\ DOMAIN rows = 1..n
      /\ Len(rows') \in Nat /\ DOMAIN rows' = 1..Len(rows') /\ Len(rows') >= n
  <2>1. RowsTyped' /\ Len(rows') >= Len(rows)
    BY <1>1 DEF WorkWritten
  <2>2. RowsTyped /\ pc[w] = "edita"
    BY DEF Work!EditTx, WorkInv, WorkTypes
  <2> QED  BY <1>2, <2>1, <2>2 DEF RowsTyped
<1>4. ActiveOrdered' /\ ListTells'
  <2>1. RowsTyped' => ActiveOrdered'
    BY EarlierOrders, PTL
  <2>2. RowsTyped' => ListTells'
    BY ListIs, PTL
  <2> QED  BY <1>3, <2>1, <2>2
<1>5. WorkDraft(d, Work!List) /\ d \in Seq(WorkEntry)
  BY <1>3 DEF WorkInv, WorkTypes, WorkFits, WorkJob
<1>6. /\ Len(d) \in Nat /\ DOMAIN d = 1..Len(d)
      /\ \A k \in 1..Len(d) : d[k].id \in Work!Stages \cup {Work!Production}
           /\ d[k].kind \in Work!Kinds
  <2>1. \A k \in 1..Len(d) : d[k] \in WorkEntry
    BY <1>5
  <2> QED  BY <1>5, <2>1 DEF WorkEntry
<1>7. PICK f : f = [k \in 1..Len(d) |-> IF d[k].id # Work!Production THEN d[k].id ELSE at[k]]
  OBVIOUS
<1>8. ASSUME NEW k \in 1..Len(d)
      PROVE  /\ f[k] \in Work!Active' /\ rows'[f[k]].place = k /\ rows'[f[k]].kind = d[k].kind
  <2>1. CASE d[k].id # Work!Production
    <3>1. f[k] = d[k].id
      BY <1>7, <2>1
    <3>2. d[k].id \in Work!Active /\ d[k].id \in 1..n
      <4>1. PICK m \in DOMAIN Work!List : Work!List[m].id = d[k].id
        BY <1>5, <1>6, <2>1 DEF WorkDraft
      <4>2. ListTells
        BY <1>3, ListIs
      <4> QED  BY <1>2, <1>3, <4>1, <4>2 DEF ListTells, Work!Active
    <3>3. rows[d[k].id] \in WorkRow /\ rows[d[k].id].active = TRUE
      BY <1>2, <1>3, <3>2, RowAt DEF Work!Active
    <3>4. rows'[d[k].id] = [rows[d[k].id] EXCEPT !.kind = d[k].kind, !.place = k]
      BY <1>1, <1>2, <1>6, <2>1, <3>2 DEF WorkWritten
    <3>5. d[k].id \in DOMAIN rows'
      BY <1>3, <3>2
    <3> QED  BY <3>1, <3>3, <3>4, <3>5 DEF Work!Active, WorkRow
  <2>2. CASE d[k].id = Work!Production
    <3>1. f[k] = at[k] /\ k \in Work!Fresh(d)
      BY <1>6, <1>7, <2>2 DEF Work!Fresh
    <3>2. at[k] \in (n + 1)..Len(rows') /\ rows'[at[k]] = Work!Row(d[k].kind, k)
      BY <1>1, <1>2, <3>1 DEF WorkWritten
    <3>3. at[k] \in DOMAIN rows'
      BY <1>3, <3>2
    <3> QED  BY <3>1, <3>2, <3>3 DEF Work!Active, Work!Row
  <2> QED  BY <2>1, <2>2
<1>9. ASSUME NEW s \in Work!Active' PROVE \E k \in 1..Len(d) : f[k] = s
  <2>1. s \in 1..Len(rows') /\ rows'[s].active
    BY <1>3 DEF Work!Active
  <2>2. CASE s \in 1..n
    <3>1. CASE s \in Work!Ids(d)
      <4>1. PICK k \in 1..Len(d) : d[k].id = s
        BY <1>6, <3>1 DEF Work!Ids
      <4>2. d[k].id # Work!Production
        BY <2>2, <4>1 DEF Work!Production
      <4> QED  BY <1>7, <4>1, <4>2
    <3>2. CASE s \notin Work!Ids(d)
      <4>1. rows'[s] = IF s \in Work!Ids(Work!List) THEN [rows[s] EXCEPT !.active =
              FALSE] ELSE rows[s]
        BY <1>1, <1>2, <2>2, <3>2 DEF WorkWritten
      <4>2. rows[s] \in WorkRow
        BY <1>2, <1>3, <2>2, RowAt
      <4>3. s \notin Work!Ids(Work!List) /\ rows[s].active
        BY <2>1, <4>1, <4>2 DEF WorkRow
      <4>4. s \in Work!Active
        BY <1>3, <2>2, <4>3 DEF Work!Active
      <4>5. s \in Work!Ids(Work!List)
        BY <1>3, <4>4, ListIs DEF ListTells, Work!Ids
      <4> QED  BY <4>3, <4>5
    <3> QED  BY <3>1, <3>2
  <2>3. CASE s \notin 1..n
    <3>1. s \in (n + 1)..Len(rows')
      BY <1>3, <2>1, <2>3
    <3>2. PICK k \in Work!Fresh(d) : s = at[k]
      BY <1>1, <1>2, <3>1 DEF WorkWritten
    <3>3. k \in 1..Len(d) /\ d[k].id = Work!Production
      BY <1>6 DEF Work!Fresh
    <3> QED  BY <1>7, <3>2, <3>3
  <2> QED  BY <2>2, <2>3
<1>10. \A j, k \in 1..Len(d) : j < k => << f[j], f[k] >> \in Work!Earlier'
  BY <1>6, <1>8 DEF Work!Earlier
<1>11. PICK S : S = Work!Active'
  OBVIOUS
<1>12. PICK R : R = Work!Earlier'
  OBVIOUS
<1>13. Work!InOrder(S, R) = f
  <2>1. Orders(R, S) /\ Len(d) \in Nat
    BY <1>4, <1>6, <1>11, <1>12 DEF ActiveOrdered
  <2>2. f \in [1..Len(d) -> S]
    BY <1>7, <1>8, <1>11
  <2>3. \A s \in S : \E k \in 1..Len(d) : f[k] = s
    BY <1>9, <1>11
  <2>4. \A j, k \in 1..Len(d) : j < k => << f[j], f[k] >> \in R
    BY <1>10, <1>12
  <2>5. PICK c \in Nat : c = Len(d)
    BY <2>1
  <2>6. /\ f \in [1..c -> S] /\ \A s \in S : \E k \in 1..c : f[k] = s
        /\ \A j, k \in 1..c : j < k => << f[j], f[k] >> \in R
    BY <2>2, <2>3, <2>4, <2>5
  <2> QED  BY <2>1, <2>6, InOrderOnly
<1>14. Work!List' = [k \in 1..Len(d) |-> [id |-> f[k], kind |-> rows'[f[k]].kind]]
  BY <1>7, <1>11, <1>12, <1>13 DEF Work!List, Work!Listed
<1>15. Work!List' \in Seq(WorkItem)
  BY <1>4 DEF ListTells
<1>16. Len(Work!List') = Len(d)
  BY <1>6, <1>14, <1>15
<1>17. \A k \in 1..Len(d) : Work!List'[k].kind = d[k].kind
  BY <1>8, <1>14
<1> QED  BY <1>15, <1>16, <1>17

(* In calm, nobody was working in a stage that goes or changes.             *)
LEMMA WorkEditSpares ==
  ASSUME WorkInv, WorkPlaced, NEW w \in Workers, Work!EditTx(w), job[w].known = Work!List,
         task.stage \in Work!Stages, \A s \in Work!Touched(w) : ~Work!Busy(s)
  PROVE  task.stage \in Work!Active' /\ rows'[task.stage].kind = rows[task.stage].kind
<1>1. PICK d : d = job[w].draft
  OBVIOUS
<1>2. PICK at : WorkWritten(d, Work!List, at)
  BY <1>1, WorkEdited
<1>3. PICK k \in DOMAIN Work!List : Work!List[k].id = task.stage
  BY WorkReads DEF WorkPlaced, ListTells
<1>4. /\ task.stage \in 1..Len(rows) /\ Work!List[k].kind = rows[task.stage].kind
      /\ rows[task.stage] \in WorkRow /\ rows[task.stage].active = TRUE
      /\ Len(rows) \in Nat /\ Len(rows') \in Nat /\ Len(rows') >= Len(rows)
      /\ DOMAIN rows' = 1..Len(rows')
  <2>1. RowsTyped /\ ListTells
    BY WorkReads
  <2>2. task.stage \in 1..Len(rows) /\ rows[task.stage].active
    BY <2>1 DEF WorkPlaced, Work!Active, RowsTyped
  <2>3. rows[task.stage] \in WorkRow /\ rows[task.stage].active \in BOOLEAN
    BY <2>1, <2>2, RowAt
  <2>4. RowsTyped' /\ Len(rows') >= Len(rows)
    BY <1>2 DEF WorkWritten
  <2>5. Len(rows) \in Nat /\ Len(rows') \in Nat /\ DOMAIN rows' = 1..Len(rows')
    BY <2>1, <2>4 DEF RowsTyped
  <2> QED  BY <1>3, <2>1, <2>2, <2>3, <2>4, <2>5 DEF ListTells
<1>5. task.status = "pendiente"
  <2>1. task.stage # Work!Production
    BY WorkNumbers
  <2> QED  BY <2>1, WorkNoJob DEF WorkInv, WorkStatus, Work!StartedIsOutOfStages, WorkTypes,
              WorkTask, WorkStates
<1>6. task.stage \notin Work!Touched(w)
  BY <1>5 DEF Work!Busy
<1>7. Work!List[k] \in Work!Range(d)
  BY <1>1, <1>3, <1>6 DEF Work!Touched
<1>8. PICK m \in DOMAIN d : d[m] = Work!List[k]
  BY <1>7 DEF Work!Range
<1>9. rows'[task.stage] = [rows[task.stage] EXCEPT !.kind = d[m].kind, !.place = m]
  <2>1. d[m].id = task.stage /\ d[m].id # Work!Production /\ d[m].id \in 1..Len(rows)
    BY <1>3, <1>4, <1>8, WorkNumbers
  <2> QED  BY <1>2, <2>1 DEF WorkWritten
<1>10. rows'[task.stage].kind = rows[task.stage].kind /\ rows'[task.stage].active = TRUE
  BY <1>4, <1>8, <1>9 DEF WorkRow
<1>11. task.stage \in DOMAIN rows'
  BY <1>4
<1> QED  BY <1>10, <1>11 DEF Work!Active

LEMMA WorkEditTx ==
  ASSUME WorkInv, NEW w \in Workers, Work!EditTx(w)
  PROVE  WorkInv'
<1>1. PICK d : d = job[w].draft
  OBVIOUS
<1>2. /\ pc[w] = "edita" /\ Work!End(w) /\ cache' \in {{}, {Work!List}}
      /\ UNCHANGED << edits, order, task, tests >>
  BY DEF Work!EditTx, Work!work
<1>3. /\ drift \subseteq drift' /\ drift' \subseteq Work!Causes
      /\ "edicion" \notin drift' => /\ "edicion" \notin drift /\ job[w].known = Work!List
                                    /\ \A s \in Work!Touched(w) : Work!Vacant(s)
      /\ "cerrado" \notin drift' => \A s \in Work!Touched(w) : ~(Work!Busy(s) /\ order = "cerrado")
  BY DEF Work!EditTx, Work!Causes, WorkInv, WorkTypes
<1>4. RowsTyped'
  BY <1>1, WorkEdited DEF WorkWritten
<1>5. WorkTypes'
  <2>1. cache' \subseteq Seq(WorkItem)
    BY <1>2, WorkReads DEF ListTells
  <2>2. edits' \in 0..MaxEdits /\ task' \in WorkTask /\ tests' \in Seq(WorkResults)
    BY <1>2 DEF WorkInv, WorkTypes
  <2> QED  BY <1>2, <1>3, <1>4, <2>1, <2>2, WorkEnded DEF WorkTypes
<1>6. WorkStatus'
  BY <1>2 DEF WorkInv, WorkStatus, Work!StartedIsOutOfStages
<1>7. \A v \in Workers : WorkFits(pc[v], job[v])'
  BY <1>2, WorkEnded DEF WorkInv, WorkFits
<1>8. Work!StageListValid'
  <2> SUFFICES ASSUME "edicion" \notin drift', Work!List' # Work!Empty
               PROVE  /\ Work!List'[1].kind = "work"
                      /\ \A k \in 2..Len(Work!List') : "work" \in {Work!List'[k].kind,
                           Work!List'[k - 1].kind}
    BY DEF Work!StageListValid
  <2>1. /\ Work!List' \in Seq(WorkItem) /\ Len(Work!List') = Len(d)
        /\ \A k \in 1..Len(d) : Work!List'[k].kind = d[k].kind
    BY <1>1, <1>3, WorkEditList
  <2>2. WorkDraft(d, job[w].known) /\ d \in Seq(WorkEntry)
    BY <1>1, <1>2 DEF WorkInv, WorkTypes, WorkFits, WorkJob
  <2>3. /\ Len(d) \in Nat /\ DOMAIN d = 1..Len(d) /\ Len(d) >= 1
    BY <2>1, <2>2 DEF Work!Empty
  <2>4. \A k \in 1..Len(d) : /\ d[k].kind \in {"work", "review"}
                             /\ d[k].kind = "review" => k > 1 /\ d[k - 1].kind = "work"
    <3>1. \A k \in 1..Len(d) : d[k] \in WorkEntry
      BY <2>2
    <3> QED  BY <2>2, <2>3, <3>1 DEF WorkDraft, Work!ValidList, WorkEntry, Work!Kinds
  <2>5. Work!List'[1].kind = "work"
    <3>1. 1 \in 1..Len(d) /\ ~(1 > 1)
      BY <2>3
    <3> QED  BY <2>1, <2>4, <3>1
  <2>6. ASSUME NEW k \in 2..Len(Work!List') PROVE "work" \in {Work!List'[k].kind,
               Work!List'[k - 1].kind}
    <3>1. k \in 1..Len(d) /\ k - 1 \in 1..Len(d)
      BY <2>1, <2>3
    <3> QED  BY <2>1, <2>4, <3>1
  <2> QED  BY <2>5, <2>6
<1>9. ASSUME WorkCalm' PROVE WorkPlaced' /\ \A v \in Workers : WorkFound(pc[v], job[v])'
  <2>1. /\ WorkCalm /\ job[w].known = Work!List
        /\ \A s \in Work!Touched(w) : ~Work!Busy(s)
    BY <1>3, <1>9 DEF WorkCalm, Work!Vacant
  <2>2. WorkPlaced
    BY <2>1 DEF WorkInv
  <2>3. task.stage \in Work!Stages =>
          task.stage \in Work!Active' /\ rows'[task.stage].kind = rows[task.stage].kind
    BY <2>1, <2>2, WorkEditSpares
  <2>4. WorkPlaced'
    BY <1>2, <2>2, <2>3 DEF WorkPlaced
  <2>5. \A v \in Workers : WorkFound(pc[v], job[v])'
    BY <1>2, <2>1, WorkEnded DEF WorkInv, WorkFound
  <2> QED  BY <2>4, <2>5
<1> QED  BY <1>5, <1>6, <1>7, <1>8, <1>9 DEF WorkInv

-----------------------------------------------------------------------------
(* Any step.                                                                *)

LEMMA WorkInvStep == WorkInv /\ Work!Next => WorkInv'
<1> SUFFICES ASSUME WorkInv, Work!Next PROVE WorkInv'
  OBVIOUS
<1>1. CASE Work!CacheExpire
  BY <1>1, WorkCacheExpire
<1>2. ASSUME NEW w \in Workers, Work!Handler(w) PROVE WorkInv'
  BY <1>2, WorkCreateTask, WorkAdvance, WorkDecide, WorkStatusTx, WorkCapture, WorkEditCheck,
     WorkEditTx, WorkGiveUp DEF Work!Handler
<1>3. ASSUME NEW w \in Workers, Work!CreateRead(w) \/ Work!AdvanceRead(w) PROVE WorkInv'
  BY <1>3, WorkCreateRead, WorkAdvanceRead
<1>4. ASSUME NEW w \in Workers, NEW v \in {"aprobada", "rechazada"},
             Work!DecideRead(w, v) PROVE WorkInv'
  BY <1>4, WorkDecideRead
<1>5. ASSUME NEW w \in Workers, NEW p \in Staff \cup {Work!NoOne},
             NEW to \in {"pendiente", "en_proceso", "terminado"}, Work!StatusRead(w, p, to)
      PROVE  WorkInv'
  BY <1>5, WorkStatusRead
<1>6. ASSUME NEW p \in Staff \cup {Work!NoOne}, Work!Assign(p) PROVE WorkInv'
  BY <1>6, WorkAssign
<1>7. ASSUME NEW w \in Workers, NEW f \in Fields, Work!CaptureRead(w, {f}) PROVE WorkInv'
  BY <1>7, WorkCaptureRead
<1>8. ASSUME NEW s, Work!SetOrder(s) PROVE WorkInv'
  BY <1>8, WorkSetOrder
<1>9. ASSUME NEW w \in Workers, NEW d \in Work!Drafts, Work!EditRead(w, d) PROVE WorkInv'
  BY <1>9, WorkEditRead
<1> QED  BY <1>1, <1>2, <1>3, <1>4, <1>5, <1>6, <1>7, <1>8, <1>9 DEF Work!Next

LEMMA WorkInvKept == WorkInv /\ UNCHANGED Work!vars => WorkInv'
<1> SUFFICES ASSUME WorkInv, UNCHANGED Work!vars PROVE WorkInv'
  OBVIOUS
<1>1. /\ UNCHANGED << rows, edits, task, tests, pc, job, drift >> /\ UNCHANGED cache
      /\ UNCHANGED requests
  BY DEF Work!vars, Work!config, Work!work
<1>2. requests' \in 0..MaxRequests
  BY <1>1 DEF WorkInv, WorkTypes
<1> QED  BY <1>1, <1>2, WorkAround

-----------------------------------------------------------------------------
(* What a step may do with the task.                                        *)

LEMMA WorkMovesByList ==
  ASSUME WorkInv, NEW w \in Workers, Work!Handler(w)
  PROVE  Work!StageMoves
<1> SUFFICES ASSUME task.stage # Work!Production, task'.stage # task.stage, WorkCalm'
             PROVE  \/ /\ task'.stage = Work!Next1(Work!List, task.stage).id
                       /\ (rows[task.stage].kind = "review" => Work!Last(tests') = "aprobada")
                    \/ task'.stage = Work!Previous1(Work!List, task.stage).id
                         /\ Work!Last(tests') = "rechazada"
  BY DEF Work!StageMoves, WorkCalm
<1>1. CASE Work!Advance(w)
  <2>1. /\ pc[w] = "avanza" /\ Work!StillThere(w) /\ Work!Note("vista", Work!Outdated(w))
        /\ task' = [task EXCEPT !.stage = Work!Next1(job[w].view, job[w].from).id]
    BY <1>1 DEF Work!Advance
  <2>2. job[w].view = Work!List /\ rows[task.stage].kind = "work" /\ task.stage = job[w].from
        /\ task \in WorkTask
    BY <2>1, WorkStillFound, WorkStill
  <2>3. task'.stage = Work!Next1(Work!List, task.stage).id
    BY <2>1, <2>2 DEF WorkTask
  <2> QED  BY <2>2, <2>3
<1>2. CASE Work!Decide(w)
  <2>1. /\ pc[w] \in {"aprobada", "rechazada"} /\ Work!StillThere(w) /\ Work!OpenTests # {}
        /\ task' = [task EXCEPT !.stage = Work!Target(w)] /\ Work!Note("vista", Work!Outdated(w))
    BY <1>2 DEF Work!Decide
  <2>2. PICK i : /\ i = CHOOSE k \in Work!OpenTests : \A m \in Work!OpenTests : m <= k
                 /\ tests' = [tests EXCEPT ![i] = pc[w]]
    BY <1>2 DEF Work!Decide
  <2>3. job[w].view = Work!List /\ task.stage = job[w].from /\ task \in WorkTask /\ WorkPlaced
    BY <2>1, WorkStillFound, WorkStill
  <2>4. Work!Last(tests') = pc[w]
    <3>1. pc[w] \in WorkResults /\ pc[w] # "abierta"
      BY <2>1 DEF WorkResults
    <3> QED  BY <2>1, <2>2, <2>3, <3>1, WorkRound
  <2>5. task'.stage = Work!Target(w)
    BY <2>1, <2>3 DEF WorkTask
  <2> QED  BY <2>1, <2>3, <2>4, <2>5 DEF Work!Target
<1>3. CASE Work!CreateTask(w)
  <2>1. task = Work!NoTask \/ task' = task
    BY <1>3 DEF Work!CreateTask
  <2> QED  BY <2>1, WorkNoJob
<1>4. CASE Work!StatusTx(w) \/ Work!Capture(w)
  <2>1. task'.stage = task.stage
    <3>1. task \in WorkTask
      BY DEF WorkInv, WorkTypes
    <3> QED  BY <1>4, <3>1 DEF Work!StatusTx, Work!Capture, WorkTask
  <2> QED  BY <2>1
<1>5. CASE Work!EditCheck(w) \/ Work!EditTx(w) \/ Work!GiveUp(w)
  BY <1>5 DEF Work!EditCheck, Work!EditTx, Work!GiveUp, Work!work
<1> QED  BY <1>1, <1>2, <1>3, <1>4, <1>5 DEF Work!Handler

(* A step that is not a handler's leaves the stage of the task alone.       *)
LEMMA WorkStagesInOrder == WorkInv /\ Work!Next => Work!StageMoves
<1> SUFFICES ASSUME WorkInv, Work!Next PROVE Work!StageMoves
  OBVIOUS
<1>1. ASSUME NEW w \in Workers, Work!Handler(w) PROVE Work!StageMoves
  BY <1>1, WorkMovesByList
<1>2. ASSUME task'.stage = task.stage PROVE Work!StageMoves
  BY <1>2 DEF Work!StageMoves
<1>3. CASE Work!CacheExpire
  BY <1>2, <1>3 DEF Work!CacheExpire, Work!work
<1>4. ASSUME NEW w \in Workers, Work!CreateRead(w) \/ Work!AdvanceRead(w) PROVE Work!StageMoves
  BY <1>2, <1>4 DEF Work!CreateRead, Work!AdvanceRead, Work!Begin, Work!work
<1>5. ASSUME NEW w \in Workers, NEW v \in {"aprobada", "rechazada"}, Work!DecideRead(w, v)
      PROVE  Work!StageMoves
  BY <1>2, <1>5 DEF Work!DecideRead, Work!Begin, Work!work
<1>6. ASSUME NEW w \in Workers, NEW p \in Staff \cup {Work!NoOne},
             NEW to \in {"pendiente", "en_proceso", "terminado"}, Work!StatusRead(w, p, to)
      PROVE  Work!StageMoves
  BY <1>2, <1>6 DEF Work!StatusRead, Work!Begin, Work!work
<1>7. ASSUME NEW p \in Staff \cup {Work!NoOne}, Work!Assign(p) PROVE Work!StageMoves
  <2>1. task \in WorkTask
    BY DEF WorkInv, WorkTypes
  <2> QED  BY <1>2, <1>7, <2>1 DEF Work!Assign, WorkTask
<1>8. ASSUME NEW w \in Workers, NEW f \in Fields, Work!CaptureRead(w, {f}) PROVE Work!StageMoves
  BY <1>2, <1>8 DEF Work!CaptureRead, Work!Begin, Work!work
<1>9. ASSUME NEW s, Work!SetOrder(s) PROVE Work!StageMoves
  BY <1>2, <1>9 DEF Work!SetOrder
<1>10. ASSUME NEW w \in Workers, NEW d \in Work!Drafts, Work!EditRead(w, d) PROVE Work!StageMoves
  BY <1>2, <1>10 DEF Work!EditRead, Work!work
<1> QED  BY <1>1, <1>3, <1>4, <1>5, <1>6, <1>7, <1>8, <1>9, <1>10 DEF Work!Next

LEMMA WorkTakesNothing == WorkInv => Work!TakesOrLosesNothing
<1> SUFFICES ASSUME WorkInv, NEW w \in Workers
             PROVE  /\ Work!StatusTx(w) /\ task.holder # Work!NoOne /\ "reclamo" \notin drift'
                         => task'.holder = task.holder
                    /\ Work!Capture(w) /\ "captura" \notin drift'
                         => task'.values \ job[w].keys = task.values \ job[w].keys
  BY DEF Work!TakesOrLosesNothing
<1>1. task \in WorkTask /\ job[w] \in WorkJob
  BY DEF WorkInv, WorkTypes
<1>2. ASSUME Work!StatusTx(w), task.holder # Work!NoOne, "reclamo" \notin drift'
      PROVE  task'.holder = task.holder
  <2>1. PICK j : j = job[w]
    OBVIOUS
  <2>2. CASE task # Work!NoTask /\ Work!Allowed(task.status, j.to)
    <3>1. /\ task' = [task EXCEPT !.status = j.to, !.holder = IF j.claim THEN j.who ELSE @]
          /\ Work!Note("reclamo", j.claim /\ ~Work!Unclaimed)
      BY <1>2, <2>1, <2>2 DEF Work!StatusTx
    <3>2. ~j.claim
      BY <1>2, <3>1 DEF Work!Note, Work!Unclaimed
    <3> QED  BY <1>1, <3>1, <3>2 DEF WorkTask
  <2>3. CASE ~(task # Work!NoTask /\ Work!Allowed(task.status, j.to))
    BY <1>2, <2>1, <2>3 DEF Work!StatusTx
  <2> QED  BY <2>2, <2>3
<1>3. ASSUME Work!Capture(w), "captura" \notin drift'
      PROVE  task'.values \ job[w].keys = task.values \ job[w].keys
  <2>1. PICK cleared \in SUBSET job[w].keys : task' = [task EXCEPT !.values = Work!Merged(w,
               cleared)]
    BY <1>3 DEF Work!Capture
  <2>2. job[w].seen = task.values
    BY <1>3 DEF Work!Capture, Work!Note
  <2>3. task'.values = (task.values \cup job[w].keys) \ cleared
    BY <1>1, <2>1, <2>2 DEF Work!Merged, WorkTask
  <2> QED  BY <2>3
<1> QED  BY <1>2, <1>3

-----------------------------------------------------------------------------
(* Notices.                                                                 *)

NoticeOrder ==
  [stage : {"ninguno", "diseno", "esperando", "produccion", "listo"}, round : 0..MaxRounds,
   sender : Notices!People \cup {Notices!Nobody}, creator : Notices!People \cup {Notices!Nobody},
   attended : Notices!Reception \cup {Notices!Nobody},
     who : {Notices!Nobody, Notices!Dora} \cup Notices!Reception,
   branch : Notices!Branches \cup {Notices!Nobody}]
NoticeMail ==
  [what : Notices!Matters, to : {"persona", "area", "duena", "todos"},
   who : Notices!People \cup Notices!Areas \cup {Notices!Nobody, "recepcion", "todos"},
     rings : BOOLEAN, first : BOOLEAN]
NoticeJob ==
  [by : Notices!People \cup {Notices!Nobody}, owner : Notices!People \cup {Notices!Nobody},
    round : 0..MaxRounds,
   mails : Seq(NoticeMail)]
NoticeRooms ==
  {"rol", "area", "usuario", "solo", "sucursal"}
    \X (Notices!People \cup Notices!Areas \cup Notices!Branches \cup {"recepcion", "sucursal"})
NoticeTold == Notices!People \X Notices!Matters \X (0..MaxRounds)

NoticeTypes ==
  /\ notedOrder \in NoticeOrder
  /\ member = [u \in Notices!Movers |-> member[u]]
  /\ member[Notices!Tito] \in SUBSET Notices!Areas /\ member[Notices!Tienda] \in Notices!Branches
  /\ rooms \in [Notices!Movers -> SUBSET NoticeRooms]
  /\ notices \subseteq NoticeTold /\ heard \subseteq NoticeTold /\ debts \subseteq NoticeTold
  /\ muted \subseteq excused /\ excused \subseteq Notices!People
  /\ noticePc \in [Workers -> {"libre", "leyo", "avisa"}]
  /\ noticeJob \in [Workers -> NoticeJob]
  /\ noticeRequests \in 0..MaxNoticeRequests /\ moves \in 0..MaxMoves

(* The account of a branch hears of an order of its branch, unless it moved. *)
AtHome(u) == Notices!Stranger(u) => u \in excused

(* Before there is an order nobody is told of it; a round is awaited from   *)
(* who sent it; the rooms of a socket are those of its person now.          *)
NoticeLife ==
  /\ Notices!Exists => notedOrder.creator \in Notices!People
  /\ ~Notices!Exists => notices = {} /\ heard = {} /\ debts = {}
       /\ \A w \in Workers : noticePc[w] = "libre"
  /\ Notices!Awaiting => notedOrder.sender \in {"rosa", Notices!Dora}
  /\ AtHome(notedOrder.creator)
  /\ \A u \in Notices!Movers : rooms[u] \in {{}, Notices!RoomsOf(u)} \/ u \in excused

(* The rounds sent and those that will be.                                  *)
NoticeRounds == notedOrder.round + Cardinality({w \in Workers : noticePc[w] = "leyo"}) <= MaxRounds

(* A notice is for somebody who may hear of the order, for an area, for     *)
(* Recepcion - one of its matters -, for the follower, or rung to all.      *)
MailFits(m) ==
  /\ m.to = "persona" => m.who \in Notices!People /\ AtHome(m.who)
  /\ m.to = "area" => m.who \in Notices!Areas \/
       (m.who = "recepcion" /\ m.what \in Notices!ForReception)
  /\ m.to = "duena" => ~m.rings
  /\ m.to = "todos" => m.rings /\ m.who = "todos" /\ m.what \in Notices!OnlyLive

(* Whoever sends a round has read who follows the order, or whoever does    *)
(* now took it meanwhile.                                                   *)
NoticeFits(p, j) ==
  /\ (p = "avisa") <=> (j.mails # << >>)
  /\ p = "leyo" =>
       /\ j.by \in {"rosa", Notices!Dora} /\ j.owner \in Notices!People /\ AtHome(j.owner)
       /\ j.owner = Notices!Follower \/ Notices!Follower \in excused
  /\ \A i \in DOMAIN j.mails : MailFits(j.mails[i])

(* A request still has a notice of this for that person.                    *)
Pending(d, p, j) ==
  /\ p = "avisa"
  /\ \E i \in DOMAIN j.mails :
       /\ j.mails[i].what = d[2] /\ j.round = d[3] /\ d[1] \in Notices!Recipients(j.mails[i], j.by)

(* Whoever is owed a notice has it, will have it, or is excused; whoever    *)
(* was rung has it in writing.                                              *)
NoticePaid ==
  /\ \A h \in notices \cup heard \cup debts : AtHome(h[1])
  /\ \A d \in debts : d[2] \notin Notices!ForReception =>
       d \in notices \/ d[1] \in excused \/ \E w \in Workers : Pending(d, noticePc[w], noticeJob[w])
  /\ \A h \in heard : h[2] \notin Notices!ForReception \cup Notices!OnlyLive =>
       h \in notices \/ h[1] \in excused

NoticeInv ==
  /\ NoticeTypes /\ NoticeLife /\ NoticeRounds
  /\ \A w \in Workers : NoticeFits(noticePc[w], noticeJob[w])
  /\ NoticePaid

LEMMA NoticeNames ==
  /\ Notices!Nobody \notin Notices!People /\ Notices!Tienda \in Notices!People
  /\ Notices!Tito \in Notices!People /\ Notices!Dora \in Notices!People
  /\ Notices!Reception \subseteq Notices!People /\ "rosa" \in Notices!Reception
  /\ "rita" \in Notices!Reception
  /\ Notices!Tito # Notices!Tienda /\ Notices!Dora # Notices!Tienda
       /\ Notices!Dora # Notices!Tito /\ Notices!Tito \in Notices!Movers /\
       Notices!Tienda \in Notices!Movers
  /\ Notices!Tienda \notin Notices!Reception /\ Notices!Tito \notin Notices!Reception
  /\ Notices!Dora \notin Notices!Reception
  /\ \A u \in Notices!People : u \in Notices!Reception \/ u \in {Notices!Dora, Notices!Tito,
       Notices!Tienda}
  /\ Notices!Movers = {Notices!Tito, Notices!Tienda} /\ "recepcion" \notin Notices!Areas
  /\ "todos" \notin Notices!People
  /\ Notices!ForReception \subseteq Notices!Matters /\ Notices!OnlyLive \subseteq Notices!Matters
BY DEF Notices!Nobody, Notices!People, Notices!Tienda, Notices!Tito, Notices!Dora,
   Notices!Reception, Notices!Movers, Notices!Areas, Notices!ForReception, Notices!OnlyLive,
   Notices!Matters

LEMMA NoticeIdle ==
  /\ Notices!Idle \in NoticeJob /\ Notices!Idle.mails = << >> /\ NoticeFits("libre", Notices!Idle)
  /\ \A d : ~Pending(d, "libre", Notices!Idle)
<1>1. /\ Notices!Idle.mails = << >> /\ DOMAIN << >> = {} /\ << >> \in Seq(NoticeMail)
      /\ 0 \in 0..MaxRounds
  BY NoticesAssumption DEF Notices!Idle
<1> QED  BY <1>1 DEF Notices!Idle, NoticeJob, NoticeFits, Pending

LEMMA AreasAre ==
  /\ Notices!AreasOf(Notices!Dora) = {"diseno"}
  /\ Notices!AreasOf(Notices!Tito) = member[Notices!Tito] /\ Notices!AreasOf(Notices!Tienda) = {}
  /\ \A u \in Notices!Reception : Notices!AreasOf(u) = {}
BY NoticeNames DEF Notices!AreasOf

LEMMA RoomsAre ==
  /\ \A u \in Notices!Reception : Notices!RoomsOf(u) = { << "rol", "recepcion" >> }
  /\ Notices!RoomsOf(Notices!Tienda) = { << "solo", "sucursal" >>, << "sucursal",
       member[Notices!Tienda] >> }
  /\ Notices!RoomsOf(Notices!Dora) = { << "area", "diseno" >>, << "usuario", Notices!Dora >> }
  /\ Notices!RoomsOf(Notices!Tito) = {<< "area", a >> : a \in member[Notices!Tito]} \cup
       { << "usuario", Notices!Tito >> }
<1>1. /\ \A u \in Notices!Reception : Notices!RoomsOf(u) = { << "rol", "recepcion" >> }
      /\ Notices!RoomsOf(Notices!Tienda) = { << "solo", "sucursal" >>, << "sucursal",
           member[Notices!Tienda] >> }
  BY NoticeNames DEF Notices!RoomsOf
<1>2. Notices!RoomsOf(Notices!Dora) = {<< "area",
        a >> : a \in Notices!AreasOf(Notices!Dora)} \cup { << "usuario", Notices!Dora >> }
  BY NoticeNames DEF Notices!RoomsOf
<1>3. Notices!RoomsOf(Notices!Tito) = {<< "area",
        a >> : a \in Notices!AreasOf(Notices!Tito)} \cup { << "usuario", Notices!Tito >> }
  BY NoticeNames DEF Notices!RoomsOf
<1> QED  BY <1>1, <1>2, <1>3, AreasAre

LEMMA FollowerIs ==
  ASSUME NoticeTypes, NoticeLife, Notices!Exists
  PROVE  /\ Notices!Follower \in Notices!People /\ AtHome(Notices!Follower)
         /\ Notices!Follower = Notices!ReceptionOwner(notedOrder)
         /\ Notices!Follower = notedOrder.creator \/ Notices!Follower \in Notices!Reception
BY NoticeNames DEF NoticeTypes, NoticeLife, NoticeOrder, Notices!Follower,
   Notices!ReceptionOwner, AtHome, Notices!Stranger

LEMMA RecipientsAre ==
  ASSUME NEW m, NEW by
  PROVE  /\ m.to = "persona" => Notices!Recipients(m, by) = {m.who}
         /\ m.to = "area" => Notices!Recipients(m, by) = Notices!UserIdsForArea(m.who)
         /\ m.to = "duena" =>
              Notices!Recipients(m, by) = {Notices!ReceptionOwner(notedOrder)} \ {by}
         /\ m.to = "todos" => Notices!Recipients(m, by) = {}
BY DEF Notices!Recipients

LEMMA AreaPeople ==
  ASSUME NEW a
  PROVE  /\ Notices!UserIdsForArea(a) \subseteq Notices!People
         /\ Notices!Tienda \notin Notices!UserIdsForArea(a)
         /\ \A u \in Notices!UserIdsForArea(a) : AtHome(u)
BY AreasAre DEF Notices!UserIdsForArea, AtHome, Notices!Stranger

(* Whoever a notice is written for is one of the house, and may hear of it. *)
LEMMA RecipientsHome ==
  ASSUME NoticeTypes, NoticeLife, Notices!Exists, NEW m \in NoticeMail, MailFits(m), NEW by
  PROVE  \A u \in Notices!Recipients(m, by) : u \in Notices!People /\ AtHome(u)
<1>1. CASE m.to = "persona"
  BY <1>1, RecipientsAre DEF MailFits
<1>2. CASE m.to = "area"
  BY <1>2, RecipientsAre, AreaPeople
<1>3. CASE m.to = "duena"
  BY <1>3, RecipientsAre, FollowerIs
<1>4. CASE m.to = "todos"
  BY <1>4, RecipientsAre
<1> QED  BY <1>1, <1>2, <1>3, <1>4 DEF NoticeMail

LEMMA RungIs ==
  ASSUME NEW m
  PROVE  /\ ~m.rings => Notices!Rung(m) = {}
         /\ m.rings /\ m.to = "todos" =>
              Notices!Rung(m) =
                ({v \in Notices!People : Notices!Online(v)} \ Notices!In(<< "solo", "sucursal" >>))
                          \cup Notices!In(<< "sucursal", notedOrder.branch >>)
         /\ m.rings /\ m.to = "persona" =>
              Notices!Rung(m) = {m.who} \cap {v \in Notices!People : Notices!Online(v)}
         /\ m.rings /\ m.to = "area" /\ m.who = "recepcion" =>
              Notices!Rung(m) = Notices!In(<< "rol", "recepcion" >>)
         /\ m.rings /\ m.to = "area" /\ m.who # "recepcion" =>
              Notices!Rung(m) = Notices!In(<< "area", m.who >>)
<1>1. CASE ~m.rings
  BY <1>1 DEF Notices!Rung
<1>2. CASE m.rings /\ m.to = "todos"
  BY <1>2 DEF Notices!Rung
<1>3. CASE m.rings /\ m.to = "persona"
  BY <1>3 DEF Notices!Rung
<1>4. CASE m.rings /\ m.to = "area" /\ m.who = "recepcion"
  BY <1>4 DEF Notices!Rung
<1>5. CASE m.rings /\ m.to = "area" /\ m.who # "recepcion"
  BY <1>5 DEF Notices!Rung
<1> QED  BY <1>1, <1>2, <1>3, <1>4, <1>5

(* Whoever a notice is rung to may hear of it; and if it is not for         *)
(* Recepcion as a whole it is written for him too, unless he moved.         *)
LEMMA RungFits ==
  ASSUME NoticeTypes, NoticeLife, NEW m \in NoticeMail, MailFits(m), NEW by,
         NEW u \in Notices!Rung(m)
  PROVE  /\ u \in Notices!People /\ AtHome(u)
         /\ m.what \notin Notices!ForReception \cup Notices!OnlyLive =>
              u \in Notices!Recipients(m, by) \/ u \in excused
<1>1. CASE ~m.rings
  BY <1>1, RungIs
<1>2. CASE m.rings /\ m.to = "todos"
  <2>1. u \in ({v \in Notices!People : Notices!Online(v)} \ Notices!In(<< "solo", "sucursal" >>))
                \cup Notices!In(<< "sucursal", notedOrder.branch >>)
    BY <1>2, RungIs
  <2>2. u \in Notices!People
    BY <2>1 DEF Notices!In
  <2>3. u = Notices!Tienda /\ u \notin excused => ~Notices!Stranger(u)
    <3> SUFFICES ASSUME u = Notices!Tienda, Notices!Tienda \notin excused
                 PROVE  notedOrder.branch = member[Notices!Tienda]
      BY DEF Notices!Stranger
    <3>1. /\ rooms[Notices!Tienda] \in {{}, Notices!RoomsOf(Notices!Tienda)}
          /\ Notices!Joined(Notices!Tienda) = rooms[Notices!Tienda]
      BY NoticeNames DEF NoticeLife, Notices!Joined
    <3>2. Notices!Joined(Notices!Tienda) \in {{}, { << "solo", "sucursal" >>, << "sucursal",
            member[Notices!Tienda] >> }}
      BY <3>1, RoomsAre
    <3>3. << "sucursal", notedOrder.branch >> \in Notices!Joined(Notices!Tienda)
      BY <2>1, <3>2 DEF Notices!In, Notices!Online
    <3>4. << "sucursal", notedOrder.branch >> # << "solo", "sucursal" >>
      OBVIOUS
    <3> QED  BY <3>2, <3>3, <3>4
  <2> QED  BY <1>2, <2>2, <2>3 DEF MailFits, AtHome, Notices!Stranger
<1>3. CASE m.rings /\ m.to = "persona"
  <2>1. u = m.who
    BY <1>3, RungIs
  <2> QED  BY <1>3, <2>1, RecipientsAre DEF MailFits
<1>4. CASE m.rings /\ m.to = "area"
  <2>1. CASE m.who = "recepcion"
    <3>1. u \in Notices!In(<< "rol", "recepcion" >>) /\ m.what \in Notices!ForReception
      BY <1>4, <2>1, RungIs, NoticeNames DEF MailFits
    <3>2. u \in Notices!People /\ << "rol", "recepcion" >> \in Notices!Joined(u)
      BY <3>1 DEF Notices!In
    <3>3. u = Notices!Tienda => u \in excused
      <4> SUFFICES ASSUME u = Notices!Tienda, Notices!Tienda \notin excused PROVE FALSE
        OBVIOUS
      <4>1. Notices!Joined(Notices!Tienda) \in {{}, { << "solo", "sucursal" >>, << "sucursal",
              member[Notices!Tienda] >> }}
        BY NoticeNames, RoomsAre DEF NoticeLife, Notices!Joined
      <4> QED  BY <3>2, <4>1
    <3> QED  BY <3>1, <3>2, <3>3 DEF AtHome, Notices!Stranger
  <2>2. CASE m.who # "recepcion"
    <3>1. u \in Notices!In(<< "area", m.who >>) /\ m.who \in Notices!Areas
      BY <1>4, <2>2, RungIs DEF MailFits
    <3>2. u \in Notices!People /\ << "area", m.who >> \in Notices!Joined(u)
      BY <3>1 DEF Notices!In
    <3>3. u \in Notices!Reception => FALSE
      <4> SUFFICES ASSUME u \in Notices!Reception PROVE FALSE
        OBVIOUS
      <4>1. Notices!Joined(u) = Notices!RoomsOf(u)
        BY NoticeNames DEF Notices!Joined
      <4> QED  BY <3>2, <4>1, RoomsAre
    <3>4. u \notin excused => u # Notices!Tienda
      <4> SUFFICES ASSUME u = Notices!Tienda, Notices!Tienda \notin excused PROVE FALSE
        OBVIOUS
      <4>1. Notices!Joined(Notices!Tienda) \in {{}, { << "solo", "sucursal" >>, << "sucursal",
              member[Notices!Tienda] >> }}
        BY NoticeNames, RoomsAre DEF NoticeLife, Notices!Joined
      <4> QED  BY <3>2, <4>1
    <3>5. u \notin excused => m.who \in Notices!AreasOf(u)
      <4>1. CASE u = Notices!Dora
        <5>1. Notices!Joined(u) = { << "area", "diseno" >>, << "usuario", Notices!Dora >> }
          BY <4>1, NoticeNames, RoomsAre DEF Notices!Joined
        <5>2. << "area", m.who >> # << "usuario", Notices!Dora >>
          OBVIOUS
        <5> QED  BY <3>2, <4>1, <5>1, <5>2, AreasAre
      <4>2. CASE u = Notices!Tito /\ u \notin excused
        <5>1. Notices!Joined(u) \in {{}, {<< "area", a >> : a \in member[Notices!Tito]} \cup
                { << "usuario", Notices!Tito >> }}
          BY <4>2, NoticeNames, RoomsAre DEF NoticeLife, Notices!Joined
        <5>2. << "area", m.who >> # << "usuario", Notices!Tito >>
          OBVIOUS
        <5>3. PICK a \in member[Notices!Tito] : << "area", m.who >> = << "area", a >>
          BY <3>2, <5>1, <5>2
        <5> QED  BY <4>2, <5>3, AreasAre
      <4> QED  BY <3>2, <3>3, <3>4, <4>1, <4>2, NoticeNames
    <3> QED  BY <1>4, <3>2, <3>4, <3>5, RecipientsAre DEF Notices!UserIdsForArea, AtHome,
                Notices!Stranger
  <2> QED  BY <2>1, <2>2
<1>5. CASE m.rings /\ m.to = "duena"
  BY <1>5 DEF MailFits
<1>6. m.rings \in BOOLEAN
  BY DEF NoticeMail
<1> QED  BY <1>1, <1>2, <1>3, <1>4, <1>5, <1>6 DEF NoticeMail

(* What a notice and a request that sends a round rest on.                  *)
NoticeStays ==
  /\ notedOrder'.creator = notedOrder.creator /\ notedOrder'.attended = notedOrder.attended
  /\ notedOrder'.branch = notedOrder.branch /\ member' = member /\ excused' = excused

LEMMA NoticeSame ==
  ASSUME NoticeStays
  PROVE  /\ Notices!Follower' = Notices!Follower
         /\ \A u : (AtHome(u)' <=> AtHome(u)) /\ Notices!RoomsOf(u)' = Notices!RoomsOf(u)
         /\ \A m : MailFits(m)' <=> MailFits(m)
         /\ \A m, by : Notices!Recipients(m, by)' = Notices!Recipients(m, by)
<1>1. Notices!Follower' = Notices!Follower
  BY DEF NoticeStays, Notices!Follower
<1>2. \A u : Notices!AreasOf(u)' = Notices!AreasOf(u) /\ (AtHome(u)' <=> AtHome(u))
  BY DEF NoticeStays, Notices!AreasOf, AtHome, Notices!Stranger
<1>3. \A u : Notices!RoomsOf(u)' = Notices!RoomsOf(u)
  BY <1>2 DEF NoticeStays, Notices!RoomsOf
<1>4. \A m : MailFits(m)' <=> MailFits(m)
  BY <1>2 DEF MailFits
<1>5. \A m, by : Notices!Recipients(m, by)' = Notices!Recipients(m, by)
  <2>1. \A a : Notices!UserIdsForArea(a)' = Notices!UserIdsForArea(a)
    BY <1>2 DEF Notices!UserIdsForArea
  <2>2. Notices!ReceptionOwner(notedOrder)' = Notices!ReceptionOwner(notedOrder)
    BY DEF NoticeStays, Notices!ReceptionOwner
  <2> QED  BY <2>1, <2>2 DEF Notices!Recipients
<1> QED  BY <1>1, <1>2, <1>3, <1>4, <1>5

LEMMA NoticeFitsSame ==
  ASSUME NoticeStays, NEW p, NEW j
  PROVE  /\ NoticeFits(p, j)' <=> NoticeFits(p, j)
         /\ \A d : Pending(d, p, j)' <=> Pending(d, p, j)
<1>1. NoticeFits(p, j)' <=> NoticeFits(p, j)
  BY NoticeSame DEF NoticeFits, NoticeStays
<1>2. \A d : Pending(d, p, j)' <=> Pending(d, p, j)
  BY NoticeSame DEF Pending
<1> QED  BY <1>1, <1>2

LEMMA NoticeToldIs ==
  \A h \in NoticeTold : h = << h[1], h[2], h[3] >> /\ h[1] \in Notices!People
    /\ h[2] \in Notices!Matters
BY DEF NoticeTold

(* What a request has left to tell, once it told the first.                 *)
LEMMA MailsLeft ==
  ASSUME NEW d \in Seq(NoticeMail), d # << >>
  PROVE  /\ Head(d) = d[1] /\ 1 \in DOMAIN d /\ d[1] \in NoticeMail
         /\ Tail(d) \in Seq(NoticeMail)
         /\ \A i \in DOMAIN Tail(d) : i + 1 \in DOMAIN d /\ Tail(d)[i] = d[i + 1]
         /\ \A i \in DOMAIN d : i = 1 \/ (i - 1 \in DOMAIN Tail(d) /\ Tail(d)[i - 1] = d[i])
<1>1. PICK n \in Nat : n = Len(d) /\ DOMAIN d = 1..n /\ n # 0
  OBVIOUS
<1>2. Tail(d) \in Seq(NoticeMail) /\ Len(Tail(d)) = n - 1 /\ Head(d) = d[1]
  BY <1>1
<1>3. DOMAIN Tail(d) = 1..(n - 1)
  BY <1>2
<1>4. \A i \in 1..(n - 1) : Tail(d)[i] = d[i + 1]
  BY <1>1
<1>5. \A i \in 1..n : i = 1 \/ (i - 1 \in 1..(n - 1) /\ (i - 1) + 1 = i)
  BY <1>1
<1>6. \A i \in 1..(n - 1) : i + 1 \in 1..n
  BY <1>1
<1>7. 1 \in DOMAIN d /\ d[1] \in NoticeMail
  BY <1>1
<1>8. \A i \in DOMAIN d : i = 1 \/ (i - 1 \in DOMAIN Tail(d) /\ Tail(d)[i - 1] = d[i])
  BY <1>1, <1>3, <1>4, <1>5
<1> QED  BY <1>1, <1>2, <1>3, <1>4, <1>6, <1>7, <1>8

LEMMA RoundsSame ==
  ASSUME NoticeRounds, notedOrder'.round = notedOrder.round,
         \A v \in Workers : (noticePc'[v] = "leyo") <=> (noticePc[v] = "leyo")
  PROVE  NoticeRounds'
<1>1. {v \in Workers : noticePc'[v] = "leyo"} = {v \in Workers : noticePc[v] = "leyo"}
  OBVIOUS
<1> QED  BY <1>1 DEF NoticeRounds

(* What a request that gives notices knows.                                 *)
LEMMA TellerIs ==
  ASSUME NoticeInv, NEW w \in Workers, noticePc[w] = "avisa"
  PROVE  /\ Notices!Exists /\ noticeJob[w] \in NoticeJob /\ noticeJob[w].mails \in Seq(NoticeMail)
         /\ noticeJob[w].mails # << >> /\ noticeJob[w].round \in 0..MaxRounds
         /\ \A i \in DOMAIN noticeJob[w].mails : noticeJob[w].mails[i] \in NoticeMail
              /\ MailFits(noticeJob[w].mails[i])
<1>1. Notices!Exists
  BY DEF NoticeInv, NoticeLife
<1>2. noticeJob[w] \in NoticeJob /\ NoticeFits(noticePc[w], noticeJob[w])
  BY DEF NoticeInv, NoticeTypes
<1>3. noticeJob[w].mails \in Seq(NoticeMail) /\ noticeJob[w].round \in 0..MaxRounds
  BY <1>2 DEF NoticeJob
<1>4. /\ noticeJob[w].mails # << >>
      /\ \A i \in DOMAIN noticeJob[w].mails : MailFits(noticeJob[w].mails[i])
  BY <1>2 DEF NoticeFits
<1>5. \A i \in DOMAIN noticeJob[w].mails : noticeJob[w].mails[i] \in NoticeMail
  BY <1>3
<1> QED  BY <1>1, <1>2, <1>3, <1>4, <1>5

(* The rows and the rings of one notice.                                    *)
LEMMA GivenFits ==
  ASSUME NoticeTypes, NoticeLife, Notices!Exists, NEW m \in NoticeMail, MailFits(m),
         NEW j, j.round \in 0..MaxRounds
  PROVE  /\ Notices!Written(m, j) \subseteq NoticeTold /\ Notices!RungOf(m, j) \subseteq NoticeTold
         /\ \A h \in Notices!Written(m, j) \cup Notices!RungOf(m, j) : AtHome(h[1])
         /\ \A u \in Notices!Recipients(m, j.by) :
              << u, m.what, j.round >> \in Notices!Written(m, j) \/ u \in excused
         /\ \A h \in Notices!RungOf(m, j) : h[2] \notin Notices!ForReception \cup
              Notices!OnlyLive =>
              h \in Notices!Written(m, j) \/ h[1] \in excused
<1>1. /\ m.what \in Notices!Matters
      /\ \A u \in Notices!Recipients(m, j.by) : u \in Notices!People /\ AtHome(u)
  BY RecipientsHome DEF NoticeMail
<1>2. \A u \in Notices!Recipients(m, j.by) :
        << u, m.what, j.round >> \in Notices!Written(m, j) \/ u \in excused
  BY <1>1 DEF Notices!Written, Notices!ShouldNotify, AtHome, NoticeTypes
<1>3. Notices!Written(m, j) \subseteq NoticeTold /\ \A h \in Notices!Written(m, j) : AtHome(h[1])
  BY <1>1 DEF Notices!Written, NoticeTold
<1>4. \A u \in Notices!Rung(m) :
        /\ u \in Notices!People /\ AtHome(u)
        /\ m.what \notin Notices!ForReception \cup Notices!OnlyLive =>
             u \in Notices!Recipients(m, j.by) \/ u \in excused
  BY RungFits
<1>5. \A h \in Notices!RungOf(m, j) : \E u \in Notices!Rung(m) : h = << u, m.what, j.round >>
  BY DEF Notices!RungOf
<1>6. Notices!RungOf(m, j) \subseteq NoticeTold /\ \A h \in Notices!RungOf(m, j) : AtHome(h[1])
  BY <1>1, <1>4, <1>5 DEF NoticeTold
<1>7. ASSUME NEW h \in Notices!RungOf(m, j), h[2] \notin Notices!ForReception \cup Notices!OnlyLive
      PROVE  h \in Notices!Written(m, j) \/ h[1] \in excused
  <2>1. PICK u \in Notices!Rung(m) : h = << u, m.what, j.round >>
    BY <1>5
  <2> QED  BY <1>2, <1>4, <1>7, <2>1
<1> QED  BY <1>2, <1>3, <1>6, <1>7

LEMMA NoticeTell ==
  ASSUME NoticeInv, NEW w \in Workers, Notices!Tell(w)
  PROVE  NoticeInv'
<1>1. PICK j : j = noticeJob[w]
  OBVIOUS
<1>2. /\ noticePc[w] = "avisa" /\ notedOrder' = notedOrder
      /\ Notices!people' = Notices!people /\ noticeRequests' = noticeRequests
      /\ debts' = debts /\ excused' = excused
      /\ notices' = notices \cup Notices!Written(Head(j.mails), j)
      /\ heard' = heard \cup Notices!RungOf(Head(j.mails), j)
  BY <1>1 DEF Notices!Tell
<1>3. /\ Notices!Exists /\ j \in NoticeJob /\ j.mails \in Seq(NoticeMail) /\ j.mails # << >>
      /\ j.round \in 0..MaxRounds
      /\ \A i \in DOMAIN j.mails : j.mails[i] \in NoticeMail /\ MailFits(j.mails[i])
  BY <1>1, <1>2, TellerIs
<1>4. PICK m, t : m = Head(j.mails) /\ t = Tail(j.mails)
  OBVIOUS
<1>5. /\ m = j.mails[1] /\ 1 \in DOMAIN j.mails /\ t \in Seq(NoticeMail)
      /\ \A i \in DOMAIN t : i + 1 \in DOMAIN j.mails /\ t[i] = j.mails[i + 1]
      /\ \A i \in DOMAIN j.mails : i = 1 \/ (i - 1 \in DOMAIN t /\ t[i - 1] = j.mails[i])
  BY <1>3, <1>4, MailsLeft
<1>6. m \in NoticeMail /\ MailFits(m) /\ \A i \in DOMAIN t : MailFits(t[i])
  BY <1>3, <1>5
<1>7. NoticeStays /\ member' = member /\ rooms' = rooms /\ muted' = muted /\ moves' = moves
  BY <1>2 DEF NoticeStays, Notices!people
<1>8. /\ \A v \in Workers \ {w} : noticePc'[v] = noticePc[v] /\ noticeJob'[v] = noticeJob[v]
      /\ noticePc' \in [Workers -> {"libre", "leyo", "avisa"}]
      /\ noticeJob' \in [Workers -> NoticeJob]
      /\ \/ t = << >> /\ noticePc'[w] = "libre" /\ noticeJob'[w] = Notices!Idle
         \/ t # << >> /\ noticePc'[w] = "avisa" /\ noticeJob'[w] = [j EXCEPT !.mails = t]
  <2>1. CASE t = << >>
    BY <1>1, <1>4, <2>1, NoticeIdle DEF Notices!Tell, NoticeInv, NoticeTypes
  <2>2. CASE t # << >>
    <3>1. noticePc' = noticePc /\ noticeJob' = [noticeJob EXCEPT ![w].mails = Tail(@)]
      BY <1>1, <1>4, <2>2 DEF Notices!Tell
    <3>2. [j EXCEPT !.mails = t] \in NoticeJob
      BY <1>3, <1>5 DEF NoticeJob
    <3>3. noticeJob' = [noticeJob EXCEPT ![w] = [j EXCEPT !.mails = t]]
      BY <1>1, <1>4, <3>1 DEF NoticeInv, NoticeTypes
    <3> QED  BY <1>2, <2>2, <3>1, <3>2, <3>3 DEF NoticeInv, NoticeTypes
  <2> QED  BY <2>1, <2>2
<1>9. /\ Notices!Written(m, j) \subseteq NoticeTold /\ Notices!RungOf(m, j) \subseteq NoticeTold
      /\ \A h \in Notices!Written(m, j) \cup Notices!RungOf(m, j) : AtHome(h[1])
      /\ \A u \in Notices!Recipients(m, j.by) :
           << u, m.what, j.round >> \in Notices!Written(m, j) \/ u \in excused
      /\ \A h \in Notices!RungOf(m, j) : h[2] \notin Notices!ForReception \cup Notices!OnlyLive =>
           h \in Notices!Written(m, j) \/ h[1] \in excused
  BY <1>3, <1>6, GivenFits DEF NoticeInv
<1>10. NoticeTypes'
  BY <1>2, <1>4, <1>7, <1>8, <1>9 DEF NoticeInv, NoticeTypes
<1>11. NoticeLife'
  <2>1. Notices!Exists' /\ (Notices!Awaiting' <=> Notices!Awaiting)
    BY <1>2, <1>3 DEF Notices!Exists, Notices!Awaiting
  <2> QED  BY <1>2, <1>7, <2>1, NoticeSame DEF NoticeInv, NoticeLife
<1>12. NoticeRounds'
  BY <1>2, <1>8, RoundsSame DEF NoticeInv
<1>13. ASSUME NEW v \in Workers PROVE NoticeFits(noticePc[v], noticeJob[v])'
  <2>1. PICK p, k : p = noticePc[v] /\ k = noticeJob[v]
    OBVIOUS
  <2>2. CASE v # w
    <3>1. NoticeFits(p, k)'
      BY <1>7, <2>1, NoticeFitsSame DEF NoticeInv
    <3> QED  BY <1>8, <2>1, <2>2, <3>1
  <2>3. CASE v = w /\ t = << >>
    <3>1. NoticeFits("libre", Notices!Idle)'
      BY <1>7, NoticeIdle, NoticeFitsSame
    <3> QED  BY <1>8, <2>3, <3>1
  <2>4. CASE v = w /\ t # << >>
    <3>1. PICK k2 : k2 = [j EXCEPT !.mails = t]
      OBVIOUS
    <3>2. k2.mails = t
      BY <1>3, <3>1 DEF NoticeJob
    <3>3. NoticeFits("avisa", k2)
      BY <1>6, <2>4, <3>2 DEF NoticeFits
    <3>4. NoticeFits("avisa", k2)'
      BY <1>7, <3>3, NoticeFitsSame
    <3> QED  BY <1>8, <2>4, <3>1, <3>4
  <2> QED  BY <2>2, <2>3, <2>4
<1>14. NoticePaid'
  <2>1. \A h \in notices' \cup heard' \cup debts' : AtHome(h[1])'
    BY <1>2, <1>4, <1>7, <1>9, NoticeSame DEF NoticeInv, NoticePaid
  <2>2. \A h \in heard' : h[2] \notin Notices!ForReception \cup Notices!OnlyLive =>
          h \in notices' \/ h[1] \in excused'
    BY <1>2, <1>4, <1>9 DEF NoticeInv, NoticePaid
  <2>3. ASSUME NEW d \in debts', d[2] \notin Notices!ForReception, d \notin notices',
               d[1] \notin excused'
        PROVE  \E v \in Workers : Pending(d, noticePc[v], noticeJob[v])'
    <3>1. PICK v \in Workers : Pending(d, noticePc[v], noticeJob[v])
      BY <1>2, <2>3 DEF NoticeInv, NoticePaid
    <3>2. CASE v # w
      <4>1. PICK p, k : p = noticePc[v] /\ k = noticeJob[v]
        OBVIOUS
      <4>2. Pending(d, p, k)'
        BY <1>7, <3>1, <4>1, NoticeFitsSame
      <4> QED  BY <1>8, <3>2, <4>1, <4>2
    <3>3. CASE v = w
      <4>1. PICK i \in DOMAIN j.mails :
              j.mails[i].what = d[2] /\ j.round = d[3]
                /\ d[1] \in Notices!Recipients(j.mails[i], j.by)
        BY <1>1, <3>1, <3>3 DEF Pending
      <4>2. i # 1
        <5>1. d = << d[1], d[2], d[3] >>
          BY <1>2, NoticeToldIs DEF NoticeInv, NoticeTypes
        <5> QED  BY <1>2, <1>4, <1>5, <1>9, <2>3, <4>1, <5>1
      <4>3. i - 1 \in DOMAIN t /\ t[i - 1] = j.mails[i]
        BY <1>5, <4>2
      <4>4. t # << >>
        BY <4>3
      <4>5. PICK k2 : k2 = [j EXCEPT !.mails = t]
        OBVIOUS
      <4>6. k2.mails = t /\ k2.round = j.round /\ k2.by = j.by
        BY <1>3, <4>5 DEF NoticeJob
      <4>7. Pending(d, "avisa", k2)
        BY <4>1, <4>3, <4>6 DEF Pending
      <4>8. Pending(d, "avisa", k2)'
        BY <1>7, <4>7, NoticeFitsSame
      <4> QED  BY <1>8, <4>4, <4>5, <4>8
    <3> QED  BY <3>2, <3>3
  <2> QED  BY <2>1, <2>2, <2>3 DEF NoticePaid
<1> QED  BY <1>10, <1>11, <1>12, <1>13, <1>14 DEF NoticeInv

LEMMA NoticeFail ==
  ASSUME NoticeInv, NEW w \in Workers, Notices!Fail(w)
  PROVE  NoticeInv'
<1>1. PICK j, out : /\ j = noticeJob[w]
                    /\ out = UNION {Notices!Recipients(j.mails[i], j.by) : i \in DOMAIN j.mails}
  OBVIOUS
<1>2. /\ noticePc[w] = "avisa" /\ notedOrder' = notedOrder
      /\ Notices!people' = Notices!people /\ noticeRequests' = noticeRequests
      /\ notices' = notices /\ debts' = debts /\ excused' = excused \cup out
      /\ noticePc' = [noticePc EXCEPT ![w] = "libre"]
      /\ noticeJob' = [noticeJob EXCEPT ![w] = Notices!Idle]
      /\ heard' \in {heard, heard \cup Notices!RungOf(Head(j.mails), j)}
  BY <1>1 DEF Notices!Fail
<1>3. /\ Notices!Exists /\ j \in NoticeJob /\ j.mails \in Seq(NoticeMail) /\ j.mails # << >>
      /\ j.round \in 0..MaxRounds
      /\ \A i \in DOMAIN j.mails : j.mails[i] \in NoticeMail /\ MailFits(j.mails[i])
  BY <1>1, <1>2, TellerIs
<1>4. PICK m : m = Head(j.mails)
  OBVIOUS
<1>5. m = j.mails[1] /\ 1 \in DOMAIN j.mails
  BY <1>3, <1>4, MailsLeft
<1>6. member' = member /\ rooms' = rooms /\ muted' = muted /\ moves' = moves
  BY <1>2 DEF Notices!people
<1>7. \A i \in DOMAIN j.mails : \A u \in Notices!Recipients(j.mails[i], j.by) : u \in out
        /\ u \in Notices!People
  BY <1>1, <1>3, RecipientsHome DEF NoticeInv
<1>8. out \subseteq Notices!People
  BY <1>1, <1>7
<1>9. /\ Notices!RungOf(m, j) \subseteq NoticeTold
      /\ \A h \in Notices!RungOf(m, j) : AtHome(h[1])
      /\ \A h \in Notices!RungOf(m, j) : h[2] \notin Notices!ForReception \cup Notices!OnlyLive =>
           h[1] \in Notices!Recipients(m, j.by) \/ h[1] \in excused
  <2>1. m \in NoticeMail /\ MailFits(m) /\ NoticeTypes /\ NoticeLife
    BY <1>3, <1>5 DEF NoticeInv
  <2>2. Notices!RungOf(m, j) \subseteq NoticeTold /\ \A h \in Notices!RungOf(m, j) : AtHome(h[1])
    BY <1>3, <2>1, GivenFits
  <2>3. \A h \in Notices!RungOf(m, j) : \E u \in Notices!Rung(m) : h[1] = u /\ h[2] = m.what
    BY DEF Notices!RungOf
  <2> QED  BY <2>1, <2>2, <2>3, RungFits
<1>10. /\ Notices!Follower' = Notices!Follower
       /\ \A u : (AtHome(u) => AtHome(u)') /\ Notices!RoomsOf(u)' = Notices!RoomsOf(u)
       /\ \A m2 : MailFits(m2) => MailFits(m2)'
       /\ \A m2, by : Notices!Recipients(m2, by)' = Notices!Recipients(m2, by)
  <2>1. Notices!Follower' = Notices!Follower /\ \A u : Notices!AreasOf(u)' = Notices!AreasOf(u)
    BY <1>2, <1>6 DEF Notices!Follower, Notices!AreasOf
  <2>2. \A u : AtHome(u) => AtHome(u)'
    BY <1>2, <1>6 DEF AtHome, Notices!Stranger
  <2>3. \A u : Notices!RoomsOf(u)' = Notices!RoomsOf(u)
    BY <1>6, <2>1 DEF Notices!RoomsOf
  <2>4. \A m2 : MailFits(m2) => MailFits(m2)'
    BY <2>2 DEF MailFits
  <2>5. /\ (\A a : Notices!UserIdsForArea(a)' = Notices!UserIdsForArea(a))
        /\ Notices!ReceptionOwner(notedOrder)' = Notices!ReceptionOwner(notedOrder)
    BY <1>2, <2>1 DEF Notices!UserIdsForArea, Notices!ReceptionOwner
  <2>6. \A m2, by : Notices!Recipients(m2, by)' = Notices!Recipients(m2, by)
    BY <2>5 DEF Notices!Recipients
  <2> QED  BY <2>1, <2>2, <2>3, <2>4, <2>6
<1>11. NoticeTypes'
  BY <1>2, <1>4, <1>6, <1>8, <1>9, NoticeIdle DEF NoticeInv, NoticeTypes
<1>12. NoticeLife'
  <2>1. Notices!Exists' /\ (Notices!Awaiting' <=> Notices!Awaiting)
    BY <1>2, <1>3 DEF Notices!Exists, Notices!Awaiting
  <2> QED  BY <1>2, <1>6, <1>10, <2>1 DEF NoticeInv, NoticeLife
<1>13. NoticeRounds'
  <2>1. \A v \in Workers : (noticePc'[v] = "leyo") <=> (noticePc[v] = "leyo")
    BY <1>2 DEF NoticeInv, NoticeTypes
  <2> QED  BY <1>2, <2>1, RoundsSame DEF NoticeInv
<1>14. ASSUME NEW v \in Workers PROVE NoticeFits(noticePc[v], noticeJob[v])'
  <2>1. PICK p, k : p = noticePc[v] /\ k = noticeJob[v]
    OBVIOUS
  <2>2. CASE v # w
    <3>1. NoticeFits(p, k)'
      BY <1>2, <1>10, <2>1 DEF NoticeInv, NoticeFits
    <3>2. noticePc'[v] = p /\ noticeJob'[v] = k
      BY <1>2, <2>1, <2>2 DEF NoticeInv, NoticeTypes
    <3> QED  BY <3>1, <3>2
  <2>3. CASE v = w
    <3>1. NoticeFits("libre", Notices!Idle)'
      BY NoticeIdle DEF NoticeFits
    <3>2. noticePc'[v] = "libre" /\ noticeJob'[v] = Notices!Idle
      BY <1>2, <2>3 DEF NoticeInv, NoticeTypes
    <3> QED  BY <3>1, <3>2
  <2> QED  BY <2>2, <2>3
<1>15. NoticePaid'
  <2>1. \A h \in notices' \cup heard' \cup debts' : AtHome(h[1])'
    BY <1>2, <1>4, <1>9, <1>10 DEF NoticeInv, NoticePaid
  <2>2. \A h \in heard' : h[2] \notin Notices!ForReception \cup Notices!OnlyLive =>
          h \in notices' \/ h[1] \in excused'
    BY <1>2, <1>4, <1>5, <1>7, <1>9 DEF NoticeInv, NoticePaid
  <2>3. ASSUME NEW d \in debts', d[2] \notin Notices!ForReception, d \notin notices',
               d[1] \notin excused'
        PROVE  \E v \in Workers : Pending(d, noticePc[v], noticeJob[v])'
    <3>1. PICK v \in Workers : Pending(d, noticePc[v], noticeJob[v])
      BY <1>2, <2>3 DEF NoticeInv, NoticePaid
    <3>2. v # w
      BY <1>1, <1>2, <1>7, <2>3, <3>1 DEF Pending
    <3>3. PICK p, k : p = noticePc[v] /\ k = noticeJob[v]
      OBVIOUS
    <3>4. Pending(d, p, k)'
      BY <1>10, <3>1, <3>3 DEF Pending
    <3>5. noticePc'[v] = p /\ noticeJob'[v] = k
      BY <1>2, <3>2, <3>3 DEF NoticeInv, NoticeTypes
    <3> QED  BY <3>4, <3>5
  <2> QED  BY <2>1, <2>2, <2>3 DEF NoticePaid
<1> QED  BY <1>11, <1>12, <1>13, <1>14, <1>15 DEF NoticeInv

(* A request commits its change: who it is owed to is among the notices it  *)
(* will give.                                                               *)
LEMMA NoticeCommit ==
  ASSUME NoticeInv, NEW w \in Workers, noticePc[w] # "avisa",
         NEW by \in Notices!People \cup {Notices!Nobody},
         NEW o \in NoticeOrder, NEW mails \in Seq(NoticeMail),
         NEW facts, facts \subseteq Notices!People \X Notices!Matters,
         Notices!Commit(w, by, o, mails), Notices!Owe(o.round, facts), UNCHANGED excused,
         noticeRequests' \in 0..MaxNoticeRequests,
         o.stage # "ninguno", o.creator \in Notices!People, AtHome(o.creator)',
         o.stage = "esperando" => o.sender \in {"rosa", Notices!Dora},
         Notices!Exists => /\ o.creator = notedOrder.creator /\ o.attended = notedOrder.attended
                           /\ o.branch = notedOrder.branch,
         NoticeRounds',
         \A i \in DOMAIN mails : MailFits(mails[i])',
         \A f \in facts :
           /\ AtHome(f[1])'
           /\ f[2] \notin Notices!ForReception =>
                \/ f[1] \in excused
                \/ \E i \in DOMAIN mails :
                     mails[i].what = f[2] /\ f[1] \in Notices!Recipients(mails[i], by)'
  PROVE  NoticeInv'
<1>1. PICK fresh : fresh = [by |-> by, owner |-> Notices!Nobody, round |-> o.round, mails |-> mails]
  OBVIOUS
<1>2. fresh \in NoticeJob /\ fresh.by = by /\ fresh.round = o.round /\ fresh.mails = mails
  BY <1>1 DEF NoticeOrder, NoticeJob
<1>3. /\ notedOrder' = o /\ member' = member /\ rooms' = rooms /\ muted' = muted /\ moves' = moves
      /\ notices' = notices /\ heard' = heard /\ excused' = excused
      /\ debts' = debts \cup {<< f[1], f[2], o.round >> : f \in facts}
  BY DEF Notices!Commit, Notices!Owe, Notices!people
<1>4. /\ \A v \in Workers \ {w} : noticePc'[v] = noticePc[v] /\ noticeJob'[v] = noticeJob[v]
      /\ noticePc' \in [Workers -> {"libre", "leyo", "avisa"}]
      /\ noticeJob' \in [Workers -> NoticeJob]
      /\ \/ mails = << >> /\ noticePc'[w] = "libre" /\ noticeJob'[w] = Notices!Idle
         \/ mails # << >> /\ noticePc'[w] = "avisa" /\ noticeJob'[w] = fresh
  <2>1. CASE mails = << >>
    BY <2>1, NoticeIdle DEF Notices!Commit, NoticeInv, NoticeTypes
  <2>2. CASE mails # << >>
    BY <1>1, <1>2, <2>2 DEF Notices!Commit, NoticeInv, NoticeTypes
  <2> QED  BY <2>1, <2>2
<1>5. {<< f[1], f[2], o.round >> : f \in facts} \subseteq NoticeTold
  BY DEF NoticeTold, NoticeOrder
<1>6. NoticeTypes'
  BY <1>3, <1>4, <1>5 DEF NoticeInv, NoticeTypes
<1>7. \A u : Notices!RoomsOf(u)' = Notices!RoomsOf(u)
  <2>1. \A u : Notices!AreasOf(u)' = Notices!AreasOf(u)
    BY <1>3 DEF Notices!AreasOf
  <2> QED  BY <1>3, <2>1 DEF Notices!RoomsOf
<1>8. Notices!Exists' /\ NoticeLife'
  BY <1>3, <1>7 DEF NoticeInv, NoticeLife, Notices!Exists, Notices!Awaiting
<1>9. Notices!Exists => NoticeStays
  BY <1>3 DEF NoticeStays
<1>10. ASSUME NEW v \in Workers PROVE NoticeFits(noticePc[v], noticeJob[v])'
  <2>1. PICK p, k : p = noticePc[v] /\ k = noticeJob[v]
    OBVIOUS
  <2>2. CASE v # w
    <3>1. NoticeFits(p, k)'
      <4>1. CASE Notices!Exists
        BY <1>9, <2>1, <4>1, NoticeFitsSame DEF NoticeInv
      <4>2. CASE ~Notices!Exists
        <5>1. p = "libre" /\ NoticeFits(p, k)
          BY <2>1, <4>2 DEF NoticeInv, NoticeLife
        <5>2. p = "libre" /\ k.mails = << >>
          BY <5>1 DEF NoticeFits
        <5> QED  BY <5>2 DEF NoticeFits
      <4> QED  BY <4>1, <4>2
    <3> QED  BY <1>4, <2>1, <2>2, <3>1
  <2>3. CASE v = w /\ mails = << >>
    <3>1. NoticeFits("libre", Notices!Idle)'
      BY NoticeIdle DEF NoticeFits
    <3> QED  BY <1>4, <2>3, <3>1
  <2>4. CASE v = w /\ mails # << >>
    <3>1. NoticeFits("avisa", fresh)'
      BY <1>2, <2>4 DEF NoticeFits
    <3> QED  BY <1>4, <2>4, <3>1
  <2> QED  BY <2>2, <2>3, <2>4
<1>11. NoticePaid'
  <2>1. \A h \in notices' \cup heard' \cup debts' : AtHome(h[1])'
    <3>1. \A h \in notices \cup heard \cup debts : AtHome(h[1])'
      <4>1. CASE Notices!Exists
        BY <1>9, <4>1, NoticeSame DEF NoticeInv, NoticePaid
      <4>2. CASE ~Notices!Exists
        BY <4>2 DEF NoticeInv, NoticeLife
      <4> QED  BY <4>1, <4>2
    <3>2. \A h \in {<< f[1], f[2], o.round >> : f \in facts} : \E f \in facts : h[1] = f[1]
      OBVIOUS
    <3> QED  BY <1>3, <3>1, <3>2
  <2>2. \A h \in heard' : h[2] \notin Notices!ForReception \cup Notices!OnlyLive =>
          h \in notices' \/ h[1] \in excused'
    BY <1>3 DEF NoticeInv, NoticePaid
  <2>3. ASSUME NEW d \in debts', d[2] \notin Notices!ForReception, d \notin notices',
               d[1] \notin excused'
        PROVE  \E v \in Workers : Pending(d, noticePc[v], noticeJob[v])'
    <3>1. CASE d \in debts
      <4>1. Notices!Exists /\ \E v \in Workers : Pending(d, noticePc[v], noticeJob[v])
        BY <1>3, <2>3, <3>1 DEF NoticeInv, NoticePaid, NoticeLife
      <4>2. PICK v \in Workers : Pending(d, noticePc[v], noticeJob[v])
        BY <4>1
      <4>3. v # w
        BY <4>2 DEF Pending
      <4>4. PICK p, k : p = noticePc[v] /\ k = noticeJob[v]
        OBVIOUS
      <4>5. Pending(d, p, k)'
        BY <1>9, <4>1, <4>2, <4>4, NoticeFitsSame
      <4> QED  BY <1>4, <4>3, <4>4, <4>5
    <3>2. CASE d \notin debts
      <4>1. PICK f \in facts : d = << f[1], f[2], o.round >>
        BY <1>3, <3>2
      <4>2. d[1] = f[1] /\ d[2] = f[2] /\ d[3] = o.round
        BY <4>1
      <4>3. PICK i \in DOMAIN mails : /\ mails[i].what = f[2]
                                      /\ f[1] \in Notices!Recipients(mails[i], by)'
        BY <1>3, <2>3, <4>2
      <4>4. mails # << >>
        BY <4>3
      <4>5. Pending(d, "avisa", fresh)'
        BY <1>2, <4>2, <4>3 DEF Pending
      <4> QED  BY <1>4, <4>4, <4>5
    <3> QED  BY <3>1, <3>2
  <2> QED  BY <2>1, <2>2, <2>3 DEF NoticePaid
<1> QED  BY <1>6, <1>8, <1>10, <1>11 DEF NoticeInv

LEMMA CommitRounds ==
  ASSUME NoticeInv, NEW w \in Workers, noticePc[w] # "leyo", NEW by, NEW o, NEW mails,
         Notices!Commit(w, by, o, mails), o.round = notedOrder.round
  PROVE  NoticeRounds'
<1>1. notedOrder' = o /\ \A v \in Workers : (noticePc'[v] = "leyo") <=> (noticePc[v] = "leyo")
  BY DEF Notices!Commit, NoticeInv, NoticeTypes
<1> QED  BY <1>1, RoundsSame DEF NoticeInv

(* The notices, one by one.                                                 *)
NoticeFor == Notices!People \cup Notices!Areas \cup {Notices!Nobody, "recepcion", "todos"}
MailIs(m, what, to, p, rings) ==
  m \in NoticeMail /\ m.what = what /\ m.to = to /\ m.who = p /\ m.rings = rings

LEMMA MailEdited ==
  ASSUME NEW m \in NoticeMail
  PROVE  /\ MailIs([m EXCEPT !.rings = FALSE], m.what, m.to, m.who, FALSE)
         /\ MailIs([m EXCEPT !.to = "area"], m.what, "area", m.who, m.rings)
         /\ MailIs([m EXCEPT !.to = "duena"], m.what, "duena", m.who, m.rings)
         /\ MailIs([m EXCEPT !.to = "todos"], m.what, "todos", m.who, m.rings)
BY DEF NoticeMail, MailIs

LEMMA MailsAre ==
  ASSUME NEW what \in Notices!Matters, NEW p \in NoticeFor
  PROVE  /\ MailIs(Notices!For(p, what), what, "persona", p, TRUE)
         /\ MailIs(Notices!Row(p, what), what, "persona", p, FALSE)
         /\ MailIs(Notices!ForArea(p, what), what, "area", p, TRUE)
<1>1. MailIs(Notices!For(p, what), what, "persona", p, TRUE)
  BY DEF Notices!For, NoticeMail, MailIs, NoticeFor
<1>2. MailIs(Notices!Row(p, what), what, "persona", p, FALSE)
  <2>1. PICK m : m = Notices!For(p, what)
    OBVIOUS
  <2>2. m \in NoticeMail /\ m.what = what /\ m.to = "persona" /\ m.who = p /\ m.rings = TRUE
    BY <1>1, <2>1 DEF MailIs
  <2>3. MailIs([m EXCEPT !.rings = FALSE], m.what, m.to, m.who, FALSE)
    BY <2>2, MailEdited
  <2> QED  BY <2>1, <2>2, <2>3 DEF Notices!Row
<1>3. MailIs(Notices!ForArea(p, what), what, "area", p, TRUE)
  <2>1. PICK m : m = Notices!For(p, what)
    OBVIOUS
  <2>2. m \in NoticeMail /\ m.what = what /\ m.to = "persona" /\ m.who = p /\ m.rings = TRUE
    BY <1>1, <2>1 DEF MailIs
  <2>3. MailIs([m EXCEPT !.to = "area"], m.what, "area", m.who, m.rings)
    BY <2>2, MailEdited
  <2> QED  BY <2>1, <2>2, <2>3 DEF Notices!ForArea
<1> QED  BY <1>1, <1>2, <1>3

LEMMA MailsOfAll ==
  ASSUME NEW what \in Notices!Matters
  PROVE  /\ MailIs(Notices!ForOwner(what), what, "duena", Notices!Nobody, FALSE)
         /\ MailIs(Notices!ForAll(what), what, "todos", "todos", TRUE)
<1>1. PICK m, n : m = Notices!Row(Notices!Nobody, what) /\ n = Notices!ForArea("todos", what)
  OBVIOUS
<1>2. MailIs(m, what, "persona", Notices!Nobody, FALSE) /\ MailIs(n, what, "area", "todos", TRUE)
  BY <1>1, MailsAre DEF NoticeFor
<1>3. MailIs([m EXCEPT !.to = "duena"], what, "duena", Notices!Nobody, FALSE)
  BY <1>2, MailEdited DEF MailIs
<1>4. MailIs([n EXCEPT !.to = "todos"], what, "todos", "todos", TRUE)
  BY <1>2, MailEdited DEF MailIs
<1> QED  BY <1>1, <1>3, <1>4 DEF Notices!ForOwner, Notices!ForAll

LEMMA FirstSame ==
  ASSUME NEW m \in NoticeMail
  PROVE  /\ Notices!First(m) \in NoticeMail /\ Notices!First(m).to = m.to
         /\ Notices!First(m).who = m.who
         /\ Notices!First(m).what = m.what /\ Notices!First(m).rings = m.rings
BY DEF Notices!First, NoticeMail

LEMMA RecipientsAfter ==
  ASSUME member' = member, NEW m, NEW by
  PROVE  /\ m.to = "persona" => Notices!Recipients(m, by)' = {m.who}
         /\ m.to = "area" => Notices!Recipients(m, by)' = Notices!UserIdsForArea(m.who)
<1>1. \A a : Notices!UserIdsForArea(a)' = Notices!UserIdsForArea(a)
  BY DEF Notices!UserIdsForArea, Notices!AreasOf
<1>2. m.to = "persona" => Notices!Recipients(m, by)' = {m.who}
  BY DEF Notices!Recipients
<1>3. m.to = "area" => Notices!Recipients(m, by)' = Notices!UserIdsForArea(m.who)'
  BY DEF Notices!Recipients
<1> QED  BY <1>1, <1>2, <1>3

LEMMA HomeAfter ==
  \A u : u # Notices!Tienda => AtHome(u)'
BY DEF AtHome, Notices!Stranger

LEMMA NewFits ==
  ASSUME member' = member, NEW who \in {Notices!Nobody, Notices!Dora}
  PROVE  /\ Notices!NewMail(who) \in NoticeMail /\ MailFits(Notices!NewMail(who))'
         /\ Notices!NewOwed(who) \subseteq Notices!People \X Notices!Matters
         /\ \A f \in Notices!NewOwed(who) :
              /\ f[1] \in Notices!People /\ f[1] # Notices!Tienda
              /\ Notices!NewMail(who).what = f[2]
              /\ f[1] \in Notices!Recipients(Notices!NewMail(who), Notices!Nobody)'
<1>1. {"asignado", "nuevo"} \subseteq Notices!Matters /\ "diseno" \in Notices!Areas
  BY DEF Notices!Matters, Notices!Areas
<1>2. CASE who = Notices!Dora
  <2>1. PICK m : m = Notices!For(Notices!Dora, "asignado")
    OBVIOUS
  <2>2. m \in NoticeMail /\ m.to = "persona" /\ m.who = Notices!Dora /\ m.what = "asignado"
    <3>1. Notices!Dora \in NoticeFor /\ "asignado" \in Notices!Matters
      BY <1>1, NoticeNames DEF NoticeFor
    <3>2. MailIs(m, "asignado", "persona", Notices!Dora, TRUE)
      BY <2>1, <3>1, MailsAre
    <3> QED  BY <3>2 DEF MailIs
  <2>3. PICK n : n = Notices!First(m)
    OBVIOUS
  <2>4. Notices!NewMail(who) = n /\ Notices!NewOwed(who) = {Notices!Dora} \X {"asignado"}
    BY <1>2, <2>1, <2>3, NoticeNames DEF Notices!NewMail, Notices!NewOwed, Notices!ToAll
  <2>5. n \in NoticeMail /\ n.to = "persona" /\ n.who = Notices!Dora /\ n.what = "asignado"
    BY <2>2, <2>3, FirstSame
  <2>6. MailFits(n)' /\ Notices!Recipients(n, Notices!Nobody)' = {Notices!Dora}
    BY <2>5, NoticeNames, HomeAfter, RecipientsAfter DEF MailFits
  <2> QED  BY <1>1, <2>4, <2>5, <2>6, NoticeNames
<1>3. CASE who = Notices!Nobody
  <2>1. PICK m : m = Notices!ForArea("diseno", "nuevo")
    OBVIOUS
  <2>2. m \in NoticeMail /\ m.to = "area" /\ m.who = "diseno" /\ m.what = "nuevo"
    <3>1. "diseno" \in NoticeFor /\ "nuevo" \in Notices!Matters
      BY <1>1 DEF NoticeFor
    <3>2. MailIs(m, "nuevo", "area", "diseno", TRUE)
      BY <2>1, <3>1, MailsAre
    <3> QED  BY <3>2 DEF MailIs
  <2>3. PICK n : n = Notices!First(m)
    OBVIOUS
  <2>4. /\ Notices!NewMail(who) = n
        /\ Notices!NewOwed(who) = Notices!UserIdsForArea("diseno") \X {"nuevo"}
    BY <1>3, <2>1, <2>3 DEF Notices!NewMail, Notices!NewOwed, Notices!ToAll
  <2>5. n \in NoticeMail /\ n.to = "area" /\ n.who = "diseno" /\ n.what = "nuevo"
    BY <2>2, <2>3, FirstSame
  <2>6. MailFits(n)' /\ Notices!Recipients(n, Notices!Nobody)' = Notices!UserIdsForArea("diseno")
    BY <1>1, <2>5, RecipientsAfter DEF MailFits
  <2> QED  BY <1>1, <2>4, <2>5, <2>6, AreaPeople
<1> QED  BY <1>2, <1>3

LEMMA NoticeBegin ==
  ASSUME NoticeInv, Notices!Begin
  PROVE  noticeRequests' \in 0..MaxNoticeRequests
BY NoticesAssumption DEF Notices!Begin, NoticeInv, NoticeTypes

LEMMA NoticeCreate ==
  ASSUME NoticeInv, NEW w \in Workers, Notices!Create(w)
  PROVE  NoticeInv'
<1>1. PICK creator \in {"rosa"}, who \in {Notices!Nobody, Notices!Dora} :
        /\ noticePc[w] = "libre" /\ ~Notices!Exists /\ Notices!Begin
        /\ Notices!Commit(w, Notices!Nobody, [Notices!NoOrder EXCEPT !.stage = "diseno",
             !.creator = creator,
                                !.who = who], << Notices!NewMail(who) >>)
        /\ Notices!Owe(0, Notices!NewOwed(who))
        /\ UNCHANGED excused
  BY Zenon DEF Notices!Create
<1>2. PICK o, ml, fs :
        /\ o = [Notices!NoOrder EXCEPT !.stage = "diseno", !.creator = creator, !.who = who]
        /\ ml = << Notices!NewMail(who) >> /\ fs = Notices!NewOwed(who)
  OBVIOUS
<1>3. o \in NoticeOrder /\ o.stage = "diseno" /\ o.creator = "rosa" /\ o.round = 0
  <2>1. o = [stage |-> "diseno", round |-> 0, sender |-> Notices!Nobody, creator |-> "rosa",
             attended |-> Notices!Nobody, who |-> who, branch |-> Notices!Nobody]
    BY <1>2 DEF Notices!NoOrder
  <2> QED  BY <2>1, NoticesAssumption, NoticeNames DEF NoticeOrder
<1>4. Notices!Commit(w, Notices!Nobody, o, ml) /\ Notices!Owe(o.round, fs) /\ member' = member
  BY <1>1, <1>2, <1>3 DEF Notices!Commit, Notices!people
<1>5. ml \in Seq(NoticeMail) /\ DOMAIN ml = {1} /\ ml[1] = Notices!NewMail(who)
  BY <1>2, <1>4, NewFits
<1>6. \A i \in DOMAIN ml : MailFits(ml[i])'
  BY <1>4, <1>5, NewFits
<1>7. fs \subseteq Notices!People \X Notices!Matters
  BY <1>2, <1>4, NewFits
<1>8. \A f \in fs :
        /\ AtHome(f[1])'
        /\ \E i \in DOMAIN ml : ml[i].what = f[2] /\ f[1] \in Notices!Recipients(ml[i],
             Notices!Nobody)'
  BY <1>2, <1>4, <1>5, NewFits, HomeAfter
<1>9. NoticeRounds'
  <2>1. ~Notices!Exists /\ \A v \in Workers : noticePc[v] = "libre"
    BY <1>1 DEF NoticeInv, NoticeLife
  <2>2. notedOrder.round \in 0..MaxRounds /\ notedOrder' = o
        /\ \A v \in Workers : noticePc'[v] # "leyo"
    BY <1>4, <2>1 DEF Notices!Commit, NoticeInv, NoticeTypes, NoticeOrder
  <2>3. {v \in Workers : noticePc'[v] = "leyo"} = {}
    BY <2>2
  <2> QED  BY <1>3, <2>2, <2>3, FS_EmptySet, NoticesAssumption DEF NoticeRounds
<1>10. AtHome(o.creator)' /\ o.creator \in Notices!People
  BY <1>3, HomeAfter, NoticeNames
<1> QED  BY <1>1, <1>3, <1>4, <1>5, <1>6, <1>7, <1>8, <1>9, <1>10, NoticeBegin, NoticeCommit

LEMMA MailLists ==
  ASSUME NEW m \in NoticeMail, NEW n \in NoticeMail
  PROVE  /\ << m >> \in Seq(NoticeMail) /\ DOMAIN << m >> = {1} /\ << m >>[1] = m
         /\ << m, n >> \in Seq(NoticeMail) /\ DOMAIN << m, n >> = {1, 2}
         /\ << m, n >>[1] = m /\ << m, n >>[2] = n
         /\ << >> \in Seq(NoticeMail) /\ DOMAIN << >> = {}
         /\ << m >> \o << n >> \in Seq(NoticeMail) /\ DOMAIN (<< m >> \o << n >>) = {1, 2}
         /\ (<< m >> \o << n >>)[1] = m /\ (<< m >> \o << n >>)[2] = n
         /\ << m >> \o << >> = << m >>
         /\ << >> \o << n >> = << n >> /\ << >> \o << >> = << >>
<1>1. << m >> \in Seq(NoticeMail) /\ DOMAIN << m >> = {1} /\ << m >>[1] = m
  OBVIOUS
<1>2. << m, n >> \in Seq(NoticeMail) /\ << m, n >>[1] = m /\ << m, n >>[2] = n
  OBVIOUS
<1>3. DOMAIN << m, n >> = {1, 2}
  OBVIOUS
<1>4. << >> \in Seq(NoticeMail) /\ DOMAIN << >> = {}
  OBVIOUS
<1>5. << m >> \o << >> = << m >>
  BY <1>1
<1>7. << m >> \o << n >> \in Seq(NoticeMail) /\ Len(<< m >> \o << n >>) = 2
  OBVIOUS
<1>8. DOMAIN (<< m >> \o << n >>) = {1, 2}
  BY <1>7
<1>9. (<< m >> \o << n >>)[1] = m /\ (<< m >> \o << n >>)[2] = n
  OBVIOUS
<1>6. << >> \o << n >> = << n >> /\ << >> \o << >> = << >>
  OBVIOUS
<1> QED  BY <1>1, <1>2, <1>3, <1>4, <1>5, <1>6, <1>7, <1>8, <1>9

LEMMA NoticeCommitOn ==
  ASSUME NoticeInv, Notices!Exists, NEW w \in Workers, noticePc[w] # "avisa",
         NEW by \in Notices!People \cup {Notices!Nobody},
         NEW o \in NoticeOrder, NEW mails \in Seq(NoticeMail),
         NEW facts, facts \subseteq Notices!People \X Notices!Matters,
         Notices!Commit(w, by, o, mails), Notices!Owe(o.round, facts), UNCHANGED excused,
         noticeRequests' \in 0..MaxNoticeRequests, o.stage # "ninguno",
         o.stage = "esperando" => o.sender \in {"rosa", Notices!Dora},
         o.creator = notedOrder.creator, o.attended = notedOrder.attended,
           o.branch = notedOrder.branch,
         NoticeRounds',
         \A i \in DOMAIN mails : MailFits(mails[i]),
         \A f \in facts :
           /\ AtHome(f[1])
           /\ f[2] \notin Notices!ForReception =>
                \/ f[1] \in excused
                \/ \E i \in DOMAIN mails :
                     mails[i].what = f[2] /\ f[1] \in Notices!Recipients(mails[i], by)
  PROVE  NoticeInv'
<1>1. NoticeStays
  BY DEF NoticeStays, Notices!Commit, Notices!people
<1>2. \A i \in DOMAIN mails : MailFits(mails[i])'
  BY <1>1, NoticeSame
<1>3. \A f \in facts :
        /\ AtHome(f[1])'
        /\ f[2] \notin Notices!ForReception =>
             \/ f[1] \in excused
             \/ \E i \in DOMAIN mails :
                  mails[i].what = f[2] /\ f[1] \in Notices!Recipients(mails[i], by)'
  BY <1>1, NoticeSame
<1>4. o.creator \in Notices!People /\ AtHome(o.creator)
  BY DEF NoticeInv, NoticeLife
<1>5. AtHome(o.creator)'
  BY <1>1, <1>4, NoticeSame
<1> QED  BY <1>2, <1>3, <1>4, <1>5, NoticeCommit

LEMMA NoticeCreateBranch ==
  ASSUME NoticeInv, NEW w \in Workers, Notices!CreateBranch(w)
  PROVE  NoticeInv'
<1>1. PICK o, ml, fs :
        /\ o = [Notices!NoOrder EXCEPT !.stage = "diseno", !.creator = Notices!Tienda,
             !.branch = member[Notices!Tienda]]
        /\ ml = << Notices!First(Notices!ForArea("recepcion", "sucursal")),
             Notices!NewMail(Notices!Nobody) >>
        /\ fs = Notices!ToAll(Notices!Reception, "sucursal") \cup Notices!NewOwed(Notices!Nobody)
  OBVIOUS
<1>2. o \in NoticeOrder /\ o.stage = "diseno" /\ o.creator = Notices!Tienda /\ o.round = 0
      /\ o.branch = member[Notices!Tienda]
  <2>1. o = [stage |-> "diseno", round |-> 0, sender |-> Notices!Nobody, creator |-> Notices!Tienda,
             attended |-> Notices!Nobody, who |-> Notices!Nobody, branch |-> member[Notices!Tienda]]
    BY <1>1 DEF Notices!NoOrder
  <2> QED  BY <2>1, NoticesAssumption, NoticeNames DEF NoticeOrder, NoticeInv, NoticeTypes
<1>3. /\ Notices!Commit(w, Notices!Nobody, o, ml) /\ Notices!Owe(o.round, fs)
      /\ member' = member /\ notedOrder' = o
      /\ noticePc[w] = "libre" /\ ~Notices!Exists /\ Notices!Begin /\ excused' = excused
  BY <1>1, <1>2 DEF Notices!Commit, Notices!people, Notices!CreateBranch
<1>4. PICK m, n, k : /\ m = Notices!ForArea("recepcion", "sucursal") /\ n = Notices!First(m)
                     /\ k = Notices!NewMail(Notices!Nobody)
  OBVIOUS
<1>5. n \in NoticeMail /\ n.to = "area" /\ n.who = "recepcion" /\ n.what = "sucursal"
  <2>1. "recepcion" \in NoticeFor /\ "sucursal" \in Notices!Matters
    BY DEF NoticeFor, Notices!Matters
  <2>2. MailIs(m, "sucursal", "area", "recepcion", TRUE)
    BY <1>4, <2>1, MailsAre
  <2> QED  BY <1>4, <2>2, FirstSame DEF MailIs
<1>6. k \in NoticeMail /\ MailFits(k)'
  BY <1>3, <1>4, NewFits
<1>7. ml = << n, k >>
  BY <1>1, <1>4
<1>8. ml \in Seq(NoticeMail) /\ DOMAIN ml = {1, 2} /\ ml[1] = n /\ ml[2] = k
  BY <1>5, <1>6, <1>7, MailLists
<1>9. \A i \in DOMAIN ml : MailFits(ml[i])'
  <2>1. MailFits(n)'
    BY <1>5 DEF MailFits, Notices!ForReception
  <2> QED  BY <1>6, <1>8, <2>1
<1>10. \A f \in fs : (f[1] \in Notices!Reception /\ f[2] = "sucursal")
         \/ f \in Notices!NewOwed(Notices!Nobody)
  BY <1>1 DEF Notices!ToAll
<1>11. fs \subseteq Notices!People \X Notices!Matters
  <2>1. Notices!Reception \subseteq Notices!People /\ "sucursal" \in Notices!Matters
    BY NoticeNames DEF Notices!Matters
  <2>2. Notices!NewOwed(Notices!Nobody) \subseteq Notices!People \X Notices!Matters
    BY <1>3, NewFits
  <2> QED  BY <1>1, <2>1, <2>2 DEF Notices!ToAll
<1>12. ASSUME NEW f \in fs
       PROVE  /\ AtHome(f[1])'
              /\ f[2] \notin Notices!ForReception =>
                   \/ f[1] \in excused
                   \/ \E i \in DOMAIN ml : ml[i].what = f[2]
                        /\ f[1] \in Notices!Recipients(ml[i], Notices!Nobody)'
  <2>1. CASE f[1] \in Notices!Reception /\ f[2] = "sucursal"
    BY <2>1, HomeAfter, NoticeNames DEF Notices!ForReception
  <2>2. CASE f \in Notices!NewOwed(Notices!Nobody)
    <3>1. f[1] # Notices!Tienda /\ k.what = f[2] /\ f[1] \in Notices!Recipients(k, Notices!Nobody)'
      BY <1>3, <1>4, <2>2, NewFits
    <3> QED  BY <1>8, <3>1, HomeAfter
  <2> QED  BY <1>10, <2>1, <2>2
<1>13. NoticeRounds'
  <2>1. \A v \in Workers : noticePc[v] = "libre"
    BY <1>3 DEF NoticeInv, NoticeLife
  <2>2. \A v \in Workers : noticePc'[v] # "leyo"
    BY <1>3, <2>1 DEF Notices!Commit, NoticeInv, NoticeTypes
  <2>3. {v \in Workers : noticePc'[v] = "leyo"} = {}
    BY <2>2
  <2> QED  BY <1>2, <1>3, <2>3, FS_EmptySet, NoticesAssumption DEF NoticeRounds
<1>14. AtHome(o.creator)' /\ o.creator \in Notices!People
  BY <1>2, <1>3, NoticeNames DEF AtHome, Notices!Stranger
<1>15. noticeRequests' \in 0..MaxNoticeRequests
  BY <1>3, NoticeBegin
<1>16. o.stage = "esperando" => o.sender \in {"rosa", Notices!Dora}
  BY <1>2
<1> QED  BY <1>2, <1>3, <1>8, <1>9, <1>11, <1>12, <1>13, <1>14, <1>15, <1>16, NoticeCommit

LEMMA MailIsFor ==
  ASSUME NEW what \in Notices!Matters, NEW p \in Notices!People,
         NEW a \in Notices!Areas \cup {"recepcion"}, NEW by
  PROVE  /\ Notices!For(p, what) \in NoticeMail /\ Notices!For(p, what).what = what
         /\ Notices!For(p, what).to = "persona"
         /\ AtHome(p) => MailFits(Notices!For(p, what))
         /\ Notices!Recipients(Notices!For(p, what), by) = {p}
         /\ Notices!Row(p, what) \in NoticeMail /\ Notices!Row(p, what).what = what
         /\ AtHome(p) => MailFits(Notices!Row(p, what))
         /\ Notices!Recipients(Notices!Row(p, what), by) = {p}
         /\ Notices!ForArea(a, what) \in NoticeMail /\ Notices!ForArea(a, what).what = what
         /\ a \in Notices!Areas \/ what \in Notices!ForReception =>
              MailFits(Notices!ForArea(a, what))
         /\ Notices!Recipients(Notices!ForArea(a, what), by) = Notices!UserIdsForArea(a)
         /\ Notices!ForOwner(what) \in NoticeMail /\ Notices!ForOwner(what).what = what
         /\ MailFits(Notices!ForOwner(what))
         /\ Notices!Recipients(Notices!ForOwner(what),
              by) = {Notices!ReceptionOwner(notedOrder)} \ {by}
         /\ Notices!ForAll(what) \in NoticeMail
         /\ (what \in Notices!OnlyLive => MailFits(Notices!ForAll(what)))
<1>1. p \in NoticeFor /\ a \in NoticeFor
  BY DEF NoticeFor
<1>2. /\ MailIs(Notices!For(p, what), what, "persona", p, TRUE)
      /\ MailIs(Notices!Row(p, what), what, "persona", p, FALSE)
      /\ MailIs(Notices!ForArea(a, what), what, "area", a, TRUE)
  BY <1>1, MailsAre
<1>3. /\ MailIs(Notices!ForOwner(what), what, "duena", Notices!Nobody, FALSE)
      /\ MailIs(Notices!ForAll(what), what, "todos", "todos", TRUE)
  BY MailsOfAll
<1>4. /\ Notices!For(p, what) \in NoticeMail /\ Notices!For(p, what).what = what
      /\ Notices!For(p, what).to = "persona"
      /\ AtHome(p) => MailFits(Notices!For(p, what))
      /\ Notices!Recipients(Notices!For(p, what), by) = {p}
  BY <1>2, RecipientsAre DEF MailIs, MailFits
<1>5. /\ Notices!Row(p, what) \in NoticeMail /\ Notices!Row(p, what).what = what
      /\ AtHome(p) => MailFits(Notices!Row(p, what))
      /\ Notices!Recipients(Notices!Row(p, what), by) = {p}
  BY <1>2, RecipientsAre DEF MailIs, MailFits
<1>6. /\ Notices!ForArea(a, what) \in NoticeMail /\ Notices!ForArea(a, what).what = what
      /\ a \in Notices!Areas \/ what \in Notices!ForReception => MailFits(Notices!ForArea(a, what))
      /\ Notices!Recipients(Notices!ForArea(a, what), by) = Notices!UserIdsForArea(a)
  BY <1>2, RecipientsAre DEF MailIs, MailFits
<1>7. /\ Notices!ForOwner(what) \in NoticeMail /\ Notices!ForOwner(what).what = what
      /\ MailFits(Notices!ForOwner(what))
      /\ Notices!Recipients(Notices!ForOwner(what),
           by) = {Notices!ReceptionOwner(notedOrder)} \ {by}
  BY <1>3, RecipientsAre DEF MailIs, MailFits
<1>8. /\ Notices!ForAll(what) \in NoticeMail
      /\ (what \in Notices!OnlyLive => MailFits(Notices!ForAll(what)))
  BY <1>3 DEF MailIs, MailFits
<1> QED  BY <1>4, <1>5, <1>6, <1>7, <1>8

LEMMA NoticeSendRound ==
  ASSUME NoticeInv, NEW w \in Workers, Notices!SendRound(w)
  PROVE  NoticeInv'
<1>1. PICK j, o, ml, fs :
        /\ j = noticeJob[w] /\ o = [notedOrder EXCEPT !.stage = "esperando", !.round = @ + 1,
             !.sender = j.by]
        /\ ml = (IF j.owner = j.by THEN << >> ELSE << Notices!For(j.owner, "montaje") >>)
        /\ fs = Notices!ToAll({Notices!Follower} \ {j.by}, "montaje")
  OBVIOUS
<1>2. /\ noticePc[w] = "leyo" /\ Notices!Commit(w, j.by, o, ml)
      /\ Notices!Owe(notedOrder.round + 1, fs)
      /\ noticeRequests' = noticeRequests /\ excused' = excused
  BY <1>1 DEF Notices!SendRound
<1>3. Notices!Exists
  BY <1>2 DEF NoticeInv, NoticeLife
<1>4. /\ j.by \in {"rosa", Notices!Dora} /\ j.owner \in Notices!People /\ AtHome(j.owner)
      /\ j.owner = Notices!Follower \/ Notices!Follower \in excused
  BY <1>1, <1>2 DEF NoticeInv, NoticeFits
<1>5. PICK S : S = {v \in Workers : noticePc[v] = "leyo"}
  OBVIOUS
<1>6. IsFiniteSet(S) /\ w \in S
  BY <1>2, <1>5, NoticesAssumption, FS_Subset
<1>7. /\ Cardinality(S) \in Nat /\ Cardinality(S \ {w}) \in Nat
      /\ Cardinality(S \ {w}) = Cardinality(S) - 1
  BY <1>6, FS_RemoveElement, FS_CardinalityType
<1>8. {v \in Workers : noticePc'[v] = "leyo"} = S \ {w}
  BY <1>2, <1>5 DEF Notices!Commit, NoticeInv, NoticeTypes
<1>9. PICK c \in Nat, n \in Nat : c = Cardinality(S \ {w}) /\ n = notedOrder.round
  BY <1>7, NoticesAssumption DEF NoticeInv, NoticeTypes, NoticeOrder
<1>10. n + (c + 1) <= MaxRounds
  BY <1>5, <1>7, <1>9 DEF NoticeInv, NoticeRounds
<1>11. n + 1 \in 0..MaxRounds /\ (n + 1) + c <= MaxRounds
  BY <1>9, <1>10, NoticesAssumption
<1>12. o \in NoticeOrder /\ o.stage = "esperando" /\ o.round = n + 1 /\ o.sender = j.by
       /\ o.creator = notedOrder.creator /\ o.attended = notedOrder.attended
       /\ o.branch = notedOrder.branch
  BY <1>1, <1>4, <1>9, <1>11, NoticeNames DEF NoticeInv, NoticeTypes, NoticeOrder
<1>13. NoticeRounds'
  BY <1>2, <1>8, <1>9, <1>11, <1>12 DEF NoticeRounds, Notices!Commit
<1>14. Notices!Owe(o.round, fs)
  BY <1>2, <1>9, <1>12
<1>15. "montaje" \in Notices!Matters
  BY DEF Notices!Matters
<1>16. PICK m : m = Notices!For(j.owner, "montaje")
  OBVIOUS
<1>17. /\ m \in NoticeMail /\ MailFits(m) /\ m.what = "montaje"
       /\ Notices!Recipients(m, j.by) = {j.owner}
  BY <1>4, <1>15, <1>16, MailIsFor
<1>18. /\ ml \in Seq(NoticeMail) /\ \A i \in DOMAIN ml : MailFits(ml[i])
       /\ j.owner # j.by => 1 \in DOMAIN ml /\ ml[1] = m
  BY <1>1, <1>16, <1>17, MailLists
<1>19. /\ fs \subseteq Notices!People \X Notices!Matters
       /\ \A f \in fs : f[1] = Notices!Follower /\ f[1] # j.by /\ f[2] = "montaje" /\ AtHome(f[1])
  BY <1>1, <1>3, <1>15, FollowerIs DEF Notices!ToAll, NoticeInv
<1>20. \A f \in fs :
         /\ AtHome(f[1])
         /\ f[2] \notin Notices!ForReception =>
              \/ f[1] \in excused
              \/ \E i \in DOMAIN ml : ml[i].what = f[2] /\ f[1] \in Notices!Recipients(ml[i], j.by)
  BY <1>4, <1>17, <1>18, <1>19
<1>21. noticeRequests' \in 0..MaxNoticeRequests /\ j.by \in Notices!People \cup {Notices!Nobody}
  BY <1>2, <1>4, NoticeNames DEF NoticeInv, NoticeTypes
<1> QED  BY <1>2, <1>3, <1>4, <1>12, <1>13, <1>14, <1>18, <1>19, <1>20, <1>21, NoticeCommitOn

LEMMA NoticeFeedback ==
  ASSUME NoticeInv, NEW w \in Workers, Notices!Feedback(w)
  PROVE  NoticeInv'
<1>1. PICK s, o, ml, fs :
        /\ s = notedOrder.sender /\ o = [notedOrder EXCEPT !.stage = "diseno", !.who = s]
        /\ ml = << Notices!For(s, "cambios") >> /\ fs = Notices!ToAll({s}, "cambios")
  OBVIOUS
<1>2. /\ noticePc[w] = "libre" /\ Notices!Awaiting /\ Notices!Begin
      /\ Notices!Commit(w, Notices!Nobody, o, ml)
      /\ Notices!Owe(notedOrder.round, fs) /\ excused' = excused
  BY <1>1 DEF Notices!Feedback
<1>3. Notices!Exists /\ s \in {"rosa", Notices!Dora} /\ s \in Notices!People /\ s # Notices!Tienda
  BY <1>1, <1>2, NoticeNames DEF NoticeInv, NoticeLife, Notices!Exists, Notices!Awaiting
<1>4. AtHome(s)
  BY <1>3 DEF AtHome, Notices!Stranger
<1>5. o \in NoticeOrder /\ o.stage = "diseno" /\ o.round = notedOrder.round
      /\ o.creator = notedOrder.creator /\ o.attended = notedOrder.attended
      /\ o.branch = notedOrder.branch
  BY <1>1, <1>3, NoticeNames DEF NoticeInv, NoticeTypes, NoticeOrder
<1>6. NoticeRounds' /\ noticeRequests' \in 0..MaxNoticeRequests
  BY <1>2, <1>5, CommitRounds, NoticeBegin
<1>7. "cambios" \in Notices!Matters
  BY DEF Notices!Matters
<1>8. PICK m : m = Notices!For(s, "cambios")
  OBVIOUS
<1>9. /\ m \in NoticeMail /\ MailFits(m) /\ m.what = "cambios"
      /\ Notices!Recipients(m, Notices!Nobody) = {s}
  BY <1>3, <1>4, <1>7, <1>8, MailIsFor
<1>10. ml \in Seq(NoticeMail) /\ DOMAIN ml = {1} /\ ml[1] = m
  BY <1>1, <1>8, <1>9, MailLists
<1>11. fs \subseteq Notices!People \X Notices!Matters /\ \A f \in fs : f[1] = s /\ f[2] = "cambios"
  BY <1>1, <1>3, <1>7 DEF Notices!ToAll
<1>12. Notices!Owe(o.round, fs)
  BY <1>2, <1>5
<1>13. /\ \A i \in DOMAIN ml : MailFits(ml[i])
       /\ \A f \in fs :
            /\ AtHome(f[1])
            /\ \E i \in DOMAIN ml : ml[i].what = f[2] /\ f[1] \in Notices!Recipients(ml[i],
                 Notices!Nobody)
  BY <1>4, <1>9, <1>10, <1>11
<1> QED  BY <1>2, <1>3, <1>5, <1>6, <1>10, <1>11, <1>12, <1>13, NoticeCommitOn

LEMMA NoticeApprove ==
  ASSUME NoticeInv, NEW w \in Workers, Notices!Approve(w)
  PROVE  NoticeInv'
<1>1. PICK r \in Notices!Reception :
        /\ noticePc[w] = "libre" /\ Notices!Awaiting /\ Notices!Begin
        /\ Notices!Commit(w, Notices!Nobody, [notedOrder EXCEPT !.stage = "produccion",
             !.who = Notices!Nobody],
                  << Notices!ForArea("taller", "autorizado") >> \o
                  IF notedOrder.sender = r THEN << >> ELSE << Notices!Row(notedOrder.sender,
                    "pasa") >>)
        /\ Notices!Owe(notedOrder.round, Notices!ToAll(Notices!UserIdsForArea("taller"),
             "autorizado")
                              \cup Notices!ToAll({notedOrder.sender} \ {r}, "pasa"))
        /\ UNCHANGED excused
  BY Zenon DEF Notices!Approve
<1>2. PICK s, o, m, n, ml, fs :
        /\ s = notedOrder.sender /\ o = [notedOrder EXCEPT !.stage = "produccion",
             !.who = Notices!Nobody]
        /\ m = Notices!ForArea("taller", "autorizado") /\ n = Notices!Row(s, "pasa")
        /\ ml = << m >> \o (IF s = r THEN << >> ELSE << n >>)
        /\ fs = Notices!ToAll(Notices!UserIdsForArea("taller"), "autorizado") \cup
             Notices!ToAll({s} \ {r}, "pasa")
  OBVIOUS
<1>3. Notices!Exists /\ s \in {"rosa", Notices!Dora} /\ s \in Notices!People /\ s # Notices!Tienda
  BY <1>1, <1>2, NoticeNames DEF NoticeInv, NoticeLife, Notices!Exists, Notices!Awaiting
<1>4. AtHome(s)
  BY <1>3 DEF AtHome, Notices!Stranger
<1>5. o \in NoticeOrder /\ o.stage = "produccion" /\ o.round = notedOrder.round
      /\ o.creator = notedOrder.creator /\ o.attended = notedOrder.attended
      /\ o.branch = notedOrder.branch
  BY <1>2, NoticeNames DEF NoticeInv, NoticeTypes, NoticeOrder
<1>6. Notices!Commit(w, Notices!Nobody, o, ml) /\ Notices!Owe(o.round, fs)
  BY <1>1, <1>2, <1>5
<1>7. NoticeRounds' /\ noticeRequests' \in 0..MaxNoticeRequests
  BY <1>1, <1>5, <1>6, CommitRounds, NoticeBegin
<1>8. {"autorizado", "pasa"} \subseteq Notices!Matters /\ "taller" \in Notices!Areas
  BY DEF Notices!Matters, Notices!Areas
<1>9. /\ m \in NoticeMail /\ MailFits(m) /\ m.what = "autorizado"
      /\ Notices!Recipients(m, Notices!Nobody) = Notices!UserIdsForArea("taller")
  BY <1>2, <1>3, <1>8, MailIsFor
<1>10. /\ n \in NoticeMail /\ MailFits(n) /\ n.what = "pasa"
       /\ Notices!Recipients(n, Notices!Nobody) = {s}
  BY <1>2, <1>3, <1>4, <1>8, MailIsFor
<1>11. /\ ml \in Seq(NoticeMail) /\ 1 \in DOMAIN ml /\ ml[1] = m
       /\ s # r => DOMAIN ml = {1, 2} /\ ml[2] = n
       /\ s = r => DOMAIN ml = {1}
  <2>1. CASE s = r
    BY <1>2, <1>9, <1>10, <2>1, MailLists
  <2>2. CASE s # r
    <3>1. ml = << m >> \o << n >>
      BY <1>2, <2>2
    <3> QED  BY <1>9, <1>10, <2>2, <3>1, MailLists
  <2> QED  BY <2>1, <2>2
<1>12. \A i \in DOMAIN ml : MailFits(ml[i])
  BY <1>9, <1>10, <1>11
<1>13. \A f \in fs : \/ f[1] \in Notices!UserIdsForArea("taller") /\ f[2] = "autorizado"
                     \/ f[1] = s /\ s # r /\ f[2] = "pasa"
  BY <1>2 DEF Notices!ToAll
<1>14. fs \subseteq Notices!People \X Notices!Matters
  BY <1>2, <1>3, <1>8, AreaPeople DEF Notices!ToAll
<1>15. ASSUME NEW f \in fs
       PROVE  /\ AtHome(f[1])
              /\ \E i \in DOMAIN ml : ml[i].what = f[2] /\ f[1] \in Notices!Recipients(ml[i],
                   Notices!Nobody)
  <2>1. CASE f[1] \in Notices!UserIdsForArea("taller") /\ f[2] = "autorizado"
    BY <1>9, <1>11, <2>1, AreaPeople
  <2>2. CASE f[1] = s /\ s # r /\ f[2] = "pasa"
    <3>1. 2 \in DOMAIN ml /\ ml[2] = n
      BY <1>11, <2>2
    <3> QED  BY <1>4, <1>10, <2>2, <3>1
  <2> QED  BY <1>13, <2>1, <2>2
<1> QED  BY <1>1, <1>3, <1>5, <1>6, <1>7, <1>11, <1>12, <1>14, <1>15, NoticeCommitOn

LEMMA NoticeTaskDone ==
  ASSUME NoticeInv, NEW w \in Workers, Notices!TaskDone(w)
  PROVE  NoticeInv'
<1>1. PICK u \in Notices!UserIdsForArea("taller") \cup Notices!Reception :
        /\ noticePc[w] = "libre" /\ notedOrder.stage = "produccion" /\ Notices!Begin
        /\ Notices!Commit(w, u, [notedOrder EXCEPT !.stage = "listo"],
             << Notices!ForOwner("listo"), Notices!ForOwner("termino") >>)
        /\ Notices!Owe(notedOrder.round, Notices!ToAll({Notices!Follower} \ {u},
             "listo") \cup Notices!ToAll({Notices!Follower} \ {u}, "termino"))
        /\ UNCHANGED excused
  BY Zenon DEF Notices!TaskDone
<1>2. PICK o, m, n, ml, fs :
        /\ o = [notedOrder EXCEPT !.stage = "listo"]
        /\ m = Notices!ForOwner("listo") /\ n = Notices!ForOwner("termino") /\ ml = << m, n >>
        /\ fs = Notices!ToAll({Notices!Follower} \ {u},
             "listo") \cup Notices!ToAll({Notices!Follower} \ {u}, "termino")
  OBVIOUS
<1>3. /\ Notices!Exists /\ Notices!Follower \in Notices!People /\ AtHome(Notices!Follower)
      /\ Notices!Follower = Notices!ReceptionOwner(notedOrder)
  <2>1. Notices!Exists
    BY <1>1 DEF Notices!Exists
  <2> QED  BY <2>1, FollowerIs DEF NoticeInv
<1>4. u \in Notices!People
  BY AreaPeople, NoticeNames
<1>5. o \in NoticeOrder /\ o.stage = "listo" /\ o.round = notedOrder.round
      /\ o.creator = notedOrder.creator /\ o.attended = notedOrder.attended
      /\ o.branch = notedOrder.branch
  BY <1>2 DEF NoticeInv, NoticeTypes, NoticeOrder
<1>6. Notices!Commit(w, u, o, ml) /\ Notices!Owe(o.round, fs)
  BY <1>1, <1>2, <1>5
<1>7. NoticeRounds' /\ noticeRequests' \in 0..MaxNoticeRequests
  BY <1>1, <1>5, <1>6, CommitRounds, NoticeBegin
<1>8. /\ {"listo", "termino"} \subseteq Notices!Matters
      /\ "recepcion" \in Notices!Areas \cup {"recepcion"}
  BY DEF Notices!Matters
<1>9. /\ m \in NoticeMail /\ MailFits(m) /\ m.what = "listo"
      /\ Notices!Recipients(m, u) = {Notices!Follower} \ {u}
      /\ n \in NoticeMail /\ MailFits(n) /\ n.what = "termino"
      /\ Notices!Recipients(n, u) = {Notices!Follower} \ {u}
  BY <1>2, <1>3, <1>4, <1>8, MailIsFor
<1>10. ml \in Seq(NoticeMail) /\ DOMAIN ml = {1, 2} /\ ml[1] = m /\ ml[2] = n
  BY <1>2, <1>9, MailLists
<1>11. \A i \in DOMAIN ml : MailFits(ml[i])
  BY <1>9, <1>10
<1>12. \A f \in fs : f[1] \in {Notices!Follower} \ {u} /\ f[2] \in {"listo", "termino"}
  BY <1>2 DEF Notices!ToAll
<1>13. fs \subseteq Notices!People \X Notices!Matters
  BY <1>2, <1>3, <1>8 DEF Notices!ToAll
<1>14. \A f \in fs :
         /\ AtHome(f[1])
         /\ \E i \in DOMAIN ml : ml[i].what = f[2] /\ f[1] \in Notices!Recipients(ml[i], u)
  BY <1>3, <1>9, <1>10, <1>12
<1> QED  BY <1>1, <1>3, <1>4, <1>5, <1>6, <1>7, <1>10, <1>11, <1>13, <1>14, NoticeCommitOn

LEMMA NoticeEditStatus ==
  ASSUME NoticeInv, NEW w \in Workers, Notices!EditStatus(w)
  PROVE  NoticeInv'
<1>1. PICK stage \in {"diseno", "produccion"} :
        /\ noticePc[w] = "libre" /\ Notices!Exists /\ stage # notedOrder.stage /\ Notices!Begin
        /\ Notices!Commit(w, Notices!Nobody, [notedOrder EXCEPT !.stage = stage],
                  << Notices!ForAll("estado"), Notices!ForArea("recepcion", "cambio") >>)
        /\ Notices!Owe(notedOrder.round, Notices!ToAll(Notices!Reception, "cambio"))
        /\ UNCHANGED excused
  BY Zenon DEF Notices!EditStatus
<1>2. PICK o, m, n, ml, fs :
        /\ o = [notedOrder EXCEPT !.stage = stage]
        /\ m = Notices!ForAll("estado") /\ n = Notices!ForArea("recepcion", "cambio")
        /\ ml = << m, n >>
        /\ fs = Notices!ToAll(Notices!Reception, "cambio")
  OBVIOUS
<1>3. o \in NoticeOrder /\ o.stage = stage /\ o.round = notedOrder.round
      /\ o.creator = notedOrder.creator /\ o.attended = notedOrder.attended
      /\ o.branch = notedOrder.branch
  BY <1>2 DEF NoticeInv, NoticeTypes, NoticeOrder
<1>4. Notices!Commit(w, Notices!Nobody, o, ml) /\ Notices!Owe(o.round, fs)
  BY <1>1, <1>2, <1>3
<1>5. NoticeRounds' /\ noticeRequests' \in 0..MaxNoticeRequests
  BY <1>1, <1>3, <1>4, CommitRounds, NoticeBegin
<1>6. /\ "estado" \in Notices!OnlyLive /\ "cambio" \in Notices!ForReception
      /\ {"estado", "cambio"} \subseteq Notices!Matters
  BY DEF Notices!Matters, Notices!OnlyLive, Notices!ForReception
<1>7. m \in NoticeMail /\ MailFits(m) /\ n \in NoticeMail /\ MailFits(n)
  BY <1>2, <1>6, NoticeNames, MailIsFor
<1>8. ml \in Seq(NoticeMail) /\ \A i \in DOMAIN ml : MailFits(ml[i])
  BY <1>2, <1>7, MailLists
<1>9. fs \subseteq Notices!People \X Notices!Matters
  BY <1>2, <1>6, NoticeNames DEF Notices!ToAll
<1>10. \A f \in fs : AtHome(f[1]) /\ f[2] \in Notices!ForReception
  BY <1>2, <1>6, NoticeNames DEF Notices!ToAll, AtHome, Notices!Stranger
<1> QED  BY <1>1, <1>3, <1>4, <1>5, <1>8, <1>9, <1>10, NoticeCommitOn

LEMMA NoticeEditOther ==
  ASSUME NoticeInv, NEW w \in Workers, Notices!EditOther(w)
  PROVE  NoticeInv'
<1>1. PICK u \in {"rosa", Notices!Dora}, who \in {Notices!Nobody, Notices!Dora},
             told \in BOOLEAN, ofArea \in BOOLEAN :
        /\ told <=> (who # notedOrder.who /\ who # Notices!Nobody /\ who # u)
        /\ noticePc[w] = "libre" /\ Notices!Exists /\ Notices!Begin
        /\ Notices!Commit(w, Notices!Nobody, [notedOrder EXCEPT !.who = who],
                  (IF told THEN << Notices!First(Notices!For(who, "asignado")) >> ELSE << >>) \o
                  (IF ofArea THEN << Notices!ForArea("recepcion", "edicion") >> ELSE << >>))
        /\ Notices!Owe(notedOrder.round, (IF told THEN Notices!ToAll({who}, "asignado") ELSE {})
                              \cup (IF ofArea THEN Notices!ToAll(Notices!Reception,
                                "edicion") ELSE {}))
        /\ UNCHANGED excused
  BY DEF Notices!EditOther
<1>2. PICK o, k, m, n, ml, fs :
        /\ o = [notedOrder EXCEPT !.who = who]
        /\ k = Notices!For(Notices!Dora, "asignado") /\ m = Notices!First(k)
        /\ n = Notices!ForArea("recepcion", "edicion")
        /\ ml = (IF told THEN << m >> ELSE << >>) \o (IF ofArea THEN << n >> ELSE << >>)
        /\ fs = (IF told THEN Notices!ToAll({Notices!Dora}, "asignado") ELSE {})
                  \cup (IF ofArea THEN Notices!ToAll(Notices!Reception, "edicion") ELSE {})
  OBVIOUS
<1>3. told => who = Notices!Dora
  BY <1>1
<1>4. o \in NoticeOrder /\ o.stage = notedOrder.stage /\ o.round = notedOrder.round /\
        o.sender = notedOrder.sender
      /\ o.creator = notedOrder.creator /\ o.attended = notedOrder.attended
      /\ o.branch = notedOrder.branch
  BY <1>2, NoticeNames DEF NoticeInv, NoticeTypes, NoticeOrder
<1>5. Notices!Commit(w, Notices!Nobody, o, ml) /\ Notices!Owe(o.round, fs)
  <2>1. CASE told
    BY <1>1, <1>2, <1>3, <1>4, <2>1
  <2>2. CASE ~told
    BY <1>1, <1>2, <1>4, <2>2
  <2> QED  BY <2>1, <2>2
<1>6. NoticeRounds' /\ noticeRequests' \in 0..MaxNoticeRequests
  BY <1>1, <1>4, <1>5, CommitRounds, NoticeBegin
<1>7. "edicion" \in Notices!ForReception
        /\ {"asignado", "edicion"} \subseteq Notices!Matters /\ AtHome(Notices!Dora)
      /\ Notices!Dora \in Notices!People
  BY NoticeNames DEF Notices!Matters, Notices!ForReception, AtHome, Notices!Stranger
<1>8. /\ k \in NoticeMail /\ k.what = "asignado" /\ k.to = "persona"
      /\ Notices!Recipients(k, Notices!Nobody) = {Notices!Dora}
      /\ MailFits(k) /\ n \in NoticeMail /\ MailFits(n)
  BY <1>2, <1>7, MailIsFor
<1>9. /\ m \in NoticeMail /\ m.what = "asignado"
      /\ Notices!Recipients(m, Notices!Nobody) = {Notices!Dora} /\ MailFits(m)
  <2>1. /\ m \in NoticeMail /\ m.to = "persona" /\ m.who = k.who /\ m.what = "asignado"
    BY <1>2, <1>8, FirstSame
  <2>2. /\ Notices!Recipients(m, Notices!Nobody) = {k.who}
        /\ Notices!Recipients(k, Notices!Nobody) = {k.who}
    BY <1>8, <2>1, RecipientsAre
  <2> QED  BY <1>8, <2>1, <2>2 DEF MailFits
<1>10. ml \in Seq(NoticeMail) /\ (\A i \in DOMAIN ml : ml[i] \in {m, n})
       /\ (told => 1 \in DOMAIN ml /\ ml[1] = m)
  <2>1. CASE told /\ ofArea
    <3>1. ml = << m >> \o << n >>
      BY <1>2, <2>1
    <3> QED  BY <1>8, <1>9, <3>1, MailLists
  <2>2. CASE told /\ ~ofArea
    BY <1>2, <1>8, <1>9, <2>2, MailLists
  <2>3. CASE ~told /\ ofArea
    BY <1>2, <1>8, <1>9, <2>3, MailLists
  <2>4. CASE ~told /\ ~ofArea
    BY <1>2, <1>8, <1>9, <2>4, MailLists
  <2> QED  BY <2>1, <2>2, <2>3, <2>4
<1>11. \A i \in DOMAIN ml : MailFits(ml[i])
  BY <1>8, <1>9, <1>10
<1>12. fs \subseteq Notices!People \X Notices!Matters
  BY <1>2, <1>7, NoticeNames DEF Notices!ToAll
<1>13. \A f \in fs : \/ f[1] = Notices!Dora /\ f[2] = "asignado" /\ told
                     \/ f[1] \in Notices!Reception /\ f[2] = "edicion"
  BY <1>2 DEF Notices!ToAll
<1>14. ASSUME NEW f \in fs
       PROVE  /\ AtHome(f[1])
              /\ f[2] \notin Notices!ForReception =>
                   \E i \in DOMAIN ml : ml[i].what = f[2] /\ f[1] \in Notices!Recipients(ml[i],
                     Notices!Nobody)
  <2>1. CASE f[1] = Notices!Dora /\ f[2] = "asignado" /\ told
    BY <1>7, <1>9, <1>10, <2>1
  <2>2. CASE f[1] \in Notices!Reception /\ f[2] = "edicion"
    BY <1>7, <2>2, NoticeNames DEF AtHome, Notices!Stranger
  <2> QED  BY <1>13, <2>1, <2>2
<1>15. o.stage = "esperando" => o.sender \in {"rosa", Notices!Dora}
  BY <1>4 DEF NoticeInv, NoticeLife, Notices!Awaiting
<1>16. o.stage # "ninguno"
  BY <1>1, <1>4 DEF Notices!Exists
<1> QED  BY <1>1, <1>4, <1>5, <1>6, <1>10, <1>11, <1>12, <1>14, <1>15, <1>16, NoticeCommitOn

LEMMA NoticeReadForRound ==
  ASSUME NoticeInv, NEW w \in Workers, Notices!ReadForRound(w)
  PROVE  NoticeInv'
<1>0. Notices!Cardinality({x \in Workers : noticePc[x] = "leyo"}) =
        Cardinality({x \in Workers : noticePc[x] = "leyo"})
  BY NoticesCardinality
<1>1. PICK u \in {"rosa", Notices!Dora} :
        /\ noticePc[w] = "libre" /\ Notices!Exists /\ Notices!Begin
        /\ notedOrder.round + Cardinality({x \in Workers : noticePc[x] = "leyo"}) < MaxRounds
        /\ noticePc' = [noticePc EXCEPT ![w] = "leyo"]
        /\ noticeJob' = [noticeJob EXCEPT ![w] = [Notices!Idle EXCEPT !.by = u,
             !.owner = Notices!ReceptionOwner(notedOrder)]]
        /\ UNCHANGED << notedOrder, Notices!people, notices, heard, debts, excused >>
  BY <1>0, Zenon DEF Notices!ReadForRound
<1>2. PICK own, j : /\ own = Notices!ReceptionOwner(notedOrder)
                    /\ j = [Notices!Idle EXCEPT !.by = u, !.owner = own]
  OBVIOUS
<1>3. own = Notices!Follower /\ own \in Notices!People /\ AtHome(own)
  BY <1>1, <1>2, FollowerIs DEF NoticeInv
<1>4. j = [by |-> u, owner |-> own, round |-> 0, mails |-> << >>]
  BY <1>2 DEF Notices!Idle
<1>5. j \in NoticeJob /\ NoticeFits("leyo", j)
  <2>1. 0 \in 0..MaxRounds /\ << >> \in Seq(NoticeMail) /\ u \in Notices!People /\ DOMAIN << >> = {}
    BY NoticesAssumption, NoticeNames
  <2> QED  BY <1>3, <1>4, <2>1 DEF NoticeJob, NoticeFits
<1>6. NoticeStays /\ notedOrder' = notedOrder /\ rooms' = rooms /\ muted' = muted /\ moves' = moves
  BY <1>1 DEF NoticeStays, Notices!people
<1>7. noticeRequests' \in 0..MaxNoticeRequests
  BY <1>1, NoticeBegin
<1>8. noticeJob' = [noticeJob EXCEPT ![w] = j]
  BY <1>1, <1>2
<1>9. NoticeTypes'
  BY <1>1, <1>5, <1>6, <1>7, <1>8 DEF NoticeInv, NoticeTypes, NoticeStays
<1>10. NoticeLife'
  <2>1. Notices!Exists' /\ (Notices!Awaiting' <=> Notices!Awaiting)
    BY <1>1, <1>6 DEF Notices!Exists, Notices!Awaiting
  <2> QED  BY <1>1, <1>6, <2>1, NoticeSame DEF NoticeInv, NoticeLife, NoticeStays
<1>11. NoticeRounds'
  <2>1. PICK S : S = {v \in Workers : noticePc[v] = "leyo"}
    OBVIOUS
  <2>2. IsFiniteSet(S) /\ w \notin S
    BY <1>1, <2>1, NoticesAssumption, FS_Subset
  <2>3. /\ Cardinality(S) \in Nat /\ Cardinality(S \cup {w}) = Cardinality(S) + 1
    BY <2>2, FS_AddElement, FS_CardinalityType
  <2>4. {v \in Workers : noticePc'[v] = "leyo"} = S \cup {w}
    BY <1>1, <2>1 DEF NoticeInv, NoticeTypes
  <2>5. PICK c \in Nat, n \in Nat : c = Cardinality(S) /\ n = notedOrder.round
    BY <2>3, NoticesAssumption DEF NoticeInv, NoticeTypes, NoticeOrder
  <2>6. n + (c + 1) <= MaxRounds
    BY <1>1, <2>1, <2>5, NoticesAssumption
  <2> QED  BY <1>6, <2>3, <2>4, <2>5, <2>6 DEF NoticeRounds
<1>12. ASSUME NEW v \in Workers PROVE NoticeFits(noticePc[v], noticeJob[v])'
  <2>1. PICK p, k : p = noticePc[v] /\ k = noticeJob[v]
    OBVIOUS
  <2>2. CASE v # w
    <3>1. NoticeFits(p, k)'
      BY <1>6, <2>1, NoticeFitsSame DEF NoticeInv
    <3>2. noticePc'[v] = p /\ noticeJob'[v] = k
      BY <1>1, <2>1, <2>2 DEF NoticeInv, NoticeTypes
    <3> QED  BY <3>1, <3>2
  <2>3. CASE v = w
    <3>1. NoticeFits("leyo", j)'
      BY <1>5, <1>6, NoticeFitsSame
    <3>2. noticePc'[v] = "leyo" /\ noticeJob'[v] = j
      BY <1>1, <1>8, <2>3 DEF NoticeInv, NoticeTypes
    <3> QED  BY <3>1, <3>2
  <2> QED  BY <2>2, <2>3
<1>13. NoticePaid'
  <2>1. /\ \A h \in notices' \cup heard' \cup debts' : AtHome(h[1])'
        /\ \A h \in heard' : h[2] \notin Notices!ForReception \cup Notices!OnlyLive =>
             h \in notices' \/ h[1] \in excused'
    BY <1>1, <1>6, NoticeSame DEF NoticeInv, NoticePaid
  <2>2. ASSUME NEW d \in debts', d[2] \notin Notices!ForReception, d \notin notices',
               d[1] \notin excused'
        PROVE  \E v \in Workers : Pending(d, noticePc[v], noticeJob[v])'
    <3>1. PICK v \in Workers : Pending(d, noticePc[v], noticeJob[v])
      BY <1>1, <2>2 DEF NoticeInv, NoticePaid
    <3>2. v # w
      BY <1>1, <3>1 DEF Pending
    <3>3. PICK p, k : p = noticePc[v] /\ k = noticeJob[v]
      OBVIOUS
    <3>4. Pending(d, p, k)'
      BY <1>6, <3>1, <3>3, NoticeFitsSame
    <3>5. noticePc'[v] = p /\ noticeJob'[v] = k
      BY <1>1, <3>2, <3>3 DEF NoticeInv, NoticeTypes
    <3> QED  BY <3>4, <3>5
  <2> QED  BY <2>1, <2>2 DEF NoticePaid
<1> QED  BY <1>9, <1>10, <1>11, <1>12, <1>13 DEF NoticeInv

(* Another follows the order: whoever followed it and whoever does now are  *)
(* excused if a request was in progress.                                    *)
LEMMA NoticeFollows ==
  ASSUME NoticeInv, NEW r \in Notices!Reception, NEW o \in NoticeOrder, Notices!Follows(r, o),
         o.stage = notedOrder.stage, o.round = notedOrder.round, o.sender = notedOrder.sender,
         o.branch = notedOrder.branch, o.creator \in Notices!People,
           o.creator \in Notices!Reception \/ o.creator = notedOrder.creator,
         o.attended = r \/ o.attended = notedOrder.attended, o.attended = r \/ o.creator = r
  PROVE  NoticeInv'
<1>1. /\ Notices!Exists /\ notedOrder' = o /\ member' = member /\ rooms' = rooms /\ muted' = muted
      /\ moves' = moves /\ notices' = notices /\ heard' = heard /\ noticePc' = noticePc
      /\ noticeJob' = noticeJob /\ debts' = debts
      /\ excused' = IF \E w \in Workers : noticePc[w] # "libre" THEN excused \cup {r,
           Notices!Follower} ELSE excused
  BY DEF Notices!Follows, Notices!people
<1>2. noticeRequests' \in 0..MaxNoticeRequests
  BY NoticeBegin DEF Notices!Follows
<1>3. /\ Notices!Follower \in Notices!People /\ r \in Notices!People /\ r # Notices!Nobody
      /\ r # Notices!Tienda /\ Notices!Nobody \notin Notices!People
  BY <1>1, FollowerIs, NoticeNames DEF NoticeInv
<1>4. excused \subseteq excused' /\ excused' \subseteq Notices!People
  BY <1>1, <1>3 DEF NoticeInv, NoticeTypes
<1>5. Notices!Follower' \in {r, Notices!Follower}
  BY <1>1, <1>3 DEF Notices!Follower
<1>6. /\ \A u : (AtHome(u) => AtHome(u)') /\ Notices!RoomsOf(u)' = Notices!RoomsOf(u)
      /\ \A m : MailFits(m) => MailFits(m)'
  <2>1. \A u : AtHome(u) => AtHome(u)'
    BY <1>1, <1>4 DEF AtHome, Notices!Stranger
  <2>2. \A u : Notices!AreasOf(u)' = Notices!AreasOf(u)
    BY <1>1 DEF Notices!AreasOf
  <2>3. \A u : Notices!RoomsOf(u)' = Notices!RoomsOf(u)
    BY <1>1, <2>2 DEF Notices!RoomsOf
  <2>4. \A m : MailFits(m) => MailFits(m)'
    BY <2>1 DEF MailFits
  <2> QED  BY <2>1, <2>3, <2>4
<1>7. \A m, by : \A u \in Notices!Recipients(m, by) :
        m \in NoticeMail => u \in Notices!Recipients(m, by)' \/ u = Notices!Follower
  <2> SUFFICES ASSUME NEW m \in NoticeMail, NEW by, NEW u \in Notices!Recipients(m, by),
                        u # Notices!Follower
               PROVE  u \in Notices!Recipients(m, by)'
    OBVIOUS
  <2>1. CASE m.to = "persona" \/ m.to = "area"
    BY <1>1, <2>1, RecipientsAre, RecipientsAfter
  <2>2. CASE m.to = "duena"
    BY <1>1, <2>2, RecipientsAre, FollowerIs DEF NoticeInv
  <2>3. CASE m.to = "todos"
    BY <2>3, RecipientsAre
  <2> QED  BY <2>1, <2>2, <2>3 DEF NoticeMail
<1>8. NoticeTypes'
  BY <1>1, <1>2, <1>4 DEF NoticeInv, NoticeTypes
<1>9. NoticeLife'
  <2>1. Notices!Exists' /\ (Notices!Awaiting' <=> Notices!Awaiting)
    BY <1>1 DEF Notices!Exists, Notices!Awaiting
  <2>2. AtHome(notedOrder.creator)'
    BY <1>1, <1>6, HomeAfter, NoticeNames DEF NoticeInv, NoticeLife
  <2> QED  BY <1>1, <1>4, <1>6, <2>1, <2>2 DEF NoticeInv, NoticeLife
<1>10. NoticeRounds'
  BY <1>1, RoundsSame DEF NoticeInv
<1>11. ASSUME NEW v \in Workers PROVE NoticeFits(noticePc[v], noticeJob[v])'
  <2>1. PICK p, k : p = noticePc[v] /\ k = noticeJob[v]
    OBVIOUS
  <2>2. NoticeFits(p, k)
    BY <2>1 DEF NoticeInv
  <2>3. p = "leyo" => Notices!Follower' \in excused'
    BY <1>1, <1>5, <2>1
  <2>4. NoticeFits(p, k)'
    BY <1>6, <2>2, <2>3 DEF NoticeFits
  <2> QED  BY <1>1, <2>1, <2>4
<1>12. NoticePaid'
  <2>1. /\ \A h \in notices' \cup heard' \cup debts' : AtHome(h[1])'
        /\ \A h \in heard' : h[2] \notin Notices!ForReception \cup Notices!OnlyLive =>
             h \in notices' \/ h[1] \in excused'
    BY <1>1, <1>4, <1>6 DEF NoticeInv, NoticePaid
  <2>2. ASSUME NEW d \in debts', d[2] \notin Notices!ForReception, d \notin notices',
               d[1] \notin excused'
        PROVE  \E v \in Workers : Pending(d, noticePc[v], noticeJob[v])'
    <3>1. PICK v \in Workers : Pending(d, noticePc[v], noticeJob[v])
      BY <1>1, <1>4, <2>2 DEF NoticeInv, NoticePaid
    <3>2. PICK p, k : p = noticePc[v] /\ k = noticeJob[v]
      OBVIOUS
    <3>3. p = "avisa" /\ d[1] # Notices!Follower
      BY <1>1, <2>2, <3>1, <3>2 DEF Pending
    <3>4. \A i \in DOMAIN k.mails : k.mails[i] \in NoticeMail
      BY <3>2, <3>3, TellerIs
    <3>5. PICK i \in DOMAIN k.mails :
            k.mails[i].what = d[2] /\ k.round = d[3] /\ d[1] \in Notices!Recipients(k.mails[i],
              k.by)
      BY <3>1, <3>2 DEF Pending
    <3>6. d[1] \in Notices!Recipients(k.mails[i], k.by)'
      BY <1>7, <3>3, <3>4, <3>5
    <3>7. Pending(d, p, k)'
      BY <3>3, <3>5, <3>6 DEF Pending
    <3> QED  BY <1>1, <3>2, <3>7
  <2> QED  BY <2>1, <2>2 DEF NoticePaid
<1> QED  BY <1>8, <1>9, <1>10, <1>11, <1>12 DEF NoticeInv

LEMMA NoticeTakeReception ==
  ASSUME NoticeInv, NEW r \in Notices!Reception, Notices!TakeReception(r)
  PROVE  NoticeInv'
<1>1. PICK o : o = [notedOrder EXCEPT !.attended = r]
  OBVIOUS
<1>2. Notices!Follows(r, o) /\ Notices!Exists
  BY <1>1 DEF Notices!TakeReception, Notices!Follows
<1>3. /\ o \in NoticeOrder /\ o.stage = notedOrder.stage /\ o.round = notedOrder.round
      /\ o.sender = notedOrder.sender /\ o.branch = notedOrder.branch
      /\ o.creator = notedOrder.creator
      /\ o.attended = r
  BY <1>1 DEF NoticeInv, NoticeTypes, NoticeOrder
<1>4. o.creator \in Notices!People
  BY <1>2, <1>3 DEF NoticeInv, NoticeLife
<1> QED  BY <1>2, <1>3, <1>4, NoticeFollows

LEMMA NoticeEditCreator ==
  ASSUME NoticeInv, NEW r \in Notices!Reception, Notices!EditCreator(r)
  PROVE  NoticeInv'
<1>1. PICK o : o = [notedOrder EXCEPT !.creator = r]
  OBVIOUS
<1>2. Notices!Follows(r, o)
  BY <1>1 DEF Notices!EditCreator
<1>3. /\ o \in NoticeOrder /\ o.stage = notedOrder.stage /\ o.round = notedOrder.round
      /\ o.sender = notedOrder.sender /\ o.branch = notedOrder.branch /\ o.creator = r
      /\ o.attended = notedOrder.attended /\ o.creator \in Notices!People
  BY <1>1, NoticeNames DEF NoticeInv, NoticeTypes, NoticeOrder
<1> QED  BY <1>2, <1>3, NoticeFollows

(* Somebody moves: a person of the house is excused from then on.           *)
LEMMA NoticeMoves ==
  ASSUME NoticeInv, NEW u \in Notices!People, Notices!Move(u), rooms' = rooms,
         member' = [v \in Notices!Movers |-> member'[v]],
         member'[Notices!Tito] \in SUBSET Notices!Areas,
           member'[Notices!Tienda] \in Notices!Branches,
         \A v \in Notices!Movers \ {u} : member'[v] = member[v],
         muted' \subseteq muted \cup {u}
  PROVE  NoticeInv'
<1>1. /\ notedOrder' = notedOrder /\ notices' = notices /\ heard' = heard
      /\ noticePc' = noticePc /\ noticeJob' = noticeJob
      /\ noticeRequests' = noticeRequests /\ debts' = debts /\ excused' = excused \cup {u}
      /\ moves' \in 0..MaxMoves
  BY NoticesAssumption DEF Notices!Move, NoticeInv, NoticeTypes
<1>2. \A v : v # u => (Notices!AreasOf(v)' = Notices!AreasOf(v)
        /\ Notices!RoomsOf(v)' = Notices!RoomsOf(v))
  <2>1. \A v : v # u => Notices!AreasOf(v)' = Notices!AreasOf(v)
    BY NoticeNames DEF Notices!AreasOf
  <2> QED  BY <2>1, NoticeNames DEF Notices!RoomsOf
<1>3. \A v : AtHome(v) => AtHome(v)'
  BY <1>1, NoticeNames DEF AtHome, Notices!Stranger
<1>4. \A m : MailFits(m) => MailFits(m)'
  BY <1>3 DEF MailFits
<1>5. \A m, by : \A v \in Notices!Recipients(m, by) : m \in NoticeMail => v = u \/
        v \in Notices!Recipients(m, by)'
  <2> SUFFICES ASSUME NEW m \in NoticeMail, NEW by, NEW v \in Notices!Recipients(m, by), v # u
               PROVE  v \in Notices!Recipients(m, by)'
    OBVIOUS
  <2>1. CASE m.to = "persona"
    BY <2>1 DEF Notices!Recipients
  <2>2. CASE m.to = "area"
    <3>1. /\ v \in Notices!UserIdsForArea(m.who)
          /\ Notices!Recipients(m, by)' = Notices!UserIdsForArea(m.who)'
      BY <2>2 DEF Notices!Recipients
    <3> QED  BY <1>2, <3>1 DEF Notices!UserIdsForArea
  <2>3. CASE m.to = "duena"
    BY <1>1, <2>3 DEF Notices!Recipients, Notices!ReceptionOwner
  <2>4. CASE m.to = "todos"
    BY <2>4, RecipientsAre
  <2> QED  BY <2>1, <2>2, <2>3, <2>4 DEF NoticeMail
<1>6. NoticeTypes'
  BY <1>1 DEF NoticeInv, NoticeTypes
<1>7. NoticeLife'
  <2>1. /\ Notices!Exists' <=> Notices!Exists
        /\ Notices!Awaiting' <=> Notices!Awaiting
    BY <1>1 DEF Notices!Exists, Notices!Awaiting
  <2>2. \A v \in Notices!Movers : rooms'[v] \in {{}, Notices!RoomsOf(v)'} \/ v \in excused'
    BY <1>1, <1>2 DEF NoticeInv, NoticeLife
  <2> QED  BY <1>1, <1>3, <2>1, <2>2 DEF NoticeInv, NoticeLife
<1>8. NoticeRounds'
  BY <1>1, RoundsSame DEF NoticeInv
<1>9. ASSUME NEW v \in Workers PROVE NoticeFits(noticePc[v], noticeJob[v])'
  <2>1. PICK p, k : p = noticePc[v] /\ k = noticeJob[v]
    OBVIOUS
  <2>2. NoticeFits(p, k) /\ Notices!Follower' = Notices!Follower
    BY <1>1, <2>1 DEF NoticeInv, Notices!Follower
  <2>3. NoticeFits(p, k)'
    BY <1>1, <1>3, <1>4, <2>2 DEF NoticeFits
  <2> QED  BY <1>1, <2>1, <2>3
<1>10. NoticePaid'
  <2>1. /\ \A h \in notices' \cup heard' \cup debts' : AtHome(h[1])'
        /\ \A h \in heard' : h[2] \notin Notices!ForReception \cup Notices!OnlyLive =>
             h \in notices' \/ h[1] \in excused'
    BY <1>1, <1>3 DEF NoticeInv, NoticePaid
  <2>2. ASSUME NEW d \in debts', d[2] \notin Notices!ForReception, d \notin notices',
               d[1] \notin excused'
        PROVE  \E v \in Workers : Pending(d, noticePc[v], noticeJob[v])'
    <3>1. PICK v \in Workers : Pending(d, noticePc[v], noticeJob[v])
      BY <1>1, <2>2 DEF NoticeInv, NoticePaid
    <3>2. PICK p, k : p = noticePc[v] /\ k = noticeJob[v]
      OBVIOUS
    <3>3. p = "avisa" /\ d[1] # u
      BY <1>1, <2>2, <3>1, <3>2 DEF Pending
    <3>4. \A i \in DOMAIN k.mails : k.mails[i] \in NoticeMail
      BY <3>2, <3>3, TellerIs
    <3>5. PICK i \in DOMAIN k.mails :
            k.mails[i].what = d[2] /\ k.round = d[3] /\ d[1] \in Notices!Recipients(k.mails[i],
              k.by)
      BY <3>1, <3>2 DEF Pending
    <3>6. d[1] \in Notices!Recipients(k.mails[i], k.by)'
      BY <1>5, <3>3, <3>4, <3>5
    <3>7. Pending(d, p, k)'
      BY <3>3, <3>5, <3>6 DEF Pending
    <3> QED  BY <1>1, <3>2, <3>7
  <2> QED  BY <2>1, <2>2 DEF NoticePaid
<1> QED  BY <1>6, <1>7, <1>8, <1>9, <1>10 DEF NoticeInv

LEMMA NoticeChangeAreas ==
  ASSUME NoticeInv, NEW A \in SUBSET Notices!Areas, Notices!ChangeAreas(A)
  PROVE  NoticeInv'
<1>1. /\ member' = [member EXCEPT ![Notices!Tito] = A] /\ Notices!Move(Notices!Tito)
      /\ rooms' = rooms /\ muted' = muted
  BY DEF Notices!ChangeAreas
<1>2. /\ member' = [v \in Notices!Movers |-> member'[v]] /\ member'[Notices!Tito] = A
      /\ \A v \in Notices!Movers \ {Notices!Tito} : member'[v] = member[v]
  BY <1>1, NoticeNames DEF NoticeInv, NoticeTypes
<1>3. member'[Notices!Tito] \in SUBSET Notices!Areas /\ member'[Notices!Tienda] \in Notices!Branches
  BY <1>2, NoticeNames DEF NoticeInv, NoticeTypes
<1> QED  BY <1>1, <1>2, <1>3, NoticeNames, NoticeMoves

LEMMA NoticeChangeBranch ==
  ASSUME NoticeInv, NEW b \in Notices!Branches, Notices!ChangeBranch(b)
  PROVE  NoticeInv'
<1>1. /\ member' = [member EXCEPT ![Notices!Tienda] = b] /\ Notices!Move(Notices!Tienda)
      /\ rooms' = rooms /\ muted' = muted
  BY DEF Notices!ChangeBranch
<1>2. /\ member' = [v \in Notices!Movers |-> member'[v]] /\ member'[Notices!Tienda] = b
      /\ \A v \in Notices!Movers \ {Notices!Tienda} : member'[v] = member[v]
  BY <1>1, NoticeNames DEF NoticeInv, NoticeTypes
<1>3. member'[Notices!Tito] \in SUBSET Notices!Areas /\ member'[Notices!Tienda] \in Notices!Branches
  BY <1>2, NoticeNames DEF NoticeInv, NoticeTypes
<1> QED  BY <1>1, <1>2, <1>3, NoticeNames, NoticeMoves

LEMMA NoticeMute ==
  ASSUME NoticeInv, NEW u \in {"rita", Notices!Tito}, Notices!Mute(u) \/ Notices!Unmute(u)
  PROVE  NoticeInv'
<1>1. Notices!Move(u) /\ rooms' = rooms /\ member' = member /\ muted' \subseteq muted \cup {u}
  BY DEF Notices!Mute, Notices!Unmute
<1>2. u \in Notices!People /\ member'[Notices!Tito] \in SUBSET Notices!Areas
        /\ member'[Notices!Tienda] \in Notices!Branches
      /\ member' = [v \in Notices!Movers |-> member'[v]]
  BY <1>1, NoticeNames DEF NoticeInv, NoticeTypes
<1> QED  BY <1>1, <1>2, NoticeMoves

LEMMA RoomsTyped ==
  ASSUME NoticeTypes, NEW u \in Notices!Movers
  PROVE  Notices!RoomsOf(u) \in SUBSET NoticeRooms
<1>1. CASE u = Notices!Tienda
  BY <1>1, RoomsAre DEF NoticeTypes, NoticeRooms
<1>2. CASE u = Notices!Tito
  BY <1>2, RoomsAre, NoticeNames DEF NoticeTypes, NoticeRooms
<1> QED  BY <1>1, <1>2, NoticeNames

LEMMA NoticeSockets ==
  ASSUME NoticeInv, NEW u \in Notices!Movers, Notices!Disconnect(u) \/ Notices!Connect(u)
  PROVE  NoticeInv'
<1>1. PICK R : R = IF Notices!Disconnect(u) THEN {} ELSE Notices!RoomsOf(u)
  OBVIOUS
<1>2. /\ rooms' = [rooms EXCEPT ![u] = R] /\ moves' \in 0..MaxMoves
      /\ notedOrder' = notedOrder /\ member' = member
      /\ muted' = muted /\ notices' = notices /\ heard' = heard /\ noticePc' = noticePc
      /\ noticeJob' = noticeJob
      /\ noticeRequests' = noticeRequests /\ debts' = debts /\ excused' = excused
  <2>1. CASE Notices!Disconnect(u)
    BY <1>1, <2>1, NoticesAssumption DEF Notices!Disconnect, NoticeInv, NoticeTypes
  <2>2. CASE ~Notices!Disconnect(u)
    BY <1>1, <2>2 DEF Notices!Connect, NoticeInv, NoticeTypes
  <2> QED  BY <2>1, <2>2
<1>3. NoticeStays
  BY <1>2 DEF NoticeStays
<1>4. R \in SUBSET NoticeRooms /\ R \in {{}, Notices!RoomsOf(u)}
  BY <1>1, RoomsTyped DEF NoticeInv
<1>5. NoticeTypes'
  BY <1>2, <1>4 DEF NoticeInv, NoticeTypes
<1>6. NoticeLife'
  <2>1. /\ Notices!Exists' <=> Notices!Exists
        /\ Notices!Awaiting' <=> Notices!Awaiting
    BY <1>2 DEF Notices!Exists, Notices!Awaiting
  <2>2. \A v \in Notices!Movers : rooms'[v] \in {{}, Notices!RoomsOf(v)'} \/ v \in excused'
    <3>1. \A v : Notices!RoomsOf(v)' = Notices!RoomsOf(v)
      BY <1>3, NoticeSame
    <3>2. \A v \in Notices!Movers : rooms'[v] = IF v = u THEN R ELSE rooms[v]
      BY <1>2 DEF NoticeInv, NoticeTypes
    <3> QED  BY <1>2, <1>4, <3>1, <3>2 DEF NoticeInv, NoticeLife
  <2>3. AtHome(notedOrder.creator)'
    BY <1>2, <1>3, NoticeSame DEF NoticeInv, NoticeLife
  <2> QED  BY <1>2, <2>1, <2>2, <2>3 DEF NoticeInv, NoticeLife
<1>7. NoticeRounds'
  BY <1>2, RoundsSame DEF NoticeInv
<1>8. ASSUME NEW v \in Workers PROVE NoticeFits(noticePc[v], noticeJob[v])'
  <2>1. PICK p, k : p = noticePc[v] /\ k = noticeJob[v]
    OBVIOUS
  <2>2. NoticeFits(p, k)'
    BY <1>3, <2>1, NoticeFitsSame DEF NoticeInv
  <2> QED  BY <1>2, <2>1, <2>2
<1>9. NoticePaid'
  <2>1. /\ \A h \in notices' \cup heard' \cup debts' : AtHome(h[1])'
        /\ \A h \in heard' : h[2] \notin Notices!ForReception \cup Notices!OnlyLive =>
             h \in notices' \/ h[1] \in excused'
    BY <1>2, <1>3, NoticeSame DEF NoticeInv, NoticePaid
  <2>2. ASSUME NEW d \in debts', d[2] \notin Notices!ForReception, d \notin notices',
               d[1] \notin excused'
        PROVE  \E v \in Workers : Pending(d, noticePc[v], noticeJob[v])'
    <3>1. PICK v \in Workers : Pending(d, noticePc[v], noticeJob[v])
      BY <1>2, <2>2 DEF NoticeInv, NoticePaid
    <3>2. PICK p, k : p = noticePc[v] /\ k = noticeJob[v]
      OBVIOUS
    <3>3. Pending(d, p, k)'
      BY <1>3, <3>1, <3>2, NoticeFitsSame
    <3> QED  BY <1>2, <3>2, <3>3
  <2> QED  BY <2>1, <2>2 DEF NoticePaid
<1> QED  BY <1>5, <1>6, <1>7, <1>8, <1>9 DEF NoticeInv

LEMMA NoticeInvSafe == NoticeInv => Notices!TypeOK /\ Notices!NoticesFollow
<1> SUFFICES ASSUME NoticeInv PROVE Notices!TypeOK /\ Notices!NoticesFollow
  OBVIOUS
<1>1. Notices!TypeOK
  BY DEF NoticeInv, NoticeTypes, NoticeOrder, NoticeTold, NoticeFits, Notices!TypeOK
<1>2. Notices!NoticesFollow
  <2>1. ASSUME Notices!Rest, NEW d \in debts, d[2] \notin Notices!ForReception
        PROVE  d \in notices \/ d[1] \in excused
    BY <2>1 DEF Notices!Rest, NoticeInv, NoticePaid, Pending
  <2>2. \A h \in notices \cup heard : h[1] = Notices!Tienda =>
          notedOrder.branch = member[Notices!Tienda] \/ Notices!Tienda \in excused
    BY DEF NoticeInv, NoticePaid, AtHome, Notices!Stranger
  <2>3. \A h \in heard : h[2] \notin Notices!ForReception \cup Notices!OnlyLive =>
          h \in notices \/ h[1] \in excused
    BY DEF NoticeInv, NoticePaid
  <2> QED  BY <2>1, <2>2, <2>3 DEF Notices!NoticesFollow
<1> QED  BY <1>1, <1>2

LEMMA NoticeInvInit == Notices!Init => NoticeInv
<1> SUFFICES ASSUME Notices!Init PROVE NoticeInv
  OBVIOUS
<1>1. /\ Notices!NoOrder \in NoticeOrder /\ ~Notices!Exists /\ ~Notices!Awaiting
      /\ notedOrder.creator = Notices!Nobody /\ notedOrder.round = 0
  BY NoticesAssumption DEF Notices!Init, Notices!NoOrder, NoticeOrder, Notices!Exists,
     Notices!Awaiting
<1>2. /\ member = [v \in Notices!Movers |-> member[v]] /\ member[Notices!Tito] = {"taller"}
      /\ member[Notices!Tienda] = "punto"
  BY NoticeNames DEF Notices!Init
<1>3. member[Notices!Tito] \in SUBSET Notices!Areas /\ member[Notices!Tienda] \in Notices!Branches
  BY <1>2 DEF Notices!Areas, Notices!Branches
<1>4. rooms \in [Notices!Movers -> SUBSET NoticeRooms]
  <2>1. Notices!RoomsOf(Notices!Tienda) \in SUBSET NoticeRooms
    BY <1>3, RoomsAre DEF NoticeRooms
  <2>2. Notices!RoomsOf(Notices!Tito) \in SUBSET NoticeRooms
    BY <1>3, RoomsAre, NoticeNames DEF NoticeRooms
  <2> QED  BY <2>1, <2>2, NoticeNames DEF Notices!Init
<1>5. NoticeTypes
  BY <1>1, <1>2, <1>3, <1>4, NoticeIdle, NoticesAssumption DEF Notices!Init, NoticeTypes
<1>6. NoticeLife
  <2>1. AtHome(notedOrder.creator)
    BY <1>1, NoticeNames DEF AtHome, Notices!Stranger
  <2> QED  BY <1>1, <2>1 DEF Notices!Init, NoticeLife
<1>7. NoticeRounds
  <2>1. {w \in Workers : noticePc[w] = "leyo"} = {}
    BY DEF Notices!Init
  <2> QED  BY <1>1, <2>1, FS_EmptySet, NoticesAssumption DEF NoticeRounds
<1>8. \A w \in Workers : NoticeFits(noticePc[w], noticeJob[w])
  BY NoticeIdle DEF Notices!Init
<1>9. NoticePaid
  BY DEF Notices!Init, NoticePaid
<1> QED  BY <1>5, <1>6, <1>7, <1>8, <1>9 DEF NoticeInv

LEMMA NoticeInvStep == NoticeInv /\ Notices!Next => NoticeInv'
<1> SUFFICES ASSUME NoticeInv, Notices!Next PROVE NoticeInv'
  OBVIOUS
<1>1. ASSUME NEW w \in Workers,
             \/ Notices!Tell(w) \/ Notices!Fail(w) \/ Notices!Create(w)
                  \/ Notices!CreateBranch(w) \/ Notices!ReadForRound(w) \/ Notices!SendRound(w)
             \/ Notices!Feedback(w) \/ Notices!Approve(w) \/ Notices!TaskDone(w) \/
                  Notices!EditStatus(w) \/ Notices!EditOther(w)
      PROVE  NoticeInv'
  BY <1>1, NoticeTell, NoticeFail, NoticeCreate, NoticeCreateBranch, NoticeReadForRound,
     NoticeSendRound, NoticeFeedback, NoticeApprove, NoticeTaskDone, NoticeEditStatus,
       NoticeEditOther
<1>2. ASSUME NEW r \in Notices!Reception, Notices!TakeReception(r) \/ Notices!EditCreator(r)
      PROVE  NoticeInv'
  BY <1>2, NoticeTakeReception, NoticeEditCreator
<1>3. ASSUME NEW A \in SUBSET Notices!Areas, Notices!ChangeAreas(A)
      PROVE  NoticeInv'
  BY <1>3, NoticeChangeAreas
<1>4. ASSUME NEW b \in Notices!Branches, Notices!ChangeBranch(b)
      PROVE  NoticeInv'
  BY <1>4, NoticeChangeBranch
<1>5. ASSUME NEW u \in Notices!Movers, Notices!Disconnect(u) \/ Notices!Connect(u)
      PROVE  NoticeInv'
  BY <1>5, NoticeSockets
<1>6. ASSUME NEW u \in {"rita", Notices!Tito}, Notices!Mute(u) \/ Notices!Unmute(u)
      PROVE  NoticeInv'
  BY <1>6, NoticeMute
<1> QED  BY <1>1, <1>2, <1>3, <1>4, <1>5, <1>6 DEF Notices!Next

LEMMA NoticeInvKept == NoticeInv /\ UNCHANGED Notices!vars => NoticeInv'
<1> SUFFICES ASSUME NoticeInv, UNCHANGED Notices!vars PROVE NoticeInv'
  OBVIOUS
<1>1. /\ notedOrder' = notedOrder /\ member' = member /\ rooms' = rooms /\ muted' = muted
      /\ moves' = moves
      /\ notices' = notices /\ heard' = heard /\ noticePc' = noticePc /\ noticeJob' = noticeJob
      /\ noticeRequests' = noticeRequests /\ debts' = debts /\ excused' = excused
  BY DEF Notices!vars, Notices!people
<1>2. NoticeStays
  BY <1>1 DEF NoticeStays
<1>3. NoticeTypes'
  BY <1>1 DEF NoticeInv, NoticeTypes
<1>4. NoticeLife'
  <2>1. /\ Notices!Exists' <=> Notices!Exists
        /\ Notices!Awaiting' <=> Notices!Awaiting
    BY <1>1 DEF Notices!Exists, Notices!Awaiting
  <2> QED  BY <1>1, <1>2, <2>1, NoticeSame DEF NoticeInv, NoticeLife
<1>5. NoticeRounds'
  BY <1>1, RoundsSame DEF NoticeInv
<1>6. ASSUME NEW v \in Workers PROVE NoticeFits(noticePc[v], noticeJob[v])'
  <2>1. PICK p, k : p = noticePc[v] /\ k = noticeJob[v]
    OBVIOUS
  <2>2. NoticeFits(p, k)'
    BY <1>2, <2>1, NoticeFitsSame DEF NoticeInv
  <2> QED  BY <1>1, <2>1, <2>2
<1>7. NoticePaid'
  <2>1. /\ \A h \in notices' \cup heard' \cup debts' : AtHome(h[1])'
        /\ \A h \in heard' : h[2] \notin Notices!ForReception \cup Notices!OnlyLive =>
             h \in notices' \/ h[1] \in excused'
    BY <1>1, <1>2, NoticeSame DEF NoticeInv, NoticePaid
  <2>2. ASSUME NEW d \in debts', d[2] \notin Notices!ForReception, d \notin notices',
               d[1] \notin excused'
        PROVE  \E v \in Workers : Pending(d, noticePc[v], noticeJob[v])'
    <3>1. PICK v \in Workers : Pending(d, noticePc[v], noticeJob[v])
      BY <1>1, <2>2 DEF NoticeInv, NoticePaid
    <3>2. PICK p, k : p = noticePc[v] /\ k = noticeJob[v]
      OBVIOUS
    <3>3. Pending(d, p, k)'
      BY <1>2, <3>1, <3>2, NoticeFitsSame
    <3> QED  BY <1>1, <3>2, <3>3
  <2> QED  BY <2>1, <2>2 DEF NoticePaid
<1> QED  BY <1>3, <1>4, <1>5, <1>6, <1>7 DEF NoticeInv

-----------------------------------------------------------------------------
(* The whole: the invariant of the machine that is the subject.             *)

OrderWorkInv ==
  /\ subject \in {"tareas", "avisos"}
  /\ subject = "tareas" => WorkInv
  /\ subject = "avisos" => NoticeInv

LEMMA OrderWorkInvInit == Init => OrderWorkInv
<1> SUFFICES ASSUME Init PROVE OrderWorkInv
  OBVIOUS
<1>1. \/ subject = "tareas" /\ Work!Init
      \/ subject = "avisos" /\ Notices!Init
  BY DEF Init
<1> QED  BY <1>1, WorkInvInit, NoticeInvInit DEF OrderWorkInv

LEMMA OrderWorkInvStep == OrderWorkInv /\ [Next]_vars => OrderWorkInv'
<1> SUFFICES ASSUME OrderWorkInv, [Next]_vars PROVE OrderWorkInv'
  OBVIOUS
<1>1. CASE WorkStep
  <2>1. subject = "tareas" /\ subject' = subject /\ Work!Next
    BY <1>1 DEF WorkStep
  <2> QED  BY <2>1, WorkInvStep DEF OrderWorkInv
<1>2. CASE NoticesStep
  <2>1. subject = "avisos" /\ subject' = subject /\ Notices!Next
    BY <1>2 DEF NoticesStep
  <2> QED  BY <2>1, NoticeInvStep DEF OrderWorkInv
<1>3. CASE UNCHANGED vars
  <2>1. subject' = subject
    BY <1>3 DEF vars
  <2>2. UNCHANGED Work!vars
    BY <1>3 DEF vars, workVars, Work!vars, Work!work, Work!config
  <2>3. UNCHANGED Notices!vars
    BY <1>3 DEF vars, noticeVars, Notices!vars, Notices!people
  <2> QED  BY <2>1, <2>2, <2>3, WorkInvKept, NoticeInvKept DEF OrderWorkInv
<1> QED  BY <1>1, <1>2, <1>3 DEF Next

LEMMA OrderWorkInvSafe == OrderWorkInv => TypeOK /\ StageTellsWork /\ NoticesFollow
<1> SUFFICES ASSUME OrderWorkInv PROVE TypeOK /\ StageTellsWork /\ NoticesFollow
  OBVIOUS
<1>1. subject = "tareas" =>
        Work!TypeOK /\ Work!StageListValid /\ Work!StartedIsOutOfStages /\ Work!ReviewHasOpenTest
  BY WorkInvSafe DEF OrderWorkInv
<1>2. subject = "avisos" => Notices!TypeOK /\ Notices!NoticesFollow
  BY NoticeInvSafe DEF OrderWorkInv
<1> QED  BY <1>1, <1>2 DEF TypeOK, StageTellsWork, NoticesFollow

(* A step of an area moves the task along its list and takes nothing.       *)
LEMMA OrderWorkMoves ==
  OrderWorkInv /\ [Next]_vars =>
    /\ [subject = "tareas" => Work!StageMoves]_vars
    /\ [subject = "tareas" => Work!TakesOrLosesNothing]_vars
<1> SUFFICES ASSUME OrderWorkInv, Next, subject = "tareas"
             PROVE  Work!StageMoves /\ Work!TakesOrLosesNothing
  OBVIOUS
<1>1. Work!Next /\ WorkInv
  BY DEF Next, WorkStep, NoticesStep, OrderWorkInv
<1> QED  BY <1>1, WorkStagesInOrder, WorkTakesNothing

(* In every behaviour the machine that is the subject keeps its invariant.  *)
LEMMA OrderWorkKeepsInv == Spec => []OrderWorkInv
<1> QED  BY OrderWorkInvInit, OrderWorkInvStep, PTL DEF Spec

-----------------------------------------------------------------------------
(* Whatever the number of requests, people, stages, rounds... the state of  *)
(* each machine is one its tables and requests can be in.                   *)
THEOREM Type_Correct == Spec => []TypeOK
BY OrderWorkKeepsInv, OrderWorkInvSafe, PTL

(* Whatever is edited while a task goes through the stages of its area, the *)
(* list stays valid, a task in production is in no stage, and it is in a    *)
(* review exactly when a round of samples is open; aside two edits that     *)
(* overlap, one that races the task, one made while its order is closed,    *)
(* and a request that read an old list (order-area-task.service.ts,         *)
(* area-admin.service.ts).                                                  *)
THEOREM Stage_Tells_Work == Spec => []StageTellsWork
BY OrderWorkKeepsInv, OrderWorkInvSafe, PTL

(* Whoever has to be told of a change has its notice once nothing is in     *)
(* progress, whoever was rung has it in writing, and the account of a       *)
(* branch hears of the orders of its branch only, but for those who moved   *)
(* or muted their notices, and after a failure (order.service.ts,           *)
(* notification.service.ts, notifications.gateway.ts).                      *)
THEOREM Notices_Follow == Spec => []NoticesFollow
BY OrderWorkKeepsInv, OrderWorkInvSafe, PTL

(* A task goes from each stage to the next one of the list - out of a       *)
(* review only if the sample was approved -, or back to the one before if   *)
(* it was rejected; aside those who read an old list, an edit that raced    *)
(* the task, and one made while its order was closed                        *)
(* (order-area-task.service.ts).                                            *)
THEOREM Stages_In_Order == Spec => StagesInOrder
BY OrderWorkKeepsInv, OrderWorkMoves, PTL DEF Spec, StagesInOrder

(* Starting a task takes it from nobody, and a capture changes no field but *)
(* those it names, unless another request wrote between the read and the    *)
(* write (order-area-task.service.ts).                                      *)
THEOREM Nothing_Taken_Or_Lost == Spec => NothingTakenOrLost
BY OrderWorkKeepsInv, OrderWorkMoves, PTL DEF Spec, NothingTakenOrLost
=============================================================================
