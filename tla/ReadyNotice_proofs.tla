------------------------- MODULE ReadyNotice_proofs -------------------------
(***************************************************************************)
(* What TLAPS proves of ReadyNotice, for any orders, devices, runs of the  *)
(* cron and requests, and any number of links a run takes.                 *)
(***************************************************************************)
EXTENDS ReadyNotice, TLAPS

LinkRow == [id : 0..MaxTokens, token : 0..MaxTokens, notified : BOOLEAN]
JobRow  == [order : Orders \cup {"ninguno"}, ready : BOOLEAN,
            id : 0..MaxTokens, device : Devices \cup {"ninguno"}]
RunRow  == [batch : SUBSET Ids, at : {"espera", "reclama", "lee", "envia"},
            id : 0..MaxTokens, order : Orders \cup {"ninguno"},
            to : SUBSET Devices, token : 0..MaxTokens]
Places  == {"libre", "crea", "regenera", "renueva", "suscribe"}
People  == Devices \cup {Email}

-----------------------------------------------------------------------------
(* The rows: a link has a number that was given out, of its own; and what   *)
(* requests and runs carry fits the rows.                                   *)
Numbered == \A o \in Orders : link[o] = NoLink \/ link[o].id \in 1..tokens
Distinct == \A o, p \in Orders : link[o].id = link[p].id /\ link[o].id # 0 => o = p

JobFits(w) == /\ pc[w] \in {"crea", "regenera", "renueva"} => job[w].order \in Orders
              /\ pc[w] = "suscribe" => job[w].id \in Ids /\ job[w].device \in Devices
JobsFit == \A w \in Workers : JobFits(w)

Busy(r) == run[r].at \in {"lee", "envia"}
RunFits(r) == /\ run[r].batch \subseteq 1..tokens
              /\ Busy(r) => run[r].id \in 1..tokens
              /\ run[r].at = "lee" => run[r].order \in Orders
RunsFit == \A r \in Runs : RunFits(r)

Shape == TypeOK /\ Numbered /\ Distinct /\ JobsFit /\ RunsFit

-----------------------------------------------------------------------------
(* The notices: nobody has heard of a link that may still be claimed, nor   *)
(* is a run busy with it; two runs are never busy with one link; and a run  *)
(* has still to tell those it has not told.                                 *)
Unheard(id) == \A who \in People : told[<< id, who >>] = 0
Fresh(id)   == Unheard(id) /\ \A r \in Runs : Busy(r) => run[r].id # id

FreshToCome    == \A id \in Ids : id > tokens => Fresh(id)
FreshUnclaimed == \A o \in Orders : link[o].id # 0 /\ ~link[o].notified => Fresh(link[o].id)
BornSilent     == \A id \in born : /\ Fresh(id)
                                   /\ \A o \in Orders : link[o].id = id => link[o].notified
OneRunPerLink  == \A r, s \in Runs : Busy(r) /\ Busy(s) /\ run[r].id = run[s].id => r = s
ToldSoFar      == \A r \in Runs :
                    /\ run[r].at = "lee" => Unheard(run[r].id)
                    /\ run[r].at = "envia" => \A who \in run[r].to \cup {Email} :
                                                told[<< run[r].id, who >>] = 0
OnceAtMost     == \A n \in DOMAIN told : told[n] <= 1

Quiet == /\ FreshToCome /\ FreshUnclaimed /\ BornSilent
         /\ OneRunPerLink /\ ToldSoFar /\ OnceAtMost

-----------------------------------------------------------------------------
LEMMA ShapeTypes ==
  ASSUME TypeOK
  PROVE  /\ link \in [Orders -> LinkRow] /\ subs \subseteq [link : Ids, device : Devices]
         /\ tokens \in 0..MaxTokens /\ tokens \in Nat /\ born \subseteq 1..tokens
         /\ pc \in [Workers -> Places] /\ job \in [Workers -> JobRow]
         /\ run \in [Runs -> RunRow] /\ told \in [Ids \X People -> Nat]
         /\ requests \in 0..MaxRequests
BY DEF TypeOK, LinkRow, JobRow, RunRow, Places, People

LEMMA TypesMake ==
  ASSUME status' \in [Orders -> {"abierto", "terminado", "entregado"}],
         link' \in [Orders -> LinkRow], subs' \subseteq [link : Ids, device : Devices],
         \A s \in subs' : Live(s.link)',
         tokens' \in 0..MaxTokens, born' \subseteq 1..tokens',
         pc' \in [Workers -> Places], job' \in [Workers -> JobRow],
         run' \in [Runs -> RunRow], told' \in [Ids \X People -> Nat],
         requests' \in 0..MaxRequests
  PROVE  TypeOK'
BY DEF TypeOK, LinkRow, JobRow, RunRow, Places, People

LEMMA Bounds == MaxTokens \in Nat /\ MaxRequests \in Nat
BY BoundAssumption

LEMMA CountType ==
  ASSUME TypeOK, Count
  PROVE  requests' \in 0..MaxRequests
BY Bounds DEF TypeOK, Count

LEMMA NoneFits == NoJob \in JobRow /\ NoRun \in RunRow /\ NoLink \in LinkRow
BY Bounds DEF NoJob, NoRun, NoLink, JobRow, RunRow, LinkRow

LEMMA ShapeInit == Init => Shape
<1> SUFFICES ASSUME Init PROVE Shape
  OBVIOUS
<1>1. TypeOK
  <2>1. status \in [Orders -> {"abierto", "terminado", "entregado"}]
    BY DEF Init
  <2>2. /\ link \in [Orders -> LinkRow] /\ job \in [Workers -> JobRow]
        /\ run \in [Runs -> RunRow] /\ pc \in [Workers -> Places]
    BY NoneFits DEF Init, Places
  <2>3. told \in [Ids \X People -> Nat] /\ requests \in 0..MaxRequests
    BY Bounds DEF Init, People
  <2> QED
    BY <2>1, <2>2, <2>3, Bounds DEF Init, TypeOK, LinkRow, JobRow, RunRow, Places, People
<1>2. Numbered /\ Distinct
  BY DEF Init, Numbered, Distinct, NoLink
<1>3. JobsFit
  BY DEF Init, JobsFit, JobFits
<1>4. RunsFit
  BY DEF Init, RunsFit, RunFits, Busy, NoRun
<1> QED  BY <1>1, <1>2, <1>3, <1>4 DEF Shape

-----------------------------------------------------------------------------
(* How requests and runs go on.                                             *)
LEMMA BeginShape ==
  ASSUME Shape, NEW w \in Workers, NEW where \in Places, NEW j \in JobRow, Begin(w, where, j),
         where \in {"crea", "regenera"} => j.order \in Orders, where # "renueva",
         where = "suscribe" => j.id \in Ids /\ j.device \in Devices
  PROVE  Shape'
<1>1. /\ UNCHANGED << status, link, subs, tokens, born, run, told >> /\ Count
      /\ pc' = [pc EXCEPT ![w] = where] /\ job' = [job EXCEPT ![w] = j]
  BY DEF Begin, rows
<1>2. TypeOK'
  <2>1. requests' \in 0..MaxRequests
    BY <1>1, CountType DEF Shape
  <2>2. pc' \in [Workers -> Places] /\ job' \in [Workers -> JobRow]
    BY <1>1, ShapeTypes DEF Shape
  <2>3. \A s \in subs' : Live(s.link)'
    BY <1>1 DEF Shape, TypeOK, Live
  <2> QED  BY <1>1, <2>1, <2>2, <2>3, ShapeTypes, TypesMake DEF Shape, TypeOK
<1>3. JobsFit'
  <2>1. ASSUME NEW v \in Workers PROVE JobFits(v)'
    <3>1. CASE v = w
      <4>1. pc'[w] = where /\ job'[w] = j
        BY <1>1, ShapeTypes DEF Shape
      <4> QED  BY <3>1, <4>1 DEF JobFits
    <3>2. CASE v # w
      <4>1. pc'[v] = pc[v] /\ job'[v] = job[v]
        BY <1>1, <3>2, ShapeTypes DEF Shape
      <4> QED  BY <4>1 DEF JobFits, Shape, JobsFit
    <3> QED  BY <3>1, <3>2
  <2> QED  BY <2>1 DEF JobsFit
<1> QED
  BY <1>1, <1>2, <1>3 DEF Shape, Numbered, Distinct, RunsFit, RunFits, Busy

(* A step that leaves requests and runs as they were, or ends a request, or *)
(* goes from the first to the second write of a new token.                  *)
LEMMA RowsShape ==
  ASSUME Shape,
         \/ UNCHANGED << pc, job >>
         \/ \E w \in Workers : /\ pc[w] = "regenera" /\ job' = job
                               /\ pc' = [pc EXCEPT ![w] = "renueva"]
         \/ \E w \in Workers : /\ pc' = [pc EXCEPT ![w] = "libre"]
                               /\ job' = [job EXCEPT ![w] = NoJob],
         run' = run, told' = told, requests' \in 0..MaxRequests,
         status' \in [Orders -> {"abierto", "terminado", "entregado"}],
         link' \in [Orders -> LinkRow], subs' \subseteq [link : Ids, device : Devices],
         \A s \in subs' : Live(s.link)', Numbered', Distinct',
         tokens' \in 0..MaxTokens, tokens <= tokens', born' \subseteq 1..tokens'
  PROVE  Shape'
<1>1. pc' \in [Workers -> Places] /\ job' \in [Workers -> JobRow]
  BY ShapeTypes, NoneFits DEF Shape, Places
<1>2. TypeOK'
  BY <1>1, ShapeTypes, TypesMake DEF Shape
<1>3. JobsFit'
  <2>1. ASSUME NEW v \in Workers PROVE JobFits(v)'
    <3>1. \/ pc'[v] = "libre"
          \/ job'[v] = job[v] /\ (pc'[v] = pc[v] \/ (pc[v] = "regenera" /\ pc'[v] = "renueva"))
      BY ShapeTypes DEF Shape
    <3> QED  BY <3>1 DEF JobFits, Shape, JobsFit
  <2> QED  BY <2>1 DEF JobsFit
<1>4. RunsFit'
  <2>1. tokens \in Nat /\ tokens' \in Nat /\ 1..tokens \subseteq 1..tokens'
    BY ShapeTypes, Bounds DEF Shape
  <2> QED  BY <2>1 DEF Shape, RunsFit, RunFits, Busy
<1> QED  BY <1>2, <1>3, <1>4 DEF Shape

(* A link row is made, with a number of its own.                            *)
LEMMA CreateRows ==
  ASSUME Shape, NEW o \in Orders, NEW ready \in BOOLEAN, link[o] = NoLink,
         tokens < MaxTokens, tokens' = tokens + 1, Create(o, ready)
  PROVE  /\ link' \in [Orders -> LinkRow] /\ tokens' \in 0..MaxTokens /\ tokens <= tokens'
         /\ born' \subseteq 1..tokens' /\ Numbered' /\ Distinct'
         /\ \A id : Live(id) => Live(id)'
         /\ \A p \in Orders : link'[p] = link[p] \/ link'[p].id = tokens + 1
         /\ link'[o].notified = ready
<1>1. tokens \in Nat /\ tokens + 1 \in 1..MaxTokens /\ link \in [Orders -> LinkRow]
      /\ born \subseteq 1..tokens
  BY ShapeTypes, Bounds DEF Shape
<1> DEFINE new == [id |-> tokens + 1, token |-> tokens + 1, notified |-> ready]
<1>2. new \in LinkRow /\ new.id = tokens + 1 /\ new.notified = ready
  BY <1>1 DEF LinkRow
<1>3. link' = [link EXCEPT ![o] = new]
  BY DEF Create
<1> HIDE DEF new
<1>4. /\ link' \in [Orders -> LinkRow] /\ link'[o] = new
      /\ \A p \in Orders \ {o} : link'[p] = link[p]
  BY <1>1, <1>2, <1>3
<1>5. link[o].id = 0
  BY DEF NoLink
<1>6. \A p \in Orders : link[p].id \in 0..tokens
  BY <1>1 DEF Shape, Numbered, NoLink
<1>7. Numbered'
  BY <1>1, <1>2, <1>4 DEF Shape, Numbered
<1>8. Distinct'
  BY <1>1, <1>2, <1>4, <1>6 DEF Shape, Distinct
<1>9. \A id : Live(id) => Live(id)'
  BY <1>4, <1>5 DEF Live
<1>10. born' \subseteq 1..tokens'
  BY <1>1 DEF Create
<1> QED  BY <1>1, <1>2, <1>4, <1>7, <1>8, <1>9, <1>10

LEMMA RenewRows ==
  ASSUME Shape, NEW o \in Orders, link[o] # NoLink, tokens < MaxTokens, tokens' = tokens + 1,
         link' = [link EXCEPT ![o].token = tokens + 1]
  PROVE  /\ link' \in [Orders -> LinkRow] /\ tokens' \in 0..MaxTokens /\ tokens <= tokens'
         /\ Numbered' /\ Distinct' /\ \A id : Live(id) => Live(id)'
         /\ \A p \in Orders : link'[p].id = link[p].id /\ link'[p].notified = link[p].notified
<1>1. tokens \in Nat /\ tokens + 1 \in 1..MaxTokens /\ link \in [Orders -> LinkRow]
      /\ link[o] \in LinkRow
  BY ShapeTypes, Bounds DEF Shape
<1> DEFINE new == [link[o] EXCEPT !.token = tokens + 1]
<1>2. new \in LinkRow /\ new.id = link[o].id /\ new.notified = link[o].notified
  BY <1>1 DEF LinkRow
<1>3. link' = [link EXCEPT ![o] = new]
  OBVIOUS
<1> HIDE DEF new
<1>4. /\ link' \in [Orders -> LinkRow] /\ link'[o] = new
      /\ \A p \in Orders \ {o} : link'[p] = link[p]
  BY <1>1, <1>2, <1>3
<1>5. \A p \in Orders : link'[p].id = link[p].id /\ link'[p].notified = link[p].notified
  BY <1>2, <1>4
<1>6. Numbered'
  BY <1>1, <1>2, <1>4 DEF Shape, Numbered
<1>7. Distinct'
  BY <1>5 DEF Shape, Distinct
<1>8. \A id : Live(id) => Live(id)'
  BY <1>5 DEF Live
<1> QED  BY <1>1, <1>4, <1>5, <1>6, <1>7, <1>8

-----------------------------------------------------------------------------
(* The shape is kept.                                                       *)
LEMMA ShapeBegin ==
  ASSUME Shape, NEW w \in Workers, NEW o \in Orders,
         \/ \E where \in {"crea", "regenera"} : LinkRead(w, o, where)
         \/ \E d \in Devices : SubscribeRead(w, o, d)
  PROVE  Shape'
<1>1. ASSUME NEW where \in {"crea", "regenera"}, LinkRead(w, o, where) PROVE Shape'
  <2> DEFINE j == [NoJob EXCEPT !.order = o, !.ready = status[o] \in Ready]
  <2>0. (status[o] \in Ready) \in BOOLEAN
    OBVIOUS
  <2>1. j \in JobRow /\ j.order = o
    BY <2>0, NoneFits DEF JobRow
  <2>2. Begin(w, where, j)
    BY <1>1 DEF LinkRead
  <2> HIDE DEF j
  <2> QED  BY <2>1, <2>2, BeginShape DEF Places
<1>2. ASSUME NEW d \in Devices, SubscribeRead(w, o, d) PROVE Shape'
  <2> DEFINE j == [NoJob EXCEPT !.id = link[o].id, !.device = d]
  <2>1. link[o].id \in Ids
    <3>1. link[o].id \in 1..tokens
      BY <1>2 DEF SubscribeRead, Shape, Numbered
    <3> QED  BY <3>1, ShapeTypes, Bounds DEF Shape, Ids
  <2>2. link[o].id \in 0..MaxTokens
    BY <2>1, Bounds DEF Ids
  <2>3. j \in JobRow
    BY <2>2, NoneFits DEF JobRow
  <2>4. j.id = link[o].id /\ j.device = d
    BY NoneFits DEF JobRow
  <2>5. Begin(w, "suscribe", j)
    BY <1>2 DEF SubscribeRead
  <2> HIDE DEF j
  <2> QED  BY <2>1, <2>3, <2>4, <2>5, BeginShape DEF Places
<1> QED  BY <1>1, <1>2

LEMMA ShapeLink ==
  ASSUME Shape, NEW w \in Workers, Ensure(w) \/ Regenerate(w)
  PROVE  Shape'
<1> PICK o : o = job[w].order
  OBVIOUS
<1>1. /\ o \in Orders /\ job[w].ready \in BOOLEAN
      /\ link \in [Orders -> LinkRow] /\ subs \subseteq [link : Ids, device : Devices]
      /\ tokens \in 0..MaxTokens /\ tokens \in Nat /\ born \subseteq 1..tokens
      /\ requests \in 0..MaxRequests
  BY ShapeTypes DEF Ensure, Regenerate, Shape, JobsFit, JobFits, JobRow
<1>2. /\ UNCHANGED << status, subs, run, told, requests >>
      /\ pc' = [pc EXCEPT ![w] = "libre"] /\ job' = [job EXCEPT ![w] = NoJob]
  BY DEF Ensure, Regenerate, End
<1>3. \A s \in subs : Live(s.link)
  BY DEF Shape, TypeOK
<1>4. CASE link[o] = NoLink
  <2>1. Create(o, job[w].ready) /\ tokens' = tokens + 1 /\ tokens < MaxTokens
    BY <1>4 DEF Ensure, Regenerate
  <2>2. /\ link' \in [Orders -> LinkRow] /\ tokens' \in 0..MaxTokens /\ tokens <= tokens'
        /\ born' \subseteq 1..tokens' /\ Numbered' /\ Distinct'
        /\ \A id : Live(id) => Live(id)'
    BY <1>1, <1>4, <2>1, CreateRows
  <2>3. status \in [Orders -> {"abierto", "terminado", "entregado"}]
    BY DEF Shape, TypeOK
  <2> QED  BY <1>1, <1>2, <1>3, <2>2, <2>3, RowsShape
<1>5. CASE link[o] # NoLink /\ Ensure(w)
  <2>1. UNCHANGED << link, tokens, born >>
    BY <1>5 DEF Ensure
  <2>2. Numbered' /\ Distinct' /\ \A id : Live(id) => Live(id)'
    BY <2>1 DEF Shape, Numbered, Distinct, Live
  <2>3. \A s \in subs' : Live(s.link)'
    BY <1>2, <1>3, <2>2
  <2>4. status \in [Orders -> {"abierto", "terminado", "entregado"}]
    BY DEF Shape, TypeOK
  <2>5. tokens <= tokens'
    BY <1>1, <2>1
  <2> QED  BY <1>1, <1>2, <2>1, <2>2, <2>3, <2>4, <2>5, RowsShape
<1>6. CASE link[o] # NoLink /\ Regenerate(w)
  <2>1. /\ link' = [link EXCEPT ![o].token = tokens + 1] /\ born' = born
        /\ tokens' = tokens + 1 /\ tokens < MaxTokens
    BY <1>6 DEF Regenerate
  <2>2. born' \subseteq 1..tokens'
    BY <1>1, <2>1
  <2>3. /\ link' \in [Orders -> LinkRow] /\ tokens' \in 0..MaxTokens /\ tokens <= tokens'
        /\ Numbered' /\ Distinct' /\ \A id : Live(id) => Live(id)'
    BY <1>1, <1>6, <2>1, RenewRows
  <2>4. status \in [Orders -> {"abierto", "terminado", "entregado"}]
    BY DEF Shape, TypeOK
  <2>5. \A s \in subs' : Live(s.link)'
    BY <1>2, <1>3, <2>3
  <2> QED  BY <1>1, <1>2, <2>2, <2>3, <2>4, <2>5, RowsShape
<1> QED  BY <1>4, <1>5, <1>6

LEMMA ShapeSubs ==
  ASSUME Shape, NEW w \in Workers, RegenerateSubs(w) \/ Subscribe(w)
  PROVE  Shape'
<1>1. /\ link \in [Orders -> LinkRow] /\ subs \subseteq [link : Ids, device : Devices]
      /\ tokens \in 0..MaxTokens /\ tokens \in Nat /\ born \subseteq 1..tokens
      /\ requests \in 0..MaxRequests /\ \A s \in subs : Live(s.link)
      /\ status \in [Orders -> {"abierto", "terminado", "entregado"}]
  BY ShapeTypes DEF Shape, TypeOK
<1>2. UNCHANGED << status, link, tokens, born, run, told, requests >>
  BY DEF RegenerateSubs, Subscribe, End
<1>3. Numbered' /\ Distinct' /\ \A id : Live(id) => Live(id)'
  BY <1>2 DEF Shape, Numbered, Distinct, Live
<1>4. subs' \subseteq [link : Ids, device : Devices] /\ \A s \in subs' : Live(s.link)'
  <2>1. CASE RegenerateSubs(w)
    BY <1>1, <1>3, <2>1 DEF RegenerateSubs
  <2>2. CASE Subscribe(w)
    <3> DEFINE new == [link |-> job[w].id, device |-> job[w].device]
    <3>1. new \in [link : Ids, device : Devices] /\ new.link = job[w].id
      BY <2>2 DEF Subscribe, Shape, JobsFit, JobFits
    <3>2. subs' = subs \/ (Live(new.link) /\ subs' = subs \cup {new})
      BY <2>2, <3>1 DEF Subscribe
    <3> HIDE DEF new
    <3> QED  BY <1>1, <1>3, <3>1, <3>2
  <2> QED  BY <2>1, <2>2
<1>5. \/ pc[w] = "regenera" /\ job' = job /\ pc' = [pc EXCEPT ![w] = "renueva"]
      \/ pc' = [pc EXCEPT ![w] = "libre"] /\ job' = [job EXCEPT ![w] = NoJob]
  BY DEF RegenerateSubs, Subscribe, End
<1>6. tokens <= tokens' /\ born' \subseteq 1..tokens'
  BY <1>1, <1>2
<1> QED  BY <1>1, <1>2, <1>3, <1>4, <1>5, <1>6, RowsShape

(* What is one write: a link revoked, a device that leaves, a status.       *)
LEMMA ShapeDirect ==
  ASSUME Shape,
         \/ \E o \in Orders : Revoke(o)
         \/ \E s \in subs : Unsubscribe(s)
         \/ \E o \in Orders, s \in {"abierto", "terminado", "entregado"} : SetStatus(o, s)
  PROVE  Shape'
<1>1. /\ link \in [Orders -> LinkRow] /\ subs \subseteq [link : Ids, device : Devices]
      /\ tokens \in 0..MaxTokens /\ tokens \in Nat /\ born \subseteq 1..tokens
      /\ \A s \in subs : Live(s.link)
      /\ status \in [Orders -> {"abierto", "terminado", "entregado"}]
  BY ShapeTypes DEF Shape, TypeOK
<1>2. /\ UNCHANGED << tokens, born, pc, job, run, told >> /\ requests' \in 0..MaxRequests
  BY CountType DEF Revoke, Unsubscribe, SetStatus, Shape
<1>3. ASSUME NEW o \in Orders, Revoke(o) PROVE Shape'
  <2>1. /\ link' = [link EXCEPT ![o] = NoLink] /\ subs' = subs \ Of(link[o].id)
        /\ status' = status /\ link[o] # NoLink
    BY <1>3 DEF Revoke
  <2>2. link' \in [Orders -> LinkRow] /\ NoLink.id = 0
    BY <1>1, <2>1, NoneFits DEF NoLink
  <2>3. link'[o] = NoLink /\ \A p \in Orders \ {o} : link'[p] = link[p]
    BY <1>1, <2>1
  <2>4. Numbered' /\ Distinct'
    BY <1>2, <2>2, <2>3 DEF Shape, Numbered, Distinct
  <2>5. ASSUME NEW s \in subs' PROVE Live(s.link)'
    <3>1. s \in subs /\ s.link # link[o].id
      BY <2>1 DEF Of
    <3>2. PICK p \in Orders : link[p].id = s.link /\ s.link # 0
      BY <1>1, <3>1 DEF Live
    <3>3. link'[p].id = s.link
      BY <2>3, <3>1, <3>2
    <3> QED  BY <3>2, <3>3 DEF Live
  <2>6. subs' \subseteq [link : Ids, device : Devices] /\ tokens <= tokens'
    BY <1>1, <1>2, <2>1
  <2> QED  BY <1>1, <1>2, <2>1, <2>2, <2>4, <2>5, <2>6, RowsShape
<1>4. ASSUME link' = link, subs' \subseteq subs,
             status' \in [Orders -> {"abierto", "terminado", "entregado"}]
      PROVE  Shape'
  <2>1. Numbered' /\ Distinct' /\ \A id : Live(id) => Live(id)'
    BY <1>2, <1>4 DEF Shape, Numbered, Distinct, Live
  <2>2. tokens <= tokens' /\ \A s \in subs' : Live(s.link)'
    BY <1>1, <1>2, <1>4, <2>1
  <2> QED  BY <1>1, <1>2, <1>4, <2>1, <2>2, RowsShape
<1>5. ASSUME NEW s \in subs, Unsubscribe(s) PROVE Shape'
  BY <1>1, <1>4, <1>5 DEF Unsubscribe
<1>6. ASSUME NEW o \in Orders, NEW s \in {"abierto", "terminado", "entregado"}, SetStatus(o, s)
      PROVE  Shape'
  BY <1>1, <1>4, <1>6 DEF SetStatus
<1> QED  BY <1>3, <1>5, <1>6

(* A run goes on: its row is another, and it may mark a link.               *)
LEMMA RunShape ==
  ASSUME Shape, NEW r \in Runs, NEW row \in RunRow, run' = [run EXCEPT ![r] = row],
         row.batch \subseteq 1..tokens, row.at \in {"lee", "envia"} => row.id \in 1..tokens,
         row.at = "lee" => row.order \in Orders,
         UNCHANGED << status, tokens, born, pc, job >>, requests' \in 0..MaxRequests,
         link' \in [Orders -> LinkRow],
         \A o \in Orders : /\ link'[o].id = link[o].id
                           /\ link[o] = NoLink => link'[o] = NoLink,
         subs' \subseteq subs, told' \in [Ids \X People -> Nat]
  PROVE  Shape'
<1>1. /\ subs \subseteq [link : Ids, device : Devices] /\ tokens \in 0..MaxTokens
      /\ born \subseteq 1..tokens /\ pc \in [Workers -> Places] /\ job \in [Workers -> JobRow]
      /\ run \in [Runs -> RunRow] /\ \A s \in subs : Live(s.link)
      /\ status \in [Orders -> {"abierto", "terminado", "entregado"}]
  BY ShapeTypes DEF Shape, TypeOK
<1>2. Numbered' /\ Distinct' /\ \A id : Live(id) => Live(id)'
  BY DEF Shape, Numbered, Distinct, Live
<1>3. /\ run' \in [Runs -> RunRow] /\ run'[r] = row
      /\ \A q \in Runs \ {r} : run'[q] = run[q]
  BY <1>1
<1>4. TypeOK'
  <2>1. \A s \in subs' : Live(s.link)'
    BY <1>1, <1>2
  <2> QED  BY <1>1, <1>3, <2>1, TypesMake
<1>5. RunsFit'
  BY <1>3 DEF Shape, RunsFit, RunFits, Busy
<1>6. JobsFit'
  BY DEF Shape, JobsFit, JobFits
<1> QED  BY <1>2, <1>4, <1>5, <1>6 DEF Shape

-----------------------------------------------------------------------------
(* What each step of a run makes of its row.                                *)
RowOf(r, row) == row \in RunRow /\ run' = [run EXCEPT ![r] = row]
Idle(row)     == row.at \notin {"lee", "envia"}

LEMMA FollowingRow ==
  ASSUME Shape, NEW r \in Runs, NEW id, Following(r, id)
  PROVE  \E row : RowOf(r, row) /\ Idle(row) /\ row.batch \subseteq 1..tokens
<1>1. run[r] \in RunRow /\ run[r].batch \subseteq 1..tokens
  BY ShapeTypes DEF Shape, RunsFit, RunFits
<1>2. CASE run[r].batch \ {id} = {}
  <2>1. RowOf(r, NoRun)
    BY <1>2, NoneFits DEF Following, RowOf
  <2> QED  BY <2>1 DEF NoRun, Idle
<1>3. CASE run[r].batch \ {id} # {}
  <2> DEFINE row == [NoRun EXCEPT !.batch = run[r].batch \ {id}, !.at = "reclama"]
  <2>1. row \in RunRow /\ row.batch = run[r].batch \ {id} /\ row.at = "reclama"
    BY <1>1, NoneFits DEF RunRow
  <2>2. run' = [run EXCEPT ![r] = row]
    BY <1>3 DEF Following
  <2> HIDE DEF row
  <2> QED  BY <1>1, <2>1, <2>2 DEF RowOf, Idle
<1> QED  BY <1>2, <1>3

LEMMA CronReadRow ==
  ASSUME Shape, NEW r \in Runs, CronRead(r)
  PROVE  \E row : RowOf(r, row) /\ Idle(row) /\ row.batch \subseteq 1..tokens
<1>1. run[r] \in RunRow /\ run \in [Runs -> RunRow]
  BY ShapeTypes DEF Shape
<1>2. PICK few \in SUBSET Due :
        run' = [run EXCEPT ![r].batch = {link[o].id : o \in few}, ![r].at = "reclama"]
  BY DEF CronRead, kSubset
<1> DEFINE batch == {link[o].id : o \in few}
           row   == [run[r] EXCEPT !.batch = batch, !.at = "reclama"]
<1>3. batch \subseteq 1..tokens
  BY DEF Due, Shape, Numbered
<1> HIDE DEF batch
<1>4. batch \subseteq Ids
  BY <1>3, ShapeTypes, Bounds DEF Shape, Ids
<1>5. row \in RunRow /\ row.batch = batch /\ row.at = "reclama"
  BY <1>1, <1>4 DEF RunRow
<1>6. run' = [run EXCEPT ![r] = row]
  BY <1>1, <1>2 DEF batch
<1> HIDE DEF row
<1> QED  BY <1>3, <1>5, <1>6 DEF RowOf, Idle

LEMMA ClaimRow ==
  ASSUME Shape, NEW r \in Runs, Claim(r)
  PROVE  \/ link' = link /\ \E row : RowOf(r, row) /\ Idle(row) /\ row.batch \subseteq 1..tokens
         \/ \E o \in Orders : \E row :
              /\ RowOf(r, row) /\ row.at = "lee" /\ row.id = link[o].id
              /\ row.id \in 1..tokens /\ row.batch \subseteq 1..tokens /\ row.order \in Orders
              /\ ~link[o].notified /\ link' \in [Orders -> LinkRow]
              /\ link'[o].id = link[o].id /\ link'[o].notified
              /\ \A p \in Orders \ {o} : link'[p] = link[p]
<1>1. /\ run[r] \in RunRow /\ run[r].batch \subseteq 1..tokens /\ run \in [Runs -> RunRow]
      /\ link \in [Orders -> LinkRow] /\ 1..tokens \subseteq 0..MaxTokens
  BY ShapeTypes, Bounds DEF Shape, RunsFit, RunFits
<1>2. PICK id \in run[r].batch :
        IF \E o \in Orders : Claimable(o, id)
        THEN \E o \in {o \in Orders : Claimable(o, id)} :
               /\ link' = [link EXCEPT ![o].notified = TRUE]
               /\ run' = [run EXCEPT ![r].at = "lee", ![r].id = id, ![r].order = o]
        ELSE Following(r, id) /\ UNCHANGED link
  BY DEF Claim
<1>3. CASE ~\E o \in Orders : Claimable(o, id)
  BY <1>2, <1>3, FollowingRow
<1>4. CASE \E o \in Orders : Claimable(o, id)
  <2>1. PICK o \in Orders :
          /\ Claimable(o, id) /\ link' = [link EXCEPT ![o].notified = TRUE]
          /\ run' = [run EXCEPT ![r].at = "lee", ![r].id = id, ![r].order = o]
    BY <1>2, <1>4
  <2> DEFINE row == [run[r] EXCEPT !.at = "lee", !.id = id, !.order = o]
             new == [link[o] EXCEPT !.notified = TRUE]
  <2>2. row \in RunRow /\ row.at = "lee" /\ row.id = id /\ row.batch = run[r].batch
        /\ row.order = o
    BY <1>1 DEF RunRow
  <2>3. new \in LinkRow /\ new.id = link[o].id /\ new.notified
    BY <1>1 DEF LinkRow
  <2>4. run' = [run EXCEPT ![r] = row] /\ link' = [link EXCEPT ![o] = new]
    BY <1>1, <2>1
  <2>5. link[o].id = id /\ ~link[o].notified
    BY <2>1 DEF Claimable
  <2> HIDE DEF row, new
  <2>6. /\ link' \in [Orders -> LinkRow] /\ link'[o] = new
        /\ \A p \in Orders \ {o} : link'[p] = link[p]
    BY <1>1, <2>3, <2>4
  <2>7. RowOf(r, row) /\ row.id \in 1..tokens /\ row.batch \subseteq 1..tokens
    BY <1>1, <2>2, <2>4 DEF RowOf
  <2> QED  BY <2>2, <2>3, <2>5, <2>6, <2>7
<1> QED  BY <1>3, <1>4

LEMMA ReadLinkRow ==
  ASSUME Shape, NEW r \in Runs, ReadLink(r)
  PROVE  \E row : /\ RowOf(r, row) /\ row.batch \subseteq 1..tokens
                  /\ Idle(row) \/ (row.at = "envia" /\ row.id = run[r].id /\ row.to \subseteq Devices)
<1>1. /\ run[r] \in RunRow /\ run[r].batch \subseteq 1..tokens /\ run \in [Runs -> RunRow]
      /\ link \in [Orders -> LinkRow] /\ subs \subseteq [link : Ids, device : Devices]
  BY ShapeTypes DEF Shape, RunsFit, RunFits
<1>2. CASE ~Live(run[r].id)
  BY <1>2, FollowingRow DEF ReadLink
<1>3. CASE Live(run[r].id)
  <2> DEFINE token == link[run[r].order].token
             to    == {s.device : s \in Of(run[r].id)}
             row   == [run[r] EXCEPT !.at = "envia", !.token = token, !.to = to]
  <2>1. to \subseteq Devices
    BY <1>1 DEF Of
  <2>2. run[r].order \in Orders
    BY DEF ReadLink, Shape, RunsFit, RunFits
  <2>3. token \in 0..MaxTokens
    BY <1>1, <2>2 DEF LinkRow
  <2>4. run' = [run EXCEPT ![r] = row]
    BY <1>1, <1>3 DEF ReadLink
  <2> HIDE DEF token, to
  <2>5. /\ row \in RunRow /\ row.at = "envia" /\ row.id = run[r].id /\ row.to = to
        /\ row.batch = run[r].batch
    BY <1>1, <2>1, <2>3 DEF RunRow
  <2> HIDE DEF row
  <2> QED  BY <1>1, <2>1, <2>4, <2>5 DEF RowOf
<1> QED  BY <1>2, <1>3

(* A notice that is sent, or fails, and what is left of the run.            *)
TellsOne(r, row) ==
  /\ run[r].at = "envia"
  /\ \E who \in run[r].to \cup {Email} :
       /\ told' = told \/ told' = [told EXCEPT ![<< run[r].id, who >>] = @ + 1]
       /\ \/ Idle(row)
          \/ /\ row.at = "envia" /\ row.id = run[r].id /\ row.to = run[r].to \ {who}
             /\ who # Email

LEMMA SendRow ==
  ASSUME Shape, NEW r \in Runs, Push(r) \/ SendEmail(r)
  PROVE  \E row : RowOf(r, row) /\ row.batch \subseteq 1..tokens /\ TellsOne(r, row)
<1>1. /\ run[r] \in RunRow /\ run[r].batch \subseteq 1..tokens /\ run \in [Runs -> RunRow]
  BY ShapeTypes DEF Shape, RunsFit, RunFits
<1>2. CASE SendEmail(r)
  <2>1. PICK row : RowOf(r, row) /\ Idle(row) /\ row.batch \subseteq 1..tokens
    BY <1>2, FollowingRow DEF SendEmail
  <2>2. TellsOne(r, row)
    BY <1>2, <2>1 DEF SendEmail, Tell, TellsOne
  <2> QED  BY <2>1, <2>2
<1>3. CASE Push(r)
  <2>1. PICK d \in run[r].to :
          /\ run' = [run EXCEPT ![r].to = @ \ {d}]
          /\ told' = told \/ told' = [told EXCEPT ![<< run[r].id, d >>] = @ + 1]
    BY <1>3 DEF Push, Tell
  <2> DEFINE row == [run[r] EXCEPT !.to = run[r].to \ {d}]
  <2>2. /\ row \in RunRow /\ row.at = run[r].at /\ row.id = run[r].id
        /\ row.to = run[r].to \ {d} /\ row.batch = run[r].batch
    BY <1>1 DEF RunRow
  <2>3. run' = [run EXCEPT ![r] = row]
    BY <1>1, <2>1
  <2>4. d # Email /\ run[r].at = "envia"
    BY <1>1, <1>3, EmailAssumption DEF RunRow, Push
  <2> HIDE DEF row
  <2>5. RowOf(r, row) /\ TellsOne(r, row)
    BY <2>1, <2>2, <2>3, <2>4 DEF RowOf, TellsOne
  <2> QED  BY <1>1, <2>2, <2>5
<1> QED  BY <1>2, <1>3

LEMMA TellsType ==
  ASSUME Shape, NEW r \in Runs, NEW row, TellsOne(r, row)
  PROVE  told' \in [Ids \X People -> Nat]
<1>1. told \in [Ids \X People -> Nat]
  BY ShapeTypes DEF Shape
<1>2. PICK n : told' = told \/ told' = [told EXCEPT ![n] = @ + 1]
  BY DEF TellsOne
<1>3. \A m \in Ids \X People : told[m] + 1 \in Nat
  BY <1>1
<1> QED  BY <1>1, <1>2, <1>3

LEMMA ShapeRun ==
  ASSUME Shape, NEW r \in Runs, Cron(r) \/ CronCrash(r)
  PROVE  Shape'
<1>1. /\ link \in [Orders -> LinkRow] /\ told \in [Ids \X People -> Nat]
      /\ requests \in 0..MaxRequests
  BY ShapeTypes DEF Shape
<1>2. CASE CronCrash(r)
  <2>1. RowOf(r, NoRun)
    BY <1>2, NoneFits DEF CronCrash, RowOf
  <2>2. requests' \in 0..MaxRequests
    BY <1>2, CountType DEF CronCrash, Shape
  <2>3. NoRun.batch = {} /\ NoRun.at = "espera"
    BY DEF NoRun
  <2> QED  BY <1>1, <1>2, <2>1, <2>2, <2>3, RunShape DEF CronCrash, rows, RowOf
<1>3. CASE CronRead(r)
  <2>1. PICK row : RowOf(r, row) /\ Idle(row) /\ row.batch \subseteq 1..tokens
    BY <1>3, CronReadRow
  <2> QED  BY <1>1, <1>3, <2>1, RunShape DEF CronRead, rows, RowOf, Idle
<1>4. CASE Claim(r)
  <2>1. UNCHANGED << status, subs, tokens, born, pc, job, told, requests >>
    BY <1>4 DEF Claim
  <2>2. ASSUME link' = link,
               NEW row, RowOf(r, row), Idle(row), row.batch \subseteq 1..tokens
        PROVE  Shape'
    BY <1>1, <2>1, <2>2, RunShape DEF RowOf, Idle
  <2>3. ASSUME NEW o \in Orders, NEW row, RowOf(r, row), row.id = link[o].id,
               row.id \in 1..tokens, row.batch \subseteq 1..tokens, row.order \in Orders,
               link' \in [Orders -> LinkRow], link'[o].id = link[o].id,
               \A p \in Orders \ {o} : link'[p] = link[p]
        PROVE  Shape'
    <3>1. link[o] # NoLink
      BY <2>3 DEF NoLink
    <3>2. \A p \in Orders : /\ link'[p].id = link[p].id
                            /\ link[p] = NoLink => link'[p] = NoLink
      BY <2>3, <3>1
    <3> QED  BY <1>1, <2>1, <2>3, <3>2, RunShape DEF RowOf
  <2> QED  BY <1>4, <2>2, <2>3, ClaimRow
<1>5. CASE ReadLink(r)
  <2>1. PICK row : /\ RowOf(r, row) /\ row.batch \subseteq 1..tokens
                   /\ Idle(row) \/ (row.at = "envia" /\ row.id = run[r].id)
    BY <1>5, ReadLinkRow
  <2>2. run[r].id \in 1..tokens
    BY <1>5 DEF ReadLink, Shape, RunsFit, RunFits, Busy
  <2> QED  BY <1>1, <1>5, <2>1, <2>2, RunShape DEF ReadLink, rows, RowOf, Idle
<1>6. CASE Push(r) \/ SendEmail(r)
  <2>1. PICK row : RowOf(r, row) /\ row.batch \subseteq 1..tokens /\ TellsOne(r, row)
    BY <1>6, SendRow
  <2>2. /\ run[r].id \in 1..tokens
        /\ Idle(row) \/ (row.at = "envia" /\ row.id = run[r].id)
    BY <1>6, <2>1 DEF Push, SendEmail, Shape, RunsFit, RunFits, Busy, TellsOne
  <2>3. told' \in [Ids \X People -> Nat]
    BY <2>1, TellsType
  <2>4. /\ UNCHANGED << status, link, tokens, born, pc, job, requests >> /\ subs' \subseteq subs
    BY <1>6 DEF Push, SendEmail, rows
  <2> QED  BY <1>1, <2>1, <2>2, <2>3, <2>4, RunShape DEF RowOf, Idle
<1> QED  BY <1>2, <1>3, <1>4, <1>5, <1>6 DEF Cron

LEMMA ShapeStep == Shape /\ [Next]_vars => Shape'
<1> SUFFICES ASSUME Shape, [Next]_vars PROVE Shape'
  OBVIOUS
<1>1. CASE UNCHANGED vars
  BY <1>1 DEF vars, rows, Shape, TypeOK, Live, Numbered, Distinct, JobsFit, JobFits,
              RunsFit, RunFits, Busy
<1> QED  BY <1>1, ShapeBegin, ShapeLink, ShapeSubs, ShapeDirect, ShapeRun DEF Next

(* Every reachable state is well typed, and no subscription outlives the    *)
(* row of its link.                                                         *)
THEOREM TypeCorrect == Spec => []TypeOK
<1>1. Shape => TypeOK
  BY DEF Shape
<1> QED  BY <1>1, ShapeInit, ShapeStep, PTL DEF Spec

-----------------------------------------------------------------------------
(* The notices: steps that leave the runs alone.  Links may go, get a new   *)
(* token, or be made with the next number.                                  *)
LEMMA LinksQuiet ==
  ASSUME Shape, Quiet, UNCHANGED << run, told >>, tokens' \in Nat, tokens <= tokens',
         \A o \in Orders : \/ link'[o].id = link[o].id /\ link'[o].notified = link[o].notified
                           \/ link'[o].id = 0
                           \/ link'[o].id \in Ids /\ link'[o].id > tokens,
         \A id \in born' \ born :
           /\ id \in Ids /\ id > tokens
           /\ \A o \in Orders : link'[o].id = id => link'[o].notified
  PROVE  Quiet'
<1>1. tokens \in Nat /\ born \subseteq 1..tokens
  BY ShapeTypes DEF Shape
<1>2. \A id : Fresh(id) => Fresh(id)'
  BY DEF Fresh, Unheard, Busy
<1>3. \A id \in Ids : id > tokens => Fresh(id)
  BY DEF Quiet, FreshToCome
<1>4. FreshToCome'
  <2>1. ASSUME NEW id \in Ids, id > tokens' PROVE Fresh(id)'
    BY <1>1, <1>2, <1>3, <2>1, Bounds DEF Ids
  <2> QED  BY <2>1 DEF FreshToCome
<1>5. FreshUnclaimed'
  BY <1>2, <1>3 DEF Quiet, FreshUnclaimed
<1>6. BornSilent'
  <2>1. ASSUME NEW id \in born' PROVE Fresh(id)' /\ \A o \in Orders : link'[o].id = id => link'[o].notified
    <3>1. CASE id \in born
      <4>1. id \in 1..tokens
        BY <1>1, <3>1
      <4>2. Fresh(id) /\ \A o \in Orders : link[o].id = id => link[o].notified
        BY <3>1 DEF Quiet, BornSilent
      <4> QED  BY <1>1, <1>2, <4>1, <4>2
    <3>2. CASE id \notin born
      BY <1>2, <1>3, <3>2
    <3> QED  BY <3>1, <3>2
  <2> QED  BY <2>1 DEF BornSilent
<1>7. OneRunPerLink' /\ ToldSoFar' /\ OnceAtMost'
  BY DEF Quiet, OneRunPerLink, ToldSoFar, OnceAtMost, Busy, Unheard
<1> QED  BY <1>4, <1>5, <1>6, <1>7 DEF Quiet

(* A run that is done with a link, or has not begun with one.               *)
LEMMA IdleQuiet ==
  ASSUME Shape, Quiet, NEW r \in Runs, NEW row, RowOf(r, row), Idle(row),
         UNCHANGED << link, tokens, born, told >>
  PROVE  Quiet'
<1>1. \A q \in Runs : run'[q] = run[q] \/ (q = r /\ run'[q].at \notin {"lee", "envia"})
  BY ShapeTypes DEF Shape, RowOf, Idle
<1>2. \A id : Fresh(id) => Fresh(id)'
  BY <1>1 DEF Fresh, Unheard, Busy
<1> QED
  BY <1>1, <1>2
  DEF Quiet, FreshToCome, FreshUnclaimed, BornSilent, OneRunPerLink, ToldSoFar, OnceAtMost,
      Busy, Unheard

(* The claim: of a link nobody has heard of, with which no run is busy.     *)
LEMMA ClaimQuiet ==
  ASSUME Shape, Quiet, NEW r \in Runs, Claim(r)
  PROVE  Quiet'
<1>1. UNCHANGED << tokens, born, told >> /\ tokens \in Nat /\ run \in [Runs -> RunRow]
      /\ born \subseteq 1..tokens
  BY ShapeTypes DEF Claim, Shape
<1>2. ASSUME link' = link, NEW row, RowOf(r, row), Idle(row) PROVE Quiet'
  BY <1>1, <1>2, IdleQuiet
<1>3. ASSUME NEW o \in Orders, NEW row, RowOf(r, row), row.at = "lee", row.id = link[o].id,
             row.id \in 1..tokens, ~link[o].notified,
             link'[o].id = link[o].id, link'[o].notified,
             \A p \in Orders \ {o} : link'[p] = link[p]
      PROVE  Quiet'
  <2> PICK i : i = link[o].id
    OBVIOUS
  <2>1. run'[r] = row /\ \A q \in Runs \ {r} : run'[q] = run[q]
    BY <1>1, <1>3 DEF RowOf
  <2>2. i # 0 /\ i \in 1..tokens
    BY <1>1, <1>3
  <2>3. Fresh(i)
    BY <1>3, <2>2 DEF Quiet, FreshUnclaimed
  <2>4. \A id : id # i /\ Fresh(id) => Fresh(id)'
    BY <1>1, <1>3, <2>1 DEF Fresh, Unheard, Busy
  <2>5. FreshToCome'
    <3>1. ASSUME NEW id \in Ids, id > tokens PROVE Fresh(id)'
      <4>1. id # i
        BY <1>1, <2>2, <3>1
      <4> QED  BY <2>4, <3>1, <4>1 DEF Quiet, FreshToCome
    <3> QED  BY <1>1, <3>1 DEF FreshToCome
  <2>6. FreshUnclaimed'
    <3>1. ASSUME NEW p \in Orders, NEW id, id = link'[p].id, id # 0, ~link'[p].notified
          PROVE  Fresh(id)'
      <4>1. p # o /\ link'[p] = link[p]
        BY <1>3, <3>1
      <4>2. id # i
        BY <2>2, <3>1, <4>1 DEF Shape, Distinct
      <4> QED  BY <2>4, <3>1, <4>1, <4>2 DEF Quiet, FreshUnclaimed
    <3> QED  BY <3>1 DEF FreshUnclaimed
  <2>7. BornSilent'
    <3>1. ASSUME NEW id \in born
          PROVE  Fresh(id)' /\ \A p \in Orders : link'[p].id = id => link'[p].notified
      <4>1. Fresh(id) /\ \A p \in Orders : link[p].id = id => link[p].notified
        BY DEF Quiet, BornSilent
      <4>2. id # i
        BY <1>3, <4>1
      <4> QED  BY <1>3, <2>4, <4>1, <4>2
    <3> QED  BY <1>1, <3>1 DEF BornSilent
  <2>8. OneRunPerLink'
    BY <1>3, <2>1, <2>3 DEF Quiet, OneRunPerLink, Fresh, Busy
  <2>9. ToldSoFar'
    BY <1>1, <1>3, <2>1, <2>3 DEF Quiet, ToldSoFar, Fresh, Unheard
  <2>10. OnceAtMost'
    BY <1>1 DEF Quiet, OnceAtMost
  <2> QED  BY <2>5, <2>6, <2>7, <2>8, <2>9, <2>10 DEF Quiet
<1> QED  BY <1>2, <1>3, ClaimRow

(* Reading who is to hear: of those, nobody has.                            *)
LEMMA ReadLinkQuiet ==
  ASSUME Shape, Quiet, NEW r \in Runs, ReadLink(r)
  PROVE  Quiet'
<1>1. UNCHANGED << link, tokens, born, told >> /\ run[r].at = "lee" /\ run \in [Runs -> RunRow]
  BY ShapeTypes DEF ReadLink, rows, Shape
<1>2. PICK row : /\ RowOf(r, row)
                 /\ \/ Idle(row)
                    \/ row.at = "envia" /\ row.id = run[r].id /\ row.to \subseteq Devices
  BY ReadLinkRow
<1>3. CASE Idle(row)
  BY <1>1, <1>2, <1>3, IdleQuiet
<1>4. CASE row.at = "envia" /\ row.id = run[r].id /\ row.to \subseteq Devices
  <2>1. run'[r] = row /\ \A q \in Runs \ {r} : run'[q] = run[q]
    BY <1>1, <1>2 DEF RowOf
  <2>2. \A q \in Runs : Busy(q)' = Busy(q) /\ (Busy(q) => run'[q].id = run[q].id)
    BY <1>1, <1>4, <2>1 DEF Busy
  <2>3. \A id : Fresh(id) => Fresh(id)'
    BY <1>1, <2>2 DEF Fresh, Unheard
  <2>4. FreshToCome' /\ FreshUnclaimed' /\ BornSilent' /\ OneRunPerLink' /\ OnceAtMost'
    BY <1>1, <2>2, <2>3
    DEF Quiet, FreshToCome, FreshUnclaimed, BornSilent, OneRunPerLink, OnceAtMost
  <2>5. Unheard(run[r].id)
    BY <1>1 DEF Quiet, ToldSoFar
  <2>6. ToldSoFar'
    BY <1>1, <1>4, <2>1, <2>5 DEF Quiet, ToldSoFar, Unheard, People
  <2> QED  BY <2>4, <2>6 DEF Quiet
<1> QED  BY <1>2, <1>3, <1>4

(* One more has heard, and had not before.                                  *)
LEMMA SendQuiet ==
  ASSUME Shape, Quiet, NEW r \in Runs, Push(r) \/ SendEmail(r)
  PROVE  Quiet'
<1>1. /\ UNCHANGED << link, tokens, born >> /\ run \in [Runs -> RunRow]
      /\ told \in [Ids \X People -> Nat] /\ tokens \in Nat
  BY ShapeTypes DEF Push, SendEmail, rows, Shape
<1>2. PICK row : RowOf(r, row) /\ TellsOne(r, row)
  BY SendRow
<1>3. PICK who \in run[r].to \cup {Email} :
        /\ told' = told \/ told' = [told EXCEPT ![<< run[r].id, who >>] = @ + 1]
        /\ \/ Idle(row)
           \/ row.at = "envia" /\ row.id = run[r].id /\ row.to = run[r].to \ {who} /\ who # Email
  BY <1>2 DEF TellsOne
<1> PICK i : i = run[r].id
  OBVIOUS
<1>4. run[r].at = "envia" /\ told[<< i, who >>] = 0
  BY <1>2, <1>3 DEF TellsOne, Quiet, ToldSoFar
<1>5. run'[r] = row /\ \A q \in Runs \ {r} : run'[q] = run[q]
  BY <1>1, <1>2 DEF RowOf
<1>6. \A n \in Ids \X People : /\ n # << i, who >> => told'[n] = told[n]
                               /\ n = << i, who >> => told'[n] <= 1
  BY <1>1, <1>3, <1>4
<1>7. \A id \in Ids : id # i => \A p \in People : told'[<< id, p >>] = told[<< id, p >>]
  BY <1>6
<1>8. \A q \in Runs : Busy(q)' => Busy(q) /\ run'[q].id = run[q].id
  BY <1>3, <1>4, <1>5 DEF Busy, Idle
<1>9. ASSUME NEW id \in Ids, Fresh(id) PROVE Fresh(id)'
  <2>1. id # i
    BY <1>4, <1>9 DEF Fresh, Busy
  <2> QED  BY <1>7, <1>8, <1>9, <2>1 DEF Fresh, Unheard
<1>10. born \subseteq Ids /\ \A o \in Orders : link[o].id # 0 => link[o].id \in Ids
  BY ShapeTypes, Bounds DEF Shape, LinkRow, Ids
<1>11. FreshToCome' /\ FreshUnclaimed' /\ BornSilent' /\ OneRunPerLink'
  BY <1>1, <1>8, <1>9, <1>10
  DEF Quiet, FreshToCome, FreshUnclaimed, BornSilent, OneRunPerLink
<1>12. \A q \in Runs : Busy(q) => run[q].id \in Ids
  BY ShapeTypes, Bounds DEF Shape, RunsFit, RunFits, Ids
<1>13. ToldSoFar'
  <2>1. ASSUME NEW q \in Runs, q # r
        PROVE  /\ run'[q].at = "lee" => \A p \in People : told'[<< run'[q].id, p >>] = 0
               /\ run'[q].at = "envia" => \A p \in run'[q].to \cup {Email} :
                                            told'[<< run'[q].id, p >>] = 0
    <3>1. run'[q] = run[q]
      BY <1>5, <2>1
    <3>2. Busy(q) => run[q].id # i /\ run[q].id \in Ids
      BY <1>4, <1>12, <2>1 DEF Quiet, OneRunPerLink, Busy
    <3>3. run[q].to \cup {Email} \subseteq People
      BY <1>1 DEF RunRow, People
    <3> QED  BY <1>7, <3>1, <3>2, <3>3 DEF Quiet, ToldSoFar, Unheard, Busy
  <2>2. /\ run'[r].at = "lee" => \A p \in People : told'[<< run'[r].id, p >>] = 0
        /\ run'[r].at = "envia" => \A p \in run'[r].to \cup {Email} :
                                     told'[<< run'[r].id, p >>] = 0
    <3>1. CASE Idle(row)
      BY <1>5, <3>1 DEF Idle
    <3>2. CASE row.at = "envia" /\ row.id = i /\ row.to = run[r].to \ {who} /\ who # Email
      <4>1. i \in Ids /\ run[r].to \cup {Email} \subseteq People
        BY <1>1, <1>4, <1>12 DEF Busy, RunRow, People
      <4>2. ASSUME NEW p \in row.to \cup {Email} PROVE told'[<< i, p >>] = 0
        <5>1. p \in run[r].to \cup {Email} /\ p # who
          BY <3>2
        <5>2. told[<< i, p >>] = 0
          BY <1>4, <5>1 DEF Quiet, ToldSoFar
        <5> QED  BY <1>6, <4>1, <5>1, <5>2
      <4> QED  BY <1>5, <3>2, <4>2
    <3> QED  BY <1>3, <3>1, <3>2
  <2> QED  BY <2>1, <2>2 DEF ToldSoFar, Unheard
<1>14. OnceAtMost'
  <2>1. DOMAIN told = Ids \X People /\ DOMAIN told' = Ids \X People
    BY <1>1, <1>3
  <2> QED  BY <1>6, <2>1 DEF Quiet, OnceAtMost
<1> QED  BY <1>11, <1>13, <1>14 DEF Quiet

-----------------------------------------------------------------------------
LEMMA QuietStep == Shape /\ Quiet /\ [Next]_vars => Quiet'
<1> SUFFICES ASSUME Shape, Quiet, [Next]_vars PROVE Quiet'
  OBVIOUS
<1>1. tokens \in Nat /\ tokens \in 0..MaxTokens
  BY ShapeTypes DEF Shape
<1>2. ASSUME UNCHANGED << link, tokens, born, run, told >> PROVE Quiet'
  BY <1>1, <1>2, LinksQuiet
<1>3. ASSUME NEW w \in Workers, Ensure(w) \/ Regenerate(w) PROVE Quiet'
  <2> PICK o : o = job[w].order
    OBVIOUS
  <2>1. /\ o \in Orders /\ job[w].ready \in BOOLEAN /\ UNCHANGED << run, told >>
    BY <1>3, ShapeTypes DEF Ensure, Regenerate, End, Shape, JobsFit, JobFits, JobRow
  <2>2. CASE link[o] = NoLink
    <3>1. Create(o, job[w].ready) /\ tokens' = tokens + 1 /\ tokens < MaxTokens
      BY <1>3, <2>2 DEF Ensure, Regenerate
    <3>2. tokens + 1 \in Ids /\ tokens + 1 > tokens
      BY <1>1, <3>1, Bounds DEF Ids
    <3>3. /\ \A p \in Orders : link'[p] = link[p] \/ link'[p].id = tokens + 1
          /\ link'[o].notified = job[w].ready /\ tokens' \in Nat /\ tokens <= tokens'
      BY <1>1, <2>1, <2>2, <3>1, CreateRows
    <3>4. \A id \in born' \ born : id = tokens + 1 /\ job[w].ready
      BY <3>1 DEF Create
    <3>5. \A p \in Orders : link'[p].id = tokens + 1 => p = o
      <4>1. \A p \in Orders \ {o} : link'[p] = link[p]
        BY <3>1, ShapeTypes DEF Create, Shape
      <4>2. \A p \in Orders : link[p].id # tokens + 1
        BY <1>1 DEF Shape, Numbered, NoLink
      <4> QED  BY <4>1, <4>2
    <3> QED  BY <2>1, <3>2, <3>3, <3>4, <3>5, LinksQuiet
  <2>3. CASE link[o] # NoLink /\ Ensure(w)
    BY <1>2, <2>1, <2>3 DEF Ensure
  <2>4. CASE link[o] # NoLink /\ Regenerate(w)
    <3>1. /\ link' = [link EXCEPT ![o].token = tokens + 1] /\ born' = born
          /\ tokens' = tokens + 1 /\ tokens < MaxTokens
      BY <2>4 DEF Regenerate
    <3>2. \A p \in Orders : link'[p].id = link[p].id /\ link'[p].notified = link[p].notified
      BY <2>1, <2>4, <3>1, RenewRows
    <3> QED  BY <1>1, <2>1, <3>1, <3>2, LinksQuiet
  <2> QED  BY <1>3, <2>2, <2>3, <2>4
<1>4. ASSUME NEW o \in Orders, Revoke(o) PROVE Quiet'
  <2>1. \A p \in Orders : link'[p] = link[p] \/ link'[p].id = 0
    BY <1>4, ShapeTypes DEF Revoke, NoLink, Shape
  <2> QED  BY <1>1, <1>4, <2>1, LinksQuiet DEF Revoke
<1>5. ASSUME NEW r \in Runs, CronRead(r) PROVE Quiet'
  BY <1>5, CronReadRow, IdleQuiet DEF CronRead, rows
<1>6. ASSUME NEW r \in Runs, CronCrash(r) PROVE Quiet'
  <2>1. RowOf(r, NoRun) /\ Idle(NoRun)
    BY <1>6, NoneFits DEF CronCrash, RowOf, Idle, NoRun
  <2> QED  BY <1>6, <2>1, IdleQuiet DEF CronCrash, rows
<1>7. ASSUME NEW w \in Workers, RegenerateSubs(w) \/ Subscribe(w) PROVE Quiet'
  BY <1>2, <1>7 DEF RegenerateSubs, Subscribe, End
<1>8. ASSUME NEW w \in Workers, NEW where, NEW o, NEW d,
             LinkRead(w, o, where) \/ SubscribeRead(w, o, d)
      PROVE  Quiet'
  BY <1>2, <1>8 DEF LinkRead, SubscribeRead, Begin, rows
<1>9. ASSUME \/ \E s \in subs : Unsubscribe(s)
             \/ \E o \in Orders, s \in {"abierto", "terminado", "entregado"} : SetStatus(o, s)
             \/ UNCHANGED vars
      PROVE  Quiet'
  BY <1>2, <1>9 DEF Unsubscribe, SetStatus, vars, rows
<1> QED
  BY <1>3, <1>4, <1>5, <1>6, <1>7, <1>8, <1>9, ClaimQuiet, ReadLinkQuiet, SendQuiet
  DEF Next, Cron

(* However many runs of the cron overlap, and whatever is done to the link  *)
(* between their calls, each recipient hears once at most of a link and not *)
(* at all of one made for an order already ready: the claim is a            *)
(* conditional update, and numbers of rows are not used again.              *)
THEOREM One_Notice_Per_Link == Spec => []OneNoticePerLink
<1>1. Init => Quiet
  <2> SUFFICES ASSUME Init PROVE Quiet
    OBVIOUS
  <2>1. \A id \in Ids : Fresh(id)
    BY DEF Init, Fresh, Unheard, Busy, NoRun, People
  <2>2. \A r \in Runs : ~Busy(r)
    BY DEF Init, Busy, NoRun
  <2>3. OnceAtMost
    BY DEF Init, OnceAtMost
  <2>4. \A o \in Orders : link[o].id = 0
    BY DEF Init, NoLink
  <2> QED
    BY <2>1, <2>2, <2>3, <2>4
    DEF Init, Quiet, FreshToCome, FreshUnclaimed, BornSilent, OneRunPerLink, ToldSoFar, Busy
<1>2. Shape /\ Quiet => OneNoticePerLink
  <2> SUFFICES ASSUME Shape, Quiet, NEW n \in DOMAIN told, n[1] \in born PROVE told[n] = 0
    BY DEF OneNoticePerLink, Quiet, OnceAtMost
  <2>1. PICK id \in Ids, who \in People : n = << id, who >>
    BY ShapeTypes DEF Shape
  <2> QED  BY <2>1 DEF Quiet, BornSilent, Fresh, Unheard
<1> QED  BY <1>1, <1>2, ShapeInit, ShapeStep, QuietStep, PTL DEF Spec
=============================================================================
