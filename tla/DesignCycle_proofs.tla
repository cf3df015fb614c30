------------------------ MODULE DesignCycle_proofs -------------------------
(***************************************************************************)
(* What TLAPS proves of DesignCycle, for any designers, areas, number of   *)
(* rounds and number of requests in flight.                                *)
(***************************************************************************)
EXTENDS DesignCycle, FiniteSetTheorems, SequenceTheorems, TLAPS

Round  == [number : Nat \ {0}, sender : Designers \cup {Shared},
           approved : BOOLEAN, feedback : BOOLEAN]
Answer == [round : Nat \ {0}, state : AnswerStates]
Job    == [who : People, round : Nat, number : Nat, first : BOOLEAN,
           areas : SUBSET Areas, hides : SUBSET Nat, seen : Nat]
Places == {"libre", "toma", "inicia", "envia", "posterior", "estado",
           "plan", "rechaza", "autoriza", "contesta", "reemplaza"}
OrderRow == [status : Statuses, area : Areas \cup {Design}, holder : People,
             starter : People, archived : BOOLEAN]

-----------------------------------------------------------------------------
(* The number of the last round.                                            *)
LEMMA TopIs ==
  ASSUME NEW k \in Nat, Numbers = 1..k
  PROVE  Top = k
<1>1. \E n \in Numbers \cup {0} : \A m \in Numbers : m <= n
  <2>1. k \in Numbers \cup {0} /\ \A m \in Numbers : m <= k
    OBVIOUS
  <2> QED  BY <2>1
<1>2. Top \in Numbers \cup {0} /\ \A m \in Numbers : m <= Top
  BY <1>1 DEF Top
<1> QED  BY <1>2

LEMMA TopWillBe ==
  ASSUME NEW k \in Nat, Numbers' = 1..k
  PROVE  Top' = k
<1>1. \E n \in Numbers' \cup {0} : \A m \in Numbers' : m <= n
  <2>1. k \in Numbers' \cup {0} /\ \A m \in Numbers' : m <= k
    OBVIOUS
  <2> QED  BY <2>1
<1>2. Top' \in Numbers' \cup {0} /\ \A m \in Numbers' : m <= Top'
  BY <1>1 DEF Top
<1> QED  BY <1>2

(* The numbers change with the rows of the rounds only, and not by a verdict.*)
LEMMA NumbersKept ==
  ASSUME DOMAIN rounds' = DOMAIN rounds,
         \A i \in DOMAIN rounds : rounds'[i].number = rounds[i].number
  PROVE  Numbers' = Numbers /\ Top' = Top
<1>1. Numbers' = Numbers
  BY DEF Numbers, Number
<1> QED  BY <1>1 DEF Top

-----------------------------------------------------------------------------
(* What a request knows of what it carries: the number of a round to send   *)
(* follows that of a round there is, and a verdict or an answer is about a  *)
(* round there is.                                                          *)
OnARound == {"posterior", "estado", "plan", "rechaza", "autoriza", "contesta", "reemplaza"}
JobFits(w) ==
  /\ pc[w] = "envia" => /\ job[w].number \in 1..(Top + 1)
                        /\ job[w].who \in Designers \cup {Shared}
  /\ pc[w] \in OnARound => job[w].round \in DOMAIN rounds
  /\ pc[w] = "autoriza" => job[w].areas # {}
JobsFit == \A w \in Workers : JobFits(w)

Filled == Top \in Nat /\ Numbers = 1..Top

Shape == TypeOK /\ Filled /\ JobsFit

LEMMA ShapeTypes ==
  ASSUME TypeOK
  PROVE  /\ order \in OrderRow /\ rounds \in Seq(Round) /\ answers \in Seq(Answer)
         /\ tasks \subseteq Areas /\ pc \in [Workers -> Places]
         /\ job \in [Workers -> Job] /\ requests \in 0..MaxRequests /\ drift \subseteq Causes
BY DEF TypeOK, OrderRow, Round, Answer, Places, Job

LEMMA TypesMake ==
  ASSUME order' \in OrderRow, rounds' \in Seq(Round), answers' \in Seq(Answer),
         tasks' \subseteq Areas, pc' \in [Workers -> Places],
         job' \in [Workers -> Job], requests' \in 0..MaxRequests, drift' \subseteq Causes
  PROVE  TypeOK'
BY DEF TypeOK, OrderRow, Round, Answer, Places, Job

LEMMA NoJobType == NoJob \in Job
BY DEF NoJob, Job, People

LEMMA ShapeInit == Init => Shape
<1> SUFFICES ASSUME Init PROVE Shape
  OBVIOUS
<1>1. order \in OrderRow
  <2>1. ASSUME NEW p \in People,
               order = [status |-> "en diseno", area |-> Design, holder |-> p,
                        starter |-> NoOne, archived |-> FALSE]
        PROVE  order \in OrderRow
    BY <2>1 DEF OrderRow, Statuses, People
  <2>2. ASSUME NEW a \in Areas,
               order = [status |-> "otro", area |-> a, holder |-> NoOne,
                        starter |-> NoOne, archived |-> FALSE]
        PROVE  order \in OrderRow
    BY <2>2 DEF OrderRow, Statuses, People
  <2> QED  BY <2>1, <2>2 DEF Init, NewOrders
<1>2. requests \in 0..MaxRequests
  BY BoundAssumption DEF Init
<1>3. TypeOK
  BY <1>1, <1>2, NoJobType DEF Init, TypeOK, OrderRow, Job
<1>4. Numbers = 1..0
  BY DEF Init, Numbers
<1>5. Filled
  BY <1>4, TopIs DEF Filled
<1>6. JobsFit
  BY DEF Init, JobsFit, JobFits, OnARound
<1> QED  BY <1>3, <1>5, <1>6 DEF Shape

LEMMA UpTo ==
  ASSUME NEW a \in Nat, NEW b \in Nat, a <= b, NEW n \in 1..(a + 1)
  PROVE  n \in 1..(b + 1)
OBVIOUS

(* A step of one request leaves what the others carry as it was.            *)
LEMMA OthersFit ==
  ASSUME Shape, NEW w \in Workers, JobFits(w)',
         \A v \in Workers \ {w} : pc'[v] = pc[v] /\ job'[v] = job[v],
         DOMAIN rounds \subseteq DOMAIN rounds', Top' \in Nat, Top <= Top'
  PROVE  JobsFit'
<1> SUFFICES ASSUME NEW v \in Workers, v # w PROVE JobFits(v)'
  BY DEF JobsFit
<1>1. JobFits(v) /\ pc'[v] = pc[v] /\ job'[v] = job[v]
  BY DEF Shape, JobsFit
<1>2. Top \in Nat
  BY DEF Shape, Filled
<1>3. job[v].number \in 1..(Top + 1) => job[v].number \in 1..(Top' + 1)
  BY <1>2, UpTo
<1> QED  BY <1>1, <1>3 DEF JobFits

LEMMA CountType ==
  ASSUME TypeOK, requests < MaxRequests, requests' = requests + 1
  PROVE  requests' \in 0..MaxRequests
BY BoundAssumption DEF TypeOK

LEMMA BeginShape ==
  ASSUME Shape, NEW w \in Workers, NEW where \in Places, NEW j \in Job, Begin(w, where, j),
         where = "envia" => j.number \in 1..(Top + 1) /\ j.who \in Designers \cup {Shared},
         where \in OnARound => j.round \in DOMAIN rounds,
         where # "autoriza"
  PROVE  Shape'
<1>1. /\ order' = order /\ rounds' = rounds /\ answers' = answers /\ tasks' = tasks
      /\ drift' = drift /\ pc' = [pc EXCEPT ![w] = where] /\ job' = [job EXCEPT ![w] = j]
  BY DEF Begin, db
<1>2. TypeOK'
  <2>1. requests' \in 0..MaxRequests
    BY CountType DEF Begin, Shape
  <2> QED  BY <1>1, <2>1, ShapeTypes, TypesMake DEF Shape
<1>3. Numbers' = Numbers /\ Top' = Top
  BY <1>1, NumbersKept
<1>4. pc'[w] = where /\ job'[w] = j
  BY <1>1, ShapeTypes DEF Shape
<1>5. JobFits(w)'
  BY <1>1, <1>3, <1>4 DEF JobFits
<1>6. JobsFit'
  BY <1>1, <1>3, <1>5, OthersFit DEF Shape, Filled
<1> QED  BY <1>2, <1>3, <1>6 DEF Shape, Filled

(* The last write of a request.                                             *)
LEMMA EndShape ==
  ASSUME Shape, NEW w \in Workers, End(w),
         order' \in OrderRow, rounds' \in Seq(Round), answers' \in Seq(Answer),
         tasks' \subseteq Areas, drift' \subseteq Causes,
         DOMAIN rounds \subseteq DOMAIN rounds', Top' \in Nat, Top <= Top',
         Numbers' = 1..Top'
  PROVE  Shape'
<1>1. /\ pc' = [pc EXCEPT ![w] = "libre"] /\ job' = [job EXCEPT ![w] = NoJob]
      /\ requests' = requests
  BY DEF End
<1>2. TypeOK'
  BY <1>1, NoJobType, ShapeTypes, TypesMake DEF Shape, Places
<1>3. JobFits(w)'
  <2>1. pc'[w] = "libre"
    BY <1>1, ShapeTypes DEF Shape
  <2> QED  BY <2>1 DEF JobFits, OnARound
<1>4. JobsFit'
  BY <1>1, <1>3, OthersFit
<1> QED  BY <1>2, <1>4 DEF Shape, Filled

(* A step between the reads of a request.                                   *)
LEMMA GotoShape ==
  ASSUME Shape, NEW w \in Workers, NEW where \in Places, Goto(w, where),
         job' \in [Workers -> Job],
         \A v \in Workers \ {w} : job'[v] = job[v],
         where # "envia", job'[w].round = job[w].round,
         pc[w] \in OnARound, where = "autoriza" => job'[w].areas # {}
  PROVE  Shape'
<1>1. /\ pc' = [pc EXCEPT ![w] = where] /\ requests' = requests /\ drift' = drift
      /\ order' = order /\ rounds' = rounds /\ answers' = answers /\ tasks' = tasks
  BY DEF Goto, db
<1>2. TypeOK'
  BY <1>1, ShapeTypes, TypesMake DEF Shape
<1>3. Numbers' = Numbers /\ Top' = Top
  BY <1>1, NumbersKept
<1>4. JobFits(w)'
  <2>1. pc'[w] = where
    BY <1>1, ShapeTypes DEF Shape
  <2> QED  BY <1>1, <2>1 DEF JobFits, Shape, JobsFit
<1>5. JobsFit'
  BY <1>1, <1>3, <1>4, OthersFit DEF Shape, Filled
<1> QED  BY <1>2, <1>3, <1>5 DEF Shape, Filled

(* The rows of the rounds stay.                                             *)
LEMMA SameRoundsFilled ==
  ASSUME Shape, rounds' = rounds
  PROVE  /\ Numbers' = Numbers /\ Top' = Top /\ Top' \in Nat /\ Top <= Top'
         /\ Numbers' = 1..Top' /\ DOMAIN rounds \subseteq DOMAIN rounds'
<1>1. Numbers' = Numbers /\ Top' = Top
  BY NumbersKept
<1> QED  BY <1>1 DEF Shape, Filled

-----------------------------------------------------------------------------
(* Sending a round fills the numbers up to it or repeats one.               *)
LEMMA SendNumbers ==
  ASSUME Shape, NEW w \in Workers, SendTx(w)
  PROVE  /\ rounds' \in Seq(Round) /\ Len(rounds') = Len(rounds) + 1
         /\ \A i \in DOMAIN rounds : rounds'[i] = rounds[i]
         /\ rounds'[Len(rounds) + 1].number = job[w].number
         /\ ~rounds'[Len(rounds) + 1].approved /\ ~rounds'[Len(rounds) + 1].feedback
         /\ Numbers' = 1..Top' /\ Top' \in Nat
         /\ Top' = (IF job[w].number = Top + 1 THEN Top + 1 ELSE Top)
<1> DEFINE n == job[w].number
           new == [number |-> n, sender |-> job[w].who, approved |-> FALSE, feedback |-> FALSE]
<1>1. n \in 1..(Top + 1) /\ job[w].who \in Designers \cup {Shared} /\ Top \in Nat
  BY DEF SendTx, Shape, JobsFit, JobFits, Filled
<1>2. new \in Round
  BY <1>1 DEF Round
<1>3. rounds \in Seq(Round)
  BY ShapeTypes DEF Shape
<1>4. rounds' = Append(rounds, new)
  BY DEF SendTx
<1> HIDE DEF new
<1>5. /\ rounds' \in Seq(Round) /\ Len(rounds') = Len(rounds) + 1
      /\ DOMAIN rounds' = DOMAIN rounds \cup {Len(rounds) + 1}
      /\ \A i \in DOMAIN rounds : rounds'[i] = rounds[i]
      /\ rounds'[Len(rounds) + 1] = new
  BY <1>2, <1>3, <1>4
<1>6. new.number = n /\ ~new.approved /\ ~new.feedback
  BY DEF new
<1>7. Numbers' = Numbers \cup {n}
  BY <1>5, <1>6 DEF Numbers, Number
<1>8. Numbers = 1..Top
  BY DEF Shape, Filled
<1>9. CASE n = Top + 1
  <2>1. Numbers' = 1..(Top + 1)
    BY <1>1, <1>7, <1>8, <1>9
  <2>2. Top' = Top + 1
    BY <1>1, <2>1, TopWillBe
  <2> QED  BY <1>1, <1>5, <1>6, <1>9, <2>1, <2>2
<1>10. CASE n # Top + 1
  <2>1. Numbers' = 1..Top
    BY <1>1, <1>7, <1>8, <1>10
  <2>2. Top' = Top
    BY <1>1, <2>1, TopWillBe
  <2> QED  BY <1>1, <1>5, <1>6, <1>10, <2>1, <2>2
<1> QED  BY <1>9, <1>10

-----------------------------------------------------------------------------
(* A verdict marks one round and closes the answers that were open.         *)
LEMMA Resolved ==
  ASSUME TypeOK, NEW R, NEW st \in AnswerStates
  PROVE  /\ Resolve(R, st) \in Seq(Answer) /\ Len(Resolve(R, st)) = Len(answers)
         /\ DOMAIN Resolve(R, st) = DOMAIN answers
         /\ \A k \in DOMAIN answers :
              /\ Resolve(R, st)[k].round = answers[k].round
              /\ Resolve(R, st)[k].state = IF k \in R THEN st ELSE answers[k].state
<1>1. answers \in Seq(Answer) /\ Len(answers) \in Nat /\ DOMAIN answers = 1..Len(answers)
  BY ShapeTypes
<1> DEFINE new(k) == IF k \in R THEN [answers[k] EXCEPT !.state = st] ELSE answers[k]
<1>2. \A k \in 1..Len(answers) :
        /\ answers[k] \in Answer /\ new(k) \in Answer
        /\ new(k).round = answers[k].round
        /\ new(k).state = IF k \in R THEN st ELSE answers[k].state
  <2> TAKE k \in 1..Len(answers)
  <2>1. answers[k] \in Answer
    BY <1>1
  <2> QED  BY <2>1 DEF Answer
<1>3. Resolve(R, st) = [k \in 1..Len(answers) |-> new(k)]
  BY <1>1 DEF Resolve
<1> HIDE DEF new
<1>4. Resolve(R, st) \in Seq(Answer) /\ Len(Resolve(R, st)) = Len(answers)
  BY <1>1, <1>2, <1>3, IsASeq
<1> QED  BY <1>1, <1>2, <1>3, <1>4

LEMMA VerdictRows ==
  ASSUME Shape, NEW w \in Workers, NEW field \in {"approved", "feedback"},
         pc[w] \in {"rechaza", "autoriza"}, Verdict(w, field)
  PROVE  /\ job[w].round \in DOMAIN rounds
         /\ rounds' \in Seq(Round) /\ DOMAIN rounds' = DOMAIN rounds
         /\ \A i \in DOMAIN rounds :
              /\ rounds'[i].number = rounds[i].number /\ rounds'[i].sender = rounds[i].sender
              /\ i # job[w].round => rounds'[i] = rounds[i]
         /\ LET i == job[w].round IN
              /\ rounds'[i].approved <=> (field = "approved" \/ rounds[i].approved)
              /\ rounds'[i].feedback <=> (field = "feedback" \/ rounds[i].feedback)
         /\ answers' \in Seq(Answer) /\ Pending' = {}
         /\ Numbers' = Numbers /\ Top' = Top
<1> DEFINE i == job[w].round
<1>1. i \in DOMAIN rounds
  BY DEF Shape, JobsFit, JobFits, OnARound
<1>2. rounds \in Seq(Round) /\ rounds[i] \in Round /\ DOMAIN rounds = 1..Len(rounds)
      /\ Len(rounds) \in Nat
  BY <1>1, ShapeTypes DEF Shape
<1>3. PICK r \in Round :
        /\ rounds' = [rounds EXCEPT ![i] = r]
        /\ r.number = rounds[i].number /\ r.sender = rounds[i].sender
        /\ r.approved <=> (field = "approved" \/ rounds[i].approved)
        /\ r.feedback <=> (field = "feedback" \/ rounds[i].feedback)
  <2>1. CASE field = "approved"
    <3> DEFINE r == [rounds[i] EXCEPT !.approved = TRUE]
    <3>1. r \in Round /\ r.number = rounds[i].number /\ r.sender = rounds[i].sender
          /\ r.approved /\ (r.feedback <=> rounds[i].feedback)
      BY <1>2 DEF Round
    <3>2. rounds' = [rounds EXCEPT ![i] = r]
      BY <2>1 DEF Verdict
    <3> HIDE DEF r
    <3> QED  BY <2>1, <3>1, <3>2
  <2>2. CASE field = "feedback"
    <3> DEFINE r == [rounds[i] EXCEPT !.feedback = TRUE]
    <3>1. r \in Round /\ r.number = rounds[i].number /\ r.sender = rounds[i].sender
          /\ r.feedback /\ (r.approved <=> rounds[i].approved)
      BY <1>2 DEF Round
    <3>2. rounds' = [rounds EXCEPT ![i] = r]
      BY <2>2 DEF Verdict
    <3> HIDE DEF r
    <3> QED  BY <2>2, <3>1, <3>2
  <2> QED  BY <2>1, <2>2
<1>4. /\ rounds' \in Seq(Round) /\ DOMAIN rounds' = DOMAIN rounds /\ rounds'[i] = r
      /\ \A j \in DOMAIN rounds : j # i => rounds'[j] = rounds[j]
  BY <1>1, <1>2, <1>3, ExceptSeq
<1>5. Numbers' = Numbers /\ Top' = Top
  BY <1>3, <1>4, NumbersKept
<1>6. answers' = Resolve(Pending, "aplicada") /\ "aplicada" \in AnswerStates
  BY DEF Verdict, AnswerStates
<1>7. /\ answers' \in Seq(Answer) /\ DOMAIN answers' = DOMAIN answers
      /\ \A k \in DOMAIN answers :
           answers'[k].state = IF k \in Pending THEN "aplicada" ELSE answers[k].state
  BY <1>6, Resolved DEF Shape
<1>8. Pending' = {}
  BY <1>7 DEF Pending
<1> QED  BY <1>1, <1>3, <1>4, <1>5, <1>7, <1>8

-----------------------------------------------------------------------------
(* Every step keeps the shape.                                              *)
LEMMA ShapeBegin ==
  ASSUME Shape, NEW w \in Workers
  PROVE  /\ \A d \in Designers \cup {Shared} : StartRead(w, d) \/ SendRead(w, d) => Shape'
         /\ \A d \in Designers : TakeRead(w, d) => Shape'
         /\ \A i \in DOMAIN rounds : VerdictRead(w, i) \/ RespondRead(w, i) => Shape'
<1> USE NoJobType
<1>1. ASSUME NEW d \in Designers \cup {Shared}, StartRead(w, d) PROVE Shape'
  <2>1. [NoJob EXCEPT !.who = d] \in Job
    BY DEF NoJob, Job, People
  <2> QED  BY <1>1, <2>1, BeginShape DEF StartRead, Places, OnARound
<1>2. ASSUME NEW d \in Designers \cup {Shared}, SendRead(w, d) PROVE Shape'
  <2> DEFINE j == [NoJob EXCEPT !.who = d, !.number = NextNumber]
  <2>1. NextNumber \in 1..(Top + 1) /\ NextNumber \in Nat
    BY DEF NextNumber, Shape, Filled
  <2>2. j \in Job /\ j.number = NextNumber /\ j.who = d
    BY <2>1 DEF NoJob, Job, People
  <2>3. Begin(w, "envia", j)
    BY <1>2 DEF SendRead
  <2> HIDE DEF j
  <2> QED  BY <2>1, <2>2, <2>3, BeginShape DEF Places, OnARound
<1>3. ASSUME NEW d \in Designers, TakeRead(w, d) PROVE Shape'
  <2> DEFINE j == [NoJob EXCEPT !.who = d, !.first = NotStarted]
  <2>1. NotStarted \in BOOLEAN
    BY DEF NotStarted
  <2>2. j \in Job
    BY <2>1 DEF NoJob, Job, People
  <2>3. Begin(w, "toma", j)
    BY <1>3 DEF TakeRead
  <2> HIDE DEF j
  <2> QED  BY <2>2, <2>3, BeginShape DEF Places, OnARound
<1>4. ASSUME NEW i \in DOMAIN rounds, VerdictRead(w, i) \/ RespondRead(w, i) PROVE Shape'
  <2> DEFINE j == [NoJob EXCEPT !.round = i]
  <2>1. i \in Nat
    BY ShapeTypes DEF Shape
  <2>2. j \in Job /\ j.round = i
    BY <2>1 DEF NoJob, Job
  <2>3. Begin(w, "posterior", j) \/ Begin(w, "contesta", j)
    BY <1>4 DEF VerdictRead, RespondRead
  <2> HIDE DEF j
  <2> QED  BY <2>2, <2>3, BeginShape DEF Places, OnARound
<1> QED  BY <1>1, <1>2, <1>3, <1>4

LEMMA ShapeReads ==
  ASSUME Shape, NEW w \in Workers,
         CheckNewer(w) \/ CheckStatus(w) \/ PlanRead(w) \/ RespondReplace(w)
  PROVE  Shape'
<1>1. CASE CheckNewer(w)
  BY <1>1, GotoShape, ShapeTypes DEF CheckNewer, Shape, Places, OnARound
<1>2. CASE CheckStatus(w)
  <2>1. PICK next \in {"plan", "rechaza"} : Goto(w, next)
    BY <1>2 DEF CheckStatus
  <2>2. job' = job /\ pc[w] = "estado" /\ job \in [Workers -> Job]
    BY <1>2, ShapeTypes DEF CheckStatus, Shape
  <2> QED  BY <2>1, <2>2, GotoShape DEF Places, OnARound
<1>3. CASE PlanRead(w)
  <2>1. PICK as \in (SUBSET Areas) \ {{}} : job' = [job EXCEPT ![w].areas = as]
    BY <1>3 DEF PlanRead
  <2>2. job[w] \in Job /\ job \in [Workers -> Job]
    BY ShapeTypes DEF Shape
  <2> DEFINE j == [job[w] EXCEPT !.areas = as]
  <2>3. j \in Job /\ j.areas = as /\ j.round = job[w].round
    BY <2>2 DEF Job
  <2>4. job' = [job EXCEPT ![w] = j]
    BY <2>1
  <2> HIDE DEF j
  <2>5. job'[w] = j /\ job' \in [Workers -> Job] /\ \A v \in Workers \ {w} : job'[v] = job[v]
    BY <2>2, <2>3, <2>4
  <2>6. Goto(w, "autoriza") /\ pc[w] = "plan"
    BY <1>3 DEF PlanRead
  <2> QED  BY <2>3, <2>5, <2>6, GotoShape DEF Places, OnARound
<1>4. CASE RespondReplace(w)
  <2>1. job[w] \in Job /\ job \in [Workers -> Job] /\ answers \in Seq(Answer)
    BY ShapeTypes DEF Shape
  <2> DEFINE j == [job[w] EXCEPT !.hides = Superseded, !.seen = Len(answers)]
  <2>2. Superseded \in SUBSET Nat /\ Len(answers) \in Nat
    BY <2>1 DEF Superseded, Pending
  <2>3. j \in Job /\ j.round = job[w].round
    BY <2>1, <2>2 DEF Job
  <2>4. job' = [job EXCEPT ![w] = j]
    BY <1>4, <2>1 DEF RespondReplace, Job
  <2> HIDE DEF j
  <2>5. job'[w] = j /\ job' \in [Workers -> Job] /\ \A v \in Workers \ {w} : job'[v] = job[v]
    BY <2>1, <2>3, <2>4
  <2>6. Goto(w, "reemplaza") /\ pc[w] = "contesta"
    BY <1>4 DEF RespondReplace
  <2> QED  BY <2>3, <2>5, <2>6, GotoShape DEF Places, OnARound
<1> QED  BY <1>1, <1>2, <1>3, <1>4

LEMMA ShapeOwner ==
  ASSUME Shape, NEW w \in Workers, TakeTx(w) \/ StartTx(w)
  PROVE  Shape'
<1>1. job[w] \in Job /\ order \in OrderRow /\ rounds \in Seq(Round)
      /\ answers \in Seq(Answer) /\ tasks \subseteq Areas /\ drift \subseteq Causes
  BY ShapeTypes DEF Shape
<1>2. order' \in OrderRow
  <2>1. job[w].who \in People
    BY <1>1 DEF Job
  <2>2. CASE TakeTx(w)
    BY <1>1, <2>1, <2>2 DEF TakeTx, OrderRow
  <2>3. CASE StartTx(w)
    BY <1>1, <2>1, <2>3 DEF StartTx, OrderRow
  <2> QED  BY <2>2, <2>3
<1>3. /\ rounds' = rounds /\ answers' = answers /\ tasks' = tasks /\ End(w)
      /\ drift' \subseteq Causes
  BY <1>1 DEF TakeTx, StartTx, Note, Causes
<1> QED  BY <1>1, <1>2, <1>3, SameRoundsFilled, EndShape

LEMMA ShapeSend ==
  ASSUME Shape, NEW w \in Workers, SendTx(w)
  PROVE  Shape'
<1>1. order' \in OrderRow
  BY ShapeTypes DEF SendTx, OrderRow, Statuses, Shape
<1>2. drift' \subseteq Causes /\ answers' = answers /\ tasks' = tasks /\ End(w)
  BY ShapeTypes DEF SendTx, Causes, Shape
<1>3. Top \in Nat /\ rounds \in Seq(Round) /\ answers \in Seq(Answer) /\ tasks \subseteq Areas
  BY ShapeTypes DEF Shape, Filled
<1>4. rounds' \in Seq(Round) /\ DOMAIN rounds \subseteq DOMAIN rounds'
  BY <1>3, SendNumbers
<1>5. Top' \in Nat /\ Top <= Top' /\ Numbers' = 1..Top'
  BY <1>3, SendNumbers
<1> QED  BY <1>1, <1>2, <1>3, <1>4, <1>5, EndShape

LEMMA ShapeVerdict ==
  ASSUME Shape, NEW w \in Workers, FeedbackTx(w) \/ ApproveTx(w)
  PROVE  Shape'
<1>1. PICK field \in {"approved", "feedback"} :
        Verdict(w, field) /\ pc[w] \in {"rechaza", "autoriza"}
  BY DEF FeedbackTx, ApproveTx
<1>2. job[w] \in Job /\ order \in OrderRow /\ rounds \in Seq(Round)
      /\ tasks \subseteq Areas /\ drift \subseteq Causes
  BY ShapeTypes DEF Shape
<1>3. /\ job[w].round \in DOMAIN rounds /\ rounds' \in Seq(Round)
      /\ DOMAIN rounds' = DOMAIN rounds /\ answers' \in Seq(Answer)
      /\ Numbers' = Numbers /\ Top' = Top
  BY <1>1, VerdictRows
<1>4. order' \in OrderRow /\ tasks' \subseteq Areas
  <2>1. CASE FeedbackTx(w)
    <3>1. rounds[job[w].round] \in Round
      BY <1>2, <1>3
    <3>2. rounds[job[w].round].sender \in People
      BY <3>1 DEF Round, People
    <3> QED  BY <1>2, <2>1, <3>2 DEF FeedbackTx, Returned, OrderRow, Statuses
  <2>2. CASE ApproveTx(w)
    <3>1. PICK a \in Areas : order' = [order EXCEPT !.status = "autorizado", !.area = a,
                                              !.holder = NoOne, !.archived = TRUE]
      BY <2>2 DEF ApproveTx
    <3>2. job[w].areas \subseteq Areas /\ tasks' = tasks \cup job[w].areas
      BY <1>2, <2>2 DEF ApproveTx, Job
    <3> QED  BY <1>2, <3>1, <3>2 DEF OrderRow, Statuses, People
  <2> QED  BY <2>1, <2>2
<1>5. End(w) /\ drift' \subseteq Causes
  BY <1>1, <1>2 DEF Verdict, Note, Causes
<1>6. Top \in Nat /\ Top <= Top' /\ Top' \in Nat /\ Numbers' = 1..Top'
  BY <1>3 DEF Shape, Filled
<1> QED  BY <1>3, <1>4, <1>5, <1>6, EndShape

LEMMA ShapeAnswer ==
  ASSUME Shape, NEW w \in Workers, RespondCommit(w)
  PROVE  Shape'
<1>1. job[w] \in Job /\ job[w].round \in DOMAIN rounds /\ rounds \in Seq(Round)
  BY ShapeTypes DEF Shape, RespondCommit, JobsFit, JobFits, OnARound
<1>2. [round |-> job[w].round, state |-> "pendiente"] \in Answer
  BY <1>1 DEF Answer, AnswerStates
<1>3. Resolve(job[w].hides \cap Pending, "reemplazada") \in Seq(Answer)
  BY Resolved DEF Shape, AnswerStates
<1>4. answers' \in Seq(Answer)
  BY <1>2, <1>3 DEF RespondCommit
<1>5. /\ order' = order /\ rounds' = rounds /\ tasks' = tasks /\ End(w)
      /\ drift' \subseteq Causes
  BY ShapeTypes DEF RespondCommit, Note, Causes, Shape
<1>6. order \in OrderRow /\ tasks \subseteq Areas
  BY ShapeTypes DEF Shape
<1> QED  BY <1>1, <1>4, <1>5, <1>6, SameRoundsFilled, EndShape

(* What is not of a request: a dismissal and a change by hand.              *)
LEMMA ShapeDirect ==
  ASSUME Shape, pc' = pc, job' = job, rounds' = rounds, tasks' = tasks,
         requests < MaxRequests, requests' = requests + 1,
         order' \in OrderRow, answers' \in Seq(Answer), drift' \subseteq Causes
  PROVE  Shape'
<1>1. TypeOK'
  BY CountType, ShapeTypes, TypesMake DEF Shape
<1>2. Numbers' = Numbers /\ Top' = Top
  BY NumbersKept
<1>3. JobsFit'
  BY <1>2 DEF Shape, JobsFit, JobFits
<1> QED  BY <1>1, <1>2, <1>3 DEF Shape, Filled

LEMMA ShapeStep == Shape /\ [Next]_vars => Shape'
<1> SUFFICES ASSUME Shape, [Next]_vars PROVE Shape'
  OBVIOUS
<1>1. ASSUME NEW w \in Workers, Handler(w) PROVE Shape'
  <2>1. CASE GiveUp(w)
    <3>1. /\ order' = order /\ rounds' = rounds /\ answers' = answers /\ tasks' = tasks
          /\ drift' = drift /\ End(w)
      BY <2>1 DEF GiveUp, db
    <3> QED  BY <3>1, ShapeTypes, SameRoundsFilled, EndShape DEF Shape
  <2> QED  BY <1>1, <2>1, ShapeReads, ShapeOwner, ShapeSend, ShapeVerdict, ShapeAnswer
           DEF Handler
<1>2. ASSUME NEW k \in DOMAIN answers, Discard(k) PROVE Shape'
  <2>1. answers' \in Seq(Answer)
    BY <1>2, Resolved DEF Discard, Shape, AnswerStates
  <2> QED  BY <1>2, <2>1, ShapeTypes, ShapeDirect DEF Discard, Shape
<1>3. ASSUME NEW s \in Statuses, NEW a \in Areas \cup {Design}, NEW p \in People,
             SetByHand(s, a, p)
      PROVE  Shape'
  <2>1. order' \in OrderRow
    <3>1. order \in OrderRow
      BY ShapeTypes DEF Shape
    <3>2. PICK kept \in {order.archived, FALSE} :
            order' = [order EXCEPT !.status = s, !.area = a, !.holder = p, !.archived = kept]
      BY <1>3 DEF SetByHand
    <3>3. kept \in BOOLEAN
      BY <3>1 DEF OrderRow
    <3> QED  BY <3>1, <3>2, <3>3 DEF OrderRow
  <2>2. drift' \subseteq Causes
    BY <1>3, ShapeTypes DEF SetByHand, Causes, Shape
  <2> QED  BY <1>3, <2>1, <2>2, ShapeTypes, ShapeDirect DEF SetByHand, Shape
<1>4. CASE UNCHANGED vars
  <2>1. Numbers' = Numbers /\ Top' = Top
    BY <1>4, NumbersKept DEF vars, db
  <2> QED  BY <1>4, <2>1 DEF vars, db, Shape, TypeOK, Filled, JobsFit, JobFits
<1> QED  BY <1>1, <1>2, <1>3, <1>4, ShapeBegin DEF Next

(* Every reachable state is well typed, and what a request carries between  *)
(* its calls fits the rows: a verdict is about a round there is.            *)
THEOREM TypeCorrect == Spec => []TypeOK
<1>1. Shape => TypeOK
  BY DEF Shape
<1> QED  BY <1>1, ShapeInit, ShapeStep, PTL DEF Spec

-----------------------------------------------------------------------------
(* What a step may change of the rows.                                      *)
Quiet == UNCHANGED << db, drift >>
ByHand == \E s \in Statuses, a \in Areas \cup {Design}, p \in People : SetByHand(s, a, p)
Dismissal == \E k \in DOMAIN answers : Discard(k)

LEMMA Steps ==
  ASSUME [Next]_vars
  PROVE  \/ Quiet \/ ByHand \/ Dismissal
         \/ \E w \in Workers : \/ TakeTx(w) \/ StartTx(w) \/ SendTx(w)
                               \/ FeedbackTx(w) \/ ApproveTx(w) \/ RespondCommit(w)
<1>1. ASSUME NEW w \in Workers,
             CheckNewer(w) \/ CheckStatus(w) \/ PlanRead(w) \/ RespondReplace(w) \/ GiveUp(w)
      PROVE  Quiet
  BY <1>1 DEF CheckNewer, CheckStatus, PlanRead, RespondReplace, GiveUp, Goto, Quiet
<1>2. ASSUME NEW w \in Workers, NEW d, NEW i,
             \/ StartRead(w, d) \/ SendRead(w, d) \/ TakeRead(w, d)
             \/ VerdictRead(w, i) \/ RespondRead(w, i)
      PROVE  Quiet
  BY <1>2 DEF StartRead, SendRead, TakeRead, VerdictRead, RespondRead, Begin, Quiet
<1>3. UNCHANGED vars => Quiet
  BY DEF vars, Quiet
<1> QED  BY <1>1, <1>2, <1>3 DEF Next, Handler, ByHand, Dismissal

(* What was a cause once stays one.                                         *)
LEMMA DriftStays ==
  ASSUME [Next]_vars
  PROVE  drift \subseteq drift'
<1>1. CASE Quiet
  BY <1>1 DEF Quiet
<1>2. CASE ByHand \/ Dismissal
  BY <1>2 DEF ByHand, Dismissal, SetByHand, Discard
<1>3. ASSUME NEW w \in Workers,
             TakeTx(w) \/ StartTx(w) \/ SendTx(w) \/ FeedbackTx(w) \/ ApproveTx(w)
               \/ RespondCommit(w)
      PROVE  drift \subseteq drift'
  BY <1>3 DEF TakeTx, StartTx, SendTx, FeedbackTx, ApproveTx, RespondCommit, Verdict, Note
<1> QED  BY <1>1, <1>2, <1>3, Steps

(* Rounds are only sent and judged.                                         *)
LEMMA RoundsStay ==
  ASSUME [Next]_vars
  PROVE  \/ rounds' = rounds
         \/ \E w \in Workers : SendTx(w) \/ FeedbackTx(w) \/ ApproveTx(w)
<1>1. Quiet \/ ByHand \/ Dismissal => rounds' = rounds
  BY DEF Quiet, db, ByHand, Dismissal, SetByHand, Discard
<1>2. \A w \in Workers : TakeTx(w) \/ StartTx(w) \/ RespondCommit(w) => rounds' = rounds
  BY DEF TakeTx, StartTx, RespondCommit
<1> QED  BY <1>1, <1>2, Steps

-----------------------------------------------------------------------------
(* While no two rounds were sent at once, the last number is how many there *)
(* are.                                                                     *)
InOrder == "ronda" \notin drift => \A i \in DOMAIN rounds : Number(i) = i

LEMMA TopIsLength ==
  ASSUME Shape, \A i \in DOMAIN rounds : Number(i) = i
  PROVE  Top = Len(rounds)
<1>1. Len(rounds) \in Nat /\ DOMAIN rounds = 1..Len(rounds)
  BY ShapeTypes DEF Shape
<1>2. Numbers = 1..Len(rounds)
  BY <1>1 DEF Numbers
<1> QED  BY <1>1, <1>2, TopIs

LEMMA InOrderStep == Shape /\ InOrder /\ [Next]_vars => InOrder'
<1> SUFFICES ASSUME Shape, InOrder, [Next]_vars, "ronda" \notin drift'
             PROVE  \A i \in DOMAIN rounds' : rounds'[i].number = i
  BY DEF InOrder, Number
<1>1. \A i \in DOMAIN rounds : rounds[i].number = i
  BY DriftStays DEF InOrder, Number
<1>2. ASSUME NEW w \in Workers, SendTx(w)
      PROVE  \A i \in DOMAIN rounds' : rounds'[i].number = i
  <2>1. job[w].number = Top + 1
    BY <1>2 DEF SendTx, NextNumber
  <2>2. Top = Len(rounds)
    BY <1>1, TopIsLength DEF Number
  <2>3. /\ rounds' \in Seq(Round) /\ Len(rounds') = Len(rounds) + 1
        /\ \A i \in DOMAIN rounds : rounds'[i] = rounds[i]
        /\ rounds'[Len(rounds) + 1].number = job[w].number
    BY <1>2, SendNumbers
  <2>4. rounds \in Seq(Round)
    BY ShapeTypes DEF Shape
  <2>5. \A i \in DOMAIN rounds' : i \in DOMAIN rounds \/ i = Len(rounds) + 1
    BY <2>3, <2>4
  <2> QED  BY <1>1, <2>1, <2>2, <2>3, <2>5
<1>3. ASSUME NEW w \in Workers, FeedbackTx(w) \/ ApproveTx(w)
      PROVE  \A i \in DOMAIN rounds' : rounds'[i].number = i
  <2>1. PICK field \in {"approved", "feedback"} :
          Verdict(w, field) /\ pc[w] \in {"rechaza", "autoriza"}
    BY <1>3 DEF FeedbackTx, ApproveTx
  <2> QED  BY <1>1, <2>1, VerdictRows
<1> QED  BY <1>1, <1>2, <1>3, RoundsStay

(* createDesignRevision reads the last number before its transaction, and   *)
(* yet the numbers never have a gap; they repeat only if two rounds were    *)
(* sent at once.                                                            *)
THEOREM Rounds_Numbered == Spec => []RoundsNumbered
<1>1. Init => InOrder
  BY DEF Init, InOrder
<1>2. Shape /\ InOrder => RoundsNumbered
  BY DEF Shape, Filled, InOrder, RoundsNumbered
<1> QED  BY <1>1, <1>2, ShapeInit, ShapeStep, InOrderStep, PTL DEF Spec

-----------------------------------------------------------------------------
(* A round is not judged both ways: the transaction of a verdict does not   *)
(* check again, but a verdict that is not out of date meets an open round.  *)
THEOREM One_Verdict_Per_Round == Spec => []OneVerdictPerRound
<1>1. Init => OneVerdictPerRound
  BY DEF Init, OneVerdictPerRound
<1>2. Shape /\ OneVerdictPerRound /\ [Next]_vars => OneVerdictPerRound'
  <2> SUFFICES ASSUME Shape, OneVerdictPerRound, [Next]_vars, "veredicto" \notin drift',
                      NEW i \in DOMAIN rounds'
               PROVE  ~(rounds'[i].approved /\ rounds'[i].feedback)
    BY DEF OneVerdictPerRound
  <2>1. \A j \in DOMAIN rounds : ~(rounds[j].approved /\ rounds[j].feedback)
    BY DriftStays DEF OneVerdictPerRound
  <2>2. ASSUME NEW w \in Workers, SendTx(w)
        PROVE  ~(rounds'[i].approved /\ rounds'[i].feedback)
    <3>1. /\ rounds' \in Seq(Round) /\ Len(rounds') = Len(rounds) + 1
          /\ \A j \in DOMAIN rounds : rounds'[j] = rounds[j]
          /\ ~rounds'[Len(rounds) + 1].approved
      BY <2>2, SendNumbers
    <3>2. rounds \in Seq(Round)
      BY ShapeTypes DEF Shape
    <3>3. i \in DOMAIN rounds \/ i = Len(rounds) + 1
      BY <3>1, <3>2
    <3> QED  BY <2>1, <3>1, <3>3
  <2>3. ASSUME NEW w \in Workers, FeedbackTx(w) \/ ApproveTx(w)
        PROVE  ~(rounds'[i].approved /\ rounds'[i].feedback)
    <3>1. PICK field \in {"approved", "feedback"} :
            Verdict(w, field) /\ pc[w] \in {"rechaza", "autoriza"}
      BY <2>3 DEF FeedbackTx, ApproveTx
    <3>2. Unanswered(job[w].round)
      BY <3>1 DEF Verdict, Note, StaleVerdict, Awaiting
    <3>3. CASE i = job[w].round
      BY <3>1, <3>2, <3>3, VerdictRows DEF Unanswered
    <3>4. CASE i # job[w].round
      BY <2>1, <3>1, <3>4, VerdictRows
    <3> QED  BY <3>3, <3>4
  <2> QED  BY <2>1, <2>2, <2>3, RoundsStay
<1> QED  BY <1>1, <1>2, ShapeInit, ShapeStep, PTL DEF Spec

(* Who started the design is not replaced: takeDesign and startDesign look  *)
(* before they write, and only two that looked at once can both write.      *)
THEOREM Started_Once == Spec => StartedOnce
<1>1. Shape /\ [Next]_vars
        => [order.starter # NoOne /\ order'.starter # order.starter
              => "inicio" \in drift']_vars
  <2> SUFFICES ASSUME Shape, Next, order.starter # NoOne, order'.starter # order.starter
               PROVE  "inicio" \in drift'
    OBVIOUS
  <2>1. order \in OrderRow /\ job \in [Workers -> Job]
    BY ShapeTypes DEF Shape
  <2>2. ASSUME NEW w \in Workers, TakeTx(w) PROVE "inicio" \in drift'
    <3>1. job[w].first
      <4>1. SUFFICES ASSUME ~job[w].first PROVE order'.starter = order.starter
        OBVIOUS
      <4> QED  BY <2>1, <2>2, <4>1 DEF TakeTx, OrderRow
    <3> QED  BY <2>2, <3>1 DEF TakeTx, NotStarted
  <2>3. ASSUME NEW w \in Workers, StartTx(w) PROVE "inicio" \in drift'
    BY <2>3 DEF StartTx, NotStarted, Note
  <2>4. Quiet \/ Dismissal => order'.starter = order.starter
    BY DEF Quiet, db, Dismissal, Discard
  <2>5. ByHand => order'.starter = order.starter
    BY <2>1 DEF ByHand, SetByHand, OrderRow
  <2>6. \A w \in Workers : SendTx(w) => order'.starter = order.starter
    BY <2>1 DEF SendTx, OrderRow
  <2>7. \A w \in Workers : FeedbackTx(w) => order'.starter = order.starter
    BY <2>1 DEF FeedbackTx, Returned, OrderRow
  <2>8. \A w \in Workers : ApproveTx(w) => order'.starter = order.starter
    BY <2>1 DEF ApproveTx, OrderRow
  <2>9. \A w \in Workers : RespondCommit(w) => order'.starter = order.starter
    BY DEF RespondCommit
  <2> QED  BY <2>2, <2>3, <2>4, <2>5, <2>6, <2>7, <2>8, <2>9, Steps
<1> QED  BY <1>1, ShapeInit, ShapeStep, PTL DEF Spec, StartedOnce

-----------------------------------------------------------------------------
(* The status and the last round.                                           *)
LEMMA NewestIsLast ==
  ASSUME Shape, NEW i \in DOMAIN rounds, Newest(i)
  PROVE  i \in LastRounds
<1>1. Top \in Nat /\ Numbers = 1..Top
  BY DEF Shape, Filled
<1>2. Number(i) \in 1..Top
  BY <1>1 DEF Numbers
<1>3. Top \in Numbers
  BY <1>1, <1>2
<1>4. PICK j \in DOMAIN rounds : Number(j) = Top
  BY <1>3 DEF Numbers
<1>5. Top <= Number(i)
  BY <1>4 DEF Newest
<1>6. Number(i) = Top
  BY <1>1, <1>2, <1>5
<1> QED  BY <1>6 DEF LastRounds

Excused == drift \cap {"veredicto", "rezagada", "mano"} # {}

LEMMA ExcusedStays ==
  ASSUME [Next]_vars, ~Excused'
  PROVE  ~Excused
BY DriftStays DEF Excused

(* A verdict that is not out of date is about the last round.               *)
LEMMA VerdictOnLast ==
  ASSUME Shape, [Next]_vars, ~Excused', NEW w \in Workers, NEW field \in {"approved", "feedback"},
         pc[w] \in {"rechaza", "autoriza"}, Verdict(w, field)
  PROVE  /\ job[w].round \in DOMAIN rounds /\ job[w].round \in LastRounds'
         /\ rounds'[job[w].round].sender = rounds[job[w].round].sender
         /\ field = "approved" => rounds'[job[w].round].approved
         /\ field = "feedback" => rounds'[job[w].round].feedback
<1> DEFINE i == job[w].round
<1>1. Awaiting(i)
  BY DEF Verdict, Note, StaleVerdict, Excused
<1>2. i \in DOMAIN rounds
  BY VerdictRows
<1>3. i \in LastRounds
  BY <1>1, <1>2, NewestIsLast DEF Awaiting
<1>4. i \in LastRounds'
  BY <1>2, <1>3, VerdictRows DEF LastRounds, Number
<1> QED  BY <1>2, <1>4, VerdictRows

TellsWaiting == order.status = "esperando" =>
                  ~order.archived /\ \E i \in LastRounds : Unanswered(i)
Back(i) == /\ rounds[i].feedback
           /\ rounds[i].sender \in {Shared, order.holder} \/ "robo" \in drift
TellsBack == order.status = "cambios" =>
               ~order.archived /\ order.area = Design /\ \E i \in LastRounds : Back(i)
TellsApproved == order.status = "autorizado" =>
                   order.archived /\ tasks # {} /\ \E i \in LastRounds : rounds[i].approved
Tells == TellsWaiting /\ TellsBack /\ TellsApproved

LEMMA TellsIs == StatusTellsLastRound <=> (~Excused => Tells)
BY DEF StatusTellsLastRound, Excused, Tells, TellsWaiting, TellsBack, TellsApproved, Back

LEMMA TellsStep == Shape /\ (~Excused => Tells) /\ [Next]_vars => (~Excused' => Tells')
<1> SUFFICES ASSUME Shape, ~Excused => Tells, [Next]_vars, ~Excused'
             PROVE  Tells'
  OBVIOUS
<1>1. Tells
  BY ExcusedStays
<1>2. /\ order \in OrderRow /\ job \in [Workers -> Job] /\ rounds \in Seq(Round)
      /\ drift \subseteq drift'
  BY ShapeTypes, DriftStays DEF Shape
<1>3. ASSUME rounds' = rounds, tasks' = tasks, order'.status = order.status,
             order'.archived = order.archived, order'.area = order.area,
             \A i \in DOMAIN rounds : Back(i) => Back(i)'
      PROVE  Tells'
  <2>1. LastRounds' = LastRounds
    BY <1>3, NumbersKept DEF LastRounds, Number
  <2>2. LastRounds \subseteq DOMAIN rounds
    BY DEF LastRounds
  <2>3. TellsWaiting'
    BY <1>1, <1>3, <2>1 DEF Tells, TellsWaiting, Unanswered
  <2>4. TellsBack'
    BY <1>1, <1>3, <2>1, <2>2 DEF Tells, TellsBack
  <2>5. TellsApproved'
    BY <1>1, <1>3, <2>1 DEF Tells, TellsApproved
  <2> QED  BY <2>3, <2>4, <2>5 DEF Tells
<1>4. CASE Quiet
  <2>1. rounds' = rounds /\ tasks' = tasks /\ order' = order
    BY <1>4 DEF Quiet, db
  <2>2. \A i \in DOMAIN rounds : Back(i) => Back(i)'
    BY <1>2, <2>1 DEF Back
  <2> QED  BY <1>3, <2>1, <2>2
<1>5. CASE Dismissal
  <2>1. rounds' = rounds /\ tasks' = tasks /\ order' = order
    BY <1>5 DEF Dismissal, Discard
  <2>2. \A i \in DOMAIN rounds : Back(i) => Back(i)'
    BY <1>2, <2>1 DEF Back
  <2> QED  BY <1>3, <2>1, <2>2
<1>6. CASE ByHand
  BY <1>6 DEF ByHand, SetByHand, Excused
<1>7. ASSUME NEW w \in Workers, RespondCommit(w) PROVE Tells'
  <2>1. rounds' = rounds /\ tasks' = tasks /\ order' = order
    BY <1>7 DEF RespondCommit
  <2>2. \A i \in DOMAIN rounds : Back(i) => Back(i)'
    BY <1>2, <2>1 DEF Back
  <2> QED  BY <1>3, <2>1, <2>2
<1>8. ASSUME NEW w \in Workers, StartTx(w) PROVE Tells'
  <2>1. /\ rounds' = rounds /\ tasks' = tasks /\ order'.status = order.status
        /\ order'.archived = order.archived /\ order'.area = order.area
        /\ order'.holder = order.holder
    BY <1>2, <1>8 DEF StartTx, OrderRow
  <2>2. \A i \in DOMAIN rounds : Back(i) => Back(i)'
    BY <1>2, <2>1 DEF Back
  <2> QED  BY <1>3, <2>1, <2>2
<1>9. ASSUME NEW w \in Workers, TakeTx(w) PROVE Tells'
  <2>1. /\ rounds' = rounds /\ tasks' = tasks /\ order'.status = order.status
        /\ order'.archived = order.archived /\ order'.area = order.area
    BY <1>2, <1>9 DEF TakeTx, OrderRow
  <2>2. ASSUME NEW i \in DOMAIN rounds, Back(i) PROVE Back(i)'
    <3>1. CASE "robo" \in drift'
      BY <2>1, <2>2, <3>1 DEF Back
    <3>2. CASE "robo" \notin drift'
      <4>1. order.holder \in {NoOne, Shared} /\ "robo" \notin drift
        BY <1>2, <1>9, <3>2 DEF TakeTx, Takeable
      <4>2. rounds[i].sender \in Designers \cup {Shared}
        <5>1. rounds[i] \in Round
          BY <1>2, ElementOfSeq
        <5> QED  BY <5>1 DEF Round
      <4>3. rounds[i].sender # NoOne
        BY <4>2, NameAssumption DEF NoOne, Shared
      <4>4. rounds[i].sender = Shared
        BY <2>2, <4>1, <4>3 DEF Back
      <4> QED  BY <2>1, <2>2, <4>4 DEF Back
    <3> QED  BY <3>1, <3>2
  <2> QED  BY <1>3, <2>1, <2>2
<1>10. ASSUME NEW w \in Workers, SendTx(w) PROVE Tells'
  <2> PICK i : i = Len(rounds) + 1
    OBVIOUS
  <2>1. order'.status = "esperando" /\ order'.archived = FALSE
    BY <1>2, <1>10 DEF SendTx, OrderRow
  <2>2. job[w].number \in 1..(Top + 1) /\ Top \in Nat
    BY <1>10 DEF SendTx, Shape, JobsFit, JobFits, Filled
  <2>3. ~(job[w].number < Top)
    BY <1>10 DEF SendTx, Excused
  <2>4. /\ rounds' \in Seq(Round) /\ Len(rounds') = i
        /\ rounds'[i].number = job[w].number
        /\ ~rounds'[i].approved /\ ~rounds'[i].feedback
        /\ Top' = (IF job[w].number = Top + 1 THEN Top + 1 ELSE Top)
    BY <1>10, SendNumbers
  <2>5. Top' = job[w].number
    BY <2>2, <2>3, <2>4
  <2>6. i \in DOMAIN rounds'
    BY <1>2, <2>4
  <2>7. i \in LastRounds' /\ Unanswered(i)'
    BY <2>4, <2>5, <2>6 DEF LastRounds, Number, Unanswered
  <2> QED  BY <2>1, <2>7 DEF Tells, TellsWaiting, TellsBack, TellsApproved
<1>11. ASSUME NEW w \in Workers, FeedbackTx(w) PROVE Tells'
  <2> PICK i : i = job[w].round
    OBVIOUS
  <2>1. Verdict(w, "feedback") /\ pc[w] = "rechaza" /\ order' = Returned(i)
    BY <1>11 DEF FeedbackTx
  <2>2. /\ i \in LastRounds' /\ rounds'[i].feedback
        /\ rounds'[i].sender = rounds[i].sender
    BY <2>1, VerdictOnLast
  <2>3. /\ order'.status = "cambios" /\ order'.archived = FALSE /\ order'.area = Design
        /\ order'.holder = rounds[i].sender
    BY <1>2, <2>1 DEF Returned, OrderRow
  <2>4. Back(i)'
    BY <2>2, <2>3 DEF Back
  <2> QED  BY <2>2, <2>3, <2>4 DEF Tells, TellsWaiting, TellsBack, TellsApproved
<1>12. ASSUME NEW w \in Workers, ApproveTx(w) PROVE Tells'
  <2> PICK i : i = job[w].round
    OBVIOUS
  <2>1. Verdict(w, "approved") /\ pc[w] = "autoriza" /\ tasks' = tasks \cup job[w].areas
    BY <1>12 DEF ApproveTx
  <2>2. i \in LastRounds' /\ rounds'[i].approved
    BY <2>1, VerdictOnLast
  <2>3. order'.status = "autorizado" /\ order'.archived = TRUE
    BY <1>2, <1>12 DEF ApproveTx, OrderRow
  <2>4. tasks' # {}
    BY <2>1 DEF Shape, JobsFit, JobFits
  <2> QED  BY <2>2, <2>3, <2>4 DEF Tells, TellsWaiting, TellsBack, TellsApproved
<1> QED
  BY <1>4, <1>5, <1>6, <1>7, <1>8, <1>9, <1>10, <1>11, <1>12, Steps

(* The status of the order and its last round say the same, whatever        *)
(* requests interleave: the round waits, it is back with the designer who   *)
(* sent it, or it was approved and production has tasks.                    *)
THEOREM Status_Tells_Last_Round == Spec => []StatusTellsLastRound
<1>1. Init => (~Excused => Tells)
  <2> SUFFICES ASSUME Init PROVE order.status \in {"en diseno", "otro"}
    BY DEF Tells, TellsWaiting, TellsBack, TellsApproved
  <2>1. ASSUME NEW p \in People,
               order = [status |-> "en diseno", area |-> Design, holder |-> p,
                        starter |-> NoOne, archived |-> FALSE]
        PROVE  order.status = "en diseno"
    BY <2>1
  <2>2. ASSUME NEW a \in Areas,
               order = [status |-> "otro", area |-> a, holder |-> NoOne,
                        starter |-> NoOne, archived |-> FALSE]
        PROVE  order.status = "otro"
    BY <2>2
  <2> QED  BY <2>1, <2>2 DEF Init, NewOrders
<1> QED  BY <1>1, ShapeInit, ShapeStep, TellsStep, TellsIs, PTL DEF Spec

-----------------------------------------------------------------------------
(* The open answers: what a step may change of them.                        *)
Closes == /\ Len(answers') = Len(answers) /\ Pending' \subseteq Pending
          /\ \A k \in DOMAIN answers : answers'[k].round = answers[k].round

LEMMA ResolveCloses ==
  ASSUME Shape, NEW R, NEW st \in AnswerStates, st # "pendiente", answers' = Resolve(R, st)
  PROVE  Closes
<1>1. /\ Len(answers') = Len(answers) /\ DOMAIN answers' = DOMAIN answers
      /\ \A k \in DOMAIN answers :
           /\ answers'[k].round = answers[k].round
           /\ answers'[k].state = IF k \in R THEN st ELSE answers[k].state
  BY Resolved DEF Shape
<1> QED  BY <1>1 DEF Closes, Pending

LEMMA AnswersStep ==
  ASSUME Shape, [Next]_vars
  PROVE  Closes \/ \E w \in Workers : RespondCommit(w)
<1>1. answers' = answers => Closes
  BY DEF Closes, Pending
<1>2. Quiet \/ ByHand => answers' = answers
  BY DEF Quiet, db, ByHand, SetByHand
<1>3. Dismissal => Closes
  BY ResolveCloses DEF Dismissal, Discard, AnswerStates
<1>4. \A w \in Workers : TakeTx(w) \/ StartTx(w) \/ SendTx(w) => answers' = answers
  BY DEF TakeTx, StartTx, SendTx
<1>5. \A w \in Workers : FeedbackTx(w) \/ ApproveTx(w) => Closes
  BY ResolveCloses DEF FeedbackTx, ApproveTx, Verdict, AnswerStates
<1> QED  BY <1>1, <1>2, <1>3, <1>4, <1>5, Steps

LEMMA Replied ==
  ASSUME Shape, NEW w \in Workers, RespondCommit(w)
  PROVE  /\ Len(answers') = Len(answers) + 1
         /\ \A k \in DOMAIN answers : answers'[k].round = answers[k].round
         /\ answers'[Len(answers) + 1].round = job[w].round
         /\ Pending' = (Pending \ job[w].hides) \cup {Len(answers) + 1}
<1> DEFINE new  == [round |-> job[w].round, state |-> "pendiente"]
           rest == Resolve(job[w].hides \cap Pending, "reemplazada")
<1>1. /\ rest \in Seq(Answer) /\ Len(rest) = Len(answers) /\ DOMAIN rest = DOMAIN answers
      /\ \A k \in DOMAIN answers :
           /\ rest[k].round = answers[k].round
           /\ rest[k].state = IF k \in job[w].hides \cap Pending THEN "reemplazada"
                              ELSE answers[k].state
  BY Resolved DEF Shape, AnswerStates
<1>2. job[w] \in Job /\ job[w].round \in DOMAIN rounds /\ rounds \in Seq(Round)
  BY ShapeTypes DEF Shape, RespondCommit, JobsFit, JobFits, OnARound
<1>3. new \in Answer /\ new.round = job[w].round /\ new.state = "pendiente"
  BY <1>2 DEF Answer, AnswerStates
<1>4. answers' = Append(rest, new)
  BY DEF RespondCommit
<1> HIDE DEF new, rest
<1>5. /\ Len(answers') = Len(answers) + 1
      /\ DOMAIN answers' = DOMAIN answers \cup {Len(answers) + 1}
      /\ \A k \in DOMAIN answers : answers'[k] = rest[k]
      /\ answers'[Len(answers) + 1] = new
  BY <1>1, <1>3, <1>4
<1>6. Len(answers) + 1 \notin DOMAIN answers
  BY <1>1
<1> QED  BY <1>1, <1>3, <1>5, <1>6 DEF Pending

(* A request that is replacing the open answers has seen those of its time. *)
Sees(w) == pc[w] = "reemplaza" =>
             /\ job[w].seen \in 0..Len(answers)
             /\ \A k \in Pending : k <= job[w].seen => k \in job[w].hides

AllSee == \A w \in Workers : Sees(w)

LEMMA EntersReplacing ==
  ASSUME Shape, [Next]_vars, NEW w \in Workers, pc'[w] = "reemplaza"
  PROVE  RespondReplace(w) \/ (pc[w] = "reemplaza" /\ job'[w] = job[w])
<1>1. pc \in [Workers -> Places] /\ job \in [Workers -> Job]
  BY ShapeTypes DEF Shape
<1> DEFINE Same == pc[w] = "reemplaza" /\ job'[w] = job[w]
<1>2. ASSUME NEW v \in Workers, End(v) PROVE Same
  BY <1>1, <1>2 DEF End
<1>3. ASSUME NEW v \in Workers, NEW where \in Places \ {"reemplaza"}, NEW j,
             Begin(v, where, j)
      PROVE  Same
  BY <1>1, <1>3 DEF Begin
<1>4. ASSUME NEW v \in Workers, NEW where \in Places \ {"reemplaza"}, Goto(v, where),
             job' = job \/ \E as : job' = [job EXCEPT ![v].areas = as]
      PROVE  Same
  BY <1>1, <1>4 DEF Goto
<1>5. ASSUME NEW v \in Workers, RespondReplace(v), v # w PROVE Same
  BY <1>1, <1>5 DEF RespondReplace, Goto
<1>6. ASSUME NEW v \in Workers, Handler(v) PROVE Same \/ RespondReplace(w)
  <2>1. CheckNewer(v) \/ CheckStatus(v) \/ PlanRead(v) => Same
    BY <1>4 DEF CheckNewer, CheckStatus, PlanRead, Places
  <2>2. TakeTx(v) \/ StartTx(v) \/ SendTx(v) \/ FeedbackTx(v) \/ ApproveTx(v)
          \/ RespondCommit(v) \/ GiveUp(v) => End(v)
    BY DEF TakeTx, StartTx, SendTx, FeedbackTx, ApproveTx, Verdict, RespondCommit, GiveUp
  <2> QED  BY <1>2, <1>5, <1>6, <2>1, <2>2 DEF Handler
<1>7. ASSUME NEW v \in Workers, NEW d, NEW i,
             \/ StartRead(v, d) \/ SendRead(v, d) \/ TakeRead(v, d)
             \/ VerdictRead(v, i) \/ RespondRead(v, i)
      PROVE  Same
  BY <1>3, <1>7 DEF StartRead, SendRead, TakeRead, VerdictRead, RespondRead, Places
<1>8. ByHand \/ Dismissal \/ UNCHANGED vars => Same
  BY DEF ByHand, SetByHand, Dismissal, Discard, vars
<1> HIDE DEF Same
<1>9. Same \/ RespondReplace(w)
  BY <1>6, <1>7, <1>8 DEF Next, ByHand, Dismissal
<1> QED  BY <1>9 DEF Same

LEMMA SeesStep == Shape /\ AllSee /\ [Next]_vars => AllSee'
<1> SUFFICES ASSUME Shape, AllSee, [Next]_vars,
                    NEW w \in Workers, pc'[w] = "reemplaza"
             PROVE  /\ job'[w].seen \in 0..Len(answers')
                    /\ \A k \in Pending' : k <= job'[w].seen => k \in job'[w].hides
  BY DEF AllSee, Sees
<1>1. Len(answers) \in Nat /\ DOMAIN answers = 1..Len(answers) /\ job \in [Workers -> Job]
  BY ShapeTypes DEF Shape
<1>2. CASE RespondReplace(w)
  <2>1. answers' = answers
    BY <1>2 DEF RespondReplace, Goto, db
  <2>2. job'[w].seen = Len(answers) /\ job'[w].hides = Pending
    BY <1>1, <1>2 DEF RespondReplace, Superseded, Job
  <2>3. Pending' = Pending
    BY <2>1 DEF Pending
  <2> QED  BY <1>1, <2>1, <2>2, <2>3
<1>3. CASE pc[w] = "reemplaza" /\ job'[w] = job[w]
  <2>1. /\ job[w].seen \in 0..Len(answers)
        /\ \A k \in Pending : k <= job[w].seen => k \in job[w].hides
    BY <1>3 DEF AllSee, Sees
  <2>2. CASE Closes
    BY <1>1, <1>3, <2>1, <2>2 DEF Closes
  <2>3. ASSUME NEW v \in Workers, RespondCommit(v)
        PROVE  /\ job'[w].seen \in 0..Len(answers')
               /\ \A k \in Pending' : k <= job'[w].seen => k \in job'[w].hides
    <3>1. /\ Len(answers') = Len(answers) + 1
          /\ Pending' = (Pending \ job[v].hides) \cup {Len(answers) + 1}
      BY <2>3, Replied
    <3> QED  BY <1>1, <1>3, <2>1, <3>1
  <2> QED  BY <2>2, <2>3, AnswersStep
<1> QED  BY <1>2, <1>3, EntersReplacing

Open == /\ \A j, k \in Pending : j = k
        /\ \A k \in Pending : /\ answers[k].round \in DOMAIN rounds
                              /\ Unanswered(answers[k].round)

OpenUnlessMissed == "cliente" \notin drift => Open

LEMMA OpenStep == Shape /\ AllSee /\ OpenUnlessMissed /\ [Next]_vars => OpenUnlessMissed'
<1> SUFFICES ASSUME Shape, AllSee, OpenUnlessMissed, [Next]_vars, "cliente" \notin drift'
             PROVE  Open'
  BY DEF OpenUnlessMissed
<1>1. Open
  BY DriftStays DEF OpenUnlessMissed
<1>2. /\ Len(answers) \in Nat /\ DOMAIN answers = 1..Len(answers)
      /\ job \in [Workers -> Job] /\ Pending \subseteq DOMAIN answers
  BY ShapeTypes DEF Shape, Pending
<1>3. ASSUME NEW w \in Workers, RespondCommit(w) PROVE Open'
  <2> PICK i : i = job[w].round
    OBVIOUS
  <2>1. Awaiting(i) /\ Len(answers) = job[w].seen
    BY <1>3 DEF RespondCommit, Note
  <2>2. Pending \subseteq job[w].hides
    BY <1>2, <1>3, <2>1 DEF RespondCommit, AllSee, Sees
  <2>3. /\ Pending' = {Len(answers) + 1}
        /\ answers'[Len(answers) + 1].round = i
    BY <1>3, <2>2, Replied
  <2>4. i \in DOMAIN rounds /\ rounds' = rounds
    BY <1>3 DEF RespondCommit, Shape, JobsFit, JobFits, OnARound
  <2> QED  BY <2>1, <2>3, <2>4 DEF Open, Awaiting, Unanswered
<1>4. CASE Closes
  <2>1. CASE rounds' = rounds
    BY <1>1, <1>2, <1>4, <2>1 DEF Closes, Open, Unanswered
  <2>2. ASSUME NEW w \in Workers, SendTx(w) PROVE Open'
    <3>1. /\ rounds' \in Seq(Round) /\ Len(rounds') = Len(rounds) + 1
          /\ \A i \in DOMAIN rounds : rounds'[i] = rounds[i]
      BY <2>2, SendNumbers
    <3>2. DOMAIN rounds \subseteq DOMAIN rounds'
      BY <3>1, ShapeTypes DEF Shape
    <3> QED  BY <1>1, <1>2, <1>4, <3>1, <3>2 DEF Closes, Open, Unanswered
  <2>3. ASSUME NEW w \in Workers, FeedbackTx(w) \/ ApproveTx(w) PROVE Open'
    <3>1. PICK field \in {"approved", "feedback"} :
            Verdict(w, field) /\ pc[w] \in {"rechaza", "autoriza"}
      BY <2>3 DEF FeedbackTx, ApproveTx
    <3>2. Pending' = {}
      BY <3>1, VerdictRows
    <3> QED  BY <3>2 DEF Open
  <2> QED  BY <2>1, <2>2, <2>3, RoundsStay
<1> QED  BY <1>3, <1>4, AnswersStep

(* The portal keeps at most one open answer of an order, on a round nobody  *)
(* has judged: what a transaction did not see when it replaced the open     *)
(* answers is noted, and without it there is nothing it left open.          *)
THEOREM One_Open_Answer == Spec => []OneOpenAnswer
<1>1. Init => AllSee /\ OpenUnlessMissed
  <2> SUFFICES ASSUME Init PROVE AllSee /\ Open
    BY DEF OpenUnlessMissed
  <2>1. Pending = {}
    BY DEF Init, Pending
  <2> QED  BY <2>1 DEF Init, AllSee, Sees, Open
<1>2. Open => Cardinality(Pending) <= 1 /\ \A k \in Pending : Unanswered(answers[k].round)
  <2> SUFFICES ASSUME Open PROVE Cardinality(Pending) <= 1
    BY DEF Open
  <2>1. CASE Pending = {}
    BY <2>1, FS_EmptySet
  <2>2. CASE Pending # {}
    <3>1. PICK k \in Pending : Pending = {k}
      BY <2>2 DEF Open
    <3> QED  BY <3>1, FS_Singleton
  <2> QED  BY <2>1, <2>2
<1>3. OpenUnlessMissed => OneOpenAnswer
  BY <1>2 DEF OneOpenAnswer, OpenUnlessMissed
<1> QED  BY <1>1, <1>3, ShapeInit, ShapeStep, SeesStep, OpenStep, PTL DEF Spec
=============================================================================
