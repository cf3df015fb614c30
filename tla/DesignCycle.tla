---------------------------- MODULE DesignCycle ----------------------------
(***************************************************************************)
(* The design of one order: who holds it, the rounds of montage sent to    *)
(* the client, what the client answers from the portal, and the verdict    *)
(* the staff records (OrderService in order.service.ts, respond and        *)
(* discardResponse in client-portal.service.ts).                           *)
(*                                                                         *)
(* A Worker is an HTTP request in flight.  Each handler reads, checks and  *)
(* then writes in a transaction that does not repeat the checks; other     *)
(* requests run in between, and the process may die between any two calls. *)
(***************************************************************************)
EXTENDS Integers, Sequences, FiniteSets

CONSTANTS
  Designers,    \* personal accounts of the Diseno area
  Areas,        \* production areas
  Workers,      \* requests that may run at the same time
  MaxRounds,    \* bound: rounds ever sent
  MaxAnswers,   \* bound: answers ever given by the client
  MaxRequests   \* bound: requests ever made

NoOne  == "nadie"
Shared == "cuenta_compartida"
Design == "diseno"
ASSUME NameAssumption  == {NoOne, Shared} \cap Designers = {} /\ Design \notin Areas
ASSUME BoundAssumption == {MaxRounds, MaxAnswers, MaxRequests} \subseteq Nat

People   == Designers \cup {NoOne, Shared}
(* The design statuses, and "otro" for any status a person chooses by hand. *)
Statuses == {"en diseno", "esperando", "cambios", "autorizado", "otro"}
AnswerStates == {"pendiente", "aplicada", "descartada", "reemplazada"}
(* What makes a transaction act on something that is no longer so.          *)
Causes == {"ronda", "rezagada", "veredicto", "robo", "inicio", "cliente", "mano"}

NoJob == [who |-> NoOne, round |-> 0, number |-> 0, first |-> FALSE,
          areas |-> {}, hides |-> {}, seen |-> 0]

VARIABLES
  order,     \* Order: status, area, assignedUser, designStartedBy, archived
  rounds,    \* DesignRevision rows in the order they were inserted
  answers,   \* ClientDesignResponse rows in the order they were inserted
  tasks,     \* areas that have a task
  pc,        \* where each request is
  job,       \* what it read and what it wants
  requests,  \* requests made so far
  drift      \* history: the causes that have occurred

db   == << order, rounds, answers, tasks >>
vars == << db, pc, job, requests, drift >>

(* create: an order that needs design starts in Diseno, in the hands of     *)
(* nobody, of the person named or of the shared account; the tasks planned  *)
(* are made at once.  One that does not starts in its area.                 *)
NewOrders ==
  {[status |-> "en diseno", area |-> Design, holder |-> p, starter |-> NoOne,
    archived |-> FALSE] : p \in People}
  \cup {[status |-> "otro", area |-> a, holder |-> NoOne, starter |-> NoOne,
         archived |-> FALSE] : a \in Areas}

Init ==
  /\ order \in NewOrders
  /\ rounds = << >>
  /\ answers = << >>
  /\ tasks \in SUBSET Areas
  /\ pc = [w \in Workers |-> "libre"]
  /\ job = [w \in Workers |-> NoJob]
  /\ requests = 0
  /\ drift = {}

-----------------------------------------------------------------------------
Number(i) == rounds[i].number
Numbers   == {Number(i) : i \in DOMAIN rounds}
Top       == CHOOSE n \in Numbers \cup {0} : \A m \in Numbers : m <= n

(* Mutant of NextNumber: it counts the rounds that were rejected.           *)
NextNumberRejected == Cardinality({i \in DOMAIN rounds : rounds[i].feedback}) + 1

NextNumber == Top + 1

(* The rounds no other one follows; two sent at once share the number.      *)
LastRounds == {i \in DOMAIN rounds : Number(i) = Top}

(* Mutant of Unanswered: a rejected round can still be approved.            *)
UnansweredUnlessApproved(i) == ~rounds[i].approved
Unanswered(i) == ~rounds[i].approved /\ ~rounds[i].feedback

(* Mutant of Newest: any round may be answered.                             *)
NewestNotAsked(i) == TRUE
Newest(i) == \A j \in DOMAIN rounds : Number(j) <= Number(i)

Awaiting(i) == Unanswered(i) /\ Newest(i) /\ order.status = "esperando"

Pending   == {k \in DOMAIN answers : answers[k].state = "pendiente"}
Resolve(rows, state) ==
  [k \in DOMAIN answers |-> IF k \in rows THEN [answers[k] EXCEPT !.state = state]
                                          ELSE answers[k]]

(* Rows that the transaction of a client's answer has updated and not yet   *)
(* committed: another transaction that wants them waits.                    *)
Locked(k) == \E w \in Workers : pc[w] = "reemplaza" /\ k \in job[w].hides

Note(cause, when) == drift' = drift \cup (IF when THEN {cause} ELSE {})

Begin(w, where, j) ==
  /\ pc[w] = "libre"
  /\ requests < MaxRequests
  /\ requests' = requests + 1
  /\ pc' = [pc EXCEPT ![w] = where]
  /\ job' = [job EXCEPT ![w] = j]
  /\ UNCHANGED << db, drift >>

Goto(w, where) == pc' = [pc EXCEPT ![w] = where] /\ UNCHANGED << db, requests, drift >>

(* The request is over, with or without an error.                           *)
End(w) ==
  /\ pc' = [pc EXCEPT ![w] = "libre"]
  /\ job' = [job EXCEPT ![w] = NoJob]
  /\ UNCHANGED requests

GiveUp(w) == pc[w] # "libre" /\ End(w) /\ UNCHANGED << db, drift >>

-----------------------------------------------------------------------------
(* takeDesign and startDesign.                                              *)

Takeable == order.holder \in {NoOne, Shared}

(* Mutant of NotStarted: taking an order always counts as starting it.      *)
NotStartedAssumed == TRUE
NotStarted == order.starter = NoOne

TakeRead(w, d) ==
  Takeable /\ Begin(w, "toma", [NoJob EXCEPT !.who = d, !.first = NotStarted])

TakeTx(w) ==
  /\ pc[w] = "toma"
  /\ order' = [order EXCEPT !.holder  = job[w].who,
                            !.starter = IF job[w].first THEN job[w].who ELSE @]
  /\ drift' = drift \cup (IF Takeable THEN {} ELSE {"robo"})
                    \cup (IF job[w].first /\ ~NotStarted THEN {"inicio"} ELSE {})
  /\ End(w)
  /\ UNCHANGED << rounds, answers, tasks >>

StartRead(w, d) ==
  /\ order.area = Design
  /\ NotStarted
  /\ Begin(w, "inicia", [NoJob EXCEPT !.who = d])

StartTx(w) ==
  /\ pc[w] = "inicia"
  /\ order' = [order EXCEPT !.starter = job[w].who]
  /\ Note("inicio", ~NotStarted)
  /\ End(w)
  /\ UNCHANGED << rounds, answers, tasks >>

-----------------------------------------------------------------------------
(* createDesignRevision: in any status.  The last round is read, the files  *)
(* are stored, and then the transaction runs.                               *)

SendRead(w, d) ==
  /\ Len(rounds) + Cardinality({v \in Workers : pc[v] = "envia"}) < MaxRounds
  /\ Begin(w, "envia", [NoJob EXCEPT !.who = d, !.number = NextNumber])

SendTx(w) ==
  /\ pc[w] = "envia"
  /\ rounds' = Append(rounds, [number |-> job[w].number, sender |-> job[w].who,
                               approved |-> FALSE, feedback |-> FALSE])
  /\ order' = [order EXCEPT !.status = "esperando", !.archived = FALSE]
  /\ drift' = drift \cup (IF job[w].number # NextNumber THEN {"ronda"} ELSE {})
                    \cup (IF job[w].number < Top THEN {"rezagada"} ELSE {})
  /\ End(w)
  /\ UNCHANGED << answers, tasks >>

-----------------------------------------------------------------------------
(* addDesignFeedback and approveDesignRevision share                        *)
(* assertRevisionAwaitingResponse: three reads, one after the other.        *)

VerdictRead(w, i) ==
  Unanswered(i) /\ Begin(w, "posterior", [NoJob EXCEPT !.round = i])

CheckNewer(w) ==
  pc[w] = "posterior" /\ Newest(job[w].round) /\ Goto(w, "estado") /\ UNCHANGED job

CheckStatus(w) ==
  /\ pc[w] = "estado"
  /\ order.status = "esperando"
  /\ \E next \in {"plan", "rechaza"} : Goto(w, next)
  /\ UNCHANGED job

(* The areas of the approval: those sent, else those of the tasks, else the *)
(* one production area.  At least one, each with its materials sheet.       *)
PlanRead(w) ==
  /\ pc[w] = "plan"
  /\ \E as \in (SUBSET Areas) \ {{}} : job' = [job EXCEPT ![w].areas = as]
  /\ Goto(w, "autoriza")

StaleVerdict(w) == ~Awaiting(job[w].round)

(* Mutant of Returned: the status is looked up by the name of the area.     *)
ReturnedByArea(i)   == [order EXCEPT !.status = Design, !.area = Design,
                                     !.archived = FALSE, !.holder = rounds[i].sender]
Returned(i) == [order EXCEPT !.status = "cambios", !.area = Design,
                             !.archived = FALSE, !.holder = rounds[i].sender]

Verdict(w, field) ==
  /\ \A k \in Pending : ~Locked(k)
  /\ rounds' = IF field = "approved" THEN [rounds EXCEPT ![job[w].round].approved = TRUE]
                                     ELSE [rounds EXCEPT ![job[w].round].feedback = TRUE]
  /\ answers' = Resolve(Pending, "aplicada")
  /\ Note("veredicto", StaleVerdict(w))
  /\ End(w)

FeedbackTx(w) ==
  /\ pc[w] = "rechaza"
  /\ Verdict(w, "feedback")
  /\ order' = Returned(job[w].round)
  /\ UNCHANGED tasks

ApproveTx(w) ==
  /\ pc[w] = "autoriza"
  /\ Verdict(w, "approved")
  /\ \E a \in Areas : order' = [order EXCEPT !.status = "autorizado", !.area = a,
                                             !.holder = NoOne, !.archived = TRUE]
  /\ tasks' = tasks \cup job[w].areas

-----------------------------------------------------------------------------
(* The client's answer from the portal, and its dismissal.                  *)

RespondRead(w, i) ==
  /\ i \in LastRounds
  /\ Awaiting(i)
  /\ Len(answers) + Cardinality({v \in Workers : pc[v] \in {"contesta", "reemplaza"}})
       < MaxAnswers
  /\ Begin(w, "contesta", [NoJob EXCEPT !.round = i])

(* Mutant of Superseded: the earlier answer is not replaced.                *)
SupersededNone == {}
Superseded == Pending

(* First statement of the transaction: it sees the answers committed so far.*)
RespondReplace(w) ==
  /\ pc[w] = "contesta"
  /\ job' = [job EXCEPT ![w].hides = Superseded, ![w].seen = Len(answers)]
  /\ Goto(w, "reemplaza")

RespondCommit(w) ==
  /\ pc[w] = "reemplaza"
  /\ answers' = Append(Resolve(job[w].hides \cap Pending, "reemplazada"),
                       [round |-> job[w].round, state |-> "pendiente"])
  /\ Note("cliente", ~Awaiting(job[w].round) \/ Len(answers) # job[w].seen)
  /\ End(w)
  /\ UNCHANGED << order, rounds, tasks >>

(* discardResponse: one conditional update.                                 *)
Discard(k) ==
  /\ requests < MaxRequests
  /\ requests' = requests + 1
  /\ k \in Pending
  /\ ~Locked(k)
  /\ answers' = Resolve({k}, "descartada")
  /\ UNCHANGED << order, rounds, tasks, pc, job, drift >>

(* PATCH and the bulk action: any status, area or person, whatever it was;  *)
(* sending it through design again takes it out of the archive.             *)
SetByHand(s, a, p) ==
  /\ requests < MaxRequests
  /\ requests' = requests + 1
  /\ \E kept \in {order.archived, FALSE} :
       order' = [order EXCEPT !.status = s, !.area = a, !.holder = p, !.archived = kept]
  /\ drift' = drift \cup {"mano"}
  /\ UNCHANGED << rounds, answers, tasks, pc, job >>

-----------------------------------------------------------------------------
Handler(w) ==
  \/ TakeTx(w)      \/ StartTx(w)      \/ SendTx(w)
  \/ CheckNewer(w)  \/ CheckStatus(w)  \/ PlanRead(w)
  \/ FeedbackTx(w)  \/ ApproveTx(w)
  \/ RespondReplace(w) \/ RespondCommit(w)
  \/ GiveUp(w)

Next ==
  \/ \E w \in Workers : Handler(w)
  \/ \E w \in Workers, d \in Designers \cup {Shared} : StartRead(w, d) \/ SendRead(w, d)
  \/ \E w \in Workers, d \in Designers : TakeRead(w, d)
  \/ \E w \in Workers, i \in DOMAIN rounds : VerdictRead(w, i) \/ RespondRead(w, i)
  \/ \E k \in DOMAIN answers : Discard(k)
  \/ \E s \in Statuses, a \in Areas \cup {Design}, p \in People : SetByHand(s, a, p)

Spec == Init /\ [][Next]_vars

-----------------------------------------------------------------------------
(* Type invariant.                                                          *)
TypeOK ==
  /\ order \in [status : Statuses, area : Areas \cup {Design}, holder : People,
                starter : People, archived : BOOLEAN]
  /\ rounds \in Seq([number : Nat \ {0}, sender : Designers \cup {Shared},
                     approved : BOOLEAN, feedback : BOOLEAN])
  /\ answers \in Seq([round : Nat \ {0}, state : AnswerStates])
  /\ tasks \subseteq Areas
  /\ pc \in [Workers -> {"libre", "toma", "inicia", "envia", "posterior", "estado",
                         "plan", "rechaza", "autoriza", "contesta", "reemplaza"}]
  /\ job \in [Workers -> [who : People, round : Nat, number : Nat, first : BOOLEAN,
                          areas : SUBSET Areas, hides : SUBSET Nat, seen : Nat]]
  /\ requests \in 0..MaxRequests
  /\ drift \subseteq Causes

(* The rounds of an order are numbered 1, 2, 3... without a gap, however    *)
(* the requests interleave; unless two were being sent at once, each number *)
(* is the number of one round.                                              *)
RoundsNumbered ==
  /\ Numbers = 1..Top
  /\ "ronda" \notin drift => \A i \in DOMAIN rounds : Number(i) = i

(* A round is never both approved and rejected, unless the verdict of one   *)
(* request was committed after another had made it out of date.             *)
OneVerdictPerRound ==
  "veredicto" \notin drift => \A i \in DOMAIN rounds : ~(rounds[i].approved /\ rounds[i].feedback)

(* While nobody sets the order by hand, no verdict is out of date and no    *)
(* round came in after later ones, the status says what became of the last  *)
(* round: it waits, it came back to the designer who sent it, or it was     *)
(* approved, archived and sent to areas that have tasks.                    *)
StatusTellsLastRound ==
  drift \cap {"veredicto", "rezagada", "mano"} = {} =>
    /\ order.status = "esperando" =>
         ~order.archived /\ \E i \in LastRounds : Unanswered(i)
    /\ order.status = "cambios" =>
         /\ ~order.archived /\ order.area = Design
         /\ \E i \in LastRounds : /\ rounds[i].feedback
                                  /\ \/ rounds[i].sender \in {Shared, order.holder}
                                     \/ "robo" \in drift
    /\ order.status = "autorizado" =>
         order.archived /\ tasks # {} /\ \E i \in LastRounds : rounds[i].approved

(* "Solo puede haber una pendiente por pedido", and on a round that nobody  *)
(* has answered yet, unless the client's answer was committed after another *)
(* answer, or after a verdict, that its transaction did not see.            *)
OneOpenAnswer ==
  "cliente" \notin drift =>
    /\ Cardinality(Pending) <= 1
    /\ \A k \in Pending : Unanswered(answers[k].round)

(* The person recorded as having started the design is never replaced,      *)
(* unless two people began it at once.                                      *)
StartedOnce ==
  [][order.starter # NoOne /\ order'.starter # order.starter => "inicio" \in drift']_vars
=============================================================================
