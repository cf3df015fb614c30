----------------------------- MODULE QuoteBook -----------------------------
(***************************************************************************)
(* The quotes of Reception (QuoteService in quote.service.ts): each is in  *)
(* a stage and in a substate of it, is dated when it is sent, and may be   *)
(* linked to the order it became.  An update decides from a row it read    *)
(* before and writes only the fields it decided on.                        *)
(***************************************************************************)
EXTENDS Integers, FiniteSets

CONSTANTS
  Ids,          \* quotes that may come to exist
  Orders,       \* orders a quote may become
  Workers,      \* requests that may run at the same time
  Before, After,\* QUOTE_STATUSES_BY_STAGE: of por_enviar and of enviada
  MaxRequests   \* bound: requests ever made

None   == "ninguno"
Stages == {"por_enviar", "enviada"}
First  == [por_enviar |-> "lista", enviada |-> "esperando_respuesta"]
Accepted == "aceptada"
NoQuote  == [stage |-> None, status |-> None, sent |-> FALSE, order |-> None]
NoJob    == [quote |-> None, row |-> NoQuote, order |-> None]

VARIABLES
  quote,     \* the rows: stage, status, sentAt, orderId
  orders,    \* orders that exist
  pc, job,   \* where each request is, and what it read
  won,       \* history: quotes that have been accepted
  born,      \* history: quotes that have existed (ids are not used again)
  crossed,   \* history: quotes updated from a row that was out of date
  requests

vars == << quote, orders, pc, job, won, born, crossed, requests >>
still == << orders, born >>

Live == {q \in Ids : quote[q] # NoQuote}

Init ==
  /\ quote = [q \in Ids |-> NoQuote]
  /\ orders = Orders
  /\ pc = [w \in Workers |-> "libre"] /\ job = [w \in Workers |-> NoJob]
  /\ won = {} /\ born = {} /\ crossed = {}
  /\ requests = 0

-----------------------------------------------------------------------------
(* stageOfStatus.                                                           *)
StageOf(status) == IF status \in Before THEN "por_enviar" ELSE "enviada"

(* resolveStageStatus: the pairs a request for a stage and a substate, each *)
(* possibly absent, ends in; none when the two do not go together.          *)
Resolve(stage, status, now) ==
  CASE stage = None /\ status = None -> {now}
    [] stage # None /\ status = None ->
         {IF now.stage = stage THEN now ELSE [stage |-> stage, status |-> First[stage]]}
    [] stage = None /\ status # None -> {[stage |-> StageOf(status), status |-> status]}
    [] OTHER -> {[stage |-> stage, status |-> status] : s \in {StageOf(status)} \cap {stage}}

Asked == {None} \cup Stages
Wanted == {None} \cup Before \cup After
NewPair == [stage |-> "por_enviar", status |-> First["por_enviar"]]

Begin(w, where, j) ==
  /\ pc[w] = "libre"
  /\ requests < MaxRequests /\ requests' = requests + 1
  /\ pc' = [pc EXCEPT ![w] = where]
  /\ job' = [job EXCEPT ![w] = j]

End(w) ==
  /\ pc' = [pc EXCEPT ![w] = "libre"]
  /\ job' = [job EXCEPT ![w] = NoJob]
  /\ UNCHANGED requests

Put(q, row) ==
  /\ quote' = [quote EXCEPT ![q] = row]
  /\ won' = won \cup {x \in {q} : row.status = Accepted}

(* prepareCreate and its transaction: all the quotes of a list or none.     *)
Create(batch, stage, status) ==
  /\ requests < MaxRequests /\ requests' = requests + 1
  /\ batch \cap born = {}
  /\ \E next \in Resolve(stage, status, NewPair) :
       /\ quote' = [q \in Ids |->
            IF q \in batch
            THEN [stage |-> next.stage, status |-> next.status,
                  sent |-> next.stage = "enviada", order |-> None]
            ELSE quote[q]]
       /\ won' = won \cup {q \in batch : next.status = Accepted}
  /\ born' = born \cup batch
  /\ UNCHANGED << orders, pc, job, crossed >>

-----------------------------------------------------------------------------
(* update: the row is read, and the client's name with another query.       *)
UpdateRead(w, q) ==
  /\ q \in Live
  /\ Begin(w, "edita", [NoJob EXCEPT !.quote = q, !.row = quote[q]])
  /\ UNCHANGED << quote, won, crossed, still >>

(* Mutant of SentAfter: going back to por_enviar leaves the date.           *)
SentAfter1(next, seen, now) == IF next = "enviada" /\ ~seen THEN TRUE ELSE now
(* sentAt after the update: dated if it goes out and had no date when read, *)
(* cleared if it is to be sent, else as the row has it.                     *)
SentAfter(next, seen, now) ==
  IF next = "enviada" /\ ~seen THEN TRUE
  ELSE IF next = "por_enviar" THEN FALSE ELSE now

UpdateWrite(w, stage, status) ==
  LET q == job[w].quote
      seen == job[w].row
  IN /\ pc[w] = "edita"
     /\ \/ /\ \/ q \notin Live                                    \* P2025
              \/ Resolve(stage, status, seen) = {}                  \* refused
              \/ stage = None /\ status = None                      \* other fields
           /\ UNCHANGED << quote, won, crossed >>
        \/ /\ q \in Live /\ (stage # None \/ status # None)
           /\ \E next \in Resolve(stage, status, seen) :
                Put(q, [quote[q] EXCEPT !.stage = next.stage, !.status = next.status,
                                        !.sent = SentAfter(next.stage, seen.sent, @)])
           /\ crossed' = crossed \cup {x \in {q} : quote[q] # seen}
     /\ End(w)
     /\ UNCHANGED still

-----------------------------------------------------------------------------
(* linkOrder: accepted, an order that exists and that no other quote has,   *)
(* each looked at with a query of its own.                                  *)
LinkRead(w, q, o) ==
  /\ q \in Live /\ quote[q].status = Accepted
  /\ Begin(w, "pedido", [NoJob EXCEPT !.quote = q, !.order = o])
  /\ UNCHANGED << quote, won, crossed, still >>

LinkCheck(w) ==
  /\ pc[w] = "pedido"
  /\ IF /\ job[w].order \in orders
        /\ \A q \in Live \ {job[w].quote} : quote[q].order # job[w].order
     THEN pc' = [pc EXCEPT ![w] = "liga"] /\ UNCHANGED << job, requests >>
     ELSE End(w)
  /\ UNCHANGED << quote, won, crossed, still >>

(* orderId is unique and a foreign key: the database has the last word.     *)
LinkWrite(w) ==
  LET q == job[w].quote
      o == job[w].order
  IN /\ pc[w] = "liga"
     /\ IF q \in Live /\ o \in orders /\ \A p \in Live \ {q} : quote[p].order # o
        THEN Put(q, [quote[q] EXCEPT !.order = o])
        ELSE UNCHANGED << quote, won >>
     /\ End(w)
     /\ UNCHANGED << crossed, still >>

Remove(q) ==
  /\ q \in Live
  /\ quote' = [quote EXCEPT ![q] = NoQuote]
  /\ UNCHANGED << orders, pc, job, won, born, crossed, requests >>

(* The order is deleted: ON DELETE SET NULL.                                *)
DeleteOrder(o) ==
  /\ o \in orders
  /\ orders' = orders \ {o}
  /\ quote' = [q \in Ids |-> IF quote[q].order = o THEN [quote[q] EXCEPT !.order = None]
                             ELSE quote[q]]
  /\ UNCHANGED << pc, job, won, born, crossed, requests >>

-----------------------------------------------------------------------------
(* findAll: the quotes a tab and a chip of the board show.                  *)
Listed(stage, status) ==
  {q \in Live : /\ stage = None \/ quote[q].stage = stage
                /\ status = None \/ quote[q].status = status
                /\ stage = None \/ status = None \/ StageOf(status) = stage}

Next ==
  \/ \E b \in (SUBSET Ids) \ {{}}, st \in Asked, ss \in Wanted : Create(b, st, ss)
  \/ \E w \in Workers, q \in Ids : UpdateRead(w, q) \/ \E o \in Orders : LinkRead(w, q, o)
  \/ \E w \in Workers, st \in Asked, ss \in Wanted : UpdateWrite(w, st, ss)
  \/ \E w \in Workers : LinkCheck(w) \/ LinkWrite(w)
  \/ \E q \in Ids : Remove(q)
  \/ \E o \in Orders : DeleteOrder(o)

Spec == Init /\ [][Next]_vars

-----------------------------------------------------------------------------
(* Type invariant.                                                          *)
TypeOK ==
  /\ quote \in [Ids -> {NoQuote} \cup [stage : Stages, status : Before \cup After,
                                       sent : BOOLEAN, order : {None} \cup Orders]]
  /\ orders \subseteq Orders
  /\ pc \in [Workers -> {"libre", "edita", "pedido", "liga"}]
  /\ \A w \in Workers : (pc[w] = "libre") = (job[w] = NoJob)
  /\ won \subseteq born /\ crossed \subseteq born /\ Live \subseteq born

(* Every quote is in one tab of the board and under one chip of that tab;   *)
(* a quote is dated exactly while it is sent, unless an update wrote over   *)
(* one it had not seen; and an order came of at most one quote, that was    *)
(* accepted, whatever requests overlap.                                     *)
QuoteDated ==
  /\ \A q \in Live :
       /\ \E st \in Stages : \A s2 \in Stages : q \in Listed(s2, None) <=> s2 = st
       /\ \E ss \in Before \cup After :
            q \in Listed(quote[q].stage, ss) /\ q \in Listed(None, ss)
       /\ q \in crossed \/ (quote[q].sent <=> quote[q].stage = "enviada")
       /\ quote[q].order # None => q \in won
  /\ \A p, q \in Live : p # q /\ quote[p].order # None => quote[p].order # quote[q].order
=============================================================================
