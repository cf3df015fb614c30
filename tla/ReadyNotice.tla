---------------------------- MODULE ReadyNotice ----------------------------
(***************************************************************************)
(* The share link of an order and the notice its client gets when the      *)
(* order is ready (ClientPortalService and ClientReadyNoticeService).      *)
(*                                                                         *)
(* A minute cron looks for links not yet notified whose order is ready,    *)
(* claims each one and only then sends.  A slow run overlaps the next one; *)
(* links are made, regenerated and revoked, devices come and go, and the   *)
(* order moves, between any two calls of a run.                            *)
(***************************************************************************)
EXTENDS Integers, FiniteSets, FiniteSetsExt

CONSTANTS
  Orders,
  Devices,      \* browsers that may subscribe
  Workers,      \* requests that may run at the same time
  Runs,         \* runs of the cron that may overlap
  Take,         \* links a run looks at: 50 in the code
  MaxDevices,   \* subscriptions of a link: 10 in the code
  MaxTokens,    \* bound: tokens ever made
  MaxRequests   \* bound: requests ever made

ASSUME BoundAssumption == {Take, MaxDevices, MaxTokens, MaxRequests} \subseteq Nat

Ready   == {"terminado", "entregado"}     \* readyNotifiedAtFor
Email   == "correo"
ASSUME EmailAssumption == Email \notin Devices

NoLink  == [id |-> 0, token |-> 0, notified |-> FALSE]
NoJob   == [order |-> "ninguno", ready |-> FALSE, id |-> 0, device |-> "ninguno"]
NoRun   == [batch |-> {}, at |-> "espera", id |-> 0, order |-> "ninguno", to |-> {}, token |-> 0]

VARIABLES
  status,    \* by order
  link,      \* by order: its OrderShareLink row, or NoLink
  subs,      \* PortalPushSubscription rows: link id and device
  tokens,    \* tokens made so far; a row takes the number of its first one
  pc, job,   \* requests
  run,       \* runs of the cron
  told,      \* history: notices sent, by link row and recipient
  born,      \* history: link rows made when the order was already ready
  requests

rows == << status, link, subs, tokens, born >>
vars == << rows, pc, job, run, told, requests >>

Ids == 1..MaxTokens
Init ==
  /\ status \in [Orders -> {"abierto", "terminado"}]
  /\ link = [o \in Orders |-> NoLink]
  /\ subs = {} /\ tokens = 0 /\ born = {}
  /\ pc = [w \in Workers |-> "libre"] /\ job = [w \in Workers |-> NoJob]
  /\ run = [r \in Runs |-> NoRun]
  /\ told = [n \in Ids \X (Devices \cup {Email}) |-> 0]
  /\ requests = 0

-----------------------------------------------------------------------------
(* Requests.                                                                *)

Live(id) == \E o \in Orders : link[o].id = id /\ id # 0

(* Mutant of Of: the subscriptions outlive their link.                      *)
OfNone(id) == {}
Of(id) == {s \in subs : s.link = id}

Count == requests < MaxRequests /\ requests' = requests + 1

Begin(w, where, j) ==
  /\ pc[w] = "libre"
  /\ Count
  /\ pc' = [pc EXCEPT ![w] = where]
  /\ job' = [job EXCEPT ![w] = j]
  /\ UNCHANGED << rows, run, told >>

End(w) ==
  /\ pc' = [pc EXCEPT ![w] = "libre"]
  /\ job' = [job EXCEPT ![w] = NoJob]
  /\ UNCHANGED << run, told, requests >>

(* assertOrderExists: the status that decides whether the link is born      *)
(* notified.                                                                *)
LinkRead(w, o, where) ==
  Begin(w, where, [NoJob EXCEPT !.order = o, !.ready = status[o] \in Ready])

Create(o, ready) ==
  /\ link' = [link EXCEPT ![o] = [id |-> tokens + 1, token |-> tokens + 1, notified |-> ready]]
  /\ born' = IF ready THEN born \cup {tokens + 1} ELSE born

(* ensureLink: an upsert that leaves an existing link alone.                *)
Ensure(w) ==
  LET o == job[w].order IN
  /\ pc[w] = "crea"
  /\ tokens < MaxTokens
  /\ IF link[o] = NoLink
     THEN Create(o, job[w].ready) /\ tokens' = tokens + 1
     ELSE UNCHANGED << link, born, tokens >>
  /\ End(w)
  /\ UNCHANGED << status, subs >>

(* regenerateLink: the subscriptions go, and then the row gets a new token. *)
RegenerateSubs(w) ==
  /\ pc[w] = "regenera"
  /\ subs' = subs \ Of(link[job[w].order].id)
  /\ pc' = [pc EXCEPT ![w] = "renueva"]
  /\ UNCHANGED << status, link, tokens, born, job, run, told, requests >>

Regenerate(w) ==
  LET o == job[w].order IN
  /\ pc[w] = "renueva"
  /\ tokens < MaxTokens
  /\ tokens' = tokens + 1
  /\ IF link[o] = NoLink
     THEN Create(o, job[w].ready)
     ELSE link' = [link EXCEPT ![o].token = tokens + 1] /\ UNCHANGED born
  /\ End(w)
  /\ UNCHANGED << status, subs >>

(* revokeLink: the row goes with its subscriptions.                         *)
Revoke(o) ==
  /\ Count
  /\ link[o] # NoLink
  /\ link' = [link EXCEPT ![o] = NoLink]
  /\ subs' = subs \ Of(link[o].id)
  /\ UNCHANGED << status, tokens, born, pc, job, run, told >>

(* subscribe: the link of the token, the number of its devices, the upsert. *)
SubscribeRead(w, o, d) ==
  /\ link[o] # NoLink
  /\ [link |-> link[o].id, device |-> d] \in subs \/ Cardinality(Of(link[o].id)) < MaxDevices
  /\ Begin(w, "suscribe", [NoJob EXCEPT !.id = link[o].id, !.device = d])

Subscribe(w) ==
  /\ pc[w] = "suscribe"
  /\ subs' = IF Live(job[w].id)
             THEN subs \cup {[link |-> job[w].id, device |-> job[w].device]} ELSE subs
  /\ End(w)
  /\ UNCHANGED << status, link, tokens, born >>

Unsubscribe(s) ==
  /\ Count
  /\ subs' = subs \ {s}
  /\ UNCHANGED << status, link, tokens, born, pc, job, run, told >>

(* The rest of the system moves the order.                                  *)
SetStatus(o, s) ==
  /\ Count
  /\ status' = [status EXCEPT ![o] = s]
  /\ UNCHANGED << link, subs, tokens, born, pc, job, run, told >>

-----------------------------------------------------------------------------
(* The cron: sendDueNotices and notifyLink.                                 *)

Due == {o \in Orders : link[o] # NoLink /\ ~link[o].notified /\ status[o] = "terminado"}

CronRead(r) ==
  /\ run[r] = NoRun
  /\ Due # {}
  /\ \E few \in kSubset(IF Cardinality(Due) < Take THEN Cardinality(Due) ELSE Take, Due) :
       run' = [run EXCEPT ![r].batch = {link[o].id : o \in few}, ![r].at = "reclama"]
  /\ UNCHANGED << rows, pc, job, told, requests >>

(* On to the next link of the run.                                          *)
Following(r, id) ==
  run' = [run EXCEPT ![r] = IF run[r].batch \ {id} = {} THEN NoRun
                            ELSE [NoRun EXCEPT !.batch = run[r].batch \ {id}, !.at = "reclama"]]

(* Mutants of Claimable: the link is only looked up by its id; one with a   *)
(* new token is not found.                                                  *)
ClaimableById(o, id) == link[o].id = id
ClaimableFirst(o, id) == link[o].id = id /\ ~link[o].notified /\ link[o].token = id
Claimable(o, id) == link[o].id = id /\ ~link[o].notified

Claim(r) ==
  /\ run[r].at = "reclama"
  /\ \E id \in run[r].batch :
       IF \E o \in Orders : Claimable(o, id)
       THEN \E o \in {o \in Orders : Claimable(o, id)} :
              /\ link' = [link EXCEPT ![o].notified = TRUE]
              /\ run' = [run EXCEPT ![r].at = "lee", ![r].id = id, ![r].order = o]
       ELSE Following(r, id) /\ UNCHANGED link
  /\ UNCHANGED << status, subs, tokens, born, pc, job, told, requests >>

ReadLink(r) ==
  /\ run[r].at = "lee"
  /\ IF Live(run[r].id)
     THEN run' = [run EXCEPT ![r].at = "envia", ![r].token = link[run[r].order].token,
                             ![r].to = {s.device : s \in Of(run[r].id)}]
     ELSE Following(r, run[r].id)
  /\ UNCHANGED << rows, pc, job, told, requests >>

Tell(r, who) == told' = [told EXCEPT ![<< run[r].id, who >>] = @ + 1]

(* A push is sent, fails, or finds that the device is gone.                 *)
Push(r) ==
  /\ run[r].at = "envia"
  /\ \E d \in run[r].to :
       /\ run' = [run EXCEPT ![r].to = @ \ {d}]
       /\ \/ Tell(r, d) /\ UNCHANGED subs
          \/ UNCHANGED << told, subs >>
          \/ subs' = subs \ {[link |-> run[r].id, device |-> d]} /\ UNCHANGED told
  /\ UNCHANGED << status, link, tokens, born, pc, job, requests >>

(* sendEmail, once every device was tried; it may fail or have no address.  *)
SendEmail(r) ==
  /\ run[r].at = "envia"
  /\ run[r].to = {}
  /\ Tell(r, Email) \/ UNCHANGED told
  /\ Following(r, run[r].id)
  /\ UNCHANGED << rows, pc, job, requests >>

(* The process dies in the middle of a run.                                 *)
CronCrash(r) ==
  /\ run[r] # NoRun
  /\ Count
  /\ run' = [run EXCEPT ![r] = NoRun]
  /\ UNCHANGED << rows, pc, job, told >>

-----------------------------------------------------------------------------
Cron(r) == CronRead(r) \/ Claim(r) \/ ReadLink(r) \/ Push(r) \/ SendEmail(r)

Next ==
  \/ \E w \in Workers, o \in Orders, where \in {"crea", "regenera"} : LinkRead(w, o, where)
  \/ \E w \in Workers, o \in Orders, d \in Devices : SubscribeRead(w, o, d)
  \/ \E w \in Workers : Ensure(w) \/ RegenerateSubs(w) \/ Regenerate(w) \/ Subscribe(w)
  \/ \E o \in Orders : Revoke(o)
  \/ \E s \in subs : Unsubscribe(s)
  \/ \E o \in Orders, s \in {"abierto", "terminado", "entregado"} : SetStatus(o, s)
  \/ \E r \in Runs : Cron(r) \/ CronCrash(r)

Spec == Init /\ [][Next]_vars

(* The cron is started every minute and its runs go on to their end, unless *)
(* the process dies.                                                        *)
FairSpec == Spec /\ \A r \in Runs : WF_vars(Cron(r))

-----------------------------------------------------------------------------
(* Type invariant.                                                          *)
TypeOK ==
  /\ status \in [Orders -> {"abierto", "terminado", "entregado"}]
  /\ link \in [Orders -> [id : 0..MaxTokens, token : 0..MaxTokens, notified : BOOLEAN]]
  /\ subs \subseteq [link : Ids, device : Devices]
  /\ \A s \in subs : Live(s.link)
  /\ tokens \in 0..MaxTokens /\ born \subseteq 1..tokens
  /\ pc \in [Workers -> {"libre", "crea", "regenera", "renueva", "suscribe"}]
  /\ job \in [Workers -> [order : Orders \cup {"ninguno"}, ready : BOOLEAN,
                          id : 0..MaxTokens, device : Devices \cup {"ninguno"}]]
  /\ run \in [Runs -> [batch : SUBSET Ids, at : {"espera", "reclama", "lee", "envia"},
                       id : 0..MaxTokens, order : Orders \cup {"ninguno"},
                       to : SUBSET Devices, token : 0..MaxTokens]]
  /\ told \in [Ids \X (Devices \cup {Email}) -> Nat]
  /\ requests \in 0..MaxRequests

(* However many runs overlap and whatever happens to the link meanwhile, a  *)
(* recipient hears once at most of a link, and never of one that was made   *)
(* for an order already ready.                                              *)
OneNoticePerLink ==
  /\ \A n \in DOMAIN told : told[n] <= 1
  /\ \A n \in DOMAIN told : n[1] \in born => told[n] = 0

(* A link that waits for its notice while its order is ready gets it claimed*)
(* - or is revoked, or the order moves on - however few links a run takes.  *)
EveryReadyLinkClaimed == \A o \in Orders : o \in Due ~> o \notin Due
=============================================================================
