----------------------------- MODULE ChangeFeed -----------------------------
(***************************************************************************)
(* Who follows the writes (PrismaService.changes).  Every write is         *)
(* announced as soon as it is done: RealtimeService gathers the            *)
(* announcements and tells the screens to read again, and                  *)
(* ClientInsightService gathers them and learns again the profile of the   *)
(* clients whose orders changed.  Inside an interactive transaction the    *)
(* announcement comes before the commit.                                   *)
(***************************************************************************)
EXTENDS Integers, FiniteSets

CONSTANTS
  Orders, Clients,
  Workers,       \* rebuilds that may overlap: of the feed, or a request for a profile
  MaxWrites,     \* bound: writes of orders
  MaxSetbacks    \* bound: failures and restarts

Nobody == "nadie"
Contents == {"lista", "cancelada"}
NoRow  == [client |-> Nobody, content |-> "borrada"]
Rows   == [client : Clients, content : Contents] \cup {NoRow}
NoJob  == [at |-> "libre", orders |-> {}, clients |-> {}, client |-> Nobody,
           read |-> {}, passed |-> FALSE]

VARIABLES
  order,       \* the rows, as committed
  tx,          \* the interactive transaction in flight, if any
  pending,     \* pendingClients and pendingOrders; the timer is set while one is not empty
  gathered,    \* RealtimeService has something pending
  profile,     \* ClientInsight: what the stored profile was built from, if any
  booting,     \* the backfill of the start has not run
  job,
  fresh,       \* history: the screens read after the last commit
  excused,     \* history: why the profile of a client, or the screens, may be behind
  writes, setbacks

vars == << order, tx, pending, gathered, profile, booting, job, fresh, excused, writes,
           setbacks >>

Followers == Clients \cup {"pantallas"}

(* What buildClientProfile looks at: the orders that are not cancelled.     *)
History(c) == {<< o, order[o].content >> :
                o \in {i \in Orders : order[i].client = c /\ order[i].content # "cancelada"}}

Init ==
  /\ order \in [Orders -> {NoRow} \cup [client : Clients, content : {"lista"}]]
  /\ profile \in [Clients -> {{}} \cup {{{}}} \cup {{{<< o, "lista" >>}} : o \in Orders}]
  /\ \A c \in Clients : profile[c] \subseteq {History(c)}
  /\ tx = {} /\ booting = TRUE
  /\ pending = [clients |-> {}, orders |-> {}] /\ gathered = FALSE
  /\ job = [w \in Workers |-> NoJob]
  /\ fresh = TRUE
  /\ excused = [f \in Followers |-> {}]
  /\ writes = 0 /\ setbacks = 0

Excuse(fs, why) ==
  excused' = [f \in Followers |-> IF f \in fs THEN excused[f] \cup {why} ELSE excused[f]]
Set(w, value) == job' = [job EXCEPT ![w] = value]

-----------------------------------------------------------------------------
(* A write: "alta", "edicion" and "borrado" answer the row; "lote" is an    *)
(* updateMany by id and "hijo" a product, a material or a task of the       *)
(* order; "cuenta" is the deleteMany of the orders of an account, and       *)
(* "interno" an update of no field that is learned from.                    *)
After(o, how, row) ==
  CASE how = "alta"    -> order[o] = NoRow /\ row # NoRow /\ row.content = "lista"
    [] how = "edicion" -> order[o] # NoRow /\ row # NoRow
    [] how \in {"lote", "hijo"} ->
         order[o] # NoRow /\ row = [order[o] EXCEPT !.content = row.content]
    [] how \in {"borrado", "cuenta"} -> order[o] # NoRow /\ row = NoRow
    [] how = "interno" -> order[o] # NoRow /\ row = order[o]

(* Mutant of OnChange: only the rows that carry their client are followed.  *)
OnChangeOfOrders(o, how, row) ==
  [pending EXCEPT !.clients = IF how \in {"alta", "edicion"} THEN @ \cup {row.client} ELSE
                              IF how = "borrado" THEN @ \cup {order[o].client} ELSE @]

OnChange(o, how, row) ==
  [clients |-> pending.clients \cup
     (IF how \in {"alta", "edicion"} THEN {row.client} ELSE
      IF how = "borrado" THEN {order[o].client} ELSE {}),
   orders  |-> pending.orders \cup (IF how \in {"lote", "hijo"} THEN {o} ELSE {})]

Emit(o, how, row) ==
  /\ writes < MaxWrites
  /\ writes' = writes + 1
  /\ After(o, how, row)
  /\ \A t \in tx : t.order # o             \* the row is locked
  /\ pending' = OnChange(o, how, row)
  /\ gathered' = TRUE

(* Outside a transaction.  An order that goes to another client is learned  *)
(* for the client that gets it only.                                        *)
Write(o, how, row) ==
  /\ how # "cuenta"
  /\ Emit(o, how, row)
  /\ order' = [order EXCEPT ![o] = row]
  /\ fresh' = FALSE
  /\ IF how = "edicion" /\ row.client # order[o].client
       THEN Excuse({order[o].client}, "otra clienta") ELSE UNCHANGED excused
  /\ UNCHANGED << tx, profile, booting, job, setbacks >>

(* Inside an interactive transaction: a status derived from the tasks, an   *)
(* approved design, a deleted account.                                      *)
TxWrite(o, how, row) ==
  /\ how \in {"edicion", "lote", "hijo", "cuenta"}
  /\ how = "edicion" => row.client = order[o].client
  /\ tx = {}
  /\ Emit(o, how, row)
  /\ tx' = {[order |-> o, how |-> how, row |-> row, late |-> FALSE, missed |-> FALSE]}
  /\ UNCHANGED << order, profile, booting, job, fresh, excused, setbacks >>

Commit ==
  /\ \E t \in tx :
       /\ order' = [order EXCEPT ![t.order] = t.row]
       /\ LET c == order[t.order].client
          IN excused' = [f \in Followers |->
               excused[f] \cup (IF (f = c /\ t.late) \/ (f = "pantallas" /\ t.missed)
                                  THEN {"antes de tiempo"} ELSE {})
                          \cup (IF f = c /\ t.how = "cuenta" THEN {"cuenta"} ELSE {})]
  /\ tx' = {}
  /\ fresh' = FALSE
  /\ UNCHANGED << pending, gathered, profile, booting, job, writes, setbacks >>

Rollback ==
  /\ tx # {}
  /\ tx' = {}
  /\ UNCHANGED << order, pending, gathered, profile, booting, job, fresh, excused, writes,
                  setbacks >>

-----------------------------------------------------------------------------
(* notifyDataChanged: every screen reads again.                             *)
FlushScreens ==
  /\ gathered
  /\ gathered' = FALSE
  /\ fresh' = TRUE
  /\ excused' = [excused EXCEPT !["pantallas"] = {}]
  /\ tx' = {[t EXCEPT !.missed = TRUE] : t \in tx}
  /\ UNCHANGED << order, pending, profile, booting, job, writes, setbacks >>

Late == tx' = {[t EXCEPT !.late = TRUE] : t \in tx}

(* What is pending is taken before anything of it is learned.               *)
Flush(w) ==
  /\ job[w] = NoJob
  /\ pending.clients \cup pending.orders # {}
  /\ pending' = [clients |-> {}, orders |-> {}]
  /\ Set(w, [NoJob EXCEPT !.at = IF pending.orders = {} THEN "aprende" ELSE "busca",
                          !.orders = pending.orders, !.clients = pending.clients])
  /\ UNCHANGED << order, tx, gathered, profile, booting, fresh, excused, writes, setbacks >>

(* Whoever a piece of work is for.                                          *)
Owed(orders, clients) == clients \cup ({order[o].client : o \in orders} \ {Nobody})

(* The clients of the orders, those that still exist.                       *)
FlushOrders(w) ==
  /\ job[w].at = "busca"
  /\ Late
  /\ LET found == Owed(job[w].orders, job[w].clients)
     IN Set(w, IF found = {} THEN NoJob
               ELSE [NoJob EXCEPT !.at = "aprende", !.clients = found])
  /\ UNCHANGED << order, pending, gathered, profile, booting, fresh, excused, writes,
                  setbacks >>

(* rebuild reads the orders of one client...                                *)
RebuildRead(w) ==
  /\ job[w].at = "aprende"
  /\ Late
  /\ \E c \in job[w].clients :
       /\ Set(w, [job[w] EXCEPT !.at = "guarda", !.client = c, !.read = History(c),
                                !.passed = FALSE])
       /\ excused' = [excused EXCEPT ![c] = {}]
  /\ UNCHANGED << order, pending, gathered, profile, booting, fresh, writes, setbacks >>

(* ... and upserts the profile, over one that another rebuild made of a     *)
(* later read as well.                                                      *)
RebuildSave(w) ==
  /\ job[w].at = "guarda"
  /\ LET c    == job[w].client
         rest == job[w].clients \ {c}
     IN /\ profile' = [profile EXCEPT ![c] = {job[w].read}]
        /\ IF job[w].passed /\ job[w].read # History(c)
             THEN Excuse({c}, "cruce") ELSE UNCHANGED excused
        /\ job' = [v \in Workers |->
             IF v = w THEN IF rest = {} THEN NoJob
                           ELSE [NoJob EXCEPT !.at = "aprende", !.clients = rest]
             ELSE IF job[v].at = "guarda" /\ job[v].client = c
                    THEN [job[v] EXCEPT !.passed = TRUE] ELSE job[v]]
  /\ UNCHANGED << order, tx, pending, gathered, booting, fresh, writes, setbacks >>

(* A read or the upsert fails: the rest of the work is dropped.             *)
RebuildFail(w) ==
  /\ job[w] # NoJob
  /\ setbacks < MaxSetbacks
  /\ setbacks' = setbacks + 1
  /\ Excuse(Owed(job[w].orders, job[w].clients), "fallo")
  /\ Set(w, NoJob)
  /\ UNCHANGED << order, tx, pending, gathered, profile, booting, fresh, writes >>

(* Five seconds after the start: the clients with orders and no profile.    *)
Backfill(w) ==
  /\ booting
  /\ job[w] = NoJob
  /\ booting' = FALSE
  /\ LET missing == {c \in Clients : profile[c] = {} /\ \E o \in Orders : order[o].client = c}
     IN Set(w, IF missing = {} THEN NoJob
               ELSE [NoJob EXCEPT !.at = "aprende", !.clients = missing])
  /\ UNCHANGED << order, tx, pending, gathered, profile, fresh, excused, writes, setbacks >>

(* A profile is asked for, and is missing, or is a day old.                 *)
GetProfile(w, c) ==
  /\ job[w] = NoJob
  /\ setbacks < MaxSetbacks                 \* bound: counted among the setbacks
  /\ setbacks' = setbacks + 1
  /\ Set(w, [NoJob EXCEPT !.at = "aprende", !.clients = {c}])
  /\ UNCHANGED << order, tx, pending, gathered, profile, booting, fresh, excused, writes >>

(* The process dies with what was gathered.                                 *)
Restart ==
  /\ setbacks < MaxSetbacks
  /\ setbacks' = setbacks + 1
  /\ Excuse(Owed(pending.orders \cup UNION {job[w].orders : w \in Workers},
                 pending.clients \cup UNION {job[w].clients : w \in Workers})
              \cup (IF gathered THEN {"pantallas"} ELSE {}), "reinicio")
  /\ tx' = {}
  /\ pending' = [clients |-> {}, orders |-> {}]
  /\ gathered' = FALSE
  /\ job' = [w \in Workers |-> NoJob]
  /\ booting' = TRUE
  /\ UNCHANGED << order, profile, fresh, writes >>

Next ==
  \/ \E o \in Orders, row \in Rows,
        how \in {"alta", "edicion", "lote", "hijo", "borrado", "cuenta", "interno"} :
          Write(o, how, row) \/ TxWrite(o, how, row)
  \/ Commit \/ Rollback \/ FlushScreens \/ Restart
  \/ \E w \in Workers : Flush(w) \/ FlushOrders(w) \/ RebuildRead(w) \/ RebuildSave(w)
                          \/ RebuildFail(w) \/ Backfill(w)
  \/ \E w \in Workers, c \in Clients : GetProfile(w, c)

Spec == Init /\ [][Next]_vars

-----------------------------------------------------------------------------
(* Type invariant.                                                          *)
TypeOK ==
  /\ order \in [Orders -> Rows]
  /\ Cardinality(tx) <= 1
  /\ pending.clients \subseteq Clients /\ pending.orders \subseteq Orders
  /\ \A c \in Clients : Cardinality(profile[c]) <= 1
  /\ {gathered, booting, fresh} \subseteq BOOLEAN
  /\ \A w \in Workers : job[w].at \in {"libre", "busca", "aprende", "guarda"}
  /\ writes \in 0..MaxWrites /\ setbacks \in 0..MaxSetbacks

(* Nothing is left to learn, of anybody.                                    *)
Settled == ~booting /\ pending.clients \cup pending.orders = {}
           /\ \A w \in Workers : job[w] = NoJob

(* Once all that was announced has been followed, the profile of each       *)
(* client tells the orders that are committed, and the screens show them.   *)
(* What may leave one behind until it is read again: an announcement that   *)
(* was followed before its commit, an order that went to another client or  *)
(* went with an account, two rebuilds that crossed, a failure, a restart.   *)
WritesAreFollowed ==
  /\ Settled => \A c \in Clients : excused[c] = {} =>
       \/ profile[c] = {History(c)}
       \/ profile[c] = {} /\ \A o \in Orders : order[o].client # c
  /\ ~gathered /\ excused["pantallas"] = {} => fresh
=============================================================================
