# A formal model of backend-emd

This directory models, in TLA+, the parts of the backend where a reading of the
code does not settle whether it is right: requests that interleave between
database calls, row locks, retries, crashes between two writes, notices that go
out after the write, questions asked of the same rows in different ways. TLC
checks the models on small instances; TLAPS proves every safety property that a passing run
checks, and the refinement of the ledger, for every value of the constants. What
is liveness stays with TLC.

The code is a NestJS 10 service over PostgreSQL (Prisma) with a Socket.io
gateway. It keeps almost no domain state in memory: it is in rows, every HTTP
request runs as one asynchronous handler, and handlers interleave at every
`await`. What makes an operation atomic is a transaction, a conditional
`updateMany`, or a `SELECT ... FOR UPDATE`; the models have one action per unit
that the database makes atomic, and several actions for a transaction whose row
locks matter. What is in memory, and is modelled for that reason, is the cached
list of areas, the sockets, and the announcements a process gathers before it
acts on them.

## Inventory

| Part | State | Operations | Hard behaviour | Module |
| --- | --- | --- | --- | --- |
| Materials sheet (`order-area-supply.ts`) | `OrderAreaSupply`, lines with `discountedAt` | save sheets, discount, give back, retry what did not fit | two row locks per line, lock order, claims of a line, rollbacks | `AreaSupply`, `StockLedger` |
| Inventory (`inventory.service.ts`) | `InventoryItem`, kardex, restock requests | movement, create, update, remove, restock requests | movements that meet a discount, a minimum read before the lock, notices out of order | `AreaSupply`, `InventoryDesk` |
| Area tasks (`order-area-task.service.ts`) | `OrderAreaTask`, rounds of samples, captured fields | change status, advance and decide a stage, assign, fields, machine, remove, sync the order | reads outside the transaction; the order derived from the tasks in separate calls | `OrderClosure`, `TaskWork`, `AreaSupply` |
| Orders (`order.service.ts`) | `Order` | create, update, bulk change, take, archive, remove, lists | statuses written by hand against the tasks; lists that ask different questions | `OrderBoards`, `OrderNotices`, `OrderClosure` |
| Design rounds (`order.service.ts`) | `DesignRevision`, `ClientDesignResponse` | take, start, new round, feedback, approval, the client's answer | checks outside the transaction that acts on them | `DesignCycle` |
| Client portal (`client-portal/`) | share link, subscriptions | link, regenerate, revoke, ready notice (cron) | a notice at most once across processes, lost on a crash | `ReadyNotice` |
| Areas (`area/`) | areas, stages, machines, cached list | administration | stages edited while tasks are in them; work counted before an area is switched off | `TaskWork`, `AreaUpkeep` |
| Storage (`storage/`) | objects of a bucket, keys in rows | save, delete, backfill | objects and rows that change separately | `BlobStore` |
| Calendar (`calendar-event/`) | events, two reminder marks | reminder cron, edits | send first, mark afterwards | `Reminders` |
| Chat (`chat/`) | conversations, members, read marks | list, open, send, read | members brought up to date by every request, in three calls | `ChatMembers` |
| Notices and sockets (`notification/`, `gateway`) | rows, rooms, preferences | fan-out, presence | delivery after the write, people who move meanwhile | `OrderNotices`, `Presence` |
| Feed of writes (`prisma.service.ts`, `realtime/`, `client-insight/`) | gathered announcements, profiles | screens told to read again, profiles learned again | announcements before the commit, rebuilds that cross | `ChangeFeed` |
| Quotes (`quote/`) | stage, status, date, order | create, update, link, remove | check outside the write | `QuoteBook` |
| Users, roles, branches (`user/`) | roles, areas, branch of an account | create, update, remove, sessions | two edits that are legal apart and not together; sessions that outlive the account | `Accounts`, `OrderBoards` |
| Dashboard, coordination (`dashboard/`, `coordination/`) | none | panels | five questions about the same order | `OrderBoards` |
| Performance, mockups, templates, catalogues, logs | rows | CRUD, reports | none beyond unique indexes | - |

How they interact: `order.service` calls `order-area-task.service` to create the
tasks of an order (inside the transaction of an approval too); the task service
calls the functions of `order-area-supply` inside its transactions and then
derives the order's status; both and `inventory.service` lock the same item
rows; the portal and its cron read what the others wrote. Notices go out after
the transactions, and their failure never undoes an operation. Every write passes
through `PrismaService`, which announces it to the realtime and the insight
services.

For each part, what makes it correct:

* **Sheet and inventory** - stock never negative; the kardex explains the stock;
  a line is drawn, and given back, exactly once; only finished tasks hold stock;
  a finished task's sheet is history; tasks do not deadlock; an article that is
  low was announced.
* **Closing of the order** - the order is ready exactly when its tasks are
  finished; one history row and at most one notice per change; final statuses
  stay; the last area to finish closes the order.
* **Design rounds** - one verdict per round; rounds numbered without gaps or
  repetitions; the status tells what became of the last round; a client's answer
  is applied, replaced or discarded.
* **Stages** - a task produces only after its stages; a review has exactly one open
  round of samples; one stage at a time; a claim does not undo an assignment.
* **Lists and panels** - an order is listed for exactly those who may open it, and
  what is to be done is on the board of somebody.
* **Portal** - a notice at most once per link and never for an order that was
  ready when the link was made; a link that is due is claimed.
* **Storage** - a row reads back what was written to it; an object no row names has
  a cause.
* **Reminders, notices, screens** - whoever has to be told is, once, or there is a
  known reason.
* **Areas, accounts, quotes, chat** - what is checked before a write is still so
  after it, or the requests overlapped.

## Modules

| Module | What it is |
| --- | --- |
| `AreaSupply`, `AreaSupplyMC`, `AreaSupply_proofs` | sheets, inventory and task status at row-lock level; its instance; theorems |
| `SumTheorems` | facts about finite sums, which those theorems count with |
| `StockLedger` | what the sheet promises: the same with no locks and no requests |
| `OrderClosure`, `OrderClosure_proofs` | the status of an order against its tasks, call by call; theorems |
| `DesignCycle`, `DesignCycleMC`, `DesignCycle_proofs` | the design of an order: who has it, rounds, verdicts, the client's answers; its instance; theorems |
| `TaskWork` | one task through the stages of its area, against edits of the stages |
| `OrderNotices` | who is told of each change of an order, one notice at a time |
| `OrderWork`, `OrderWorkMC`, `OrderWork_proofs` | the last two side by side; their instance; theorems |
| `BlobStore` | files in rows and in the bucket, and the backfill |
| `OrderBoards` | one order from capture to delivery and every list and panel |
| `InventoryDesk` | articles, codes, the low-stock notice, requests to restock |
| `OrderRecord`, `OrderRecordMC`, `OrderRecord_proofs` | the last three side by side; their instance; theorems |
| `ReadyNotice`, `ReadyNotice_proofs` | share links, subscriptions and the cron of the ready notice; theorems |
| `Reminders`, `Presence`, `ChatMembers`, `QuoteBook`, `AreaUpkeep`, `Accounts`, `ChangeFeed` | the machines of the office |
| `Office`, `Office_proofs` | the seven side by side; theorems |

`OrderWork`, `OrderRecord` and `Office` set several machines side by side. They share
no state, so nothing can be lost by looking at one at a time: the variable `subject`
says which one a behaviour is about, and the variables of the others hold
`"quieto"` for ever. Each property of such a module is that of one machine, or of
two, under the condition that it is the subject. Machines that do interact are in
one module: `OrderBoards` has orders, tasks, accounts and panels; `TaskWork` has
tasks, the administration of stages and the cached list.

Many modules have a history variable `drift` (or `excused`, `untold`, `low`): the
causes, each as narrow as the model can tell, after which a promise need not hold.
They are part of what is said of the code: a property with a cause set aside says
that nothing else breaks the promise, and where a comment of the code makes the
promise without the exception there is a finding.

### AreaSupply

A *worker* is a request in flight. It is one of three: a change of a task's
status (`updateStatus`), a retry of a pending discount (`discountPending`), or a
save of sheets (`saveSupplies`).

| Action | Code |
| --- | --- |
| `ReadForStatus`, `ReadForDiscount` | the read before the transaction and its early returns |
| `LockTask` | `lockTaskStatusTx`, the checks repeated under the lock, and the list of lines to move |
| `MoveLine` (`Turn`, `Delta`) | one round of the loop of `moveSupplyLinesTx`: lock the item, compare, claim the line, write the balance and the kardex row |
| `Commit` | the update of the task and the commit |
| `SubmitSheets`, `LockSheetRow`, `CheckSheets`, `InsertLine`, `CommitSheets` | `saveSuppliesTx`, with the row locks its foreign keys take |
| `Interrupt` | an error, a timeout or an abort by the database at any point: rollback |
| `RegisterMovement`, `CreateItem`, `RemoveItem` | `InventoryService` |
| `CreateTask`, `RemoveTask` | `createTasksForAreas` for one area, `remove` |

Writes of an open transaction are in `view`, `drawn` and `moved` until `Commit`
publishes them. `orden` and `manual` are the two sums of the kardex's deltas,
by source. `retired` is a history variable: what removed tasks had drawn.

Abstractions. A line's description, and everything that is only output
(warnings, low-stock crossings, notices), is left out, so *unchanged sheet*
compares source, items and quantities. Who may call an operation, the stages
and the required fields of an area restrict who moves a task and when; leaving
them out only adds behaviours. Inventory operations and the creation and removal
of a task hold one lock, so they are one action that waits for the rows it needs
to be free. A deadlock is broken by PostgreSQL aborting a request, which is one of
the steps of `Interrupt`; `Deadlocked` describes the wait itself. A new task row
has an id nobody knows, so `CreateTask` waits for the requests that name the row
it replaces; it is an area that leaves the order and comes back.

### StockLedger

Finish, retry, reopen, rewrite, move, drop, discontinue: one step each. `Take`
says that a line is left out only when it does not fit in what remains, and that
the stock drops by exactly what was taken; `Reopen` gives back exactly that.
`AreaSupply!LedgerSpec` says that the lock-level model implements it, mapping the
finished tasks to those in `terminado` and the other variables to themselves.

### OrderClosure

One order. A worker goes through `updateStatus` (`ReadForStatus`, `StatusTx`) or
`remove` (`RemoveTask`) and then through `syncOrderStatusFromTasks` one database
call at a time: `SyncReadTasks`, `SyncReadOrder`, `SyncApply` (the conditional
`updateMany` and its history row are one transaction), `NotifyReady`. `Crash`
may end a request between any two. `AddArea` is POST area-tasks, which does not
sync; `SetOrderStatus` is PATCH and the bulk action.

`drift` is a history variable that records which of four causes of disagreement
has occurred, each as narrowly as the model can tell: `carrera` (a step made the
tasks say the opposite of what a request in flight may have read), `caida` (a
request died owing a sync that was needed), `area_nueva` (an area was added to an
order whose areas were all finished and that was ready or being closed) and `manual`
(a status was set against the tasks). `InStepUnlessDrift` is then as strong as
the code allows, and `InStepDespiteRaces` shows that the exception for races is
needed.

### DesignCycle

One order. Every handler reads, checks and then acts in a transaction that does
not check again, so each is two or more actions: `TakeRead`/`TakeTx`
(`takeDesign`), `StartRead`/`StartTx` (`startDesign`), `SendRead`/`SendTx`
(`createDesignRevision`), `VerdictRead`, `CheckNewer`, `CheckStatus` and then
`FeedbackTx`, or `PlanRead`/`ApproveTx` (`addDesignFeedback`,
`approveDesignRevision` and the areas it creates tasks for), `RespondRead`,
`RespondReplace`, `RespondCommit` (the answer from the portal, whose transaction
hides the answer it replaces) and
`Discard`. `SetByHand` is PATCH. Causes: two rounds or two verdicts at once
(`ronda`, `veredicto`), a round that comes in after later ones (`rezagada`: its
number was read before they were sent), a take of an order somebody else had just taken (`robo`),
two starts (`inicio`), an answer that met another one (`cliente`), a status by hand
(`mano`). The images of a round are in `BlobStore`.

### TaskWork

`rows` are the `AreaStage` rows; `cache` holds the list `AreaService` remembers, when
it is an old one: the list of the database is remembered or read to the same
effect. A request keeps whether the list it read was `old`, and is out of date
(`Outdated`) if it was, or if the list has changed since. `CreateRead`, `AdvanceRead`, `DecideRead`, `StatusRead` and
`CaptureRead` are the reads of the handlers of the task, and `CreateTask`, `Advance`,
`Decide`, `StatusTx`, `Capture` what they write. `EditRead`, `EditCheck` and `EditTx`
are the edit of the stages, with the tasks that were in a removed stage. `nextStage` and
`previousStage` are operators on the list. Causes: an old list (`vista`), an edit
of the stages that overlapped (`edicion`) or was made while the order was closed
(`cerrado`), an assignment between the read and the write of a claim (`reclamo`),
two captures at once (`captura`). A set of fields stands for their values: a field
is captured or not.

### OrderBoards

`order` and `tasks` are rows, `member` the areas of one person in the database and
`token` those of the session, which differ between a change of areas and the next
login. Each handler - `Create`, `CreateBranch`, `EditStatus`, `EditArea`,
`EditDesign`, `EditWho`, `Bulk`, `Take`, `Start`, `SendRound`, `Feedback`,
`Approve`, `AddTasks`, `TaskStatus`, `Assign`, `RemoveTask`, `Remove` - is one
step here; how two of them interleave is the matter of `DesignCycle`, `TaskWork`
and `OrderClosure`. The lists, the record and each panel are operators on the state,
one per query of the code, so that the properties compare the queries and not a
common definition. Stages of a task, the time an order was archived, page limits
and sorting are abstracted; time goes in half days and only in the properties of
the deadlines. Causes: a change by hand, a round sent of an order that was not in
design (`fuera`), areas that finished before design (`adelantada`), changes
returned to somebody who is not of design (`ajena`), a person who left an area
(`se_fue`).

### OrderNotices

A request makes its change and then gives its notices one by one (`Tell`), any of
which may fail (`Fail`) and leave out the rest. A notice is for a person, an area
or whoever follows the order when it is written; it is a row, a ring on the
sockets of a room, or both. Between two notices the receptionist, the areas, the
branch, the sockets and the preferences may change. `debts` is who had to be told
when the change was made. Only orders with design, created by Reception or by a
branch; muting and moving are limited to some of the people; chat and the rooms
of administrators are left out.

### ReadyNotice

`LinkRead`/`Ensure`, `RegenerateSubs`/`Regenerate`, `Revoke`, `SubscribeRead`/
`Subscribe`, `Unsubscribe` are the operations of `ClientPortalService`; `Cron` is
a run of `ClientReadyNoticeService` call by call: look for links, read the next,
claim it with a conditional update, read its subscriptions, send. `CronCrash` ends a
run anywhere. `told` counts notices by link row and recipient.

### BlobStore

A file is base64 in its row or an object in the bucket. `ReadToWrite`, `Save`,
`Write`, `Undo`, `DropOld` and `ReadToRemove`, `Remove` are what every service with
files does, and `RunRead`, `RunPut`, `RunHead`, `RunUpdate`, `RunReread`, `RunClean`
the backfill. Any call may fail and any process die. `latest` is the content a row
should have. Encodings and the several tables are abstracted.

### InventoryDesk

`MoveRead`/`MoveTx` are `registerMovement`, `CreateRead`/`CreateTx`,
`UpdateRead`/`UpdateWrite`, `Remove` the CRUD of articles with their codes,
`NotifyLowStock` the notice, `RestockRead`/`RestockCreate` and
`StatusRead`/`StatusWrite`/`TellStatus` the requests to restock. `SheetMoves` is
what a materials sheet takes, in one step (`AreaSupply` has it lock by lock).
Which department an actor may touch is left out.

### The machines of the office

* `Reminders` - `RunStart`, `Find`, `Send`, `Mark` are a run of the cron for one
  event; runs overlap and crash, the event is edited, time passes.
* `Presence` - the handlers of a connection and a disconnection of one user's
  sockets, with the query and the save they wait for.
* `ChatMembers` - `Resolve`, `Prune`, `Upsert` are the three calls that bring the
  rows of a conversation up to date, `Finish` what the request was for.
* `QuoteBook` - `UpdateRead`/`UpdateWrite`, `LinkRead`/`LinkCheck`/`LinkWrite`,
  `Create`, `Remove`, and the removal of an order. Amounts and texts are left out.
* `AreaUpkeep` - `RetireRead`/`RetireWrite` switch an area off,
  `MachinesRead`/`MachinesWrite` edit its machines, `OrderRead`/`OrderWrite`/
  `TaskWrite` bring an order in, `AssignRead`/`AssignWrite` put a task on a machine.
* `Accounts` - `Create`, `UpdateRead`/`UpdateWrite`, `RemoveRead`/`RemoveWrite`,
  `Login`, `TakeOrder`, and the removal of roles, areas and branches around them.
* `ChangeFeed` - `Write` and `TxWrite` with the announcement each makes, `Commit`,
  `Rollback`, `FlushScreens` (realtime), `Flush`, `FlushOrders`, `RebuildRead`,
  `RebuildSave` (profiles), `GetProfile` (a request that finds an old one),
  `Backfill` and `Restart`. One order; how a profile is computed is abstracted to
  the orders it was computed from.

## Runs

| Run | Expect | Shows |
| --- | --- | --- |
| `supply` | pass | everything in `AreaSupply` that holds, and `LedgerSpec` |
| `supply_deadlock` | violation of `NoDeadlock` | see findings |
| `supply_deleted_item` | violation of `ReopenedSheetEditable` | see findings |
| `closure` | pass | everything in `OrderClosure` that holds, with `ReadyEventually` |
| `closure_race` | violation of `InStepDespiteRaces` | see findings |
| `closure_history` | violation of `EveryChangeInHistory` | see findings |
| `design` | pass | `RoundsNumbered`, `OneVerdictPerRound`, `StatusTellsLastRound`, `OneOpenAnswer`, `StartedOnce` |
| `work` | pass | `StageTellsWork`, `StagesInOrder`, `NothingTakenOrLost` of `TaskWork`; `NoticesFollow` |
| `reception_told` | violation of `ReceptionTold` | see findings |
| `record` | pass | `FilesReadable`, `OrphansExplained`, `BoardsTell`, `DeskTells` |
| `notice` | pass | `OneNoticePerLink` and, under fairness, `EveryReadyLinkClaimed` |
| `office` | pass | `RemindedOnce`, `RowsFollowAccess`, `QuoteDated`, `RetiredIsIdle`, `AccountsKeepAccess`, `LiveViewsTold` |

Bounds of `supply` (1.36 million distinct states): two tasks and two items are
the least for a lock order to be wrong, and two requests the least for a race.
The plans give task 1 a sheet with its items in descending id, and task 2 one
in ascending id, so that both orders of a save against a finish occur; a plan
that names both tasks takes two row locks and replaces a sheet of ours by the
client's. Each item receives at most two units (`MaxStock`), and each line asks
for one: there is stock for one task, for both or for none, so lines fit, stay
pending and are retried. One of the items may be deleted (`Removable`), and
removed tasks may have drawn one unit (`MaxRetired`), which bounds what leaves the
system. Requests are symmetric. TLC's deadlock check is on: some row operation or
`Interrupt` is always possible.

Bounds of `closure` (1.38 million distinct states): two areas, so that the last
one matters; two requests; five requests in all (`MaxRequests`), enough to close
an order, reopen it and race both; one status before `autorizado` and one final
status stand for the three and the two of the code, which are treated alike.
The system stops when the requests are used up, so deadlock is not checked.

Bounds of `design` (1.66 million distinct states): two designers, for a take to meet
another; three rounds, for a verdict on one to meet the next and for one to come
in after two later ones; two answers, for one to replace the other; two requests
at a time and five in all, enough for a round, its rejection, a second round and
two verdicts that race.

Bounds of `work` (1.43 million). `TaskWork`: an area that starts with work, or work and
review, up to two stages in use and three rows ever, so that a stage can be
removed while a task is in it; two edits, so that they can overlap; two rounds of
samples; two people and the shared account; two fields, one of them required; four
requests, two at a time. `OrderNotices`: two receptionists, so that one can take
an order of the other; four requests of which two overlap, one round, one move.

Bounds of `record` (1.88 million). `BlobStore`: two rows, two requests at a time, two
runs of the backfill that may overlap, two edits - one row is migrated while it is
replaced and removed. `OrderBoards`: one production area besides design (the
boards look at each area apart), a person, the shared account, reception and a
branch, one round after another is enough for a return, one change by hand and
one move. `InventoryDesk`: an article and one more, whose code may be given by
hand or collide with the default of the other; stock up to two and a minimum of
none or one, so that an article can be enough, low and out; three requests.

Bounds of `notice` (121,099 distinct states): two orders but one link per run (`Take`, 50 in the
code), so that a run leaves one for the next; one subscription per link
(`MaxDevices`, 10 in the code) of two devices, so that the limit is met; three
tokens, two overlapping runs, one request at a time and five in all.

Bounds of `office` (2.28 million): two requests or runs at a time of every machine,
three sockets of one user (`Presence`: one that leaves, one that stays, one that
comes), two quotes and one order, two machines in an area of at most two rows,
one account with the two kinds of role there are, one order of two clients.
The constants of the machines are those of `Office`, with their values in
`Office.cfg` (as those of `record` and `work` are in `OrderRecord.cfg` and
`OrderWork.cfg`).

Deadlock is checked only in `supply`. In the others the number of requests is
bounded and the system stops when they are used up.

Fairness. `closure` uses `FairSpec`, weak fairness of `Handler(w)`: a handler that
is not interrupted makes its next database call. That is the event loop of Node
plus a database that answers; the process that dies in between is `Crash`, which
is always enabled and has no fairness, and no person is obliged to do anything.
`ReadyEventually` therefore allows a crash to leave an order open (cause
`caida`), which is what the code does: nothing repeats the sync. `FairSpec`
of `notice` is weak fairness of `Cron(r)`: the scheduler of Nest starts a run every minute for as
long as the process lives, and a process that died is started again; a crash
during a run is always possible. Links, devices and orders owe nothing, which is why a link
may stop being due by being revoked.

## Findings

1. `NoDeadlock` - the comment on the order of the item locks
   (`order-area-supply.ts:350`) covers tasks against tasks
   (`MoversNeverDeadlock` holds), but a sheet being saved locks its items
   through foreign keys in the order of the form, so a save and a finish of
   another task can block each other until PostgreSQL aborts one.
2. `ReopenedSheetEditable` - an item deleted after its line was discounted
   leaves `discountedAt` on a line that reopening no longer lists: saving the
   sheet then answers 409 with advice (`order-area-supply.ts:280`) that cannot
   be followed.
3. `InStepDespiteRaces` - the order is written on condition that the order has
   not changed, not the tasks: an area reopened between another request's read
   of the tasks and its write leaves a ready order with an unfinished area.
4. `EveryChangeInHistory` - PATCH and the bulk action write the status and no
   `OrderHistory` row, although the comment of the audit
   (`order.service.ts:1523`) relies on it.
5. `ReceptionTold` - what is for Reception as a whole is sent to the users of an
   AREA called `recepcion`; it is a role, and its slug is reserved, so no row is
   written for anybody and only a connected socket hears it
   (`order.service.ts:1388`). The notices of the inventory to `recepcion` and
   `admin` have the same recipients, that is, none.

## Proofs

Every invariant and every action property of the passing runs is a theorem, and so
is the refinement `LedgerSpec`. A theorem `Some_Property` states `SomeProperty`.

The proof modules assume only what the ASSUMEs of their specification state, and
TLC evaluates each of them on a run:

* `AreaSupply`: ids are positive naturals and an article that may go is one
  (`IdAssumption`); tasks and requests are finitely many (`FiniteAssumption`), as
  sums over them are taken; bounds and amounts are naturals (`BoundAssumption`); a
  plan is a valid sheet for some of the tasks (`PlanAssumption`).
* `OrderClosure`, `DesignCycle`, `ReadyNotice`: bounds are naturals; named statuses,
  accounts and areas differ.
* `OrderWork`: the list an area begins with is valid, and *nobody* is not a name
  (`WorkAssumption`); requests are finitely many, since the rounds they may still
  send are counted (`NoticesAssumption`).
* `OrderRecord`: rows are finitely many (`FilesAssumption`), as a run of the backfill
  is a list of them; neither *nobody* nor design is an area of production
  (`BoardsAssumption`); a code given by hand is above every id, a minimum below the
  most an article can have, and a request to restock begins in a status of its own
  (`DeskAssumption`).
* `Office`: leads are positive; what stands for *nobody*, *nothing* and *as it was* is
  no id, role, area or client; a quote is made in a status that is not of a sent one;
  names of machines are finitely many, as active machines are counted.

An invariant is proved in the same way in all of them: an inductive one that
implies it, that it holds at the start, and a lemma per action that the action
keeps it. When a property has causes set aside (`drift`), so has the part of the
invariant that carries it, and the rest - types, what a request in flight has
checked - holds without exception.

### AreaSupply_proofs

The invariant has layers, each proved with the ones before it.

* `Shape`: the types of rows and requests; sheets fit the bound; no two requests hold the
  same task row; and what a request knows about its rows (a mover holds the row of
  its task, a saver the rows of the tasks it rewrites).
* `Books`: no two requests hold the same item row exclusively, the item's
  unpublished balance of a request is the committed one plus what it drew
  (`Accounts`), rows that do not exist have no stock, and the two properties
  `StockNeverNegative` and `KardexAddsUp`. They are not inductive alone: a
  commit is right only because the balance under the lock is still based on
  the committed one.
* `Discounts`: only our sheets are tied to the inventory and only existing lines
  are discounted; a retry in its transaction is about a finished task; and a
  request that takes a task out of `terminado` has given back, or has still to
  reach, every discounted line tied to an item (`MoverPurpose`). With them
  `DiscountedOnlyWhenFinished` is inductive: the last one is what makes the
  commit of a reopening leave no stock taken, and it rests on reopening listing
  all such lines while the row of the task is locked.
* `Drafts`: what a transaction in flight has drawn of each item is what the lines it
  claimed say (`Tally`); they were as listed, and their items are held (`Claims`); and a
  line a finish leaves pending is still to be reached or does not fit in what is
  left of its item (`Leftovers`).
* `Takings`: `DrawnExactlyOnce`, which is the sum over the tasks of what each has
  drawn. A commit changes one term of it, by `Tally`.
* `LockOrder`: a mover takes its items upwards, a save takes its tasks upwards,
  and only an inserting request holds shared rows. `Movers_Never_Deadlock` follows.
  In a circle with nobody inserting, a mover waits for an item another mover holds,
  and whoever holds the highest item that is awaited awaits a higher one
  (`NoItemCircle`); so all are saves, and the same goes for their tasks
  (`NoRowCircle`).

`Implements_Ledger` maps every step to a step of `StockLedger` or to none. Only
`Commit`, `CommitSheets` and the operations that are one step move the ledger; `Take`
(a pending line does not fit in what remains) is `Leftovers` at the commit, `Reopen` is
`MoverPurpose`. `Finished_Sheet_Frozen` follows from `Shape`: the lock on the task row
keeps a save out of a task that is being finished.

`SumTheorems`. The library's sum over a set is recursive, and its value for every
set needs an induction. The library's induction theorems cannot be cited by the
provers at hand, but strict inclusion among the subsets of a finite set is well
founded, and that fact has no operator as a parameter: a family of subsets that is
not empty has a minimal one (`MinimalSubset`), and a smallest counterexample is
contradicted. From it come that such a function exists, and what a sum is of one
more element, of a union, of equal functions and of one change.

### OrderClosure_proofs, DesignCycle_proofs, ReadyNotice_proofs

`OrderClosure_proofs`. `IInv` is `TypeOK` with three facts: a sync about to
write saw an order that disagreed with what it had read of the tasks
(`DisagreementSeen`); without drift, what a sync in flight read of the tasks is
still so (`TasksAsRead`); and, without drift, an order out of step with its tasks
has a request that will look at it again or whose write will still apply
(`SomeoneRepairs`). `InStep_Unless_Drift`,
`One_Row_Per_Transition` and `Final_Only_Left_By_Hand` follow.
`One_Notice_Per_Closure` counts: the notices sent and the requests about to send
one are together no more than the rows that closed the order (`NoticesCovered`).

`DesignCycle_proofs`. `Shape` is `TypeOK`
with two facts: the numbers of the rounds are 1 to the last (`Filled`), and what a
request carries fits the rows (`JobsFit`): the number it is to send is at most one
more than the last, its verdict is about a round there is, its approval has areas.
`Filled` needs `JobsFit`, because the number was read before the transaction: it
may repeat one but cannot leave a gap. On `Shape` rest, each with what it adds:

* `Rounds_Numbered`: while no two rounds met, round `i` has number `i`, so the next
  number is the length (`InOrder`).
* `One_Verdict_Per_Round` and `Started_Once` need nothing more: a verdict that is
  not out of date finds its round unanswered, and a start nobody overtook finds
  nobody.
* `Status_Tells_Last_Round` (`Tells`): a verdict that is not out of date is about
  one of the last rounds, and a round that is not behind becomes the last.
* `One_Open_Answer`: a transaction that is replacing the open answers has in `hides`
  every open one of when it looked (`Sees`), so an answer that finds no newer
  row is the only open one.

`ReadyNotice_proofs`. `Shape` is `TypeOK` with: a link has a number that was given
out, which no other link has, and what requests and runs carry fits the rows.
`Quiet` is about who has heard: nobody has of a number to come, of a link that
may still be claimed or of one born notified, and no run is busy with it
(`FreshToCome`, `FreshUnclaimed`, `BornSilent`); two runs are never busy with one
link (`OneRunPerLink`), and a busy run has still to tell those it has not
(`ToldSoFar`). `One_Notice_Per_Link` is its last part: the claim is a conditional
update, and a revoked link never gets its number back.

### OrderWork_proofs

Each machine has its invariant (`WorkInv`, `NoticeInv`), with a lemma that it implies
the machine's properties (`...InvSafe`), one that it holds at the start (`...InvInit`),
one per action, which `...InvStep` collects, and one that a step of the other machine
keeps it (`...InvKept`). `OrderWorkInv` takes the one of the subject.

The list of stages is an enumeration of a set in an order (`InOrder`), so the proofs
begin with it: the number of those before an element is a bijection onto 0 to
n - 1 (`RankGrows`, `RankOnto`), so the enumeration exists and is the only one
(`InOrderEnumerates`, `InOrderOnly`). Of an edit they give that the new list is the
draft (`WorkEditList`), when nobody else has edited since it was read.

* `WorkFits`: a request that starts or ends a task found it out of its stages, and
  the task does not go back to them; a draft is valid and keeps stages of the list
  it was made from. With it `StartedIsOutOfStages` and `StageListValid` are inductive.
* `WorkPlaced` and `WorkFound`, while nothing has acted on stages out of date: the
  stage of the task is active, only the last round may be open, and it is exactly while
  the task is in a review; and a request whose list was not old found in it the stage
  of the task, of the kind its verb is for. `Stage_Tells_Work` and `Stages_In_Order` rest on
  both: a move is along the list because the list that was read is the list there is.
* `Nothing_Taken_Or_Lost` is about one step, and needs only the types.
* `NoticePaid`: a debt is a row, is excused, or is `Pending`: one of the notices a
  request has still to give has that matter, that round and, among its recipients as
  they are now, that person. It is what makes `NoticesFollow` inductive, and what
  each change of areas, branch, sockets or preferences has to keep.
* `AtHome`: the account of a branch is only ever named in an order of its branch, unless
  it has moved. `RecipientsHome` carries it to whatever a notice reaches.
* `NoticeCommit` is the shared lemma of the changes of an order: if the notices
  they leave to be given fit, and cover the debts they make, the invariant holds.

### OrderRecord_proofs

* `FileInv`. A key of an upload is of one request until it writes it, then of one row, and
  never of any again (`FileOwners`). On that rest the two properties. `FileReads`: a
  row reads its last content, because an old key is dropped when its row is done with
  it (`FileSettled`), because the rows a run has still to do are not migrated, and
  because there is one run (the causes set aside are exactly two runs at once and the
  return to the `db` driver). And, at rest, an object has a row because before that
  somebody has it on its hands (`FileHeld`).
* `BoardInv`. Three facts about the order, each with its causes: a status of design
  means it is in design (`BoardDesign`); whoever has it there is of design (`BoardOwner`);
  and in design it has no status of after it (`BoardWay`). One about the tasks and the
  session: whoever has a task is of its area (`BoardHolders`). The lists and panels are
  compared under them, query against query (`BoardLists`, `BoardSeen`, `BoardPanels`,
  `BoardLate`).
* `DeskInv`. What each handler has checked of what it brings (`DeskFits`); no article has
  an id that was not given (`DeskBorn`), so a default code is nobody's; and whoever is
  about to tell a status tells the present one, unless two changes of it overlapped
  (`DeskTelling`).

### Office_proofs

* Reminders. Run by run: while no two overlap, none dies and the event is not edited,
  what was sent is marked or about to be (`ReminderSentOnce`); and what is due, once a
  run has started in this unit of time, is sent or still ahead of that run
  (`ReminderOnTime`).
* Presence. The property is inductive.
* Chat. A request that read who belongs after the last change, and after which nobody
  wrote from an older reading, has the present access, and once it has pruned so do
  the rows (`ChatCleanJob`); one's own message has its mark, or the request
  that will write it (`ChatOwnMarked`).
* Quotes. A pair of stage and status is one the code resolves to, so a quote is in one
  tab (`QuotePair`), and an order that was won was won by the quote linked to it
  (`QuoteLinkedOnce`).
* Upkeep. A request nobody wrote behind - one that is not `late` - has still what it
  read (`UpkeepJobSeen`), so that its write leaves an area switched off idle
  (`UpkeepIdle`), distinct names (`UpkeepFew`), and an order with its task or with
  the request that is bringing it (`UpkeepPromised`).
* Accounts. The same for an account: what an edit that is not late keeps, with what it
  writes, leaves a role or an area.
* Feed. Of each client: the profile is of the committed orders, or there is somebody
  who owes it - it is announced and not taken, taken and not read, or read as it is
  and about to be saved (`FeedLearned`, `FeedOwing`); a save that would
  write something old is followed by another (`FeedSaving`); and an uncommitted
  transaction has been announced and not followed yet, unless it was followed early and
  that is recorded (`FeedAnnounced`).

### Only model-checked

`ReadyEventually` and `EveryReadyLinkClaimed`: liveness under fairness is out of the
provers' reach. The five violations are counterexamples, which TLC finds. That the
causes set aside are needed is shown by the runs that expect a violation for races,
and by counterexamples while modelling for the others; no theorem says it.

## Not modelled, and the plan

Left out of the modules, and why:

* The scoring of the client insight engine and the figures of performance: pure
  functions on fractions and dates with no state. What makes a profile be learned
  again, which is where requests meet, is in `ChangeFeed`.
* Exports, searches, suggestions, the CSV of the inventory, the page a client sees:
  reads of one state, but for the lists and panels of `OrderBoards`.
* Catalogues, mockups, logos, templates, presets, the old list of materials, audit
  and logs: one row per operation, behind unique indexes. Their files are in
  `BlobStore`.
* Passwords, tokens, preferences and the CRUD of roles; chat attachments,
  reactions and searches; the provider of push messages; definitions of fields.
* The machine of a task outside `AreaUpkeep`; two calls that add the same area,
  of which the unique index lets one through (`order-area-task.service.ts:318`);
  a task created while a sheet is saved (`order-area-supply.ts:193`); the limit
  of subscriptions when two devices subscribe at once; the width of
  Decimal(12,3), which the database enforces by refusing the write.

What remains to be done: the pure rules of the insight engine as operators against
a reference definition; the refinement of an abstract specification of the closing
of an order and of the ready notice, as `StockLedger` is of the sheet.
