---------------------------- MODULE OrderRecord ----------------------------
(***************************************************************************)
(* What is kept of an order: its files (BlobStore: one that is created,    *)
(* replaced or removed by two requests at a time while two runs of the     *)
(* backfill, perhaps overlapping, migrate it) and what the boards show of  *)
(* its row and its tasks (OrderBoards); and the articles of the inventory  *)
(* (InventoryDesk).  They share no state, so a behaviour is one of one of  *)
(* them - its subject - and the others stay where they are.                *)
(***************************************************************************)
EXTENDS Integers, Sequences, FiniteSets

CONSTANTS
  Workers,                                          \* requests at the same time
  Rows, Runs, MaxEdits, MaxRuns,                    \* BlobStore
  Areas, MaxRounds, MaxHandEdits, MaxMoves,         \* OrderBoards
  MaxItems, Custom, MaxStock, Levels, RestockStatuses, MaxDeskRequests   \* InventoryDesk

VARIABLES
  subject,
  driver, row, object, latest, pc, job, run, edits, runs, drift,   \* BlobStore
  order, tasks, member, token, handEdits, moves, orderDrift,       \* OrderBoards
  item, last, restock, deskJob, alarm, low, told, untold, refused,
  requests                                                         \* InventoryDesk

Files  == INSTANCE BlobStore
Boards == INSTANCE OrderBoards WITH
  MaxEdits <- MaxHandEdits, edits <- handEdits, drift <- orderDrift
Desk   == INSTANCE InventoryDesk WITH
  Statuses <- RestockStatuses, MaxRequests <- MaxDeskRequests, job <- deskJob

ASSUME FilesAssumption == IsFiniteSet(Rows) /\ MaxEdits \in Nat /\ MaxRuns \in Nat
(* Nobody and Design are no areas of production.                            *)
ASSUME BoardsAssumption ==
  /\ Boards!None \notin Areas /\ Boards!Design \notin Areas
  /\ MaxRounds \in Nat /\ MaxHandEdits \in Nat /\ MaxMoves \in Nat
(* The codes of one's own are above every id, a level is below what an      *)
(* article can have, and a request begins in a status of its own.           *)
ASSUME DeskAssumption ==
  /\ MaxItems \in Nat \ {0} /\ MaxStock \in Nat /\ MaxDeskRequests \in Nat
  /\ Custom \subseteq Nat /\ \A c \in Custom : c > MaxItems
  /\ Levels \subseteq Nat /\ \A m \in Levels : m < MaxStock
  /\ Desk!New \in RestockStatuses /\ "no" \notin RestockStatuses

fileVars  == << driver, row, object, latest, pc, job, run, edits, runs, drift >>
boardVars == << order, tasks, member, token, handEdits, moves, orderDrift >>
deskVars  == << item, last, restock, deskJob, alarm, low, told, untold, refused, requests >>
vars == << subject, fileVars, boardVars, deskVars >>

(* A machine that is not the subject.                                       *)
FilesOff ==
  /\ driver = "quieto" /\ row = "quieto" /\ object = "quieto" /\ latest = "quieto"
  /\ pc = "quieto" /\ job = "quieto" /\ run = "quieto" /\ edits = "quieto"
  /\ runs = "quieto" /\ drift = "quieto"
BoardsOff ==
  /\ order = "quieto" /\ tasks = "quieto" /\ member = "quieto" /\ token = "quieto"
  /\ handEdits = "quieto" /\ moves = "quieto" /\ orderDrift = "quieto"
DeskOff ==
  /\ item = "quieto" /\ last = "quieto" /\ restock = "quieto" /\ deskJob = "quieto"
  /\ alarm = "quieto" /\ low = "quieto" /\ told = "quieto" /\ untold = "quieto"
  /\ refused = "quieto" /\ requests = "quieto"

Init ==
  \/ subject = "archivos"  /\ Files!Init /\ BoardsOff /\ DeskOff
  \/ subject = "tableros"  /\ Boards!Init /\ FilesOff /\ DeskOff
  \/ subject = "articulos" /\ Desk!Init /\ FilesOff /\ BoardsOff

FilesStep  == subject = "archivos" /\ Files!Next /\ UNCHANGED << subject, boardVars, deskVars >>
BoardsStep == subject = "tableros" /\ Boards!Next /\ UNCHANGED << subject, fileVars, deskVars >>
DeskStep   == subject = "articulos" /\ Desk!Next /\ UNCHANGED << subject, fileVars, boardVars >>
Next == FilesStep \/ BoardsStep \/ DeskStep
Spec == Init /\ [][Next]_vars

-----------------------------------------------------------------------------
(* Type invariant: of the subject.                                          *)
TypeOK ==
  /\ subject = "archivos" => Files!TypeOK
  /\ subject = "tableros" => Boards!TypeOK
  /\ subject = "articulos" => Desk!TypeOK

(* Every file reads back the last content written to it (BlobStore).        *)
FilesReadable == subject = "archivos" => Files!FilesReadable

(* An object without a row has a cause (BlobStore).                         *)
OrphansExplained == subject = "archivos" => Files!OrphansExplained

(* The lists follow who may open the order, what is to be done is on the    *)
(* board of somebody, and the panels tell the same (OrderBoards).           *)
BoardsTell == subject = "tableros" => Boards!BoardsTell

(* An article that is low was announced, its code is its own, and whoever   *)
(* asked for more knows what became of it (InventoryDesk).                  *)
DeskTells ==
  subject = "articulos" => Desk!LowIsAnnounced /\ Desk!CodesAreOwn /\ Desk!RestockTold
=============================================================================
