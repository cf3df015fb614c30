----------------------------- MODULE OrderWork -----------------------------
(***************************************************************************)
(* The work of an order and its notices: TaskWork, an area whose list of   *)
(* stages is edited while one task goes through it; and OrderNotices, one  *)
(* order with two receptionists, a designer, a person who changes areas    *)
(* and the account of a branch.  They share no state, so a behaviour is    *)
(* one of one of them - its subject - and the other stays where it is.     *)
(***************************************************************************)
EXTENDS Integers, Sequences, FiniteSets

CONSTANTS
  Workers,
  Staff, Fields, Required, Lists, MaxList, MaxRows, MaxEdits, MaxTests,
  MaxRequests,                                  \* TaskWork
  MaxNoticeRequests, MaxRounds, MaxMoves        \* OrderNotices

VARIABLES
  subject,
  rows, cache, order, task, tests, pc, job, requests, edits, drift,   \* TaskWork
  notedOrder, member, rooms, muted, notices, heard, noticePc, noticeJob,
  noticeRequests, moves, debts, excused                               \* OrderNotices

Work    == INSTANCE TaskWork WITH People <- Staff
Notices == INSTANCE OrderNotices WITH
  MaxRequests <- MaxNoticeRequests, order <- notedOrder, rows <- notices,
  pc <- noticePc, job <- noticeJob, requests <- noticeRequests

(* An area begins with a valid list, and NoOne is nobody's name.            *)
ASSUME WorkAssumption ==
  /\ MaxList \in Nat /\ MaxRows \in Nat /\ MaxEdits \in Nat /\ MaxRequests \in Nat
  /\ \A l \in Lists : /\ l \in Seq(Work!Kinds) /\ Len(l) <= MaxRows
                      /\ Work!ValidList([k \in DOMAIN l |-> [id |-> k, kind |-> l[k]]])
  /\ Work!NoOne \notin Staff
ASSUME NoticesAssumption ==
  /\ IsFiniteSet(Workers)
  /\ MaxNoticeRequests \in Nat /\ MaxRounds \in Nat /\ MaxMoves \in Nat

workVars   == << rows, cache, order, task, tests, pc, job, requests, edits, drift >>
noticeVars == << notedOrder, member, rooms, muted, notices, heard, noticePc, noticeJob,
                 noticeRequests, moves, debts, excused >>
vars == << subject, workVars, noticeVars >>

(* The machine that is not the subject.                                     *)
WorkOff ==
  /\ rows = "quieto" /\ cache = "quieto" /\ order = "quieto"
  /\ task = "quieto" /\ tests = "quieto" /\ pc = "quieto" /\ job = "quieto"
  /\ requests = "quieto" /\ edits = "quieto" /\ drift = "quieto"
NoticesOff ==
  /\ notedOrder = "quieto" /\ member = "quieto" /\ rooms = "quieto"
  /\ muted = "quieto" /\ notices = "quieto" /\ heard = "quieto"
  /\ noticePc = "quieto" /\ noticeJob = "quieto" /\ noticeRequests = "quieto"
  /\ moves = "quieto" /\ debts = "quieto" /\ excused = "quieto"

Init ==
  \/ subject = "tareas" /\ Work!Init /\ NoticesOff
  \/ subject = "avisos" /\ Notices!Init /\ WorkOff

WorkStep    == subject = "tareas" /\ Work!Next /\ UNCHANGED << subject, noticeVars >>
NoticesStep == subject = "avisos" /\ Notices!Next /\ UNCHANGED << subject, workVars >>
Next == WorkStep \/ NoticesStep
Spec == Init /\ [][Next]_vars

-----------------------------------------------------------------------------
(* Type invariant: of the subject.                                          *)
TypeOK ==
  /\ subject = "tareas" => Work!TypeOK
  /\ subject = "avisos" => Notices!TypeOK

(* The list of stages of an area stays valid, and the stage of a task tells *)
(* what is being done: none once production has begun, a review exactly     *)
(* when a round of samples is open (TaskWork).                              *)
StageTellsWork ==
  subject = "tareas" =>
    Work!StageListValid /\ Work!StartedIsOutOfStages /\ Work!ReviewHasOpenTest

(* A task moves one stage at a time along the list (TaskWork).              *)
StagesInOrder == [][subject = "tareas" => Work!StageMoves]_vars

(* Starting a task takes it from nobody, and a capture loses no field       *)
(* (TaskWork).                                                              *)
NothingTakenOrLost == [][subject = "tareas" => Work!TakesOrLosesNothing]_vars

(* Whoever has to be told of a change is (OrderNotices).                    *)
NoticesFollow == subject = "avisos" => Notices!NoticesFollow

(* What is for Recepcion as a whole is written for each of its people       *)
(* (OrderNotices).                                                          *)
ReceptionTold == subject = "avisos" => Notices!ReceptionTold
=============================================================================
