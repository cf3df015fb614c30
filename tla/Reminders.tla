----------------------------- MODULE Reminders -----------------------------
(***************************************************************************)
(* The reminders of one calendar event (CalendarEventReminderService and   *)
(* CalendarEventService).  Every minute a run looks for the reminder the   *)
(* user asked for and then for the fixed one, sends what is due and only   *)
(* then marks it.  Time is counted in units of the fixed lead (an hour).   *)
(***************************************************************************)
EXTENDS Integers, FiniteSets

CONSTANTS
  Runs,       \* runs that may overlap
  Leads,      \* lead times a user asks for
  MaxTime,    \* bound: last instant
  MaxEdits    \* bound: edits of the event

None   == -1
Kinds  == {"propio", "final"}     \* reminderSentAt, finalReminderSentAt
Lead   == 1                       \* FINAL_REMINDER_MINUTES_BEFORE
Causes == {"tarde", "cambio", "caida", "solapadas", "fallo"}
NoRun  == [at |-> "espera", kind |-> "propio", due |-> FALSE, now |-> 0]

VARIABLES
  now,
  event,     \* eventDate and reminderMinutesBefore
  sent,      \* kinds marked as sent
  run,
  ticked,    \* history: a run started in this unit of time
  told,      \* history: notices created, by kind
  edits,
  drift      \* history: why a reminder may be missing or repeated

vars == << now, event, sent, run, ticked, told, edits, drift >>

Init ==
  /\ now = 0
  /\ event \in [date : 1..MaxTime, before : {None} \cup Leads]
  /\ sent = {}
  /\ run = [r \in Runs |-> NoRun]
  /\ ticked = FALSE
  /\ told = [k \in Kinds |-> 0]
  /\ edits = 0
  /\ drift = {}

-----------------------------------------------------------------------------
LeadOf(k) == IF k = "final" THEN Lead ELSE event.before

(* Mutant of Pending: what was sent is not looked at.                       *)
PendingAnyway(k) == k = "final" \/ event.before # None
Pending(k) == k \notin sent /\ (k = "final" \/ event.before # None)

(* The event is still to come, and its reminder's time is here.             *)
Due(k, t) == event.date > t /\ Pending(k) /\ event.date - LeadOf(k) <= t

Set(r, value) == run' = [run EXCEPT ![r] = value]

(* EVERY_MINUTE: a run starts whether or not the previous one is over.      *)
RunStart(r) ==
  /\ run[r] = NoRun
  /\ ticked' = TRUE
  /\ Set(r, [NoRun EXCEPT !.at = "busca", !.now = now])
  /\ drift' = drift \cup (IF \E q \in Runs : run[q] # NoRun THEN {"solapadas"} ELSE {})
  /\ UNCHANGED << now, event, sent, told, edits >>

Find(r) ==
  /\ run[r].at = "busca"
  /\ Set(r, [run[r] EXCEPT !.at = "envia", !.due = Due(run[r].kind, run[r].now)])
  /\ UNCHANGED << now, event, sent, ticked, told, edits, drift >>

(* The notices are created, or the failure is logged and nothing is marked. *)
Send(r) ==
  /\ run[r].at = "envia"
  /\ IF run[r].due
     THEN \/ told' = [told EXCEPT ![run[r].kind] = @ + 1]
             /\ Set(r, [run[r] EXCEPT !.at = "marca"]) /\ UNCHANGED drift
          \/ Set(r, [run[r] EXCEPT !.at = "marca", !.due = FALSE])
             /\ drift' = drift \cup {"fallo"} /\ UNCHANGED told
     ELSE Set(r, [run[r] EXCEPT !.at = "marca"]) /\ UNCHANGED << told, drift >>
  /\ UNCHANGED << now, event, sent, ticked, edits >>

Mark(r) ==
  /\ run[r].at = "marca"
  /\ sent' = IF run[r].due THEN sent \cup {run[r].kind} ELSE sent
  /\ Set(r, IF run[r].kind = "propio"
            THEN [run[r] EXCEPT !.at = "busca", !.kind = "final", !.due = FALSE] ELSE NoRun)
  /\ UNCHANGED << now, event, ticked, told, edits, drift >>

RunCrash(r) ==
  /\ run[r] # NoRun
  /\ edits < MaxEdits /\ edits' = edits + 1
  /\ Set(r, NoRun)
  /\ drift' = drift \cup {"caida"}
  /\ UNCHANGED << now, event, sent, ticked, told >>

(* A unit of time goes by: normally a run started in it and is over.        *)
Tick ==
  /\ now < MaxTime
  /\ now' = now + 1
  /\ ticked' = FALSE
  /\ drift' = drift \cup (IF ticked /\ \A r \in Runs : run[r] = NoRun THEN {} ELSE {"tarde"})
  /\ UNCHANGED << event, sent, run, told, edits >>

-----------------------------------------------------------------------------
(* update: a new date leaves what was sent as it is; a lead time, even the  *)
(* same one, clears the mark of the reminder the user asked for.            *)
Edit(date, before) ==
  /\ edits < MaxEdits /\ edits' = edits + 1
  /\ event' = [date |-> date, before |-> before]
  /\ sent' \in {sent \ {"propio"}} \cup {s \in {sent} : before = event.before}
  /\ drift' = drift \cup {"cambio"}
  /\ UNCHANGED << now, run, ticked, told >>

-----------------------------------------------------------------------------
Next ==
  \/ Tick
  \/ \E r \in Runs : RunStart(r) \/ Find(r) \/ Send(r) \/ Mark(r) \/ RunCrash(r)
  \/ \E d \in 1..MaxTime, b \in {None} \cup Leads : Edit(d, b)

Spec == Init /\ [][Next]_vars

-----------------------------------------------------------------------------
(* Type invariant.                                                          *)
TypeOK ==
  /\ now \in 0..MaxTime
  /\ event \in [date : 1..MaxTime, before : {None} \cup Leads]
  /\ sent \subseteq Kinds
  /\ run \in [Runs -> [at : {"espera", "busca", "envia", "marca"}, kind : Kinds,
                       due : BOOLEAN, now : 0..MaxTime]]
  /\ told \in [Kinds -> Nat]
  /\ drift \subseteq Causes

(* Each reminder of an event is sent once: never twice unless two runs      *)
(* overlapped, one died between sending and marking, or the event was       *)
(* changed; and it has been sent when the event comes, unless besides the   *)
(* cron was late or sending failed.                                         *)
RemindedOnce ==
  /\ drift \cap {"solapadas", "caida", "cambio"} = {} => \A k \in Kinds : told[k] <= 1
  /\ drift = {} /\ now >= event.date =>
       \A k \in Kinds : k = "final" \/ event.before # None => told[k] = 1
=============================================================================
