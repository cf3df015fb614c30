--------------------------- MODULE Office_proofs ---------------------------
(***************************************************************************)
(* The office's machines keep what their runs check, whatever the number of*)
(* requests, orders, clients...  For each machine: the inductive invariant *)
(* (named XInv), that it implies the machine's type invariant and property *)
(* (XInvSafe), that it holds at the start (XInvInit), that each action     *)
(* keeps it (a lemma each, together XInvStep), and that a step of another  *)
(* machine does (XInvKept).  The theorems about the whole are at the end.  *)
(***************************************************************************)
EXTENDS Office, FiniteSetTheorems, SequenceTheorems, TLAPS

(* The number of elements of a set, as each machine names it.               *)
LEMMA OfficeCardinality ==
  \A S : /\ Online!Cardinality(S) = Cardinality(S)
         /\ Upkeep!Cardinality(S) = Cardinality(S)
         /\ Feed!Cardinality(S) = Cardinality(S)
BY DEF Online!Cardinality, Upkeep!Cardinality, Feed!Cardinality, Cardinality

-----------------------------------------------------------------------------
(* Reminders.                                                               *)

(* Nothing that may repeat a reminder has happened.                         *)
ReminderUndisturbed == reminderDrift \cap {"solapadas", "caida", "cambio"} = {}

(* A run sent the reminder k and has not marked it.                         *)
ReminderUnmarked(r, k) == reminderRun[r].at = "marca" /\ reminderRun[r].kind = k
  /\ reminderRun[r].due

(* One run at a time, which sends what is not marked: what was sent is      *)
(* marked or about to be.                                                   *)
ReminderSentOnce ==
  /\ \A q, r \in Runs : reminderRun[q] # Calendar!NoRun /\ reminderRun[r] # Calendar!NoRun => q = r
  /\ \A r \in Runs : reminderRun[r].due => reminderRun[r].kind \notin sent
  /\ \A k \in Calendar!Kinds :
       /\ reminded[k] = 1 <=> k \in sent \/ \E r \in Runs : ReminderUnmarked(r, k)
       /\ reminded[k] \in {0, 1}

ReminderAsked(k) == k = "final" \/ event.before # Calendar!None

(* A run has still to look for the reminder k, or is about to mark it.      *)
ReminderAhead(r, k) ==
  /\ reminderRun[r] # Calendar!NoRun
  /\ \/ reminderRun[r].kind = "propio" /\ k = "final"
     \/ reminderRun[r].kind = k /\ (reminderRun[r].at = "busca" \/ reminderRun[r].due)

(* A unit of time in which a run started leaves nothing due behind, once    *)
(* the run is over.                                                         *)
ReminderOnTime ==
  /\ \A r \in Runs : reminderRun[r] # Calendar!NoRun => reminderRun[r].now = now
  /\ \A k \in Calendar!Kinds : ReminderAsked(k) /\ now >= event.date => k \in sent
  /\ \A k \in Calendar!Kinds :
       ReminderAsked(k) /\ ticked /\ now < event.date /\ event.date - Calendar!LeadOf(k) <= now =>
         k \in sent \/ \E r \in Runs : ReminderAhead(r, k)

ReminderInv ==
  /\ Calendar!TypeOK
  /\ ticked \in BOOLEAN
  /\ \A r \in Runs : (reminderRun[r].at = "espera" => reminderRun[r] = Calendar!NoRun)
                     /\ (reminderRun[r].at = "busca" => ~reminderRun[r].due)
  /\ ReminderUndisturbed => ReminderSentOnce
  /\ reminderDrift = {} => ReminderOnTime

LEMMA NoRunFacts ==
  /\ Calendar!NoRun \in [at : {"espera", "busca", "envia", "marca"}, kind : Calendar!Kinds,
                due : BOOLEAN, now : 0..MaxTime]
  /\ Calendar!NoRun.at = "espera" /\ Calendar!NoRun.kind = "propio" /\ ~Calendar!NoRun.due
BY ReminderAssumption DEF Calendar!NoRun, Calendar!Kinds

LEMMA LeadFacts ==
  ASSUME ReminderInv, NEW k \in Calendar!Kinds, ReminderAsked(k)
  PROVE  Calendar!LeadOf(k) \in Int /\ Calendar!LeadOf(k) >= 1
<1>1. event.before \in {Calendar!None} \cup Leads
  BY DEF ReminderInv, Calendar!TypeOK
<1>2. k # "final" => event.before \in Nat \ {0}
  BY <1>1, ReminderAssumption DEF ReminderAsked
<1> QED  BY <1>2 DEF Calendar!LeadOf, Calendar!Lead

LEMMA ReminderInvSafe == ReminderInv => Calendar!TypeOK /\ Calendar!RemindedOnce
<1> SUFFICES ASSUME ReminderInv PROVE Calendar!RemindedOnce
  BY DEF ReminderInv
<1>1. ReminderUndisturbed => \A k \in Calendar!Kinds : reminded[k] <= 1
  BY DEF ReminderInv, ReminderSentOnce
<1>2. ASSUME reminderDrift = {}, now >= event.date
      PROVE  \A k \in Calendar!Kinds : k = "final" \/ event.before # Calendar!None =>
               reminded[k] = 1
  <2>1. ReminderUndisturbed
    BY <1>2 DEF ReminderUndisturbed
  <2> QED  BY <1>2, <2>1 DEF ReminderInv, ReminderSentOnce, ReminderOnTime, ReminderAsked
<1> QED  BY <1>1, <1>2 DEF Calendar!RemindedOnce, ReminderUndisturbed

LEMMA ReminderInvInit == Calendar!Init => ReminderInv
<1> SUFFICES ASSUME Calendar!Init PROVE ReminderInv
  OBVIOUS
<1>1. Calendar!TypeOK /\ ticked \in BOOLEAN
  <2>1. now \in 0..MaxTime /\ reminded \in [Calendar!Kinds -> Nat]
    BY ReminderAssumption DEF Calendar!Init
  <2>2. reminderRun \in [Runs -> [at : {"espera", "busca", "envia", "marca"}, kind : Calendar!Kinds,
                         due : BOOLEAN, now : 0..MaxTime]]
    BY NoRunFacts DEF Calendar!Init
  <2> QED  BY <2>1, <2>2 DEF Calendar!Init, Calendar!TypeOK
<1>2. ReminderSentOnce
  BY NoRunFacts DEF Calendar!Init, ReminderSentOnce, ReminderUnmarked
<1>3. ReminderOnTime
  BY ReminderAssumption DEF Calendar!Init, ReminderOnTime
<1> QED  BY <1>1, <1>2, <1>3, NoRunFacts DEF Calendar!Init, ReminderInv

LEMMA ReminderTick == ASSUME ReminderInv, Calendar!Tick PROVE ReminderInv'
<1>1. /\ now' = now + 1 /\ now < MaxTime /\ ticked' = FALSE
      /\ UNCHANGED << event, sent, reminderRun, reminded >>
      /\ reminderDrift \subseteq reminderDrift'
  BY DEF Calendar!Tick
<1>2. Calendar!TypeOK' /\ ticked' \in BOOLEAN
  <2>1. now' \in 0..MaxTime
    BY <1>1, ReminderAssumption DEF ReminderInv, Calendar!TypeOK
  <2>2. reminderDrift' \subseteq Calendar!Causes
    BY DEF ReminderInv, Calendar!TypeOK, Calendar!Tick, Calendar!Causes
  <2> QED  BY <1>1, <2>1, <2>2 DEF ReminderInv, Calendar!TypeOK
<1>3. ReminderUndisturbed' => ReminderSentOnce'
  BY <1>1 DEF ReminderInv, ReminderUndisturbed, ReminderSentOnce, ReminderUnmarked
<1>4. ASSUME reminderDrift' = {} PROVE ReminderOnTime'
  <2>1. reminderDrift = {} /\ ticked /\ \A r \in Runs : reminderRun[r] = Calendar!NoRun
    BY <1>1, <1>4 DEF Calendar!Tick
  <2>2. ASSUME NEW k \in Calendar!Kinds, ReminderAsked(k)', now' >= event'.date PROVE k \in sent
    <3>1. ReminderAsked(k)
      BY <1>1, <2>2 DEF ReminderAsked
    <3>2. CASE now >= event.date
      BY <2>1, <3>1, <3>2 DEF ReminderInv, ReminderOnTime
    <3>3. CASE now < event.date
      <4>1. event.date - Calendar!LeadOf(k) <= now
        BY <1>1, <2>2, <3>1, LeadFacts DEF ReminderInv, Calendar!TypeOK
      <4> QED  BY <2>1, <3>1, <3>3, <4>1 DEF ReminderInv, ReminderOnTime, ReminderAhead
    <3> QED  BY <3>2, <3>3 DEF ReminderInv, Calendar!TypeOK
  <2> QED  BY <1>1, <2>1, <2>2 DEF ReminderOnTime
<1> QED  BY <1>1, <1>2, <1>3, <1>4 DEF ReminderInv

LEMMA ReminderRunStart ==
  ASSUME ReminderInv, NEW r \in Runs, Calendar!RunStart(r) PROVE ReminderInv'
<1> DEFINE new == [Calendar!NoRun EXCEPT !.at = "busca", !.now = now]
<1>1. /\ reminderRun' = [reminderRun EXCEPT ![r] = new] /\ reminderRun[r] = Calendar!NoRun
      /\ ticked' = TRUE
      /\ UNCHANGED << now, event, sent, reminded >>
      /\ reminderDrift' = reminderDrift \cup
           (IF \E q \in Runs : reminderRun[q] # Calendar!NoRun THEN {"solapadas"} ELSE {})
  BY DEF Calendar!RunStart, Calendar!Set
<1>2. /\ new \in [at : {"espera", "busca", "envia", "marca"}, kind : Calendar!Kinds,
                  due : BOOLEAN, now : 0..MaxTime]
      /\ new.at = "busca" /\ new.kind = "propio" /\ new.now = now /\ ~new.due
  BY NoRunFacts DEF ReminderInv, Calendar!TypeOK
<1>3. new # Calendar!NoRun
  BY <1>2, NoRunFacts
<1> HIDE DEF new
<1>4. reminderRun'[r] = new /\ \A q \in Runs \ {r} : reminderRun'[q] = reminderRun[q]
  BY <1>1 DEF ReminderInv, Calendar!TypeOK
<1>5. Calendar!TypeOK' /\ ticked' \in BOOLEAN
  BY <1>1, <1>2 DEF ReminderInv, Calendar!TypeOK, Calendar!Causes
<1>6. ASSUME ReminderUndisturbed' PROVE ReminderSentOnce'
  <2>1. ReminderUndisturbed /\ \A q \in Runs : reminderRun[q] = Calendar!NoRun
    BY <1>1, <1>6 DEF ReminderUndisturbed
  <2>2. \A q \in Runs, k \in Calendar!Kinds : ~ReminderUnmarked(q, k)
    BY <2>1, NoRunFacts DEF ReminderUnmarked
  <2>3. \A q \in Runs, k \in Calendar!Kinds : ~ReminderUnmarked(q, k)'
    BY <1>2, <1>4, <2>1, NoRunFacts DEF ReminderUnmarked
  <2>4. \A q \in Runs : ~reminderRun'[q].due
    BY <1>2, <1>4, <2>1, NoRunFacts
  <2> QED  BY <1>1, <1>4, <2>1, <2>2, <2>3, <2>4 DEF ReminderInv, ReminderSentOnce
<1>7. ASSUME reminderDrift' = {} PROVE ReminderOnTime'
  <2>1. reminderDrift = {} /\ \A q \in Runs : reminderRun[q] = Calendar!NoRun
    BY <1>1, <1>7
  <2>2. \A k \in Calendar!Kinds : ReminderAhead(r, k)'
    BY <1>2, <1>3, <1>4 DEF ReminderAhead, Calendar!Kinds
  <2>3. \A q \in Runs : reminderRun'[q] # Calendar!NoRun => reminderRun'[q].now = now
    BY <1>2, <1>4, <2>1
  <2> QED  BY <1>1, <2>1, <2>2, <2>3 DEF ReminderInv, ReminderOnTime, ReminderAsked
<1> QED  BY <1>2, <1>4, <1>5, <1>6, <1>7 DEF ReminderInv

LEMMA ReminderFind == ASSUME ReminderInv, NEW r \in Runs, Calendar!Find(r) PROVE ReminderInv'
<1> DEFINE new == [reminderRun[r] EXCEPT !.at = "envia", !.due =
             Calendar!Due(reminderRun[r].kind, reminderRun[r].now)]
<1>1. /\ reminderRun' = [reminderRun EXCEPT ![r] = new] /\ reminderRun[r].at = "busca"
      /\ UNCHANGED << now, event, sent, ticked, reminded, reminderDrift >>
  BY DEF Calendar!Find, Calendar!Set
<1>2. /\ new \in [at : {"espera", "busca", "envia", "marca"}, kind : Calendar!Kinds,
                  due : BOOLEAN, now : 0..MaxTime]
      /\ new.at = "envia" /\ new.kind = reminderRun[r].kind /\ new.now = reminderRun[r].now
      /\ new.due = Calendar!Due(reminderRun[r].kind, reminderRun[r].now)
  BY DEF ReminderInv, Calendar!TypeOK, Calendar!Due, Calendar!Pending
<1>3. new # Calendar!NoRun /\ reminderRun[r] # Calendar!NoRun
  BY <1>1, <1>2, NoRunFacts
<1> HIDE DEF new
<1>4. reminderRun'[r] = new /\ \A q \in Runs \ {r} : reminderRun'[q] = reminderRun[q]
  BY <1>1 DEF ReminderInv, Calendar!TypeOK
<1>5. Calendar!TypeOK' /\ ticked' \in BOOLEAN
  BY <1>1, <1>2 DEF ReminderInv, Calendar!TypeOK
<1>6. ASSUME ReminderUndisturbed' PROVE ReminderSentOnce'
  <2>1. ReminderUndisturbed /\ ReminderSentOnce
    BY <1>1, <1>6 DEF ReminderUndisturbed, ReminderInv
  <2>2. \A q \in Runs, k \in Calendar!Kinds : ReminderUnmarked(q, k)' <=> ReminderUnmarked(q, k)
    BY <1>1, <1>2, <1>4 DEF ReminderUnmarked
  <2>3. new.due => new.kind \notin sent
    BY <1>2 DEF Calendar!Due, Calendar!Pending
  <2> QED  BY <1>1, <1>3, <1>4, <2>1, <2>2, <2>3 DEF ReminderSentOnce
<1>7. ASSUME reminderDrift' = {} PROVE ReminderOnTime'
  <2>1. reminderDrift = {} /\ ReminderOnTime /\ reminderRun[r].now = now
    BY <1>1, <1>3, <1>7 DEF ReminderInv, ReminderOnTime
  <2>2. ASSUME NEW k \in Calendar!Kinds, ReminderAsked(k), now < event.date,
               event.date - Calendar!LeadOf(k) <= now,
               NEW q \in Runs, ReminderAhead(q, k), k \notin sent
        PROVE  ReminderAhead(q, k)'
    <3>1. CASE q = r
      BY <1>2, <1>3, <1>4, <2>1, <2>2, <3>1 DEF ReminderAhead, Calendar!Due, Calendar!Pending,
         ReminderAsked
    <3>2. CASE q # r
      BY <1>4, <2>2, <3>2 DEF ReminderAhead
    <3> QED  BY <3>1, <3>2
  <2>3. \A k \in Calendar!Kinds : (ReminderAsked(k)' <=> ReminderAsked(k))
          /\ Calendar!LeadOf(k)' = Calendar!LeadOf(k)
    BY <1>1 DEF ReminderAsked, Calendar!LeadOf
  <2>4. \A q \in Runs : reminderRun'[q] # Calendar!NoRun => reminderRun'[q].now = now
    BY <1>2, <1>4, <2>1 DEF ReminderOnTime
  <2> QED  BY <1>1, <2>1, <2>2, <2>3, <2>4 DEF ReminderOnTime
<1> QED  BY <1>2, <1>4, <1>5, <1>6, <1>7 DEF ReminderInv

LEMMA ReminderSend == ASSUME ReminderInv, NEW r \in Runs, Calendar!Send(r) PROVE ReminderInv'
<1> DEFINE Marked(d) == [reminderRun[r] EXCEPT !.at = "marca", !.due = d]
<1>1. PICK d \in BOOLEAN :
        /\ reminderRun' = [reminderRun EXCEPT ![r] = Marked(d)]
        /\ d => reminderRun[r].due
        /\ reminded' = IF d THEN [reminded EXCEPT ![reminderRun[r].kind] = @ + 1] ELSE reminded
        /\ reminderDrift \subseteq reminderDrift'
        /\ reminderDrift' \subseteq reminderDrift \cup {"fallo"}
        /\ reminderDrift' = {} => d = reminderRun[r].due
  <2>1. reminderRun[r].due \in BOOLEAN
          /\ [reminderRun[r] EXCEPT !.at = "marca"] = Marked(reminderRun[r].due)
    BY DEF ReminderInv, Calendar!TypeOK
  <2>2. \/ /\ reminderRun' = [reminderRun EXCEPT ![r] = Marked(TRUE)] /\ reminderRun[r].due
           /\ reminderDrift' = reminderDrift
           /\ reminded' = [reminded EXCEPT ![reminderRun[r].kind] = @ + 1]
        \/ /\ reminderRun' = [reminderRun EXCEPT ![r] = Marked(FALSE)] /\ reminded' = reminded
           /\ reminderDrift' = reminderDrift \cup {"fallo"}
                \/ (reminderDrift' = reminderDrift /\ ~reminderRun[r].due)
    <3>1. CASE reminderRun[r].due
      BY <2>1, <3>1 DEF Calendar!Send, Calendar!Set
    <3>2. CASE ~reminderRun[r].due
      <4>1. reminderRun[r].due = FALSE
        BY <2>1, <3>2
      <4>2. /\ reminderRun' = [reminderRun EXCEPT ![r] = Marked(FALSE)] /\ reminded' = reminded
            /\ reminderDrift' = reminderDrift
        BY <2>1, <3>2, <4>1 DEF Calendar!Send, Calendar!Set
      <4> QED  BY <3>2, <4>2
    <3> QED  BY <3>1, <3>2
  <2> HIDE DEF Marked
  <2> QED  BY <2>1, <2>2
<1> DEFINE new == Marked(d)
<1>2. reminderRun[r].at = "envia" /\ UNCHANGED << now, event, sent, ticked >>
  BY DEF Calendar!Send
<1>3. /\ new \in [at : {"espera", "busca", "envia", "marca"}, kind : Calendar!Kinds,
                  due : BOOLEAN, now : 0..MaxTime]
      /\ new.at = "marca" /\ new.kind = reminderRun[r].kind /\ new.now = reminderRun[r].now
      /\ new.due = d
  BY DEF ReminderInv, Calendar!TypeOK
<1>4. /\ new # Calendar!NoRun /\ reminderRun[r] # Calendar!NoRun
      /\ reminderRun[r].kind \in Calendar!Kinds
  BY <1>2, <1>3, NoRunFacts
<1> HIDE DEF new
<1>5. reminderRun'[r] = new /\ \A q \in Runs \ {r} : reminderRun'[q] = reminderRun[q]
  BY <1>1 DEF ReminderInv, Calendar!TypeOK, new
<1>6. Calendar!TypeOK' /\ ticked' \in BOOLEAN
  <2>1. reminded' \in [Calendar!Kinds -> Nat]
    BY <1>1, <1>4 DEF ReminderInv, Calendar!TypeOK
  <2>2. reminderDrift' \subseteq Calendar!Causes
    BY <1>1 DEF ReminderInv, Calendar!TypeOK, Calendar!Causes
  <2>3. reminderRun' \in [Runs -> [at : {"espera", "busca", "envia", "marca"},
          kind : Calendar!Kinds,
                           due : BOOLEAN, now : 0..MaxTime]]
    BY <1>1, <1>3 DEF ReminderInv, Calendar!TypeOK, new
  <2> QED  BY <1>2, <2>1, <2>2, <2>3 DEF ReminderInv, Calendar!TypeOK
<1>7. ASSUME ReminderUndisturbed' PROVE ReminderSentOnce'
  <2>1. ReminderUndisturbed /\ ReminderSentOnce
    BY <1>1, <1>7 DEF ReminderUndisturbed, ReminderInv
  <2>2. \A q \in Runs \ {r} : reminderRun[q] = Calendar!NoRun
    BY <1>4, <2>1 DEF ReminderSentOnce
  <2>3. \A q \in Runs, k \in Calendar!Kinds : ~ReminderUnmarked(q, k)
    BY <1>2, <2>2, NoRunFacts DEF ReminderUnmarked
  <2>4. \A q \in Runs, k \in Calendar!Kinds : ReminderUnmarked(q, k)' <=> q = r
          /\ k = reminderRun[r].kind /\ d
    BY <1>3, <1>5, <2>2, NoRunFacts DEF ReminderUnmarked
  <2>5. d => reminderRun[r].kind \notin sent
    BY <1>1, <2>1 DEF ReminderSentOnce
  <2>6. \A k \in Calendar!Kinds : reminded'[k] = IF d /\ k =
          reminderRun[r].kind THEN reminded[k] + 1 ELSE reminded[k]
    BY <1>1 DEF ReminderInv, Calendar!TypeOK
  <2>7. ASSUME NEW k \in Calendar!Kinds
        PROVE  /\ reminded'[k] = 1 <=> k \in sent \/ \E q \in Runs : ReminderUnmarked(q, k)'
               /\ reminded'[k] \in {0, 1}
    BY <2>1, <2>3, <2>4, <2>5, <2>6 DEF ReminderSentOnce
  <2>8. /\ \A p, q \in Runs : reminderRun'[p] # Calendar!NoRun
            /\ reminderRun'[q] # Calendar!NoRun => p = q
        /\ \A q \in Runs : reminderRun'[q].due => reminderRun'[q].kind \notin sent
    BY <1>3, <1>5, <2>2, <2>5, NoRunFacts
  <2> QED  BY <1>2, <2>7, <2>8 DEF ReminderSentOnce
<1>8. ASSUME reminderDrift' = {} PROVE ReminderOnTime'
  <2>1. reminderDrift = {} /\ ReminderOnTime /\ d = reminderRun[r].due
    BY <1>1, <1>8 DEF ReminderInv
  <2>2. \A q \in Runs, k \in Calendar!Kinds : ReminderAhead(q, k) => ReminderAhead(q, k)'
    BY <1>2, <1>3, <1>4, <1>5, <2>1 DEF ReminderAhead
  <2>3. \A k \in Calendar!Kinds : (ReminderAsked(k)' <=> ReminderAsked(k))
          /\ Calendar!LeadOf(k)' = Calendar!LeadOf(k)
    BY <1>2 DEF ReminderAsked, Calendar!LeadOf
  <2>4. \A q \in Runs : reminderRun'[q] # Calendar!NoRun => reminderRun'[q].now = now
    BY <1>3, <1>4, <1>5, <2>1 DEF ReminderOnTime
  <2> QED  BY <1>2, <2>1, <2>2, <2>3, <2>4 DEF ReminderOnTime
<1> QED  BY <1>3, <1>5, <1>6, <1>7, <1>8 DEF ReminderInv

LEMMA ReminderMark == ASSUME ReminderInv, NEW r \in Runs, Calendar!Mark(r) PROVE ReminderInv'
<1> DEFINE new == IF reminderRun[r].kind = "propio"
                  THEN [reminderRun[r] EXCEPT !.at = "busca", !.kind = "final", !.due = FALSE]
                  ELSE Calendar!NoRun
<1>1. /\ reminderRun' = [reminderRun EXCEPT ![r] = new] /\ reminderRun[r].at = "marca"
      /\ sent' = IF reminderRun[r].due THEN sent \cup {reminderRun[r].kind} ELSE sent
      /\ UNCHANGED << now, event, ticked, reminded, reminderDrift >>
  BY DEF Calendar!Mark, Calendar!Set
<1>2. /\ reminderRun[r].kind \in Calendar!Kinds /\ reminderRun[r].due \in BOOLEAN
      /\ new \in [at : {"espera", "busca", "envia", "marca"}, kind : Calendar!Kinds,
                  due : BOOLEAN, now : 0..MaxTime]
      /\ ~new.due /\ new.at # "marca" /\ (new.at = "espera" => new = Calendar!NoRun)
      /\ new # Calendar!NoRun => new.now = reminderRun[r].now
      /\ reminderRun[r].kind = "propio" => new.kind = "final" /\ new.at = "busca"
  BY NoRunFacts DEF ReminderInv, Calendar!TypeOK, Calendar!Kinds
<1>3. reminderRun[r] # Calendar!NoRun
  BY <1>1, NoRunFacts
<1> HIDE DEF new
<1>4. reminderRun'[r] = new /\ \A q \in Runs \ {r} : reminderRun'[q] = reminderRun[q]
  BY <1>1 DEF ReminderInv, Calendar!TypeOK
<1>5. Calendar!TypeOK' /\ ticked' \in BOOLEAN
  BY <1>1, <1>2 DEF ReminderInv, Calendar!TypeOK
<1>6. ASSUME ReminderUndisturbed' PROVE ReminderSentOnce'
  <2>1. ReminderUndisturbed /\ ReminderSentOnce
    BY <1>1, <1>6 DEF ReminderUndisturbed, ReminderInv
  <2>2. \A q \in Runs \ {r} : reminderRun[q] = Calendar!NoRun
    BY <1>3, <2>1 DEF ReminderSentOnce
  <2>3. \A q \in Runs, k \in Calendar!Kinds : ~ReminderUnmarked(q, k)'
    BY <1>2, <1>4, <2>2, NoRunFacts DEF ReminderUnmarked
  <2>4. \A q \in Runs, k \in Calendar!Kinds : ReminderUnmarked(q, k) <=> q = r
          /\ k = reminderRun[r].kind /\ reminderRun[r].due
    BY <1>1, <2>2, NoRunFacts DEF ReminderUnmarked
  <2>5. /\ \A p, q \in Runs : reminderRun'[p] # Calendar!NoRun
            /\ reminderRun'[q] # Calendar!NoRun => p = q
        /\ \A q \in Runs : ~reminderRun'[q].due
    BY <1>2, <1>4, <2>2, NoRunFacts
  <2>6. ASSUME NEW k \in Calendar!Kinds
        PROVE  /\ reminded'[k] = 1 <=> k \in sent'
               /\ reminded'[k] \in {0, 1}
    BY <1>1, <2>1, <2>4 DEF ReminderSentOnce
  <2> QED  BY <2>3, <2>5, <2>6 DEF ReminderSentOnce
<1>7. ASSUME reminderDrift' = {} PROVE ReminderOnTime'
  <2>1. reminderDrift = {} /\ ReminderOnTime /\ ReminderSentOnce
    BY <1>1, <1>7 DEF ReminderInv, ReminderUndisturbed
  <2>2. ASSUME NEW q \in Runs, NEW k \in Calendar!Kinds, ReminderAhead(q, k)
        PROVE  k \in sent' \/ ReminderAhead(q, k)'
    <3>1. q = r
      BY <1>3, <2>1, <2>2 DEF ReminderSentOnce, ReminderAhead
    <3>2. CASE reminderRun[r].kind = "propio" /\ k = "final"
      BY <1>2, <1>4, <3>1, <3>2, NoRunFacts DEF ReminderAhead
    <3>3. CASE reminderRun[r].kind = k /\ reminderRun[r].due
      BY <1>1, <3>3
    <3> QED  BY <1>1, <2>2, <3>1, <3>2, <3>3 DEF ReminderAhead
  <2>3. \A k \in Calendar!Kinds : (ReminderAsked(k)' <=> ReminderAsked(k))
          /\ Calendar!LeadOf(k)' = Calendar!LeadOf(k)
    BY <1>1 DEF ReminderAsked, Calendar!LeadOf
  <2>4. \A q \in Runs : reminderRun'[q] # Calendar!NoRun => reminderRun'[q].now = now
    BY <1>2, <1>3, <1>4, <2>1 DEF ReminderOnTime
  <2>5. sent \subseteq sent'
    BY <1>1
  <2> QED  BY <1>1, <2>1, <2>2, <2>3, <2>4, <2>5 DEF ReminderOnTime
<1> QED  BY <1>2, <1>4, <1>5, <1>6, <1>7 DEF ReminderInv

LEMMA ReminderCrash == ASSUME ReminderInv, NEW r \in Runs, Calendar!RunCrash(r) PROVE ReminderInv'
<1>1. /\ reminderRun' = [reminderRun EXCEPT ![r] = Calendar!NoRun] /\ reminderDrift' =
          reminderDrift \cup {"caida"}
      /\ UNCHANGED << now, event, sent, ticked, reminded >>
  BY DEF Calendar!RunCrash, Calendar!Set
<1>2. reminderDrift' # {} /\ ~ReminderUndisturbed'
  BY <1>1 DEF ReminderUndisturbed
<1> QED  BY <1>1, <1>2, NoRunFacts DEF ReminderInv, Calendar!TypeOK, Calendar!Causes

LEMMA ReminderEdit ==
  ASSUME ReminderInv, NEW d \in 1..MaxTime, NEW b \in {Calendar!None} \cup Leads,
         Calendar!Edit(d, b)
  PROVE  ReminderInv'
<1>1. /\ event' = [date |-> d, before |-> b] /\ reminderDrift' = reminderDrift \cup {"cambio"}
      /\ sent' \subseteq sent
      /\ UNCHANGED << now, reminderRun, ticked, reminded >>
  BY DEF Calendar!Edit
<1>2. reminderDrift' # {} /\ ~ReminderUndisturbed'
  BY <1>1 DEF ReminderUndisturbed
<1> QED  BY <1>1, <1>2 DEF ReminderInv, Calendar!TypeOK, Calendar!Causes

LEMMA ReminderInvStep == ReminderInv /\ Calendar!Next => ReminderInv'
<1> SUFFICES ASSUME ReminderInv, Calendar!Next PROVE ReminderInv'
  OBVIOUS
<1> QED  BY ReminderTick, ReminderRunStart, ReminderFind, ReminderSend, ReminderMark,
            ReminderCrash, ReminderEdit DEF Calendar!Next

LEMMA ReminderInvKept == ReminderInv /\ UNCHANGED Calendar!vars => ReminderInv'
BY DEF ReminderInv, Calendar!TypeOK, ReminderUndisturbed, ReminderSentOnce, ReminderUnmarked,
   ReminderOnTime, ReminderAhead, ReminderAsked, Calendar!LeadOf, Calendar!vars

-----------------------------------------------------------------------------
(* Presence.                                                                *)

PresenceInv == Online!TypeOK /\ Online!PresenceTold

LEMMA PresenceInvInit == Online!Init => PresenceInv
<1> SUFFICES ASSUME Online!Init PROVE PresenceInv
  OBVIOUS
<1>1. connects \in 0..MaxConnects
  BY PresenceAssumption DEF Online!Init
<1>2. Online!Room = {}
  BY DEF Online!Init, Online!Room
<1> QED  BY <1>1, <1>2 DEF Online!Init, PresenceInv, Online!TypeOK, Online!PresenceTold

(* The room after a step of one socket.                                     *)
LEMMA RoomFacts ==
  ASSUME PresenceInv, NEW s \in Sockets,
         NEW where \in {"fuera", "consulta", "abandona", "dentro", "guarda"}, Online!At(s, where)
  PROVE  /\ Online!Room' = IF where = "dentro" THEN Online!Room \cup {s} ELSE Online!Room \ {s}
         /\ \A r \in Sockets \ {s} : socket'[r] = socket[r]
         /\ socket'[s] = where
         /\ socket' \in [Sockets -> {"fuera", "consulta", "abandona", "dentro", "guarda"}]
BY DEF PresenceInv, Online!TypeOK, Online!At, Online!Room

LEMMA FirstInFacts ==
  /\ \A s : Online!FirstIn({s})
  /\ ~Online!FirstIn({})
BY OfficeCardinality, FS_EmptySet, FS_Singleton DEF Online!FirstIn

LEMMA PresenceJoin ==
  ASSUME PresenceInv, NEW s \in Sockets, Online!Join(s),
         connects' \in 0..MaxConnects PROVE PresenceInv'
<1>1. /\ Online!Room' = Online!Room \cup {s} /\ UNCHANGED << branchOnly, presenceDrift >>
      /\ socket' \in [Sockets -> {"fuera", "consulta", "abandona", "dentro", "guarda"}]
      /\ shown' = (shown \/ Online!FirstIn(Online!Room \cup {s}))
  BY RoomFacts DEF Online!Join
<1>2. Online!TypeOK'
  BY <1>1 DEF PresenceInv, Online!TypeOK, Online!FirstIn
<1>3. Online!Room = {} => Online!FirstIn(Online!Room \cup {s})
  BY FirstInFacts
<1> QED  BY <1>1, <1>2, <1>3 DEF PresenceInv, Online!PresenceTold

LEMMA PresenceConnect ==
  ASSUME PresenceInv, NEW s \in Sockets, Online!Connect(s) PROVE PresenceInv'
<1>1. connects' \in 0..MaxConnects
  BY PresenceAssumption DEF PresenceInv, Online!TypeOK, Online!Connect
<1>2. CASE branchOnly
  <2>1. Online!At(s, "consulta") /\ socket[s] = "fuera" /\ UNCHANGED << branchOnly, shown,
          presenceDrift >>
    BY <1>2 DEF Online!Connect
  <2>2. /\ Online!Room' = Online!Room /\ \A r \in Sockets \ {s} : socket'[r] = socket[r]
        /\ socket' \in [Sockets -> {"fuera", "consulta", "abandona", "dentro", "guarda"}]
    BY <2>1, RoomFacts DEF Online!Room
  <2> QED  BY <1>1, <2>1, <2>2 DEF PresenceInv, Online!TypeOK, Online!PresenceTold
<1>3. CASE ~branchOnly
  BY <1>1, <1>3, PresenceJoin DEF Online!Connect
<1> QED  BY <1>2, <1>3

LEMMA PresenceBranchRead ==
  ASSUME PresenceInv, NEW s \in Sockets, Online!BranchRead(s) PROVE PresenceInv'
<1>1. connects' \in 0..MaxConnects
  BY DEF PresenceInv, Online!TypeOK, Online!BranchRead
<1>2. CASE Online!Join(s)
  BY <1>1, <1>2, PresenceJoin
<1>3. CASE ~Online!Join(s)
  <2>1. /\ Online!At(s, "fuera") /\ socket[s] = "abandona" /\ UNCHANGED << branchOnly,
            presenceDrift >>
        /\ shown' = (shown \/ Online!FirstIn(Online!Room))
    BY <1>3 DEF Online!BranchRead
  <2>2. /\ Online!Room' = Online!Room /\ \A r \in Sockets \ {s} : socket'[r] = socket[r]
        /\ socket' \in [Sockets -> {"fuera", "consulta", "abandona", "dentro", "guarda"}]
    BY <2>1, RoomFacts DEF Online!Room
  <2>3. Online!TypeOK'
    BY <1>1, <2>1, <2>2 DEF PresenceInv, Online!TypeOK, Online!FirstIn
  <2> QED  BY <2>1, <2>2, <2>3, FirstInFacts DEF PresenceInv, Online!PresenceTold
<1> QED  BY <1>2, <1>3

LEMMA PresenceDisconnect ==
  ASSUME PresenceInv, NEW s \in Sockets, Online!Disconnect(s) PROVE PresenceInv'
<1>1. UNCHANGED << branchOnly, shown, connects, presenceDrift >>
  BY DEF Online!Disconnect
<1>2. CASE socket[s] = "consulta" /\ Online!At(s, "abandona")
  <2>1. /\ Online!Room' = Online!Room /\ \A r \in Sockets \ {s} : socket'[r] = socket[r]
        /\ socket' \in [Sockets -> {"fuera", "consulta", "abandona", "dentro", "guarda"}]
    BY <1>2, RoomFacts DEF Online!Room
  <2> QED  BY <1>1, <1>2, <2>1 DEF PresenceInv, Online!TypeOK, Online!PresenceTold
<1>3. CASE socket[s] = "dentro"
             /\ Online!At(s, IF Online!LastOut(Online!Room \ {s}) THEN "guarda" ELSE "fuera")
  <2>1. /\ Online!Room' = Online!Room \ {s} /\ \A r \in Sockets \ {s} : socket'[r] = socket[r]
        /\ socket'[s] = IF Online!LastOut(Online!Room \ {s}) THEN "guarda" ELSE "fuera"
        /\ socket' \in [Sockets -> {"fuera", "consulta", "abandona", "dentro", "guarda"}]
    BY <1>3, RoomFacts
  <2> QED  BY <1>1, <1>3, <2>1 DEF PresenceInv, Online!TypeOK, Online!PresenceTold,
              Online!LastOut, Online!Room
<1> QED  BY <1>2, <1>3 DEF Online!Disconnect

LEMMA PresenceSaved ==
  ASSUME PresenceInv, NEW s \in Sockets, Online!Saved(s) PROVE PresenceInv'
<1>1. /\ Online!At(s, "fuera") /\ socket[s] = "guarda" /\ shown' = FALSE
      /\ presenceDrift' = (presenceDrift \/ Online!Room # {}) /\ UNCHANGED << branchOnly,
           connects >>
  BY DEF Online!Saved
<1>2. /\ Online!Room' = Online!Room
      /\ socket' \in [Sockets -> {"fuera", "consulta", "abandona", "dentro", "guarda"}]
  BY <1>1, RoomFacts DEF Online!Room
<1> QED  BY <1>1, <1>2 DEF PresenceInv, Online!TypeOK, Online!PresenceTold

LEMMA PresenceInvStep == PresenceInv /\ Online!Next => PresenceInv'
<1> SUFFICES ASSUME PresenceInv, Online!Next PROVE PresenceInv'
  OBVIOUS
<1> QED  BY PresenceConnect, PresenceBranchRead, PresenceDisconnect, PresenceSaved DEF Online!Next

LEMMA PresenceInvKept == PresenceInv /\ UNCHANGED Online!vars => PresenceInv'
BY DEF PresenceInv, Online!TypeOK, Online!PresenceTold, Online!Room, Online!vars

-----------------------------------------------------------------------------
(* The members of a conversation.                                           *)

ChatJobs == [user : Members \cup {Chat!NoUser}, kind : {"lista", "lee", "envia"},
             members : SUBSET Members, at : 0..MaxMessages, clean : BOOLEAN]

ChatTypes ==
  /\ access \subseteq Members /\ access \subseteq sessions
  /\ read \in [Members -> Chat!Absent..MaxMessages]
  /\ messages \in Seq(Members) /\ Len(messages) <= MaxMessages
  /\ chatPc \in [Workers -> {"libre", "resuelve", "depura", "agrega", "apunta"}]
  /\ chatJob \in [Workers -> ChatJobs]
  /\ \A w \in Workers : chatJob[w].user \in Members <=> chatPc[w] # "libre"
  /\ settled \in BOOLEAN
  /\ slipped \subseteq Members

(* A request that read who belongs since the last change, and after which   *)
(* nobody wrote from an older reading, works with the present access; once  *)
(* it has pruned, so do the rows.                                           *)
ChatCleanJob(w) ==
  chatJob[w].clean /\ chatPc[w] \in {"depura", "agrega"} =>
    chatJob[w].members = access /\ (chatPc[w] = "agrega" => Chat!Rows \subseteq access)

ChatRowsSettled == settled => Chat!Rows = access /\ \A w \in Workers : ~Chat!Stale(w)

(* The request that sent the message i has its mark still to write.         *)
ChatMarking(w, u, i) == chatJob[w].user = u /\ chatJob[w].kind = "envia" /\ chatJob[w].at = i

ChatOwnMarked ==
  \A u \in Members \ slipped : \A i \in DOMAIN messages :
    messages[i] = u => read[u] >= i \/ \E w \in Workers : ChatMarking(w, u, i)

ChatInv ==
  /\ ChatTypes
  /\ \A w \in Workers : ChatCleanJob(w)
  /\ ChatRowsSettled
  /\ ChatOwnMarked

LEMMA ChatNoJob == Chat!NoJob \in ChatJobs /\ Chat!NoJob.user = Chat!NoUser /\ ~Chat!NoJob.clean
BY ChatAssumption DEF Chat!NoJob, ChatJobs

LEMMA ChatInvInit == Chat!Init => ChatInv
<1> SUFFICES ASSUME Chat!Init PROVE ChatInv
  OBVIOUS
<1>1. ChatTypes
  <2>1. /\ read \in [Members -> Chat!Absent..MaxMessages] /\ messages \in Seq(Members)
        /\ Len(messages) = 0
    BY ChatAssumption DEF Chat!Init, Chat!Absent
  <2>2. Len(messages) <= MaxMessages
    BY <2>1, ChatAssumption
  <2>3. chatJob \in [Workers -> ChatJobs] /\ \A w \in Workers : chatJob[w].user \notin Members
    BY ChatNoJob, ChatAssumption DEF Chat!Init
  <2> QED  BY <2>1, <2>2, <2>3 DEF Chat!Init, ChatTypes
<1> QED  BY <1>1 DEF Chat!Init, ChatInv, ChatCleanJob, ChatRowsSettled, ChatOwnMarked

LEMMA ChatInvSafe == ChatInv => Chat!TypeOK /\ Chat!RowsFollowAccess
<1> SUFFICES ASSUME ChatInv PROVE Chat!TypeOK /\ Chat!RowsFollowAccess
  OBVIOUS
<1>1. ASSUME NEW u \in Members \ slipped, \A w \in Workers : chatJob[w].user # u,
             NEW i \in DOMAIN messages, messages[i] = u, NEW k \in Chat!Unread(u)
      PROVE  k > i
  <2>1. read[u] >= i
    BY <1>1 DEF ChatInv, ChatOwnMarked, ChatMarking
  <2>2. k \in Int /\ i \in Int /\ read[u] \in Int /\ k > read[u]
    BY DEF ChatInv, ChatTypes, Chat!Unread, Chat!Absent
  <2> QED  BY <2>1, <2>2
<1> QED  BY <1>1 DEF ChatInv, ChatTypes, ChatRowsSettled, Chat!TypeOK, Chat!RowsFollowAccess

(* Requests other than w, where a step leaves the access and adds no row.   *)
LEMMA ChatCleanKept ==
  ASSUME ChatInv, NEW w \in Workers, chatJob'[w] = chatJob[w], chatPc'[w] = chatPc[w],
         access' = access, Chat!Rows' \subseteq Chat!Rows
  PROVE  ChatCleanJob(w)' /\ (Chat!Stale(w)' <=> Chat!Stale(w))
BY DEF ChatInv, ChatCleanJob, Chat!Stale

(* A step that sends nothing and loses no mark.                             *)
LEMMA ChatOwnMarkedKept ==
  ASSUME ChatInv, ChatTypes', messages' = messages, slipped \subseteq slipped',
         \A u \in Members \ slipped' : read'[u] >= read[u],
         \A u \in Members \ slipped', i \in DOMAIN messages, w \in Workers :
           ChatMarking(w, u, i) => ChatMarking(w, u, i)' \/ read'[u] >= i
  PROVE  ChatOwnMarked'
<1> SUFFICES ASSUME NEW u \in Members \ slipped', NEW i \in DOMAIN messages, messages[i] = u
             PROVE  read'[u] >= i \/ \E w \in Workers : ChatMarking(w, u, i)'
  BY DEF ChatOwnMarked
<1>1. CASE \E w \in Workers : ChatMarking(w, u, i)
  BY <1>1
<1>2. CASE read[u] >= i
  <2>1. read[u] \in Int /\ read'[u] \in Int /\ i \in Int
    BY DEF ChatInv, ChatTypes, Chat!Absent
  <2> QED  BY <1>2, <2>1
<1> QED  BY <1>1, <1>2 DEF ChatInv, ChatOwnMarked

LEMMA ChatChangeAccess ==
  ASSUME ChatInv, NEW u \in Members, Chat!ChangeAccess(u) PROVE ChatInv'
<1>1. /\ access' = (access \ {u}) \cup ({u} \ access) /\ sessions' = sessions \cup access'
      /\ settled' = FALSE
      /\ chatJob' = [w \in Workers |-> [chatJob[w] EXCEPT !.clean = FALSE]]
      /\ UNCHANGED << read, messages, chatPc, slipped >>
  BY DEF Chat!ChangeAccess
<1>2. \A w \in Workers : /\ chatJob'[w] \in ChatJobs /\ chatJob'[w].user = chatJob[w].user
                             /\ ~chatJob'[w].clean
                         /\ chatJob'[w].kind = chatJob[w].kind /\ chatJob'[w].at = chatJob[w].at
  BY <1>1 DEF ChatInv, ChatTypes, ChatJobs
<1>3. chatJob' \in [Workers -> ChatJobs]
  BY <1>1, <1>2
<1>4. ChatTypes'
  BY <1>1, <1>2, <1>3 DEF ChatInv, ChatTypes
<1>5. ChatOwnMarked'
  <2>1. \A u2 \in Members, i \in DOMAIN messages, w \in Workers :
          ChatMarking(w, u2, i)' <=> ChatMarking(w, u2, i)
    BY <1>2 DEF ChatMarking
  <2> QED  BY <1>1, <2>1 DEF ChatInv, ChatOwnMarked
<1> QED  BY <1>1, <1>2, <1>4, <1>5 DEF ChatInv, ChatCleanJob, ChatRowsSettled

(* A request that begins.                                                   *)
LEMMA ChatBegin ==
  ASSUME ChatInv, NEW w \in Workers, chatPc[w] = "libre", Chat!Goto(w, "resuelve"),
         NEW j \in ChatJobs, j.user \in Members, chatJob' = [chatJob EXCEPT ![w] = j],
         UNCHANGED << access, sessions, read, settled, slipped >>,
         messages' \in Seq(Members), Len(messages') <= MaxMessages,
         \A i \in DOMAIN messages' :
           \/ i \in DOMAIN messages /\ messages'[i] = messages[i]
           \/ j.user = messages'[i] /\ j.kind = "envia" /\ j.at = i
  PROVE  ChatInv'
<1>1. chatJob'[w] = j /\ chatPc'[w] = "resuelve"
      /\ \A v \in Workers \ {w} : chatJob'[v] = chatJob[v] /\ chatPc'[v] = chatPc[v]
  BY DEF Chat!Goto, ChatInv, ChatTypes
<1>2. ChatTypes'
  BY <1>1 DEF Chat!Goto, ChatInv, ChatTypes
<1>3. Chat!Rows' = Chat!Rows
  BY DEF Chat!Rows
<1>4. \A v \in Workers \ {w} : ChatCleanJob(v)' /\ (Chat!Stale(v)' <=> Chat!Stale(v))
  BY <1>1, <1>3, ChatCleanKept
<1>5. ChatCleanJob(w)' /\ ~Chat!Stale(w)'
  BY <1>1 DEF ChatCleanJob, Chat!Stale
<1>6. ChatRowsSettled'
  BY <1>3, <1>4, <1>5 DEF ChatInv, ChatRowsSettled
<1>7. \A u \in Members, i \in DOMAIN messages, v \in Workers : ChatMarking(v, u, i) => v # w
  BY DEF ChatInv, ChatTypes, ChatMarking
<1>8. \A u \in Members, i \in DOMAIN messages, v \in Workers :
        ChatMarking(v, u, i) => ChatMarking(v, u, i)'
  BY <1>1, <1>7 DEF ChatMarking
<1>9. ChatOwnMarked'
  <2> SUFFICES ASSUME NEW u \in Members \ slipped, NEW i \in DOMAIN messages', messages'[i] = u
               PROVE  read[u] >= i \/ \E v \in Workers : ChatMarking(v, u, i)'
    BY DEF ChatOwnMarked
  <2>1. CASE i \in DOMAIN messages /\ messages'[i] = messages[i]
    BY <1>8, <2>1 DEF ChatInv, ChatOwnMarked
  <2>2. CASE j.user = messages'[i] /\ j.kind = "envia" /\ j.at = i
    BY <1>1, <2>2 DEF ChatMarking
  <2> QED  BY <2>1, <2>2
<1> QED  BY <1>2, <1>4, <1>5, <1>6, <1>9 DEF ChatInv

LEMMA ChatOpen ==
  ASSUME ChatInv, NEW w \in Workers, NEW u \in Members, NEW kind \in {"lista", "lee"},
         Chat!Open(w, u, kind)
  PROVE  ChatInv'
<1> DEFINE j == [Chat!NoJob EXCEPT !.user = u, !.kind = kind]
<1>1. j \in ChatJobs /\ j.user = u
  BY ChatNoJob DEF ChatJobs
<1>2. /\ chatPc[w] = "libre" /\ Chat!Goto(w, "resuelve") /\ chatJob' = [chatJob EXCEPT ![w] = j]
      /\ UNCHANGED << access, sessions, read, messages, settled, slipped >>
  BY DEF Chat!Open
<1> HIDE DEF j
<1> QED  BY <1>1, <1>2, ChatBegin DEF ChatInv, ChatTypes

LEMMA ChatSend ==
  ASSUME ChatInv, NEW w \in Workers, NEW u \in Members, Chat!Send(w, u) PROVE ChatInv'
<1> DEFINE j == [Chat!NoJob EXCEPT !.user = u, !.kind = "envia", !.at = Len(messages) + 1]
<1>1. /\ messages' \in Seq(Members) /\ Len(messages') = Len(messages) + 1
      /\ Len(messages) + 1 \in 0..MaxMessages
      /\ \A i \in DOMAIN messages' :
           \/ i \in DOMAIN messages /\ messages'[i] = messages[i]
           \/ i = Len(messages) + 1 /\ messages'[i] = u
  BY ChatAssumption DEF Chat!Send, ChatInv, ChatTypes
<1>2. j \in ChatJobs /\ j.user = u /\ j.kind = "envia" /\ j.at = Len(messages) + 1
  BY <1>1, ChatNoJob DEF ChatJobs
<1>3. /\ chatPc[w] = "libre" /\ Chat!Goto(w, "resuelve") /\ chatJob' = [chatJob EXCEPT ![w] = j]
      /\ UNCHANGED << access, sessions, read, settled, slipped >>
  BY DEF Chat!Send
<1>4. Len(messages') <= MaxMessages
  BY <1>1, ChatAssumption
<1> HIDE DEF j
<1> QED  BY <1>1, <1>2, <1>3, <1>4, ChatBegin

LEMMA ChatResolve == ASSUME ChatInv, NEW w \in Workers, Chat!Resolve(w) PROVE ChatInv'
<1> DEFINE j == [chatJob[w] EXCEPT !.members = access, !.clean = TRUE]
<1>1. /\ chatPc[w] = "resuelve" /\ chatPc' = [chatPc EXCEPT ![w] = "depura"]
      /\ UNCHANGED << access, sessions, read, messages, settled, slipped >>
  BY DEF Chat!Resolve, Chat!Goto
<1>2. chatJob' = [chatJob EXCEPT ![w] = j]
  BY DEF Chat!Resolve, ChatInv, ChatTypes, ChatJobs
<1>3. /\ j \in ChatJobs /\ j.user = chatJob[w].user /\ j.kind = chatJob[w].kind
          /\ j.at = chatJob[w].at
      /\ j.members = access
  BY DEF ChatInv, ChatTypes, ChatJobs
<1> HIDE DEF j
<1>4. chatJob'[w] = j /\ chatPc'[w] = "depura"
      /\ \A v \in Workers \ {w} : chatJob'[v] = chatJob[v] /\ chatPc'[v] = chatPc[v]
  BY <1>1, <1>2 DEF ChatInv, ChatTypes
<1>5. ChatTypes'
  BY <1>1, <1>2, <1>3, <1>4 DEF ChatInv, ChatTypes
<1>6. Chat!Rows' = Chat!Rows
  BY <1>1 DEF Chat!Rows
<1>7. \A v \in Workers \ {w} : ChatCleanJob(v)' /\ (Chat!Stale(v)' <=> Chat!Stale(v))
  BY <1>1, <1>4, <1>6, ChatCleanKept
<1>8. ChatCleanJob(w)' /\ ~Chat!Stale(w)'
  BY <1>1, <1>3, <1>4 DEF ChatCleanJob, Chat!Stale
<1>9. ChatRowsSettled'
  BY <1>1, <1>6, <1>7, <1>8 DEF ChatInv, ChatRowsSettled
<1>10. ChatOwnMarked'
  <2>1. \A u \in Members, i \in DOMAIN messages, v \in Workers :
          ChatMarking(v, u, i) => ChatMarking(v, u, i)'
    BY <1>3, <1>4 DEF ChatMarking
  <2> QED  BY <1>1, <2>1 DEF ChatInv, ChatOwnMarked
<1> QED  BY <1>5, <1>7, <1>8, <1>9, <1>10 DEF ChatInv

(* A request that goes on with the job it has.                              *)
LEMMA ChatPrune == ASSUME ChatInv, NEW w \in Workers, Chat!Prune(w) PROVE ChatInv'
<1>1. /\ chatPc[w] = "depura" /\ chatPc' = [chatPc EXCEPT ![w] = "agrega"]
      /\ read' = [u \in Members |-> IF u \in Chat!Rows \ chatJob[w].members THEN Chat!Absent ELSE read[u]]
      /\ slipped' = slipped \cup (Chat!Rows \ chatJob[w].members)
      /\ settled' = (settled /\ ~Chat!Stale(w))
      /\ UNCHANGED << access, sessions, messages, chatJob >>
  BY DEF Chat!Prune, Chat!Goto, Chat!Pruned
<1>2. chatPc'[w] = "agrega" /\ \A v \in Workers \ {w} : chatPc'[v] = chatPc[v]
  BY <1>1 DEF ChatInv, ChatTypes
<1>3. Chat!Rows' = Chat!Rows \cap chatJob[w].members
  BY <1>1 DEF Chat!Rows
<1>4. ChatTypes'
  <2>1. read' \in [Members -> Chat!Absent..MaxMessages]
    BY <1>1, ChatAssumption DEF ChatInv, ChatTypes, Chat!Absent
  <2>2. slipped' \subseteq Members
    BY <1>1 DEF ChatInv, ChatTypes, Chat!Rows
  <2>3. settled' \in BOOLEAN
    BY <1>1
  <2> QED  BY <1>1, <1>2, <2>1, <2>2, <2>3 DEF ChatInv, ChatTypes
<1>5. \A v \in Workers \ {w} : ChatCleanJob(v)' /\ (Chat!Stale(v)' <=> Chat!Stale(v))
  BY <1>1, <1>2, <1>3, ChatCleanKept
<1>6. ChatCleanJob(w)' /\ (Chat!Stale(w)' <=> Chat!Stale(w))
  BY <1>1, <1>2, <1>3 DEF ChatInv, ChatCleanJob, Chat!Stale
<1>7. ChatRowsSettled'
  <2> SUFFICES ASSUME settled' PROVE Chat!Rows' = access /\ \A v \in Workers : ~Chat!Stale(v)'
    BY <1>1 DEF ChatRowsSettled
  <2>1. settled /\ chatJob[w].members = access
    BY <1>1 DEF Chat!Stale
  <2> QED  BY <1>3, <1>5, <1>6, <2>1 DEF ChatInv, ChatRowsSettled
<1>8. \A u \in Members \ slipped' : read'[u] = read[u]
  BY <1>1 DEF ChatInv, ChatTypes
<1>9. ChatOwnMarked'
  <2>1. \A u \in Members, i \in DOMAIN messages, v \in Workers :
          ChatMarking(v, u, i) => ChatMarking(v, u, i)'
    BY <1>1 DEF ChatMarking
  <2>2. \A u \in Members \ slipped' : read'[u] >= read[u]
    BY <1>8 DEF ChatInv, ChatTypes, Chat!Absent
  <2> QED  BY <1>1, <1>4, <2>1, <2>2, ChatOwnMarkedKept
<1> QED  BY <1>4, <1>5, <1>6, <1>7, <1>9 DEF ChatInv

LEMMA ChatUpsert == ASSUME ChatInv, NEW w \in Workers, Chat!Upsert(w) PROVE ChatInv'
<1>1. /\ chatPc[w] = "agrega" /\ chatPc' = [chatPc EXCEPT ![w] = "apunta"]
      /\ read' = [u \in Members |-> IF u \in chatJob[w].members \ Chat!Rows THEN 0 ELSE read[u]]
      /\ settled' = (chatJob[w].clean /\ \A v \in Workers : ~Chat!Stale(v))
      /\ chatJob' = [v \in Workers |-> [chatJob[v] EXCEPT !.clean = @ /\ ~Chat!Stale(w)]]
      /\ UNCHANGED << access, sessions, messages, slipped >>
  BY DEF Chat!Upsert, Chat!Goto
<1>2. chatPc'[w] = "apunta" /\ \A v \in Workers \ {w} : chatPc'[v] = chatPc[v]
  BY <1>1 DEF ChatInv, ChatTypes
<1>3. \A v \in Workers :
        /\ chatJob'[v] \in ChatJobs /\ chatJob'[v].user = chatJob[v].user
             /\ chatJob'[v].kind = chatJob[v].kind
        /\ chatJob'[v].at = chatJob[v].at /\ chatJob'[v].members = chatJob[v].members
        /\ chatJob'[v].clean <=> chatJob[v].clean /\ ~Chat!Stale(w)
  BY <1>1 DEF ChatInv, ChatTypes, ChatJobs, Chat!Stale
<1>4. Chat!Rows' = Chat!Rows \cup chatJob[w].members
  <2>1. chatJob[w].members \subseteq Members
    BY DEF ChatInv, ChatTypes, ChatJobs
  <2> QED  BY <1>1, <2>1 DEF Chat!Rows, Chat!Absent
<1>5. ChatTypes'
  <2>1. read' \in [Members -> Chat!Absent..MaxMessages]
    BY <1>1, ChatAssumption DEF ChatInv, ChatTypes, Chat!Absent
  <2>2. chatJob' \in [Workers -> ChatJobs]
    BY <1>1, <1>3
  <2>3. settled' \in BOOLEAN
    BY <1>1 DEF ChatInv, ChatTypes, ChatJobs
  <2> QED  BY <1>1, <1>2, <1>3, <2>1, <2>2, <2>3 DEF ChatInv, ChatTypes
<1>6. \A v \in Workers : ChatCleanJob(v)'
  <2> SUFFICES ASSUME NEW v \in Workers, v # w, chatJob[v].clean, ~Chat!Stale(w),
                        chatPc[v] \in {"depura", "agrega"}
               PROVE  /\ chatJob[v].members = access
                      /\ (chatPc[v] = "agrega" => Chat!Rows' \subseteq access)
    BY <1>1, <1>2, <1>3 DEF ChatCleanJob
  <2>1. chatJob[w].members = access
    BY <1>1 DEF Chat!Stale
  <2> QED  BY <1>4, <2>1 DEF ChatInv, ChatCleanJob
<1>7. ChatRowsSettled'
  <2> SUFFICES ASSUME settled' PROVE Chat!Rows' = access /\ \A v \in Workers : ~Chat!Stale(v)'
    BY <1>1 DEF ChatRowsSettled
  <2>1. chatJob[w].clean /\ \A v \in Workers : ~Chat!Stale(v)
    BY <1>1
  <2>2. chatJob[w].members = access /\ Chat!Rows \subseteq access
    BY <1>1, <2>1 DEF ChatInv, ChatCleanJob
  <2>3. \A v \in Workers : ~Chat!Stale(v)'
    BY <1>1, <1>2, <1>3, <2>1 DEF Chat!Stale
  <2> QED  BY <1>4, <2>2, <2>3
<1>8. ChatOwnMarked'
  <2>1. \A u \in Members, i \in DOMAIN messages, v \in Workers :
          ChatMarking(v, u, i) => ChatMarking(v, u, i)'
    BY <1>3 DEF ChatMarking
  <2>2. \A u \in Members \ slipped' : read'[u] >= read[u]
    BY <1>1 DEF ChatInv, ChatTypes, Chat!Absent, Chat!Rows
  <2> QED  BY <1>1, <1>5, <2>1, <2>2, ChatOwnMarkedKept
<1> QED  BY <1>5, <1>6, <1>7, <1>8 DEF ChatInv

(* A request that is over, with the mark of its user written or not.        *)
LEMMA ChatEnd ==
  ASSUME ChatInv, NEW w \in Workers, chatPc' = [chatPc EXCEPT ![w] = "libre"],
         chatJob' = [chatJob EXCEPT ![w] = Chat!NoJob],
         UNCHANGED << access, sessions, messages, settled >>,
         slipped \subseteq slipped', slipped' \subseteq Members, Chat!Rows' = Chat!Rows,
         read' \in [Members -> Chat!Absent..MaxMessages],
         \A u \in Members \ slipped' : read'[u] >= read[u],
         chatJob[w].kind = "envia" => chatJob[w].user \in slipped'
           \/ read'[chatJob[w].user] >= chatJob[w].at
  PROVE  ChatInv'
<1>1. chatJob'[w] = Chat!NoJob /\ chatPc'[w] = "libre"
      /\ \A v \in Workers \ {w} : chatJob'[v] = chatJob[v] /\ chatPc'[v] = chatPc[v]
  BY DEF ChatInv, ChatTypes
<1>2. ChatTypes'
  BY <1>1, ChatNoJob, ChatAssumption DEF ChatInv, ChatTypes
<1>3. \A v \in Workers \ {w} : ChatCleanJob(v)' /\ (Chat!Stale(v)' <=> Chat!Stale(v))
  BY <1>1, ChatCleanKept
<1>4. ChatCleanJob(w)' /\ ~Chat!Stale(w)'
  BY <1>1 DEF ChatCleanJob, Chat!Stale
<1>5. ChatRowsSettled'
  BY <1>3, <1>4 DEF ChatInv, ChatRowsSettled
<1>6. \A u \in Members \ slipped', i \in DOMAIN messages, v \in Workers :
        ChatMarking(v, u, i) => ChatMarking(v, u, i)' \/ read'[u] >= i
  BY <1>1 DEF ChatMarking
<1>7. ChatOwnMarked'
  BY <1>2, <1>6, ChatOwnMarkedKept
<1> QED  BY <1>2, <1>3, <1>4, <1>5, <1>7 DEF ChatInv

LEMMA ChatFinish == ASSUME ChatInv, NEW w \in Workers, Chat!Finish(w) PROVE ChatInv'
<1>1. PICK u \in Members : u = chatJob[w].user
  BY DEF Chat!Finish, ChatInv, ChatTypes
<1>2. /\ chatPc' = [chatPc EXCEPT ![w] = "libre"] /\ chatJob' = [chatJob EXCEPT ![w] = Chat!NoJob]
      /\ UNCHANGED << access, sessions, messages, settled >>
  BY DEF Chat!Finish, Chat!Goto
<1>3. CASE chatJob[w].kind # "lista" /\ u \in Chat!Rows
  <2>1. Chat!Moment(w) \in 0..MaxMessages /\ (chatJob[w].kind = "envia" => Chat!Moment(w) =
          chatJob[w].at)
    <3>1. Len(messages) \in 0..MaxMessages
      BY ChatAssumption DEF ChatInv, ChatTypes
    <3>2. chatJob[w].at \in 0..MaxMessages
      BY DEF ChatInv, ChatTypes, ChatJobs
    <3> QED  BY <3>1, <3>2 DEF Chat!Moment
  <2>2. /\ read' = [read EXCEPT ![u] = Chat!Moment(w)]
        /\ slipped' = IF Chat!Moment(w) < read[u] THEN slipped \cup {u} ELSE slipped
    BY <1>1, <1>3 DEF Chat!Finish
  <2>3. /\ read' \in [Members -> Chat!Absent..MaxMessages] /\ read'[u] = Chat!Moment(w)
        /\ \A x \in Members \ {u} : read'[x] = read[x]
    BY <2>1, <2>2, ChatAssumption DEF ChatInv, ChatTypes, Chat!Absent
  <2>4. Chat!Rows' = Chat!Rows
    BY <1>3, <2>1, <2>3, ChatAssumption DEF Chat!Rows, Chat!Absent
  <2>5. \A x \in Members \ slipped' : read'[x] >= read[x]
    <3>1. \A x \in Members : read[x] \in Int
      BY DEF ChatInv, ChatTypes, Chat!Absent
    <3> QED  BY <2>1, <2>2, <2>3, <3>1
  <2>6. chatJob[w].kind = "envia" => read'[chatJob[w].user] >= chatJob[w].at
    BY <1>1, <2>1, <2>3
  <2>7. slipped \subseteq slipped' /\ slipped' \subseteq Members
    BY <2>2 DEF ChatInv, ChatTypes
  <2> QED  BY <1>2, <2>3, <2>4, <2>5, <2>6, <2>7, ChatEnd
<1>4. CASE ~(chatJob[w].kind # "lista" /\ u \in Chat!Rows)
  <2>1. /\ read' = read
        /\ slipped' = IF chatJob[w].kind = "envia" THEN slipped \cup {u} ELSE slipped
    BY <1>1, <1>4 DEF Chat!Finish
  <2>2. Chat!Rows' = Chat!Rows /\ \A x \in Members : read'[x] >= read[x]
    BY <2>1 DEF Chat!Rows, ChatInv, ChatTypes, Chat!Absent
  <2> QED  BY <1>1, <1>2, <2>1, <2>2, ChatEnd DEF ChatInv, ChatTypes
<1> QED  BY <1>3, <1>4

LEMMA ChatFail == ASSUME ChatInv, NEW w \in Workers, Chat!Fail(w) PROVE ChatInv'
<1>1. /\ chatPc' = [chatPc EXCEPT ![w] = "libre"] /\ chatJob' = [chatJob EXCEPT ![w] = Chat!NoJob]
      /\ slipped' = IF chatJob[w].kind = "envia" THEN slipped \cup {chatJob[w].user} ELSE slipped
      /\ UNCHANGED << access, sessions, read, messages, settled >>
      /\ chatJob[w].user \in Members
  BY DEF Chat!Fail, Chat!Goto, ChatInv, ChatTypes
<1>2. Chat!Rows' = Chat!Rows /\ \A x \in Members : read'[x] >= read[x]
  BY <1>1 DEF Chat!Rows, ChatInv, ChatTypes, Chat!Absent
<1> QED  BY <1>1, <1>2, ChatEnd DEF ChatInv, ChatTypes

LEMMA ChatInvStep == ChatInv /\ Chat!Next => ChatInv'
<1> SUFFICES ASSUME ChatInv, Chat!Next PROVE ChatInv'
  OBVIOUS
<1> QED  BY ChatChangeAccess, ChatSend, ChatOpen, ChatResolve, ChatPrune, ChatUpsert,
            ChatFinish, ChatFail DEF Chat!Next

LEMMA ChatInvKept == ChatInv /\ UNCHANGED Chat!vars => ChatInv'
BY DEF ChatInv, ChatTypes, ChatCleanJob, Chat!Rows, ChatRowsSettled, Chat!Stale, ChatOwnMarked,
   ChatMarking, Chat!vars

-----------------------------------------------------------------------------
(* Quotes.                                                                  *)

QuoteRow == [stage : Quotes!Stages, status : QuoteBefore \cup QuoteAfter, sent : BOOLEAN,
  order : {Quotes!None} \cup Orders]

(* A pair of a stage and a substate that go together.                       *)
QuotePair(p) == p.stage \in Quotes!Stages /\ p.status \in QuoteBefore \cup QuoteAfter
  /\ p.stage = Quotes!StageOf(p.status)

(* A quote on the board: in a substate of its stage, dated as its stage     *)
(* says, and linked only after it was accepted.                             *)
QuoteOK(q) ==
  /\ QuotePair(quote[q])
  /\ q \in crossed \/ (quote[q].sent <=> quote[q].stage = "enviada")
  /\ quote[q].status = Quotes!Accepted \/ quote[q].order # Quotes!None => q \in won

(* A request remembers a quote that existed, the row of an update and the   *)
(* order of a link, which is asked for an accepted quote.                   *)
QuoteJobOK(w) ==
  /\ (quotePc[w] = "libre") = (quoteJob[w] = Quotes!NoJob)
  /\ quotePc[w] # "libre" => quoteJob[w].quote \in Ids
  /\ quotePc[w] = "edita" => QuotePair(quoteJob[w].row)
  /\ quotePc[w] \in {"pedido", "liga"} => quoteJob[w].order \in Orders /\ quoteJob[w].quote \in won

QuoteTypes ==
  /\ quote \in [Ids -> {Quotes!NoQuote} \cup QuoteRow]
  /\ orders \subseteq Orders
  /\ quotePc \in [Workers -> {"libre", "edita", "pedido", "liga"}]
  /\ quoteJob \in [Workers -> [quote : {Quotes!None} \cup Ids, row : {Quotes!NoQuote} \cup QuoteRow,
                          order : {Quotes!None} \cup Orders]]
  /\ won \subseteq quoted /\ crossed \subseteq quoted /\ Quotes!Live \subseteq quoted

QuoteLinkedOnce ==
  \A p, q \in Quotes!Live : p # q /\ quote[p].order # Quotes!None => quote[p].order # quote[q].order

QuoteInv ==
  /\ QuoteTypes
  /\ \A q \in Quotes!Live : QuoteOK(q)
  /\ \A w \in Workers : QuoteJobOK(w)
  /\ QuoteLinkedOnce

(* A request for a stage and a substate ends in a pair that goes together.  *)
LEMMA ResolveFacts ==
  ASSUME NEW stage \in Quotes!Asked, NEW status \in Quotes!Wanted, NEW seen, QuotePair(seen),
         NEW next \in Quotes!Resolve(stage, status, seen)
  PROVE  QuotePair(next)
<1>1. CASE stage = Quotes!None /\ status = Quotes!None
  BY <1>1 DEF Quotes!Resolve
<1>2. CASE stage # Quotes!None /\ status = Quotes!None
  BY <1>2, QuoteAssumption DEF Quotes!Resolve, QuotePair, Quotes!Asked, Quotes!Stages,
     Quotes!StageOf, Quotes!First
<1>3. CASE stage = Quotes!None /\ status # Quotes!None
  BY <1>3 DEF Quotes!Resolve, QuotePair, Quotes!Wanted, Quotes!Stages, Quotes!StageOf
<1>4. CASE stage # Quotes!None /\ status # Quotes!None
  BY <1>4 DEF Quotes!Resolve, QuotePair, Quotes!Asked, Quotes!Wanted, Quotes!Stages, Quotes!StageOf
<1> QED  BY <1>1, <1>2, <1>3, <1>4

LEMMA NewPairFacts == QuotePair(Quotes!NewPair)
BY QuoteAssumption DEF QuotePair, Quotes!NewPair, Quotes!First, Quotes!StageOf, Quotes!Stages

(* A free row is none, and a row on the board is none of the free ones.     *)
LEMMA LiveFacts ==
  ASSUME QuoteTypes
  PROVE  /\ \A q \in Quotes!Live : quote[q] \in QuoteRow
         /\ \A q \in Ids \ Quotes!Live : quote[q] = Quotes!NoQuote
         /\ Quotes!NoQuote \notin QuoteRow
BY DEF QuoteTypes, Quotes!Live, QuoteRow, Quotes!NoQuote, Quotes!Stages, Quotes!None

LEMMA QuoteInvInit == Quotes!Init => QuoteInv
BY QuoteAssumption DEF Quotes!Init, QuoteInv, QuoteTypes, QuoteJobOK, QuoteLinkedOnce,
   Quotes!Live, QuoteRow, Quotes!NoQuote, Quotes!NoJob, Quotes!None

LEMMA QuoteInvSafe == QuoteInv => Quotes!TypeOK /\ Quotes!QuoteDated
<1> SUFFICES ASSUME QuoteInv PROVE Quotes!TypeOK /\ Quotes!QuoteDated
  OBVIOUS
<1>1. Quotes!TypeOK
  BY DEF QuoteInv, QuoteTypes, Quotes!TypeOK, QuoteJobOK, QuoteRow
<1>2. ASSUME NEW q \in Quotes!Live
      PROVE  /\ \A s2 \in Quotes!Stages : q \in Quotes!Listed(s2, Quotes!None) <=> s2 =
                 quote[q].stage
             /\ q \in Quotes!Listed(quote[q].stage, quote[q].status)
             /\ q \in Quotes!Listed(Quotes!None, quote[q].status)
  BY DEF Quotes!Listed, QuoteInv, QuoteOK, QuotePair, Quotes!Stages, Quotes!None
<1>3. \A q \in Quotes!Live : quote[q].stage \in Quotes!Stages
        /\ quote[q].status \in QuoteBefore \cup QuoteAfter
  BY DEF QuoteInv, QuoteOK, QuotePair
<1>4. Quotes!QuoteDated
  BY <1>2, <1>3 DEF Quotes!QuoteDated, QuoteInv, QuoteOK, QuoteLinkedOnce
<1> QED  BY <1>1, <1>4

(* Requests that a step leaves as they were.                                *)
LEMMA QuoteJobsKept ==
  ASSUME QuoteInv, won \subseteq won', NEW w \in Workers, quotePc'[w] = quotePc[w],
         quoteJob'[w] = quoteJob[w]
  PROVE  QuoteJobOK(w)'
BY DEF QuoteInv, QuoteJobOK, QuotePair

(* Rows that a step leaves as they were.                                    *)
LEMMA QuoteRowKept ==
  ASSUME QuoteInv, won \subseteq won', crossed \subseteq crossed',
         NEW q \in Quotes!Live, quote'[q] = quote[q]
  PROVE  QuoteOK(q)'
BY DEF QuoteInv, QuoteOK, QuotePair

LEMMA QuoteCreate ==
  ASSUME QuoteInv, NEW b \in (SUBSET Ids) \ {{}}, NEW st \in Quotes!Asked, NEW ss \in Quotes!Wanted,
         Quotes!Create(b, st, ss)
  PROVE  QuoteInv'
<1>1. PICK next \in Quotes!Resolve(st, ss, Quotes!NewPair) :
        /\ quote' = [q \in Ids |->
             IF q \in b THEN [stage |-> next.stage, status |-> next.status,
                              sent |-> next.stage = "enviada", order |-> Quotes!None]
             ELSE quote[q]]
        /\ won' = won \cup {q \in b : next.status = Quotes!Accepted}
  BY DEF Quotes!Create
<1>2. QuotePair(next)
  BY <1>1, NewPairFacts, ResolveFacts
<1>3. /\ quoted' = quoted \cup b /\ b \cap quoted = {}
      /\ UNCHANGED << orders, quotePc, quoteJob, crossed >>
  BY DEF Quotes!Create
<1>4. b \cap Quotes!Live = {} /\ Quotes!Live' = Quotes!Live \cup b
  BY <1>1, <1>2, <1>3 DEF QuoteInv, QuoteTypes, Quotes!Live, Quotes!NoQuote, QuotePair,
     Quotes!Stages, Quotes!None
<1>5. QuoteTypes'
  BY <1>1, <1>2, <1>3, <1>4 DEF QuoteInv, QuoteTypes, QuoteRow, QuotePair
<1>6. ASSUME NEW q \in b PROVE QuoteOK(q)'
  BY <1>1, <1>2, <1>6 DEF QuoteOK, QuotePair, Quotes!StageOf
<1>7. \A q \in Quotes!Live : quote'[q] = quote[q]
  BY <1>1, <1>4 DEF Quotes!Live
<1>8. \A q \in Quotes!Live' : QuoteOK(q)'
  BY <1>1, <1>3, <1>4, <1>6, <1>7, QuoteRowKept
<1>9. \A w \in Workers : QuoteJobOK(w)'
  BY <1>1, <1>3, QuoteJobsKept
<1>10. QuoteLinkedOnce'
  BY <1>1, <1>4, <1>7 DEF QuoteInv, QuoteLinkedOnce, Quotes!Live
<1> QED  BY <1>5, <1>8, <1>9, <1>10 DEF QuoteInv

(* A request that begins about a quote on the board.                        *)
LEMMA QuoteBegin ==
  ASSUME QuoteInv, NEW w \in Workers, NEW where \in {"edita", "pedido"}, NEW j,
         Quotes!Begin(w, where, j),
         UNCHANGED << quote, won, crossed, orders, quoted >>,
         j \in [quote : Quotes!Live, row : {Quotes!NoQuote} \cup QuoteRow,
           order : {Quotes!None} \cup Orders],
         where = "edita" => QuotePair(j.row),
         where = "pedido" => j.order \in Orders /\ j.quote \in won
  PROVE  QuoteInv'
<1>1. quotePc' = [quotePc EXCEPT ![w] = where] /\ quoteJob' = [quoteJob EXCEPT ![w] = j]
  BY DEF Quotes!Begin
<1>2. Quotes!Live' = Quotes!Live /\ Quotes!Live \subseteq Ids
  BY DEF Quotes!Live
<1>3. QuoteTypes'
  BY <1>1, <1>2 DEF QuoteInv, QuoteTypes
<1>4. j # Quotes!NoJob
  BY <1>2, QuoteAssumption DEF Quotes!NoJob
<1>5. QuoteJobOK(w)'
  BY <1>1, <1>2, <1>4 DEF QuoteInv, QuoteTypes, QuoteJobOK, QuotePair
<1>6. \A v \in Workers \ {w} : QuoteJobOK(v)'
  BY <1>1, QuoteJobsKept DEF QuoteInv, QuoteTypes
<1>7. (\A q \in Quotes!Live' : QuoteOK(q)') /\ QuoteLinkedOnce'
  BY <1>2, QuoteRowKept DEF QuoteInv, QuoteLinkedOnce
<1> QED  BY <1>3, <1>5, <1>6, <1>7 DEF QuoteInv

LEMMA QuoteUpdateRead ==
  ASSUME QuoteInv, NEW w \in Workers, NEW q \in Ids, Quotes!UpdateRead(w, q) PROVE QuoteInv'
<1> DEFINE j == [Quotes!NoJob EXCEPT !.quote = q, !.row = quote[q]]
<1>1. q \in Quotes!Live /\ quote[q] \in QuoteRow /\ QuotePair(quote[q])
  BY LiveFacts DEF Quotes!UpdateRead, QuoteInv, QuoteOK
<1>2. /\ j \in [quote : Quotes!Live, row : {Quotes!NoQuote} \cup QuoteRow,
          order : {Quotes!None} \cup Orders]
      /\ j.row = quote[q]
  BY <1>1 DEF Quotes!NoJob
<1>3. Quotes!Begin(w, "edita", j) /\ UNCHANGED << quote, won, crossed, orders, quoted >>
  BY DEF Quotes!UpdateRead, Quotes!still
<1> HIDE DEF j
<1> QED  BY <1>1, <1>2, <1>3, QuoteBegin

LEMMA QuoteLinkRead ==
  ASSUME QuoteInv, NEW w \in Workers, NEW q \in Ids, NEW o \in Orders, Quotes!LinkRead(w, q, o)
  PROVE  QuoteInv'
<1> DEFINE j == [Quotes!NoJob EXCEPT !.quote = q, !.order = o]
<1>1. q \in Quotes!Live /\ q \in won
  BY DEF Quotes!LinkRead, QuoteInv, QuoteOK
<1>2. /\ j \in [quote : Quotes!Live, row : {Quotes!NoQuote} \cup QuoteRow,
          order : {Quotes!None} \cup Orders]
      /\ j.quote = q /\ j.order = o
  BY <1>1 DEF Quotes!NoJob
<1>3. Quotes!Begin(w, "pedido", j) /\ UNCHANGED << quote, won, crossed, orders, quoted >>
  BY DEF Quotes!LinkRead, Quotes!still
<1> HIDE DEF j
<1> QED  BY <1>1, <1>2, <1>3, QuoteBegin

(* A request that ends, after it wrote a row or none.                       *)
LEMMA QuoteEnd ==
  ASSUME QuoteInv, NEW w \in Workers, Quotes!End(w), UNCHANGED << orders, quoted >>,
         quote' \in [Ids -> {Quotes!NoQuote} \cup QuoteRow], Quotes!Live' = Quotes!Live,
         won \subseteq won', won' \subseteq quoted, crossed \subseteq crossed',
           crossed' \subseteq quoted,
         \A q \in Quotes!Live : QuoteOK(q)', QuoteLinkedOnce'
  PROVE  QuoteInv'
<1>1. quotePc' = [quotePc EXCEPT ![w] = "libre"]
        /\ quoteJob' = [quoteJob EXCEPT ![w] = Quotes!NoJob]
  BY DEF Quotes!End
<1>2. QuoteTypes'
  BY <1>1 DEF QuoteInv, QuoteTypes, Quotes!NoJob
<1>3. QuoteJobOK(w)'
  BY <1>1 DEF QuoteInv, QuoteTypes, QuoteJobOK
<1>4. \A v \in Workers \ {w} : QuoteJobOK(v)'
  BY <1>1, QuoteJobsKept DEF QuoteInv, QuoteTypes
<1> QED  BY <1>2, <1>3, <1>4 DEF QuoteInv

LEMMA QuoteUpdateWrite ==
  ASSUME QuoteInv, NEW w \in Workers, NEW st \in Quotes!Asked, NEW ss \in Quotes!Wanted,
         Quotes!UpdateWrite(w, st, ss)
  PROVE  QuoteInv'
<1>1. PICK q \in Ids, seen \in {Quotes!NoQuote} \cup QuoteRow : q = quoteJob[w].quote
             /\ seen = quoteJob[w].row
  BY DEF Quotes!UpdateWrite, QuoteInv, QuoteTypes, QuoteJobOK
<1>2. QuotePair(seen) /\ Quotes!End(w) /\ UNCHANGED << orders, quoted >>
  BY <1>1 DEF Quotes!UpdateWrite, QuoteInv, QuoteJobOK, Quotes!still
<1>3. CASE UNCHANGED << quote, won, crossed >>
  <2>1. Quotes!Live' = Quotes!Live
    BY <1>3 DEF Quotes!Live
  <2> QED  BY <1>2, <1>3, <2>1, QuoteEnd, QuoteRowKept DEF QuoteInv, QuoteTypes, QuoteLinkedOnce
<1>4. CASE ~UNCHANGED << quote, won, crossed >>
  <2>1. PICK next \in Quotes!Resolve(st, ss, seen) :
          Quotes!Put(q, [quote[q] EXCEPT !.stage = next.stage, !.status = next.status,
                                  !.sent = Quotes!SentAfter(next.stage, seen.sent, @)])
    BY <1>1, <1>4 DEF Quotes!UpdateWrite
  <2>2. q \in Quotes!Live /\ crossed' = crossed \cup {x \in {q} : quote[q] # seen}
    BY <1>1, <1>4 DEF Quotes!UpdateWrite
  <2>3. QuotePair(next)
    BY <1>2, ResolveFacts
  <2>4. quote[q] \in QuoteRow /\ q \in quoted
    BY <2>2, LiveFacts DEF QuoteInv, QuoteTypes
  <2> DEFINE row == [quote[q] EXCEPT !.stage = next.stage, !.status = next.status,
                                     !.sent = Quotes!SentAfter(next.stage, seen.sent, @)]
  <2>5. /\ row \in QuoteRow
        /\ row.stage = next.stage /\ row.status = next.status /\ row.order = quote[q].order
        /\ row.sent = Quotes!SentAfter(next.stage, seen.sent, quote[q].sent)
    BY <2>3, <2>4 DEF QuoteRow, QuotePair, Quotes!SentAfter
  <2>6. quote' = [quote EXCEPT ![q] = row] /\ won' = won \cup
          {x \in {q} : row.status = Quotes!Accepted}
    BY <2>1 DEF Quotes!Put
  <2> HIDE DEF row
  <2>7. /\ quote' \in [Ids -> {Quotes!NoQuote} \cup QuoteRow] /\ Quotes!Live' = Quotes!Live
        /\ quote'[q] = row
        /\ \A p \in Quotes!Live \ {q} : quote'[p] = quote[p]
    BY <2>2, <2>5, <2>6, LiveFacts DEF QuoteInv, QuoteTypes, Quotes!Live
  <2>8. QuoteOK(q)'
    <3>1. QuotePair(row)
      BY <2>3, <2>5 DEF QuotePair
    <3>2. q \in crossed' \/ (row.sent <=> row.stage = "enviada")
      BY <2>2, <2>3, <2>5 DEF Quotes!SentAfter, QuotePair, Quotes!Stages, QuoteInv, QuoteOK
    <3>3. row.status = Quotes!Accepted \/ row.order # Quotes!None => q \in won'
      BY <2>2, <2>5, <2>6 DEF QuoteInv, QuoteOK
    <3> QED  BY <2>7, <3>1, <3>2, <3>3 DEF QuoteOK, QuotePair
  <2>9. \A p \in Quotes!Live : QuoteOK(p)'
    BY <2>2, <2>6, <2>7, <2>8, QuoteRowKept
  <2>10. QuoteLinkedOnce'
    <3>1. \A p \in Quotes!Live : quote'[p].order = quote[p].order
      BY <2>5, <2>7
    <3> QED  BY <2>7, <3>1 DEF QuoteInv, QuoteLinkedOnce
  <2>11. won' \subseteq quoted /\ crossed' \subseteq quoted
    BY <2>2, <2>4, <2>6 DEF QuoteInv, QuoteTypes
  <2> QED  BY <1>2, <2>2, <2>6, <2>7, <2>9, <2>10, <2>11, QuoteEnd
<1> QED  BY <1>3, <1>4

LEMMA QuoteLinkCheck ==
  ASSUME QuoteInv, NEW w \in Workers, Quotes!LinkCheck(w) PROVE QuoteInv'
<1>1. UNCHANGED << quote, won, crossed, orders, quoted >> /\ quotePc[w] = "pedido"
  BY DEF Quotes!LinkCheck, Quotes!still
<1>2. Quotes!Live' = Quotes!Live
  BY <1>1 DEF Quotes!Live
<1>3. CASE Quotes!End(w)
  BY <1>1, <1>2, <1>3, QuoteEnd, QuoteRowKept DEF QuoteInv, QuoteTypes, QuoteLinkedOnce
<1>4. CASE ~Quotes!End(w)
  <2>1. quotePc' = [quotePc EXCEPT ![w] = "liga"] /\ quoteJob' = quoteJob
    BY <1>4 DEF Quotes!LinkCheck
  <2>2. QuoteTypes'
    BY <1>1, <1>2, <2>1 DEF QuoteInv, QuoteTypes
  <2>3. QuoteJobOK(w)'
    BY <1>1, <2>1 DEF QuoteInv, QuoteTypes, QuoteJobOK
  <2>4. \A v \in Workers \ {w} : QuoteJobOK(v)'
    BY <1>1, <2>1, QuoteJobsKept DEF QuoteInv, QuoteTypes
  <2> QED  BY <1>1, <1>2, <2>2, <2>3, <2>4, QuoteRowKept DEF QuoteInv, QuoteLinkedOnce
<1> QED  BY <1>3, <1>4

LEMMA QuoteLinkWrite ==
  ASSUME QuoteInv, NEW w \in Workers, Quotes!LinkWrite(w) PROVE QuoteInv'
<1>1. PICK q \in Ids, o \in Orders : q = quoteJob[w].quote /\ o = quoteJob[w].order /\ q \in won
  BY DEF Quotes!LinkWrite, QuoteInv, QuoteJobOK
<1>2. Quotes!End(w) /\ UNCHANGED << crossed, orders, quoted >>
  BY DEF Quotes!LinkWrite, Quotes!still
<1>3. CASE UNCHANGED << quote, won >>
  <2>1. Quotes!Live' = Quotes!Live
    BY <1>3 DEF Quotes!Live
  <2> QED  BY <1>2, <1>3, <2>1, QuoteEnd, QuoteRowKept DEF QuoteInv, QuoteTypes, QuoteLinkedOnce
<1>4. CASE ~UNCHANGED << quote, won >>
  <2>1. /\ q \in Quotes!Live /\ Quotes!Put(q, [quote[q] EXCEPT !.order = o])
        /\ \A p \in Quotes!Live \ {q} : quote[p].order # o
    BY <1>1, <1>4 DEF Quotes!LinkWrite
  <2>2. quote[q] \in QuoteRow
    BY <2>1, LiveFacts DEF QuoteInv
  <2> DEFINE row == [quote[q] EXCEPT !.order = o]
  <2>3. /\ row \in QuoteRow
        /\ row.stage = quote[q].stage /\ row.status = quote[q].status
        /\ row.sent = quote[q].sent /\ row.order = o
    BY <2>2 DEF QuoteRow
  <2>4. quote' = [quote EXCEPT ![q] = row] /\ won' = won
    BY <1>1, <2>1 DEF Quotes!Put
  <2> HIDE DEF row
  <2>5. /\ quote' \in [Ids -> {Quotes!NoQuote} \cup QuoteRow] /\ Quotes!Live' = Quotes!Live
        /\ quote'[q] = row
        /\ \A p \in Quotes!Live \ {q} : quote'[p] = quote[p]
    BY <2>1, <2>3, <2>4, LiveFacts DEF QuoteInv, QuoteTypes, Quotes!Live
  <2>6. QuoteOK(q)'
    <3>1. QuotePair(row) /\ (q \in crossed \/ (row.sent <=> row.stage = "enviada"))
      BY <2>1, <2>3 DEF QuoteInv, QuoteOK, QuotePair
    <3> QED  BY <1>1, <1>2, <2>4, <2>5, <3>1 DEF QuoteOK, QuotePair
  <2>7. \A p \in Quotes!Live : QuoteOK(p)'
    BY <1>2, <2>4, <2>5, <2>6, QuoteRowKept
  <2>8. QuoteLinkedOnce'
    BY <2>1, <2>3, <2>5 DEF QuoteInv, QuoteLinkedOnce
  <2> QED  BY <1>2, <2>4, <2>5, <2>7, <2>8, QuoteEnd DEF QuoteInv, QuoteTypes
<1> QED  BY <1>3, <1>4

LEMMA QuoteRemove ==
  ASSUME QuoteInv, NEW q \in Ids, Quotes!Remove(q) PROVE QuoteInv'
<1>1. /\ quote' = [quote EXCEPT ![q] = Quotes!NoQuote]
      /\ UNCHANGED << orders, quotePc, quoteJob, won, quoted, crossed >>
  BY DEF Quotes!Remove
<1>2. Quotes!Live' \subseteq Quotes!Live /\ \A p \in Quotes!Live' : quote'[p] = quote[p]
  BY <1>1 DEF QuoteInv, QuoteTypes, Quotes!Live
<1>3. QuoteTypes'
  BY <1>1, <1>2 DEF QuoteInv, QuoteTypes
<1>4. \A p \in Quotes!Live' : QuoteOK(p)'
  BY <1>1, <1>2, QuoteRowKept
<1>5. \A v \in Workers : QuoteJobOK(v)'
  BY <1>1, QuoteJobsKept
<1>6. QuoteLinkedOnce'
  BY <1>2 DEF QuoteInv, QuoteLinkedOnce
<1> QED  BY <1>3, <1>4, <1>5, <1>6 DEF QuoteInv

LEMMA QuoteDeleteOrder ==
  ASSUME QuoteInv, NEW o \in Orders, Quotes!DeleteOrder(o) PROVE QuoteInv'
<1>1. /\ orders' \subseteq orders
      /\ quote' = [q \in Ids |-> IF quote[q].order = o THEN [quote[q] EXCEPT !.order = Quotes!None]
                                 ELSE quote[q]]
      /\ UNCHANGED << quotePc, quoteJob, won, quoted, crossed >>
  BY DEF Quotes!DeleteOrder
<1>2. ASSUME NEW q \in Quotes!Live
      PROVE  /\ quote'[q] \in QuoteRow
             /\ quote'[q].stage = quote[q].stage /\ quote'[q].status = quote[q].status
             /\ quote'[q].sent = quote[q].sent
             /\ quote'[q].order \in {quote[q].order, Quotes!None}
  BY <1>1, LiveFacts DEF QuoteInv, Quotes!Live, QuoteRow
<1>3. \A q \in Ids \ Quotes!Live : quote'[q] = Quotes!NoQuote
  <2>1. Quotes!NoQuote.order # o
    BY QuoteAssumption DEF Quotes!NoQuote
  <2> QED  BY <1>1, <2>1, LiveFacts DEF QuoteInv
<1>4. Quotes!Live' = Quotes!Live
  BY <1>2, <1>3, LiveFacts DEF QuoteInv, Quotes!Live
<1>5. quote' \in [Ids -> {Quotes!NoQuote} \cup QuoteRow]
  BY <1>1, <1>2, <1>3
<1>6. QuoteTypes'
  BY <1>1, <1>4, <1>5 DEF QuoteInv, QuoteTypes
<1>7. \A p \in Quotes!Live' : QuoteOK(p)'
  BY <1>1, <1>2, <1>4 DEF QuoteInv, QuoteOK, QuotePair
<1>8. \A v \in Workers : QuoteJobOK(v)'
  BY <1>1, QuoteJobsKept
<1>9. QuoteLinkedOnce'
  BY <1>2, <1>4 DEF QuoteInv, QuoteLinkedOnce
<1> QED  BY <1>6, <1>7, <1>8, <1>9 DEF QuoteInv

LEMMA QuoteInvStep == QuoteInv /\ Quotes!Next => QuoteInv'
<1> SUFFICES ASSUME QuoteInv, Quotes!Next PROVE QuoteInv'
  OBVIOUS
<1> QED  BY QuoteCreate, QuoteUpdateRead, QuoteUpdateWrite, QuoteLinkRead, QuoteLinkCheck,
            QuoteLinkWrite, QuoteRemove, QuoteDeleteOrder DEF Quotes!Next

LEMMA QuoteInvKept == QuoteInv /\ UNCHANGED Quotes!vars => QuoteInv'
BY DEF QuoteInv, QuoteTypes, QuoteOK, QuoteJobOK, QuoteLinkedOnce, Quotes!Live, QuotePair,
   Quotes!vars

-----------------------------------------------------------------------------
(* The upkeep of an area.                                                   *)

UpkeepMachineRow == [name : Names, active : BOOLEAN]
ViewRow    == [active : BOOLEAN, production : BOOLEAN, machines : SUBSET Upkeep!Rows]
WorkRow    == [order : {"no hay", "abierto", "cerrado"}, here : BOOLEAN,
               task : {"no hay", "sin terminar", "terminada"}, machine : {Upkeep!None} \cup
                 Upkeep!Rows]
KeepMap    == {<< >>} \cup UNION {[S -> Names] : S \in SUBSET Upkeep!Rows}
UpkeepJobs == [on : {"", "active", "production"} \cup Orders, rows : SUBSET Upkeep!Rows,
               row : {Upkeep!None} \cup Upkeep!Rows, keep : KeepMap, fresh : SUBSET Names,
                 late : BOOLEAN]

UpkeepTypes ==
  /\ area \in [active : BOOLEAN, production : BOOLEAN]
  /\ machines \in Seq(UpkeepMachineRow) /\ Len(machines) <= MaxRows
  /\ cache = {} \/ \E a \in ViewRow : cache = {a}
  /\ work \in [Orders -> WorkRow]
  /\ areaPc \in [Workers -> {"libre", "retira", "maquinas", "pedido", "tarea", "asigna"}]
  /\ areaJob \in [Workers -> UpkeepJobs]
  /\ areaDrift \subseteq Upkeep!Causes

UpkeepJobAsked(w) ==
  /\ areaPc[w] = "retira" => areaJob[w].on \in {"active", "production"}
  /\ areaPc[w] \in {"pedido", "tarea", "asigna"} => areaJob[w].on \in Orders

(* What a request read before it writes holds while nobody else has written.*)
UpkeepJobSeen(w) ==
  LET j == areaJob[w] IN
  /\ areaPc[w] = "retira" => ~Upkeep!Busy
  /\ areaPc[w] = "maquinas" =>
       /\ DOMAIN j.keep \subseteq Upkeep!Active /\ j.rows = Upkeep!Active \ DOMAIN j.keep
       /\ Upkeep!Valid(j.keep, j.fresh)
       /\ \A m \in j.rows : ~Upkeep!Uses(m)
  /\ "vista" \notin areaDrift =>
       /\ areaPc[w] \in {"pedido", "tarea"} => area.active /\ area.production
            /\ Upkeep!View = Upkeep!Now
       /\ areaPc[w] = "asigna" => j.row \in {Upkeep!None} \cup Upkeep!Active
  /\ areaPc[w] = "tarea" => work[j.on].machine = Upkeep!None

UpkeepJobOK(w) == UpkeepJobAsked(w) /\ (~areaJob[w].late => UpkeepJobSeen(w))

UpkeepIdle ==
  areaDrift \cap {"solapadas", "vista", "reabierto"} = {} =>
    /\ ~(area.active /\ area.production) => ~Upkeep!Busy
    /\ \A o \in Orders : Upkeep!Doing(o) => work[o].machine \in {Upkeep!None} \cup Upkeep!Active

(* The request that made an order has its task still to write.              *)
UpkeepComing(o) == \E w \in Workers : areaPc[w] = "tarea" /\ areaJob[w].on = o

UpkeepPromised ==
  areaDrift \cap {"solapadas", "vista", "caida"} = {} =>
    \A o \in Orders : work[o].order # "no hay" /\ work[o].task = "no hay" => UpkeepComing(o)

UpkeepFew ==
  "solapadas" \notin areaDrift =>
    /\ Cardinality(Upkeep!Active) <= MaxMachines
    /\ \A a, b \in Upkeep!Active : a # b => machines[a].name # machines[b].name

UpkeepInv ==
  /\ UpkeepTypes
  /\ \A w \in Workers : UpkeepJobOK(w)
  /\ UpkeepIdle
  /\ UpkeepPromised
  /\ UpkeepFew

LEMMA UpkeepNoJob == Upkeep!NoJob \in UpkeepJobs /\ ~Upkeep!NoJob.late /\ Upkeep!NoJob.on = ""
BY DEF Upkeep!NoJob, UpkeepJobs, KeepMap, Upkeep!None

LEMMA UpkeepView ==
  ASSUME UpkeepTypes
  PROVE  /\ DOMAIN machines = 1..Len(machines) /\ Len(machines) \in Nat
         /\ \A m \in DOMAIN machines : machines[m] \in UpkeepMachineRow
         /\ Upkeep!Active \subseteq Upkeep!Rows /\ Upkeep!Now \in ViewRow /\ Upkeep!View \in ViewRow
         /\ IsFiniteSet(Upkeep!Active)
<1>1. /\ DOMAIN machines = 1..Len(machines) /\ Len(machines) \in Nat /\ Len(machines) <= MaxRows
      /\ machines \in [1..Len(machines) -> UpkeepMachineRow]
  BY LenProperties DEF UpkeepTypes
<1>2. Upkeep!Active \subseteq 1..Len(machines)
  BY <1>1 DEF Upkeep!Active
<1>3. Upkeep!Active \subseteq Upkeep!Rows
  BY <1>1, <1>2, UpkeepAssumption DEF Upkeep!Rows
<1>4. Upkeep!Now \in ViewRow
  BY <1>3 DEF UpkeepTypes, Upkeep!Now, ViewRow
<1>5. Upkeep!View \in ViewRow
  <2>1. CASE cache = {}
    BY <1>4, <2>1 DEF Upkeep!View
  <2>2. ASSUME NEW a \in ViewRow, cache = {a} PROVE Upkeep!View = a
    BY <2>2 DEF Upkeep!View
  <2> QED  BY <2>1, <2>2 DEF UpkeepTypes
<1>6. IsFiniteSet(1..Len(machines))
  BY <1>1, FS_Interval
<1> QED  BY <1>1, <1>2, <1>3, <1>4, <1>5, <1>6, FS_Subset

LEMMA UpkeepInvSafe == UpkeepInv => Upkeep!TypeOK /\ Upkeep!RetiredIsIdle
<1> SUFFICES ASSUME UpkeepInv PROVE Upkeep!TypeOK /\ Upkeep!RetiredIsIdle
  OBVIOUS
<1>1. UpkeepTypes
  BY DEF UpkeepInv
<1>2. Cardinality(cache) <= 1
  <2>1. CASE cache = {}
    BY <2>1, FS_EmptySet
  <2>2. ASSUME NEW a \in ViewRow, cache = {a} PROVE Cardinality(cache) = 1
    BY <2>2, FS_Singleton
  <2> QED  BY <1>1, <2>1, <2>2 DEF UpkeepTypes
<1>3. machines \in UNION {[1..n -> [name : Names, active : BOOLEAN]] : n \in 0..MaxRows}
  <2>1. Len(machines) \in 0..MaxRows /\ machines \in [1..Len(machines) -> UpkeepMachineRow]
    BY <1>1, LenProperties, UpkeepAssumption DEF UpkeepTypes
  <2> QED  BY <2>1 DEF UpkeepMachineRow
<1>4. Upkeep!View.machines \subseteq Upkeep!Rows
  BY <1>1, UpkeepView DEF ViewRow
<1>5. Upkeep!TypeOK
  BY OfficeCardinality, <1>1, <1>2, <1>3, <1>4 DEF UpkeepTypes, Upkeep!TypeOK, WorkRow
<1>6. Upkeep!RetiredIsIdle
  BY OfficeCardinality DEF UpkeepInv, UpkeepIdle, UpkeepPromised, UpkeepFew, UpkeepComing, Upkeep!RetiredIsIdle,
     Upkeep!Busy
<1> QED  BY <1>5, <1>6

LEMMA UpkeepInvInit == Upkeep!Init => UpkeepInv
<1> SUFFICES ASSUME Upkeep!Init PROVE UpkeepInv
  OBVIOUS
<1>1. PICK named \in SUBSET Names :
        /\ Cardinality(named) <= 1
        /\ machines = [m \in 1..Cardinality(named) |->
                         [name |-> CHOOSE n \in named : TRUE, active |-> TRUE]]
  BY OfficeCardinality DEF Upkeep!Init
<1>2. IsFiniteSet(named)
  BY FS_Subset, UpkeepAssumption
<1>3. Cardinality(named) \in Nat /\ (Cardinality(named) = 1 => \E n : named = {n})
  BY <1>2, FS_CardinalityType, FS_Singleton
<1>4. ASSUME NEW m \in 1..Cardinality(named) PROVE machines[m] \in UpkeepMachineRow
  <2>1. Cardinality(named) = 1
    BY <1>1, <1>3
  <2> QED  BY <1>1, <1>3, <2>1 DEF UpkeepMachineRow
<1>5. machines \in [1..Cardinality(named) -> UpkeepMachineRow]
  BY <1>1, <1>4
<1>6. machines \in Seq(UpkeepMachineRow) /\ Len(machines) = Cardinality(named)
  <2>1. machines \in Seq(UpkeepMachineRow)
    BY <1>3, <1>5, SeqDef
  <2> QED  BY <1>3, <1>5, <2>1, LenProperties
<1>7. UpkeepTypes
  <2>1. Len(machines) <= MaxRows
    BY <1>1, <1>3, <1>6, UpkeepAssumption
  <2>2. work \in [Orders -> WorkRow]
    BY DEF Upkeep!Init, Upkeep!NoOrder, WorkRow, Upkeep!None
  <2>3. areaJob \in [Workers -> UpkeepJobs]
    BY UpkeepNoJob DEF Upkeep!Init
  <2> QED  BY <1>6, <2>1, <2>2, <2>3 DEF Upkeep!Init, UpkeepTypes, Upkeep!Causes
<1>8. \A w \in Workers : UpkeepJobOK(w)
  BY DEF Upkeep!Init, UpkeepJobOK, UpkeepJobAsked, UpkeepJobSeen
<1>9. \A o \in Orders : ~Upkeep!Open(o) /\ ~Upkeep!Doing(o) /\ work[o].order = "no hay"
  BY DEF Upkeep!Init, Upkeep!NoOrder, Upkeep!Open, Upkeep!Doing
<1>10. UpkeepFew
  <2>0. IsFiniteSet(1..1) /\ Cardinality(1..1) = 1
    <3>1. 1..1 = {1}
      OBVIOUS
    <3> QED  BY <3>1, FS_Singleton
  <2>1. Upkeep!Active \subseteq 1..1 /\ IsFiniteSet(1..1) /\ Cardinality(1..1) = 1
    <3>1. DOMAIN machines = 1..Cardinality(named)
      BY <1>1
    <3>2. \A m \in Upkeep!Active : m \in 1..Cardinality(named)
      BY <3>1 DEF Upkeep!Active
    <3> QED  BY <1>1, <1>3, <2>0, <3>2
  <2>2. Cardinality(Upkeep!Active) <= 1
    BY <2>1, FS_Subset
  <2>3. Cardinality(Upkeep!Active) \in Nat
    BY <2>1, FS_Subset, FS_CardinalityType
  <2> QED  BY <2>1, <2>2, <2>3, UpkeepAssumption DEF UpkeepFew
<1> QED  BY <1>7, <1>8, <1>9, <1>10 DEF UpkeepInv, UpkeepIdle, UpkeepPromised, Upkeep!Busy

-----------------------------------------------------------------------------
(* A request that is late has read what is not so any more.                 *)
LEMMA UpkeepLate ==
  ASSUME NEW j \in UpkeepJobs
  PROVE  /\ [j EXCEPT !.late = TRUE] \in UpkeepJobs /\ [j EXCEPT !.late = TRUE].late
         /\ [j EXCEPT !.late = TRUE].on = j.on
BY DEF UpkeepJobs

LEMMA UpkeepForget ==
  ASSUME UpkeepTypes, Upkeep!Forget PROVE (cache = {} \/ \E a \in ViewRow : cache = {a})'
BY UpkeepView DEF Upkeep!Forget

(* A request writes: the others are late.                                   *)
UpkeepOthers(w) ==
  /\ \A v \in Workers \ {w} :
       /\ areaPc'[v] = areaPc[v]
       /\ areaJob'[v] = IF areaPc[v] =
            "libre" THEN areaJob'[v] ELSE [areaJob[v] EXCEPT !.late = TRUE]
       /\ areaPc[v] = "libre" => areaJob'[v] \in UpkeepJobs

LEMMA UpkeepOthersLate ==
  ASSUME UpkeepInv, NEW w, UpkeepOthers(w)
  PROVE  \A v \in Workers \ {w} : UpkeepJobOK(v)' /\ areaJob'[v] \in UpkeepJobs
<1> TAKE v \in Workers \ {w}
<1>1. areaPc'[v] = areaPc[v] /\ areaJob[v] \in UpkeepJobs /\ UpkeepJobAsked(v)
  BY DEF UpkeepOthers, UpkeepInv, UpkeepTypes, UpkeepJobOK
<1>2. CASE areaPc[v] = "libre"
  BY <1>1, <1>2 DEF UpkeepOthers, UpkeepJobOK, UpkeepJobAsked, UpkeepJobSeen
<1>3. CASE areaPc[v] # "libre"
  <2>1. areaJob'[v] \in UpkeepJobs /\ areaJob'[v].late /\ areaJob'[v].on = areaJob[v].on
    BY <1>1, <1>3, UpkeepLate DEF UpkeepOthers
  <2> QED  BY <1>1, <2>1 DEF UpkeepJobOK, UpkeepJobAsked
<1> QED  BY <1>2, <1>3

(* Nothing that a request reads has changed.                                *)
LEMMA UpkeepJobKept ==
  ASSUME UpkeepInv, NEW v \in Workers, areaPc'[v] = areaPc[v], areaJob'[v] = areaJob[v],
         UNCHANGED << area, machines, work >>, cache' = cache \/ Upkeep!View' = Upkeep!Now',
           areaDrift \subseteq areaDrift'
  PROVE  UpkeepJobOK(v)'
<1>1. /\ Upkeep!Active' = Upkeep!Active /\ Upkeep!Now' = Upkeep!Now
      /\ (Upkeep!View = Upkeep!Now => Upkeep!View' = Upkeep!Now')
  BY DEF Upkeep!Active, Upkeep!Now, Upkeep!View
<1>2. /\ Upkeep!Busy' = Upkeep!Busy /\ \A m : Upkeep!Uses(m)' = Upkeep!Uses(m)
  BY DEF Upkeep!Busy, Upkeep!Uses, Upkeep!Doing, Upkeep!Open
<1>3. UpkeepJobAsked(v)'
  BY DEF UpkeepInv, UpkeepJobOK, UpkeepJobAsked
<1>4. ~areaJob[v].late => UpkeepJobSeen(v)'
  BY <1>1, <1>2 DEF UpkeepInv, UpkeepJobOK, UpkeepJobSeen, Upkeep!Valid
<1> QED  BY <1>3, <1>4 DEF UpkeepJobOK

LEMMA UpkeepSameWork ==
  ASSUME UpkeepInv, UNCHANGED << area, machines, work >>, areaDrift \subseteq areaDrift'
  PROVE  UpkeepIdle' /\ UpkeepFew'
BY DEF UpkeepInv, UpkeepIdle, UpkeepFew, Upkeep!Busy, Upkeep!Doing, Upkeep!Open, Upkeep!Active

LEMMA UpkeepBegin ==
  ASSUME UpkeepInv, NEW w \in Workers,
         NEW where \in {"retira", "maquinas", "pedido", "asigna"}, NEW j \in UpkeepJobs,
         Upkeep!Begin(w, where, j), UNCHANGED << Upkeep!config, work >>, ~j.late,
         where = "retira" => j.on \in {"active", "production"} /\ ~Upkeep!Busy,
         where \in {"pedido", "asigna"} => j.on \in Orders,
         where = "maquinas" =>
           /\ DOMAIN j.keep \subseteq Upkeep!Active /\ j.rows = Upkeep!Active \ DOMAIN j.keep
           /\ Upkeep!Valid(j.keep, j.fresh) /\ \A m \in j.rows : ~Upkeep!Uses(m),
         where = "pedido" => Upkeep!Offered,
         where = "asigna" => j.row \in {Upkeep!None} \cup Upkeep!View.machines
  PROVE  UpkeepInv'
<1>1. /\ areaPc[w] = "libre" /\ areaPc' = [areaPc EXCEPT ![w] = where]
          /\ areaJob' = [areaJob EXCEPT ![w] = j]
      /\ areaDrift' = areaDrift \cup (IF Upkeep!View = Upkeep!Now THEN {} ELSE {"vista"})
      /\ UNCHANGED << area, machines, cache, work >>
  BY DEF Upkeep!Begin, Upkeep!config
<1>2. UpkeepTypes'
  BY <1>1 DEF UpkeepInv, UpkeepTypes, Upkeep!Causes
<1>3. areaPc'[w] = where /\ areaJob'[w] = j
        /\ \A v \in Workers \ {w} : areaPc'[v] = areaPc[v] /\ areaJob'[v] = areaJob[v]
  BY <1>1 DEF UpkeepInv, UpkeepTypes
<1>4. Upkeep!Active' = Upkeep!Active /\ Upkeep!Now' = Upkeep!Now /\ Upkeep!View' =
        Upkeep!View /\ ("vista" \notin areaDrift' => Upkeep!View = Upkeep!Now)
  BY <1>1 DEF Upkeep!Active, Upkeep!Now, Upkeep!View
<1>5. Upkeep!Busy' = Upkeep!Busy /\ \A m : Upkeep!Uses(m)' = Upkeep!Uses(m)
  BY <1>1 DEF Upkeep!Busy, Upkeep!Uses, Upkeep!Doing, Upkeep!Open
<1>6. UpkeepJobOK(w)'
  <2>1. UpkeepJobAsked(w)'
    BY <1>3 DEF UpkeepJobAsked
  <2>2. "vista" \notin areaDrift' /\ where = "pedido" => area.active /\ area.production
    BY <1>4 DEF Upkeep!Offered, Upkeep!Now
  <2>3. "vista" \notin areaDrift' /\ where = "asigna" => j.row \in {Upkeep!None} \cup Upkeep!Active
    BY <1>4 DEF Upkeep!Now
  <2>4. UpkeepJobSeen(w)'
    BY <1>1, <1>3, <1>4, <1>5, <2>2, <2>3 DEF UpkeepJobSeen, Upkeep!Valid
  <2> QED  BY <2>1, <2>4 DEF UpkeepJobOK
<1>7. \A v \in Workers \ {w} : UpkeepJobOK(v)'
  BY <1>1, <1>3, UpkeepJobKept
<1>8. UpkeepPromised'
  <2>1. \A o : UpkeepComing(o) => UpkeepComing(o)'
    BY <1>1, <1>3 DEF UpkeepComing
  <2> QED  BY <1>1, <2>1 DEF UpkeepInv, UpkeepPromised
<1> QED  BY <1>1, <1>2, <1>6, <1>7, <1>8, UpkeepSameWork DEF UpkeepInv

LEMMA UpkeepRetireRead ==
  ASSUME UpkeepInv, NEW w \in Workers, NEW what \in {"active", "production"},
         Upkeep!RetireRead(w, what)
  PROVE  UpkeepInv'
<1> DEFINE j == [Upkeep!NoJob EXCEPT !.on = what]
<1>1. j \in UpkeepJobs /\ j.on = what /\ ~j.late
  BY UpkeepNoJob DEF UpkeepJobs
<1>2. Upkeep!Begin(w, "retira", j) /\ ~Upkeep!Busy /\ UNCHANGED << Upkeep!config, work >>
  BY DEF Upkeep!RetireRead, Upkeep!Retirable
<1> HIDE DEF j
<1> QED  BY <1>1, <1>2, UpkeepBegin

LEMMA UpkeepMachinesRead ==
  ASSUME UpkeepInv, NEW w \in Workers, NEW k \in Upkeep!Keeps, NEW f \in SUBSET Names,
         Upkeep!MachinesRead(w, k, f)
  PROVE  UpkeepInv'
<1> DEFINE j == [Upkeep!NoJob EXCEPT !.keep = k, !.fresh = f, !.rows = Upkeep!Active \ DOMAIN k]
<1>1. Upkeep!Active \subseteq Upkeep!Rows
  BY UpkeepView DEF UpkeepInv
<1>2. k \in KeepMap
  BY <1>1 DEF Upkeep!Keeps, KeepMap
<1>3. j \in UpkeepJobs /\ j.keep = k /\ j.fresh = f /\ j.rows = Upkeep!Active \ DOMAIN k /\ ~j.late
  BY <1>1, <1>2, UpkeepNoJob DEF UpkeepJobs
<1>4. /\ DOMAIN k \subseteq Upkeep!Active /\ Upkeep!Valid(k, f)
      /\ \A m \in Upkeep!Active \ DOMAIN k : ~Upkeep!Uses(m)
      /\ Upkeep!Begin(w, "maquinas", j) /\ UNCHANGED << Upkeep!config, work >>
  BY DEF Upkeep!MachinesRead
<1> HIDE DEF j
<1> QED  BY <1>3, <1>4, UpkeepBegin

LEMMA UpkeepOrderRead ==
  ASSUME UpkeepInv, NEW w \in Workers, NEW o \in Orders, Upkeep!OrderRead(w, o) PROVE UpkeepInv'
<1> DEFINE j == [Upkeep!NoJob EXCEPT !.on = o]
<1>1. j \in UpkeepJobs /\ j.on = o /\ ~j.late
  BY UpkeepNoJob DEF UpkeepJobs
<1>2. Upkeep!Begin(w, "pedido", j) /\ Upkeep!Offered /\ UNCHANGED << Upkeep!config, work >>
  BY DEF Upkeep!OrderRead
<1> HIDE DEF j
<1> QED  BY <1>1, <1>2, UpkeepBegin

LEMMA UpkeepAssignRead ==
  ASSUME UpkeepInv, NEW w \in Workers, NEW o \in Orders, NEW m \in {Upkeep!None} \cup Upkeep!Rows,
         Upkeep!AssignRead(w, o, m)
  PROVE  UpkeepInv'
<1> DEFINE j == [Upkeep!NoJob EXCEPT !.on = o, !.row = m]
<1>1. j \in UpkeepJobs /\ j.on = o /\ j.row = m /\ ~j.late
  BY UpkeepNoJob DEF UpkeepJobs
<1>2. /\ Upkeep!Begin(w, "asigna", j) /\ m \in {Upkeep!None} \cup Upkeep!View.machines
      /\ UNCHANGED << Upkeep!config, work >>
  BY DEF Upkeep!AssignRead
<1> HIDE DEF j
<1> QED  BY <1>1, <1>2, UpkeepBegin

LEMMA UpkeepExpire == ASSUME UpkeepInv, Upkeep!CacheExpire PROVE UpkeepInv'
<1>1. cache' = {} /\ UNCHANGED << area, machines, work, areaPc, areaJob, areaDrift >>
  BY DEF Upkeep!CacheExpire
<1>2. Upkeep!View' = Upkeep!Now'
  BY <1>1 DEF Upkeep!View
<1>3. UpkeepTypes'
  BY <1>1 DEF UpkeepInv, UpkeepTypes
<1>4. \A v \in Workers : UpkeepJobOK(v)'
  BY <1>1, <1>2, UpkeepJobKept
<1>5. UpkeepPromised'
  BY <1>1 DEF UpkeepInv, UpkeepPromised, UpkeepComing
<1> QED  BY <1>1, <1>3, <1>4, <1>5, UpkeepSameWork DEF UpkeepInv

-----------------------------------------------------------------------------
(* What a request leaves when it has written.                               *)
LEMMA UpkeepWritten ==
  ASSUME UpkeepInv, NEW w \in Workers, Upkeep!Written(w)
  PROVE  /\ areaPc' \in [Workers -> {"libre", "retira", "maquinas", "pedido", "tarea", "asigna"}]
         /\ areaJob' \in [Workers -> UpkeepJobs]
         /\ \A v \in Workers : UpkeepJobOK(v)'
         /\ \A v \in Workers \ {w} : areaPc[v] = "tarea" => areaPc'[v] = "tarea"
              /\ areaJob'[v].on = areaJob[v].on
         /\ areaDrift \subseteq areaDrift' /\ areaDrift' \subseteq Upkeep!Causes
         /\ "solapadas" \notin areaDrift' => ~areaJob[w].late
<1>1. /\ areaPc' = [areaPc EXCEPT ![w] = "libre"]
      /\ areaJob' = [v \in Workers |-> IF v = w \/ areaPc[v] = "libre" THEN Upkeep!NoJob
                                   ELSE [areaJob[v] EXCEPT !.late = TRUE]]
      /\ areaDrift' = areaDrift \cup (IF areaJob[w].late THEN {"solapadas"} ELSE {})
  BY DEF Upkeep!Written, Upkeep!Late
<1>2. /\ areaPc' \in [Workers -> {"libre", "retira", "maquinas", "pedido", "tarea", "asigna"}]
      /\ areaPc'[w] = "libre"
  BY <1>1 DEF UpkeepInv, UpkeepTypes
<1>3. UpkeepOthers(w)
  <2>1. \A v \in Workers \ {w} : areaPc'[v] = areaPc[v]
    BY <1>1 DEF UpkeepInv, UpkeepTypes
  <2> QED  BY <1>1, <2>1, UpkeepNoJob DEF UpkeepOthers
<1>4. areaJob'[w] = Upkeep!NoJob /\ areaJob'[w] \in UpkeepJobs
  BY <1>1, UpkeepNoJob
<1>5. \A v \in Workers \ {w} : UpkeepJobOK(v)' /\ areaJob'[v] \in UpkeepJobs
  BY <1>3, UpkeepOthersLate
<1>6. areaJob' \in [Workers -> UpkeepJobs]
  <2>1. \A v \in Workers : areaJob'[v] \in UpkeepJobs
    BY <1>4, <1>5
  <2> QED  BY <1>1, <2>1
<1>7. UpkeepJobOK(w)'
  BY <1>2 DEF UpkeepJobOK, UpkeepJobAsked, UpkeepJobSeen
<1>8. ASSUME NEW v \in Workers \ {w}, areaPc[v] = "tarea"
      PROVE  areaPc'[v] = "tarea" /\ areaJob'[v].on = areaJob[v].on
  <2>1. /\ areaJob[v] \in UpkeepJobs /\ areaJob'[v] = [areaJob[v] EXCEPT !.late = TRUE]
        /\ areaPc'[v] = areaPc[v]
    BY <1>1, <1>8 DEF UpkeepInv, UpkeepTypes
  <2> QED  BY <1>8, <2>1, UpkeepLate
<1>9. /\ areaDrift \subseteq areaDrift' /\ areaDrift' \subseteq Upkeep!Causes
      /\ ("solapadas" \notin areaDrift' => ~areaJob[w].late)
  BY <1>1 DEF UpkeepInv, UpkeepTypes, Upkeep!Causes
<1> QED  BY <1>2, <1>5, <1>6, <1>7, <1>8, <1>9

LEMMA UpkeepRetireWrite == ASSUME UpkeepInv, NEW w \in Workers,
  Upkeep!RetireWrite(w) PROVE UpkeepInv'
<1>1. /\ areaPc[w] = "retira" /\ Upkeep!Written(w) /\ Upkeep!Forget /\ UNCHANGED << machines,
          work >>
      /\ area' = [area EXCEPT ![areaJob[w].on] = FALSE]
  BY DEF Upkeep!RetireWrite
<1>2. /\ areaPc' \in [Workers -> {"libre", "retira", "maquinas", "pedido", "tarea", "asigna"}]
      /\ areaJob' \in [Workers -> UpkeepJobs]
      /\ \A v \in Workers : UpkeepJobOK(v)'
      /\ \A v \in Workers \ {w} : areaPc[v] = "tarea" => areaPc'[v] = "tarea"
           /\ areaJob'[v].on = areaJob[v].on
      /\ areaDrift \subseteq areaDrift' /\ areaDrift' \subseteq Upkeep!Causes
      /\ "solapadas" \notin areaDrift' => ~areaJob[w].late
  BY <1>1, UpkeepWritten
<1>3. UpkeepTypes'
  <2>1. area' \in [active : BOOLEAN, production : BOOLEAN]
    BY <1>1 DEF UpkeepInv, UpkeepTypes, UpkeepJobOK, UpkeepJobAsked
  <2>2. (cache = {} \/ \E a \in ViewRow : cache = {a})'
    BY <1>1, UpkeepForget DEF UpkeepInv
  <2> QED  BY <1>1, <1>2, <2>1, <2>2 DEF UpkeepInv, UpkeepTypes
<1>4. UpkeepIdle'
  <2>1. "solapadas" \notin areaDrift' => ~Upkeep!Busy
    BY <1>1, <1>2 DEF UpkeepInv, UpkeepJobOK, UpkeepJobSeen
  <2>2. Upkeep!Busy' = Upkeep!Busy
    BY <1>1 DEF Upkeep!Busy, Upkeep!Doing, Upkeep!Open
  <2> QED  BY <1>1, <1>2, <2>1, <2>2 DEF UpkeepInv, UpkeepIdle, Upkeep!Doing, Upkeep!Open,
              Upkeep!Active
<1>5. UpkeepPromised'
  <2>1. \A o : UpkeepComing(o) => UpkeepComing(o)'
    BY <1>1, <1>2 DEF UpkeepComing
  <2> QED  BY <1>1, <1>2, <2>1 DEF UpkeepInv, UpkeepPromised
<1>6. UpkeepFew'
  BY <1>1, <1>2 DEF UpkeepInv, UpkeepFew, Upkeep!Active
<1> QED  BY <1>2, <1>3, <1>4, <1>5, <1>6 DEF UpkeepInv

LEMMA UpkeepTaskWrite == ASSUME UpkeepInv, NEW w \in Workers, Upkeep!TaskWrite(w) PROVE UpkeepInv'
<1>1. PICK o \in Orders : o = areaJob[w].on
  BY DEF Upkeep!TaskWrite, UpkeepInv, UpkeepJobOK, UpkeepJobAsked
<1>2. /\ areaPc[w] = "tarea" /\ Upkeep!Written(w) /\ UNCHANGED << area, machines, cache >>
      /\ \/ Upkeep!Offered /\ work' = [work EXCEPT ![o].task = "sin terminar"]
         \/ ~Upkeep!Offered /\ UNCHANGED work
  BY <1>1 DEF Upkeep!TaskWrite, Upkeep!config
<1>3. /\ areaPc' \in [Workers -> {"libre", "retira", "maquinas", "pedido", "tarea", "asigna"}]
      /\ areaJob' \in [Workers -> UpkeepJobs]
      /\ \A v \in Workers : UpkeepJobOK(v)'
      /\ \A v \in Workers \ {w} : areaPc[v] = "tarea" => areaPc'[v] = "tarea"
           /\ areaJob'[v].on = areaJob[v].on
      /\ areaDrift \subseteq areaDrift' /\ areaDrift' \subseteq Upkeep!Causes
      /\ "solapadas" \notin areaDrift' => ~areaJob[w].late
  BY <1>2, UpkeepWritten
<1>4. "solapadas" \notin areaDrift' /\ "vista" \notin areaDrift' =>
        area.active /\ area.production /\ Upkeep!Offered /\ work[o].machine = Upkeep!None
  <2> SUFFICES ASSUME "solapadas" \notin areaDrift', "vista" \notin areaDrift'
               PROVE  area.active /\ area.production /\ Upkeep!Offered
                        /\ work[o].machine = Upkeep!None
    OBVIOUS
  <2>1. UpkeepJobSeen(w) /\ "vista" \notin areaDrift
    BY <1>3 DEF UpkeepInv, UpkeepJobOK
  <2>2. area.active /\ area.production /\ Upkeep!View = Upkeep!Now /\ work[o].machine = Upkeep!None
    BY <1>1, <1>2, <2>1 DEF UpkeepJobSeen
  <2>3. Upkeep!Now.active = area.active /\ Upkeep!Now.production = area.production
    BY DEF Upkeep!Now
  <2> QED  BY <2>2, <2>3 DEF Upkeep!Offered
<1>5. /\ work' \in [Orders -> WorkRow]
      /\ \A x \in Orders \ {o} : work'[x] = work[x]
      /\ work'[o].machine = work[o].machine /\ work'[o].order = work[o].order
      /\ Upkeep!Offered => work'[o].task = "sin terminar"
  <2>1. work \in [Orders -> WorkRow] /\ work[o] \in WorkRow
    BY DEF UpkeepInv, UpkeepTypes
  <2>2. CASE ~Upkeep!Offered
    BY <1>2, <2>1, <2>2
  <2>3. CASE Upkeep!Offered
    <3> DEFINE row == [work[o] EXCEPT !.task = "sin terminar"]
    <3>1. row \in WorkRow /\ row.task = "sin terminar" /\ row.machine = work[o].machine
          /\ row.order = work[o].order
      BY <2>1 DEF WorkRow
    <3>2. work' = [work EXCEPT ![o] = row]
      BY <1>2, <2>3
    <3> HIDE DEF row
    <3> QED  BY <2>1, <3>1, <3>2
  <2> QED  BY <2>2, <2>3
<1>6. UpkeepTypes'
  BY <1>2, <1>3, <1>5 DEF UpkeepInv, UpkeepTypes
<1>7. UpkeepIdle'
  <2> SUFFICES ASSUME areaDrift' \cap {"solapadas", "vista", "reabierto"} = {}
               PROVE  /\ area'.active /\ area'.production
                      /\ \A x \in Orders : Upkeep!Doing(x)' =>
                           work'[x].machine \in {Upkeep!None} \cup Upkeep!Active'
    BY DEF UpkeepIdle
  <2>1. area'.active /\ area'.production /\ work'[o].machine = Upkeep!None
    BY <1>2, <1>3, <1>4, <1>5
  <2>2. \A x \in Orders : Upkeep!Doing(x) => work[x].machine \in {Upkeep!None} \cup Upkeep!Active
    BY <1>3 DEF UpkeepInv, UpkeepIdle
  <2> QED  BY <1>2, <1>5, <2>1, <2>2 DEF Upkeep!Doing, Upkeep!Open, Upkeep!Active
<1>8. UpkeepPromised'
  <2> SUFFICES ASSUME areaDrift' \cap {"solapadas", "vista", "caida"} = {}, NEW x \in Orders,
                      work'[x].order # "no hay", work'[x].task = "no hay"
               PROVE  UpkeepComing(x)'
    BY DEF UpkeepPromised
  <2>1. x # o
    BY <1>4, <1>5
  <2>2. UpkeepComing(x)
    BY <1>3, <1>5, <2>1 DEF UpkeepInv, UpkeepPromised
  <2>3. PICK v \in Workers : areaPc[v] = "tarea" /\ areaJob[v].on = x
    BY <2>2 DEF UpkeepComing
  <2>4. v # w
    BY <1>1, <2>1, <2>3
  <2> QED  BY <1>3, <2>3, <2>4 DEF UpkeepComing
<1>9. UpkeepFew'
  BY <1>2, <1>3 DEF UpkeepInv, UpkeepFew, Upkeep!Active
<1> QED  BY <1>3, <1>6, <1>7, <1>8, <1>9 DEF UpkeepInv

LEMMA UpkeepAssignWrite == ASSUME UpkeepInv, NEW w \in Workers,
  Upkeep!AssignWrite(w) PROVE UpkeepInv'
<1>1. PICK o \in Orders : o = areaJob[w].on
  BY DEF Upkeep!AssignWrite, UpkeepInv, UpkeepJobOK, UpkeepJobAsked
<1>2. /\ areaPc[w] = "asigna" /\ Upkeep!Written(w) /\ UNCHANGED << area, machines, cache >>
      /\ work' = [work EXCEPT ![o].machine = areaJob[w].row]
  BY <1>1 DEF Upkeep!AssignWrite, Upkeep!config
<1>3. /\ areaPc' \in [Workers -> {"libre", "retira", "maquinas", "pedido", "tarea", "asigna"}]
      /\ areaJob' \in [Workers -> UpkeepJobs]
      /\ \A v \in Workers : UpkeepJobOK(v)'
      /\ \A v \in Workers \ {w} : areaPc[v] = "tarea" => areaPc'[v] = "tarea"
           /\ areaJob'[v].on = areaJob[v].on
      /\ areaDrift \subseteq areaDrift' /\ areaDrift' \subseteq Upkeep!Causes
      /\ "solapadas" \notin areaDrift' => ~areaJob[w].late
  BY <1>2, UpkeepWritten
<1>4. "solapadas" \notin areaDrift' /\ "vista" \notin areaDrift' =>
        areaJob[w].row \in {Upkeep!None} \cup Upkeep!Active
  BY <1>2, <1>3 DEF UpkeepInv, UpkeepJobOK, UpkeepJobSeen
<1>5. areaJob[w].row \in {Upkeep!None} \cup Upkeep!Rows
  BY DEF UpkeepInv, UpkeepTypes, UpkeepJobs
<1>6. /\ work' \in [Orders -> WorkRow]
      /\ \A x \in Orders \ {o} : work'[x] = work[x]
      /\ work'[o].machine = areaJob[w].row /\ work'[o].order = work[o].order
      /\ work'[o].task = work[o].task /\ work'[o].here = work[o].here
  BY <1>2, <1>5 DEF UpkeepInv, UpkeepTypes, WorkRow
<1>7. UpkeepTypes'
  BY <1>2, <1>3, <1>6 DEF UpkeepInv, UpkeepTypes
<1>8. \A x \in Orders : Upkeep!Doing(x)' = Upkeep!Doing(x)
        /\ Upkeep!Open(x)' = Upkeep!Open(x) /\ work'[x].here = work[x].here
  BY <1>6 DEF Upkeep!Doing, Upkeep!Open
<1>9. UpkeepIdle'
  <2>1. Upkeep!Busy' = Upkeep!Busy
    BY <1>8 DEF Upkeep!Busy
  <2> QED  BY <1>2, <1>3, <1>4, <1>6, <1>8, <2>1 DEF UpkeepInv, UpkeepIdle, Upkeep!Active
<1>10. UpkeepPromised'
  <2>1. \A x : UpkeepComing(x) => UpkeepComing(x)'
    BY <1>2, <1>3 DEF UpkeepComing
  <2> QED  BY <1>3, <1>6, <2>1 DEF UpkeepInv, UpkeepPromised
<1>11. UpkeepFew'
  BY <1>2, <1>3 DEF UpkeepInv, UpkeepFew, Upkeep!Active
<1> QED  BY <1>3, <1>7, <1>9, <1>10, <1>11 DEF UpkeepInv

LEMMA UpkeepRestore ==
  ASSUME UpkeepInv, NEW what \in {"active", "production"}, Upkeep!Restore(what) PROVE UpkeepInv'
<1>1. /\ area' = [area EXCEPT ![what] = TRUE] /\ Upkeep!Forget /\ UNCHANGED << machines, work,
          areaPc, areaDrift >>
      /\ areaJob' = [v \in Workers |-> IF areaPc[v] =
           "libre" THEN Upkeep!NoJob ELSE [areaJob[v] EXCEPT !.late = TRUE]]
      /\ ~area[what]
  BY DEF Upkeep!Restore
<1>2. \A v \in Workers : UpkeepJobOK(v)' /\ areaJob'[v] \in UpkeepJobs
  <2> DEFINE nobody == CHOOSE x : x \notin Workers
  <2>1. nobody \notin Workers
    BY NoSetContainsEverything
  <2>2. UpkeepOthers(nobody)
    BY <1>1, <2>1, UpkeepNoJob DEF UpkeepOthers
  <2> QED  BY <2>1, <2>2, UpkeepOthersLate
<1>3. UpkeepTypes'
  <2>1. area' \in [active : BOOLEAN, production : BOOLEAN]
    BY <1>1 DEF UpkeepInv, UpkeepTypes
  <2>2. (cache = {} \/ \E a \in ViewRow : cache = {a})'
    BY <1>1, UpkeepForget DEF UpkeepInv
  <2>3. areaJob' \in [Workers -> UpkeepJobs]
    BY <1>1, <1>2
  <2> QED  BY <1>1, <2>1, <2>2, <2>3 DEF UpkeepInv, UpkeepTypes
<1>4. UpkeepIdle'
  <2>1. ~(area.active /\ area.production)
    BY <1>1 DEF UpkeepInv, UpkeepTypes
  <2> QED  BY <1>1, <2>1 DEF UpkeepInv, UpkeepIdle, Upkeep!Busy, Upkeep!Doing, Upkeep!Open,
              Upkeep!Active
<1>5. UpkeepPromised'
  <2>1. \A v \in Workers : areaPc[v] = "tarea" => areaJob'[v].on = areaJob[v].on
    BY <1>1, UpkeepLate DEF UpkeepInv, UpkeepTypes
  <2>2. \A o : UpkeepComing(o) => UpkeepComing(o)'
    BY <1>1, <2>1 DEF UpkeepComing
  <2> QED  BY <1>1, <2>2 DEF UpkeepInv, UpkeepPromised
<1>6. UpkeepFew'
  BY <1>1 DEF UpkeepInv, UpkeepFew, Upkeep!Active
<1> QED  BY <1>2, <1>3, <1>4, <1>5, <1>6 DEF UpkeepInv

LEMMA UpkeepOrderWrite ==
  ASSUME UpkeepInv, NEW w \in Workers, NEW here \in BOOLEAN,
         Upkeep!OrderWrite(w, here) PROVE UpkeepInv'
<1>1. PICK o \in Orders : o = areaJob[w].on
  BY DEF Upkeep!OrderWrite, UpkeepInv, UpkeepJobOK, UpkeepJobAsked
<1> DEFINE row == [Upkeep!NoOrder EXCEPT !.order = "abierto", !.here = here]
<1>2. row \in WorkRow /\ row.machine = Upkeep!None /\ row.order = "abierto" /\ row.task = "no hay"
  BY DEF WorkRow, Upkeep!NoOrder
<1>3. /\ areaPc[w] = "pedido" /\ UNCHANGED << area, machines, cache >>
      /\ work' = [work EXCEPT ![o] = row]
      /\ areaPc' = [areaPc EXCEPT ![w] = "tarea"]
      /\ areaJob' = [v \in Workers |-> IF areaPc[v] = "libre" \/ v = w THEN areaJob[v]
                                   ELSE [areaJob[v] EXCEPT !.late = TRUE]]
      /\ areaDrift' = areaDrift \cup (IF areaJob[w].late THEN {"solapadas"} ELSE {})
  BY <1>1 DEF Upkeep!OrderWrite, Upkeep!config, Upkeep!Late
<1> HIDE DEF row
<1>4. /\ work'[o] = row /\ \A x \in Orders \ {o} : work'[x] = work[x]
      /\ work' \in [Orders -> WorkRow]
  BY <1>2, <1>3 DEF UpkeepInv, UpkeepTypes
<1>5. UpkeepOthers(w)
  BY <1>3 DEF UpkeepOthers, UpkeepInv, UpkeepTypes
<1>6. \A v \in Workers \ {w} : UpkeepJobOK(v)' /\ areaJob'[v] \in UpkeepJobs
  BY <1>5, UpkeepOthersLate
<1>7. areaPc'[w] = "tarea" /\ areaJob'[w] = areaJob[w] /\ areaJob[w] \in UpkeepJobs
  BY <1>3 DEF UpkeepInv, UpkeepTypes
<1>8. UpkeepTypes'
  <2>1. areaJob' \in [Workers -> UpkeepJobs]
    <3>1. \A v \in Workers : areaJob'[v] \in UpkeepJobs
      BY <1>6, <1>7
    <3> QED  BY <1>3, <3>1
  <2>2. areaDrift' \subseteq Upkeep!Causes
    BY <1>3 DEF UpkeepInv, UpkeepTypes, Upkeep!Causes
  <2> QED  BY <1>3, <1>4, <2>1, <2>2 DEF UpkeepInv, UpkeepTypes
<1>9. /\ areaDrift \subseteq areaDrift' /\ ("solapadas" \notin areaDrift' => ~areaJob[w].late)
      /\ "vista" \in areaDrift' => "vista" \in areaDrift
  BY <1>3
<1>10. "vista" \notin areaDrift /\ ~areaJob[w].late => area.active /\ area.production
         /\ Upkeep!View = Upkeep!Now
  BY <1>3 DEF UpkeepInv, UpkeepJobOK, UpkeepJobSeen
<1>11. UpkeepJobOK(w)'
  <2>1. Upkeep!Now' = Upkeep!Now /\ Upkeep!View' = Upkeep!View
    BY <1>3 DEF Upkeep!Now, Upkeep!View, Upkeep!Active
  <2>2. work'[areaJob'[w].on].machine = Upkeep!None
    BY <1>1, <1>2, <1>4, <1>7
  <2>3. ~areaJob[w].late => UpkeepJobSeen(w)'
    BY <1>3, <1>7, <1>9, <1>10, <2>1, <2>2 DEF UpkeepJobSeen
  <2> QED  BY <1>1, <1>7, <2>3 DEF UpkeepJobOK, UpkeepJobAsked
<1>12. UpkeepIdle'
  <2> SUFFICES ASSUME areaDrift' \cap {"solapadas", "vista", "reabierto"} = {}
               PROVE  /\ area'.active /\ area'.production
                      /\ \A x \in Orders : Upkeep!Doing(x)' =>
                           work'[x].machine \in {Upkeep!None} \cup Upkeep!Active'
    BY DEF UpkeepIdle
  <2>1. area'.active /\ area'.production
    BY <1>3, <1>9, <1>10
  <2>2. \A x \in Orders : Upkeep!Doing(x) => work[x].machine \in {Upkeep!None} \cup Upkeep!Active
    BY <1>9 DEF UpkeepInv, UpkeepIdle
  <2> QED  BY <1>2, <1>3, <1>4, <2>1, <2>2 DEF Upkeep!Doing, Upkeep!Open, Upkeep!Active
<1>13. UpkeepPromised'
  <2>1. UpkeepComing(o)'
    BY <1>1, <1>7 DEF UpkeepComing
  <2>2. ASSUME NEW x, UpkeepComing(x) PROVE UpkeepComing(x)'
    <3>1. PICK v \in Workers : areaPc[v] = "tarea" /\ areaJob[v].on = x
      BY <2>2 DEF UpkeepComing
    <3>2. v # w /\ areaPc'[v] = "tarea" /\ areaJob[v] \in UpkeepJobs
      BY <1>3, <3>1 DEF UpkeepInv, UpkeepTypes
    <3>3. areaJob'[v].on = x
      BY <1>3, <3>1, <3>2, UpkeepLate
    <3> QED  BY <3>2, <3>3 DEF UpkeepComing
  <2>3. areaDrift' \cap {"solapadas", "vista", "caida"} = {} =>
          areaDrift \cap {"solapadas", "vista", "caida"} = {}
    BY <1>9
  <2> QED  BY <1>4, <2>1, <2>2, <2>3 DEF UpkeepInv, UpkeepPromised
<1>14. UpkeepFew'
  BY <1>3, <1>9 DEF UpkeepInv, UpkeepFew, Upkeep!Active
<1> QED  BY <1>6, <1>8, <1>11, <1>12, <1>13, <1>14 DEF UpkeepInv

LEMMA UpkeepCrash == ASSUME UpkeepInv, NEW w \in Workers, Upkeep!Crash(w) PROVE UpkeepInv'
<1>1. /\ areaPc' = [areaPc EXCEPT ![w] = "libre"] /\ areaJob' = [areaJob EXCEPT ![w] = Upkeep!NoJob]
      /\ areaDrift' = areaDrift \cup {"caida"} /\ UNCHANGED << area, machines, cache, work >>
  BY DEF Upkeep!Crash, Upkeep!config
<1>2. UpkeepTypes'
  BY <1>1, UpkeepNoJob DEF UpkeepInv, UpkeepTypes, Upkeep!Causes
<1>3. areaPc'[w] = "libre" /\ \A v \in Workers \ {w} : areaPc'[v] = areaPc[v]
        /\ areaJob'[v] = areaJob[v]
  BY <1>1 DEF UpkeepInv, UpkeepTypes
<1>4. UpkeepJobOK(w)'
  BY <1>3 DEF UpkeepJobOK, UpkeepJobAsked, UpkeepJobSeen
<1>5. \A v \in Workers \ {w} : UpkeepJobOK(v)'
  BY <1>1, <1>3, UpkeepJobKept
<1> QED  BY <1>1, <1>2, <1>4, <1>5, UpkeepSameWork DEF UpkeepInv, UpkeepPromised

(* What becomes of a task, or of its order, later.                          *)
LEMMA UpkeepMove ==
  ASSUME UpkeepInv, NEW o \in Orders, NEW row \in WorkRow, Upkeep!Move(o, row),
         areaDrift \subseteq areaDrift', areaDrift' \subseteq Upkeep!Causes,
           areaDrift' \subseteq areaDrift \cup {"reabierto"},
         row.machine = work[o].machine,
         row.order # "no hay" => work[o].order # "no hay",
         row.task = "no hay" => work[o].task = "no hay",
         \/ "reabierto" \in areaDrift'
         \/ /\ row.here = work[o].here
            /\ row.order = "abierto" => work[o].order = "abierto"
            /\ row.task = "sin terminar" => work[o].task = "sin terminar"
  PROVE  UpkeepInv'
<1>1. /\ work' = [work EXCEPT ![o] = row] /\ UNCHANGED << area, machines, cache, areaPc >>
      /\ areaJob' = [v \in Workers |-> IF areaPc[v] =
           "libre" THEN Upkeep!NoJob ELSE [areaJob[v] EXCEPT !.late = TRUE]]
  BY DEF Upkeep!Move, Upkeep!config
<1>2. \A v \in Workers : UpkeepJobOK(v)' /\ areaJob'[v] \in UpkeepJobs
  <2> DEFINE nobody == CHOOSE x : x \notin Workers
  <2>1. nobody \notin Workers
    BY NoSetContainsEverything
  <2>2. UpkeepOthers(nobody)
    BY <1>1, <2>1, UpkeepNoJob DEF UpkeepOthers
  <2> QED  BY <2>1, <2>2, UpkeepOthersLate
<1>3. /\ work'[o] = row /\ \A x \in Orders \ {o} : work'[x] = work[x]
      /\ work' \in [Orders -> WorkRow]
  BY <1>1 DEF UpkeepInv, UpkeepTypes
<1>4. UpkeepTypes'
  <2>1. areaJob' \in [Workers -> UpkeepJobs]
    BY <1>1, <1>2
  <2> QED  BY <1>1, <1>3, <2>1 DEF UpkeepInv, UpkeepTypes
<1>5. UpkeepIdle'
  <2> SUFFICES ASSUME "reabierto" \notin areaDrift' PROVE UpkeepIdle'
    BY DEF UpkeepIdle
  <2>1. \A x \in Orders : /\ Upkeep!Doing(x)' => Upkeep!Doing(x)
                              /\ work'[x].machine = work[x].machine
                          /\ Upkeep!Open(x)' => Upkeep!Open(x)
                          /\ work'[x].here = work[x].here
    BY <1>3 DEF Upkeep!Doing, Upkeep!Open
  <2>2. Upkeep!Busy' => Upkeep!Busy
    BY <2>1 DEF Upkeep!Busy
  <2> QED  BY <1>1, <2>1, <2>2 DEF UpkeepInv, UpkeepIdle, Upkeep!Active
<1>6. UpkeepPromised'
  <2>1. \A v \in Workers : areaPc[v] = "tarea" => areaJob'[v].on = areaJob[v].on
    BY <1>1, UpkeepLate DEF UpkeepInv, UpkeepTypes
  <2>2. \A x : UpkeepComing(x) => UpkeepComing(x)'
    BY <1>1, <2>1 DEF UpkeepComing
  <2> QED  BY <1>1, <1>3, <2>2 DEF UpkeepInv, UpkeepPromised
<1>7. UpkeepFew'
  BY <1>1 DEF UpkeepInv, UpkeepFew, Upkeep!Active
<1> QED  BY <1>2, <1>4, <1>5, <1>6, <1>7 DEF UpkeepInv

LEMMA UpkeepFinish == ASSUME UpkeepInv, NEW o \in Orders, Upkeep!Finish(o) PROVE UpkeepInv'
<1> DEFINE row == [work[o] EXCEPT !.task = "terminada"]
<1>1. /\ row \in WorkRow /\ row.machine = work[o].machine /\ row.order = work[o].order
      /\ row.here = work[o].here /\ row.task = "terminada"
  BY DEF UpkeepInv, UpkeepTypes, WorkRow
<1>2. Upkeep!Move(o, row) /\ areaDrift' = areaDrift /\ areaDrift \subseteq Upkeep!Causes
  BY DEF Upkeep!Finish, UpkeepInv, UpkeepTypes
<1> HIDE DEF row
<1> QED  BY <1>1, <1>2, UpkeepMove

LEMMA UpkeepClose == ASSUME UpkeepInv, NEW o \in Orders, Upkeep!Close(o) PROVE UpkeepInv'
<1> DEFINE row == [work[o] EXCEPT !.order = "cerrado"]
<1>1. /\ row \in WorkRow /\ row.machine = work[o].machine /\ row.order = "cerrado"
      /\ row.here = work[o].here /\ row.task = work[o].task
  BY DEF UpkeepInv, UpkeepTypes, WorkRow
<1>2. /\ Upkeep!Move(o, row) /\ areaDrift' = areaDrift /\ areaDrift \subseteq Upkeep!Causes
      /\ work[o].order # "no hay"
  BY DEF Upkeep!Close, Upkeep!Open, UpkeepInv, UpkeepTypes
<1> HIDE DEF row
<1> QED  BY <1>1, <1>2, UpkeepMove

LEMMA UpkeepReopen == ASSUME UpkeepInv, NEW o \in Orders, Upkeep!Reopen(o) PROVE UpkeepInv'
<1>1. areaDrift' = areaDrift \cup {"reabierto"} /\ areaDrift' \subseteq Upkeep!Causes
  BY DEF Upkeep!Reopen, UpkeepInv, UpkeepTypes, Upkeep!Causes
<1>2. CASE work[o].task = "terminada" /\ Upkeep!Move(o, [work[o] EXCEPT !.task = "sin terminar"])
  <2> DEFINE row == [work[o] EXCEPT !.task = "sin terminar"]
  <2>1. /\ row \in WorkRow /\ row.machine = work[o].machine /\ row.order = work[o].order
        /\ row.task = "sin terminar"
    BY DEF UpkeepInv, UpkeepTypes, WorkRow
  <2>2. Upkeep!Move(o, row)
    BY <1>2
  <2> HIDE DEF row
  <2> QED  BY <1>1, <2>1, <2>2, UpkeepMove
<1>3. CASE work[o].order = "cerrado" /\ Upkeep!Move(o, [work[o] EXCEPT !.order = "abierto"])
  <2> DEFINE row == [work[o] EXCEPT !.order = "abierto"]
  <2>1. /\ row \in WorkRow /\ row.machine = work[o].machine /\ row.order = "abierto"
        /\ row.task = work[o].task
    BY DEF UpkeepInv, UpkeepTypes, WorkRow
  <2>2. Upkeep!Move(o, row) /\ work[o].order # "no hay"
    BY <1>3
  <2> HIDE DEF row
  <2> QED  BY <1>1, <2>1, <2>2, UpkeepMove
<1> QED  BY <1>2, <1>3 DEF Upkeep!Reopen

-----------------------------------------------------------------------------
(* The rows that setMachines leaves: those kept, and a new one for each new *)
(* name.                                                                    *)
LEMMA UpkeepRanks ==
  ASSUME NEW new, IsFiniteSet(new)
  PROVE  /\ Upkeep!Rank(new) \in [new -> 1..Cardinality(new)]
         /\ \A a, b \in new : a # b => Upkeep!Rank(new)[a] # Upkeep!Rank(new)[b]
         /\ \A k \in 1..Cardinality(new) : \E x \in new : Upkeep!Rank(new)[x] = k
<1> DEFINE n == Cardinality(new)
<1>1. n \in Nat /\ IsFiniteSet(1..n) /\ Cardinality(1..n) = n
  BY FS_CardinalityType, FS_Interval
<1>2. ExistsBijection(new, 1..n)
  BY <1>1, FS_SameCardinalityBij
<1>3. PICK f \in Bijection(new, 1..n) : TRUE
  BY <1>2 DEF ExistsBijection
<1>4. f \in [new -> 1..n] /\ \A a, b \in new : a # b => f[a] # f[b]
  BY <1>3 DEF Bijection, Injection, IsInjective
<1>5. Upkeep!Rank(new) \in [new -> 1..n] /\ \A a, b \in new : a # b =>
        Upkeep!Rank(new)[a] # Upkeep!Rank(new)[b]
  BY OfficeCardinality, <1>4 DEF Upkeep!Rank
<1>6. Upkeep!Rank(new) \in Injection(new, 1..n)
  BY <1>5 DEF Injection, IsInjective
<1>7. Upkeep!Rank(new) \in Surjection(new, 1..n)
  BY <1>1, <1>6, FS_Injection
<1>8. \A k \in 1..n : \E x \in new : Upkeep!Rank(new)[x] = k
  BY <1>7 DEF Surjection
<1> QED  BY <1>5, <1>8

LEMMA UpkeepSameInterval == ASSUME NEW a \in Nat, NEW b \in Nat, 1..a = 1..b PROVE a = b
<1>1. a > b => a \in 1..a /\ a \notin 1..b
  OBVIOUS
<1>2. b > a => b \in 1..b /\ b \notin 1..a
  OBVIOUS
<1> QED  BY <1>1, <1>2

LEMMA UpkeepMachinesWrite ==
  ASSUME UpkeepInv, NEW w \in Workers, Upkeep!MachinesWrite(w) PROVE UpkeepInv'
<1>a. PICK new \in SUBSET Names, keep \in KeepMap, rows \in SUBSET Upkeep!Rows :
        new = areaJob[w].fresh /\ keep = areaJob[w].keep /\ rows = areaJob[w].rows
  BY DEF UpkeepInv, UpkeepTypes, UpkeepJobs
<1>b. IsFiniteSet(new) /\ Cardinality(new) \in Nat
  BY UpkeepAssumption, FS_Subset, FS_CardinalityType
<1>c. PICK n \in Nat, c \in Nat : n = Len(machines) /\ c = Cardinality(new)
  BY <1>b, UpkeepView DEF UpkeepInv
<1> DEFINE Name(m) == CHOOSE x \in new : Upkeep!Rank(new)[x] = m - n
           Row(m) == IF m > n THEN [name |-> Name(m), active |-> TRUE]
                     ELSE [name |-> IF m \in DOMAIN keep THEN keep[m] ELSE machines[m].name,
                           active |-> machines[m].active /\ m \notin rows]
<1>1. /\ areaPc[w] = "maquinas" /\ Upkeep!Written(w) /\ Upkeep!Forget /\ UNCHANGED << area, work >>
      /\ n + c <= MaxRows
      /\ machines' = [m \in 1..(n + c) |-> Row(m)]
  BY OfficeCardinality, <1>a, <1>c DEF Upkeep!MachinesWrite
<1>4. /\ DOMAIN machines = 1..n /\ \A m \in 1..n : machines[m] \in UpkeepMachineRow
      /\ IsFiniteSet(Upkeep!Active) /\ Upkeep!Active \subseteq 1..n
  BY <1>c, UpkeepView DEF UpkeepInv, Upkeep!Active
<1>5. ASSUME NEW m \in (n + 1)..(n + c) PROVE Name(m) \in new /\ Upkeep!Rank(new)[Name(m)] = m - n
  <2>1. m - n \in 1..c
    OBVIOUS
  <2>2. \E x \in new : Upkeep!Rank(new)[x] = m - n
    BY <1>b, <1>c, <2>1, UpkeepRanks
  <2> QED  BY <2>2
<1>6. \A m \in DOMAIN keep : keep[m] \in Names
  BY DEF KeepMap
<1> HIDE DEF Name
<1>7. \A m \in 1..(n + c) : Row(m) \in UpkeepMachineRow
  <2> TAKE m \in 1..(n + c)
  <2>1. CASE m > n
    BY <1>4, <1>5, <2>1 DEF UpkeepMachineRow
  <2>2. CASE ~(m > n)
    <3>1. m \in 1..n
      BY <1>4, <2>2
    <3>2. (IF m \in DOMAIN keep THEN keep[m] ELSE machines[m].name) \in Names
      BY <1>4, <1>6, <3>1 DEF UpkeepMachineRow
    <3>3. (machines[m].active /\ m \notin rows) \in BOOLEAN
      OBVIOUS
    <3> QED  BY <2>2, <3>2, <3>3 DEF UpkeepMachineRow
  <2> QED  BY <2>1, <2>2
<1>8. /\ machines' \in [1..(n + c) -> UpkeepMachineRow]
      /\ \A m \in 1..(n + c) : machines'[m] = Row(m)
  BY <1>1, <1>7
<1>9. machines' \in Seq(UpkeepMachineRow) /\ Len(machines') = n + c
  <2>1. machines' \in Seq(UpkeepMachineRow)
    <3>1. n + c \in Nat
      BY <1>4
    <3> QED  BY <1>8, <3>1, SeqDef
  <2>2. Len(machines') \in Nat /\ DOMAIN machines' = 1..Len(machines')
          /\ DOMAIN machines' = 1..(n + c)
    BY <1>8, <2>1, LenProperties
  <2>3. Len(machines') = n + c
    <3>1. n + c \in Nat
      OBVIOUS
    <3>2. Len(machines') \in Nat /\ 1..Len(machines') = 1..(n + c)
      BY <2>2, Zenon
    <3> QED  BY <3>1, <3>2, UpkeepSameInterval
  <2> QED  BY <2>1, <2>3
<1>10. /\ areaPc' \in [Workers -> {"libre", "retira", "maquinas", "pedido", "tarea", "asigna"}]
       /\ areaJob' \in [Workers -> UpkeepJobs]
       /\ \A v \in Workers : UpkeepJobOK(v)'
       /\ \A v \in Workers \ {w} : areaPc[v] = "tarea" => areaPc'[v] = "tarea"
            /\ areaJob'[v].on = areaJob[v].on
       /\ areaDrift \subseteq areaDrift' /\ areaDrift' \subseteq Upkeep!Causes
       /\ "solapadas" \notin areaDrift' => ~areaJob[w].late
  BY <1>1, UpkeepWritten
<1>11. UpkeepTypes'
  <2>1. (cache = {} \/ \E a \in ViewRow : cache = {a})'
    BY <1>1, UpkeepForget DEF UpkeepInv
  <2> QED  BY <1>1, <1>9, <1>10, <2>1 DEF UpkeepInv, UpkeepTypes
<1>12. "solapadas" \notin areaDrift' =>
         /\ DOMAIN keep \subseteq Upkeep!Active /\ rows = Upkeep!Active \ DOMAIN keep
         /\ Upkeep!Valid(keep, new) /\ \A m \in rows : ~Upkeep!Uses(m)
  BY <1>a, <1>1, <1>10 DEF UpkeepInv, UpkeepJobOK, UpkeepJobSeen
<1>13. "solapadas" \notin areaDrift' => Upkeep!Active' = DOMAIN keep \cup (n + 1)..(n + c)
  <2> SUFFICES ASSUME "solapadas" \notin areaDrift' PROVE Upkeep!Active' = DOMAIN keep \cup
                        (n + 1)..(n + c)
    OBVIOUS
  <2>1. \A m \in 1..(n + c) : m \in Upkeep!Active' <=> m \in DOMAIN keep \/ m > n
    <3> TAKE m \in 1..(n + c)
    <3>1. m \in Upkeep!Active' <=> Row(m).active
      BY <1>8 DEF Upkeep!Active
    <3>2. CASE m > n
      BY <3>1, <3>2
    <3>3. CASE ~(m > n)
      <4>1. m \in 1..n
        BY <1>4, <3>3
      <4>2. m \in Upkeep!Active <=> machines[m].active
        BY <1>4, <4>1 DEF Upkeep!Active
      <4> QED  BY <1>12, <3>1, <3>3, <4>2
    <3> QED  BY <3>2, <3>3
  <2>2. Upkeep!Active' \subseteq 1..(n + c) /\ DOMAIN keep \subseteq 1..n
    BY <1>4, <1>8, <1>12 DEF Upkeep!Active
  <2>3. ASSUME NEW m PROVE m \in Upkeep!Active' <=> m \in DOMAIN keep \/ m \in (n + 1)..(n + c)
    <3>1. CASE m \in 1..(n + c)
      <4>1. m > n <=> m \in (n + 1)..(n + c)
        BY <3>1
      <4> QED  BY <2>1, <3>1, <4>1
    <3>2. CASE m \notin 1..(n + c)
      <4>1. 1..n \subseteq 1..(n + c) /\ (n + 1)..(n + c) \subseteq 1..(n + c)
        OBVIOUS
      <4> QED  BY <2>2, <3>2, <4>1
    <3> QED  BY <3>1, <3>2
  <2> QED  BY <2>3
<1>14. UpkeepIdle'
  <2> SUFFICES ASSUME areaDrift' \cap {"solapadas", "vista", "reabierto"} = {} PROVE UpkeepIdle'
    BY DEF UpkeepIdle
  <2>1. areaDrift \cap {"solapadas", "vista", "reabierto"} = {}
    BY <1>10
  <2>2. Upkeep!Busy' = Upkeep!Busy /\ \A o : Upkeep!Doing(o)' = Upkeep!Doing(o)
    BY <1>1 DEF Upkeep!Busy, Upkeep!Doing, Upkeep!Open
  <2>3. ASSUME NEW o \in Orders, Upkeep!Doing(o) PROVE work[o].machine \in {Upkeep!None} \cup
               Upkeep!Active'
    <3>1. work[o].machine \in {Upkeep!None} \cup Upkeep!Active
      BY <2>1, <2>3 DEF UpkeepInv, UpkeepIdle
    <3>2. work[o].machine \notin rows
      BY <1>12, <2>3 DEF Upkeep!Uses
    <3> QED  BY <1>12, <1>13, <3>1, <3>2
  <2> QED  BY <1>1, <2>1, <2>2, <2>3 DEF UpkeepInv, UpkeepIdle
<1>15. UpkeepPromised'
  <2>1. \A o : UpkeepComing(o) => UpkeepComing(o)'
    BY <1>1, <1>10 DEF UpkeepComing
  <2> QED  BY <1>1, <1>10, <2>1 DEF UpkeepInv, UpkeepPromised
<1>16. UpkeepFew'
  <2> SUFFICES ASSUME "solapadas" \notin areaDrift'
               PROVE  /\ Cardinality(Upkeep!Active') <= MaxMachines
                      /\ \A a, b \in Upkeep!Active' : a # b => machines'[a].name # machines'[b].name
    BY DEF UpkeepFew
  <2>1. Cardinality(Upkeep!Active') <= MaxMachines
    <3>1. IsFiniteSet(DOMAIN keep) /\ Cardinality(DOMAIN keep) \in Nat
      BY <1>4, <1>12, FS_Subset, FS_CardinalityType
    <3>2. IsFiniteSet((n + 1)..(n + c)) /\ Cardinality((n + 1)..(n + c)) = c
      <4>1. n + 1 \in Int /\ n + c \in Int /\ (n + 1 > n + c <=> c = 0) /\ n + c - (n + 1) + 1 = c
        BY <1>4
      <4> QED  BY <4>1, FS_Interval
    <3>3. DOMAIN keep \cap (n + 1)..(n + c) = {}
      BY <1>4, <1>12
    <3>4. Cardinality(Upkeep!Active') = Cardinality(DOMAIN keep) + c
      <4>1. Cardinality(DOMAIN keep \cup (n + 1)..(n + c))
              = Cardinality(DOMAIN keep) + c - Cardinality(DOMAIN keep \cap (n + 1)..(n + c))
        BY <3>1, <3>2, FS_Union
      <4>2. Cardinality(DOMAIN keep \cap (n + 1)..(n + c)) = 0
        BY <3>3, FS_EmptySet
      <4>3. Cardinality(DOMAIN keep \cup (n + 1)..(n + c)) = Cardinality(DOMAIN keep) + c
        BY <1>4, <3>1, <4>1, <4>2
      <4> QED  BY <1>13, <4>3
    <3> QED  BY OfficeCardinality, <1>12, <1>c, <3>4 DEF Upkeep!Valid
  <2>2. ASSUME NEW a \in Upkeep!Active', NEW b \in Upkeep!Active',
               a # b PROVE machines'[a].name # machines'[b].name
    <3>1. /\ a \in DOMAIN keep \cup (n + 1)..(n + c) /\ b \in DOMAIN keep \cup (n + 1)..(n + c)
          /\ DOMAIN keep \subseteq 1..n
      BY <1>4, <1>12, <1>13
    <3>2. /\ a \in DOMAIN keep => machines'[a].name = keep[a]
          /\ b \in DOMAIN keep => machines'[b].name = keep[b]
      BY <1>4, <1>8, <3>1
    <3>3. /\ a \in (n + 1)..(n + c) => machines'[a].name = Name(a)
          /\ b \in (n + 1)..(n + c) => machines'[b].name = Name(b)
      BY <1>4, <1>8
    <3>4. CASE a \in DOMAIN keep /\ b \in DOMAIN keep
      BY <1>12, <2>2, <3>2, <3>4 DEF Upkeep!Valid
    <3>5. CASE a \in DOMAIN keep /\ b \in (n + 1)..(n + c)
      BY <1>5, <1>12, <3>2, <3>3, <3>5 DEF Upkeep!Valid
    <3>6. CASE a \in (n + 1)..(n + c) /\ b \in DOMAIN keep
      BY <1>5, <1>12, <3>2, <3>3, <3>6 DEF Upkeep!Valid
    <3>7. CASE a \in (n + 1)..(n + c) /\ b \in (n + 1)..(n + c)
      <4>1. Upkeep!Rank(new)[Name(a)] = a - n /\ Upkeep!Rank(new)[Name(b)] = b - n
        BY <1>5, <3>7
      <4>2. a - n # b - n
        BY <1>4, <2>2, <3>7
      <4> QED  BY <3>3, <3>7, <4>1, <4>2
    <3> QED  BY <3>1, <3>4, <3>5, <3>6, <3>7
  <2> QED  BY <2>1, <2>2
<1> QED  BY <1>10, <1>11, <1>14, <1>15, <1>16 DEF UpkeepInv

LEMMA UpkeepInvStep == UpkeepInv /\ Upkeep!Next => UpkeepInv'
<1> SUFFICES ASSUME UpkeepInv, Upkeep!Next PROVE UpkeepInv'
  OBVIOUS
<1>1. CASE \E what \in {"active", "production"} :
             Upkeep!Restore(what) \/ \E w \in Workers : Upkeep!RetireRead(w, what)
  BY <1>1, UpkeepRestore, UpkeepRetireRead
<1>2. CASE \E w \in Workers, k \in Upkeep!Keeps, f \in SUBSET Names : Upkeep!MachinesRead(w, k, f)
  BY <1>2, UpkeepMachinesRead
<1>3. ASSUME NEW w \in Workers,
             \/ Upkeep!RetireWrite(w) \/ Upkeep!MachinesWrite(w) \/ Upkeep!TaskWrite(w)
                  \/ Upkeep!AssignWrite(w) \/ Upkeep!Crash(w)
             \/ \E here \in BOOLEAN : Upkeep!OrderWrite(w, here)
      PROVE  UpkeepInv'
  BY <1>3, UpkeepRetireWrite, UpkeepMachinesWrite, UpkeepTaskWrite, UpkeepAssignWrite,
     UpkeepCrash, UpkeepOrderWrite
<1>4. ASSUME NEW w \in Workers, NEW o \in Orders,
             Upkeep!OrderRead(w, o) \/ \E m \in {Upkeep!None} \cup
               Upkeep!Rows : Upkeep!AssignRead(w, o, m)
      PROVE  UpkeepInv'
  BY <1>4, UpkeepOrderRead, UpkeepAssignRead
<1>5. CASE \E o \in Orders : Upkeep!Finish(o) \/ Upkeep!Close(o) \/ Upkeep!Reopen(o)
  BY <1>5, UpkeepFinish, UpkeepClose, UpkeepReopen
<1>6. ASSUME NEW w \in Workers,
             \/ Upkeep!RetireWrite(w) \/ Upkeep!MachinesWrite(w) \/ Upkeep!TaskWrite(w) \/
                  Upkeep!AssignWrite(w) \/ Upkeep!Crash(w)
             \/ \E here \in BOOLEAN : Upkeep!OrderWrite(w, here)
             \/ \E o \in Orders : Upkeep!OrderRead(w, o) \/ \E m \in {Upkeep!None} \cup
                  Upkeep!Rows : Upkeep!AssignRead(w, o, m)
      PROVE  UpkeepInv'
  BY <1>3, <1>4, <1>6
<1>7. CASE \E w \in Workers :
             \/ Upkeep!RetireWrite(w) \/ Upkeep!MachinesWrite(w) \/ Upkeep!TaskWrite(w)
                  \/ Upkeep!AssignWrite(w) \/ Upkeep!Crash(w)
             \/ \E here \in BOOLEAN : Upkeep!OrderWrite(w, here)
             \/ \E o \in Orders : Upkeep!OrderRead(w, o) \/ \E m \in {Upkeep!None} \cup
                  Upkeep!Rows : Upkeep!AssignRead(w, o, m)
  BY <1>6, <1>7
<1> QED  BY <1>1, <1>2, <1>5, <1>7, UpkeepExpire DEF Upkeep!Next

LEMMA UpkeepInvKept == UpkeepInv /\ UNCHANGED Upkeep!vars => UpkeepInv'
<1> SUFFICES ASSUME UpkeepInv, UNCHANGED Upkeep!vars PROVE UpkeepInv'
  OBVIOUS
<1>1. UNCHANGED << area, machines, cache, work, areaPc, areaJob, areaDrift >>
  BY DEF Upkeep!vars
<1>2. UpkeepTypes'
  BY <1>1 DEF UpkeepInv, UpkeepTypes
<1>3. \A v \in Workers : UpkeepJobOK(v)'
  BY <1>1, UpkeepJobKept
<1>4. UpkeepPromised'
  BY <1>1 DEF UpkeepInv, UpkeepPromised, UpkeepComing
<1> QED  BY <1>1, <1>2, <1>3, <1>4, UpkeepSameWork DEF UpkeepInv

-----------------------------------------------------------------------------
(* Accounts.                                                                *)

AccountRows == [roles : SUBSET Roles, areas : SUBSET Areas, branch : People!Branches]

AccountJobs == [user : Users \cup {People!Nobody}, roles : {People!Same} \cup SUBSET Roles,
                areas : {People!Same} \cup SUBSET Areas, branch : {People!Same} \cup
                  People!Branches,
                late : BOOLEAN]

(* The account has access, or something took it.                            *)
AccountHasAccess(u) ==
  /\ \/ account[u].roles # {} \/ account[u].areas # {}
     \/ accountDrift[u] \cap {"solapadas", "rol borrado"} # {}
  /\ \/ People!BranchRole \notin account[u].roles \/ account[u].branch # {}
     \/ accountDrift[u] \cap {"solapadas", "desvinculada"} # {}

(* What a request found out before it writes still holds, unless another    *)
(* one wrote about the account or a role was deleted.                       *)
AccountJobOK(w) ==
  LET j == accountJob[w] IN
  /\ (accountPc[w] = "libre") = (j = People!NoJob)
  /\ accountPc[w] # "libre" => j.user \in Users /\ (~j.late => j.user \in live)
  /\ accountPc[w] = "edita" /\ ~j.late =>
       /\ People!KeepsSome(j.user, j.roles, j.areas) \/ "rol borrado" \in accountDrift[j.user]
       /\ j.roles # People!Same =>
            People!BranchGiven(j.roles, People!Given(j.branch, account[j.user].branch))
  /\ accountPc[w] = "borra" /\ ~j.late => j.user \notin taken.branch

AccountTypes ==
  /\ live \subseteq Users
  /\ account \in [Users -> AccountRows]
  /\ \A u \in Users \ live : account[u] = People!Gone
  /\ role \subseteq Roles /\ assignable \subseteq Areas /\ open \in BOOLEAN
  /\ token \in [Users -> {People!NoToken, "de la casa", "sucursal", "solo sucursal"}]
  /\ taken \in [house : SUBSET live, branch : SUBSET live]
  /\ accountPc \in [Workers -> {"libre", "edita", "borra"}]
  /\ accountJob \in [Workers -> AccountJobs]
  /\ accountDrift \in [Users -> SUBSET People!Causes]
  /\ lost \subseteq Users

AccountInv ==
  /\ AccountTypes
  /\ \A w \in Workers : AccountJobOK(w)
  /\ \A u \in live : AccountHasAccess(u)
  /\ \A u \in lost : "solapadas" \in accountDrift[u]

LEMMA AccountNoJob ==
  People!NoJob \in AccountJobs /\ People!NoJob.user = People!Nobody /\ ~People!NoJob.late
    /\ People!Gone \in AccountRows
BY DEF People!NoJob, AccountJobs, People!Gone, AccountRows, People!Branches

LEMMA AccountInvSafe == AccountInv => People!TypeOK /\ People!AccountsKeepAccess
BY DEF AccountInv, AccountTypes, AccountJobOK, AccountHasAccess, People!TypeOK,
   People!AccountsKeepAccess, AccountRows

LEMMA AccountInvInit == People!Init => AccountInv
<1> SUFFICES ASSUME People!Init PROVE AccountInv
  OBVIOUS
<1>1. AccountTypes
  BY AccountNoJob DEF People!Init, AccountTypes
<1>2. \A w \in Workers : AccountJobOK(w)
  BY DEF People!Init, AccountJobOK
<1> QED  BY <1>1, <1>2 DEF People!Init, AccountInv

(* A step leaves an account as a request about it has read it.              *)
AccountAsRead(u) ==
  /\ u \in live'
  /\ account'[u].roles = account[u].roles \/ "rol borrado" \in accountDrift'[u]
  /\ account'[u].areas = account[u].areas /\ account'[u].branch = account[u].branch
  /\ accountDrift[u] \subseteq accountDrift'[u]
  /\ u \in taken'.branch => u \in taken.branch

LEMMA AccountLateJob ==
  ASSUME NEW j \in AccountJobs, NEW L \in BOOLEAN
  PROVE  /\ [j EXCEPT !.late = @ \/ L] = IF L THEN [j EXCEPT !.late = TRUE] ELSE j
         /\ [j EXCEPT !.late = TRUE] \in AccountJobs
<1>1. CASE L
  BY <1>1 DEF AccountJobs
<1>2. CASE ~L
  BY <1>2 DEF AccountJobs
<1> QED  BY <1>1, <1>2

(* A request that is not late keeps what it found out.                      *)
LEMMA AccountJobKept ==
  ASSUME AccountInv, NEW w \in Workers, accountPc'[w] = accountPc[w],
         accountJob'[w] = accountJob[w] \/ (accountPc[w] # "libre" /\ accountJob'[w] =
           [accountJob[w] EXCEPT !.late = TRUE]),
         accountPc[w] # "libre" /\ accountJob'[w] = accountJob[w] /\ ~accountJob[w].late =>
           AccountAsRead(accountJob[w].user)
  PROVE  AccountJobOK(w)'
<1>1. /\ accountJob'[w].user = accountJob[w].user /\ accountJob'[w].roles = accountJob[w].roles
      /\ accountJob'[w].areas = accountJob[w].areas /\ accountJob'[w].branch = accountJob[w].branch
      /\ ~accountJob'[w].late => ~accountJob[w].late /\ accountJob'[w] = accountJob[w]
  BY DEF AccountInv, AccountTypes, AccountJobs
<1>2. accountJob'[w] = People!NoJob <=> accountJob[w] = People!NoJob
  BY <1>1, AccountNoJob, AccountAssumption DEF AccountInv, AccountJobOK
<1>3. (accountPc'[w] = "libre") = (accountJob'[w] = People!NoJob)
  BY <1>2 DEF AccountInv, AccountJobOK
<1>4. accountPc[w] # "libre" /\ ~accountJob'[w].late => AccountAsRead(accountJob[w].user)
  BY <1>1
<1>5. ASSUME accountPc[w] = "edita", ~accountJob'[w].late
      PROVE  /\ \/ People!KeepsSome(accountJob[w].user, accountJob[w].roles, accountJob[w].areas)'
                \/ "rol borrado" \in accountDrift'[accountJob[w].user]
             /\ accountJob[w].roles # People!Same =>
                  People!BranchGiven(accountJob[w].roles, People!Given(accountJob[w].branch,
                    account'[accountJob[w].user].branch))
  BY <1>1, <1>4, <1>5 DEF AccountInv, AccountJobOK, People!KeepsSome, People!Given, AccountAsRead
<1> QED
  BY <1>1, <1>3, <1>4, <1>5
  DEF AccountInv, AccountJobOK, People!KeepsSome, People!BranchGiven, People!Given, AccountAsRead

(* Accounts that a step leaves alone, or takes roles from.                  *)
LEMMA AccountAccessKept ==
  ASSUME NEW u, AccountHasAccess(u), account'[u] = account[u],
         accountDrift[u] \subseteq accountDrift'[u]
  PROVE  AccountHasAccess(u)'
BY DEF AccountHasAccess

LEMMA AccountCreate ==
  ASSUME AccountInv, NEW u \in Users, NEW r \in SUBSET Roles, NEW a \in SUBSET Areas,
         NEW b \in People!Branches, People!Create(u, r, a, b)
  PROVE  AccountInv'
<1> DEFINE row == [roles |-> r, areas |-> a, branch |-> b]
<1>1. /\ u \notin live /\ live' = live \cup {u} /\ account' = [account EXCEPT ![u] = row]
      /\ (r # {} \/ a # {}) /\ People!BranchGiven(r, b)
      /\ UNCHANGED << role, assignable, open, token, taken, accountPc, accountJob,
           accountDrift, lost >>
  BY DEF People!Create, People!world
<1>2. row \in AccountRows /\ row.roles = r /\ row.areas = a /\ row.branch = b
  BY DEF AccountRows
<1> HIDE DEF row
<1>3. account'[u] = row /\ \A x \in Users \ {u} : account'[x] = account[x]
  BY <1>1 DEF AccountInv, AccountTypes
<1>4. AccountTypes'
  BY <1>1, <1>2, <1>3 DEF AccountInv, AccountTypes
<1>5. ASSUME NEW w \in Workers PROVE AccountJobOK(w)'
  <2>1. ASSUME accountPc[w] # "libre", ~accountJob[w].late PROVE AccountAsRead(accountJob[w].user)
    <3>1. PICK x \in Users : x = accountJob[w].user
      BY <2>1 DEF AccountInv, AccountJobOK
    <3>2. x \in live /\ x # u
      BY <1>1, <2>1, <3>1 DEF AccountInv, AccountJobOK
    <3>3. account'[x] = account[x] /\ x \in live' /\ UNCHANGED << accountDrift, taken >>
      BY <1>1, <1>3, <3>2
    <3> QED  BY <3>1, <3>3 DEF AccountAsRead
  <2> QED  BY <1>1, <2>1, AccountJobKept
<1>6. AccountHasAccess(u)'
  BY <1>1, <1>2, <1>3 DEF AccountHasAccess, People!BranchGiven, People!Create
<1>7. \A x \in live : AccountHasAccess(x)'
  BY <1>1, <1>3, AccountAccessKept DEF AccountInv, AccountTypes
<1> QED  BY <1>1, <1>4, <1>5, <1>6, <1>7 DEF AccountInv

(* A request that begins about an account.                                  *)
LEMMA AccountBegin ==
  ASSUME AccountInv, NEW w \in Workers, NEW where \in {"edita", "borra"}, NEW j \in AccountJobs,
         People!Begin(w, where, j), UNCHANGED << live, account, role, assignable, open, token,
           taken, accountDrift, lost >>,
         j.user \in live, ~j.late,
         where = "edita" =>
           /\ People!KeepsSome(j.user, j.roles, j.areas)
           /\ j.roles # People!Same =>
                People!BranchGiven(j.roles, People!Given(j.branch, account[j.user].branch)),
         where = "borra" => j.user \notin taken.branch
  PROVE  AccountInv'
<1>1. accountPc' = [accountPc EXCEPT ![w] = where] /\ accountJob' = [accountJob EXCEPT ![w] = j]
  BY DEF People!Begin
<1>2. AccountTypes'
  BY <1>1 DEF AccountInv, AccountTypes
<1>3. j # People!NoJob /\ j.user \in Users
  BY AccountNoJob, AccountAssumption DEF AccountInv, AccountTypes
<1>4. accountPc'[w] = where /\ accountJob'[w] = j
  BY <1>1 DEF AccountInv, AccountTypes
<1>5. AccountJobOK(w)'
  BY <1>3, <1>4 DEF AccountJobOK, People!KeepsSome, People!BranchGiven, People!Given
<1>6. ASSUME NEW v \in Workers \ {w} PROVE AccountJobOK(v)'
  <2>1. accountPc'[v] = accountPc[v] /\ accountJob'[v] = accountJob[v]
    BY <1>1 DEF AccountInv, AccountTypes
  <2>2. accountPc[v] # "libre" /\ ~accountJob[v].late => AccountAsRead(accountJob[v].user)
    BY DEF AccountInv, AccountJobOK, AccountAsRead
  <2> QED  BY <2>1, <2>2, AccountJobKept
<1> QED  BY <1>2, <1>5, <1>6, AccountAccessKept DEF AccountInv

LEMMA AccountUpdateRead ==
  ASSUME AccountInv, NEW w \in Workers, NEW u \in Users, NEW r \in {People!Same} \cup SUBSET Roles,
         NEW a \in {People!Same} \cup SUBSET Areas, NEW b \in {People!Same} \cup People!Branches,
         People!UpdateRead(w, u, r, a, b)
  PROVE  AccountInv'
<1> DEFINE j == [People!NoJob EXCEPT !.user = u, !.roles = r, !.areas = a, !.branch = b]
<1>1. /\ j \in AccountJobs /\ j.user = u /\ j.roles = r /\ j.areas = a /\ j.branch = b /\ ~j.late
  BY AccountNoJob DEF AccountJobs
<1>2. /\ u \in live /\ People!Begin(w, "edita", j) /\ People!KeepsSome(u, r, a)
      /\ r # People!Same => People!BranchGiven(r, People!Given(b, account[u].branch))
      /\ UNCHANGED << live, account, role, assignable, open, token, taken, accountDrift, lost >>
  BY DEF People!UpdateRead, People!world
<1> HIDE DEF j
<1> QED  BY <1>1, <1>2, AccountBegin

LEMMA AccountRemoveRead ==
  ASSUME AccountInv, NEW w \in Workers, NEW u \in Users, People!RemoveRead(w, u) PROVE AccountInv'
<1> DEFINE j == [People!NoJob EXCEPT !.user = u]
<1>1. j \in AccountJobs /\ j.user = u /\ ~j.late
  BY AccountNoJob DEF AccountJobs
<1>2. /\ u \in live /\ People!Begin(w, "borra", j) /\ u \notin taken.branch
      /\ UNCHANGED << live, account, role, assignable, open, token, taken, accountDrift, lost >>
  BY DEF People!RemoveRead, People!world, People!Removable
<1> HIDE DEF j
<1> QED  BY <1>1, <1>2, AccountBegin

(* A request that ends: the others about its account are late.              *)
LEMMA AccountEnd ==
  ASSUME AccountInv, NEW w \in Workers, accountPc[w] # "libre", People!End(w),
         \A v \in Workers \ {w} :
           accountPc[v] # "libre" /\ ~accountJob[v].late
             /\ accountJob[v].user # accountJob[w].user => AccountAsRead(accountJob[v].user)
  PROVE  /\ accountPc' \in [Workers -> {"libre", "edita", "borra"}]
         /\ accountJob' \in [Workers -> AccountJobs]
         /\ \A v \in Workers : AccountJobOK(v)'
<1>1. /\ accountPc' = [accountPc EXCEPT ![w] = "libre"]
      /\ \A v \in Workers \ {w} : accountJob'[v] = [accountJob[v] EXCEPT !.late = @
           \/ accountJob[v].user = accountJob[w].user]
      /\ accountJob'[w] = People!NoJob /\ DOMAIN accountJob' = Workers
      /\ accountJob' = [v \in Workers |-> accountJob'[v]]
  BY DEF People!End, People!Cut
<1>2. accountPc' \in [Workers -> {"libre", "edita", "borra"}]
  BY <1>1 DEF AccountInv, AccountTypes
<1>3. \A v \in Workers \ {w} :
        accountJob'[v] = IF accountJob[v].user =
          accountJob[w].user THEN [accountJob[v] EXCEPT !.late = TRUE] ELSE accountJob[v]
  BY <1>1, AccountLateJob DEF AccountInv, AccountTypes
<1>4. \A v \in Workers : accountJob'[v] \in AccountJobs
  <2>1. ASSUME NEW v \in Workers \ {w} PROVE accountJob'[v] \in AccountJobs
    <3>1. accountJob[v] \in AccountJobs
      BY DEF AccountInv, AccountTypes
    <3>2. [accountJob[v] EXCEPT !.late = TRUE] \in AccountJobs
      BY <3>1, AccountLateJob
    <3> QED  BY <1>3, <3>1, <3>2
  <2> QED  BY <1>1, <2>1, AccountNoJob
<1>5. accountJob' \in [Workers -> AccountJobs]
  BY <1>1, <1>4
<1>6. AccountJobOK(w)'
  BY <1>1 DEF AccountJobOK, AccountInv, AccountTypes
<1>7. ASSUME NEW v \in Workers \ {w} PROVE AccountJobOK(v)'
  <2>1. accountPc'[v] = accountPc[v]
    BY <1>1 DEF AccountInv, AccountTypes
  <2>2. accountJob[v].user = accountJob[w].user => accountPc[v] # "libre"
    BY AccountNoJob, AccountAssumption DEF AccountInv, AccountJobOK
  <2>3. accountJob[v].user = accountJob[w].user => accountJob'[v] # accountJob[v]
          \/ accountJob[v].late
    BY <1>3, <2>2 DEF AccountInv, AccountTypes, AccountJobs
  <2> QED  BY <1>3, <2>1, <2>2, <2>3, AccountJobKept
<1> QED  BY <1>2, <1>5, <1>6, <1>7

LEMMA AccountUpdateWrite ==
  ASSUME AccountInv, NEW w \in Workers, People!UpdateWrite(w) PROVE AccountInv'
<1>1. PICK u \in Users, j \in AccountJobs : u = accountJob[w].user /\ j = accountJob[w]
  BY DEF People!UpdateWrite, AccountInv, AccountTypes, AccountJobOK
<1> DEFINE next == [roles  |-> People!Given(j.roles, account[u].roles),
                    areas  |-> People!Given(j.areas, account[u].areas),
                    branch |-> People!Given(j.branch, account[u].branch)]
<1>2. /\ accountPc[w] = "edita" /\ People!End(w)
      /\ UNCHANGED << live, role, assignable, open, token, taken, lost >>
      /\ IF u \in live /\ next.roles \subseteq role
         THEN /\ account' = [account EXCEPT ![u] = next]
              /\ accountDrift' = [accountDrift EXCEPT ![u] = @
                   \cup (IF j.late THEN {"solapadas"} ELSE {})
                   \cup (IF j.roles = People!Same /\ j.branch = {} THEN {"desvinculada"} ELSE {})]
         ELSE UNCHANGED << account, accountDrift >>
  BY <1>1 DEF People!UpdateWrite, People!world
<1>3. ASSUME \A x \in Users \ {u} : account'[x] = account[x] /\ accountDrift'[x] = accountDrift[x]
      PROVE  /\ accountPc' \in [Workers -> {"libre", "edita", "borra"}]
             /\ accountJob' \in [Workers -> AccountJobs]
             /\ \A v \in Workers : AccountJobOK(v)'
  <2>1. \A v \in Workers \ {w} :
          accountPc[v] # "libre" /\ ~accountJob[v].late /\ accountJob[v].user # u =>
            AccountAsRead(accountJob[v].user)
    BY <1>2, <1>3 DEF AccountInv, AccountJobOK, AccountAsRead
  <2> QED  BY <1>1, <1>2, <2>1, AccountEnd
<1>4. CASE ~(u \in live /\ next.roles \subseteq role)
  <2>1. UNCHANGED << account, accountDrift >>
    BY <1>2, <1>4
  <2> QED  BY <1>2, <1>3, <2>1, AccountAccessKept DEF AccountInv, AccountTypes
<1>5. CASE u \in live /\ next.roles \subseteq role
  <2>1. next \in AccountRows
    <3>1. /\ j.roles \in {People!Same} \cup SUBSET Roles /\ j.areas \in {People!Same} \cup
              SUBSET Areas
          /\ j.branch \in {People!Same} \cup People!Branches
      BY DEF AccountJobs
    <3>2. account[u] \in AccountRows
      BY DEF AccountInv, AccountTypes
    <3> QED  BY <3>1, <3>2 DEF AccountRows, People!Given
  <2>2. /\ next.roles = People!Given(j.roles, account[u].roles)
        /\ next.areas = People!Given(j.areas, account[u].areas)
        /\ next.branch = People!Given(j.branch, account[u].branch)
    OBVIOUS
  <2>3. /\ account' = [account EXCEPT ![u] = next]
        /\ accountDrift' = [accountDrift EXCEPT ![u] = @
             \cup (IF j.late THEN {"solapadas"} ELSE {})
             \cup (IF j.roles = People!Same /\ j.branch = {} THEN {"desvinculada"} ELSE {})]
    BY <1>2, <1>5
  <2> HIDE DEF next
  <2>4. /\ account'[u] = next /\ accountDrift[u] \subseteq accountDrift'[u]
        /\ accountDrift' \in [Users -> SUBSET People!Causes]
        /\ \A x \in Users \ {u} : account'[x] = account[x] /\ accountDrift'[x] = accountDrift[x]
        /\ j.late => "solapadas" \in accountDrift'[u]
        /\ j.roles = People!Same /\ j.branch = {} => "desvinculada" \in accountDrift'[u]
    BY <2>3 DEF AccountInv, AccountTypes, People!Causes
  <2>5. AccountTypes'
    BY <1>2, <1>3, <1>5, <2>1, <2>3, <2>4 DEF AccountInv, AccountTypes
  <2>6. AccountHasAccess(u)'
    <3>1. next.roles = {} /\ next.areas = {} => accountDrift'[u] \cap {"solapadas",
            "rol borrado"} # {}
      <4> SUFFICES ASSUME ~j.late, next.roles = {}, next.areas = {},
                            "rol borrado" \notin accountDrift'[u]
                   PROVE  "solapadas" \in accountDrift'[u]
        BY <2>4
      <4>1. People!KeepsSome(u, j.roles, j.areas)
        BY <1>1, <1>2, <2>4 DEF AccountInv, AccountJobOK
      <4>2. {} \notin {j.roles, j.areas}
        BY <2>2, <4>1 DEF People!KeepsSome
      <4>3. account[u].roles = {} /\ account[u].areas = {}
        BY <2>2, <4>2 DEF People!Given
      <4> QED  BY <1>5, <2>4, <4>3 DEF AccountInv, AccountHasAccess
    <3>2. People!BranchRole \in next.roles /\ next.branch = {} =>
            accountDrift'[u] \cap {"solapadas", "desvinculada"} # {}
      <4> SUFFICES ASSUME ~j.late, People!BranchRole \in next.roles, next.branch = {},
                          "desvinculada" \notin accountDrift'[u]
                   PROVE  "solapadas" \in accountDrift'[u]
        BY <2>4
      <4>1. j.roles = People!Same
        BY <1>1, <1>2, <2>2 DEF AccountInv, AccountJobOK, People!BranchGiven, People!Given
      <4>2. People!BranchRole \in account[u].roles /\ account[u].branch = {}
        BY <2>2, <2>4, <4>1 DEF People!Given
      <4> QED  BY <1>5, <2>4, <4>2 DEF AccountInv, AccountHasAccess
    <3> QED  BY <2>4, <3>1, <3>2 DEF AccountHasAccess
  <2>7. \A x \in live : AccountHasAccess(x)'
    BY <2>4, <2>6, AccountAccessKept DEF AccountInv, AccountTypes
  <2> QED  BY <1>2, <1>3, <2>4, <2>5, <2>7 DEF AccountInv, AccountTypes
<1> QED  BY <1>4, <1>5

LEMMA AccountRemoveWrite ==
  ASSUME AccountInv, NEW w \in Workers, People!RemoveWrite(w) PROVE AccountInv'
<1>1. PICK u \in Users, j \in AccountJobs : u = accountJob[w].user /\ j = accountJob[w]
  BY DEF People!RemoveWrite, AccountInv, AccountTypes, AccountJobOK
<1>2. /\ accountPc[w] = "borra" /\ People!End(w) /\ UNCHANGED << role, assignable, open, token >>
      /\ IF u \in live
         THEN /\ lost' = lost \cup ({u} \cap taken.branch)
              /\ accountDrift' = [accountDrift EXCEPT ![u] = @ \cup
                   (IF j.late THEN {"solapadas"} ELSE {})]
         ELSE UNCHANGED << lost, accountDrift >>
      /\ live' = live \ {u}
      /\ account' = [account EXCEPT ![u] = People!Gone]
      /\ taken' = [house |-> taken.house \ {u}, branch |-> taken.branch \ {u}]
  BY <1>1 DEF People!RemoveWrite, People!world, People!OrdersAfter
<1>3. /\ account'[u] = People!Gone /\ \A x \in Users \ {u} : account'[x] = account[x]
      /\ account' \in [Users -> AccountRows]
  BY <1>2, AccountNoJob DEF AccountInv, AccountTypes
<1>4. /\ accountDrift' \in [Users -> SUBSET People!Causes]
      /\ accountDrift[u] \subseteq accountDrift'[u]
      /\ u \in live /\ j.late => "solapadas" \in accountDrift'[u]
      /\ \A x \in Users \ {u} : accountDrift'[x] = accountDrift[x]
  <2>1. CASE u \in live
    <3> DEFINE more == IF j.late THEN {"solapadas"} ELSE {}
    <3>1. more \subseteq People!Causes /\ (j.late => "solapadas" \in more)
      BY DEF People!Causes
    <3>2. /\ accountDrift' = [accountDrift EXCEPT ![u] = accountDrift[u] \cup more]
          /\ accountDrift \in [Users -> SUBSET People!Causes]
      BY <1>2, <2>1 DEF AccountInv, AccountTypes
    <3> HIDE DEF more
    <3> QED  BY <3>1, <3>2
  <2>2. CASE u \notin live
    BY <1>2, <2>2 DEF AccountInv, AccountTypes
  <2> QED  BY <2>1, <2>2
<1>5. /\ taken' \in [house : SUBSET live', branch : SUBSET live']
      /\ taken'.branch \subseteq taken.branch
  BY <1>2 DEF AccountInv, AccountTypes
<1>6. \A v \in Workers \ {w} :
        accountPc[v] # "libre" /\ ~accountJob[v].late /\ accountJob[v].user # u =>
          AccountAsRead(accountJob[v].user)
  BY <1>2, <1>3, <1>4, <1>5 DEF AccountInv, AccountJobOK, AccountAsRead
<1>7. /\ accountPc' \in [Workers -> {"libre", "edita", "borra"}]
      /\ accountJob' \in [Workers -> AccountJobs]
      /\ \A v \in Workers : AccountJobOK(v)'
  BY <1>1, <1>2, <1>6, AccountEnd
<1>8. lost' \subseteq Users /\ \A x \in lost' : "solapadas" \in accountDrift'[x]
  <2>1. u \in live /\ ~j.late => u \notin taken.branch
    BY <1>1, <1>2 DEF AccountInv, AccountJobOK
  <2>2. lost' \subseteq lost \cup {u}
    BY <1>2
  <2>3. u \in lost' /\ u \notin lost => u \in live /\ u \in taken.branch
    BY <1>2
  <2> QED  BY <1>4, <2>1, <2>2, <2>3 DEF AccountInv, AccountTypes
<1>9. AccountTypes'
  <2>1. live' \subseteq Users /\ \A x \in Users \ live' : account'[x] = People!Gone
    BY <1>2, <1>3 DEF AccountInv, AccountTypes
  <2> QED  BY <1>2, <1>3, <1>4, <1>5, <1>7, <1>8, <2>1 DEF AccountInv, AccountTypes
<1>10. \A x \in live' : AccountHasAccess(x)'
  BY <1>2, <1>3, <1>4, AccountAccessKept DEF AccountInv, AccountTypes
<1> QED  BY <1>7, <1>8, <1>9, <1>10 DEF AccountInv

LEMMA AccountQuiet ==
  ASSUME AccountInv, UNCHANGED << live, account, accountPc, accountDrift, lost >>, AccountTypes',
         accountJob' = accountJob, taken' = taken
  PROVE  AccountInv'
<1>1. ASSUME NEW w \in Workers PROVE AccountJobOK(w)'
  <2>1. accountPc[w] # "libre" /\ ~accountJob[w].late => AccountAsRead(accountJob[w].user)
    BY DEF AccountInv, AccountJobOK, AccountAsRead
  <2> QED  BY <2>1, AccountJobKept
<1> QED  BY <1>1, AccountAccessKept DEF AccountInv

LEMMA AccountLogin ==
  ASSUME AccountInv, NEW u \in Users, People!Login(u) PROVE AccountInv'
<1>1. People!SessionOf(u) \in {People!NoToken, "de la casa", "sucursal", "solo sucursal"}
  BY DEF People!SessionOf
<1>2. AccountTypes'
  BY <1>1 DEF People!Login, AccountInv, AccountTypes
<1> QED  BY <1>2, AccountQuiet DEF People!Login

LEMMA AccountSwitchArea ==
  ASSUME AccountInv, NEW a \in Areas, People!SwitchArea(a) PROVE AccountInv'
<1>1. assignable' \subseteq Areas
  BY DEF People!SwitchArea, AccountInv, AccountTypes
<1>2. AccountTypes'
  BY <1>1 DEF People!SwitchArea, AccountInv, AccountTypes
<1> QED  BY <1>2, AccountQuiet DEF People!SwitchArea

LEMMA AccountSwitchBranch ==
  ASSUME AccountInv, People!SwitchBranch PROVE AccountInv'
<1>1. AccountTypes'
  BY DEF People!SwitchBranch, AccountInv, AccountTypes
<1> QED  BY <1>1, AccountQuiet DEF People!SwitchBranch

LEMMA AccountTakeOrder ==
  ASSUME AccountInv, NEW u \in Users, NEW owner \in Users,
         People!TakeOrder(u, owner) PROVE AccountInv'
<1>1. /\ owner \in live /\ UNCHANGED << live, account, role, assignable, open, token,
          accountPc, accountDrift, lost >>
      /\ accountJob' = [v \in Workers |-> [accountJob[v] EXCEPT !.late = @
           \/ accountJob[v].user = owner]]
  BY DEF People!TakeOrder, People!world
<1>2. /\ taken' \in [house : SUBSET live, branch : SUBSET live]
      /\ taken'.branch \subseteq taken.branch \cup {owner}
  <2>1. taken \in [house : SUBSET live, branch : SUBSET live]
    BY DEF AccountInv, AccountTypes
  <2>2. CASE token[u] = "de la casa"
    <3>1. taken' = [taken EXCEPT !.house = taken.house \cup {owner}]
      BY <2>2 DEF People!TakeOrder
    <3> QED  BY <1>1, <2>1, <3>1
  <2>3. CASE token[u] # "de la casa"
    <3>1. taken' = [taken EXCEPT !.branch = taken.branch \cup {owner}]
      BY <2>3 DEF People!TakeOrder
    <3> QED  BY <1>1, <2>1, <3>1
  <2> QED  BY <2>2, <2>3
<1>3. ASSUME NEW v \in Workers
      PROVE  /\ accountJob'[v] = IF accountJob[v].user =
                 owner THEN [accountJob[v] EXCEPT !.late = TRUE] ELSE accountJob[v]
             /\ accountJob'[v] \in AccountJobs
  <2>1. accountJob[v] \in AccountJobs
    BY DEF AccountInv, AccountTypes
  <2>2. (accountJob[v].user = owner) \in BOOLEAN
    OBVIOUS
  <2>3. accountJob'[v] = [accountJob[v] EXCEPT !.late = @ \/ accountJob[v].user = owner]
    BY <1>1
  <2> QED  BY <2>1, <2>2, <2>3, AccountLateJob
<1>4. AccountTypes'
  <2>1. accountJob' \in [Workers -> AccountJobs]
    BY <1>1, <1>3
  <2> QED  BY <1>1, <1>2, <2>1 DEF AccountInv, AccountTypes
<1>5. ASSUME NEW v \in Workers PROVE AccountJobOK(v)'
  <2>1. accountJob[v].user = owner => accountPc[v] # "libre"
    BY AccountNoJob, AccountAssumption DEF AccountInv, AccountJobOK
  <2>2. accountJob[v].user = owner => accountJob'[v] # accountJob[v] \/ accountJob[v].late
    BY <1>3, <2>1 DEF AccountInv, AccountTypes, AccountJobs
  <2>3. accountPc[v] # "libre" /\ ~accountJob[v].late /\ accountJob[v].user # owner =>
          AccountAsRead(accountJob[v].user)
    BY <1>1, <1>2 DEF AccountInv, AccountJobOK, AccountAsRead
  <2> QED  BY <1>1, <1>3, <2>1, <2>2, <2>3, AccountJobKept
<1> QED  BY <1>1, <1>4, <1>5, AccountAccessKept DEF AccountInv

LEMMA AccountDeleteRole ==
  ASSUME AccountInv, NEW r \in Roles, People!DeleteRole(r) PROVE AccountInv'
<1>1. /\ role' = role \ {r}
      /\ account' = [u \in Users |-> [account[u] EXCEPT !.roles = @ \ {r}]]
      /\ accountDrift' = [u \in Users |-> IF u \in live /\ r \in account[u].roles
                                   THEN accountDrift[u] \cup {"rol borrado"} ELSE accountDrift[u]]
      /\ UNCHANGED << live, assignable, open, token, taken, accountPc, accountJob, lost >>
  BY DEF People!DeleteRole
<1>2. ASSUME NEW u \in Users
      PROVE  /\ account'[u] \in AccountRows /\ account'[u].roles = account[u].roles \ {r}
             /\ account'[u].areas = account[u].areas /\ account'[u].branch = account[u].branch
  <2>1. account[u] \in AccountRows
    BY DEF AccountInv, AccountTypes
  <2> QED  BY <1>1, <2>1 DEF AccountRows
<1>3. ASSUME NEW u \in Users
      PROVE  /\ accountDrift[u] \subseteq accountDrift'[u]
             /\ accountDrift'[u] \subseteq People!Causes
             /\ u \in live /\ r \in account[u].roles => "rol borrado" \in accountDrift'[u]
  BY <1>1 DEF AccountInv, AccountTypes, People!Causes
<1>4. ASSUME NEW u \in Users \ live PROVE account'[u] = People!Gone
  <2>0. account[u] = People!Gone /\ People!Gone.roles = {}
    BY DEF AccountInv, AccountTypes, People!Gone
  <2>1. account[u] = People!Gone /\ account[u].roles = {} /\ account[u] \in AccountRows
    BY <2>0, AccountNoJob
  <2>2. account[u].roles \ {r} = {}
    BY <2>1
  <2>3. [account[u] EXCEPT !.roles = @ \ {r}] = account[u]
    BY <2>1, <2>2 DEF AccountRows
  <2> QED  BY <1>1, <2>1, <2>3
<1>5. AccountTypes'
  <2>1. account' \in [Users -> AccountRows]
    BY <1>1, <1>2
  <2>2. accountDrift' \in [Users -> SUBSET People!Causes]
    BY <1>1, <1>3
  <2> QED  BY <1>1, <1>4, <2>1, <2>2 DEF AccountInv, AccountTypes
<1>6. ASSUME NEW u \in live PROVE AccountHasAccess(u)' /\ AccountAsRead(u)
  <2>1. u \in Users
    BY DEF AccountInv, AccountTypes
  <2>2. account'[u].roles = account[u].roles \/ "rol borrado" \in accountDrift'[u]
    BY <1>2, <1>3, <2>1
  <2>3. AccountHasAccess(u)
    BY DEF AccountInv
  <2> QED  BY <1>1, <1>2, <1>3, <2>1, <2>2, <2>3 DEF AccountHasAccess, AccountAsRead
<1>7. ASSUME NEW w \in Workers PROVE AccountJobOK(w)'
  <2>1. accountPc[w] # "libre" /\ ~accountJob[w].late => AccountAsRead(accountJob[w].user)
    BY <1>6 DEF AccountInv, AccountJobOK
  <2> QED  BY <1>1, <2>1, AccountJobKept
<1> QED  BY <1>1, <1>3, <1>5, <1>6, <1>7 DEF AccountInv, AccountTypes

LEMMA AccountInvStep == AccountInv /\ People!Next => AccountInv'
BY AccountCreate, AccountUpdateRead, AccountRemoveRead, AccountUpdateWrite, AccountRemoveWrite,
   AccountLogin, AccountTakeOrder, AccountDeleteRole, AccountSwitchArea, AccountSwitchBranch
   DEF People!Next

LEMMA AccountInvKept == AccountInv /\ UNCHANGED People!vars => AccountInv'
<1> SUFFICES ASSUME AccountInv, UNCHANGED People!vars PROVE AccountInv'
  OBVIOUS
<1>1. UNCHANGED << live, account, role, assignable, open, taken, token, accountPc, accountJob,
        accountDrift, lost >>
  BY DEF People!vars
<1>2. AccountTypes'
  BY <1>1 DEF AccountInv, AccountTypes
<1> QED  BY <1>1, <1>2, AccountQuiet

-----------------------------------------------------------------------------
(* Who follows the writes.                                                  *)

FeedLearnable == SUBSET (Orders \X Feed!Contents)
FeedHows  == {"alta", "edicion", "lote", "hijo", "borrado", "cuenta", "interno"}
FeedJobs  == [at : {"libre", "busca", "aprende", "guarda"}, orders : SUBSET Orders,
              clients : SUBSET Clients, client : Clients \cup {Feed!Nobody}, read : FeedLearnable,
              passed : BOOLEAN]
FeedTx    == [order : Orders, how : FeedHows, row : Feed!Rows, late : BOOLEAN, missed : BOOLEAN]
Reasons   == {"otra clienta", "antes de tiempo", "cuenta", "cruce", "fallo", "reinicio"}

FeedTypes ==
  /\ order \in [Orders -> Feed!Rows]
  /\ tx = {} \/ \E t \in FeedTx : tx = {t}
  /\ pending \in [clients : SUBSET Clients, orders : SUBSET Orders]
  /\ gathered \in BOOLEAN /\ booting \in BOOLEAN /\ fresh \in BOOLEAN
  /\ profile \in [Clients -> SUBSET FeedLearnable]
  /\ \A c \in Clients : profile[c] = {} \/ \E h \in FeedLearnable : profile[c] = {h}
  /\ feedJob \in [Workers -> FeedJobs]
  /\ excused \in [Feed!Followers -> SUBSET Reasons]
  /\ writes \in 0..MaxWrites /\ setbacks \in 0..MaxSetbacks

(* A rebuild has one client in hand while it saves, and looks up orders only *)
(* before it learns anything.                                               *)
FeedJobOK(w) ==
  /\ IF feedJob[w].at = "guarda"
     THEN feedJob[w].client \in feedJob[w].clients
     ELSE feedJob[w].client = Feed!Nobody
  /\ feedJob[w].at # "busca" => feedJob[w].orders = {}

(* What is still to be learned of a client: announced and not taken, taken  *)
(* and not read, or read as it is and about to be saved.                    *)
FeedAsksFor(w, c) ==
  \/ c \in feedJob[w].clients /\ c # feedJob[w].client
  \/ \E o \in feedJob[w].orders : order[o].client = c
FeedSaves(w, c) ==
  feedJob[w].at = "guarda" /\ feedJob[w].client = c /\ feedJob[w].read = Feed!History(c)
FeedWaiting(c) ==
  \/ c \in pending.clients
  \/ \E o \in pending.orders : order[o].client = c
  \/ \E w \in Workers : FeedAsksFor(w, c)
FeedOwing(c) == FeedWaiting(c) \/ \E w \in Workers : FeedSaves(w, c)

FeedUpToDate(c) ==
  \/ profile[c] = {Feed!History(c)}
  \/ profile[c] = {} /\ \A o \in Orders : order[o].client # c

FeedLearned ==
  \A c \in Clients : excused[c] = {} => FeedUpToDate(c) \/ FeedOwing(c)
    \/ (booting /\ profile[c] = {})

(* What a rebuild is about to save is so, or somebody will save another.    *)
FeedSaving ==
  \A w \in Workers, c \in Clients :
    feedJob[w].at = "guarda" /\ feedJob[w].client = c /\ ~feedJob[w].passed
      /\ excused[c] = {} => FeedOwing(c)

(* The transaction in flight has been announced, and not followed yet.      *)
FeedAnnounced ==
  \A t \in tx :
    /\ ~t.missed => gathered
    /\ order[t.order].client \in Clients
    /\ IF t.how = "cuenta" THEN t.row = Feed!NoRow ELSE t.row.client = order[t.order].client
    /\ \A c \in Clients : order[t.order].client = c /\ t.how # "cuenta" /\ ~t.late =>
                            excused[c] # {} \/ FeedWaiting(c)

FeedShown == fresh \/ gathered \/ excused["pantallas"] # {}

FeedInv ==
  /\ FeedTypes
  /\ \A w \in Workers : FeedJobOK(w)
  /\ FeedLearned /\ FeedSaving /\ FeedAnnounced /\ FeedShown

LEMMA FeedNoJob ==
  /\ Feed!NoJob \in FeedJobs /\ Feed!NoJob.at = "libre" /\ Feed!NoJob.orders = {}
  /\ Feed!NoJob.clients = {}
  /\ Feed!NoJob.client = Feed!Nobody /\ ~Feed!NoJob.passed
BY DEF Feed!NoJob, FeedJobs, FeedLearnable

LEMMA FeedRow == \A row \in Feed!Rows : row.client \in Clients <=> row # Feed!NoRow
BY FeedAssumption DEF Feed!Rows, Feed!NoRow, Feed!Nobody, Feed!Contents

LEMMA FeedHistory == ASSUME order \in [Orders -> Feed!Rows],
  NEW c \in Clients PROVE Feed!History(c) \in FeedLearnable
<1>1. ASSUME NEW o \in Orders, order[o].client = c PROVE order[o].content \in Feed!Contents
  <2>1. order[o] \in Feed!Rows /\ order[o] # Feed!NoRow
    BY <1>1, FeedRow
  <2> QED  BY <2>1 DEF Feed!Rows
<1> QED  BY <1>1 DEF Feed!History, FeedLearnable

LEMMA FeedInvSafe == FeedInv => Feed!TypeOK /\ Feed!WritesAreFollowed
<1> SUFFICES ASSUME FeedInv PROVE Feed!TypeOK /\ Feed!WritesAreFollowed
  OBVIOUS
<1>1. FeedTypes
  BY DEF FeedInv
<1>2. Cardinality({}) <= 1 /\ \A x : Cardinality({x}) <= 1
  <2>1. Cardinality({}) = 0 /\ \A x : Cardinality({x}) = 1
    BY FS_EmptySet, FS_Singleton
  <2> QED  BY <2>1
<1>3. Cardinality(tx) <= 1 /\ \A c \in Clients : Cardinality(profile[c]) <= 1
  BY <1>1, <1>2, Zenon DEF FeedTypes
<1>4. Feed!TypeOK
  BY OfficeCardinality, <1>1, <1>3 DEF FeedTypes, Feed!TypeOK, FeedJobs
<1>5. ASSUME Feed!Settled, NEW c \in Clients, excused[c] = {} PROVE FeedUpToDate(c)
  <2>1. ~FeedWaiting(c)
    BY <1>5, FeedNoJob DEF Feed!Settled, FeedWaiting, FeedAsksFor
  <2>2. \A w \in Workers : ~FeedSaves(w, c)
    BY <1>5, FeedNoJob DEF Feed!Settled, FeedSaves
  <2>3. ~booting
    BY <1>5 DEF Feed!Settled
  <2> QED  BY <1>5, <2>1, <2>2, <2>3 DEF FeedInv, FeedLearned, FeedOwing
<1> QED  BY <1>4, <1>5 DEF Feed!WritesAreFollowed, FeedUpToDate, FeedInv, FeedShown

LEMMA FeedInvInit == Feed!Init => FeedInv
<1> SUFFICES ASSUME Feed!Init PROVE FeedInv
  OBVIOUS
<1>1. order \in [Orders -> Feed!Rows]
  BY DEF Feed!Init, Feed!Rows, Feed!Contents
<1>2. \A c \in Clients : profile[c] = {} \/ profile[c] = {Feed!History(c)}
  BY DEF Feed!Init
<1>3. \A c \in Clients : Feed!History(c) \in FeedLearnable
  BY <1>1, FeedHistory
<1>4. profile \in [Clients -> SUBSET FeedLearnable]
  <2>1. \A c \in Clients : profile[c] \in SUBSET FeedLearnable
    BY <1>2, <1>3
  <2>2. profile = [c \in Clients |-> profile[c]]
    BY DEF Feed!Init
  <2> QED  BY <2>1, <2>2
<1>5. FeedTypes
  <2>1. feedJob \in [Workers -> FeedJobs]
    BY FeedNoJob DEF Feed!Init
  <2>2. 0 \in 0..MaxWrites /\ 0 \in 0..MaxSetbacks
    BY FeedAssumption
  <2>3. \A c \in Clients : profile[c] = {} \/ \E h \in FeedLearnable : profile[c] = {h}
    BY <1>2, <1>3
  <2> QED  BY <1>1, <1>4, <2>1, <2>2, <2>3 DEF Feed!Init, FeedTypes
<1>6. \A w \in Workers : FeedJobOK(w) /\ feedJob[w].at = "libre"
  BY FeedNoJob DEF Feed!Init, FeedJobOK
<1>7. FeedLearned
  BY <1>2 DEF FeedLearned, FeedUpToDate, Feed!Init
<1> QED  BY <1>5, <1>6, <1>7 DEF Feed!Init, FeedInv, FeedSaving, FeedAnnounced, FeedShown

-----------------------------------------------------------------------------
(* The orders of a client that a step leaves alone.                         *)
LEMMA FeedSameHistory ==
  ASSUME NEW c, \A o \in Orders : order[o].client = c \/ order'[o].client = c
         => order'[o] = order[o]
  PROVE  /\ Feed!History(c)' = Feed!History(c)
         /\ (\A o \in Orders : order[o].client # c) => \A o \in Orders : order'[o].client # c
<1>1. {i \in Orders : order'[i].client = c /\ order'[i].content # "cancelada"}
        = {i \in Orders : order[i].client = c /\ order[i].content # "cancelada"}
  OBVIOUS
<1>2. \A o \in {i \in Orders : order[i].client = c /\ order[i].content # "cancelada"} :
        order'[o].content = order[o].content
  OBVIOUS
<1>3. Feed!History(c)' = Feed!History(c)
  BY <1>1, <1>2 DEF Feed!History
<1> QED  BY <1>3

(* What is owed stays owed.                                                 *)
FeedStillWaits(c) == FeedWaiting(c)' \/ excused'[c] # {}
StillOwed(c)  == FeedOwing(c)' \/ excused'[c] # {}

LEMMA FeedLearnedKept ==
  ASSUME FeedInv, UNCHANGED << order, profile, booting >>,
         \A c \in Clients : excused[c] \subseteq excused'[c] /\ (FeedOwing(c) => StillOwed(c))
  PROVE  FeedLearned'
<1> SUFFICES ASSUME NEW c \in Clients, excused'[c] = {}
             PROVE  FeedUpToDate(c)' \/ FeedOwing(c)' \/ (booting' /\ profile'[c] = {})
  BY DEF FeedLearned
<1>1. FeedUpToDate(c) \/ FeedOwing(c) \/ (booting /\ profile[c] = {})
  BY DEF FeedInv, FeedLearned
<1>2. FeedUpToDate(c)' = FeedUpToDate(c)
  BY DEF FeedUpToDate, Feed!History
<1> QED  BY <1>1, <1>2 DEF StillOwed

LEMMA FeedSavingKept ==
  ASSUME FeedInv,
         \A c \in Clients : excused[c] \subseteq excused'[c] /\ (FeedOwing(c) => StillOwed(c)),
         \A w \in Workers : feedJob'[w].at = "guarda" /\ ~feedJob'[w].passed =>
           feedJob[w].at = "guarda" /\ ~feedJob[w].passed /\ feedJob'[w].client = feedJob[w].client
  PROVE  FeedSaving'
<1> SUFFICES ASSUME NEW w \in Workers, NEW c \in Clients, feedJob'[w].at = "guarda",
                    feedJob'[w].client = c, ~feedJob'[w].passed, excused'[c] = {}
             PROVE  FeedOwing(c)'
  BY DEF FeedSaving
<1>1. excused[c] = {} /\ feedJob[w].client = c
  OBVIOUS
<1>2. FeedOwing(c)
  BY <1>1 DEF FeedInv, FeedSaving
<1> QED  BY <1>2 DEF StillOwed

LEMMA FeedAnnouncedKept ==
  ASSUME FeedInv, order' = order,
         \A t2 \in tx' : \E t \in tx :
           /\ t2.order = t.order /\ t2.how = t.how /\ t2.row = t.row /\ (t.late => t2.late)
           /\ (~t2.missed => ~t.missed /\ gathered'),
         (\E t2 \in tx' : ~t2.late) => \A c \in Clients :
           excused[c] \subseteq excused'[c] /\ (FeedWaiting(c) => FeedStillWaits(c))
  PROVE  FeedAnnounced'
<1> SUFFICES ASSUME NEW t2 \in tx', FeedInv PROVE
         /\ ~t2.missed => gathered'
         /\ order'[t2.order].client \in Clients
         /\ IF t2.how = "cuenta" THEN t2.row = Feed!NoRow ELSE t2.row.client =
              order'[t2.order].client
         /\ \A c \in Clients : order'[t2.order].client = c /\ t2.how # "cuenta" /\ ~t2.late =>
                                 excused'[c] # {} \/ FeedWaiting(c)'
  BY DEF FeedAnnounced
<1>1. PICK t \in tx :
           /\ t2.order = t.order /\ t2.how = t.how /\ t2.row = t.row /\ (t.late => t2.late)
           /\ (~t2.missed => ~t.missed /\ gathered')
  OBVIOUS
<1>2. ASSUME NEW c \in Clients, order'[t2.order].client = c, t2.how # "cuenta", ~t2.late
      PROVE  excused'[c] # {} \/ FeedWaiting(c)'
  <2>1. excused[c] # {} \/ FeedWaiting(c)
    BY <1>1, <1>2 DEF FeedInv, FeedAnnounced
  <2>2. excused[c] \subseteq excused'[c] /\ (FeedWaiting(c) => FeedStillWaits(c))
    BY <1>2
  <2> QED  BY <2>1, <2>2 DEF FeedStillWaits
<1> QED  BY <1>1, <1>2 DEF FeedInv, FeedAnnounced

(* A job goes on, and asks for what it asked for.                           *)
LEMMA FeedWaits ==
  ASSUME FeedInv, order' = order, NEW c \in Clients, pending' = pending,
         \A w \in Workers : FeedAsksFor(w, c) => FeedAsksFor(w, c)' \/ excused'[c] # {}
  PROVE  FeedWaiting(c) => FeedStillWaits(c)
BY DEF FeedWaiting, FeedStillWaits

(* Everything as before, but for more that is announced or excused.         *)
LEMMA FeedGrows ==
  ASSUME FeedInv, order' = order, feedJob' = feedJob, NEW c \in Clients,
         pending.clients \subseteq pending'.clients, pending.orders \subseteq pending'.orders
  PROVE  (FeedWaiting(c) => FeedWaiting(c)') /\ (FeedOwing(c) => FeedOwing(c)')
BY DEF FeedWaiting, FeedOwing, FeedAsksFor, FeedSaves, Feed!History

LEMMA FeedExcuse ==
  ASSUME FeedInv, NEW fs, NEW why \in Reasons, Feed!Excuse(fs, why)
  PROVE  /\ excused' \in [Feed!Followers -> SUBSET Reasons]
         /\ \A f \in Feed!Followers : /\ excused[f] \subseteq excused'[f]
                                      /\ f \in fs => excused'[f] # {}
                                      /\ f \notin fs => excused'[f] = excused[f]
BY DEF FeedInv, FeedTypes, Feed!Excuse

LEMMA FeedFollowers == Clients \subseteq Feed!Followers /\ "pantallas" \in Feed!Followers
  /\ "pantallas" \notin Clients
BY FeedAssumption DEF Feed!Followers

LEMMA FeedFlushScreens == ASSUME FeedInv, Feed!FlushScreens PROVE FeedInv'
<1> DEFINE Told(t) == [t EXCEPT !.missed = TRUE]
<1>1. /\ gathered' = FALSE /\ fresh' = TRUE
      /\ excused' = [excused EXCEPT !["pantallas"] = {}]
      /\ tx' = {Told(t) : t \in tx}
      /\ UNCHANGED << order, pending, profile, booting, feedJob, writes, setbacks >>
  BY DEF Feed!FlushScreens
<1>2. \A t \in FeedTx : /\ Told(t) \in FeedTx /\ Told(t).missed
                        /\ Told(t).order = t.order /\ Told(t).how = t.how
                        /\ Told(t).row = t.row /\ Told(t).late = t.late
  BY DEF FeedTx
<1> HIDE DEF Told
<1>3. tx' = {} \/ \E t \in FeedTx : tx' = {Told(t)} /\ t \in tx
  BY <1>1 DEF FeedInv, FeedTypes
<1>4. excused' \in [Feed!Followers -> SUBSET Reasons] /\ \A c \in Clients : excused'[c] = excused[c]
  BY <1>1, FeedFollowers DEF FeedInv, FeedTypes
<1>5. FeedTypes'
  BY <1>1, <1>2, <1>3, <1>4 DEF FeedInv, FeedTypes
<1>6. \A c \in Clients : (FeedWaiting(c) => FeedWaiting(c)') /\ (FeedOwing(c) => FeedOwing(c)')
  BY <1>1, FeedGrows
<1>7. FeedLearned'
  BY <1>1, <1>4, <1>6, FeedLearnedKept DEF StillOwed
<1>8. FeedSaving'
  BY <1>1, <1>4, <1>6, FeedSavingKept DEF StillOwed
<1>9. FeedAnnounced'
  <2>1. \A t2 \in tx' : \E t \in tx :
           /\ t2.order = t.order /\ t2.how = t.how /\ t2.row = t.row /\ (t.late => t2.late)
           /\ t2.missed
    BY <1>2, <1>3
  <2> QED  BY <1>1, <1>4, <1>6, <2>1, FeedAnnouncedKept DEF FeedStillWaits
<1> QED  BY <1>1, <1>5, <1>7, <1>8, <1>9 DEF FeedInv, FeedJobOK, FeedShown

LEMMA FeedRollback == ASSUME FeedInv, Feed!Rollback PROVE FeedInv'
<1>1. /\ tx' = {}
      /\ UNCHANGED << order, pending, gathered, profile, booting, feedJob, fresh, excused,
           writes, setbacks >>
  BY DEF Feed!Rollback
<1>2. FeedTypes'
  BY <1>1 DEF FeedInv, FeedTypes
<1>3. \A c \in Clients : (FeedWaiting(c) => FeedWaiting(c)') /\ (FeedOwing(c) => FeedOwing(c)')
  BY <1>1, FeedGrows
<1>4. FeedLearned' /\ FeedSaving' /\ FeedAnnounced'
  BY <1>1, <1>3, FeedLearnedKept, FeedSavingKept DEF StillOwed, FeedAnnounced
<1> QED  BY <1>1, <1>2, <1>4 DEF FeedInv, FeedJobOK, FeedShown

LEMMA FeedInvKept == FeedInv /\ UNCHANGED Feed!vars => FeedInv'
<1> SUFFICES ASSUME FeedInv, UNCHANGED Feed!vars PROVE FeedInv'
  OBVIOUS
<1>1. UNCHANGED << order, tx, pending, gathered, profile, booting, feedJob, fresh, excused,
        writes, setbacks >>
  BY DEF Feed!vars
<1>2. FeedTypes'
  BY <1>1 DEF FeedInv, FeedTypes
<1>3. \A c \in Clients : (FeedWaiting(c) => FeedWaiting(c)') /\ (FeedOwing(c) => FeedOwing(c)')
  BY <1>1, FeedGrows
<1>4. FeedLearned' /\ FeedSaving'
  BY <1>1, <1>3, FeedLearnedKept, FeedSavingKept DEF StillOwed
<1>5. FeedAnnounced'
  BY <1>1, <1>3 DEF FeedInv, FeedAnnounced
<1> QED  BY <1>1, <1>2, <1>4, <1>5 DEF FeedInv, FeedJobOK, FeedShown

(* A job that takes work on: nobody is owed less.                           *)
LEMMA FeedTakes ==
  ASSUME FeedInv, NEW w \in Workers, NEW j \in FeedJobs, feedJob[w] = Feed!NoJob, Feed!Set(w, j),
         UNCHANGED << order, tx, gathered, profile, fresh, excused, writes, setbacks >>,
         j.at \in {"libre", "busca", "aprende"}, j.client = Feed!Nobody,
         j.at # "busca" => j.orders = {},
         pending' \in [clients : SUBSET Clients, orders : SUBSET Orders],
         pending.clients \subseteq pending'.clients \cup j.clients,
         pending.orders \subseteq pending'.orders \cup j.orders,
         booting' \in BOOLEAN, booting => booting' \/ \A c \in Clients : profile[c] = {} =>
                       c \in j.clients \/ \A o \in Orders : order[o].client # c
  PROVE  FeedInv'
<1>1. feedJob' = [feedJob EXCEPT ![w] = j]
  BY DEF Feed!Set
<1>2. feedJob'[w] = j /\ \A v \in Workers \ {w} : feedJob'[v] = feedJob[v]
  BY <1>1 DEF FeedInv, FeedTypes
<1>3. FeedTypes'
  BY <1>1 DEF FeedInv, FeedTypes
<1>4. \A v \in Workers : FeedJobOK(v)'
  BY <1>2 DEF FeedInv, FeedJobOK
<1>5. \A c \in Clients : c \in j.clients => FeedAsksFor(w, c)'
  BY <1>2, FeedAssumption DEF FeedAsksFor, Feed!Nobody
<1>6. ASSUME NEW c \in Clients PROVE (FeedWaiting(c) => FeedWaiting(c)')
             /\ (FeedOwing(c) => FeedOwing(c)')
  <2>1. \A v \in Workers : FeedAsksFor(v, c) \/ FeedSaves(v, c) => v # w
    BY FeedNoJob DEF FeedAsksFor, FeedSaves
  <2>2. \A v \in Workers \ {w} : FeedAsksFor(v, c)' = FeedAsksFor(v, c)
          /\ FeedSaves(v, c)' = FeedSaves(v, c)
    BY <1>2 DEF FeedAsksFor, FeedSaves, Feed!History
  <2>3. \A o \in j.orders : order[o].client = c => FeedAsksFor(w, c)'
    BY <1>2 DEF FeedAsksFor
  <2> QED  BY <1>5, <2>1, <2>2, <2>3 DEF FeedWaiting, FeedOwing
<1>7. FeedLearned'
  <2>1. ASSUME NEW c \in Clients, excused'[c] = {}
        PROVE  FeedUpToDate(c)' \/ FeedOwing(c)' \/ (booting' /\ profile'[c] = {})
    <3>1. FeedUpToDate(c) \/ FeedOwing(c) \/ (booting /\ profile[c] = {})
      BY <2>1 DEF FeedInv, FeedLearned
    <3>2. FeedUpToDate(c)' = FeedUpToDate(c)
      BY DEF FeedUpToDate, Feed!History
    <3>3. booting /\ profile[c] = {} => booting' \/ c \in j.clients \/ FeedUpToDate(c)
      BY DEF FeedUpToDate
    <3>4. c \in j.clients => FeedOwing(c)'
      BY <1>5 DEF FeedOwing, FeedWaiting
    <3> QED  BY <1>6, <3>1, <3>2, <3>3, <3>4
  <2> QED  BY <2>1 DEF FeedLearned
<1>8. FeedSaving'
  BY <1>2, <1>6, FeedSavingKept DEF StillOwed
<1>9. FeedAnnounced'
  BY <1>6 DEF FeedInv, FeedAnnounced
<1> QED  BY <1>3, <1>4, <1>7, <1>8, <1>9 DEF FeedInv, FeedShown

LEMMA FeedFlush == ASSUME FeedInv, NEW w \in Workers, Feed!Flush(w) PROVE FeedInv'
<1> DEFINE j == [Feed!NoJob EXCEPT !.at = IF pending.orders = {} THEN "aprende" ELSE "busca",
                              !.orders = pending.orders, !.clients = pending.clients]
<1>1. pending \in [clients : SUBSET Clients, orders : SUBSET Orders]
  BY DEF FeedInv, FeedTypes
<1>2. /\ j \in FeedJobs /\ j.at \in {"busca", "aprende"} /\ j.client = Feed!Nobody
      /\ j.orders = pending.orders /\ j.clients = pending.clients
      /\ j.at # "busca" => pending.orders = {}
  BY <1>1, FeedNoJob DEF FeedJobs
<1>3. /\ feedJob[w] = Feed!NoJob /\ Feed!Set(w, j) /\ pending' = [clients |-> {}, orders |-> {}]
      /\ UNCHANGED << order, tx, gathered, profile, booting, fresh, excused, writes, setbacks >>
  BY DEF Feed!Flush
<1> HIDE DEF j
<1>4. pending' \in [clients : SUBSET Clients, orders : SUBSET Orders] /\ booting' \in BOOLEAN
  BY <1>3 DEF FeedInv, FeedTypes
<1> QED  BY <1>2, <1>3, <1>4, FeedTakes

LEMMA FeedBackfill == ASSUME FeedInv, NEW w \in Workers, Feed!Backfill(w) PROVE FeedInv'
<1> DEFINE missing == {c \in Clients : profile[c] = {} /\ \E o \in Orders : order[o].client = c}
           j == IF missing = {} THEN Feed!NoJob ELSE [Feed!NoJob EXCEPT !.at = "aprende",
             !.clients = missing]
<1>1. missing \subseteq Clients
  OBVIOUS
<1>2. /\ j \in FeedJobs /\ j.at \in {"libre", "aprende"} /\ j.client = Feed!Nobody
      /\ j.orders = {} /\ j.clients = missing
  BY <1>1, FeedNoJob DEF FeedJobs
<1>3. /\ feedJob[w] = Feed!NoJob /\ Feed!Set(w, j) /\ booting' = FALSE
      /\ UNCHANGED << order, tx, pending, gathered, profile, fresh, excused, writes, setbacks >>
  BY DEF Feed!Backfill
<1>4. \A c \in Clients : profile[c] = {} => c \in missing \/ \A o \in Orders : order[o].client # c
  OBVIOUS
<1> HIDE DEF j, missing
<1>5. pending \in [clients : SUBSET Clients, orders : SUBSET Orders]
  BY DEF FeedInv, FeedTypes
<1> QED  BY <1>2, <1>3, <1>4, <1>5, FeedTakes

LEMMA FeedGetProfile ==
  ASSUME FeedInv, NEW w \in Workers, NEW c \in Clients, Feed!GetProfile(w, c) PROVE FeedInv'
<1> DEFINE j == [Feed!NoJob EXCEPT !.at = "aprende", !.clients = {c}]
<1>1. /\ j \in FeedJobs /\ j.at = "aprende" /\ j.client = Feed!Nobody /\ j.orders = {}
      /\ j.clients = {c}
  BY FeedNoJob DEF FeedJobs
<1>2. /\ feedJob[w] = Feed!NoJob /\ Feed!Set(w, j) /\ setbacks' = setbacks + 1
      /\ setbacks < MaxSetbacks
      /\ UNCHANGED << order, tx, pending, gathered, profile, booting, fresh, excused, writes >>
  BY DEF Feed!GetProfile
<1> HIDE DEF j
<1>3. feedJob' = [feedJob EXCEPT ![w] = j]
  BY <1>2 DEF Feed!Set
<1>4. feedJob'[w] = j /\ \A v \in Workers \ {w} : feedJob'[v] = feedJob[v]
  BY <1>3 DEF FeedInv, FeedTypes
<1>5. FeedTypes'
  <2>1. setbacks' \in 0..MaxSetbacks
    BY <1>2, FeedAssumption DEF FeedInv, FeedTypes
  <2> QED  BY <1>1, <1>2, <1>3, <2>1 DEF FeedInv, FeedTypes
<1>6. \A v \in Workers : FeedJobOK(v)'
  BY <1>1, <1>4 DEF FeedInv, FeedJobOK
<1>7. ASSUME NEW d \in Clients PROVE (FeedWaiting(d) => FeedWaiting(d)')
             /\ (FeedOwing(d) => FeedOwing(d)')
  <2>1. \A v \in Workers : FeedAsksFor(v, d) \/ FeedSaves(v, d) => v # w
    BY <1>2, FeedNoJob DEF FeedAsksFor, FeedSaves
  <2>2. \A v \in Workers \ {w} : FeedAsksFor(v, d)' = FeedAsksFor(v, d)
          /\ FeedSaves(v, d)' = FeedSaves(v, d)
    BY <1>2, <1>4 DEF FeedAsksFor, FeedSaves, Feed!History
  <2> QED  BY <1>2, <2>1, <2>2 DEF FeedWaiting, FeedOwing
<1>8. FeedLearned' /\ FeedSaving'
  BY <1>1, <1>2, <1>4, <1>7, FeedLearnedKept, FeedSavingKept DEF StillOwed
<1>9. FeedAnnounced'
  BY <1>2, <1>7 DEF FeedInv, FeedAnnounced
<1> QED  BY <1>2, <1>5, <1>6, <1>8, <1>9 DEF FeedInv, FeedShown

(* Whatever is looked up or read while a transaction is in flight is early. *)
LEMMA FeedLate ==
  ASSUME FeedInv, Feed!Late
  PROVE  /\ tx' = {} \/ \E t \in FeedTx : tx' = {t}
         /\ \A t2 \in tx' : t2.late /\ \E t \in tx :
              t2.order = t.order /\ t2.how = t.how /\ t2.row = t.row /\ t2.missed = t.missed
<1> DEFINE Told(t) == [t EXCEPT !.late = TRUE]
<1>1. tx' = {Told(t) : t \in tx}
  BY DEF Feed!Late
<1>2. \A t \in FeedTx : /\ Told(t) \in FeedTx /\ Told(t).late
                        /\ Told(t).order = t.order /\ Told(t).how = t.how
                        /\ Told(t).row = t.row /\ Told(t).missed = t.missed
  BY DEF FeedTx
<1> HIDE DEF Told
<1>3. tx' = {} \/ \E t \in FeedTx : tx' = {Told(t)} /\ t \in tx
  BY <1>1 DEF FeedInv, FeedTypes
<1> QED  BY <1>2, <1>3

LEMMA FeedLateAnnounced ==
  ASSUME FeedInv, Feed!Late, UNCHANGED << order, gathered >> PROVE FeedAnnounced'
<1>1. \A t2 \in tx' : t2.late /\ \E t \in tx :
              t2.order = t.order /\ t2.how = t.how /\ t2.row = t.row /\ t2.missed = t.missed
  BY FeedLate
<1>2. \A t2 \in tx' : \E t \in tx :
           /\ t2.order = t.order /\ t2.how = t.how /\ t2.row = t.row /\ (t.late => t2.late)
           /\ (~t2.missed => ~t.missed /\ gathered')
  BY <1>1 DEF FeedInv, FeedAnnounced
<1>3. ~\E t2 \in tx' : ~t2.late
  BY <1>1
<1> QED  BY <1>2, <1>3, FeedAnnouncedKept

LEMMA FeedFlushOrders == ASSUME FeedInv, NEW w \in Workers, Feed!FlushOrders(w) PROVE FeedInv'
<1> DEFINE found == Feed!Owed(feedJob[w].orders, feedJob[w].clients)
           j == IF found = {} THEN Feed!NoJob ELSE [Feed!NoJob EXCEPT !.at = "aprende",
             !.clients = found]
<1>1. feedJob[w] \in FeedJobs /\ feedJob[w].at = "busca" /\ feedJob[w].client = Feed!Nobody
  BY DEF Feed!FlushOrders, FeedInv, FeedTypes, FeedJobOK
<1>2. /\ found \subseteq Clients /\ feedJob[w].clients \subseteq found
      /\ \A o \in feedJob[w].orders : order[o].client \in Clients => order[o].client \in found
  <2>1. \A o \in Orders : order[o].client \in Clients \cup {Feed!Nobody}
    BY FeedRow DEF FeedInv, FeedTypes, Feed!NoRow
  <2>2. feedJob[w].orders \subseteq Orders /\ feedJob[w].clients \subseteq Clients
    BY <1>1 DEF FeedJobs
  <2>3. \A o \in feedJob[w].orders : order[o].client \in Clients => order[o].client # Feed!Nobody
    BY FeedAssumption DEF Feed!Nobody
  <2> QED  BY <2>1, <2>2, <2>3 DEF Feed!Owed
<1>3. /\ j \in FeedJobs /\ j.at \in {"libre", "aprende"} /\ j.client = Feed!Nobody
      /\ j.orders = {} /\ j.clients = found
  BY <1>2, FeedNoJob DEF FeedJobs
<1>4. /\ Feed!Late /\ Feed!Set(w, j)
      /\ UNCHANGED << order, pending, gathered, profile, booting, fresh, excused, writes,
           setbacks >>
  BY DEF Feed!FlushOrders
<1> HIDE DEF j, found
<1>5. feedJob' = [feedJob EXCEPT ![w] = j]
  BY <1>4 DEF Feed!Set
<1>6. feedJob'[w] = j /\ \A v \in Workers \ {w} : feedJob'[v] = feedJob[v]
  BY <1>5 DEF FeedInv, FeedTypes
<1>7. FeedTypes'
  <2>1. tx' = {} \/ \E t \in FeedTx : tx' = {t}
    BY <1>4, FeedLate
  <2> QED  BY <1>3, <1>4, <1>5, <2>1 DEF FeedInv, FeedTypes
<1>8. \A v \in Workers : FeedJobOK(v)'
  BY <1>3, <1>6 DEF FeedInv, FeedJobOK
<1>9. ASSUME NEW c \in Clients PROVE FeedOwing(c) => FeedOwing(c)'
  <2>1. ~FeedSaves(w, c)
    BY <1>1 DEF FeedSaves
  <2>2. FeedAsksFor(w, c) => FeedAsksFor(w, c)'
    BY <1>2, <1>3, <1>6, FeedAssumption DEF FeedAsksFor, Feed!Nobody
  <2>3. \A v \in Workers \ {w} : FeedAsksFor(v, c)' = FeedAsksFor(v, c)
          /\ FeedSaves(v, c)' = FeedSaves(v, c)
    BY <1>4, <1>6 DEF FeedAsksFor, FeedSaves, Feed!History
  <2> QED  BY <1>4, <2>1, <2>2, <2>3 DEF FeedWaiting, FeedOwing
<1>10. FeedLearned' /\ FeedSaving'
  BY <1>3, <1>4, <1>6, <1>9, FeedLearnedKept, FeedSavingKept DEF StillOwed
<1>11. FeedAnnounced'
  BY <1>4, FeedLateAnnounced
<1> QED  BY <1>4, <1>7, <1>8, <1>10, <1>11 DEF FeedInv, FeedShown

LEMMA FeedRebuildRead == ASSUME FeedInv, NEW w \in Workers, Feed!RebuildRead(w) PROVE FeedInv'
<1>1. feedJob[w] \in FeedJobs /\ feedJob[w].at = "aprende"
        /\ feedJob[w].client = Feed!Nobody /\ feedJob[w].orders = {}
  BY DEF Feed!RebuildRead, FeedInv, FeedTypes, FeedJobOK
<1>2. PICK c \in feedJob[w].clients :
        /\ Feed!Set(w, [feedJob[w] EXCEPT !.at = "guarda", !.client = c, !.read =
             Feed!History(c), !.passed = FALSE])
        /\ excused' = [excused EXCEPT ![c] = {}]
  BY DEF Feed!RebuildRead
<1>3. c \in Clients
  BY <1>1 DEF FeedJobs
<1> DEFINE j == [feedJob[w] EXCEPT !.at = "guarda", !.client = c, !.read = Feed!History(c),
             !.passed = FALSE]
<1>4. Feed!History(c) \in FeedLearnable
  BY <1>3, FeedHistory DEF FeedInv, FeedTypes
<1>5. /\ j \in FeedJobs /\ j.at = "guarda" /\ j.client = c /\ j.read = Feed!History(c) /\ ~j.passed
      /\ j.clients = feedJob[w].clients /\ j.orders = {}
  BY <1>1, <1>3, <1>4 DEF FeedJobs
<1>6. feedJob' = [feedJob EXCEPT ![w] = j]
  BY <1>2 DEF Feed!Set
<1> HIDE DEF j
<1>7. feedJob'[w] = j /\ \A v \in Workers \ {w} : feedJob'[v] = feedJob[v]
  BY <1>6 DEF FeedInv, FeedTypes
<1>8. /\ Feed!Late /\ UNCHANGED << order, pending, gathered, profile, booting, fresh, writes,
           setbacks >>
  BY DEF Feed!RebuildRead
<1>9. /\ excused' \in [Feed!Followers -> SUBSET Reasons]
          /\ excused'["pantallas"] = excused["pantallas"]
      /\ \A d \in Clients \ {c} : excused'[d] = excused[d]
  BY <1>2, <1>3, FeedFollowers DEF FeedInv, FeedTypes
<1>10. FeedTypes'
  <2>1. tx' = {} \/ \E t \in FeedTx : tx' = {t}
    BY <1>8, FeedLate
  <2> QED  BY <1>5, <1>6, <1>8, <1>9, <2>1 DEF FeedInv, FeedTypes
<1>11. \A v \in Workers : FeedJobOK(v)'
  BY <1>2, <1>5, <1>7 DEF FeedInv, FeedJobOK
<1>12. \A d \in Clients : Feed!History(d)' = Feed!History(d)
  BY <1>8 DEF Feed!History
<1>13. FeedOwing(c)'
  BY <1>3, <1>5, <1>7, <1>12 DEF FeedOwing, FeedSaves
<1>14. ASSUME NEW d \in Clients \ {c} PROVE FeedOwing(d) => FeedOwing(d)'
  <2>1. ~FeedSaves(w, d)
    BY <1>1 DEF FeedSaves
  <2>2. FeedAsksFor(w, d) => FeedAsksFor(w, d)'
    BY <1>1, <1>5, <1>7 DEF FeedAsksFor
  <2>3. \A v \in Workers \ {w} : FeedAsksFor(v, d)' = FeedAsksFor(v, d)
          /\ FeedSaves(v, d)' = FeedSaves(v, d)
    BY <1>7, <1>8, <1>12 DEF FeedAsksFor, FeedSaves
  <2> QED  BY <1>8, <2>1, <2>2, <2>3 DEF FeedWaiting, FeedOwing
<1>15. FeedLearned'
  <2>1. ASSUME NEW d \in Clients, excused'[d] = {}
        PROVE  FeedUpToDate(d)' \/ FeedOwing(d)' \/ (booting' /\ profile'[d] = {})
    <3>1. CASE d = c
      BY <1>13, <3>1
    <3>2. CASE d # c
      <4>1. FeedUpToDate(d) \/ FeedOwing(d) \/ (booting /\ profile[d] = {})
        BY <1>9, <2>1, <3>2 DEF FeedInv, FeedLearned
      <4>2. FeedUpToDate(d)' = FeedUpToDate(d)
        BY <1>8 DEF FeedUpToDate, Feed!History
      <4> QED  BY <1>8, <1>14, <3>2, <4>1, <4>2
    <3> QED  BY <3>1, <3>2
  <2> QED  BY <2>1 DEF FeedLearned
<1>16. FeedSaving'
  <2>1. ASSUME NEW v \in Workers, NEW d \in Clients, feedJob'[v].at = "guarda",
               feedJob'[v].client = d,
               ~feedJob'[v].passed, excused'[d] = {}
        PROVE  FeedOwing(d)'
    <3>1. CASE d = c
      BY <1>13, <3>1
    <3>2. CASE d # c
      <4>1. v # w /\ feedJob'[v] = feedJob[v] /\ excused[d] = {}
        BY <1>5, <1>7, <1>9, <2>1, <3>2
      <4> QED  BY <1>14, <2>1, <3>2, <4>1 DEF FeedInv, FeedSaving
    <3> QED  BY <3>1, <3>2
  <2> QED  BY <2>1 DEF FeedSaving
<1>17. FeedAnnounced'
  BY <1>8, FeedLateAnnounced
<1> QED  BY <1>8, <1>9, <1>10, <1>11, <1>15, <1>16, <1>17 DEF FeedInv, FeedShown

LEMMA FeedPassed ==
  ASSUME NEW j \in FeedJobs
  PROVE  /\ [j EXCEPT !.passed = TRUE] \in FeedJobs /\ [j EXCEPT !.passed = TRUE].passed
         /\ [j EXCEPT !.passed = TRUE].at = j.at /\ [j EXCEPT !.passed = TRUE].client = j.client
         /\ [j EXCEPT !.passed = TRUE].clients = j.clients
              /\ [j EXCEPT !.passed = TRUE].read = j.read
         /\ [j EXCEPT !.passed = TRUE].orders = j.orders
BY DEF FeedJobs

LEMMA FeedRebuildSave == ASSUME FeedInv, NEW w \in Workers, Feed!RebuildSave(w) PROVE FeedInv'
<1>1. /\ feedJob[w] \in FeedJobs /\ feedJob[w].at = "guarda"
      /\ feedJob[w].client \in feedJob[w].clients
      /\ feedJob[w].orders = {}
  BY DEF Feed!RebuildSave, FeedInv, FeedTypes, FeedJobOK
<1>2. PICK c \in Clients, h \in FeedLearnable : c = feedJob[w].client /\ h = feedJob[w].read
  BY <1>1 DEF FeedJobs
<1>3. PICK rest \in SUBSET Clients : rest = feedJob[w].clients \ {c}
  BY <1>1 DEF FeedJobs
<1> DEFINE next == IF rest = {} THEN Feed!NoJob ELSE [Feed!NoJob EXCEPT !.at = "aprende",
             !.clients = rest]
<1>4. /\ next \in FeedJobs /\ next.at \in {"libre", "aprende"} /\ next.client = Feed!Nobody
      /\ next.orders = {} /\ next.clients = rest
  BY FeedNoJob DEF FeedJobs
<1>5. /\ profile' = [profile EXCEPT ![c] = {h}]
      /\ IF feedJob[w].passed /\ h # Feed!History(c) THEN Feed!Excuse({c},
           "cruce") ELSE UNCHANGED excused
      /\ feedJob' = [v \in Workers |->
           IF v = w THEN next
           ELSE IF feedJob[v].at = "guarda" /\ feedJob[v].client = c
                  THEN [feedJob[v] EXCEPT !.passed = TRUE] ELSE feedJob[v]]
      /\ UNCHANGED << order, tx, pending, gathered, booting, fresh, writes, setbacks >>
  BY <1>2, <1>3 DEF Feed!RebuildSave
<1> HIDE DEF next
<1>6. feedJob'[w] = next
  BY <1>5
<1>7. ASSUME NEW v \in Workers \ {w}
      PROVE  /\ feedJob'[v] \in FeedJobs /\ feedJob'[v].at = feedJob[v].at
             /\ feedJob'[v].client = feedJob[v].client
             /\ feedJob'[v].clients = feedJob[v].clients /\ feedJob'[v].read = feedJob[v].read
             /\ feedJob'[v].orders = feedJob[v].orders
             /\ feedJob[v].passed => feedJob'[v].passed
             /\ feedJob[v].at = "guarda" /\ feedJob[v].client = c => feedJob'[v].passed
  <2>1. feedJob[v] \in FeedJobs
    BY DEF FeedInv, FeedTypes
  <2>2. CASE feedJob[v].at = "guarda" /\ feedJob[v].client = c
    <3>1. feedJob'[v] = [feedJob[v] EXCEPT !.passed = TRUE]
      BY <1>5, <2>2
    <3> QED  BY <2>1, <3>1, FeedPassed
  <2>3. CASE ~(feedJob[v].at = "guarda" /\ feedJob[v].client = c)
    <3>1. feedJob'[v] = feedJob[v]
      BY <1>5, <2>3
    <3> QED  BY <2>1, <2>3, <3>1
  <2> QED  BY <2>2, <2>3
<1>8. /\ excused' \in [Feed!Followers -> SUBSET Reasons]
      /\ \A f \in Feed!Followers : excused[f] \subseteq excused'[f]
      /\ \A f \in Feed!Followers \ {c} : excused'[f] = excused[f]
      /\ feedJob[w].passed /\ h # Feed!History(c) => excused'[c] # {}
  <2>1. CASE feedJob[w].passed /\ h # Feed!History(c)
    <3>1. Feed!Excuse({c}, "cruce") /\ "cruce" \in Reasons
      BY <1>5, <2>1 DEF Reasons
    <3> QED  BY <3>1, FeedExcuse, FeedFollowers
  <2>2. CASE ~(feedJob[w].passed /\ h # Feed!History(c))
    BY <1>5, <2>2 DEF FeedInv, FeedTypes
  <2> QED  BY <2>1, <2>2
<1>9. FeedTypes'
  <2>1. feedJob' \in [Workers -> FeedJobs]
    <3>1. \A v \in Workers : feedJob'[v] \in FeedJobs
      BY <1>4, <1>6, <1>7
    <3> QED  BY <1>5, <3>1
  <2>2. /\ profile' \in [Clients -> SUBSET FeedLearnable]
        /\ \A d \in Clients : profile'[d] = {} \/ \E x \in FeedLearnable : profile'[d] = {x}
    BY <1>5 DEF FeedInv, FeedTypes
  <2> QED  BY <1>5, <1>8, <2>1, <2>2 DEF FeedInv, FeedTypes
<1>10. \A v \in Workers : FeedJobOK(v)'
  BY <1>4, <1>6, <1>7 DEF FeedInv, FeedJobOK
<1>11. \A d \in Clients : Feed!History(d)' = Feed!History(d)
  BY <1>5 DEF Feed!History
<1>12. ASSUME NEW d \in Clients
       PROVE  /\ FeedWaiting(d) => FeedWaiting(d)'
              /\ FeedOwing(d) /\ (d = c => h # Feed!History(c)) => FeedOwing(d)'
  <2>1. FeedAsksFor(w, d) => FeedAsksFor(w, d)'
    BY <1>1, <1>2, <1>3, <1>4, <1>6, FeedAssumption DEF FeedAsksFor, Feed!Nobody
  <2>2. \A v \in Workers \ {w} : FeedAsksFor(v, d)' = FeedAsksFor(v, d)
          /\ FeedSaves(v, d)' = FeedSaves(v, d)
    BY <1>5, <1>7, <1>11 DEF FeedAsksFor, FeedSaves
  <2>3. FeedSaves(w, d) => d = c /\ h = Feed!History(c)
    BY <1>2 DEF FeedSaves
  <2> QED  BY <1>5, <2>1, <2>2, <2>3 DEF FeedWaiting, FeedOwing
<1>13. h = Feed!History(c) => FeedUpToDate(c)'
  <2>1. profile'[c] = {h}
    BY <1>5 DEF FeedInv, FeedTypes
  <2> QED  BY <1>11, <2>1 DEF FeedUpToDate
<1>14. h # Feed!History(c) /\ excused'[c] = {} => FeedOwing(c)'
  <2> SUFFICES ASSUME h # Feed!History(c), excused'[c] = {} PROVE FeedOwing(c)'
    OBVIOUS
  <2>1. ~feedJob[w].passed /\ excused[c] = {}
    BY <1>8, FeedFollowers
  <2>2. FeedOwing(c)
    BY <1>1, <1>2, <2>1 DEF FeedInv, FeedSaving
  <2> QED  BY <1>12, <2>2
<1>15. FeedLearned'
  <2>1. ASSUME NEW d \in Clients, excused'[d] = {}
        PROVE  FeedUpToDate(d)' \/ FeedOwing(d)' \/ (booting' /\ profile'[d] = {})
    <3>1. CASE d = c
      BY <1>13, <1>14, <2>1, <3>1
    <3>2. CASE d # c
      <4>1. profile'[d] = profile[d] /\ excused[d] = {}
        BY <1>5, <1>8, <2>1, <3>2, FeedFollowers DEF FeedInv, FeedTypes
      <4>2. FeedUpToDate(d) \/ FeedOwing(d) \/ (booting /\ profile[d] = {})
        BY <4>1 DEF FeedInv, FeedLearned
      <4>3. FeedUpToDate(d)' = FeedUpToDate(d)
        BY <1>5, <1>11, <4>1 DEF FeedUpToDate
      <4> QED  BY <1>5, <1>12, <3>2, <4>1, <4>2, <4>3
    <3> QED  BY <3>1, <3>2
  <2> QED  BY <2>1 DEF FeedLearned
<1>16. FeedSaving'
  <2>1. ASSUME NEW v \in Workers, NEW d \in Clients, feedJob'[v].at = "guarda",
               feedJob'[v].client = d,
               ~feedJob'[v].passed, excused'[d] = {}
        PROVE  FeedOwing(d)'
    <3>1. v # w
      BY <1>4, <1>6, <2>1
    <3>2. feedJob[v].at = "guarda" /\ feedJob[v].client = d /\ ~feedJob[v].passed /\ d # c
      BY <1>7, <2>1, <3>1
    <3>3. excused[d] = {}
      BY <1>8, <2>1, FeedFollowers
    <3>4. FeedOwing(d)
      BY <3>2, <3>3 DEF FeedInv, FeedSaving
    <3> QED  BY <1>12, <3>2, <3>4
  <2> QED  BY <2>1 DEF FeedSaving
<1>17. FeedAnnounced'
  <2>1. \A d \in Clients : excused[d] \subseteq excused'[d] /\ (FeedWaiting(d) => FeedStillWaits(d))
    BY <1>8, <1>12, FeedFollowers DEF FeedStillWaits
  <2>2. \A t2 \in tx' : \E t \in tx :
           /\ t2.order = t.order /\ t2.how = t.how /\ t2.row = t.row /\ (t.late => t2.late)
           /\ (~t2.missed => ~t.missed /\ gathered')
    BY <1>5 DEF FeedInv, FeedAnnounced
  <2> QED  BY <1>5, <2>1, <2>2, FeedAnnouncedKept
<1>18. FeedShown'
  BY <1>5, <1>8, FeedFollowers DEF FeedInv, FeedShown
<1> QED  BY <1>9, <1>10, <1>15, <1>16, <1>17, <1>18 DEF FeedInv

LEMMA FeedOwed ==
  ASSUME FeedInv, NEW os \in SUBSET Orders, NEW cs \in SUBSET Clients
  PROVE  \A c \in Clients : c \in cs \/ (\E o \in os : order[o].client = c) =>
           c \in Feed!Owed(os, cs)
BY FeedAssumption DEF Feed!Owed, Feed!Nobody

LEMMA FeedRebuildFail == ASSUME FeedInv, NEW w \in Workers, Feed!RebuildFail(w) PROVE FeedInv'
<1> DEFINE owed == Feed!Owed(feedJob[w].orders, feedJob[w].clients)
<1>1. /\ setbacks < MaxSetbacks /\ setbacks' = setbacks + 1
      /\ Feed!Excuse(owed, "fallo") /\ Feed!Set(w, Feed!NoJob)
      /\ UNCHANGED << order, tx, pending, gathered, profile, booting, fresh, writes >>
  BY DEF Feed!RebuildFail
<1>2. /\ feedJob[w].orders \in SUBSET Orders /\ feedJob[w].clients \in SUBSET Clients
      /\ feedJob[w].at = "guarda" => feedJob[w].client \in feedJob[w].clients
  BY DEF FeedInv, FeedTypes, FeedJobs, FeedJobOK
<1>3. \A c \in Clients : FeedAsksFor(w, c) \/ FeedSaves(w, c) => c \in owed
  BY <1>2, FeedOwed DEF FeedAsksFor, FeedSaves
<1> HIDE DEF owed
<1>4. feedJob' = [feedJob EXCEPT ![w] = Feed!NoJob]
  BY <1>1 DEF Feed!Set
<1>5. feedJob'[w] = Feed!NoJob /\ \A v \in Workers \ {w} : feedJob'[v] = feedJob[v]
  BY <1>4 DEF FeedInv, FeedTypes
<1>6. /\ excused' \in [Feed!Followers -> SUBSET Reasons]
      /\ \A f \in Feed!Followers : excused[f] \subseteq excused'[f]
      /\ \A c \in Clients : c \in owed => excused'[c] # {}
  BY <1>1, FeedExcuse, FeedFollowers DEF Reasons
<1>7. FeedTypes'
  <2>1. setbacks' \in 0..MaxSetbacks
    BY <1>1, FeedAssumption DEF FeedInv, FeedTypes
  <2> QED  BY <1>1, <1>4, <1>6, <2>1, FeedNoJob DEF FeedInv, FeedTypes
<1>8. \A v \in Workers : FeedJobOK(v)'
  BY <1>5, FeedNoJob DEF FeedInv, FeedJobOK
<1>9. ASSUME NEW c \in Clients PROVE (FeedWaiting(c) => FeedStillWaits(c))
             /\ (FeedOwing(c) => StillOwed(c))
  <2>1. FeedAsksFor(w, c) \/ FeedSaves(w, c) => excused'[c] # {}
    BY <1>3, <1>6
  <2>2. \A v \in Workers \ {w} : FeedAsksFor(v, c)' = FeedAsksFor(v, c)
          /\ FeedSaves(v, c)' = FeedSaves(v, c)
    BY <1>1, <1>5 DEF FeedAsksFor, FeedSaves, Feed!History
  <2> QED  BY <1>1, <2>1, <2>2 DEF FeedWaiting, FeedOwing, FeedStillWaits, StillOwed
<1>10. FeedLearned'
  BY <1>1, <1>6, <1>9, FeedLearnedKept, FeedFollowers
<1>11. FeedSaving'
  <2>1. \A v \in Workers : feedJob'[v].at = "guarda" /\ ~feedJob'[v].passed =>
           feedJob[v].at = "guarda" /\ ~feedJob[v].passed /\ feedJob'[v].client = feedJob[v].client
    BY <1>5, FeedNoJob
  <2> QED  BY <1>6, <1>9, <2>1, FeedSavingKept, FeedFollowers
<1>12. FeedAnnounced'
  <2>1. \A t2 \in tx' : \E t \in tx :
           /\ t2.order = t.order /\ t2.how = t.how /\ t2.row = t.row /\ (t.late => t2.late)
           /\ (~t2.missed => ~t.missed /\ gathered')
    BY <1>1 DEF FeedInv, FeedAnnounced
  <2> QED  BY <1>1, <1>6, <1>9, <2>1, FeedAnnouncedKept, FeedFollowers
<1>13. FeedShown'
  BY <1>1, <1>6, FeedFollowers DEF FeedInv, FeedShown
<1> QED  BY <1>7, <1>8, <1>10, <1>11, <1>12, <1>13 DEF FeedInv

LEMMA FeedRestart == ASSUME FeedInv, Feed!Restart PROVE FeedInv'
<1> DEFINE os == pending.orders \cup UNION {feedJob[w].orders : w \in Workers}
           cs == pending.clients \cup UNION {feedJob[w].clients : w \in Workers}
           fs == Feed!Owed(os, cs) \cup (IF gathered THEN {"pantallas"} ELSE {})
<1>1. /\ setbacks < MaxSetbacks /\ setbacks' = setbacks + 1
      /\ Feed!Excuse(fs, "reinicio")
      /\ tx' = {} /\ pending' = [clients |-> {}, orders |-> {}] /\ gathered' = FALSE
      /\ feedJob' = [w \in Workers |-> Feed!NoJob] /\ booting' = TRUE
      /\ UNCHANGED << order, profile, fresh, writes >>
  BY DEF Feed!Restart
<1>2. os \in SUBSET Orders /\ cs \in SUBSET Clients
  <2>1. pending.orders \subseteq Orders /\ pending.clients \subseteq Clients
    BY DEF FeedInv, FeedTypes
  <2>2. \A w \in Workers : feedJob[w].orders \subseteq Orders
          /\ feedJob[w].clients \subseteq Clients
    BY DEF FeedInv, FeedTypes, FeedJobs
  <2> QED  BY <2>1, <2>2
<1>3. \A w \in Workers : /\ feedJob[w].orders \subseteq os /\ feedJob[w].clients \subseteq cs
                         /\ feedJob[w].at = "guarda" => feedJob[w].client \in cs
  BY DEF FeedInv, FeedJobOK
<1>4. pending.orders \subseteq os /\ pending.clients \subseteq cs
  OBVIOUS
<1>5. /\ excused' \in [Feed!Followers -> SUBSET Reasons]
      /\ \A f \in Feed!Followers : excused[f] \subseteq excused'[f]
           /\ (f \in fs => excused'[f] # {})
  BY <1>1, FeedExcuse DEF Reasons
<1> HIDE DEF os, cs
<1>6. ASSUME NEW c \in Clients, FeedOwing(c) PROVE excused'[c] # {}
  <2>1. c \in cs \/ \E o \in os : order[o].client = c
    BY <1>3, <1>4, <1>6 DEF FeedOwing, FeedWaiting, FeedAsksFor, FeedSaves
  <2>2. c \in Feed!Owed(os, cs)
    BY <1>2, <2>1, FeedOwed
  <2> QED  BY <1>5, <2>2, FeedFollowers
<1>7. FeedTypes'
  <2>1. setbacks' \in 0..MaxSetbacks
    BY <1>1, FeedAssumption DEF FeedInv, FeedTypes
  <2> QED  BY <1>1, <1>5, <2>1, FeedNoJob DEF FeedInv, FeedTypes
<1>8. \A v \in Workers : FeedJobOK(v)' /\ feedJob'[v].at = "libre"
  BY <1>1, FeedNoJob DEF FeedJobOK
<1>9. FeedLearned'
  <2>1. ASSUME NEW c \in Clients, excused'[c] = {}
        PROVE  FeedUpToDate(c)' \/ FeedOwing(c)' \/ (booting' /\ profile'[c] = {})
    <3>1. excused[c] = {} /\ ~FeedOwing(c)
      BY <1>5, <1>6, <2>1, FeedFollowers
    <3>2. FeedUpToDate(c) \/ (booting /\ profile[c] = {})
      BY <3>1 DEF FeedInv, FeedLearned
    <3>3. FeedUpToDate(c)' = FeedUpToDate(c)
      BY <1>1 DEF FeedUpToDate, Feed!History
    <3> QED  BY <1>1, <3>2, <3>3
  <2> QED  BY <2>1 DEF FeedLearned
<1>10. FeedShown'
  BY <1>1, <1>5, FeedFollowers DEF FeedInv, FeedShown
<1> QED  BY <1>1, <1>7, <1>8, <1>9, <1>10 DEF FeedInv, FeedSaving, FeedAnnounced

-----------------------------------------------------------------------------
(* What a write does to a row, and what is announced of it.                 *)
LEMMA FeedAfter ==
  ASSUME FeedInv, NEW o \in Orders, NEW row \in Feed!Rows, NEW how \in FeedHows,
         Feed!After(o, how, row)
  PROVE  /\ how = "alta" => order[o] = Feed!NoRow /\ row.client \in Clients
         /\ how = "edicion" => order[o].client \in Clients /\ row.client \in Clients
         /\ how \in {"lote", "hijo"} => order[o].client \in Clients /\ row.client = order[o].client
         /\ how \in {"borrado", "cuenta"} => order[o].client \in Clients /\ row = Feed!NoRow
         /\ how = "interno" => order[o].client \in Clients /\ row = order[o]
<1>1. order[o] \in Feed!Rows /\ (order[o].client \in Clients <=> order[o] # Feed!NoRow)
      /\ (row.client \in Clients <=> row # Feed!NoRow)
  BY FeedRow DEF FeedInv, FeedTypes
<1>2. ASSUME how \in {"lote", "hijo"} PROVE order[o] # Feed!NoRow /\ row.client = order[o].client
  <2>1. order[o] # Feed!NoRow /\ row = [order[o] EXCEPT !.content = row.content]
    BY <1>2 DEF Feed!After
  <2>2. order[o] \in [client : Clients, content : Feed!Contents]
    BY <1>1, <2>1 DEF Feed!Rows
  <2>3. [order[o] EXCEPT !.content = row.content].client = order[o].client
    BY <2>2
  <2> QED  BY <2>1, <2>3
<1>3. /\ how = "alta" => order[o] = Feed!NoRow /\ row # Feed!NoRow
      /\ how = "edicion" => order[o] # Feed!NoRow /\ row # Feed!NoRow
      /\ how \in {"borrado", "cuenta"} => order[o] # Feed!NoRow /\ row = Feed!NoRow
      /\ how = "interno" => order[o] # Feed!NoRow /\ row = order[o]
  BY DEF Feed!After
<1> QED  BY <1>1, <1>2, <1>3

LEMMA FeedOnChange ==
  ASSUME FeedInv, NEW o \in Orders, NEW row \in Feed!Rows, NEW how \in FeedHows,
         Feed!After(o, how, row),
         pending' = Feed!OnChange(o, how, row)
  PROVE  /\ pending' \in [clients : SUBSET Clients, orders : SUBSET Orders]
         /\ pending.clients \subseteq pending'.clients /\ pending.orders \subseteq pending'.orders
         /\ how \in {"alta", "edicion"} => row.client \in pending'.clients
         /\ how = "borrado" => order[o].client \in pending'.clients
         /\ how \in {"lote", "hijo"} => o \in pending'.orders
<1> DEFINE more == IF how \in {"alta", "edicion"} THEN {row.client} ELSE
                   IF how = "borrado" THEN {order[o].client} ELSE {}
           some == IF how \in {"lote", "hijo"} THEN {o} ELSE {}
<1>1. more \subseteq Clients /\ some \subseteq Orders
  BY FeedAfter
<1>2. pending' = [clients |-> pending.clients \cup more, orders |-> pending.orders \cup some]
  BY DEF Feed!OnChange
<1>3. pending.clients \subseteq Clients /\ pending.orders \subseteq Orders
  BY DEF FeedInv, FeedTypes
<1>4. /\ how \in {"alta", "edicion"} => row.client \in more
      /\ how = "borrado" => order[o].client \in more
      /\ how \in {"lote", "hijo"} => o \in some
  OBVIOUS
<1> HIDE DEF more, some
<1> QED  BY <1>1, <1>2, <1>3, <1>4

LEMMA FeedEmit ==
  ASSUME FeedInv, NEW o \in Orders, NEW row \in Feed!Rows, NEW how \in FeedHows,
         Feed!Emit(o, how, row)
  PROVE  /\ writes' \in 0..MaxWrites /\ gathered' = TRUE /\ Feed!After(o, how, row)
         /\ pending' = Feed!OnChange(o, how, row) /\ \A t \in tx : t.order # o
BY FeedAssumption DEF Feed!Emit, FeedInv, FeedTypes

LEMMA FeedTxWrite ==
  ASSUME FeedInv, NEW o \in Orders, NEW row \in Feed!Rows, NEW how \in FeedHows,
         Feed!TxWrite(o, how, row)
  PROVE  FeedInv'
<1> DEFINE t == [order |-> o, how |-> how, row |-> row, late |-> FALSE, missed |-> FALSE]
<1>1. /\ how \in {"edicion", "lote", "hijo", "cuenta"}
      /\ (how = "edicion" => row.client = order[o].client)
      /\ tx = {} /\ Feed!Emit(o, how, row) /\ tx' = {t}
      /\ UNCHANGED << order, profile, booting, feedJob, fresh, excused, setbacks >>
  BY DEF Feed!TxWrite
<1>2. t \in FeedTx /\ t.order = o /\ t.how = how /\ t.row = row /\ ~t.late /\ ~t.missed
  BY DEF FeedTx
<1> HIDE DEF t
<1>3. /\ writes' \in 0..MaxWrites /\ gathered' = TRUE /\ Feed!After(o, how, row)
      /\ pending' = Feed!OnChange(o, how, row)
  BY <1>1, FeedEmit
<1>4. /\ pending' \in [clients : SUBSET Clients, orders : SUBSET Orders]
      /\ pending.clients \subseteq pending'.clients /\ pending.orders \subseteq pending'.orders
      /\ how = "edicion" => row.client \in pending'.clients
      /\ how \in {"lote", "hijo"} => o \in pending'.orders
  BY <1>3, FeedOnChange
<1>5. FeedTypes'
  BY <1>1, <1>2, <1>3, <1>4 DEF FeedInv, FeedTypes
<1>6. \A c \in Clients : (FeedWaiting(c) => FeedWaiting(c)') /\ (FeedOwing(c) => FeedOwing(c)')
  BY <1>1, <1>4, FeedGrows
<1>7. FeedLearned' /\ FeedSaving'
  BY <1>1, <1>6, FeedLearnedKept, FeedSavingKept DEF StillOwed
<1>8. PICK c \in Clients : c = order[o].client
  BY <1>1, <1>3, FeedAfter
<1>9. IF how = "cuenta" THEN row = Feed!NoRow ELSE row.client = c
  BY <1>1, <1>3, <1>8, FeedAfter
<1>10. how # "cuenta" => FeedWaiting(c)'
  BY <1>1, <1>4, <1>8, <1>9 DEF FeedWaiting
<1>11. FeedAnnounced'
  BY <1>1, <1>2, <1>3, <1>8, <1>9, <1>10 DEF FeedAnnounced
<1> QED  BY <1>1, <1>3, <1>5, <1>7, <1>11 DEF FeedInv, FeedJobOK, FeedShown

(* A row changes: whoever it was of, or is of now, waits or is excused.     *)
LEMMA FeedRowChanges ==
  ASSUME FeedInv, NEW o \in Orders, NEW row \in Feed!Rows, order' = [order EXCEPT ![o] = row],
         UNCHANGED << profile, booting, feedJob >>,
         pending.clients \subseteq pending'.clients, pending.orders \subseteq pending'.orders,
         \A c \in Clients : excused[c] \subseteq excused'[c],
         row # order[o] => \A c \in Clients : order[o].client = c \/ row.client = c =>
           FeedStillWaits(c)
  PROVE  /\ \A c \in Clients : (FeedWaiting(c) => FeedStillWaits(c))
             /\ (FeedOwing(c) => StillOwed(c))
         /\ order' \in [Orders -> Feed!Rows] /\ FeedLearned' /\ FeedSaving'
<1>1. /\ order' \in [Orders -> Feed!Rows] /\ order'[o] = row
      /\ \A x \in Orders \ {o} : order'[x] = order[x]
  BY DEF FeedInv, FeedTypes
<1>2. ASSUME NEW c \in Clients, ~FeedStillWaits(c)
      PROVE  \A x \in Orders : order[x].client = c \/ order'[x].client = c => order'[x] = order[x]
  BY <1>1, <1>2
<1>3. ASSUME NEW c \in Clients, ~FeedStillWaits(c)
      PROVE  /\ FeedWaiting(c) => FeedWaiting(c)'
             /\ FeedOwing(c) => FeedOwing(c)'
             /\ FeedUpToDate(c) => FeedUpToDate(c)'
  <2>1. \A x \in Orders : order[x].client = c \/ order'[x].client = c => order'[x] = order[x]
    BY <1>2, <1>3
  <2>2. Feed!History(c)' = Feed!History(c) /\ ((\A x \in Orders : order[x].client # c) =>
          \A x \in Orders : order'[x].client # c)
    BY <2>1, FeedSameHistory
  <2>3. \A x \in Orders : order[x].client = c => order'[x].client = c
    BY <2>1
  <2>4. pending.orders \subseteq Orders /\ \A w \in Workers : feedJob[w].orders \subseteq Orders
    BY DEF FeedInv, FeedTypes, FeedJobs
  <2>5. \A w \in Workers : (FeedAsksFor(w, c) => FeedAsksFor(w, c)')
          /\ (FeedSaves(w, c) => FeedSaves(w, c)')
    BY <2>2, <2>3, <2>4 DEF FeedAsksFor, FeedSaves
  <2>6. FeedWaiting(c) => FeedWaiting(c)'
    BY <2>3, <2>4, <2>5 DEF FeedWaiting
  <2>7. FeedOwing(c) => FeedOwing(c)'
    BY <2>5, <2>6 DEF FeedOwing
  <2>8. FeedUpToDate(c) => FeedUpToDate(c)'
    BY <2>2 DEF FeedUpToDate
  <2> QED  BY <2>6, <2>7, <2>8
<1>4. \A c \in Clients : FeedStillWaits(c) => StillOwed(c)
  BY DEF FeedStillWaits, StillOwed, FeedOwing
<1>5. \A c \in Clients : (FeedWaiting(c) => FeedStillWaits(c)) /\ (FeedOwing(c) => StillOwed(c))
  BY <1>3, <1>4 DEF FeedStillWaits, StillOwed
<1>6. FeedLearned'
  <2>1. ASSUME NEW c \in Clients, excused'[c] = {}
        PROVE  FeedUpToDate(c)' \/ FeedOwing(c)' \/ (booting' /\ profile'[c] = {})
    <3>1. CASE FeedStillWaits(c)
      BY <1>4, <2>1, <3>1 DEF StillOwed
    <3>2. CASE ~FeedStillWaits(c)
      <4>1. FeedUpToDate(c) \/ FeedOwing(c) \/ (booting /\ profile[c] = {})
        BY <2>1 DEF FeedInv, FeedLearned
      <4> QED  BY <1>3, <3>2, <4>1
    <3> QED  BY <3>1, <3>2
  <2> QED  BY <2>1 DEF FeedLearned
<1>7. FeedSaving'
  BY <1>5, FeedSavingKept
<1> QED  BY <1>1, <1>5, <1>6, <1>7

LEMMA FeedWrite ==
  ASSUME FeedInv, NEW o \in Orders, NEW row \in Feed!Rows, NEW how \in FeedHows,
         Feed!Write(o, how, row)
  PROVE  FeedInv'
<1>1. /\ how # "cuenta" /\ Feed!Emit(o, how, row) /\ order' = [order EXCEPT ![o] = row]
      /\ fresh' = FALSE
      /\ IF how = "edicion" /\ row.client # order[o].client
           THEN Feed!Excuse({order[o].client}, "otra clienta") ELSE UNCHANGED excused
      /\ UNCHANGED << tx, profile, booting, feedJob, setbacks >>
  BY DEF Feed!Write
<1>2. /\ writes' \in 0..MaxWrites /\ gathered' = TRUE /\ Feed!After(o, how, row)
      /\ pending' = Feed!OnChange(o, how, row) /\ \A t \in tx : t.order # o
  BY <1>1, FeedEmit
<1>3. /\ pending' \in [clients : SUBSET Clients, orders : SUBSET Orders]
      /\ pending.clients \subseteq pending'.clients /\ pending.orders \subseteq pending'.orders
      /\ how \in {"alta", "edicion"} => row.client \in pending'.clients
      /\ how = "borrado" => order[o].client \in pending'.clients
      /\ how \in {"lote", "hijo"} => o \in pending'.orders
  BY <1>2, FeedOnChange
<1>4. /\ excused' \in [Feed!Followers -> SUBSET Reasons]
      /\ \A f \in Feed!Followers : excused[f] \subseteq excused'[f]
      /\ how = "edicion" /\ row.client # order[o].client => excused'[order[o].client] # {}
  <2>1. CASE how = "edicion" /\ row.client # order[o].client
    <3>1. Feed!Excuse({order[o].client}, "otra clienta") /\ "otra clienta" \in Reasons
      BY <1>1, <2>1 DEF Reasons
    <3>2. order[o].client \in Feed!Followers
      BY <1>2, <2>1, FeedAfter, FeedFollowers
    <3> QED  BY <3>1, <3>2, FeedExcuse
  <2>2. CASE ~(how = "edicion" /\ row.client # order[o].client)
    BY <1>1, <2>2 DEF FeedInv, FeedTypes
  <2> QED  BY <2>1, <2>2
<1>5. \A c \in Clients : excused[c] \subseteq excused'[c]
  BY <1>4, FeedFollowers
<1>6. order'[o] = row
  BY <1>1 DEF FeedInv, FeedTypes
<1>7. ASSUME row # order[o], NEW c \in Clients, order[o].client = c \/ row.client = c
      PROVE  FeedStillWaits(c)
  <2>1. CASE how = "alta"
    <3>1. order[o].client \notin Clients
      BY <1>2, <2>1, FeedAfter, FeedAssumption DEF Feed!NoRow, Feed!Nobody
    <3> QED  BY <1>3, <1>7, <2>1, <3>1 DEF FeedStillWaits, FeedWaiting
  <2>2. CASE how = "edicion"
    BY <1>3, <1>4, <1>7, <2>2 DEF FeedStillWaits, FeedWaiting
  <2>3. CASE how \in {"lote", "hijo"}
    <3>1. row.client = c
      BY <1>2, <1>7, <2>3, FeedAfter
    <3> QED  BY <1>3, <1>6, <2>3, <3>1 DEF FeedStillWaits, FeedWaiting
  <2>4. CASE how = "borrado"
    <3>1. row.client \notin Clients
      BY <1>2, <2>4, FeedAfter, FeedAssumption DEF Feed!NoRow, Feed!Nobody
    <3> QED  BY <1>3, <1>7, <2>4, <3>1 DEF FeedStillWaits, FeedWaiting
  <2>5. CASE how = "interno"
    BY <1>2, <1>7, <2>5, FeedAfter
  <2> QED  BY <1>1, <2>1, <2>2, <2>3, <2>4, <2>5 DEF FeedHows
<1>8. /\ \A c \in Clients : (FeedWaiting(c) => FeedStillWaits(c)) /\ (FeedOwing(c) => StillOwed(c))
      /\ order' \in [Orders -> Feed!Rows] /\ FeedLearned' /\ FeedSaving'
  BY <1>1, <1>3, <1>5, <1>7, FeedRowChanges
<1>9. FeedTypes'
  BY <1>1, <1>2, <1>3, <1>4, <1>8 DEF FeedInv, FeedTypes
<1>10. FeedAnnounced'
  <2> SUFFICES ASSUME NEW t \in tx PROVE
         /\ order'[t.order].client \in Clients
         /\ IF t.how = "cuenta" THEN t.row = Feed!NoRow ELSE t.row.client = order'[t.order].client
         /\ \A c \in Clients : order'[t.order].client = c /\ t.how # "cuenta" /\ ~t.late =>
                                 excused'[c] # {} \/ FeedWaiting(c)'
    BY <1>1, <1>2 DEF FeedAnnounced
  <2>1. order'[t.order] = order[t.order]
    <3>1. t.order \in Orders /\ t.order # o
      BY <1>2 DEF FeedInv, FeedTypes, FeedTx
    <3> QED  BY <1>1, <3>1 DEF FeedInv, FeedTypes
  <2>2. \A c \in Clients : excused[c] # {} \/ FeedWaiting(c) => excused'[c] # {} \/ FeedWaiting(c)'
    BY <1>5, <1>8 DEF FeedStillWaits
  <2> QED  BY <2>1, <2>2 DEF FeedInv, FeedAnnounced
<1> QED  BY <1>1, <1>2, <1>8, <1>9, <1>10 DEF FeedInv, FeedJobOK, FeedShown

LEMMA FeedCommit == ASSUME FeedInv, Feed!Commit PROVE FeedInv'
<1>1. PICK t \in tx :
        /\ order' = [order EXCEPT ![t.order] = t.row]
        /\ LET c == order[t.order].client
           IN excused' = [f \in Feed!Followers |->
                excused[f] \cup (IF (f = c /\ t.late) \/ (f = "pantallas" /\ t.missed)
                                   THEN {"antes de tiempo"} ELSE {})
                           \cup (IF f = c /\ t.how = "cuenta" THEN {"cuenta"} ELSE {})]
  BY DEF Feed!Commit
<1>2. /\ tx' = {} /\ fresh' = FALSE
      /\ UNCHANGED << pending, gathered, profile, booting, feedJob, writes, setbacks >>
  BY DEF Feed!Commit
<1>3. t \in FeedTx
  BY DEF FeedInv, FeedTypes
<1>4. PICK o \in Orders, row \in Feed!Rows : o = t.order /\ row = t.row
  BY <1>3 DEF FeedTx
<1>5. PICK c \in Clients : c = order[o].client
  BY <1>4 DEF FeedInv, FeedAnnounced
<1>6. /\ excused' = [f \in Feed!Followers |->
           excused[f] \cup (IF (f = c /\ t.late) \/ (f = "pantallas" /\ t.missed)
                              THEN {"antes de tiempo"} ELSE {})
                      \cup (IF f = c /\ t.how = "cuenta" THEN {"cuenta"} ELSE {})]
  BY <1>1, <1>4, <1>5
<1>7. /\ excused' \in [Feed!Followers -> SUBSET Reasons]
      /\ \A f \in Feed!Followers : excused[f] \subseteq excused'[f]
      /\ t.late \/ t.how = "cuenta" => excused'[c] # {}
      /\ t.missed => excused'["pantallas"] # {}
  <2>1. ASSUME NEW f \in Feed!Followers
        PROVE  excused'[f] \subseteq Reasons /\ excused[f] \subseteq excused'[f]
    <3>1. excused[f] \subseteq Reasons
      BY DEF FeedInv, FeedTypes
    <3> QED  BY <1>6, <3>1 DEF Reasons
  <2>2. c \in Feed!Followers /\ "pantallas" \in Feed!Followers
    BY FeedFollowers
  <2>3. t.late \/ t.how = "cuenta" => excused'[c] # {}
    BY <1>6, <2>2
  <2>4. t.missed => excused'["pantallas"] # {}
    BY <1>6, <2>2
  <2> QED  BY <1>6, <2>1, <2>3, <2>4
<1>8. \A d \in Clients : excused[d] \subseteq excused'[d]
  BY <1>7, FeedFollowers
<1>9. order' = [order EXCEPT ![o] = row]
  BY <1>1, <1>4
<1>10. ASSUME NEW d \in Clients, order[o].client = d \/ row.client = d PROVE FeedStillWaits(d)
  <2>1. d = c
    BY <1>4, <1>5, <1>10, FeedAssumption DEF FeedInv, FeedAnnounced, Feed!NoRow, Feed!Nobody
  <2>2. CASE t.late \/ t.how = "cuenta"
    BY <1>7, <2>1, <2>2 DEF FeedStillWaits
  <2>3. CASE ~(t.late \/ t.how = "cuenta")
    <3>1. excused[c] # {} \/ FeedWaiting(c)
      BY <1>4, <1>5, <2>3 DEF FeedInv, FeedAnnounced
    <3>2. row.client = c
      BY <1>4, <1>5, <2>3 DEF FeedInv, FeedAnnounced
    <3>3. \A x \in Orders : order'[x].client = order[x].client
      BY <1>5, <1>9, <3>2 DEF FeedInv, FeedTypes
    <3>4. pending.orders \subseteq Orders /\ \A w \in Workers : feedJob[w].orders \subseteq Orders
      BY DEF FeedInv, FeedTypes, FeedJobs
    <3>5. FeedWaiting(c) => FeedWaiting(c)'
      BY <1>2, <3>3, <3>4 DEF FeedWaiting, FeedAsksFor
    <3> QED  BY <1>8, <2>1, <3>1, <3>5 DEF FeedStillWaits
  <2> QED  BY <2>2, <2>3
<1>11. order' \in [Orders -> Feed!Rows] /\ FeedLearned' /\ FeedSaving'
  BY <1>2, <1>8, <1>9, <1>10, FeedRowChanges
<1>12. FeedTypes'
  BY <1>2, <1>7, <1>11 DEF FeedInv, FeedTypes
<1>13. FeedShown'
  BY <1>2, <1>7 DEF FeedInv, FeedAnnounced, FeedShown
<1> QED  BY <1>2, <1>11, <1>12, <1>13 DEF FeedInv, FeedJobOK, FeedAnnounced

LEMMA FeedInvStep == FeedInv /\ Feed!Next => FeedInv'
<1> SUFFICES ASSUME FeedInv, Feed!Next PROVE FeedInv'
  OBVIOUS
<1>1. ASSUME NEW o \in Orders, NEW row \in Feed!Rows, NEW how \in FeedHows,
             Feed!Write(o, how, row) \/ Feed!TxWrite(o, how, row)
      PROVE  FeedInv'
  BY <1>1, FeedWrite, FeedTxWrite
<1>2. CASE Feed!Commit \/ Feed!Rollback \/ Feed!FlushScreens \/ Feed!Restart
  BY <1>2, FeedCommit, FeedRollback, FeedFlushScreens, FeedRestart
<1>3. ASSUME NEW w \in Workers,
             \/ Feed!Flush(w) \/ Feed!FlushOrders(w) \/ Feed!RebuildRead(w) \/ Feed!RebuildSave(w)
             \/ Feed!RebuildFail(w) \/ Feed!Backfill(w)
      PROVE  FeedInv'
  BY <1>3, FeedFlush, FeedFlushOrders, FeedRebuildRead, FeedRebuildSave, FeedRebuildFail,
     FeedBackfill
<1>4. CASE \E w \in Workers, c \in Clients : Feed!GetProfile(w, c)
  BY <1>4, FeedGetProfile
<1> QED  BY <1>1, <1>2, <1>3, <1>4 DEF Feed!Next, FeedHows

-----------------------------------------------------------------------------
(* The office: the machine that is the subject keeps its invariant.         *)

OfficeInv ==
  /\ subject \in {"calendario", "presencia", "chat", "cotizaciones", "area", "cuentas", "cambios"}
  /\ subject = "calendario"   => ReminderInv
  /\ subject = "presencia"    => PresenceInv
  /\ subject = "chat"         => ChatInv
  /\ subject = "cotizaciones" => QuoteInv
  /\ subject = "area"         => UpkeepInv
  /\ subject = "cuentas"      => AccountInv
  /\ subject = "cambios"      => FeedInv

LEMMA OfficeInvInit == Init => OfficeInv
<1> SUFFICES ASSUME Init PROVE OfficeInv
  OBVIOUS
<1>1. \/ subject = "calendario" /\ Calendar!Init
      \/ subject = "presencia" /\ Online!Init
      \/ subject = "chat" /\ Chat!Init
      \/ subject = "cotizaciones" /\ Quotes!Init
      \/ subject = "area" /\ Upkeep!Init
      \/ subject = "cuentas" /\ People!Init
      \/ subject = "cambios" /\ Feed!Init
  BY DEF Init
<1> QED  BY <1>1, ReminderInvInit, PresenceInvInit, ChatInvInit, QuoteInvInit, UpkeepInvInit,
            AccountInvInit, FeedInvInit DEF OfficeInv

LEMMA OfficeInvStep == OfficeInv /\ [Next]_vars => OfficeInv'
<1> SUFFICES ASSUME OfficeInv, [Next]_vars PROVE OfficeInv'
  OBVIOUS
<1>1. CASE CalendarStep
  <2>1. subject = "calendario" /\ subject' = subject /\ Calendar!Next
    BY <1>1 DEF CalendarStep
  <2> QED  BY <2>1, ReminderInvStep DEF OfficeInv
<1>2. CASE OnlineStep
  <2>1. subject = "presencia" /\ subject' = subject /\ Online!Next
    BY <1>2 DEF OnlineStep
  <2> QED  BY <2>1, PresenceInvStep DEF OfficeInv
<1>3. CASE ChatStep
  <2>1. subject = "chat" /\ subject' = subject /\ Chat!Next
    BY <1>3 DEF ChatStep
  <2> QED  BY <2>1, ChatInvStep DEF OfficeInv
<1>4. CASE QuotesStep
  <2>1. subject = "cotizaciones" /\ subject' = subject /\ Quotes!Next
    BY <1>4 DEF QuotesStep
  <2> QED  BY <2>1, QuoteInvStep DEF OfficeInv
<1>5. CASE UpkeepStep
  <2>1. subject = "area" /\ subject' = subject /\ Upkeep!Next
    BY <1>5 DEF UpkeepStep
  <2> QED  BY <2>1, UpkeepInvStep DEF OfficeInv
<1>6. CASE PeopleStep
  <2>1. subject = "cuentas" /\ subject' = subject /\ People!Next
    BY <1>6 DEF PeopleStep
  <2> QED  BY <2>1, AccountInvStep DEF OfficeInv
<1>7. CASE FeedStep
  <2>1. subject = "cambios" /\ subject' = subject /\ Feed!Next
    BY <1>7 DEF FeedStep
  <2> QED  BY <2>1, FeedInvStep DEF OfficeInv
<1>8. CASE UNCHANGED vars
  <2>1. subject' = subject
    BY <1>8 DEF vars
  <2>2. UNCHANGED Calendar!vars
    BY <1>8 DEF vars, calendarVars, Calendar!vars
  <2>3. UNCHANGED Online!vars
    BY <1>8 DEF vars, onlineVars, Online!vars
  <2>4. UNCHANGED Chat!vars
    BY <1>8 DEF vars, chatVars, Chat!vars
  <2>5. UNCHANGED Quotes!vars
    BY <1>8 DEF vars, quoteVars, Quotes!vars
  <2>6. UNCHANGED Upkeep!vars
    BY <1>8 DEF vars, upkeepVars, Upkeep!vars
  <2>7. UNCHANGED People!vars
    BY <1>8 DEF vars, peopleVars, People!vars
  <2>8. UNCHANGED Feed!vars
    BY <1>8 DEF vars, feedVars, Feed!vars
  <2> QED  BY <2>1, <2>2, <2>3, <2>4, <2>5, <2>6, <2>7, <2>8, ReminderInvKept, PresenceInvKept,
              ChatInvKept, QuoteInvKept, UpkeepInvKept, AccountInvKept, FeedInvKept DEF OfficeInv
<1> QED  BY <1>1, <1>2, <1>3, <1>4, <1>5, <1>6, <1>7, <1>8 DEF Next

LEMMA OfficeInvSafe ==
  OfficeInv => /\ TypeOK /\ RemindedOnce /\ RowsFollowAccess /\ QuoteDated
               /\ RetiredIsIdle /\ AccountsKeepAccess /\ LiveViewsTold
<1> SUFFICES ASSUME OfficeInv
             PROVE  /\ TypeOK /\ RemindedOnce /\ RowsFollowAccess /\ QuoteDated
                    /\ RetiredIsIdle /\ AccountsKeepAccess /\ LiveViewsTold
  OBVIOUS
<1>1. subject = "calendario" => Calendar!TypeOK /\ Calendar!RemindedOnce
  BY ReminderInvSafe DEF OfficeInv
<1>2. subject = "presencia" => Online!TypeOK /\ Online!PresenceTold
  BY DEF OfficeInv, PresenceInv
<1>3. subject = "chat" => Chat!TypeOK /\ Chat!RowsFollowAccess
  BY ChatInvSafe DEF OfficeInv
<1>4. subject = "cotizaciones" => Quotes!TypeOK /\ Quotes!QuoteDated
  BY QuoteInvSafe DEF OfficeInv
<1>5. subject = "area" => Upkeep!TypeOK /\ Upkeep!RetiredIsIdle
  BY UpkeepInvSafe DEF OfficeInv
<1>6. subject = "cuentas" => People!TypeOK /\ People!AccountsKeepAccess
  BY AccountInvSafe DEF OfficeInv
<1>7. subject = "cambios" => Feed!TypeOK /\ Feed!WritesAreFollowed
  BY FeedInvSafe DEF OfficeInv
<1>8. TypeOK
  BY <1>1, <1>2, <1>3, <1>4, <1>5, <1>6, <1>7 DEF TypeOK
<1>9. RemindedOnce /\ RowsFollowAccess /\ QuoteDated /\ RetiredIsIdle /\ AccountsKeepAccess
  BY <1>1, <1>3, <1>4, <1>5, <1>6
     DEF RemindedOnce, RowsFollowAccess, QuoteDated, RetiredIsIdle, AccountsKeepAccess
<1>10. LiveViewsTold
  BY <1>2, <1>7 DEF LiveViewsTold
<1> QED  BY <1>8, <1>9, <1>10

(* In every behaviour the machine that is the subject keeps its invariant.  *)
LEMMA OfficeKeepsInv == Spec => []OfficeInv
<1> QED  BY OfficeInvInit, OfficeInvStep, PTL DEF Spec

-----------------------------------------------------------------------------
(* Whatever the number of requests, orders, clients, areas... the state of  *)
(* each machine is one its tables, maps and requests can be in.             *)
THEOREM Type_Correct == Spec => []TypeOK
BY OfficeKeepsInv, OfficeInvSafe, PTL

(* No reminder of an event is sent twice unless two passes of the cron      *)
(* overlapped, one died between sending and marking or the event changed;   *)
(* and each has been sent when the event comes, unless besides the cron was *)
(* late or a send failed (calendar-reminder.service.ts).                    *)
THEOREM Reminded_Once == Spec => []RemindedOnce
BY OfficeKeepsInv, OfficeInvSafe, PTL

(* Once a request settled the member rows of a conversation, and none with  *)
(* an older reading may still write, they are those of the users with       *)
(* access; and what was there before one's own last message does not count  *)
(* as unread, unless one's row or mark slipped (chat.service.ts).           *)
THEOREM Rows_Follow_Access == Spec => []RowsFollowAccess
BY OfficeKeepsInv, OfficeInvSafe, PTL

(* Whatever requests overlap, a quote is in one tab of the board and under  *)
(* one chip of it, its order came of it alone and after it was accepted;    *)
(* and it is dated exactly while sent, unless an update wrote over one it   *)
(* had not seen (quote.service.ts).                                         *)
THEOREM Quote_Dated == Spec => []QuoteDated
BY OfficeKeepsInv, OfficeInvSafe, PTL

(* An area that is off has no open work and a machine taken away no open    *)
(* task, an order made for the area has its task and the active machines    *)
(* have distinct names, up to the overlaps, old lists, reopenings and       *)
(* deaths that RetiredIsIdle names (area-admin.service.ts).                 *)
THEOREM Retired_Is_Idle == Spec => []RetiredIsIdle
BY OfficeKeepsInv, OfficeInvSafe, PTL

(* No edit leaves an account with neither role nor area, nor that of a      *)
(* branch without its branch, and no order goes with an account, but in the *)
(* overlaps and role or branch edits that AccountsKeepAccess names          *)
(* (user.service.ts).                                                       *)
THEOREM Accounts_Keep_Access == Spec => []AccountsKeepAccess
BY OfficeKeepsInv, OfficeInvSafe, PTL

(* Nobody is shown online for ever, nor offline while online but after an   *)
(* overtaken departure (the gateway's presence); and once what was          *)
(* announced of the orders is followed, the screens and the profiles of the *)
(* clients tell the committed orders, unless for a reason the code has to   *)
(* leave them behind (the change feed).                                     *)
THEOREM Live_Views_Told == Spec => []LiveViewsTold
BY OfficeKeepsInv, OfficeInvSafe, PTL
=============================================================================
