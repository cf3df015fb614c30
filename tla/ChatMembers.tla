---------------------------- MODULE ChatMembers ----------------------------
(***************************************************************************)
(* The members of the conversation of one area and what each has read      *)
(* (ChatService).  Who belongs follows from the roles and areas of the     *)
(* users, and every request that touches the conversation first brings the *)
(* member rows up to date: it reads who belongs, deletes the rows of the   *)
(* others and adds the missing ones, in three calls that overlap those of  *)
(* other requests.                                                         *)
(***************************************************************************)
EXTENDS Integers, Sequences, FiniteSets

CONSTANTS
  Users,
  Workers,       \* requests that may run at the same time
  MaxMessages,   \* bound: messages ever sent
  MaxChanges,    \* bound: changes of roles or areas
  MaxRequests    \* bound: requests ever made

Absent == -1
NoUser == "nadie"
NoJob  == [user |-> NoUser, kind |-> "lista", members |-> {}, at |-> 0,
           clean |-> FALSE]

VARIABLES
  access,     \* users that belong or monitor, by their roles and areas
  sessions,   \* users whose token says so
  read,       \* ChatConversationMember: lastReadAt, or Absent without a row
  messages,   \* senders, in order; the clock of createdAt and lastReadAt
  pc, job,
  settled,    \* history: the rows were made from the present access
  slipped,    \* history: users whose read mark was lost or went back
  changes, requests

vars == << access, sessions, read, messages, pc, job, settled, slipped, changes, requests >>

Init ==
  /\ access \in SUBSET Users
  /\ sessions = access
  /\ read = [u \in Users |-> Absent]
  /\ messages = << >>
  /\ pc = [w \in Workers |-> "libre"] /\ job = [w \in Workers |-> NoJob]
  /\ settled = FALSE /\ slipped = {}
  /\ changes = 0 /\ requests = 0

Rows == {u \in Users : read[u] # Absent}
Goto(w, where) == pc' = [pc EXCEPT ![w] = where]

-----------------------------------------------------------------------------
(* Roles and areas change; a new session sees them, an old one does not.    *)
ChangeAccess(u) ==
  /\ changes < MaxChanges /\ changes' = changes + 1
  /\ access' = (access \ {u}) \cup ({u} \ access)
  /\ sessions' = sessions \cup access'
  /\ settled' = FALSE
  /\ job' = [w \in Workers |-> [job[w] EXCEPT !.clean = FALSE]]
  /\ UNCHANGED << read, messages, pc, slipped, requests >>

(* findConversationsForUser, findMembers and markConversationAsRead check   *)
(* the token's roles (canAccess) and go on to the members.                  *)
Open(w, u, kind) ==
  /\ pc[w] = "libre"
  /\ requests < MaxRequests /\ requests' = requests + 1
  /\ u \in sessions
  /\ Goto(w, "resuelve")
  /\ job' = [job EXCEPT ![w] = [NoJob EXCEPT !.user = u, !.kind = kind]]
  /\ UNCHANGED << access, sessions, read, messages, settled, slipped, changes >>

(* sendMessage: the row of the message and lastMessageAt first.             *)
Send(w, u) ==
  /\ pc[w] = "libre"
  /\ requests < MaxRequests /\ requests' = requests + 1
  /\ u \in sessions
  /\ Len(messages) < MaxMessages
  /\ messages' = Append(messages, u)
  /\ Goto(w, "resuelve")
  /\ job' = [job EXCEPT ![w] = [NoJob EXCEPT !.user = u, !.kind = "envia",
                                             !.at = Len(messages) + 1]]
  /\ UNCHANGED << access, sessions, read, settled, slipped, changes >>

(* syncMembers: resolveMembers, deleteMany, upserts.                        *)
Resolve(w) ==
  /\ pc[w] = "resuelve"
  /\ job' = [job EXCEPT ![w].members = access, ![w].clean = TRUE]
  /\ Goto(w, "depura")
  /\ UNCHANGED << access, sessions, read, messages, settled, slipped, changes, requests >>

Stale(w) == pc[w] \in {"depura", "agrega"} /\ job[w].members # access

(* Mutant of Pruned: those who no longer belong keep their row.             *)
PrunedNone(members) == {}
Pruned(members) == Rows \ members

Prune(w) ==
  /\ pc[w] = "depura"
  /\ read' = [u \in Users |-> IF u \in Pruned(job[w].members) THEN Absent ELSE read[u]]
  /\ slipped' = slipped \cup Pruned(job[w].members)
  /\ settled' = (settled /\ ~Stale(w))
  /\ Goto(w, "agrega")
  /\ UNCHANGED << access, sessions, messages, job, changes, requests >>

Upsert(w) ==
  /\ pc[w] = "agrega"
  /\ read' = [u \in Users |-> IF u \in job[w].members \ Rows THEN 0 ELSE read[u]]
  /\ settled' = (job[w].clean /\ \A v \in Workers : ~Stale(v))
  /\ job' = [v \in Workers |-> [job[v] EXCEPT !.clean = @ /\ ~Stale(w)]]
  /\ Goto(w, "apunta")
  /\ UNCHANGED << access, sessions, messages, slipped, changes, requests >>

(* The user's own mark: the message sent, or now.  Then the members read    *)
(* before the upserts are told over their sockets.                          *)
Moment(w) == IF job[w].kind = "envia" THEN job[w].at ELSE Len(messages)

Finish(w) ==
  LET u == job[w].user IN
  /\ pc[w] = "apunta"
  /\ IF job[w].kind # "lista" /\ u \in Rows
     THEN /\ read' = [read EXCEPT ![u] = Moment(w)]
          /\ slipped' = IF Moment(w) < read[u] THEN slipped \cup {u} ELSE slipped
     ELSE /\ UNCHANGED read
          /\ slipped' = IF job[w].kind = "envia" THEN slipped \cup {u} ELSE slipped
  /\ Goto(w, "libre")
  /\ job' = [job EXCEPT ![w] = NoJob]
  /\ UNCHANGED << access, sessions, messages, settled, changes, requests >>

(* The request fails between two of its calls.                              *)
Fail(w) ==
  /\ pc[w] # "libre"
  /\ Goto(w, "libre")
  /\ job' = [job EXCEPT ![w] = NoJob]
  /\ slipped' = IF job[w].kind = "envia" THEN slipped \cup {job[w].user} ELSE slipped
  /\ UNCHANGED << access, sessions, read, messages, settled, changes, requests >>

-----------------------------------------------------------------------------
Next ==
  \/ \E u \in Users : ChangeAccess(u)
  \/ \E w \in Workers, u \in Users :
       Send(w, u) \/ \E kind \in {"lista", "lee"} : Open(w, u, kind)
  \/ \E w \in Workers : Resolve(w) \/ Prune(w) \/ Upsert(w) \/ Finish(w) \/ Fail(w)

Spec == Init /\ [][Next]_vars

-----------------------------------------------------------------------------
(* Messages of others after the user's mark: unreadCount.                   *)
Unread(u) == {i \in DOMAIN messages : messages[i] # u /\ i > read[u]}

(* Type invariant.                                                          *)
TypeOK ==
  /\ access \subseteq sessions
  /\ read \in [Users -> Absent..MaxMessages]
  /\ messages \in Seq(Users) /\ Len(messages) <= MaxMessages
  /\ pc \in [Workers -> {"libre", "resuelve", "depura", "agrega", "apunta"}]
  /\ slipped \subseteq Users

(* Once a request has brought the rows up to date, and none with an older   *)
(* reading wrote since it began to or still may, the rows are those of the  *)
(* users that belong.  And what                                             *)
(* was there before one's own last message is not counted as unread, unless *)
(* one's row was lost, one's marks were written out of order or the request *)
(* that sent it failed.                                                     *)
RowsFollowAccess ==
  /\ settled => Rows = access
  /\ \A u \in Users \ slipped :
       (\A w \in Workers : job[w].user # u) =>
         \A i \in DOMAIN messages : messages[i] = u => \A k \in Unread(u) : k > i
=============================================================================
