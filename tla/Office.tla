------------------------------- MODULE Office -------------------------------
(***************************************************************************)
(* The machines of the office side by side: the reminders of the calendar, *)
(* who is online, the members of a conversation, the quotes, the upkeep of *)
(* an area, the accounts and who follows the writes of the orders.  They   *)
(* share no state, so a behaviour is one of one of them - its subject -    *)
(* and the others stay where they are; nothing of their interleaving is    *)
(* lost.                                                                   *)
(***************************************************************************)
EXTENDS Integers, Sequences, FiniteSets

CONSTANTS
  Workers,                                        \* requests at the same time
  Orders,                                         \* orders
  Runs, Leads, MaxTime, MaxEdits,                 \* Reminders
  Sockets, MaxConnects,                           \* Presence
  Members, MaxMessages, MaxChanges, MaxChatRequests,      \* ChatMembers
  Ids, QuoteBefore, QuoteAfter, MaxQuoteRequests,           \* QuoteBook
  Names, MaxMachines, MaxRows, MaxAreaRequests,   \* AreaUpkeep
  Users, Roles, Areas, MaxAccountRequests,        \* Accounts
  Clients, MaxWrites, MaxSetbacks                 \* ChangeFeed

VARIABLES
  subject,
  now, event, sent, reminderRun, ticked, reminded, edits, reminderDrift,   \* Reminders
  branchOnly, socket, shown, connects, presenceDrift,                      \* Presence
  access, sessions, read, messages, chatPc, chatJob, settled, slipped,
  changes, chatRequests,                                                   \* ChatMembers
  quote, orders, quotePc, quoteJob, won, quoted, crossed, quoteRequests,   \* QuoteBook
  area, machines, cache, work, areaPc, areaJob, areaRequests, areaDrift,   \* AreaUpkeep
  live, account, role, assignable, open, taken, token, accountPc, accountJob,
  accountDrift, lost, accountRequests,                                     \* Accounts
  order, tx, pending, gathered, profile, booting, feedJob, fresh, excused,
  writes, setbacks                                                         \* ChangeFeed

Calendar == INSTANCE Reminders WITH
  run <- reminderRun, told <- reminded, drift <- reminderDrift
Online == INSTANCE Presence WITH drift <- presenceDrift
Chat == INSTANCE ChatMembers WITH
  Users <- Members, MaxRequests <- MaxChatRequests,
  pc <- chatPc, job <- chatJob, requests <- chatRequests
Quotes == INSTANCE QuoteBook WITH
  Before <- QuoteBefore, After <- QuoteAfter,
  MaxRequests <- MaxQuoteRequests,
  pc <- quotePc, job <- quoteJob, born <- quoted, requests <- quoteRequests
Upkeep == INSTANCE AreaUpkeep WITH
  MaxRequests <- MaxAreaRequests,
  pc <- areaPc, job <- areaJob, requests <- areaRequests, drift <- areaDrift
People == INSTANCE Accounts WITH
  MaxRequests <- MaxAccountRequests,
  area <- assignable, orders <- taken, pc <- accountPc, job <- accountJob,
  drift <- accountDrift, requests <- accountRequests
Feed == INSTANCE ChangeFeed WITH job <- feedJob

(* Times are whole numbers, and a lead is some time ahead.                  *)
ASSUME ReminderAssumption == Leads \subseteq Nat \ {0} /\ MaxTime \in Nat
ASSUME PresenceAssumption == MaxConnects \in Nat
(* The ids the models use for "nobody", "nothing" or "as it was" are no ids.*)
ASSUME ChatAssumption == MaxMessages \in Nat /\ Chat!NoUser \notin Members
ASSUME QuoteAssumption ==
  /\ "lista" \in QuoteBefore /\ "esperando_respuesta" \in QuoteAfter \ QuoteBefore
  /\ Quotes!None \notin Ids \cup Orders \cup QuoteBefore \cup QuoteAfter
ASSUME UpkeepAssumption ==
  /\ IsFiniteSet(Names) /\ MaxMachines \in Nat \ {0} /\ MaxRows \in Nat \ {0}
ASSUME AccountAssumption == People!Nobody \notin Users /\ "igual" \notin Roles \cup Areas
ASSUME FeedAssumption ==
  /\ {"nadie", "pantallas"} \cap Clients = {} /\ MaxWrites \in Nat /\ MaxSetbacks \in Nat

calendarVars == << now, event, sent, reminderRun, ticked, reminded, edits, reminderDrift >>
onlineVars   == << branchOnly, socket, shown, connects, presenceDrift >>
chatVars     == << access, sessions, read, messages, chatPc, chatJob, settled, slipped,
                   changes, chatRequests >>
quoteVars    == << quote, orders, quotePc, quoteJob, won, quoted, crossed, quoteRequests >>
upkeepVars   == << area, machines, cache, work, areaPc, areaJob, areaRequests, areaDrift >>
peopleVars   == << live, account, role, assignable, open, taken, token, accountPc, accountJob,
                   accountDrift, lost, accountRequests >>
feedVars     == << order, tx, pending, gathered, profile, booting, feedJob, fresh, excused,
                   writes, setbacks >>
vars == << subject, calendarVars, onlineVars, chatVars, quoteVars, upkeepVars,
           peopleVars, feedVars >>

(* A machine that is not the subject.                                       *)
CalendarOff ==
  /\ now = "quieto" /\ event = "quieto" /\ sent = "quieto" /\ reminderRun = "quieto"
  /\ ticked = "quieto" /\ reminded = "quieto" /\ edits = "quieto"
  /\ reminderDrift = "quieto"
OnlineOff ==
  /\ branchOnly = "quieto" /\ socket = "quieto" /\ shown = "quieto"
  /\ connects = "quieto" /\ presenceDrift = "quieto"
ChatOff ==
  /\ access = "quieto" /\ sessions = "quieto" /\ read = "quieto" /\ messages = "quieto"
  /\ chatPc = "quieto" /\ chatJob = "quieto" /\ settled = "quieto"
  /\ slipped = "quieto" /\ changes = "quieto" /\ chatRequests = "quieto"
QuotesOff ==
  /\ quote = "quieto" /\ orders = "quieto" /\ quotePc = "quieto" /\ quoteJob = "quieto"
  /\ won = "quieto" /\ quoted = "quieto" /\ crossed = "quieto"
  /\ quoteRequests = "quieto"
UpkeepOff ==
  /\ area = "quieto" /\ machines = "quieto" /\ cache = "quieto" /\ work = "quieto"
  /\ areaPc = "quieto" /\ areaJob = "quieto" /\ areaRequests = "quieto"
  /\ areaDrift = "quieto"
PeopleOff ==
  /\ live = "quieto" /\ account = "quieto" /\ role = "quieto" /\ assignable = "quieto"
  /\ open = "quieto" /\ taken = "quieto" /\ token = "quieto" /\ accountPc = "quieto"
  /\ accountJob = "quieto" /\ accountDrift = "quieto" /\ lost = "quieto"
  /\ accountRequests = "quieto"
FeedOff ==
  /\ order = "quieto" /\ tx = "quieto" /\ pending = "quieto" /\ gathered = "quieto"
  /\ profile = "quieto" /\ booting = "quieto" /\ feedJob = "quieto" /\ fresh = "quieto"
  /\ excused = "quieto" /\ writes = "quieto" /\ setbacks = "quieto"

Init ==
  \/ /\ subject = "calendario" /\ Calendar!Init
     /\ OnlineOff /\ ChatOff /\ QuotesOff /\ UpkeepOff /\ PeopleOff /\ FeedOff
  \/ /\ subject = "presencia" /\ Online!Init
     /\ CalendarOff /\ ChatOff /\ QuotesOff /\ UpkeepOff /\ PeopleOff /\ FeedOff
  \/ /\ subject = "chat" /\ Chat!Init
     /\ CalendarOff /\ OnlineOff /\ QuotesOff /\ UpkeepOff /\ PeopleOff /\ FeedOff
  \/ /\ subject = "cotizaciones" /\ Quotes!Init
     /\ CalendarOff /\ OnlineOff /\ ChatOff /\ UpkeepOff /\ PeopleOff /\ FeedOff
  \/ /\ subject = "area" /\ Upkeep!Init
     /\ CalendarOff /\ OnlineOff /\ ChatOff /\ QuotesOff /\ PeopleOff /\ FeedOff
  \/ /\ subject = "cuentas" /\ People!Init
     /\ CalendarOff /\ OnlineOff /\ ChatOff /\ QuotesOff /\ UpkeepOff /\ FeedOff
  \/ /\ subject = "cambios" /\ Feed!Init
     /\ CalendarOff /\ OnlineOff /\ ChatOff /\ QuotesOff /\ UpkeepOff /\ PeopleOff

CalendarStep == subject = "calendario" /\ Calendar!Next
                /\ UNCHANGED << subject, onlineVars, chatVars,
                                quoteVars, upkeepVars, peopleVars, feedVars >>
OnlineStep   == subject = "presencia" /\ Online!Next
                /\ UNCHANGED << subject, calendarVars, chatVars,
                                quoteVars, upkeepVars, peopleVars, feedVars >>
ChatStep     == subject = "chat" /\ Chat!Next
                /\ UNCHANGED << subject, calendarVars, onlineVars,
                                quoteVars, upkeepVars, peopleVars, feedVars >>
QuotesStep   == subject = "cotizaciones" /\ Quotes!Next
                /\ UNCHANGED << subject, calendarVars, onlineVars,
                                chatVars, upkeepVars, peopleVars, feedVars >>
UpkeepStep   == subject = "area" /\ Upkeep!Next
                /\ UNCHANGED << subject, calendarVars, onlineVars,
                                chatVars, quoteVars, peopleVars, feedVars >>
PeopleStep   == subject = "cuentas" /\ People!Next
                /\ UNCHANGED << subject, calendarVars, onlineVars,
                                chatVars, quoteVars, upkeepVars, feedVars >>
FeedStep     == subject = "cambios" /\ Feed!Next
                /\ UNCHANGED << subject, calendarVars, onlineVars,
                                chatVars, quoteVars, upkeepVars, peopleVars >>

Next == \/ CalendarStep \/ OnlineStep \/ ChatStep
        \/ QuotesStep \/ UpkeepStep \/ PeopleStep \/ FeedStep
Spec == Init /\ [][Next]_vars

-----------------------------------------------------------------------------
(* Type invariant: of the subject.                                          *)
TypeOK ==
  /\ subject = "calendario"   => Calendar!TypeOK
  /\ subject = "presencia"    => Online!TypeOK
  /\ subject = "chat"         => Chat!TypeOK
  /\ subject = "cotizaciones" => Quotes!TypeOK
  /\ subject = "area"         => Upkeep!TypeOK
  /\ subject = "cuentas"      => People!TypeOK
  /\ subject = "cambios"      => Feed!TypeOK

(* Each reminder of an event is sent, and sent once (Reminders).            *)
RemindedOnce == subject = "calendario" => Calendar!RemindedOnce

(* The member rows follow the roles, and the read marks the messages one    *)
(* sent (ChatMembers).                                                      *)
RowsFollowAccess == subject = "chat" => Chat!RowsFollowAccess

(* Every quote is in one place of the board, dated while it is sent, and an *)
(* order came of one accepted quote at most (QuoteBook).                    *)
QuoteDated == subject = "cotizaciones" => Quotes!QuoteDated

(* An area that was switched off, or a machine taken away, has no open work *)
(* (AreaUpkeep).                                                            *)
RetiredIsIdle == subject = "area" => Upkeep!RetiredIsIdle

(* No account is left without access, nor that of a branch without it, and  *)
(* no order of a branch goes with an account (Accounts).                    *)
AccountsKeepAccess == subject = "cuentas" => People!AccountsKeepAccess

(* What the screens are told live: nobody is shown online for ever, nor     *)
(* offline while online (Presence), and what was announced of the orders is *)
(* followed, on the screens and in the profiles of the clients (ChangeFeed).*)
LiveViewsTold ==
  /\ subject = "presencia" => Online!PresenceTold
  /\ subject = "cambios" => Feed!WritesAreFollowed
=============================================================================
