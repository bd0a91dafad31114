---------------------------- MODULE OpenRecords ----------------------------
(***************************************************************************)
(* The records of a lock's openings, a day at a time                       *)
(* (vc/OpenRecordDetailViewController.swift): the day, the date on the     *)
(* button, the records in the table, and the answers on their way when     *)
(* the user has gone on to other days.  A popup in the other tab adds a    *)
(* record (vc/DoorOpenPopViewController.swift).  Of records their day and  *)
(* their number matter.  Names differ from LockPassword's, so that one     *)
(* module of proofs can extend both.                                       *)
(***************************************************************************)
EXTENDS Integers, Sequences

CONSTANTS
  LastDay,     \* bound: days are 1 to LastDay
  MaxRecords,  \* bound: records of a day
  MaxFlight,   \* bound: requests and answers under way
  MaxTrouble   \* bound: lost connections and refusals

ASSUME OpenRecordsAssumption ==
  /\ LastDay \in Nat \ {0}
  /\ MaxRecords \in Nat /\ MaxFlight \in Nat /\ MaxTrouble \in Nat

Days == 1..LastDay

VARIABLES
  today,     \* the day of the phone's clock
  srv,       \* the number of records the server has of each day
  toServer,  \* requests under way
  toApp,     \* answers under way
  open,      \* the screen is open
  curDate,
  title,     \* the date on btnPickDate
  records,   \* lockOpenrecordArray: how many records of which days
  \* history
  missed,    \* the last question of the screen was refused or lost
  trouble

wire == <<toServer, toApp>>
screen == <<open, curDate, title, records>>
recordsVars == <<today, srv, wire, screen, missed, trouble>>

Counts == UNION {[ds -> 0..MaxRecords] : ds \in SUBSET Days}

\* home: the screen that asked is still there.
Request == [op : {"add", "get"}, start : Days, end : 1..(LastDay + 1),
            home : BOOLEAN]
Reply == [ok : BOOLEAN, counts : Counts, req : Request]

RecordsInit ==
  /\ today \in Days /\ srv = [d \in Days |-> 0]
  /\ toServer = <<>> /\ toApp = <<>>
  /\ open = FALSE /\ curDate = today /\ title = today /\ records = <<>>
  /\ missed = FALSE /\ trouble = 0

Asks(r) == r.op = "get" /\ r.home
InServer == \E i \in DOMAIN toServer : Asks(toServer[i])

Room(n) == Len(toServer) + Len(toApp) + n <= MaxFlight

-----------------------------------------------------------------------------
(* The server and the wire. *)

\* querydateend is the beginning of the day that is not asked for any more.
Between(start, end) == [d \in {e \in Days : start <= e /\ e < end} |-> srv[d]]

\* The server answers; it may refuse.  A record is one of the day it comes in.
Serve ==
  /\ toServer # <<>>
  /\ toServer' = Tail(toServer)
  /\ LET r == Head(toServer)
         adds == r.op = "add" /\ srv[today] < MaxRecords IN
     \E ok \in BOOLEAN :
       /\ ~ok => trouble < MaxTrouble
       /\ trouble' = IF ok THEN trouble ELSE trouble + 1
       /\ missed' = (missed \/ (~ok /\ Asks(r) /\
                        ~\E i \in 2..Len(toServer) : Asks(toServer[i])))
       /\ srv' = IF ok /\ adds THEN [srv EXCEPT ![today] = @ + 1] ELSE srv
       /\ toApp' = Append(toApp, [ok |-> ok, counts |-> Between(r.start, r.end),
                                  req |-> r])
  /\ UNCHANGED <<today, screen>>

\* The connection breaks: what is under way is lost, answers from the back.
Break ==
  /\ trouble < MaxTrouble
  /\ toServer' = <<>>
  /\ \E n \in 0..Len(toApp) :
       /\ toApp' = SubSeq(toApp, 1, n)
       /\ missed' = (missed \/ InServer \/
                      \E i \in (n + 1)..Len(toApp) : Asks(toApp[i].req))
  /\ trouble' = trouble + 1
  /\ UNCHANGED <<today, srv, screen>>

Midnight ==
  /\ today < LastDay
  /\ today' = today + 1
  /\ UNCHANGED <<srv, wire, screen, missed, trouble>>

-----------------------------------------------------------------------------
(* The screen. *)

\* Mutant: a day too many.
AskedTwoDays(d) == [op |-> "get", start |-> d, end |-> d + 2, home |-> TRUE]

\* refreshData: from the beginning of the day to that of the next.
Asked(d) == [op |-> "get", start |-> d, end |-> d + 1, home |-> TRUE]

\* Mutant: the date on the button stays.
setMyCurDateUntitled(d) == curDate' = d /\ UNCHANGED title

setMyCurDate(d) == curDate' = d /\ title' = d

\* viewDidLoad.
OpenScreen ==
  /\ ~open /\ Room(1)
  /\ open' = TRUE /\ records' = <<>>
  /\ setMyCurDate(today)
  /\ toServer' = Append(toServer, Asked(today))
  /\ missed' = FALSE
  /\ UNCHANGED <<today, srv, toApp, trouble>>

Orphan(r) == [r EXCEPT !.home = FALSE]

CloseScreen ==
  /\ open
  /\ open' = FALSE /\ records' = <<>>
  /\ toServer' = [i \in DOMAIN toServer |-> Orphan(toServer[i])]
  /\ toApp' = [i \in DOMAIN toApp |-> [toApp[i] EXCEPT !.req = Orphan(@)]]
  /\ UNCHANGED <<today, srv, curDate, title, missed, trouble>>

\* The day before or the next, onClickPrevDate and onClickNextDate.
Step(n) ==
  /\ open /\ Room(1) /\ curDate + n \in Days
  /\ setMyCurDate(curDate + n)
  /\ toServer' = Append(toServer, Asked(curDate + n))
  /\ missed' = FALSE
  /\ UNCHANGED <<today, srv, toApp, open, records, trouble>>

\* The dialog's block: setMyCurDate asks, and then the block asks again.
onClickSelDate(d) ==
  /\ open /\ Room(2)
  /\ setMyCurDate(d)
  /\ toServer' = toServer \o <<Asked(d), Asked(d)>>
  /\ missed' = FALSE
  /\ UNCHANGED <<today, srv, toApp, open, records, trouble>>

\* Mutant: the block of the last answer is run first.
OnRecordsLast ==
  /\ toApp # <<>>
  /\ LET a == toApp[Len(toApp)] IN
       /\ toApp' = SubSeq(toApp, 1, Len(toApp) - 1)
       /\ records' = IF a.ok /\ Asks(a.req) THEN a.counts ELSE records
  /\ UNCHANGED <<today, srv, toServer, open, curDate, title, missed, trouble>>

\* The completion blocks: records replace records, whatever day is chosen now.
OnRecords ==
  /\ toApp # <<>>
  /\ LET a == Head(toApp) IN
       /\ toApp' = Tail(toApp)
       /\ records' = IF a.ok /\ Asks(a.req) THEN a.counts ELSE records
  /\ UNCHANGED <<today, srv, toServer, open, curDate, title, missed, trouble>>

\* A popup of the other tab adds a record; its answer changes nothing.
addopenrecord ==
  /\ Room(1)
  /\ toServer' = Append(toServer, [op |-> "add", start |-> today, end |-> today,
                                   home |-> TRUE])
  /\ UNCHANGED <<today, srv, toApp, screen, missed, trouble>>

-----------------------------------------------------------------------------
RecordsNext ==
  \/ Serve \/ Break \/ Midnight
  \/ OpenScreen \/ CloseScreen \/ (\E n \in {-1, 1} : Step(n))
  \/ (\E d \in Days : onClickSelDate(d))
  \/ OnRecords \/ addopenrecord

RecordsSpec == RecordsInit /\ [][RecordsNext]_recordsVars

-----------------------------------------------------------------------------
RecordsTypeOK ==
  /\ today \in Days /\ srv \in [Days -> 0..MaxRecords]
  /\ toServer \in Seq(Request) /\ toApp \in Seq(Reply)
  /\ Len(toServer) + Len(toApp) <= MaxFlight
  /\ open \in BOOLEAN /\ curDate \in Days /\ title \in Days
  /\ records \in Counts
  /\ missed \in BOOLEAN /\ trouble \in 0..MaxTrouble

Awaited == InServer \/ \E i \in DOMAIN toApp : Asks(toApp[i].req)

\* When all its questions are answered the screen shows the records of the day
\* on its button, no other day's, unless the last answer was a refusal or lost,
\* whatever became of earlier ones and in whatever order days were visited.
RecordsOfTheDay ==
  open /\ ~missed /\ ~Awaited => DOMAIN records = {title}

\* Whatever days are visited and asked for again, records once seen do not go
\* away while the screen is open, nor does it show more than there are.
RecordsNeverShrink ==
  [][\A d \in DOMAIN records \cap DOMAIN records' :
       open /\ open' => records'[d] \in records[d]..srv[d]]_recordsVars
=============================================================================
