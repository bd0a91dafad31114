--------------------------- MODULE Authorisation ---------------------------
(***************************************************************************)
(* Who may open one lock: the list of UserUserInfoViewController and the   *)
(* screen it opens to add users, UserUserSelectToLockViewController.       *)
(*                                                                         *)
(* The marks of the second screen live in the cells of its table.  A cell  *)
(* that leaves the screen is lost; one that comes is drawn from the arrays *)
(* as they are by then, which another push may have replaced while the     *)
(* table still has its old rows.  OK reads marks from the cells and names  *)
(* from the arrays.  A member's screen that was closed while it waits for  *)
(* an answer also reacts to messages: nobody sees that, it is left out.    *)
(***************************************************************************)
EXTENDS Integers, Sequences, SequencesExt

CONSTANTS
  Users,
  Blank,       \* the empty user userSelArray holds before the first push
  Department,  \* of each user
  Lists,       \* the lists of users the server may push
  Fits,        \* bound: the cells on the screen at a time
  MaxFlight,   \* bound: requests and answers under way
  MaxTrouble   \* bound: lost connections, refusals and changes by other phones

AnyUser == Users \cup {Blank}

ASSUME AuthorisationAssumption ==
  /\ Blank \notin Users
  /\ DOMAIN Department = AnyUser
  /\ Lists \subseteq Seq(Users)
  /\ Fits \in Nat /\ MaxFlight \in Nat /\ MaxTrouble \in Nat

VARIABLES
  srv,       \* the users the server lets open the lock
  toServer,  \* requests under way
  toApp,     \* answers under way
  users,     \* GlobalSessionUser.userSelArray
  screen,    \* "door", "members", "select" above the members, "dead"
  shown,     \* lockUserArray of the members
  preset,    \* curlockuserSelArray of select
  sections,  \* sectionUsers of select: the user of each row <<section, row>>
  rows,      \* the rows its table has
  cells,     \* its cells on the screen: whom they show and the mark
  \* history
  hand,      \* the rows the user has marked, each or with their heading
  lost,      \* those of them whose mark was on no cell or went with its cell
  doubt,     \* the members shown may be wrong for a reason outside this visit
  fresh,     \* select was opened on the server's members, still the same
  moved,     \* sections changed since the table took its rows
  trouble

wire == <<toServer, toApp>>
table == <<preset, sections, rows, cells>>
visit == <<hand, lost, fresh, moved>>
vars == <<srv, wire, users, screen, shown, table, doubt, visit, trouble>>

\* home: the members' screen that asked is still there.  The rest is history of
\* an OK: whom the user had marked, those of them whose cell had stayed on the
\* screen since, and that nothing had interfered.
Request == [op : {"get", "add", "delete"}, users : SUBSET AnyUser,
            home : BOOLEAN, asked : SUBSET Users, kept : SUBSET Users,
            sound : BOOLEAN]
Answer == [ok : BOOLEAN, members : SUBSET Users, req : Request]

Cell == [user : AnyUser, mark : BOOLEAN]

NoUsers == <<Blank>>

Req(op, us) == [op |-> op, users |-> us, home |-> TRUE,
                asked |-> {}, kept |-> {}, sound |-> FALSE]

Init ==
  /\ srv \in SUBSET Users
  /\ toServer = <<>> /\ toApp = <<>>
  /\ users = NoUsers
  /\ screen = "door" /\ shown = {}
  /\ preset = {} /\ sections = <<>> /\ rows = {} /\ cells = <<>>
  /\ hand = {} /\ lost = {}
  /\ doubt = FALSE /\ fresh = FALSE /\ moved = FALSE /\ trouble = 0

\* What becomes of a request under way when its screen is closed, and when
\* another phone interferes.
Closed(r) == [r EXCEPT !.home = FALSE]
ClosedAnswer(a) == [a EXCEPT !.req = Closed(@)]
Disturbed(r) == [r EXCEPT !.sound = FALSE]

\* The question of a screen that may be closed by now.
Question(open) == [Req("get", {}) EXCEPT !.home = open]

-----------------------------------------------------------------------------
(* The server and the wire. *)

Room == Len(toServer) + Len(toApp) < MaxFlight
Send(r) == Room /\ toServer' = Append(toServer, r)

\* To the server Blank is nobody.
Granted(r) == CASE r.op = "get"    -> srv
                [] r.op = "add"    -> srv \cup (r.users \cap Users)
                [] r.op = "delete" -> srv \ r.users

\* The server answers; it may refuse.
Serve ==
  /\ toServer # <<>>
  /\ toServer' = Tail(toServer)
  /\ \E ok \in BOOLEAN :
       /\ ~ok => trouble < MaxTrouble
       /\ trouble' = IF ok THEN trouble ELSE trouble + 1
       /\ doubt' = (doubt \/ (~ok /\ Head(toServer).op = "get"))
       /\ srv' = IF ok THEN Granted(Head(toServer)) ELSE srv
       /\ toApp' = Append(toApp,
                     [ok |-> ok, members |-> srv, req |-> Head(toServer)])
  /\ UNCHANGED <<users, screen, shown, table, visit>>

\* The lock's owner changes its users on another phone.
ChangedElsewhere(us) ==
  /\ trouble < MaxTrouble /\ us # srv
  /\ srv' = us
  /\ toServer' = [i \in DOMAIN toServer |-> Disturbed(toServer[i])]
  /\ doubt' = TRUE /\ fresh' = FALSE
  /\ trouble' = trouble + 1
  /\ UNCHANGED <<toApp, users, screen, shown, table, hand, lost, moved>>

\* The connection breaks: what is under way is lost, answers from the back.
Break ==
  /\ trouble < MaxTrouble
  /\ toServer' = <<>>
  /\ \E n \in 0..Len(toApp) : toApp' = SubSeq(toApp, 1, n)
  /\ doubt' = TRUE
  /\ trouble' = trouble + 1
  /\ UNCHANGED <<srv, users, screen, shown, table, visit>>

-----------------------------------------------------------------------------
(* The members. *)

\* loaddata in viewDidLoad.
OpenMembers ==
  /\ screen = "door"
  /\ Send(Req("get", {}))
  /\ screen' = "members" /\ shown' = {} /\ doubt' = FALSE
  /\ UNCHANGED <<srv, toApp, users, table, visit, trouble>>

CloseMembers ==
  /\ screen = "members"
  /\ screen' = "door" /\ shown' = {}
  /\ toServer' = [i \in DOMAIN toServer |-> Closed(toServer[i])]
  /\ toApp' = [i \in DOMAIN toApp |-> ClosedAnswer(toApp[i])]
  /\ UNCHANGED <<srv, users, table, doubt, visit, trouble>>

\* The cell swiped keeps its user.
Delete(u) ==
  /\ screen = "members" /\ u \in shown
  /\ Send(Req("delete", {u}))
  /\ UNCHANGED <<srv, toApp, users, screen, shown, table, doubt, visit, trouble>>

-----------------------------------------------------------------------------
(* The screen to add users. *)

\* loaddata: the row of each user, by department in an order the dictionary
\* chooses, within it in the order of the list.
Sections(list) ==
  LET order == SetToSeq({Department[list[i]] : i \in DOMAIN list})
      Mates(i) == {h \in DOMAIN list : Department[list[h]] = Department[list[i]]}
      Row(i) == <<CHOOSE k \in DOMAIN order : order[k] = Department[list[i]],
                  Cardinality({h \in Mates(i) : h <= i})>>
  IN [p \in {Row(i) : i \in DOMAIN list} |->
        list[CHOOSE i \in DOMAIN list : Row(i) = p]]

Headings(ps) == {p[1] : p \in ps}

\* Mutant: each section has as many rows as there are users.
numberOfRowsOfAll(s) == Headings(DOMAIN s) \X DOMAIN users

numberOfRows(s) == DOMAIN s

\* The members shown are handed over; cells are drawn when the table needs them.
onClickAdd ==
  /\ screen = "members"
  /\ screen' = "select"
  /\ preset' = shown
  /\ sections' = Sections(users) /\ rows' = numberOfRows(Sections(users))
  /\ cells' = <<>>
  /\ hand' = {} /\ lost' = {}
  /\ fresh' = (~doubt /\ toServer = <<>> /\ toApp = <<>>)
  /\ moved' = FALSE
  /\ UNCHANGED <<srv, wire, users, shown, doubt, trouble>>

Leave == /\ screen' = "members"
         /\ preset' = {} /\ sections' = <<>> /\ rows' = {} /\ cells' = <<>>
         /\ hand' = {} /\ lost' = {} /\ fresh' = FALSE /\ moved' = FALSE

Back ==
  /\ screen = "select"
  /\ Leave
  /\ UNCHANGED <<srv, wire, users, shown, doubt, trouble>>

\* An index beyond the arrays: the app is gone.
Die ==
  /\ screen' = "dead"
  /\ UNCHANGED <<srv, wire, users, shown, table, doubt, visit, trouble>>

\* Mutant: a cell that is used again keeps the mark it had.
DrawnReused(p) == [user |-> sections[p],
                   mark |-> \E q \in DOMAIN cells : cells[q].mark]

Drawn(p) == [user |-> sections[p], mark |-> sections[p] \in preset]

\* The table shows the rows seen: new ones are drawn, others go with their marks.
Scroll(seen) ==
  /\ screen = "select"
  /\ seen \subseteq rows
  /\ IF seen \subseteq DOMAIN cells \cup DOMAIN sections
     THEN /\ cells' = [p \in seen |->
                         IF p \in DOMAIN cells THEN cells[p] ELSE Drawn(p)]
          /\ lost' = lost \cup ((hand \cap DOMAIN cells) \ seen)
          /\ UNCHANGED <<srv, wire, users, screen, shown, preset, sections, rows,
                         doubt, hand, fresh, moved, trouble>>
     ELSE Die

Marked(c, b) == [c EXCEPT !.mark = b]

onSelItemClicked(p) ==
  /\ screen = "select"
  /\ cells' = [cells EXCEPT ![p] = Marked(@, ~@.mark)]
  /\ hand' = IF cells[p].mark THEN hand \ {p} ELSE hand \cup {p}
  /\ lost' = lost \ {p}
  /\ UNCHANGED <<srv, wire, users, screen, shown, preset, sections, rows, doubt,
                 fresh, moved, trouble>>

\* A heading marks or clears its section: for the user all of it, in truth the
\* cells on the screen.  Its own mark is gone whenever it is drawn again, so
\* that b may be either.
Section(k) == {p \in rows \cap DOMAIN sections : p[1] = k}

clickSectionDepartment(k, b) ==
  /\ screen = "select"
  /\ IF k \in Headings(DOMAIN sections)
     THEN /\ cells' = [p \in DOMAIN cells |->
                         IF p \in Section(k) THEN Marked(cells[p], b) ELSE cells[p]]
          /\ hand' = IF b THEN hand \cup Section(k) ELSE hand \ Section(k)
          /\ lost' = (lost \ Section(k))
                       \cup (IF b THEN Section(k) \ DOMAIN cells ELSE {})
          /\ UNCHANGED <<srv, wire, users, screen, shown, preset, sections, rows,
                         doubt, fresh, moved, trouble>>
     ELSE Die

\* What OK sends: the users of the rows whose cells are there and marked.
Chosen ==
  {sections[p] : p \in {q \in DOMAIN cells \cap DOMAIN sections : cells[q].mark}}

\* The users of some rows.
Named(ps) == {sections[p] : p \in ps \cap DOMAIN sections} \cap Users

\* OK and UserUserInfo.onUserChoosed.
onClickOK ==
  /\ screen = "select" /\ Chosen # {}
  /\ Send([Req("add", Chosen) EXCEPT !.asked = Named(hand),
                                     !.kept = Named(hand \ lost),
                                     !.sound = fresh /\ ~moved])
  /\ Leave
  /\ UNCHANGED <<srv, toApp, users, shown, doubt, trouble>>

-----------------------------------------------------------------------------
(* What comes back. *)

\* Mutant: the members are not asked for again.
OnChangedOnly ==
  /\ toApp # <<>> /\ Head(toApp).req.op # "get" /\ Head(toApp).ok
  /\ toApp' = Tail(toApp)
  /\ UNCHANGED <<srv, toServer, users, screen, shown, table, doubt, visit, trouble>>

\* The block of a change asks for the members, be its screen closed.
OnChanged ==
  /\ toApp # <<>> /\ Head(toApp).req.op # "get" /\ Head(toApp).ok
  /\ toApp' = Tail(toApp)
  /\ toServer' = Append(toServer, Question(Head(toApp).req.home))
  /\ UNCHANGED <<srv, users, screen, shown, table, doubt, visit, trouble>>

OnMembers ==
  /\ toApp # <<>> /\ Head(toApp).req.op = "get" /\ Head(toApp).ok
  /\ toApp' = Tail(toApp)
  /\ shown' = IF Head(toApp).req.home THEN Head(toApp).members ELSE shown
  /\ UNCHANGED <<srv, toServer, users, screen, table, doubt, visit, trouble>>

OnRefused ==
  /\ toApp # <<>> /\ ~Head(toApp).ok
  /\ toApp' = Tail(toApp)
  /\ UNCHANGED <<srv, toServer, users, screen, shown, table, doubt, visit, trouble>>

\* A push of the users: only GlobalSessionUser takes it.
onGetUsers(list) ==
  /\ screen # "dead" /\ list # users
  /\ users' = list
  /\ UNCHANGED <<srv, wire, screen, shown, table, doubt, visit, trouble>>

\* A push of no type the app names is posted as onDataCallback: the members ask
\* again, select takes the users without telling its table.
onDataCallback ==
  /\ screen \in {"members", "select"}
  /\ Send(Req("get", {}))
  /\ sections' = IF screen = "select" THEN Sections(users) ELSE sections
  /\ moved' = (moved \/ sections' # sections)
  /\ UNCHANGED <<srv, toApp, users, screen, shown, preset, rows, cells, doubt,
                 hand, lost, fresh, trouble>>

-----------------------------------------------------------------------------
World == Serve \/ (\E us \in SUBSET Users : ChangedElsewhere(us)) \/ Break

Select ==
  \/ \E seen \in UNION {kSubset(n, rows) : n \in 0..Fits} : Scroll(seen)
  \/ \E p \in DOMAIN cells : onSelItemClicked(p)
  \/ \E k \in Headings(rows), b \in BOOLEAN : clickSectionDepartment(k, b)
  \/ onClickAdd \/ onClickOK \/ Back

Members == OpenMembers \/ CloseMembers \/ (\E u \in shown : Delete(u))

Deliver == /\ screen # "dead"
           /\ \/ OnChanged \/ OnMembers \/ OnRefused
              \/ \E list \in Lists : onGetUsers(list)
              \/ onDataCallback

Next == World \/ Select \/ Members \/ Deliver

Spec == Init /\ [][Next]_vars

-----------------------------------------------------------------------------
TypeOK ==
  /\ srv \subseteq Users /\ shown \subseteq Users /\ preset \subseteq Users
  /\ toServer \in Seq(Request) /\ toApp \in Seq(Answer)
  /\ users \in Lists \cup {NoUsers}
  /\ screen \in {"door", "members", "select", "dead"}
  /\ \A p \in DOMAIN sections : sections[p] \in AnyUser
  /\ DOMAIN cells \subseteq rows
  /\ \A p \in DOMAIN cells : cells[p] \in Cell
  /\ lost \subseteq hand /\ hand \subseteq rows
  /\ doubt \in BOOLEAN /\ fresh \in BOOLEAN /\ moved \in BOOLEAN
  /\ trouble \in 0..MaxTrouble

Open == screen \in {"members", "select"}

\* Once what was asked has been answered the members shown are the server's,
\* unless an answer was lost, a list was refused or another phone interfered.
MembersAgree ==
  Open /\ ~doubt /\ toServer = <<>> /\ toApp = <<>>
    => shown = srv

\* OK authorises no one whom the user has not marked, and leaves out none of
\* those marked except where the mark was lost: its cell has left the screen
\* since, or was not on it when the heading was tapped.  That is, provided the
\* screen was opened on the server's members and its users stayed the same.
OkAuthorisesTheMarked ==
  [][Serve /\ srv' # srv /\ Head(toServer).sound
     => /\ srv \cup Head(toServer).kept \subseteq srv'
        /\ srv' \subseteq srv \cup Head(toServer).asked]_vars

\* The app dies on the screen only when the users changed under the table.
DiesOnlyIfMoved == screen = "dead" => moved

\* Why.  A table whose users stayed the same has a row for each of them, and its
\* cells show them; a mark not set by hand is a member's, one set by hand and not
\* lost is on its cell.
RowsHaveUsers ==
  screen = "select" /\ ~moved =>
    /\ rows = DOMAIN sections
    /\ \A p \in DOMAIN cells : cells[p].user = sections[p]

MarksHaveCauses ==
  \A p \in DOMAIN cells :
    cells[p].mark /\ p \notin hand => cells[p].user \in preset

MarksStay == \A p \in hand \ lost : p \in DOMAIN cells /\ cells[p].mark

\* A fresh visit stands on the server's members, with no change under way; a
\* sound OK adds to them only who was marked, as the first change served.
FreshIsCurrent ==
  fresh => /\ screen \in {"select", "dead"} /\ preset = srv
           /\ \A i \in 1..Len(toServer) : toServer[i].op = "get"

SoundIsExact ==
  \A i \in 1..Len(toServer) : toServer[i].sound =>
    /\ toServer[i].op = "add"
    /\ toServer[i].kept \subseteq toServer[i].users
    /\ toServer[i].users \cap Users \subseteq toServer[i].asked \cup srv
    /\ \A j \in 1..(i - 1) : toServer[j].op = "get"

\* A change sent by a screen that was closed is followed by a question of the
\* one that is open.
ClosedAreFollowed ==
  Open => \A i \in 1..Len(toServer) :
            toServer[i].op # "get" /\ ~toServer[i].home =>
              \E j \in (i + 1)..Len(toServer) :
                toServer[j].op = "get" /\ toServer[j].home

\* What is shown is right, or will be by an answer, or will be asked for.
Asking == \E i \in 1..Len(toServer) : toServer[i].op = "get" /\ toServer[i].home
WillAsk == \E i \in 1..Len(toApp) :
             toApp[i].ok /\ toApp[i].req.op # "get" /\ toApp[i].req.home
Tells(i) == toApp[i].ok /\ toApp[i].req.op = "get" /\ toApp[i].req.home
Told == \E i \in 1..Len(toApp) :
          /\ Tells(i) /\ toApp[i].members = srv
          /\ \A j \in (i + 1)..Len(toApp) : ~Tells(j)
Right == shown = srv /\ \A i \in 1..Len(toApp) : ~Tells(i)

ShownFollows == Open /\ ~doubt => Asking \/ WillAsk \/ Told \/ Right
=============================================================================
