------------------------------ MODULE Members -------------------------------
(***************************************************************************)
(* The users of a profile (vc/MyProfileMemberManagerViewController.swift,  *)
(* vc/DoorUserAddUserViewController.swift, GlobalSessionUser.swift): the   *)
(* cache a push replaces, the screen's copy or search of it, whose rows    *)
(* have buttons to invite, add and delete users, and the screen that adds  *)
(* one.  A row holds its entry itself, no index, so that lists are sets.   *)
(* Every answer and every try to connect shows a banner.                   *)
(***************************************************************************)
EXTENDS Integers, BannerQueue

CONSTANTS
  Users,
  Blank,      \* the entry the arrays start with, PkgUserUsers(): it has no user
  Login,      \* the request that logs in after a reconnection
  Connected,  \* the message of a new connection
  Failed,     \* that of a connection that could not be made
  Searches,   \* for each text that may be searched for, the users it finds
  MaxFlight,  \* bound: messages under way and banners that wait; a push that
              \* follows a granted request may exceed it by one
  MaxPosts,   \* bound: onUserCallback posts that are queued
  MaxBreaks   \* bound: broken connections

Types == {"empty", "register", "added"}
Entry == [user : Users, type : Types]

\* The text of the banner that tells of a granted request, and of the others.
Says == [invite |-> "invited", add |-> "added", delete |-> "deleted",
         adduser |-> "added"]

\* mine: the screen that adds users and sent it is still there.
Request == [do : DOMAIN Says, user : Users, mine : BOOLEAN]
Answer == [text : Texts, mine : BOOLEAN, ok : BOOLEAN]
Push == [list : SUBSET Entry]

ASSUME MembersAssumption ==
  /\ Blank \notin Entry
  /\ {Login, Connected, Failed} \cap (Request \cup Answer \cup Push) = {}
  /\ Connected # Failed
  /\ Searches \subseteq SUBSET Users
  /\ MaxFlight \in Nat /\ MaxPosts \in Nat /\ MaxBreaks \in Nat
  /\ Texts = {"invited", "added", "deleted", "refused", "connected", "failed", "info"}

VARIABLES
  server,    \* the type of each user of the profile there, "none" if he is not
  link,      \* the connection: "down", "up" or "in", that is, logged in
  toServer,  \* requests under way, the oldest first
  toApp,     \* answers, pushes and news of connections under way
  breaks,    \* broken connections so far
  cache,     \* userArray of GlobalSessionUser
  posts,     \* onUserCallback posts that are queued
  shown,     \* "other", "members", "add" above the members, or "dead"
  list,      \* userArray of the members' screen
  word       \* the users its search bar's text finds

wire == <<server, link, toServer, toApp, breaks>>
table == <<list, word>>
vars == <<wire, cache, posts, shown, table, queue>>

EntriesOf(s) == {e \in Entry : s[e.user] = e.type}
PushOf(s) == [list |-> EntriesOf(s)]
\* The empty text finds every entry, the blank one too.
AnyUser == Users \cup {Blank}

IsPush(m) == m \in Push
IsAnswer(m) == m \in Answer

\* The user has just logged in, and the first push of users is on its way.
Init ==
  /\ server \in [Users -> Types \cup {"none"}]
  /\ link = "in" /\ breaks = 0
  /\ toServer = <<>> /\ toApp = <<PushOf(server)>>
  /\ cache = {Blank} /\ posts = 0
  /\ shown = "other" /\ list = {} /\ word = AnyUser
  /\ QueueInit

-----------------------------------------------------------------------------
(* The wire and the server. *)

Room(n) == Len(toServer) + Len(toApp) + Len(waiting) + n <= MaxFlight
Sent(r) == IF link = "down" THEN toServer ELSE Append(toServer, r)

Connect ==
  /\ link = "down" /\ Room(1)
  /\ link' = "up" /\ toApp' = Append(toApp, Connected)
  /\ UNCHANGED <<server, toServer, breaks, cache, posts, shown, table, queue>>

ConnectFails ==
  /\ link = "down" /\ Room(1)
  /\ toApp' = Append(toApp, Failed)
  /\ UNCHANGED <<server, link, toServer, breaks, cache, posts, shown, table, queue>>

\* What is under way is lost, answers from the back.
Break ==
  /\ link # "down" /\ breaks < MaxBreaks
  /\ link' = "down" /\ breaks' = breaks + 1
  /\ toServer' = <<>>
  /\ \E n \in 0..Len(toApp) : toApp' = SubSeq(toApp, 1, n)
  /\ UNCHANGED <<server, cache, posts, shown, table, queue>>

\* The types a user may have when the request was granted.
Grants(r) ==
  LET type == server[r.user]
  IN CASE r.do = "invite"  -> IF type = "empty" THEN {"empty"} ELSE {}
       [] r.do = "add"     -> IF type = "register" THEN {"added"} ELSE {}
       [] r.do = "delete"  -> IF type # "none" THEN {"none"} ELSE {}
       [] r.do = "adduser" -> IF type = "none" THEN {"empty", "register"} ELSE {}

\* Changed users are pushed, before or after the answer.
Serve ==
  /\ toServer # <<>>
  /\ toServer' = Tail(toServer)
  /\ LET r == Head(toServer) IN
     \/ /\ r = Login
        /\ link' = "in" /\ toApp' = Append(toApp, PushOf(server))
        /\ UNCHANGED server
     \/ /\ r # Login
        /\ toApp' = Append(toApp, [text |-> "refused", mine |-> r.mine, ok |-> FALSE])
        /\ UNCHANGED <<server, link>>
     \/ /\ r # Login /\ link = "in" /\ Room(0)
        /\ \E t \in Grants(r) : server' = [server EXCEPT ![r.user] = t]
        /\ LET a == [text |-> Says[r.do], ok |-> TRUE,
                     mine |-> r.mine /\ r.do = "adduser"]
           IN \/ server' = server /\ toApp' = Append(toApp, a)
              \/ server' # server /\ toApp' = toApp \o <<a, PushOf(server')>>
              \/ server' # server /\ toApp' = toApp \o <<PushOf(server'), a>>
        /\ UNCHANGED link
  /\ UNCHANGED <<breaks, cache, posts, shown, table, queue>>

\* Another phone of the profile, or an invited user who registers.
ChangedElsewhere ==
  /\ \E u \in Users, t \in Types \cup {"none"} :
       server[u] # t /\ server' = [server EXCEPT ![u] = t]
  /\ IF link = "in" THEN Room(1) /\ toApp' = Append(toApp, PushOf(server'))
                    ELSE UNCHANGED toApp
  /\ UNCHANGED <<link, toServer, breaks, cache, posts, shown, table, queue>>

-----------------------------------------------------------------------------
(* The main thread. *)

\* Answers and requests of the screen that adds users, once it is gone.
Orphan(m) == IF m \in Request \cup Answer THEN [m EXCEPT !.mine = FALSE] ELSE m
Orphans(s) == [i \in DOMAIN s |-> Orphan(s[i])]

onGetUsers ==
  /\ toApp # <<>> /\ IsPush(Head(toApp)) /\ posts < MaxPosts
  /\ cache' = Head(toApp).list /\ posts' = posts + 1
  /\ toApp' = Tail(toApp)
  /\ UNCHANGED <<server, link, toServer, breaks, shown, table, queue>>

\* Mutant: a screen that is gone still observes and takes a post of its own.
onUserCallbackTwice ==
  /\ posts > 0
  /\ posts' = posts - 2
  /\ list' = IF shown = "other" THEN list ELSE cache
  /\ UNCHANGED <<wire, cache, shown, word, queue>>

\* Mutant: what a search has found stays.
onUserCallbackUnlessSearched ==
  /\ posts > 0
  /\ posts' = posts - 1
  /\ list' = IF shown = "other" \/ word # AnyUser THEN list ELSE cache
  /\ UNCHANGED <<wire, cache, shown, word, queue>>

\* The screen observes as long as it is there: loaddata.
onUserCallback ==
  /\ posts > 0
  /\ posts' = posts - 1
  /\ list' = IF shown = "other" THEN list ELSE cache
  /\ UNCHANGED <<wire, cache, shown, word, queue>>

\* MsgConnected: a banner, and if there is a connection the user is logged in
\* again.
OnConnected ==
  /\ toApp # <<>> /\ Head(toApp) \in {Connected, Failed}
  /\ Show(IF Head(toApp) = Connected THEN "connected" ELSE "failed")
  /\ toApp' = Tail(toApp)
  /\ toServer' = IF Head(toApp) = Connected THEN Sent(Login) ELSE toServer
  /\ UNCHANGED <<server, link, breaks, cache, posts, shown, table>>

\* Mutant: a refusal is not shown.
OnAnswerSilent ==
  /\ toApp # <<>> /\ IsAnswer(Head(toApp))
  /\ LET a == Head(toApp) IN
     /\ IF a.ok THEN Show(a.text) ELSE UNCHANGED queue
     /\ IF a.ok /\ a.mine
        THEN /\ shown' = "members"
             /\ toApp' = Orphans(Tail(toApp)) /\ toServer' = Orphans(toServer)
        ELSE toApp' = Tail(toApp) /\ UNCHANGED <<shown, toServer>>
  /\ UNCHANGED <<server, link, breaks, cache, posts, table>>

\* The completion blocks: each shows a banner, and that of a user who was added
\* pops its screen, if that is still there.
OnAnswer ==
  /\ toApp # <<>> /\ IsAnswer(Head(toApp))
  /\ LET a == Head(toApp) IN
     /\ Show(a.text)
     /\ IF a.ok /\ a.mine
        THEN /\ shown' = "members"
             /\ toApp' = Orphans(Tail(toApp)) /\ toServer' = Orphans(toServer)
        ELSE toApp' = Tail(toApp) /\ UNCHANGED <<shown, toServer>>
  /\ UNCHANGED <<server, link, breaks, cache, posts, table>>

-----------------------------------------------------------------------------
(* The user. *)

\* Mutant: the screen is not filled when it is loaded.
OpenMembersUnfilled ==
  /\ shown = "other"
  /\ shown' = "members" /\ list' = {Blank} /\ word' = AnyUser
  /\ UNCHANGED <<wire, cache, posts, queue>>

\* viewDidLoad, loaddata.
OpenMembers ==
  /\ shown = "other"
  /\ shown' = "members" /\ list' = cache /\ word' = AnyUser
  /\ UNCHANGED <<wire, cache, posts, queue>>

CloseMembers ==
  /\ shown = "members"
  /\ shown' = "other" /\ list' = {} /\ word' = AnyUser
  /\ UNCHANGED <<wire, cache, posts, queue>>

Die ==
  /\ shown' = "dead"
  /\ UNCHANGED <<wire, cache, posts, table, queue>>

\* A search looks into the user of each entry; the blank one has none.
doSearch(found) ==
  /\ shown = "members"
  /\ IF found # AnyUser /\ Blank \in cache THEN Die
     ELSE /\ list' = {e \in cache : found = AnyUser \/ e.user \in found}
          /\ word' = found
          /\ UNCHANGED <<wire, cache, posts, shown, queue>>

\* setusers; the blank entry has the default type, which is empty.
Buttons(e) ==
  IF e = Blank THEN {"invite", "delete"}
  ELSE CASE e.type = "empty"    -> {"invite", "delete"}
         [] e.type = "register" -> {"add", "delete"}
         [] e.type = "added"    -> {"delete"}

\* A button of a row that was swiped asks for the user of its entry.
Swipe(e, b) ==
  /\ shown = "members" /\ e \in list /\ b \in Buttons(e)
  /\ IF e = Blank THEN Die
     ELSE /\ Room(1)
          /\ toServer' = Sent([do |-> b, user |-> e.user, mine |-> FALSE])
          /\ UNCHANGED <<server, link, toApp, breaks, cache, posts, shown, table,
                         queue>>

\* The blank entry has no such text, and no button to show it.
onClickInfo(e) ==
  /\ shown = "members" /\ e \in list /\ e # Blank /\ Room(1)
  /\ Show("info")
  /\ UNCHANGED <<wire, cache, posts, shown, table>>

onClickAdd ==
  /\ shown = "members" /\ shown' = "add"
  /\ UNCHANGED <<wire, cache, posts, table, queue>>

onClickOK(u) ==
  /\ shown = "add" /\ Room(1)
  /\ toServer' = Sent([do |-> "adduser", user |-> u, mine |-> TRUE])
  /\ UNCHANGED <<server, link, toApp, breaks, cache, posts, shown, table, queue>>

BackToMembers ==
  /\ shown = "add" /\ shown' = "members"
  /\ toServer' = Orphans(toServer) /\ toApp' = Orphans(toApp)
  /\ UNCHANGED <<server, link, breaks, cache, posts, table, queue>>

\* A record's row elsewhere looks for its user in the cache, too.
getUserUserName == shown = "other" /\ Blank \in cache /\ Die

-----------------------------------------------------------------------------
Network == Connect \/ ConnectFails \/ Break \/ Serve \/ ChangedElsewhere

MainThread == onGetUsers \/ onUserCallback \/ OnConnected \/ OnAnswer

UserActs ==
  \/ OpenMembers \/ CloseMembers
  \/ \E found \in Searches \cup {AnyUser} : doSearch(found)
  \/ \E e \in list : (\E b \in Buttons(e) : Swipe(e, b)) \/ onClickInfo(e)
  \/ onClickAdd
  \/ \E u \in Users : onClickOK(u)
  \/ BackToMembers
  \/ getUserUserName

BannerStep ==
  /\ Advance \/ Finish
  /\ UNCHANGED <<wire, cache, posts, shown, table>>

Next ==
  /\ shown # "dead"
  /\ Network \/ MainThread \/ UserActs \/ BannerStep

\* The main thread and the banners go on; the server and the user need not.
Fairness == WF_vars(shown # "dead" /\ MainThread) /\ WF_vars(shown # "dead" /\ BannerStep)

Spec == Init /\ [][Next]_vars /\ Fairness

-----------------------------------------------------------------------------
TypeOK ==
  /\ QueueTypeOK
  /\ server \in [Users -> Types \cup {"none"}]
  /\ link \in {"down", "up", "in"}
  /\ toServer \in Seq(Request \cup {Login})
  /\ toApp \in Seq(Answer \cup Push \cup {Connected, Failed})
  /\ breaks \in 0..MaxBreaks
  /\ cache \subseteq Entry \cup {Blank}
  /\ posts \in 0..MaxPosts
  /\ shown \in {"other", "members", "add", "dead"}
  /\ list \subseteq Entry \cup {Blank}
  /\ word \in Searches \cup {AnyUser}

\* Once no push and no post is under way on a connection that is logged in, the
\* screen shows the server's users, or those of them its text finds.
MembersSettle ==
  /\ link = "in" /\ posts = 0 /\ shown \in {"members", "add"}
  /\ \A i \in DOMAIN toApp : ~IsPush(toApp[i])
  => list \in {EntriesOf(server), {e \in EntriesOf(server) : e.user \in word}}

\* The blank entry, which has no user, ends the app only before the first push
\* of users has come, or in the moment before the screen is told of it.
DiesOnlyUnfilled ==
  [][shown' = "dead" => Blank \in cache \/ posts > 0]_vars

\* Every answer that reaches the phone is told by a banner that gets on the
\* screen, unless the connection breaks before or the app has ended.
AnswersAreTold ==
  \A t \in {"invited", "added", "deleted", "refused"} :
    (\E i \in DOMAIN toApp : IsAnswer(toApp[i]) /\ toApp[i].text = t)
      ~> current = t \/ link = "down" \/ shown = "dead"
=============================================================================
