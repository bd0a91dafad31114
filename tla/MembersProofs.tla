---------------------------- MODULE MembersProofs ----------------------------
(***************************************************************************)
(* Proofs about Members, for any users, texts, searches, messages under    *)
(* way, posts and broken connections.                                      *)
(***************************************************************************)
EXTENDS Members, SequenceTheorems, TLAPS

USE MembersAssumption

Message == Answer \cup Push \cup {Connected, Failed}
Sending == Request \cup {Login}

-----------------------------------------------------------------------------
(* Messages and what may become of them. *)

\* A message is of one kind.
LEMMA Kinds ==
  /\ \A m \in Push : m \notin Answer \cup Request \cup {Connected, Failed}
  /\ \A m \in Answer : m \notin Push \cup Request \cup {Connected, Failed}
  /\ \A m \in Request : m # Login
  /\ Connected \notin Request /\ Failed \notin Request /\ Login \notin Answer
  BY DEF Push, Answer, Request

\* A closed screen orphans its requests and answers and leaves pushes alone.
LEMMA OrphanKinds ==
  /\ \A m \in Message : Orphan(m) \in Message /\ (IsPush(m) <=> IsPush(Orphan(m)))
  /\ \A m \in Push : Orphan(m) = m
  /\ \A r \in Sending : Orphan(r) \in Sending
<1>1. \A m \in Push : Orphan(m) = m
  BY Kinds DEF Orphan
<1>2. \A m \in Answer : Orphan(m) \in Answer
  BY DEF Orphan, Answer
<1>3. \A r \in Request : Orphan(r) \in Request
  BY DEF Orphan, Request
<1>4. /\ Orphan(Connected) = Connected /\ Orphan(Failed) = Failed
      /\ Orphan(Login) = Login
  BY Kinds DEF Orphan
<1> QED BY <1>1, <1>2, <1>3, <1>4, Kinds DEF Message, Sending, IsPush

LEMMA OrphansFields ==
  /\ \A s \in Seq(Message) :
       /\ Orphans(s) \in Seq(Message) /\ Len(Orphans(s)) = Len(s)
       /\ \A i \in 1..Len(s) : Orphans(s)[i] = Orphan(s[i])
  /\ \A s \in Seq(Sending) : Orphans(s) \in Seq(Sending)
<1>1. ASSUME NEW s \in Seq(Message)
      PROVE  /\ Orphans(s) \in Seq(Message) /\ Len(Orphans(s)) = Len(s)
             /\ \A i \in 1..Len(s) : Orphans(s)[i] = Orphan(s[i])
  <2>1. DOMAIN s = 1..Len(s) /\ Len(s) \in Nat
    OBVIOUS
  <2>2. Orphans(s) = [i \in 1..Len(s) |-> Orphan(s[i])]
    BY <2>1 DEF Orphans
  <2>3. \A i \in 1..Len(s) : Orphan(s[i]) \in Message
    BY OrphanKinds
  <2> QED BY <2>1, <2>2, <2>3
<1>2. ASSUME NEW s \in Seq(Sending) PROVE Orphans(s) \in Seq(Sending)
  <2>1. DOMAIN s = 1..Len(s) /\ Len(s) \in Nat
    OBVIOUS
  <2>2. Orphans(s) = [i \in 1..Len(s) |-> Orphan(s[i])]
    BY <2>1 DEF Orphans
  <2>3. \A i \in 1..Len(s) : Orphan(s[i]) \in Sending
    BY OrphanKinds
  <2> QED BY <2>1, <2>2, <2>3
<1> QED BY <1>1, <1>2

\* A user of the profile has one of the types, and a granted request leaves him
\* one, or none.
LEMMA GrantsTyped ==
  ASSUME TypeOK, NEW r \in Request
  PROVE  /\ Grants(r) \subseteq Types \cup {"none"}
         /\ Says[r.do] \in Texts /\ r.user \in Users
<1>1. r.do \in {"invite", "add", "delete", "adduser"} /\ r.user \in Users
  BY DEF Request, Says
<1>2. Says[r.do] \in Texts
  BY <1>1 DEF Says
<1>3. Grants(r) \subseteq Types \cup {"none"}
  BY <1>1 DEF Grants, Types
<1> QED BY <1>1, <1>2, <1>3

LEMMA PushTyped == \A s : PushOf(s) \in Push /\ PushOf(s).list = EntriesOf(s)
  BY DEF PushOf, Push, EntriesOf

\* Two messages that are sent at once are sent one after the other.
LEMMA TwoMessages ==
  ASSUME NEW s \in Seq(Message), NEW m \in Message, NEW n \in Message
  PROVE  /\ s \o <<m, n>> = Append(Append(s, m), n)
         /\ s \o <<m, n>> \in Seq(Message)
         /\ Append(s, m) \in Seq(Message)
  OBVIOUS

\* A banner keeps the queue's types.
LEMMA ShowTyped ==
  ASSUME QueueTypeOK, NEW t \in Texts, Show(t)
  PROVE  QueueTypeOK'
  BY DEF QueueTypeOK, Show, Post, ShowAtOnce, AlreadyThere, queue

-----------------------------------------------------------------------------
(* Types. *)

LEMMA TypeInit == Init => TypeOK
<1> SUFFICES ASSUME Init PROVE TypeOK
  OBVIOUS
<1>1. toApp \in Seq(Message) /\ toServer \in Seq(Sending)
  BY PushTyped DEF Init, Message, Sending
<1>2. QueueTypeOK
  BY DEF Init, QueueInit, QueueTypeOK
<1> QED
  BY <1>1, <1>2 DEF Init, TypeOK, Message, Sending

LEMMA SentTyped ==
  ASSUME TypeOK, NEW r \in Sending
  PROVE  Sent(r) \in Seq(Sending)
  BY DEF TypeOK, Sent, Sending

LEMMA TypeServe == TypeOK /\ Serve => TypeOK'
<1> SUFFICES ASSUME TypeOK, Serve PROVE TypeOK'
  OBVIOUS
<1> DEFINE r == Head(toServer)
<1>1. r \in Sending /\ toServer' \in Seq(Sending) /\ toApp \in Seq(Message)
  BY DEF Serve, TypeOK, Sending, Message
<1>2. UNCHANGED <<breaks, cache, posts, shown, list, word, waiting, current>>
  BY DEF Serve, table, queue
<1>3. ASSUME toApp' \in Seq(Message), link' \in {"down", "up", "in"},
             server' \in [Users -> Types \cup {"none"}]
      PROVE  TypeOK'
  BY <1>1, <1>2, <1>3 DEF TypeOK, Sending, Message, QueueTypeOK
<1>4. CASE link' = "in" /\ toApp' = Append(toApp, PushOf(server)) /\ server' = server
  BY <1>1, <1>3, <1>4, PushTyped DEF TypeOK, Message
<1>5. CASE /\ r # Login
           /\ toApp' = Append(toApp, [text |-> "refused", mine |-> r.mine, ok |-> FALSE])
           /\ UNCHANGED <<server, link>>
  <2>1. [text |-> "refused", mine |-> r.mine, ok |-> FALSE] \in Answer
    BY <1>1, <1>5 DEF Answer, Sending, Request
  <2> QED BY <1>1, <1>3, <1>5, <2>1 DEF TypeOK, Message
<1>6. CASE /\ r # Login
           /\ \E t \in Grants(r) : server' = [server EXCEPT ![r.user] = t]
           /\ LET a == [text |-> Says[r.do], ok |-> TRUE,
                        mine |-> r.mine /\ r.do = "adduser"]
              IN \/ server' = server /\ toApp' = Append(toApp, a)
                 \/ server' # server /\ toApp' = toApp \o <<a, PushOf(server')>>
                 \/ server' # server /\ toApp' = toApp \o <<PushOf(server'), a>>
           /\ UNCHANGED link
  <2> DEFINE a == [text |-> Says[r.do], ok |-> TRUE,
                   mine |-> r.mine /\ r.do = "adduser"]
  <2>1. r \in Request
    BY <1>1, <1>6 DEF Sending
  <2>2. (r.mine /\ r.do = "adduser") \in BOOLEAN /\ TRUE \in BOOLEAN
    BY Zenon
  <2>3. a \in Answer
    BY <2>1, <2>2, GrantsTyped DEF Answer
  <2>4. server' \in [Users -> Types \cup {"none"}]
    BY <1>6, <2>1, GrantsTyped DEF TypeOK
  <2> DEFINE p == PushOf(server')
  <2>5. p \in Message /\ a \in Message /\ toApp \in Seq(Message)
    BY <1>1, <2>3, PushTyped DEF Message
  <2>6. \/ toApp' = Append(toApp, a)
        \/ toApp' = toApp \o <<a, p>>
        \/ toApp' = toApp \o <<p, a>>
    BY <1>6
  <2>7. toApp' \in Seq(Message)
    <3> HIDE DEF a, p
    <3>1. toApp \o <<a, p>> \in Seq(Message)
      BY <2>5, TwoMessages
    <3>2. toApp \o <<p, a>> \in Seq(Message)
      BY <2>5, TwoMessages
    <3>3. Append(toApp, a) \in Seq(Message)
      BY <2>5, TwoMessages
    <3> QED BY <2>6, <3>1, <3>2, <3>3, Zenon
  <2> QED BY <1>3, <1>6, <2>4, <2>7 DEF TypeOK
<1> QED
  BY <1>4, <1>5, <1>6 DEF Serve

LEMMA TypeStep == TypeOK /\ [Next]_vars => TypeOK'
<1> SUFFICES ASSUME TypeOK, [Next]_vars PROVE TypeOK'
  OBVIOUS
<1>0. toServer \in Seq(Sending) /\ toApp \in Seq(Message) /\ QueueTypeOK
  BY DEF TypeOK, Sending, Message
<1>1. CASE Connect \/ ConnectFails
  <2>1. toApp' \in Seq(Message)
    BY <1>0, <1>1 DEF Connect, ConnectFails, Message
  <2> QED BY <1>1, <2>1 DEF Connect, ConnectFails, TypeOK, Message, QueueTypeOK, queue, table
<1>2. CASE Break
  <2>1. toApp' \in Seq(Message) /\ toServer' \in Seq(Sending)
    BY <1>0, <1>2 DEF Break
  <2>2. breaks' \in 0..MaxBreaks
    BY <1>2 DEF Break, TypeOK
  <2>3. /\ link' = "down"
        /\ UNCHANGED <<server, cache, posts, shown, list, word, waiting, current>>
    BY <1>2 DEF Break, queue, table
  <2> QED
    BY <2>1, <2>2, <2>3 DEF TypeOK, Message, Sending, QueueTypeOK
<1>3. CASE ChangedElsewhere
  <2>1. server' \in [Users -> Types \cup {"none"}]
    BY <1>3 DEF ChangedElsewhere, TypeOK
  <2>2. toApp' \in Seq(Message)
    <3> DEFINE p == PushOf(server')
    <3>1. p \in Message
      BY PushTyped DEF Message
    <3>2. toApp' \in {toApp, Append(toApp, p)}
      BY <1>3 DEF ChangedElsewhere
    <3> HIDE DEF p
    <3> QED BY <1>0, <3>1, <3>2
  <2> QED
    BY <1>3, <2>1, <2>2 DEF ChangedElsewhere, TypeOK, Message, QueueTypeOK, queue, table
<1>4. CASE onGetUsers
  <2>1. toApp' \in Seq(Message) /\ cache' \subseteq Entry \cup {Blank}
    BY <1>0, <1>4 DEF onGetUsers, IsPush, Push
  <2> QED
    BY <1>4, <2>1 DEF onGetUsers, TypeOK, Message, QueueTypeOK, queue, table
<1>5. CASE onUserCallback
  BY <1>5 DEF onUserCallback, TypeOK, QueueTypeOK, queue, wire
<1>6. CASE OnConnected
  <2>1. toApp' \in Seq(Message)
    BY <1>0, <1>6 DEF OnConnected
  <2>2. toServer' \in Seq(Sending)
    <3>1. Login \in Sending
      BY DEF Sending
    <3>2. toServer' \in {toServer, Sent(Login)}
      BY <1>6 DEF OnConnected
    <3> QED BY <1>0, <3>1, <3>2, SentTyped
  <2>3. QueueTypeOK'
    BY <1>0, <1>6, ShowTyped DEF OnConnected
  <2> QED
    BY <1>6, <2>1, <2>2, <2>3 DEF OnConnected, TypeOK, Message, Sending, table
<1>7. CASE OnAnswer
  <2> DEFINE a == Head(toApp)
  <2>1. a \in Answer /\ Tail(toApp) \in Seq(Message) /\ Show(a.text)
    BY <1>0, <1>7 DEF OnAnswer, IsAnswer
  <2>2. QueueTypeOK'
    BY <1>0, <2>1, ShowTyped DEF Answer
  <2>3. /\ toApp' \in {Tail(toApp), Orphans(Tail(toApp))}
        /\ toServer' \in {toServer, Orphans(toServer)}
        /\ shown' \in {shown, "members"}
    BY <1>7 DEF OnAnswer
  <2>4. toApp' \in Seq(Message) /\ toServer' \in Seq(Sending)
    BY <1>0, <2>1, <2>3, OrphansFields
  <2> QED
    BY <1>7, <2>2, <2>3, <2>4 DEF OnAnswer, TypeOK, Message, Sending, table
<1>8. CASE OpenMembers \/ CloseMembers \/ getUserUserName \/ onClickAdd
  BY <1>8
  DEF OpenMembers, CloseMembers, getUserUserName, Die, onClickAdd, TypeOK, QueueTypeOK,
      queue, table, wire
<1>9. ASSUME NEW found \in Searches \cup {AnyUser}, doSearch(found) PROVE TypeOK'
  <2>1. CASE Die
    BY <2>1 DEF Die, TypeOK, QueueTypeOK, queue, table, wire
  <2>2. CASE /\ list' = {e \in cache : found = AnyUser \/ e.user \in found}
             /\ word' = found
             /\ UNCHANGED <<wire, cache, posts, shown, queue>>
    <3>1. list' \subseteq Entry \cup {Blank}
      BY <2>2 DEF TypeOK
    <3> QED BY <2>2, <3>1 DEF TypeOK, QueueTypeOK, queue, wire
  <2> QED BY <1>9, <2>1, <2>2 DEF doSearch
<1>10. ASSUME NEW e \in list, NEW b \in Buttons(e), Swipe(e, b) PROVE TypeOK'
  <2>1. CASE e = Blank
    BY <1>10, <2>1 DEF Swipe, Die, TypeOK, QueueTypeOK, queue, table, wire
  <2>2. CASE e # Blank
    <3>1. e \in Entry
      BY <2>2 DEF TypeOK
    <3>2. e.user \in Users /\ e.type \in {"empty", "register", "added"}
      BY <3>1 DEF Entry, Types
    <3>3. b \in {"invite", "add", "delete"}
      BY <2>2, <3>2 DEF Buttons
    <3>4. [do |-> b, user |-> e.user, mine |-> FALSE] \in Sending
      BY <3>2, <3>3 DEF Sending, Request, Says
    <3>5. toServer' \in Seq(Sending)
      BY <1>10, <2>2, <3>4, SentTyped DEF Swipe
    <3> QED
      BY <1>10, <2>2, <3>5 DEF Swipe, TypeOK, Sending, QueueTypeOK, queue, table
  <2> QED BY <2>1, <2>2
<1>11. ASSUME NEW e \in list, onClickInfo(e) PROVE TypeOK'
  <2>1. QueueTypeOK'
    BY <1>0, <1>11, ShowTyped DEF onClickInfo
  <2> QED BY <1>11, <2>1 DEF onClickInfo, TypeOK, wire, table
<1>12. ASSUME NEW u \in Users, onClickOK(u) PROVE TypeOK'
  <2>1. [do |-> "adduser", user |-> u, mine |-> TRUE] \in Sending
    BY DEF Sending, Request, Says
  <2>2. toServer' \in Seq(Sending)
    BY <1>12, <2>1, SentTyped DEF onClickOK
  <2> QED
    BY <1>12, <2>2 DEF onClickOK, TypeOK, Sending, QueueTypeOK, queue, table
<1>13. CASE BackToMembers
  <2>1. toApp' \in Seq(Message) /\ toServer' \in Seq(Sending)
    BY <1>0, <1>13, OrphansFields DEF BackToMembers
  <2> QED
    BY <1>13, <2>1 DEF BackToMembers, TypeOK, Message, Sending, QueueTypeOK, queue, table
<1>14. CASE BannerStep
  <2>1. QueueTypeOK'
    BY <1>0, <1>14 DEF BannerStep, Advance, Finish, QueueTypeOK
  <2> QED BY <1>14, <2>1 DEF BannerStep, TypeOK, wire, table
<1>15. CASE UNCHANGED vars
  BY <1>15 DEF vars, TypeOK, QueueTypeOK, queue, wire, table
<1> QED
  BY <1>1, <1>2, <1>3, <1>4, <1>5, <1>6, <1>7, <1>8, <1>9, <1>10, <1>11, <1>12, <1>13,
     <1>14, <1>15, TypeServe
  DEF Next, Network, MainThread, UserActs

\* The wire, the cache, the screens and the banners keep their types.
THEOREM TypeCorrect == Spec => []TypeOK
  BY TypeInit, TypeStep, PTL DEF Spec

(* Pushes and the cache. *)

\* No message of s is a push; the last push in s carries these users.
NoPush(s) == \A i \in 1..Len(s) : ~IsPush(s[i])
LastPush(s, users) ==
  \A k \in 1..Len(s) :
    IsPush(s[k]) /\ (\A j \in 1..Len(s) : k < j => ~IsPush(s[j]))
    => s[k].list = users

\* On a connection that is logged in the last push under way carries the
\* server's users, and with none under way the cache holds them.
PushFollows ==
  link = "in" =>
    /\ LastPush(toApp, EntriesOf(server))
    /\ NoPush(toApp) => cache = EntriesOf(server)

\* With no post queued the members' screen holds what the cache does, or what a
\* search found in it, which was no search through the blank entry.
ScreenFollows ==
  posts = 0 /\ shown \in {"members", "add"}
    => list = cache \/ (Blank \notin cache /\ list = {e \in cache : e.user \in word})

\* A message joins the others.
LEMMA MessageJoins ==
  ASSUME NEW s \in Seq(Message), NEW m \in Message, NEW users
  PROVE  /\ IsPush(m) => ~NoPush(Append(s, m))
         /\ IsPush(m) /\ m.list = users => LastPush(Append(s, m), users)
         /\ ~IsPush(m) => /\ NoPush(Append(s, m)) <=> NoPush(s)
                          /\ LastPush(s, users) => LastPush(Append(s, m), users)
<1> DEFINE w == Append(s, m)
           n == Len(s)
<1>1. /\ n \in Nat /\ Len(w) = n + 1 /\ w[n + 1] = m
      /\ \A i \in 1..n : w[i] = s[i]
  OBVIOUS
<1> HIDE DEF w, n
<1>2. \A i \in 1..Len(w) : i \in 1..n \/ i = n + 1
  BY <1>1
<1>3. n + 1 \in 1..Len(w) /\ \A i \in 1..n : i \in 1..Len(w) /\ i < n + 1
  BY <1>1
<1>4. IsPush(m) => ~NoPush(w)
  BY <1>1, <1>3 DEF NoPush
<1>5. IsPush(m) /\ m.list = users => LastPush(w, users)
  BY <1>1, <1>2, <1>3 DEF LastPush
<1>6. ~IsPush(m) => (NoPush(w) <=> NoPush(s))
  BY <1>1, <1>2, <1>3 DEF NoPush, n
<1>7. ~IsPush(m) /\ LastPush(s, users) => LastPush(w, users)
  <2> SUFFICES ASSUME ~IsPush(m), LastPush(s, users), NEW k \in 1..Len(w), IsPush(w[k]),
                      \A j \in 1..Len(w) : k < j => ~IsPush(w[j])
               PROVE  w[k].list = users
    BY DEF LastPush
  <2>1. k \in 1..n /\ w[k] = s[k]
    BY <1>1, <1>2
  <2>2. \A j \in 1..n : k < j => ~IsPush(s[j])
    BY <1>1, <1>3
  <2> QED BY <2>1, <2>2 DEF LastPush, n
<1> QED BY <1>4, <1>5, <1>6, <1>7 DEF w

\* The oldest message is taken up.
LEMMA MessageLeaves ==
  ASSUME NEW s \in Seq(Message), s # <<>>, NEW users
  PROVE  /\ LastPush(s, users) => LastPush(Tail(s), users)
         /\ NoPush(s) <=> ~IsPush(Head(s)) /\ NoPush(Tail(s))
         /\ LastPush(s, users) /\ IsPush(Head(s)) /\ NoPush(Tail(s))
              => Head(s).list = users
<1> DEFINE w == Tail(s)
           n == Len(s)
<1>1. /\ n \in Nat /\ 1 \in 1..n /\ Len(w) = n - 1 /\ Head(s) = s[1]
      /\ \A i \in 1..Len(w) : w[i] = s[i + 1]
  OBVIOUS
<1> HIDE DEF w
<1>2. \A i \in 1..Len(w) : i + 1 \in 2..n /\ i + 1 \in 1..n
  BY <1>1
<1>3. \A i \in 2..n : i - 1 \in 1..Len(w) /\ w[i - 1] = s[i]
  <2> TAKE i \in 2..n
  <2>1. i - 1 \in 1..Len(w) /\ (i - 1) + 1 = i
    BY <1>1
  <2> QED BY <1>1, <2>1
<1>4. NoPush(w) <=> \A i \in 2..n : ~IsPush(s[i])
  BY <1>1, <1>2, <1>3 DEF NoPush
<1>5. NoPush(s) <=> ~IsPush(s[1]) /\ NoPush(w)
  <2>1. \A i \in 1..n : i = 1 \/ i \in 2..n
    BY <1>1
  <2>2. \A i \in 2..n : i \in 1..n
    BY <1>1
  <2> QED BY <1>1, <1>4, <2>1, <2>2 DEF NoPush
<1>6. LastPush(s, users) /\ IsPush(s[1]) /\ NoPush(w) => s[1].list = users
  <2>1. \A j \in 1..n : 1 < j => j \in 2..n
    BY <1>1
  <2> QED BY <1>1, <1>4, <2>1 DEF LastPush
<1>7. LastPush(s, users) => LastPush(w, users)
  <2> SUFFICES ASSUME LastPush(s, users), NEW k \in 1..Len(w), IsPush(w[k]),
                      \A j \in 1..Len(w) : k < j => ~IsPush(w[j])
               PROVE  w[k].list = users
    BY DEF LastPush
  <2>1. k + 1 \in 1..n /\ w[k] = s[k + 1]
    BY <1>1, <1>2
  <2>2. \A j \in 1..n : k + 1 < j => ~IsPush(s[j])
    <3> SUFFICES ASSUME NEW j \in 1..n, k + 1 < j PROVE ~IsPush(s[j])
      OBVIOUS
    <3>1. j \in 2..n /\ k < j - 1
      BY <1>1
    <3> QED BY <1>3, <3>1
  <2> QED BY <2>1, <2>2 DEF LastPush
<1> QED BY <1>1, <1>5, <1>6, <1>7 DEF w

\* The pushes stay when a screen's answers are orphaned.
LEMMA OrphansPushes ==
  ASSUME NEW s \in Seq(Message), NEW users
  PROVE  /\ NoPush(Orphans(s)) <=> NoPush(s)
         /\ LastPush(s, users) => LastPush(Orphans(s), users)
<1> DEFINE w == Orphans(s)
<1>1. /\ Len(w) = Len(s)
      /\ \A i \in 1..Len(s) : w[i] = Orphan(s[i]) /\ s[i] \in Message
  BY OrphansFields
<1>2. \A i \in 1..Len(s) : /\ IsPush(w[i]) <=> IsPush(s[i])
                           /\ IsPush(s[i]) => w[i] = s[i]
  BY <1>1, OrphanKinds DEF IsPush
<1> HIDE DEF w
<1> QED
  <2>1. NoPush(w) <=> NoPush(s)
    BY <1>1, <1>2 DEF NoPush
  <2>2. LastPush(s, users) => LastPush(w, users)
    BY <1>1, <1>2 DEF LastPush
  <2> QED BY <2>1, <2>2 DEF w

\* What the server sends on a connection that is or gets logged in.
LEMMA PushServe ==
  ASSUME TypeOK, PushFollows, Serve
  PROVE  PushFollows'
<1> DEFINE r == Head(toServer)
<1>1. r \in Sending /\ toApp \in Seq(Message) /\ cache' = cache
  BY DEF Serve, TypeOK, Sending, Message
<1>2. CASE toApp' = Append(toApp, PushOf(server)) /\ server' = server
  <2>1. PushOf(server) \in Message /\ IsPush(PushOf(server))
        /\ PushOf(server).list = EntriesOf(server)
    BY PushTyped DEF Message, IsPush
  <2>2. ~NoPush(toApp') /\ LastPush(toApp', EntriesOf(server))
    BY <1>1, <1>2, <2>1, MessageJoins
  <2> QED BY <1>2, <2>2 DEF PushFollows
<1>3. CASE /\ r # Login
           /\ toApp' = Append(toApp, [text |-> "refused", mine |-> r.mine, ok |-> FALSE])
           /\ UNCHANGED <<server, link>>
  <2> DEFINE a == [text |-> "refused", mine |-> r.mine, ok |-> FALSE]
  <2>1. a \in Answer
    <3>1. [text |-> "refused", mine |-> r.mine, ok |-> FALSE] \in Answer
      BY <1>1, <1>3 DEF Answer, Sending, Request
    <3> QED BY <3>1
  <2>2. a \in Message /\ ~IsPush(a)
    BY <2>1, Kinds DEF Message, IsPush
  <2> HIDE DEF a
  <2>3. /\ NoPush(toApp') <=> NoPush(toApp)
        /\ LastPush(toApp, EntriesOf(server)) => LastPush(toApp', EntriesOf(server))
    BY <1>1, <1>3, <2>2, MessageJoins DEF a
  <2> QED BY <1>1, <1>3, <2>3 DEF PushFollows
<1>4. CASE /\ r # Login
           /\ LET a == [text |-> Says[r.do], ok |-> TRUE,
                        mine |-> r.mine /\ r.do = "adduser"]
              IN \/ server' = server /\ toApp' = Append(toApp, a)
                 \/ server' # server /\ toApp' = toApp \o <<a, PushOf(server')>>
                 \/ server' # server /\ toApp' = toApp \o <<PushOf(server'), a>>
           /\ UNCHANGED link
  <2> DEFINE a == [text |-> Says[r.do], ok |-> TRUE,
                   mine |-> r.mine /\ r.do = "adduser"]
             p == PushOf(server')
  <2>1. r \in Request
    BY <1>1, <1>4 DEF Sending
  <2>2. (r.mine /\ r.do = "adduser") \in BOOLEAN /\ TRUE \in BOOLEAN
    BY Zenon
  <2>3. a \in Answer
    BY <2>1, <2>2, GrantsTyped DEF Answer
  <2>4. a \in Message /\ ~IsPush(a)
    BY <2>3, Kinds DEF Message, IsPush
  <2>5. p \in Message /\ IsPush(p) /\ p.list = EntriesOf(server')
    BY PushTyped DEF Message, IsPush
  <2>6. \/ server' = server /\ toApp' = Append(toApp, a)
        \/ toApp' = toApp \o <<a, p>>
        \/ toApp' = toApp \o <<p, a>>
    BY <1>4
  <2> HIDE DEF a, p
  <2>7. CASE server' = server /\ toApp' = Append(toApp, a)
    <3>1. /\ NoPush(toApp') <=> NoPush(toApp)
          /\ LastPush(toApp, EntriesOf(server)) => LastPush(toApp', EntriesOf(server))
      BY <1>1, <2>4, <2>7, MessageJoins
    <3>2. EntriesOf(server') = EntriesOf(server)
      BY <2>7
    <3> QED BY <1>1, <1>4, <3>1, <3>2 DEF PushFollows
  <2>8. CASE toApp' = toApp \o <<a, p>>
    <3>1. toApp' = Append(Append(toApp, a), p) /\ Append(toApp, a) \in Seq(Message)
      BY <1>1, <2>4, <2>5, <2>8, TwoMessages
    <3>2. ~NoPush(toApp') /\ LastPush(toApp', EntriesOf(server'))
      BY <2>5, <3>1, MessageJoins
    <3> QED BY <3>2 DEF PushFollows
  <2>9. CASE toApp' = toApp \o <<p, a>>
    <3>1. toApp' = Append(Append(toApp, p), a) /\ Append(toApp, p) \in Seq(Message)
      BY <1>1, <2>4, <2>5, <2>9, TwoMessages
    <3>2. ~NoPush(Append(toApp, p)) /\ LastPush(Append(toApp, p), EntriesOf(server'))
      BY <1>1, <2>5, MessageJoins
    <3>3. ~NoPush(toApp') /\ LastPush(toApp', EntriesOf(server'))
      BY <2>4, <3>1, <3>2, MessageJoins
    <3> QED BY <3>3 DEF PushFollows
  <2> QED BY <2>6, <2>7, <2>8, <2>9
<1> QED
  BY <1>2, <1>3, <1>4 DEF Serve

LEMMA PushStep == TypeOK /\ PushFollows /\ [Next]_vars => PushFollows'
<1> SUFFICES ASSUME TypeOK, PushFollows, [Next]_vars PROVE PushFollows'
  OBVIOUS
<1>0. toApp \in Seq(Message)
  BY DEF TypeOK, Message
<1> DEFINE users == EntriesOf(server)
<1>1. CASE Connect \/ ConnectFails \/ Break
  <2>1. link' # "in"
    BY <1>1 DEF Connect, ConnectFails, Break
  <2> QED BY <2>1 DEF PushFollows
<1>2. CASE ChangedElsewhere
  <2> SUFFICES ASSUME link' = "in"
               PROVE  /\ LastPush(toApp', EntriesOf(server'))
                      /\ NoPush(toApp') => cache' = EntriesOf(server')
    BY DEF PushFollows
  <2> DEFINE p == PushOf(server')
  <2>1. toApp' = Append(toApp, p)
    BY <1>2 DEF ChangedElsewhere
  <2>2. p \in Message /\ IsPush(p) /\ p.list = EntriesOf(server')
    BY PushTyped DEF Message, IsPush
  <2> HIDE DEF p
  <2> QED BY <1>0, <2>1, <2>2, MessageJoins
<1>3. CASE onGetUsers
  <2>1. /\ toApp # <<>> /\ IsPush(Head(toApp)) /\ cache' = Head(toApp).list
        /\ toApp' = Tail(toApp) /\ server' = server /\ link' = link
    BY <1>3 DEF onGetUsers
  <2>2. /\ LastPush(toApp, users) => LastPush(toApp', users)
        /\ LastPush(toApp, users) /\ NoPush(toApp') => cache' = users
    BY <1>0, <2>1, MessageLeaves
  <2> QED BY <2>1, <2>2 DEF PushFollows
<1>4. ASSUME toApp # <<>>, ~IsPush(Head(toApp)), UNCHANGED <<server, link, cache>>,
             toApp' \in {Tail(toApp), Orphans(Tail(toApp))}
      PROVE  PushFollows'
  <2>1. /\ LastPush(toApp, users) => LastPush(Tail(toApp), users)
        /\ NoPush(toApp) <=> NoPush(Tail(toApp))
    BY <1>0, <1>4, MessageLeaves
  <2>2. Tail(toApp) \in Seq(Message)
    BY <1>0, <1>4
  <2>3. /\ LastPush(Tail(toApp), users) => LastPush(toApp', users)
        /\ NoPush(toApp') <=> NoPush(Tail(toApp))
    <3> DEFINE t == Tail(toApp)
    <3>1. /\ LastPush(t, users) => LastPush(Orphans(t), users)
          /\ NoPush(Orphans(t)) <=> NoPush(t)
      BY <2>2, OrphansPushes
    <3> QED BY <1>4, <3>1
  <2> QED BY <1>4, <2>1, <2>3 DEF PushFollows
<1>5. CASE OnConnected
  BY <1>4, <1>5, Kinds DEF OnConnected, IsPush
<1>6. CASE OnAnswer
  <2>1. /\ toApp # <<>> /\ ~IsPush(Head(toApp)) /\ UNCHANGED <<server, link, cache>>
        /\ toApp' \in {Tail(toApp), Orphans(Tail(toApp))}
    BY <1>6, Kinds DEF OnAnswer, IsPush, IsAnswer
  <2> QED BY <1>4, <2>1
<1>7. CASE BackToMembers
  <2>1. toApp' = Orphans(toApp) /\ UNCHANGED <<server, link, cache>>
    BY <1>7 DEF BackToMembers
  <2> QED BY <1>0, <2>1, OrphansPushes DEF PushFollows
<1>8. ASSUME UNCHANGED <<server, link, toApp, cache>> PROVE PushFollows'
  BY <1>8 DEF PushFollows
<1>9. CASE onUserCallback \/ BannerStep \/ UNCHANGED vars
  BY <1>8, <1>9 DEF onUserCallback, BannerStep, vars, wire
<1>10. CASE OpenMembers \/ CloseMembers \/ getUserUserName \/ onClickAdd
  BY <1>8, <1>10 DEF OpenMembers, CloseMembers, getUserUserName, Die, onClickAdd, wire
<1>11. ASSUME NEW found \in Searches \cup {AnyUser}, doSearch(found) PROVE PushFollows'
  BY <1>8, <1>11 DEF doSearch, Die, wire
<1>12. ASSUME NEW e \in list, NEW b \in Buttons(e), Swipe(e, b) PROVE PushFollows'
  BY <1>8, <1>12 DEF Swipe, Die, wire
<1>13. ASSUME NEW e \in list, onClickInfo(e) PROVE PushFollows'
  BY <1>8, <1>13 DEF onClickInfo, wire
<1>14. ASSUME NEW u \in Users, onClickOK(u) PROVE PushFollows'
  BY <1>8, <1>14 DEF onClickOK
<1> QED
  BY <1>1, <1>2, <1>3, <1>5, <1>6, <1>7, <1>9, <1>10, <1>11, <1>12, <1>13, <1>14,
     PushServe
  DEF Next, Network, MainThread, UserActs

-----------------------------------------------------------------------------
(* Requests and answers whose screen is still there. *)

NoneMine(s) == \A i \in 1..Len(s) : s[i] \in Request \cup Answer => ~s[i].mine

\* Only the screen that adds users, while it is there, has some.
MineHasScreen == shown # "add" => NoneMine(toServer) /\ NoneMine(toApp)

\* Neither messages that are no one's, nor taking some away, make one mine.
LEMMA NoneMineKept ==
  ASSUME NEW s \in Seq(Message \cup Sending), NoneMine(s)
  PROVE  /\ \A m \in Message \cup Sending :
              (m \in Request \cup Answer => ~m.mine) => NoneMine(Append(s, m))
         /\ s # <<>> => /\ NoneMine(Tail(s))
                        /\ Head(s) \in Request \cup Answer => ~Head(s).mine
         /\ \A n \in 0..Len(s) : NoneMine(SubSeq(s, 1, n))
<1>1. ASSUME NEW m \in Message \cup Sending, m \in Request \cup Answer => ~m.mine
      PROVE  NoneMine(Append(s, m))
  <2>1. /\ Len(Append(s, m)) = Len(s) + 1 /\ Len(s) \in Nat
        /\ \A i \in 1..Len(s) : Append(s, m)[i] = s[i]
        /\ Append(s, m)[Len(s) + 1] = m
    OBVIOUS
  <2>2. \A i \in 1..(Len(s) + 1) : i \in 1..Len(s) \/ i = Len(s) + 1
    BY <2>1
  <2> QED BY <1>1, <2>1, <2>2 DEF NoneMine
<1>2. ASSUME s # <<>>
      PROVE  NoneMine(Tail(s)) /\ (Head(s) \in Request \cup Answer => ~Head(s).mine)
  <2>1. /\ Len(Tail(s)) = Len(s) - 1 /\ Len(s) \in Nat /\ Head(s) = s[1]
        /\ 1 \in 1..Len(s)
        /\ \A i \in 1..Len(Tail(s)) : Tail(s)[i] = s[i + 1] /\ i + 1 \in 1..Len(s)
    BY <1>2
  <2> QED BY <2>1 DEF NoneMine
<1>3. ASSUME NEW n \in 0..Len(s) PROVE NoneMine(SubSeq(s, 1, n))
  <2>1. /\ Len(SubSeq(s, 1, n)) = n
        /\ \A i \in 1..n : SubSeq(s, 1, n)[i] = s[i] /\ i \in 1..Len(s)
    OBVIOUS
  <2> QED BY <2>1 DEF NoneMine
<1> QED BY <1>1, <1>2, <1>3

\* A screen that is gone leaves none.
LEMMA OrphansMine ==
  /\ \A s \in Seq(Message) : NoneMine(Orphans(s))
  /\ \A s \in Seq(Sending) : NoneMine(Orphans(s))
<1>1. ASSUME NEW m \in Message \cup Sending, Orphan(m) \in Request \cup Answer
      PROVE  ~Orphan(m).mine
  <2>1. CASE m \in Request \cup Answer
    BY <2>1 DEF Orphan, Request, Answer
  <2>2. CASE m \notin Request \cup Answer
    BY <1>1, <2>2 DEF Orphan
  <2> QED BY <2>1, <2>2
<1>2. ASSUME NEW M, M \in {Message, Sending}, NEW s \in Seq(M)
      PROVE  NoneMine(Orphans(s))
  <2>1. DOMAIN s = 1..Len(s) /\ Len(s) \in Nat /\ \A i \in 1..Len(s) : s[i] \in M
    OBVIOUS
  <2>2. Orphans(s) = [i \in 1..Len(s) |-> Orphan(s[i])]
    BY <2>1 DEF Orphans
  <2>3. Len(Orphans(s)) = Len(s)
    BY <2>1, <2>2
  <2> QED BY <1>1, <1>2, <2>1, <2>2, <2>3 DEF NoneMine
<1> QED BY <1>2

LEMMA MineServe ==
  ASSUME TypeOK, NoneMine(toServer), NoneMine(toApp), Serve
  PROVE  NoneMine(toServer') /\ NoneMine(toApp')
<1> DEFINE r == Head(toServer)
<1>1. /\ toServer \in Seq(Message \cup Sending) /\ toApp \in Seq(Message \cup Sending)
      /\ r \in Sending /\ toServer # <<>> /\ toServer' = Tail(toServer)
      /\ toApp \in Seq(Message)
  BY DEF Serve, TypeOK, Sending, Message
<1>2. NoneMine(toServer') /\ (r \in Request => ~r.mine)
  BY <1>1, NoneMineKept
<1>3. ASSUME NEW p \in Push PROVE p \in Message /\ p \notin Request \cup Answer
  BY Kinds DEF Message
<1>4. CASE toApp' = Append(toApp, PushOf(server))
  BY <1>1, <1>3, <1>4, NoneMineKept, PushTyped
<1>5. CASE r # Login /\
           toApp' = Append(toApp, [text |-> "refused", mine |-> r.mine, ok |-> FALSE])
  <2>1. r \in Request
    BY <1>1, <1>5 DEF Sending
  <2>2. [text |-> "refused", mine |-> r.mine, ok |-> FALSE] \in Answer
    BY <2>1 DEF Answer, Request
  <2>3. [text |-> "refused", mine |-> r.mine, ok |-> FALSE] \in Message
    BY <2>2 DEF Message
  <2>4. ~[text |-> "refused", mine |-> r.mine, ok |-> FALSE].mine
    BY <1>2, <2>1
  <2> QED BY <1>1, <1>2, <1>5, <2>3, <2>4, NoneMineKept
<1>6. CASE /\ r # Login
           /\ LET a == [text |-> Says[r.do], ok |-> TRUE,
                        mine |-> r.mine /\ r.do = "adduser"]
              IN \/ server' = server /\ toApp' = Append(toApp, a)
                 \/ server' # server /\ toApp' = toApp \o <<a, PushOf(server')>>
                 \/ server' # server /\ toApp' = toApp \o <<PushOf(server'), a>>
  <2> DEFINE a == [text |-> Says[r.do], ok |-> TRUE,
                   mine |-> r.mine /\ r.do = "adduser"]
             p == PushOf(server')
  <2>1. r \in Request
    BY <1>1, <1>6 DEF Sending
  <2>2. (r.mine /\ r.do = "adduser") \in BOOLEAN /\ TRUE \in BOOLEAN
    BY Zenon
  <2>3. a \in Answer
    BY <2>1, <2>2, GrantsTyped DEF Answer
  <2>4. a \in Message /\ ~a.mine
    BY <1>2, <2>1, <2>3 DEF Message
  <2>5. p \in Message /\ p \notin Request \cup Answer
    BY <1>3, PushTyped
  <2>6. \/ toApp' = Append(toApp, a)
        \/ toApp' = toApp \o <<a, p>>
        \/ toApp' = toApp \o <<p, a>>
    BY <1>6
  <2> HIDE DEF a, p
  <2>7. /\ toApp \o <<a, p>> = Append(Append(toApp, a), p)
        /\ toApp \o <<p, a>> = Append(Append(toApp, p), a)
        /\ Append(toApp, a) \in Seq(Message \cup Sending)
        /\ Append(toApp, p) \in Seq(Message \cup Sending)
    BY <1>1, <2>4, <2>5, TwoMessages
  <2>8. NoneMine(Append(toApp, a)) /\ NoneMine(Append(toApp, p))
    BY <1>1, <2>4, <2>5, NoneMineKept
  <2>9. NoneMine(Append(Append(toApp, a), p)) /\ NoneMine(Append(Append(toApp, p), a))
    BY <2>4, <2>5, <2>7, <2>8, NoneMineKept
  <2> QED BY <1>2, <2>6, <2>7, <2>8, <2>9
<1> QED
  BY <1>2, <1>4, <1>5, <1>6 DEF Serve

LEMMA MineStep == TypeOK /\ MineHasScreen /\ [Next]_vars => MineHasScreen'
<1> SUFFICES ASSUME TypeOK, MineHasScreen, [Next]_vars, shown' # "add"
             PROVE  NoneMine(toServer') /\ NoneMine(toApp')
  BY DEF MineHasScreen
<1>0. /\ toServer \in Seq(Message \cup Sending) /\ toApp \in Seq(Message \cup Sending)
      /\ toServer \in Seq(Sending) /\ toApp \in Seq(Message)
  BY DEF TypeOK, Message, Sending
<1>1. CASE BackToMembers
  BY <1>0, <1>1, OrphansMine DEF BackToMembers
<1>2. CASE OnAnswer
  <2>1. toApp # <<>> /\ Tail(toApp) \in Seq(Message)
    BY <1>0, <1>2 DEF OnAnswer
  <2>2. CASE toApp' = Orphans(Tail(toApp)) /\ toServer' = Orphans(toServer)
    BY <1>0, <2>1, <2>2, OrphansMine
  <2>3. CASE toApp' = Tail(toApp) /\ UNCHANGED <<shown, toServer>>
    BY <1>0, <2>1, <2>3, NoneMineKept DEF MineHasScreen
  <2> QED BY <1>2, <2>2, <2>3 DEF OnAnswer
<1>3. ASSUME shown # "add", Serve PROVE NoneMine(toServer') /\ NoneMine(toApp')
  BY <1>3, MineServe DEF MineHasScreen
<1>4. CASE shown # "add" /\ ~Serve
  <2>1. NoneMine(toServer) /\ NoneMine(toApp)
    BY <1>4 DEF MineHasScreen
  <2>2. ASSUME UNCHANGED <<toServer, toApp>>
        PROVE  NoneMine(toServer') /\ NoneMine(toApp')
    BY <2>1, <2>2
  <2>3. ASSUME NEW r \in Sending, r \in Request => ~r.mine, toServer' = Sent(r)
        PROVE  NoneMine(toServer')
    <3>1. r \in Message \cup Sending /\ (r \in Request \cup Answer => ~r.mine)
      BY <2>3, Kinds DEF Sending
    <3> QED BY <1>0, <2>1, <2>3, <3>1, NoneMineKept DEF Sent
  <2>4. CASE Connect \/ ConnectFails
    <3>1. \A m \in {Connected, Failed} : m \in Message /\ m \notin Request \cup Answer
      BY Kinds DEF Message
    <3> QED BY <1>0, <2>1, <2>4, <3>1, NoneMineKept DEF Connect, ConnectFails
  <2>5. CASE Break
    <3>1. NoneMine(<<>>)
      BY DEF NoneMine
    <3> QED BY <1>0, <2>1, <2>5, <3>1, NoneMineKept DEF Break
  <2>6. CASE ChangedElsewhere
    <3> DEFINE p == PushOf(server')
    <3>1. p \in Message /\ p \notin Request \cup Answer
      BY Kinds, PushTyped DEF Message
    <3>2. toServer' = toServer /\ toApp' \in {toApp, Append(toApp, p)}
      BY <2>6 DEF ChangedElsewhere
    <3> HIDE DEF p
    <3> QED BY <1>0, <2>1, <3>1, <3>2, NoneMineKept
  <2>7. CASE onGetUsers
    BY <1>0, <2>1, <2>7, NoneMineKept DEF onGetUsers
  <2>8. CASE OnConnected
    <3>1. NoneMine(toApp')
      BY <1>0, <2>1, <2>8, NoneMineKept DEF OnConnected
    <3>2. Login \in Sending /\ Login \notin Request
      BY Kinds DEF Sending
    <3>3. toServer' = toServer \/ toServer' = Sent(Login)
      BY <2>8 DEF OnConnected
    <3>4. CASE toServer' = toServer
      BY <2>1, <3>1, <3>4
    <3> QED BY <2>3, <3>1, <3>2, <3>3, <3>4
  <2>9. ASSUME NEW e \in list, NEW b \in Buttons(e), Swipe(e, b)
        PROVE  NoneMine(toServer') /\ NoneMine(toApp')
    <3>1. CASE e = Blank
      BY <2>2, <2>9, <3>1 DEF Swipe, Die, wire
    <3>2. CASE e # Blank
      <4> DEFINE r == [do |-> b, user |-> e.user, mine |-> FALSE]
      <4>1. e \in Entry
        BY <3>2 DEF TypeOK
      <4>2. e.user \in Users /\ e.type \in {"empty", "register", "added"}
        BY <4>1 DEF Entry, Types
      <4>3. b \in {"invite", "add", "delete"}
        BY <3>2, <4>2 DEF Buttons
      <4>4. r \in Sending /\ ~r.mine
        BY <4>2, <4>3 DEF Sending, Request, Says
      <4>5. toServer' = Sent(r) /\ toApp' = toApp
        BY <2>9, <3>2 DEF Swipe
      <4> HIDE DEF r
      <4> QED BY <2>1, <2>3, <4>4, <4>5
    <3> QED BY <3>1, <3>2
  <2>10. CASE OpenMembers \/ CloseMembers \/ getUserUserName \/ onClickAdd
              \/ onUserCallback \/ BannerStep \/ UNCHANGED vars
    BY <2>2, <2>10 DEF OpenMembers, CloseMembers, getUserUserName, Die, onClickAdd,
                       onUserCallback, BannerStep, vars, wire
  <2>11. ASSUME NEW found \in Searches \cup {AnyUser}, doSearch(found)
         PROVE  NoneMine(toServer') /\ NoneMine(toApp')
    BY <2>2, <2>11 DEF doSearch, Die, wire
  <2>12. ASSUME NEW e \in list, onClickInfo(e)
         PROVE  NoneMine(toServer') /\ NoneMine(toApp')
    BY <2>2, <2>12 DEF onClickInfo, wire
  <2> QED
    BY <1>1, <1>2, <1>4, <2>4, <2>5, <2>6, <2>7, <2>8, <2>9, <2>10, <2>11, <2>12
    DEF Next, Network, MainThread, UserActs, onClickOK
<1>5. CASE shown = "add"
  <2>1. shown' # shown
    BY <1>5
  <2> QED
    BY <1>1, <1>2, <1>5, <2>1
    DEF Next, Network, Connect, ConnectFails, Break, Serve, ChangedElsewhere, MainThread, onGetUsers,
        onUserCallback, OnConnected, UserActs, OpenMembers, CloseMembers, doSearch, Swipe,
        onClickInfo, onClickAdd, onClickOK, getUserUserName, BannerStep, vars
<1> QED BY <1>3, <1>4, <1>5

-----------------------------------------------------------------------------
(* The screen. *)

LEMMA ScreenStep ==
  TypeOK /\ MineHasScreen /\ ScreenFollows /\ [Next]_vars => ScreenFollows'
<1> SUFFICES ASSUME TypeOK, MineHasScreen, ScreenFollows, [Next]_vars PROVE ScreenFollows'
  OBVIOUS
<1>1. ASSUME UNCHANGED <<cache, posts, list, word>>,
             shown' \in {"members", "add"} => shown \in {"members", "add"}
      PROVE  ScreenFollows'
  BY <1>1 DEF ScreenFollows
<1>2. CASE Network
  BY <1>1, <1>2 DEF Network, Connect, ConnectFails, Break, Serve, ChangedElsewhere, table
<1>3. CASE onGetUsers
  <2>1. posts' # 0
    BY <1>3 DEF onGetUsers, TypeOK
  <2> QED BY <2>1 DEF ScreenFollows
<1>4. CASE onUserCallback
  <2>1. shown' \in {"members", "add"} => list' = cache'
    BY <1>4 DEF onUserCallback
  <2> QED BY <2>1 DEF ScreenFollows
<1>5. CASE OnConnected \/ BannerStep \/ UNCHANGED vars
  BY <1>1, <1>5 DEF OnConnected, BannerStep, vars, table
<1>6. CASE OnAnswer
  <2>1. UNCHANGED <<cache, posts, list, word>>
    BY <1>6 DEF OnAnswer, table
  <2>2. shown' = shown \/ (shown' = "members" /\ Head(toApp).mine)
    BY <1>6 DEF OnAnswer
  <2>3. Head(toApp) = toApp[1] /\ 1 \in 1..Len(toApp) /\ Head(toApp) \in Answer
    BY <1>6 DEF OnAnswer, TypeOK, IsAnswer
  <2>4. Head(toApp).mine => shown = "add"
    BY <2>3 DEF MineHasScreen, NoneMine
  <2> QED BY <1>1, <2>1, <2>2, <2>4
<1>7. CASE OpenMembers
  BY <1>7 DEF OpenMembers, ScreenFollows
<1>8. CASE CloseMembers \/ getUserUserName
  <2>1. shown' \notin {"members", "add"}
    BY <1>8 DEF CloseMembers, getUserUserName, Die
  <2> QED BY <2>1 DEF ScreenFollows
<1>9. CASE onClickAdd \/ BackToMembers
  BY <1>1, <1>9 DEF onClickAdd, BackToMembers, table
<1>10. ASSUME NEW found \in Searches \cup {AnyUser}, doSearch(found) PROVE ScreenFollows'
  <2>1. CASE Die
    BY <2>1 DEF Die, ScreenFollows
  <2>2. CASE /\ ~(found # AnyUser /\ Blank \in cache)
             /\ list' = {e \in cache : found = AnyUser \/ e.user \in found}
             /\ word' = found /\ cache' = cache
    <3>1. CASE found = AnyUser
      BY <2>2, <3>1 DEF ScreenFollows
    <3>2. CASE found # AnyUser
      <4>1. Blank \notin cache' /\ list' = {e \in cache' : e.user \in word'}
        BY <2>2, <3>2
      <4> QED BY <4>1 DEF ScreenFollows
    <3> QED BY <3>1, <3>2
  <2> QED BY <1>10, <2>1, <2>2 DEF doSearch
<1>11. ASSUME NEW e \in list, NEW b \in Buttons(e), Swipe(e, b) PROVE ScreenFollows'
  <2>1. CASE Die
    BY <2>1 DEF Die, ScreenFollows
  <2>2. CASE ~Die
    BY <1>1, <1>11, <2>2 DEF Swipe, table
  <2> QED BY <2>1, <2>2
<1>12. ASSUME NEW e \in list, onClickInfo(e) PROVE ScreenFollows'
  BY <1>1, <1>12 DEF onClickInfo, table
<1>13. ASSUME NEW u \in Users, onClickOK(u) PROVE ScreenFollows'
  BY <1>1, <1>13 DEF onClickOK, table
<1> QED
  BY <1>2, <1>3, <1>4, <1>5, <1>6, <1>7, <1>8, <1>9, <1>10, <1>11, <1>12, <1>13
  DEF Next, MainThread, UserActs

LEMMA FollowsCorrect == Spec => [](PushFollows /\ MineHasScreen /\ ScreenFollows)
<1>1. Init => PushFollows /\ MineHasScreen /\ ScreenFollows
  <2> SUFFICES ASSUME Init PROVE PushFollows /\ MineHasScreen /\ ScreenFollows
    OBVIOUS
  <2>1. /\ <<>> \in Seq(Message) /\ PushOf(server) \in Message
        /\ IsPush(PushOf(server)) /\ PushOf(server).list = EntriesOf(server)
    BY PushTyped DEF Message, IsPush
  <2>2. toApp = Append(<<>>, PushOf(server))
    BY DEF Init
  <2>3. ~NoPush(toApp) /\ LastPush(toApp, EntriesOf(server))
    BY <2>1, <2>2, MessageJoins
  <2>4. NoneMine(<<>>)
    BY DEF NoneMine
  <2>5. PushOf(server) \notin Request \cup Answer /\ <<>> \in Seq(Message \cup Sending)
    BY Kinds, PushTyped
  <2>6. NoneMine(toServer) /\ NoneMine(toApp)
    BY <2>1, <2>2, <2>4, <2>5, NoneMineKept DEF Init
  <2> QED BY <2>3, <2>6 DEF Init, PushFollows, MineHasScreen, ScreenFollows
<1> QED BY <1>1, PushStep, MineStep, ScreenStep, TypeCorrect, PTL DEF Spec

\* With no push and no post under way on a connection that is logged in the
\* screen shows the server's users, or those of them its text finds, whatever
\* requests, breaks, searches and other phones came before.
THEOREM MembersSettleCorrect == Spec => []MembersSettle
<1>1. TypeOK /\ PushFollows /\ ScreenFollows => MembersSettle
  <2> SUFFICES ASSUME TypeOK, PushFollows, ScreenFollows,
                      link = "in", posts = 0, shown \in {"members", "add"},
                      \A i \in DOMAIN toApp : ~IsPush(toApp[i])
               PROVE  list \in {EntriesOf(server),
                                {e \in EntriesOf(server) : e.user \in word}}
    BY DEF MembersSettle
  <2>1. NoPush(toApp)
    BY DEF TypeOK, NoPush
  <2>2. cache = EntriesOf(server)
    BY <2>1 DEF PushFollows
  <2> QED BY <2>2 DEF ScreenFollows
<1> QED BY <1>1, FollowsCorrect, TypeCorrect, PTL

\* The blank entry ends the app only while the cache has it, or before the
\* screen is told that it has gone.
THEOREM DiesOnlyUnfilledCorrect == Spec => DiesOnlyUnfilled
<1>1. TypeOK /\ ScreenFollows /\ [Next]_vars
        => [shown' = "dead" => Blank \in cache \/ posts > 0]_vars
  <2> SUFFICES ASSUME TypeOK, ScreenFollows, Next, shown' = "dead", posts = 0
               PROVE  Blank \in cache
    BY DEF TypeOK
  <2>0. shown # "dead"
    BY DEF Next
  <2>1. shown' # shown
    BY <2>0
  <2>2. ~(Network \/ MainThread \/ BannerStep)
    BY <2>1 DEF Network, Connect, ConnectFails, Break, Serve, ChangedElsewhere, MainThread,
               onGetUsers, onUserCallback, OnConnected, OnAnswer, BannerStep
  <2>3. UserActs
    BY <2>2 DEF Next
  <2>4. ASSUME NEW e \in list, NEW b \in Buttons(e), Swipe(e, b) PROVE Blank \in cache
    <3>1. shown = "members" /\ e = Blank
      BY <2>1, <2>4 DEF Swipe
    <3> QED BY <3>1 DEF ScreenFollows
  <2>5. ASSUME NEW found \in Searches \cup {AnyUser}, doSearch(found)
        PROVE  Blank \in cache
    BY <2>1, <2>5 DEF doSearch
  <2>6. CASE getUserUserName
    BY <2>6 DEF getUserUserName
  <2> QED
    BY <2>1, <2>3, <2>4, <2>5, <2>6
    DEF UserActs, OpenMembers, CloseMembers, onClickInfo, onClickAdd, onClickOK,
        BackToMembers
<1> QED BY <1>1, FollowsCorrect, TypeCorrect, PTL DEF Spec, DiesOnlyUnfilled
====
