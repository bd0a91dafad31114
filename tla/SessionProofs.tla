--------------------------- MODULE SessionProofs ---------------------------
(***************************************************************************)
(* Proofs about Session, for any accounts and passwords, any number of     *)
(* requests and answers under way and any number of breaks.                *)
(***************************************************************************)
EXTENDS Session, SequenceTheorems, TLAPS

USE SessionAssumption DEF SessionAssumption

-----------------------------------------------------------------------------
(* What is under way: answers on their way to the phone, and behind them    *)
(* the requests the server has yet to serve.                                *)

Message == Reply \cup {Connected}

Is(m, op) == m # Connected /\ m.req.op = op

Under(app, srv, r) ==
  \/ \E i \in 1..Len(srv) : srv[i] = r
  \/ \E i \in 1..Len(app) : app[i] # Connected /\ app[i].req = r

\* No request of kind a is under way in front of one of kind b.
NotBefore(app, srv, a, b) ==
  /\ \A i, j \in 1..Len(app) : i < j /\ Is(app[i], a) => ~Is(app[j], b)
  /\ \A i \in 1..Len(app), j \in 1..Len(srv) : Is(app[i], a) => srv[j].op # b
  /\ \A i, j \in 1..Len(srv) : i < j /\ srv[i].op = a => srv[j].op # b

LEMMA Typed ==
  ASSUME NEW app \in Seq(Message), NEW srv \in Seq(Request), NEW r,
         Under(app, srv, r)
  PROVE  r \in Request
<1>1. ASSUME NEW i \in 1..Len(app), app[i] # Connected
      PROVE  app[i].req \in Request
  BY <1>1 DEF Message, Reply
<1> QED BY <1>1 DEF Under

\* A request that is sent comes last.
LEMMA Sending ==
  ASSUME NEW app \in Seq(Message), NEW srv \in Seq(Request), NEW q \in Request
  PROVE  /\ Append(srv, q) \in Seq(Request)
         /\ \A r : Under(app, Append(srv, q), r) => Under(app, srv, r) \/ r = q
         /\ \A a, b : NotBefore(app, srv, a, b) /\ q.op # b
                        => NotBefore(app, Append(srv, q), a, b)
         /\ \A a, b : (\A r : Under(app, srv, r) => r.op # a)
                        => NotBefore(app, Append(srv, q), a, b)
<1> DEFINE s == Append(srv, q)
<1>1. /\ s \in Seq(Request) /\ Len(s) = Len(srv) + 1 /\ s[Len(srv) + 1] = q
      /\ \A i \in 1..Len(srv) : s[i] = srv[i]
  BY AppendProperties
<1> HIDE DEF s
<1>2. ASSUME NEW r, Under(app, s, r) PROVE Under(app, srv, r) \/ r = q
  BY <1>1, <1>2 DEF Under
<1>3. ASSUME NEW a, NEW b, NotBefore(app, srv, a, b), q.op # b
      PROVE  NotBefore(app, s, a, b)
  <2>1. \A j \in 1..Len(s) : (j \in 1..Len(srv) /\ s[j] = srv[j]) \/ s[j].op # b
    BY <1>1, <1>3
  <2>2. \A i, j \in 1..Len(s) : i < j => i \in 1..Len(srv) /\ s[i] = srv[i]
    BY <1>1
  <2>3. \A i, j \in 1..Len(s) : i < j /\ s[i].op = a => s[j].op # b
    BY <1>3, <2>1, <2>2 DEF NotBefore
  <2> QED BY <1>3, <2>1, <2>3 DEF NotBefore
<1>4. ASSUME NEW a, NEW b, \A r : Under(app, srv, r) => r.op # a
      PROVE  NotBefore(app, s, a, b)
  <2>1. \A i \in 1..Len(srv) : srv[i].op # a
    BY <1>4 DEF Under
  <2>2. \A i \in 1..Len(app) : ~Is(app[i], a)
    BY <1>4 DEF Under, Is
  <2> QED BY <1>1, <2>1, <2>2 DEF NotBefore
<1> QED BY <1>1, <1>2, <1>3, <1>4 DEF s

\* The first request becomes the last answer.
LEMMA Serving ==
  ASSUME NEW app \in Seq(Message), NEW srv \in Seq(Request), srv # <<>>,
         NEW m \in Message, m # Connected => m.req = Head(srv)
  PROVE  /\ Append(app, m) \in Seq(Message) /\ Tail(srv) \in Seq(Request)
         /\ \A r : Under(Append(app, m), Tail(srv), r) => Under(app, srv, r)
         /\ \A a, b : NotBefore(app, srv, a, b)
                        => NotBefore(Append(app, m), Tail(srv), a, b)
<1> DEFINE p == Append(app, m)  s == Tail(srv)
<1>1. /\ p \in Seq(Message) /\ Len(p) = Len(app) + 1 /\ p[Len(app) + 1] = m
      /\ \A i \in 1..Len(app) : p[i] = app[i]
  BY AppendProperties
<1>2. /\ s \in Seq(Request) /\ Len(srv) > 0 /\ Len(s) = Len(srv) - 1
      /\ \A i \in 1..Len(s) : s[i] = srv[i + 1]
      /\ srv[1] = Head(srv)
  BY HeadTailProperties, EmptySeq
<1> HIDE DEF p, s
<1>3. ASSUME NEW r, Under(p, s, r) PROVE Under(app, srv, r)
  <2>1. ASSUME NEW i \in 1..Len(s), s[i] = r PROVE Under(app, srv, r)
    <3>1. i + 1 \in 1..Len(srv) /\ srv[i + 1] = r
      BY <1>2, <2>1
    <3> QED BY <3>1 DEF Under
  <2>2. ASSUME NEW i \in 1..Len(p), p[i] # Connected, p[i].req = r
        PROVE  Under(app, srv, r)
    <3>1. CASE i \in 1..Len(app)
      BY <1>1, <2>2, <3>1 DEF Under
    <3>2. CASE i = Len(app) + 1
      <4>1. r = srv[1] /\ 1 \in 1..Len(srv)
        BY <1>1, <1>2, <2>2, <3>2
      <4> QED BY <4>1 DEF Under
    <3> QED BY <1>1, <3>1, <3>2
  <2> QED BY <1>3, <2>1, <2>2 DEF Under
<1>4. ASSUME NEW a, NEW b, NotBefore(app, srv, a, b) PROVE NotBefore(p, s, a, b)
  <2>1. \A op : Is(m, op) => srv[1].op = op
    BY <1>2 DEF Is
  <2>2. ASSUME NEW i \in 1..Len(p), NEW j \in 1..Len(p), i < j, Is(p[i], a)
        PROVE  ~Is(p[j], b)
    <3>1. i \in 1..Len(app) /\ p[i] = app[i]
      BY <1>1, <2>2
    <3>2. CASE j \in 1..Len(app)
      BY <1>1, <1>4, <2>2, <3>1, <3>2 DEF NotBefore
    <3>3. CASE j = Len(app) + 1
      <4>1. 1 \in 1..Len(srv) /\ srv[1].op # b
        BY <1>2, <1>4, <2>2, <3>1 DEF NotBefore
      <4> QED BY <1>1, <2>1, <3>3, <4>1
    <3> QED BY <1>1, <3>2, <3>3
  <2>3. ASSUME NEW i \in 1..Len(p), NEW j \in 1..Len(s), Is(p[i], a)
        PROVE  s[j].op # b
    <3>1. j + 1 \in 1..Len(srv) /\ s[j] = srv[j + 1] /\ 1 \in 1..Len(srv) /\ 1 < j + 1
      BY <1>2
    <3>2. CASE i \in 1..Len(app)
      BY <1>1, <1>4, <2>3, <3>1, <3>2 DEF NotBefore
    <3>3. CASE i = Len(app) + 1
      <4>1. srv[1].op = a
        BY <1>1, <2>1, <2>3, <3>3
      <4> QED BY <1>4, <3>1, <4>1 DEF NotBefore
    <3> QED BY <1>1, <3>2, <3>3
  <2>4. ASSUME NEW i \in 1..Len(s), NEW j \in 1..Len(s), i < j, s[i].op = a
        PROVE  s[j].op # b
    <3>1. /\ i + 1 \in 1..Len(srv) /\ j + 1 \in 1..Len(srv) /\ i + 1 < j + 1
          /\ s[i] = srv[i + 1] /\ s[j] = srv[j + 1]
      BY <1>2, <2>4
    <3> QED BY <1>4, <2>4, <3>1 DEF NotBefore
  <2> QED BY <2>2, <2>3, <2>4 DEF NotBefore
<1> QED BY <1>1, <1>2, <1>3, <1>4 DEF p, s

\* The first answer is taken up: it is no longer under way.
LEMMA Taking ==
  ASSUME NEW app \in Seq(Message), NEW srv \in Seq(Request), app # <<>>
  PROVE  /\ Tail(app) \in Seq(Message)
         /\ app[1] = Head(app) /\ 1 \in 1..Len(app)
         /\ Len(Tail(app)) = Len(app) - 1
         /\ \A i \in 1..Len(Tail(app)) : Tail(app)[i] = app[i + 1]
         /\ \A r : Under(Tail(app), srv, r) => Under(app, srv, r)
         /\ \A a, b : NotBefore(app, srv, a, b) => NotBefore(Tail(app), srv, a, b)
         /\ \A a, b, r : NotBefore(app, srv, a, b) /\ Is(Head(app), a)
                           /\ Under(Tail(app), srv, r) => r.op # b
<1> DEFINE p == Tail(app)
<1>1. /\ p \in Seq(Message) /\ Len(app) > 0 /\ Len(p) = Len(app) - 1
      /\ \A i \in 1..Len(p) : p[i] = app[i + 1]
      /\ app[1] = Head(app)
  BY HeadTailProperties, EmptySeq
<1> HIDE DEF p
<1>2. \A i \in 1..Len(p) : i + 1 \in 1..Len(app) /\ 1 < i + 1
  BY <1>1
<1>3. ASSUME NEW r, Under(p, srv, r) PROVE Under(app, srv, r)
  BY <1>1, <1>2, <1>3 DEF Under
<1>4. ASSUME NEW a, NEW b, NotBefore(app, srv, a, b)
      PROVE  NotBefore(p, srv, a, b)
  <2>1. ASSUME NEW i \in 1..Len(p), NEW j \in 1..Len(p), i < j, Is(p[i], a)
        PROVE  ~Is(p[j], b)
    <3>1. i + 1 < j + 1
      BY <2>1
    <3> QED BY <1>1, <1>2, <1>4, <2>1, <3>1 DEF NotBefore
  <2> QED BY <1>1, <1>2, <1>4, <2>1 DEF NotBefore
<1>5. ASSUME NEW a, NEW b, NEW r, NotBefore(app, srv, a, b), Is(Head(app), a),
             Under(p, srv, r)
      PROVE  r.op # b
  <2>1. 1 \in 1..Len(app) /\ Is(app[1], a)
    BY <1>1, <1>5
  <2>2. ASSUME NEW i \in 1..Len(p), p[i] # Connected, p[i].req = r PROVE r.op # b
    BY <1>1, <1>2, <1>5, <2>1, <2>2 DEF NotBefore, Is
  <2>3. ASSUME NEW i \in 1..Len(srv), srv[i] = r PROVE r.op # b
    BY <1>5, <2>1, <2>3 DEF NotBefore
  <2> QED BY <1>5, <2>2, <2>3 DEF Under
<1> QED BY <1>1, <1>3, <1>4, <1>5 DEF p

\* What a broken connection leaves.
LEMMA Cutting ==
  ASSUME NEW app \in Seq(Message), NEW srv \in Seq(Request), NEW n \in 0..Len(app)
  PROVE  /\ SubSeq(app, 1, n) \in Seq(Message) /\ <<>> \in Seq(Request)
         /\ Len(SubSeq(app, 1, n)) = n
         /\ \A i \in 1..n : SubSeq(app, 1, n)[i] = app[i]
         /\ \A r : Under(SubSeq(app, 1, n), <<>>, r) => Under(app, srv, r)
         /\ \A a, b : NotBefore(app, srv, a, b)
                        => NotBefore(SubSeq(app, 1, n), <<>>, a, b)
<1> DEFINE p == SubSeq(app, 1, n)
<1>0. \A i \in 1..n : app[i] \in Message
  OBVIOUS
<1>1. /\ p \in Seq(Message) /\ Len(p) = n
      /\ \A i \in 1..n : p[i] = app[i]
  BY <1>0
<1> HIDE DEF p
<1>2. \A i \in 1..n : i \in 1..Len(app)
  OBVIOUS
<1>3. ASSUME NEW r, Under(p, <<>>, r) PROVE Under(app, srv, r)
  BY <1>1, <1>2, <1>3 DEF Under
<1>4. ASSUME NEW a, NEW b, NotBefore(app, srv, a, b) PROVE NotBefore(p, <<>>, a, b)
  BY <1>1, <1>2, <1>4 DEF NotBefore
<1> QED BY <1>1, <1>3, <1>4 DEF p

LEMMA ReplyIsNotConnected == \A m \in Reply : m # Connected
<1>1. ASSUME NEW m \in Reply, m = Connected PROVE FALSE
  <2>1. DOMAIN m = {"ok", "req"}
    BY <1>1 DEF Reply
  <2>2. DOMAIN Connected = {"op"}
    BY DEF Connected
  <2> QED BY <1>1, <2>1, <2>2
<1> QED BY <1>1

-----------------------------------------------------------------------------
(* The answers that change who is logged in, or the number.                 *)

Renames(m) ==
  m # Connected /\ m.ok /\ m.req.op \in {"login", "autologin", "phone"}

Steady(app) == \A k \in 1..Len(app) : ~Renames(app[k])

\* The last of them speaks of account p.
Names(app, p) ==
  \E k \in 1..Len(app) :
    /\ Renames(app[k]) /\ app[k].req.phone = p
    /\ \A j \in 1..Len(app) : k < j => ~Renames(app[j])

LEMMA NamesAfterServing ==
  ASSUME NEW app \in Seq(Message), NEW m \in Message
  PROVE  LET new == Append(app, m) IN
         /\ \A p : Names(new, p) =>
              IF Renames(m) THEN p = m.req.phone ELSE Names(app, p)
         /\ Steady(new) => ~Renames(m) /\ Steady(app)
<1> DEFINE new == Append(app, m)
<1>1. /\ Len(new) = Len(app) + 1 /\ new[Len(app) + 1] = m
      /\ \A i \in 1..Len(app) : new[i] = app[i]
  BY AppendProperties
<1> HIDE DEF new
<1>2. ASSUME NEW p, Names(new, p), Renames(m) PROVE p = m.req.phone
  <2>1. PICK k \in 1..Len(new) : /\ new[k].req.phone = p
                                /\ \A j \in 1..Len(new) : k < j => ~Renames(new[j])
    BY <1>2 DEF Names
  <2>2. k = Len(app) + 1
    BY <1>1, <1>2, <2>1
  <2> QED BY <1>1, <2>1, <2>2
<1>3. ASSUME NEW p, Names(new, p), ~Renames(m) PROVE Names(app, p)
  <2>1. PICK k \in 1..Len(new) : /\ Renames(new[k]) /\ new[k].req.phone = p
                                /\ \A j \in 1..Len(new) : k < j => ~Renames(new[j])
    BY <1>3 DEF Names
  <2>2. k \in 1..Len(app)
    BY <1>1, <1>3, <2>1
  <2>3. \A j \in 1..Len(app) : k < j => ~Renames(app[j])
    BY <1>1, <2>1
  <2> QED BY <1>1, <2>1, <2>2, <2>3 DEF Names
<1>4. ASSUME Steady(new) PROVE ~Renames(m) /\ Steady(app)
  BY <1>1, <1>4 DEF Steady
<1> QED BY <1>2, <1>3, <1>4 DEF new

LEMMA NamesAfterTaking ==
  ASSUME NEW app \in Seq(Message), app # <<>>
  PROVE  /\ \A p : Names(Tail(app), p) => Names(app, p)
         /\ Steady(Tail(app)) =>
              IF Renames(Head(app)) THEN Names(app, Head(app).req.phone)
                                    ELSE Steady(app)
<1> DEFINE new == Tail(app)
<1>1. /\ Len(app) > 0 /\ Len(new) = Len(app) - 1 /\ app[1] = Head(app)
      /\ \A i \in 1..Len(new) : new[i] = app[i + 1]
  BY HeadTailProperties, EmptySeq
<1> HIDE DEF new
<1>2. \A i \in 1..Len(app) : i = 1 \/ (i - 1 \in 1..Len(new) /\ app[i] = new[i - 1])
  BY <1>1
<1>3. ASSUME NEW p, Names(new, p) PROVE Names(app, p)
  <2>1. PICK k \in 1..Len(new) : /\ Renames(new[k]) /\ new[k].req.phone = p
                                /\ \A j \in 1..Len(new) : k < j => ~Renames(new[j])
    BY <1>3 DEF Names
  <2>2. k + 1 \in 1..Len(app) /\ app[k + 1] = new[k]
    BY <1>1
  <2>3. ASSUME NEW j \in 1..Len(app), k + 1 < j PROVE ~Renames(app[j])
    <3>1. j - 1 \in 1..Len(new) /\ k < j - 1 /\ app[j] = new[j - 1]
      BY <1>1, <1>2, <2>3
    <3> QED BY <2>1, <3>1
  <2> QED BY <2>1, <2>2, <2>3 DEF Names
<1>4. ASSUME Steady(new), Renames(Head(app)) PROVE Names(app, Head(app).req.phone)
  <2>1. \A j \in 1..Len(app) : 1 < j => ~Renames(app[j])
    BY <1>2, <1>4 DEF Steady
  <2> QED BY <1>1, <1>4, <2>1 DEF Names
<1>5. ASSUME Steady(new), ~Renames(Head(app)) PROVE Steady(app)
  BY <1>1, <1>2, <1>5 DEF Steady
<1> QED BY <1>3, <1>4, <1>5 DEF new

-----------------------------------------------------------------------------
(* A logout: requests keep everything but what their screen was left with.  *)

Like(r, s) == r.op = s.op /\ r.phone = s.phone /\ r.password = s.password

LikeMessage(m, n) ==
  /\ m = Connected <=> n = Connected
  /\ m # Connected => m.ok = n.ok /\ Like(m.req, n.req)

LEMMA Leaving ==
  ASSUME NEW app \in Seq(Message), NEW srv \in Seq(Request),
         NEW app2 \in Seq(Message), NEW srv2 \in Seq(Request),
         Len(app2) = Len(app), Len(srv2) = Len(srv),
         \A i \in 1..Len(app) : LikeMessage(app[i], app2[i]),
         \A i \in 1..Len(srv) : Like(srv[i], srv2[i])
  PROVE  /\ \A a, b : NotBefore(app, srv, a, b) => NotBefore(app2, srv2, a, b)
         /\ \A p : Names(app2, p) => Names(app, p)
         /\ Steady(app2) => Steady(app)
<1>1. \A i \in 1..Len(app) : Renames(app2[i]) <=> Renames(app[i])
  BY DEF Renames, LikeMessage, Like
<1>2. \A i \in 1..Len(app) : \A op : Is(app2[i], op) <=> Is(app[i], op)
  BY DEF Is, LikeMessage, Like
<1>3. \A i \in 1..Len(app) :
        Renames(app[i]) => app2[i].req.phone = app[i].req.phone
  BY DEF Renames, LikeMessage, Like
<1>4. \A i \in 1..Len(srv) : srv2[i].op = srv[i].op
  BY DEF Like
<1>5. ASSUME NEW a, NEW b, NotBefore(app, srv, a, b)
      PROVE  NotBefore(app2, srv2, a, b)
  BY <1>2, <1>4, <1>5 DEF NotBefore
<1>6. ASSUME NEW p, Names(app2, p) PROVE Names(app, p)
  BY <1>1, <1>3, <1>6 DEF Names
<1>7. Steady(app2) => Steady(app)
  BY <1>1 DEF Steady
<1> QED BY <1>5, <1>6, <1>7

-----------------------------------------------------------------------------
(* The inductive invariant.                                                 *)

\* What a request names.
SoundRequest(r) ==
  /\ r.op \in {"login", "phone", "register", "find"} => r.phone \in Phones
  /\ r.op \in {"login", "autologin", "register"} => r.password \in Passwords

Requests == \A r : Under(toApp, toServer, r) => SoundRequest(r)

\* A password is kept as long as the login may be repeated with it.
PasswordIsKept ==
  /\ islogined => passwordsaved # NoText
  /\ \A r : Under(toApp, toServer, r) /\ r.op \in {"login", "autologin"}
            => passwordsaved # NoText

\* What the server granted.
SoundGrant(m) ==
  m # Connected /\ m.ok =>
    /\ m.req.op \in {"login", "autologin"} => m.req.phone \in Phones
    /\ m.req.op \in {"login", "register"} =>
         <<m.req.phone, m.req.password>> \in accepted

GrantsAreSound == \A i \in 1..Len(toApp) : SoundGrant(toApp[i])

\* The login screen a block will read still holds what was sent.
FormHolds(f, r) ==
  LET s == IF r.left = <<>> THEN f ELSE r.left[1] IN
  s.phone = r.phone /\ s.password = r.password

FormsHold ==
  ~edited => \A r : Under(toApp, toServer, r) /\ r.op = "login" => FormHolds(form, r)

LoginsWereAsked ==
  root = "login" => \A r : Under(toApp, toServer, r) /\ r.op = "login" => asked

\* Whoever is in the app has no login under way behind a logout, and whoever is
\* out of it has no logout under way behind a login.
ExitsInOrder ==
  /\ root = "app" => NotBefore(toApp, toServer, "logout", "login")
  /\ root = "login" => NotBefore(toApp, toServer, "login", "logout")

\* The server's account is that of the last answer under way which speaks of one,
\* or that of the program if there is none.
AuthedAgrees ==
  /\ \A p : Names(toApp, p) => authed \in {NoText, p}
  /\ root = "app" /\ ~edited /\ Steady(toApp) => authed \in {NoText, phonenumber}

IInv ==
  /\ TypeOK /\ RememberedWereAccepted /\ AppMeansLoggedIn
  /\ Requests /\ PasswordIsKept /\ GrantsAreSound /\ FormsHold
  /\ LoginsWereAsked /\ ExitsInOrder /\ AuthedAgrees

USE DEF server, wire, global, screen

LEMMA RequestType ==
  ASSUME NEW op \in Ops, NEW p \in Phones \cup {NoText},
         NEW w \in Passwords \cup {NoText}, NEW o \in Passwords \cup {NoText}
  PROVE  /\ Req(op, p, w, o) \in Request
         /\ Req(op, p, w, o).op = op /\ Req(op, p, w, o).phone = p
         /\ Req(op, p, w, o).password = w /\ Req(op, p, w, o).left = <<>>
  BY DEF Req, Request

LEMMA SentFacts ==
  ASSUME TypeOK, NEW q \in Request, toServer' = Sent(q), toApp' = toApp
  PROVE  /\ toServer' \in Seq(Request)
         /\ \A r : Under(toApp', toServer', r) => Under(toApp, toServer, r) \/ r = q
         /\ \A a, b : NotBefore(toApp, toServer, a, b) /\ q.op # b
                        => NotBefore(toApp', toServer', a, b)
         /\ \A a, b : (\A r : Under(toApp, toServer, r) => r.op # a)
                        => NotBefore(toApp', toServer', a, b)
<1>1. toApp \in Seq(Message) /\ toServer \in Seq(Request)
  BY DEF TypeOK, Message
<1>2. CASE conn
  BY <1>1, <1>2, Sending DEF Sent
<1>3. CASE ~conn
  <2>1. toServer' = toServer
    BY <1>3 DEF Sent
  <2>2. ASSUME NEW a, NEW b, \A r : Under(toApp, toServer, r) => r.op # a
        PROVE  NotBefore(toApp, toServer, a, b)
    BY <2>2 DEF NotBefore, Under, Is
  <2> QED BY <1>1, <2>1, <2>2
<1> QED BY <1>2, <1>3

\* A request is sent and nothing else happens to what the invariant speaks of.
LEMMA SendingKeeps ==
  ASSUME IInv, NEW q \in Request, toServer' = Sent(q), SoundRequest(q),
         q.op \notin {"login", "autologin"}, q.op = "logout" => root = "app",
         UNCHANGED <<account, authed, conn, toApp, root, islogined, phonenumber,
                     passwordsaved, form, disk, asked, edited, accepted, breaks>>
  PROVE  IInv'
<1> USE SentFacts DEF IInv
<1>1. TypeOK'
  BY DEF TypeOK
<1>2. RememberedWereAccepted' /\ AppMeansLoggedIn'
  BY DEF RememberedWereAccepted, AppMeansLoggedIn
<1>3. Requests'
  BY DEF Requests, SoundRequest
<1>4. PasswordIsKept'
  BY DEF PasswordIsKept
<1>5. GrantsAreSound'
  BY DEF GrantsAreSound, SoundGrant
<1>6. FormsHold'
  BY DEF FormsHold, FormHolds
<1>7. LoginsWereAsked'
  BY DEF LoginsWereAsked
<1>8. ExitsInOrder'
  BY DEF ExitsInOrder
<1>9. AuthedAgrees'
  BY DEF AuthedAgrees, Names, Steady, Renames
<1> QED BY <1>1, <1>2, <1>3, <1>4, <1>5, <1>6, <1>7, <1>8, <1>9

LEMMA WireTypes ==
  TypeOK => toApp \in Seq(Message) /\ toServer \in Seq(Request)
  BY DEF TypeOK, Message

-----------------------------------------------------------------------------
(* The wire and the server.                                                 *)

LEMMA ConnectStep == ASSUME IInv, Connect PROVE IInv'
<1> USE DEF IInv, Connect
<1>1. toApp \in Seq(Message) /\ toServer \in Seq(Request) /\ Connected \in Message
  BY WireTypes DEF Message
<1>2. /\ toApp' \in Seq(Message) /\ Len(toApp') = Len(toApp) + 1
      /\ toApp'[Len(toApp) + 1] = Connected
      /\ \A i \in 1..Len(toApp) : toApp'[i] = toApp[i]
  BY <1>1, AppendProperties
<1>3. \A r : Under(toApp', toServer', r) => Under(toApp, toServer, r)
  BY <1>2 DEF Under
<1>4. \A op : ~Is(Connected, op)
  BY DEF Is
<1>5. ASSUME NEW a, NEW b, NotBefore(toApp, toServer, a, b)
      PROVE  NotBefore(toApp', toServer', a, b)
  <2>1. \A i \in 1..Len(toApp') : \A op :
          Is(toApp'[i], op) => i \in 1..Len(toApp) /\ toApp'[i] = toApp[i]
    BY <1>1, <1>2, <1>4
  <2> QED BY <1>5, <2>1 DEF NotBefore
<1>6. ~Renames(Connected)
  BY DEF Renames
<1>7. TypeOK'
  BY <1>2 DEF TypeOK, Message
<1>8. GrantsAreSound'
  BY <1>1, <1>2 DEF GrantsAreSound, SoundGrant
<1>9. AuthedAgrees'
  BY <1>1, <1>6, NamesAfterServing DEF AuthedAgrees
<1>10. /\ RememberedWereAccepted' /\ AppMeansLoggedIn' /\ Requests' /\ PasswordIsKept'
       /\ FormsHold' /\ LoginsWereAsked' /\ ExitsInOrder'
  BY <1>3, <1>5
     DEF RememberedWereAccepted, AppMeansLoggedIn, Requests, PasswordIsKept, FormsHold,
         FormHolds, LoginsWereAsked, ExitsInOrder, SoundRequest
<1> QED BY <1>7, <1>8, <1>9, <1>10

LEMMA DisconnectStep == ASSUME IInv, Disconnect PROVE IInv'
<1> USE DEF IInv, Disconnect
<1>1. toApp \in Seq(Message) /\ toServer \in Seq(Request)
  BY WireTypes
<1>2. PICK n \in 0..Len(toApp) : toApp' = SubSeq(toApp, 1, n)
  OBVIOUS
<1>3. /\ toApp' \in Seq(Message) /\ Len(toApp') = n /\ toServer' = <<>>
      /\ \A i \in 1..n : toApp'[i] = toApp[i]
      /\ \A r : Under(toApp', toServer', r) => Under(toApp, toServer, r)
      /\ \A a, b : NotBefore(toApp, toServer, a, b)
                     => NotBefore(toApp', toServer', a, b)
  BY <1>1, <1>2, Cutting
<1>4. TypeOK'
  <2>1. toApp' \in Seq(Reply \cup {Connected}) /\ toServer' \in Seq(Request)
    BY <1>3 DEF Message
  <2>2. breaks' \in 0..MaxBreaks /\ authed' = NoText /\ conn' = FALSE
    BY DEF TypeOK
  <2> QED BY <2>1, <2>2 DEF TypeOK
<1>5. GrantsAreSound'
  BY <1>1, <1>3 DEF GrantsAreSound, SoundGrant
<1>6. AuthedAgrees'
  BY DEF AuthedAgrees
<1>7. /\ RememberedWereAccepted' /\ AppMeansLoggedIn' /\ Requests' /\ PasswordIsKept'
      /\ FormsHold' /\ LoginsWereAsked' /\ ExitsInOrder'
  BY <1>3
     DEF RememberedWereAccepted, AppMeansLoggedIn, Requests, PasswordIsKept, FormsHold,
         FormHolds, LoginsWereAsked, ExitsInOrder, SoundRequest
<1> QED BY <1>4, <1>5, <1>6, <1>7

LEMMA GrantsBoolean == ASSUME NEW r, r.op \in Ops PROVE Grants(r) \in BOOLEAN
<1>1. CASE r.op \in {"login", "autologin"}
  BY <1>1 DEF Grants
<1>2. CASE r.op = "logout"
  BY <1>2 DEF Grants
<1>3. CASE r.op = "phone"
  BY <1>3 DEF Grants
<1>4. CASE r.op = "password"
  BY <1>4 DEF Grants
<1>5. CASE r.op = "register"
  BY <1>5 DEF Grants
<1>6. CASE r.op = "find"
  BY <1>6 DEF Grants
<1> QED BY <1>1, <1>2, <1>3, <1>4, <1>5, <1>6 DEF Ops

LEMMA ServeStep == ASSUME IInv, Serve PROVE IInv'
<1> DEFINE r == Head(toServer)
<1> USE DEF IInv
<1>1. /\ toApp \in Seq(Message) /\ toServer \in Seq(Request) /\ toServer # <<>>
      /\ toServer' = Tail(toServer)
      /\ UNCHANGED <<conn, root, islogined, phonenumber, passwordsaved, form, disk,
                     asked, edited, breaks>>
  BY WireTypes DEF Serve
<1>2. r \in Request /\ SoundRequest(r) /\ Under(toApp, toServer, r)
  <2>1. 1 \in 1..Len(toServer) /\ toServer[1] = r
    BY <1>1, HeadTailProperties, EmptySeq
  <2>2. Under(toApp, toServer, r) /\ r \in Request
    BY <1>1, <2>1 DEF Under
  <2> HIDE DEF r
  <2> QED BY <2>2 DEF Requests
<1> DEFINE ok == Grants(r)
           m == [ok |-> ok, req |-> r]
<1>3. ok \in BOOLEAN
  BY <1>2, GrantsBoolean DEF Request
<1>4. m \in Message /\ m # Connected /\ m.req = r /\ m.ok = ok
  BY <1>2, <1>3, ReplyIsNotConnected DEF Message, Reply
<1>5. /\ toApp' = Append(toApp, m)
      /\ authed' = CASE ok /\ r.op \in {"login", "autologin", "phone"} -> r.phone
                     [] ok /\ r.op = "logout" -> NoText
                     [] OTHER -> authed
      /\ account' = CASE ok /\ r.op \in {"register", "find"} ->
                            [account EXCEPT ![r.phone] = r.password]
                       [] ok /\ r.op = "password" ->
                            [account EXCEPT ![authed] = r.password]
                       [] ok /\ r.op = "phone" ->
                            [account EXCEPT ![authed] = NoText,
                                            ![r.phone] = account[authed]]
                       [] OTHER -> account
      /\ accepted' = IF ok /\ r.op \in {"login", "autologin", "register"}
                     THEN accepted \cup {<<r.phone, r.password>>} ELSE accepted
  BY DEF Serve
<1>6. ok /\ r.op \in {"login", "autologin"} => r.phone \in Phones
  BY DEF Grants
<1>7. ok /\ r.op \in {"password", "phone"} => authed \in Phones
  BY DEF Grants, TypeOK
<1>8. r.op \in Ops
  BY <1>2 DEF Request
<1> HIDE DEF r, ok, m
<1>9. /\ toApp' \in Seq(Message) /\ toServer' \in Seq(Request)
      /\ \A q : Under(toApp', toServer', q) => Under(toApp, toServer, q)
      /\ \A a, b : NotBefore(toApp, toServer, a, b)
                     => NotBefore(toApp', toServer', a, b)
  BY <1>1, <1>4, <1>5, Serving DEF r
<1>10. /\ Len(toApp') = Len(toApp) + 1 /\ toApp'[Len(toApp) + 1] = m
       /\ \A i \in 1..Len(toApp) : toApp'[i] = toApp[i]
  BY <1>1, <1>4, <1>5, AppendProperties
<1>11. r.phone \in Phones \cup {NoText} /\ r.password \in Passwords \cup {NoText}
  BY <1>2 DEF Request
<1>12. accepted \subseteq accepted' /\ accepted' \subseteq Phones \X Passwords
  <2>1. ok /\ r.op \in {"login", "autologin", "register"}
          => r.phone \in Phones /\ r.password \in Passwords
    BY <1>2, <1>6 DEF SoundRequest
  <2>2. accepted \subseteq Phones \X Passwords
    BY DEF TypeOK
  <2> QED BY <1>5, <2>1, <2>2
<1>13. TypeOK'
  <2>1. authed' \in Phones \cup {NoText}
    <3>1. authed \in Phones \cup {NoText}
      BY DEF TypeOK
    <3> QED BY <1>5, <1>11, <3>1
  <2>2. account' \in [Phones -> Passwords \cup {NoText}]
    <3>1. account \in [Phones -> Passwords \cup {NoText}]
      BY DEF TypeOK
    <3>2. CASE ok /\ r.op \in {"register", "find"}
      BY <1>5, <1>11, <3>1, <3>2
    <3>3. CASE ok /\ r.op = "password"
      BY <1>5, <1>11, <3>1, <3>3
    <3>4. CASE ok /\ r.op = "phone"
      <4>1. account[authed] \in Passwords \cup {NoText}
        BY <1>7, <3>1, <3>4
      <4>2. account' = [account EXCEPT ![authed] = NoText,
                                       ![r.phone] = account[authed]]
        BY <1>5, <3>4
      <4> QED BY <3>1, <4>1, <4>2
    <3>5. CASE ~(ok /\ r.op \in {"register", "find", "password", "phone"})
      BY <1>5, <3>1, <3>5
    <3> QED BY <3>2, <3>3, <3>4, <3>5
  <2>3. conn' \in BOOLEAN /\ root' \in {"login", "app"} /\ islogined' \in BOOLEAN
    BY <1>1 DEF TypeOK
  <2> QED BY <1>1, <1>9, <1>12, <2>1, <2>2, <2>3 DEF TypeOK, Message
<1>14. GrantsAreSound'
  <2>1. ASSUME NEW i \in 1..Len(toApp') PROVE SoundGrant(toApp[i])'
    <3>1. CASE i \in 1..Len(toApp)
      BY <1>10, <1>12, <3>1 DEF GrantsAreSound, SoundGrant
    <3>2. CASE i = Len(toApp) + 1
      <4>1. ok /\ r.op \in {"login", "register"} => <<r.phone, r.password>> \in accepted'
        BY <1>5
      <4> QED BY <1>4, <1>6, <1>10, <3>2, <4>1 DEF SoundGrant
    <3> QED BY <1>1, <1>10, <3>1, <3>2
  <2> QED BY <2>1 DEF GrantsAreSound
<1>15. AuthedAgrees'
  <2>1. Renames(m) <=> ok /\ r.op \in {"login", "autologin", "phone"}
    BY <1>4 DEF Renames
  <2>2. Renames(m) => authed' = r.phone
    BY <1>5, <2>1
  <2>3. ~Renames(m) => authed' \in {NoText, authed}
    BY <1>5, <2>1
  <2>4. /\ \A p : Names(toApp', p) => IF Renames(m) THEN p = r.phone ELSE Names(toApp, p)
        /\ Steady(toApp') => ~Renames(m) /\ Steady(toApp)
    BY <1>1, <1>4, <1>5, NamesAfterServing
  <2> QED BY <1>1, <2>2, <2>3, <2>4 DEF AuthedAgrees
<1>16. RememberedWereAccepted' /\ AppMeansLoggedIn'
  BY <1>1, <1>12 DEF RememberedWereAccepted, AppMeansLoggedIn
<1>17. Requests' /\ PasswordIsKept' /\ FormsHold' /\ LoginsWereAsked' /\ ExitsInOrder'
  BY <1>1, <1>9
     DEF Requests, PasswordIsKept, FormsHold, FormHolds, LoginsWereAsked, ExitsInOrder,
         SoundRequest
<1> QED BY <1>13, <1>14, <1>15, <1>16, <1>17

-----------------------------------------------------------------------------
(* What the user does.                                                      *)

LEMMA EditStep ==
  ASSUME IInv, NEW p \in Phones \cup {NoText}, NEW w \in Passwords \cup {NoText},
         Edit(p, w)
  PROVE  IInv'
<1> USE DEF IInv, Edit
<1>1. form \in Screen /\ toApp \in Seq(Message) /\ toServer \in Seq(Request)
  BY WireTypes DEF TypeOK
<1>2. TypeOK'
  BY <1>1 DEF TypeOK, Screen
<1>3. FormsHold'
  <2>1. ASSUME ~edited', NEW r, Under(toApp, toServer, r), r.op = "login"
        PROVE  form' = form
    <3>1. FormAwaited
      BY <2>1 DEF Under, FormAwaited
    <3> QED BY <2>1, <3>1
  <2> QED BY <2>1 DEF FormsHold
<1>4. /\ RememberedWereAccepted' /\ AppMeansLoggedIn' /\ Requests' /\ PasswordIsKept'
      /\ GrantsAreSound' /\ LoginsWereAsked' /\ ExitsInOrder' /\ AuthedAgrees'
  BY DEF RememberedWereAccepted, AppMeansLoggedIn, Requests, PasswordIsKept,
         GrantsAreSound, SoundGrant, LoginsWereAsked, ExitsInOrder, AuthedAgrees,
         SoundRequest
<1> QED BY <1>2, <1>3, <1>4

LEMMA RememberMeStep == ASSUME IInv, onClickRememberMe PROVE IInv'
<1> USE DEF IInv, onClickRememberMe
<1>1. form \in Screen
  BY DEF TypeOK
<1>2. form' \in Screen /\ form'.phone = form.phone /\ form'.password = form.password
  BY <1>1 DEF Screen
<1>3. TypeOK'
  BY <1>2 DEF TypeOK
<1>4. FormsHold'
  BY <1>2 DEF FormsHold, FormHolds
<1>5. /\ RememberedWereAccepted' /\ AppMeansLoggedIn' /\ Requests' /\ PasswordIsKept'
      /\ GrantsAreSound' /\ LoginsWereAsked' /\ ExitsInOrder' /\ AuthedAgrees'
  BY DEF RememberedWereAccepted, AppMeansLoggedIn, Requests, PasswordIsKept,
         GrantsAreSound, SoundGrant, LoginsWereAsked, ExitsInOrder, AuthedAgrees,
         SoundRequest
<1> QED BY <1>3, <1>4, <1>5

LEMMA LoginStep == ASSUME IInv, onClickLogin PROVE IInv'
<1> DEFINE q == Req("login", form.phone, form.password, NoText)
<1>1. /\ root = "login" /\ form.phone \in Phones /\ form.password \in Passwords
      /\ phonenumber' = form.phone /\ passwordsaved' = form.password /\ asked' = TRUE
      /\ toServer' = Sent(q)
      /\ UNCHANGED <<account, authed, conn, toApp, root, islogined, form, disk,
                     edited, accepted, breaks>>
  BY DEF onClickLogin, IInv, TypeOK, Screen
<1>2. /\ q \in Request /\ q.op = "login" /\ q.phone = form.phone
      /\ q.password = form.password /\ q.left = <<>>
  BY <1>1, RequestType DEF Ops
<1> HIDE DEF q
<1> USE DEF IInv
<1>3. /\ toServer' \in Seq(Request)
      /\ \A r : Under(toApp', toServer', r) => Under(toApp, toServer, r) \/ r = q
      /\ \A a, b : NotBefore(toApp, toServer, a, b) /\ q.op # b
                     => NotBefore(toApp', toServer', a, b)
  BY <1>1, <1>2, SentFacts
<1>4. TypeOK'
  BY <1>1, <1>3 DEF TypeOK
<1>5. RememberedWereAccepted' /\ AppMeansLoggedIn' /\ AuthedAgrees' /\ GrantsAreSound'
  BY <1>1 DEF RememberedWereAccepted, AppMeansLoggedIn, AuthedAgrees, GrantsAreSound,
              SoundGrant
<1>6. Requests' /\ PasswordIsKept'
  BY <1>1, <1>2, <1>3 DEF Requests, SoundRequest, PasswordIsKept
<1>7. FormsHold'
  BY <1>1, <1>2, <1>3 DEF FormsHold, FormHolds
<1>8. LoginsWereAsked' /\ ExitsInOrder'
  BY <1>1, <1>2, <1>3 DEF LoginsWereAsked, ExitsInOrder
<1> QED BY <1>4, <1>5, <1>6, <1>7, <1>8

LEMMA RequestStep ==
  ASSUME IInv,
         \/ \E op \in {"register", "find"}, p \in Phones, w \in Passwords :
              Submit(op, p, w)
         \/ onClickExit
         \/ \E p \in Phones : ChangePhone(p)
         \/ \E old, new \in Passwords : ChangePassword(old, new)
  PROVE  IInv'
<1>1. ASSUME NEW op \in {"register", "find"}, NEW p \in Phones, NEW w \in Passwords,
             Submit(op, p, w)
      PROVE  IInv'
  <2> DEFINE q == Req(op, p, w, NoText)
  <2>1. q \in Request /\ q.op = op /\ q.phone = p /\ q.password = w
    BY RequestType DEF Ops
  <2>2. /\ toServer' = Sent(q)
        /\ UNCHANGED <<account, authed, conn, toApp, root, islogined, phonenumber,
                       passwordsaved, form, disk, asked, edited, accepted, breaks>>
    BY <1>1 DEF Submit
  <2> HIDE DEF q
  <2> QED BY <2>1, <2>2, SendingKeeps DEF SoundRequest
<1>2. ASSUME NEW q \in Request, AppRequest(q), SoundRequest(q),
             q.op \notin {"login", "autologin"}
      PROVE  IInv'
  BY <1>2, SendingKeeps DEF AppRequest
<1>3. CASE onClickExit
  BY <1>2, <1>3, RequestType DEF onClickExit, SoundRequest, Ops
<1>4. ASSUME NEW p \in Phones, ChangePhone(p) PROVE IInv'
  BY <1>2, <1>4, RequestType DEF ChangePhone, SoundRequest, Ops
<1>5. ASSUME NEW old \in Passwords, NEW new \in Passwords, ChangePassword(old, new)
      PROVE  IInv'
  BY <1>2, <1>5, RequestType DEF ChangePassword, SoundRequest, Ops
<1> QED BY <1>1, <1>3, <1>4, <1>5

-----------------------------------------------------------------------------
(* What comes back.                                                         *)

LEMMA HandledFacts ==
  ASSUME IInv, toApp # <<>>, toApp' = Tail(toApp)
  PROVE  /\ toApp' \in Seq(Message)
         /\ \A r : Under(toApp', toServer, r) => Under(toApp, toServer, r)
         /\ \A a, b : NotBefore(toApp, toServer, a, b)
                        => NotBefore(toApp', toServer, a, b)
         /\ \A a, b, r : NotBefore(toApp, toServer, a, b) /\ Is(Head(toApp), a)
                           /\ Under(toApp', toServer, r) => r.op # b
         /\ \A i \in 1..Len(toApp') : SoundGrant(toApp'[i])
         /\ \A p : Names(toApp', p) => Names(toApp, p)
         /\ Steady(toApp') => IF Renames(Head(toApp))
                              THEN Names(toApp, Head(toApp).req.phone)
                              ELSE Steady(toApp)
         /\ Head(toApp) # Connected =>
              /\ Head(toApp) \in Reply
              /\ Under(toApp, toServer, Head(toApp).req)
              /\ SoundGrant(Head(toApp))
<1> USE DEF IInv
<1>1. toApp \in Seq(Message) /\ toServer \in Seq(Request)
  BY WireTypes
<1>2. /\ toApp' \in Seq(Message)
      /\ toApp[1] = Head(toApp) /\ 1 \in 1..Len(toApp)
      /\ Len(toApp') = Len(toApp) - 1
      /\ \A i \in 1..Len(toApp') : toApp'[i] = toApp[i + 1]
      /\ \A r : Under(toApp', toServer, r) => Under(toApp, toServer, r)
      /\ \A a, b : NotBefore(toApp, toServer, a, b)
                     => NotBefore(toApp', toServer, a, b)
      /\ \A a, b, r : NotBefore(toApp, toServer, a, b) /\ Is(Head(toApp), a)
                        /\ Under(toApp', toServer, r) => r.op # b
  BY <1>1, Taking
<1>3. ASSUME NEW i \in 1..Len(toApp') PROVE SoundGrant(toApp'[i])
  <2>1. i + 1 \in 1..Len(toApp) /\ toApp'[i] = toApp[i + 1]
    BY <1>1, <1>2
  <2> QED BY <2>1 DEF GrantsAreSound
<1>4. Head(toApp) # Connected =>
        /\ Head(toApp) \in Reply /\ Under(toApp, toServer, Head(toApp).req)
        /\ SoundGrant(Head(toApp))
  BY <1>1, <1>2 DEF Under, Message, GrantsAreSound
<1>5. /\ \A p : Names(toApp', p) => Names(toApp, p)
      /\ Steady(toApp') => IF Renames(Head(toApp))
                           THEN Names(toApp, Head(toApp).req.phone)
                           ELSE Steady(toApp)
  BY <1>1, NamesAfterTaking
<1> QED BY <1>2, <1>3, <1>4, <1>5

LEMMA ConnectedStep == ASSUME IInv, OnConnected PROVE IInv'
<1> DEFINE q == Req("autologin", phonenumber, passwordsaved, NoText)
<1> USE DEF IInv
<1>1. /\ toApp # <<>> /\ Head(toApp) = Connected /\ toApp' = Tail(toApp)
      /\ toServer' = IF islogined THEN Sent(q) ELSE toServer
      /\ UNCHANGED <<account, authed, conn, root, islogined, phonenumber,
                     passwordsaved, form, disk, asked, edited, accepted, breaks>>
  BY DEF OnConnected, Handled
<1>2. q \in Request /\ q.op = "autologin" /\ q.password = passwordsaved
  BY RequestType DEF Ops, TypeOK
<1> HIDE DEF q
<1>3. toApp' \in Seq(Message) /\ toServer \in Seq(Request)
  BY <1>1, HandledFacts, WireTypes
<1>4. /\ toServer' \in Seq(Request)
      /\ \A r : Under(toApp', toServer', r) =>
                Under(toApp, toServer, r) \/ (islogined /\ r = q)
      /\ NotBefore(toApp, toServer, "login", "logout")
           => NotBefore(toApp', toServer', "login", "logout")
      /\ NotBefore(toApp, toServer, "logout", "login")
           => NotBefore(toApp', toServer', "logout", "login")
  <2>1. CASE ~islogined \/ ~conn
    <3>1. toServer' = toServer
      BY <1>1, <2>1 DEF Sent
    <3> QED BY <1>1, <1>3, <3>1, HandledFacts
  <2>2. CASE islogined /\ conn
    <3>1. toServer' = Append(toServer, q)
      BY <1>1, <2>2 DEF Sent
    <3>2. /\ Append(toServer, q) \in Seq(Request)
          /\ \A r : Under(toApp', Append(toServer, q), r) =>
                    Under(toApp', toServer, r) \/ r = q
          /\ \A a, b : NotBefore(toApp', toServer, a, b) /\ q.op # b
                         => NotBefore(toApp', Append(toServer, q), a, b)
      BY <1>2, <1>3, Sending
    <3>3. /\ \A r : Under(toApp', toServer, r) => Under(toApp, toServer, r)
          /\ \A a, b : NotBefore(toApp, toServer, a, b)
                         => NotBefore(toApp', toServer, a, b)
      BY <1>1, HandledFacts
    <3> QED BY <1>2, <2>2, <3>1, <3>2, <3>3
  <2> QED BY <2>1, <2>2
<1>5. TypeOK'
  BY <1>1, <1>3, <1>4 DEF TypeOK, Message
<1>6. RememberedWereAccepted' /\ AppMeansLoggedIn'
  BY <1>1 DEF RememberedWereAccepted, AppMeansLoggedIn
<1>7. Requests' /\ PasswordIsKept'
  <2>1. islogined => passwordsaved \in Passwords
    BY DEF PasswordIsKept, TypeOK
  <2> QED BY <1>1, <1>2, <1>4, <2>1 DEF Requests, PasswordIsKept, SoundRequest
<1>8. GrantsAreSound'
  BY <1>1, HandledFacts DEF GrantsAreSound, SoundGrant
<1>9. FormsHold' /\ LoginsWereAsked' /\ ExitsInOrder'
  BY <1>1, <1>2, <1>4 DEF FormsHold, FormHolds, LoginsWereAsked, ExitsInOrder
<1>10. AuthedAgrees'
  BY <1>1, HandledFacts DEF AuthedAgrees, Renames
<1> QED BY <1>5, <1>6, <1>7, <1>8, <1>9, <1>10

\* An answer is handled and no request is sent.  Of what the invariant says only the
\* parts about what the block changes are left to show.
LEMMA HandlingKeeps ==
  ASSUME IInv, Answered, Handled,
         UNCHANGED <<account, authed, conn, toServer, form, asked, accepted, breaks>>,
         edited => edited',
         islogined' => passwordsaved # NoText, passwordsaved' = passwordsaved,
         root' = root \/ root' = "app",
         root' = root \/ NotBefore(toApp', toServer, "logout", "login")
  PROVE  /\ toApp' \in Seq(Message) /\ toServer' \in Seq(Request)
         /\ Requests' /\ PasswordIsKept' /\ GrantsAreSound' /\ FormsHold'
         /\ LoginsWereAsked' /\ ExitsInOrder'
<1> USE DEF IInv
<1>1. toApp # <<>> /\ toApp' = Tail(toApp) /\ toServer' = toServer
  BY DEF Answered, Handled
<1>2. /\ toApp' \in Seq(Message) /\ toServer' \in Seq(Request)
      /\ \A r : Under(toApp', toServer', r) => Under(toApp, toServer, r)
      /\ \A a, b : NotBefore(toApp, toServer, a, b)
                     => NotBefore(toApp', toServer', a, b)
      /\ \A i \in 1..Len(toApp') : SoundGrant(toApp'[i])
  BY <1>1, HandledFacts, WireTypes
<1>3. Requests' /\ PasswordIsKept'
  BY <1>2 DEF Requests, PasswordIsKept, SoundRequest
<1>4. GrantsAreSound'
  BY <1>2 DEF GrantsAreSound, SoundGrant
<1>5. FormsHold'
  BY <1>2 DEF FormsHold, FormHolds
<1>6. LoginsWereAsked' /\ ExitsInOrder'
  BY <1>1, <1>2 DEF LoginsWereAsked, ExitsInOrder
<1> QED BY <1>2, <1>3, <1>4, <1>5, <1>6

LEMMA OnLoginStep == ASSUME IInv, OnLogin PROVE IInv' /\ (root = "login" => asked)
<1> DEFINE r == Head(toApp).req
           s == IF r.left = <<>> THEN form ELSE r.left[1]
<1> USE DEF IInv
<1>1. /\ Answered /\ Handled /\ Head(toApp) # Connected /\ Head(toApp).ok /\ r.op = "login"
      /\ toApp # <<>> /\ toApp' = Tail(toApp)
      /\ disk' = [isChecked |-> s.box, phone |-> s.phone, password |-> s.password]
      /\ phonenumber' = r.phone /\ islogined' = TRUE /\ root' = "app"
      /\ UNCHANGED <<account, authed, conn, toServer, passwordsaved, form, asked,
                     edited, accepted, breaks>>
  BY DEF OnLogin, Granted, Answered, Handled
<1>2. /\ r \in Request /\ Under(toApp, toServer, r) /\ SoundGrant(Head(toApp))
  BY <1>1, HandledFacts DEF Reply
<1>3. /\ r.phone \in Phones /\ <<r.phone, r.password>> \in accepted
  BY <1>1, <1>2 DEF SoundGrant
<1>4. s \in Screen
  BY <1>2 DEF Request, TypeOK
<1>5. ~edited => s.phone = r.phone /\ s.password = r.password
  BY <1>1, <1>2 DEF FormsHold, FormHolds
<1> HIDE DEF s
<1>6. passwordsaved # NoText
  BY <1>1, <1>2 DEF PasswordIsKept
<1>7. root = root' \/ NotBefore(toApp', toServer, "logout", "login")
  <2>1. CASE root = "app"
    BY <1>1, <2>1
  <2>2. CASE root = "login"
    <3>1. \A q : Under(toApp', toServer, q) => q.op # "logout"
      BY <1>1, <2>2, HandledFacts DEF ExitsInOrder, Is
    <3> QED BY <3>1 DEF NotBefore, Under, Is
  <2> QED BY <2>1, <2>2 DEF TypeOK
<1>8. /\ toApp' \in Seq(Message) /\ toServer' \in Seq(Request)
      /\ Requests' /\ PasswordIsKept' /\ GrantsAreSound' /\ FormsHold'
      /\ LoginsWereAsked' /\ ExitsInOrder'
  BY <1>1, <1>6, <1>7, HandlingKeeps
<1>9. TypeOK'
  <2>1. disk' \in Disk
    BY <1>1, <1>4 DEF Disk, Screen
  <2> QED BY <1>1, <1>3, <1>8, <2>1 DEF TypeOK, Message
<1>10. RememberedWereAccepted'
  BY <1>1, <1>3, <1>5 DEF RememberedWereAccepted
<1>11. AppMeansLoggedIn'
  BY <1>1, <1>3, <1>6 DEF AppMeansLoggedIn
<1>12. AuthedAgrees'
  <2>1. Renames(Head(toApp))
    BY <1>1 DEF Renames
  <2> HIDE DEF r
  <2>2. Steady(toApp') => Names(toApp, r.phone)
    BY <1>1, <2>1, HandledFacts DEF r
  <2>3. \A p : Names(toApp', p) => Names(toApp, p)
    BY <1>1, HandledFacts
  <2> QED BY <1>1, <2>2, <2>3 DEF AuthedAgrees
<1>13. root = "login" => asked
  BY <1>1, <1>2 DEF LoginsWereAsked
<1> QED BY <1>8, <1>9, <1>10, <1>11, <1>12, <1>13

LEMMA OnAutoLoginStep == ASSUME IInv, OnAutoLogin PROVE IInv'
<1> DEFINE r == Head(toApp).req
<1> USE DEF IInv
<1>1. /\ Answered /\ Handled /\ Head(toApp) # Connected /\ Head(toApp).ok
      /\ r.op = "autologin" /\ toApp # <<>> /\ toApp' = Tail(toApp)
      /\ phonenumber' = r.phone /\ islogined' = TRUE
      /\ UNCHANGED <<account, authed, conn, toServer, root, passwordsaved, form, disk,
                     asked, edited, accepted, breaks>>
  BY DEF OnAutoLogin, Granted, Answered, Handled
<1>2. Under(toApp, toServer, r) /\ SoundGrant(Head(toApp))
  BY <1>1, HandledFacts
<1>3. r.phone \in Phones /\ passwordsaved # NoText
  BY <1>1, <1>2 DEF SoundGrant, PasswordIsKept
<1>4. /\ toApp' \in Seq(Message) /\ toServer' \in Seq(Request)
      /\ Requests' /\ PasswordIsKept' /\ GrantsAreSound' /\ FormsHold'
      /\ LoginsWereAsked' /\ ExitsInOrder'
  BY <1>1, <1>3, HandlingKeeps
<1>5. TypeOK'
  BY <1>1, <1>3, <1>4 DEF TypeOK, Message
<1>6. RememberedWereAccepted' /\ AppMeansLoggedIn'
  BY <1>1, <1>3 DEF RememberedWereAccepted, AppMeansLoggedIn
<1>7. AuthedAgrees'
  <2>1. Renames(Head(toApp))
    BY <1>1 DEF Renames
  <2> HIDE DEF r
  <2>2. Steady(toApp') => Names(toApp, r.phone)
    BY <1>1, <2>1, HandledFacts DEF r
  <2>3. \A p : Names(toApp', p) => Names(toApp, p)
    BY <1>1, HandledFacts
  <2> QED BY <1>1, <2>2, <2>3 DEF AuthedAgrees
<1> QED BY <1>4, <1>5, <1>6, <1>7

LEMMA OnPhoneStep ==
  ASSUME IInv, NEW text \in Phones \cup {NoText}, OnPhone(text) PROVE IInv'
<1> DEFINE r == Head(toApp).req
<1> USE DEF IInv
<1>1. /\ Answered /\ Handled /\ Head(toApp) # Connected /\ Head(toApp).ok
      /\ r.op = "phone" /\ toApp # <<>> /\ toApp' = Tail(toApp)
      /\ phonenumber' = text /\ edited' = (edited \/ text # r.phone)
      /\ UNCHANGED <<account, authed, conn, toServer, root, islogined, passwordsaved,
                     form, disk, asked, accepted, breaks>>
  BY DEF OnPhone, Granted, Answered, Handled
<1>2. Under(toApp, toServer, r)
  BY <1>1, HandledFacts
<1>3. r.phone \in Phones
  BY <1>1, <1>2 DEF Requests, SoundRequest
<1>4. /\ toApp' \in Seq(Message) /\ toServer' \in Seq(Request)
      /\ Requests' /\ PasswordIsKept' /\ GrantsAreSound' /\ FormsHold'
      /\ LoginsWereAsked' /\ ExitsInOrder'
  BY <1>1, HandlingKeeps DEF PasswordIsKept
<1>5. TypeOK'
  BY <1>1, <1>4 DEF TypeOK, Message
<1>6. RememberedWereAccepted' /\ AppMeansLoggedIn'
  BY <1>1, <1>3 DEF RememberedWereAccepted, AppMeansLoggedIn
<1>7. AuthedAgrees'
  <2>1. Renames(Head(toApp))
    BY <1>1 DEF Renames
  <2> HIDE DEF r
  <2>2. Steady(toApp') => Names(toApp, r.phone)
    BY <1>1, <2>1, HandledFacts DEF r
  <2>3. \A p : Names(toApp', p) => Names(toApp, p)
    BY <1>1, HandledFacts
  <2> QED BY <1>1, <2>2, <2>3 DEF AuthedAgrees
<1> QED BY <1>4, <1>5, <1>6, <1>7

LEMMA OnRegisterStep ==
  ASSUME IInv, NEW p \in Phones \cup {NoText}, NEW w \in Passwords \cup {NoText},
         OnRegister(p, w)
  PROVE  IInv'
<1> DEFINE r == Head(toApp).req
<1> USE DEF IInv
<1>1. /\ Answered /\ Handled /\ Head(toApp) # Connected /\ Head(toApp).ok
      /\ r.op = "register" /\ toApp # <<>> /\ toApp' = Tail(toApp)
      /\ disk' = [isChecked |-> disk.isChecked, phone |-> p, password |-> w]
      /\ edited' = (edited \/ p # r.phone \/ w # r.password)
      /\ UNCHANGED <<account, authed, conn, toServer, root, islogined, phonenumber,
                     passwordsaved, form, asked, accepted, breaks>>
  BY DEF OnRegister, Granted, Answered, Handled
<1>2. <<r.phone, r.password>> \in accepted
  BY <1>1, HandledFacts DEF SoundGrant
<1>3. /\ toApp' \in Seq(Message) /\ toServer' \in Seq(Request)
      /\ Requests' /\ PasswordIsKept' /\ GrantsAreSound' /\ FormsHold'
      /\ LoginsWereAsked' /\ ExitsInOrder'
  BY <1>1, HandlingKeeps DEF PasswordIsKept
<1>4. TypeOK'
  <2>1. disk' \in Disk
    BY <1>1 DEF Disk, TypeOK
  <2> QED BY <1>1, <1>3, <2>1 DEF TypeOK, Message
<1>5. RememberedWereAccepted' /\ AppMeansLoggedIn'
  BY <1>1, <1>2 DEF RememberedWereAccepted, AppMeansLoggedIn
<1>6. AuthedAgrees'
  <2>1. ~Renames(Head(toApp))
    BY <1>1 DEF Renames
  <2> QED BY <1>1, <2>1, HandledFacts DEF AuthedAgrees
<1> QED BY <1>3, <1>4, <1>5, <1>6

LEMMA OnMessageOnlyStep == ASSUME IInv, OnMessageOnly PROVE IInv'
<1> USE DEF IInv
<1>1. /\ Answered /\ Handled /\ toApp # <<>> /\ toApp' = Tail(toApp)
      /\ Head(toApp).ok => Head(toApp).req.op \in {"password", "find"}
      /\ UNCHANGED <<account, authed, conn, toServer, root, islogined, phonenumber,
                     passwordsaved, form, disk, asked, edited, accepted, breaks>>
  BY DEF OnMessageOnly, Granted, Answered, Handled
<1>2. /\ toApp' \in Seq(Message) /\ toServer' \in Seq(Request)
      /\ Requests' /\ PasswordIsKept' /\ GrantsAreSound' /\ FormsHold'
      /\ LoginsWereAsked' /\ ExitsInOrder'
  BY <1>1, HandlingKeeps DEF PasswordIsKept
<1>3. TypeOK'
  BY <1>1, <1>2 DEF TypeOK, Message
<1>4. RememberedWereAccepted' /\ AppMeansLoggedIn'
  BY <1>1 DEF RememberedWereAccepted, AppMeansLoggedIn
<1>5. AuthedAgrees'
  <2>1. ~Renames(Head(toApp))
    BY <1>1 DEF Renames
  <2> QED BY <1>1, <2>1, HandledFacts DEF AuthedAgrees
<1> QED BY <1>2, <1>3, <1>4, <1>5

LEMMA LoadedForm == ASSUME TypeOK PROVE Loaded(disk) \in Screen
  BY DEF Loaded, Screen, TypeOK, Disk

LEMMA LeaveFacts ==
  ASSUME TypeOK, NEW r \in Request
  PROVE  /\ Leave(r) \in Request /\ Like(r, Leave(r))
         /\ r.op = "login" => Leave(r).left = IF r.left = <<>> THEN <<form>> ELSE r.left
<1>1. form \in Screen
  BY DEF TypeOK
<1>2. [r EXCEPT !.left = <<form>>] \in Request
  BY <1>1 DEF Request
<1>3. Like(r, [r EXCEPT !.left = <<form>>])
  BY DEF Like, Request
<1>4. [r EXCEPT !.left = <<form>>].left = <<form>>
  BY DEF Request
<1> QED BY <1>2, <1>3, <1>4 DEF Leave, Like

\* What a logout makes of a message under way.
Left(m) == IF m = Connected THEN Connected ELSE [m EXCEPT !.req = Leave(@)]

LEMMA LeftFacts ==
  ASSUME TypeOK, NEW m \in Message
  PROVE  /\ Left(m) \in Message /\ LikeMessage(m, Left(m))
         /\ m # Connected => m.req \in Request /\ Left(m).req = Leave(m.req)
<1>1. CASE m = Connected
  BY <1>1 DEF Left, LikeMessage
<1>2. CASE m # Connected
  <2>1. m \in Reply /\ m.req \in Request
    BY <1>2 DEF Message, Reply
  <2>2. Leave(m.req) \in Request /\ Like(m.req, Leave(m.req))
    BY <2>1, LeaveFacts
  <2>3. Left(m) = [m EXCEPT !.req = Leave(m.req)]
    BY <1>2 DEF Left
  <2>4. Left(m) \in Reply /\ Left(m).req = Leave(m.req) /\ Left(m).ok = m.ok
    BY <2>1, <2>2, <2>3 DEF Reply
  <2>5. Left(m) # Connected
    BY <2>4, ReplyIsNotConnected
  <2> QED BY <1>2, <2>1, <2>2, <2>4, <2>5 DEF LikeMessage, Message
<1> QED BY <1>1, <1>2

LEMMA OnLogoutStep == ASSUME IInv, OnLogout PROVE IInv'
<1> USE DEF IInv
<1> DEFINE app == Tail(toApp)
<1>1. /\ Head(toApp) # Connected /\ Head(toApp).req.op = "logout"
      /\ toServer' = [i \in 1..Len(toServer) |-> Leave(toServer[i])]
      /\ toApp' = [i \in 1..(Len(toApp) - 1) |->
                    IF toApp[i + 1] = Connected THEN Connected
                    ELSE [toApp[i + 1] EXCEPT !.req = Leave(@)]]
      /\ root' = "login" /\ form' = Loaded(disk) /\ asked' = (asked /\ root = "login")
      /\ toApp # <<>>
      /\ UNCHANGED <<account, authed, conn, islogined, phonenumber, passwordsaved, disk,
                     edited, accepted, breaks>>
  BY DEF OnLogout, Granted, Answered
<1>2. toApp \in Seq(Message) /\ toServer \in Seq(Request)
  BY WireTypes
<1>3. /\ app \in Seq(Message) /\ Len(app) = Len(toApp) - 1
      /\ \A i \in 1..Len(app) : app[i] = toApp[i + 1]
      /\ \A r : Under(app, toServer, r) => Under(toApp, toServer, r)
      /\ \A a, b : NotBefore(toApp, toServer, a, b) => NotBefore(app, toServer, a, b)
      /\ \A a, b, r : NotBefore(toApp, toServer, a, b) /\ Is(Head(toApp), a)
                        /\ Under(app, toServer, r) => r.op # b
      /\ \A p : Names(app, p) => Names(toApp, p)
  BY <1>1, <1>2, Taking, NamesAfterTaking
<1> HIDE DEF app
<1>4. \A i \in 1..Len(toServer) : toServer[i] \in Request
  BY <1>2
<1>5. /\ toServer' \in Seq(Request) /\ Len(toServer') = Len(toServer)
      /\ \A i \in 1..Len(toServer) : toServer'[i] = Leave(toServer[i])
  BY <1>1, <1>2, <1>4, LeaveFacts
<1>6. \A i \in 1..Len(app) : app[i] \in Message /\ i + 1 \in 1..Len(toApp)
  BY <1>2, <1>3
<1>7. toApp' = [i \in 1..(Len(toApp) - 1) |-> Left(toApp[i + 1])]
  BY <1>1 DEF Left
<1>8. /\ toApp' \in Seq(Message) /\ Len(toApp') = Len(app)
      /\ \A i \in 1..Len(app) : toApp'[i] = Left(app[i])
  <2>1. Len(app) \in Nat /\ Len(toApp) - 1 = Len(app)
    BY <1>2, <1>3
  <2>2. \A i \in 1..Len(app) : Left(toApp[i + 1]) = Left(app[i])
    BY <1>3
  <2>3. \A i \in 1..Len(app) : Left(app[i]) \in Message
    BY <1>6, LeftFacts
  <2> QED BY <1>7, <2>1, <2>2, <2>3
<1>9. ASSUME NEW r, Under(toApp', toServer', r)
      PROVE  \E q \in Request : Under(app, toServer, q) /\ r = Leave(q)
  <2>1. ASSUME NEW i \in 1..Len(toServer'), toServer'[i] = r
        PROVE  \E q \in Request : Under(app, toServer, q) /\ r = Leave(q)
    BY <1>4, <1>5, <2>1 DEF Under
  <2>2. ASSUME NEW i \in 1..Len(toApp'), toApp'[i] # Connected, toApp'[i].req = r
        PROVE  \E q \in Request : Under(app, toServer, q) /\ r = Leave(q)
    <3>1. i \in 1..Len(app) /\ app[i] # Connected /\ app[i] \in Message
      BY <1>6, <1>8, <2>2 DEF Left
    <3>2. app[i].req \in Request /\ r = Leave(app[i].req)
      BY <1>8, <2>2, <3>1, LeftFacts
    <3> QED BY <3>1, <3>2 DEF Under
  <2> QED BY <1>9, <2>1, <2>2 DEF Under
<1>10. /\ \A a, b : NotBefore(app, toServer, a, b) => NotBefore(toApp', toServer', a, b)
       /\ \A p : Names(toApp', p) => Names(app, p)
  <2>1. \A i \in 1..Len(app) : LikeMessage(app[i], toApp'[i])
    BY <1>6, <1>8, LeftFacts
  <2>2. \A i \in 1..Len(toServer) : Like(toServer[i], toServer'[i])
    BY <1>4, <1>5, LeaveFacts
  <2> QED BY <1>2, <1>3, <1>5, <1>8, <2>1, <2>2, Leaving
<1>11. ASSUME NEW r, Under(toApp', toServer', r), r.op = "login"
       PROVE  root = "login"
  <2>1. PICK q \in Request : Under(app, toServer, q) /\ r = Leave(q)
    BY <1>9, <1>11
  <2>2. q.op = "login"
    BY <1>11, <2>1, LeaveFacts DEF Like
  <2>3. root = "app" => NotBefore(toApp, toServer, "logout", "login")
    BY DEF ExitsInOrder
  <2>4. root # "app"
    BY <1>1, <1>3, <2>1, <2>2, <2>3 DEF Is
  <2> QED BY <2>4 DEF TypeOK
<1>12. TypeOK'
  BY <1>1, <1>5, <1>8, LoadedForm DEF TypeOK, Message
<1>13. RememberedWereAccepted' /\ AppMeansLoggedIn'
  BY <1>1 DEF RememberedWereAccepted, AppMeansLoggedIn
<1>14. Requests' /\ PasswordIsKept'
  <2>1. ASSUME NEW r, Under(toApp', toServer', r)
        PROVE  SoundRequest(r) /\ (r.op \in {"login", "autologin"} => passwordsaved # NoText)
    <3>1. PICK q \in Request : Under(app, toServer, q) /\ r = Leave(q)
      BY <1>9, <2>1
    <3>2. Like(q, r) /\ Under(toApp, toServer, q)
      BY <1>3, <3>1, LeaveFacts
    <3> QED BY <3>2 DEF Requests, PasswordIsKept, SoundRequest, Like
  <2> QED BY <1>1, <2>1 DEF Requests, PasswordIsKept, SoundRequest
<1>15. GrantsAreSound'
  <2>1. ASSUME NEW i \in 1..Len(app) PROVE SoundGrant(toApp[i])'
    <3>1. SoundGrant(app[i])
      BY <1>3, <1>6 DEF GrantsAreSound
    <3>2. LikeMessage(app[i], toApp'[i])
      BY <1>6, <1>8, LeftFacts
    <3>3. ASSUME NEW m, NEW n, SoundGrant(m), LikeMessage(m, n)
          PROVE  SoundGrant(n)
      <4>1. ASSUME n # Connected, n.ok
            PROVE  /\ m # Connected /\ m.ok /\ m.req.op = n.req.op
                   /\ m.req.phone = n.req.phone /\ m.req.password = n.req.password
        BY <3>3, <4>1 DEF LikeMessage, Like
      <4> QED BY <3>3, <4>1 DEF SoundGrant
    <3>4. SoundGrant(toApp'[i])
      BY <3>1, <3>2, <3>3
    <3> QED BY <1>1, <3>4 DEF SoundGrant
  <2> QED BY <1>8, <2>1 DEF GrantsAreSound
<1>16. FormsHold'
  <2>1. ASSUME ~edited, NEW r, Under(toApp', toServer', r), r.op = "login"
        PROVE  FormHolds(form', r)
    <3>1. PICK q \in Request : Under(app, toServer, q) /\ r = Leave(q)
      BY <1>9, <2>1
    <3>2. /\ q.op = "login" /\ r.phone = q.phone /\ r.password = q.password
          /\ r.left = IF q.left = <<>> THEN <<form>> ELSE q.left
      BY <2>1, <3>1, LeaveFacts DEF Like
    <3>3. FormHolds(form, q)
      BY <1>3, <2>1, <3>1, <3>2 DEF FormsHold
    <3> QED BY <3>2, <3>3 DEF FormHolds
  <2> QED BY <1>1, <2>1 DEF FormsHold
<1>17. LoginsWereAsked'
  <2>1. ASSUME NEW r, Under(toApp', toServer', r), r.op = "login" PROVE asked'
    <3>1. root = "login"
      BY <1>11, <2>1
    <3>2. PICK q \in Request : Under(app, toServer, q) /\ r = Leave(q)
      BY <1>9, <2>1
    <3>3. q.op = "login"
      BY <2>1, <3>2, LeaveFacts DEF Like
    <3>4. asked
      BY <1>3, <3>1, <3>2, <3>3 DEF LoginsWereAsked
    <3> QED BY <1>1, <3>1, <3>4
  <2> QED BY <2>1 DEF LoginsWereAsked
<1>18. ExitsInOrder'
  <2>1. CASE root = "login"
    BY <1>1, <1>3, <1>10, <2>1 DEF ExitsInOrder
  <2>2. CASE root # "login"
    <3>1. \A r : Under(toApp', toServer', r) => r.op # "login"
      BY <1>11, <2>2
    <3>2. NotBefore(toApp', toServer', "login", "logout")
      BY <3>1 DEF NotBefore, Under, Is
    <3> QED BY <1>1, <3>2 DEF ExitsInOrder
  <2> QED BY <2>1, <2>2
<1>19. AuthedAgrees'
  BY <1>1, <1>3, <1>10 DEF AuthedAgrees
<1> QED BY <1>12, <1>13, <1>14, <1>15, <1>16, <1>17, <1>18, <1>19

LEMMA RestartStep == ASSUME IInv, Restart PROVE IInv'
<1> USE DEF IInv
<1>1. /\ conn' = FALSE /\ toServer' = <<>> /\ toApp' = <<>> /\ authed' = NoText
      /\ root' = "login" /\ islogined' = FALSE /\ phonenumber' = NoText
      /\ passwordsaved' = NoText /\ form' = Loaded(disk) /\ asked' = FALSE
      /\ breaks' = breaks + 1 /\ breaks < MaxBreaks
      /\ UNCHANGED <<account, disk, edited, accepted>>
  BY DEF Restart
<1>2. \A r : ~Under(toApp', toServer', r)
  BY <1>1 DEF Under
<1>3. TypeOK'
  <2>1. breaks' \in 0..MaxBreaks
    BY <1>1 DEF TypeOK
  <2>2. <<>> \in Seq(Request) /\ <<>> \in Seq(Reply \cup {Connected})
    OBVIOUS
  <2>3. toServer' \in Seq(Request) /\ toApp' \in Seq(Reply \cup {Connected})
    BY <1>1, <2>2
  <2> QED BY <1>1, <2>1, <2>3, LoadedForm DEF TypeOK
<1>4. RememberedWereAccepted' /\ AppMeansLoggedIn'
  BY <1>1 DEF RememberedWereAccepted, AppMeansLoggedIn
<1>5. Requests' /\ PasswordIsKept' /\ FormsHold' /\ LoginsWereAsked'
  BY <1>1, <1>2 DEF Requests, PasswordIsKept, FormsHold, LoginsWereAsked
<1>6. GrantsAreSound' /\ ExitsInOrder' /\ AuthedAgrees'
  BY <1>1 DEF GrantsAreSound, ExitsInOrder, NotBefore, AuthedAgrees
<1> QED BY <1>3, <1>4, <1>5, <1>6

-----------------------------------------------------------------------------
(* The theorems.                                                            *)

LEMMA InitInvariant == Init => IInv
<1> SUFFICES ASSUME Init PROVE IInv
  OBVIOUS
<1>1. \A r : ~Under(toApp, toServer, r)
  BY DEF Init, Under
<1>2. TypeOK
  <2>1. <<>> \in Seq(Request) /\ <<>> \in Seq(Reply \cup {Connected})
    OBVIOUS
  <2>2. toServer \in Seq(Request) /\ toApp \in Seq(Reply \cup {Connected})
    BY <2>1 DEF Init
  <2>3. disk \in Disk /\ form \in Screen
    BY DEF Init, Disk, Screen, Loaded
  <2>4. breaks \in 0..MaxBreaks
    BY SessionAssumption DEF Init
  <2>5. conn \in BOOLEAN /\ islogined \in BOOLEAN /\ asked \in BOOLEAN /\ edited \in BOOLEAN
    BY DEF Init
  <2>6. root \in {"login", "app"} /\ accepted \subseteq Phones \X Passwords
    BY DEF Init
  <2>7. /\ account \in [Phones -> Passwords \cup {NoText}]
        /\ authed \in Phones \cup {NoText}
        /\ phonenumber \in Phones \cup {NoText}
        /\ passwordsaved \in Passwords \cup {NoText}
    BY DEF Init
  <2> QED BY <2>2, <2>3, <2>4, <2>5, <2>6, <2>7 DEF TypeOK
<1>3. RememberedWereAccepted /\ AppMeansLoggedIn
  BY DEF Init, RememberedWereAccepted, AppMeansLoggedIn
<1>4. Requests /\ PasswordIsKept /\ FormsHold /\ LoginsWereAsked
  BY <1>1 DEF Init, Requests, PasswordIsKept, FormsHold, LoginsWereAsked
<1>5. GrantsAreSound /\ ExitsInOrder /\ AuthedAgrees
  BY DEF Init, GrantsAreSound, ExitsInOrder, NotBefore, AuthedAgrees
<1> QED BY <1>2, <1>3, <1>4, <1>5 DEF IInv

LEMMA StepInvariant ==
  IInv /\ [Next]_vars =>
    IInv' /\ [root = "login" /\ root' = "app" => asked]_vars
<1> SUFFICES ASSUME IInv, [Next]_vars
             PROVE  IInv' /\ (root = "login" /\ root' = "app" => asked)
  OBVIOUS
<1>1. CASE UNCHANGED vars
  BY <1>1 DEF vars, IInv, TypeOK, RememberedWereAccepted, AppMeansLoggedIn, Requests,
     SoundRequest, PasswordIsKept, GrantsAreSound, SoundGrant, FormsHold,
     LoginsWereAsked, ExitsInOrder, AuthedAgrees
<1>2. CASE Network
  <2>1. root' = root
    BY <1>2 DEF Network, Connect, Disconnect, Serve
  <2> QED BY <1>2, <2>1, ConnectStep, DisconnectStep, ServeStep DEF Network
<1>3. CASE User
  <2>1. root' = root
    BY <1>3 DEF User, Edit, onClickRememberMe, onClickLogin, Submit, onClickExit,
               ChangePhone, ChangePassword, AppRequest
  <2> QED BY <1>3, <2>1, EditStep, RememberMeStep, LoginStep, RequestStep DEF User
<1>4. CASE Deliver
  <2>1. CASE OnLogin
    BY <2>1, OnLoginStep
  <2>2. CASE OnLogout
    BY <2>2, OnLogoutStep DEF OnLogout
  <2>3. CASE OnConnected \/ OnAutoLogin \/ OnMessageOnly
    BY <2>3, ConnectedStep, OnAutoLoginStep, OnMessageOnlyStep
       DEF OnConnected, OnAutoLogin, OnMessageOnly
  <2>4. ASSUME NEW p \in Phones \cup {NoText}, OnPhone(p)
        PROVE  IInv' /\ root' = root
    BY <2>4, OnPhoneStep DEF OnPhone
  <2>5. ASSUME NEW p \in Phones \cup {NoText}, NEW w \in Passwords \cup {NoText},
               OnRegister(p, w)
        PROVE  IInv' /\ root' = root
    BY <2>5, OnRegisterStep DEF OnRegister
  <2> QED BY <1>4, <2>1, <2>2, <2>3, <2>4, <2>5 DEF Deliver
<1>5. CASE Restart
  BY <1>5, RestartStep DEF Restart
<1> QED BY <1>1, <1>2, <1>3, <1>4, <1>5 DEF Next

\* The inductive invariant holds in every state of every behaviour of the session.
THEOREM Invariance == Spec => []IInv
<1> QED BY InitInvariant, StepInvariant, PTL DEF Spec

\* Every variable of the session keeps its type.
THEOREM TypesCorrect == Spec => []TypeOK
<1>1. IInv => TypeOK
  BY DEF IInv
<1> QED BY <1>1, Invariance, PTL

\* In the app and with nothing under way, the program and the server agree on who is
\* logged in, unless a field was edited under a running change.
THEOREM NeverMistakenCorrect == Spec => []NeverMistaken
<1>1. IInv => NeverMistaken
  <2>1. toApp = <<>> => Steady(toApp)
    BY DEF Steady
  <2> QED BY <2>1 DEF IInv, AuthedAgrees, NeverMistaken, Idle
<1> QED BY <1>1, Invariance, PTL

\* The login offered at the next start is one the server has accepted, unless a field
\* was edited while it was under way.
THEOREM RememberedCorrect == Spec => []RememberedWereAccepted
<1>1. IInv => RememberedWereAccepted
  BY DEF IInv
<1> QED BY <1>1, Invariance, PTL

\* Whoever sees the app is a user a reconnection logs in again.
THEOREM AppMeansLoggedInCorrect == Spec => []AppMeansLoggedIn
<1>1. IInv => AppMeansLoggedIn
  BY DEF IInv
<1> QED BY <1>1, Invariance, PTL

\* Only a login submitted on this login screen leads into the app.
THEOREM LogoutIsFinalCorrect == Spec => LogoutIsFinal
<1> QED BY Invariance, StepInvariant, PTL DEF Spec, LogoutIsFinal
=============================================================================
