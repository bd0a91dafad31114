------------------------ MODULE LockManagementProofs ------------------------
(***************************************************************************)
(* Proofs about LockManagement, for any offline times, any passwords and   *)
(* any number of requests, answers and pushes under way.                   *)
(***************************************************************************)
EXTENDS LockManagement, SequenceTheorems, TLAPS

USE LockManagementAssumption DEF LockManagementAssumption

-----------------------------------------------------------------------------
(* Stacks of screens. *)

Shapes == {<<>>, <<"details">>, <<"register">>, <<"register", "reader">>} \cup
          {<<"details", s>> : s \in {"offline", "password", "logoff"}}

Has(st, s) == \E i \in 1..Len(st) : st[i] = s

LEMMA HasNone == ASSUME NEW s PROVE ~Has(<<>>, s)
  BY DEF Has

LEMMA HasOne == ASSUME NEW a, NEW s PROVE Has(<<a>>, s) <=> s = a
  BY DEF Has

LEMMA HasTwo ==
  ASSUME NEW a, NEW b, NEW s PROVE Has(<<a, b>>, s) <=> s = a \/ s = b
<1>1. Len(<<a, b>>) = 2 /\ <<a, b>>[1] = a /\ <<a, b>>[2] = b
  OBVIOUS
<1> QED BY <1>1 DEF Has

\* What the shapes hold of the details and of a logoff.
LEMMA ShapesHold ==
  /\ ~Has(<<>>, "details") /\ ~Has(<<>>, "logoff")
  /\ Has(<<"details">>, "details") /\ ~Has(<<"details">>, "logoff")
  /\ ~Has(<<"register">>, "details") /\ ~Has(<<"register">>, "logoff")
  /\ ~Has(<<"register", "reader">>, "details")
  /\ ~Has(<<"register", "reader">>, "logoff")
  BY HasNone, HasOne, HasTwo

\* What is left of a stack when screens are popped.
LEMMA Popped ==
  ASSUME NEW a, NEW b
  PROVE  /\ SubSeq(<<a>>, 1, 0) = <<>>
         /\ SubSeq(<<a, b>>, 1, 0) = <<>>
         /\ SubSeq(<<a, b>>, 1, 1) = <<a>>
<1>1. SubSeq(<<a>>, 1, 0) = <<>> /\ SubSeq(<<a, b>>, 1, 0) = <<>>
  BY SubSeqEmpty
<1>2. SubSeq(<<a, b>>, 1, 1) = <<a>>
  <2> DEFINE s == SubSeq(<<a, b>>, 1, 1)
  <2>1. \A i \in 1..1 : <<a, b>>[i] \in {a, b}
    OBVIOUS
  <2>2. s \in Seq({a, b}) /\ Len(s) = 1 /\ s[1] = <<a, b>>[1]
    <3> HIDE DEF s
    <3>1. /\ s \in Seq({a, b})
          /\ Len(s) = IF 1 <= 1 THEN 1 - 1 + 1 ELSE 0
          /\ \A i \in 1..(1 - 1 + 1) : s[i] = <<a, b>>[1 + i - 1]
      BY <2>1, SubSeqProperties DEF s
    <3> QED BY <3>1
  <2>3. <<a>> \in Seq({a, b}) /\ Len(<<a>>) = 1 /\ <<a>>[1] = a
    OBVIOUS
  <2>4. <<a, b>>[1] = a
    OBVIOUS
  <2> DEFINE u == <<a>>
  <2>5. u \in Seq({a, b}) /\ Len(s) = Len(u) /\ u = <<a>>
    BY <2>2, <2>3
  <2>6. \A i \in 1..Len(s) : s[i] = u[i]
    BY <2>2, <2>3, <2>4
  <2> HIDE DEF s, u
  <2>7. s = u
    BY <2>2, <2>5, <2>6, SeqEqual, Zenon
  <2> QED BY <2>5, <2>7 DEF s
<1> QED BY <1>1, <1>2

LEMMA Pushed ==
  ASSUME NEW a, NEW b
  PROVE  Append(<<>>, a) = <<a>> /\ Append(<<a>>, b) = <<a, b>>
<1>1. ASSUME NEW st \in Seq({a, b}), NEW c \in {a, b}, NEW u \in Seq({a, b}),
             Len(u) = Len(st) + 1, u[Len(u)] = c,
             \A i \in 1..Len(st) : u[i] = st[i]
      PROVE  Append(st, c) = u
  <2> DEFINE v == Append(st, c)
  <2>1. v \in Seq({a, b}) /\ Len(v) = Len(u) /\ \A i \in 1..Len(v) : v[i] = u[i]
    BY <1>1, AppendProperties
  <2> HIDE DEF v
  <2>2. v = u
    BY <2>1, <1>1, SeqEqual
  <2> QED BY <2>2 DEF v
<1>2. /\ <<>> \in Seq({a, b}) /\ <<a>> \in Seq({a, b}) /\ <<a, b>> \in Seq({a, b})
      /\ Len(<<>>) = 0 /\ Len(<<a>>) = 1 /\ Len(<<a, b>>) = 2
      /\ <<a>>[1] = a /\ <<a, b>>[1] = a /\ <<a, b>>[2] = b
  OBVIOUS
<1>3. Append(<<>>, a) = <<a>>
  <2> DEFINE u == <<a>>
  <2>1. u \in Seq({a, b}) /\ Len(u) = 1 /\ u[1] = a
    BY <1>2
  <2> HIDE DEF u
  <2>2. Append(<<>>, a) = u
    BY <1>1, <1>2, <2>1
  <2> QED BY <2>2 DEF u
<1>4. Append(<<a>>, b) = <<a, b>>
  <2> DEFINE st == <<a>>  u == <<a, b>>
  <2>1. /\ st \in Seq({a, b}) /\ Len(st) = 1 /\ st[1] = a
        /\ u \in Seq({a, b}) /\ Len(u) = 2 /\ u[1] = a /\ u[2] = b
    BY <1>2
  <2> HIDE DEF st, u
  <2>2. /\ Len(u) = Len(st) + 1 /\ u[Len(u)] = b
        /\ \A i \in 1..Len(st) : u[i] = st[i]
    BY <2>1
  <2>3. Append(st, b) = u
    BY <1>1, <2>1, <2>2
  <2> QED BY <2>3 DEF st, u
<1> QED BY <1>3, <1>4

LEMMA ShapeLength ==
  ASSUME NEW st \in Shapes PROVE Len(st) \in 0..2 /\ (st # <<>> => Len(st) > 0)
<1>1. ASSUME NEW a, NEW b, st = <<a, b>> PROVE Len(st) = 2
  BY <1>1
<1>2. ASSUME NEW a, st = <<a>> PROVE Len(st) = 1
  BY <1>2
<1>3. ASSUME st = <<>> PROVE Len(st) = 0
  BY <1>3
<1> QED BY <1>1, <1>2, <1>3 DEF Shapes

LeftOf(st, n, left) ==
  /\ left \in Shapes
  /\ ~Has(left, "logoff")
  /\ n = 0 => left = <<>>
  /\ n # 0 => \/ left = <<"details">> /\ Has(st, "details")
              \/ left = <<"register">> /\ ~Has(st, "details")
  /\ \A s : Has(st, s) =>
       Has(left, s) \/ \E i \in (n + 1)..Len(st) : st[i] = s

LEMMA ShapeOfPopped ==
  ASSUME NEW st \in Shapes, NEW n \in 0..Len(st), n < Len(st)
  PROVE  LeftOf(st, n, SubSeq(st, 1, n))
<1> DEFINE left == SubSeq(st, 1, n)
<1>0. left = SubSeq(st, 1, n)
  OBVIOUS
<1> HIDE DEF left
<1>1. ASSUME NEW a, st = <<a>>
      PROVE  /\ n = 0 /\ left = <<>>
             /\ \A s : Has(st, s) => \E i \in (n + 1)..Len(st) : st[i] = s
  <2>1. Len(st) = 1 /\ n = 0 /\ st[1] = a
    BY <1>1
  <2> QED BY <1>0, <1>1, <2>1, Popped, HasOne
<1>2. ASSUME NEW a, NEW b, st = <<a, b>>
      PROVE  /\ n = 0 => left = <<>>
             /\ n # 0 => left = <<a>>
             /\ \A s : Has(st, s) <=> s = a \/ s = b
             /\ \A s : Has(st, s) =>
                  Has(left, s) \/ \E i \in (n + 1)..Len(st) : st[i] = s
  <2>1. Len(st) = 2 /\ n \in {0, 1} /\ st[1] = a /\ st[2] = b
    BY <1>2
  <2>2. (n = 0 => left = <<>>) /\ (n = 1 => left = <<a>>)
    BY <1>0, <1>2, <2>1, Popped
  <2>3. \A s : Has(st, s) <=> s = a \/ s = b
    BY <1>2, HasTwo
  <2>4. n = 1 => Has(left, a)
    <3>1. Has(<<a>>, a)
      BY HasOne
    <3> QED BY <3>1, <2>2, Zenon
  <2>5. n = 0 => 1 \in (n + 1)..Len(st)
    BY <2>1
  <2>6. 2 \in (n + 1)..Len(st)
    BY <2>1
  <2> QED BY <2>1, <2>2, <2>3, <2>4, <2>5, <2>6
<1>3. st # <<>>
  OBVIOUS
<1>4. /\ ~Has(<<>>, "logoff") /\ ~Has(<<"details">>, "logoff")
      /\ ~Has(<<"register">>, "logoff")
  BY HasNone, HasOne
<1>5. LeftOf(st, n, left)
  BY <1>1, <1>2, <1>3, <1>4 DEF Shapes, LeftOf
<1> QED BY <1>0, <1>5

-----------------------------------------------------------------------------
(* Requests and what travels. *)

Wire == Answer \cup Push

LEMMA WireFields ==
  ASSUME NEW m \in Wire
  PROVE  /\ m.kind = "answer" => m \in Answer /\ m.req \in Request
         /\ m.kind # "answer" => m \in Push /\ m.kind = "push"
         /\ m.kind = "push" => m \in Push /\ m.lock \in Lock \cup {NoLock}
  BY DEF Wire, Answer, Push

LEMMA OrphanKeeps ==
  ASSUME NEW r \in Request, NEW n
  PROVE  /\ Orphan(r, n) \in Request
         /\ Orphan(r, n).op = r.op /\ Orphan(r, n).passwd = r.passwd
         /\ Orphan(r, n).typed = r.typed
         /\ Orphan(r, n).self =>
              r.self /\ ~\E i \in (n + 1)..Len(stack) : stack[i] = Self(r.op)
         /\ Orphan(r, n).home =>
              r.home /\ ~\E i \in (n + 1)..Len(stack) : stack[i] = "details"
  BY DEF Orphan, Request

LEMMA ReqType ==
  ASSUME NEW op \in Ops, NEW t \in TimeSet,
         NEW p \in Passwords \cup {NoText}, NEW typed \in Passwords \cup {NoText}
  PROVE  /\ Req(op, t, p, typed) \in Request
         /\ Req(op, t, p, typed).op = op /\ Req(op, t, p, typed).passwd = p
         /\ Req(op, t, p, typed).typed = typed
  BY DEF Req, Request

LEMMA LockFields ==
  ASSUME NEW l \in Lock
  PROVE  /\ l.offline \in TimeSet /\ l.passwd \in Passwords \cup {NoText}
         /\ l # NoLock
         /\ \A t \in TimeSet : /\ [l EXCEPT !.offline = t] \in Lock
                               /\ [l EXCEPT !.offline = t].passwd = l.passwd
         /\ \A p \in Passwords \cup {NoText} :
               /\ [l EXCEPT !.passwd = p] \in Lock
               /\ [l EXCEPT !.passwd = p].passwd = p
  BY DEF Lock

LEMMA TimesExist == Times[1] \in TimeSet /\ \A i \in 1..Len(Times) : Times[i] \in TimeSet
  BY DEF TimeSet

-----------------------------------------------------------------------------
(* The invariant. *)

Held(l) == l # NoLock => l.passwd \in ever

IInv ==
  /\ TypeOK
  /\ FramesCounted
  /\ BlocksFindScreens
  /\ ServerHeld
  /\ RequestsNamePasswords
  /\ LogoffsWereChecked
  /\ CopiesWereHeld

\* What the invariant says of one request or one message under way, given the
\* stack of screens, the passwords the server has held and whether a field was
\* edited.
FindsOn(st, r) == /\ r.self => Has(st, Self(r.op))
                  /\ r.op = "password" /\ r.home => Has(st, "details")

SoundRequest(st, held, ed, r) ==
  /\ FindsOn(st, r)
  /\ r.op \in {"password", "add"} => r.passwd \in Passwords
  /\ ~ed /\ r.op = "logoff" => r.typed \in held

SoundMessage(st, held, ed, m) ==
  /\ m.kind = "answer" => FindsOn(st, m.req)
  /\ ~ed /\ m.kind = "push" /\ m.lock # NoLock => m.lock.passwd \in held
  /\ ~ed /\ m.kind = "answer" /\ m.ok /\ m.req.op = "password"
       => m.req.passwd \in held

\* The invariant, one request and one answer at a time.
Shape ==
  /\ srv \in Lock \cup {NoLock}
  /\ toServer \in Seq(Request) /\ toApp \in Seq(Wire)
  /\ owner \in Lock \cup {NoLock} /\ listed \in Lock \cup {NoLock}
  /\ stack \in Shapes
  /\ lock \in Lock \cup {NoLock} /\ copy \in Lock \cup {NoLock}
  /\ Has(stack, "details") <=> lock # NoLock
  /\ Has(stack, "logoff") <=> copy # NoLock
  /\ curSel \in 1..Len(Times)

History ==
  /\ ever \subseteq Passwords
  /\ edited \in BOOLEAN /\ doubt \in BOOLEAN
  /\ trouble \in 0..MaxTrouble

Copies == ~edited => Held(owner) /\ Held(listed) /\ Held(lock) /\ Held(copy)

Requests == \A i \in 1..Len(toServer) :
              SoundRequest(stack, ever, edited, toServer[i])

Messages == \A i \in 1..Len(toApp) :
              SoundMessage(stack, ever, edited, toApp[i])

Parts == Shape /\ History /\ ServerHeld /\ Copies /\ Requests /\ Messages

\* The frames that wait, and what has popped the reader.
FilmTyped == frames \in Seq(Codes) /\ pops \in 0..2
Film == FilmTyped /\ FramesCounted

LEMMA TypeParts == TypeOK <=> Shape /\ History /\ FilmTyped
  BY DEF TypeOK, Shape, History, FilmTyped, Wire, Shapes, On, Has

LEMMA TypePartsNext == TypeOK' <=> Shape' /\ History' /\ FilmTyped'
  BY DEF TypeOK, Shape, History, FilmTyped, Wire, Shapes, On, Has

LEMMA IInvParts == IInv <=> Parts /\ Film
  BY TypeParts
     DEF IInv, Film, Parts, BlocksFindScreens, ServerHeld, RequestsNamePasswords,
         LogoffsWereChecked, CopiesWereHeld, Held, SoundMessage, SoundRequest,
         Copies, Requests, Messages, Finds, FindsOn, On, Has

LEMMA IInvPartsNext == IInv' <=> Parts' /\ Film'
  BY TypePartsNext
     DEF IInv, Film, Parts, BlocksFindScreens, ServerHeld, RequestsNamePasswords,
         LogoffsWereChecked, CopiesWereHeld, Held, SoundMessage, SoundRequest,
         Copies, Requests, Messages, Finds, FindsOn, On, Has

-----------------------------------------------------------------------------
(* The ways a block ends. *)

\* The screens above the first n are popped; the answers that are left were
\* under way before.
LEMMA PopToKeeps ==
  ASSUME Parts, NEW n \in 0..Len(stack), n < Len(stack),
         NEW pending \in Seq(Wire),
         \A i \in 1..Len(pending) :
           \E j \in 1..Len(toApp) : pending[i] = toApp[j],
         NEW l \in Lock \cup {NoLock}, l # NoLock <=> lock # NoLock,
         PopTo(n, pending, l),
         UNCHANGED <<srv, owner, ever>>, History',
         edited => edited', ~edited' => Held(l)
  PROVE  Parts'
<1>1. /\ stack \in Shapes /\ stack' = SubSeq(stack, 1, n)
      /\ n \in 0..Len(stack) /\ n < Len(stack)
  BY DEF PopTo, Shape, Parts
<1>2. /\ stack' \in Shapes /\ ~Has(stack', "logoff")
      /\ n = 0 => stack' = <<>>
      /\ n # 0 => \/ stack' = <<"details">> /\ Has(stack, "details")
                  \/ stack' = <<"register">> /\ ~Has(stack, "details")
      /\ \A s : Has(stack, s) =>
           Has(stack', s) \/ \E i \in (n + 1)..Len(stack) : stack[i] = s
  <2>1. LeftOf(stack, n, SubSeq(stack, 1, n))
    BY <1>1, ShapeOfPopped
  <2> QED BY <1>1, <2>1 DEF LeftOf
<1> USE DEF Parts
<1>3. /\ Has(stack', "details") <=> lock' # NoLock
      /\ lock' \in Lock \cup {NoLock}
      /\ copy' = NoLock
  <2>1. /\ lock' = IF n = 0 THEN NoLock ELSE l
        /\ copy' = NoLock
        /\ Has(stack, "details") <=> l # NoLock
    BY DEF PopTo, Shape
  <2>2. CASE n = 0
    BY <1>2, <2>1, <2>2, ShapesHold
  <2>3. CASE n # 0 /\ stack' = <<"details">> /\ Has(stack, "details")
    <3>1. Has(stack', "details")
      BY <2>3, ShapesHold
    <3> QED BY <2>1, <2>3, <3>1
  <2>4. CASE n # 0 /\ stack' = <<"register">> /\ ~Has(stack, "details")
    <3>1. ~Has(stack', "details")
      BY <2>4, ShapesHold
    <3> QED BY <2>1, <2>4, <3>1
  <2> QED BY <1>2, <2>2, <2>3, <2>4
<1>4. ASSUME NEW r \in Request, FindsOn(stack, r)
      PROVE  FindsOn(stack', Orphan(r, n))
  BY <1>2, <1>4, OrphanKeeps DEF FindsOn
<1>5. toServer' \in Seq(Request) /\ Requests'
  <2>1. \A i \in 1..Len(toServer) : toServer[i] \in Request
    BY DEF Shape
  <2>2. ASSUME NEW i \in 1..Len(toServer)
        PROVE  /\ Orphan(toServer[i], n) \in Request
               /\ SoundRequest(stack', ever', edited', Orphan(toServer[i], n))
    <3>1. toServer[i] \in Request /\ SoundRequest(stack, ever, edited, toServer[i])
      BY <2>1 DEF Requests
    <3> QED BY <3>1, <1>4, OrphanKeeps DEF SoundRequest
  <2>3. Len(toServer) \in Nat /\ toServer' = [i \in 1..Len(toServer) |-> Orphan(toServer[i], n)]
    BY DEF Shape, PopTo
  <2>4. toServer' \in Seq(Request) /\ Len(toServer') = Len(toServer)
    BY <2>2, <2>3
  <2> QED BY <2>2, <2>3, <2>4 DEF Requests
<1>6. toApp' \in Seq(Wire) /\ Messages'
  <2> DEFINE After(m) == IF m.kind = "push" THEN m
                         ELSE [m EXCEPT !.req = Orphan(@, n)]
  <2>1. ASSUME NEW i \in 1..Len(pending)
        PROVE  /\ After(pending[i]) \in Wire
               /\ SoundMessage(stack', ever', edited', After(pending[i]))
    <3>1. PICK m \in Wire : /\ m = pending[i]
                            /\ SoundMessage(stack, ever, edited, m)
      BY DEF Messages
    <3>2. CASE m.kind = "push"
      <4>1. After(m) = m
        BY <3>2
      <4> QED BY <3>1, <3>2, <4>1 DEF SoundMessage
    <3>3. CASE m.kind # "push"
      <4>1. m \in Answer /\ m.kind = "answer" /\ m.req \in Request
        BY <3>3 DEF Wire, Answer, Push
      <4>2. /\ After(m) \in Answer /\ After(m).kind = "answer"
            /\ After(m).req = Orphan(m.req, n) /\ After(m).ok = m.ok
        BY <4>1, OrphanKeeps DEF Answer
      <4>3. FindsOn(stack', After(m).req)
        BY <3>1, <4>1, <4>2, <1>4 DEF SoundMessage
      <4> QED BY <3>1, <4>1, <4>2, <4>3, OrphanKeeps DEF SoundMessage, Wire
    <3> QED BY <3>1, <3>2, <3>3
  <2>2. Len(pending) \in Nat /\ toApp' = [i \in 1..Len(pending) |-> After(pending[i])]
    BY DEF PopTo
  <2> HIDE DEF After
  <2>3. toApp' \in Seq(Wire) /\ Len(toApp') = Len(pending)
    BY <2>1, <2>2
  <2> QED BY <2>1, <2>2, <2>3 DEF Messages
<1>7. Copies' /\ ServerHeld' /\ History'
  BY <1>3 DEF Copies, ServerHeld, Held, PopTo, Shape
<1>8. Shape'
  <2>1. curSel' \in 1..Len(Times) /\ owner' \in Lock \cup {NoLock}
        /\ listed' \in Lock \cup {NoLock} /\ srv' \in Lock \cup {NoLock}
    BY DEF PopTo, Shape
  <2> QED BY <1>2, <1>3, <1>5, <1>6, <2>1 DEF Shape
<1> QED BY <1>5, <1>6, <1>7, <1>8

\* More screens, more passwords held and an edited field keep what is under way.
LEMMA SoundGrows ==
  ASSUME NEW st, NEW st2, \A s : Has(st, s) => Has(st2, s),
         NEW held, NEW held2, held \subseteq held2,
         NEW ed, NEW ed2, ed => ed2
  PROVE  /\ \A r : SoundRequest(st, held, ed, r) => SoundRequest(st2, held2, ed2, r)
         /\ \A m : SoundMessage(st, held, ed, m) => SoundMessage(st2, held2, ed2, m)
  BY DEF SoundRequest, SoundMessage, FindsOn

LEMMA TailOfToApp ==
  ASSUME Shape, toApp # <<>>
  PROVE  /\ Head(toApp) \in Wire /\ Head(toApp) = toApp[1] /\ 1 \in 1..Len(toApp)
         /\ Tail(toApp) \in Seq(Wire)
         /\ \A i \in 1..Len(Tail(toApp)) :
              i + 1 \in 1..Len(toApp) /\ Tail(toApp)[i] = toApp[i + 1]
  BY HeadTailProperties DEF Shape

\* The block ends and leaves the screens as they are.
LEMMA StayKeeps ==
  ASSUME Parts, toApp # <<>>,
         NEW l \in Lock \cup {NoLock}, l # NoLock <=> lock # NoLock,
         Stay(l), UNCHANGED <<srv, ever>>, owner' \in Lock \cup {NoLock},
         History', edited => edited',
         ~edited' => Held(l), ~edited' => Held(owner)'
  PROVE  Parts'
<1> USE DEF Parts
<1>1. Shape'
  BY TailOfToApp DEF Stay, Shape
<1>2. Requests'
  <2>1. \A r : SoundRequest(stack, ever, edited, r)
                => SoundRequest(stack', ever', edited', r)
    BY SoundGrows DEF Stay
  <2> QED BY <2>1 DEF Stay, Requests
<1>3. Messages'
  <2>1. \A m : SoundMessage(stack, ever, edited, m)
                => SoundMessage(stack', ever', edited', m)
    BY SoundGrows DEF Stay
  <2> QED BY <2>1, TailOfToApp DEF Stay, Messages
<1>4. Copies' /\ ServerHeld'
  BY DEF Stay, Copies, Held, ServerHeld
<1> QED BY <1>1, <1>2, <1>3, <1>4

\* The block ends and pops the top of the stack, if its screen is still there.
LEMMA PopIfOpenKeeps ==
  ASSUME Parts, toApp # <<>>, Head(toApp).kind = "answer",
         NEW l \in Lock \cup {NoLock}, l # NoLock <=> lock # NoLock,
         PopIfOpen(l), UNCHANGED <<srv, owner, ever>>,
         History', edited => edited', ~edited' => Held(l)
  PROVE  Parts'
<1> USE DEF Parts
<1>1. CASE ~Head(toApp).req.self
  <2>1. Stay(l) /\ owner' \in Lock \cup {NoLock} /\ (~edited' => Held(owner)')
    BY <1>1 DEF PopIfOpen, Shape, Copies, Held
  <2> QED BY <2>1, StayKeeps
<1>2. CASE Head(toApp).req.self
  <2>1. Has(stack, Self(Head(toApp).req.op))
    BY <1>2, TailOfToApp DEF Messages, SoundMessage, FindsOn
  <2>2. stack # <<>>
    BY <2>1, HasNone
  <2>3. Len(stack) - 1 \in 0..Len(stack) /\ Len(stack) - 1 < Len(stack)
    BY <2>2, ShapeLength DEF Shape
  <2>4. PopTo(Len(stack) - 1, Tail(toApp), l)
    BY <1>2 DEF PopIfOpen, Pop
  <2> QED BY <2>3, <2>4, TailOfToApp, PopToKeeps
<1> QED BY <1>1, <1>2

\* A request is sent; the details may have changed their offline time.
LEMMA SendKeeps ==
  ASSUME Parts, NEW r \in Request, SoundRequest(stack, ever, edited, r), Send(r),
         UNCHANGED <<srv, toApp, lists, stack, copy, curSel, history>>,
         lock' \in Lock \cup {NoLock}, lock' # NoLock <=> lock # NoLock,
         Held(lock) => Held(lock)'
  PROVE  Parts'
<1> USE DEF Parts
<1>1. /\ toServer' \in Seq(Request) /\ Len(toServer') = Len(toServer) + 1
      /\ \A i \in 1..Len(toServer) : toServer'[i] = toServer[i]
      /\ toServer'[Len(toServer) + 1] = r
  BY DEF Send, Shape
<1>2. Requests'
  <2>1. \A i \in 1..Len(toServer') : i \in 1..Len(toServer) \/ i = Len(toServer) + 1
    BY <1>1 DEF Shape
  <2> QED BY <1>1, <2>1 DEF Requests, history
<1>3. Shape'
  BY <1>1 DEF Shape, lists
<1>4. Messages' /\ Copies' /\ ServerHeld' /\ History'
  BY DEF Messages, Copies, Held, ServerHeld, History, lists, history
<1> QED BY <1>2, <1>3, <1>4

-----------------------------------------------------------------------------
(* The initial states. *)

LEMMA InitParts == Init => Parts
<1> SUFFICES ASSUME Init PROVE Parts
  OBVIOUS
<1>1. srv \in Lock /\ srv.passwd \in Passwords
  BY LockFields DEF Init
<1>2. toServer \in Seq(Request) /\ toApp \in Seq(Wire) /\ Requests /\ Messages
  BY DEF Init, Requests, Messages
<1>3. ~Has(stack, "details") /\ ~Has(stack, "logoff") /\ stack \in Shapes
  BY HasNone DEF Init, Shapes
<1>4. Shape
  BY <1>1, <1>2, <1>3 DEF Init, Shape
<1>5. History
  <2>1. edited \in BOOLEAN /\ doubt \in BOOLEAN
    BY Zenon DEF Init
  <2> QED BY <1>1, <2>1 DEF Init, History
<1>6. Copies /\ ServerHeld
  BY <1>1 DEF Init, Copies, Held, ServerHeld
<1> QED BY <1>2, <1>4, <1>5, <1>6 DEF Parts

-----------------------------------------------------------------------------
(* The world. *)

LEMMA ServeKeeps == Parts /\ Serve => Parts'
<1> SUFFICES ASSUME Parts, Serve PROVE Parts'
  OBVIOUS
<1> USE DEF Parts
<1> DEFINE r == Head(toServer)
<1>1. /\ r \in Request /\ SoundRequest(stack, ever, edited, r)
      /\ Tail(toServer) \in Seq(Request)
      /\ \A i \in 1..Len(Tail(toServer)) :
           i + 1 \in 1..Len(toServer) /\ Tail(toServer)[i] = toServer[i + 1]
  <2>1. toServer \in Seq(Request) /\ toServer # <<>>
    BY DEF Serve, Shape
  <2>2. r = toServer[1] /\ 1 \in 1..Len(toServer)
    BY <2>1
  <2> QED BY <2>1, <2>2, HeadTailProperties DEF Requests
<1> HIDE DEF r
<1>2. PICK ok \in BOOLEAN :
        /\ ok => Grants(r)
        /\ ~ok /\ Grants(r) => trouble < MaxTrouble
        /\ trouble' = IF ~ok /\ Grants(r) THEN trouble + 1 ELSE trouble
        /\ doubt' = (doubt \/ ~ok)
        /\ toApp' = Append(toApp, [kind |-> "answer", ok |-> ok, req |-> r])
        /\ srv' = IF ~ok THEN srv
                  ELSE CASE r.op = "offline"  -> [srv EXCEPT !.offline = r.offline]
                         [] r.op = "password" -> [srv EXCEPT !.passwd = r.passwd]
                         [] r.op = "logoff"   -> NoLock
                         [] r.op = "add" ->
                              [offline |-> r.offline, passwd |-> r.passwd]
        /\ ever' = IF ok /\ r.op \in {"password", "add"}
                   THEN ever \cup {r.passwd} ELSE ever
  BY Zenon DEF Serve, r
<1>3. /\ toServer' = Tail(toServer)
      /\ UNCHANGED <<owner, listed, stack, lock, copy, curSel, edited>>
  BY DEF Serve, lists, screens
<1>4. ever \subseteq ever' /\ ever' \subseteq Passwords
  BY <1>1, <1>2 DEF History, SoundRequest
<1>5. srv' \in Lock \cup {NoLock} /\ ServerHeld'
  <2>1. /\ r.op \in Ops /\ r.offline \in TimeSet
        /\ r.passwd \in Passwords \cup {NoText}
    BY <1>1 DEF Request
  <2>2. CASE ~ok
    <3>1. srv' = srv
      BY <2>2, <1>2
    <3> QED BY <3>1, <1>4 DEF ServerHeld, Shape
  <2>3. CASE ok /\ r.op = "offline"
    <3>1. srv \in Lock /\ srv' = [srv EXCEPT !.offline = r.offline]
      BY <2>3, <1>2 DEF Grants, Shape
    <3> QED BY <3>1, <2>1, <1>4, LockFields DEF ServerHeld
  <2>4. CASE ok /\ r.op = "password"
    <3>1. srv \in Lock /\ srv' = [srv EXCEPT !.passwd = r.passwd]
      BY <2>4, <1>2 DEF Grants, Shape
    <3> QED BY <3>1, <2>1, <2>4, <1>2, LockFields DEF ServerHeld
  <2>5. CASE ok /\ r.op = "logoff"
    BY <2>5, <1>2 DEF ServerHeld
  <2>6. CASE ok /\ r.op = "add"
    <3>1. srv' = [offline |-> r.offline, passwd |-> r.passwd] /\ srv' \in Lock
      BY <2>1, <2>6, <1>2 DEF Lock
    <3> QED BY <3>1, <2>6, <1>2 DEF ServerHeld
  <2> QED BY <2>1, <2>2, <2>3, <2>4, <2>5, <2>6 DEF Ops
<1>6. Requests'
  <2>1. \A q : SoundRequest(stack, ever, edited, q)
                => SoundRequest(stack', ever', edited', q)
    BY <1>3, <1>4, SoundGrows
  <2> QED BY <1>1, <1>3, <2>1 DEF Requests
<1>7. toApp' \in Seq(Wire) /\ Messages'
  <2> DEFINE m == [kind |-> "answer", ok |-> ok, req |-> r]
  <2>1. m \in Wire
    BY <1>1, <1>2 DEF Wire, Answer
  <2>2. SoundMessage(stack', ever', edited', m)
    BY <1>1, <1>2, <1>3 DEF SoundMessage, SoundRequest
  <2>3. \A q : SoundMessage(stack, ever, edited, q)
                => SoundMessage(stack', ever', edited', q)
    BY <1>3, <1>4, SoundGrows
  <2>4. toApp' = Append(toApp, m)
    BY <1>2
  <2> HIDE DEF m
  <2>5. /\ toApp' \in Seq(Wire) /\ Len(toApp') = Len(toApp) + 1
        /\ \A i \in 1..Len(toApp) : toApp'[i] = toApp[i]
        /\ toApp'[Len(toApp) + 1] = m
    BY <2>1, <2>4 DEF Shape
  <2>6. \A i \in 1..Len(toApp') : i \in 1..Len(toApp) \/ i = Len(toApp) + 1
    BY <2>5 DEF Shape
  <2> QED BY <2>2, <2>3, <2>5, <2>6 DEF Messages
<1>8. History'
  <2>1. trouble' \in 0..MaxTrouble
    BY <1>2 DEF History
  <2>2. doubt' \in BOOLEAN /\ edited' \in BOOLEAN
    BY <1>2, <1>3, Zenon DEF History
  <2> QED BY <1>4, <2>1, <2>2 DEF History
<1>9. Copies'
  BY <1>3, <1>4 DEF Copies, Held
<1>10. Shape'
  BY <1>1, <1>3, <1>5, <1>7 DEF Shape
<1> QED BY <1>5, <1>6, <1>7, <1>8, <1>9, <1>10

LEMMA WorldKeeps ==
  /\ \A l \in Lock : Parts /\ ChangedElsewhere(l) => Parts'
  /\ Parts /\ SendPush => Parts'
  /\ Parts /\ Break => Parts'
<1> USE DEF Parts
<1>1. ASSUME Parts, NEW l \in Lock, ChangedElsewhere(l) PROVE Parts'
  <2>1. /\ srv' \in Lock /\ l.passwd \in Passwords /\ ever' = ever \cup {l.passwd}
        /\ srv' = l /\ trouble' = trouble + 1 /\ trouble < MaxTrouble
        /\ doubt' = TRUE
        /\ UNCHANGED <<toServer, toApp, owner, listed, stack, lock, copy, curSel,
                       edited>>
    BY <1>1, LockFields DEF ChangedElsewhere, wire, lists, screens
  <2>2. Requests' /\ Messages'
    <3>1. ever \subseteq ever' /\ stack' = stack /\ edited' = edited
      BY <2>1
    <3>2. /\ \A r : SoundRequest(stack, ever, edited, r)
                   => SoundRequest(stack', ever', edited', r)
          /\ \A m : SoundMessage(stack, ever, edited, m)
                   => SoundMessage(stack', ever', edited', m)
      BY <3>1, SoundGrows
    <3> QED BY <1>1, <2>1, <3>2 DEF Requests, Messages
  <2>3. Shape' /\ History' /\ ServerHeld' /\ Copies'
    BY <1>1, <2>1 DEF Shape, History, ServerHeld, Copies, Held
  <2> QED BY <2>2, <2>3
<1>2. ASSUME Parts, SendPush PROVE Parts'
  <2> DEFINE m == [kind |-> "push", lock |-> srv]
  <2>1. /\ toApp' = Append(toApp, m)
        /\ UNCHANGED <<srv, toServer, owner, listed, stack, lock, copy, curSel,
                       ever, edited, doubt, trouble>>
    BY <1>2 DEF SendPush, lists, screens, history
  <2>2. m \in Wire /\ SoundMessage(stack, ever, edited, m)
    BY <1>2 DEF Wire, Push, SoundMessage, Shape, ServerHeld
  <2> HIDE DEF m
  <2>3. /\ toApp' \in Seq(Wire) /\ Len(toApp') = Len(toApp) + 1
        /\ \A i \in 1..Len(toApp) : toApp'[i] = toApp[i]
        /\ toApp'[Len(toApp) + 1] = m
    BY <1>2, <2>1, <2>2 DEF Shape
  <2>4. \A i \in 1..Len(toApp') : i \in 1..Len(toApp) \/ i = Len(toApp) + 1
    BY <1>2, <2>3 DEF Shape
  <2>5. Messages'
    BY <1>2, <2>1, <2>2, <2>3, <2>4 DEF Messages
  <2>6. Shape' /\ History' /\ ServerHeld' /\ Copies' /\ Requests'
    BY <1>2, <2>1, <2>3 DEF Shape, History, ServerHeld, Copies, Held, Requests
  <2> QED BY <2>5, <2>6
<1>3. ASSUME Parts, Break PROVE Parts'
  <2>1. PICK n \in 0..Len(toApp) : toApp' = SubSeq(toApp, 1, n)
    BY <1>3 DEF Break
  <2>2. /\ toServer' = <<>> /\ trouble' = trouble + 1 /\ trouble < MaxTrouble
        /\ doubt' = TRUE
        /\ UNCHANGED <<srv, owner, listed, stack, lock, copy, curSel, ever, edited>>
    BY <1>3 DEF Break, lists, screens
  <2>3. /\ toApp' \in Seq(Wire) /\ Len(toApp') = n
        /\ \A i \in 1..n : toApp'[i] = toApp[i] /\ i \in 1..Len(toApp)
    <3>1. toApp \in Seq(Wire) /\ Len(toApp) \in Nat
      BY <1>3 DEF Shape
    <3>2. \A i \in 1..n : i \in 1..Len(toApp) /\ toApp[i] \in Wire
      BY <3>1
    <3> QED BY <2>1, <3>1, <3>2, SubSeqProperties
  <2>4. Messages' /\ Requests'
    BY <1>3, <2>2, <2>3 DEF Messages, Requests
  <2>5. Shape' /\ History' /\ ServerHeld' /\ Copies'
    BY <1>3, <2>2, <2>3 DEF Shape, History, ServerHeld, Copies, Held
  <2> QED BY <2>4, <2>5
<1> QED BY <1>1, <1>2, <1>3

-----------------------------------------------------------------------------
(* The user. *)

LEMMA NavigationKeeps ==
  /\ Parts /\ Back => Parts'
  /\ Parts /\ Appear => Parts'
  /\ Parts /\ onClickLock => Parts'
  /\ \A s \in Screens \ {"details", "reader"} : Parts /\ OpenScreen(s) => Parts'
<1> USE DEF Parts
<1>1. ASSUME Parts, Back PROVE Parts'
  <2>1. /\ stack \in Shapes /\ stack # <<>>
        /\ PopTo(Len(stack) - 1, toApp, lock)
        /\ UNCHANGED <<srv, owner, ever, edited, doubt, trouble>>
    BY <1>1 DEF Back, Pop, Shape, history
  <2>2. Len(stack) - 1 \in 0..Len(stack) /\ Len(stack) - 1 < Len(stack)
    BY <2>1, ShapeLength
  <2>3. toApp \in Seq(Wire) /\ lock \in Lock \cup {NoLock}
        /\ \A i \in 1..Len(toApp) : \E j \in 1..Len(toApp) : toApp[i] = toApp[j]
    BY <1>1 DEF Shape
  <2>4. History' /\ (edited => edited') /\ (~edited' => Held(lock))
    BY <1>1, <2>1 DEF History, Copies
  <2> QED BY <1>1, <2>1, <2>2, <2>3, <2>4, PopToKeeps
<1>2. ASSUME Parts, Appear PROVE Parts'
  <2>1. /\ listed' = owner
        /\ UNCHANGED <<srv, toServer, toApp, owner, stack, lock, copy, curSel,
                       ever, edited, doubt, trouble>>
    BY <1>2 DEF Appear, wire, screens, history
  <2> QED
    BY <1>2, <2>1
       DEF Shape, History, ServerHeld, Copies, Held, Requests, Messages
<1>3. ASSUME Parts, onClickLock PROVE Parts'
  <2>1. /\ stack = <<>> /\ stack' = <<"details">> /\ listed # NoLock
        /\ lock' = listed
        /\ doubt' = (listed # srv \/ toServer # <<>>)
        /\ UNCHANGED <<srv, toServer, toApp, owner, listed, copy, curSel, ever,
                       edited, trouble>>
    BY <1>3 DEF onClickLock, wire, lists
  <2>2. /\ \A s : ~Has(stack, s)
        /\ Has(stack', "details") /\ ~Has(stack', "logoff")
        /\ stack' \in Shapes
    BY <2>1, HasNone, HasOne DEF Shapes
  <2>3. Requests' /\ Messages'
    <3>1. \A s : Has(stack, s) => Has(stack', s)
      BY <2>2
    <3> QED BY <1>3, <2>1, <3>1, SoundGrows DEF Requests, Messages
  <2>4. Shape' /\ ServerHeld' /\ Copies'
    BY <1>3, <2>1, <2>2 DEF Shape, ServerHeld, Copies, Held
  <2>5. doubt' \in BOOLEAN
    BY <2>1
  <2>6. History'
    BY <1>3, <2>1, <2>5 DEF History
  <2> QED BY <2>3, <2>4, <2>6
<1>4. ASSUME Parts, NEW s \in Screens \ {"details", "reader"}, OpenScreen(s) PROVE Parts'
  <2>1. /\ stack = IF s = "register" THEN <<>> ELSE <<"details">>
        /\ stack' = Append(stack, s)
        /\ copy' = IF s = "logoff" THEN lock ELSE copy
        /\ UNCHANGED <<srv, toServer, toApp, owner, listed, lock, curSel, ever,
                       edited, doubt, trouble>>
    BY <1>4 DEF OpenScreen, wire, lists, history
  <2>2. s \in {"offline", "password", "logoff", "register"}
    BY DEF Screens
  <2>3. stack' = IF s = "register" THEN <<"register">> ELSE <<"details", s>>
    BY <2>1, Pushed, Zenon
  <2>4. /\ stack' \in Shapes
        /\ \A q : Has(stack, q) => Has(stack', q)
        /\ Has(stack', "details") <=> Has(stack, "details")
        /\ Has(stack', "logoff") <=> s = "logoff"
        /\ ~Has(stack, "logoff")
        /\ s = "logoff" => Has(stack, "details")
    <3>1. CASE s = "register"
      <4>1. stack = <<>> /\ stack' = <<"register">>
        BY <3>1, <2>1, <2>3
      <4> QED BY <3>1, <4>1, HasNone, HasOne DEF Shapes
    <3>2. CASE s # "register"
      <4>1. stack = <<"details">> /\ stack' = <<"details", s>>
        BY <3>2, <2>1, <2>3
      <4> QED BY <2>2, <3>2, <4>1, HasOne, HasTwo DEF Shapes
    <3> QED BY <3>1, <3>2
  <2>5. Requests' /\ Messages'
    BY <1>4, <2>1, <2>4, SoundGrows DEF Requests, Messages
  <2>6. Shape' /\ ServerHeld' /\ Copies' /\ History'
    BY <1>4, <2>1, <2>4 DEF Shape, ServerHeld, Copies, Held, History
  <2> QED BY <2>5, <2>6
<1> QED BY <1>1, <1>2, <1>3, <1>4

LEMMA TopShape ==
  ASSUME Shape, NEW s, Top(s)
  PROVE  /\ Has(stack, s)
         /\ s \in {"offline", "password", "logoff"} => stack = <<"details", s>>
         /\ s = "register" => stack = <<"register">>
         /\ s = "reader" => stack = <<"register", "reader">>
<1>1. stack \in Shapes /\ stack # <<>> /\ stack[Len(stack)] = s
  BY DEF Shape, Top
<1>2. Len(stack) \in 1..Len(stack)
  BY <1>1, ShapeLength
<1>3. Has(stack, s)
  BY <1>1, <1>2 DEF Has
<1>4. ASSUME NEW a, NEW b, stack = <<a, b>> PROVE b = s
  BY <1>4, <1>1
<1>5. ASSUME NEW a, stack = <<a>> PROVE a = s
  BY <1>5, <1>1
<1> QED BY <1>1, <1>3, <1>4, <1>5 DEF Shapes

LEMMA RequestsKeep ==
  /\ \A i \in 1..Len(Times) : Parts /\ onSelItemClicked(i) => Parts'
  /\ Parts /\ onOfflineChoosed => Parts'
  /\ \A old, new \in Passwords :
       Parts /\ onClickUpdateLockPassword(old, new) => Parts'
  /\ \A typed \in Passwords \cup {NoText} :
       Parts /\ onClickLogoffLock(typed) => Parts'
  /\ \A t \in TimeSet, p \in Passwords : Parts /\ Register(t, p) => Parts'
<1> USE DEF Parts
<1>1. ASSUME Parts, NEW i \in 1..Len(Times), onSelItemClicked(i) PROVE Parts'
  <2>1. /\ curSel' = i
        /\ UNCHANGED <<srv, toServer, toApp, owner, listed, stack, lock, copy,
                       ever, edited, doubt, trouble>>
    BY <1>1 DEF onSelItemClicked, wire, lists, history
  <2> QED
    BY <1>1, <2>1
       DEF Shape, History, ServerHeld, Copies, Held, Requests, Messages
<1>2. ASSUME Parts, onOfflineChoosed PROVE Parts'
  <2> DEFINE r == Req("offline", Times[curSel], NoText, NoText)
  <2>1. Times[curSel] \in TimeSet
    BY <1>2, TimesExist DEF Shape
  <2>2. /\ r \in Request /\ r.op = "offline"
    BY <2>1, ReqType DEF Ops
  <2>3. Has(stack, "details")
    BY <1>2, TopShape, HasTwo DEF onOfflineChoosed
  <2>4. SoundRequest(stack, ever, edited, r)
    BY <2>2, <2>3 DEF SoundRequest, FindsOn, Self
  <2>5. lock \in Lock /\ lock' = [lock EXCEPT !.offline = Times[curSel]]
    BY <1>2, <2>3 DEF onOfflineChoosed, Shape
  <2>6. /\ Send(r)
        /\ UNCHANGED <<srv, toApp, lists, stack, copy, curSel, history>>
    BY <1>2 DEF onOfflineChoosed
  <2>7. lock' \in Lock /\ lock' # NoLock /\ lock # NoLock /\ lock'.passwd = lock.passwd
    BY <2>1, <2>5, LockFields
  <2>8. Held(lock) => Held(lock)'
    BY <2>6, <2>7 DEF Held, history
  <2> HIDE DEF r
  <2> QED BY <1>2, <2>2, <2>4, <2>6, <2>7, <2>8, SendKeeps
<1>3. ASSUME Parts, NEW old \in Passwords, NEW new \in Passwords,
             onClickUpdateLockPassword(old, new)
      PROVE  Parts'
  <2> DEFINE r == Req("password", Times[1], new, old)
  <2>1. r \in Request /\ r.op = "password" /\ r.passwd = new
    BY TimesExist, ReqType DEF Ops
  <2>2. Has(stack, "details") /\ Has(stack, "password")
    BY <1>3, TopShape, HasTwo DEF onClickUpdateLockPassword
  <2>3. SoundRequest(stack, ever, edited, r)
    BY <2>1, <2>2 DEF SoundRequest, FindsOn, Self
  <2>4. /\ Send(r)
        /\ UNCHANGED <<srv, toApp, lists, screens, history>>
    BY <1>3 DEF onClickUpdateLockPassword
  <2> HIDE DEF r
  <2> QED BY <1>3, <2>1, <2>3, <2>4, SendKeeps DEF screens, Shape, Held, history
<1>4. ASSUME Parts, NEW typed \in Passwords \cup {NoText}, onClickLogoffLock(typed)
      PROVE  Parts'
  <2> DEFINE r == Req("logoff", Times[1], NoText, typed)
  <2>1. r \in Request /\ r.op = "logoff" /\ r.typed = typed
    BY TimesExist, ReqType DEF Ops
  <2>2. Has(stack, "logoff") /\ copy # NoLock
    BY <1>4, TopShape DEF onClickLogoffLock, Shape
  <2>3. ~edited => typed \in ever
    BY <1>4, <2>2 DEF onClickLogoffLock, Copies, Held
  <2>4. SoundRequest(stack, ever, edited, r)
    BY <2>1, <2>2, <2>3 DEF SoundRequest, FindsOn, Self
  <2>5. /\ Send(r)
        /\ UNCHANGED <<srv, toApp, lists, screens, history>>
    BY <1>4 DEF onClickLogoffLock
  <2> HIDE DEF r
  <2> QED BY <1>4, <2>1, <2>4, <2>5, SendKeeps DEF screens, Shape, Held, history
<1>5. ASSUME Parts, NEW t \in TimeSet, NEW p \in Passwords, Register(t, p)
      PROVE  Parts'
  <2> DEFINE r == Req("add", t, p, NoText)
  <2>1. r \in Request /\ r.op = "add" /\ r.passwd = p
    BY ReqType DEF Ops
  <2>2. Has(stack, "register")
    BY <1>5, TopShape DEF Register
  <2>3. SoundRequest(stack, ever, edited, r)
    BY <2>1, <2>2 DEF SoundRequest, FindsOn, Self
  <2>4. /\ Send(r)
        /\ UNCHANGED <<srv, toApp, lists, screens, history>>
    BY <1>5 DEF Register
  <2> HIDE DEF r
  <2> QED BY <1>5, <2>1, <2>3, <2>4, SendKeeps DEF screens, Shape, Held, history
<1> QED BY <1>1, <1>2, <1>3, <1>4, <1>5

-----------------------------------------------------------------------------
(* The reader above the registration. *)

\* Frames that wait find the registration, and pop at least one screen.
LEMMA FramePops ==
  ASSUME Shape, Film, captureOutput
  PROVE  /\ frames # <<>> /\ Head(frames) \in Codes
         /\ Tail(frames) \in Seq(Codes)
         /\ pops # 0 /\ Has(stack, "register") /\ stack # <<>>
         /\ \E n \in 0..Len(stack) :
              /\ n = IF Head(frames) < Len(stack)
                     THEN Len(stack) - Head(frames) ELSE 0
              /\ n < Len(stack)
              /\ PopTo(n, toApp, lock)
              /\ frames' = IF n = 0 THEN <<>> ELSE Tail(frames)
              /\ pops' = IF n = 0 THEN 0 ELSE pops
<1>1. frames # <<>> /\ frames \in Seq(Codes)
  BY DEF captureOutput, Film, FilmTyped
<1>2. Head(frames) \in Codes /\ Tail(frames) \in Seq(Codes)
  BY <1>1
<1>3. pops # 0 /\ Has(stack, "register")
  BY <1>1 DEF Film, FramesCounted, On, Has
<1>4. stack # <<>> /\ Len(stack) \in 1..2
  BY <1>3, HasNone, ShapeLength DEF Shape
<1> DEFINE n == IF Head(frames) < Len(stack) THEN Len(stack) - Head(frames) ELSE 0
<1>5. n \in 0..Len(stack) /\ n < Len(stack)
  BY <1>2, <1>4 DEF Codes
<1>6. /\ PopTo(n, toApp, lock)
      /\ frames' = IF n = 0 THEN <<>> ELSE Tail(frames)
      /\ pops' = IF n = 0 THEN 0 ELSE pops
  BY DEF captureOutput
<1> QED BY <1>1, <1>2, <1>3, <1>4, <1>5, <1>6

LEMMA CameraKeeps ==
  /\ Parts /\ onClickScanQR => Parts'
  /\ \A n \in Codes : Parts /\ Capture(n) => Parts'
  /\ Parts /\ Film /\ captureOutput => Parts'
<1> USE DEF Parts
<1>1. ASSUME Parts, onClickScanQR PROVE Parts'
  <2>1. /\ stack' = Append(stack, "reader")
        /\ UNCHANGED <<srv, toServer, toApp, owner, listed, lock, copy, curSel, ever,
                       edited, doubt, trouble>>
    BY <1>1 DEF onClickScanQR, wire, lists, history
  <2>2. stack = <<"register">> /\ stack' = <<"register", "reader">>
    <3>1. stack = <<"register">>
      BY <1>1, TopShape DEF onClickScanQR
    <3> QED BY <2>1, <3>1, Pushed, Zenon
  <2>3. /\ stack' \in Shapes
        /\ \A q : Has(stack, q) => Has(stack', q)
        /\ ~Has(stack', "details") /\ ~Has(stack, "details")
        /\ ~Has(stack', "logoff") /\ ~Has(stack, "logoff")
    <3>1. stack' \in Shapes
      BY <2>2 DEF Shapes
    <3>2. \A q : Has(stack, q) => Has(stack', q)
      BY <2>2, HasOne, HasTwo
    <3>3. /\ ~Has(stack', "details") /\ ~Has(stack, "details")
          /\ ~Has(stack', "logoff") /\ ~Has(stack, "logoff")
      BY <2>2, ShapesHold
    <3> QED BY <3>1, <3>2, <3>3
  <2>4. Requests' /\ Messages'
    BY <1>1, <2>1, <2>3, SoundGrows DEF Requests, Messages
  <2>5. Shape' /\ ServerHeld' /\ Copies' /\ History'
    BY <1>1, <2>1, <2>3 DEF Shape, ServerHeld, Copies, Held, History
  <2> QED BY <2>4, <2>5
<1>2. ASSUME Parts, NEW n \in Codes, Capture(n) PROVE Parts'
  BY <1>2
     DEF Capture, wire, lists, history, Shape, History, ServerHeld, Copies, Held,
         Requests, Messages
<1>3. ASSUME Parts, Film, captureOutput PROVE Parts'
  <2>1. PICK n \in 0..Len(stack) : n < Len(stack) /\ PopTo(n, toApp, lock)
    BY <1>3, FramePops
  <2>2. UNCHANGED <<srv, owner, ever, edited, doubt, trouble>>
    BY <1>3 DEF captureOutput, history
  <2>3. toApp \in Seq(Wire) /\ lock \in Lock \cup {NoLock}
        /\ \A i \in 1..Len(toApp) : \E j \in 1..Len(toApp) : toApp[i] = toApp[j]
    BY <1>3 DEF Shape
  <2>4. History' /\ (edited => edited') /\ (~edited' => Held(lock))
    BY <1>3, <2>2 DEF History, Copies
  <2> QED BY <1>3, <2>1, <2>2, <2>3, <2>4, PopToKeeps
<1> QED BY <1>1, <1>2, <1>3

\* The frames are counted whatever pops the reader: only what has a registration
\* below is left to wait.
LEMMA Uncounted ==
  ASSUME FilmTyped, frames = <<>> PROVE Film
  BY DEF Film, FramesCounted

LEMMA UncountedNext ==
  ASSUME FilmTyped', frames' = <<>> PROVE Film'
  BY DEF Film, FramesCounted

LEMMA CountedNext ==
  ASSUME FilmTyped', Has(stack', "register"), pops' = 2 PROVE Film'
  BY DEF Film, FramesCounted, On, Has

\* Nothing is left of the stack, or the registration or the details alone.
LEMMA ReaderCloses ==
  ASSUME Shape, Film, NEW n \in 0..Len(stack), n < Len(stack),
         stack' = SubSeq(stack, 1, n), CloseReader
  PROVE  Film'
<1>1. FilmTyped'
  BY DEF CloseReader, More, Film, FilmTyped
<1>2. CASE stack' = <<>>
  BY <1>1, <1>2, UncountedNext DEF CloseReader
<1>3. CASE stack' # <<>>
  <2>1. LeftOf(stack, n, stack')
    BY ShapeOfPopped DEF Shape
  <2>2. n # 0 /\ frames' = frames
    BY <1>3, <2>1 DEF LeftOf, CloseReader
  <2>3. CASE stack' = <<"register">>
    <3>1. Has(stack', "register")
      BY <2>3, HasOne
    <3>2. Len(stack) > 1 /\ ~Has(stack, "details")
      <4>1. Len(stack) > 1
        BY <2>2, ShapeLength DEF Shape
      <4>2. ~Has(stack', "details")
        BY <2>3, ShapesHold
      <4> QED BY <2>1, <2>2, <4>1, <4>2, ShapesHold DEF LeftOf
    <3>3. stack = <<"register", "reader">>
      <4>1. ASSUME NEW a, stack = <<a>> PROVE FALSE
        BY <3>2, <4>1
      <4>2. ASSUME NEW b, stack = <<"details", b>> PROVE FALSE
        BY <3>2, <4>2, HasTwo
      <4>3. stack # <<>>
        BY <3>2
      <4> QED BY <4>1, <4>2, <4>3 DEF Shape, Shapes
    <3>4. Top("reader")
      BY <3>3 DEF Top
    <3>5. pops' = More(1)
      BY <1>3, <3>4 DEF CloseReader
    <3>6. CASE pops = 0
      <4>1. frames = <<>>
        BY <3>6 DEF Film, FramesCounted
      <4> QED BY <1>1, <2>2, <4>1, UncountedNext
    <3>7. CASE pops # 0
      <4>1. pops' = 2
        BY <3>5, <3>7 DEF More, Film, FilmTyped
      <4> QED BY <1>1, <3>1, <4>1, CountedNext
    <3> QED BY <3>6, <3>7
  <2>4. CASE stack' = <<"details">>
    <3>1. Has(stack, "details")
      BY <2>1, <2>2, <2>4, HasOne DEF LeftOf
    <3>2. ~Has(stack, "register")
      <4>1. stack # <<>> /\ stack # <<"register">> /\ stack # <<"register", "reader">>
        BY <3>1, HasNone, HasOne, HasTwo
      <4>2. ASSUME NEW b \in {"offline", "password", "logoff"},
                   stack = <<"details", b>>
            PROVE  ~Has(stack, "register")
        BY <4>2, HasTwo
      <4>3. ASSUME stack = <<"details">> PROVE ~Has(stack, "register")
        BY <4>3, HasOne
      <4> QED BY <4>1, <4>2, <4>3 DEF Shape, Shapes
    <3>3. frames = <<>>
      BY <3>2 DEF Film, FramesCounted, On, Has
    <3> QED BY <1>1, <2>2, <3>3, UncountedNext
  <2> QED BY <2>1, <2>2, <2>3, <2>4 DEF LeftOf
<1> QED BY <1>2, <1>3

LEMMA FilmOfCamera ==
  /\ Shape /\ Film /\ onClickScanQR => Film'
  /\ \A n \in Codes : Shape /\ Film /\ Capture(n) => Film'
  /\ Shape /\ Film /\ captureOutput => Film'
<1>1. ASSUME Shape, Film, onClickScanQR PROVE Film'
  <2>1. /\ frames' = frames /\ pops' = IF frames = <<>> THEN 0 ELSE 2
        /\ stack' = Append(stack, "reader")
    BY <1>1 DEF onClickScanQR
  <2>2. FilmTyped'
    BY <1>1, <2>1 DEF Film, FilmTyped
  <2>3. Has(stack', "register")
    <3>1. stack = <<"register">>
      BY <1>1, TopShape DEF onClickScanQR
    <3>2. stack' = <<"register", "reader">>
      BY <2>1, <3>1, Pushed, Zenon
    <3> QED BY <3>2, HasTwo
  <2> QED BY <2>1, <2>2, <2>3, UncountedNext, CountedNext
<1>2. ASSUME Shape, Film, NEW n \in Codes, Capture(n) PROVE Film'
  <2>1. /\ stack = <<"register", "reader">> /\ stack' = stack /\ Top("reader")
        /\ frames' = Append(frames, n) /\ pops' = More(n)
    BY <1>2, TopShape DEF Capture
  <2>2. FilmTyped'
    BY <1>2, <2>1 DEF Film, FilmTyped, More, Codes
  <2>3. Has(stack', "register")
    BY <2>1, HasTwo
  <2>4. pops' \in 1..2 /\ (pops' = 1 => pops = 0 /\ n = 1)
    BY <1>2, <2>1 DEF Film, FilmTyped, More, Codes
  <2>5. CASE pops' = 1
    <3>1. frames = <<>> /\ n = 1
      BY <1>2, <2>4, <2>5 DEF Film, FramesCounted
    <3>2. frames' = <<1>>
      BY <2>1, <3>1, Pushed, Zenon
    <3>3. Top("reader")'
      BY <2>1 DEF Top
    <3> QED BY <2>2, <2>3, <2>5, <3>2, <3>3 DEF Film, FramesCounted, On, Has
  <2>6. CASE pops' = 2
    BY <2>2, <2>3, <2>6, CountedNext
  <2> QED BY <2>4, <2>5, <2>6
<1>3. ASSUME Shape, Film, captureOutput PROVE Film'
  <2>1. PICK n \in 0..Len(stack) :
          /\ n < Len(stack) /\ PopTo(n, toApp, lock)
          /\ frames' = IF n = 0 THEN <<>> ELSE Tail(frames)
          /\ pops' = IF n = 0 THEN 0 ELSE pops
    BY <1>3, FramePops
  <2>2. /\ Tail(frames) \in Seq(Codes) /\ pops \in 1..2
        /\ Has(stack, "register")
    BY <1>3, FramePops DEF Film, FilmTyped
  <2>3. FilmTyped'
    BY <2>1, <2>2 DEF FilmTyped
  <2>4. CASE n = 0
    BY <2>1, <2>3, <2>4, UncountedNext
  <2>5. CASE n # 0 /\ pops = 1
    <3>1. frames = <<1>>
      BY <1>3, <2>5, FramePops DEF Film, FramesCounted
    <3>2. Tail(frames) = <<>>
      BY <3>1
    <3> QED BY <2>1, <2>3, <2>5, <3>2, UncountedNext
  <2>6. CASE n # 0 /\ pops = 2
    <3>1. LeftOf(stack, n, stack')
      BY <1>3, <2>1, ShapeOfPopped DEF Shape, PopTo
    <3>2. stack' = <<"register">>
      <4>1. ASSUME NEW b \in {"offline", "password", "logoff"}
            PROVE  stack # <<"details", b>>
        BY <2>2, HasTwo
      <4>2. stack # <<"details">>
        BY <2>2, HasOne
      <4>3. ~Has(stack, "details")
        BY <1>3, <4>1, <4>2, HasNone, HasOne, HasTwo DEF Shape, Shapes
      <4> QED BY <2>6, <3>1, <4>3 DEF LeftOf
    <3>3. Has(stack', "register") /\ pops' = 2
      BY <2>1, <2>6, <3>2, HasOne
    <3> QED BY <2>3, <3>3, CountedNext
  <2> QED BY <2>2, <2>4, <2>5, <2>6
<1> QED BY <1>1, <1>2, <1>3

\* Screens are pushed only where no registration is.
LEMMA FilmOfOpening ==
  /\ Shape /\ Film /\ onClickLock => Film'
  /\ \A s \in Screens : Shape /\ Film /\ OpenScreen(s) => Film'
<1>1. ASSUME Shape, Film, ~Has(stack, "register"), UNCHANGED camera PROVE Film'
  <2>1. frames = <<>> /\ frames' = frames /\ pops' = pops
    BY <1>1 DEF Film, FramesCounted, On, Has, camera
  <2> QED BY <1>1, <2>1, UncountedNext DEF Film, FilmTyped
<1>2. ~Has(<<>>, "register") /\ ~Has(<<"details">>, "register")
  BY HasNone, HasOne
<1>3. onClickLock => ~Has(stack, "register") /\ UNCHANGED camera
  BY <1>2 DEF onClickLock
<1>4. ASSUME NEW s \in Screens, OpenScreen(s)
      PROVE  ~Has(stack, "register") /\ UNCHANGED camera
  <2>1. /\ stack = IF s = "register" THEN <<>> ELSE <<"details">>
        /\ UNCHANGED camera
    BY <1>4 DEF OpenScreen
  <2> QED BY <1>2, <2>1
<1> QED BY <1>1, <1>3, <1>4

LEMMA FilmOfPop ==
  ASSUME Shape, Film, stack # <<>>, NEW pending, NEW l, Pop(pending, l)
  PROVE  Film'
<1>1. Len(stack) - 1 \in 0..Len(stack) /\ Len(stack) - 1 < Len(stack)
  BY ShapeLength DEF Shape
<1>2. stack' = SubSeq(stack, 1, Len(stack) - 1) /\ CloseReader
  BY DEF Pop, PopTo
<1> QED BY <1>1, <1>2, ReaderCloses

LEMMA FilmSame == ASSUME Film, UNCHANGED <<stack, camera>> PROVE Film'
  BY DEF Film, FilmTyped, FramesCounted, On, Top, camera

\* The blocks of answers find what they pop.
LEMMA FilmOfBlock ==
  ASSUME Parts, Film, toApp # <<>>, Head(toApp).kind = "answer",
         NEW l, PopIfOpen(l)
  PROVE  Film'
<1>1. CASE ~Head(toApp).req.self
  <2>1. UNCHANGED <<stack, camera>>
    BY <1>1 DEF PopIfOpen, Stay
  <2> QED BY <2>1, FilmSame
<1>2. CASE Head(toApp).req.self
  <2>1. Has(stack, Self(Head(toApp).req.op))
    BY <1>2, TailOfToApp DEF Parts, Messages, SoundMessage, FindsOn
  <2>2. stack # <<>> /\ Pop(Tail(toApp), l)
    BY <1>2, <2>1, HasNone DEF PopIfOpen
  <2> QED BY <2>2, FilmOfPop DEF Parts
<1> QED BY <1>1, <1>2

LEMMA FilmOfLogoff == Parts /\ Film /\ OnLogoff => Film'
<1> SUFFICES ASSUME Parts, Film, OnLogoff PROVE Film'
  OBVIOUS
<1>1. toApp # <<>> /\ Head(toApp).kind = "answer"
  BY DEF OnLogoff, Granted, Arrived
<1>2. CASE ~Head(toApp).req.self
  <2>1. UNCHANGED <<stack, camera>>
    BY <1>2 DEF OnLogoff, Stay
  <2> QED BY <2>1, FilmSame
<1>3. CASE Head(toApp).req.self
  <2>1. Has(stack, Self(Head(toApp).req.op))
    BY <1>1, <1>3, TailOfToApp DEF Parts, Messages, SoundMessage, FindsOn
  <2>2. 0 \in 0..Len(stack) /\ 0 < Len(stack)
    BY <2>1, HasNone, ShapeLength DEF Parts, Shape
  <2>3. stack' = SubSeq(stack, 1, 0) /\ CloseReader
    BY <1>3 DEF OnLogoff, PopTo
  <2> QED BY <2>2, <2>3, ReaderCloses DEF Parts
<1> QED BY <1>2, <1>3

LEMMA FilmStep == Parts /\ Film /\ [Next]_vars => Film'
<1> SUFFICES ASSUME Parts, Film, [Next]_vars PROVE Film'
  OBVIOUS
<1>1. Shape
  BY DEF Parts
<1>2. CASE World
  <2>1. UNCHANGED <<stack, camera>>
    BY <1>2 DEF World, Serve, ChangedElsewhere, SendPush, Break, screens
  <2> QED BY <2>1, FilmSame
<1>3. CASE User
  <2>1. CASE Back
    <3>1. stack # <<>> /\ Pop(toApp, lock)
      BY <2>1 DEF Back
    <3> QED BY <1>1, <3>1, FilmOfPop
  <2>2. CASE Appear \/ onOfflineChoosed
    <3>1. UNCHANGED <<stack, camera>>
      BY <2>2 DEF Appear, onOfflineChoosed, screens
    <3> QED BY <3>1, FilmSame
  <2>3. ASSUME NEW i \in 1..Len(Times), onSelItemClicked(i) PROVE Film'
    BY <2>3, FilmSame DEF onSelItemClicked
  <2>4. ASSUME NEW old \in Passwords, NEW new \in Passwords,
               onClickUpdateLockPassword(old, new)
        PROVE  Film'
    BY <2>4, FilmSame DEF onClickUpdateLockPassword, screens
  <2>5. ASSUME NEW typed \in Passwords \cup {NoText}, onClickLogoffLock(typed)
        PROVE  Film'
    BY <2>5, FilmSame DEF onClickLogoffLock, screens
  <2>6. ASSUME NEW t \in TimeSet, NEW p \in Passwords, Register(t, p) PROVE Film'
    BY <2>6, FilmSame DEF Register, screens
  <2> QED BY <1>1, <1>3, <2>1, <2>2, <2>3, <2>4, <2>5, <2>6, FilmOfOpening,
             FilmOfCamera DEF User
<1>4. CASE Camera
  BY <1>1, <1>4, FilmOfCamera DEF Camera
<1>5. CASE Deliver
  <2>1. CASE OnPush \/ OnRefused
    <3>1. UNCHANGED <<stack, camera>>
      BY <2>1 DEF OnPush, OnRefused, Stay
    <3> QED BY <3>1, FilmSame
  <2>2. CASE OnOfflineTime \/ OnAdded
    BY <2>2, FilmOfBlock DEF OnOfflineTime, OnAdded, Granted, Arrived
  <2>3. ASSUME NEW text \in Passwords \cup {NoText}, OnPassword(text) PROVE Film'
    BY <2>3, FilmOfBlock DEF OnPassword, Granted, Arrived
  <2> QED BY <1>5, <2>1, <2>2, <2>3, FilmOfLogoff DEF Deliver
<1>6. CASE UNCHANGED vars
  BY <1>6, FilmSame DEF vars, screens
<1> QED BY <1>2, <1>3, <1>4, <1>5, <1>6 DEF Next

-----------------------------------------------------------------------------
(* The blocks. *)

LEMMA PushKeeps == Parts /\ OnPush => Parts'
<1> SUFFICES ASSUME Parts, OnPush PROVE Parts'
  OBVIOUS
<1> USE DEF Parts
<1>1. /\ toApp # <<>> /\ Head(toApp).kind = "push" /\ owner' = Head(toApp).lock
      /\ Stay(lock) /\ UNCHANGED <<srv, ever, edited, doubt, trouble>>
  BY DEF OnPush, history
<1>2. owner' \in Lock \cup {NoLock}
  BY <1>1, TailOfToApp, WireFields
<1>3. ~edited => Held(owner)'
  BY <1>1, TailOfToApp DEF Messages, SoundMessage, Held
<1>4. History' /\ (~edited => Held(lock)) /\ edited' = edited
  BY <1>1 DEF History, Copies
<1>5. lock \in Lock \cup {NoLock}
  BY DEF Shape
<1> QED BY <1>1, <1>2, <1>3, <1>4, <1>5, StayKeeps

LEMMA PoppingKeeps == Parts /\ (OnOfflineTime \/ OnAdded) => Parts'
<1> SUFFICES ASSUME Parts, OnOfflineTime \/ OnAdded PROVE Parts'
  OBVIOUS
<1> USE DEF Parts
<1>1. /\ toApp # <<>> /\ Head(toApp).kind = "answer"
      /\ PopIfOpen(lock) /\ UNCHANGED <<srv, owner, ever, edited, doubt, trouble>>
  BY DEF OnOfflineTime, OnAdded, Granted, Arrived, history
<1>2. History' /\ (~edited => Held(lock)) /\ edited' = edited
  BY <1>1 DEF History, Copies
<1>3. lock \in Lock \cup {NoLock}
  BY DEF Shape
<1> QED BY <1>1, <1>2, <1>3, PopIfOpenKeeps

LEMMA PasswordKeeps ==
  \A text \in Passwords \cup {NoText} : Parts /\ OnPassword(text) => Parts'
<1> SUFFICES ASSUME NEW text \in Passwords \cup {NoText}, Parts, OnPassword(text)
             PROVE  Parts'
  OBVIOUS
<1> USE DEF Parts
<1> DEFINE m == Head(toApp)
           l == Told(text)
<1>1. /\ toApp # <<>> /\ m.kind = "answer" /\ m.ok /\ m.req.op = "password"
      /\ edited' = (edited \/ text # m.req.passwd)
      /\ PopIfOpen(l)
      /\ UNCHANGED <<srv, owner, ever, doubt, trouble>>
  BY DEF OnPassword, Granted, Arrived
<1>2. SoundMessage(stack, ever, edited, m)
  BY <1>1, TailOfToApp DEF Messages
<1>3. /\ l \in Lock \cup {NoLock} /\ (l # NoLock <=> lock # NoLock)
      /\ ~edited' => Held(l)
  <2>1. CASE m.req.home
    <3>1. lock \in Lock
      BY <2>1, <1>1, <1>2 DEF SoundMessage, FindsOn, Shape
    <3>2. l = [lock EXCEPT !.passwd = text]
      BY <2>1 DEF Told
    <3>3. l \in Lock /\ l.passwd = text /\ l # NoLock /\ lock # NoLock
      BY <3>1, <3>2, LockFields
    <3>4. ~edited' => text \in ever
      BY <1>1, <1>2 DEF SoundMessage
    <3> QED BY <3>3, <3>4 DEF Held
  <2>2. CASE ~m.req.home
    <3>1. l = lock
      BY <2>2 DEF Told
    <3> QED BY <3>1, <1>1 DEF Shape, Copies
  <2> QED BY <2>1, <2>2
<1>4. History'
  <2>1. edited' \in BOOLEAN
    BY <1>1
  <2> QED BY <2>1, <1>1 DEF History
<1>5. edited => edited'
  BY <1>1
<1> HIDE DEF l
<1> QED BY <1>1, <1>3, <1>4, <1>5, PopIfOpenKeeps

LEMMA LogoffKeeps == Parts /\ OnLogoff => Parts'
<1> SUFFICES ASSUME Parts, OnLogoff PROVE Parts'
  OBVIOUS
<1> USE DEF Parts
<1>1. /\ toApp # <<>> /\ Head(toApp).kind = "answer"
      /\ UNCHANGED <<srv, owner, ever, edited, doubt, trouble>>
  BY DEF OnLogoff, Granted, Arrived, history
<1>2. History' /\ (~edited => Held(lock)) /\ edited' = edited
  BY <1>1 DEF History, Copies
<1>3. lock \in Lock \cup {NoLock}
  BY DEF Shape
<1>4. CASE Head(toApp).req.self
  <2>1. Has(stack, Self(Head(toApp).req.op))
    BY <1>1, <1>4, TailOfToApp DEF Messages, SoundMessage, FindsOn
  <2>2. stack # <<>>
    BY <2>1, HasNone
  <2>3. 0 \in 0..Len(stack) /\ 0 < Len(stack)
    BY <2>2, ShapeLength DEF Shape
  <2>4. PopTo(0, Tail(toApp), lock)
    BY <1>4 DEF OnLogoff
  <2> DEFINE pending == Tail(toApp)
  <2>5. /\ pending \in Seq(Wire)
        /\ \A i \in 1..Len(pending) : \E j \in 1..Len(toApp) : pending[i] = toApp[j]
    BY <1>1, TailOfToApp
  <2>6. PopTo(0, pending, lock)
    BY <2>4
  <2>7. /\ UNCHANGED <<srv, owner, ever>> /\ (edited => edited')
        /\ (~edited' => Held(lock)) /\ (lock # NoLock <=> lock # NoLock)
    BY <1>1, <1>2
  <2> HIDE DEF pending
  <2> USE Parts
  <2> HIDE DEF Parts
  <2> QED BY <1>2, <1>3, <2>3, <2>5, <2>6, <2>7, PopToKeeps
<1>5. CASE ~Head(toApp).req.self
  <2>1. Stay(lock) /\ owner' \in Lock \cup {NoLock} /\ (~edited' => Held(owner)')
    BY <1>1, <1>5 DEF OnLogoff, Shape, Copies, Held
  <2> QED BY <1>1, <1>2, <1>3, <2>1, StayKeeps
<1> QED BY <1>4, <1>5

LEMMA RefusedKeeps == Parts /\ OnRefused => Parts'
<1> SUFFICES ASSUME Parts, OnRefused PROVE Parts'
  OBVIOUS
<1> USE DEF Parts
<1>1. /\ toApp # <<>> /\ Stay(lock)
      /\ UNCHANGED <<srv, owner, ever, edited, doubt, trouble>>
  BY DEF OnRefused, Arrived, history
<1>2. History' /\ (~edited => Held(lock)) /\ edited' = edited
  BY <1>1 DEF History, Copies
<1>3. /\ lock \in Lock \cup {NoLock} /\ owner' \in Lock \cup {NoLock}
      /\ ~edited' => Held(owner)'
  BY <1>1 DEF Shape, Copies, Held
<1> QED BY <1>1, <1>2, <1>3, StayKeeps

-----------------------------------------------------------------------------
(* The theorems. *)

LEMMA StepKeeps == Parts /\ Film /\ [Next]_vars => Parts'
<1> SUFFICES ASSUME Parts, Film, [Next]_vars PROVE Parts'
  OBVIOUS
<1>1. CASE World
  BY <1>1, ServeKeeps, WorldKeeps DEF World
<1>2. CASE User
  BY <1>2, NavigationKeeps, RequestsKeep, CameraKeeps DEF User
<1>5. CASE Camera
  BY <1>5, CameraKeeps DEF Camera
<1>3. CASE Deliver
  BY <1>3, PushKeeps, PoppingKeeps, PasswordKeeps, LogoffKeeps, RefusedKeeps
     DEF Deliver
<1>4. CASE UNCHANGED vars
  BY <1>4
     DEF vars, wire, lists, screens, history, Parts, Shape, History, ServerHeld,
         Copies, Held, Requests, Messages
<1> QED BY <1>1, <1>2, <1>3, <1>4, <1>5 DEF Next

\* The invariant holds in every state that is reached.
THEOREM Invariance == Spec => []IInv
<1>1. Init => IInv
  <2>1. Init => Film
    BY Uncounted DEF Init, FilmTyped
  <2> QED BY <2>1, InitParts, IInvParts
<1>2. IInv /\ [Next]_vars => IInv'
  BY StepKeeps, FilmStep, IInvParts, IInvPartsNext
<1> QED BY <1>1, <1>2, PTL DEF Spec

\* The variables keep their types, the copies of the details and of the logoff
\* screen exist while these are on the stack, and the stack has one of the
\* seven shapes the storyboards and the reader allow: however many answers and
\* frames of the camera pop it.
THEOREM TypeCorrect == Spec => []TypeOK
<1>1. IInv => TypeOK
  BY DEF IInv
<1> QED BY <1>1, Invariance, PTL

\* The cache, the list, the details and the logoff screen hold passwords the
\* server has held (GlobalSessionUser, DoorManagement, curLock).
THEOREM CopiesWereHeldCorrect == Spec => []CopiesWereHeld
<1>1. IInv => CopiesWereHeld
  BY DEF IInv
<1> QED BY <1>1, Invariance, PTL

\* A step that logs the lock off serves a request that was checked, on the phone,
\* against a password the server has held (LockLogoffViewController:55).
LEMMA LogoffStep ==
  IInv /\ [Next]_vars => (srv # NoLock /\ srv' = NoLock /\ ~edited
                            => Head(toServer).typed \in ever)
<1> SUFFICES ASSUME IInv, [Next]_vars, srv # NoLock, srv' = NoLock, ~edited
             PROVE  Head(toServer).typed \in ever
  OBVIOUS
<1>1. Parts
  BY IInvParts
<1>2. CASE Serve
  <2> DEFINE r == Head(toServer)
  <2>1. /\ r \in Request /\ SoundRequest(stack, ever, edited, r)
    <3>1. toServer \in Seq(Request) /\ toServer # <<>>
      BY <1>1, <1>2 DEF Serve, Parts, Shape
    <3>2. r = toServer[1] /\ 1 \in 1..Len(toServer) /\ r \in Request
      BY <3>1
    <3> QED BY <1>1, <3>2 DEF Parts, Requests
  <2>2. PICK ok \in BOOLEAN :
          srv' = IF ~ok THEN srv
                 ELSE CASE r.op = "offline"  -> [srv EXCEPT !.offline = r.offline]
                        [] r.op = "password" -> [srv EXCEPT !.passwd = r.passwd]
                        [] r.op = "logoff"   -> NoLock
                        [] r.op = "add" ->
                             [offline |-> r.offline, passwd |-> r.passwd]
    BY <1>2, Zenon DEF Serve
  <2>3. /\ srv \in Lock /\ r.op \in Ops /\ r.offline \in TimeSet
        /\ r.passwd \in Passwords \cup {NoText}
    BY <1>1, <2>1 DEF Request, Parts, Shape
  <2> HIDE DEF r
  <2>4. /\ [srv EXCEPT !.offline = r.offline] # NoLock
        /\ [srv EXCEPT !.passwd = r.passwd] # NoLock
        /\ [offline |-> r.offline, passwd |-> r.passwd] # NoLock
    <3>1. [offline |-> r.offline, passwd |-> r.passwd] \in Lock
      BY <2>3 DEF Lock
    <3> QED BY <2>3, <3>1, LockFields
  <2>5. r.op = "logoff"
    <3>1. CASE r.op = "offline"
      BY <2>2, <2>4, <3>1
    <3>2. CASE r.op = "password"
      BY <2>2, <2>4, <3>2
    <3>3. CASE r.op = "add"
      BY <2>2, <2>4, <3>3
    <3> QED BY <2>3, <3>1, <3>2, <3>3 DEF Ops
  <2> QED BY <2>1, <2>5 DEF SoundRequest, r
<1>3. ASSUME NEW l \in Lock, ChangedElsewhere(l) PROVE FALSE
  BY <1>3 DEF ChangedElsewhere
<1>4. ASSUME UNCHANGED srv PROVE FALSE
  BY <1>4
<1>5. CASE World
  BY <1>2, <1>3, <1>4, <1>5 DEF World, SendPush, Break
<1>6. User => UNCHANGED srv
  BY DEF User, Back, Appear, onClickLock, OpenScreen, onSelItemClicked,
         onOfflineChoosed, onClickUpdateLockPassword, onClickLogoffLock, Register,
         onClickScanQR
<1>9. Camera => UNCHANGED srv
  BY DEF Camera, Capture, captureOutput
<1>7. Deliver => UNCHANGED srv
  BY DEF Deliver, OnPush, OnOfflineTime, OnPassword, OnLogoff, OnAdded, OnRefused
<1>8. UNCHANGED vars => UNCHANGED srv
  BY DEF vars
<1> QED BY <1>4, <1>5, <1>6, <1>7, <1>8, <1>9 DEF Next

THEOREM LogoffKnowsPasswordCorrect == Spec => LogoffKnowsPassword
<1>1. IInv /\ [Next]_vars =>
        [srv # NoLock /\ srv' = NoLock /\ ~edited
          => Head(toServer).typed \in ever]_vars
  BY LogoffStep
<1> QED BY <1>1, Invariance, PTL DEF Spec, LogoffKnowsPassword

\* An answer pops the stack only while the screen that asked is on it.  Above a
\* password screen and above a logoff nothing is ever pushed.
LEMMA ClosingStep ==
  IInv /\ [Next]_vars =>
    (Deliver /\ stack' # stack =>
       LET r == Head(toApp).req IN
       /\ r.self /\ On(Self(r.op))
       /\ r.op \in {"password", "logoff"} => Top(Self(r.op))
       /\ r.op # "logoff" => stack' = SubSeq(stack, 1, Len(stack) - 1))
<1> DEFINE r == Head(toApp).req
<1> SUFFICES ASSUME IInv, Deliver, stack' # stack
             PROVE  /\ r.self /\ On(Self(r.op))
                    /\ r.op \in {"password", "logoff"} => Top(Self(r.op))
                    /\ r.op # "logoff" => stack' = SubSeq(stack, 1, Len(stack) - 1)
  OBVIOUS
<1>1. Parts
  BY IInvParts
<1>2. ~OnPush /\ ~OnRefused
  BY DEF OnPush, OnRefused, Stay
<1>3. /\ toApp # <<>> /\ Head(toApp).kind = "answer" /\ r.self
      /\ r.op # "logoff" => stack' = SubSeq(stack, 1, Len(stack) - 1)
  <2>1. ASSUME NEW l, PopIfOpen(l)
        PROVE  r.self /\ stack' = SubSeq(stack, 1, Len(stack) - 1)
    BY <2>1 DEF PopIfOpen, Stay, Pop, PopTo
  <2>2. ASSUME OnOfflineTime \/ OnAdded PROVE <1>3!:
    BY <2>1, <2>2 DEF OnOfflineTime, OnAdded, Granted, Arrived
  <2>3. ASSUME NEW text, OnPassword(text) PROVE <1>3!:
    BY <2>1, <2>3 DEF OnPassword, Granted, Arrived
  <2>4. ASSUME OnLogoff PROVE <1>3!:
    BY <2>4 DEF OnLogoff, Granted, Arrived, Stay
  <2> QED BY <1>2, <2>2, <2>3, <2>4 DEF Deliver
<1>4. Has(stack, Self(r.op))
  BY <1>1, <1>3, TailOfToApp DEF Parts, Messages, SoundMessage, FindsOn
<1>5. ASSUME NEW s \in {"password", "logoff"}, Has(stack, s)
      PROVE  Top(s)
  <2>1. stack \in Shapes
    BY <1>1 DEF Parts, Shape
  <2>2. ASSUME NEW b, stack = <<"details", b>> PROVE Top(s)
    BY <2>2, <1>5, HasTwo DEF Top
  <2>3. /\ stack # <<>> /\ stack # <<"details">> /\ stack # <<"register">>
        /\ stack # <<"register", "reader">>
    BY <1>5, HasNone, HasOne, HasTwo
  <2> QED BY <2>1, <2>2, <2>3 DEF Shapes
<1>6. r.op \in {"password", "logoff"} => Self(r.op) \in {"password", "logoff"}
  BY DEF Self
<1> QED BY <1>3, <1>4, <1>5, <1>6 DEF On, Has

\* Every answer closes screens of its own visit: a password screen and a logoff
\* themselves, the offline time and the registration one screen, which may be one
\* that was opened above them (LockRegisterViewController:104).
THEOREM AnswersCloseTheirScreenCorrect == Spec => AnswersCloseTheirScreen
<1>1. IInv /\ [Next]_vars =>
        [Deliver /\ stack' # stack =>
           LET r == Head(toApp).req IN
           /\ r.self /\ On(Self(r.op))
           /\ r.op \in {"password", "logoff"} => Top(Self(r.op))
           /\ r.op # "logoff" => stack' = SubSeq(stack, 1, Len(stack) - 1)]_vars
  BY ClosingStep
<1> QED BY <1>1, Invariance, PTL DEF Spec, AnswersCloseTheirScreen

\* A frame that closes the registration has company: another code, the user's way
\* back or the answer to a registration popped the reader
\* (QRCodeHelper.didScanResult pops whatever is on top).
LEMMA ScanStep == IInv /\ captureOutput /\ stack' = <<>> => pops > 1
<1> SUFFICES ASSUME IInv, captureOutput, stack' = <<>>, pops <= 1 PROVE FALSE
  BY IInvParts DEF Film, FilmTyped
<1>1. Shape /\ Film
  BY IInvParts DEF Parts
<1>2. pops = 1 /\ frames # <<>>
  BY <1>1, FramePops DEF Film, FilmTyped
<1>3. frames = <<1>> /\ Top("reader")
  BY <1>1, <1>2 DEF Film, FramesCounted
<1>4. stack = <<"register", "reader">>
  BY <1>1, <1>3, TopShape
<1>5. Head(frames) = 1 /\ Len(stack) = 2
  BY <1>3, <1>4
<1>6. PICK n \in 0..Len(stack) :
        /\ n = IF Head(frames) < Len(stack) THEN Len(stack) - Head(frames) ELSE 0
        /\ PopTo(n, toApp, lock)
  BY <1>1, FramePops
<1>7. n = 1
  BY <1>5, <1>6
<1>8. stack' = SubSeq(<<"register", "reader">>, 1, 1)
  BY <1>4, <1>6, <1>7 DEF PopTo
<1>9. stack' = <<"register">>
  BY <1>8, Popped, Zenon
<1> QED BY <1>9

THEOREM ScanKeepsRegistrationCorrect == Spec => ScanKeepsRegistration
<1>1. IInv /\ [Next]_vars => [captureOutput /\ stack' = <<>> => pops > 1]_vars
  BY ScanStep
<1> QED BY <1>1, Invariance, PTL DEF Spec, ScanKeepsRegistration

-----------------------------------------------------------------------------
(* What the details show. *)

SetsTime(r) == r.op = "offline"
Tells(m) == m.kind = "answer" /\ m.ok /\ m.req.op = "password" /\ m.req.home

\* Requests that were sent since the details were opened.
ThisVisit(s) == \A i \in 1..Len(s) :
                  s[i].op # "add" /\ (s[i].op = "password" => s[i].home)

\* The details are ahead of the server by the requests under way: they show the
\* time t of the last of them, or the server's u when there is none.
TimeFollows(s, t, u) ==
  /\ (\A i \in 1..Len(s) : ~SetsTime(s[i])) => t = u
  /\ \A k \in 1..Len(s) :
       SetsTime(s[k]) /\ (\A j \in (k + 1)..Len(s) : ~SetsTime(s[j]))
         => s[k].offline = t

\* The server is ahead of the details by the answers under way: the last of them
\* names its password q, or the details' p is that when there is none.
PasswordFollows(a, p, q) ==
  /\ (\A i \in 1..Len(a) : ~Tells(a[i])) => p = q
  /\ \A k \in 1..Len(a) :
       Tells(a[k]) /\ (\A j \in (k + 1)..Len(a) : ~Tells(a[j]))
         => a[k].req.passwd = q

Visit ==
  Has(stack, "details") /\ ~doubt =>
    /\ ThisVisit(toServer)
    /\ srv # NoLock => TimeFollows(toServer, lock.offline, srv.offline)
    /\ srv # NoLock /\ ~edited => PasswordFollows(toApp, lock.passwd, srv.passwd)

LEMMA VisitAppend ==
  ASSUME NEW s \in Seq(Request), NEW r \in Request
  PROVE  /\ ThisVisit(s) /\ r.op # "add" /\ (r.op = "password" => r.home)
              => ThisVisit(Append(s, r))
         /\ \A t, u : TimeFollows(s, t, u) =>
              TimeFollows(Append(s, r), IF SetsTime(r) THEN r.offline ELSE t, u)
<1> DEFINE z == Append(s, r)
<1>1. /\ Len(s) \in Nat /\ Len(z) = Len(s) + 1
      /\ \A i \in 1..Len(s) : z[i] = s[i]
      /\ z[Len(s) + 1] = r
  OBVIOUS
<1> HIDE DEF z
<1>2. ThisVisit(s) /\ r.op # "add" /\ (r.op = "password" => r.home) => ThisVisit(z)
  <2>1. \A i \in 1..Len(z) : i \in 1..Len(s) \/ i = Len(s) + 1
    BY <1>1
  <2> QED BY <1>1, <2>1 DEF ThisVisit
<1>3. ASSUME NEW t, NEW u, TimeFollows(s, t, u)
      PROVE  TimeFollows(z, IF SetsTime(r) THEN r.offline ELSE t, u)
  <2>1. CASE SetsTime(r)
    <3>1. Len(z) \in 1..Len(z) /\ SetsTime(z[Len(z)])
      BY <1>1, <2>1
    <3>2. ASSUME NEW k \in 1..Len(z), \A j \in (k + 1)..Len(z) : ~SetsTime(z[j])
          PROVE  z[k] = r
      <4>1. k = Len(z)
        BY <3>1, <3>2, <1>1
      <4> QED BY <4>1, <1>1
    <3> QED BY <2>1, <3>1, <3>2 DEF TimeFollows
  <2>2. CASE ~SetsTime(r)
    <3>1. (\A i \in 1..Len(z) : ~SetsTime(z[i])) => t = u
      <4>1. \A i \in 1..Len(s) : i \in 1..Len(z)
        BY <1>1
      <4> QED BY <1>1, <1>3, <4>1 DEF TimeFollows
    <3>2. ASSUME NEW k \in 1..Len(z), SetsTime(z[k]),
                 \A j \in (k + 1)..Len(z) : ~SetsTime(z[j])
          PROVE  z[k].offline = t
      <4>1. k \in 1..Len(s) /\ z[k] = s[k]
        BY <1>1, <2>2, <3>2
      <4>2. \A j \in (k + 1)..Len(s) : ~SetsTime(s[j])
        <5>1. \A j \in (k + 1)..Len(s) :
                j \in 1..Len(s) /\ j \in (k + 1)..Len(z)
          BY <1>1, <4>1
        <5> QED BY <1>1, <3>2, <5>1
      <4> QED BY <1>3, <3>2, <4>1, <4>2 DEF TimeFollows
    <3> QED BY <2>2, <3>1, <3>2 DEF TimeFollows
  <2> QED BY <2>1, <2>2
<1> QED BY <1>2, <1>3 DEF z

LEMMA VisitTail ==
  ASSUME NEW s \in Seq(Request), s # <<>>
  PROVE  /\ ThisVisit(s) =>
              /\ ThisVisit(Tail(s)) /\ Head(s).op # "add"
              /\ Head(s).op = "password" => Head(s).home
         /\ \A t, u : TimeFollows(s, t, u) =>
              TimeFollows(Tail(s), t, IF SetsTime(Head(s)) THEN Head(s).offline ELSE u)
<1> DEFINE z == Tail(s)
           r == Head(s)
<1>1. /\ Len(s) \in Nat /\ Len(z) = Len(s) - 1 /\ Len(s) > 0
      /\ \A i \in 1..Len(z) : i + 1 \in 1..Len(s) /\ z[i] = s[i + 1]
      /\ r = s[1] /\ 1 \in 1..Len(s)
  BY HeadTailProperties
<1> HIDE DEF z, r
<1>2. ThisVisit(s) => ThisVisit(z) /\ r.op # "add" /\ (r.op = "password" => r.home)
  BY <1>1 DEF ThisVisit
<1>3. ASSUME NEW t, NEW u, TimeFollows(s, t, u)
      PROVE  TimeFollows(z, t, IF SetsTime(r) THEN r.offline ELSE u)
  <2>1. ASSUME \A i \in 1..Len(z) : ~SetsTime(z[i])
        PROVE  t = IF SetsTime(r) THEN r.offline ELSE u
    <3>1. \A j \in 2..Len(s) : ~SetsTime(s[j])
      <4>1. \A j \in 2..Len(s) : j - 1 \in 1..Len(z) /\ s[j] = z[j - 1]
        BY <1>1
      <4> QED BY <2>1, <4>1
    <3>2. CASE SetsTime(r)
      <4>1. \A j \in (1 + 1)..Len(s) : ~SetsTime(s[j])
        BY <3>1
      <4>2. s[1].offline = t
        BY <1>1, <1>3, <3>2, <4>1 DEF TimeFollows
      <4> QED BY <1>1, <3>2, <4>2
    <3>3. CASE ~SetsTime(r)
      <4>1. \A j \in 1..Len(s) : j = 1 \/ j \in 2..Len(s)
        BY <1>1
      <4> QED BY <1>1, <1>3, <3>1, <3>3, <4>1 DEF TimeFollows
    <3> QED BY <3>2, <3>3
  <2>2. ASSUME NEW k \in 1..Len(z), SetsTime(z[k]),
               \A j \in (k + 1)..Len(z) : ~SetsTime(z[j])
        PROVE  z[k].offline = t
    <3>1. k + 1 \in 1..Len(s) /\ z[k] = s[k + 1]
      BY <1>1
    <3>2. \A j \in ((k + 1) + 1)..Len(s) : ~SetsTime(s[j])
      <4>1. \A j \in ((k + 1) + 1)..Len(s) :
              j - 1 \in (k + 1)..Len(z) /\ s[j] = z[j - 1]
        BY <1>1
      <4> QED BY <2>2, <4>1
    <3> QED BY <1>3, <2>2, <3>1, <3>2 DEF TimeFollows
  <2> QED BY <2>1, <2>2 DEF TimeFollows
<1> QED BY <1>2, <1>3 DEF z, r

LEMMA TellsAppend ==
  ASSUME NEW a \in Seq(Wire), NEW m \in Wire, NEW p, NEW q, PasswordFollows(a, p, q)
  PROVE  PasswordFollows(Append(a, m), p, IF Tells(m) THEN m.req.passwd ELSE q)
<1> DEFINE z == Append(a, m)
           q2 == IF Tells(m) THEN m.req.passwd ELSE q
<1>1. /\ Len(a) \in Nat /\ Len(z) = Len(a) + 1
      /\ \A i \in 1..Len(a) : z[i] = a[i]
      /\ z[Len(a) + 1] = m
  OBVIOUS
<1> HIDE DEF z
<1>2. CASE Tells(m)
  <2>1. Len(z) \in 1..Len(z) /\ Tells(z[Len(z)])
    BY <1>1, <1>2
  <2>2. ASSUME NEW k \in 1..Len(z), \A j \in (k + 1)..Len(z) : ~Tells(z[j])
        PROVE  z[k].req.passwd = q2
    <3>1. k = Len(z)
      BY <2>1, <2>2, <1>1
    <3> QED BY <3>1, <1>1, <1>2
  <2> QED BY <2>1, <2>2 DEF PasswordFollows, z
<1>3. CASE ~Tells(m)
  <2>0. q2 = q
    BY <1>3
  <2>1. (\A i \in 1..Len(z) : ~Tells(z[i])) => p = q
    <3>1. \A i \in 1..Len(a) : i \in 1..Len(z)
      BY <1>1
    <3> QED BY <1>1, <3>1 DEF PasswordFollows
  <2>2. ASSUME NEW k \in 1..Len(z), Tells(z[k]),
               \A j \in (k + 1)..Len(z) : ~Tells(z[j])
        PROVE  z[k].req.passwd = q
    <3>1. k \in 1..Len(a) /\ z[k] = a[k]
      BY <1>1, <1>3, <2>2
    <3>2. \A j \in (k + 1)..Len(a) : ~Tells(a[j])
      <4>1. \A j \in (k + 1)..Len(a) : j \in 1..Len(a) /\ j \in (k + 1)..Len(z)
        BY <1>1, <3>1
      <4> QED BY <1>1, <2>2, <4>1
    <3> QED BY <2>2, <3>1, <3>2 DEF PasswordFollows
  <2> QED BY <2>0, <2>1, <2>2 DEF PasswordFollows, z
<1> QED BY <1>2, <1>3

\* The block of the first answer gives the details its password.
LEMMA TellsTail ==
  ASSUME NEW a \in Seq(Wire), a # <<>>, NEW p, NEW q, PasswordFollows(a, p, q)
  PROVE  PasswordFollows(Tail(a), IF Tells(Head(a)) THEN Head(a).req.passwd ELSE p, q)
<1> DEFINE z == Tail(a)
           m == Head(a)
           p2 == IF Tells(m) THEN m.req.passwd ELSE p
<1>1. /\ Len(a) \in Nat /\ Len(z) = Len(a) - 1 /\ Len(a) > 0
      /\ \A i \in 1..Len(z) : i + 1 \in 1..Len(a) /\ z[i] = a[i + 1]
      /\ m = a[1] /\ 1 \in 1..Len(a)
  BY HeadTailProperties
<1> HIDE DEF z, m
<1>2. ASSUME \A i \in 1..Len(z) : ~Tells(z[i]) PROVE p2 = q
  <2>1. \A j \in 2..Len(a) : ~Tells(a[j])
    <3>1. \A j \in 2..Len(a) : j - 1 \in 1..Len(z) /\ a[j] = z[j - 1]
      BY <1>1
    <3> QED BY <1>2, <3>1
  <2>2. CASE Tells(m)
    <3>1. \A j \in (1 + 1)..Len(a) : ~Tells(a[j])
      BY <2>1
    <3>2. a[1].req.passwd = q
      BY <1>1, <2>2, <3>1 DEF PasswordFollows
    <3> QED BY <1>1, <2>2, <3>2
  <2>3. CASE ~Tells(m)
    <3>1. \A j \in 1..Len(a) : j = 1 \/ j \in 2..Len(a)
      BY <1>1
    <3> QED BY <1>1, <2>1, <2>3, <3>1 DEF PasswordFollows
  <2> QED BY <2>2, <2>3
<1>3. ASSUME NEW k \in 1..Len(z), Tells(z[k]),
             \A j \in (k + 1)..Len(z) : ~Tells(z[j])
      PROVE  z[k].req.passwd = q
  <2>1. k + 1 \in 1..Len(a) /\ z[k] = a[k + 1]
    BY <1>1
  <2>2. \A j \in ((k + 1) + 1)..Len(a) : ~Tells(a[j])
    <3>1. \A j \in ((k + 1) + 1)..Len(a) :
            j - 1 \in (k + 1)..Len(z) /\ a[j] = z[j - 1]
      BY <1>1
    <3> QED BY <1>3, <3>1
  <2> QED BY <1>3, <2>1, <2>2 DEF PasswordFollows
<1>4. PasswordFollows(z, p2, q)
  BY <1>2, <1>3 DEF PasswordFollows
<1> QED BY <1>4 DEF z, m

\* Popping the screens above the details changes nothing in what is under way
\* that the details depend on.
LEMMA OrphanSame ==
  ASSUME NEW r \in Request, NEW n,
         ~\E i \in (n + 1)..Len(stack) : stack[i] = "details"
  PROVE  /\ Orphan(r, n).op = r.op /\ Orphan(r, n).offline = r.offline
         /\ Orphan(r, n).passwd = r.passwd /\ Orphan(r, n).home = r.home
<1>1. r.home \in BOOLEAN
  BY DEF Request
<1>2. "details" \notin {stack[i] : i \in (n + 1)..Len(stack)}
  OBVIOUS
<1> QED BY <1>1, <1>2 DEF Orphan, Request

LEMMA DetailsBelow ==
  ASSUME NEW st \in Shapes, NEW n \in 0..Len(st), 0 < n, n < Len(st),
         Has(st, "details")
  PROVE  ~\E i \in (n + 1)..Len(st) : st[i] = "details"
<1>1. ASSUME NEW a, st = <<a>> PROVE FALSE
  <2>1. Len(st) = 1
    BY <1>1
  <2> QED BY <2>1
<1>2. ASSUME NEW b \in {"offline", "password", "logoff"}, st = <<"details", b>>
      PROVE  ~\E i \in (n + 1)..Len(st) : st[i] = "details"
  <2>1. Len(st) = 2 /\ n = 1 /\ st[2] = b /\ st[1] = "details"
    BY <1>2
  <2>2. \A i \in (n + 1)..Len(st) : i = 2
    BY <2>1
  <2> QED BY <2>1, <2>2
<1>3. ASSUME st = <<>> PROVE FALSE
  BY <1>3
<1>4. st # <<"register", "reader">>
  BY HasTwo
<1> QED BY <1>1, <1>2, <1>3, <1>4 DEF Shapes

\* What a block that ends leaves of the visit: pending is what is left of toApp,
\* l the lock on the details and ed whether a field was edited by now.
Carried(pending, l, ed) ==
  Has(stack, "details") /\ ~doubt /\ srv # NoLock =>
    /\ l.offline = lock.offline
    /\ ~ed => PasswordFollows(pending, l.passwd, srv.passwd)

LEMMA VisitPops ==
  ASSUME Parts, Visit, NEW n \in 0..Len(stack), n < Len(stack),
         NEW pending \in Seq(Wire), NEW l, PopTo(n, pending, l),
         Carried(pending, l, edited'), UNCHANGED <<srv, doubt>>
  PROVE  Visit'
<1> SUFFICES ASSUME Has(stack', "details"), ~doubt'
             PROVE  /\ ThisVisit(toServer')
                    /\ srv # NoLock => TimeFollows(toServer', lock'.offline, srv.offline)
                    /\ srv # NoLock /\ ~edited'
                         => PasswordFollows(toApp', lock'.passwd, srv.passwd)
  BY DEF Visit
<1>1. /\ stack \in Shapes /\ stack' = SubSeq(stack, 1, n) /\ n # 0
      /\ Has(stack, "details")
  <2>1. stack \in Shapes /\ stack' = SubSeq(stack, 1, n)
    BY DEF PopTo, Parts, Shape
  <2>2. LeftOf(stack, n, SubSeq(stack, 1, n))
    BY <2>1, ShapeOfPopped
  <2>3. n # 0
    BY <2>1, <2>2, ShapesHold DEF LeftOf
  <2>4. CASE stack' = <<"register">>
    BY <2>4, ShapesHold
  <2>5. CASE stack' # <<"register">>
    BY <2>1, <2>2, <2>3, <2>5 DEF LeftOf
  <2> QED BY <2>1, <2>3, <2>4, <2>5
<1>2. ~\E i \in (n + 1)..Len(stack) : stack[i] = "details"
  BY <1>1, DetailsBelow
<1>3. /\ ThisVisit(toServer) /\ lock' = l
      /\ srv # NoLock => TimeFollows(toServer, l.offline, srv.offline)
      /\ srv # NoLock /\ ~edited' => PasswordFollows(pending, l.passwd, srv.passwd)
  BY <1>1, <1>2 DEF Visit, Carried, PopTo
<1>4. /\ Len(toServer') = Len(toServer)
      /\ \A i \in 1..Len(toServer) :
           /\ toServer'[i].op = toServer[i].op
           /\ toServer'[i].offline = toServer[i].offline
           /\ toServer'[i].home = toServer[i].home
  <2>1. /\ Len(toServer) \in Nat
        /\ toServer' = [i \in 1..Len(toServer) |-> Orphan(toServer[i], n)]
        /\ \A i \in 1..Len(toServer) : toServer[i] \in Request
    BY DEF PopTo, Parts, Shape
  <2>2. \A i \in 1..Len(toServer) :
           /\ Orphan(toServer[i], n) \in Request
           /\ Orphan(toServer[i], n).op = toServer[i].op
           /\ Orphan(toServer[i], n).offline = toServer[i].offline
           /\ Orphan(toServer[i], n).home = toServer[i].home
    BY <1>2, <2>1, OrphanSame, OrphanKeeps
  <2>3. Len(toServer') = Len(toServer)
    BY <2>1, <2>2
  <2> QED BY <2>1, <2>2, <2>3
<1>5. ThisVisit(toServer')
  BY <1>3, <1>4 DEF ThisVisit
<1>6. srv # NoLock => TimeFollows(toServer', lock'.offline, srv.offline)
  <2>1. \A i \in 1..Len(toServer) : SetsTime(toServer'[i]) <=> SetsTime(toServer[i])
    BY <1>4 DEF SetsTime
  <2>2. ASSUME NEW k \in 1..Len(toServer)
        PROVE  \A j \in (k + 1)..Len(toServer) : j \in 1..Len(toServer)
    BY DEF Parts, Shape
  <2> QED BY <1>3, <1>4, <2>1, <2>2 DEF TimeFollows
<1>7. /\ Len(toApp') = Len(pending)
      /\ \A i \in 1..Len(pending) :
           /\ Tells(toApp'[i]) <=> Tells(pending[i])
           /\ Tells(pending[i]) => toApp'[i].req.passwd = pending[i].req.passwd
  <2> DEFINE After(m) == IF m.kind = "push" THEN m
                         ELSE [m EXCEPT !.req = Orphan(@, n)]
  <2>1. ASSUME NEW m \in Wire
        PROVE  /\ After(m) \in Wire
               /\ Tells(After(m)) <=> Tells(m)
               /\ Tells(m) => After(m).req.passwd = m.req.passwd
    <3>1. CASE m.kind = "push"
      BY <3>1 DEF Tells
    <3>2. CASE m.kind # "push"
      <4>1. m \in Answer /\ m.kind = "answer" /\ m.req \in Request
        BY <3>2 DEF Wire, Answer, Push
      <4>2. /\ After(m) \in Answer /\ After(m).kind = "answer"
            /\ After(m).req = Orphan(m.req, n) /\ After(m).ok = m.ok
        BY <4>1, OrphanKeeps DEF Answer
      <4>3. /\ Orphan(m.req, n).op = m.req.op /\ Orphan(m.req, n).home = m.req.home
            /\ Orphan(m.req, n).passwd = m.req.passwd
        BY <1>2, <4>1, OrphanSame
      <4> HIDE DEF After
      <4> QED BY <4>1, <4>2, <4>3 DEF Tells, Wire
    <3> QED BY <3>1, <3>2
  <2>2. Len(pending) \in Nat /\ toApp' = [i \in 1..Len(pending) |-> After(pending[i])]
    BY DEF PopTo
  <2> HIDE DEF After
  <2>3. \A i \in 1..Len(pending) : pending[i] \in Wire
    OBVIOUS
  <2>4. Len(toApp') = Len(pending)
    BY <2>1, <2>2, <2>3
  <2> QED BY <2>1, <2>2, <2>3, <2>4
<1>8. srv # NoLock /\ ~edited' => PasswordFollows(toApp', lock'.passwd, srv.passwd)
  <2>1. ASSUME NEW k \in 1..Len(pending)
        PROVE  \A j \in (k + 1)..Len(pending) : j \in 1..Len(pending)
    OBVIOUS
  <2> QED BY <1>3, <1>7, <2>1 DEF PasswordFollows
<1> QED BY <1>5, <1>6, <1>8

LEMMA VisitStays ==
  ASSUME Visit, NEW l, Stay(l), Carried(Tail(toApp), l, edited'),
         UNCHANGED <<srv, doubt>>
  PROVE  Visit'
  BY DEF Visit, Stay, Carried

LEMMA VisitPopsIfOpen ==
  ASSUME Parts, Visit, toApp # <<>>, Head(toApp).kind = "answer",
         NEW l, PopIfOpen(l), Carried(Tail(toApp), l, edited'),
         UNCHANGED <<srv, doubt>>
  PROVE  Visit'
<1>1. CASE ~Head(toApp).req.self
  BY <1>1, VisitStays DEF PopIfOpen
<1>2. CASE Head(toApp).req.self
  <2>0. Shape
    BY DEF Parts
  <2>1. Has(stack, Self(Head(toApp).req.op))
    BY <1>2, <2>0, TailOfToApp DEF Parts, Messages, SoundMessage, FindsOn
  <2>2. stack # <<>>
    BY <2>1, HasNone
  <2>3. Len(stack) - 1 \in 0..Len(stack) /\ Len(stack) - 1 < Len(stack)
    BY <2>0, <2>2, ShapeLength DEF Shape
  <2>4. PopTo(Len(stack) - 1, Tail(toApp), l)
    BY <1>2 DEF PopIfOpen, Pop
  <2>5. Tail(toApp) \in Seq(Wire)
    BY <2>0, TailOfToApp
  <2> QED BY <2>3, <2>4, <2>5, VisitPops
<1> QED BY <1>1, <1>2

\* A block that tells the details nothing.
LEMMA NothingTold ==
  ASSUME Parts, Visit, toApp # <<>>, ~Tells(Head(toApp))
  PROVE  Carried(Tail(toApp), lock, edited)
<1>1. toApp \in Seq(Wire)
  BY DEF Parts, Shape
<1>2. \A p, q : PasswordFollows(toApp, p, q) => PasswordFollows(Tail(toApp), p, q)
  BY <1>1, TellsTail
<1> QED BY <1>2 DEF Carried, Visit

LEMMA VisitServe == Parts /\ Visit /\ Serve => Visit'
<1> SUFFICES ASSUME Parts, Visit, Serve, Has(stack', "details"), ~doubt'
             PROVE  /\ ThisVisit(toServer')
                    /\ srv' # NoLock =>
                         TimeFollows(toServer', lock'.offline, srv'.offline)
                    /\ srv' # NoLock /\ ~edited' =>
                         PasswordFollows(toApp', lock'.passwd, srv'.passwd)
  BY DEF Visit
<1> DEFINE r == Head(toServer)
           m == [kind |-> "answer", ok |-> TRUE, req |-> r]
<1>1. /\ toServer \in Seq(Request) /\ toServer # <<>> /\ toApp \in Seq(Wire)
      /\ r \in Request /\ srv \in Lock \cup {NoLock}
      /\ UNCHANGED <<stack, lock, edited>> /\ toServer' = Tail(toServer)
  BY DEF Serve, Parts, Shape, lists, screens
<1> HIDE DEF r
<1>2. PICK ok \in BOOLEAN :
        /\ ok => Grants(r)
        /\ doubt' = (doubt \/ ~ok)
        /\ toApp' = Append(toApp, [kind |-> "answer", ok |-> ok, req |-> r])
        /\ srv' = IF ~ok THEN srv
                  ELSE CASE r.op = "offline"  -> [srv EXCEPT !.offline = r.offline]
                         [] r.op = "password" -> [srv EXCEPT !.passwd = r.passwd]
                         [] r.op = "logoff"   -> NoLock
                         [] r.op = "add" ->
                              [offline |-> r.offline, passwd |-> r.passwd]
  BY Zenon DEF Serve, r
<1>3. ok = TRUE /\ ~doubt /\ Has(stack, "details")
  BY <1>1, <1>2
<1>4. /\ ThisVisit(toServer)
      /\ srv # NoLock => TimeFollows(toServer, lock.offline, srv.offline)
      /\ srv # NoLock /\ ~edited => PasswordFollows(toApp, lock.passwd, srv.passwd)
  BY <1>3 DEF Visit
<1>5. ThisVisit(toServer') /\ r.op # "add" /\ (r.op = "password" => r.home)
  BY <1>1, <1>4, VisitTail DEF r
<1>6. m \in Wire /\ toApp' = Append(toApp, m)
  BY <1>1, <1>2, <1>3 DEF Wire, Answer
<1>7. Tells(m) <=> r.op = "password"
  BY <1>5 DEF Tells
<1>8. /\ r.op \in Ops /\ r.offline \in TimeSet
      /\ r.passwd \in Passwords \cup {NoText}
  BY <1>1 DEF Request
<1>9. ASSUME srv' # NoLock
      PROVE  /\ srv # NoLock /\ srv \in Lock
             /\ srv'.offline = IF SetsTime(r) THEN r.offline ELSE srv.offline
             /\ srv'.passwd = IF Tells(m) THEN r.passwd ELSE srv.passwd
  <2>1. r.op \in {"offline", "password"}
    <3>1. r.op # "logoff"
      BY <1>2, <1>3, <1>9
    <3> QED BY <3>1, <1>5, <1>8 DEF Ops
  <2>2. srv # NoLock /\ srv \in Lock
    BY <1>1, <1>2, <1>3, <2>1 DEF Grants
  <2>3. CASE r.op = "offline"
    <3>1. srv' = [srv EXCEPT !.offline = r.offline]
      BY <1>2, <1>3, <2>3
    <3>2. srv'.offline = r.offline /\ srv'.passwd = srv.passwd
      BY <2>2, <3>1 DEF Lock
    <3> QED BY <1>7, <2>2, <2>3, <3>2 DEF SetsTime
  <2>4. CASE r.op = "password"
    <3>1. srv' = [srv EXCEPT !.passwd = r.passwd]
      BY <1>2, <1>3, <2>4
    <3>2. srv'.passwd = r.passwd /\ srv'.offline = srv.offline
      BY <2>2, <3>1 DEF Lock
    <3> QED BY <1>7, <2>2, <2>4, <3>2 DEF SetsTime
  <2> QED BY <2>1, <2>3, <2>4
<1>10. ASSUME srv' # NoLock
       PROVE  TimeFollows(toServer', lock'.offline, srv'.offline)
  <2>1. TimeFollows(Tail(toServer), lock.offline,
                    IF SetsTime(r) THEN r.offline ELSE srv.offline)
    BY <1>1, <1>4, <1>9, <1>10, VisitTail DEF r
  <2> QED BY <1>1, <1>9, <1>10, <2>1
<1>11. ASSUME srv' # NoLock, ~edited'
       PROVE  PasswordFollows(toApp', lock'.passwd, srv'.passwd)
  <2>1. PasswordFollows(toApp, lock.passwd, srv.passwd) /\ m.req = r
    BY <1>1, <1>4, <1>9, <1>11
  <2> HIDE DEF m
  <2>2. PasswordFollows(Append(toApp, m), lock.passwd,
                        IF Tells(m) THEN m.req.passwd ELSE srv.passwd)
    BY <1>1, <1>6, <2>1, TellsAppend
  <2> QED BY <1>1, <1>6, <1>9, <1>11, <2>1, <2>2
<1> QED BY <1>5, <1>10, <1>11

LEMMA VisitPush == Parts /\ Visit /\ SendPush => Visit'
<1> SUFFICES ASSUME Parts, Visit, SendPush PROVE Visit'
  OBVIOUS
<1> DEFINE m == [kind |-> "push", lock |-> srv]
<1>1. /\ toApp' = Append(toApp, m) /\ toApp \in Seq(Wire)
      /\ UNCHANGED <<srv, toServer, stack, lock, edited, doubt>>
  BY DEF SendPush, screens, history, Parts, Shape
<1>2. m \in Wire /\ ~Tells(m)
  BY DEF Wire, Push, Tells, Parts, Shape
<1> HIDE DEF m
<1>3. \A p, q : PasswordFollows(toApp, p, q) => PasswordFollows(toApp', p, q)
  BY <1>1, <1>2, TellsAppend
<1> QED BY <1>1, <1>3 DEF Visit

LEMMA VisitOpens == Parts /\ onClickLock => Visit'
<1> SUFFICES ASSUME Parts, onClickLock, ~doubt' PROVE Visit'
  BY DEF Visit
<1>1. /\ stack = <<>> /\ lock' = listed /\ listed = srv /\ toServer = <<>>
      /\ UNCHANGED <<srv, toServer, toApp>>
  BY DEF onClickLock, wire
<1>2. ThisVisit(toServer) /\ \A t : TimeFollows(toServer, t, t)
  <2>1. \A i \in 1..Len(toServer) : FALSE
    BY <1>1
  <2> QED BY <2>1 DEF ThisVisit, TimeFollows
<1>3. \A i \in 1..Len(toApp) : ~Tells(toApp[i])
  <2>1. ~Has(stack, "details")
    BY <1>1, HasNone
  <2> QED BY <2>1 DEF Parts, Messages, SoundMessage, FindsOn, Tells
<1>4. \A p : PasswordFollows(toApp, p, p)
  BY <1>3 DEF PasswordFollows
<1> QED BY <1>1, <1>2, <1>4 DEF Visit

LEMMA VisitBack == Parts /\ Visit /\ Back => Visit'
<1> SUFFICES ASSUME Parts, Visit, Back PROVE Visit'
  OBVIOUS
<1>1. /\ stack \in Shapes /\ stack # <<>> /\ toApp \in Seq(Wire)
      /\ PopTo(Len(stack) - 1, toApp, lock)
      /\ UNCHANGED <<srv, edited, doubt>>
  BY DEF Back, Pop, Parts, Shape, history
<1>2. Len(stack) - 1 \in 0..Len(stack) /\ Len(stack) - 1 < Len(stack)
  BY <1>1, ShapeLength
<1>3. Carried(toApp, lock, edited')
  BY <1>1 DEF Carried, Visit
<1> QED BY <1>1, <1>2, <1>3, VisitPops

LEMMA VisitScreens ==
  \A s \in Screens \ {"details", "reader"} : Parts /\ Visit /\ OpenScreen(s) => Visit'
<1> SUFFICES ASSUME NEW s \in Screens \ {"details", "reader"}, Parts, Visit, OpenScreen(s)
             PROVE  Visit'
  OBVIOUS
<1>1. /\ stack = IF s = "register" THEN <<>> ELSE <<"details">>
      /\ stack' = Append(stack, s)
      /\ UNCHANGED <<srv, toServer, toApp, lock, edited, doubt>>
  BY DEF OpenScreen, wire, history
<1>2. Has(stack', "details") => Has(stack, "details")
  <2>1. CASE s = "register"
    <3>1. stack' = <<"register">>
      BY <1>1, <2>1, Pushed, Zenon
    <3> QED BY <3>1, HasOne
  <2>2. CASE s # "register"
    BY <1>1, <2>2, HasOne
  <2> QED BY <2>1, <2>2
<1> QED BY <1>1, <1>2 DEF Visit

\* A request of this visit; the details may have changed their offline time.
LEMMA VisitSends ==
  ASSUME Parts, Visit, NEW r \in Request, Send(r),
         Has(stack, "details") => r.op # "add" /\ (r.op = "password" => r.home),
         UNCHANGED <<srv, toApp, stack, edited, doubt>>,
         Has(stack, "details") =>
           /\ lock'.passwd = lock.passwd
           /\ lock'.offline = IF SetsTime(r) THEN r.offline ELSE lock.offline
  PROVE  Visit'
<1>1. toServer \in Seq(Request) /\ toServer' = Append(toServer, r)
  BY DEF Parts, Shape, Send
<1>2. /\ ThisVisit(toServer) /\ r.op # "add" /\ (r.op = "password" => r.home)
           => ThisVisit(toServer')
      /\ \A t, u : TimeFollows(toServer, t, u) =>
           TimeFollows(toServer', IF SetsTime(r) THEN r.offline ELSE t, u)
  BY <1>1, VisitAppend
<1> QED BY <1>2 DEF Visit

LEMMA VisitRequests ==
  /\ Parts /\ Visit /\ onOfflineChoosed => Visit'
  /\ \A old, new \in Passwords :
       Parts /\ Visit /\ onClickUpdateLockPassword(old, new) => Visit'
  /\ \A typed \in Passwords \cup {NoText} :
       Parts /\ Visit /\ onClickLogoffLock(typed) => Visit'
  /\ \A t \in TimeSet, p \in Passwords :
       Parts /\ Visit /\ Register(t, p) => Visit'
<1>1. ASSUME Parts, Visit, onOfflineChoosed PROVE Visit'
  <2> DEFINE r == Req("offline", Times[curSel], NoText, NoText)
  <2>1. Times[curSel] \in TimeSet
    BY <1>1, TimesExist DEF Parts, Shape
  <2>2. r \in Request /\ r.op = "offline" /\ r.offline = Times[curSel]
    <3>1. r \in Request /\ r.op = "offline"
      BY <2>1, ReqType DEF Ops
    <3> QED BY <3>1 DEF Req
  <2>3. Has(stack, "details")
    BY <1>1, TopShape, HasTwo DEF onOfflineChoosed, Parts
  <2>4. lock \in Lock /\ lock' = [lock EXCEPT !.offline = Times[curSel]]
    BY <1>1, <2>3 DEF onOfflineChoosed, Parts, Shape
  <2>5. /\ Send(r) /\ UNCHANGED <<srv, toApp, stack, edited, doubt>>
    BY <1>1 DEF onOfflineChoosed, history
  <2>6. lock'.offline = Times[curSel] /\ lock'.passwd = lock.passwd
    BY <2>4 DEF Lock
  <2> HIDE DEF r
  <2> QED BY <1>1, <2>2, <2>5, <2>6, VisitSends DEF SetsTime
<1>2. ASSUME Parts, Visit, NEW old \in Passwords, NEW new \in Passwords,
             onClickUpdateLockPassword(old, new)
      PROVE  Visit'
  <2> DEFINE r == Req("password", Times[1], new, old)
  <2>1. r \in Request /\ r.op = "password" /\ r.home
    <3>1. r \in Request /\ r.op = "password"
      BY TimesExist, ReqType DEF Ops
    <3> QED BY <3>1 DEF Req
  <2>2. Send(r) /\ UNCHANGED <<srv, toApp, stack, lock, edited, doubt>>
    BY <1>2 DEF onClickUpdateLockPassword, screens, history
  <2> HIDE DEF r
  <2> QED BY <1>2, <2>1, <2>2, VisitSends DEF SetsTime
<1>3. ASSUME Parts, Visit, NEW typed \in Passwords \cup {NoText},
             onClickLogoffLock(typed)
      PROVE  Visit'
  <2> DEFINE r == Req("logoff", Times[1], NoText, typed)
  <2>1. r \in Request /\ r.op = "logoff"
    BY TimesExist, ReqType DEF Ops
  <2>2. Send(r) /\ UNCHANGED <<srv, toApp, stack, lock, edited, doubt>>
    BY <1>3 DEF onClickLogoffLock, screens, history
  <2> HIDE DEF r
  <2> QED BY <1>3, <2>1, <2>2, VisitSends DEF SetsTime
<1>4. ASSUME Parts, Visit, NEW t \in TimeSet, NEW p \in Passwords, Register(t, p)
      PROVE  Visit'
  <2> DEFINE r == Req("add", t, p, NoText)
  <2>1. r \in Request
    BY ReqType DEF Ops
  <2>2. Send(r) /\ UNCHANGED <<srv, toApp, stack, lock, edited, doubt>>
    BY <1>4 DEF Register, screens, history
  <2>3. ~Has(stack, "details")
    <3>1. stack = <<"register">>
      BY <1>4, TopShape DEF Register, Parts
    <3> QED BY <3>1, HasOne
  <2> HIDE DEF r
  <2> QED BY <1>4, <2>1, <2>2, <2>3, VisitSends
<1> QED BY <1>1, <1>2, <1>3, <1>4

LEMMA VisitBlocks ==
  Parts /\ Visit /\ (OnPush \/ OnOfflineTime \/ OnLogoff \/ OnAdded \/ OnRefused)
    => Visit'
<1> SUFFICES ASSUME Parts, Visit,
                    OnPush \/ OnOfflineTime \/ OnLogoff \/ OnAdded \/ OnRefused
             PROVE  Visit'
  OBVIOUS
<1>1. toApp # <<>> /\ ~Tells(Head(toApp)) /\ UNCHANGED <<srv, edited, doubt>>
  BY DEF OnPush, OnOfflineTime, OnLogoff, OnAdded, OnRefused, Granted, Arrived,
         Tells, history
<1>2. Carried(Tail(toApp), lock, edited')
  BY <1>1, NothingTold
<1>3. CASE OnPush \/ OnRefused
  <2>1. Stay(lock)
    BY <1>3 DEF OnPush, OnRefused
  <2> QED BY <1>1, <1>2, <2>1, VisitStays
<1>4. CASE OnOfflineTime \/ OnAdded
  <2>1. PopIfOpen(lock) /\ Head(toApp).kind = "answer"
    BY <1>4 DEF OnOfflineTime, OnAdded, Granted, Arrived
  <2> QED BY <1>1, <1>2, <2>1, VisitPopsIfOpen
<1>5. CASE OnLogoff
  <2>1. CASE ~Head(toApp).req.self
    <3>1. Stay(lock)
      BY <1>5, <2>1 DEF OnLogoff
    <3> QED BY <1>1, <1>2, <3>1, VisitStays
  <2>2. CASE Head(toApp).req.self
    <3>1. PopTo(0, Tail(toApp), lock)
      BY <1>5, <2>2 DEF OnLogoff
    <3>2. stack' = SubSeq(stack, 1, 0)
      BY <3>1 DEF PopTo
    <3>3. stack' = <<>>
      BY <3>2, SubSeqEmpty DEF Parts, Shape
    <3>4. ~Has(stack', "details")
      BY <3>3, HasNone
    <3> QED BY <3>4 DEF Visit
  <2> QED BY <2>1, <2>2
<1> QED BY <1>3, <1>4, <1>5

LEMMA VisitTold ==
  \A text \in Passwords \cup {NoText} : Parts /\ Visit /\ OnPassword(text) => Visit'
<1> SUFFICES ASSUME NEW text \in Passwords \cup {NoText}, Parts, Visit,
                    OnPassword(text)
             PROVE  Visit'
  OBVIOUS
<1> DEFINE m == Head(toApp)
           l == Told(text)
<1>1. /\ toApp # <<>> /\ toApp \in Seq(Wire)
      /\ m.kind = "answer" /\ m.ok /\ m.req.op = "password"
      /\ edited' = (edited \/ text # m.req.passwd)
      /\ PopIfOpen(l) /\ UNCHANGED <<srv, doubt>>
  BY DEF OnPassword, Granted, Arrived, Parts, Shape
<1>2. Carried(Tail(toApp), l, edited')
  <2> SUFFICES ASSUME Has(stack, "details"), ~doubt, srv # NoLock
               PROVE  /\ l.offline = lock.offline
                      /\ ~edited' => PasswordFollows(Tail(toApp), l.passwd, srv.passwd)
    BY DEF Carried
  <2>1. lock \in Lock
    BY DEF Parts, Shape
  <2>2. ~edited => PasswordFollows(toApp, lock.passwd, srv.passwd)
    BY DEF Visit
  <2>3. ~edited => PasswordFollows(Tail(toApp),
                     IF Tells(m) THEN m.req.passwd ELSE lock.passwd, srv.passwd)
    BY <1>1, <2>2, TellsTail
  <2>4. CASE m.req.home
    <3>1. l = [lock EXCEPT !.passwd = text]
      BY <2>4 DEF Told
    <3>2. l.offline = lock.offline /\ l.passwd = text
      BY <2>1, <3>1 DEF Lock
    <3>3. Tells(m) /\ (~edited' => ~edited /\ text = m.req.passwd)
      BY <1>1, <2>4 DEF Tells
    <3> HIDE DEF l, m
    <3> QED BY <2>3, <3>2, <3>3
  <2>5. CASE ~m.req.home
    <3>1. l = lock /\ ~Tells(m) /\ (~edited' => ~edited)
      BY <1>1, <2>5 DEF Told, Tells
    <3> HIDE DEF l, m
    <3> QED BY <2>3, <3>1
  <2> QED BY <2>4, <2>5
<1> HIDE DEF l
<1> QED BY <1>1, <1>2, VisitPopsIfOpen

LEMMA VisitCamera ==
  /\ Parts /\ onClickScanQR => Visit'
  /\ \A n \in Codes : Visit /\ Capture(n) => Visit'
  /\ Parts /\ Film /\ Visit /\ captureOutput => Visit'
<1>1. ASSUME Parts, onClickScanQR PROVE Visit'
  <2>1. stack = <<"register">> /\ stack' = Append(stack, "reader")
    BY <1>1, TopShape DEF onClickScanQR, Parts
  <2>2. stack' = <<"register", "reader">>
    BY <2>1, Pushed, Zenon
  <2> QED BY <2>2, HasTwo DEF Visit
<1>2. ASSUME NEW n \in Codes, Visit, Capture(n) PROVE Visit'
  BY <1>2 DEF Capture, Visit, wire, history
<1>3. ASSUME Parts, Film, Visit, captureOutput PROVE Visit'
  <2>1. PICK n \in 0..Len(stack) : n < Len(stack) /\ PopTo(n, toApp, lock)
    BY <1>3, FramePops DEF Parts
  <2>2. toApp \in Seq(Wire) /\ UNCHANGED <<srv, edited, doubt>>
    BY <1>3 DEF captureOutput, history, Parts, Shape
  <2>3. Carried(toApp, lock, edited')
    BY <1>3, <2>2 DEF Carried, Visit
  <2> QED BY <1>3, <2>1, <2>2, <2>3, VisitPops
<1> QED BY <1>1, <1>2, <1>3

LEMMA VisitStep == Parts /\ Film /\ Visit /\ [Next]_vars => Visit'
<1> SUFFICES ASSUME Parts, Film, Visit, [Next]_vars PROVE Visit'
  OBVIOUS
<1>1. CASE World
  <2>1. ASSUME NEW l \in Lock, ChangedElsewhere(l) PROVE Visit'
    BY <2>1 DEF ChangedElsewhere, Visit
  <2>2. CASE Break
    BY <2>2 DEF Break, Visit
  <2> QED BY <1>1, <2>1, <2>2, VisitServe, VisitPush DEF World
<1>2. CASE User
  <2>1. CASE Appear
    BY <2>1 DEF Appear, Visit, wire, screens, history
  <2>2. ASSUME NEW i \in 1..Len(Times), onSelItemClicked(i) PROVE Visit'
    BY <2>2 DEF onSelItemClicked, Visit, wire, history
  <2> QED BY <1>2, <2>1, <2>2, VisitBack, VisitOpens, VisitScreens, VisitRequests,
             VisitCamera DEF User
<1>5. CASE Camera
  BY <1>5, VisitCamera DEF Camera
<1>3. CASE Deliver
  BY <1>3, VisitBlocks, VisitTold DEF Deliver
<1>4. CASE UNCHANGED vars
  BY <1>4 DEF vars, wire, lists, screens, history, Visit
<1> QED BY <1>1, <1>2, <1>3, <1>4, <1>5 DEF Next

\* Every state of a visit in which nothing was refused, lost or interfered with.
THEOREM VisitInvariance == Spec => [](IInv /\ Visit)
<1>1. Init => IInv /\ Visit
  <2>1. Init => ~Has(stack, "details")
    BY HasNone DEF Init
  <2>2. Init => Film
    BY Uncounted DEF Init, FilmTyped
  <2> QED BY <2>1, <2>2, InitParts, IInvParts DEF Visit
<1>2. IInv /\ Visit /\ [Next]_vars => IInv' /\ Visit'
  BY StepKeeps, FilmStep, VisitStep, IInvParts, IInvPartsNext
<1> QED BY <1>1, <1>2, PTL DEF Spec

\* Once its requests have been answered, the details show the offline time the
\* server has (LockManagement.onOfflineChoosed changes it before the answer).
THEOREM OfflineTimeAgreesCorrect == Spec => []OfflineTimeAgrees
<1>1. Visit => OfflineTimeAgrees
  BY DEF Visit, OfflineTimeAgrees, TimeFollows, SetsTime, Requested, On, Has
<1> QED BY <1>1, VisitInvariance, PTL

\* Likewise the password the details keep for the logoff, however many changes
\* of it were under way (LockManagement.onUpdateLockPassword).
THEOREM PasswordAgreesCorrect == Spec => []PasswordAgrees
<1>1. Visit => PasswordAgrees
  BY DEF Visit, PasswordAgrees, PasswordFollows, Tells, Requested, On, Has
<1> QED BY <1>1, VisitInvariance, PTL
=============================================================================
