------------------------ MODULE AuthorisationProofs -------------------------
(***************************************************************************)
(* Proofs about Authorisation, for any users, departments and lists, and   *)
(* any number of requests, answers and cells.                              *)
(***************************************************************************)
EXTENDS Authorisation, SequenceTheorems, TLAPS

USE AuthorisationAssumption DEF AuthorisationAssumption, AnyUser

-----------------------------------------------------------------------------
(* Queues. *)

LEMMA Appended ==
  ASSUME NEW S, NEW q \in Seq(S), NEW x \in S
  PROVE  /\ Append(q, x) \in Seq(S) /\ Len(q) \in Nat
         /\ Len(Append(q, x)) = Len(q) + 1
         /\ \A i \in 1..Len(q) : Append(q, x)[i] = q[i]
         /\ Append(q, x)[Len(q) + 1] = x
  BY AppendProperties

LEMMA Dropped ==
  ASSUME NEW S, NEW q \in Seq(S), q # <<>>
  PROVE  /\ Head(q) \in S /\ Head(q) = q[1]
         /\ Len(q) \in Nat /\ Len(q) > 0
         /\ Tail(q) \in Seq(S) /\ Len(Tail(q)) = Len(q) - 1
         /\ \A i \in 1..(Len(q) - 1) : Tail(q)[i] = q[i + 1]
  BY HeadTailProperties

-----------------------------------------------------------------------------
(* Types. *)

LEMMA ReqType ==
  ASSUME NEW op \in {"get", "add", "delete"}, NEW us \in SUBSET AnyUser
  PROVE  /\ Req(op, us) \in Request
         /\ Req(op, us).op = op /\ Req(op, us).users = us
         /\ Req(op, us).home /\ ~Req(op, us).sound
  BY DEF Req, Request

LEMMA QuestionType ==
  ASSUME NEW h \in BOOLEAN
  PROVE  /\ Question(h) \in Request /\ Question(h).op = "get"
         /\ Question(h).home = h /\ Question(h).sound = FALSE
  BY DEF Question, Req, Request

LEMMA RequestFields ==
  ASSUME NEW r \in Request
  PROVE  /\ r.op \in {"get", "add", "delete"} /\ r.users \subseteq AnyUser
         /\ r.home \in BOOLEAN /\ r.sound \in BOOLEAN
         /\ Closed(r) \in Request /\ Closed(r).op = r.op
         /\ Closed(r).users = r.users /\ Closed(r).asked = r.asked
         /\ Closed(r).kept = r.kept
         /\ Closed(r).sound = r.sound /\ Closed(r).home = FALSE
         /\ Disturbed(r) \in Request /\ Disturbed(r).op = r.op
         /\ Disturbed(r).home = r.home /\ Disturbed(r).sound = FALSE
  BY DEF Request, Closed, Disturbed

LEMMA AnswerFields ==
  ASSUME NEW a \in Answer
  PROVE  /\ a.ok \in BOOLEAN /\ a.members \subseteq Users /\ a.req \in Request
         /\ ClosedAnswer(a) \in Answer
  BY RequestFields DEF Answer, ClosedAnswer

\* Every row of the sections shows a user of the list.
LEMMA SectionsType ==
  ASSUME NEW list \in Lists \cup {NoUsers}, NEW p \in DOMAIN Sections(list)
  PROVE  Sections(list)[p] \in AnyUser
<1> DEFINE order == SetToSeq({Department[list[i]] : i \in DOMAIN list})
           Mates(i) == {h \in DOMAIN list : Department[list[h]] = Department[list[i]]}
           Row(i) == <<CHOOSE k \in DOMAIN order : order[k] = Department[list[i]],
                       Cardinality({h \in Mates(i) : h <= i})>>
<1>1. Sections(list) = [q \in {Row(i) : i \in DOMAIN list} |->
                          list[CHOOSE i \in DOMAIN list : Row(i) = q]]
  BY DEF Sections
<1>2. list \in Seq(AnyUser)
  <2>1. CASE list = NoUsers
    <3>1. Blank \in AnyUser
      OBVIOUS
    <3> QED BY <2>1, <3>1 DEF NoUsers
  <2>2. CASE list \in Lists
    <3>1. list \in Seq(Users) /\ Users \subseteq AnyUser
      BY <2>2
    <3> QED BY <3>1, SeqMonotonic
  <2> QED BY <2>1, <2>2
<1> HIDE DEF Row
<1>3. PICK i \in DOMAIN list : Row(i) = p
  BY <1>1
<1>4. (CHOOSE h \in DOMAIN list : Row(h) = p) \in DOMAIN list
  BY <1>3
<1>5. Sections(list)[p] = list[CHOOSE h \in DOMAIN list : Row(h) = p]
  BY <1>1, <1>3
<1> QED BY <1>2, <1>4, <1>5, ElementOfSeq

LEMMA CellFields ==
  ASSUME NEW c \in Cell
  PROVE  c.user \in AnyUser /\ c.mark \in BOOLEAN
  BY DEF Cell

LEMMA MarkedFields ==
  ASSUME NEW c \in Cell, NEW b \in BOOLEAN
  PROVE  /\ c.user \in AnyUser /\ c.mark \in BOOLEAN
         /\ Marked(c, b) \in Cell /\ Marked(c, b).user = c.user
         /\ Marked(c, b).mark = b
  BY DEF Cell, Marked

\* What the screens hold, and what is counted.
ScreensOK ==
  /\ shown \subseteq Users /\ preset \subseteq Users
  /\ screen \in {"door", "members", "select", "dead"}
  /\ \A p \in DOMAIN sections : sections[p] \in AnyUser
  /\ DOMAIN cells \subseteq rows
  /\ \A p \in DOMAIN cells : cells[p] \in Cell
  /\ lost \subseteq hand /\ hand \subseteq rows
  /\ fresh \in BOOLEAN /\ moved \in BOOLEAN

WireOK ==
  /\ srv \subseteq Users
  /\ toServer \in Seq(Request) /\ toApp \in Seq(Answer)
  /\ users \in Lists \cup {NoUsers}
  /\ doubt \in BOOLEAN
  /\ trouble \in 0..MaxTrouble

LEMMA TypeParts == TypeOK <=> ScreensOK /\ WireOK
  BY DEF TypeOK, ScreensOK, WireOK

LEMMA TypePartsNext == TypeOK' <=> ScreensOK' /\ WireOK'
  BY DEF TypeOK, ScreensOK, WireOK

\* What OK names and the user marked are users.
LEMMA ChosenType == ASSUME ScreensOK PROVE Chosen \subseteq AnyUser
<1>1. \A p \in DOMAIN sections : sections[p] \in AnyUser
  BY DEF ScreensOK
<1> QED BY <1>1, Zenon DEF Chosen

LEMMA NamedType == ASSUME NEW ps PROVE Named(ps) \subseteq Users
  BY DEF Named

LEMMA DrawnType ==
  ASSUME NEW p, sections[p] \in AnyUser
  PROVE  /\ Drawn(p) \in Cell /\ Drawn(p).user = sections[p]
         /\ Drawn(p).mark <=> sections[p] \in preset
<1> DEFINE b == sections[p] \in preset
<1>1. Drawn(p) = [user |-> sections[p], mark |-> b]
  BY DEF Drawn
<1>2. b \in BOOLEAN
  OBVIOUS
<1> HIDE DEF b
<1>3. Drawn(p) \in Cell /\ Drawn(p).user = sections[p] /\ Drawn(p).mark = b
  BY <1>1, <1>2 DEF Cell
<1> QED BY <1>3 DEF b

LEMMA InitType == Init => TypeOK
<1> SUFFICES ASSUME Init PROVE TypeOK
  OBVIOUS
<1>1. <<>> \in Seq(Request) /\ <<>> \in Seq(Answer) /\ DOMAIN <<>> = {}
  OBVIOUS
<1>2. DOMAIN sections = {} /\ DOMAIN cells = {}
  BY <1>1 DEF Init
<1>3. ScreensOK
  BY <1>2 DEF Init, ScreensOK
<1>4. toServer \in Seq(Request) /\ toApp \in Seq(Answer)
  BY <1>1, Zenon DEF Init
<1>5. trouble \in 0..MaxTrouble
  BY DEF Init
<1>6. WireOK
  BY <1>4, <1>5, Zenon DEF Init, WireOK
<1> QED BY <1>3, <1>6, TypeParts

LEMMA ScreensTyped == TypeOK /\ [Next]_vars => ScreensOK'
<1> SUFFICES ASSUME ScreensOK, WireOK, [Next]_vars PROVE ScreensOK'
  BY TypeParts
<1> USE DEF ScreensOK, table, visit
<1>1. CASE UNCHANGED vars
  BY <1>1 DEF vars
<1>2. CASE World
  BY <1>2 DEF World, Serve, ChangedElsewhere, Break
<1>3. CASE Members
  BY <1>3 DEF Members, OpenMembers, CloseMembers, Delete
<1>4. CASE Deliver
  <2>1. CASE OnChanged \/ OnRefused
    BY <2>1 DEF OnChanged, OnRefused
  <2>2. CASE OnMembers
    <3>1. Head(toApp).members \subseteq Users
      BY <2>2, Dropped, AnswerFields DEF OnMembers, WireOK
    <3> QED BY <2>2, <3>1 DEF OnMembers
  <2>3. ASSUME NEW list \in Lists, onGetUsers(list) PROVE ScreensOK'
    BY <2>3 DEF onGetUsers
  <2>4. CASE onDataCallback
    <3>1. \A p \in DOMAIN Sections(users) : Sections(users)[p] \in AnyUser
      BY SectionsType DEF WireOK
    <3> QED BY <2>4, <3>1 DEF onDataCallback
  <2> QED BY <1>4, <2>1, <2>2, <2>3, <2>4 DEF Deliver
<1>5. CASE Select
  <2>1. ASSUME NEW seen \in UNION {kSubset(n, rows) : n \in 0..Fits}, Scroll(seen)
        PROVE  ScreensOK'
    <3>1. CASE Die
      BY <3>1 DEF Die
    <3>2. CASE ~Die
      <4>1. /\ cells' = [p \in seen |->
                           IF p \in DOMAIN cells THEN cells[p] ELSE Drawn(p)]
            /\ seen \subseteq rows /\ seen \subseteq DOMAIN cells \cup DOMAIN sections
            /\ lost' = lost \cup ((hand \cap DOMAIN cells) \ seen)
            /\ UNCHANGED <<screen, shown, preset, sections, rows, hand, fresh, moved>>
        BY <2>1, <3>2 DEF Scroll
      <4>2. \A p \in seen : cells'[p] \in Cell
        BY <4>1, DrawnType
      <4> QED BY <4>1, <4>2
    <3> QED BY <3>1, <3>2
  <2>2. ASSUME NEW p \in DOMAIN cells, onSelItemClicked(p) PROVE ScreensOK'
    <3>1. Marked(cells[p], ~cells[p].mark) \in Cell
      BY MarkedFields
    <3>2. /\ DOMAIN cells' = DOMAIN cells
          /\ \A q \in DOMAIN cells : cells'[q] \in Cell
      BY <2>2, <3>1 DEF onSelItemClicked
    <3> QED BY <2>2, <3>2 DEF onSelItemClicked
  <2>3. ASSUME NEW k \in Headings(rows), NEW b \in BOOLEAN,
               clickSectionDepartment(k, b)
        PROVE  ScreensOK'
    <3>1. CASE Die
      BY <3>1 DEF Die
    <3>2. CASE ~Die
      <4>1. /\ cells' = [p \in DOMAIN cells |->
                           IF p \in Section(k) THEN Marked(cells[p], b) ELSE cells[p]]
            /\ hand' = IF b THEN hand \cup Section(k) ELSE hand \ Section(k)
            /\ lost' = (lost \ Section(k))
                         \cup (IF b THEN Section(k) \ DOMAIN cells ELSE {})
            /\ UNCHANGED <<screen, shown, preset, sections, rows, fresh, moved>>
        BY <2>3, <3>2 DEF clickSectionDepartment
      <4>2. \A p \in DOMAIN cells : cells'[p] \in Cell
        BY <4>1, MarkedFields
      <4>3. lost' \subseteq hand' /\ hand' \subseteq rows
        BY <4>1 DEF Section
      <4> QED BY <4>1, <4>2, <4>3
    <3> QED BY <3>1, <3>2
  <2>4. CASE onClickAdd
    <3>1. \A p \in DOMAIN Sections(users) : Sections(users)[p] \in AnyUser
      BY SectionsType DEF WireOK
    <3>2. DOMAIN <<>> = {}
      OBVIOUS
    <3> QED BY <2>4, <3>1, <3>2 DEF onClickAdd
  <2>5. CASE onClickOK \/ Back
    <3>1. DOMAIN <<>> = {}
      OBVIOUS
    <3> QED BY <2>5, <3>1 DEF onClickOK, Back, Leave
  <2> QED BY <1>5, <2>1, <2>2, <2>3, <2>4, <2>5 DEF Select
<1> QED BY <1>1, <1>2, <1>3, <1>4, <1>5 DEF Next

LEMMA WireTyped == TypeOK /\ [Next]_vars => WireOK'
<1> SUFFICES ASSUME ScreensOK, WireOK, [Next]_vars PROVE WireOK'
  BY TypeParts
<1> USE DEF WireOK, wire, Send
<1>1. CASE UNCHANGED vars
  BY <1>1 DEF vars
<1>2. CASE Serve
  <2>1. Head(toServer) \in Request /\ Tail(toServer) \in Seq(Request)
    BY <1>2, Dropped DEF Serve
  <2>2. ASSUME NEW ok \in BOOLEAN
        PROVE  [ok |-> ok, members |-> srv, req |-> Head(toServer)] \in Answer
    BY <2>1 DEF Answer
  <2>3. Granted(Head(toServer)) \subseteq Users
    BY <2>1, RequestFields DEF Granted
  <2>4. toApp' \in Seq(Answer)
    BY <1>2, <2>2, Appended DEF Serve
  <2>5. trouble' \in 0..MaxTrouble /\ doubt' \in BOOLEAN
    BY <1>2 DEF Serve
  <2> QED BY <1>2, <2>1, <2>3, <2>4, <2>5 DEF Serve
<1>3. ASSUME NEW us \in SUBSET Users, ChangedElsewhere(us) PROVE WireOK'
  <2>1. ASSUME NEW i \in DOMAIN toServer PROVE Disturbed(toServer[i]) \in Request
    <3>1. toServer[i] \in Request
      OBVIOUS
    <3> QED BY <3>1, RequestFields, Zenon
  <2>2. toServer' \in Seq(Request)
    BY <1>3, <2>1 DEF ChangedElsewhere
  <2> QED BY <1>3, <2>2 DEF ChangedElsewhere
<1>4. CASE Break
  <2>1. PICK n \in 0..Len(toApp) : toApp' = SubSeq(toApp, 1, n)
    BY <1>4 DEF Break
  <2>2. toApp' \in Seq(Answer)
    BY <2>1, SubSeqProperties
  <2>3. <<>> \in Seq(Request)
    OBVIOUS
  <2> QED BY <1>4, <2>2, <2>3 DEF Break
<1>5. CASE OpenMembers
  BY <1>5, ReqType, Appended DEF OpenMembers
<1>6. CASE CloseMembers
  <2>1. ASSUME NEW i \in DOMAIN toServer PROVE Closed(toServer[i]) \in Request
    <3>1. toServer[i] \in Request
      OBVIOUS
    <3> QED BY <3>1, RequestFields, Zenon
  <2>2. toServer' \in Seq(Request)
    BY <1>6, <2>1 DEF CloseMembers
  <2>3. \A i \in DOMAIN toApp : ClosedAnswer(toApp[i]) \in Answer
    BY AnswerFields
  <2>4. toApp' \in Seq(Answer)
    BY <1>6, <2>3 DEF CloseMembers
  <2> QED BY <1>6, <2>2, <2>4 DEF CloseMembers
<1>7. ASSUME NEW u \in shown, Delete(u) PROVE WireOK'
  <2>1. Req("delete", {u}) \in Request
    BY ReqType DEF ScreensOK
  <2> QED BY <1>7, <2>1, Appended DEF Delete
<1>8. CASE onClickOK
  <2>1. [Req("add", Chosen) EXCEPT !.asked = Named(hand),
                                   !.kept = Named(hand \ lost),
                                   !.sound = fresh /\ ~moved]
          \in Request
    BY ChosenType, NamedType DEF Req, Request, ScreensOK
  <2> QED BY <1>8, <2>1, Appended DEF onClickOK
<1>9. ASSUME \/ onClickAdd \/ Back
             \/ \E seen : Scroll(seen)
             \/ \E p : onSelItemClicked(p)
             \/ \E k, b : clickSectionDepartment(k, b)
      PROVE  WireOK'
  BY <1>9 DEF onClickAdd, Back, Scroll, onSelItemClicked, clickSectionDepartment, Die
<1>10. CASE OnChanged
  <2>1. Head(toApp) \in Answer /\ Tail(toApp) \in Seq(Answer)
    BY <1>10, Dropped DEF OnChanged
  <2>2. Question(Head(toApp).req.home) \in Request
    BY <2>1, QuestionType, AnswerFields, RequestFields
  <2> QED BY <1>10, <2>1, <2>2, Appended DEF OnChanged
<1>11. CASE OnMembers \/ OnRefused
  <2>1. toApp # <<>> /\ toApp' = Tail(toApp)
    BY <1>11 DEF OnMembers, OnRefused
  <2>2. toApp' \in Seq(Answer)
    BY <2>1, Dropped
  <2>3. UNCHANGED <<srv, toServer, users, doubt, trouble>>
    BY <1>11 DEF OnMembers, OnRefused
  <2> QED BY <2>2, <2>3
<1>12. ASSUME NEW list \in Lists, onGetUsers(list) PROVE WireOK'
  BY <1>12 DEF onGetUsers
<1>13. CASE onDataCallback
  BY <1>13, ReqType, Appended DEF onDataCallback
<1> QED BY <1>1, <1>2, <1>3, <1>4, <1>5, <1>6, <1>7, <1>8, <1>9, <1>10, <1>11,
           <1>12, <1>13 DEF Next, World, Members, Select, Deliver

\* The variables keep their types.
THEOREM TypeCorrect == Spec => []TypeOK
<1>1. TypeOK /\ [Next]_vars => TypeOK'
  BY ScreensTyped, WireTyped, TypePartsNext
<1> QED BY <1>1, InitType, PTL DEF Spec

-----------------------------------------------------------------------------
(* The table and its cells. *)

TableOK == RowsHaveUsers /\ MarksHaveCauses /\ MarksStay /\ DiesOnlyIfMoved

\* What the rest of the system does leaves the table alone.
LEMMA TableUntouched ==
  ASSUME TableOK, UNCHANGED <<preset, sections, rows, cells, hand, lost>>, moved => moved',
         screen' = screen \/ screen' \notin {"select", "dead"}
  PROVE  TableOK'
  BY DEF TableOK, RowsHaveUsers, MarksHaveCauses, MarksStay,
                   DiesOnlyIfMoved

LEMMA TableKept == TypeOK /\ TableOK /\ [Next]_vars => TableOK'
<1> SUFFICES ASSUME ScreensOK, WireOK, TableOK, [Next]_vars PROVE TableOK'
  BY TypeParts
<1> USE DEF table, visit
<1>1. CASE UNCHANGED vars
  BY <1>1, TableUntouched DEF vars
<1>2. CASE World
  BY <1>2, TableUntouched DEF World, Serve, ChangedElsewhere, Break
<1>3. CASE Members
  <2>1. CASE OpenMembers \/ CloseMembers
    BY <2>1, TableUntouched DEF OpenMembers, CloseMembers
  <2>2. ASSUME NEW u \in shown, Delete(u) PROVE TableOK'
    BY <2>2, TableUntouched DEF Delete
  <2> QED BY <1>3, <2>1, <2>2 DEF Members
<1>4. CASE Deliver
  <2>1. CASE OnChanged \/ OnMembers \/ OnRefused
    BY <2>1, TableUntouched DEF OnChanged, OnMembers, OnRefused
  <2>2. ASSUME NEW list \in Lists, onGetUsers(list) PROVE TableOK'
    BY <2>2, TableUntouched DEF onGetUsers
  <2>3. CASE onDataCallback
    <3>1. /\ screen' \in {"members", "select"} /\ screen' = screen
          /\ UNCHANGED <<preset, rows, cells, hand, lost>>
          /\ sections' = IF screen = "select" THEN Sections(users) ELSE sections
          /\ ~moved' => ~moved /\ sections' = sections
      BY <2>3 DEF onDataCallback
    <3> QED BY <3>1
            DEF TableOK, RowsHaveUsers, MarksHaveCauses, MarksStay,
                   DiesOnlyIfMoved
  <2> QED BY <1>4, <2>1, <2>2, <2>3 DEF Deliver
<1>5. CASE Select
  <2>1. ASSUME NEW seen \in UNION {kSubset(n, rows) : n \in 0..Fits}, Scroll(seen)
        PROVE  TableOK'
    <3>1. CASE seen \subseteq DOMAIN cells \cup DOMAIN sections
      <4>1. /\ cells' = [p \in seen |->
                           IF p \in DOMAIN cells THEN cells[p] ELSE Drawn(p)]
            /\ screen = "select" /\ screen' = screen
            /\ lost' = lost \cup ((hand \cap DOMAIN cells) \ seen)
            /\ UNCHANGED <<preset, sections, rows, hand, moved>>
        BY <2>1, <3>1 DEF Scroll
      <4>2. ASSUME NEW p \in seen
            PROVE  /\ ~moved => cells'[p].user = sections[p]
                   /\ cells'[p].mark /\ p \notin hand => cells'[p].user \in preset
        <5>1. CASE p \in DOMAIN cells
          <6>1. cells'[p] = cells[p]
            BY <4>1, <5>1
          <6> QED BY <4>1, <5>1, <6>1 DEF TableOK, RowsHaveUsers, MarksHaveCauses
        <5>2. CASE p \notin DOMAIN cells
          <6>1. cells'[p] = Drawn(p) /\ sections[p] \in AnyUser
            BY <3>1, <4>1, <5>2 DEF ScreensOK
          <6> QED BY <6>1, DrawnType
        <5> QED BY <5>1, <5>2
      <4>3. DOMAIN cells' = seen
        BY <4>1
      <4>4. ASSUME NEW p \in hand \ lost'
            PROVE  p \in seen /\ cells'[p].mark
        <5>1. p \in hand \ lost /\ p \in DOMAIN cells /\ cells[p].mark
          BY <4>1, <4>4 DEF TableOK, MarksStay
        <5> QED BY <4>1, <4>4, <5>1
      <4> QED BY <4>1, <4>2, <4>3, <4>4
              DEF TableOK, RowsHaveUsers, MarksHaveCauses, MarksStay,
                   DiesOnlyIfMoved
    <3>2. CASE ~(seen \subseteq DOMAIN cells \cup DOMAIN sections)
      <4>1. Die /\ seen \subseteq rows /\ screen = "select"
        BY <2>1, <3>2 DEF Scroll
      <4>2. moved
        BY <3>2, <4>1 DEF TableOK, RowsHaveUsers
      <4> QED BY <4>1, <4>2
              DEF Die, TableOK, RowsHaveUsers, MarksHaveCauses, MarksStay,
                   DiesOnlyIfMoved
    <3> QED BY <3>1, <3>2
  <2>2. ASSUME NEW p \in DOMAIN cells, onSelItemClicked(p) PROVE TableOK'
    <3>1. /\ DOMAIN cells' = DOMAIN cells
          /\ cells'[p] = Marked(cells[p], ~cells[p].mark)
          /\ \A q \in DOMAIN cells : q # p => cells'[q] = cells[q]
          /\ hand' = IF cells[p].mark THEN hand \ {p} ELSE hand \cup {p}
          /\ lost' = lost \ {p}
          /\ screen = "select" /\ UNCHANGED <<screen, preset, sections, rows, moved>>
      BY <2>2 DEF onSelItemClicked
    <3>2. cells'[p].user = cells[p].user /\ cells'[p].mark = ~cells[p].mark
      <4>1. cells[p] \in Cell /\ (~cells[p].mark) \in BOOLEAN
        BY DEF ScreensOK
      <4>2. /\ Marked(cells[p], ~cells[p].mark).user = cells[p].user
            /\ Marked(cells[p], ~cells[p].mark).mark = ~cells[p].mark
        BY <4>1, MarkedFields
      <4> QED BY <3>1, <4>2, Zenon
    <3>3. \A q \in DOMAIN cells : cells'[q].user = cells[q].user
      BY <3>1, <3>2
    <3>4. cells'[p].mark => p \in hand'
      BY <3>1, <3>2
    <3>5. p \in hand' => cells'[p].mark
      BY <3>1, <3>2
    <3>6. \A q : q # p => (q \in hand' <=> q \in hand) /\ (q \in lost' <=> q \in lost)
      BY <3>1
    <3>7. MarksHaveCauses'
      BY <3>1, <3>3, <3>4, <3>6 DEF TableOK, MarksHaveCauses
    <3>8. MarksStay'
      BY <3>1, <3>5, <3>6 DEF TableOK, MarksStay
    <3> QED BY <3>1, <3>3, <3>7, <3>8 DEF TableOK, RowsHaveUsers, DiesOnlyIfMoved
  <2>3. ASSUME NEW k \in Headings(rows), NEW b \in BOOLEAN,
               clickSectionDepartment(k, b)
        PROVE  TableOK'
    <3>1. CASE k \in Headings(DOMAIN sections)
      <4>1. /\ cells' = [p \in DOMAIN cells |->
                           IF p \in Section(k) THEN Marked(cells[p], b) ELSE cells[p]]
            /\ hand' = IF b THEN hand \cup Section(k) ELSE hand \ Section(k)
            /\ lost' = (lost \ Section(k))
                         \cup (IF b THEN Section(k) \ DOMAIN cells ELSE {})
            /\ screen = "select" /\ UNCHANGED <<screen, preset, sections, rows, moved>>
        BY <2>3, <3>1 DEF clickSectionDepartment
      <4>2. ASSUME NEW p \in DOMAIN cells
            PROVE  /\ cells'[p].user = cells[p].user
                   /\ p \in Section(k) => cells'[p].mark = b
                   /\ p \notin Section(k) => cells'[p] = cells[p]
        <5>1. cells[p] \in Cell
          BY DEF ScreensOK
        <5>2. Marked(cells[p], b).user = cells[p].user /\ Marked(cells[p], b).mark = b
          BY <5>1, MarkedFields
        <5> QED BY <4>1, <5>2
      <4>3. DOMAIN cells' = DOMAIN cells
        BY <4>1
      <4>4. MarksHaveCauses'
        BY <4>1, <4>2, <4>3 DEF TableOK, MarksHaveCauses
      <4>5. MarksStay'
        BY <4>1, <4>2, <4>3 DEF TableOK, MarksStay
      <4> QED BY <4>1, <4>2, <4>3, <4>4, <4>5 DEF TableOK, RowsHaveUsers, DiesOnlyIfMoved
    <3>2. CASE k \notin Headings(DOMAIN sections)
      <4>1. Die /\ screen = "select"
        BY <2>3, <3>2 DEF clickSectionDepartment
      <4>2. moved
        BY <3>2, <4>1 DEF TableOK, RowsHaveUsers
      <4> QED BY <4>1, <4>2
              DEF Die, TableOK, RowsHaveUsers, MarksHaveCauses, MarksStay,
                   DiesOnlyIfMoved
    <3> QED BY <3>1, <3>2
  <2>4. CASE onClickAdd
    <3>1. /\ screen' = "select" /\ sections' = Sections(users)
          /\ rows' = DOMAIN Sections(users) /\ cells' = <<>>
          /\ hand' = {} /\ lost' = {}
      BY <2>4 DEF onClickAdd, numberOfRows
    <3>2. DOMAIN cells' = {}
      BY <3>1
    <3> QED BY <3>1, <3>2
            DEF TableOK, RowsHaveUsers, MarksHaveCauses, MarksStay,
                   DiesOnlyIfMoved
  <2>5. CASE onClickOK \/ Back
    <3>1. screen' = "members" /\ cells' = <<>> /\ hand' = {} /\ lost' = {}
      BY <2>5 DEF onClickOK, Back, Leave
    <3>2. DOMAIN cells' = {}
      BY <3>1
    <3> QED BY <3>1, <3>2
            DEF TableOK, RowsHaveUsers, MarksHaveCauses, MarksStay,
                   DiesOnlyIfMoved
  <2> QED BY <1>5, <2>1, <2>2, <2>3, <2>4, <2>5 DEF Select
<1> QED BY <1>1, <1>2, <1>3, <1>4, <1>5 DEF Next

LEMMA InitTable == Init => TableOK
<1> SUFFICES ASSUME Init PROVE TableOK
  OBVIOUS
<1>1. screen = "door" /\ DOMAIN cells = {} /\ hand = {}
  BY DEF Init
<1> QED BY <1>1 DEF TableOK, RowsHaveUsers, MarksHaveCauses, MarksStay,
                   DiesOnlyIfMoved

LEMMA TableInvariant == Spec => [](TypeOK /\ TableOK)
<1>1. Init => TypeOK /\ TableOK
  BY InitType, InitTable
<1>2. TypeOK /\ TableOK /\ [Next]_vars => (TypeOK /\ TableOK)'
  BY ScreensTyped, WireTyped, TypePartsNext, TableKept
<1> QED BY <1>1, <1>2, PTL DEF Spec

\* An index beyond the arrays is asked for only after they were replaced under
\* the table.
THEOREM DiesOnlyIfMovedCorrect == Spec => []DiesOnlyIfMoved
<1>1. TypeOK /\ TableOK => DiesOnlyIfMoved
  BY DEF TableOK
<1> QED BY <1>1, TableInvariant, PTL

-----------------------------------------------------------------------------
(* The members shown. *)

ShownOK == ClosedAreFollowed /\ ShownFollows

LEMMA Agreed == ShownOK => MembersAgree
<1> SUFFICES ASSUME ShownOK, Open, ~doubt, toServer = <<>>, toApp = <<>>
             PROVE  shown = srv
  BY DEF MembersAgree
<1>1. Len(toServer) = 0 /\ Len(toApp) = 0
  OBVIOUS
<1> QED BY <1>1 DEF ShownOK, ShownFollows, Asking, WillAsk, Told, Right

LEMMA ShownUntouched ==
  ASSUME ShownOK, UNCHANGED <<srv, toServer, toApp, shown, doubt>>, Open' => Open
  PROVE  ShownOK'
  BY DEF ShownOK, ClosedAreFollowed, ShownFollows, Asking, WillAsk, Told, Tells, Right

LEMMA ShownAsked ==
  ASSUME WireOK, ShownOK, NEW r \in Request, toServer' = Append(toServer, r),
         UNCHANGED <<srv, toApp, shown, doubt>>, Open' => Open, r.home
  PROVE  ShownOK'
<1>1. /\ Len(toServer) \in Nat /\ Len(toServer') = Len(toServer) + 1
      /\ \A i \in 1..Len(toServer) : toServer'[i] = toServer[i]
      /\ toServer'[Len(toServer) + 1] = r
  BY Appended DEF WireOK
<1>2. ClosedAreFollowed'
  <2> SUFFICES ASSUME Open', NEW i \in 1..Len(toServer'), toServer'[i].op # "get",
                      ~toServer'[i].home
               PROVE  \E j \in (i + 1)..Len(toServer') :
                        toServer'[j].op = "get" /\ toServer'[j].home
    BY DEF ClosedAreFollowed
  <2>1. i \in 1..Len(toServer) /\ toServer'[i] = toServer[i]
    BY <1>1
  <2>2. PICK j \in (i + 1)..Len(toServer) :
               toServer[j].op = "get" /\ toServer[j].home
    BY <2>1 DEF ShownOK, ClosedAreFollowed
  <2> QED BY <1>1, <2>2
<1>3. Asking => Asking'
  BY <1>1 DEF Asking
<1>4. (WillAsk => WillAsk') /\ (Told => Told') /\ (Right => Right')
  BY DEF WillAsk, Told, Tells, Right
<1> QED BY <1>2, <1>3, <1>4 DEF ShownOK, ShownFollows

LEMMA OpenShown == ASSUME WireOK, OpenMembers PROVE ShownOK'
<1>1. Req("get", {}) \in Request /\ Req("get", {}).op = "get" /\ Req("get", {}).home
  BY ReqType
<1>2. /\ Len(toServer) \in Nat /\ Len(toServer') = Len(toServer) + 1
      /\ toServer'[Len(toServer) + 1] = Req("get", {})
  BY <1>1, Appended DEF WireOK, OpenMembers, Send
<1>3. \A i \in 1..Len(toServer') :
        toServer'[i].op # "get" => Len(toServer) + 1 \in (i + 1)..Len(toServer')
  BY <1>1, <1>2
<1>4. ClosedAreFollowed'
  BY <1>1, <1>2, <1>3 DEF ClosedAreFollowed
<1>5. Asking'
  BY <1>1, <1>2 DEF Asking
<1> QED BY <1>4, <1>5 DEF ShownOK, ShownFollows

LEMMA ServeShown == ASSUME WireOK, ShownOK, Serve PROVE ShownOK'
<1> DEFINE r == Head(toServer)
<1>1. /\ r = toServer[1] /\ r \in Request
      /\ Len(toServer) \in Nat /\ Len(toServer) > 0
      /\ Len(toServer') = Len(toServer) - 1
      /\ \A i \in 1..(Len(toServer) - 1) : toServer'[i] = toServer[i + 1]
  BY Dropped DEF WireOK, Serve
<1>2. PICK ok \in BOOLEAN :
        /\ doubt' = (doubt \/ (~ok /\ r.op = "get"))
        /\ srv' = IF ok THEN Granted(r) ELSE srv
        /\ toApp' = Append(toApp, [ok |-> ok, members |-> srv, req |-> r])
  BY DEF Serve
<1> DEFINE a == [ok |-> ok, members |-> srv, req |-> r]
<1>3. a \in Answer /\ a.ok = ok /\ a.members = srv /\ a.req = r
  BY <1>1 DEF Answer, WireOK
<1>4. UNCHANGED <<screen, shown>>
  BY DEF Serve
<1>5. toApp' = Append(toApp, a)
  BY <1>2
<1> HIDE DEF a, r
<1>6. /\ Len(toApp) \in Nat /\ Len(toApp') = Len(toApp) + 1
      /\ \A i \in 1..Len(toApp) : toApp'[i] = toApp[i]
      /\ toApp'[Len(toApp) + 1] = a
  BY <1>3, <1>5, Appended DEF WireOK
<1>7. ClosedAreFollowed'
  <2> SUFFICES ASSUME Open, NEW i \in 1..Len(toServer'), toServer'[i].op # "get",
                      ~toServer'[i].home
               PROVE  \E j \in (i + 1)..Len(toServer') :
                        toServer'[j].op = "get" /\ toServer'[j].home
    BY <1>4 DEF ClosedAreFollowed, Open
  <2>1. i + 1 \in 1..Len(toServer) /\ toServer'[i] = toServer[i + 1]
    BY <1>1
  <2>2. PICK j \in ((i + 1) + 1)..Len(toServer) :
               toServer[j].op = "get" /\ toServer[j].home
    BY <2>1 DEF ShownOK, ClosedAreFollowed
  <2>3. j - 1 \in (i + 1)..Len(toServer') /\ toServer'[j - 1] = toServer[j]
    BY <1>1, <2>1, <2>2
  <2> QED BY <2>2, <2>3
<1>8. ShownFollows'
  <2> SUFFICES ASSUME Open, ~doubt, ~(~ok /\ r.op = "get")
               PROVE  Asking' \/ WillAsk' \/ Told' \/ Right'
    BY <1>2, <1>4 DEF ShownFollows, Open
  <2>1. ASSUME NEW i \in 2..Len(toServer), toServer[i].op = "get", toServer[i].home
        PROVE  Asking'
    <3>1. i - 1 \in 1..Len(toServer') /\ toServer'[i - 1] = toServer[i]
      BY <1>1
    <3> QED BY <2>1, <3>1 DEF Asking
  <2>2. CASE r.op = "get" /\ r.home
    <3>1. ok /\ srv' = srv
      BY <1>2, <2>2 DEF Granted
    <3>2. /\ toApp'[Len(toApp) + 1].ok /\ toApp'[Len(toApp) + 1].members = srv'
          /\ toApp'[Len(toApp) + 1].req.op = "get"
          /\ toApp'[Len(toApp) + 1].req.home
      BY <1>3, <1>6, <2>2, <3>1
    <3>3. Len(toApp) + 1 \in 1..Len(toApp')
          /\ (Len(toApp) + 2)..Len(toApp') = {}
          /\ (Len(toApp) + 1) + 1 = Len(toApp) + 2
      BY <1>6
    <3> QED BY <3>2, <3>3 DEF Told, Tells
  <2>3. CASE ok /\ r.op # "get" /\ r.home
    <3>1. a.ok /\ a.req.op # "get" /\ a.req.home
      BY <1>3, <2>3
    <3>2. Len(toApp) + 1 \in 1..Len(toApp')
      BY <1>6
    <3> QED BY <1>6, <3>1, <3>2 DEF WillAsk
  <2>4. CASE r.op # "get" /\ ~r.home
    <3>1. PICK j \in 2..Len(toServer) : toServer[j].op = "get" /\ toServer[j].home
      BY <1>1, <2>4 DEF ShownOK, ClosedAreFollowed
    <3> QED BY <2>1, <3>1
  <2>5. CASE ~(r.op = "get" /\ r.home) /\ (r.op = "get" \/ ~ok)
    <3>1. srv' = srv
      BY <1>2, <2>5 DEF Granted
    <3>2. ~(a.ok /\ a.req.op = "get" /\ a.req.home)
      BY <1>3, <2>5
    <3>3. \A i \in 1..Len(toApp) : Tells(i)' <=> Tells(i)
      BY <1>6 DEF Tells
    <3>4. ASSUME NEW i, i = Len(toApp) + 1 PROVE ~Tells(i)'
      <4>1. toApp'[i] = a
        BY <1>6, <3>4
      <4> QED BY <3>2, <4>1 DEF Tells
    <3>5. ASSUME Asking PROVE Asking'
      <4>1. PICK i \in 1..Len(toServer) : toServer[i].op = "get" /\ toServer[i].home
        BY <3>5 DEF Asking
      <4>2. i # 1
        BY <1>1, <2>5, <4>1
      <4> QED BY <2>1, <4>1, <4>2
    <3>6. WillAsk => WillAsk'
      BY <1>6 DEF WillAsk
    <3>7. ASSUME Told PROVE Told'
      <4>1. PICK i \in 1..Len(toApp) :
                   /\ Tells(i) /\ toApp[i].members = srv
                   /\ \A j \in (i + 1)..Len(toApp) : ~Tells(j)
        BY <3>7 DEF Told
      <4>2. /\ i \in 1..Len(toApp') /\ Tells(i)' /\ toApp'[i].members = srv'
        BY <1>6, <3>1, <3>3, <4>1
      <4>3. ASSUME NEW j \in (i + 1)..Len(toApp') PROVE ~Tells(j)'
        <5>1. j \in (i + 1)..Len(toApp) \/ j = Len(toApp) + 1
          BY <1>6
        <5> QED BY <3>3, <3>4, <4>1, <5>1
      <4> QED BY <4>2, <4>3 DEF Told, Tells
    <3>8. ASSUME Right PROVE Right'
      <4>1. ASSUME NEW j \in 1..Len(toApp') PROVE ~Tells(j)'
        <5>1. j \in 1..Len(toApp) \/ j = Len(toApp) + 1
          BY <1>6
        <5> QED BY <3>3, <3>4, <3>8, <5>1 DEF Right
      <4> QED BY <1>4, <3>1, <3>8, <4>1 DEF Right, Tells
    <3> QED BY <3>5, <3>6, <3>7, <3>8 DEF ShownOK, ShownFollows
  <2> QED BY <2>2, <2>3, <2>4, <2>5
<1> QED BY <1>7, <1>8 DEF ShownOK

\* An answer is taken: the members it brings are shown, or it brings none.
LEMMA ShownHeard ==
  ASSUME WireOK, ShownOK, toApp # <<>>, toApp' = Tail(toApp),
         UNCHANGED <<srv, doubt, screen>>,
         ClosedAreFollowed', Asking => Asking',
         \/ Tells(1) /\ shown' = toApp[1].members
         \/ /\ ~Tells(1) /\ shown' = shown
            /\ ~(toApp[1].ok /\ toApp[1].req.op # "get" /\ toApp[1].req.home)
  PROVE  ShownOK'
<1>1. /\ Len(toApp) \in Nat /\ Len(toApp) > 0 /\ Len(toApp') = Len(toApp) - 1
      /\ \A i \in 1..(Len(toApp) - 1) : toApp'[i] = toApp[i + 1]
  BY Dropped DEF WireOK
<1>2. ASSUME NEW i \in 2..Len(toApp)
      PROVE  i - 1 \in 1..Len(toApp') /\ toApp'[i - 1] = toApp[i]
  BY <1>1
<1>3. ASSUME NEW i \in 1..Len(toApp')
      PROVE  i + 1 \in 2..Len(toApp) /\ (Tells(i)' <=> Tells(i + 1))
  BY <1>1 DEF Tells
<1>4. CASE Told
  <2>1. PICK i \in 1..Len(toApp) : /\ Tells(i) /\ toApp[i].members = srv
                                   /\ \A j \in (i + 1)..Len(toApp) : ~Tells(j)
    BY <1>4 DEF Told
  <2>2. CASE i = 1
    <3>1. shown' = srv'
      BY <2>1, <2>2
    <3>2. \A j \in 1..Len(toApp') : ~Tells(j)'
      BY <1>1, <1>3, <2>1, <2>2
    <3> QED BY <3>1, <3>2 DEF ShownOK, ShownFollows, Right, Tells
  <2>3. CASE i # 1
    <3>1. PICK k \in 1..Len(toApp') : k + 1 = i /\ toApp'[k] = toApp[i]
      BY <1>2, <2>3
    <3>2. Tells(k)' /\ toApp'[k].members = srv'
      BY <1>3, <2>1, <3>1
    <3>3. \A j \in (k + 1)..Len(toApp') : ~Tells(j)'
      BY <1>1, <1>3, <2>1, <3>1
    <3>4. Told'
      BY <3>1, <3>2, <3>3 DEF Told, Tells
    <3> QED BY <3>4 DEF ShownOK, ShownFollows
  <2> QED BY <2>2, <2>3
<1>5. CASE Right
  <2>1. ~Tells(1) /\ shown' = srv'
    BY <1>1, <1>5 DEF Right
  <2>2. \A j \in 1..Len(toApp') : ~Tells(j)'
    BY <1>1, <1>3, <1>5 DEF Right
  <2> QED BY <2>1, <2>2 DEF ShownOK, ShownFollows, Right, Tells
<1>6. CASE WillAsk
  <2>1. PICK i \in 1..Len(toApp) :
               toApp[i].ok /\ toApp[i].req.op # "get" /\ toApp[i].req.home
    BY <1>6 DEF WillAsk
  <2>2. i # 1
    BY <2>1 DEF Tells
  <2>3. PICK k \in 1..Len(toApp') : toApp'[k] = toApp[i]
    BY <1>2, <2>2
  <2>4. WillAsk'
    BY <2>1, <2>3 DEF WillAsk
  <2> QED BY <2>4 DEF ShownOK, ShownFollows
<1> QED BY <1>4, <1>5, <1>6 DEF ShownOK, ShownFollows, Open

\* The first answer under way.
LEMMA FirstAnswer ==
  ASSUME WireOK, toApp # <<>>
  PROVE  /\ Head(toApp) = toApp[1] /\ toApp[1] \in Answer
         /\ toApp[1].req \in Request /\ toApp[1].req.home \in BOOLEAN
         /\ Tail(toApp) \in Seq(Answer)
<1>1. Head(toApp) = toApp[1] /\ toApp[1] \in Answer /\ Tail(toApp) \in Seq(Answer)
  BY Dropped DEF WireOK
<1>2. toApp[1].req \in Request
  BY <1>1, AnswerFields
<1> QED BY <1>1, <1>2, RequestFields

LEMMA ChangedShown == ASSUME WireOK, ShownOK, OnChanged PROVE ShownOK'
<1> DEFINE h == Head(toApp).req.home
           r == Question(h)
<1>1. h \in BOOLEAN /\ Head(toApp) = toApp[1]
  BY FirstAnswer DEF OnChanged
<1>2. r \in Request /\ r.op = "get" /\ r.home = h
  BY <1>1, QuestionType
<1>3. /\ toServer' = Append(toServer, r) /\ toApp # <<>> /\ toApp' = Tail(toApp)
      /\ toApp[1].req.op # "get" /\ toApp[1].req.home = h
      /\ UNCHANGED <<srv, doubt, screen, shown>>
  BY <1>1 DEF OnChanged
<1> HIDE DEF h, r
<1>4. /\ Len(toServer) \in Nat /\ Len(toServer') = Len(toServer) + 1
      /\ \A i \in 1..Len(toServer) : toServer'[i] = toServer[i]
      /\ toServer'[Len(toServer) + 1] = r
  BY <1>2, <1>3, Appended DEF WireOK
<1>5. ClosedAreFollowed'
  <2> SUFFICES ASSUME Open, NEW i \in 1..Len(toServer'), toServer'[i].op # "get",
                      ~toServer'[i].home
               PROVE  \E j \in (i + 1)..Len(toServer') :
                        toServer'[j].op = "get" /\ toServer'[j].home
    BY <1>3 DEF ClosedAreFollowed, Open
  <2>1. i \in 1..Len(toServer) /\ toServer'[i] = toServer[i]
    BY <1>2, <1>4
  <2>2. PICK j \in (i + 1)..Len(toServer) :
               toServer[j].op = "get" /\ toServer[j].home
    BY <2>1 DEF ShownOK, ClosedAreFollowed
  <2> QED BY <1>4, <2>2
<1>6. Asking => Asking'
  BY <1>4 DEF Asking
<1>7. CASE h
  <2>1. Len(toServer) + 1 \in 1..Len(toServer')
    BY <1>4
  <2>2. Asking'
    BY <1>2, <1>4, <1>7, <2>1 DEF Asking
  <2> QED BY <1>5, <2>2 DEF ShownOK, ShownFollows
<1>8. CASE ~h
  <2>1. ~Tells(1)
    BY <1>3 DEF Tells
  <2> QED BY <1>3, <1>5, <1>6, <1>8, <2>1, ShownHeard
<1> QED BY <1>7, <1>8

LEMMA AnsweredShown ==
  ASSUME WireOK, ShownOK, OnMembers \/ OnRefused PROVE ShownOK'
<1>1. /\ toApp # <<>> /\ toApp' = Tail(toApp) /\ Head(toApp) = toApp[1]
      /\ UNCHANGED <<srv, doubt, screen, toServer>>
  BY FirstAnswer DEF OnMembers, OnRefused
<1>2. ClosedAreFollowed' /\ (Asking => Asking')
  BY <1>1 DEF ShownOK, ClosedAreFollowed, Asking, Open
<1>3. CASE OnMembers
  <2>1. CASE toApp[1].req.home
    BY <1>1, <1>2, <1>3, <2>1, ShownHeard DEF OnMembers, Tells
  <2>2. CASE ~toApp[1].req.home
    BY <1>1, <1>2, <1>3, <2>2, ShownHeard DEF OnMembers, Tells
  <2> QED BY <2>1, <2>2
<1>4. CASE OnRefused
  BY <1>1, <1>2, <1>4, ShownHeard DEF OnRefused, Tells
<1> QED BY <1>3, <1>4

LEMMA ShownKept == TypeOK /\ ShownOK /\ [Next]_vars => ShownOK'
<1> SUFFICES ASSUME ScreensOK, WireOK, ShownOK, [Next]_vars PROVE ShownOK'
  BY TypeParts
<1> USE DEF wire
<1>1. CASE UNCHANGED vars
  BY <1>1, ShownUntouched DEF vars, Open
<1>2. CASE Serve
  BY <1>2, ServeShown
<1>3. ASSUME NEW us \in SUBSET Users, ChangedElsewhere(us) PROVE ShownOK'
  <2>1. /\ doubt' /\ screen' = screen /\ Len(toServer') = Len(toServer)
        /\ \A i \in 1..Len(toServer) : toServer'[i] = Disturbed(toServer[i])
    BY <1>3 DEF ChangedElsewhere, WireOK
  <2>2. ASSUME NEW i \in 1..Len(toServer)
        PROVE  toServer'[i].op = toServer[i].op /\ toServer'[i].home = toServer[i].home
    <3>1. toServer[i] \in Request
      BY DEF WireOK
    <3> QED BY <2>1, <3>1, RequestFields
  <2>3. \A i \in 1..Len(toServer) : \A j \in (i + 1)..Len(toServer) :
          j \in 1..Len(toServer)
    BY DEF WireOK
  <2>4. ClosedAreFollowed'
    <3> SUFFICES ASSUME Open, NEW i \in 1..Len(toServer), toServer'[i].op # "get",
                        ~toServer'[i].home
                 PROVE  \E j \in (i + 1)..Len(toServer) :
                          toServer'[j].op = "get" /\ toServer'[j].home
      BY <2>1 DEF ClosedAreFollowed, Open
    <3>1. PICK j \in (i + 1)..Len(toServer) :
                 toServer[j].op = "get" /\ toServer[j].home
      BY <2>2 DEF ShownOK, ClosedAreFollowed
    <3> QED BY <2>2, <2>3, <3>1
  <2> QED BY <2>1, <2>4 DEF ShownOK, ShownFollows
<1>4. CASE Break
  <2>1. doubt' /\ Len(toServer') = 0
    BY <1>4 DEF Break
  <2> QED BY <2>1 DEF ShownOK, ShownFollows, ClosedAreFollowed
<1>5. CASE OpenMembers
  BY <1>5, OpenShown
<1>6. CASE CloseMembers
  <2>1. ~Open'
    BY <1>6 DEF CloseMembers, Open
  <2> QED BY <2>1 DEF ShownOK, ShownFollows, ClosedAreFollowed
<1>7. ASSUME NEW u \in shown, Delete(u) PROVE ShownOK'
  <2>1. Req("delete", {u}) \in Request /\ Req("delete", {u}).home
    BY ReqType DEF ScreensOK
  <2> QED BY <1>7, <2>1, ShownAsked DEF Delete, Send, Open
<1>8. CASE onClickOK
  <2> DEFINE s == fresh /\ ~moved
             a == Named(hand)
             k == Named(hand \ lost)
             r == [Req("add", Chosen) EXCEPT !.asked = a, !.kept = k, !.sound = s]
  <2>1. s \in BOOLEAN
    OBVIOUS
  <2>2. /\ toServer' = Append(toServer, r) /\ Open
        /\ UNCHANGED <<srv, toApp, shown, doubt>>
    BY <1>8 DEF onClickOK, Send, Open
  <2>4. a \subseteq Users /\ k \subseteq Users
    BY NamedType
  <2> HIDE DEF s, a, k
  <2>3. r \in Request /\ r.home
    BY <2>1, <2>4, ChosenType DEF Req, Request
  <2> HIDE DEF r
  <2> QED BY <2>2, <2>3, ShownAsked
<1>9. ASSUME \/ onClickAdd \/ Back
             \/ \E seen : Scroll(seen)
             \/ \E p : onSelItemClicked(p)
             \/ \E k, b : clickSectionDepartment(k, b)
      PROVE  ShownOK'
  BY <1>9, ShownUntouched
     DEF onClickAdd, Back, Leave, Scroll, onSelItemClicked, clickSectionDepartment,
         Die, Open
<1>10. CASE OnChanged
  BY <1>10, ChangedShown
<1>11. CASE OnMembers \/ OnRefused
  BY <1>11, AnsweredShown
<1>12. ASSUME NEW list \in Lists, onGetUsers(list) PROVE ShownOK'
  BY <1>12, ShownUntouched DEF onGetUsers, Open
<1>13. CASE onDataCallback
  BY <1>13, ReqType, ShownAsked DEF onDataCallback, Send, Open
<1> QED BY <1>1, <1>2, <1>3, <1>4, <1>5, <1>6, <1>7, <1>8, <1>9, <1>10, <1>11,
           <1>12, <1>13 DEF Next, World, Members, Select, Deliver

LEMMA InitShown == Init => ShownOK
  BY DEF Init, ShownOK, ShownFollows, ClosedAreFollowed, Open

-----------------------------------------------------------------------------
(* The changes under way. *)

ChangesOK == FreshIsCurrent /\ SoundIsExact

\* What fresh needs of a step: a visit goes on as it was.
FreshGoesOn == fresh' => /\ fresh /\ preset' = preset
                         /\ screen' \in {"select", "dead"}

LEMMA QueueUntouched ==
  ASSUME ChangesOK, UNCHANGED <<srv, toServer>>, FreshGoesOn
  PROVE  ChangesOK'
  BY DEF ChangesOK, FreshIsCurrent, SoundIsExact, FreshGoesOn

LEMMA QueueGrows ==
  ASSUME WireOK, ChangesOK, NEW r \in Request, toServer' = Append(toServer, r),
         srv' = srv, FreshGoesOn, fresh' => r.op = "get", r.sound = FALSE
  PROVE  ChangesOK'
<1>1. /\ Len(toServer) \in Nat /\ Len(toServer') = Len(toServer) + 1
      /\ \A i \in 1..Len(toServer) : toServer'[i] = toServer[i]
      /\ toServer'[Len(toServer) + 1] = r
  BY Appended DEF WireOK
<1>2. FreshIsCurrent'
  BY <1>1 DEF ChangesOK, FreshIsCurrent, FreshGoesOn
<1>3. ASSUME NEW i \in 1..Len(toServer'), toServer'[i].sound
      PROVE  /\ toServer'[i].op = "add"
             /\ toServer'[i].kept \subseteq toServer'[i].users
             /\ toServer'[i].users \cap Users \subseteq toServer'[i].asked \cup srv'
             /\ \A j \in 1..(i - 1) : toServer'[j].op = "get"
  <2>1. i \in 1..Len(toServer)
    BY <1>1, <1>3
  <2>2. /\ toServer'[i] = toServer[i]
        /\ \A j \in 1..(i - 1) : j \in 1..Len(toServer) /\ toServer'[j] = toServer[j]
    BY <1>1, <2>1
  <2> QED BY <1>3, <2>1, <2>2 DEF ChangesOK, SoundIsExact
<1> QED BY <1>2, <1>3 DEF ChangesOK, SoundIsExact

LEMMA ServeChanges == ASSUME WireOK, ChangesOK, Serve PROVE ChangesOK'
<1>1. /\ Head(toServer) = toServer[1] /\ Len(toServer) \in Nat /\ Len(toServer) > 0
      /\ Len(toServer') = Len(toServer) - 1
      /\ \A i \in 1..(Len(toServer) - 1) : toServer'[i] = toServer[i + 1]
  BY Dropped DEF WireOK, Serve
<1>2. UNCHANGED <<preset, screen, fresh>>
  BY DEF Serve, table, visit
<1>3. Head(toServer).op = "get" => srv' = srv
  BY DEF Serve, Granted
<1>4. FreshIsCurrent'
  <2> SUFFICES ASSUME fresh
               PROVE  /\ screen \in {"select", "dead"} /\ preset = srv'
                      /\ \A i \in 1..Len(toServer') : toServer'[i].op = "get"
    BY <1>2 DEF FreshIsCurrent
  <2>1. \A i \in 1..Len(toServer) : toServer[i].op = "get"
    BY DEF ChangesOK, FreshIsCurrent
  <2>2. srv' = srv
    BY <1>1, <1>3, <2>1
  <2>3. \A i \in 1..Len(toServer') : toServer'[i].op = "get"
    BY <1>1, <2>1
  <2> QED BY <2>2, <2>3 DEF ChangesOK, FreshIsCurrent
<1>5. ASSUME NEW i \in 1..Len(toServer'), toServer'[i].sound
      PROVE  /\ toServer'[i].op = "add"
             /\ toServer'[i].kept \subseteq toServer'[i].users
             /\ toServer'[i].users \cap Users \subseteq toServer'[i].asked \cup srv'
             /\ \A j \in 1..(i - 1) : toServer'[j].op = "get"
  <2>1. i + 1 \in 1..Len(toServer) /\ toServer'[i] = toServer[i + 1]
    BY <1>1
  <2>2. /\ toServer[i + 1].op = "add"
        /\ toServer[i + 1].kept \subseteq toServer[i + 1].users
        /\ toServer[i + 1].users \cap Users \subseteq toServer[i + 1].asked \cup srv
        /\ \A j \in 1..((i + 1) - 1) : toServer[j].op = "get"
    BY <1>5, <2>1 DEF ChangesOK, SoundIsExact
  <2>3. srv' = srv
    BY <1>1, <1>3, <2>1, <2>2
  <2>4. \A j \in 1..(i - 1) : toServer'[j] = toServer[j + 1]
                              /\ j + 1 \in 1..((i + 1) - 1)
    BY <1>1
  <2> QED BY <2>1, <2>2, <2>3, <2>4
<1> QED BY <1>4, <1>5 DEF ChangesOK, SoundIsExact

\* A sound OK names who was marked by hand and kept, and otherwise members.
LEMMA OkChanges ==
  ASSUME ScreensOK, WireOK, TableOK, ChangesOK, onClickOK PROVE ChangesOK'
<1> DEFINE s == fresh /\ ~moved
           a == Named(hand)
           k == Named(hand \ lost)
           r == [Req("add", Chosen) EXCEPT !.asked = a, !.kept = k, !.sound = s]
<1>1. s \in BOOLEAN
  OBVIOUS
<1>2. toServer' = Append(toServer, r) /\ fresh' = FALSE /\ srv' = srv
  BY DEF onClickOK, Send, Leave
<1>3. s => k \subseteq Chosen /\ Chosen \cap Users \subseteq a \cup srv
  <2> SUFFICES ASSUME fresh, ~moved
               PROVE  k \subseteq Chosen /\ Chosen \cap Users \subseteq a \cup srv
    OBVIOUS
  <2>1. /\ rows = DOMAIN sections /\ preset = srv
        /\ \A p \in DOMAIN cells : p \in DOMAIN sections
                                   /\ cells[p].user = sections[p]
    BY DEF onClickOK, TableOK, RowsHaveUsers, ChangesOK, FreshIsCurrent, ScreensOK
  <2>2. ASSUME NEW u \in k PROVE u \in Chosen
    <3>1. PICK p \in (hand \ lost) \cap DOMAIN sections : u = sections[p]
      BY Zenon DEF Named
    <3>2. p \in DOMAIN cells /\ cells[p].mark
      BY <3>1 DEF TableOK, MarksStay
    <3> QED BY <3>1, <3>2, Zenon DEF Chosen
  <2>3. ASSUME NEW u \in Chosen, u \in Users PROVE u \in a \cup srv
    <3>1. PICK p \in DOMAIN cells \cap DOMAIN sections :
            cells[p].mark /\ u = sections[p]
      BY Zenon DEF Chosen
    <3>2. u = cells[p].user
      BY <2>1, <3>1
    <3>3. CASE p \in hand
      BY <2>3, <3>1, <3>3, Zenon DEF Named
    <3>4. CASE p \notin hand
      BY <2>1, <3>1, <3>2, <3>4 DEF TableOK, MarksHaveCauses
    <3> QED BY <3>3, <3>4
  <2> QED BY <2>2, <2>3
<1>8. a \subseteq Users /\ k \subseteq Users
  BY NamedType
<1> HIDE DEF a, k
<1> HIDE DEF s
<1>4. /\ r \in Request /\ r.op = "add" /\ r.users = Chosen /\ r.asked = a
      /\ r.kept = k /\ r.sound = s
  BY <1>1, <1>8, ChosenType DEF Req, Request
<1>5. s => \A i \in 1..Len(toServer) : toServer[i].op = "get"
  BY DEF s, ChangesOK, FreshIsCurrent
<1> HIDE DEF r
<1>6. /\ Len(toServer) \in Nat /\ Len(toServer') = Len(toServer) + 1
      /\ \A i \in 1..Len(toServer) : toServer'[i] = toServer[i]
      /\ toServer'[Len(toServer) + 1] = r
  BY <1>2, <1>4, Appended DEF WireOK
<1>7. ASSUME NEW i \in 1..Len(toServer'), toServer'[i].sound
      PROVE  /\ toServer'[i].op = "add"
             /\ toServer'[i].kept \subseteq toServer'[i].users
             /\ toServer'[i].users \cap Users \subseteq toServer'[i].asked \cup srv'
             /\ \A j \in 1..(i - 1) : toServer'[j].op = "get"
  <2>1. CASE i \in 1..Len(toServer)
    <3>1. /\ toServer'[i] = toServer[i]
          /\ \A j \in 1..(i - 1) :
               j \in 1..Len(toServer) /\ toServer'[j] = toServer[j]
      BY <1>6, <2>1
    <3> QED BY <1>2, <1>7, <2>1, <3>1 DEF ChangesOK, SoundIsExact
  <2>2. CASE i = Len(toServer) + 1
    <3>1. toServer'[i] = r /\ s
      BY <1>4, <1>6, <1>7, <2>2
    <3>2. \A j \in 1..(i - 1) : toServer'[j].op = "get"
      BY <1>5, <1>6, <2>2, <3>1
    <3> QED BY <1>2, <1>3, <1>4, <3>1, <3>2
  <2> QED BY <1>6, <2>1, <2>2
<1> QED BY <1>2, <1>7 DEF ChangesOK, FreshIsCurrent, SoundIsExact

LEMMA ChangesKept ==
  TypeOK /\ TableOK /\ ShownOK /\ ChangesOK /\ [Next]_vars => ChangesOK'
<1> SUFFICES ASSUME ScreensOK, WireOK, TableOK, ShownOK, ChangesOK, [Next]_vars
             PROVE  ChangesOK'
  BY TypeParts
<1> USE DEF table, visit, wire
<1>0. fresh => screen \in {"select", "dead"}
  BY DEF ChangesOK, FreshIsCurrent
<1>1. CASE UNCHANGED vars
  BY <1>0, <1>1, QueueUntouched DEF vars, FreshGoesOn
<1>2. CASE Serve
  BY <1>2, ServeChanges
<1>3. ASSUME NEW us \in SUBSET Users, ChangedElsewhere(us) PROVE ChangesOK'
  <2>1. fresh' = FALSE /\ Len(toServer') = Len(toServer)
        /\ \A i \in 1..Len(toServer) : toServer'[i] = Disturbed(toServer[i])
    BY <1>3 DEF ChangedElsewhere, WireOK
  <2>2. ASSUME NEW i \in 1..Len(toServer) PROVE toServer'[i].sound = FALSE
    <3>1. toServer[i] \in Request
      BY DEF WireOK
    <3> QED BY <2>1, <3>1, RequestFields
  <2> QED BY <2>1, <2>2 DEF ChangesOK, FreshIsCurrent, SoundIsExact
<1>4. CASE Break
  <2>1. Len(toServer') = 0 /\ UNCHANGED <<srv, fresh, preset, screen>>
    BY <1>4 DEF Break
  <2> QED BY <2>1 DEF ChangesOK, FreshIsCurrent, SoundIsExact
<1>5. CASE OpenMembers
  <2>1. fresh = FALSE /\ fresh' = fresh
    BY <1>0, <1>5 DEF OpenMembers, ScreensOK
  <2>2. Req("get", {}) \in Request /\ Req("get", {}).sound = FALSE
    BY ReqType
  <2> QED BY <1>5, <2>1, <2>2, QueueGrows DEF OpenMembers, Send, FreshGoesOn
<1>6. CASE CloseMembers
  <2>1. fresh = FALSE /\ fresh' = fresh /\ srv' = srv
    BY <1>0, <1>6 DEF CloseMembers, ScreensOK
  <2>2. /\ Len(toServer') = Len(toServer)
        /\ \A i \in 1..Len(toServer) : toServer'[i] = Closed(toServer[i])
    BY <1>6 DEF CloseMembers, WireOK
  <2>3. ASSUME NEW i \in 1..Len(toServer)
        PROVE  /\ toServer'[i].op = toServer[i].op
               /\ toServer'[i].users = toServer[i].users
               /\ toServer'[i].asked = toServer[i].asked
               /\ toServer'[i].kept = toServer[i].kept
               /\ toServer'[i].sound = toServer[i].sound
    <3>1. toServer[i] \in Request
      BY DEF WireOK
    <3> QED BY <2>2, <3>1, RequestFields
  <2>4. \A i \in 1..Len(toServer) : \A j \in 1..(i - 1) : j \in 1..Len(toServer)
    BY DEF WireOK
  <2> QED BY <2>1, <2>2, <2>3, <2>4 DEF ChangesOK, FreshIsCurrent, SoundIsExact
<1>7. ASSUME NEW u \in shown, Delete(u) PROVE ChangesOK'
  <2>1. fresh = FALSE /\ fresh' = fresh
    BY <1>0, <1>7 DEF Delete, ScreensOK
  <2>2. Req("delete", {u}) \in Request /\ Req("delete", {u}).sound = FALSE
    BY ReqType DEF ScreensOK
  <2> QED BY <1>7, <2>1, <2>2, QueueGrows DEF Delete, Send, FreshGoesOn
<1>8. CASE onClickOK
  BY <1>8, OkChanges
<1>9. CASE onClickAdd
  <2>1. /\ UNCHANGED <<srv, toServer>> /\ screen' = "select" /\ preset' = shown
        /\ Open /\ (fresh' <=> ~doubt /\ toServer = <<>> /\ toApp = <<>>)
    BY <1>9 DEF onClickAdd, Open
  <2>2. fresh' => preset' = srv' /\ Len(toServer') = 0
    BY <2>1, Agreed DEF MembersAgree
  <2> QED BY <2>1, <2>2 DEF ChangesOK, FreshIsCurrent, SoundIsExact
<1>10. CASE Back
  <2>1. UNCHANGED <<srv, toServer>> /\ fresh' = FALSE
    BY <1>10 DEF Back, Leave
  <2> QED BY <2>1, QueueUntouched DEF FreshGoesOn
<1>11. ASSUME \/ \E seen : Scroll(seen)
              \/ \E p : onSelItemClicked(p)
              \/ \E k, b : clickSectionDepartment(k, b)
       PROVE  ChangesOK'
  <2>1. /\ UNCHANGED <<srv, toServer, fresh, preset>>
        /\ screen' \in {"select", "dead"}
    BY <1>11 DEF Scroll, onSelItemClicked, clickSectionDepartment, Die
  <2> QED BY <2>1, QueueUntouched DEF FreshGoesOn
<1>12. CASE OnChanged
  <2>1. Question(Head(toApp).req.home) \in Request
        /\ Question(Head(toApp).req.home).op = "get"
        /\ Question(Head(toApp).req.home).sound = FALSE
    BY <1>12, FirstAnswer, QuestionType DEF OnChanged
  <2>2. /\ toServer' = Append(toServer, Question(Head(toApp).req.home))
        /\ UNCHANGED <<srv, fresh, preset, screen>>
    BY <1>12 DEF OnChanged
  <2> QED BY <1>0, <2>1, <2>2, QueueGrows DEF FreshGoesOn
<1>13. CASE OnMembers \/ OnRefused
  BY <1>0, <1>13, QueueUntouched DEF OnMembers, OnRefused, FreshGoesOn
<1>14. ASSUME NEW list \in Lists, onGetUsers(list) PROVE ChangesOK'
  BY <1>0, <1>14, QueueUntouched DEF onGetUsers, FreshGoesOn
<1>15. CASE onDataCallback
  <2>1. /\ Req("get", {}) \in Request /\ Req("get", {}).op = "get"
        /\ Req("get", {}).sound = FALSE
    BY ReqType
  <2>2. /\ toServer' = Append(toServer, Req("get", {}))
        /\ UNCHANGED <<srv, fresh, preset, screen>>
    BY <1>15 DEF onDataCallback, Send
  <2> QED BY <1>0, <2>1, <2>2, QueueGrows DEF FreshGoesOn
<1> QED BY <1>1, <1>2, <1>3, <1>4, <1>5, <1>6, <1>7, <1>8, <1>9, <1>10, <1>11,
           <1>12, <1>13, <1>14, <1>15 DEF Next, World, Members, Select, Deliver

LEMMA InitChanges == Init => ChangesOK
  BY DEF Init, ChangesOK, FreshIsCurrent, SoundIsExact

-----------------------------------------------------------------------------
(* What is shown and what is authorised. *)

IInv == TypeOK /\ TableOK /\ ShownOK /\ ChangesOK

LEMMA Invariance == Spec => []IInv
<1>1. Init => IInv
  BY InitType, InitTable, InitShown, InitChanges DEF IInv
<1>2. IInv /\ [Next]_vars => IInv'
  BY ScreensTyped, WireTyped, TypePartsNext, TableKept, ShownKept, ChangesKept
     DEF IInv
<1> QED BY <1>1, <1>2, PTL DEF Spec

\* Once everything asked has been answered the members shown are the server's.
THEOREM MembersAgreeCorrect == Spec => []MembersAgree
<1>1. IInv => MembersAgree
  BY Agreed DEF IInv
<1> QED BY <1>1, Invariance, PTL

\* A granted OK authorises no one who was not marked, and leaves out only those
\* marked whose cell had left the screen or was not on it.
THEOREM OkAuthorisesTheMarkedCorrect == Spec => OkAuthorisesTheMarked
<1> DEFINE r == Head(toServer)
           Good == srv \cup r.kept \subseteq srv' /\ srv' \subseteq srv \cup r.asked
<1>1. ASSUME IInv, Serve, srv' # srv, r.sound PROVE Good
  <2>1. r = toServer[1] /\ 1 \in 1..Len(toServer) /\ r \in Request
    BY <1>1, Dropped, TypeParts DEF IInv, WireOK, Serve
  <2>2. r.op = "add" /\ r.kept \subseteq r.users
        /\ r.users \cap Users \subseteq r.asked \cup srv
    BY <1>1, <2>1 DEF IInv, ChangesOK, SoundIsExact
  <2>3. srv' = srv \cup (r.users \cap Users)
    BY <1>1, <2>2 DEF Serve, Granted
  <2>4. r.kept \subseteq Users
    BY <2>1 DEF Request
  <2> HIDE DEF r
  <2> QED BY <2>2, <2>3, <2>4
<1>2. IInv => [Serve /\ srv' # srv /\ r.sound => Good]_vars
  BY <1>1
<1> QED BY <1>2, Invariance, PTL DEF OkAuthorisesTheMarked
=============================================================================
