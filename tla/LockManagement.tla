--------------------------- MODULE LockManagement ---------------------------
(***************************************************************************)
(* The management of one lock: the list of DoorManagementViewController,   *)
(* the details of LockManagementViewController and the screens opened from *)
(* them: offline time, lock password, logoff, and registration of a lock,  *)
(* with the reader of codes (vc/QRCodeHelper.swift) that fills a field.    *)
(*                                                                         *)
(* A lock's record is copied from the server to the cache of               *)
(* GlobalSessionUser, from there to the list, from the list to the details *)
(* (curLock) and from those to the logoff screen.  A view controller that  *)
(* was popped has no navigationController: its block pops nothing.         *)
(***************************************************************************)
EXTENDS Integers, Sequences

CONSTANTS
  Times,       \* the offline times the phone offers, in order
  Passwords,
  NoText,      \* an empty text field
  NoLock,      \* there is no lock
  MaxFlight,   \* bound: requests, answers and pushes under way
  MaxFrames,   \* bound: frames of the camera that are queued
  MaxTrouble   \* bound: lost connections, refusals and changes by other phones

TimeSet == {Times[i] : i \in 1..Len(Times)}
Lock == [offline : TimeSet, passwd : Passwords \cup {NoText}]

ASSUME LockManagementAssumption ==
  /\ Times \in Seq(Nat) /\ Len(Times) > 0
  /\ NoText \notin Passwords
  /\ NoLock \notin Lock
  /\ MaxFlight \in Nat /\ MaxFrames \in Nat /\ MaxTrouble \in Nat

VARIABLES
  srv,       \* the server's record of the lock, NoLock when it is logged off
  toServer,  \* requests under way
  toApp,     \* answers and pushes under way
  owner,     \* the lock in GlobalSessionUser.ownerLockArray
  listed,    \* the lock in DoorManagement's own ownerLockArray
  stack,     \* the screens above the list, the one on top last
  lock,      \* LockManagement.curLock, NoLock when the details are not open
  copy,      \* curLock of the logoff screen, likewise
  curSel,    \* the row SetOfflineTime will send
  frames,    \* frames of the registration's reader that are queued: their codes
  \* history
  ever,      \* the passwords the server has ever held for the lock
  edited,    \* a field was edited while a block that reads it was to come
  doubt,     \* what the details show may differ for a reason outside this visit
  trouble,
  pops       \* since the reader was opened: codes seen, ways back and answers
             \* that popped it, at most 2

wire == <<toServer, toApp>>
lists == <<owner, listed>>
camera == <<frames, pops>>
screens == <<stack, lock, copy, curSel, camera>>
history == <<ever, edited, doubt, trouble>>
vars == <<srv, wire, lists, screens, history>>

Ops == {"offline", "password", "logoff", "add"}
Screens == {"details", "offline", "password", "logoff", "register", "reader"}

\* What a frame may show: one code or more.  There are never more than two
\* screens that codes can pop.
Codes == 1..2

\* Which screen's navigation the block of a request uses: the offline time is
\* set by the details, its delegate.
Self(op) == CASE op = "offline"  -> "details"
              [] op = "password" -> "password"
              [] op = "logoff"   -> "logoff"
              [] op = "add"      -> "register"

\* A request; self and home say whether the screen Self(op), and the details
\* below it, are still on the stack as they were when it was sent.
Request == [op : Ops, offline : TimeSet, passwd : Passwords \cup {NoText},
            typed : Passwords \cup {NoText}, self : BOOLEAN, home : BOOLEAN]
Answer == [kind : {"answer"}, ok : BOOLEAN, req : Request]
Push == [kind : {"push"}, lock : Lock \cup {NoLock}]

Req(op, t, p, typed) ==
  [op |-> op, offline |-> t, passwd |-> p, typed |-> typed,
   self |-> TRUE, home |-> TRUE]

Init ==
  /\ srv \in Lock /\ srv.passwd # NoText
  /\ toServer = <<>> /\ toApp = <<>>
  /\ owner = srv /\ listed = srv
  /\ stack = <<>>
  /\ lock = NoLock /\ copy = NoLock
  /\ curSel = 1 /\ frames = <<>> /\ pops = 0
  /\ ever = {srv.passwd} /\ edited = FALSE /\ doubt = FALSE /\ trouble = 0

-----------------------------------------------------------------------------
(* The server and the wire. *)

Room == Len(toServer) + Len(toApp) < MaxFlight

Grants(r) ==
  CASE r.op \in {"offline", "logoff"} -> srv # NoLock
    [] r.op = "password" -> srv # NoLock /\ srv.passwd = r.typed
    [] r.op = "add"      -> srv = NoLock

\* The server answers; it may refuse what it could grant.
Serve ==
  /\ toServer # <<>>
  /\ toServer' = Tail(toServer)
  /\ LET r == Head(toServer) IN
     \E ok \in BOOLEAN :
       /\ ok => Grants(r)
       /\ ~ok /\ Grants(r) => trouble < MaxTrouble
       /\ trouble' = IF ~ok /\ Grants(r) THEN trouble + 1 ELSE trouble
       /\ doubt' = (doubt \/ ~ok)
       /\ toApp' = Append(toApp, [kind |-> "answer", ok |-> ok, req |-> r])
       /\ srv' = IF ~ok THEN srv
                 ELSE CASE r.op = "offline"  -> [srv EXCEPT !.offline = r.offline]
                        [] r.op = "password" -> [srv EXCEPT !.passwd = r.passwd]
                        [] r.op = "logoff"   -> NoLock
                        [] r.op = "add" ->
                             [offline |-> r.offline, passwd |-> r.passwd]
       /\ ever' = IF ok /\ r.op \in {"password", "add"}
                  THEN ever \cup {r.passwd} ELSE ever
  /\ UNCHANGED <<lists, screens, edited>>

\* Another phone of the same user changes the lock.
ChangedElsewhere(l) ==
  /\ trouble < MaxTrouble /\ srv # NoLock /\ l # srv /\ l.passwd # NoText
  /\ srv' = l
  /\ ever' = ever \cup {l.passwd}
  /\ doubt' = TRUE
  /\ trouble' = trouble + 1
  /\ UNCHANGED <<wire, lists, screens, edited>>

\* The server pushes the lock as it is: when is its own business.
SendPush ==
  /\ Room
  /\ toApp' = Append(toApp, [kind |-> "push", lock |-> srv])
  /\ UNCHANGED <<srv, toServer, lists, screens, history>>

\* The connection breaks: what is under way is lost, answers from the back.
Break ==
  /\ trouble < MaxTrouble
  /\ toServer' = <<>>
  /\ \E n \in 0..Len(toApp) : toApp' = SubSeq(toApp, 1, n)
  /\ doubt' = TRUE
  /\ trouble' = trouble + 1
  /\ UNCHANGED <<srv, lists, screens, ever, edited>>

-----------------------------------------------------------------------------
(* The stack of screens. *)

On(s) == \E i \in 1..Len(stack) : stack[i] = s
Top(s) == stack # <<>> /\ stack[Len(stack)] = s

\* The screens above the first n go: the requests they sent know it.
Orphan(r, n) ==
  LET gone == {stack[i] : i \in (n + 1)..Len(stack)} IN
  [r EXCEPT !.self = @ /\ Self(r.op) \notin gone,
            !.home = @ /\ "details" \notin gone]

\* pending: what is left of toApp; l: curLock of the details by now.  When the
\* list appears again it loads the cache.
PopTo(n, pending, l) ==
  /\ stack' = SubSeq(stack, 1, n)
  /\ toServer' = [i \in 1..Len(toServer) |-> Orphan(toServer[i], n)]
  /\ toApp' = [i \in 1..Len(pending) |->
                 IF pending[i].kind = "push" THEN pending[i]
                 ELSE [pending[i] EXCEPT !.req = Orphan(@, n)]]
  /\ listed' = IF n = 0 THEN owner ELSE listed
  /\ lock' = IF n = 0 THEN NoLock ELSE l
  /\ copy' = NoLock /\ curSel' = 1

\* Two are enough to tell.
More(n) == IF pops + n > 2 THEN 2 ELSE pops + n

\* The reader is popped by no code; a registration that is gone has no more use
\* for frames: its helper's vc has no navigationController.
CloseReader ==
  /\ frames' = IF stack' = <<>> THEN <<>> ELSE frames
  /\ pops' = IF stack' = <<>> THEN 0 ELSE IF Top("reader") THEN More(1) ELSE pops

Pop(pending, l) == PopTo(Len(stack) - 1, pending, l) /\ CloseReader

\* The user goes back (the reader is cancelled).
Back ==
  /\ stack # <<>>
  /\ Pop(toApp, lock)
  /\ UNCHANGED <<srv, owner, history>>

\* The list is shown again, or searched: it is loaded from the cache.
Appear ==
  /\ stack = <<>>
  /\ listed' = owner
  /\ UNCHANGED <<srv, wire, owner, screens, history>>

\* A lock of the list is tapped.
onClickLock ==
  /\ stack = <<>> /\ listed # NoLock
  /\ stack' = <<"details">>
  /\ lock' = listed
  /\ doubt' = (listed # srv \/ toServer # <<>>)
  /\ UNCHANGED <<srv, wire, lists, copy, curSel, camera, ever, edited, trouble>>

\* A screen is opened from the list or from the details.
OpenScreen(s) ==
  /\ stack = IF s = "register" THEN <<>> ELSE <<"details">>
  /\ stack' = Append(stack, s)
  /\ copy' = IF s = "logoff" THEN lock ELSE copy
  /\ UNCHANGED <<srv, wire, lists, lock, curSel, camera, history>>

-----------------------------------------------------------------------------
(* What the user does on the screens. *)

Send(r) == Room /\ toServer' = Append(toServer, r)

onSelItemClicked(i) ==
  /\ Top("offline")
  /\ curSel' = i
  /\ UNCHANGED <<srv, wire, lists, stack, lock, copy, camera, history>>

\* Mutant: the details wait for the answer before they change.
onOfflineChoosedLater ==
  /\ Top("offline")
  /\ Send(Req("offline", Times[curSel], NoText, NoText))
  /\ UNCHANGED <<srv, toApp, lists, screens, history>>

\* OK of SetOfflineTime calls LockManagement.onOfflineChoosed: the details show
\* the new time before the server has seen it.
onOfflineChoosed ==
  /\ Top("offline")
  /\ Send(Req("offline", Times[curSel], NoText, NoText))
  /\ lock' = [lock EXCEPT !.offline = Times[curSel]]
  /\ UNCHANGED <<srv, toApp, lists, stack, copy, curSel, camera, history>>

\* Both passwords are sent; the server compares the old one.
onClickUpdateLockPassword(old, new) ==
  /\ Top("password")
  /\ Send(Req("password", Times[1], new, old))
  /\ UNCHANGED <<srv, toApp, lists, screens, history>>

\* Mutant: the password is not asked.
onClickLogoffUnasked(typed) ==
  /\ Top("logoff")
  /\ Send(Req("logoff", Times[1], NoText, typed))
  /\ UNCHANGED <<srv, toApp, lists, screens, history>>

\* The password is compared on the phone, with the logoff screen's copy; the
\* request does not carry it (typed is kept for the properties).
onClickLogoffLock(typed) ==
  /\ Top("logoff") /\ typed = copy.passwd
  /\ Send(Req("logoff", Times[1], NoText, typed))
  /\ UNCHANGED <<srv, toApp, lists, screens, history>>

\* LockRegister's onClickOK: a new lock, with the user's default offline time.
Register(t, p) ==
  /\ Top("register")
  /\ Send(Req("add", t, p, NoText))
  /\ UNCHANGED <<srv, toApp, lists, screens, history>>

-----------------------------------------------------------------------------
(* The reader above the registration. *)

onClickScanQR ==
  /\ Top("register")
  /\ stack' = Append(stack, "reader")
  /\ pops' = IF frames = <<>> THEN 0 ELSE 2
  /\ UNCHANGED <<srv, wire, lists, lock, copy, curSel, frames, history>>

\* The camera runs while the reader is shown; frames go through the main queue.
Capture(n) ==
  /\ Top("reader") /\ Len(frames) < MaxFrames
  /\ frames' = Append(frames, n)
  /\ pops' = More(n)
  /\ UNCHANGED <<srv, wire, lists, stack, lock, copy, curSel, history>>

\* Mutant: the reader closes the screens above the list.
captureOutputRoot ==
  /\ frames # <<>>
  /\ PopTo(0, toApp, lock)
  /\ frames' = <<>> /\ pops' = 0
  /\ UNCHANGED <<srv, owner, history>>

\* didScanResult for each code of a frame pops whatever is on top, as long as
\* the registration is there, the reader or not.
captureOutput ==
  /\ frames # <<>>
  /\ LET n == IF Head(frames) < Len(stack) THEN Len(stack) - Head(frames) ELSE 0
     IN /\ PopTo(n, toApp, lock)
        /\ frames' = IF n = 0 THEN <<>> ELSE Tail(frames)
        /\ pops' = IF n = 0 THEN 0 ELSE pops
  /\ UNCHANGED <<srv, owner, history>>

-----------------------------------------------------------------------------
(* What comes back. *)

Arrived(op) == toApp # <<>> /\ Head(toApp).kind = "answer"
                            /\ Head(toApp).req.op = op
Granted(op) == Arrived(op) /\ Head(toApp).ok

\* The block ends with the stack as it is, or pops its top when self is open.
Stay(l) ==
  toApp' = Tail(toApp) /\ lock' = l
  /\ UNCHANGED <<toServer, stack, listed, copy, curSel, camera>>
PopIfOpen(l) == IF Head(toApp).req.self THEN Pop(Tail(toApp), l) ELSE Stay(l)

\* A push of the locks: the cache is replaced, DoorManagement is not told (what
\* it observes is never posted).
OnPush ==
  /\ toApp # <<>> /\ Head(toApp).kind = "push"
  /\ owner' = Head(toApp).lock
  /\ Stay(lock)
  /\ UNCHANGED <<srv, history>>

\* The details pop whatever screen is on top, be it themselves.
OnOfflineTime ==
  /\ Granted("offline")
  /\ PopIfOpen(lock)
  /\ UNCHANGED <<srv, owner, history>>

\* LockManagement.onUpdateLockPassword, on the details the request came from.
Told(text) ==
  IF Head(toApp).req.home THEN [lock EXCEPT !.passwd = text] ELSE lock

\* Mutants: the details keep the old password; the screen on top is popped
\* whichever it is.
OnPasswordUntold(text) ==
  /\ Granted("password")
  /\ edited' = (edited \/ text # Head(toApp).req.passwd)
  /\ PopIfOpen(lock)
  /\ UNCHANGED <<srv, owner, ever, doubt, trouble>>
OnPasswordPops(text) ==
  /\ Granted("password")
  /\ edited' = (edited \/ text # Head(toApp).req.passwd)
  /\ IF stack # <<>> THEN Pop(Tail(toApp), Told(text)) ELSE Stay(Told(text))
  /\ UNCHANGED <<srv, owner, ever, doubt, trouble>>

\* The details are told the text the field holds by now; the password screen
\* closes if it is still open.
OnPassword(text) ==
  /\ Granted("password")
  /\ edited' = (edited \/ text # Head(toApp).req.passwd)
  /\ PopIfOpen(Told(text))
  /\ UNCHANGED <<srv, owner, ever, doubt, trouble>>

\* The logoff screen goes, with the details below it.
OnLogoff ==
  /\ Granted("logoff")
  /\ IF Head(toApp).req.self THEN PopTo(0, Tail(toApp), lock) /\ CloseReader
                             ELSE Stay(lock)
  /\ UNCHANGED <<srv, owner, history>>

\* The registration pops the top: itself, or the reader that is open above it.
OnAdded ==
  /\ Granted("add")
  /\ PopIfOpen(lock)
  /\ UNCHANGED <<srv, owner, history>>

\* A refusal only shows a message: an offline time set on the details stays.
OnRefused ==
  /\ \E op \in Ops : Arrived(op)
  /\ ~Head(toApp).ok
  /\ Stay(lock)
  /\ UNCHANGED <<srv, owner, history>>

-----------------------------------------------------------------------------
World == Serve \/ (\E l \in Lock : ChangedElsewhere(l)) \/ SendPush \/ Break

User ==
  \/ Back \/ Appear \/ onClickLock
  \/ \E s \in Screens \ {"details", "reader"} : OpenScreen(s)
  \/ \E i \in 1..Len(Times) : onSelItemClicked(i)
  \/ onOfflineChoosed
  \/ \E old, new \in Passwords : onClickUpdateLockPassword(old, new)
  \/ \E typed \in Passwords \cup {NoText} : onClickLogoffLock(typed)
  \/ \E t \in TimeSet, p \in Passwords : Register(t, p)
  \/ onClickScanQR

Camera == captureOutput \/ \E n \in Codes : Capture(n)

Deliver ==
  \/ OnPush \/ OnOfflineTime
  \/ \E text \in Passwords \cup {NoText} : OnPassword(text)
  \/ OnLogoff \/ OnAdded \/ OnRefused

Next == World \/ User \/ Camera \/ Deliver

Spec == Init /\ [][Next]_vars

-----------------------------------------------------------------------------
TypeOK ==
  /\ srv \in Lock \cup {NoLock}
  /\ toServer \in Seq(Request) /\ toApp \in Seq(Answer \cup Push)
  /\ owner \in Lock \cup {NoLock} /\ listed \in Lock \cup {NoLock}
  /\ stack \in {<<>>, <<"details">>, <<"register">>, <<"register", "reader">>} \cup
               {<<"details", s>> : s \in {"offline", "password", "logoff"}}
  /\ lock \in Lock \cup {NoLock} /\ copy \in Lock \cup {NoLock}
  /\ On("details") <=> lock # NoLock
  /\ On("logoff") <=> copy # NoLock
  /\ curSel \in 1..Len(Times)
  /\ frames \in Seq(Codes) /\ pops \in 0..2
  /\ ever \subseteq Passwords
  /\ edited \in BOOLEAN /\ doubt \in BOOLEAN
  /\ trouble \in 0..MaxTrouble

Requested(op) ==
  \/ \E i \in 1..Len(toServer) : toServer[i].op = op
  \/ \E i \in 1..Len(toApp) :
       toApp[i].kind = "answer" /\ toApp[i].ok /\ toApp[i].req.op = op

\* The details show the server's offline time once what was asked has been
\* answered, unless something was refused or lost, another phone interfered, or
\* they were opened from an outdated list.
OfflineTimeAgrees ==
  On("details") /\ ~doubt /\ srv # NoLock /\ ~Requested("offline")
    => lock.offline = srv.offline

\* Likewise the password they keep for the logoff, unless its field was edited
\* while a change was under way.
PasswordAgrees ==
  On("details") /\ ~doubt /\ srv # NoLock /\ ~Requested("password") /\ ~edited
    => lock.passwd = srv.passwd

\* Every copy of the lock's password is one the server has held.
CopiesWereHeld ==
  ~edited =>
    /\ \A l \in {owner, listed, lock, copy} : l # NoLock => l.passwd \in ever
    /\ \A i \in 1..Len(toApp) :
         /\ toApp[i].kind = "push" /\ toApp[i].lock # NoLock
              => toApp[i].lock.passwd \in ever
         /\ toApp[i].kind = "answer" /\ toApp[i].ok
              /\ toApp[i].req.op = "password" => toApp[i].req.passwd \in ever

\* Why: the server's password is one it has held, requests for a password name
\* one, and a logoff under way was checked against a password it has held.
ServerHeld == srv # NoLock => srv.passwd \in ever

RequestsNamePasswords ==
  \A i \in 1..Len(toServer) :
    toServer[i].op \in {"password", "add"} => toServer[i].passwd \in Passwords

LogoffsWereChecked ==
  ~edited => \A i \in 1..Len(toServer) :
               toServer[i].op = "logoff" => toServer[i].typed \in ever

\* Whoever logs the lock off has typed a password the server has held for it:
\* the phone's check is all there is, and it is made against a copy.
LogoffKnowsPassword ==
  [][srv # NoLock /\ srv' = NoLock /\ ~edited
     => Head(toServer).typed \in ever]_vars

\* Why: a request whose block will find its screens finds them on the stack.
Finds(r) == /\ r.self => On(Self(r.op))
            /\ r.op = "password" /\ r.home => On("details")

BlocksFindScreens ==
  /\ \A i \in 1..Len(toServer) : Finds(toServer[i])
  /\ \A i \in 1..Len(toApp) : toApp[i].kind = "answer" => Finds(toApp[i].req)

\* An answer closes nothing of another visit: the screen that asked is still there
\* when one is closed.  A change of the password and a logoff close that very
\* screen, with the details below at a logoff; the offline time and a registration
\* close one screen, the one that asked or what was opened above it.
AnswersCloseTheirScreen ==
  [][Deliver /\ stack' # stack =>
       LET r == Head(toApp).req IN
       /\ r.self /\ On(Self(r.op))
       /\ r.op \in {"password", "logoff"} => Top(Self(r.op))
       /\ r.op # "logoff" => stack' = SubSeq(stack, 1, Len(stack) - 1)]_vars

\* A scan closes the registration, and loses what was typed, only if its reader
\* was popped otherwise: the camera saw more than one code since it was opened,
\* or one that crossed the user's way back or the answer to a registration.
ScanKeepsRegistration ==
  [][captureOutput /\ stack' = <<>> => pops > 1]_vars

\* Why: frames wait only for a registration whose reader has seen codes; when
\* that was a single code and nothing else popped the reader, it still waits and
\* the reader is there, or it has been run.
FramesCounted ==
  /\ ~On("register") \/ pops = 0 => frames = <<>>
  /\ pops = 1 => frames = <<>> \/ (Top("reader") /\ frames = <<1>>)
=============================================================================
