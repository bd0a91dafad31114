------------------------------ MODULE Session ------------------------------
(***************************************************************************)
(* The session of the lock client: LoginViewController, the reconnection   *)
(* branch of AppDelegate.onSrvMessage, logout, the changes of phone number *)
(* and password, registration, and the credentials Globals keeps on disk.  *)
(*                                                                         *)
(* Requests and what comes back travel in order (module Bridge).  A        *)
(* completion block reads the screen's text fields when it runs, not when  *)
(* the request was sent.                                                   *)
(***************************************************************************)
EXTENDS Integers, Sequences

CONSTANTS
  Phones,      \* phone numbers, the names of accounts
  Passwords,
  NoText,      \* an empty text field, no account, nobody
  MaxFlight,   \* bound: requests and answers under way
  MaxBreaks    \* bound: losses of the connection and restarts of the program

ASSUME SessionAssumption ==
  /\ NoText \notin Phones \cup Passwords
  /\ MaxFlight \in Nat /\ MaxBreaks \in Nat

VARIABLES
  \* the server (outside src/)
  account,   \* account[p]: the password of account p, NoText if there is none
  authed,    \* the account the server holds this connection to be logged in as
  conn,      \* the connection is up
  toServer,  \* requests under way
  toApp,     \* answers and connection news under way
  \* the program
  root,      \* the root view: "login" or "app"
  islogined, phonenumber, passwordsaved,  \* of GlobalSessionUser
  form,      \* the newest login screen: text fields and isRememberedMe
  disk,      \* NSUserDefaults: isChecked, Username, Password
  \* history
  asked,     \* a login was submitted from this login screen
  edited,    \* a text was changed while a block that reads it was to come
  accepted,  \* pairs of account and password the server has accepted
  breaks

server == <<account, authed>>
wire == <<conn, toServer, toApp>>
global == <<islogined, phonenumber, passwordsaved>>
screen == <<root, form>>
vars == <<account, authed, conn, toServer, toApp, root, islogined, phonenumber,
          passwordsaved, form, disk, asked, edited, accepted,
          breaks>>

Disk == [isChecked : BOOLEAN, phone : Phones \cup {NoText},
         password : Passwords \cup {NoText}]

Ops == {"login", "autologin", "logout", "phone", "password", "register", "find"}

\* What a login screen holds: its two text fields and its box.
Screen == [phone : Phones \cup {NoText}, password : Passwords \cup {NoText},
           box : BOOLEAN]

\* A request carries what its fields hold when it is sent; old is the old
\* password of a change of password.  Once the login screen a request came from
\* was replaced by a new one, left is what it was left with.
Request == [op : Ops, phone : Phones \cup {NoText},
            password : Passwords \cup {NoText}, old : Passwords \cup {NoText},
            left : {<<>>} \cup {<<s>> : s \in Screen}]

\* An answer repeats its request, whose block the bridge will run.
Reply == [ok : BOOLEAN, req : Request]
Connected == [op |-> "connected"]

Req(op, p, w, o) ==
  [op |-> op, phone |-> p, password |-> w, old |-> o, left |-> <<>>]

\* The login screen when it is loaded: the stored login if the box was ticked.
Loaded(d) ==
  IF d.isChecked
  THEN [phone |-> d.phone, password |-> d.password, box |-> TRUE]
  ELSE [phone |-> NoText, password |-> NoText, box |-> FALSE]

Init ==
  /\ account \in [Phones -> Passwords \cup {NoText}]
  /\ authed = NoText
  /\ conn = FALSE /\ toServer = <<>> /\ toApp = <<>>
  /\ root = "login"
  /\ islogined = FALSE /\ phonenumber = NoText /\ passwordsaved = NoText
  /\ disk = [isChecked |-> FALSE, phone |-> NoText, password |-> NoText]
  /\ form = Loaded(disk)
  /\ asked = FALSE /\ edited = FALSE /\ accepted = {} /\ breaks = 0

-----------------------------------------------------------------------------
(* The wire and the server. *)

\* sendMessageWithHander: a request sent while there is no connection is lost.
Sent(r) == IF conn THEN Append(toServer, r) ELSE toServer
Room == Len(toServer) + Len(toApp) < MaxFlight

Connect ==
  /\ ~conn /\ Room
  /\ conn' = TRUE
  /\ toApp' = Append(toApp, Connected)
  /\ UNCHANGED <<server, toServer, global, screen, disk, asked, edited,
                 accepted, breaks>>

\* The connection breaks: what was under way to the server is lost, and so is
\* what had not reached the phone; the server forgets the login.  The program
\* does nothing on MsgClosed.
Disconnect ==
  /\ conn /\ breaks < MaxBreaks
  /\ conn' = FALSE
  /\ toServer' = <<>>
  /\ \E n \in 0..Len(toApp) : toApp' = SubSeq(toApp, 1, n)
  /\ authed' = NoText
  /\ breaks' = breaks + 1
  /\ UNCHANGED <<account, global, screen, disk, asked, edited, accepted>>

\* Which requests the server grants, and what it does then.
Grants(r) ==
  CASE r.op \in {"login", "autologin"} ->
         r.phone \in Phones /\ account[r.phone] = r.password
    [] r.op = "logout"   -> TRUE
    [] r.op = "phone"    -> authed # NoText /\ account[r.phone] = NoText
    [] r.op = "password" -> authed # NoText /\ account[authed] = r.old
    [] r.op = "register" -> account[r.phone] = NoText
    [] r.op = "find"     -> account[r.phone] # NoText

Serve ==
  /\ toServer # <<>>
  /\ toServer' = Tail(toServer)
  /\ LET r == Head(toServer)
         pair == <<r.phone, r.password>> IN
     \E ok \in {Grants(r)} :
       /\ toApp' = Append(toApp, [ok |-> ok, req |-> r])
       /\ authed' = CASE ok /\ r.op \in {"login", "autologin", "phone"} -> r.phone
                      [] ok /\ r.op = "logout" -> NoText
                      [] OTHER -> authed
       /\ account' = CASE ok /\ r.op \in {"register", "find"} ->
                            [account EXCEPT ![r.phone] = r.password]
                       [] ok /\ r.op = "password" ->
                            [account EXCEPT ![authed] = r.password]
                       [] ok /\ r.op = "phone" ->
                            [account EXCEPT ![authed] = NoText,
                                            ![r.phone] = account[authed]]
                       [] OTHER -> account
       /\ accepted' = IF ok /\ r.op \in {"login", "autologin", "register"}
                      THEN accepted \cup {pair} ELSE accepted
  /\ UNCHANGED <<conn, global, screen, disk, asked, edited, breaks>>

-----------------------------------------------------------------------------
(* The screens before the login. *)

\* A block that reads the login form is still to run.
FormAwaited ==
  \/ \E i \in 1..Len(toServer) : toServer[i].op = "login"
  \/ \E i \in 1..Len(toApp) : toApp[i] # Connected /\ toApp[i].req.op = "login"

Edit(p, w) ==
  /\ root = "login"
  /\ form' = [form EXCEPT !.phone = p, !.password = w]
  /\ edited' = (edited \/ (FormAwaited /\ form' # form))
  /\ UNCHANGED <<server, wire, global, root, disk, asked, accepted, breaks>>

onClickRememberMe ==
  /\ root = "login"
  /\ form' = [form EXCEPT !.box = ~@]
  /\ UNCHANGED <<server, wire, global, root, disk, asked, edited, accepted,
                 breaks>>

\* Mutant: the login is remembered when it is submitted.
onClickLoginStores ==
  /\ root = "login" /\ Room
  /\ form.phone # NoText /\ form.password # NoText
  /\ phonenumber' = form.phone
  /\ passwordsaved' = form.password
  /\ disk' = [isChecked |-> form.box, phone |-> form.phone,
              password |-> form.password]
  /\ toServer' = Sent(Req("login", form.phone, form.password, NoText))
  /\ asked' = TRUE
  /\ UNCHANGED <<server, conn, toApp, islogined, screen, edited, accepted,
                 breaks>>

\* The credentials are kept for reconnections before the server has seen them.
onClickLogin ==
  /\ root = "login" /\ Room
  /\ form.phone # NoText /\ form.password # NoText
  /\ phonenumber' = form.phone
  /\ passwordsaved' = form.password
  /\ toServer' = Sent(Req("login", form.phone, form.password, NoText))
  /\ asked' = TRUE
  /\ UNCHANGED <<server, conn, toApp, islogined, screen, disk, edited, accepted,
                 breaks>>

\* RegisterViewController.btnRegisterOK, FindPasswordViewController.onClickOK.
Submit(op, p, w) ==
  /\ root = "login" /\ Room
  /\ toServer' = Sent(Req(op, p, w, NoText))
  /\ UNCHANGED <<server, conn, toApp, global, screen, disk, asked, edited,
                 accepted, breaks>>

-----------------------------------------------------------------------------
(* The screens of a logged-in user. *)

AppRequest(r) ==
  /\ root = "app" /\ Room
  /\ toServer' = Sent(r)
  /\ UNCHANGED <<server, conn, toApp, global, screen, disk, asked, edited,
                 accepted, breaks>>

onClickExit == AppRequest(Req("logout", NoText, NoText, NoText))

ChangePhone(p) == AppRequest(Req("phone", p, NoText, NoText))

ChangePassword(old, new) == AppRequest(Req("password", NoText, new, old))

-----------------------------------------------------------------------------
(* What comes back, one message at a time on the main thread. *)

Answered == toApp # <<>> /\ Head(toApp) # Connected
Granted(op) == Answered /\ Head(toApp).ok /\ Head(toApp).req.op = op
Handled == toApp' = Tail(toApp)

\* Mutant: the login after a reconnection takes what the disk remembers.
OnConnectedFromDisk ==
  /\ toApp # <<>> /\ Head(toApp) = Connected /\ Handled
  /\ toServer' = IF islogined
                 THEN Sent(Req("autologin", disk.phone, disk.password, NoText))
                 ELSE toServer
  /\ UNCHANGED <<server, conn, global, screen, disk, asked, edited, accepted,
                 breaks>>

\* MsgConnected: a user who has logged in is logged in again.
OnConnected ==
  /\ toApp # <<>> /\ Head(toApp) = Connected /\ Handled
  /\ toServer' = IF islogined
                 THEN Sent(Req("autologin", phonenumber, passwordsaved, NoText))
                 ELSE toServer
  /\ UNCHANGED <<server, conn, global, screen, disk, asked, edited, accepted,
                 breaks>>

\* Mutant: islogined is not set.
OnLoginUnmarked ==
  /\ Granted("login") /\ Handled
  /\ LET left == Head(toApp).req.left
         s == IF left = <<>> THEN form ELSE left[1] IN
     disk' = [isChecked |-> s.box, phone |-> s.phone, password |-> s.password]
  /\ phonenumber' = Head(toApp).req.phone
  /\ root' = "app"
  /\ UNCHANGED <<server, conn, toServer, islogined, passwordsaved, form, asked,
                 edited, accepted, breaks>>

\* The block of a login screen.  It stores what the screen's fields hold by now;
\* the server's phone number is the request's.
OnLogin ==
  /\ Granted("login") /\ Handled
  /\ LET left == Head(toApp).req.left
         s == IF left = <<>> THEN form ELSE left[1] IN
     disk' = [isChecked |-> s.box, phone |-> s.phone, password |-> s.password]
  /\ phonenumber' = Head(toApp).req.phone
  /\ islogined' = TRUE
  /\ root' = "app"
  /\ UNCHANGED <<server, conn, toServer, passwordsaved, form, asked, edited,
                 accepted, breaks>>

\* Mutant: the login after a reconnection opens the app like any other.
OnAutoLoginOpens ==
  /\ Granted("autologin") /\ Handled
  /\ phonenumber' = Head(toApp).req.phone
  /\ islogined' = TRUE
  /\ root' = "app"
  /\ UNCHANGED <<server, conn, toServer, passwordsaved, form, disk, asked,
                 edited, accepted, breaks>>

\* The block of the login after a reconnection.
OnAutoLogin ==
  /\ Granted("autologin") /\ Handled
  /\ phonenumber' = Head(toApp).req.phone
  /\ islogined' = TRUE
  /\ UNCHANGED <<server, conn, toServer, passwordsaved, screen, disk, asked,
                 edited, accepted, breaks>>

\* Requests of a login screen that is replaced keep what it holds.
Leave(r) == IF r.op = "login" /\ r.left = <<>> THEN [r EXCEPT !.left = <<form>>]
                                               ELSE r

\* onClickExit's block: a new login screen, loaded from disk, becomes the root.
\* A second tap on exit makes it come twice.
OnLogout ==
  /\ Granted("logout")
  /\ toServer' = [i \in 1..Len(toServer) |-> Leave(toServer[i])]
  /\ toApp' = [i \in 1..(Len(toApp) - 1) |->
                 IF toApp[i + 1] = Connected THEN Connected
                 ELSE [toApp[i + 1] EXCEPT !.req = Leave(@)]]
  /\ root' = "login"
  /\ form' = Loaded(disk)
  /\ asked' = (asked /\ root = "login")
  /\ UNCHANGED <<server, conn, global, disk, edited, accepted, breaks>>

\* Mutant: the session keeps the old number.
OnPhoneKept(text) ==
  /\ Granted("phone") /\ Handled
  /\ edited' = (edited \/ text # Head(toApp).req.phone)
  /\ UNCHANGED <<server, conn, toServer, global, screen, disk, asked, accepted,
                 breaks>>

\* ChangePhoneViewController's block keeps what the field holds by now.
OnPhone(text) ==
  /\ Granted("phone") /\ Handled
  /\ phonenumber' = text
  /\ edited' = (edited \/ text # Head(toApp).req.phone)
  /\ UNCHANGED <<server, conn, toServer, islogined, passwordsaved, screen, disk,
                 asked, accepted, breaks>>

\* RegisterViewController's block stores what the fields hold by now, under the
\* box as it was stored before.
OnRegister(p, w) ==
  /\ Granted("register") /\ Handled
  /\ disk' = [isChecked |-> disk.isChecked, phone |-> p, password |-> w]
  /\ edited' = (edited \/ p # Head(toApp).req.phone
                       \/ w # Head(toApp).req.password)
  /\ UNCHANGED <<server, conn, toServer, global, screen, asked, accepted, breaks>>

\* The other answers only show a message: a granted change of the password (the
\* saved one stays), a granted new password, and whatever was refused.
OnMessageOnly ==
  /\ \/ Granted("password") \/ Granted("find")
     \/ Answered /\ ~Head(toApp).ok
  /\ Handled
  /\ UNCHANGED <<server, conn, toServer, global, screen, disk, asked, edited,
                 accepted, breaks>>

\* The program is killed and started again: only the disk is left.
Restart ==
  /\ breaks < MaxBreaks
  /\ breaks' = breaks + 1
  /\ conn' = FALSE /\ toServer' = <<>> /\ toApp' = <<>> /\ authed' = NoText
  /\ root' = "login"
  /\ islogined' = FALSE /\ phonenumber' = NoText /\ passwordsaved' = NoText
  /\ form' = Loaded(disk)
  /\ asked' = FALSE
  /\ UNCHANGED <<account, disk, edited, accepted>>

-----------------------------------------------------------------------------
Network == Connect \/ Disconnect \/ Serve

User ==
  \/ \E p \in Phones \cup {NoText}, w \in Passwords \cup {NoText} : Edit(p, w)
  \/ onClickRememberMe
  \/ onClickLogin
  \/ \E op \in {"register", "find"}, p \in Phones, w \in Passwords :
       Submit(op, p, w)
  \/ onClickExit
  \/ \E p \in Phones : ChangePhone(p)
  \/ \E old, new \in Passwords : ChangePassword(old, new)

Deliver ==
  \/ OnConnected \/ OnLogin \/ OnAutoLogin \/ OnLogout
  \/ \E p \in Phones \cup {NoText} : OnPhone(p)
  \/ \E p \in Phones \cup {NoText}, w \in Passwords \cup {NoText} :
       OnRegister(p, w)
  \/ OnMessageOnly

Next == Network \/ User \/ Deliver \/ Restart

\* The main thread takes up what arrived, the server answers, and the network
\* module dials again (--autoconnect=true --connectinterval=5).
Fairness == WF_vars(Deliver) /\ WF_vars(Serve) /\ WF_vars(Connect)

Spec == Init /\ [][Next]_vars /\ Fairness

-----------------------------------------------------------------------------
TypeOK ==
  /\ account \in [Phones -> Passwords \cup {NoText}]
  /\ authed \in Phones \cup {NoText}
  /\ conn \in BOOLEAN
  /\ toServer \in Seq(Request)
  /\ toApp \in Seq(Reply \cup {Connected})
  /\ root \in {"login", "app"}
  /\ islogined \in BOOLEAN
  /\ phonenumber \in Phones \cup {NoText}
  /\ passwordsaved \in Passwords \cup {NoText}
  /\ form \in Screen
  /\ disk \in Disk
  /\ asked \in BOOLEAN /\ edited \in BOOLEAN
  /\ accepted \subseteq Phones \X Passwords
  /\ breaks \in 0..MaxBreaks

Idle == toServer = <<>> /\ toApp = <<>>

\* In the app and with nothing under way, the program and the server do not
\* disagree on who the user is, unless a field was edited under a running change.
NeverMistaken ==
  root = "app" /\ Idle /\ authed # NoText /\ ~edited => authed = phonenumber

\* A login offered at the next start is one the server has accepted, unless a
\* field was edited while the login was under way.
RememberedWereAccepted ==
  disk.isChecked /\ ~edited => <<disk.phone, disk.password>> \in accepted

\* Whoever sees the app is a user a reconnection will log in again, with a phone
\* number unless its field was emptied under a running change.
AppMeansLoggedIn ==
  root = "app" => /\ islogined /\ passwordsaved # NoText
                  /\ edited \/ phonenumber # NoText

\* Nothing but a login the user submitted on this login screen leads back into
\* the app: not the automatic login of a reconnection after a logout.
LogoutIsFinal == [][root = "login" /\ root' = "app" => asked]_vars

\* In the app, a connection that stays up ends up logged in, as long as the
\* credentials kept for it are those of an account.
RelogsIn ==
  LET Good == /\ conn /\ root = "app"
              /\ phonenumber \in Phones /\ account[phonenumber] = passwordsaved
  IN  Good ~> (authed # NoText \/ ~Good)
=============================================================================
