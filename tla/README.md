# TLA+ verification of the NFC lock client

`src/` is the iOS client of a system of door locks: Swift view controllers on
top of a compiled C++ network module. A user logs in, sees the locks that are
his (`ownerLockArray`) and those he was authorised for (`otherLockArray`), opens
a popup with the password a lock accepts at the moment, and manages his locks:
password, offline time, logoff, registration, authorised users, open records.

Everything the program knows comes from the server: answers to requests and
pushes that replace caches. What is hard is hardly ever in one function; it is
in the order in which taps, answers, pushes, broken connections and restarts
come, and in the many copies the screens keep of what the server said.

Paths below are relative to `src/nfclockios/nfclockios/`.

## Inventory

| Component | Code | State | Operations | Correct when |
|---|---|---|---|---|
| Message bridge | `ioscpp/OCWrap.mm`, `protomsgutil.swift`, `AppDelegate.swift` | messages received, what each callback thread does, the main queue | `initModule`, `sendMessageWithHander`, callback → `dispatch_sync` → completion block or `onSrvMessage` | messages take effect in order, a block runs at most once, no thread waits for ever |
| Session caches | `GlobalSessionUser.swift` | lock arrays, users, password map, `srvDuration` | `onGetLocks`, `onGetUsers`, `onGetLockPassword`, posts to screens | caches never go back, no screen misses a change |
| Session | `LoginViewController.swift`, `AppDelegate.swift`, `Globals.swift`, registration, lost password, profile, change of phone and password | `islogined`, `phonenumber`, `passwordsaved`, root view, `NSUserDefaults` | login, relogin on reconnection, logout, register, find password, change of phone and password, restart | program and server agree on who is logged in; only accepted logins are remembered; a logout is final |
| Lock password and clock | `LoginViewController.swift`, `GlobalSessionUser.getCurtimePassword`, `vc/DoorOpenPopViewController.swift`, `swiftmoment` | `srvDuration`, password lists, the popup | sync at login, push of lists, open a popup | the popup shows a password the lock accepts |
| Lock management | `vc/LockManagementViewController.swift` and the screens it opens, `vc/LockRegisterViewController.swift`, `vc/DoorManagementViewController.swift` | copies of a lock in list, details and logoff screen, the stack of screens | offline time, password, logoff, register, push | copies are what the server holds or held; answers close the screens that asked |
| Lock directory | `vc/DoorOpenViewController.swift`, `vc/DoorManagementViewController.swift` | local copies of the lock arrays, search text | load, search, tap by index | a tap opens the lock that is drawn |
| Authorised users of a lock | `vc/UserUserInfoViewController.swift`, `vc/UserUserSelectToLockViewController.swift` | members shown, sections of users, marks kept in table cells | load, add, delete; mark, mark a section, OK | the members shown are the server's; OK authorises the users that were marked, but for marks that scrolled away |
| Members of the profile | `vc/MyProfileMemberManagerViewController.swift`, `vc/DoorUserAddUserViewController.swift` | copy or search result of the cached users | load on push, search, invite, confirm, add, delete | the copy settles on the server's users; answers are told; only the entry without a user ends the app |
| Open records | `vc/OpenRecordDetailViewController.swift` | day, records, counts | choose a day, load | the records are those of the day that is shown |
| QR scanning | `QRCodeReader/`, `vc/QRCodeHelper.swift`, `vc/LockRegisterViewController.swift` | frames in the main queue, the reader's screen | scan, cancel, a code to open a lock (`LockDirectory`) or to fill a field (`LockManagement`) | the lock of the code is shown; one scan closes the reader and nothing else |
| Banners | `uicontrols/Classes/TSMessage.m`, `TSMessageView.m`, `Globals.swift` | queue of views, `notificationActive`, timers and animations to come | show, fade in, tap, time out | every banner is shown, in order, one at a time |
| Hexadecimal codec | `protomsgutil.swift` | none | `hexStringFromData`, `hexStringToData` | decoding inverts encoding |

How they interact: a screen calls `getLocalMsg`, which gives the network module
an encoded request and a handler. The module calls the handler, and
`onSrvMessage` for everything that is not an answer, on threads of its own; both
hand a block to the main queue with `dispatch_sync`. Caches are changed there and
posted to the screens by `dispatch_async` and `NSNotificationCenter`. Screens pass
copies to one another (`curLock`, delegates).

Generated protobuf code, the Boost headers, widgets, keyboard helpers and static
screens are listed in `PROJECT.json` and not modelled: they hold no state of the
program, or are not its own code.

## Modules

| Module | What it is |
|---|---|
| `Messages` | the messages both modules below talk about |
| `Delivery` | abstract: messages take effect in order of arrival, a block runs at most once |
| `Bridge` | the bridge with its threads, `dispatch_sync`, main queue, caches and posts; refines `Delivery` when there is one callback thread |
| `Session` | who is logged in, on the phone and on the server, with broken connections and restarts |
| `LockPassword` | the server's clock as the phone reckons it, password lists, the popup |
| `LockManagement` | one lock, its copies on the phone, the stack of screens |
| `Authorisation` | the users of one lock: the members shown, the screen that marks more of them, its table and cells |
| `LockDirectory` | the caches of locks, the two lists made of them, search, taps, codes and the screens above |
| `OpenRecords` | a lock's open records, a day at a time |
| `BannerQueue` | abstract: banners are shown in the order in which they were posted, none is skipped, each makes way |
| `Banners` | the banners with their views, timers, taps and fade-outs; refines `BannerQueue` |
| `Members` | the users of a profile, the screen that manages them, the connection; its banners are those of `BannerQueue` |
| `Codec` | a message's bytes as a string of hexadecimal digits and back |
| `MC*` | values of the constants for TLC, symmetry sets; `MCBridge` checks `Codec` on short data |
| `BridgeProofs`, `SessionProofs`, `OpeningProofs`, `LockManagementProofs`, `AuthorisationProofs`, `LockDirectoryProofs`, `MembersProofs`, `BannersProofs` | theorems and proofs; `BridgeProofs` is also about `Delivery` and `Codec`, `OpeningProofs` about `LockPassword` and `OpenRecords` |

Two abstract specifications stand between modules. `Bridge` implements `Delivery`, and the
modules that take answers and pushes from one sequence each (`Session`, `LockManagement`,
`Authorisation`, `OpenRecords`, `Members`) rest on what it promises for one callback thread.
`Banners` implements `BannerQueue`, and `Members` extends that instead of the code with its
animations: the product of the two is beyond TLC, and the refinement makes it unnecessary.

`PROJECT.json` maps every definition to the lines it stands for. A definition
whose comment starts with "Mutant" is a plausible bug of the definition below it;
no next-state relation uses it, it shows that a property is able to fail.

### Bridge

A callback thread is `idle`, has a message to `decode`, or waits in `dispatch_sync`
(`sync`). `Take`, `Discard` and `DispatchSync` are its steps; `RunInit`, `RunSync`
and `RunNotify` run the head of the main queue; `Ask` and `Open` are what the user
does between two blocks. A push is a topic and a number, and a cache holds the
number of the push it was filled from: of the content only its age matters here.
`answers[r]` counts how often the completion block of request `r` ran.

Which threads the C++ module calls back on cannot be seen in the repository.
`Threads` is a constant: what needs one thread (order) is checked and proved for
one, and what does not (no deadlock, no lost block, no lost refresh) for any set.

### Session

Answers carry their request, since the code's completion blocks capture it, and
blocks that read text fields when they run (`OnLogin`, `OnPhone`, `OnRegister`)
take the fields' content at that time, not what was sent. `form` is the newest
login screen; a request of a login screen that has since been replaced takes what
that screen was left with along (`left`). Requests without a connection are lost,
and `Disconnect` loses what is under way, answers from the back. `Restart` keeps
only `disk`. `asked`, `edited`, `accepted` and `breaks` are history.

The server is external and does what the client's code expects of it: it accepts
a login whose password is the account's, forgets the login with the connection,
and so on. Authentication codes are one more reason for a refusal and are left out.

### LockPassword

Time is in ticks of the server's clock, `Second` ticks to a second. The phone's
clock is `now + skew`; the user may set it. The server's stamp is cut to seconds
and the answer takes at most `MaxLatency` ticks, an assumption: nothing in the
code bounds the way of an answer. `getCurtimePassword` and the sync at login are
translated as they stand, with the time that cannot be read (`if let srv`), the
last entry that never applies and the list that has no key. A time stamp that cannot be
read is nil in Swift, and nil is below every time: such a start has always come
(`NotAfter`), such an end is always past (`Before`).

### LockManagement

One lock is enough: no operation relates two. Its record goes from the server
(`srv`) by a push (`toApp`) to the cache (`owner`), from there to the list
(`listed`), to the details (`lock`) and to the logoff screen (`copy`). Locks have
the two fields the screens change. `stack` is the navigation stack above the list.

A block pops "its" navigation controller, and a view controller that was popped
has none. So a request knows whether its screen (`self`) and the details below it
(`home`) are still those it was sent from; `PopTo` updates that. Blocks then do what
UIKit does: nothing, or pop the top.

A registration can have the QR reader above it (`onClickScanQR`), and the granted answer of
the registration then pops the reader. `frames` are the camera's blocks in the main queue, each
the number of codes it saw; `captureOutput` runs one, and each of its codes pops whatever
is on top, the reader or the registration. A registration that is gone takes its frames along: its
helper's view controller has no navigation controller to pop. `pops` is history: what may have popped
a screen since the reader was opened (codes seen, ways back, answers), counted up to two; a reader that
is opened before the frames of the last one have run starts with two.

`doubt` is set when the details may differ from the server for a reason outside
this visit: a refusal, a loss, another phone, or a list that was not up to date
when the details were opened. `edited` is set when a field was changed between a
request and the block that reads it.

### Authorisation

`srv` is whom the server lets open the lock, `shown` what the members' screen shows
(`lockUserArray`), `preset` the copy of it that the selection was given, `users` the cache
`userSelArray`. A request knows whether the members' screen that sent it is still
there (`home`): the block of a change asks for the members even when it is not.

The selection keeps no list of marks: they are the state of buttons in table cells.
`rows` is what the table counted when it was loaded, `sections` what `loaddata` made of
the cache, `cells` the cells on the screen with the user each was drawn for and its
mark. The cache starts with one blank user (`Blank`), as the code's array does, and the server
takes that one for nobody. `Scroll` draws new cells from `sections` and `preset` and drops the others with
their marks; `onClickOK` reads marks from the cells and names from `sections`. A push of
users only fills the cache; a push of a type the app does not name is posted as
`onDataCallback`, and then `sections` changes under a table that is not reloaded. An
index beyond the arrays ends the app (`Die`). The departments come in the order of a
Swift dictionary, which `SetToSeq` fixes arbitrarily. A heading's own mark is lost when the heading is
drawn again, so a tap on it marks or clears.

Closed members' screens also react to posts until they are freed; nobody sees the
answers and they are left out. `doubt` is set when the members may differ from
the server for a reason outside this visit. History, of no effect on the program: `hand` are the rows
the user has marked, one by one or with their heading; `lost` are those of them whose mark the table
has forgotten, since their cell left the screen (`UserUserSelectToLockViewController.swift:84`) or was
not on it when the heading was tapped (`:165`); `fresh` says that the selection was opened
on the server's members with nothing under way, by no one changed since, and `moved` that
the users changed under the table. A change carries of this `asked`, the users marked by hand,
`kept`, those of them whose mark is not lost, and `sound`, that the selection was `fresh` and not `moved`.

### LockDirectory

`caches` are the arrays of `GlobalSessionUser`, `posts` the queued `onLockCallback` posts that
`Bridge` counts per topic. Each list has its `arrays`, loaded or searched from the caches,
and `cells` drawn from the arrays by the run loop some time after `reloadData` (`laid`). A
cell's button holds an index, so that `onClickLock` reads the arrays of the moment. Arrays and
caches start with one empty lock, as `[db_lock()]` makes them. `above` is the navigation
stack over each list; of the screens on it only the lock they were opened with matters
here, what they do is in `LockPassword` and `LockManagement`. `captureOutput` runs all
codes of a frame in one block, each popping the top and pushing the lock it finds; a frame
that was queued before the camera stopped is run as well. Logging out and in makes new
lists and keeps the caches.

What is above the second list, the details or a registration, is one screen here and
may close by itself, when an answer arrives (`ManagementAnswered`). What lies above it, the registration's
own reader included, is in `LockManagement`.

### OpenRecords

A record is its day; the server counts them and `records` is the count shown per day.
`curDate` and the button's `title` are two things in the code and here. Every
change of the day asks, the date dialog twice. `missed` says that the screen's last
question was refused or lost. Answers come in order, which is what `Bridge` shows for one
callback thread.

### Banners

`messages` and `notificationActive` are the code's; `screen` is the views that were faded in and
not removed. `calls` are what the main thread still has to run for a view: the block that starts
its timer (`arm`), the timer, the call of a tap, the end of a fade-out. `fadeOutNotification`
cancels a timer that runs, but neither the call of a tap nor a timer that is not set
yet; so a tap and a timer may each fade the same view out (`again`), and both ends
remove the first of the queue. `crossed` is history: such a crossing happened since nothing
was to come. Titles are empty in this program, a banner is its text; positions, heights
and the length of the animation play no part.

### Members

`cache` and `list` are `userArray` of `GlobalSessionUser` and of the screen. Rows hold their entry,
no index, and a request names the user of the row, so lists are sets; both arrays
start with one entry that has no user (`Blank`), which a search, a button or a name
that is looked up cannot read: the app ends (`Die`). A search finds the users `Searches`
lists for its text. `link` adds the connection to the server: lost, made, logged in
again; the network module may also report that it could not connect (`ConnectFails`), which shows
a banner (`Failed`) and leads to no login. `mine` says that the screen that adds users and sent the request is still there; the
block of a granted one pops it. The server is external: invitations change nothing a push
shows, an addition needs a registered user, a changed list is pushed before or after the answer.

### Codec

Characters are the digits they stand for. `hexStringToData` reads two at a time and leaves a
single one at the end, as the code does; it never meets a character that is no digit,
since it decodes what `hexStringFromData` or the server encoded.

## Runs

| Run | Instance | Shows |
|---|---|---|
| `bridge_order` | 1 thread, 1 request, 2 pushes per topic, backlog 2 | `Bridge` implements `Delivery`; caches never go back; every push of a notified topic gets on the screen |
| `bridge_threads` | 2 threads, 1 request, 1 push per topic, backlog 1 | no thread waits for ever, no refresh is lost, an answer is served, in every interleaving |
| `session_accounts` | 2 accounts, 1 password, 2 messages under way, 1 break | program and server agree on who is logged in; only accepted logins are remembered; a logout is final |
| `session_relogin` | 1 account, 2 passwords, 1 message under way, 2 breaks | a user in the app is logged in again after every reconnection |
| `lock_password` | 1 lock, 7 lists, 2 ticks to a second, latency 2, clocks −3, 0, 3, 10 ticks | the popup opens with a password of the right time, and never with one whose end is past or unknown |
| `lock_management` | 2 offline times, 2 passwords, 2 messages under way, 1 trouble, 1 frame of up to 2 codes | what the details show ends up the server's; answers close only the screens that asked; who logs a lock off has typed a password the server has held; a single code closes no registration |
| `authorised_users` | 2 users of 1 department, 2 lists, 1 cell, 2 messages under way, 1 trouble | the members shown become the server's again |
| `authorised_rows` | 3 users of 2 departments, 4 lists, 2 cells, 1 message under way | the app dies only when the users changed under the table; OK authorises nobody the user did not mark, and leaves out no one whose mark the table kept |
| `lock_directory` | 3 locks of 2 devices, 2 lists, 1 word, 2 posts, 2 frames of up to 2 codes | no push is missed by the first list; taps open what is drawn; codes leave one screen above a list |
| `open_records` | 3 days, 2 records a day, 4 messages under way, 1 trouble | the records shown end up those of the day on the button and never shrink |
| `banners` | 3 texts, 3 views | the banners implement `BannerQueue`; one is on the screen unless a tap and a timer crossed |
| `members` | 1 user, found or not, 2 messages or banners under way, 1 post, 1 break | the members shown settle on the server's; answers get on the screen; only the blank entry ends the app |

Why the bounds are enough. In the bridge the hard cases need two pushes of one
topic at once, one with the thread and one behind it; both runs have room for
them or for two threads at once, and the theorems drop the bounds for the safety
properties. In the session, two accounts and two messages under way are a change
of number overtaken by a logout or a second login; passwords matter only as right
and wrong. A lock list of four entries has a first, an inner, an empty and a last
slot, the seven lists cover the missing, the short, the unordered and the one with unreadable
times, and 10 ticks reach past every slot. In the lock's management two messages are two
taps on OK, or an answer and a push, the case in which a late answer meets another screen; one frame may have two codes, and one that
waits may be crossed by an answer or a way back. Two messages about the members are a
deletion and the question of a screen opened later, or two changes whose questions
cross, for which one cell is enough; three users in cells for two make a cell go and come back while another stays, and the four lists
shrink a section, exchange two rows, remove a section and remove all. The two lists of locks differ in
the lock that is gone and the one that moved to the other array, and the caches start with the
blank lock; two frames are one that is run while another waits, and one of two codes may close the popup it opened. Three views are one on the screen, one behind it and one that
fades out a second time; with three texts one that is posted may be shown, waiting or
new. One member is enough since no operation relates two;
two messages are an answer and its push in either order, one post is
the moment between the cache and the screen. Four messages are the two of the dialog, one for another day and a
record that is added between them. `MaxBreaks`
and `MaxTrouble` bound how often something goes wrong; one loss with everything
under way, followed by a return to normal, is what the properties are about.

`CHECK_DEADLOCK FALSE` is in the configurations where nothing need happen: the user
may stop and nothing be under way. `lock_password` checks for deadlock.

Symmetry: accounts in `session_accounts` and passwords in `lock_management` are
interchangeable. No run with a liveness property uses symmetry.

### Properties that hold under a condition

Several properties exempt `edited`: the code reads the fields of a screen when the
answer comes (`LoginViewController.swift:34`, `ChangePhoneViewController.swift:58`,
`RegisterViewController.swift:115`, `LockUpdatePasswordViewController.swift:72`),
and a user who types on while a request is under way does make it store what the
server never saw. `OfflineTimeAgrees` exempts refusals and losses: the details show
the new time before the answer and keep it after a refusal
(`LockManagementViewController.swift:207`). `AnswersCloseTheirScreen` lets an
answer about the offline time, or about a registration, close what was opened above the screen
that asked, since the block pops whatever is on top (`LockManagementViewController.swift:200`,
`LockRegisterViewController.swift:104`): of two taps on OK the second answer closes the details, or
what is above them by then. It never closes anything once the screen that asked (the
details, for the offline time) is gone. `RelogsIn` asks that
the saved password is the account's: a change of password does not update it
(`MyInfoUpdatePasswordViewController.swift:62`). `OkAuthorisesTheMarked` asks that the
selection was opened on the server's members, that no other phone changed them and that the sections stayed:
it leaves out the marks that were lost, which the code does not send (`:84`, `:165` of
`UserUserSelectToLockViewController.swift`);
the members handed over are those shown (`UserUserInfoViewController.swift:94`), so that
one who was just deleted is marked there and authorised again, and after
`onDataCallback` the marks of the old rows are read for the users of the new ones
(`UserUserSelectToLockViewController.swift:41`). For the same reason `DiesOnlyIfMoved` does not say
that the app never dies. `TapOpensTheDrawn` asks that cells were
drawn since the last reload: a tap in between reads new arrays at an old index
(`DoorOpenViewController.swift:160`). `ListFollows` allows the found locks or all of them,
since a push replaces what was found (`:74`), and the management list is left out of it:
its observer has a name nobody posts (`DoorManagementViewController.swift:27`).
`ScanShowsTheLock` speaks of a frame's last code, since an unknown code after a known one
closes its popup (`QRCodeHelper.swift:38`), and `ScanKeepsRegistration` of a single code with nothing
else that pops the reader: two codes close the registration, and so does one
that is queued behind the user's way back or behind the granted answer. `OneAtATime` exempts the time after a tap and a timer have crossed
(`TSMessage.m:361`), in which banners do overlap; `BannersInOrder` exempts nothing.
`DiesOnlyUnfilled` does not say that the app never dies before the first push of users.
`AnswersAreTold` speaks of texts: two answers with the same text may share one banner. These are how the code is; no text
of the repository claims otherwise, so none is listed as a finding.

### Fairness

`Bridge` assumes weak fairness of the threads and of the main run loop: the system
schedules them, and every step of theirs stays enabled until taken. Nothing makes
the server send or the user act. `Session` assumes that the main thread takes up
what arrived, that a server that is connected answers, and that the network module
dials again (`--autoconnect=true --connectinterval=5`, `AppDelegate.swift:16`). `Banners` assumes
that the calls of every view are run: the main queue, timers with a delay of one second, ends of
animations. That is what makes a banner go, and `BannerQueue`'s own fairness, that a
banner makes way, is part of what `BannersInOrder` shows. `Members` assumes it of the banners and that
the main thread takes up what arrived. The other modules state no liveness.

## Proofs

TLAPS checks the following for all values of the constants, under the named
assumptions of the modules (`BoundsAssumption`, `BridgeAssumption`,
`LockPasswordAssumption`, `LockManagementAssumption`, `AuthorisationAssumption`,
`LockDirectoryAssumption`, `SessionAssumption`, `OpenRecordsAssumption`, `MembersAssumption`,
`BannersAssumption`), which TLC evaluates on the instances.

* `BridgeProofs`. For any set of threads: type correctness; `WaitingIffQueued`, which
  is inductive with the types; `AnsweredOnce`, which is not: it needs that an
  answer exists once, waiting or held by a thread, and that its request has been
  answered by the server but not served (`AnswersInFlight`); `NoMissedRefresh`,
  which needs the former (a block that runs is one a thread waits for).
  With one thread, initial states of `Bridge` are initial
  states of `Delivery` and every step is one of its steps or a stutter, under
  `Pending`, the message the thread holds followed by those behind it. In `Delivery`,
  `PushesInOrder` is inductive: what waits is newer than the caches and in order, so that no
  cache goes back; that none does in `Bridge` is then a consequence. At the end of the module, that `hexStringToData` inverts `hexStringFromData` for data of any length.
* `SessionProofs`. All properties of `session_accounts`, for any accounts, passwords, bounds on
  what is under way and breaks. What they need is an order: with
  the app shown no login is under way behind a logout, with the login screen shown no logout
  behind a login (`ExitsInOrder`); and the account the server has logged in is
  that of the last answer under way which speaks of one, or the program's when there is
  none (`AuthedAgrees`), which with nothing under way is `NeverMistaken`. `GrantsAreSound` and
  `FormsHold` carry an accepted login from the server to the fields that are stored,
  `LoginsWereAsked` a submitted one to the change of the root view. The lemmas `Sending`,
  `Serving`, `Taking` and `Cutting` say once what the four ways to change the wire do to order
  and contents; each action is then one of them and a change of the screen.
* `OpeningProofs`. First the popup. The inductive invariant adds to the types that an answer
  under way is no older than `MaxLatency`, its stamp less than a second older still
  (`RepliesAreFresh`), and that the lists are those last pushed. `OneSlot`: in an
  ascending list no two entries apply at once, so that the first one found is the
  only one. From the invariant: the reckoned time lags by less than `Lag`, a popup opens with a
  password that applies or did less than `Lag` ago, and with one at all when the list
  covers the time. `SomeSlot` needs the last entry that has started; its existence
  is obtained from the least-element theorem of well-founded sets. `OpensBeforeTheEnd`
  holds for any list, ordered and readable or not. Then the records, whose names begin with `Records`
  where `LockPassword` has the plain one. `CountsGrow`: the server's counts only grow, so an
  answer's are no more than those of the answers behind it and no less than those shown; hence `RecordsNeverShrink`.
  `DayFollows` follows the screen's last question through the wire: unless it was refused or lost, it asks for the day
  on the button, then its answer tells of that day, then the records are those of that day; with
  nothing under way it is `RecordsOfTheDay`.
* `LockManagementProofs`. The types, with the seven shapes of the stack, the reader above a
  registration included, and the copies that exist on it; `BlocksFindScreens`, that a request whose block will find its screen has
  it on the stack, without which a block could pop an empty stack or fill details
  that are gone; `ServerHeld`, `RequestsNamePasswords` and `LogoffsWereChecked`, which
  carry a password from the server through a push to the copy a logoff is compared
  with and on to the request; `FramesCounted`, that frames wait only for a registration whose
  reader has seen codes and, when that was one and nothing else popped the reader, with the reader still
  on top. Together with `CopiesWereHeld` they are inductive; the
  three properties of steps follow from them. The proof states the invariant once more
  by one request and one message at a time (`Parts`), with operators of constant
  level, so that each way a block ends (`Stay`, `PopTo`, `PopIfOpen`) and the sending of
  a request are one lemma each. `Visit` is a second invariant, on top of the first, for a visit
  of the details without a refusal, a loss or another phone: for the offline time the details
  are ahead of the server by the requests under way, and show the time of the last of them
  (`TimeFollows`); for the password the server is ahead of the details by the answers under way, the
  last of which names its password (`PasswordFollows`); and every request under way was sent
  since the details were opened (`ThisVisit`). Each is a lemma for a sequence that grows
  at its end and one for a sequence that loses its head. With nothing under way they are
  `OfflineTimeAgrees` and `PasswordAgrees`.
* `AuthorisationProofs`. The inductive invariant adds to the types three things. `RowsHaveUsers`
  and `MarksHaveCauses` speak of the table: unless the users moved its rows are those of
  the sections, a cell shows the user of its row, and a mark not set by hand is a member's; `MarksStay`, with them,
  that a mark set by hand and not lost is on its cell. `DiesOnlyIfMoved` follows. `ClosedAreFollowed` and `ShownFollows` say that the members shown
  are right, or an answer under way is, or a question is or will be asked; with nothing under way
  this is `MembersAgree`. `FreshIsCurrent` and `SoundIsExact` carry what the user marked
  from the table to the request, as the first change the server will serve, whence `OkAuthorisesTheMarked`.
* `LockDirectoryProofs`. `ListFollows` with the shapes of the variables is inductive: a push
  queues a post before anybody can see the difference, and whoever loads the first list
  loads what the caches hold. For the rest the module shows what a search keeps (`Only`) and what
  the codes of a frame leave on the stack (`Scans`), both functions that recurse where the code loops. The
  library's theorems for that take operators as parameters, so two lemmas replace them, both
  about sets: `UpTo`, a set that has 0 and each successor has all numbers, from the least-element
  theorem of well-founded sets; and `Iteration`, such a function is there. `Right` is
  the second invariant. In it `ListsRight` says that the locks in the lists are locks and cells that
  were drawn since the last reload show the arrays (`CellsDrawn`), whence the two properties of taps; `ScreensRight` says
  what the stacks can be, at most one screen above a list (`Stacks`), whence `OneAbove` and `ScanShowsTheLock`.
* `MembersProofs`. Besides the types, while the phone is logged in the last push under way carries the
  server's users, or none is under way and the cache has them (`PushFollows`); and unless a post is
  queued the screen has what the cache has, or what a search found in it (`ScreenFollows`). Together they
  are `MembersSettle`, and the second is `DiesOnlyUnfilled`: `Blank` is on the screen only if the cache has it. They
  need `MineHasScreen`: only the screen that adds users has requests and answers of its own
  under way, so that none pops another screen.
* `BannersProofs`. Inductive are, besides the types: the first of the queue is on the screen with
  a call to come, those behind it are not, and all texts and numbers differ (`QueueInv`); views
  on the screen have a call to come, and an extra end of a fade-out comes only before another
  (`CallsInv`); and without a crossing the one view on the screen is the first of the
  queue and all calls are its own (`NotCrossed`), whence `OneAtATime`. From `QueueInv`, every step
  of `Banners` is a step of `BannerQueue` or a stutter. That banners make way in the end, the
  other half of `BannersInOrder`, is left to TLC.

The type invariants of `Bridge`, `Session`, `Authorisation`, `LockPassword`, `LockManagement` and
`Banners`, and `CopiesWereHeld` of `LockManagement`, are proved and not repeated by a run.

Only model-checked is liveness, which under fairness, like `ENABLED`, is out of the prover's
reach: `ThreadsReturn`, `AnswerIsServed`, `PushIsShown`, `RelogsIn`, `AnswersAreTold`, and of
`BannersInOrder` that every banner makes way in the end; that its steps are those of `BannerQueue`
is the theorem `ShownInOrder`. Every invariant and every property of steps that a run checks is
a theorem. No module that is proved about declares a `RECURSIVE` operator.

## Not modelled

* The network module, whose source is not in the repository; `Bridge`, `Session`, `LockManagement`,
  `Authorisation`, `OpenRecords` and `Members` model it from the way `OCWrap.mm` uses it.
* `cpplib/boost`: the headers of the Boost libraries, some two million lines that the network module
  was compiled against. They are nearly all the C and C++ in the repository. The program's
  own is the declarations in `ioscpp/cppwrap.h`, which include three of them for the types of
  a callback, and the wrapper `ioscpp/OCWrap.mm`; the rest is Swift and Objective-C. A share of
  modelled lines that counts C and C++ files is therefore next to nothing, however much of the
  program is modelled.
* Generated protobuf code and its runtime, the date library beyond what `LockPassword` uses of it,
  layout, widgets, the keyboard manager, static screens: no state of the program.
* The profile's default offline time and identity number: plain fields, stored when the
  server granted them. The former is an input of `Register` in `LockManagement`.
* The preview of open records and the number of users in the details of a lock: display only.

## Plan

What is modelled covers the operations of the program that change its state. Left for later:

1. `Members` with more than one phone of a profile, each with a screen of its own, as
   `PushFollows` would then be about several wires.
2. An abstract specification of a cache that follows the server through pushes, of which
   `LockDirectory`, `Members` and `Authorisation` would each be shown to be an implementation: their
   proofs follow the last push or answer by invariants of the same shape.
