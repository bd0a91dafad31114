--------------------------- MODULE LockDirectory ---------------------------
(***************************************************************************)
(* The lists of locks (vc/DoorOpenViewController.swift and                 *)
(* vc/DoorManagementViewController.swift): the caches a push replaces, the *)
(* arrays each screen copies or searches them into, and the cells drawn    *)
(* from the arrays.  A button holds the index of its lock, not the lock:   *)
(* a tap reads the arrays of the moment, and cells are drawn again only    *)
(* when the run loop comes to it.  The first screen also opens a lock by   *)
(* its code (vc/QRCodeHelper.swift), with the reader pushed above it.  The *)
(* screens above the second list, and the reader of the registration among *)
(* them, are those of LockManagement: here they are one screen.            *)
(***************************************************************************)
EXTENDS Integers, Sequences, SequencesExt

CONSTANTS
  Locks,
  Blank,      \* the lock made by db_lock()
  Device,     \* lockdeviceid of each lock
  Lists,      \* the lists of locks the server may push
  Texts,      \* what may be searched for
  NoText,     \* the empty text
  Matching,   \* the locks whose position or device has the text
  Frames,     \* the codes a frame of the camera may show, in order
  MaxPosts,   \* bound: onLockCallback posts that are queued
  MaxFrames   \* bound: frames that are queued

AnyLock == Locks \cup {Blank}
Reader == "reader"
AddLock == "add"
Codes == {Device[l] : l \in Locks}
Arrays == [owner : Seq(AnyLock), other : Seq(AnyLock)]

ASSUME LockDirectoryAssumption ==
  /\ Blank \notin Locks /\ {Reader, AddLock} \cap AnyLock = {}
  /\ Lists \subseteq [owner : Seq(Locks), other : Seq(Locks)]
  /\ NoText \in Texts /\ Matching \in [Texts -> SUBSET AnyLock]
  /\ Matching[NoText] = AnyLock
  /\ DOMAIN Device = Locks
  /\ Frames \subseteq Seq(Codes) \ {<<>>}
  /\ MaxPosts \in Nat /\ MaxFrames \in Nat

Tabs == {"open", "manage"}

VARIABLES
  caches,     \* ownerLockArray and otherLockArray of GlobalSessionUser
  posts,      \* onLockCallback posts that are queued
  shown,      \* the tab that is shown, "login" or "dead"
  appearing,  \* viewDidAppear of the list that is shown is to come
  arrays,     \* ownerLockArray and otherLockArray of each list
  text,       \* the text of the first list's search bar
  cells,      \* its cells: whom each shows and what its button holds
  laid,       \* the cells were drawn after the last reloadData
  above,      \* the screens above it: that of a lock, the reader, a new lock's
  frames      \* frames of the camera that are queued: their codes

lists == <<arrays, text, cells, laid>>
vars == <<caches, posts, shown, appearing, lists, above, frames>>

Cell == [kind : {"owner", "other"}, index : Nat, lock : AnyLock]

NoLocks == [owner |-> <<Blank>>, other |-> <<Blank>>]

\* The tab bar is made anew.  Only the first list loads before it appears.
Init ==
  /\ caches = NoLocks /\ posts = 0
  /\ shown = "open" /\ appearing = TRUE
  /\ arrays = [t \in Tabs |-> NoLocks]
  /\ text = NoText
  /\ cells = [t \in Tabs |-> <<>>] /\ laid = [t \in Tabs |-> FALSE]
  /\ above = [t \in Tabs |-> <<>>] /\ frames = <<>>

OnList(t) == shown = t /\ above[t] = <<>>

-----------------------------------------------------------------------------
(* What reloads a list. *)

\* reloadData: the cells are to be drawn again.
Reload(t, a) ==
  /\ arrays' = [arrays EXCEPT ![t] = a]
  /\ laid' = [laid EXCEPT ![t] = FALSE]
  /\ UNCHANGED cells

onGetLocks(list) ==
  /\ posts < MaxPosts /\ shown # "dead"
  /\ caches' = list /\ posts' = posts + 1
  /\ UNCHANGED <<shown, appearing, lists, above, frames>>

\* Mutant: a list that is gone still observes and takes a post of its own.
onLockCallbackTwice ==
  /\ posts > 0 /\ shown # "dead"
  /\ posts' = posts - 2
  /\ IF shown = "login" THEN UNCHANGED lists
                        ELSE Reload("open", caches) /\ UNCHANGED text
  /\ UNCHANGED <<caches, shown, appearing, above, frames>>

\* Mutant: the cells are drawn again from the arrays as they are.
onLockCallbackRedraws ==
  /\ posts > 0 /\ shown # "dead"
  /\ posts' = posts - 1
  /\ IF shown = "login" THEN UNCHANGED lists
                        ELSE Reload("open", arrays["open"]) /\ UNCHANGED text
  /\ UNCHANGED <<caches, shown, appearing, above, frames>>

\* The management's observer has another name, which nobody posts.
onLockCallback ==
  /\ posts > 0 /\ shown # "dead"
  /\ posts' = posts - 1
  /\ IF shown = "login" THEN UNCHANGED lists
                        ELSE Reload("open", caches) /\ UNCHANGED text
  /\ UNCHANGED <<caches, shown, appearing, above, frames>>

viewDidAppear ==
  /\ appearing /\ shown \in Tabs
  /\ appearing' = FALSE
  /\ Reload(shown, caches)
  /\ UNCHANGED <<caches, posts, shown, text, above, frames>>

\* The elements of a sequence that are in a set: SelectSeq, written as a function
\* to reason about.
Only(s, S) ==
  LET among[n \in 0..Len(s)] ==
        IF n = 0 THEN <<>>
        ELSE IF s[n] \in S THEN Append(among[n - 1], s[n]) ELSE among[n - 1]
  IN among[Len(s)]

Found(list, txt) == [k \in {"owner", "other"} |-> Only(list[k], Matching[txt])]

\* Mutant: what was found before is not removed.
doSearchAppends(t, txt) ==
  /\ OnList(t)
  /\ text' = IF t = "open" THEN txt ELSE text
  /\ Reload(t, [k \in {"owner", "other"} |->
                  arrays[t][k] \o Found(caches, txt)[k]])
  /\ UNCHANGED <<caches, posts, shown, appearing, above, frames>>

doSearch(t, txt) ==
  /\ OnList(t)
  /\ text' = IF t = "open" THEN txt ELSE text
  /\ Reload(t, Found(caches, txt))
  /\ UNCHANGED <<caches, posts, shown, appearing, above, frames>>

-----------------------------------------------------------------------------
(* Cells and taps. *)

\* Mutant: the index of a row, whichever array it is in.
OpenCellByRow(a, r) ==
  LET n == Len(a.owner)
  IN IF r <= n THEN [kind |-> "owner", index |-> r, lock |-> a.owner[r]]
               ELSE [kind |-> "other", index |-> r, lock |-> a.other[r - n]]

\* A row of the first list, and of the management's below the one to add.
OpenCell(a, r) ==
  LET n == Len(a.owner)
  IN IF r <= n THEN [kind |-> "owner", index |-> r, lock |-> a.owner[r]]
               ELSE [kind |-> "other", index |-> r - n, lock |-> a.other[r - n]]

ManageCell(a, r) == [kind |-> "owner", index |-> r, lock |-> a.owner[r]]

Drawn(t, a) ==
  IF t = "open" THEN [r \in 1..(Len(a.owner) + Len(a.other)) |-> OpenCell(a, r)]
                ELSE [r \in 1..Len(a.owner) |-> ManageCell(a, r)]

\* The run loop draws the list that is shown.
Layout(t) ==
  /\ OnList(t) /\ ~laid[t]
  /\ cells' = [cells EXCEPT ![t] = Drawn(t, arrays[t])]
  /\ laid' = [laid EXCEPT ![t] = TRUE]
  /\ UNCHANGED <<caches, posts, shown, appearing, arrays, text, above, frames>>

Put(t, s) == above' = [above EXCEPT ![t] = s]

\* An index beyond the array ends the app.
onClickLock(t, r) ==
  /\ OnList(t) /\ r \in DOMAIN cells[t]
  /\ LET c == cells[t][r] IN
       IF c.index \in DOMAIN arrays[t][c.kind]
       THEN Put(t, <<arrays[t][c.kind][c.index]>>) /\ UNCHANGED shown
       ELSE shown' = "dead" /\ UNCHANGED above
  /\ appearing' = FALSE
  /\ UNCHANGED <<caches, posts, lists, frames>>

onClickAddnew ==
  /\ OnList("manage")
  /\ Put("manage", <<AddLock>>)
  /\ appearing' = FALSE
  /\ UNCHANGED <<caches, posts, shown, lists, frames>>

\* The user goes back to the list; the reader is cancelled.
Back(t) ==
  /\ shown = t /\ above[t] # <<>>
  /\ Put(t, Front(above[t]))
  /\ appearing' = (above'[t] = <<>>)
  /\ UNCHANGED <<caches, posts, shown, lists, frames>>

\* What is above the management also closes by itself, when a request of its own
\* has been answered, on whichever tab the user is by then; codes that are read
\* into a new lock's fields may close that one too.
ManagementAnswered ==
  /\ shown \in Tabs /\ above["manage"] # <<>>
  /\ Put("manage", <<>>)
  /\ appearing' = (appearing \/ shown = "manage")
  /\ UNCHANGED <<caches, posts, shown, lists, frames>>

SelectTab(t) ==
  /\ shown \in Tabs \ {t}
  /\ shown' = t
  /\ appearing' = (above[t] = <<>>)
  /\ UNCHANGED <<caches, posts, lists, above, frames>>

-----------------------------------------------------------------------------
(* Codes. *)

onClickOpenDoor ==
  /\ OnList("open")
  /\ Put("open", <<Reader>>)
  /\ appearing' = FALSE
  /\ UNCHANGED <<caches, posts, shown, lists, frames>>

\* The camera runs while the reader is on top; frames go through the main queue.
Capture(codes) ==
  /\ shown = "open" /\ above["open"] = <<Reader>>
  /\ Len(frames) < MaxFrames
  /\ frames' = Append(frames, codes)
  /\ UNCHANGED <<caches, posts, shown, appearing, lists, above>>

AllLocks == caches.owner \o caches.other

\* Mutant: the locks of others cannot be opened by their codes.
OwnWith(code) == {i \in DOMAIN caches.owner :
                    AllLocks[i] # Blank /\ Device[AllLocks[i]] = code}

\* The locks with a code.
With(code) == {i \in DOMAIN AllLocks :
                 AllLocks[i] # Blank /\ Device[AllLocks[i]] = code}

\* Mutant: the reader is left open.
ScanAbove(s, code) == IF With(code) = {} THEN s
                      ELSE Append(s, AllLocks[Max(With(code))])

\* didScanResult pops whatever is on top, then onScanedText pushes the last lock
\* with the code.
Scan(s, code) ==
  LET popped == IF s = <<>> THEN s ELSE Front(s)
  IN IF With(code) = {} THEN popped ELSE Append(popped, AllLocks[Max(With(code))])

\* One code after the other.
Scans(s, codes) ==
  LET after[n \in 0..Len(codes)] ==
        IF n = 0 THEN s ELSE Scan(after[n - 1], codes[n])
  IN after[Len(codes)]

\* A frame that comes late, when the reader is gone, does the same.
captureOutput ==
  /\ frames # <<>> /\ shown \in Tabs
  /\ frames' = Tail(frames)
  /\ Put("open", Scans(above["open"], Head(frames)))
  /\ appearing' = IF shown # "open" THEN appearing
                  ELSE above'["open"] = <<>> /\ (appearing \/ above["open"] # <<>>)
  /\ UNCHANGED <<caches, posts, shown, lists>>

-----------------------------------------------------------------------------
(* Logout and login: the caches stay. *)

setLoginviewAsRootView ==
  /\ shown \in Tabs
  /\ shown' = "login" /\ appearing' = FALSE
  /\ text' = NoText
  /\ cells' = [t \in Tabs |-> <<>>] /\ laid' = [t \in Tabs |-> FALSE]
  /\ above' = [t \in Tabs |-> <<>>] /\ frames' = <<>>
  /\ UNCHANGED <<caches, posts, arrays>>

setAppviewAsRootView ==
  /\ shown = "login"
  /\ shown' = "open" /\ appearing' = TRUE
  /\ arrays' = [open |-> caches, manage |-> NoLocks]
  /\ UNCHANGED <<caches, posts, text, cells, laid, above, frames>>

-----------------------------------------------------------------------------
Server == \E list \in Lists : onGetLocks(list)

User ==
  \/ \E t \in Tabs :
       \/ \E txt \in Texts : doSearch(t, txt)
       \/ \E r \in DOMAIN cells[t] : onClickLock(t, r)
       \/ Back(t) \/ SelectTab(t)
  \/ onClickOpenDoor \/ onClickAddnew
  \/ setLoginviewAsRootView \/ setAppviewAsRootView

RunLoop ==
  \/ onLockCallback \/ viewDidAppear \/ captureOutput \/ ManagementAnswered
  \/ \E t \in Tabs : Layout(t)

Camera == \E codes \in Frames : Capture(codes)

Next == Server \/ User \/ RunLoop \/ Camera

Spec == Init /\ [][Next]_vars

-----------------------------------------------------------------------------
TypeOK ==
  /\ caches \in Arrays /\ posts \in 0..MaxPosts
  /\ shown \in Tabs \cup {"login", "dead"} /\ appearing \in BOOLEAN
  /\ arrays \in [Tabs -> Arrays] /\ text \in Texts
  /\ \A t \in Tabs : \A r \in DOMAIN cells[t] : cells[t][r] \in Cell
  /\ laid \in [Tabs -> BOOLEAN]
  /\ above \in [Tabs -> Seq(AnyLock \cup {Reader, AddLock})]
  /\ frames \in Seq(Frames)

\* With nothing posted the first list is what the caches hold, or what a search
\* finds in them, on whichever screen the user is: no push is missed.
ListFollows ==
  posts = 0 /\ shown \in Tabs
    => arrays["open"] \in {caches, Found(caches, text)}

\* A tap opens the lock its cell shows, in both lists and through any pushes,
\* searches and switches, unless it comes between a reload and its drawing.
TapOpensTheDrawn ==
  [][\A t \in Tabs : \A r \in DOMAIN cells[t] :
       onClickLock(t, r) /\ laid[t] => above'[t] = <<cells[t][r].lock>>]_vars

\* With nothing posted a lock tapped in the drawn first list is one the caches
\* hold: a lock that was taken away cannot be opened any more.
TapOpensCurrent ==
  [][\A r \in DOMAIN cells["open"] :
       onClickLock("open", r) /\ laid["open"] /\ posts = 0 =>
         \E k \in {"owner", "other"} : \E i \in DOMAIN caches[k] :
           above'["open"] = <<caches[k][i]>>]_vars

\* However many codes are seen, and on whichever tab the user is by then, at most
\* one screen is above each list.
OneAbove == \A t \in Tabs : Len(above[t]) <= 1

\* A frame that ends with the code of a lock in the caches shows such a lock.
ScanShowsTheLock ==
  [][captureOutput /\ shown = "open" =>
       \A k \in {"owner", "other"} : \A i \in DOMAIN caches[k] :
         caches[k][i] # Blank /\ Device[caches[k][i]] = Last(Head(frames)) =>
           \E l \in Locks : /\ above'["open"] = <<l>>
                            /\ Device[l] = Last(Head(frames))]_vars
=============================================================================
