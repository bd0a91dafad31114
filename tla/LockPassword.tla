---------------------------- MODULE LockPassword ----------------------------
(***************************************************************************)
(* The password a lock accepts now: the offset between the phone's clock   *)
(* and the server's (srvDuration, taken when a login is answered), the     *)
(* password lists GlobalSessionUser keeps, getCurtimePassword and the      *)
(* popup of DoorOpenPopViewController that shows its result.               *)
(*                                                                         *)
(* Time is counted in ticks of the server's clock.  utc() is the phone's   *)
(* clock; its zone plays no part.                                          *)
(***************************************************************************)
EXTENDS Integers, Sequences

CONSTANTS
  Locks,       \* device ids
  Passwords,
  NoPassword,  \* "", what is shown when no password applies
  Unreadable,  \* a time stamp moment() cannot read: nil
  Lists,       \* the password lists the server may push for a lock
  Second,      \* ticks in a second; the server's stamp is in whole seconds
  MaxLatency,  \* assumed: ticks within which a login is answered
  Skews,       \* how far the phone's clock may be set ahead of the server's
  MaxTime      \* bound: ticks

Entry == [start : Nat \cup {Unreadable}, password : Passwords]

ASSUME LockPasswordAssumption ==
  /\ NoPassword \notin Passwords
  /\ Unreadable \notin Int
  /\ Lists \subseteq Seq(Entry) /\ <<>> \in Lists
  /\ Second \in Nat \ {0}
  /\ MaxLatency \in Nat
  /\ Skews \subseteq Int /\ 0 \in Skews
  /\ MaxTime \in Nat

VARIABLES
  now,       \* the server's clock
  skew,      \* the phone's clock minus the server's
  replies,   \* answers to logins under way: when sent, and the time they carry
  duration,  \* srvDuration
  synced,    \* srvDuration was taken, and the phone's clock not set since
  pushed,    \* the lists of the last push, per lock; <<>> if it names no list
  lists,     \* lockpasswordMap; <<>> for a lock that is no key
  popup      \* what the popup shows; open is FALSE when there is none

vars == <<now, skew, replies, duration, synced, pushed, lists, popup>>

Replies == [at : Nat, stamp : Nat, readable : BOOLEAN]
Popup == [open : BOOLEAN, lock : Locks, password : Passwords \cup {NoPassword}]
Closed(p) == [p EXCEPT !.open = FALSE, !.password = NoPassword]

Empty == [l \in Locks |-> <<>>]

Init ==
  /\ now = 0
  /\ skew \in Skews
  /\ replies = {}
  /\ duration = 0
  /\ synced = FALSE
  /\ pushed = Empty
  /\ lists = Empty
  /\ popup \in [open : {FALSE}, lock : Locks, password : {NoPassword}]

utc == now + skew

\* The time sent with an answer, cut to whole seconds.
Stamp(t) == t - (t % Second)

-----------------------------------------------------------------------------
\* The world outside the program.
Tick ==
  /\ now < MaxTime
  /\ \A r \in replies : now < r.at + MaxLatency
  /\ now' = now + 1
  /\ UNCHANGED <<skew, replies, duration, synced, pushed, lists, popup>>

SetClock(s) ==
  /\ s # skew
  /\ skew' = s
  /\ synced' = FALSE
  /\ UNCHANGED <<now, replies, duration, pushed, lists, popup>>

\* The server accepts a login; the time it sends may be one moment() cannot read.
Answer(readable) ==
  /\ replies' = replies \cup
       {[at |-> now, stamp |-> Stamp(now), readable |-> readable]}
  /\ UNCHANGED <<now, skew, duration, synced, pushed, lists, popup>>

-----------------------------------------------------------------------------
\* Mutant: the difference is taken the other way round.
OnLoginReversed(r) ==
  /\ r \in replies
  /\ replies' = replies \ {r}
  /\ duration' = IF r.readable THEN r.stamp - utc ELSE duration
  /\ synced' = (synced \/ r.readable)
  /\ UNCHANGED <<now, skew, pushed, lists, popup>>

\* The block of LoginViewController.onClickLogin: `if let srv' skips a time that
\* cannot be read.  The login after a reconnection leaves srvDuration alone.
OnLogin(r) ==
  /\ r \in replies
  /\ replies' = replies \ {r}
  /\ duration' = IF r.readable THEN utc - r.stamp ELSE duration
  /\ synced' = (synced \/ r.readable)
  /\ UNCHANGED <<now, skew, pushed, lists, popup>>

\* Mutant: the map is filled without being emptied first.
onGetLockPasswordMerges(m) ==
  /\ pushed' = m
  /\ lists' = [l \in Locks |-> IF m[l] = <<>> THEN lists[l] ELSE m[l]]
  /\ UNCHANGED <<now, skew, replies, duration, synced, popup>>

\* onGetLockPassword: the map is emptied and filled with what was pushed.
onGetLockPassword(m) ==
  /\ pushed' = m
  /\ lists' = m
  /\ UNCHANGED <<now, skew, replies, duration, synced, popup>>

\* nil is below every time.
NotAfter(start, t) == start = Unreadable \/ start <= t
Before(t, end) == end # Unreadable /\ t < end

\* Mutant: an entry does not apply yet at the instant it starts.
SlotExclusive(arr, t, i) ==
  NotAfter(arr[i].start, t - 1) /\ Before(t, arr[i + 1].start)

\* Mutant: an entry whose end cannot be read does not end.
SlotOpenEnded(arr, t, i) ==
  NotAfter(arr[i].start, t)
    /\ (arr[i + 1].start = Unreadable \/ Before(t, arr[i + 1].start))

\* Entry i applies at t.
Slot(arr, t, i) == NotAfter(arr[i].start, t) /\ Before(t, arr[i + 1].start)

\* The first entry that applies at t.  The last entry never does: it only ends
\* the one before it.
getCurtimePassword(arr, t) ==
  LET slots == {i \in 1..(Len(arr) - 1) : Slot(arr, t, i)} IN
  IF slots = {} THEN NoPassword
  ELSE arr[CHOOSE i \in slots : \A j \in slots : i <= j].password

\* The server's time as the program reckons it.
curlocktime == utc - duration

\* A lock is tapped: the popup loads its password, once.
Open(l) ==
  /\ ~popup.open
  /\ popup' = [open |-> TRUE, lock |-> l,
               password |-> getCurtimePassword(lists[l], curlocktime)]
  /\ UNCHANGED <<now, skew, replies, duration, synced, pushed, lists>>

Close ==
  /\ popup.open
  /\ popup' = Closed(popup)
  /\ UNCHANGED <<now, skew, replies, duration, synced, pushed, lists>>

\* The program is started again: nothing of this is on disk.
Restart ==
  /\ replies' = {}
  /\ duration' = 0 /\ synced' = FALSE
  /\ pushed' = Empty /\ lists' = Empty
  /\ popup' = Closed(popup)
  /\ UNCHANGED <<now, skew>>

Next ==
  \/ Tick
  \/ \E s \in Skews : SetClock(s)
  \/ \E b \in BOOLEAN : Answer(b)
  \/ \E r \in replies : OnLogin(r)
  \/ \E m \in [Locks -> Lists] : onGetLockPassword(m)
  \/ \E l \in Locks : Open(l)
  \/ Close
  \/ Restart

Spec == Init /\ [][Next]_vars

-----------------------------------------------------------------------------
TypeOK ==
  /\ now \in Nat
  /\ skew \in Int
  /\ replies \subseteq Replies
  /\ duration \in Int
  /\ synced \in BOOLEAN
  /\ pushed \in [Locks -> Lists] /\ lists \in [Locks -> Lists]
  /\ popup \in Popup

\* How far the reckoned time may be behind the server's: the way of the answer
\* and the part of a second its stamp has lost.
Lag == MaxLatency + Second

\* An answer under way is no older than the assumed latency, and its stamp less
\* than a second older than that.
RepliesAreFresh ==
  \A r \in replies : /\ r.at <= now /\ now <= r.at + MaxLatency
                     /\ r.stamp <= r.at /\ r.at < r.stamp + Second

\* The reckoned time is never ahead of the server's, and less than Lag behind,
\* until the phone's clock is set: a password is never shown before its time.
ReckonedTimeLags ==
  synced => curlocktime <= now /\ now < curlocktime + Lag

Readable(arr) == \A i \in 1..Len(arr) : arr[i].start # Unreadable

Ascending(arr) ==
  /\ Readable(arr)
  /\ \A i, j \in 1..Len(arr) : i < j => arr[i].start <= arr[j].start

\* Entry i of a list applies at t, or did less than Lag ago.
Applies(arr, t, i) == arr[i].start <= t /\ t < arr[i + 1].start + Lag

\* A popup that opens over an ascending list shows a password of that list, as
\* last pushed, which the lock accepts now or did less than Lag ago.
OpensWithValidPassword ==
  [][popup'.open /\ ~popup.open /\ synced /\ Ascending(pushed[popup'.lock])
       /\ popup'.password # NoPassword
     => \E i \in 1..(Len(pushed[popup'.lock]) - 1) :
          /\ pushed[popup'.lock][i].password = popup'.password
          /\ Applies(pushed[popup'.lock], now, i)]_vars

\* Whatever the order of a list, and with times that cannot be read, too, it
\* never shows a password whose end has passed Lag ago or is unknown.
OpensBeforeTheEnd ==
  [][popup'.open /\ ~popup.open /\ synced /\ popup'.password # NoPassword
     => \E i \in 1..(Len(pushed[popup'.lock]) - 1) :
          /\ pushed[popup'.lock][i].password = popup'.password
          /\ pushed[popup'.lock][i + 1].start # Unreadable
          /\ now < pushed[popup'.lock][i + 1].start + Lag]_vars

\* It shows one whenever the list has covered the time for as long as Lag.
OpensWhenCovered ==
  [][popup'.open /\ ~popup.open /\ synced /\ Ascending(pushed[popup'.lock])
     => LET arr == pushed[popup'.lock]
            n == Len(arr) IN
        n > 1 /\ arr[1].start + Lag <= now /\ now < arr[n].start
        => popup'.password # NoPassword]_vars
=============================================================================
