---------------------------- MODULE OpeningProofs ----------------------------
(***************************************************************************)
(* Opening a lock, and looking at its openings.                            *)
(*                                                                         *)
(* LockPassword: for every set of lists, every latency and every setting   *)
(* of the phone's clock, the reckoned time trails the server's by less     *)
(* than Lag, and a popup that opens shows a password the lock accepts.     *)
(*                                                                         *)
(* OpenRecords: for every number of days and records and of messages under *)
(* way, the screen comes to show the records of the day on its button, and *)
(* records do not go away.                                                 *)
(***************************************************************************)
EXTENDS LockPassword, OpenRecords, SequenceTheorems, WellFoundedInduction, TLAPS

-----------------------------------------------------------------------------
(* The operators of LockPassword. *)

\* A set of natural numbers that is not empty has a least element.
LEMMA LeastNatural ==
  ASSUME NEW S, S \subseteq Nat, S # {}
  PROVE  \E m \in S : \A k \in S : m <= k
PROOF
<1>1. PICK m \in S : \A k \in S : <<k, m>> \notin OpToRel(<, Nat)
  BY WFMin, NatLessThanWellFounded, Zenon
<1>2. m \in Nat /\ \A k \in S : k \in Nat  OBVIOUS
<1>3. \A k \in S : ~(k < m)  BY <1>1, <1>2, Zenon DEF OpToRel
<1> QED  BY <1>2, <1>3

\* A stamp is a natural number, not after the time it stands for and less than
\* a second before it.
LEMMA StampBound ==
  ASSUME NEW t \in Nat
  PROVE  /\ Stamp(t) \in Nat /\ Stamp(t) <= t /\ t < Stamp(t) + Second
PROOF
<1>1. Second \in Nat \ {0}  BY LockPasswordAssumption
<1>2. /\ t % Second \in 0..(Second - 1)
      /\ t % Second <= t
  BY <1>1
<1> QED  BY <1>1, <1>2 DEF Stamp

LEMMA ReadableTimes ==
  ASSUME NEW arr \in Seq(Entry), Readable(arr)
  PROVE  \A k \in 1..Len(arr) : arr[k].start \in Nat /\ arr[k].password \in Passwords
PROOF
<1> TAKE k \in 1..Len(arr)
<1>1. arr[k] \in Entry  OBVIOUS
<1> QED  BY <1>1 DEF Entry, Readable

\* In an ascending list at most one entry applies at a time.
LEMMA OneSlot ==
  ASSUME NEW arr \in Seq(Entry), Ascending(arr), NEW t \in Int,
         NEW i \in 1..(Len(arr) - 1), NEW j \in 1..(Len(arr) - 1),
         Slot(arr, t, i), Slot(arr, t, j)
  PROVE  i = j
PROOF
<1>1. \A k \in 1..Len(arr) : arr[k].start \in Nat
  BY ReadableTimes DEF Ascending
<1>2. ~(i < j)
  <2> SUFFICES ASSUME i < j PROVE FALSE  OBVIOUS
  <2>1. i + 1 = j \/ i + 1 < j  OBVIOUS
  <2>2. arr[i + 1].start <= arr[j].start  BY <1>1, <2>1 DEF Ascending
  <2> QED  BY <1>1, <2>2, LockPasswordAssumption DEF Slot, NotAfter, Before
<1>3. ~(j < i)
  <2> SUFFICES ASSUME j < i PROVE FALSE  OBVIOUS
  <2>1. j + 1 = i \/ j + 1 < i  OBVIOUS
  <2>2. arr[j + 1].start <= arr[i].start  BY <1>1, <2>1 DEF Ascending
  <2> QED  BY <1>1, <2>2, LockPasswordAssumption DEF Slot, NotAfter, Before
<1> QED  BY <1>2, <1>3

\* What getCurtimePassword returns for any list: nothing, or the password of an
\* entry that applies.
LEMMA CurtimePassword ==
  ASSUME NEW arr \in Seq(Entry), NEW t \in Int
  PROVE  \/ getCurtimePassword(arr, t) = NoPassword
         \/ \E i \in 1..(Len(arr) - 1) :
              /\ Slot(arr, t, i)
              /\ getCurtimePassword(arr, t) = arr[i].password
PROOF
<1> DEFINE slots == {i \in 1..(Len(arr) - 1) : Slot(arr, t, i)}
           first == CHOOSE i \in slots : \A j \in slots : i <= j
<1>1. CASE slots = {}  BY <1>1 DEF getCurtimePassword
<1>2. CASE slots # {}
  <2>1. slots \subseteq Nat  OBVIOUS
  <2>2. \E i \in slots : \A j \in slots : i <= j
    <3> HIDE DEF slots
    <3> QED  BY <1>2, <2>1, LeastNatural
  <2>3. first \in slots  BY <2>2
  <2>4. getCurtimePassword(arr, t) = arr[first].password
    BY <1>2 DEF getCurtimePassword
  <2> HIDE DEF first
  <2> QED  BY <2>3, <2>4
<1> QED  BY <1>1, <1>2

\* It is "" or a password of the list's type.
LEMMA CurtimePasswordType ==
  ASSUME NEW arr \in Seq(Entry), NEW t \in Int
  PROVE  getCurtimePassword(arr, t) \in Passwords \cup {NoPassword}
PROOF
<1> SUFFICES ASSUME NEW i \in 1..(Len(arr) - 1) PROVE arr[i].password \in Passwords
  BY CurtimePassword
<1>1. arr[i] \in Entry  OBVIOUS
<1> QED  BY <1>1 DEF Entry

\* A list that starts by t and ends after it has an entry that applies at t,
\* and getCurtimePassword then returns a password.
LEMMA SomeSlot ==
  ASSUME NEW arr \in Seq(Entry), NEW t \in Int, Len(arr) > 1, Readable(arr),
         arr[1].start <= t, t < arr[Len(arr)].start
  PROVE  getCurtimePassword(arr, t) # NoPassword
PROOF
<1> DEFINE ended == {i \in 1..(Len(arr) - 1) : t < arr[i + 1].start}
           slots == {i \in 1..(Len(arr) - 1) : Slot(arr, t, i)}
           first == CHOOSE i \in slots : \A j \in slots : i <= j
<1>1. \A k \in 1..Len(arr) : arr[k].start \in Nat /\ arr[k].password \in Passwords
  BY ReadableTimes
<1>2. PICK m \in ended : \A k \in ended : m <= k
  <2>1. Len(arr) - 1 \in ended  OBVIOUS
  <2>2. ended \subseteq Nat  OBVIOUS
  <2> HIDE DEF ended
  <2> QED  BY <2>1, <2>2, LeastNatural
<1>3. arr[m].start <= t
  <2>1. CASE m = 1  BY <2>1
  <2>2. CASE m # 1
    <3>1. m - 1 \in 1..(Len(arr) - 1) /\ m - 1 \notin ended  BY <1>2, <2>2
    <3>2. ~(t < arr[m].start)  BY <3>1
    <3> QED  BY <1>1, <1>2, <3>2
  <2> QED  BY <2>1, <2>2
<1>4. m \in slots
  BY <1>1, <1>2, <1>3, LockPasswordAssumption DEF Slot, NotAfter, Before
<1>5. \E i \in slots : \A j \in slots : i <= j
  <2>1. slots \subseteq Nat  OBVIOUS
  <2> HIDE DEF slots
  <2> QED  BY <1>4, <2>1, LeastNatural
<1>6. first \in slots  BY <1>5
<1>7. getCurtimePassword(arr, t) = arr[first].password
  BY <1>4 DEF getCurtimePassword
<1>8. arr[first].password \in Passwords
  <2>1. first \in 1..Len(arr)
    <3> HIDE DEF first
    <3> QED  BY <1>6
  <2> HIDE DEF first
  <2> QED  BY <1>1, <2>1
<1> QED  BY <1>7, <1>8, LockPasswordAssumption

-----------------------------------------------------------------------------
(* The inductive invariant of LockPassword. *)

\* Answers under way are fresh, so the offset taken from one is right; the map
\* is the last push.
IInv == TypeOK /\ RepliesAreFresh /\ ReckonedTimeLags /\ lists = pushed

LEMMA InitIInv == Init => IInv
PROOF
<1> SUFFICES ASSUME Init PROVE IInv  OBVIOUS
<1>1. Empty \in [Locks -> Lists]  BY LockPasswordAssumption DEF Empty
<1>2. TypeOK  BY <1>1, LockPasswordAssumption DEF Init, TypeOK, Popup
<1> QED  BY <1>2 DEF Init, IInv, RepliesAreFresh, ReckonedTimeLags

LEMMA StepIInv == IInv /\ [Next]_vars => IInv'
PROOF
<1> SUFFICES ASSUME IInv, [Next]_vars PROVE IInv'  OBVIOUS
<1> USE DEF IInv
<1>0. /\ Second \in Nat \ {0} /\ MaxLatency \in Nat /\ Lag \in Nat
      /\ Skews \subseteq Int
  BY LockPasswordAssumption DEF Lag
<1>1. /\ \A r \in replies : r.at \in Nat /\ r.stamp \in Nat
      /\ Replies = [at : Nat, stamp : Nat, readable : BOOLEAN]
  BY DEF TypeOK, Replies
<1>2. CASE Tick
  <2>1. TypeOK'  BY <1>2 DEF Tick, TypeOK
  <2>2. RepliesAreFresh'
    BY <1>0, <1>1, <1>2 DEF Tick, TypeOK, RepliesAreFresh
  <2>3. ReckonedTimeLags'
    BY <1>0, <1>2 DEF Tick, TypeOK, ReckonedTimeLags, curlocktime, utc
  <2> QED  BY <1>2, <2>1, <2>2, <2>3 DEF Tick
<1>3. ASSUME NEW s \in Skews, SetClock(s) PROVE IInv'
  BY <1>0, <1>3 DEF SetClock, TypeOK, RepliesAreFresh, ReckonedTimeLags
<1>4. ASSUME NEW b \in BOOLEAN, Answer(b) PROVE IInv'
  <2> DEFINE new == [at |-> now, stamp |-> Stamp(now), readable |-> b]
  <2>1. now \in Nat  BY DEF TypeOK
  <2>2. Stamp(now) \in Nat /\ Stamp(now) <= now /\ now < Stamp(now) + Second
    BY <2>1, StampBound
  <2>3. /\ new \in Replies /\ new.at = now /\ new.stamp = Stamp(now)
        /\ replies' = replies \cup {new}
    BY <1>4, <2>1, <2>2 DEF Answer, Replies
  <2>4. TypeOK'  BY <1>4, <2>3 DEF Answer, TypeOK
  <2>5. RepliesAreFresh'
    <3> HIDE DEF new
    <3> QED  BY <1>0, <1>4, <2>1, <2>2, <2>3 DEF Answer, RepliesAreFresh
  <2>6. ReckonedTimeLags'
    BY <1>4 DEF Answer, ReckonedTimeLags, curlocktime, utc
  <2> QED  BY <1>4, <2>4, <2>5, <2>6 DEF Answer
<1>5. ASSUME NEW r \in replies, OnLogin(r) PROVE IInv'
  <2>1. utc \in Int /\ now \in Nat /\ skew \in Int  BY DEF TypeOK, utc
  <2>2. r.readable \in BOOLEAN  BY DEF TypeOK, Replies
  <2>3. duration' \in Int /\ synced' \in BOOLEAN
    BY <1>1, <1>5, <2>1, <2>2 DEF OnLogin, TypeOK
  <2>4. TypeOK'  BY <1>5, <2>3 DEF OnLogin, TypeOK
  <2>5. RepliesAreFresh'  BY <1>5 DEF OnLogin, RepliesAreFresh
  <2>6. ReckonedTimeLags'
    <3>1. CASE r.readable
      <4>1. duration' = utc - r.stamp  BY <1>5, <3>1, Zenon DEF OnLogin
      <4>2. curlocktime' = r.stamp
        BY <1>1, <1>5, <2>1, <4>1 DEF OnLogin, curlocktime, utc
      <4>3. r.stamp <= now /\ now < r.stamp + Lag
        BY <1>0, <1>1, <2>1 DEF RepliesAreFresh, Lag
      <4> QED  BY <1>5, <4>2, <4>3 DEF OnLogin, ReckonedTimeLags, Lag
    <3>2. CASE ~r.readable
      BY <1>5, <3>2 DEF OnLogin, TypeOK, ReckonedTimeLags, curlocktime, utc
    <3> QED  BY <3>1, <3>2
  <2> QED  BY <1>5, <2>4, <2>5, <2>6 DEF OnLogin
<1>6. ASSUME NEW m \in [Locks -> Lists], onGetLockPassword(m) PROVE IInv'
  BY <1>6 DEF onGetLockPassword, TypeOK, RepliesAreFresh, ReckonedTimeLags,
              curlocktime, utc
<1>7. ASSUME NEW l \in Locks, Open(l) PROVE IInv'
  <2>1. lists[l] \in Seq(Entry)  BY LockPasswordAssumption DEF TypeOK
  <2>2. curlocktime \in Int  BY DEF TypeOK, curlocktime, utc
  <2>3. popup' \in Popup  BY <1>7, <2>1, <2>2, CurtimePasswordType DEF Open, Popup
  <2> QED  BY <1>7, <2>3 DEF Open, TypeOK, RepliesAreFresh, ReckonedTimeLags,
                             curlocktime, utc
<1>8. CASE Close
  BY <1>8 DEF Close, Closed, Popup, TypeOK, RepliesAreFresh, ReckonedTimeLags,
              curlocktime, utc
<1>9. CASE Restart
  <2>1. Empty \in [Locks -> Lists]  BY LockPasswordAssumption DEF Empty
  <2>2. popup' \in Popup  BY <1>9 DEF Restart, Closed, Popup, TypeOK
  <2>3. replies' = {} /\ synced' = FALSE /\ lists' = pushed'
    BY <1>9 DEF Restart
  <2>4. synced' \in BOOLEAN /\ replies' \subseteq Replies  BY <2>3, Zenon
  <2>5. /\ now' \in Nat /\ skew' \in Int /\ duration' \in Int
        /\ pushed' \in [Locks -> Lists] /\ lists' \in [Locks -> Lists]
    BY <1>9, <2>1 DEF Restart, TypeOK
  <2>6. TypeOK'  BY <2>2, <2>4, <2>5 DEF TypeOK
  <2> QED  BY <2>3, <2>6 DEF RepliesAreFresh, ReckonedTimeLags
<1>10. CASE UNCHANGED vars
  BY <1>10 DEF vars, TypeOK, RepliesAreFresh, ReckonedTimeLags, curlocktime, utc
<1> QED  BY <1>2, <1>3, <1>4, <1>5, <1>6, <1>7, <1>8, <1>9, <1>10 DEF Next

LEMMA Invariance == Spec => []IInv
PROOF
<1> QED  BY InitIInv, StepIInv, PTL DEF Spec

-----------------------------------------------------------------------------
(* Theorems about LockPassword. *)

\* The variables keep their types.
THEOREM TypeCorrect == Spec => []TypeOK
PROOF
<1>1. IInv => TypeOK  BY DEF IInv
<1> QED  BY <1>1, Invariance, PTL

\* Until the phone's clock is set again, curlocktime of DoorOpenPop's loaddata
\* is never ahead of the server's time and less than Lag behind it.
THEOREM ReckonedTimeCorrect == Spec => []ReckonedTimeLags
PROOF
<1>1. IInv => ReckonedTimeLags  BY DEF IInv
<1> QED  BY <1>1, Invariance, PTL

\* A popup that opens shows a password that applies, or did less than Lag ago.
THEOREM OpensValidCorrect == Spec => OpensWithValidPassword
PROOF
<1> DEFINE arr == pushed[popup'.lock]
           Valid == popup'.open /\ ~popup.open /\ synced /\ Ascending(arr)
                      /\ popup'.password # NoPassword
                    => \E i \in 1..(Len(arr) - 1) :
                         /\ arr[i].password = popup'.password
                         /\ Applies(arr, now, i)
<1>1. IInv /\ [Next]_vars => [Valid]_vars
  <2> SUFFICES ASSUME IInv, Next, popup'.open, ~popup.open, synced,
                      Ascending(arr), popup'.password # NoPassword
               PROVE  \E i \in 1..(Len(arr) - 1) :
                        /\ arr[i].password = popup'.password
                        /\ Applies(arr, now, i)
    OBVIOUS
  <2>1. PICK l \in Locks : Open(l)
    BY DEF Next, Tick, SetClock, Answer, OnLogin, onGetLockPassword, Close,
           Closed, Restart, IInv, TypeOK, Popup
  <2>2. /\ arr = pushed[l] /\ arr \in Seq(Entry)
        /\ popup'.password = getCurtimePassword(arr, curlocktime)
    BY <2>1, LockPasswordAssumption DEF Open, IInv, TypeOK
  <2>3. curlocktime \in Int /\ now \in Nat
    BY DEF IInv, TypeOK, curlocktime, utc
  <2> HIDE DEF arr
  <2>4. PICK i \in 1..(Len(arr) - 1) :
          Slot(arr, curlocktime, i) /\ popup'.password = arr[i].password
    BY <2>2, <2>3, CurtimePassword
  <2>5. arr[i] \in Entry /\ arr[i + 1] \in Entry  BY <2>2
  <2>6. arr[i].start \in Nat /\ arr[i + 1].start \in Nat
    BY <2>2, ReadableTimes DEF Ascending
  <2>7. curlocktime <= now /\ now < curlocktime + Lag /\ Lag \in Nat
    BY LockPasswordAssumption DEF IInv, ReckonedTimeLags, Lag
  <2>8. Applies(arr, now, i)
    BY <2>3, <2>4, <2>6, <2>7, LockPasswordAssumption
    DEF Slot, NotAfter, Before, Applies
  <2> QED  BY <2>4, <2>8
<1> QED  BY <1>1, Invariance, PTL DEF Spec, OpensWithValidPassword

\* Whatever the order of the list and the times that cannot be read, a popup
\* that opens shows no password that has ended Lag ago, or never ends.
THEOREM OpensBeforeTheEndCorrect == Spec => OpensBeforeTheEnd
PROOF
<1> DEFINE arr == pushed[popup'.lock]
           Valid == popup'.open /\ ~popup.open /\ synced /\ popup'.password # NoPassword
                    => \E i \in 1..(Len(arr) - 1) :
                         /\ arr[i].password = popup'.password
                         /\ arr[i + 1].start # Unreadable
                         /\ now < arr[i + 1].start + Lag
<1>1. IInv /\ [Next]_vars => [Valid]_vars
  <2> SUFFICES ASSUME IInv, Next, popup'.open, ~popup.open, synced,
                      popup'.password # NoPassword
               PROVE  \E i \in 1..(Len(arr) - 1) :
                        /\ arr[i].password = popup'.password
                        /\ arr[i + 1].start # Unreadable
                        /\ now < arr[i + 1].start + Lag
    OBVIOUS
  <2>1. PICK l \in Locks : Open(l)
    BY DEF Next, Tick, SetClock, Answer, OnLogin, onGetLockPassword, Close,
           Closed, Restart, IInv, TypeOK, Popup
  <2>2. /\ arr = pushed[l] /\ arr \in Seq(Entry)
        /\ popup'.password = getCurtimePassword(arr, curlocktime)
    BY <2>1, LockPasswordAssumption DEF Open, IInv, TypeOK
  <2>3. curlocktime \in Int /\ now \in Nat
    BY DEF IInv, TypeOK, curlocktime, utc
  <2> HIDE DEF arr
  <2>4. PICK i \in 1..(Len(arr) - 1) :
          Slot(arr, curlocktime, i) /\ popup'.password = arr[i].password
    BY <2>2, <2>3, CurtimePassword
  <2>5. arr[i + 1] \in Entry  BY <2>2
  <2>6. arr[i + 1].start \in Nat /\ curlocktime < arr[i + 1].start
    BY <2>4, <2>5 DEF Entry, Slot, Before
  <2>7. now < curlocktime + Lag /\ Lag \in Nat
    BY LockPasswordAssumption DEF IInv, ReckonedTimeLags, Lag
  <2>8. arr[i + 1].start # Unreadable /\ now < arr[i + 1].start + Lag
    BY <2>3, <2>6, <2>7, LockPasswordAssumption
  <2> QED  BY <2>4, <2>8
<1> QED  BY <1>1, Invariance, PTL DEF Spec, OpensBeforeTheEnd

\* A popup that opens shows a password when the list covers the server's time
\* and the Lag before it.
THEOREM OpensCoveredCorrect == Spec => OpensWhenCovered
PROOF
<1>1. IInv /\ [Next]_vars =>
        [popup'.open /\ ~popup.open /\ synced /\ Ascending(pushed[popup'.lock])
         => LET arr == pushed[popup'.lock]
                n == Len(arr) IN
            n > 1 /\ arr[1].start + Lag <= now /\ now < arr[n].start
            => popup'.password # NoPassword]_vars
  <2> DEFINE arr == pushed[popup'.lock]
  <2> SUFFICES ASSUME IInv, Next, popup'.open, ~popup.open, synced,
                      Ascending(arr), Len(arr) > 1, arr[1].start + Lag <= now,
                      now < arr[Len(arr)].start
               PROVE  popup'.password # NoPassword
    OBVIOUS
  <2>1. PICK l \in Locks : Open(l)
    BY DEF Next, Tick, SetClock, Answer, OnLogin, onGetLockPassword, Close,
           Closed, Restart, IInv, TypeOK, Popup
  <2>2. /\ arr = pushed[l] /\ arr \in Seq(Entry)
        /\ popup'.password = getCurtimePassword(arr, curlocktime)
    BY <2>1, LockPasswordAssumption DEF Open, IInv, TypeOK
  <2>3. curlocktime \in Int /\ now \in Nat
    BY DEF IInv, TypeOK, curlocktime, utc
  <2> HIDE DEF arr
  <2>4. Readable(arr)  BY DEF Ascending
  <2>5. arr[1].start \in Nat /\ arr[Len(arr)].start \in Nat
    BY <2>2, <2>4, ReadableTimes
  <2>6. curlocktime <= now /\ now < curlocktime + Lag /\ Lag \in Nat
    BY LockPasswordAssumption DEF IInv, ReckonedTimeLags, Lag
  <2>7. arr[1].start <= curlocktime /\ curlocktime < arr[Len(arr)].start
    BY <2>3, <2>5, <2>6
  <2> QED  BY <2>2, <2>3, <2>4, <2>7, SomeSlot
<1> QED  BY <1>1, Invariance, PTL DEF Spec, OpensWhenCovered

-----------------------------------------------------------------------------
(* The types of OpenRecords. *)

\* What an answer tells: how many records some days have.
LEMMA CountsFunctions ==
  ASSUME NEW c
  PROVE  c \in Counts <=>
           c \in [DOMAIN c -> 0..MaxRecords] /\ DOMAIN c \subseteq Days
PROOF
<1> QED  BY DEF Counts

\* A table without records.
LEMMA NoCounts == <<>> \in Counts
PROOF
<1>1. <<>> \in [{} -> 0..MaxRecords] /\ {} \in SUBSET Days  OBVIOUS
<1> QED  BY <1>1 DEF Counts

\* What the server tells of some days is what it has of them.
LEMMA BetweenCounts ==
  ASSUME RecordsTypeOK, NEW start, NEW end
  PROVE  /\ Between(start, end) \in Counts
         /\ DOMAIN Between(start, end) = {d \in Days : start <= d /\ d < end}
         /\ \A d \in DOMAIN Between(start, end) : Between(start, end)[d] = srv[d]
PROOF
<1> DEFINE ds == {d \in Days : start <= d /\ d < end}
<1>1. Between(start, end) = [d \in ds |-> srv[d]]  BY DEF Between
<1>2. ds \in SUBSET Days /\ \A d \in ds : srv[d] \in 0..MaxRecords
  BY DEF RecordsTypeOK
<1>3. [d \in ds |-> srv[d]] \in [ds -> 0..MaxRecords]  BY <1>2
<1>4. Between(start, end) \in Counts  BY <1>1, <1>2, <1>3 DEF Counts
<1> QED  BY <1>1, <1>4

\* A closed screen's requests and answers.
LEMMA OrphanTypes ==
  ASSUME RecordsTypeOK, CloseScreen
  PROVE  /\ toServer' \in Seq(Request) /\ Len(toServer') = Len(toServer)
         /\ toApp' \in Seq(Reply) /\ Len(toApp') = Len(toApp)
         /\ \A i \in 1..Len(toApp) : toApp'[i].counts = toApp[i].counts
PROOF
<1>1. DOMAIN toServer = 1..Len(toServer) /\ Len(toServer) \in Nat
      /\ DOMAIN toApp = 1..Len(toApp) /\ Len(toApp) \in Nat
  BY DEF RecordsTypeOK
<1>2. \A r \in Request : Orphan(r) \in Request  BY DEF Orphan, Request
<1>3. \A i \in 1..Len(toServer) : Orphan(toServer[i]) \in Request
  BY <1>2 DEF RecordsTypeOK
<1>4. \A i \in 1..Len(toApp) :
        /\ [toApp[i] EXCEPT !.req = Orphan(@)] \in Reply
        /\ [toApp[i] EXCEPT !.req = Orphan(@)].counts = toApp[i].counts
  <2> TAKE i \in 1..Len(toApp)
  <2>1. toApp[i] \in Reply  BY DEF RecordsTypeOK
  <2> QED  BY <1>2, <2>1 DEF Reply
<1>5. toServer' = [i \in 1..Len(toServer) |-> Orphan(toServer[i])]
  BY <1>1 DEF CloseScreen
<1>6. toApp' = [i \in 1..Len(toApp) |-> [toApp[i] EXCEPT !.req = Orphan(@)]]
  BY <1>1 DEF CloseScreen
<1>7. toServer' \in Seq(Request) /\ Len(toServer') = Len(toServer)
  BY <1>1, <1>3, <1>5
<1>8. toApp' \in Seq(Reply) /\ Len(toApp') = Len(toApp)
  BY <1>1, <1>4, <1>6
<1> QED  BY <1>4, <1>6, <1>7, <1>8

\* Every step keeps the types.
LEMMA RecordsTypeStep == RecordsTypeOK /\ [RecordsNext]_recordsVars => RecordsTypeOK'
PROOF
<1> SUFFICES ASSUME RecordsTypeOK, [RecordsNext]_recordsVars PROVE RecordsTypeOK'
  OBVIOUS
<1>0. /\ LastDay \in Nat \ {0} /\ MaxRecords \in Nat /\ MaxFlight \in Nat
      /\ MaxTrouble \in Nat
  BY OpenRecordsAssumption
<1>1. CASE Serve
  <2> DEFINE r == Head(toServer)
  <2>1. r \in Request /\ toServer' \in Seq(Request)
        /\ Len(toServer') = Len(toServer) - 1 /\ Len(toServer) \in Nat
    BY <1>1 DEF Serve, RecordsTypeOK
  <2>2. PICK ok \in BOOLEAN :
          /\ ~ok => trouble < MaxTrouble
          /\ trouble' = IF ok THEN trouble ELSE trouble + 1
          /\ missed' = (missed \/ (~ok /\ Asks(r) /\
                          ~\E i \in 2..Len(toServer) : Asks(toServer[i])))
          /\ srv' = IF ok /\ (r.op = "add" /\ srv[today] < MaxRecords)
                    THEN [srv EXCEPT ![today] = @ + 1] ELSE srv
          /\ toApp' = Append(toApp, [ok |-> ok, counts |-> Between(r.start, r.end),
                                     req |-> r])
    BY <1>1 DEF Serve
  <2>3. [ok |-> ok, counts |-> Between(r.start, r.end), req |-> r] \in Reply
    BY <2>1, BetweenCounts DEF Reply
  <2>4. toApp' \in Seq(Reply) /\ Len(toApp') = Len(toApp) + 1 /\ Len(toApp) \in Nat
    BY <2>2, <2>3 DEF RecordsTypeOK
  <2>5. srv' \in [Days -> 0..MaxRecords]  BY <1>0, <2>2 DEF RecordsTypeOK
  <2>6. trouble' \in 0..MaxTrouble  BY <1>0, <2>2 DEF RecordsTypeOK
  <2>7. missed' \in BOOLEAN  BY <2>2, Zenon DEF RecordsTypeOK
  <2>8. Len(toServer') + Len(toApp') <= MaxFlight
    BY <1>0, <2>1, <2>4 DEF RecordsTypeOK
  <2> QED
    BY <1>1, <2>1, <2>4, <2>5, <2>6, <2>7, <2>8 DEF Serve, RecordsTypeOK, screen
<1>2. CASE Break
  <2>1. PICK n \in 0..Len(toApp) : toApp' = SubSeq(toApp, 1, n)
    BY <1>2 DEF Break
  <2>2. missed' \in BOOLEAN  BY <1>2, Zenon DEF Break, RecordsTypeOK
  <2>3. toApp' \in Seq(Reply) /\ Len(toApp') = n /\ Len(toApp) \in Nat
    BY <2>1 DEF RecordsTypeOK
  <2>4. toServer' \in Seq(Request) /\ Len(toServer') = 0 /\ Len(toServer) \in Nat
    BY <1>2 DEF Break, RecordsTypeOK
  <2>5. Len(toServer') + Len(toApp') <= MaxFlight
    BY <1>0, <2>3, <2>4 DEF RecordsTypeOK
  <2> QED
    BY <1>0, <1>2, <2>2, <2>3, <2>4, <2>5 DEF Break, RecordsTypeOK, screen
<1>3. CASE Midnight
  BY <1>0, <1>3 DEF Midnight, RecordsTypeOK, wire, screen, Days
<1>4. CASE OpenScreen
  <2>1. Asked(today) \in Request  BY <1>0 DEF Asked, Request, RecordsTypeOK, Days
  <2>2. toServer' \in Seq(Request) /\ Len(toServer') = Len(toServer) + 1
    BY <1>4, <2>1 DEF OpenScreen, RecordsTypeOK
  <2>3. open' \in BOOLEAN /\ missed' \in BOOLEAN
    BY <1>4, Zenon DEF OpenScreen
  <2> QED
    BY <1>4, <2>2, <2>3, NoCounts
    DEF OpenScreen, RecordsTypeOK, setMyCurDate, Room
<1>5. CASE CloseScreen
  BY <1>5, OrphanTypes, NoCounts DEF CloseScreen, RecordsTypeOK
<1>6. ASSUME NEW n \in {-1, 1}, Step(n) PROVE RecordsTypeOK'
  <2>1. curDate + n \in Days  BY <1>6 DEF Step
  <2>2. Asked(curDate + n) \in Request
    BY <1>0, <2>1 DEF Asked, Request, Days
  <2>3. toServer' \in Seq(Request) /\ Len(toServer') = Len(toServer) + 1
    BY <1>6, <2>2 DEF Step, RecordsTypeOK
  <2>4. missed' \in BOOLEAN  BY <1>6, Zenon DEF Step
  <2> QED
    BY <1>6, <2>1, <2>3, <2>4 DEF Step, RecordsTypeOK, setMyCurDate, Room
<1>7. ASSUME NEW d \in Days, onClickSelDate(d) PROVE RecordsTypeOK'
  <2>1. Asked(d) \in Request  BY <1>0 DEF Asked, Request, Days
  <2>2. toServer' \in Seq(Request) /\ Len(toServer') = Len(toServer) + 2
    BY <1>7, <2>1 DEF onClickSelDate, RecordsTypeOK
  <2>3. missed' \in BOOLEAN  BY <1>7, Zenon DEF onClickSelDate
  <2> QED
    BY <1>7, <2>2, <2>3 DEF onClickSelDate, RecordsTypeOK, setMyCurDate, Room
<1>8. CASE OnRecords
  <2>1. /\ Head(toApp) \in Reply /\ toApp' \in Seq(Reply)
        /\ Len(toApp') = Len(toApp) - 1 /\ Len(toApp) \in Nat /\ Len(toServer) \in Nat
    BY <1>8 DEF OnRecords, RecordsTypeOK
  <2>2. records' \in Counts  BY <1>8, <2>1 DEF OnRecords, RecordsTypeOK, Reply
  <2> QED  BY <1>0, <1>8, <2>1, <2>2 DEF OnRecords, RecordsTypeOK
<1>9. CASE addopenrecord
  <2>1. [op |-> "add", start |-> today, end |-> today, home |-> TRUE] \in Request
    BY <1>0 DEF Request, RecordsTypeOK, Days
  <2>2. toServer' \in Seq(Request) /\ Len(toServer') = Len(toServer) + 1
    BY <1>9, <2>1 DEF addopenrecord, RecordsTypeOK
  <2> QED  BY <1>9, <2>2 DEF addopenrecord, RecordsTypeOK, screen, Room
<1>10. CASE UNCHANGED recordsVars
  BY <1>10 DEF recordsVars, RecordsTypeOK, wire, screen
<1> QED
  BY <1>1, <1>2, <1>3, <1>4, <1>5, <1>6, <1>7, <1>8, <1>9, <1>10 DEF RecordsNext

\* The screen and the wire keep their types, for any number of days, records,
\* messages under way and troubles.
THEOREM RecordsTypeCorrect == RecordsSpec => []RecordsTypeOK
PROOF
<1>1. RecordsInit => RecordsTypeOK
  <2> SUFFICES ASSUME RecordsInit PROVE RecordsTypeOK  OBVIOUS
  <2>1. toServer \in Seq(Request) /\ toApp \in Seq(Reply)
        /\ Len(toServer) = 0 /\ Len(toApp) = 0
    BY DEF RecordsInit
  <2>2. srv \in [Days -> 0..MaxRecords]
    BY OpenRecordsAssumption DEF RecordsInit
  <2>3. open \in BOOLEAN /\ missed \in BOOLEAN  BY Zenon DEF RecordsInit
  <2> QED
    BY <2>1, <2>2, <2>3, NoCounts, OpenRecordsAssumption DEF RecordsInit, RecordsTypeOK
<1> QED  BY <1>1, RecordsTypeStep, PTL DEF RecordsSpec

-----------------------------------------------------------------------------
(* OpenRecords: what the screen shows and what is on its way to it only grows. *)

\* What is on its way is no more than the server has, a later answer tells of no
\* less than an earlier one, and the screen shows no more than either.
CountsGrow ==
  /\ \A i \in 1..Len(toApp) : \A d \in DOMAIN toApp[i].counts :
       toApp[i].counts[d] <= srv[d]
  /\ \A i, j \in 1..Len(toApp) : i < j =>
       \A d \in DOMAIN toApp[i].counts \cap DOMAIN toApp[j].counts :
         toApp[i].counts[d] <= toApp[j].counts[d]
  /\ \A i \in 1..Len(toApp) : \A d \in DOMAIN records \cap DOMAIN toApp[i].counts :
       records[d] <= toApp[i].counts[d]
  /\ \A d \in DOMAIN records : records[d] <= srv[d]

\* The numbers compared are numbers.
LEMMA CountsTyped ==
  ASSUME RecordsTypeOK
  PROVE  /\ MaxRecords \in Nat /\ Len(toApp) \in Nat
         /\ \A d \in Days : srv[d] \in Int
         /\ \A d \in DOMAIN records : d \in Days /\ records[d] \in Int
         /\ \A i \in 1..Len(toApp) : \A d \in DOMAIN toApp[i].counts :
              d \in Days /\ toApp[i].counts[d] \in Int
PROOF
<1>1. MaxRecords \in Nat  BY OpenRecordsAssumption
<1>2. \A c \in Counts : \A d \in DOMAIN c : d \in Days /\ c[d] \in Int
  BY <1>1, CountsFunctions
<1>3. \A i \in 1..Len(toApp) : toApp[i].counts \in Counts
  <2> TAKE i \in 1..Len(toApp)
  <2>1. toApp[i] \in Reply  BY DEF RecordsTypeOK
  <2> QED  BY <2>1 DEF Reply
<1> QED  BY <1>1, <1>2, <1>3 DEF RecordsTypeOK

\* An answer tells what the server has when it is given, and is taken up before
\* those behind it.
LEMMA CountsStep ==
  RecordsTypeOK /\ CountsGrow /\ [RecordsNext]_recordsVars => CountsGrow'
PROOF
<1> SUFFICES ASSUME RecordsTypeOK, CountsGrow, [RecordsNext]_recordsVars
             PROVE  CountsGrow'
  OBVIOUS
<1>1. CASE Serve
  <2> DEFINE r == Head(toServer)
             told == Between(r.start, r.end)
             n == Len(toApp)
  <2>1. PICK ok \in BOOLEAN :
          /\ srv' = IF ok /\ (r.op = "add" /\ srv[today] < MaxRecords)
                    THEN [srv EXCEPT ![today] = @ + 1] ELSE srv
          /\ toApp' = Append(toApp, [ok |-> ok, counts |-> told, req |-> r])
    BY <1>1 DEF Serve
  <2>2. /\ Len(toApp') = n + 1 /\ n \in Nat
        /\ \A i \in 1..n : toApp'[i] = toApp[i]
        /\ toApp'[n + 1].counts = told
    BY <2>1 DEF RecordsTypeOK
  <2>3. \A d \in Days : srv[d] <= srv'[d] /\ srv'[d] \in Int /\ srv[d] \in Int
    BY <2>1, CountsTyped DEF RecordsTypeOK
  <2>4. \A d \in DOMAIN told : told[d] = srv[d] /\ d \in Days
    BY Zenon DEF Between
  <2> HIDE DEF told, n
  <2>5. \A i \in 1..n : \A d \in DOMAIN toApp[i].counts :
          /\ d \in Days /\ toApp[i].counts[d] \in Int
          /\ toApp[i].counts[d] <= srv[d]
    BY CountsTyped DEF CountsGrow, n
  <2>6. \A d \in DOMAIN records : d \in Days /\ records[d] \in Int /\ records[d] <= srv[d]
    BY CountsTyped DEF CountsGrow
  <2>7. records' = records  BY <1>1 DEF Serve, screen
  <2>8. \A i \in 1..Len(toApp') : i \in 1..n \/ i = n + 1  BY <2>2
  <2>9. \A i \in 1..Len(toApp') : \A d \in DOMAIN toApp'[i].counts :
          toApp'[i].counts[d] <= srv'[d]
    BY <2>2, <2>3, <2>4, <2>5, <2>8
  <2>10. \A i, j \in 1..Len(toApp') : i < j =>
           \A d \in DOMAIN toApp'[i].counts \cap DOMAIN toApp'[j].counts :
             toApp'[i].counts[d] <= toApp'[j].counts[d]
    <3> SUFFICES ASSUME NEW i \in 1..Len(toApp'), NEW j \in 1..Len(toApp'), i < j,
                        NEW d \in DOMAIN toApp'[i].counts \cap DOMAIN toApp'[j].counts
                 PROVE  toApp'[i].counts[d] <= toApp'[j].counts[d]
      OBVIOUS
    <3>1. i \in 1..n  BY <2>2
    <3>2. CASE j \in 1..n  BY <2>2, <3>1, <3>2 DEF CountsGrow, n
    <3>3. CASE j = n + 1  BY <2>2, <2>4, <2>5, <3>1, <3>3
    <3> QED  BY <2>8, <3>2, <3>3
  <2>11. \A i \in 1..Len(toApp') :
           \A d \in DOMAIN records \cap DOMAIN toApp'[i].counts :
             records[d] <= toApp'[i].counts[d]
    <3> TAKE i \in 1..Len(toApp')
    <3>1. CASE i \in 1..n  BY <2>2, <3>1 DEF CountsGrow, n
    <3>2. CASE i = n + 1  BY <2>2, <2>4, <2>6, <3>2
    <3> QED  BY <2>8, <3>1, <3>2
  <2>12. \A d \in DOMAIN records : records[d] <= srv'[d]  BY <2>3, <2>6
  <2> QED  BY <2>7, <2>9, <2>10, <2>11, <2>12 DEF CountsGrow
<1>2. CASE Break
  <2>1. PICK n \in 0..Len(toApp) : toApp' = SubSeq(toApp, 1, n)
    BY <1>2 DEF Break
  <2>2. /\ Len(toApp') = n /\ Len(toApp) \in Nat
        /\ \A i \in 1..n : toApp'[i] = toApp[i] /\ i \in 1..Len(toApp)
    BY <2>1 DEF RecordsTypeOK
  <2>3. UNCHANGED <<srv, records>>  BY <1>2 DEF Break, screen
  <2> QED  BY <2>2, <2>3 DEF CountsGrow
<1>3. ASSUME UNCHANGED <<srv, toApp, records>> PROVE CountsGrow'
  BY <1>3 DEF CountsGrow
<1>4. CASE OpenScreen
  <2>1. UNCHANGED <<srv, toApp>> /\ DOMAIN records' = {}
    BY <1>4 DEF OpenScreen
  <2> QED  BY <2>1 DEF CountsGrow
<1>5. CASE CloseScreen
  <2>1. srv' = srv /\ DOMAIN records' = {}
    BY <1>5 DEF CloseScreen
  <2> QED  BY <1>5, <2>1, OrphanTypes DEF CountsGrow
<1>6. CASE OnRecords
  <2>1. /\ toApp # <<>> /\ toApp' = Tail(toApp) /\ srv' = srv
        /\ records' = Head(toApp).counts \/ records' = records
    BY <1>6 DEF OnRecords
  <2>2. /\ Head(toApp) = toApp[1] /\ 1 \in 1..Len(toApp)
        /\ Len(toApp') = Len(toApp) - 1 /\ Len(toApp) \in Nat
        /\ \A i \in 1..Len(toApp') : toApp'[i] = toApp[i + 1] /\ i + 1 \in 1..Len(toApp)
    BY <2>1 DEF RecordsTypeOK
  <2>3. /\ \A i \in 1..Len(toApp') : \A d \in DOMAIN toApp'[i].counts :
             toApp'[i].counts[d] <= srv[d]
        /\ \A i, j \in 1..Len(toApp') : i < j =>
             \A d \in DOMAIN toApp'[i].counts \cap DOMAIN toApp'[j].counts :
               toApp'[i].counts[d] <= toApp'[j].counts[d]
    BY <2>2 DEF CountsGrow
  <2>4. \A i \in 1..Len(toApp') :
          \A d \in DOMAIN records' \cap DOMAIN toApp'[i].counts :
            records'[d] <= toApp'[i].counts[d]
    <3> TAKE i \in 1..Len(toApp')
    <3>1. i + 1 \in 1..Len(toApp) /\ 1 < i + 1 /\ toApp'[i] = toApp[i + 1]
      BY <2>2
    <3> QED  BY <2>1, <2>2, <3>1 DEF CountsGrow
  <2>5. \A d \in DOMAIN records' : records'[d] <= srv[d]
    BY <2>1, <2>2 DEF CountsGrow
  <2> QED  BY <2>1, <2>3, <2>4, <2>5 DEF CountsGrow
<1> QED
  BY <1>1, <1>2, <1>3, <1>4, <1>5, <1>6
  DEF RecordsNext, Midnight, Step, onClickSelDate, addopenrecord, recordsVars, wire,
      screen

\* Whatever days are visited, and however often, records do not go away.
THEOREM RecordsNeverShrinkCorrect == RecordsSpec => RecordsNeverShrink
PROOF
<1> DEFINE Grow == \A d \in DOMAIN records \cap DOMAIN records' :
                     open /\ open' => records'[d] \in records[d]..srv[d]
<1>1. RecordsInit => CountsGrow
  <2> SUFFICES ASSUME RecordsInit PROVE CountsGrow  OBVIOUS
  <2>1. Len(toApp) = 0 /\ DOMAIN records = {}  BY DEF RecordsInit
  <2> QED  BY <2>1 DEF CountsGrow
<1>2. RecordsTypeOK /\ CountsGrow /\ [RecordsNext]_recordsVars => [Grow]_recordsVars
  <2> SUFFICES ASSUME RecordsTypeOK, CountsGrow, [RecordsNext]_recordsVars,
                      NEW d \in DOMAIN records \cap DOMAIN records',
                      open, open'
               PROVE  records'[d] \in records[d]..srv[d]
    OBVIOUS
  <2>1. d \in Days /\ records[d] \in Int /\ srv[d] \in Int /\ records[d] <= srv[d]
    BY CountsTyped DEF CountsGrow
  <2>2. CASE records' = records  BY <2>1, <2>2
  <2>3. CASE OnRecords /\ records' = Head(toApp).counts
    <3>1. Head(toApp) = toApp[1] /\ 1 \in 1..Len(toApp)
      BY <2>3 DEF OnRecords, RecordsTypeOK
    <3>2. /\ records'[d] \in Int
          /\ records[d] <= records'[d] /\ records'[d] <= srv[d]
      BY <2>3, <3>1, CountsTyped DEF CountsGrow
    <3> QED  BY <2>1, <3>2
  <2>4. OnRecords => records' = Head(toApp).counts \/ records' = records
    BY DEF OnRecords
  <2> QED
    BY <2>2, <2>3, <2>4
    DEF RecordsNext, Serve, Break, Midnight, OpenScreen, CloseScreen, Step,
        onClickSelDate, addopenrecord, recordsVars, wire, screen
<1>3. RecordsSpec => []CountsGrow
  BY <1>1, CountsStep, RecordsTypeCorrect, PTL DEF RecordsSpec
<1> QED  BY <1>2, <1>3, RecordsTypeCorrect, PTL DEF RecordsSpec, RecordsNeverShrink

-----------------------------------------------------------------------------
(* OpenRecords: the last question of the screen. *)

\* No request of s is a question of the screen, no answer of s is to one.
NoneAsks(s) == \A i \in 1..Len(s) : ~Asks(s[i])
NoneTells(s) == \A i \in 1..Len(s) : ~Asks(s[i].req)

\* The last question in s is for day d; the last answer to one in s is granted
\* and tells of day d.
LastAsks(s, d) ==
  \A k \in 1..Len(s) :
    Asks(s[k]) /\ (\A j \in 1..Len(s) : k < j => ~Asks(s[j]))
    => s[k].start = d /\ s[k].end = d + 1

LastTells(s, d) ==
  \A k \in 1..Len(s) :
    Asks(s[k].req) /\ (\A j \in 1..Len(s) : k < j => ~Asks(s[j].req))
    => s[k].ok /\ DOMAIN s[k].counts = {d}

\* Unless it was refused or lost: the last question is for the day on the
\* button; once it is answered, its answer tells of that day; and once that is
\* taken up, so do the records.
DayFollows ==
  /\ curDate = title
  /\ open /\ ~missed =>
       /\ LastAsks(toServer, title)
       /\ NoneAsks(toServer) => LastTells(toApp, title)
       /\ NoneAsks(toServer) /\ NoneTells(toApp) => DOMAIN records = {title}

\* A request joins the others.
LEMMA RequestJoins ==
  ASSUME NEW s \in Seq(Request), NEW r \in Request, NEW d \in Days
  PROVE  /\ Asks(r) => ~NoneAsks(Append(s, r))
         /\ Asks(r) /\ r.start = d /\ r.end = d + 1 => LastAsks(Append(s, r), d)
         /\ ~Asks(r) => /\ NoneAsks(Append(s, r)) <=> NoneAsks(s)
                        /\ LastAsks(s, d) => LastAsks(Append(s, r), d)
PROOF
<1> DEFINE w == Append(s, r)
           n == Len(s)
<1>1. /\ n \in Nat /\ Len(w) = n + 1 /\ w[n + 1] = r
      /\ \A i \in 1..n : w[i] = s[i]
  OBVIOUS
<1> HIDE DEF w, n
<1>2. \A i \in 1..Len(w) : i \in 1..n \/ i = n + 1  BY <1>1
<1>3. n + 1 \in 1..Len(w) /\ \A i \in 1..n : i \in 1..Len(w) /\ i < n + 1  BY <1>1
<1>4. Asks(r) => ~NoneAsks(w)  BY <1>1, <1>3 DEF NoneAsks
<1>5. Asks(r) /\ r.start = d /\ r.end = d + 1 => LastAsks(w, d)
  BY <1>1, <1>2, <1>3 DEF LastAsks
<1>6. ~Asks(r) => (NoneAsks(w) <=> NoneAsks(s))
  BY <1>1, <1>2, <1>3 DEF NoneAsks, n
<1>7. ~Asks(r) /\ LastAsks(s, d) => LastAsks(w, d)
  <2> SUFFICES ASSUME ~Asks(r), LastAsks(s, d), NEW k \in 1..Len(w), Asks(w[k]),
                      \A j \in 1..Len(w) : k < j => ~Asks(w[j])
               PROVE  w[k].start = d /\ w[k].end = d + 1
    BY DEF LastAsks
  <2>1. k \in 1..n /\ w[k] = s[k]  BY <1>1, <1>2
  <2>2. \A j \in 1..n : k < j => ~Asks(s[j])  BY <1>1, <1>3
  <2> QED  BY <2>1, <2>2 DEF LastAsks, n
<1> QED  BY <1>4, <1>5, <1>6, <1>7 DEF w

\* The oldest request leaves.
LEMMA RequestLeaves ==
  ASSUME NEW s \in Seq(Request), s # <<>>, NEW d \in Days
  PROVE  /\ LastAsks(s, d) => LastAsks(Tail(s), d)
         /\ NoneAsks(s) <=> ~Asks(Head(s)) /\ NoneAsks(Tail(s))
         /\ LastAsks(s, d) /\ Asks(Head(s)) /\ NoneAsks(Tail(s))
              => Head(s).start = d /\ Head(s).end = d + 1
         /\ NoneAsks(Tail(s)) <=> ~\E i \in 2..Len(s) : Asks(s[i])
PROOF
<1> DEFINE w == Tail(s)
           n == Len(s)
<1>1. /\ n \in Nat /\ 1 \in 1..n /\ Len(w) = n - 1 /\ Head(s) = s[1]
      /\ \A i \in 1..Len(w) : w[i] = s[i + 1]
  OBVIOUS
<1> HIDE DEF w
<1>2. \A i \in 1..Len(w) : i + 1 \in 2..n /\ i + 1 \in 1..n  BY <1>1
<1>3. \A i \in 2..n : i - 1 \in 1..Len(w) /\ w[i - 1] = s[i]
  <2> TAKE i \in 2..n
  <2>1. i - 1 \in 1..Len(w) /\ (i - 1) + 1 = i  BY <1>1
  <2> QED  BY <1>1, <2>1
<1>4. NoneAsks(w) <=> ~\E i \in 2..n : Asks(s[i])
  BY <1>1, <1>2, <1>3 DEF NoneAsks
<1>5. NoneAsks(s) <=> ~Asks(s[1]) /\ NoneAsks(w)
  <2>1. \A i \in 1..n : i = 1 \/ i \in 2..n  BY <1>1
  <2>2. \A i \in 2..n : i \in 1..n  BY <1>1
  <2> QED  BY <1>1, <1>4, <2>1, <2>2 DEF NoneAsks
<1>6. LastAsks(s, d) /\ Asks(s[1]) /\ NoneAsks(w) => s[1].start = d /\ s[1].end = d + 1
  <2>1. \A j \in 1..n : 1 < j => j \in 2..n  BY <1>1
  <2> QED  BY <1>1, <1>4, <2>1 DEF LastAsks
<1>7. LastAsks(s, d) => LastAsks(w, d)
  <2> SUFFICES ASSUME LastAsks(s, d), NEW k \in 1..Len(w), Asks(w[k]),
                      \A j \in 1..Len(w) : k < j => ~Asks(w[j])
               PROVE  w[k].start = d /\ w[k].end = d + 1
    BY DEF LastAsks
  <2>1. k + 1 \in 1..n /\ w[k] = s[k + 1]  BY <1>1, <1>2
  <2>2. \A j \in 1..n : k + 1 < j => ~Asks(s[j])
    <3> SUFFICES ASSUME NEW j \in 1..n, k + 1 < j PROVE ~Asks(s[j])  OBVIOUS
    <3>1. j \in 2..n /\ k < j - 1  BY <1>1
    <3> QED  BY <1>3, <3>1
  <2> QED  BY <2>1, <2>2 DEF LastAsks
<1> QED  BY <1>1, <1>4, <1>5, <1>6, <1>7 DEF w

\* An answer joins the others.
LEMMA ReplyJoins ==
  ASSUME NEW s \in Seq(Reply), NEW a \in Reply, NEW d \in Days
  PROVE  /\ Asks(a.req) => ~NoneTells(Append(s, a))
         /\ Asks(a.req) /\ a.ok /\ DOMAIN a.counts = {d} => LastTells(Append(s, a), d)
         /\ ~Asks(a.req) => /\ NoneTells(Append(s, a)) <=> NoneTells(s)
                            /\ LastTells(s, d) => LastTells(Append(s, a), d)
PROOF
<1> DEFINE w == Append(s, a)
           n == Len(s)
<1>1. /\ n \in Nat /\ Len(w) = n + 1 /\ w[n + 1] = a
      /\ \A i \in 1..n : w[i] = s[i]
  OBVIOUS
<1> HIDE DEF w, n
<1>2. \A i \in 1..Len(w) : i \in 1..n \/ i = n + 1  BY <1>1
<1>3. n + 1 \in 1..Len(w) /\ \A i \in 1..n : i \in 1..Len(w) /\ i < n + 1  BY <1>1
<1>4. Asks(a.req) => ~NoneTells(w)  BY <1>1, <1>3 DEF NoneTells
<1>5. Asks(a.req) /\ a.ok /\ DOMAIN a.counts = {d} => LastTells(w, d)
  BY <1>1, <1>2, <1>3 DEF LastTells
<1>6. ~Asks(a.req) => (NoneTells(w) <=> NoneTells(s))
  BY <1>1, <1>2, <1>3 DEF NoneTells, n
<1>7. ~Asks(a.req) /\ LastTells(s, d) => LastTells(w, d)
  <2> SUFFICES ASSUME ~Asks(a.req), LastTells(s, d), NEW k \in 1..Len(w),
                      Asks(w[k].req),
                      \A j \in 1..Len(w) : k < j => ~Asks(w[j].req)
               PROVE  w[k].ok /\ DOMAIN w[k].counts = {d}
    BY DEF LastTells
  <2>1. k \in 1..n /\ w[k] = s[k]  BY <1>1, <1>2
  <2>2. \A j \in 1..n : k < j => ~Asks(s[j].req)  BY <1>1, <1>3
  <2> QED  BY <2>1, <2>2 DEF LastTells, n
<1> QED  BY <1>4, <1>5, <1>6, <1>7 DEF w

\* The oldest answer leaves.
LEMMA ReplyLeaves ==
  ASSUME NEW s \in Seq(Reply), s # <<>>, NEW d \in Days
  PROVE  /\ LastTells(s, d) => LastTells(Tail(s), d)
         /\ NoneTells(s) <=> ~Asks(Head(s).req) /\ NoneTells(Tail(s))
         /\ LastTells(s, d) /\ Asks(Head(s).req) /\ NoneTells(Tail(s))
              => Head(s).ok /\ DOMAIN Head(s).counts = {d}
PROOF
<1> DEFINE w == Tail(s)
           n == Len(s)
<1>1. /\ n \in Nat /\ 1 \in 1..n /\ Len(w) = n - 1 /\ Head(s) = s[1]
      /\ \A i \in 1..Len(w) : w[i] = s[i + 1]
  OBVIOUS
<1> HIDE DEF w
<1>2. \A i \in 1..Len(w) : i + 1 \in 2..n /\ i + 1 \in 1..n  BY <1>1
<1>3. \A i \in 2..n : i - 1 \in 1..Len(w) /\ w[i - 1] = s[i]
  <2> TAKE i \in 2..n
  <2>1. i - 1 \in 1..Len(w) /\ (i - 1) + 1 = i  BY <1>1
  <2> QED  BY <1>1, <2>1
<1>4. NoneTells(w) <=> ~\E i \in 2..n : Asks(s[i].req)
  BY <1>1, <1>2, <1>3 DEF NoneTells
<1>5. NoneTells(s) <=> ~Asks(s[1].req) /\ NoneTells(w)
  <2>1. \A i \in 1..n : i = 1 \/ i \in 2..n  BY <1>1
  <2>2. \A i \in 2..n : i \in 1..n  BY <1>1
  <2> QED  BY <1>1, <1>4, <2>1, <2>2 DEF NoneTells
<1>6. LastTells(s, d) /\ Asks(s[1].req) /\ NoneTells(w)
        => s[1].ok /\ DOMAIN s[1].counts = {d}
  <2>1. \A j \in 1..n : 1 < j => j \in 2..n  BY <1>1
  <2> QED  BY <1>1, <1>4, <2>1 DEF LastTells
<1>7. LastTells(s, d) => LastTells(w, d)
  <2> SUFFICES ASSUME LastTells(s, d), NEW k \in 1..Len(w), Asks(w[k].req),
                      \A j \in 1..Len(w) : k < j => ~Asks(w[j].req)
               PROVE  w[k].ok /\ DOMAIN w[k].counts = {d}
    BY DEF LastTells
  <2>1. k + 1 \in 1..n /\ w[k] = s[k + 1]  BY <1>1, <1>2
  <2>2. \A j \in 1..n : k + 1 < j => ~Asks(s[j].req)
    <3> SUFFICES ASSUME NEW j \in 1..n, k + 1 < j PROVE ~Asks(s[j].req)  OBVIOUS
    <3>1. j \in 2..n /\ k < j - 1  BY <1>1
    <3> QED  BY <1>3, <3>1
  <2> QED  BY <2>1, <2>2 DEF LastTells
<1> QED  BY <1>1, <1>4, <1>5, <1>6, <1>7 DEF w

\* Answers that are no answer to the screen are lost from the end.
LEMMA RepliesLost ==
  ASSUME NEW s \in Seq(Reply), NEW n \in 0..Len(s), NEW d \in Days,
         \A i \in (n + 1)..Len(s) : ~Asks(s[i].req)
  PROVE  /\ NoneTells(SubSeq(s, 1, n)) <=> NoneTells(s)
         /\ LastTells(s, d) => LastTells(SubSeq(s, 1, n), d)
PROOF
<1> DEFINE w == SubSeq(s, 1, n)
<1>1. /\ Len(w) = n /\ n \in Nat /\ Len(s) \in Nat /\ n <= Len(s)
      /\ \A i \in 1..n : w[i] = s[i] /\ i \in 1..Len(s)
  OBVIOUS
<1> HIDE DEF w
<1>2. \A i \in 1..Len(s) : i \in 1..n \/ ~Asks(s[i].req)  BY <1>1
<1>3. NoneTells(w) <=> NoneTells(s)  BY <1>1, <1>2 DEF NoneTells
<1>4. LastTells(s, d) => LastTells(w, d)  BY <1>1, <1>2 DEF LastTells
<1> QED  BY <1>3, <1>4 DEF w

\* A question of the screen for the day it now shows is sent.
LEMMA QuestionFollows ==
  ASSUME RecordsTypeOK, NEW s \in Seq(Request), NEW d \in Days,
         toServer' = Append(s, Asked(d)), curDate' = d, title' = d
  PROVE  DayFollows'
PROOF
<1>1. Asked(d) \in Request /\ Asks(Asked(d))
      /\ Asked(d).start = d /\ Asked(d).end = d + 1
  BY OpenRecordsAssumption DEF Asked, Request, Asks, Days
<1>2. LastAsks(toServer', d) /\ ~NoneAsks(toServer')
  BY <1>1, RequestJoins
<1> QED  BY <1>2 DEF DayFollows

\* The last question goes from the screen to the server, comes back as the last
\* answer, and leaves its day in the table.
LEMMA DayStep ==
  RecordsTypeOK /\ DayFollows /\ [RecordsNext]_recordsVars => DayFollows'
PROOF
<1> SUFFICES ASSUME RecordsTypeOK, DayFollows, [RecordsNext]_recordsVars
             PROVE  DayFollows'
  OBVIOUS
<1>0. title \in Days /\ title \in Int
      /\ toServer \in Seq(Request) /\ toApp \in Seq(Reply)
  BY DEF RecordsTypeOK, Days
<1>1. CASE Serve
  <2> DEFINE r == Head(toServer)
             told == Between(r.start, r.end)
  <2>1. /\ toServer # <<>> /\ toServer' = Tail(toServer)
        /\ UNCHANGED <<open, curDate, title, records>>
    BY <1>1 DEF Serve, screen
  <2>2. PICK ok \in BOOLEAN :
          /\ missed' = (missed \/ (~ok /\ Asks(r) /\
                          ~\E i \in 2..Len(toServer) : Asks(toServer[i])))
          /\ toApp' = Append(toApp, [ok |-> ok, counts |-> told, req |-> r])
    BY <1>1 DEF Serve
  <2> DEFINE a == [ok |-> ok, counts |-> told, req |-> r]
  <2>3. r \in Request /\ a \in Reply /\ a.req = r /\ a.ok = ok /\ a.counts = told
    <3>1. r \in Request  BY <1>0, <2>1
    <3>2. told \in Counts  BY <3>1, BetweenCounts
    <3> QED  BY <3>1, <3>2 DEF Reply
  <2>4. r.start = title /\ r.end = title + 1 => DOMAIN told = {title}
    <3> SUFFICES ASSUME r.start = title, r.end = title + 1
                 PROVE  DOMAIN told = {title}
      OBVIOUS
    <3>1. DOMAIN told = {e \in Days : title <= e /\ e < title + 1}
      BY Zenon DEF Between
    <3>2. \A e \in Days : title <= e /\ e < title + 1 <=> e = title
      BY <1>0 DEF Days
    <3> QED  BY <1>0, <3>1, <3>2
  <2>5. /\ LastAsks(toServer, title) => LastAsks(toServer', title)
        /\ NoneAsks(toServer) <=> ~Asks(r) /\ NoneAsks(toServer')
        /\ LastAsks(toServer, title) /\ Asks(r) /\ NoneAsks(toServer')
             => r.start = title /\ r.end = title + 1
        /\ NoneAsks(toServer') <=> ~\E i \in 2..Len(toServer) : Asks(toServer[i])
    BY <1>0, <2>1, RequestLeaves
  <2> HIDE DEF told, a
  <2>6. /\ Asks(r) => ~NoneTells(toApp')
        /\ Asks(r) /\ ok /\ DOMAIN told = {title} => LastTells(toApp', title)
        /\ ~Asks(r) => /\ NoneTells(toApp') <=> NoneTells(toApp)
                       /\ LastTells(toApp, title) => LastTells(toApp', title)
    BY <1>0, <2>2, <2>3, ReplyJoins DEF a
  <2> HIDE DEF r
  <2>7. ~missed' => ~missed /\ (Asks(r) /\ NoneAsks(toServer') => ok)
    BY <2>2, <2>5
  <2> QED  BY <2>1, <2>4, <2>5, <2>6, <2>7 DEF DayFollows
<1>2. CASE Break
  <2>1. PICK n \in 0..Len(toApp) :
          /\ toApp' = SubSeq(toApp, 1, n)
          /\ missed' = (missed \/ InServer \/
                         \E i \in (n + 1)..Len(toApp) : Asks(toApp[i].req))
    BY <1>2 DEF Break
  <2>2. /\ toServer' = <<>> /\ UNCHANGED <<open, curDate, title, records>>
    BY <1>2 DEF Break, screen
  <2>3. LastAsks(toServer', title)  BY <2>2 DEF LastAsks
  <2> SUFFICES ASSUME open, ~missed'
               PROVE  /\ LastTells(toApp', title)
                      /\ NoneTells(toApp') => DOMAIN records = {title}
    BY <2>2, <2>3 DEF DayFollows
  <2>4. ~missed /\ ~InServer /\ \A i \in (n + 1)..Len(toApp) : ~Asks(toApp[i].req)
    BY <2>1
  <2>5. NoneAsks(toServer)  BY <1>0, <2>4 DEF NoneAsks, InServer
  <2>6. /\ NoneTells(toApp') <=> NoneTells(toApp)
        /\ LastTells(toApp, title) => LastTells(toApp', title)
    BY <1>0, <2>1, <2>4, RepliesLost
  <2> QED  BY <2>4, <2>5, <2>6 DEF DayFollows
<1>3. CASE OpenScreen
  BY <1>0, <1>3, QuestionFollows DEF OpenScreen, setMyCurDate, RecordsTypeOK
<1>4. CASE CloseScreen
  BY <1>4 DEF CloseScreen, DayFollows
<1>5. ASSUME NEW n \in {-1, 1}, Step(n) PROVE DayFollows'
  BY <1>0, <1>5, QuestionFollows DEF Step, setMyCurDate
<1>6. ASSUME NEW d \in Days, onClickSelDate(d) PROVE DayFollows'
  <2>1. Asked(d) \in Request
    BY OpenRecordsAssumption DEF Asked, Request, Days
  <2>2. toServer' = Append(Append(toServer, Asked(d)), Asked(d))
    BY <1>0, <1>6, <2>1 DEF onClickSelDate
  <2>3. Append(toServer, Asked(d)) \in Seq(Request)  BY <1>0, <2>1
  <2> QED  BY <1>6, <2>2, <2>3, QuestionFollows DEF onClickSelDate, setMyCurDate
<1>7. CASE OnRecords
  <2> DEFINE a == Head(toApp)
  <2>1. /\ toApp # <<>> /\ toApp' = Tail(toApp)
        /\ records' = IF a.ok /\ Asks(a.req) THEN a.counts ELSE records
        /\ UNCHANGED <<toServer, open, curDate, title, missed>>
    BY <1>7 DEF OnRecords
  <2>2. /\ LastTells(toApp, title) => LastTells(toApp', title)
        /\ NoneTells(toApp) <=> ~Asks(a.req) /\ NoneTells(toApp')
        /\ LastTells(toApp, title) /\ Asks(a.req) /\ NoneTells(toApp')
             => a.ok /\ DOMAIN a.counts = {title}
    BY <1>0, <2>1, ReplyLeaves
  <2> HIDE DEF a
  <2> QED  BY <2>1, <2>2 DEF DayFollows
<1>8. CASE addopenrecord
  <2> DEFINE r == [op |-> "add", start |-> today, end |-> today, home |-> TRUE]
  <2>1. r \in Request /\ ~Asks(r)
    BY OpenRecordsAssumption DEF Request, RecordsTypeOK, Days, Asks
  <2>2. /\ toServer' = Append(toServer, r)
        /\ UNCHANGED <<toApp, open, curDate, title, records, missed>>
    BY <1>8 DEF addopenrecord, screen
  <2> HIDE DEF r
  <2>3. /\ NoneAsks(toServer') <=> NoneAsks(toServer)
        /\ LastAsks(toServer, title) => LastAsks(toServer', title)
    BY <1>0, <2>1, <2>2, RequestJoins
  <2> QED  BY <2>2, <2>3 DEF DayFollows
<1>9. CASE Midnight \/ UNCHANGED recordsVars
  BY <1>9 DEF Midnight, recordsVars, wire, screen, DayFollows
<1> QED
  BY <1>1, <1>2, <1>3, <1>4, <1>5, <1>6, <1>7, <1>8, <1>9 DEF RecordsNext

\* When all its questions are answered the screen shows the records of the day
\* on its button, unless the last answer was a refusal or lost.
THEOREM RecordsOfTheDayCorrect == RecordsSpec => []RecordsOfTheDay
PROOF
<1>1. RecordsInit => DayFollows  BY DEF RecordsInit, DayFollows
<1>2. RecordsTypeOK /\ DayFollows => RecordsOfTheDay
  <2> SUFFICES ASSUME RecordsTypeOK, DayFollows, open, ~missed, ~Awaited
               PROVE  DOMAIN records = {title}
    BY DEF RecordsOfTheDay
  <2>1. NoneAsks(toServer) /\ NoneTells(toApp)
    BY DEF RecordsTypeOK, Awaited, InServer, NoneAsks, NoneTells
  <2> QED  BY <2>1 DEF DayFollows
<1> QED  BY <1>1, <1>2, DayStep, RecordsTypeCorrect, PTL DEF RecordsSpec
=============================================================================
