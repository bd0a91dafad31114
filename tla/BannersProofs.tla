---------------------------- MODULE BannersProofs ----------------------------
(***************************************************************************)
(* Proofs about Banners, for any texts and any number of views: the code   *)
(* keeps the promise of BannerQueue, and one banner is on the screen.      *)
(***************************************************************************)
EXTENDS Banners, SequenceTheorems, TLAPS

USE BannersAssumption DEF BannersAssumption

\* Whether a call is queued for a view, whatever the call.
HasCall(v) == \E c \in calls : c.view = v

\* The first of the queue is on the screen with a call to come; those behind it
\* have neither, and all texts and numbers differ.
QueueInv ==
  /\ notificationActive = (messages # <<>>)
  /\ messages # <<>> => messages[1] \in screen
  /\ \A i, j \in 1..Len(messages) : i # j =>
       messages[i].text # messages[j].text /\ messages[i].id # messages[j].id
  /\ \A i \in 1..Len(messages) : i > 1 =>
       /\ \A v \in screen : v.id # messages[i].id
       /\ \A c \in calls : c.view.id # messages[i].id

\* A view on the screen will get a call; an extra completion comes with a first.
CallsInv ==
  /\ \A v \in screen : HasCall(v)
  /\ \A v \in View : ToCome("again", v) \in calls => ToCome("completion", v) \in calls

\* Without a crossing the one view on the screen is the first of the queue, all
\* calls are its calls, and one that fades out has no other.
NotCrossed ==
  ~crossed =>
    /\ screen = IF messages = <<>> THEN {} ELSE {Head(messages)}
    /\ \A c \in calls : c.view \in screen
    /\ \A v \in screen :
         /\ ToCome("again", v) \notin calls
         /\ ~(ToCome("arm", v) \in calls /\ ToCome("timer", v) \in calls)
         /\ ToCome("completion", v) \in calls =>
              \A c \in calls : c = ToCome("completion", v)

IInv == TypeOK /\ QueueInv /\ CallsInv /\ NotCrossed

-----------------------------------------------------------------------------
(* Two ways to change the queue: a view joins it, or its first leaves.      *)

\* The view made for a text that is not queued.
Made(t) == [id |-> CHOOSE i \in Unused : TRUE, text |-> t]

LEMMA MadeFresh ==
  ASSUME TypeOK, NEW t \in Texts, SpareView
  PROVE  /\ Made(t) \in View /\ Made(t).text = t
         /\ \A k \in 1..Len(messages) : messages[k].id # Made(t).id
         /\ \A v \in screen : v.id # Made(t).id
         /\ \A c \in calls : c.view.id # Made(t).id
<1>1. (CHOOSE i \in Unused : TRUE) \in Unused
  BY DEF SpareView
<1>2. DOMAIN messages = 1..Len(messages)
  BY DEF TypeOK
<1> QED BY <1>1, <1>2 DEF Made, Unused, View

\* A new view joins the queue; if nothing is shown, it fades in.
Joins(t) ==
  /\ SpareView /\ \A i \in 1..Len(messages) : messages[i].text # t
  /\ UNCHANGED crossed
  /\ LET m == Append(messages, Made(t))
     IN IF notificationActive
        THEN messages' = m /\ UNCHANGED <<notificationActive, screen, calls>>
        ELSE fadeInCurrentNotification(m, screen, calls)

\* Every step is one of these.
LEMMA Steps ==
  ASSUME TypeOK, Next
  PROVE  \/ UNCHANGED vars
         \/ \E t \in Texts : Joins(t)
         \/ \E v \in View : \/ Tap(v) \/ Arm(v) \/ completeFadeOut(v)
                            \/ \E what \in {"timer", "tap"} : fadeOutNotification(what, v)
<1>0. DOMAIN messages = 1..Len(messages)
  BY DEF TypeOK
<1>1. CASE \E t \in Texts : SpareView /\ prepareNotificationToBeShown(t)
  BY <1>0, <1>1 DEF prepareNotificationToBeShown, Made, Joins
<1>2. CASE TapBanner
  BY <1>2 DEF TapBanner, TypeOK
<1>3. ASSUME NEW i \in 1..MaxViews, BannerCall(i) PROVE \E v \in View :
        \/ Arm(v) \/ completeFadeOut(v)
        \/ \E what \in {"timer", "tap"} : fadeOutNotification(what, v)
  <2>1. {c.view : c \in calls} \subseteq View
    BY DEF TypeOK, Call
  <2> QED BY <1>3, <2>1 DEF BannerCall
<1> QED BY <1>1, <1>2, <1>3 DEF Next

LEMMA JoinsShape ==
  ASSUME IInv, NEW t \in Texts, Joins(t)
  PROVE  /\ messages' = Append(messages, Made(t))
         /\ messages' \in Seq(View) /\ Len(messages') = Len(messages) + 1
         /\ \A i \in 1..Len(messages) : messages'[i] = messages[i]
         /\ messages'[Len(messages) + 1] = Made(t)
         /\ notificationActive' = TRUE
         /\ messages # <<>> => UNCHANGED <<screen, calls>>
         /\ messages = <<>> => /\ screen' = screen \cup {Made(t)}
                               /\ calls' = calls \cup {ToCome("arm", Made(t))}
<1>0. messages \in Seq(View) /\ Made(t) \in View
  BY MadeFresh DEF IInv, TypeOK, Joins
<1>1. messages' = Append(messages, Made(t))
  BY DEF Joins, fadeInCurrentNotification
<1>2. /\ messages' \in Seq(View) /\ Len(messages') = Len(messages) + 1
      /\ messages' # <<>>
      /\ \A i \in 1..Len(messages) : messages'[i] = messages[i]
      /\ messages'[Len(messages) + 1] = Made(t)
  BY <1>0, <1>1, AppendProperties
<1>3. notificationActive = (messages # <<>>)
  BY DEF IInv, QueueInv
<1>4. CASE messages # <<>>
  BY <1>1, <1>2, <1>3, <1>4 DEF Joins
<1>5. CASE messages = <<>>
  <2>1. Head(Append(messages, Made(t))) = Made(t)
    BY <1>0, <1>5, HeadTailAppend
  <2>2. notificationActive = FALSE
    BY <1>3, <1>5
  <2>3. Append(messages, Made(t)) # <<>>
    BY <1>1, <1>2
  <2>4. fadeInCurrentNotification(Append(messages, Made(t)), screen, calls)
    BY <2>2 DEF Joins
  <2> QED BY <1>1, <1>2, <1>5, <2>1, <2>3, <2>4 DEF fadeInCurrentNotification
<1> QED BY <1>1, <1>2, <1>4, <1>5

LEMMA JoinsStep ==
  ASSUME IInv, NEW t \in Texts, Joins(t)
  PROVE  IInv'
<1>0. TypeOK /\ SpareView
  BY DEF IInv, Joins
<1> DEFINE w == Made(t)
<1>1. /\ w \in View /\ w.text = t
      /\ \A k \in 1..Len(messages) : messages[k].id # w.id
      /\ \A v \in screen : v.id # w.id
      /\ \A c \in calls : c.view.id # w.id
  BY <1>0, MadeFresh
<1>2. /\ messages' = Append(messages, w)
      /\ messages' \in Seq(View) /\ Len(messages') = Len(messages) + 1
      /\ \A i \in 1..Len(messages) : messages'[i] = messages[i]
      /\ messages'[Len(messages) + 1] = w
      /\ notificationActive' = TRUE
      /\ messages # <<>> => UNCHANGED <<screen, calls>>
      /\ messages = <<>> => /\ screen' = screen \cup {w}
                            /\ calls' = calls \cup {ToCome("arm", w)}
  BY JoinsShape
<1>3. /\ ToCome("arm", w) \in Call /\ ToCome("arm", w).view = w
      /\ \A v : ToCome("again", v) # ToCome("arm", w)
      /\ \A v : ToCome("completion", v) # ToCome("arm", w)
      /\ \A v : ToCome("timer", v) # ToCome("arm", w)
  BY <1>1 DEF ToCome, Call
<1>4. crossed' = crossed /\ \A i \in 1..Len(messages) : messages[i].text # t
  BY DEF Joins
<1>5. Len(messages) \in Nat /\ (messages = <<>> <=> Len(messages) = 0)
  BY <1>0 DEF TypeOK
<1>6. TypeOK'
  BY <1>0, <1>2, <1>3, <1>4, <1>1 DEF TypeOK
<1>7. QueueInv'
  <2>1. notificationActive' = (messages' # <<>>)
    <3>1. messages' # <<>>
      BY <1>2, <1>5
    <3>2. (messages' # <<>>) = TRUE
      BY <3>1
    <3> QED BY <1>2, <3>2
  <2>2. messages'[1] \in screen'
    BY <1>2, <1>5 DEF IInv, QueueInv
  <2>3. \A i, j \in 1..Len(messages)' : i # j =>
          messages'[i].text # messages'[j].text /\ messages'[i].id # messages'[j].id
    BY <1>1, <1>2, <1>4, <1>5 DEF IInv, QueueInv
  <2>4. \A i \in 1..Len(messages)' : i > 1 =>
          /\ \A v \in screen' : v.id # messages'[i].id
          /\ \A c \in calls' : c.view.id # messages'[i].id
    BY <1>1, <1>2, <1>5 DEF IInv, QueueInv
  <2> QED BY <2>1, <2>2, <2>3, <2>4 DEF QueueInv
<1>8. CallsInv'
  BY <1>2, <1>3, <1>5 DEF IInv, CallsInv, HasCall
<1>9. NotCrossed'
  <2> SUFFICES ASSUME ~crossed'
               PROVE  /\ screen' = {messages'[1]}
                      /\ \A c \in calls' : c.view \in screen'
                      /\ \A v \in screen' :
                           /\ ToCome("again", v) \notin calls'
                           /\ ~(ToCome("arm", v) \in calls' /\ ToCome("timer", v) \in calls')
                           /\ ToCome("completion", v) \in calls' =>
                                \A c \in calls' : c = ToCome("completion", v)
    BY <1>2, <1>5 DEF NotCrossed
  <2>1. CASE messages # <<>>
    BY <1>2, <1>4, <1>5, <2>1 DEF IInv, NotCrossed
  <2>2. CASE messages = <<>>
    <3>1. screen = {} /\ calls = {}
      BY <1>4, <2>2 DEF IInv, NotCrossed
    <3> QED BY <1>2, <1>3, <1>5, <2>2, <3>1
  <2> QED BY <2>1, <2>2
<1> QED BY <1>6, <1>7, <1>8, <1>9 DEF IInv

-----------------------------------------------------------------------------
(* Taps, timers and the beginnings of fade-outs: the queue and the screen   *)
(* stay as they are.                                                        *)

LEMMA CallNames ==
  /\ \A what, other, v, u : ToCome(what, v) = ToCome(other, u) <=> what = other /\ v = u
  /\ \A what, v : ToCome(what, v).view = v
  /\ \A v \in View, what \in {"arm", "timer", "tap", "completion", "again"} :
       ToCome(what, v) \in Call
  BY DEF ToCome, Call

\* The views that calls are to come for do not grow, but for one on the screen.
LEMMA QueueStays ==
  ASSUME IInv, UNCHANGED <<messages, notificationActive, screen>>,
         \A c \in calls' : c.view \in screen \/ HasCall(c.view)
  PROVE  QueueInv'
<1>1. \A i \in 1..Len(messages) : i > 1 =>
        /\ \A v \in screen : v.id # messages[i].id
        /\ \A c \in calls : c.view.id # messages[i].id
  BY DEF IInv, QueueInv
<1>2. \A i \in 1..Len(messages) : i > 1 => \A c \in calls' : c.view.id # messages[i].id
  BY <1>1 DEF HasCall
<1> QED BY <1>1, <1>2 DEF IInv, QueueInv

LEMMA TapStep ==
  ASSUME IInv, NEW v \in View, Tap(v)
  PROVE  IInv'
<1>1. /\ v \in screen /\ calls' = calls \cup {ToCome("tap", v)}
      /\ ToCome("tap", v) \notin calls /\ ToCome("completion", v) \notin calls
      /\ UNCHANGED <<messages, notificationActive, screen, crossed>>
  BY DEF Tap
<1>2. TypeOK'
  BY <1>1, CallNames DEF IInv, TypeOK
<1>3. QueueInv'
  <2>1. \A c \in calls' : c.view \in screen \/ HasCall(c.view)
    BY <1>1, CallNames DEF HasCall
  <2> QED BY <1>1, <2>1, QueueStays
<1>4. CallsInv'
  BY <1>1, CallNames DEF IInv, CallsInv, HasCall
<1>5. NotCrossed'
  BY <1>1, CallNames DEF IInv, NotCrossed
<1> QED BY <1>2, <1>3, <1>4, <1>5 DEF IInv

LEMMA ArmStep ==
  ASSUME IInv, NEW v \in View, Arm(v)
  PROVE  IInv'
<1>1. /\ ToCome("arm", v) \in calls
      /\ calls' = (calls \ {ToCome("arm", v)}) \cup {ToCome("timer", v)}
      /\ UNCHANGED <<messages, notificationActive, screen, crossed>>
  BY DEF Arm
<1>2. TypeOK'
  BY <1>1, CallNames DEF IInv, TypeOK
<1>3. QueueInv'
  <2>1. \A c \in calls' : c.view \in screen \/ HasCall(c.view)
    BY <1>1, CallNames DEF HasCall
  <2> QED BY <1>1, <2>1, QueueStays
<1>4. CallsInv'
  BY <1>1, CallNames DEF IInv, CallsInv, HasCall
<1>5. NotCrossed'
  BY <1>1, CallNames DEF IInv, NotCrossed
<1> QED BY <1>2, <1>3, <1>4, <1>5 DEF IInv

LEMMA FadeOutStep ==
  ASSUME IInv, NEW v \in View, NEW what \in {"timer", "tap"},
         fadeOutNotification(what, v)
  PROVE  IInv'
<1> DEFINE end == IF ToCome("completion", v) \in calls THEN "again" ELSE "completion"
<1>1. /\ ToCome(what, v) \in calls
      /\ calls' = (calls \ {ToCome(what, v), ToCome("timer", v)}) \cup {ToCome(end, v)}
      /\ crossed' = (crossed \/ Crosses(what, v))
      /\ UNCHANGED <<messages, notificationActive, screen>>
  BY DEF fadeOutNotification
<1>2. TypeOK'
  <2>1. ToCome(end, v) \in Call
    BY CallNames
  <2>2. crossed' \in BOOLEAN
    BY <1>1
  <2> QED BY <1>1, <2>1, <2>2 DEF IInv, TypeOK
<1>3. QueueInv'
  <2>1. \A c \in calls' : c.view \in screen \/ HasCall(c.view)
    BY <1>1, CallNames DEF HasCall
  <2> QED BY <1>1, <2>1, QueueStays
<1>4. CallsInv'
  BY <1>1, CallNames DEF IInv, CallsInv, HasCall
<1>5. NotCrossed'
  <2> SUFFICES ASSUME ~crossed' PROVE NotCrossed'
    BY DEF NotCrossed
  <2>1. ~crossed /\ ~Crosses(what, v)
    BY <1>1
  <2>2. /\ screen = IF messages = <<>> THEN {} ELSE {Head(messages)}
        /\ \A c \in calls : c.view \in screen
    BY <2>1 DEF IInv, NotCrossed
  <2>3. v \in screen /\ screen = {v}
    BY <1>1, <2>2, CallNames
  <2>4. /\ ToCome("again", v) \notin calls
        /\ ~(ToCome("arm", v) \in calls /\ ToCome("timer", v) \in calls)
        /\ ToCome("completion", v) \notin calls
    BY <1>1, <2>1, <2>3, CallNames DEF IInv, NotCrossed
  <2>5. calls' = {ToCome("completion", v)}
    <3>1. \A c \in calls : \E w \in {"arm", "timer", "tap", "completion", "again"} :
            c = ToCome(w, v)
      BY <2>2, <2>3 DEF IInv, TypeOK, Call, ToCome
    <3>2. \A c \in calls : c \in {ToCome(what, v), ToCome("timer", v)}
      BY <1>1, <2>1, <2>4, <3>1, CallNames DEF Crosses
    <3> QED BY <1>1, <2>4, <3>2
  <2> QED BY <1>1, <2>2, <2>3, <2>5, CallNames DEF NotCrossed
<1> QED BY <1>2, <1>3, <1>4, <1>5 DEF IInv

-----------------------------------------------------------------------------
(* The end of a fade-out: the first of the queue leaves.                    *)

LEMMA LeavesShape ==
  ASSUME IInv, NEW v \in View, completeFadeOut(v)
  PROVE  /\ messages' \in Seq(View)
         /\ messages = <<>> => messages' = <<>>
         /\ messages # <<>> =>
              /\ messages' = Tail(messages) /\ Len(messages') = Len(messages) - 1
              /\ \A i \in 1..Len(messages') : messages'[i] = messages[i + 1]
         /\ notificationActive' = (messages' # <<>>)
         /\ messages' = <<>> => screen' = screen \ {v} /\ calls' = Completed(v)
         /\ messages' # <<>> =>
              /\ screen' = (screen \ {v}) \cup {messages'[1]}
              /\ calls' = Completed(v) \cup {ToCome("arm", messages'[1])}
<1>0. messages \in Seq(View)
  BY DEF IInv, TypeOK
<1>1. messages' = IF messages = <<>> THEN <<>> ELSE Tail(messages)
  BY DEF completeFadeOut, fadeInCurrentNotification
<1>2. messages # <<>> =>
        /\ messages' \in Seq(View) /\ Len(messages') = Len(messages) - 1
        /\ \A i \in 1..Len(messages') : messages'[i] = messages[i + 1]
  BY <1>0, <1>1, HeadTailProperties
<1>3. messages = <<>> => messages' \in Seq(View)
  BY <1>1
<1>4. messages' # <<>> => Head(messages') = messages'[1]
  BY <1>2, <1>3
<1>5. fadeInCurrentNotification(messages', screen \ {v}, Completed(v))
  BY <1>1 DEF completeFadeOut
<1>6. notificationActive' = (messages' # <<>>)
  BY <1>5 DEF fadeInCurrentNotification
<1>7. /\ screen' = (screen \ {v}) \cup (IF messages' = <<>> THEN {} ELSE {Head(messages')})
      /\ calls' = Completed(v) \cup (IF messages' = <<>> THEN {}
                                     ELSE {ToCome("arm", Head(messages'))})
  BY <1>5 DEF fadeInCurrentNotification
<1>8. messages' = <<>> => screen' = screen \ {v} /\ calls' = Completed(v)
  BY <1>7
<1>9. messages' # <<>> =>
        /\ screen' = (screen \ {v}) \cup {messages'[1]}
        /\ calls' = Completed(v) \cup {ToCome("arm", messages'[1])}
  BY <1>4, <1>7
<1> QED BY <1>1, <1>2, <1>3, <1>6, <1>8, <1>9

LEMMA CompletionStep ==
  ASSUME IInv, NEW v \in View, completeFadeOut(v)
  PROVE  IInv'
<1>0. /\ messages \in Seq(View) /\ screen \subseteq View /\ calls \subseteq Call
      /\ crossed \in BOOLEAN
  BY DEF IInv, TypeOK
<1>1. /\ messages' \in Seq(View)
      /\ messages = <<>> => messages' = <<>>
      /\ messages # <<>> =>
           /\ messages' = Tail(messages) /\ Len(messages') = Len(messages) - 1
           /\ \A i \in 1..Len(messages') : messages'[i] = messages[i + 1]
      /\ notificationActive' = (messages' # <<>>)
      /\ messages' = <<>> => screen' = screen \ {v} /\ calls' = Completed(v)
      /\ messages' # <<>> =>
           /\ screen' = (screen \ {v}) \cup {messages'[1]}
           /\ calls' = Completed(v) \cup {ToCome("arm", messages'[1])}
  BY LeavesShape
<1>2. /\ ToCome("completion", v) \in calls
      /\ crossed' = (crossed /\ calls' # {})
  BY DEF completeFadeOut
<1>3. /\ Len(messages) \in Nat /\ (messages = <<>> <=> Len(messages) = 0)
      /\ Len(messages') \in Nat /\ (messages' = <<>> <=> Len(messages') = 0)
  BY <1>0, <1>1
<1>4. messages' # <<>> =>
        /\ messages'[1] \in View /\ messages'[1] = messages[2]
        /\ 1 \in 1..Len(messages') /\ 2 \in 1..Len(messages)
  BY <1>1, <1>3
\* The view that is first by now had no call and was not on the screen.
<1>5. messages' # <<>> =>
        /\ \A u \in screen : u # messages'[1]
        /\ \A c \in calls : c.view # messages'[1]
  BY <1>4 DEF IInv, QueueInv
<1>6. /\ Completed(v) \subseteq calls
      /\ \A c \in calls : c.view # v => c \in Completed(v)
      /\ \A c \in Completed(v) : c # ToCome("again", v)
           \/ ToCome("again", v) \notin calls
      /\ ToCome("again", v) \in calls => ToCome("completion", v) \in Completed(v)
      /\ ToCome("again", v) \notin calls => ToCome("completion", v) \notin Completed(v)
  BY <1>2, CallNames DEF Completed
<1>7. TypeOK'
  <2>1. messages' # <<>> => ToCome("arm", messages'[1]) \in Call
    BY <1>4, CallNames
  <2>2. notificationActive' \in BOOLEAN /\ crossed' \in BOOLEAN
    BY <1>1, <1>2
  <2>3. screen' \subseteq View /\ calls' \subseteq Call
    BY <1>0, <1>1, <1>4, <1>6, <2>1
  <2> QED BY <1>1, <2>2, <2>3 DEF TypeOK
<1>8. QueueInv'
  <2>1. messages' # <<>> => messages'[1] \in screen'
    BY <1>1
  <2>2. \A i \in 1..Len(messages') :
          messages # <<>> /\ i + 1 \in 1..Len(messages) /\ messages'[i] = messages[i + 1]
    BY <1>1, <1>3
  <2>3. \A i, j \in 1..Len(messages') : i # j =>
          messages'[i].text # messages'[j].text /\ messages'[i].id # messages'[j].id
    BY <2>2 DEF IInv, QueueInv
  <2>4. ASSUME NEW i \in 1..Len(messages'), i > 1
        PROVE  /\ \A u \in screen' : u.id # messages'[i].id
               /\ \A c \in calls' : c.view.id # messages'[i].id
    <3>1. /\ \A u \in screen : u.id # messages'[i].id
          /\ \A c \in calls : c.view.id # messages'[i].id
      BY <2>2, <2>4 DEF IInv, QueueInv
    <3>2. messages'[1].id # messages'[i].id
      BY <1>3, <2>3, <2>4
    <3> QED BY <1>1, <1>3, <1>6, <3>1, <3>2, CallNames
  <2> QED BY <1>1, <2>1, <2>3, <2>4 DEF QueueInv
<1>9. CallsInv'
  <2>1. ASSUME NEW u \in screen' PROVE HasCall(u)'
    <3>1. CASE u \in screen /\ u # v
      BY <1>1, <1>6, <3>1 DEF IInv, CallsInv, HasCall
    <3>2. CASE messages' # <<>> /\ u = messages'[1]
      BY <1>1, <3>2, CallNames DEF HasCall
    <3> QED BY <1>1, <2>1, <3>1, <3>2
  <2>2. \A u \in View : ToCome("again", u) \in calls' => ToCome("completion", u) \in calls'
    BY <1>1, <1>6, CallNames DEF IInv, CallsInv
  <2> QED BY <2>1, <2>2 DEF CallsInv
<1>10. NotCrossed'
  <2> SUFFICES ASSUME ~crossed' PROVE NotCrossed'
    BY DEF NotCrossed
  <2>1. screen \ {v} = {} /\ Completed(v) = {}
    <3>1. CASE crossed
      <4>1. calls' = {}
        BY <1>2, <3>1
      <4>2. Completed(v) = {}
        BY <1>1, <4>1
      <4>3. \A u \in screen : u = v
        BY <1>6, <4>2 DEF IInv, CallsInv, HasCall
      <4> QED BY <4>2, <4>3
    <3>2. CASE ~crossed
      <4>1. /\ screen = IF messages = <<>> THEN {} ELSE {Head(messages)}
            /\ v \in screen /\ ToCome("again", v) \notin calls
        BY <1>2, <3>2, CallNames DEF IInv, NotCrossed
      <4>2. screen = {v}
        BY <4>1
      <4>3. \A c \in calls : c = ToCome("completion", v)
        BY <1>2, <3>2, <4>1 DEF IInv, NotCrossed
      <4> QED BY <4>1, <4>2, <4>3 DEF Completed
    <3> QED BY <3>1, <3>2
  <2>2. CASE messages' = <<>>
    BY <1>1, <2>1, <2>2 DEF NotCrossed
  <2>3. CASE messages' # <<>>
    <3>1. /\ screen' = {messages'[1]} /\ Head(messages') = messages'[1]
          /\ calls' = {ToCome("arm", messages'[1])}
      BY <1>1, <2>1, <2>3
    <3> QED BY <2>3, <3>1, CallNames DEF NotCrossed
  <2> QED BY <2>2, <2>3
<1> QED BY <1>7, <1>8, <1>9, <1>10 DEF IInv

-----------------------------------------------------------------------------
(* The invariant, and what follows from it.                                 *)

LEMMA InitInvariant == Init => IInv
<1> SUFFICES ASSUME Init PROVE IInv
  OBVIOUS
<1>1. /\ messages = <<>> /\ notificationActive = FALSE
      /\ screen = {} /\ calls = {} /\ crossed = FALSE
  BY DEF Init
<1>2. TypeOK
  <2>1. <<>> \in Seq(View)
    OBVIOUS
  <2> QED BY <1>1, <2>1 DEF TypeOK
<1>3. (messages # <<>>) = FALSE /\ Len(messages) = 0
  BY <1>1
<1>4. QueueInv
  <2>1. notificationActive = (messages # <<>>)
    BY <1>1, <1>3, Zenon
  <2>2. /\ \A i, j \in 1..Len(messages) : i # j =>
             messages[i].text # messages[j].text /\ messages[i].id # messages[j].id
        /\ \A i \in 1..Len(messages) : i > 1 =>
             /\ \A v \in screen : v.id # messages[i].id
             /\ \A c \in calls : c.view.id # messages[i].id
    BY <1>3
  <2> QED BY <1>3, <2>1, <2>2 DEF QueueInv
<1>5. CallsInv /\ NotCrossed
  BY <1>1 DEF CallsInv, NotCrossed
<1> QED BY <1>2, <1>4, <1>5 DEF IInv

LEMMA StepInvariant == IInv /\ [Next]_vars => IInv'
<1> SUFFICES ASSUME IInv, [Next]_vars PROVE IInv'
  OBVIOUS
<1>1. CASE UNCHANGED vars
  BY <1>1 DEF vars, IInv, TypeOK, QueueInv, CallsInv, HasCall, NotCrossed
<1>2. CASE Next
  <2>1. TypeOK
    BY DEF IInv
  <2> QED BY <1>1, <1>2, <2>1, Steps, JoinsStep, TapStep, ArmStep, FadeOutStep,
             CompletionStep
<1> QED BY <1>1, <1>2

THEOREM Invariance == Spec => []IInv
<1> QED BY InitInvariant, StepInvariant, PTL DEF Spec

\* Views, queue and calls keep their types, for any texts and views.
THEOREM TypesCorrect == Spec => []TypeOK
<1>1. IInv => TypeOK
  BY DEF IInv
<1> QED BY <1>1, Invariance, PTL

\* Unless a tap and a timer have crossed, the screen shows the first banner of
\* the queue and no other, for any texts and views.
THEOREM OneAtATimeCorrect == Spec => []OneAtATime
<1>1. IInv => OneAtATime
  BY DEF IInv, NotCrossed, OneAtATime
<1> QED BY <1>1, Invariance, PTL

-----------------------------------------------------------------------------
(* Banners implements BannerQueue.                                          *)

(* The two texts of BannerQueue as the proofs use them. *)

LEMMA NoneWaiting ==
  ASSUME NEW S, NEW s \in Seq(S), Len(s) = 0 PROVE s = <<>>
  OBVIOUS

LEMMA Mapped ==
  IInv => /\ TextShown = IF messages = <<>> THEN NoText ELSE messages[1].text
          /\ messages = <<>> => TextsWaiting = <<>>
          /\ messages # <<>> =>
               TextsWaiting = [i \in 1..(Len(messages) - 1) |-> messages[i + 1].text]
<1> SUFFICES ASSUME IInv PROVE
       /\ TextShown = IF messages = <<>> THEN NoText ELSE messages[1].text
       /\ messages = <<>> => TextsWaiting = <<>>
       /\ messages # <<>> =>
            TextsWaiting = [i \in 1..(Len(messages) - 1) |-> messages[i + 1].text]
  OBVIOUS
<1>1. messages # <<>> => Head(messages) = messages[1] /\ messages[1] \in screen
  BY DEF IInv, TypeOK, QueueInv
<1> QED BY <1>1 DEF TextShown, TextsWaiting

LEMMA MappedNext ==
  IInv' => /\ TextShown' = IF messages' = <<>> THEN NoText ELSE messages'[1].text
           /\ messages' = <<>> => TextsWaiting' = <<>>
           /\ messages' # <<>> =>
                TextsWaiting' = [i \in 1..(Len(messages') - 1) |-> messages'[i + 1].text]
<1>1. ASSUME IInv' PROVE
       /\ TextShown' = IF messages' = <<>> THEN NoText ELSE messages'[1].text
       /\ messages' = <<>> => TextsWaiting' = <<>>
       /\ messages' # <<>> =>
            TextsWaiting' = [i \in 1..(Len(messages') - 1) |-> messages'[i + 1].text]
  <2>1. messages' # <<>> => Head(messages') = messages'[1] /\ messages'[1] \in screen'
    BY <1>1 DEF IInv, TypeOK, QueueInv
  <2> QED BY <2>1 DEF TextShown, TextsWaiting
<1> QED BY <1>1

LEMMA QueueUnchanged ==
  ASSUME UNCHANGED <<messages, screen>>
  PROVE  UNCHANGED BQ!queue
  BY DEF BQ!queue, TextsWaiting, TextShown

LEMMA JoinsRefines ==
  ASSUME IInv, NEW t \in Texts, Joins(t)
  PROVE  BQ!Post(t) \/ BQ!ShowAtOnce(t)
<1>0. IInv'
  BY JoinsStep
<1>1. /\ messages' = Append(messages, Made(t))
      /\ messages' \in Seq(View) /\ Len(messages') = Len(messages) + 1
      /\ \A i \in 1..Len(messages) : messages'[i] = messages[i]
      /\ messages'[Len(messages) + 1] = Made(t)
  BY JoinsShape
<1>2. Made(t).text = t
  BY MadeFresh DEF IInv, Joins
<1>3. /\ Len(messages) \in Nat /\ (messages = <<>> <=> Len(messages) = 0)
      /\ messages' # <<>>
      /\ \A i \in 1..Len(messages) : messages[i] \in View
  BY <1>1 DEF IInv, TypeOK
<1>4. \A i \in 1..Len(messages) : messages[i].text # t
  BY DEF Joins
<1>5. /\ TextShown' = messages'[1].text
      /\ TextsWaiting' = [i \in 1..(Len(messages') - 1) |-> messages'[i + 1].text]
  BY <1>0, <1>3, MappedNext
<1>6. CASE messages = <<>>
  <2>1. TextShown = NoText /\ TextsWaiting = <<>>
    BY <1>6, Mapped
  <2>2. TextShown' = t
    BY <1>1, <1>2, <1>3, <1>5, <1>6
  <2>3. Len(messages') - 1 = 0
    BY <1>1, <1>3, <1>6
  <2>4. TextsWaiting' = <<>>
    <3>1. TextsWaiting' = [i \in 1..0 |-> messages'[i + 1].text]
      BY <1>5, <2>3
    <3>2. TextsWaiting' \in Seq(Texts) /\ Len(TextsWaiting') = 0
      BY <3>1
    <3> QED BY <3>2, NoneWaiting
  <2> QED BY <2>1, <2>2, <2>4 DEF BQ!ShowAtOnce
<1>7. CASE messages # <<>>
  <2> DEFINE n == Len(messages) - 1
  <2>1. /\ TextShown = messages[1].text /\ TextShown \in Texts
        /\ TextsWaiting = [i \in 1..n |-> messages[i + 1].text]
    BY <1>3, <1>7, Mapped DEF View
  <2>2. n \in Nat /\ Len(messages') - 1 = n + 1
    BY <1>1, <1>3, <1>7
  <2>3. \A i \in 1..n : messages[i + 1].text \in Texts /\ messages[i + 1].text # t
    BY <1>3, <1>4, <2>2 DEF View
  <2>4. TextsWaiting \in Seq(Texts) /\ Len(TextsWaiting) = n
    BY <2>1, <2>2, <2>3
  <2>5. TextsWaiting' = Append(TextsWaiting, t)
    <3>1. /\ Append(TextsWaiting, t) \in Seq(Texts)
          /\ Len(Append(TextsWaiting, t)) = n + 1
          /\ \A i \in 1..n : Append(TextsWaiting, t)[i] = TextsWaiting[i]
          /\ Append(TextsWaiting, t)[n + 1] = t
      BY <2>4, AppendProperties
    <3>2. /\ TextsWaiting' \in Seq(Texts) /\ Len(TextsWaiting') = n + 1
          /\ \A i \in 1..(n + 1) : TextsWaiting'[i] = messages'[i + 1].text
      <4>1. TextsWaiting' = [i \in 1..(n + 1) |-> messages'[i + 1].text]
        BY <1>5, <2>2
      <4>2. \A i \in 1..(n + 1) : i + 1 \in 1..Len(messages')
        BY <1>1, <1>3, <2>2
      <4>3. \A i \in 1..(n + 1) : messages'[i + 1] \in View
        BY <1>1, <4>2, ElementOfSeq
      <4>4. \A i \in 1..(n + 1) : messages'[i + 1].text \in Texts
        BY <4>3 DEF View
      <4> QED BY <2>2, <4>1, <4>4
    <3>3. \A i \in 1..(n + 1) : messages'[i + 1].text = Append(TextsWaiting, t)[i]
      <4>1. ASSUME NEW i \in 1..n
            PROVE  messages'[i + 1].text = Append(TextsWaiting, t)[i]
        BY <1>1, <1>3, <2>1, <2>2, <3>1
      <4>2. messages'[(n + 1) + 1].text = t
        BY <1>1, <1>2, <2>2, <1>3
      <4> QED BY <2>2, <3>1, <4>1, <4>2
    <3> QED BY <3>1, <3>2, <3>3, SeqEqual
  <2>6. TextShown' = TextShown
    BY <1>1, <1>3, <1>5, <1>7, <2>1
  <2>7. TextShown # NoText /\ TextShown # t
    BY <1>3, <1>4, <1>7, <2>1
  <2>8. \A i \in DOMAIN TextsWaiting : TextsWaiting[i] # t
    BY <2>1, <2>3
  <2> QED BY <2>5, <2>6, <2>7, <2>8 DEF BQ!Post
<1> QED BY <1>6, <1>7

LEMMA CompletionRefines ==
  ASSUME IInv, NEW v \in View, completeFadeOut(v)
  PROVE  BQ!Advance \/ BQ!Finish \/ UNCHANGED BQ!queue
<1>0. IInv'
  BY CompletionStep
<1>1. /\ messages' \in Seq(View)
      /\ messages = <<>> => messages' = <<>>
      /\ messages # <<>> =>
           /\ Len(messages') = Len(messages) - 1
           /\ \A i \in 1..Len(messages') : messages'[i] = messages[i + 1]
  BY LeavesShape
<1>2. /\ Len(messages) \in Nat /\ (messages = <<>> <=> Len(messages) = 0)
      /\ Len(messages') \in Nat /\ (messages' = <<>> <=> Len(messages') = 0)
      /\ \A i \in 1..Len(messages) : messages[i] \in View
  BY <1>1 DEF IInv, TypeOK
<1>3. CASE messages = <<>>
  BY <1>0, <1>1, <1>3, Mapped, MappedNext DEF BQ!queue
<1>4. CASE messages # <<>> /\ messages' = <<>>
  <2>1. Len(messages) - 1 = 0 /\ messages[1].text \in Texts
    BY <1>1, <1>2, <1>4 DEF View
  <2>2. TextsWaiting = <<>> /\ TextShown \in Texts
    <3>1. TextsWaiting = [i \in 1..0 |-> messages[i + 1].text] /\ TextShown \in Texts
      BY <1>4, <2>1, Mapped
    <3>2. TextsWaiting \in Seq(Texts) /\ Len(TextsWaiting) = 0
      BY <3>1
    <3> QED BY <3>1, <3>2, NoneWaiting
  <2>3. TextsWaiting' = <<>> /\ TextShown' = NoText
    BY <1>0, <1>4, MappedNext
  <2> QED BY <2>2, <2>3 DEF BQ!Finish
<1>5. CASE messages' # <<>>
  <2> DEFINE n == Len(messages) - 1
  <2>1. messages # <<>> /\ n \in Nat /\ n > 0 /\ Len(messages') = n
    BY <1>1, <1>2, <1>5
  <2>2. TextsWaiting = [i \in 1..n |-> messages[i + 1].text]
    BY <2>1, Mapped
  <2>3. \A i \in 1..n : messages[i + 1].text \in Texts
    BY <1>2, <2>1 DEF View
  <2>4. TextsWaiting \in Seq(Texts) /\ Len(TextsWaiting) = n
    BY <2>1, <2>2, <2>3
  <2>5. TextsWaiting # <<>>
    BY <2>1, <2>4
  <2>6. TextShown' = Head(TextsWaiting)
    <3>1. TextShown' = messages'[1].text
      BY <1>0, <1>5, MappedNext
    <3>2. messages'[1] = messages[2]
      BY <1>1, <2>1
    <3>3. Head(TextsWaiting) = TextsWaiting[1]
      BY <2>4, <2>5
    <3>4. TextsWaiting[1] = messages[2].text
      BY <2>1, <2>2
    <3> QED BY <3>1, <3>2, <3>3, <3>4
  <2>7. TextsWaiting' = Tail(TextsWaiting)
    <3>1. /\ Tail(TextsWaiting) \in Seq(Texts) /\ Len(Tail(TextsWaiting)) = n - 1
          /\ \A i \in 1..(n - 1) : Tail(TextsWaiting)[i] = TextsWaiting[i + 1]
      BY <2>1, <2>4, <2>5, HeadTailProperties
    <3>2. /\ TextsWaiting' \in Seq(Texts) /\ Len(TextsWaiting') = n - 1
          /\ \A i \in 1..(n - 1) : TextsWaiting'[i] = messages'[i + 1].text
      <4>1. TextsWaiting' = [i \in 1..(n - 1) |-> messages'[i + 1].text]
        BY <1>0, <1>5, <2>1, MappedNext
      <4>2. \A i \in 1..(n - 1) : i + 1 \in 1..Len(messages')
        BY <1>1, <2>1
      <4>3. \A i \in 1..(n - 1) : messages'[i + 1] \in View
        BY <1>1, <4>2, ElementOfSeq
      <4>4. \A i \in 1..(n - 1) : messages'[i + 1].text \in Texts
        BY <4>3 DEF View
      <4> QED BY <2>1, <4>1, <4>4
    <3>3. \A i \in 1..(n - 1) : messages'[i + 1].text = Tail(TextsWaiting)[i]
      <4>1. ASSUME NEW i \in 1..(n - 1)
            PROVE  messages'[i + 1].text = Tail(TextsWaiting)[i]
        <5>1. i + 1 \in 1..n /\ (i + 1) + 1 \in 1..Len(messages)
          BY <2>1
        <5>2. messages'[i + 1] = messages[(i + 1) + 1]
          BY <1>1, <2>1, <5>1
        <5>3. TextsWaiting[i + 1] = messages[(i + 1) + 1].text
          BY <2>2, <5>1
        <5> QED BY <3>1, <5>2, <5>3
      <4> QED BY <4>1
    <3> QED BY <3>1, <3>2, <3>3, SeqEqual
  <2> QED BY <2>5, <2>6, <2>7 DEF BQ!Advance
<1> QED BY <1>3, <1>4, <1>5

LEMMA StepRefines ==
  IInv /\ [Next]_vars => [BQ!QueueNext]_(BQ!queue)
<1> SUFFICES ASSUME IInv, [Next]_vars PROVE BQ!QueueNext \/ UNCHANGED BQ!queue
  OBVIOUS
<1>1. CASE UNCHANGED vars
  BY <1>1, QueueUnchanged DEF vars
<1>2. ASSUME NEW t \in Texts, Joins(t) PROVE BQ!QueueNext
  BY <1>2, JoinsRefines DEF BQ!QueueNext, BQ!Show
<1>3. ASSUME NEW v \in View,
             Tap(v) \/ Arm(v) \/ \E what \in {"timer", "tap"} : fadeOutNotification(what, v)
      PROVE  UNCHANGED BQ!queue
  BY <1>3, QueueUnchanged DEF Tap, Arm, fadeOutNotification
<1>4. ASSUME NEW v \in View, completeFadeOut(v)
      PROVE  BQ!QueueNext \/ UNCHANGED BQ!queue
  BY <1>4, CompletionRefines DEF BQ!QueueNext
<1>5. TypeOK
  BY DEF IInv
<1> QED BY <1>1, <1>2, <1>3, <1>4, <1>5, Steps

\* Every queued text is shown in its turn and none is skipped, even when a view
\* fades out twice, for any texts and views: what BannersInOrder says but for the
\* progress it promises.
THEOREM ShownInOrder == Spec => BQ!QueueSafe
<1>1. Init => BQ!QueueInit
  <2>1. Init => TextsWaiting = <<>> /\ TextShown = NoText
    BY DEF Init, TextsWaiting, TextShown
  <2> QED BY <2>1 DEF BQ!QueueInit
<1> QED BY <1>1, StepRefines, Invariance, PTL DEF Spec, BQ!QueueSafe
=============================================================================
