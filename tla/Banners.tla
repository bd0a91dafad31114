------------------------------ MODULE Banners -------------------------------
(***************************************************************************)
(* The banners that showError, showSuccess and showWarning (Globals.swift) *)
(* put on the screen (uicontrols/Classes/TSMessage.m, TSMessageView.m):    *)
(* a queue of views whose first is shown for a second, or until the user   *)
(* taps it.  A view that fades out takes the first of the queue with it,   *)
(* whichever that is by then.                                              *)
(***************************************************************************)
EXTENDS Integers, Sequences

CONSTANTS
  Texts,    \* what a banner may say; the titles are all empty
  NoText,
  MaxViews  \* bound: views that are queued, shown or have a call to come

ASSUME BannersAssumption ==
  /\ NoText \notin Texts
  /\ MaxViews \in Nat \ {0}

View == [id : 1..MaxViews, text : Texts]

\* arm: the block that starts the timer.  timer: the call after one second.
\* tap: the call a tap or a swipe makes.  completion: the end of a fade-out;
\* again: that of a second fade-out of the same view.
Call == [what : {"arm", "timer", "tap", "completion", "again"}, view : View]

VARIABLES
  messages,            \* the views that are queued, the first one being shown
  notificationActive,
  screen,              \* the views on the screen
  calls,               \* the calls that are to come
  crossed              \* history: the calls of a tap and of a timer have crossed

vars == <<messages, notificationActive, screen, calls, crossed>>

Init ==
  /\ messages = <<>> /\ notificationActive = FALSE
  /\ screen = {} /\ calls = {} /\ crossed = FALSE

ToCome(what, v) == [what |-> what, view |-> v]

Unused ==
  {i \in 1..MaxViews : /\ \A k \in DOMAIN messages : messages[k].id # i
                       /\ \A v \in screen : v.id # i
                       /\ \A c \in calls : c.view.id # i}
SpareView == Unused # {}

-----------------------------------------------------------------------------
(* The queue becomes m, and its first view fades in if one has to. *)

fadeInCurrentNotification(m, others, pending) ==
  /\ messages' = m
  /\ notificationActive' = (m # <<>>)
  /\ screen' = others \cup (IF m = <<>> THEN {} ELSE {Head(m)})
  /\ calls' = pending \cup (IF m = <<>> THEN {} ELSE {ToCome("arm", Head(m))})

\* A text that is queued already is not queued again.
prepareNotificationToBeShown(t) ==
  \/ /\ \E i \in DOMAIN messages : messages[i].text = t
     /\ UNCHANGED vars
  \/ /\ \A i \in DOMAIN messages : messages[i].text # t
     /\ LET m == Append(messages, [id |-> CHOOSE i \in Unused : TRUE, text |-> t])
        IN IF notificationActive
           THEN messages' = m /\ UNCHANGED <<notificationActive, screen, calls>>
           ELSE fadeInCurrentNotification(m, screen, calls)
     /\ UNCHANGED crossed

-----------------------------------------------------------------------------
(* The calls, one at a time on the main thread. *)

\* One fade-out leaves another to come: that of a tap that was made already, or
\* that of a timer that is not set yet.
Crosses(what, v) ==
  \/ what = "timer" /\ ToCome("tap", v) \in calls
  \/ what = "tap" /\ ToCome("arm", v) \in calls

\* performSelector:afterDelay: by the block fadeInCurrentNotification queues.
Arm(v) ==
  /\ ToCome("arm", v) \in calls
  /\ calls' = (calls \ {ToCome("arm", v)}) \cup {ToCome("timer", v)}
  /\ UNCHANGED <<messages, notificationActive, screen, crossed>>

\* A touch on a view that is not fading out.  A second one comes only after
\* the call of the first.
Tap(v) ==
  /\ v \in screen
  /\ ToCome("tap", v) \notin calls /\ ToCome("completion", v) \notin calls
  /\ calls' = calls \cup {ToCome("tap", v)}
  /\ UNCHANGED <<messages, notificationActive, screen, crossed>>

\* Mutant: the timer is not cancelled.
fadeOutUncancelled(what, v) ==
  /\ ToCome(what, v) \in calls
  /\ calls' = (calls \ {ToCome(what, v)})
                \cup {ToCome(IF ToCome("completion", v) \in calls THEN "again"
                             ELSE "completion", v)}
  /\ crossed' = (crossed \/ Crosses(what, v))
  /\ UNCHANGED <<messages, notificationActive, screen>>

\* A fade-out cancels the timer, but neither the call of a tap nor a timer that
\* is not set yet.
fadeOutNotification(what, v) ==
  /\ ToCome(what, v) \in calls
  /\ calls' = (calls \ {ToCome(what, v), ToCome("timer", v)})
                \cup {ToCome(IF ToCome("completion", v) \in calls THEN "again"
                             ELSE "completion", v)}
  /\ crossed' = (crossed \/ Crosses(what, v))
  /\ UNCHANGED <<messages, notificationActive, screen>>

\* The completion of v runs, that of a second fade-out first.
Completed(v) ==
  calls \ {ToCome(IF ToCome("again", v) \in calls THEN "again" ELSE "completion", v)}

\* Mutant: the next of the queue is not faded in.
completeWithoutNext(v) ==
  /\ ToCome("completion", v) \in calls
  /\ messages' = IF messages = <<>> THEN <<>> ELSE Tail(messages)
  /\ notificationActive' = FALSE
  /\ screen' = screen \ {v} /\ calls' = Completed(v)
  /\ crossed' = (crossed /\ calls' # {})

\* The completion block: the view goes, and with it the first of the queue.
completeFadeOut(v) ==
  /\ ToCome("completion", v) \in calls
  /\ fadeInCurrentNotification(IF messages = <<>> THEN <<>> ELSE Tail(messages),
                               screen \ {v}, Completed(v))
  /\ crossed' = (crossed /\ calls' # {})

\* A call of the view with number i.
BannerCall(i) ==
  \E v \in {c.view : c \in calls} :
    /\ v.id = i
    /\ \/ Arm(v)
       \/ \E what \in {"timer", "tap"} : fadeOutNotification(what, v)
       \/ completeFadeOut(v)

TapBanner == \E v \in screen : Tap(v)

Next ==
  \/ \E t \in Texts : SpareView /\ prepareNotificationToBeShown(t)
  \/ TapBanner
  \/ \E i \in 1..MaxViews : BannerCall(i)

\* The main queue, timers and animations go on.
Fairness == \A i \in 1..MaxViews : WF_vars(BannerCall(i))

Spec == Init /\ [][Next]_vars /\ Fairness

-----------------------------------------------------------------------------
TypeOK ==
  /\ messages \in Seq(View)
  /\ notificationActive \in BOOLEAN
  /\ screen \subseteq View
  /\ calls \subseteq Call
  /\ crossed \in BOOLEAN

TextsWaiting ==
  IF messages = <<>> THEN <<>>
  ELSE [i \in 1..(Len(messages) - 1) |-> messages[i + 1].text]

TextShown ==
  IF messages = <<>> \/ Head(messages) \notin screen THEN NoText
  ELSE Head(messages).text

BQ == INSTANCE BannerQueue WITH waiting <- TextsWaiting, current <- TextShown

\* However taps, timers and fade-outs cross, and even when one view fades out
\* twice, every text that was queued is shown, in the order of the queue, and
\* makes way for the next.
BannersInOrder == BQ!QueueSpec

\* Unless calls of a tap and of a timer have crossed since the last pause, the
\* screen shows the first of the queue and nothing else.
OneAtATime ==
  ~crossed => screen = IF messages = <<>> THEN {} ELSE {Head(messages)}
=============================================================================
