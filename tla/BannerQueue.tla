---------------------------- MODULE BannerQueue -----------------------------
(***************************************************************************)
(* What the program relies on when it calls showError, showSuccess or      *)
(* showWarning: a text that is neither shown nor waiting already waits its *)
(* turn, texts are shown in the order in which they were posted, none is   *)
(* skipped, and each makes way for the next.  Module Banners is the code   *)
(* that has to keep this promise; a module whose actions show banners may  *)
(* extend this one instead.                                                *)
(***************************************************************************)
EXTENDS Sequences

CONSTANTS Texts, NoText

VARIABLES
  waiting,  \* the texts whose turn has not come, the oldest first
  current   \* the text shown last, NoText when it has gone and none waits

queue == <<waiting, current>>

QueueInit == waiting = <<>> /\ current = NoText

Post(t) ==
  /\ current # NoText /\ current # t
  /\ \A i \in DOMAIN waiting : waiting[i] # t
  /\ waiting' = Append(waiting, t)
  /\ UNCHANGED current

\* Nothing is shown: the text is shown at once.
ShowAtOnce(t) ==
  /\ current = NoText /\ waiting = <<>>
  /\ current' = t
  /\ UNCHANGED waiting

\* The text that is shown makes way for the next.
Advance ==
  /\ waiting # <<>>
  /\ current' = Head(waiting)
  /\ waiting' = Tail(waiting)

Finish ==
  /\ waiting = <<>> /\ current # NoText
  /\ current' = NoText
  /\ UNCHANGED waiting

AlreadyThere(t) ==
  /\ current = t \/ \E i \in DOMAIN waiting : waiting[i] = t
  /\ UNCHANGED queue

\* What showError, showSuccess and showWarning do.
Show(t) == Post(t) \/ ShowAtOnce(t) \/ AlreadyThere(t)

QueueNext == (\E t \in Texts : Show(t)) \/ Advance \/ Finish

QueueSafe == QueueInit /\ [][QueueNext]_queue

QueueSpec == QueueSafe /\ WF_queue(Advance \/ Finish)

QueueTypeOK ==
  /\ waiting \in Seq(Texts)
  /\ current \in Texts \cup {NoText}
=============================================================================
