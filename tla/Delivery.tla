------------------------------ MODULE Delivery ------------------------------
(***************************************************************************)
(* What the message bridge promises the rest of the application: messages  *)
(* of the network module take effect on the main thread one at a time, in  *)
(* the order in which they arrived, and a request's completion block runs  *)
(* only when its answer arrived and at most once.  Module Bridge is the    *)
(* code that has to keep this promise.                                     *)
(***************************************************************************)
EXTENDS Messages

VARIABLES
  asked,    \* number of requests issued; request r exists when r <= asked
  sent,     \* requests the server has answered
  pushed,   \* pushed[k]: number of the last push of topic k the server sent
  stream,   \* messages that arrived and have not taken effect
  answers,  \* answers[r]: how often the completion block of r ran
  cache     \* cache[k]: number of the push the cache of topic k holds

dvars == <<asked, sent, pushed, stream, answers, cache>>

Init ==
  /\ asked = 0
  /\ sent = {}
  /\ pushed = [k \in Topics |-> 0]
  /\ stream = <<>>
  /\ answers = [r \in Requests |-> 0]
  /\ cache = [k \in Topics |-> 0]

\* The application issues a request.
Ask ==
  /\ asked < MaxRequests
  /\ asked' = asked + 1
  /\ UNCHANGED <<sent, pushed, stream, answers, cache>>

\* A message arrives: the answer to an open request, the next push of a topic,
\* or news that carries no data.
ArriveAnswer(m) ==
  /\ m.num <= asked /\ m.num \notin sent
  /\ sent' = sent \cup {m.num}
  /\ stream' = Append(stream, m)
  /\ UNCHANGED <<asked, pushed, answers, cache>>

ArrivePush(m) ==
  /\ m.num = pushed[m.name] + 1
  /\ pushed' = [pushed EXCEPT ![m.name] = m.num]
  /\ stream' = Append(stream, m)
  /\ UNCHANGED <<asked, sent, answers, cache>>

ArriveNews(m) ==
  /\ stream' = Append(stream, m)
  /\ UNCHANGED <<asked, sent, pushed, answers, cache>>

\* The oldest message takes effect, and a connection may make the application
\* issue a request.  An answer that is not heard has no effect.
Apply ==
  /\ stream # <<>>
  /\ stream' = Tail(stream)
  /\ LET m == Head(stream) IN
     /\ answers' = IF m.kind = "answer" /\ Heard(m)
                   THEN [answers EXCEPT ![m.num] = @ + 1] ELSE answers
     /\ cache' = IF m.kind = "push"
                 THEN [cache EXCEPT ![m.name] = m.num] ELSE cache
     /\ \/ asked' = asked
        \/ m.name = "connected" /\ asked < MaxRequests /\ asked' = asked + 1
  /\ UNCHANGED <<sent, pushed>>

Next ==
  \/ Ask
  \/ \E m \in Answer : ArriveAnswer(m)
  \/ \E m \in Push : ArrivePush(m)
  \/ \E m \in Other \cup Status : ArriveNews(m)
  \/ Apply

Spec == Init /\ [][Next]_dvars

-----------------------------------------------------------------------------
TypeOK ==
  /\ asked \in 0..MaxRequests
  /\ sent \subseteq Requests
  /\ pushed \in [Topics -> 0..MaxVersion]
  /\ stream \in Seq(Message)
  /\ answers \in [Requests -> Nat]
  /\ cache \in [Topics -> 0..MaxVersion]

\* No cache is ahead of the server, the pushes that wait are newer than what the
\* cache holds, and among those of one topic the newer wait behind the older.
PushesInOrder ==
  /\ \A k \in Topics : cache[k] <= pushed[k]
  /\ \A i \in 1..Len(stream) : stream[i].kind = "push" =>
       /\ cache[stream[i].name] < stream[i].num
       /\ stream[i].num <= pushed[stream[i].name]
  /\ \A i, j \in 1..Len(stream) :
       /\ i < j
       /\ stream[i].kind = "push" /\ stream[j].kind = "push"
       /\ stream[i].name = stream[j].name
       => stream[i].num < stream[j].num
=============================================================================
