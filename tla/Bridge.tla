------------------------------- MODULE Bridge -------------------------------
(***************************************************************************)
(* The bridge between the C++ network module and the Swift application:    *)
(* OCWrap.mm, getLocalMsg of protomsgutil.swift, AppDelegate.onSrvMessage  *)
(* and the cache updates of GlobalSessionUser.swift.                       *)
(*                                                                         *)
(* The module calls back on threads of its own.  A callback decodes its    *)
(* message there and hands a block to the main queue with dispatch_sync,   *)
(* so that the thread waits until the main thread has run it.  The block   *)
(* replaces a cache or runs a completion block; the blocks that tell the   *)
(* open screens to reload are queued with dispatch_async.                  *)
(***************************************************************************)
EXTENDS Messages

CONSTANTS
  Threads,     \* the callback threads of the network module
  MaxBacklog   \* bound: messages received and not taken up by a thread

ASSUME BridgeAssumption ==
  /\ Threads # {}
  /\ MaxBacklog \in Nat

VARIABLES
  started,  \* initModule has run
  asked,    \* number of requests issued (sendMessageWithHander calls)
  sent,     \* requests the server has answered
  pushed,   \* pushed[k]: number of the last push of topic k the server sent
  net,      \* messages received by the network module, oldest first
  pc,       \* pc[t]: what thread t does: idle, decode, sync
  held,     \* held[t]: the message thread t works on (meaningless when idle)
  mainq,    \* the main dispatch queue
  answers,  \* answers[r]: how often the completion block of request r ran
  cache,    \* cache[k]: the push the cache of topic k in GlobalSessionUser holds
  shown     \* shown[k]: the push the screen observing topic k last loaded

vars == <<started, asked, sent, pushed, net, pc, held, mainq, answers, cache,
          shown>>

-----------------------------------------------------------------------------
\* Blocks of the main queue: the deferred call of initModule, the block a
\* thread waits for, and the post that follows a cache update.
InitBlock == <<"init", "init">>
SyncBlock(t) == <<"sync", t>>
NotifyBlock(k) == <<"notify", k>>

\* The topics whose update is followed by a post: "onLockCallback" for locks,
\* "onUserCallback" for users.  Passwords have none.
Notified == {"locks", "users"}

Init ==
  /\ started = FALSE
  /\ asked = 0
  /\ sent = {}
  /\ pushed = [k \in Topics |-> 0]
  /\ net = <<>>
  /\ pc = [t \in Threads |-> "idle"]
  /\ held \in [Threads -> Other]
  /\ mainq = <<InitBlock>>
  /\ answers = [r \in Requests |-> 0]
  /\ cache = [k \in Topics |-> 0]
  /\ shown = [k \in Notified |-> 0]

-----------------------------------------------------------------------------
\* The network (outside src/): what may be received next.  An answer comes at
\* most once and may never come; pushes of a topic come in the server's order.
Receive(m) ==
  /\ started
  /\ Len(net) < MaxBacklog
  /\ net' = Append(net, m)
  /\ UNCHANGED <<started, asked, pc, held, mainq, answers, cache, shown>>

ReceiveAnswer(m) ==
  /\ m.num <= asked /\ m.num \notin sent
  /\ sent' = sent \cup {m.num}
  /\ UNCHANGED pushed
  /\ Receive(m)

ReceivePush(m) ==
  /\ m.num = pushed[m.name] + 1
  /\ pushed' = [pushed EXCEPT ![m.name] = m.num]
  /\ UNCHANGED sent
  /\ Receive(m)

ReceiveNews(m) ==
  /\ UNCHANGED <<sent, pushed>>
  /\ Receive(m)

\* Mutant: the newest message is taken first.
TakeNewest(t) ==
  /\ pc[t] = "idle" /\ net # <<>>
  /\ pc' = [pc EXCEPT ![t] = "decode"]
  /\ held' = [held EXCEPT ![t] = net[Len(net)]]
  /\ net' = SubSeq(net, 1, Len(net) - 1)
  /\ UNCHANGED <<started, asked, sent, pushed, mainq, answers, cache, shown>>

\* A free thread takes the oldest message and calls its handler.
Take(t) ==
  /\ pc[t] = "idle" /\ net # <<>>
  /\ pc' = [pc EXCEPT ![t] = "decode"]
  /\ held' = [held EXCEPT ![t] = Head(net)]
  /\ net' = Tail(net)
  /\ UNCHANGED <<started, asked, sent, pushed, mainq, answers, cache, shown>>

\* Mutant: the test of the message type is inverted for some answers.
DiscardAnswer(t) ==
  /\ pc[t] = "decode" /\ held[t].kind = "answer"
  /\ pc' = [pc EXCEPT ![t] = "idle"]
  /\ UNCHANGED <<started, asked, sent, pushed, net, held, mainq, answers,
                 cache, shown>>

\* The handler has decoded an answer that is no MsgRes: it returns, and the
\* caller is never told.
Discard(t) ==
  /\ pc[t] = "decode" /\ ~Heard(held[t])
  /\ pc' = [pc EXCEPT ![t] = "idle"]
  /\ UNCHANGED <<started, asked, sent, pushed, net, held, mainq, answers,
                 cache, shown>>

\* Mutant: dispatch_async, the thread does not wait for its block.
DispatchAsync(t) ==
  /\ pc[t] = "decode" /\ Heard(held[t])
  /\ pc' = [pc EXCEPT ![t] = "idle"]
  /\ mainq' = Append(mainq, SyncBlock(t))
  /\ UNCHANGED <<started, asked, sent, pushed, net, held, answers, cache,
                 shown>>

\* Mutant: the message type is not tested.
DispatchUntested(t) ==
  /\ pc[t] = "decode"
  /\ pc' = [pc EXCEPT ![t] = "sync"]
  /\ mainq' = Append(mainq, SyncBlock(t))
  /\ UNCHANGED <<started, asked, sent, pushed, net, held, answers, cache,
                 shown>>

\* Mutant: the thread waits for a block nobody queued.
DispatchNowhere(t) ==
  /\ pc[t] = "decode" /\ Heard(held[t])
  /\ pc' = [pc EXCEPT ![t] = "sync"]
  /\ UNCHANGED <<started, asked, sent, pushed, net, held, mainq, answers,
                 cache, shown>>

\* The handler has decoded its message and calls dispatch_sync.
DispatchSync(t) ==
  /\ pc[t] = "decode" /\ Heard(held[t])
  /\ pc' = [pc EXCEPT ![t] = "sync"]
  /\ mainq' = Append(mainq, SyncBlock(t))
  /\ UNCHANGED <<started, asked, sent, pushed, net, held, answers, cache,
                 shown>>

-----------------------------------------------------------------------------
\* The main thread runs one block or one event handler at a time.

\* A tap or a screen's loaddata sends a request.
Ask ==
  /\ started
  /\ asked < MaxRequests
  /\ asked' = asked + 1
  /\ UNCHANGED <<started, sent, pushed, net, pc, held, mainq, answers, cache,
                 shown>>

\* A screen that shows topic k is opened: it loads what the cache holds.
Open(k) ==
  /\ shown' = [shown EXCEPT ![k] = cache[k]]
  /\ UNCHANGED <<started, asked, sent, pushed, net, pc, held, mainq, answers,
                 cache>>

RunInit ==
  /\ mainq # <<>> /\ Head(mainq) = InitBlock
  /\ started' = TRUE
  /\ mainq' = Tail(mainq)
  /\ UNCHANGED <<asked, sent, pushed, net, pc, held, answers, cache, shown>>

\* Mutant: the post of the users is commented out.
PostsLocksOnly(m) ==
  IF m.kind = "push" /\ m.name = "locks" THEN <<NotifyBlock(m.name)>> ELSE <<>>

\* The blocks a cache update adds: onGetLocks and onGetUsers post through
\* dispatch_async, onGetLockPassword does not.
Posts(m) ==
  IF m.kind = "push" /\ m.name \in Notified
  THEN <<NotifyBlock(m.name)>> ELSE <<>>

\* The block of thread t: the completion block of getLocalMsg, or the branch of
\* onSrvMessage.  A new connection starts a login when the user is logged in,
\* which is the session's business: here it may or may not.
RunSync(t) ==
  /\ mainq # <<>> /\ Head(mainq) = SyncBlock(t)
  /\ mainq' = Tail(mainq) \o Posts(held[t])
  /\ pc' = [pc EXCEPT ![t] = "idle"]
  /\ answers' = IF held[t].kind = "answer"
                THEN [answers EXCEPT ![held[t].num] = @ + 1] ELSE answers
  /\ cache' = IF held[t].kind = "push"
              THEN [cache EXCEPT ![held[t].name] = held[t].num] ELSE cache
  /\ \/ asked' = asked
     \/ held[t].name = "connected" /\ asked < MaxRequests /\ asked' = asked + 1
  /\ UNCHANGED <<started, sent, pushed, net, held, shown>>

\* A post: the screens that observe topic k load what the cache holds now.
RunNotify(k) ==
  /\ mainq # <<>> /\ Head(mainq) = NotifyBlock(k)
  /\ mainq' = Tail(mainq)
  /\ shown' = [shown EXCEPT ![k] = cache[k]]
  /\ UNCHANGED <<started, asked, sent, pushed, net, pc, held, answers, cache>>

-----------------------------------------------------------------------------
Network ==
  \/ \E m \in Answer : ReceiveAnswer(m)
  \/ \E m \in Push : ReceivePush(m)
  \/ \E m \in Other \cup Status : ReceiveNews(m)

Thread(t) == Take(t) \/ Discard(t) \/ DispatchSync(t)

RunBlock ==
  \/ RunInit
  \/ \E t \in Threads : RunSync(t)
  \/ \E k \in Notified : RunNotify(k)

User == Ask \/ \E k \in Notified : Open(k)

Next == Network \/ (\E t \in Threads : Thread(t)) \/ RunBlock \/ User

\* The threads run and the main run loop drains its queue; nothing makes the
\* server send or the user act.
Fairness == WF_vars(RunBlock) /\ \A t \in Threads : WF_vars(Thread(t))

Spec == Init /\ [][Next]_vars /\ Fairness

-----------------------------------------------------------------------------
Block == {InitBlock} \cup {SyncBlock(t) : t \in Threads}
                     \cup {NotifyBlock(k) : k \in Notified}

TypeOK ==
  /\ started \in BOOLEAN
  /\ asked \in 0..MaxRequests
  /\ sent \subseteq Requests
  /\ pushed \in [Topics -> 0..MaxVersion]
  /\ net \in Seq(Message)
  /\ pc \in [Threads -> {"idle", "decode", "sync"}]
  /\ held \in [Threads -> Message]
  /\ mainq \in Seq(Block)
  /\ answers \in [Requests -> Nat]
  /\ cache \in [Topics -> 0..MaxVersion]
  /\ shown \in [Notified -> 0..MaxVersion]

Queued(b) == \E i \in 1..Len(mainq) : mainq[i] = b

\* A thread waits in dispatch_sync exactly when its one block is queued: no
\* thread waits for a block that was lost or already ran, and none goes on to
\* another message while its block is still to run.
WaitingIffQueued ==
  /\ \A t \in Threads : pc[t] = "sync" <=> Queued(SyncBlock(t))
  /\ \A i, j \in 1..Len(mainq) :
       mainq[i] = mainq[j] /\ mainq[i][1] = "sync" => i = j

\* The completion block of a request runs at most once, and only after the
\* server answered the request.
AnsweredOnce ==
  \A r \in Requests : answers[r] = 0 \/ (answers[r] = 1 /\ r \in sent)

\* Why: an answer exists once, waiting or in the hands of a thread, and its
\* request is marked as answered by the server but has not been served.
IsAnswer(m, r) == m.kind = "answer" /\ m.num = r

AnswersInFlight ==
  /\ \A i \in 1..Len(net) : net[i].kind = "answer" =>
       net[i].num \in sent /\ answers[net[i].num] = 0
  /\ \A i, j \in 1..Len(net) : \A r \in Requests :
       IsAnswer(net[i], r) /\ IsAnswer(net[j], r) => i = j
  /\ \A t \in Threads : pc[t] # "idle" /\ held[t].kind = "answer" =>
       /\ held[t].num \in sent /\ answers[held[t].num] = 0
       /\ \A i \in 1..Len(net) : ~IsAnswer(net[i], held[t].num)
  /\ \A t, u \in Threads : \A r \in Requests :
       /\ pc[t] # "idle" /\ pc[u] # "idle"
       /\ IsAnswer(held[t], r) /\ IsAnswer(held[u], r)
       => t = u

\* A thread hands over only what its handler accepts.
OnlyHeardQueued == \A t \in Threads : pc[t] = "sync" => Heard(held[t])

\* A screen that does not show the newest push of its topic is about to be
\* told: the post is still queued.
NoMissedRefresh ==
  \A k \in Notified : shown[k] # cache[k] => Queued(NotifyBlock(k))

\* A cache never goes back to an older push.
CacheNeverRegresses ==
  [][\A k \in Topics : cache'[k] >= cache[k]]_cache

\* A thread that took a message comes back for the next one: nobody waits for
\* ever in dispatch_sync.
ThreadsReturn == \A t \in Threads : pc[t] # "idle" ~> pc[t] = "idle"

InNet(m) == \E i \in 1..Len(net) : net[i] = m

\* Once the answer to a request has been received, its completion block runs.
AnswerIsServed ==
  \A r \in Requests :
    InNet([kind |-> "answer", name |-> "MsgRes", num |-> r]) ~> answers[r] = 1

\* Once a push of a notified topic has been received, the screen that observes
\* the topic shows it or a newer one.
PushIsShown ==
  \A k \in Notified : \A v \in 1..MaxVersion :
    InNet([kind |-> "push", name |-> k, num |-> v]) ~> shown[k] >= v

-----------------------------------------------------------------------------
(***************************************************************************)
(* With one callback thread the bridge implements Delivery: what has not   *)
(* taken effect yet is the message the thread holds and those behind it.   *)
(***************************************************************************)
OneThread == CHOOSE t \in Threads : TRUE

Pending ==
  IF pc[OneThread] = "idle" THEN net ELSE <<held[OneThread]>> \o net

D == INSTANCE Delivery WITH stream <- Pending

\* One callback thread makes the bridge a delivery in order of arrival: each
\* step of the threads and of the main queue is a step of Delivery or none.
InOrderDelivery == D!Spec
=============================================================================
