---------------------------- MODULE BridgeProofs ----------------------------
(***************************************************************************)
(* Proofs about Bridge, for any number of callback threads, requests and   *)
(* pushes, then about a single callback thread and the strings messages    *)
(* travel in.                                                              *)
(***************************************************************************)
EXTENDS Bridge, Codec, SequenceTheorems, TLAPS

USE BoundsAssumption, BridgeAssumption DEF BoundsAssumption, BridgeAssumption

-----------------------------------------------------------------------------
(* Types. *)

LEMMA BlockTypes ==
  /\ InitBlock \in Block
  /\ \A t \in Threads : SyncBlock(t) \in Block
  /\ \A k \in Notified : NotifyBlock(k) \in Block
  BY DEF Block

LEMMA TypeInit == Init => TypeOK
<1> SUFFICES ASSUME Init PROVE TypeOK
  OBVIOUS
<1>1. mainq \in Seq(Block)
  BY BlockTypes DEF Init
<1>2. held \in [Threads -> Message]
  BY DEF Init, Message
<1>3. net \in Seq(Message) /\ answers \in [Requests -> Nat]
  BY DEF Init
<1>4. /\ pushed \in [Topics -> 0..MaxVersion]
      /\ cache \in [Topics -> 0..MaxVersion]
      /\ shown \in [Notified -> 0..MaxVersion]
  BY DEF Init
<1>5. /\ asked \in 0..MaxRequests /\ sent \subseteq Requests
      /\ pc \in [Threads -> {"idle", "decode", "sync"}]
  BY DEF Init
<1>6. started \in BOOLEAN
  BY Zenon DEF Init
<1> QED
  BY <1>1, <1>2, <1>3, <1>4, <1>5, <1>6 DEF TypeOK

LEMMA TypeStep == TypeOK /\ [Next]_vars => TypeOK'
<1> SUFFICES ASSUME TypeOK, [Next]_vars PROVE TypeOK'
  OBVIOUS
<1> USE DEF TypeOK
<1>1. ASSUME NEW m \in Answer, ReceiveAnswer(m) PROVE TypeOK'
  <2>1. m \in Message /\ m.num \in Requests
    BY DEF Message, Answer
  <2> QED BY <1>1, <2>1 DEF ReceiveAnswer, Receive
<1>2. ASSUME NEW m \in Push, ReceivePush(m) PROVE TypeOK'
  <2>1. m \in Message /\ m.name \in Topics /\ m.num \in 0..MaxVersion
    BY DEF Message, Push
  <2> QED BY <1>2, <2>1 DEF ReceivePush, Receive
<1>3. ASSUME NEW m \in Other \cup Status, ReceiveNews(m) PROVE TypeOK'
  BY <1>3 DEF ReceiveNews, Receive, Message
<1>4. ASSUME NEW t \in Threads, Take(t) PROVE TypeOK'
  BY <1>4 DEF Take
<1>5. ASSUME NEW t \in Threads, Discard(t) PROVE TypeOK'
  BY <1>5 DEF Discard
<1>6. ASSUME NEW t \in Threads, DispatchSync(t) PROVE TypeOK'
  BY <1>6, BlockTypes DEF DispatchSync
<1>7. CASE RunInit
  BY <1>7 DEF RunInit
<1>8. ASSUME NEW t \in Threads, RunSync(t) PROVE TypeOK'
  <2>1. held[t] \in Message
    OBVIOUS
  <2>2. held[t].kind = "answer" => held[t].num \in Requests
    BY <2>1 DEF Message, Answer, Push, Other, Status
  <2>3. held[t].kind = "push" => held[t].name \in Topics
                                 /\ held[t].num \in 0..MaxVersion
    BY <2>1 DEF Message, Answer, Push, Other, Status
  <2>4. Posts(held[t]) \in Seq(Block)
    BY BlockTypes DEF Posts
  <2>5. mainq' \in Seq(Block)
    BY <1>8, <2>4 DEF RunSync
  <2>6. answers' \in [Requests -> Nat] /\ cache' \in [Topics -> 0..MaxVersion]
    BY <1>8, <2>2, <2>3 DEF RunSync
  <2> QED BY <1>8, <2>5, <2>6 DEF RunSync
<1>9. ASSUME NEW k \in Notified, RunNotify(k) PROVE TypeOK'
  BY <1>9 DEF RunNotify, Notified, Topics
<1>10. CASE Ask
  BY <1>10 DEF Ask
<1>11. ASSUME NEW k \in Notified, Open(k) PROVE TypeOK'
  BY <1>11 DEF Open, Notified, Topics
<1>12. CASE UNCHANGED vars
  BY <1>12 DEF vars
<1> QED
  BY <1>1, <1>2, <1>3, <1>4, <1>5, <1>6, <1>7, <1>8, <1>9, <1>10, <1>11, <1>12
     DEF Next, Network, Thread, RunBlock, User

\* Every variable of the bridge keeps its type, whatever the callback threads,
\* the main queue and the network do.
THEOREM TypeCorrect == Spec => []TypeOK
<1> QED BY TypeInit, TypeStep, PTL DEF Spec

-----------------------------------------------------------------------------
(* Threads and the main queue. *)

\* The kinds of block are told apart by their first component.
LEMMA BlocksDiffer ==
  /\ \A t \in Threads : SyncBlock(t) # InitBlock
  /\ \A t \in Threads, k \in Notified : SyncBlock(t) # NotifyBlock(k)
  /\ \A k \in Notified : NotifyBlock(k) # InitBlock
  /\ \A t, u \in Threads : SyncBlock(t) = SyncBlock(u) => t = u
  /\ \A k, l \in Notified : NotifyBlock(k) = NotifyBlock(l) => k = l
  /\ \A t \in Threads : SyncBlock(t)[1] = "sync"
  /\ InitBlock[1] # "sync" /\ \A k \in Notified : NotifyBlock(k)[1] # "sync"
  BY DEF SyncBlock, InitBlock, NotifyBlock

\* What is queued after a block was appended, and after the first one was taken
\* off and the posts of a cache update were added.
LEMMA QueuedAppend ==
  ASSUME TypeOK, NEW b \in Block, mainq' = Append(mainq, b)
  PROVE  /\ Len(mainq') = Len(mainq) + 1
         /\ \A i \in 1..Len(mainq) : mainq'[i] = mainq[i]
         /\ mainq'[Len(mainq) + 1] = b
         /\ \A c : Queued(c)' <=> Queued(c) \/ c = b
<1>1. /\ Len(mainq') = Len(mainq) + 1
      /\ \A i \in 1..Len(mainq) : mainq'[i] = mainq[i]
      /\ mainq'[Len(mainq) + 1] = b
  BY AppendProperties DEF TypeOK
<1>2. Len(mainq) \in Nat
  BY LenProperties DEF TypeOK
<1>3. \A c : Queued(c)' <=> Queued(c) \/ c = b
  BY <1>1, <1>2 DEF Queued
<1> QED BY <1>1, <1>3

LEMMA QueuedTail ==
  ASSUME TypeOK, mainq # <<>>, NEW new \in Seq(Block), Len(new) <= 1,
         mainq' = Tail(mainq) \o new
  PROVE  /\ Len(mainq') = Len(mainq) - 1 + Len(new)
         /\ \A i \in 1..(Len(mainq) - 1) : mainq'[i] = mainq[i + 1]
         /\ Len(new) = 1 => mainq'[Len(mainq)] = new[1]
         /\ Head(mainq) = mainq[1] /\ Len(mainq) \in Nat \ {0}
<1>1. /\ Tail(mainq) \in Seq(Block) /\ Len(Tail(mainq)) = Len(mainq) - 1
      /\ \A i \in 1..Len(Tail(mainq)) : Tail(mainq)[i] = mainq[i + 1]
      /\ Len(mainq) \in Nat \ {0} /\ Len(new) \in Nat
  BY HeadTailProperties, LenProperties, EmptySeq DEF TypeOK
<1>2. /\ Len(mainq') = Len(mainq) - 1 + Len(new)
      /\ \A i \in 1..Len(mainq') : mainq'[i] =
           IF i <= Len(mainq) - 1 THEN Tail(mainq)[i]
           ELSE new[i - (Len(mainq) - 1)]
  BY <1>1, ConcatProperties
<1>3. \A i \in 1..(Len(mainq) - 1) : mainq'[i] = mainq[i + 1]
  BY <1>1, <1>2
<1>4. Len(new) = 1 => mainq'[Len(mainq)] = new[1]
  BY <1>1, <1>2
<1>5. Head(mainq) = mainq[1]
  BY DEF TypeOK
<1> QED BY <1>1, <1>2, <1>3, <1>4, <1>5

LEMMA PostsFacts ==
  ASSUME NEW m
  PROVE  /\ Posts(m) \in Seq(Block) /\ Len(Posts(m)) \in 0..1
         /\ Len(Posts(m)) = 1 =>
              /\ m.kind = "push" /\ m.name \in Notified
              /\ Posts(m)[1] = NotifyBlock(m.name)
         /\ m.kind = "push" /\ m.name \in Notified => Len(Posts(m)) = 1
<1>1. CASE m.kind = "push" /\ m.name \in Notified
  <2>1. Posts(m) = <<NotifyBlock(m.name)>>
    BY <1>1 DEF Posts
  <2>2. NotifyBlock(m.name) \in Block
    BY <1>1, BlockTypes
  <2> QED BY <1>1, <2>1, <2>2
<1>2. CASE ~(m.kind = "push" /\ m.name \in Notified)
  BY <1>2 DEF Posts
<1> QED BY <1>1, <1>2

\* The steps that leave the threads and the main queue alone.
QuietStep ==
  \/ \E m \in Answer : ReceiveAnswer(m)
  \/ \E m \in Push : ReceivePush(m)
  \/ \E m \in Other \cup Status : ReceiveNews(m)
  \/ Ask
  \/ \E k \in Notified : Open(k)
  \/ UNCHANGED vars

LEMMA Quiet ==
  ASSUME QuietStep
  PROVE  UNCHANGED <<pc, held, mainq, answers, cache>>
  BY DEF QuietStep, ReceiveAnswer, ReceivePush, ReceiveNews, Receive, Ask, Open,
         vars

LEMMA NextCases ==
  ASSUME [Next]_vars
  PROVE  \/ QuietStep
         \/ \E t \in Threads : Take(t) \/ Discard(t) \/ DispatchSync(t)
         \/ RunInit
         \/ \E t \in Threads : RunSync(t)
         \/ \E k \in Notified : RunNotify(k)
  BY DEF Next, Network, Thread, RunBlock, User, QuietStep

\* Taking the first block off the queue, when it is not the block of a thread,
\* disturbs nothing the threads wait for.
LEMMA TailKeepsWaiting ==
  ASSUME TypeOK, WaitingIffQueued, mainq # <<>>, mainq' = Tail(mainq),
         \A t \in Threads : Head(mainq) # SyncBlock(t), pc' = pc
  PROVE  WaitingIffQueued'
<1>1. mainq' = Tail(mainq) \o <<>>
  BY HeadTailProperties, ConcatEmptySeq DEF TypeOK
<1>2. /\ Len(mainq') = Len(mainq) - 1
      /\ \A i \in 1..(Len(mainq) - 1) : mainq'[i] = mainq[i + 1]
      /\ Head(mainq) = mainq[1] /\ Len(mainq) \in Nat \ {0}
  BY <1>1, QueuedTail, EmptySeq
<1>3. \A t \in Threads : Queued(SyncBlock(t))' <=> Queued(SyncBlock(t))
  <2> SUFFICES ASSUME NEW t \in Threads
               PROVE  Queued(SyncBlock(t))' <=> Queued(SyncBlock(t))
    OBVIOUS
  <2>1. ASSUME NEW i \in 1..Len(mainq), mainq[i] = SyncBlock(t)
        PROVE  Queued(SyncBlock(t))'
    <3>1. i # 1 /\ i - 1 \in 1..Len(mainq') /\ i - 1 \in 1..(Len(mainq) - 1)
      BY <1>2, <2>1
    <3>2. mainq'[i - 1] = mainq[i]
      BY <1>2, <3>1
    <3> QED BY <2>1, <3>1, <3>2 DEF Queued
  <2>2. ASSUME NEW i \in 1..Len(mainq'), mainq'[i] = SyncBlock(t)
        PROVE  Queued(SyncBlock(t))
    BY <1>2, <2>2 DEF Queued
  <2> QED BY <2>1, <2>2 DEF Queued
<1>4. \A i, j \in 1..Len(mainq') :
        mainq'[i] = mainq'[j] /\ mainq'[i][1] = "sync" => i = j
  BY <1>2 DEF WaitingIffQueued
<1> QED BY <1>3, <1>4 DEF WaitingIffQueued

LEMMA WaitingStep ==
  TypeOK /\ WaitingIffQueued /\ [Next]_vars => WaitingIffQueued'
<1> SUFFICES ASSUME TypeOK, WaitingIffQueued, [Next]_vars
             PROVE  WaitingIffQueued'
  OBVIOUS
<1>0. Len(mainq) \in Nat
  BY LenProperties DEF TypeOK
<1>1. CASE QuietStep
  BY <1>1, Quiet DEF WaitingIffQueued, Queued
<1>2. ASSUME NEW t \in Threads, Take(t) \/ Discard(t) PROVE WaitingIffQueued'
  <2>1. pc[t] # "sync" /\ pc'[t] # "sync" /\ mainq' = mainq
        /\ \A u \in Threads \ {t} : pc'[u] = pc[u]
    BY <1>2 DEF Take, Discard, TypeOK
  <2> QED BY <2>1 DEF WaitingIffQueued, Queued
<1>3. ASSUME NEW t \in Threads, DispatchSync(t) PROVE WaitingIffQueued'
  <2>1. /\ pc[t] = "decode" /\ pc'[t] = "sync"
        /\ \A u \in Threads \ {t} : pc'[u] = pc[u]
        /\ mainq' = Append(mainq, SyncBlock(t))
    BY <1>3 DEF DispatchSync, TypeOK
  <2>2. /\ Len(mainq') = Len(mainq) + 1
        /\ \A i \in 1..Len(mainq) : mainq'[i] = mainq[i]
        /\ mainq'[Len(mainq) + 1] = SyncBlock(t)
        /\ \A c : Queued(c)' <=> Queued(c) \/ c = SyncBlock(t)
    BY <2>1, BlockTypes, QueuedAppend
  <2>3. \A u \in Threads : pc'[u] = "sync" <=> Queued(SyncBlock(u))'
    BY <2>1, <2>2, BlocksDiffer DEF WaitingIffQueued
  <2>4. \A i \in 1..Len(mainq) : mainq[i] # SyncBlock(t)
    BY <2>1 DEF WaitingIffQueued, Queued
  <2>5. \A i, j \in 1..Len(mainq') :
          mainq'[i] = mainq'[j] /\ mainq'[i][1] = "sync" => i = j
    BY <1>0, <2>2, <2>4 DEF WaitingIffQueued
  <2> QED BY <2>3, <2>5 DEF WaitingIffQueued
<1>4. CASE RunInit
  BY <1>4, TailKeepsWaiting, BlocksDiffer DEF RunInit
<1>5. ASSUME NEW t \in Threads, RunSync(t) PROVE WaitingIffQueued'
  <2> DEFINE new == Posts(held[t])
  <2>1. /\ mainq # <<>> /\ Head(mainq) = SyncBlock(t)
        /\ mainq' = Tail(mainq) \o new
        /\ pc'[t] = "idle" /\ \A u \in Threads \ {t} : pc'[u] = pc[u]
    BY <1>5 DEF RunSync, TypeOK
  <2>2. /\ new \in Seq(Block) /\ Len(new) \in 0..1
        /\ Len(new) = 1 => \E k \in Notified : new[1] = NotifyBlock(k)
    <3>1. new \in Seq(Block) /\ Len(new) \in 0..1
      BY PostsFacts
    <3>2. ASSUME Len(new) = 1
          PROVE  \E k \in Notified : new[1] = NotifyBlock(k)
      BY <3>2, PostsFacts
    <3> QED BY <3>1, <3>2
  <2>3. /\ Len(mainq') = Len(mainq) - 1 + Len(new)
        /\ \A i \in 1..(Len(mainq) - 1) : mainq'[i] = mainq[i + 1]
        /\ Len(new) = 1 => mainq'[Len(mainq)] = new[1]
        /\ mainq[1] = SyncBlock(t) /\ Len(mainq) \in Nat \ {0}
    BY <2>1, <2>2, QueuedTail
  <2> HIDE DEF new
  <2>4. \A i \in 1..Len(mainq') :
          \/ i \in 1..(Len(mainq) - 1)
          \/ i = Len(mainq) /\ \E k \in Notified : mainq'[i] = NotifyBlock(k)
    <3> TAKE i \in 1..Len(mainq')
    <3>1. CASE Len(new) = 0
      BY <2>3, <3>1
    <3>2. CASE Len(new) = 1
      <4>1. i \in 1..Len(mainq)
        BY <2>3, <3>2
      <4> QED BY <2>2, <2>3, <3>2, <4>1
    <3> QED BY <2>2, <3>1, <3>2
  <2>5. ASSUME NEW u \in Threads
        PROVE  pc'[u] = "sync" <=> Queued(SyncBlock(u))'
    <3>1. CASE u = t
      <4>1. ASSUME NEW i \in 1..Len(mainq'), mainq'[i] = SyncBlock(t)
            PROVE  FALSE
        <5>1. i \in 1..(Len(mainq) - 1)
          BY <2>4, <4>1, BlocksDiffer
        <5>2. mainq[i + 1] = mainq[1] /\ i + 1 \in 1..Len(mainq) /\ 1 \in 1..Len(mainq)
          BY <2>3, <4>1, <5>1
        <5> QED BY <2>3, <5>1, <5>2, BlocksDiffer DEF WaitingIffQueued
      <4> QED BY <2>1, <3>1, <4>1 DEF Queued
    <3>2. CASE u # t
      <4>1. ASSUME NEW i \in 1..Len(mainq), mainq[i] = SyncBlock(u)
            PROVE  Queued(SyncBlock(u))'
        <5>1. i # 1
          BY <2>3, <3>2, <4>1, BlocksDiffer
        <5>2. i - 1 \in 1..(Len(mainq) - 1) /\ i - 1 \in 1..Len(mainq')
          BY <2>2, <2>3, <5>1
        <5>3. mainq'[i - 1] = mainq[i]
          BY <2>3, <5>2
        <5> QED BY <4>1, <5>2, <5>3 DEF Queued
      <4>2. ASSUME NEW i \in 1..Len(mainq'), mainq'[i] = SyncBlock(u)
            PROVE  Queued(SyncBlock(u))
        <5>1. i \in 1..(Len(mainq) - 1)
          BY <2>4, <4>2, BlocksDiffer
        <5> QED BY <2>3, <4>2, <5>1 DEF Queued
      <4> QED BY <2>1, <3>2, <4>1, <4>2 DEF Queued, WaitingIffQueued
    <3> QED BY <3>1, <3>2
  <2>6. \A i, j \in 1..Len(mainq') :
          mainq'[i] = mainq'[j] /\ mainq'[i][1] = "sync" => i = j
    <3> SUFFICES ASSUME NEW i \in 1..Len(mainq'), NEW j \in 1..Len(mainq'),
                        mainq'[i] = mainq'[j], mainq'[i][1] = "sync"
                 PROVE  i = j
      OBVIOUS
    <3>1. i \in 1..(Len(mainq) - 1) /\ j \in 1..(Len(mainq) - 1)
      BY <2>4, BlocksDiffer
    <3>2. mainq[i + 1] = mainq[j + 1] /\ mainq[i + 1][1] = "sync"
          /\ i + 1 \in 1..Len(mainq) /\ j + 1 \in 1..Len(mainq)
      BY <2>3, <3>1
    <3>3. i + 1 = j + 1
      BY <3>2 DEF WaitingIffQueued
    <3> QED BY <3>1, <3>3
  <2> QED BY <2>5, <2>6 DEF WaitingIffQueued
<1>6. ASSUME NEW k \in Notified, RunNotify(k) PROVE WaitingIffQueued'
  BY <1>6, TailKeepsWaiting, BlocksDiffer DEF RunNotify
<1> QED
  BY <1>1, <1>2, <1>3, <1>4, <1>5, <1>6, NextCases

\* A thread waits in dispatch_sync exactly when its one block is queued: the
\* main queue never loses or repeats the block of a waiting thread.
THEOREM WaitingCorrect == Spec => []WaitingIffQueued
<1>1. Init => WaitingIffQueued
  BY BlocksDiffer DEF Init, WaitingIffQueued, Queued
<1> QED
  BY <1>1, WaitingStep, TypeCorrect, PTL DEF Spec

-----------------------------------------------------------------------------
(* Answers. *)

\* The head of the main queue being the block of t, t waits in dispatch_sync.
LEMMA HeadWaits ==
  ASSUME TypeOK, WaitingIffQueued, NEW t \in Threads, RunSync(t)
  PROVE  pc[t] = "sync"
<1>1. mainq[1] = SyncBlock(t) /\ 1 \in 1..Len(mainq)
  BY DEF RunSync, TypeOK
<1> QED BY <1>1 DEF WaitingIffQueued, Queued

\* A message enters the network's queue; it brings no answer, or one that is
\* nowhere else.
LEMMA ReceiveKeepsAnswers ==
  ASSUME TypeOK, AnswersInFlight, NEW m \in Message, Receive(m),
         sent \subseteq sent',
         m.kind = "answer" => /\ m.num \in sent' /\ m.num \notin sent
                              /\ answers[m.num] = 0
  PROVE  AnswersInFlight'
<1>1. /\ Len(net') = Len(net) + 1 /\ Len(net) \in Nat
      /\ \A i \in 1..Len(net) : net'[i] = net[i]
      /\ net'[Len(net) + 1] = m
      /\ UNCHANGED <<pc, held, answers>>
  BY AppendProperties, LenProperties DEF Receive, TypeOK
<1>2. \A i \in 1..Len(net') : i \in 1..Len(net) \/ (net'[i] = m /\ i = Len(net) + 1)
  BY <1>1
<1>3. \A i \in 1..Len(net') : net'[i].kind = "answer" =>
        net'[i].num \in sent' /\ answers'[net'[i].num] = 0
  BY <1>1, <1>2 DEF AnswersInFlight
<1>4. \A i, j \in 1..Len(net') : \A r \in Requests :
        IsAnswer(net'[i], r) /\ IsAnswer(net'[j], r) => i = j
  BY <1>1, <1>2 DEF AnswersInFlight, IsAnswer
<1>5. \A t \in Threads : pc'[t] # "idle" /\ held'[t].kind = "answer" =>
        /\ held'[t].num \in sent' /\ answers'[held'[t].num] = 0
        /\ \A i \in 1..Len(net') : ~IsAnswer(net'[i], held'[t].num)
  BY <1>1, <1>2 DEF AnswersInFlight, IsAnswer
<1>6. \A t, u \in Threads : \A r \in Requests :
        /\ pc'[t] # "idle" /\ pc'[u] # "idle"
        /\ IsAnswer(held'[t], r) /\ IsAnswer(held'[u], r)
        => t = u
  BY <1>1 DEF AnswersInFlight
<1> QED BY <1>3, <1>4, <1>5, <1>6 DEF AnswersInFlight, IsAnswer

LEMMA AnswersStep ==
  TypeOK /\ WaitingIffQueued /\ AnsweredOnce /\ AnswersInFlight /\ [Next]_vars
    => AnsweredOnce' /\ AnswersInFlight'
<1> SUFFICES ASSUME TypeOK, WaitingIffQueued, AnsweredOnce, AnswersInFlight,
                    [Next]_vars
             PROVE  AnsweredOnce' /\ AnswersInFlight'
  OBVIOUS
<1>1. ASSUME NEW m \in Answer, ReceiveAnswer(m)
      PROVE  AnsweredOnce' /\ AnswersInFlight'
  <2>1. m \in Message /\ m.num \in Requests
    BY DEF Message, Answer
  <2>2. /\ sent' = sent \cup {m.num} /\ m.num \notin sent /\ Receive(m)
        /\ answers' = answers
    BY <1>1 DEF ReceiveAnswer, Receive
  <2>3. answers[m.num] = 0
    BY <2>1, <2>2 DEF AnsweredOnce
  <2>4. AnswersInFlight'
    BY <2>1, <2>2, <2>3, ReceiveKeepsAnswers
  <2> QED BY <2>2, <2>4 DEF AnsweredOnce
<1>2. ASSUME NEW m \in Push, ReceivePush(m)
      PROVE  AnsweredOnce' /\ AnswersInFlight'
  <2>1. m \in Message /\ m.kind # "answer"
    BY DEF Message, Push
  <2>2. sent' = sent /\ answers' = answers /\ Receive(m)
    BY <1>2 DEF ReceivePush, Receive
  <2> QED BY <2>1, <2>2, ReceiveKeepsAnswers DEF AnsweredOnce
<1>3. ASSUME NEW m \in Other \cup Status, ReceiveNews(m)
      PROVE  AnsweredOnce' /\ AnswersInFlight'
  <2>1. m \in Message /\ m.kind # "answer"
    BY DEF Message, Other, Status
  <2>2. sent' = sent /\ answers' = answers /\ Receive(m)
    BY <1>3 DEF ReceiveNews, Receive
  <2> QED BY <2>1, <2>2, ReceiveKeepsAnswers DEF AnsweredOnce
<1>4. ASSUME NEW t \in Threads, Take(t)
      PROVE  AnsweredOnce' /\ AnswersInFlight'
  <2>1. /\ Len(net') = Len(net) - 1 /\ Len(net) \in Nat \ {0}
        /\ \A i \in 1..Len(net') : net'[i] = net[i + 1]
        /\ Head(net) = net[1] /\ net[1] \in Message
        /\ 1 \in 1..Len(net)
    BY <1>4, HeadTailProperties, LenProperties, EmptySeq DEF Take, TypeOK
  <2>2. /\ held'[t] = net[1] /\ pc'[t] # "idle"
        /\ \A u \in Threads \ {t} : held'[u] = held[u] /\ pc'[u] = pc[u]
        /\ UNCHANGED <<sent, answers>>
    BY <1>4, <2>1 DEF Take, TypeOK
  <2>3. \A i \in 1..Len(net') : i + 1 \in 1..Len(net) /\ i + 1 # 1
    BY <2>1
  <2>4. net[1].kind = "answer" => net[1].num \in Requests
    BY <2>1 DEF Message, Answer, Push, Other, Status
  <2>5. \A i \in 1..Len(net') : net'[i].kind = "answer" =>
          net'[i].num \in sent' /\ answers'[net'[i].num] = 0
    BY <2>1, <2>2, <2>3 DEF AnswersInFlight
  <2>6. \A i, j \in 1..Len(net') : \A r \in Requests :
          IsAnswer(net'[i], r) /\ IsAnswer(net'[j], r) => i = j
    <3> SUFFICES ASSUME NEW i \in 1..Len(net'), NEW j \in 1..Len(net'),
                        NEW r \in Requests,
                        IsAnswer(net'[i], r), IsAnswer(net'[j], r)
                 PROVE  i = j
      OBVIOUS
    <3>1. i + 1 = j + 1
      BY <2>1, <2>3 DEF AnswersInFlight
    <3> QED BY <3>1
  <2>7. \A u \in Threads : pc'[u] # "idle" /\ held'[u].kind = "answer" =>
          /\ held'[u].num \in sent' /\ answers'[held'[u].num] = 0
          /\ \A i \in 1..Len(net') : ~IsAnswer(net'[i], held'[u].num)
    <3> SUFFICES ASSUME NEW u \in Threads, pc'[u] # "idle",
                        held'[u].kind = "answer"
                 PROVE  /\ held'[u].num \in sent' /\ answers'[held'[u].num] = 0
                        /\ \A i \in 1..Len(net') : ~IsAnswer(net'[i], held'[u].num)
      OBVIOUS
    <3>1. CASE u = t
      <4>1. \A i \in 1..Len(net') : ~IsAnswer(net'[i], net[1].num)
        BY <2>1, <2>2, <2>3, <2>4, <3>1 DEF AnswersInFlight, IsAnswer
      <4> QED BY <2>1, <2>2, <3>1, <4>1 DEF AnswersInFlight
    <3>2. CASE u # t
      BY <2>1, <2>2, <2>3, <3>2 DEF AnswersInFlight
    <3> QED BY <3>1, <3>2
  <2>8. \A u, w \in Threads : \A r \in Requests :
          /\ pc'[u] # "idle" /\ pc'[w] # "idle"
          /\ IsAnswer(held'[u], r) /\ IsAnswer(held'[w], r)
          => u = w
    BY <2>1, <2>2 DEF AnswersInFlight, IsAnswer
  <2>9. AnswersInFlight'
    BY <2>5, <2>6, <2>7, <2>8 DEF AnswersInFlight, IsAnswer
  <2> QED BY <2>2, <2>9 DEF AnsweredOnce
<1>5. ASSUME NEW t \in Threads, Discard(t) \/ DispatchSync(t)
      PROVE  AnsweredOnce' /\ AnswersInFlight'
  <2>1. /\ \A u \in Threads : pc'[u] # "idle" => pc[u] # "idle"
        /\ UNCHANGED <<sent, answers, held, net>>
    BY <1>5 DEF Discard, DispatchSync, TypeOK
  <2> QED BY <2>1 DEF AnsweredOnce, AnswersInFlight
<1>6. ASSUME NEW t \in Threads, RunSync(t)
      PROVE  AnsweredOnce' /\ AnswersInFlight'
  <2>1. /\ pc[t] # "idle" /\ pc'[t] = "idle"
        /\ \A u \in Threads \ {t} : pc'[u] = pc[u]
        /\ UNCHANGED <<sent, held, net>>
    BY <1>6, HeadWaits DEF RunSync, TypeOK
  <2>2. CASE held[t].kind = "answer"
    <3>1. held[t].num \in Requests
      BY <2>2 DEF TypeOK, Message, Answer, Push, Other, Status
    <3>2. answers' = [answers EXCEPT ![held[t].num] = @ + 1]
      BY <1>6, <2>2 DEF RunSync
    <3>3. answers[held[t].num] = 0 /\ held[t].num \in sent
      BY <2>1, <2>2 DEF AnswersInFlight
    <3>4. \A r \in Requests : answers'[r] = IF r = held[t].num THEN 1 ELSE answers[r]
      BY <3>1, <3>2, <3>3 DEF TypeOK
    <3>5. AnsweredOnce'
      BY <2>1, <3>3, <3>4 DEF AnsweredOnce
    <3>6. \A i \in 1..Len(net) : net[i].kind = "answer" =>
            net[i].num # held[t].num /\ net[i].num \in Requests
      BY <2>1, <2>2 DEF AnswersInFlight, IsAnswer, TypeOK, Message, Answer, Push,
                        Other, Status
    <3>7. \A u \in Threads : pc'[u] # "idle" /\ held[u].kind = "answer" =>
            u # t /\ held[u].num # held[t].num /\ held[u].num \in Requests
      <4> SUFFICES ASSUME NEW u \in Threads, pc'[u] # "idle",
                          held[u].kind = "answer"
                   PROVE  u # t /\ held[u].num # held[t].num
                          /\ held[u].num \in Requests
        OBVIOUS
      <4>1. u # t /\ pc[u] # "idle"
        BY <2>1
      <4>2. held[u].num \in Requests
        BY DEF TypeOK, Message, Answer, Push, Other, Status
      <4> QED BY <2>1, <2>2, <4>1, <4>2 DEF AnswersInFlight, IsAnswer
    <3>8. \A i \in 1..Len(net') : net'[i].kind = "answer" =>
            net'[i].num \in sent' /\ answers'[net'[i].num] = 0
      BY <2>1, <3>4, <3>6 DEF AnswersInFlight
    <3>9. \A u \in Threads : pc'[u] # "idle" /\ held'[u].kind = "answer" =>
            /\ held'[u].num \in sent' /\ answers'[held'[u].num] = 0
            /\ \A i \in 1..Len(net') : ~IsAnswer(net'[i], held'[u].num)
      BY <2>1, <3>4, <3>7 DEF AnswersInFlight
    <3>10. \A u, w \in Threads : \A r \in Requests :
            /\ pc'[u] # "idle" /\ pc'[w] # "idle"
            /\ IsAnswer(held'[u], r) /\ IsAnswer(held'[w], r)
            => u = w
      BY <2>1 DEF AnswersInFlight
    <3>11. \A i, j \in 1..Len(net') : \A r \in Requests :
             IsAnswer(net'[i], r) /\ IsAnswer(net'[j], r) => i = j
      BY <2>1 DEF AnswersInFlight
    <3> QED BY <3>5, <3>8, <3>9, <3>10, <3>11 DEF AnswersInFlight, IsAnswer
  <2>3. CASE held[t].kind # "answer"
    <3>1. answers' = answers
      BY <1>6, <2>3 DEF RunSync
    <3> QED BY <2>1, <3>1 DEF AnsweredOnce, AnswersInFlight
  <2> QED BY <2>2, <2>3
<1>7. ASSUME RunInit \/ (\E k \in Notified : RunNotify(k)) \/ Ask
             \/ (\E k \in Notified : Open(k)) \/ UNCHANGED vars
      PROVE  AnsweredOnce' /\ AnswersInFlight'
  <2>1. UNCHANGED <<sent, answers, held, net, pc>>
    BY <1>7 DEF RunInit, RunNotify, Ask, Open, vars
  <2> QED BY <2>1 DEF AnsweredOnce, AnswersInFlight
<1> QED
  BY <1>1, <1>2, <1>3, <1>4, <1>5, <1>6, <1>7
     DEF Next, Network, Thread, RunBlock, User

\* The completion block of a request runs at most once, and only after the
\* server has answered it: no interleaving of threads, queue and network runs
\* a handler of getLocalMsg twice.
THEOREM AnsweredOnceCorrect == Spec => []AnsweredOnce
<1>1. Init => AnsweredOnce /\ AnswersInFlight
  BY DEF Init, AnsweredOnce, AnswersInFlight
<1> QED
  BY <1>1, AnswersStep, TypeCorrect, WaitingCorrect, PTL DEF Spec

-----------------------------------------------------------------------------
(* Screens. *)

\* A block that is not at the head of the queue stays queued when the head is
\* taken off.
LEMMA QueuedStays ==
  ASSUME TypeOK, mainq # <<>>, NEW new \in Seq(Block), Len(new) \in 0..1,
         mainq' = Tail(mainq) \o new,
         NEW b, Queued(b), Head(mainq) # b
  PROVE  Queued(b)'
<1>1. /\ Len(mainq') = Len(mainq) - 1 + Len(new)
      /\ \A i \in 1..(Len(mainq) - 1) : mainq'[i] = mainq[i + 1]
      /\ Head(mainq) = mainq[1] /\ Len(mainq) \in Nat \ {0}
  BY QueuedTail
<1>2. PICK i \in 1..Len(mainq) : mainq[i] = b
  BY DEF Queued
<1>3. /\ i # 1 /\ i - 1 \in 1..(Len(mainq) - 1) /\ i - 1 \in 1..Len(mainq')
  BY <1>1, <1>2
<1>4. mainq'[i - 1] = b
  BY <1>1, <1>2, <1>3
<1> QED BY <1>3, <1>4 DEF Queued

LEMMA QueuedStaysTail ==
  ASSUME TypeOK, mainq # <<>>, mainq' = Tail(mainq),
         NEW b, Queued(b), Head(mainq) # b
  PROVE  Queued(b)'
<1>1. /\ Len(mainq') = Len(mainq) - 1 /\ Len(mainq) \in Nat \ {0}
      /\ \A i \in 1..(Len(mainq) - 1) : mainq'[i] = mainq[i + 1]
      /\ Head(mainq) = mainq[1]
  BY HeadTailProperties, LenProperties, EmptySeq DEF TypeOK
<1>2. PICK i \in 1..Len(mainq) : mainq[i] = b
  BY DEF Queued
<1>3. i # 1 /\ i - 1 \in 1..Len(mainq')
  BY <1>1, <1>2
<1>4. mainq'[i - 1] = b
  BY <1>1, <1>2, <1>3
<1> QED BY <1>3, <1>4 DEF Queued

LEMMA RefreshStep ==
  TypeOK /\ NoMissedRefresh /\ [Next]_vars => NoMissedRefresh'
<1> SUFFICES ASSUME TypeOK, NoMissedRefresh, [Next]_vars,
                    NEW k \in Notified, shown'[k] # cache'[k]
             PROVE  Queued(NotifyBlock(k))'
  BY DEF NoMissedRefresh
<1>1. ASSUME UNCHANGED <<shown, cache, mainq>>
      PROVE  Queued(NotifyBlock(k))'
  BY <1>1 DEF NoMissedRefresh, Queued
<1>2. CASE Network \/ Ask
  BY <1>1, <1>2 DEF Network, Ask, ReceiveAnswer, ReceivePush, ReceiveNews, Receive
<1>3. ASSUME NEW l \in Notified, Open(l) PROVE Queued(NotifyBlock(k))'
  <2>1. /\ UNCHANGED <<cache, mainq>>
        /\ shown'[k] = IF k = l THEN cache[k] ELSE shown[k]
    BY <1>3 DEF Open, TypeOK
  <2> QED BY <2>1 DEF NoMissedRefresh, Queued
<1>4. ASSUME NEW t \in Threads, Take(t) \/ Discard(t)
      PROVE  Queued(NotifyBlock(k))'
  BY <1>1, <1>4 DEF Take, Discard
<1>5. ASSUME NEW t \in Threads, DispatchSync(t)
      PROVE  Queued(NotifyBlock(k))'
  <2>1. Queued(NotifyBlock(k))
    BY <1>5 DEF DispatchSync, NoMissedRefresh
  <2>2. mainq' = Append(mainq, SyncBlock(t)) /\ SyncBlock(t) \in Block
    BY <1>5, BlockTypes DEF DispatchSync
  <2> QED BY <2>1, <2>2, QueuedAppend
<1>6. CASE RunInit
  <2>1. /\ Queued(NotifyBlock(k)) /\ Head(mainq) # NotifyBlock(k)
        /\ mainq # <<>> /\ mainq' = Tail(mainq)
    BY <1>6, BlocksDiffer DEF RunInit, NoMissedRefresh
  <2> QED BY <2>1, QueuedStaysTail
<1>7. ASSUME NEW t \in Threads, RunSync(t)
      PROVE  Queued(NotifyBlock(k))'
  <2> DEFINE new == Posts(held[t])
  <2>1. /\ mainq # <<>> /\ mainq' = Tail(mainq) \o new
        /\ Head(mainq) # NotifyBlock(k) /\ shown' = shown
    BY <1>7, BlocksDiffer DEF RunSync
  <2>2. new \in Seq(Block) /\ Len(new) \in 0..1
    BY PostsFacts
  <2>3. CASE held[t].kind = "push" /\ held[t].name = k
    <3>1. Len(new) = 1 /\ new[1] = NotifyBlock(k)
      BY <2>3, PostsFacts
    <3>2. /\ Len(mainq') = Len(mainq) - 1 + Len(new)
          /\ mainq'[Len(mainq)] = new[1] /\ Len(mainq) \in Nat \ {0}
      BY <2>1, <2>2, <3>1, QueuedTail
    <3> QED BY <3>1, <3>2 DEF Queued
  <2>4. CASE ~(held[t].kind = "push" /\ held[t].name = k)
    <3>1. cache'[k] = cache[k]
      BY <1>7, <2>4 DEF RunSync, TypeOK
    <3>2. Queued(NotifyBlock(k))
      BY <2>1, <3>1 DEF NoMissedRefresh
    <3> HIDE DEF new
    <3> QED BY <2>1, <2>2, <3>2, QueuedStays
  <2> QED BY <2>3, <2>4
<1>8. ASSUME NEW l \in Notified, RunNotify(l)
      PROVE  Queued(NotifyBlock(k))'
  <2>1. /\ mainq # <<>> /\ mainq' = Tail(mainq) /\ cache' = cache
        /\ Head(mainq) = NotifyBlock(l)
        /\ shown'[k] = IF k = l THEN cache[k] ELSE shown[k]
    BY <1>8 DEF RunNotify, TypeOK
  <2>2. k # l /\ Queued(NotifyBlock(k)) /\ Head(mainq) # NotifyBlock(k)
    BY <2>1, BlocksDiffer DEF NoMissedRefresh
  <2> QED BY <2>1, <2>2, QueuedStaysTail
<1>9. CASE UNCHANGED vars
  BY <1>1, <1>9 DEF vars
<1> QED
  BY <1>2, <1>3, <1>4, <1>5, <1>6, <1>7, <1>8, <1>9
     DEF Next, Thread, RunBlock, User

\* A screen that does not show the newest push of its topic has a post coming:
\* dispatch_async after the cache update never loses a refresh.
THEOREM NoMissedRefreshCorrect == Spec => []NoMissedRefresh
<1>1. Init => NoMissedRefresh
  BY DEF Init, NoMissedRefresh, Notified, Topics
<1> QED
  BY <1>1, RefreshStep, TypeCorrect, PTL DEF Spec

-----------------------------------------------------------------------------
(* One callback thread: Bridge implements Delivery, for any number of       *)
(* requests and pushes, and keeps what Delivery promises.                   *)

LEMMA HeardStep ==
  TypeOK /\ WaitingIffQueued /\ OnlyHeardQueued /\ [Next]_vars
    => OnlyHeardQueued'
<1> SUFFICES ASSUME TypeOK, WaitingIffQueued, OnlyHeardQueued, [Next]_vars
             PROVE  OnlyHeardQueued'
  OBVIOUS
<1>1. CASE QuietStep
  BY <1>1, Quiet DEF OnlyHeardQueued
<1>2. ASSUME NEW t \in Threads, Take(t) \/ Discard(t) \/ DispatchSync(t)
      PROVE  OnlyHeardQueued'
  <2>1. /\ pc'[t] = "sync" => Heard(held'[t])
        /\ \A u \in Threads \ {t} : pc'[u] = pc[u] /\ held'[u] = held[u]
    BY <1>2 DEF Take, Discard, DispatchSync, TypeOK
  <2> QED BY <2>1 DEF OnlyHeardQueued
<1>3. CASE RunInit
  BY <1>3 DEF RunInit, OnlyHeardQueued
<1>4. ASSUME NEW t \in Threads, RunSync(t) PROVE OnlyHeardQueued'
  <2>1. /\ pc'[t] = "idle" /\ held' = held
        /\ \A u \in Threads \ {t} : pc'[u] = pc[u]
    BY <1>4 DEF RunSync, TypeOK
  <2> QED BY <2>1 DEF OnlyHeardQueued
<1>5. ASSUME NEW k \in Notified, RunNotify(k) PROVE OnlyHeardQueued'
  BY <1>5 DEF RunNotify, OnlyHeardQueued
<1> QED BY <1>1, <1>2, <1>3, <1>4, <1>5, NextCases

LEMMA HeardCorrect == Spec => []OnlyHeardQueued
<1>1. Init => OnlyHeardQueued
  BY DEF Init, OnlyHeardQueued
<1> QED BY <1>1, HeardStep, TypeCorrect, WaitingCorrect, PTL DEF Spec

LEMMA OrderInit ==
  ASSUME NEW t, Threads = {t}, Init
  PROVE  D!Init
<1>1. OneThread = t
  BY DEF OneThread
<1>2. Pending = <<>>
  BY <1>1 DEF Pending, Init
<1> QED
  BY <1>2 DEF Init, D!Init, Topics, Requests, D!Topics, D!Requests

\* A message joins what is pending when it is received, whatever the thread
\* does.
LEMMA PendingReceive ==
  ASSUME NEW t, Threads = {t}, TypeOK, NEW m \in Message, Receive(m)
  PROVE  Pending' = Append(Pending, m)
<1>1. OneThread = t /\ t \in Threads
  BY DEF OneThread
<1>2. net' = Append(net, m) /\ UNCHANGED <<pc, held>>
  BY DEF Receive
<1>3. CASE pc[t] = "idle"
  BY <1>1, <1>2, <1>3 DEF Pending
<1>4. CASE pc[t] # "idle"
  <2>1. held[t] \in Message /\ net \in Seq(Message)
    BY <1>1 DEF TypeOK
  <2>2. <<held[t]>> \o Append(net, m) = Append(<<held[t]>> \o net, m)
    BY <2>1
  <2> QED BY <1>1, <1>2, <1>4, <2>2 DEF Pending
<1> QED BY <1>3, <1>4

LEMMA OrderStep ==
  ASSUME NEW t, Threads = {t}, TypeOK, WaitingIffQueued, OnlyHeardQueued,
         [Next]_vars
  PROVE  [D!Next]_(D!dvars)
<1>0. OneThread = t /\ t \in Threads
  BY DEF OneThread
<1> DEFINE others == <<asked, sent, pushed, answers, cache>>
<1>1. ASSUME NEW m \in Answer, ReceiveAnswer(m) PROVE D!Next
  <2>1. Pending' = Append(Pending, m)
    BY <1>1, PendingReceive DEF ReceiveAnswer, Message
  <2>2. D!ArriveAnswer(m)
    BY <1>1, <2>1 DEF ReceiveAnswer, Receive, D!ArriveAnswer
  <2> QED BY <2>2 DEF D!Next, D!Answer, Answer, D!Requests, Requests
<1>2. ASSUME NEW m \in Push, ReceivePush(m) PROVE D!Next
  <2>1. Pending' = Append(Pending, m)
    BY <1>2, PendingReceive DEF ReceivePush, Message
  <2>2. D!ArrivePush(m)
    BY <1>2, <2>1 DEF ReceivePush, Receive, D!ArrivePush
  <2> QED BY <2>2 DEF D!Next, D!Push, Push, D!Topics, Topics
<1>3. ASSUME NEW m \in Other \cup Status, ReceiveNews(m) PROVE D!Next
  <2>1. Pending' = Append(Pending, m)
    BY <1>3, PendingReceive DEF ReceiveNews, Message
  <2>2. D!ArriveNews(m)
    BY <1>3, <2>1 DEF ReceiveNews, Receive, D!ArriveNews
  <2> QED BY <2>2 DEF D!Next, D!Other, D!Status, Other, Status
<1>4. CASE Take(t)
  <2>1. /\ net # <<>> /\ pc[t] = "idle" /\ pc'[t] = "decode"
        /\ held'[t] = Head(net) /\ net' = Tail(net) /\ UNCHANGED others
    BY <1>0, <1>4 DEF Take, TypeOK
  <2>2. net = <<Head(net)>> \o Tail(net)
    BY <2>1 DEF TypeOK
  <2>3. Pending' = Pending
    BY <1>0, <2>1, <2>2 DEF Pending
  <2> QED BY <2>1, <2>3 DEF D!dvars
<1>5. CASE Discard(t)
  <2>1. /\ pc[t] = "decode" /\ pc'[t] = "idle" /\ ~Heard(held[t])
        /\ UNCHANGED <<net, others>>
    BY <1>0, <1>5 DEF Discard, TypeOK
  <2>2. held[t] \in Message /\ held[t].kind = "answer" /\ held[t].name # "connected"
    BY <1>0, <2>1 DEF TypeOK, Heard, Message, Answer, Push, Other, Status
  <2>3. Pending = <<held[t]>> \o net /\ Pending' = net
    BY <1>0, <2>1 DEF Pending
  <2>4. Pending # <<>> /\ Head(Pending) = held[t] /\ Tail(Pending) = net
    BY <1>0, <2>2, <2>3 DEF TypeOK
  <2>5. D!Apply
    BY <2>1, <2>2, <2>3, <2>4 DEF D!Apply, D!Heard, Heard
  <2> QED BY <2>5 DEF D!Next
<1>6. CASE DispatchSync(t)
  <2>1. /\ pc[t] = "decode" /\ pc'[t] = "sync"
        /\ UNCHANGED <<net, held, others>>
    BY <1>0, <1>6 DEF DispatchSync, TypeOK
  <2>2. Pending' = Pending
    BY <1>0, <2>1 DEF Pending
  <2> QED BY <2>1, <2>2 DEF D!dvars
<1>7. CASE RunSync(t)
  <2>1. /\ pc[t] = "sync" /\ pc'[t] = "idle" /\ Heard(held[t])
        /\ UNCHANGED <<net, sent, pushed>>
    BY <1>0, <1>7, HeadWaits DEF RunSync, TypeOK, OnlyHeardQueued
  <2>2. Pending = <<held[t]>> \o net /\ Pending' = net /\ held[t] \in Message
    BY <1>0, <2>1 DEF Pending, TypeOK
  <2>3. Pending # <<>> /\ Head(Pending) = held[t] /\ Tail(Pending) = net
    BY <1>0, <2>2 DEF TypeOK
  <2>4. /\ answers' = IF held[t].kind = "answer"
                      THEN [answers EXCEPT ![held[t].num] = @ + 1] ELSE answers
        /\ cache' = IF held[t].kind = "push"
                    THEN [cache EXCEPT ![held[t].name] = held[t].num] ELSE cache
        /\ \/ asked' = asked
           \/ held[t].name = "connected" /\ asked < MaxRequests
              /\ asked' = asked + 1
    BY <1>7 DEF RunSync
  <2>5. D!Heard(held[t])
    BY <2>1 DEF D!Heard, Heard
  <2>6. D!Apply
    BY <2>1, <2>2, <2>3, <2>4, <2>5 DEF D!Apply
  <2> QED BY <2>6 DEF D!Next
<1>8. CASE Ask
  <2>1. Pending' = Pending
    BY <1>8 DEF Ask, Pending
  <2>2. D!Ask
    BY <1>8, <2>1 DEF Ask, D!Ask
  <2> QED BY <2>2 DEF D!Next
<1>9. ASSUME RunInit \/ (\E k \in Notified : RunNotify(k) \/ Open(k))
             \/ UNCHANGED vars
      PROVE  UNCHANGED D!dvars
  <2>1. UNCHANGED <<net, pc, held, others>>
    BY <1>9 DEF RunInit, RunNotify, Open, vars
  <2>2. Pending' = Pending
    BY <2>1 DEF Pending
  <2> QED BY <2>1, <2>2 DEF D!dvars
<1> QED
  BY <1>0, <1>1, <1>2, <1>3, <1>4, <1>5, <1>6, <1>7, <1>8, <1>9
     DEF Next, Network, Thread, RunBlock, User

\* With one callback thread the bridge delivers in order of arrival: every step
\* of threads, queue and network is a step of Delivery or changes nothing it
\* sees.
THEOREM DeliversInOrder ==
  ASSUME NEW t, Threads = {t}
  PROVE  Spec => InOrderDelivery
<1>1. Init => D!Init
  BY OrderInit
<1>2. TypeOK /\ WaitingIffQueued /\ OnlyHeardQueued /\ [Next]_vars
        => [D!Next]_(D!dvars)
  BY OrderStep
<1> QED
  BY <1>1, <1>2, TypeCorrect, WaitingCorrect, HeardCorrect, PTL
     DEF Spec, InOrderDelivery, D!Spec

\* What is pending consists of messages.
LEMMA PendingTyped ==
  ASSUME NEW t, Threads = {t}, TypeOK
  PROVE  D!TypeOK
<1>1. OneThread = t /\ t \in Threads
  BY DEF OneThread
<1>2. D!Message = Message /\ D!Topics = Topics /\ D!Requests = Requests
  BY DEF D!Message, Message, D!Answer, Answer, D!Push, Push, D!Other, Other,
         D!Status, Status, D!Topics, Topics, D!Requests, Requests
<1>3. Pending \in Seq(Message)
  <2>1. held[t] \in Message /\ net \in Seq(Message)
    BY <1>1 DEF TypeOK
  <2> QED BY <1>1, <2>1 DEF Pending
<1> QED
  BY <1>2, <1>3 DEF TypeOK, D!TypeOK

\* What a message is, by its kind.
LEMMA PendingFields ==
  ASSUME NEW m \in D!Message
  PROVE  /\ m.kind = "answer" => m.num \in D!Requests
         /\ m.kind = "push" => m.name \in D!Topics /\ m.num \in 1..MaxVersion
  BY DEF D!Message, D!Answer, D!Push, D!Other, D!Status

\* A message that is no push enters the stream.
LEMMA PendingNoPush ==
  ASSUME D!TypeOK, D!PushesInOrder, NEW m \in D!Message, m.kind # "push",
         Pending' = Append(Pending, m), UNCHANGED <<cache, pushed>>
  PROVE  D!PushesInOrder'
<1>1. /\ Len(Pending') = Len(Pending) + 1
      /\ \A i \in 1..Len(Pending) : Pending'[i] = Pending[i]
      /\ Pending'[Len(Pending) + 1] = m
  BY AppendProperties DEF D!TypeOK
<1>2. \A i \in 1..Len(Pending') : Pending'[i].kind = "push" => i \in 1..Len(Pending)
  BY <1>1, LenProperties DEF D!TypeOK
<1> QED BY <1>1, <1>2 DEF D!PushesInOrder

\* The order of the pushes survives every step, because a push enters behind
\* the older ones and leaves from the front.
LEMMA PushOrderStep ==
  D!TypeOK /\ D!PushesInOrder /\ [D!Next]_(D!dvars) => D!PushesInOrder'
<1> SUFFICES ASSUME D!TypeOK, D!PushesInOrder, [D!Next]_(D!dvars) PROVE D!PushesInOrder'
  OBVIOUS
<1>0. Len(Pending) \in Nat /\ \A i \in 1..Len(Pending) : Pending[i] \in D!Message
  BY DEF D!TypeOK
<1>1. CASE D!Ask
  BY <1>1 DEF D!Ask, D!PushesInOrder
<1>2. ASSUME NEW m \in D!Answer, D!ArriveAnswer(m) PROVE D!PushesInOrder'
  BY <1>2, PendingNoPush DEF D!ArriveAnswer, D!Message, D!Answer
<1>3. ASSUME NEW m \in D!Push, D!ArrivePush(m) PROVE D!PushesInOrder'
  <2>1. m \in D!Message /\ m.name \in D!Topics /\ m.num \in 1..MaxVersion
    BY DEF D!Message, D!Push
  <2>2. /\ Len(Pending') = Len(Pending) + 1
        /\ \A i \in 1..Len(Pending) : Pending'[i] = Pending[i]
        /\ Pending'[Len(Pending) + 1] = m
    BY <1>3, <2>1, AppendProperties DEF D!TypeOK, D!ArrivePush
  <2>3. /\ cache' = cache
        /\ m.num = pushed[m.name] + 1
        /\ \A k \in D!Topics : pushed'[k] \in Int /\ pushed[k] <= pushed'[k]
        /\ pushed'[m.name] = m.num
    BY <1>3, <2>1 DEF D!ArrivePush, D!TypeOK
  <2>4. \A k \in D!Topics : cache[k] \in Int /\ pushed[k] \in Int
    BY DEF D!TypeOK
  <2>5. \A i \in 1..Len(Pending) : Pending[i].kind = "push" =>
          /\ Pending[i].name \in D!Topics
          /\ Pending[i].num \in Int
          /\ cache[Pending[i].name] < Pending[i].num
          /\ Pending[i].num <= pushed[Pending[i].name]
    BY <1>0, PendingFields DEF D!PushesInOrder
  <2>6. \A k \in D!Topics : cache'[k] <= pushed'[k]
    BY <2>3, <2>4 DEF D!PushesInOrder
  <2>7. \A i \in 1..Len(Pending') : Pending'[i].kind = "push" =>
          /\ cache'[Pending'[i].name] < Pending'[i].num
          /\ Pending'[i].num <= pushed'[Pending'[i].name]
    <3> TAKE i \in 1..Len(Pending')
    <3>1. CASE i \in 1..Len(Pending)
      BY <3>1, <2>2, <2>3, <2>4, <2>5
    <3>2. CASE i = Len(Pending) + 1
      BY <3>2, <2>1, <2>2, <2>3, <2>4 DEF D!PushesInOrder
    <3> QED BY <1>0, <2>2, <3>1, <3>2
  <2>8. \A i, j \in 1..Len(Pending') :
          /\ i < j
          /\ Pending'[i].kind = "push" /\ Pending'[j].kind = "push"
          /\ Pending'[i].name = Pending'[j].name
          => Pending'[i].num < Pending'[j].num
    <3> SUFFICES ASSUME NEW i \in 1..Len(Pending'), NEW j \in 1..Len(Pending'),
                        i < j, Pending'[i].kind = "push", Pending'[j].kind = "push",
                        Pending'[i].name = Pending'[j].name
                 PROVE  Pending'[i].num < Pending'[j].num
      OBVIOUS
    <3>1. i \in 1..Len(Pending)
      BY <1>0, <2>2
    <3>2. CASE j \in 1..Len(Pending)
      BY <3>1, <3>2, <2>2 DEF D!PushesInOrder
    <3>3. CASE j = Len(Pending) + 1
      BY <3>1, <3>3, <2>1, <2>2, <2>3, <2>4, <2>5
    <3> QED BY <1>0, <2>2, <3>2, <3>3
  <2> QED BY <2>6, <2>7, <2>8 DEF D!PushesInOrder
<1>4. ASSUME NEW m \in D!Other \cup D!Status, D!ArriveNews(m) PROVE D!PushesInOrder'
  BY <1>4, PendingNoPush DEF D!ArriveNews, D!Message, D!Other, D!Status
<1>5. CASE D!Apply
  <2> DEFINE h == Head(Pending)
  <2>1. /\ Len(Pending') = Len(Pending) - 1
        /\ \A i \in 1..Len(Pending') : Pending'[i] = Pending[i + 1]
        /\ h = Pending[1] /\ h \in D!Message /\ 1 \in 1..Len(Pending)
        /\ pushed' = pushed
    BY <1>5, HeadTailProperties DEF D!Apply, D!TypeOK
  <2>2. \A i \in 1..Len(Pending') : i + 1 \in 1..Len(Pending)
    BY <1>0, <2>1
  <2>3. \A i, j \in 1..Len(Pending') :
          /\ i < j
          /\ Pending'[i].kind = "push" /\ Pending'[j].kind = "push"
          /\ Pending'[i].name = Pending'[j].name
          => Pending'[i].num < Pending'[j].num
    BY <1>0, <2>1, <2>2 DEF D!PushesInOrder
  <2>4. CASE h.kind # "push"
    <3>1. cache' = cache
      BY <1>5, <2>4 DEF D!Apply
    <3> QED BY <2>1, <2>2, <2>3, <3>1 DEF D!PushesInOrder
  <2>5. CASE h.kind = "push"
    <3>1. cache' = [cache EXCEPT ![h.name] = h.num]
      BY <1>5, <2>5 DEF D!Apply
    <3>2. h.name \in D!Topics /\ h.num \in Int
      BY <2>1, <2>5, PendingFields
    <3>3. \A k \in D!Topics : cache'[k] = IF k = h.name THEN h.num ELSE cache[k]
      BY <3>1, <3>2 DEF D!TypeOK
    <3>4. \A k \in D!Topics : cache'[k] <= pushed'[k]
      BY <2>1, <2>5, <3>2, <3>3 DEF D!PushesInOrder
    <3>5. \A i \in 1..Len(Pending') : Pending'[i].kind = "push" =>
            /\ cache'[Pending'[i].name] < Pending'[i].num
            /\ Pending'[i].num <= pushed'[Pending'[i].name]
      <4> SUFFICES ASSUME NEW i \in 1..Len(Pending'), Pending'[i].kind = "push"
                   PROVE  /\ cache'[Pending'[i].name] < Pending'[i].num
                          /\ Pending'[i].num <= pushed'[Pending'[i].name]
        OBVIOUS
      <4>1. /\ Pending'[i] = Pending[i + 1] /\ i + 1 \in 1..Len(Pending) /\ 1 < i + 1
            /\ Pending[i + 1].name \in D!Topics
        BY <1>0, <2>1, <2>2, PendingFields
      <4>2. /\ cache[Pending[i + 1].name] < Pending[i + 1].num
            /\ Pending[i + 1].num <= pushed[Pending[i + 1].name]
        BY <4>1 DEF D!PushesInOrder
      <4>3. Pending[i + 1].name = h.name => h.num < Pending[i + 1].num
        BY <2>1, <2>5, <4>1 DEF D!PushesInOrder
      <4> QED BY <2>1, <3>3, <4>1, <4>2, <4>3
    <3> QED BY <2>3, <3>4, <3>5 DEF D!PushesInOrder
  <2> QED BY <2>4, <2>5
<1>6. CASE UNCHANGED D!dvars
  BY <1>6 DEF D!dvars, D!PushesInOrder
<1> QED
  BY <1>1, <1>2, <1>3, <1>4, <1>5, <1>6 DEF D!Next

\* With one callback thread the pushes that have not taken effect, in the network
\* module or in the hands of the thread, are in the server's order and newer
\* than what the caches hold.
THEOREM InOrder ==
  ASSUME NEW t, Threads = {t}
  PROVE  Spec => [](D!TypeOK /\ D!PushesInOrder)
<1>1. Init => D!PushesInOrder
  <2> SUFFICES ASSUME Init PROVE D!PushesInOrder
    OBVIOUS
  <2>1. D!Init
    BY OrderInit
  <2>2. /\ Len(Pending) = 0
        /\ \A k \in D!Topics : cache[k] = 0 /\ pushed[k] = 0
    BY <2>1 DEF D!Init
  <2> QED BY <2>2 DEF D!PushesInOrder
<1>2. TypeOK => D!TypeOK
  BY PendingTyped
<1>3. TypeOK /\ WaitingIffQueued /\ OnlyHeardQueued /\ [Next]_vars
        => [D!Next]_(D!dvars)
  BY OrderStep
<1> QED
  BY <1>1, <1>2, <1>3, PushOrderStep, TypeCorrect, WaitingCorrect, HeardCorrect,
     PTL DEF Spec

\* With one callback thread a cache never goes back to an older push.
THEOREM NeverRegresses ==
  ASSUME NEW t, Threads = {t}
  PROVE  Spec => CacheNeverRegresses
<1>1. D!TypeOK /\ D!PushesInOrder /\ [D!Next]_(D!dvars)
        => [\A k \in Topics : cache'[k] >= cache[k]]_cache
  <2> SUFFICES ASSUME D!TypeOK, D!PushesInOrder, [D!Next]_(D!dvars), cache' # cache,
                      NEW k \in Topics
               PROVE  cache'[k] >= cache[k]
    BY DEF D!TypeOK, D!Topics, Topics
  <2>0. D!Topics = Topics
    BY DEF D!Topics, Topics
  <2>1. D!Apply
    BY DEF D!Next, D!Ask, D!ArriveAnswer, D!ArrivePush, D!ArriveNews, D!dvars
  <2>2. /\ Pending # <<>> /\ Head(Pending) = Pending[1] /\ 1 \in 1..Len(Pending)
        /\ Head(Pending) \in D!Message
    BY <2>1 DEF D!Apply, D!TypeOK
  <2> QED
    BY <2>0, <2>1, <2>2, PendingFields DEF D!Apply, D!TypeOK, D!PushesInOrder
<1> QED
  BY <1>1, InOrder, DeliversInOrder, PTL
     DEF InOrderDelivery, D!Spec, CacheNeverRegresses

-----------------------------------------------------------------------------
(* The strings messages travel in. *)

\* Data of any length comes back from the string it was sent as.
THEOREM DecodingInverts ==
  ASSUME NEW data \in Seq(Byte)
  PROVE  hexStringToData(hexStringFromData(data)) = data
<1> DEFINE n == Len(data)
           string == hexStringFromData(data)
<1>1. n \in Nat /\ \A k \in 1..n : data[k] \in Byte
  OBVIOUS
<1>2. \A k \in 1..n :
        /\ 2 * k - 1 \in 1..(2 * n) /\ (2 * k - 1) % 2 = 1 /\ ((2 * k - 1) + 1) \div 2 = k
        /\ 2 * k \in 1..(2 * n) /\ (2 * k) % 2 # 1 /\ (2 * k) \div 2 = k
  BY <1>1
<1>3. \A k \in 1..n : string[2 * k - 1] = data[k] \div 16 /\ string[2 * k] = data[k] % 16
  BY <1>2 DEF hexStringFromData
<1>4. \A b \in Byte : 16 * (b \div 16) + (b % 16) = b
  BY DEF Byte
<1>5. Len(string) \div 2 = n
  BY <1>1 DEF hexStringFromData
<1>6. hexStringToData(string) = [k \in 1..n |-> data[k]]
  <2>1. \A k \in 1..n : 16 * string[2 * k - 1] + string[2 * k] = data[k]
    BY <1>1, <1>3, <1>4
  <2> HIDE DEF string
  <2> QED BY <1>5, <2>1 DEF hexStringToData
<1>7. data = [k \in 1..n |-> data[k]]
  OBVIOUS
<1> QED
  BY <1>6, <1>7

\* A character that is left at the end of a string is not decoded.
THEOREM OddCharacterIgnored ==
  ASSUME NEW string \in Seq(Digit), Len(string) % 2 = 0, NEW d \in Digit
  PROVE  hexStringToData(Append(string, d)) = hexStringToData(string)
<1> DEFINE n == Len(string) \div 2
<1>1. /\ n \in Nat /\ Len(string) = 2 * n
      /\ Len(Append(string, d)) \div 2 = n
  OBVIOUS
<1>2. \A k \in 1..n : 2 * k - 1 \in 1..Len(string) /\ 2 * k \in 1..Len(string)
  BY <1>1
<1>3. \A k \in 1..Len(string) : Append(string, d)[k] = string[k]
  OBVIOUS
<1> QED
  BY <1>1, <1>2, <1>3 DEF hexStringToData
=============================================================================
