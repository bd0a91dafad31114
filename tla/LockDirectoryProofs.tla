------------------------ MODULE LockDirectoryProofs ------------------------
(***************************************************************************)
(* Proofs about LockDirectory for any locks, lists, texts, codes and       *)
(* frames, and any number of posts and frames that are queued: no push is  *)
(* missed, taps open what their cells show, and scans show the lock.       *)
(*                                                                         *)
(* What Only keeps and where Scans ends is shown from their definitions:   *)
(* such functions are there because their iterations are (Iteration), and  *)
(* what holds of all their values is a set that UpTo fills.                *)
(***************************************************************************)
EXTENDS LockDirectory, SequenceTheorems, WellFoundedInduction, TLAPS

-----------------------------------------------------------------------------
(* Functions that are defined from one number to the next. *)

\* A set of natural numbers that is not empty has a least one.
LEMMA LeastNatural ==
  ASSUME NEW S, S \subseteq Nat, S # {}
  PROVE  \E m \in S : \A k \in S : m <= k
<1>1. PICK m \in S : \A k \in S : <<k, m>> \notin OpToRel(<, Nat)
  BY WFMin, NatLessThanWellFounded, Zenon
<1>2. m \in Nat /\ \A k \in S : k \in Nat
  OBVIOUS
<1>3. \A k \in S : ~(k < m)
  BY <1>1, <1>2, Zenon DEF OpToRel
<1> QED BY <1>2, <1>3

\* A set that has 0 and the successor of each of its numbers has all of them.
LEMMA UpTo ==
  ASSUME NEW N \in Nat, NEW P, 0 \in P,
         \A n \in 1..N : n - 1 \in P => n \in P
  PROVE  0..N \subseteq P
<1> DEFINE bad == {n \in 0..N : n \notin P}
<1>1. ASSUME bad # {} PROVE FALSE
  <2>1. bad \subseteq Nat
    OBVIOUS
  <2>2. PICK m \in bad : \A k \in bad : m <= k
    <3> HIDE DEF bad
    <3> QED BY <1>1, <2>1, LeastNatural
  <2>3. m \in 1..N /\ m - 1 \in 0..N /\ ~(m <= m - 1)
    BY <2>2
  <2> QED BY <2>2, <2>3
<1> QED BY <1>1

\* f takes N steps from base.
Iterates(f, N, S, base, step) ==
  /\ f \in [0..N -> S]
  /\ f[0] = base /\ \A n \in 1..N : f[n] = step[<<n, f[n - 1]>>]

\* Every step has its iterations: what makes recursive functions be there.
LEMMA Iteration ==
  ASSUME NEW N \in Nat, NEW S, NEW base \in S, NEW step \in [(1..N) \X S -> S]
  PROVE  \E f : Iterates(f, N, S, base, step)
<1> DEFINE Iter(k, f) == f[0] = base /\ \A n \in 1..k : f[n] = step[<<n, f[n - 1]>>]
           P == {k \in 0..N : \E f \in [0..k -> S] : Iter(k, f)}
<1>1. 0 \in P
  <2> DEFINE f == [n \in 0..0 |-> base]
  <2>1. f \in [0..0 -> S] /\ f[0] = base
    OBVIOUS
  <2> HIDE DEF f
  <2> QED BY <2>1
<1>2. ASSUME NEW k \in 1..N, k - 1 \in P PROVE k \in P
  <2>1. PICK f \in [0..(k - 1) -> S] : Iter(k - 1, f)
    BY <1>2
  <2> DEFINE g == [n \in 0..k |-> IF n = k THEN step[<<k, f[k - 1]>>] ELSE f[n]]
  <2>2. k - 1 \in 0..(k - 1) /\ k \in 0..N /\ k \in Nat
    OBVIOUS
  <2>3. step[<<k, f[k - 1]>>] \in S
    BY <2>1, <2>2
  <2>4. g \in [0..k -> S]
    <3>1. \A n \in 0..k : n # k => n \in 0..(k - 1)
      BY <2>2
    <3>2. \A n \in 0..(k - 1) : f[n] \in S
      BY <2>1
    <3>3. \A n \in 0..k : (IF n = k THEN step[<<k, f[k - 1]>>] ELSE f[n]) \in S
      BY <2>3, <3>1, <3>2
    <3> QED BY <3>3, Zenon
  <2>5. g[0] = base
    BY <2>1
  <2>6. ASSUME NEW n \in 1..k PROVE g[n] = step[<<n, g[n - 1]>>]
    <3>1. n - 1 \in 0..k /\ n - 1 # k /\ n \in 0..k
      OBVIOUS
    <3>2. g[n - 1] = f[n - 1] /\ g[n] = IF n = k THEN step[<<k, f[k - 1]>>] ELSE f[n]
      BY <3>1
    <3> HIDE DEF g
    <3>3. n = k \/ n \in 1..(k - 1)
      OBVIOUS
    <3> QED BY <2>1, <3>2, <3>3
  <2>7. Iter(k, g)
    BY <2>5, <2>6
  <2> HIDE DEF g
  <2> QED BY <2>2, <2>4, <2>7
<1>3. N \in P
  <2> HIDE DEF P
  <2> QED BY <1>1, <1>2, UpTo
<1> QED BY <1>3 DEF Iterates

-----------------------------------------------------------------------------
(* What a search keeps. *)

\* Only keeps elements of the set, and misses none altogether.
LEMMA OnlyThose ==
  ASSUME NEW X, NEW s \in Seq(X), NEW S
  PROVE  /\ Only(s, S) \in Seq({x \in S : \E i \in 1..Len(s) : s[i] = x})
         /\ Only(s, S) = <<>> => \A i \in 1..Len(s) : s[i] \notin S
<1> DEFINE N == Len(s)
           Y == {x \in S : \E i \in 1..Len(s) : s[i] = x}
           Def(f) == f = [n \in 0..N |-> IF n = 0 THEN <<>>
                                         ELSE IF s[n] \in S THEN Append(f[n - 1], s[n])
                                                            ELSE f[n - 1]]
           among == CHOOSE f : Def(f)
<1>1. Only(s, S) = among[N]
  BY DEF Only
<1>2. N \in Nat
  OBVIOUS
<1>3. \E f : Def(f) /\ f \in [0..N -> Seq(Y)]
  <2> DEFINE step == [p \in (1..N) \X Seq(Y) |->
                        IF s[p[1]] \in S THEN Append(p[2], s[p[1]]) ELSE p[2]]
  <2>1. step \in [(1..N) \X Seq(Y) -> Seq(Y)]
    <3>1. ASSUME NEW n \in 1..N, NEW q \in Seq(Y), s[n] \in S
          PROVE  Append(q, s[n]) \in Seq(Y)
      <4>1. s[n] \in Y
        BY <3>1
      <4> QED BY <4>1
    <3> QED BY <3>1
  <2>2. <<>> \in Seq(Y)
    OBVIOUS
  <2>3. \A n \in 1..N, q \in Seq(Y) : 
          step[<<n, q>>] = IF s[n] \in S THEN Append(q, s[n]) ELSE q
    OBVIOUS
  <2> HIDE DEF step, Y, N
  <2> DEFINE Q == Seq(Y)
             base == <<>>
  <2>31. PICK f : Iterates(f, N, Q, base, step)
    <3>1. step \in [(1..N) \X Q -> Q] /\ base \in Q
      BY <2>1, <2>2
    <3> HIDE DEF Q, base
    <3> QED BY <1>2, <3>1, Iteration
  <2>4. /\ f \in [0..N -> Seq(Y)] /\ f[0] = <<>>
        /\ \A n \in 1..N : f[n] = step[<<n, f[n - 1]>>]
    BY <2>31 DEF Iterates
  <2>5. \A n \in 1..N : n - 1 \in 0..N /\ f[n - 1] \in Seq(Y)
    BY <1>2, <2>4
  <2>6. \A n \in 1..N : f[n] = IF s[n] \in S THEN Append(f[n - 1], s[n]) ELSE f[n - 1]
    BY <2>3, <2>4, <2>5
  <2>7. Def(f)
    <3> DEFINE h == [n \in 0..N |-> IF n = 0 THEN <<>>
                                    ELSE IF s[n] \in S THEN Append(f[n - 1], s[n])
                                                       ELSE f[n - 1]]
    <3>1. \A n \in 0..N : n = 0 \/ (n \in 1..N /\ n # 0)
      BY <1>2
    <3>2. \A n \in 0..N : f[n] = h[n]
      BY <2>4, <2>6, <3>1
    <3>3. f = [n \in 0..N |-> f[n]]
      BY <2>4
    <3>5. h = [n \in 0..N |-> h[n]]
      BY Zenon
    <3> HIDE DEF h
    <3>4. f = h
      BY <3>2, <3>3, <3>5
    <3> QED BY <3>4 DEF h
  <2> HIDE DEF Def
  <2> QED BY <2>4, <2>7
<1>4. PICK g : Def(g)
  BY <1>3
<1>5. Def(among)
  <2> HIDE DEF Def
  <2> QED BY <1>4
<1>6. /\ among = [n \in 0..N |-> among[n]]
      /\ among[0] = <<>>
      /\ \A n \in 1..N : among[n] = IF s[n] \in S THEN Append(among[n - 1], s[n])
                                    ELSE among[n - 1]
  <2> DEFINE h == [n \in 0..N |-> IF n = 0 THEN <<>>
                                  ELSE IF s[n] \in S THEN Append(among[n - 1], s[n])
                                                     ELSE among[n - 1]]
  <2>1. among = h
    <3> HIDE DEF among
    <3> QED BY <1>5
  <2>2. h = [n \in 0..N |-> h[n]]
    <3> HIDE DEF among, N
    <3> QED BY Zenon
  <2>3. /\ h[0] = <<>>
        /\ \A n \in 1..N : h[n] = IF s[n] \in S THEN Append(among[n - 1], s[n])
                                    ELSE among[n - 1]
    <3> HIDE DEF among, N
    <3>1. 0 \in 0..N /\ \A n \in 1..N : n # 0 /\ n \in 0..N
      BY <1>2
    <3> QED BY <3>1
  <2> HIDE DEF among, h
  <2> QED BY <2>1, <2>2, <2>3
<1> HIDE DEF among
<1> DEFINE P == {n \in 0..N : /\ among[n] \in Seq(Y)
                             /\ \A i \in 1..n : s[i] \in S => among[n] # <<>>}
<1>7. 0 \in P
  BY <1>2, <1>6
<1>8. ASSUME NEW n \in 1..N, n - 1 \in P PROVE n \in P
  <2>1. /\ n \in 0..N /\ n \in Nat /\ among[n - 1] \in Seq(Y)
        /\ \A i \in 1..n : i = n \/ i \in 1..(n - 1)
        /\ \A i \in 1..(n - 1) : s[i] \in S => among[n - 1] # <<>>
    BY <1>2, <1>8
  <2>2. CASE s[n] \in S
    <3>1. s[n] \in Y /\ among[n] = Append(among[n - 1], s[n])
      BY <1>6, <2>2
    <3>2. among[n] \in Seq(Y) /\ among[n] # <<>>
      <4> DEFINE q == among[n - 1]
                 x == s[n]
      <4>1. q \in Seq(Y) /\ x \in Y /\ among[n] = Append(q, x)
        BY <2>1, <3>1
      <4> HIDE DEF Y, q, x
      <4>2. Append(q, x) \in Seq(Y) /\ Len(Append(q, x)) = Len(q) + 1 /\ Len(q) \in Nat
        BY <4>1
      <4> QED BY <4>1, <4>2
    <3> QED BY <2>1, <3>2
  <2>3. CASE s[n] \notin S
    BY <1>6, <2>1, <2>3
  <2> QED BY <2>2, <2>3
<1>9. N \in P
  <2> HIDE DEF P
  <2> QED BY <1>2, <1>7, <1>8, UpTo
<1> QED BY <1>1, <1>9

\* The sequences of at most one element.
LEMMA NoneOrOne ==
  ASSUME NEW X, NEW s \in Seq(X), Len(s) <= 1
  PROVE  s = <<>> \/ (Len(s) = 1 /\ s[1] \in X /\ s = <<s[1]>>)
<1>1. Len(s) \in Nat /\ (Len(s) = 0 => s = <<>>)
  OBVIOUS
<1>2. CASE Len(s) = 1
  <2>1. s[1] \in X
    BY <1>2
  <2>2. Len(<<s[1]>>) = 1 /\ <<s[1]>> \in Seq(X) /\ <<s[1]>>[1] = s[1]
    BY <2>1
  <2> DEFINE t == <<s[1]>>
  <2>3. t \in Seq(X) /\ Len(t) = Len(s) /\ \A i \in 1..Len(s) : s[i] = t[i]
    BY <1>2, <2>2
  <2> HIDE DEF t
  <2>4. s = t
    BY <2>3, SeqEqual
  <2> QED BY <1>2, <2>1, <2>4 DEF t
<1>3. Len(s) = 0 \/ Len(s) = 1
  BY <1>1
<1>4. CASE Len(s) = 0
  BY <1>1, <1>4
<1> QED BY <1>2, <1>3, <1>4

-----------------------------------------------------------------------------
(* What a scan leaves above the first list. *)

USE DEF Tabs

Screen == AnyLock \cup {Reader, AddLock}
Alone == {s \in Seq(Screen) : Len(s) <= 1}

\* AllLocks has the locks of both arrays.
LEMMA EveryLock ==
  ASSUME caches \in Arrays
  PROVE  /\ AllLocks \in Seq(AnyLock)
         /\ \A k \in {"owner", "other"} : \A i \in DOMAIN caches[k] :
              \E j \in DOMAIN AllLocks : AllLocks[j] = caches[k][i]
<1> DEFINE a == caches.owner
           b == caches.other
<1>1. a \in Seq(AnyLock) /\ b \in Seq(AnyLock)
  BY DEF Arrays
<1>2. AllLocks = a \o b
  BY DEF AllLocks
<1> HIDE DEF a, b
<1>3. /\ a \o b \in Seq(AnyLock) /\ Len(a \o b) = Len(a) + Len(b)
      /\ Len(a) \in Nat /\ Len(b) \in Nat
      /\ \A i \in 1..Len(a) : (a \o b)[i] = a[i]
      /\ \A i \in 1..Len(b) : (a \o b)[Len(a) + i] = b[i]
      /\ DOMAIN a = 1..Len(a) /\ DOMAIN b = 1..Len(b)
      /\ DOMAIN (a \o b) = 1..Len(a \o b)
  BY <1>1
<1>4. ASSUME NEW i \in DOMAIN a PROVE \E j \in DOMAIN AllLocks : AllLocks[j] = a[i]
  BY <1>2, <1>3
<1>5. ASSUME NEW i \in DOMAIN b PROVE \E j \in DOMAIN AllLocks : AllLocks[j] = b[i]
  <2>1. Len(a) + i \in DOMAIN (a \o b)
    BY <1>3
  <2> QED BY <1>2, <1>3, <2>1
<1>6. AllLocks \in Seq(AnyLock)
  BY <1>2, <1>3
<1>7. ASSUME NEW k \in {"owner", "other"}, NEW i \in DOMAIN caches[k]
      PROVE  \E j \in DOMAIN AllLocks : AllLocks[j] = caches[k][i]
  <2>1. CASE k = "owner"
    BY <1>4, <2>1, Zenon DEF a
  <2>2. CASE k = "other"
    BY <1>5, <2>2, Zenon DEF b
  <2> QED BY <2>1, <2>2
<1> QED BY <1>6, <1>7

\* There is a last lock with a code if there is one.
LEMMA LastWith ==
  ASSUME caches \in Arrays, NEW code, With(code) # {}
  PROVE  Max(With(code)) \in With(code)
<1> DEFINE W == With(code)
           N == Len(AllLocks)
           D == {N - i : i \in W}
<1>1. W \subseteq 1..N /\ N \in Nat
  BY EveryLock DEF With
<1>2. \A i \in W : i \in Nat /\ N - i \in Nat
  <2> HIDE DEF W, N
  <2> QED BY <1>1
<1>3. D \subseteq Nat /\ D # {}
  <2>1. W # {}
    OBVIOUS
  <2> HIDE DEF W, N
  <2> QED BY <1>2, <2>1
<1>4. PICK d \in D : \A e \in D : d <= e
  <2> HIDE DEF D
  <2> QED BY <1>3, LeastNatural
<1>5. PICK i \in W : d = N - i
  BY <1>4
<1>6. \A j \in W : i >= j
  <2> HIDE DEF W, N
  <2>1. \A j \in W : N - i <= N - j
    BY <1>4, <1>5
  <2> QED BY <1>1, <1>2, <2>1
<1> HIDE DEF W
<1>7. Max(W) \in W
  BY <1>6 DEF Max
<1> QED BY <1>7 DEF W

\* With at most one screen above it, one is left, and it depends on the code.
LEMMA ScanAlone ==
  ASSUME caches \in Arrays, NEW s \in Alone, NEW code
  PROVE  /\ Scan(s, code) = IF With(code) = {} THEN <<>>
                            ELSE <<AllLocks[Max(With(code))]>>
         /\ Scan(s, code) \in Alone
<1> DEFINE popped == IF s = <<>> THEN s ELSE Front(s)
           lock == AllLocks[Max(With(code))]
<1>1. popped = <<>>
  <2>1. CASE s # <<>>
    <3>1. Len(s) = 1
      BY <2>1, NoneOrOne DEF Alone
    <3>2. Front(s) = SubSeq(s, 1, 0)
      BY <3>1 DEF Front
    <3>3. SubSeq(s, 1, 0) = <<>>
      BY SubSeqEmpty
    <3> QED BY <2>1, <3>2, <3>3
  <2> QED BY <2>1
<1>2. With(code) # {} => lock \in Screen
  <2>1. \A i \in With(code) : i \in DOMAIN AllLocks
    BY DEF With
  <2>2. \A i \in DOMAIN AllLocks : AllLocks[i] \in AnyLock
    BY EveryLock
  <2> QED BY LastWith, <2>1, <2>2 DEF Screen
<1>3. Scan(s, code) = IF With(code) = {} THEN popped ELSE Append(popped, lock)
  BY DEF Scan
<1> HIDE DEF lock, popped
<1>4. Append(<<>>, lock) = <<lock>>
  OBVIOUS
<1>5. <<>> \in Alone
  BY DEF Alone
<1>6. lock \in Screen => <<lock>> \in Alone
  BY DEF Alone
<1> QED BY <1>1, <1>2, <1>3, <1>4, <1>5, <1>6 DEF lock

\* The last code decides.
LEMMA ScansAlone ==
  ASSUME caches \in Arrays, NEW s \in Alone, NEW X, NEW codes \in Seq(X), codes # <<>>
  PROVE  Scans(s, codes) \in Alone /\ Scans(s, codes) = Scan(<<>>, Last(codes))
<1> DEFINE N == Len(codes)
           Def(f) == f = [n \in 0..N |-> IF n = 0 THEN s
                                         ELSE Scan(f[n - 1], codes[n])]
           after == CHOOSE f : Def(f)
<1>1. Scans(s, codes) = after[N]
  BY DEF Scans
<1>2. N \in Nat /\ N \in 1..N /\ <<>> \in Alone
  BY EmptySeq DEF Alone
<1>3. PICK f : Def(f) /\ f \in [0..N -> Alone]
  <2> DEFINE step == [p \in (1..N) \X Alone |-> Scan(p[2], codes[p[1]])]
  <2>1. \A n \in 1..N, q \in Alone : Scan(q, codes[n]) \in Alone
    BY ScanAlone
  <2>2. step \in [(1..N) \X Alone -> Alone]
    BY <2>1
  <2>3. \A n \in 1..N, q \in Alone : step[<<n, q>>] = Scan(q, codes[n])
    OBVIOUS
  <2> HIDE DEF step, N
  <2>4. PICK f : Iterates(f, N, Alone, s, step)
    BY <1>2, <2>2, Iteration
  <2>5. /\ f \in [0..N -> Alone] /\ f[0] = s
        /\ \A n \in 1..N : f[n] = step[<<n, f[n - 1]>>]
    BY <2>4 DEF Iterates
  <2>6. \A n \in 1..N : n - 1 \in 0..N /\ f[n - 1] \in Alone
    BY <1>2, <2>5
  <2>7. \A n \in 1..N : f[n] = Scan(f[n - 1], codes[n])
    BY <2>3, <2>5, <2>6
  <2>8. Def(f)
    <3> DEFINE h == [n \in 0..N |-> IF n = 0 THEN s ELSE Scan(f[n - 1], codes[n])]
    <3>1. \A n \in 0..N : n = 0 \/ (n \in 1..N /\ n # 0)
      BY <1>2
    <3>2. \A n \in 0..N : f[n] = h[n]
      BY <2>5, <2>7, <3>1
    <3>3. f = [n \in 0..N |-> f[n]]
      BY <2>5
    <3>4. h = [n \in 0..N |-> h[n]]
      BY Zenon
    <3> HIDE DEF h
    <3>5. f = h
      BY <3>2, <3>3, <3>4
    <3> QED BY <3>5 DEF h
  <2> HIDE DEF Def
  <2> QED BY <2>5, <2>8
<1>4. Def(after)
  <2> HIDE DEF Def
  <2> QED BY <1>3
<1>5. ASSUME NEW n \in 1..N, n - 1 \in 0..N /\ after[n - 1] \in Alone
      PROVE  after[n] \in Alone /\ after[n] = Scan(after[n - 1], codes[n])
  <2> DEFINE h == [m \in 0..N |-> IF m = 0 THEN s ELSE Scan(after[m - 1], codes[m])]
  <2>1. after = h
    <3> HIDE DEF after
    <3> QED BY <1>4
  <2>2. n \in 0..N /\ n # 0
    OBVIOUS
  <2>3. h[n] = Scan(after[n - 1], codes[n])
    <3> HIDE DEF after, N
    <3> QED BY <2>2
  <2> HIDE DEF after, h
  <2> QED BY <1>5, <2>1, <2>3, ScanAlone
<1>6. after[0] = s
  <2> DEFINE h == [m \in 0..N |-> IF m = 0 THEN s ELSE Scan(after[m - 1], codes[m])]
  <2>1. after = h
    <3> HIDE DEF after
    <3> QED BY <1>4
  <2>2. h[0] = s
    <3> HIDE DEF after, N
    <3> QED BY <1>2
  <2> HIDE DEF after, h
  <2> QED BY <2>1, <2>2
<1> HIDE DEF after, Def
<1> DEFINE P == {n \in 0..N : after[n] \in Alone}
<1>7. 0..N \subseteq P
  <2>1. 0 \in P
    BY <1>2, <1>6
  <2>2. ASSUME NEW n \in 1..N, n - 1 \in P PROVE n \in P
    BY <1>5, <2>2
  <2> HIDE DEF P, N
  <2> QED BY <1>2, <2>1, <2>2, UpTo
<1>8. N - 1 \in 0..N /\ after[N - 1] \in Alone
  <2> HIDE DEF N
  <2> QED BY <1>2, <1>7
<1>9. after[N] \in Alone /\ after[N] = Scan(after[N - 1], codes[N])
  <2> HIDE DEF N
  <2> QED BY <1>2, <1>5, <1>8
<1>10. Scan(after[N - 1], codes[N]) = Scan(<<>>, codes[N])
  <2> HIDE DEF N
  <2> QED BY <1>2, <1>8, ScanAlone
<1> QED BY <1>1, <1>9, <1>10 DEF Last

-----------------------------------------------------------------------------
(* Types. *)

\* Caches and what is shown.
ShownTyped ==
  /\ caches \in Arrays /\ posts \in 0..MaxPosts
  /\ shown \in Tabs \cup {"login", "dead"} /\ appearing \in BOOLEAN

\* The lists; drawn cells are those of the arrays.
CellsDrawn ==
  \A t \in Tabs : laid[t] => shown # "login" /\ cells[t] = Drawn(t, arrays[t])

ListsTyped ==
  /\ arrays \in [Tabs -> Arrays] /\ text \in Texts
  /\ laid \in [Tabs -> BOOLEAN]
  /\ cells = [t \in Tabs |-> cells[t]]
  /\ \A t \in Tabs : \A r \in DOMAIN cells[t] : cells[t][r] \in Cell

\* What the server pushes has the caches' type.
LEMMA ListOfLocks ==
  ASSUME NEW list \in Lists
  PROVE  list \in Arrays
<1>1. list \in [owner : Seq(Locks), other : Seq(Locks)]
  BY LockDirectoryAssumption DEF LockDirectoryAssumption
<1>2. list.owner \in Seq(Locks) /\ list.other \in Seq(Locks)
      /\ list = [owner |-> list.owner, other |-> list.other]
  BY <1>1
<1>3. \A s \in Seq(Locks) : s \in Seq(AnyLock)
  BY DEF AnyLock
<1> QED BY <1>2, <1>3 DEF Arrays

LEMMA ShownStep == ShownTyped /\ [Next]_vars => ShownTyped'
<1> SUFFICES ASSUME ShownTyped, [Next]_vars PROVE ShownTyped'
  OBVIOUS
<1>0. MaxPosts \in Nat
  BY LockDirectoryAssumption DEF LockDirectoryAssumption
<1>1. caches' \in Arrays
  <2>1. caches' = caches \/ \E list \in Lists : caches' = list
    BY DEF Next, Server, User, RunLoop, Camera, vars, onGetLocks, doSearch, onClickLock,
           Back, SelectTab, onClickOpenDoor, onClickAddnew, ManagementAnswered,
           setLoginviewAsRootView, setAppviewAsRootView, onLockCallback, viewDidAppear,
           captureOutput, Layout, Capture
  <2> QED BY <2>1, ListOfLocks DEF ShownTyped
<1>2. posts' \in 0..MaxPosts
  <2>1. \/ posts' = posts
        \/ posts < MaxPosts /\ posts' = posts + 1
        \/ posts > 0 /\ posts' = posts - 1
    BY DEF Next, Server, User, RunLoop, Camera, vars, onGetLocks, doSearch, onClickLock,
           Back, SelectTab, onClickOpenDoor, onClickAddnew, ManagementAnswered,
           setLoginviewAsRootView, setAppviewAsRootView, onLockCallback, viewDidAppear,
           captureOutput, Layout, Capture
  <2> QED BY <1>0, <2>1 DEF ShownTyped
<1>3. shown' \in Tabs \cup {"login", "dead"}
  <2>1. shown' = shown \/ shown' \in Tabs \cup {"login", "dead"}
    BY DEF Next, Server, User, RunLoop, Camera, vars, onGetLocks, doSearch, onClickLock,
           Back, SelectTab, onClickOpenDoor, onClickAddnew, ManagementAnswered,
           setLoginviewAsRootView, setAppviewAsRootView, onLockCallback, viewDidAppear,
           captureOutput, Layout, Capture
  <2> QED BY <2>1 DEF ShownTyped
<1>4. appearing' \in BOOLEAN
  <2>1. \/ appearing' = appearing \/ appearing' = FALSE \/ appearing' = TRUE
        \/ \E t \in Tabs : appearing' = (above'[t] = <<>>) \/ appearing' = (above[t] = <<>>)
        \/ captureOutput \/ appearing' = (appearing \/ shown = "manage")
    BY DEF Next, Server, User, RunLoop, Camera, vars, onGetLocks, doSearch, onClickLock,
           Back, SelectTab, onClickOpenDoor, onClickAddnew, ManagementAnswered,
           setLoginviewAsRootView, setAppviewAsRootView, onLockCallback, viewDidAppear,
           captureOutput, Layout, Capture
  <2>2. CASE captureOutput
    <3>1. \/ appearing' = appearing
          \/ appearing' = (above'["open"] = <<>> /\ (appearing \/ above["open"] # <<>>))
      BY <2>2 DEF captureOutput
    <3>2. appearing \in BOOLEAN
      BY DEF ShownTyped
    <3> QED BY <3>1, <3>2, Zenon
  <2>3. appearing \in BOOLEAN
    BY DEF ShownTyped
  <2> QED BY <2>1, <2>2, <2>3, Zenon
<1> QED BY <1>1, <1>2, <1>3, <1>4 DEF ShownTyped

\* So has what a search finds.
LEMMA FoundTyped ==
  ASSUME NEW a \in Arrays, NEW txt
  PROVE  Found(a, txt) \in Arrays
<1> DEFINE o == Only(a["owner"], Matching[txt])
           p == Only(a["other"], Matching[txt])
<1>1. a["owner"] \in Seq(AnyLock) /\ a["other"] \in Seq(AnyLock)
  BY DEF Arrays
<1>2. o \in Seq(AnyLock) /\ p \in Seq(AnyLock)
  <2>1. ASSUME NEW s \in Seq(AnyLock), NEW S PROVE Only(s, S) \in Seq(AnyLock)
    <3>1. \A i \in 1..Len(s) : s[i] \in AnyLock
      OBVIOUS
    <3>2. {x \in S : \E i \in 1..Len(s) : s[i] = x} \subseteq AnyLock
      BY <3>1
    <3>3. Only(s, S) \in Seq({x \in S : \E i \in 1..Len(s) : s[i] = x})
      BY OnlyThose
    <3> HIDE DEF Only
    <3> QED BY <3>2, <3>3, SeqMonotonic
  <2> QED BY <1>1, <2>1
<1>3. Found(a, txt) = [k \in {"owner", "other"} |-> IF k = "owner" THEN o ELSE p]
  BY DEF Found
<1> HIDE DEF o, p
<1>4. [k \in {"owner", "other"} |-> IF k = "owner" THEN o ELSE p] =
        [owner |-> o, other |-> p]
  OBVIOUS
<1> QED BY <1>2, <1>3, <1>4 DEF Arrays

\* A drawn cell's index is that of the lock it shows.
LEMMA DrawnTyped ==
  ASSUME NEW t \in Tabs, NEW a \in Arrays
  PROVE  \A r \in DOMAIN Drawn(t, a) :
           /\ Drawn(t, a)[r] \in Cell
           /\ Drawn(t, a)[r].index \in DOMAIN a[Drawn(t, a)[r].kind]
           /\ a[Drawn(t, a)[r].kind][Drawn(t, a)[r].index] = Drawn(t, a)[r].lock
<1> DEFINE m == Len(a.owner)
           n == Len(a.other)
<1>1. /\ a.owner \in Seq(AnyLock) /\ a.other \in Seq(AnyLock)
      /\ DOMAIN a.owner = 1..m /\ DOMAIN a.other = 1..n /\ m \in Nat /\ n \in Nat
      /\ \A r \in 1..m : a.owner[r] \in AnyLock
      /\ \A r \in 1..n : a.other[r] \in AnyLock
  BY DEF Arrays
<1> DEFINE Right(c) == c \in Cell /\ c.index \in DOMAIN a[c.kind]
                       /\ a[c.kind][c.index] = c.lock
<1>2. ASSUME NEW r \in 1..m
      PROVE  Right([kind |-> "owner", index |-> r, lock |-> a.owner[r]])
  BY <1>1 DEF Cell
<1>3. ASSUME NEW r \in 1..n
      PROVE  Right([kind |-> "other", index |-> r, lock |-> a.other[r]])
  BY <1>1 DEF Cell
<1>4. ASSUME NEW r \in 1..(m + n) PROVE Right(OpenCell(a, r))
  <2>1. r \in 1..m \/ (r - m \in 1..n /\ ~(r <= m))
    <3>1. m \in Nat /\ n \in Nat
      BY <1>1
    <3> HIDE DEF m, n
    <3> QED BY <3>1
  <2>2. CASE r \in 1..m
    <3>1. OpenCell(a, r) = [kind |-> "owner", index |-> r, lock |-> a.owner[r]]
      BY <2>2, <1>1 DEF OpenCell
    <3> HIDE DEF Right
    <3> QED BY <3>1, <1>2, <2>2
  <2>3. CASE r - m \in 1..n /\ ~(r <= m)
    <3>1. OpenCell(a, r) = [kind |-> "other", index |-> r - m, lock |-> a.other[r - m]]
      BY <2>3 DEF OpenCell
    <3> HIDE DEF Right
    <3> QED BY <3>1, <1>3, <2>3
  <2> QED BY <2>1, <2>2, <2>3
<1>5. ASSUME NEW r \in DOMAIN Drawn(t, a) PROVE Right(Drawn(t, a)[r])
  <2>1. CASE t = "open"
    <3>1. r \in 1..(m + n) /\ Drawn(t, a)[r] = OpenCell(a, r)
      BY <2>1 DEF Drawn
    <3> HIDE DEF Right
    <3> QED BY <3>1, <1>4
  <2>2. CASE t # "open"
    <3>1. r \in 1..m
          /\ Drawn(t, a)[r] = [kind |-> "owner", index |-> r, lock |-> a.owner[r]]
      BY <2>2 DEF Drawn, ManageCell
    <3> HIDE DEF Right
    <3> QED BY <3>1, <1>2
  <2> QED BY <2>1, <2>2
<1> QED BY <1>5

-----------------------------------------------------------------------------
(* The lists. *)

ListsRight == ListsTyped /\ CellsDrawn

\* A reload draws nothing yet.
LEMMA ReloadStep ==
  ASSUME ListsRight, NEW t \in Tabs, NEW a \in Arrays, Reload(t, a),
         text' \in Texts, shown' = shown
  PROVE  ListsRight'
<1>1. /\ arrays' = [arrays EXCEPT ![t] = a] /\ laid' = [laid EXCEPT ![t] = FALSE]
      /\ cells' = cells
  BY DEF Reload
<1>2. arrays' \in [Tabs -> Arrays] /\ laid' \in [Tabs -> BOOLEAN]
  BY <1>1 DEF ListsRight, ListsTyped
<1>3. \A u \in Tabs : laid'[u] => u # t /\ laid[u] /\ arrays'[u] = arrays[u]
  BY <1>1 DEF ListsRight, ListsTyped
<1>4. CellsDrawn'
  BY <1>1, <1>3 DEF CellsDrawn, ListsRight
<1>5. ListsTyped'
  BY <1>1, <1>2 DEF ListsTyped, ListsRight
<1> QED BY <1>4, <1>5 DEF ListsRight

LEMMA LayoutStep ==
  ASSUME ListsRight, NEW t \in Tabs, Layout(t)
  PROVE  ListsRight'
<1>1. /\ cells' = [cells EXCEPT ![t] = Drawn(t, arrays[t])]
      /\ laid' = [laid EXCEPT ![t] = TRUE]
      /\ arrays' = arrays /\ text' = text /\ shown' = shown /\ shown # "login"
  BY DEF Layout, OnList
<1>2. cells = [u \in Tabs |-> cells[u]] /\ laid \in [Tabs -> BOOLEAN]
      /\ arrays[t] \in Arrays
  BY DEF ListsRight, ListsTyped
<1>3. /\ cells' = [u \in Tabs |-> cells'[u]] /\ laid' \in [Tabs -> BOOLEAN]
      /\ cells'[t] = Drawn(t, arrays[t])
      /\ \A u \in Tabs : u # t => cells'[u] = cells[u] /\ laid'[u] = laid[u]
  BY <1>1, <1>2
<1>4. \A u \in Tabs : \A r \in DOMAIN cells'[u] : cells'[u][r] \in Cell
  <2>1. \A r \in DOMAIN cells'[t] : cells'[t][r] \in Cell
    <3> HIDE DEF Tabs
    <3> QED BY <1>2, <1>3, DrawnTyped
  <2> QED BY <1>3, <2>1 DEF ListsRight, ListsTyped
<1>5. CellsDrawn'
  <2> SUFFICES ASSUME NEW u \in Tabs, laid'[u]
               PROVE  shown' # "login" /\ cells'[u] = Drawn(u, arrays'[u])
    BY DEF CellsDrawn
  <2>1. CASE u = t
    BY <1>1, <1>3, <2>1
  <2>2. CASE u # t
    BY <1>1, <1>3, <2>2 DEF CellsDrawn, ListsRight
  <2> QED BY <2>1, <2>2
<1>6. ListsTyped'
  BY <1>1, <1>3, <1>4 DEF ListsTyped, ListsRight
<1> QED BY <1>5, <1>6 DEF ListsRight

\* Logging out draws nothing, logging in makes the lists anew.
LEMMA RootLists ==
  ASSUME ListsRight, ShownTyped, setLoginviewAsRootView \/ setAppviewAsRootView
  PROVE  ListsRight'
<1>1. CASE setLoginviewAsRootView
  <2>1. /\ arrays' = arrays /\ text' = NoText
        /\ cells' = [t \in Tabs |-> <<>>] /\ laid' = [t \in Tabs |-> FALSE]
    BY <1>1 DEF setLoginviewAsRootView
  <2>2. NoText \in Texts
    BY LockDirectoryAssumption DEF LockDirectoryAssumption
  <2>3. /\ cells' = [t \in Tabs |-> cells'[t]] /\ laid' \in [Tabs -> BOOLEAN]
        /\ \A t \in Tabs : cells'[t] = <<>> /\ ~laid'[t]
    BY <2>1
  <2> QED BY <2>1, <2>2, <2>3 DEF ListsRight, ListsTyped, CellsDrawn
<1>2. CASE setAppviewAsRootView
  <2>1. /\ arrays' = [open |-> caches, manage |-> NoLocks]
        /\ text' = text /\ cells' = cells /\ laid' = laid /\ shown = "login"
    BY <1>2 DEF setAppviewAsRootView
  <2>2. NoLocks \in Arrays
    BY DEF NoLocks, Arrays, AnyLock
  <2>3. arrays' \in [Tabs -> Arrays]
    BY <2>1, <2>2 DEF ShownTyped
  <2>4. \A t \in Tabs : ~laid'[t]
    BY <2>1 DEF ListsRight, CellsDrawn
  <2> QED BY <2>1, <2>3, <2>4 DEF ListsRight, ListsTyped, CellsDrawn
<1> QED BY <1>1, <1>2

LEMMA ListsStep == ShownTyped /\ ListsRight /\ [Next]_vars => ListsRight'
<1> SUFFICES ASSUME ShownTyped, ListsRight, [Next]_vars PROVE ListsRight'
  OBVIOUS
<1>0. caches \in Arrays
  BY DEF ShownTyped
<1>1. ASSUME arrays' = arrays, text' = text, cells' = cells, laid' = laid,
             shown' = shown \/ (shown # "login" /\ shown' # "login")
      PROVE  ListsRight'
  BY <1>1 DEF ListsRight, ListsTyped, CellsDrawn
<1>2. ASSUME NEW t \in Tabs, NEW txt \in Texts, doSearch(t, txt) PROVE ListsRight'
  <2>1. Reload(t, Found(caches, txt)) /\ shown' = shown
    BY <1>2 DEF doSearch
  <2>2. text' \in Texts
    BY <1>2 DEF doSearch, ListsRight, ListsTyped
  <2> QED BY <1>0, <2>1, <2>2, FoundTyped, ReloadStep
<1>3. CASE onLockCallback
  <2>1. CASE shown = "login"
    BY <1>1, <1>3, <2>1 DEF onLockCallback, lists
  <2>2. CASE shown # "login"
    <3>1. Reload("open", caches) /\ text' = text /\ shown' = shown
      BY <1>3, <2>2 DEF onLockCallback
    <3>2. text' \in Texts /\ "open" \in Tabs
      BY <3>1 DEF ListsRight, ListsTyped
    <3> QED BY <1>0, <3>1, <3>2, ReloadStep
  <2> QED BY <2>1, <2>2
<1>4. CASE viewDidAppear
  <2>1. shown \in Tabs /\ Reload(shown, caches) /\ text' = text /\ shown' = shown
    BY <1>4 DEF viewDidAppear
  <2>2. text' \in Texts
    BY <2>1 DEF ListsRight, ListsTyped
  <2> QED BY <1>0, <2>1, <2>2, ReloadStep
<1>5. ASSUME \/ \E list \in Lists : onGetLocks(list)
             \/ \E t \in Tabs : \/ \E r \in DOMAIN cells[t] : onClickLock(t, r)
                               \/ Back(t) \/ SelectTab(t)
             \/ onClickOpenDoor \/ onClickAddnew \/ ManagementAnswered
             \/ captureOutput \/ \E codes \in Frames : Capture(codes)
      PROVE  ListsRight'
  <2>1. arrays' = arrays /\ text' = text /\ cells' = cells /\ laid' = laid
    BY <1>5 DEF onGetLocks, onClickLock, Back, SelectTab, onClickOpenDoor,
                onClickAddnew, ManagementAnswered, captureOutput, Capture, lists
  <2>2. shown' = shown \/ (shown # "login" /\ shown' # "login")
    BY <1>5 DEF onGetLocks, onClickLock, Back, SelectTab, onClickOpenDoor, OnList,
                onClickAddnew, ManagementAnswered, captureOutput, Capture
  <2> QED BY <1>1, <2>1, <2>2
<1>6. CASE UNCHANGED vars
  BY <1>1, <1>6 DEF vars, lists
<1> QED
  BY <1>2, <1>3, <1>4, <1>5, <1>6, LayoutStep, RootLists
  DEF Next, Server, User, RunLoop, Camera

-----------------------------------------------------------------------------
(* The screens above the lists, and the frames for them. *)

Stacks ==
  /\ above = [t \in Tabs |-> above[t]]
  /\ \A t \in Tabs : above[t] \in Alone

ScreensRight == Stacks /\ frames \in Seq(Frames)

\* A frame has codes.
LEMMA FrameCodes == ASSUME NEW f \in Frames PROVE f \in Seq(Codes) /\ f # <<>>
  BY LockDirectoryAssumption DEF LockDirectoryAssumption

-----------------------------------------------------------------------------
(* The steps that move the screens. *)

\* Screens are put above one list only.
LEMMA PutStep ==
  ASSUME Stacks, NEW t \in Tabs, NEW s, Put(t, s)
  PROVE  /\ above' = [u \in Tabs |-> above'[u]]
         /\ above'[t] = s
         /\ \A u \in Tabs \ {t} : above'[u] = above[u]
  BY DEF Stacks, Put

LEMMA PutAlone ==
  ASSUME ScreensRight, NEW t \in Tabs, NEW s \in Alone, Put(t, s),
         frames' \in Seq(Frames)
  PROVE  ScreensRight'
<1>1. /\ above' = [u \in Tabs |-> above'[u]] /\ above'[t] = s
      /\ \A u \in Tabs \ {t} : above'[u] = above[u]
  BY PutStep DEF ScreensRight
<1>2. Stacks'
  BY <1>1 DEF Stacks, ScreensRight
<1> QED BY <1>2 DEF ScreensRight

LEMMA SameScreens ==
  ASSUME ScreensRight, above' = above, frames' \in Seq(Frames)
  PROVE  ScreensRight'
  BY DEF ScreensRight, Stacks

\* Stacks of at most one screen, and what a pop leaves of them.
LEMMA OneScreen ==
  /\ <<>> \in Alone
  /\ \A x \in Screen : <<x>> \in Alone
  BY DEF Alone

LEMMA NoneLeft == ASSUME NEW s \in Alone, s # <<>> PROVE Front(s) = <<>>
<1>1. Len(s) = 1
  BY NoneOrOne DEF Alone
<1>2. Front(s) = SubSeq(s, 1, 0)
  BY <1>1 DEF Front
<1>3. SubSeq(s, 1, 0) = <<>>
  BY SubSeqEmpty
<1> QED BY <1>2, <1>3

\* One lemma per operation that moves a screen.
LEMMA ClickScreens ==
  ASSUME ListsRight, ScreensRight, NEW t \in Tabs, NEW r \in DOMAIN cells[t],
         onClickLock(t, r)
  PROVE  ScreensRight'
<1> DEFINE c == cells[t][r]
           lock == arrays[t][c.kind][c.index]
<1>1. frames' = frames /\ frames \in Seq(Frames)
  BY DEF onClickLock, ScreensRight
<1>2. CASE above' = above
  BY <1>1, <1>2, SameScreens
<1>3. CASE above' # above
  <2>1. c.index \in DOMAIN arrays[t][c.kind] /\ Put(t, <<lock>>)
    BY <1>3 DEF onClickLock
  <2>2. c \in Cell /\ arrays[t] \in Arrays
    BY DEF ListsRight, ListsTyped
  <2>3. arrays[t][c.kind] \in Seq(AnyLock)
    BY <2>2 DEF Cell, Arrays
  <2>4. lock \in AnyLock
    BY <2>1, <2>3
  <2>5. <<lock>> \in Alone
    BY <2>4, OneScreen DEF Screen
  <2> HIDE DEF lock
  <2> QED BY <1>1, <2>1, <2>5, PutAlone
<1> QED BY <1>2, <1>3

LEMMA BackScreens ==
  ASSUME ScreensRight, NEW t \in Tabs, Back(t)
  PROVE  ScreensRight'
<1>1. above[t] # <<>> /\ Put(t, Front(above[t])) /\ frames' = frames
  BY DEF Back
<1>2. above[t] \in Alone /\ frames \in Seq(Frames)
  BY DEF ScreensRight, Stacks
<1>3. Front(above[t]) = <<>>
  BY <1>1, <1>2, NoneLeft
<1> QED BY <1>1, <1>2, <1>3, OneScreen, PutAlone

LEMMA OpenScreens ==
  ASSUME ScreensRight, onClickOpenDoor \/ onClickAddnew \/ ManagementAnswered
  PROVE  ScreensRight'
<1>1. frames \in Seq(Frames) /\ <<Reader>> \in Alone /\ <<AddLock>> \in Alone
  BY OneScreen DEF ScreensRight, Screen
<1>2. CASE onClickOpenDoor
  <2>1. Put("open", <<Reader>>) /\ frames' = frames
    BY <1>2 DEF onClickOpenDoor
  <2> QED BY <1>1, <2>1, PutAlone
<1>3. CASE onClickAddnew
  <2>1. Put("manage", <<AddLock>>) /\ frames' = frames
    BY <1>3 DEF onClickAddnew
  <2> QED BY <1>1, <2>1, PutAlone
<1>4. CASE ManagementAnswered
  <2>1. Put("manage", <<>>) /\ frames' = frames
    BY <1>4 DEF ManagementAnswered
  <2> QED BY <1>1, <2>1, OneScreen, PutAlone
<1> QED BY <1>2, <1>3, <1>4

LEMMA CaptureScreens ==
  ASSUME ScreensRight, NEW codes \in Frames, Capture(codes)
  PROVE  ScreensRight'
<1>1. frames' \in Seq(Frames) /\ above' = above
  BY DEF Capture, ScreensRight
<1> QED BY <1>1, SameScreens

LEMMA OutputScreens ==
  ASSUME ShownTyped, ScreensRight, captureOutput
  PROVE  ScreensRight'
<1> DEFINE codes == Head(frames)
           s == Scans(above["open"], codes)
<1>1. frames # <<>> /\ frames \in Seq(Frames) /\ above["open"] \in Alone
  BY DEF captureOutput, ScreensRight, Stacks
<1>2. Tail(frames) \in Seq(Frames) /\ codes \in Frames
  BY <1>1
<1>3. Put("open", s) /\ frames' = Tail(frames)
  BY DEF captureOutput
<1>4. codes \in Seq(Codes) /\ codes # <<>> /\ caches \in Arrays
  BY <1>2, FrameCodes DEF ShownTyped
<1> HIDE DEF codes
<1>5. s \in Alone
  BY <1>1, <1>4, ScansAlone
<1> HIDE DEF s
<1> QED BY <1>2, <1>3, <1>5, PutAlone

LEMMA RootScreens ==
  ASSUME ScreensRight, setLoginviewAsRootView \/ setAppviewAsRootView
  PROVE  ScreensRight'
<1>1. CASE setLoginviewAsRootView
  <2>1. above' = [t \in Tabs |-> <<>>] /\ frames' = <<>>
    BY <1>1 DEF setLoginviewAsRootView
  <2> QED BY <2>1, OneScreen DEF ScreensRight, Stacks
<1>2. CASE setAppviewAsRootView
  BY <1>2, SameScreens DEF setAppviewAsRootView, ScreensRight
<1> QED BY <1>1, <1>2

LEMMA ScreensStep ==
  ShownTyped /\ ListsRight /\ ScreensRight /\ [Next]_vars => ScreensRight'
<1> SUFFICES ASSUME ShownTyped, ListsRight, ScreensRight, [Next]_vars
             PROVE  ScreensRight'
  OBVIOUS
<1>1. ASSUME \/ \E list \in Lists : onGetLocks(list)
             \/ \E t \in Tabs : \/ \E txt \in Texts : doSearch(t, txt)
                               \/ SelectTab(t) \/ Layout(t)
             \/ onLockCallback \/ viewDidAppear \/ UNCHANGED vars
      PROVE  ScreensRight'
  <2>1. above' = above /\ frames' = frames
    BY <1>1 DEF onGetLocks, doSearch, SelectTab, Layout, onLockCallback, viewDidAppear,
                vars
  <2> QED BY <2>1, SameScreens DEF ScreensRight
<1> QED
  BY <1>1, ClickScreens, BackScreens, OpenScreens, CaptureScreens, OutputScreens,
     RootScreens
  DEF Next, Server, User, RunLoop, Camera

-----------------------------------------------------------------------------
(* No push is missed. *)

\* ListFollows speaks of functions on the tabs and of a count of posts.
Shapes ==
  /\ posts \in Nat
  /\ shown \in Tabs \cup {"login", "dead"}
  /\ arrays = [t \in Tabs |-> arrays[t]]

IInv == Shapes /\ ListFollows

LEMMA InitIInv == Init => IInv
  BY DEF Init, IInv, Shapes, ListFollows

\* A reload of a list from the caches leaves the first one right.
LEMMA Reloaded ==
  ASSUME IInv, NEW t \in Tabs, NEW a, Reload(t, a)
  PROVE  /\ arrays' = [u \in Tabs |-> arrays'[u]]
         /\ arrays'["open"] = IF t = "open" THEN a ELSE arrays["open"]
  BY DEF IInv, Shapes, Reload

\* A step of the server.
LEMMA ServerStep ==
  ASSUME IInv, NEW list \in Lists, onGetLocks(list)
  PROVE  IInv'
  BY DEF IInv, Shapes, ListFollows, onGetLocks, lists

LEMMA SearchStep ==
  ASSUME IInv, NEW t \in Tabs, NEW txt \in Texts, doSearch(t, txt)
  PROVE  IInv'
<1> DEFINE found == Found(caches, txt)
<1>1. /\ posts' = posts /\ caches' = caches /\ shown' = shown /\ shown \in Tabs
      /\ text' = IF t = "open" THEN txt ELSE text
      /\ Reload(t, found)
  BY DEF doSearch, OnList
<1>2. /\ arrays' = [u \in Tabs |-> arrays'[u]]
      /\ arrays'["open"] = IF t = "open" THEN found ELSE arrays["open"]
  BY <1>1, Reloaded
<1>3. Shapes'
  BY <1>1, <1>2 DEF IInv, Shapes
<1>4. ListFollows'
  <2>1. CASE t = "open"
    <3>1. arrays'["open"] = Found(caches', text')
      BY <2>1, <1>1, <1>2
    <3> QED BY <3>1 DEF ListFollows
  <2>2. CASE t # "open"
    <3>1. arrays'["open"] = arrays["open"] /\ text' = text
      BY <2>2, <1>1, <1>2
    <3>2. Found(caches', text') = Found(caches, text)
      BY <3>1, <1>1
    <3> QED BY <3>1, <3>2, <1>1 DEF IInv, ListFollows
  <2> QED BY <2>1, <2>2
<1> QED BY <1>3, <1>4 DEF IInv

\* Whoever loads the first list loads what the caches hold.
LEMMA PostStep ==
  ASSUME IInv, onLockCallback
  PROVE  IInv'
<1>1. /\ posts' = posts - 1 /\ posts > 0
      /\ caches' = caches /\ shown' = shown
  BY DEF onLockCallback
<1>2. CASE shown = "login"
  BY <1>1, <1>2 DEF onLockCallback, lists, IInv, Shapes, ListFollows
<1>3. CASE shown # "login"
  <2>1. Reload("open", caches) /\ text' = text
    BY <1>3 DEF onLockCallback
  <2>2. /\ arrays' = [u \in Tabs |-> arrays'[u]]
        /\ arrays'["open"] = caches
    BY <2>1, Reloaded
  <2> QED BY <1>1, <2>1, <2>2 DEF IInv, Shapes, ListFollows
<1> QED BY <1>2, <1>3

LEMMA AppearStep ==
  ASSUME IInv, viewDidAppear
  PROVE  IInv'
<1>1. /\ posts' = posts /\ caches' = caches /\ shown' = shown /\ text' = text
      /\ shown \in Tabs /\ Reload(shown, caches)
  BY DEF viewDidAppear
<1>2. /\ arrays' = [u \in Tabs |-> arrays'[u]]
      /\ arrays'["open"] = IF shown = "open" THEN caches ELSE arrays["open"]
  BY <1>1, Reloaded
<1>3. Found(caches', text') = Found(caches, text)
  BY <1>1
<1> QED BY <1>1, <1>2, <1>3 DEF IInv, Shapes, ListFollows

\* Steps that touch neither caches, posts nor arrays.
LEMMA OtherStep ==
  ASSUME IInv, caches' = caches, posts' = posts, arrays' = arrays, text' = text,
         shown' = shown \/ shown' = "dead" \/ (shown \in Tabs /\ shown' \in Tabs)
  PROVE  IInv'
<1>1. Found(caches', text') = Found(caches, text)
  OBVIOUS
<1> QED BY <1>1 DEF IInv, Shapes, ListFollows

\* Logging out shows no list; logging in makes one from the caches.
LEMMA RootStep ==
  ASSUME IInv, setLoginviewAsRootView \/ setAppviewAsRootView
  PROVE  IInv'
<1>1. CASE setLoginviewAsRootView
  BY <1>1 DEF setLoginviewAsRootView, IInv, Shapes, ListFollows
<1>2. CASE setAppviewAsRootView
  BY <1>2 DEF setAppviewAsRootView, IInv, Shapes, ListFollows
<1> QED BY <1>1, <1>2

LEMMA NextIInv == IInv /\ [Next]_vars => IInv'
<1> SUFFICES ASSUME IInv, [Next]_vars PROVE IInv'
  OBVIOUS
<1>1. CASE Server
  BY <1>1, ServerStep DEF Server
<1>2. CASE User
  <2>1. ASSUME NEW t \in Tabs, NEW txt \in Texts, doSearch(t, txt) PROVE IInv'
    BY <2>1, SearchStep
  <2>2. ASSUME NEW t \in Tabs, NEW r \in DOMAIN cells[t], onClickLock(t, r)
        PROVE  IInv'
    <3>1. /\ caches' = caches /\ posts' = posts /\ arrays' = arrays
          /\ text' = text /\ (shown' = shown \/ shown' = "dead")
      BY <2>2 DEF onClickLock, lists
    <3> QED BY <3>1, OtherStep
  <2>3. ASSUME NEW t \in Tabs, Back(t) PROVE IInv'
    <3>1. /\ caches' = caches /\ posts' = posts /\ arrays' = arrays
          /\ text' = text /\ shown' = shown
      BY <2>3 DEF Back, lists
    <3> QED BY <3>1, OtherStep
  <2>4. ASSUME NEW t \in Tabs, SelectTab(t) PROVE IInv'
    <3>1. /\ caches' = caches /\ posts' = posts /\ arrays' = arrays
          /\ text' = text /\ shown \in Tabs /\ shown' \in Tabs
      BY <2>4 DEF SelectTab, lists
    <3> QED BY <3>1, OtherStep
  <2>5. CASE onClickOpenDoor \/ onClickAddnew
    <3>1. /\ caches' = caches /\ posts' = posts /\ arrays' = arrays
          /\ text' = text /\ shown' = shown
      BY <2>5 DEF onClickOpenDoor, onClickAddnew, lists
    <3> QED BY <3>1, OtherStep
  <2> QED BY <1>2, <2>1, <2>2, <2>3, <2>4, <2>5, RootStep DEF User
<1>3. CASE RunLoop
  <2>1. CASE captureOutput \/ ManagementAnswered
    <3>1. /\ caches' = caches /\ posts' = posts /\ arrays' = arrays
          /\ text' = text /\ shown' = shown
      BY <2>1 DEF captureOutput, ManagementAnswered, lists
    <3> QED BY <3>1, OtherStep
  <2>2. ASSUME NEW t \in Tabs, Layout(t) PROVE IInv'
    <3>1. /\ caches' = caches /\ posts' = posts /\ arrays' = arrays
          /\ text' = text /\ shown' = shown
      BY <2>2 DEF Layout
    <3> QED BY <3>1, OtherStep
  <2> QED BY <1>3, <2>1, <2>2, PostStep, AppearStep DEF RunLoop
<1>4. CASE Camera
  <2>1. ASSUME NEW codes \in Frames, Capture(codes) PROVE IInv'
    <3>1. /\ caches' = caches /\ posts' = posts /\ arrays' = arrays
          /\ text' = text /\ shown' = shown
      BY <2>1 DEF Capture, lists
    <3> QED BY <3>1, OtherStep
  <2> QED BY <1>4, <2>1 DEF Camera
<1>5. CASE UNCHANGED vars
  BY <1>5, OtherStep DEF vars, lists
<1> QED BY <1>1, <1>2, <1>3, <1>4, <1>5 DEF Next

\* DoorOpenViewController shows the caches, or what a search found in them,
\* whenever no post is queued.
THEOREM ListFollowsCorrect == Spec => []ListFollows
<1>1. IInv => ListFollows
  BY DEF IInv
<1> QED BY InitIInv, NextIInv, <1>1, PTL DEF Spec

-----------------------------------------------------------------------------
(* Together. *)

\* The inductive invariant, apart from ListFollows.
Right == ShownTyped /\ ListsRight /\ ScreensRight

LEMMA InitRight == Init => Right
<1> SUFFICES ASSUME Init PROVE Right
  OBVIOUS
<1>1. NoLocks \in Arrays
  BY DEF NoLocks, Arrays, AnyLock
<1>2. NoText \in Texts /\ MaxPosts \in Nat
  BY LockDirectoryAssumption DEF LockDirectoryAssumption
<1>3. ShownTyped
  BY <1>1, <1>2 DEF Init, ShownTyped
<1>4. ListsRight
  <2>1. /\ arrays = [t \in Tabs |-> NoLocks] /\ text = NoText
        /\ cells = [t \in Tabs |-> <<>>] /\ laid = [t \in Tabs |-> FALSE]
    BY DEF Init
  <2>2. \A t \in Tabs : cells[t] = <<>> /\ ~laid[t]
    BY <2>1
  <2>3. cells = [t \in Tabs |-> cells[t]] /\ laid \in [Tabs -> BOOLEAN]
        /\ arrays \in [Tabs -> Arrays]
    BY <1>1, <2>1
  <2> QED BY <1>2, <2>1, <2>2, <2>3 DEF ListsRight, ListsTyped, CellsDrawn
<1>5. ScreensRight
  <2>1. above = [t \in Tabs |-> <<>>] /\ frames = <<>>
    BY DEF Init
  <2> QED BY <2>1, OneScreen DEF ScreensRight, Stacks
<1> QED BY <1>3, <1>4, <1>5 DEF Right

LEMMA RightCorrect == Spec => []Right
<1>1. Right /\ [Next]_vars => Right'
  BY ShownStep, ListsStep, ScreensStep DEF Right
<1> QED BY InitRight, <1>1, PTL DEF Spec

\* The caches, lists, cells, screens and frames keep their types: what the cells
\* of both lists hold, and what scans push and pop.
THEOREM TypeCorrect == Spec => []TypeOK
<1>1. Right => TypeOK
  <2> SUFFICES ASSUME Right PROVE TypeOK
    OBVIOUS
  <2>1. above \in [Tabs -> Seq(AnyLock \cup {Reader, AddLock})]
    <3>1. above = [t \in Tabs |-> above[t]] /\ \A t \in Tabs : above[t] \in Seq(Screen)
      BY DEF Right, ScreensRight, Stacks, Alone
    <3> QED BY <3>1, Zenon DEF Screen
  <2> QED BY <2>1 DEF TypeOK, Right, ShownTyped, ListsRight, ListsTyped, ScreensRight
<1> QED BY RightCorrect, <1>1, PTL

\* popViewController and pushViewController of any number of codes leave at most
\* one screen above DoorOpenViewController, whichever tab is shown when a late
\* frame comes.
THEOREM OneAboveCorrect == Spec => []OneAbove
<1>1. Right => OneAbove
  BY DEF Right, ScreensRight, Stacks, Alone, OneAbove
<1> QED BY RightCorrect, <1>1, PTL

\* The index a drawn button holds still finds the lock its cell shows.
LEMMA TapOpens ==
  ASSUME Right, NEW t \in Tabs, NEW r \in DOMAIN cells[t], onClickLock(t, r), laid[t]
  PROVE  /\ above'[t] = <<cells[t][r].lock>> /\ cells[t][r] \in Cell
         /\ cells[t][r].index \in DOMAIN arrays[t][cells[t][r].kind]
         /\ arrays[t][cells[t][r].kind][cells[t][r].index] = cells[t][r].lock
<1>1. cells[t] = Drawn(t, arrays[t]) /\ arrays[t] \in Arrays
  BY DEF Right, ListsRight, CellsDrawn, ListsTyped
<1> DEFINE c == cells[t][r]
<1>2. /\ c \in Cell /\ c.index \in DOMAIN arrays[t][c.kind]
      /\ arrays[t][c.kind][c.index] = c.lock
  <2> HIDE DEF Tabs
  <2> QED BY <1>1, DrawnTyped
<1>3. Put(t, <<arrays[t][c.kind][c.index]>>)
  BY <1>2 DEF onClickLock
<1> HIDE DEF c
<1>4. above'[t] = <<arrays[t][c.kind][c.index]>>
  <2> DEFINE s == <<arrays[t][c.kind][c.index]>>
  <2>1. Put(t, s) /\ Stacks
    BY <1>3 DEF Right, ScreensRight
  <2> HIDE DEF s
  <2>2. above'[t] = s
    BY <2>1, PutStep
  <2> QED BY <2>2 DEF s
<1>5. above'[t] = <<c.lock>>
  BY <1>2, <1>4
<1> QED BY <1>2, <1>5 DEF c

\* onClickLock opens the lock of the cell that was tapped, by whatever pushes,
\* searches and switches the arrays were replaced since it was drawn, once the
\* list is drawn again.
THEOREM TapOpensTheDrawnCorrect == Spec => TapOpensTheDrawn
<1>1. Right => \A t \in Tabs : \A r \in DOMAIN cells[t] :
        onClickLock(t, r) /\ laid[t] => above'[t] = <<cells[t][r].lock>>
  BY TapOpens
<1> QED BY <1>1, RightCorrect, PTL DEF Spec, TapOpensTheDrawn

\* With no post queued, onClickLock opens a lock of the caches.
THEOREM TapOpensCurrentCorrect == Spec => TapOpensCurrent
<1> DEFINE Current(r) ==
      onClickLock("open", r) /\ laid["open"] /\ posts = 0 =>
        \E k \in {"owner", "other"} : \E i \in DOMAIN caches[k] :
          above'["open"] = <<caches[k][i]>>
<1>1. Right /\ ListFollows => \A r \in DOMAIN cells["open"] : Current(r)
  <2> SUFFICES ASSUME Right, ListFollows, NEW r \in DOMAIN cells["open"],
                      onClickLock("open", r), laid["open"], posts = 0
               PROVE  \E k \in {"owner", "other"} : \E i \in DOMAIN caches[k] :
                        above'["open"] = <<caches[k][i]>>
    OBVIOUS
  <2> DEFINE c == cells["open"][r]
             a == arrays["open"]
  <2>1. /\ above'["open"] = <<c.lock>> /\ c \in Cell
        /\ c.index \in DOMAIN a[c.kind] /\ a[c.kind][c.index] = c.lock
    BY TapOpens
  <2>2. c.kind \in {"owner", "other"}
    BY <2>1 DEF Cell
  <2>3. a = caches \/ a = Found(caches, text)
    BY DEF ListFollows, onClickLock, OnList
  <2> HIDE DEF c, a
  <2>4. CASE a = caches
    BY <2>1, <2>2, <2>4
  <2>5. CASE a = Found(caches, text)
    <3> DEFINE s == caches[c.kind]
               w == Only(s, Matching[text])
    <3>1. s \in Seq(AnyLock)
      BY <2>2 DEF Right, ShownTyped, Arrays
    <3>2. a[c.kind] = w
      BY <2>2, <2>5 DEF Found
    <3> DEFINE Y == {x \in Matching[text] : \E i \in 1..Len(s) : s[i] = x}
    <3>3. w \in Seq(Y)
      BY <3>1, OnlyThose
    <3>4. w[c.index] \in Y
      <4> HIDE DEF w, Y
      <4> QED BY <2>1, <3>2, <3>3
    <3>5. \E i \in 1..Len(s) : s[i] = c.lock
      BY <2>1, <3>2, <3>4
    <3>6. DOMAIN s = 1..Len(s)
      BY <3>1
    <3> QED BY <2>1, <2>2, <3>5, <3>6
  <2> QED BY <2>3, <2>4, <2>5
<1> QED BY <1>1, RightCorrect, ListFollowsCorrect, PTL DEF Spec, TapOpensCurrent

\* A frame shown to DoorOpenViewController's reader that ends with the code of a
\* lock in the caches leaves such a lock open.
THEOREM ScanShowsTheLockCorrect == Spec => ScanShowsTheLock
<1> DEFINE Shows ==
      captureOutput /\ shown = "open" =>
        \A k \in {"owner", "other"} : \A i \in DOMAIN caches[k] :
          caches[k][i] # Blank /\ Device[caches[k][i]] = Last(Head(frames)) =>
            \E l \in Locks : /\ above'["open"] = <<l>>
                             /\ Device[l] = Last(Head(frames))
<1>1. Right => Shows
  <2> SUFFICES ASSUME Right, captureOutput,
                      NEW k \in {"owner", "other"}, NEW i \in DOMAIN caches[k],
                      caches[k][i] # Blank,
                      Device[caches[k][i]] = Last(Head(frames))
               PROVE  \E l \in Locks : /\ above'["open"] = <<l>>
                                       /\ Device[l] = Last(Head(frames))
    OBVIOUS
  <2> DEFINE codes == Head(frames)
             s == Scans(above["open"], codes)
             code == Last(codes)
             lock == AllLocks[Max(With(code))]
  <2>1. caches \in Arrays /\ frames \in Seq(Frames) /\ Stacks /\ above["open"] \in Alone
    BY DEF Right, ShownTyped, ScreensRight, Stacks
  <2>2. codes \in Seq(Codes) /\ codes # <<>>
    <3>1. Head(frames) \in Frames
      BY <2>1 DEF captureOutput
    <3> QED BY <3>1, FrameCodes
  <2>3. s = Scan(<<>>, code)
    <3> HIDE DEF codes
    <3> QED BY <2>1, <2>2, ScansAlone
  <2>4. With(code) # {}
    <3>1. PICK j \in DOMAIN AllLocks : AllLocks[j] = caches[k][i]
      BY <2>1, EveryLock
    <3>2. j \in With(code)
      BY <3>1 DEF With
    <3> QED BY <3>2
  <2>5. s = <<lock>>
    <3> HIDE DEF code, codes
    <3> QED BY <2>1, <2>3, <2>4, OneScreen, ScanAlone
  <2>6. lock \in Locks /\ Device[lock] = code
    <3>1. Max(With(code)) \in With(code)
      <4> HIDE DEF code
      <4> QED BY <2>1, <2>4, LastWith
    <3>2. Max(With(code)) \in DOMAIN AllLocks /\ lock # Blank /\ Device[lock] = code
      BY <3>1 DEF With
    <3>3. lock \in AnyLock
      <4> HIDE DEF code
      <4> QED BY <2>1, <3>2, EveryLock
    <3> QED BY <3>2, <3>3 DEF AnyLock
  <2>7. above'["open"] = s
    <3>1. Put("open", s)
      BY DEF captureOutput
    <3> HIDE DEF s
    <3> QED BY <2>1, <3>1, PutStep
  <2> HIDE DEF lock, s
  <2> QED BY <2>5, <2>6, <2>7
<1> HIDE DEF Shows
<1>2. Spec => [][Shows]_vars
  BY <1>1, RightCorrect, PTL DEF Spec
<1> QED BY <1>2 DEF Shows, ScanShowsTheLock
=============================================================================
