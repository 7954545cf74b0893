---------------------------- MODULE CompatProofs ----------------------------
(***************************************************************************)
(* Theorems about CompatSocket: no message is lost, repeated or reordered  *)
(* by the compatibility layer, in either direction.                        *)
(***************************************************************************)
EXTENDS CompatSocket, SequenceTheorems, TLAPS

(* Entries of the queue of nextTick.                                       *)
Tick == (1 .. MaxRecv) \cup {0, -1}

-----------------------------------------------------------------------------
(* The queue of nextTick.                                                  *)

(* Schedule leaves a queue of ticks that is not empty.                     *)
LEMMA ScheduleType ==
  ASSUME NEW queue \in Seq(Tick), NEW t \in Tick
  PROVE  Schedule(queue, t) \in Seq(Tick) /\ Schedule(queue, t) # <<>>
BY DEF Schedule

(* A tick that is no message does not disturb those that are.              *)
LEMMA ScheduleOther ==
  ASSUME NEW queue \in Seq(Tick), NEW t \in {0, -1}, NEW from \in Nat,
         NEW to \in Nat, InOrder(queue, from, to)
  PROVE  InOrder(Schedule(queue, t), from, to)
<1>1. CASE Schedule(queue, t) = queue
  BY <1>1
<1>2. CASE Schedule(queue, t) = Append(queue, t)
  <2> DEFINE q == Append(queue, t)
  <2>1. /\ DOMAIN queue = 1 .. Len(queue) /\ DOMAIN q = 1 .. Len(queue) + 1
        /\ \A i \in 1 .. Len(queue) : q[i] = queue[i] /\ queue[i] \in Tick
        /\ q[Len(queue) + 1] = t /\ Len(queue) \in Nat
    BY DEF Tick
  <2> HIDE DEF q
  <2>2. InOrder(q, from, to)
    <3>1. ASSUME NEW n \in 1 .. MaxRecv
          PROVE  (\E i \in DOMAIN q : q[i] = n)
                   <=> \E i \in DOMAIN queue : queue[i] = n
      BY <2>1
    <3>2. ASSUME NEW i \in DOMAIN q, NEW j \in DOMAIN q, i < j, q[i] > 0
          PROVE  q[j] \notin 1 .. q[i]
      <4>1. i \in DOMAIN queue /\ q[i] = queue[i]
        BY <2>1, <3>2
      <4>2. CASE j \in DOMAIN queue /\ q[j] = queue[j]
        BY <3>2, <4>1, <4>2 DEF InOrder
      <4>3. CASE q[j] = t
        BY <4>3
      <4> QED  BY <2>1, <4>2, <4>3
    <3> QED  BY <3>1, <3>2 DEF InOrder
  <2> QED  BY <1>2, <2>2 DEF q
<1> QED  BY <1>1, <1>2 DEF Schedule

(* The next message goes behind those that wait.                           *)
LEMMA ScheduleMessage ==
  ASSUME NEW queue \in Seq(Tick), NEW from \in Nat, NEW n \in 1 .. MaxRecv,
         MaxRecv \in Nat, from < n, InOrder(queue, from, n - 1)
  PROVE  InOrder(Schedule(queue, n), from, n)
<1> DEFINE q == Append(queue, n)
<1>1. /\ DOMAIN queue = 1 .. Len(queue) /\ DOMAIN q = 1 .. Len(queue) + 1
      /\ \A i \in 1 .. Len(queue) : q[i] = queue[i] /\ queue[i] \in Tick
      /\ q[Len(queue) + 1] = n /\ Len(queue) \in Nat
  BY DEF Tick
<1>2. Schedule(queue, n) = q
  BY DEF Schedule
<1> HIDE DEF q
<1>3. \A i \in DOMAIN queue : queue[i] <= n - 1
  BY <1>1 DEF InOrder, Tick
<1>4. ASSUME NEW k \in 1 .. MaxRecv
      PROVE  (\E i \in DOMAIN q : q[i] = k) <=> from < k /\ k <= n
  BY <1>1 DEF InOrder
<1>5. ASSUME NEW i \in DOMAIN q, NEW j \in DOMAIN q, i < j, q[i] > 0
      PROVE  q[j] \notin 1 .. q[i]
  <2>1. i \in DOMAIN queue /\ q[i] = queue[i] /\ queue[i] \in Int
    BY <1>1, <1>5 DEF Tick
  <2>2. CASE j = Len(queue) + 1
    BY <1>1, <1>3, <2>1, <2>2
  <2>3. CASE j \in DOMAIN queue
    BY <1>1, <1>5, <2>1, <2>3 DEF InOrder
  <2> QED  BY <1>1, <2>2, <2>3
<1> QED  BY <1>2, <1>4, <1>5 DEF InOrder

(* The first tick is taken: if it is a message, it is the oldest one.      *)
LEMMA TailInOrder ==
  ASSUME NEW queue \in Seq(Tick), queue # <<>>, NEW from \in Nat, NEW to \in Nat,
         MaxRecv \in Nat, InOrder(queue, from, to)
  PROVE  /\ Tail(queue) \in Seq(Tick) /\ Head(queue) \in Tick
         /\ Head(queue) > 0 => /\ Head(queue) = from + 1 /\ from < to
                               /\ InOrder(Tail(queue), from + 1, to)
         /\ Head(queue) <= 0 => InOrder(Tail(queue), from, to)
<1> DEFINE q == Tail(queue)
           h == Head(queue)
<1>1. /\ q \in Seq(Tick) /\ h \in Tick /\ h = queue[1]
      /\ DOMAIN queue = 1 .. Len(queue) /\ Len(queue) \in Nat \ {0}
      /\ DOMAIN q = 1 .. Len(queue) - 1
      /\ \A i \in 1 .. Len(queue) - 1 : q[i] = queue[i + 1]
      /\ \A i \in 1 .. Len(queue) : queue[i] \in Tick
  OBVIOUS
<1> HIDE DEF q, h
<1>2. ASSUME NEW i \in DOMAIN q, NEW j \in DOMAIN q, i < j, q[i] > 0
      PROVE  q[j] \notin 1 .. q[i]
  <2>1. i + 1 \in DOMAIN queue /\ j + 1 \in DOMAIN queue /\ i + 1 < j + 1
    BY <1>1, <1>2
  <2> QED  BY <1>1, <1>2, <2>1 DEF InOrder
<1>3. ASSUME NEW n \in 1 .. MaxRecv
      PROVE  (\E i \in DOMAIN q : q[i] = n)
             <=> \E i \in DOMAIN queue : i # 1 /\ queue[i] = n
  <2>1. ASSUME NEW i \in DOMAIN queue, i # 1, queue[i] = n
        PROVE  \E j \in DOMAIN q : q[j] = n
    <3>1. i - 1 \in DOMAIN q /\ q[i - 1] = n
      BY <1>1, <2>1
    <3> QED  BY <3>1
  <2>2. ASSUME NEW i \in DOMAIN q, q[i] = n
        PROVE  \E j \in DOMAIN queue : j # 1 /\ queue[j] = n
    <3>1. i + 1 \in DOMAIN queue /\ i + 1 # 1 /\ queue[i + 1] = n
      BY <1>1, <2>2
    <3> QED  BY <3>1
  <2> QED  BY <2>1, <2>2
<1>4. CASE h > 0
  <2>1. h \in 1 .. MaxRecv /\ from < h /\ h <= to
    BY <1>1, <1>4 DEF InOrder, Tick
  <2>2. \A i \in DOMAIN queue : i # 1 => queue[i] \notin 1 .. h
    BY <1>1, <1>4 DEF InOrder
  <2>3. h = from + 1
    <3> SUFFICES ASSUME h # from + 1 PROVE FALSE
      OBVIOUS
    <3>1. from + 1 \in 1 .. MaxRecv /\ from + 1 < h /\ from + 1 <= to
      BY <2>1
    <3>2. PICK i \in DOMAIN queue : queue[i] = from + 1
      BY <2>1, <3>1 DEF InOrder
    <3>3. from + 1 \in 1 .. h
      BY <2>1, <3>1
    <3>4. i = 1
      BY <2>2, <3>2, <3>3
    <3> QED  BY <1>1, <3>2, <3>4
  <2>4. ASSUME NEW n \in 1 .. MaxRecv
        PROVE  (\E i \in DOMAIN q : q[i] = n) <=> from + 1 < n /\ n <= to
    <3>1. (\E i \in DOMAIN queue : queue[i] = n) <=> from < n /\ n <= to
      BY DEF InOrder
    <3>2. CASE n = h
      BY <1>3, <2>1, <2>2, <2>3, <3>2
    <3>3. CASE n # h
      <4>1. (\E i \in DOMAIN q : q[i] = n) <=> \E i \in DOMAIN queue : queue[i] = n
        BY <1>1, <1>3, <3>3
      <4>2. (from < n /\ n <= to) <=> from + 1 < n /\ n <= to
        BY <2>3, <3>3
      <4> QED  BY <3>1, <4>1, <4>2
    <3> QED  BY <3>2, <3>3
  <2>5. InOrder(q, from + 1, to)
    BY <1>2, <2>4 DEF InOrder
  <2> QED  BY <1>1, <1>4, <2>1, <2>3, <2>5 DEF q, h
<1>5. CASE h <= 0
  <2>1. ASSUME NEW n \in 1 .. MaxRecv
        PROVE  (\E i \in DOMAIN q : q[i] = n) <=> from < n /\ n <= to
    <3>1. (\E i \in DOMAIN queue : queue[i] = n) <=> from < n /\ n <= to
      BY DEF InOrder
    <3>2. queue[1] # n
      BY <1>1, <1>5
    <3> QED  BY <1>3, <3>1, <3>2
  <2>2. InOrder(q, from, to)
    BY <1>2, <2>1 DEF InOrder
  <2> QED  BY <1>1, <1>5, <2>2 DEF q, h, Tick
<1> QED  BY <1>1, <1>4, <1>5 DEF Tick

-----------------------------------------------------------------------------
(* Sequences of calls.                                                     *)

Upto(s, n) == \A i \in DOMAIN s : s[i] <= n

(* A call that is later than those of a sequence goes to its end.          *)
LEMMA AppendLater ==
  ASSUME NEW s \in Seq(Nat), NEW n \in Nat, Upto(s, n), Increasing(s)
  PROVE  /\ Append(s, n + 1) \in Seq(Nat) /\ Append(s, n + 1) # <<>>
         /\ Increasing(Append(s, n + 1)) /\ Upto(Append(s, n + 1), n + 1)
         /\ \A t \in Seq(Nat) : Before(t, s) /\ Upto(t, n) => Before(t, Append(s, n + 1))
         /\ Last(Append(s, n + 1)) = n + 1
<1> DEFINE q == Append(s, n + 1)
<1>1. /\ q \in Seq(Nat) /\ q # <<>> /\ Len(q) = Len(s) + 1
      /\ DOMAIN s = 1 .. Len(s) /\ DOMAIN q = 1 .. Len(s) + 1
      /\ \A i \in 1 .. Len(s) : q[i] = s[i] /\ s[i] \in Nat
      /\ q[Len(s) + 1] = n + 1 /\ Len(s) \in Nat
  OBVIOUS
<1> HIDE DEF q
<1>6. ASSUME NEW i \in DOMAIN q
      PROVE  \/ i \in DOMAIN s /\ q[i] = s[i] /\ q[i] \in Nat /\ q[i] <= n
             \/ i = Len(s) + 1 /\ q[i] = n + 1
  BY <1>1 DEF Upto
<1>2. Increasing(q)
  <2> SUFFICES ASSUME NEW i \in DOMAIN q, NEW j \in DOMAIN q, i < j
               PROVE  q[i] < q[j]
    BY DEF Increasing
  <2>1. i \in DOMAIN s /\ q[i] = s[i] /\ q[i] \in Nat /\ q[i] <= n
    BY <1>1, <1>6
  <2>2. CASE j \in DOMAIN s /\ q[j] = s[j]
    BY <2>1, <2>2 DEF Increasing
  <2>3. CASE q[j] = n + 1
    BY <2>1, <2>3
  <2> QED  BY <1>6, <2>2, <2>3
<1>3. Upto(q, n + 1)
  <2> SUFFICES ASSUME NEW i \in DOMAIN q PROVE q[i] <= n + 1
    BY DEF Upto
  <2> QED  BY <1>6
<1>4. ASSUME NEW t \in Seq(Nat), Before(t, s), Upto(t, n)
      PROVE  Before(t, q)
  <2> SUFFICES ASSUME NEW i \in DOMAIN t, NEW j \in DOMAIN q
               PROVE  t[i] < q[j]
    BY DEF Before
  <2>1. t[i] \in Nat /\ t[i] <= n
    BY <1>4 DEF Upto
  <2>2. CASE j \in DOMAIN s /\ q[j] = s[j]
    BY <1>4, <2>2 DEF Before
  <2>3. CASE q[j] = n + 1
    BY <2>1, <2>3
  <2> QED  BY <1>6, <2>2, <2>3
<1>5. Last(q) = n + 1
  BY <1>1 DEF Last
<1> QED  BY <1>1, <1>2, <1>3, <1>4, <1>5 DEF q

(* A sequence is put behind one that is earlier.                           *)
LEMMA ConcatLater ==
  ASSUME NEW s \in Seq(Nat), NEW t \in Seq(Nat), Increasing(s), Increasing(t),
         Before(s, t)
  PROVE  /\ s \o t \in Seq(Nat) /\ Increasing(s \o t)
         /\ \A n \in Nat : Upto(s, n) /\ Upto(t, n) => Upto(s \o t, n)
         /\ \A u \in Seq(Nat) : Before(s, u) /\ Before(t, u) => Before(s \o t, u)
<1> DEFINE q == s \o t
           m == Len(s)
<1>1. /\ q \in Seq(Nat) /\ m \in Nat /\ Len(t) \in Nat
      /\ DOMAIN s = 1 .. m /\ DOMAIN t = 1 .. Len(t) /\ DOMAIN q = 1 .. m + Len(t)
      /\ \A i \in 1 .. m : q[i] = s[i] /\ s[i] \in Nat
      /\ \A i \in 1 .. m + Len(t) : i > m => q[i] = t[i - m]
      /\ \A i \in 1 .. Len(t) : t[i] \in Nat
  OBVIOUS
<1> HIDE DEF q, m
<1>2. ASSUME NEW i \in DOMAIN q
      PROVE  \/ i \in DOMAIN s /\ q[i] = s[i]
             \/ i > m /\ i - m \in DOMAIN t /\ q[i] = t[i - m]
  BY <1>1
<1>3. Increasing(q)
  <2> SUFFICES ASSUME NEW i \in DOMAIN q, NEW j \in DOMAIN q, i < j
               PROVE  q[i] < q[j]
    BY DEF Increasing
  <2>1. CASE j <= m
    <3>1. i \in DOMAIN s /\ j \in DOMAIN s /\ q[i] = s[i] /\ q[j] = s[j]
      BY <1>1, <2>1
    <3> QED  BY <3>1 DEF Increasing
  <2>2. CASE i <= m /\ j > m
    <3>1. i \in DOMAIN s /\ j - m \in DOMAIN t /\ q[i] = s[i] /\ q[j] = t[j - m]
      <4>1. ~(i > m) /\ j \notin DOMAIN s
        BY <1>1, <2>2
      <4> QED  BY <1>2, <4>1
    <3> QED  BY <3>1 DEF Before
  <2>3. CASE i > m /\ j > m
    <3>1. i - m < j - m
      BY <1>1
    <3>2. i - m \in DOMAIN t /\ j - m \in DOMAIN t
      <4>1. i \notin DOMAIN s /\ j \notin DOMAIN s
        BY <1>1, <2>3
      <4> QED  BY <1>2, <4>1
    <3> QED  BY <1>1, <2>3, <3>1, <3>2 DEF Increasing
  <2>4. i \in Nat /\ j \in Nat /\ m \in Nat
    BY <1>1
  <2> QED  BY <2>1, <2>2, <2>3, <2>4
<1>4. ASSUME NEW n \in Nat, Upto(s, n), Upto(t, n)
      PROVE  Upto(q, n)
  BY <1>2, <1>4 DEF Upto
<1>5. ASSUME NEW u \in Seq(Nat), Before(s, u), Before(t, u)
      PROVE  Before(q, u)
  BY <1>2, <1>5 DEF Before
<1> QED  BY <1>1, <1>3, <1>4, <1>5 DEF q

LEMMA IdsAreNumbers ==
  /\ Ids \subseteq Nat /\ MaxMoves \in Nat /\ MaxRecv \in Nat
  /\ \A s \in Seq(Ids) : s \in Seq(Nat)
  /\ \A m \in Messages : m.parts \in Seq(Ids) /\ m.parts \in Seq(Nat)
<1>1. Ids \subseteq Nat /\ MaxMoves \in Nat /\ MaxRecv \in Nat
  BY BoundsAssumption DEF Ids
<1>2. \A s \in Seq(Ids) : s \in Seq(Nat)
  BY <1>1, SeqMonotonic
<1> QED  BY <1>1, <1>2 DEF Messages

(* The calls of send() from the oldest to the latest, which is the n-th:   *)
(* what libzmq has accepted, the message being sent, those in the queue,   *)
(* and the parts collected for the next.                                   *)
Line(w, c, q, m, n) ==
  /\ \A s \in {w, c, m} : Increasing(s) /\ Upto(s, n)
  /\ Before(w, m) /\ Before(c, m)
  /\ \A k \in DOMAIN q :
       /\ q[k].parts # <<>> /\ Increasing(q[k].parts) /\ Upto(q[k].parts, n)
       /\ Before(w, q[k].parts) /\ Before(c, q[k].parts) /\ Before(q[k].parts, m)
       /\ \A l \in DOMAIN q : k < l => Before(q[k].parts, q[l].parts)

LEMMA UptoLater ==
  ASSUME NEW s \in Seq(Nat), NEW n \in Nat, Upto(s, n)
  PROVE  Upto(s, n + 1)
<1>1. \A i \in DOMAIN s : s[i] \in Nat
  OBVIOUS
<1> QED  BY <1>1 DEF Upto

(* A call that sends nothing.                                              *)
LEMMA LineSkips ==
  ASSUME NEW w \in Seq(Nat), NEW c \in Seq(Nat), NEW q \in Seq(Messages),
         NEW m \in Seq(Nat), NEW n \in Nat, Line(w, c, q, m, n)
  PROVE  Line(w, c, q, m, n + 1)
<1>1. \A k \in DOMAIN q : q[k].parts \in Seq(Nat)
  BY IdsAreNumbers
<1> QED  BY <1>1, UptoLater DEF Line

(* send() with ZMQ_SNDMORE: one part more.                                 *)
LEMMA LineCollects ==
  ASSUME NEW w \in Seq(Nat), NEW c \in Seq(Nat), NEW q \in Seq(Messages),
         NEW m \in Seq(Nat), NEW n \in Nat, Line(w, c, q, m, n)
  PROVE  Line(w, c, q, Append(m, n + 1), n + 1)
<1>1. \A k \in DOMAIN q : q[k].parts \in Seq(Nat)
  BY IdsAreNumbers
<1>2. Upto(m, n) /\ Increasing(m) /\ Upto(w, n) /\ Upto(c, n)
  BY DEF Line
<1>3. /\ Increasing(Append(m, n + 1)) /\ Upto(Append(m, n + 1), n + 1)
      /\ \A t \in Seq(Nat) : Before(t, m) /\ Upto(t, n) => Before(t, Append(m, n + 1))
  BY <1>2, AppendLater
<1> QED  BY <1>1, <1>2, <1>3, UptoLater DEF Line

(* send(): the parts and the last one go to the end of the queue.          *)
LEMMA LineGrows ==
  ASSUME NEW w \in Seq(Nat), NEW c \in Seq(Nat), NEW q \in Seq(Messages),
         NEW m \in Seq(Ids), NEW n \in Nat, n + 1 \in Ids, NEW cb \in BOOLEAN,
         Line(w, c, q, m, n)
  PROVE  LET message == [parts |-> Append(m, n + 1), cb |-> cb] IN
         /\ Append(q, message) \in Seq(Messages) /\ Append(q, message) # <<>>
         /\ Line(w, c, Append(q, message), <<>>, n + 1)
         /\ Id(message) = n + 1
<1> DEFINE message == [parts |-> Append(m, n + 1), cb |-> cb]
           p == message.parts
           r == Append(q, message)
<1>1. m \in Seq(Nat) /\ \A k \in DOMAIN q : q[k].parts \in Seq(Nat)
  BY IdsAreNumbers
<1>2. message \in Messages /\ p = Append(m, n + 1)
  BY DEF Messages
<1>3. /\ DOMAIN q = 1 .. Len(q) /\ DOMAIN r = 1 .. Len(q) + 1 /\ Len(q) \in Nat
      /\ \A k \in 1 .. Len(q) : r[k] = q[k]
      /\ r[Len(q) + 1] = message /\ r \in Seq(Messages) /\ r # <<>>
  <2>1. message \in Messages
    BY <1>2
  <2> HIDE DEF message, p
  <2> QED  BY ONLY <2>1, q \in Seq(Messages), AppendProperties, LenProperties
<1>4. Upto(m, n) /\ Increasing(m) /\ Upto(w, n) /\ Upto(c, n)
  BY DEF Line
<1>5. /\ p \in Seq(Nat) /\ p # <<>> /\ Increasing(p) /\ Upto(p, n + 1)
      /\ \A t \in Seq(Nat) : Before(t, m) /\ Upto(t, n) => Before(t, p)
      /\ Id(message) = n + 1
  <2>1. Id(message) = Last(p)
    BY DEF Id
  <2> HIDE DEF message
  <2> QED  BY <1>1, <1>2, <1>4, <2>1, AppendLater
<1>6. Increasing(<<>>) /\ Upto(<<>>, n + 1) /\ \A t : Before(t, <<>>)
  BY DEF Increasing, Upto, Before
<1> HIDE DEF r, p, message
<1>7. ASSUME NEW k \in DOMAIN q
      PROVE  /\ q[k].parts # <<>> /\ Increasing(q[k].parts) /\ Upto(q[k].parts, n + 1)
             /\ Before(w, q[k].parts) /\ Before(c, q[k].parts) /\ Before(q[k].parts, p)
  <2>1. /\ q[k].parts # <<>> /\ Increasing(q[k].parts) /\ Upto(q[k].parts, n)
        /\ Before(w, q[k].parts) /\ Before(c, q[k].parts) /\ Before(q[k].parts, m)
    BY DEF Line
  <2> QED  BY <1>1, <1>5, <2>1, UptoLater
<1>8. Before(w, p) /\ Before(c, p) /\ Increasing(w) /\ Increasing(c)
  BY <1>4, <1>5 DEF Line
<1>9. ASSUME NEW k \in DOMAIN r
      PROVE  /\ r[k].parts # <<>> /\ Increasing(r[k].parts) /\ Upto(r[k].parts, n + 1)
             /\ Before(w, r[k].parts) /\ Before(c, r[k].parts)
  <2>1. CASE k \in DOMAIN q /\ r[k] = q[k]
    BY <1>7, <2>1
  <2>2. CASE r[k].parts = p
    BY <1>5, <1>8, <2>2
  <2> QED  BY <1>3, <2>1, <2>2 DEF p
<1>10. ASSUME NEW k \in DOMAIN r, NEW l \in DOMAIN r, k < l
       PROVE  Before(r[k].parts, r[l].parts)
  <2>1. k \in DOMAIN q /\ r[k] = q[k]
    BY <1>3, <1>10
  <2>2. CASE l \in DOMAIN q
    BY <1>3, <1>10, <2>1, <2>2 DEF Line
  <2>3. CASE l = Len(q) + 1
    BY <1>3, <1>7, <2>1, <2>3 DEF p
  <2> QED  BY <1>3, <2>2, <2>3
<1>11. Line(w, c, r, <<>>, n + 1)
  BY <1>4, <1>6, <1>8, <1>9, <1>10, UptoLater DEF Line
<1> QED  BY <1>3, <1>5, <1>11 DEF r, message

(* The head of the queue becomes the message being sent.                   *)
LEMMA LineMoves ==
  ASSUME NEW w \in Seq(Nat), NEW c \in Seq(Nat), NEW q \in Seq(Messages), q # <<>>,
         NEW m \in Seq(Nat), NEW n \in Nat, Line(w, c, q, m, n)
  PROVE  /\ Head(q) \in Messages /\ Tail(q) \in Seq(Messages)
         /\ Head(q).parts # <<>> /\ Before(w, Head(q).parts)
         /\ Line(w, Head(q).parts, Tail(q), m, n)
         /\ Head(q) = q[1] /\ 1 \in DOMAIN q
         /\ \A k \in DOMAIN Tail(q) : k + 1 \in DOMAIN q /\ Tail(q)[k] = q[k + 1]
<1> DEFINE r == Tail(q)
           h == Head(q)
<1>1. /\ DOMAIN q = 1 .. Len(q) /\ DOMAIN r = 1 .. Len(q) - 1 /\ Len(q) \in Nat \ {0}
      /\ \A k \in 1 .. Len(q) - 1 : r[k] = q[k + 1]
      /\ h = q[1] /\ h \in Messages /\ r \in Seq(Messages)
  OBVIOUS
<1> HIDE DEF r, h
<1>2. ASSUME NEW k \in DOMAIN r
      PROVE  k + 1 \in DOMAIN q /\ r[k] = q[k + 1] /\ 1 < k + 1 /\ 1 \in DOMAIN q
  BY <1>1
<1>3. /\ h.parts # <<>> /\ Increasing(h.parts) /\ Upto(h.parts, n)
      /\ Before(w, h.parts) /\ Before(h.parts, m)
  <2>1. 1 \in DOMAIN q
    BY <1>1
  <2> QED  BY <1>1, <2>1 DEF Line
<1>4. ASSUME NEW k \in DOMAIN r
      PROVE  /\ r[k].parts # <<>> /\ Increasing(r[k].parts) /\ Upto(r[k].parts, n)
             /\ Before(w, r[k].parts) /\ Before(h.parts, r[k].parts)
             /\ Before(r[k].parts, m)
  BY <1>1, <1>2 DEF Line
<1>5. ASSUME NEW k \in DOMAIN r, NEW l \in DOMAIN r, k < l
      PROVE  Before(r[k].parts, r[l].parts)
  <2>1. k + 1 < l + 1
    BY <1>1, <1>5
  <2> QED  BY <1>2, <2>1 DEF Line
<1>6. Increasing(w) /\ Upto(w, n) /\ Increasing(m) /\ Upto(m, n) /\ Before(w, m)
  BY DEF Line
<1>7. Line(w, h.parts, r, m, n)
  BY <1>3, <1>4, <1>5, <1>6 DEF Line
<1> QED  BY <1>1, <1>2, <1>3, <1>7 DEF r, h

(* libzmq accepts the message being sent.                                  *)
LEMMA LineSends ==
  ASSUME NEW w \in Seq(Nat), NEW c \in Seq(Nat), NEW q \in Seq(Messages),
         NEW m \in Seq(Nat), NEW n \in Nat, Line(w, c, q, m, n), Before(w, c)
  PROVE  Line(w \o c, c, q, m, n)
<1>1. \A k \in DOMAIN q : q[k].parts \in Seq(Nat)
  BY IdsAreNumbers
<1>2. /\ Increasing(w) /\ Increasing(c) /\ Upto(w, n) /\ Upto(c, n)
  BY DEF Line
<1>3. /\ w \o c \in Seq(Nat) /\ Increasing(w \o c) /\ Upto(w \o c, n)
      /\ \A u \in Seq(Nat) : Before(w, u) /\ Before(c, u) => Before(w \o c, u)
  BY <1>2, ConcatLater
<1> QED  BY <1>1, <1>3 DEF Line

-----------------------------------------------------------------------------
(* The inductive invariant.                                                *)

(* A tick is only run while there is one.                                  *)
PhaseInv == phase = "ticks" /\ stack = <<>> => ticks # <<>>

(* At most one message is kept by pause(), and none while the receive loop *)
(* waits for, or holds, the next.                                          *)
RecvInv ==
  /\ received > 0 => recvLoop = "got"
  /\ Len(recvQueue) <= 1
  /\ recvLoop \in {"wait", "delayed", "got"} => recvQueue = <<>>

(* One callback of send() runs at a time, and the send loop waits for it.  *)
StackInv ==
  /\ \A i \in DOMAIN stack : stack[i] = "send" => sendLoop \in {"cb", "cbErr"}
  /\ \A i, j \in DOMAIN stack : stack[i] = "send" /\ stack[j] = "send" => i = j

(* How often callbacks were called (f) after the first n calls: twice only *)
(* if it has thrown (t), and not while the message is in the queue.        *)
Called(f, t, q, n) ==
  /\ \A i \in Ids : i > n => f[i] = 0
  /\ \A i \in Ids : f[i] <= IF i \in t THEN 2 ELSE 1
  /\ \A k \in DOMAIN q : f[Id(q[k])] = 0

(* The callback of the message being sent.                                 *)
CurrentCalls ==
  /\ sendLoop \in {"wait", "delayed", "got"} => calls[Id(current)] = 0
  /\ sendLoop = "cb" => calls[Id(current)] = 1 /\ current.cb

(* The send loop after n calls, while the parts m are collected.           *)
SendLine(m, n) ==
  /\ Line(wire, current.parts, sendQueue, m, n)
  /\ sendLoop \in {"wait", "delayed"} => Before(wire, current.parts)
  /\ sendLoop \in {"wait", "delayed", "got", "cb", "cbErr"} => current.parts # <<>>
  /\ CurrentCalls
  /\ Called(calls, threw, sendQueue, n)

SendInv == SendLine(msg, moves)

IInv == TypeOK /\ PhaseInv /\ RecvInv /\ Delivery /\ StackInv /\ SendInv

RecvTyped ==
  /\ recvLoop \in {"off", "armed", "wait", "delayed", "got", "step"}
  /\ received \in 0 .. MaxRecv
  /\ recvQueue \in Seq(1 .. MaxRecv)
  /\ avail \in 0 .. MaxRecv /\ taken \in 0 .. avail
  /\ ticks \in Seq(Tick)
  /\ emitted \in Seq(1 .. MaxRecv)

SendTyped ==
  /\ sendLoop \in {"off", "armed", "wait", "delayed", "got", "step", "cb", "cbErr"}
  /\ current \in Messages
  /\ sent \in BOOLEAN
  /\ sendQueue \in Seq(Messages)
  /\ wire \in Seq(Ids)
  /\ calls \in [Ids -> Nat]
  /\ threw \subseteq Ids
  /\ rejected \in BOOLEAN
  /\ room \in BOOLEAN
  /\ stack \in Seq({"task", "tick", "send"} \cup MonitorLoops)

LEMMA Typed == TypeOK => RecvTyped /\ SendTyped
BY DEF TypeOK, RecvTyped, SendTyped, Tick

LEMMA ProceedKeeps ==
  ASSUME phase \in {"loop", "ticks", "micro", "exited", "hung"}, Proceed
  PROVE  phase' \in {"loop", "ticks", "micro", "exited", "hung"}
BY DEF Proceed

LEMMA ProceedPhase ==
  ASSUME Proceed
  PROVE  PhaseInv'
BY DEF Proceed, PhaseInv

-----------------------------------------------------------------------------
(* Receiving.                                                              *)

RecvOK == RecvTyped /\ RecvInv /\ Delivery

(* The receive loop is left alone.                                         *)
LEMMA RecvUnchangedKeeps ==
  ASSUME RecvOK, UNCHANGED <<recvVars, ticks, taken, avail, emitted>>
  PROVE  RecvOK'
BY DEF RecvOK, RecvTyped, RecvInv, Delivery, recvVars, InOrder

(* The queue of pause() is empty; receive() waits, fails, or hands over    *)
(* the next message.                                                       *)
LEMMA ReceiveKeeps ==
  ASSUME RecvTyped, received = 0, \A i \in DOMAIN emitted : emitted[i] = i,
         ticks' \in Seq(Tick), InOrder(ticks', Len(emitted), taken),
         Len(emitted) <= taken, recvQueue' = <<>>, UNCHANGED <<emitted, avail>>,
         \/ recvLoop' \in {"wait", "delayed", "got", "step"} /\ received' = 0 /\ taken' = taken
         \/ /\ recvLoop' = "got" /\ taken < avail
            /\ received' = taken + 1 /\ taken' = taken + 1
  PROVE  RecvOK'
<1>1. Len(recvQueue') = 0 /\ recvQueue' \in Seq(1 .. MaxRecv) /\ DOMAIN recvQueue' = {}
  OBVIOUS
<1>2. taken' - Len(recvQueue') - (IF received' > 0 THEN 1 ELSE 0) = taken
  <2>1. taken \in Nat
    BY IdsAreNumbers DEF RecvTyped
  <2>2. CASE received' = 0 /\ taken' = taken
    BY <1>1, <2>1, <2>2
  <2>3. CASE received' = taken + 1 /\ taken' = taken + 1
    BY <1>1, <2>1, <2>3
  <2> QED  BY <2>2, <2>3
<1>3. RecvTyped'
  BY <1>1, IdsAreNumbers DEF RecvTyped
<1>4. Delivery'
  BY <1>1, <1>2 DEF Delivery, RecvTyped
<1>5. RecvInv'
  BY <1>1 DEF RecvInv, RecvTyped
<1> QED  BY <1>3, <1>4, <1>5 DEF RecvOK

LEMMA OneElement ==
  ASSUME NEW S, NEW s \in Seq(S), Len(s) <= 1, s # <<>>
  PROVE  Len(s) = 1 /\ DOMAIN s = {1} /\ Head(s) = s[1] /\ s[1] \in S /\ Tail(s) = <<>>
<1>1. Len(s) = 1
  <2> DEFINE n == Len(s)
  <2>1. n \in Nat \ {0} /\ n <= 1
    BY EmptySeq, LenProperties, Zenon
  <2> HIDE DEF n
  <2>2. n = 1
    BY ONLY <2>1
  <2> QED  BY <2>2 DEF n
<1>2. DOMAIN s = {1} /\ s[1] \in S /\ Head(s) = s[1]
  BY <1>1, LenProperties
<1>3. Tail(s) \in Seq(S) /\ Len(Tail(s)) = 0
  BY <1>1, HeadTailProperties
<1> QED  BY <1>1, <1>2, <1>3, EmptySeq

(* Without a queue and without a message at hand, all that was received    *)
(* was handed to nextTick; a message in the queue is the latest one.       *)
LEMMA AtRest ==
  ASSUME RecvOK, received = 0
  PROVE  /\ \A i \in DOMAIN emitted : emitted[i] = i
         /\ recvQueue = <<>> => /\ Len(emitted) <= taken
                                /\ InOrder(ticks, Len(emitted), taken)
         /\ recvQueue # <<>> => /\ Head(recvQueue) = taken /\ taken \in 1 .. MaxRecv
                                /\ Tail(recvQueue) = <<>>
                                /\ Len(emitted) <= taken - 1
                                /\ InOrder(ticks, Len(emitted), taken - 1)
         /\ Len(emitted) \in Nat /\ taken \in Nat
<1>1. taken \in Nat /\ Len(emitted) \in Nat /\ MaxRecv \in Nat
  BY IdsAreNumbers DEF RecvOK, RecvTyped
<1>2. CASE recvQueue = <<>>
  <2>1. taken - Len(recvQueue) - (IF received > 0 THEN 1 ELSE 0) = taken
    BY <1>1, <1>2
  <2> QED  BY <1>1, <1>2, <2>1 DEF RecvOK, Delivery
<1>3. CASE recvQueue # <<>>
  <2>1. /\ Len(recvQueue) = 1 /\ DOMAIN recvQueue = {1}
        /\ Head(recvQueue) = recvQueue[1] /\ recvQueue[1] \in 1 .. MaxRecv
        /\ Tail(recvQueue) = <<>>
    BY <1>3, OneElement DEF RecvOK, RecvTyped, RecvInv
  <2>2. taken - Len(recvQueue) - (IF received > 0 THEN 1 ELSE 0) = taken - 1
    BY <1>1, <2>1
  <2>3. recvQueue[1] = taken - 1 + 1
    BY <2>1, <2>2 DEF RecvOK, Delivery
  <2> QED  BY <1>1, <1>3, <2>1, <2>2, <2>3 DEF RecvOK, Delivery
<1> QED  BY <1>2, <1>3

LEMMA RecvHandlerKeeps ==
  ASSUME RecvOK, NEW isPaused \in BOOLEAN, recvLoop \in {"armed", "step"},
         RecvHandler(isPaused), UNCHANGED <<emitted, avail>>
  PROVE  RecvOK'
<1>1. received = 0
  BY DEF RecvOK, RecvInv, RecvTyped
<1>2. CASE Recv
  <2>0. \/ recvLoop' \in {"wait", "delayed", "step"} /\ received' = 0 /\ taken' = taken
        \/ recvLoop' = "got" /\ received' = 0 /\ taken' = taken
        \/ /\ recvLoop' = "got" /\ taken < avail
           /\ received' = taken + 1 /\ taken' = taken + 1
    BY <1>1, <1>2 DEF Recv, NativeReceive
  <2>1. CASE recvQueue = <<>>
    <3>1. ticks' = ticks /\ recvQueue' = <<>> /\ ticks \in Seq(Tick)
      BY <1>2, <2>1 DEF Recv, RecvOK, RecvTyped
    <3> QED  BY <1>1, <2>0, <2>1, <3>1, AtRest, ReceiveKeeps DEF RecvOK
  <2>2. CASE recvQueue # <<>>
    <3>1. ticks' = Schedule(ticks, taken) /\ recvQueue' = <<>>
      BY <1>1, <1>2, <2>2, AtRest DEF Recv
    <3>2. ticks \in Seq(Tick) /\ taken \in Tick
      BY <1>1, <2>2, AtRest DEF RecvOK, RecvTyped, Tick
    <3>3. ticks' \in Seq(Tick)
      BY <3>1, <3>2, ScheduleType
    <3>4. /\ Len(emitted) \in Nat /\ taken \in 1 .. MaxRecv /\ Len(emitted) < taken
          /\ InOrder(ticks, Len(emitted), taken - 1)
      BY <1>1, <2>2, AtRest
    <3>5. InOrder(ticks', Len(emitted), taken)
      BY <3>1, <3>2, <3>4, ScheduleMessage, IdsAreNumbers
    <3> QED  BY <1>1, <2>0, <3>1, <3>3, <3>4, <3>5, AtRest, ReceiveKeeps DEF RecvOK
  <2> QED  BY <2>1, <2>2
<1>3. CASE recvLoop' \in {"off", "armed", "step"}
           /\ UNCHANGED <<received, recvQueue, taken, ticks>>
  BY <1>1, <1>3 DEF RecvOK, RecvTyped, RecvInv, Delivery, InOrder
<1> QED  BY <1>2, <1>3 DEF RecvHandler

(* A message at hand is the latest one; all before it went to nextTick.    *)
LEMMA AtHand ==
  ASSUME RecvOK, received > 0
  PROVE  /\ received = taken /\ taken \in 1 .. MaxRecv /\ recvQueue = <<>>
         /\ Len(emitted) \in Nat /\ Len(emitted) <= taken - 1
         /\ InOrder(ticks, Len(emitted), taken - 1)
<1>1. recvQueue = <<>> /\ received = taken /\ taken \in 1 .. MaxRecv /\ MaxRecv \in Nat
  BY IdsAreNumbers DEF RecvOK, RecvInv, Delivery, RecvTyped
<1>2. taken - Len(recvQueue) - (IF received > 0 THEN 1 ELSE 0) = taken - 1
  BY <1>1
<1> QED  BY <1>1, <1>2 DEF RecvOK, RecvTyped, Delivery

LEMMA RecvGotKeeps ==
  ASSUME RecvOK, RecvGot
  PROVE  RecvOK'
<1>1. /\ recvLoop = "got" /\ recvLoop' = "step" /\ received' = 0
      /\ UNCHANGED <<taken, avail, emitted>> /\ recvQueue = <<>>
      /\ received \in Nat /\ taken \in Nat /\ MaxRecv \in Nat /\ ticks \in Seq(Tick)
      /\ Len(emitted) \in Nat /\ \A i \in DOMAIN emitted : emitted[i] = i
  BY IdsAreNumbers DEF RecvGot, native, RecvOK, RecvTyped, RecvInv, Delivery
<1>2. CASE received > 0 /\ paused
  <2>1. ticks' = ticks /\ recvQueue' = <<taken>>
    BY <1>1, <1>2, AtHand DEF RecvGot
  <2>2. /\ Len(recvQueue') = 1 /\ DOMAIN recvQueue' = {1} /\ recvQueue'[1] = taken
        /\ recvQueue' \in Seq(1 .. MaxRecv)
    BY <1>2, <2>1, AtHand
  <2>3. taken' - Len(recvQueue') - (IF received' > 0 THEN 1 ELSE 0) = taken - 1
    BY <1>1, <2>2
  <2>4. RecvTyped'
    BY <1>1, <2>1, <2>2 DEF RecvOK, RecvTyped
  <2>5. Delivery'
    <3>1. Len(emitted) <= taken - 1 /\ InOrder(ticks, Len(emitted), taken - 1)
      BY <1>2, AtHand
    <3>2. \A i \in DOMAIN recvQueue' : recvQueue'[i] = taken - 1 + i
      BY <1>1, <2>2
    <3> QED  BY <1>1, <2>1, <2>3, <3>1, <3>2 DEF Delivery
  <2>6. RecvInv'
    BY <1>1, <2>2 DEF RecvInv
  <2> QED  BY <2>4, <2>5, <2>6 DEF RecvOK
<1>3. CASE received > 0 /\ ~paused
  <2>1. ticks' = Schedule(ticks, taken) /\ recvQueue' = <<>>
    BY <1>1, <1>3, AtHand DEF RecvGot
  <2>2. /\ taken \in 1 .. MaxRecv /\ Len(emitted) < taken
        /\ InOrder(ticks, Len(emitted), taken - 1)
    BY <1>1, <1>3, AtHand
  <2>3. ticks' \in Seq(Tick) /\ InOrder(ticks', Len(emitted), taken)
    BY <1>1, <2>1, <2>2, ScheduleType, ScheduleMessage DEF Tick
  <2>4. Delivery'
    <3>1. taken' - Len(recvQueue') - (IF received' > 0 THEN 1 ELSE 0) = taken
      BY <1>1, <2>1
    <3>2. DOMAIN recvQueue' = {}
      BY <2>1
    <3> QED  BY <1>1, <2>2, <2>3, <3>1, <3>2 DEF Delivery
  <2>5. RecvTyped' /\ RecvInv'
    BY <1>1, <2>1, <2>3 DEF RecvOK, RecvTyped, RecvInv
  <2> QED  BY <2>4, <2>5 DEF RecvOK
<1>4. CASE received = 0
  <2>1. recvQueue' = <<>> /\ (ticks' = ticks \/ ticks' = Schedule(ticks, 0))
    BY <1>1, <1>4 DEF RecvGot
  <2>2. Len(emitted) <= taken /\ InOrder(ticks, Len(emitted), taken)
    BY <1>1, <1>4, AtRest
  <2>3. ticks' \in Seq(Tick) /\ InOrder(ticks', Len(emitted), taken)
    BY <1>1, <2>1, <2>2, ScheduleType, ScheduleOther DEF Tick
  <2> QED  BY <1>1, <1>4, <2>1, <2>2, <2>3, ReceiveKeeps DEF RecvOK
<1> QED  BY <1>1, <1>2, <1>3, <1>4

(* A pending receive() is settled: by the event loop, by close(), or after *)
(* a send().                                                               *)
LEMMA NativeReceiveKeeps ==
  ASSUME RecvOK, recvLoop \in {"wait", "delayed"}, NativeReceive,
         UNCHANGED <<recvQueue, ticks, avail, emitted>>
  PROVE  RecvOK'
<1>1. /\ recvLoop' = "got" /\ recvQueue = <<>> /\ received = 0
      /\ ticks \in Seq(Tick)
  BY DEF NativeReceive, RecvOK, RecvInv, RecvTyped
<1>2. \/ received' = 0 /\ taken' = taken
      \/ taken < avail /\ received' = taken + 1 /\ taken' = taken + 1
  BY DEF NativeReceive
<1>3. Len(emitted) <= taken /\ InOrder(ticks, Len(emitted), taken)
  BY <1>1, AtRest
<1> QED  BY <1>1, <1>2, <1>3, AtRest, ReceiveKeeps DEF RecvOK

(* What may happen to a pending receive() in any other step.               *)
ReceiveAtMost ==
  \/ UNCHANGED <<recvLoop, received, taken>>
  \/ recvLoop \in {"wait", "delayed"} /\ NativeReceive

LEMMA ReceiveAtMostKeeps ==
  ASSUME RecvOK, ReceiveAtMost, UNCHANGED <<recvQueue, ticks, avail, emitted>>
  PROVE  RecvOK'
BY NativeReceiveKeeps, RecvUnchangedKeeps DEF ReceiveAtMost, recvVars

LEMMA AfterSendAtMost == ASSUME AfterSend PROVE ReceiveAtMost
BY DEF AfterSend, ReceiveAtMost

LEMMA CloseNowAtMost == ASSUME CloseNow PROVE ReceiveAtMost
BY DEF CloseNow, ReceiveAtMost

(* bind() schedules its callback.                                          *)
LEMMA OtherTicksKeep ==
  ASSUME RecvOK, UNCHANGED <<recvVars, taken, avail, emitted>>,
         ticks' = Schedule(ticks, -1)
  PROVE  RecvOK'
<1> DEFINE passed == taken - Len(recvQueue) - (IF received > 0 THEN 1 ELSE 0)
<1>1. /\ ticks \in Seq(Tick) /\ Len(emitted) \in Nat /\ passed \in Nat
      /\ InOrder(ticks, Len(emitted), passed) /\ Len(emitted) <= passed
  BY DEF RecvOK, RecvTyped, Delivery
<1>2. passed' = passed
  BY DEF recvVars
<1> HIDE DEF passed
<1>3. ticks' \in Seq(Tick) /\ InOrder(ticks', Len(emitted), passed)
  BY <1>1, ScheduleType, ScheduleOther DEF Tick
<1>4. Delivery'
  BY <1>1, <1>2, <1>3 DEF RecvOK, Delivery, passed, recvVars
<1>5. RecvTyped' /\ RecvInv'
  BY <1>3 DEF RecvOK, RecvTyped, RecvInv, recvVars
<1> QED  BY <1>4, <1>5 DEF RecvOK

LEMMA RunTickKeeps ==
  ASSUME RecvOK, RunTick, ticks # <<>>
  PROVE  RecvOK' /\ ticks' \in Seq(Tick)
<1> DEFINE passed == taken - Len(recvQueue) - (IF received > 0 THEN 1 ELSE 0)
           h == Head(ticks)
<1>1. /\ UNCHANGED <<recvLoop, received, recvQueue, taken, avail>>
      /\ ticks' = Tail(ticks)
      /\ emitted' = IF h > 0 THEN Append(emitted, h) ELSE emitted
  BY DEF RunTick, recvVars, native
<1>2. /\ ticks \in Seq(Tick) /\ Len(emitted) \in Nat /\ passed \in Nat
      /\ InOrder(ticks, Len(emitted), passed) /\ Len(emitted) <= passed
      /\ emitted \in Seq(1 .. MaxRecv) /\ \A i \in DOMAIN emitted : emitted[i] = i
      /\ MaxRecv \in Nat
  BY IdsAreNumbers DEF RecvOK, RecvTyped, Delivery
<1>3. passed' = passed
  BY <1>1
<1>4. /\ ticks' \in Seq(Tick) /\ h \in Tick
      /\ h > 0 => h = Len(emitted) + 1 /\ Len(emitted) < passed
                  /\ InOrder(ticks', Len(emitted) + 1, passed)
      /\ h <= 0 => InOrder(ticks', Len(emitted), passed)
  <2> HIDE DEF passed
  <2> QED  BY <1>1, <1>2, TailInOrder
<1> HIDE DEF passed, h
<1>5. /\ emitted' \in Seq(1 .. MaxRecv) /\ Len(emitted') \in Nat
      /\ \A i \in DOMAIN emitted' : emitted'[i] = i
      /\ Len(emitted') <= passed /\ InOrder(ticks', Len(emitted'), passed)
  <2>1. CASE h > 0
    <3>1. emitted' = Append(emitted, h) /\ h \in 1 .. MaxRecv /\ h = Len(emitted) + 1
      BY <1>1, <1>4, <2>1 DEF Tick
    <3>2. /\ emitted' \in Seq(1 .. MaxRecv) /\ Len(emitted') = h
          /\ DOMAIN emitted' = 1 .. h /\ emitted'[h] = h
          /\ \A i \in 1 .. Len(emitted) : emitted'[i] = emitted[i] /\ i \in DOMAIN emitted
      BY <1>2, <3>1
    <3>3. \A i \in DOMAIN emitted' : emitted'[i] = i
      BY <1>2, <3>1, <3>2
    <3> QED  BY <1>2, <1>4, <2>1, <3>1, <3>2, <3>3
  <2>2. CASE h <= 0
    BY <1>1, <1>2, <1>4, <2>2 DEF Tick
  <2> QED  BY <1>4, <2>1, <2>2 DEF Tick
<1>6. Delivery'
  BY <1>1, <1>3, <1>5 DEF RecvOK, Delivery, passed
<1>7. RecvTyped' /\ RecvInv'
  BY <1>1, <1>4, <1>5 DEF RecvOK, RecvTyped, RecvInv
<1> QED  BY <1>4, <1>6, <1>7 DEF RecvOK

-----------------------------------------------------------------------------
(* Sending.                                                                *)

(* The callback of the message being sent belongs to no other.             *)
LEMMA IdOfCurrent ==
  ASSUME NEW w \in Seq(Nat), NEW c \in Messages, NEW q \in Seq(Messages),
         NEW m \in Seq(Nat), NEW n \in Nat, c.parts # <<>>, Line(w, c.parts, q, m, n)
  PROVE  /\ Id(c) \in Ids /\ Id(c) <= n
         /\ \A k \in DOMAIN q : Id(q[k]) \in Ids /\ Id(q[k]) # Id(c)
<1>1. ASSUME NEW x \in Messages, x.parts # <<>>
      PROVE  /\ Id(x) \in Ids /\ Len(x.parts) \in DOMAIN x.parts
             /\ Id(x) = x.parts[Len(x.parts)]
  <2>1. x.parts \in Seq(Ids)
    BY DEF Messages
  <2>2. Len(x.parts) \in Nat \ {0} /\ DOMAIN x.parts = 1 .. Len(x.parts)
    BY <1>1, <2>1
  <2>3. x.parts[Len(x.parts)] \in Ids
    BY <2>1, <2>2
  <2> QED  BY <2>2, <2>3 DEF Id, Last
<1>2. Id(c) \in Ids /\ Id(c) <= n
  BY <1>1 DEF Line, Upto
<1>3. ASSUME NEW k \in DOMAIN q
      PROVE  Id(q[k]) \in Ids /\ Id(q[k]) # Id(c)
  <2>1. q[k] \in Messages /\ q[k].parts # <<>> /\ Before(c.parts, q[k].parts)
    BY DEF Line
  <2>2. Id(c) < Id(q[k])
    BY <1>1, <2>1 DEF Before
  <2> QED  BY <1>1, <1>2, <2>1, <2>2, IdsAreNumbers
<1> QED  BY <1>2, <1>3

(* One call more.                                                          *)
OneMore(f, i) == [f EXCEPT ![i] = @ + 1]

LEMMA OneMoreCounts ==
  ASSUME NEW f \in [Ids -> Nat], NEW i \in Ids
  PROVE  /\ OneMore(f, i) \in [Ids -> Nat] /\ OneMore(f, i)[i] = f[i] + 1
         /\ \A j \in Ids : j # i => OneMore(f, i)[j] = f[j]
BY DEF OneMore

(* A callback is called for the first time, or again because it has thrown.*)
LEMMA CallKeeps ==
  ASSUME NEW w \in Seq(Nat), NEW c \in Messages, NEW q \in Seq(Messages),
         NEW m \in Seq(Nat), NEW n \in Nat, c.parts # <<>>, Line(w, c.parts, q, m, n),
         NEW f \in [Ids -> Nat], NEW t, NEW u, t \subseteq u, Called(f, t, q, n),
         f[Id(c)] = 0 \/ (f[Id(c)] = 1 /\ Id(c) \in u)
  PROVE  /\ OneMore(f, Id(c)) \in [Ids -> Nat]
         /\ OneMore(f, Id(c))[Id(c)] = f[Id(c)] + 1
         /\ Called(OneMore(f, Id(c)), u, q, n)
<1> DEFINE g == OneMore(f, Id(c))
<1>1. /\ Id(c) \in Ids /\ Id(c) <= n /\ Ids \subseteq Nat
      /\ \A k \in DOMAIN q : Id(q[k]) \in Ids /\ Id(q[k]) # Id(c)
  BY IdOfCurrent, IdsAreNumbers
<1>2. /\ g \in [Ids -> Nat] /\ g[Id(c)] = f[Id(c)] + 1
      /\ \A i \in Ids : i # Id(c) => g[i] = f[i]
  <2>1. Id(c) \in Ids /\ f \in [Ids -> Nat]
    BY <1>1
  <2> QED  BY ONLY <2>1, OneMoreCounts
<1> HIDE DEF g
<1>3. ASSUME NEW i \in Ids, i > n PROVE g[i] = 0
  <2>1. i # Id(c)
    BY <1>1, <1>3
  <2> QED  BY <1>2, <1>3, <2>1 DEF Called
<1>4. ASSUME NEW i \in Ids PROVE g[i] <= IF i \in u THEN 2 ELSE 1
  <2>1. CASE i = Id(c)
    BY <1>2, <2>1
  <2>2. CASE i # Id(c)
    <3>1. g[i] = f[i] /\ f[i] \in Nat /\ f[i] <= IF i \in t THEN 2 ELSE 1
      BY <1>2, <2>2 DEF Called
    <3> QED  BY <3>1
  <2> QED  BY <2>1, <2>2
<1>5. ASSUME NEW k \in DOMAIN q PROVE g[Id(q[k])] = 0
  BY <1>1, <1>2 DEF Called
<1> QED  BY <1>2, <1>3, <1>4, <1>5 DEF Called, g

LEMMA SendFailedKeeps ==
  ASSUME SendTyped, StackInv, sendLoop \notin {"cb", "cbErr"},
         NEW c \in Messages, c.parts # <<>>, NEW q \in Seq(Messages),
         NEW m \in Seq(Nat), NEW n \in Nat, Line(wire, c.parts, q, m, n),
         calls[Id(c)] = 0, Called(calls, threw, q, n),
         SendFailed(c), current' = c, sendQueue' = q,
         UNCHANGED <<wire, threw, sent, room>>
  PROVE  SendTyped' /\ StackInv' /\ SendLine(m, n)'
<1>1. wire \in Seq(Nat)
  BY IdsAreNumbers DEF SendTyped
<1>2. \A i \in DOMAIN stack : stack[i] # "send"
  BY DEF StackInv
<1>3. CASE ~(c.cb \/ app.listener)
  <2>1. sendLoop' = "off" /\ rejected' = TRUE /\ UNCHANGED <<stack, calls>>
    BY <1>3 DEF SendFailed
  <2>2. SendTyped'
    BY <2>1 DEF SendTyped
  <2>3. StackInv'
    BY <1>2, <2>1 DEF StackInv
  <2> QED  BY <2>1, <2>2, <2>3 DEF SendLine, CurrentCalls
<1>4. CASE c.cb \/ app.listener
  <2>1. /\ sendLoop' = "cbErr" /\ stack' = <<"send">> \o stack
        /\ rejected' = rejected
        /\ calls' = calls \/ calls' = OneMore(calls, Id(c))
    BY <1>4 DEF SendFailed, OneMore
  <2>2. calls' \in [Ids -> Nat] /\ Called(calls', threw, q, n)
    <3>1. calls \in [Ids -> Nat]
      BY DEF SendTyped
    <3>2. /\ OneMore(calls, Id(c)) \in [Ids -> Nat]
          /\ Called(OneMore(calls, Id(c)), threw, q, n)
      BY <1>1, <3>1, CallKeeps
    <3> QED  BY <2>1, <3>1, <3>2
  <2>3. /\ stack' \in Seq({"task", "tick", "send"} \cup MonitorLoops)
        /\ \A i \in DOMAIN stack' : i = 1 \/ stack'[i] # "send"
    BY <1>2, <2>1 DEF SendTyped
  <2>4. SendTyped'
    BY <2>1, <2>2, <2>3 DEF SendTyped
  <2>5. StackInv'
    BY <2>1, <2>3 DEF StackInv
  <2> QED  BY <2>1, <2>2, <2>4, <2>5 DEF SendLine, CurrentCalls
<1> QED  BY <1>3, <1>4

(* The _flushSend handler runs with a queue that may have grown.           *)
LEMMA SendHandlerKeeps ==
  ASSUME SendTyped, StackInv, sendLoop \in {"armed", "step"},
         NEW q \in Seq(Messages), NEW m \in Seq(Nat), NEW n \in Nat,
         Line(wire, current.parts, q, m, n), Called(calls, threw, q, n),
         NEW isPaused \in BOOLEAN, SendHandler(isPaused, q), UNCHANGED threw
  PROVE  SendTyped' /\ StackInv' /\ SendLine(m, n)'
<1>1. wire \in Seq(Nat) /\ current.parts \in Seq(Nat)
  BY IdsAreNumbers DEF SendTyped
<1>2. CASE /\ sendLoop' \in {"off", "armed"} /\ sendQueue' = q /\ rejected' \in BOOLEAN
           /\ UNCHANGED <<current, sent, room, wire, stack, calls>>
  <2>1. SendTyped'
    BY <1>2 DEF SendTyped
  <2>2. StackInv'
    BY <1>2 DEF StackInv
  <2> QED  BY <1>2, <2>1, <2>2 DEF SendLine, CurrentCalls
<1>3. CASE q # <<>> /\ SendMessage(Head(q), Tail(q), q) /\ app.kind # "reader"
  <2> DEFINE c == Head(q)
             r == Tail(q)
  <2>1. /\ c \in Messages /\ r \in Seq(Messages) /\ c.parts # <<>>
        /\ Before(wire, c.parts) /\ Line(wire, c.parts, r, m, n)
        /\ c = q[1] /\ 1 \in DOMAIN q
        /\ \A k \in DOMAIN r : k + 1 \in DOMAIN q /\ r[k] = q[k + 1]
    BY <1>1, <1>3, LineMoves
  <2>2. current' = c /\ sendQueue' = r
    BY <1>3 DEF SendMessage
  <2> HIDE DEF c, r
  <2>3. calls[Id(c)] = 0 /\ Called(calls, threw, r, n)
    BY <2>1 DEF Called
  <2>4. CASE SendFailed(c) /\ UNCHANGED <<sent, room, wire>>
    BY <2>1, <2>2, <2>3, <2>4, SendFailedKeeps
  <2>5. CASE NativeSend(c) /\ UNCHANGED <<stack, calls, rejected>>
    <3>1. /\ sendLoop' = "got" /\ wire' \in {wire, wire \o c.parts}
          /\ sent' \in BOOLEAN /\ room' \in BOOLEAN
      BY <2>5 DEF NativeSend, SendTyped
    <3>2. Line(wire', c.parts, r, m, n)
      <4>1. c.parts \in Seq(Nat)
        BY <2>1, IdsAreNumbers
      <4> QED  BY <1>1, <2>1, <3>1, <4>1, LineSends
    <3>3. wire' \in Seq(Ids)
      <4>1. wire \in Seq(Ids) /\ c.parts \in Seq(Ids)
        BY <2>1 DEF SendTyped, Messages
      <4> QED  BY ONLY <3>1, <4>1, ConcatProperties
    <3>4. SendTyped'
      BY <2>1, <2>2, <2>5, <3>1, <3>3 DEF SendTyped
    <3>5. StackInv'
      BY <2>5, <3>1 DEF StackInv
    <3> QED  BY <2>1, <2>2, <2>3, <2>5, <3>1, <3>2, <3>4, <3>5 DEF SendLine, CurrentCalls
  <2>6. CASE /\ sendLoop' \in {"wait", "delayed"} /\ sent' = FALSE
             /\ UNCHANGED <<room, wire, stack, calls, rejected>>
    <3>1. SendTyped'
      BY <2>1, <2>2, <2>6 DEF SendTyped
    <3>2. StackInv'
      BY <2>6 DEF StackInv
    <3> QED  BY <2>1, <2>2, <2>3, <2>6, <3>1, <3>2 DEF SendLine, CurrentCalls
  <2> QED  BY <1>3, <2>4, <2>5, <2>6 DEF SendMessage, c, r
<1>4. CASE q # <<>> /\ SendMessage(Head(q), Tail(q), q) /\ app.kind = "reader"
  <2>1. /\ sendLoop' = "off" /\ sendQueue' = q /\ rejected' = TRUE
        /\ UNCHANGED <<current, sent, room, wire, stack, calls>>
    BY <1>4 DEF SendMessage
  <2> QED  BY <1>2, <2>1
<1>5. CASE ~(state # "Closed" /\ ~isPaused /\ q # <<>>)
  <2>1. /\ sendLoop' \in {"off", "armed"} /\ sendQueue' = q
        /\ UNCHANGED <<current, sent, room, wire, stack, calls, rejected>>
    BY <1>5 DEF SendHandler
  <2> QED  BY <1>2, <2>1 DEF SendTyped
<1> QED  BY <1>3, <1>4, <1>5 DEF SendHandler

SendOK == SendTyped /\ StackInv /\ SendInv /\ msg \in Seq(Ids) /\ moves \in 0 .. MaxMoves

LEMMA SendNumbers ==
  ASSUME SendOK
  PROVE  /\ wire \in Seq(Nat) /\ current.parts \in Seq(Nat) /\ msg \in Seq(Nat)
         /\ moves \in Nat /\ sendQueue \in Seq(Messages) /\ current \in Messages
         /\ calls \in [Ids -> Nat]
BY IdsAreNumbers DEF SendOK, SendTyped

(* Application code that returns leaves the rest of the stack.             *)
LEMMA StackReturns ==
  ASSUME SendOK, stack # <<>>, stack' = Tail(stack)
  PROVE  /\ stack' \in Seq({"task", "tick", "send"} \cup MonitorLoops)
         /\ \A i \in DOMAIN stack' : stack'[i] = "send" =>
              Head(stack) # "send" /\ sendLoop \in {"cb", "cbErr"}
         /\ \A i, j \in DOMAIN stack' : stack'[i] = "send" /\ stack'[j] = "send" => i = j
         /\ Head(stack) = "send" => sendLoop \in {"cb", "cbErr"}
<1>1. /\ DOMAIN stack = 1 .. Len(stack) /\ DOMAIN stack' = 1 .. Len(stack) - 1
      /\ \A i \in 1 .. Len(stack) - 1 : stack'[i] = stack[i + 1]
      /\ stack' \in Seq({"task", "tick", "send"} \cup MonitorLoops)
      /\ Head(stack) = stack[1] /\ Len(stack) \in Nat \ {0}
  BY DEF SendOK, SendTyped
<1>2. \A i \in DOMAIN stack' : i + 1 \in DOMAIN stack /\ i + 1 # 1 /\ 1 \in DOMAIN stack
                               /\ stack'[i] = stack[i + 1]
  BY <1>1
<1>3. /\ \A i \in DOMAIN stack : stack[i] = "send" => sendLoop \in {"cb", "cbErr"}
      /\ \A i, j \in DOMAIN stack : stack[i] = "send" /\ stack[j] = "send" => i = j
  BY DEF SendOK, StackInv
<1>4. ASSUME NEW i \in DOMAIN stack', stack'[i] = "send"
      PROVE  Head(stack) # "send" /\ sendLoop \in {"cb", "cbErr"}
  BY <1>1, <1>2, <1>3, <1>4
<1>5. ASSUME NEW i \in DOMAIN stack', NEW j \in DOMAIN stack',
             stack'[i] = "send", stack'[j] = "send"
      PROVE  i = j
  <2>1. i + 1 = j + 1
    BY <1>2, <1>3, <1>5
  <2> QED  BY <1>1, <2>1
<1>6. Head(stack) = "send" => sendLoop \in {"cb", "cbErr"}
  <2>1. 1 \in DOMAIN stack
    BY <1>1
  <2> QED  BY <1>1, <1>3, <2>1
<1> QED  BY <1>1, <1>4, <1>5, <1>6

(* Steps that leave the send loop alone.                                   *)
LEMMA SendUnchangedKeeps ==
  ASSUME SendOK, UNCHANGED <<sendVars, wire, calls, threw, rejected, msg>>,
         room' \in BOOLEAN, moves' \in {moves, moves + 1}, moves' \in 0 .. MaxMoves,
         \/ stack' = stack
         \/ stack # <<>> /\ stack' = Tail(stack) /\ Head(stack) # "send"
         \/ \E x \in {"task", "tick"} \cup MonitorLoops : stack' = <<x>>
  PROVE  SendOK'
<1>1. Line(wire, current.parts, sendQueue, msg, moves')
  <2>1. Line(wire, current.parts, sendQueue, msg, moves)
    BY DEF SendOK, SendInv, SendLine
  <2> QED  BY <2>1, SendNumbers, LineSkips
<1>2. Called(calls, threw, sendQueue, moves')
  <2>1. Called(calls, threw, sendQueue, moves) /\ moves \in Nat /\ Ids \subseteq Nat
    BY SendNumbers, IdsAreNumbers DEF SendOK, SendInv, SendLine
  <2> QED  BY <2>1 DEF Called
<1>3. SendInv'
  BY <1>1, <1>2 DEF SendOK, SendInv, SendLine, CurrentCalls, sendVars
<1>4. /\ stack' \in Seq({"task", "tick", "send"} \cup MonitorLoops) /\ StackInv'
  <2>1. CASE stack' = stack
    BY <2>1 DEF SendOK, SendTyped, StackInv, sendVars
  <2>2. CASE stack # <<>> /\ stack' = Tail(stack) /\ Head(stack) # "send"
    BY <2>2, StackReturns DEF StackInv, sendVars
  <2>3. CASE \E x \in {"task", "tick"} \cup MonitorLoops : stack' = <<x>>
    <3>1. PICK x \in {"task", "tick"} \cup MonitorLoops : stack' = <<x>>
      BY <2>3
    <3>2. x # "send"
      BY DEF MonitorLoops
    <3> QED  BY <3>1, <3>2 DEF StackInv
  <2> QED  BY <2>1, <2>2, <2>3
<1>5. SendTyped'
  BY <1>4 DEF SendOK, SendTyped, sendVars
<1> QED  BY <1>3, <1>4, <1>5 DEF SendOK

(* The callback of send() returns, or throws on an error.                  *)
LEMMA CallbackEnds ==
  ASSUME SendOK, stack # <<>>, stack' = Tail(stack), Head(stack) = "send",
         UNCHANGED <<current, sent, sendQueue, wire, calls, msg, moves, room>>,
         rejected' \in BOOLEAN, sendLoop' \in {"step", "off"},
         threw' = threw \/ threw' = threw \cup {Id(current)}
  PROVE  SendOK'
<1>1. sendLoop \in {"cb", "cbErr"}
  BY StackReturns
<1>2. StackInv' /\ stack' \in Seq({"task", "tick", "send"} \cup MonitorLoops)
  BY StackReturns DEF StackInv
<1>3. current.parts # <<>> /\ Line(wire, current.parts, sendQueue, msg, moves)
      /\ Called(calls, threw, sendQueue, moves)
  BY <1>1 DEF SendOK, SendInv, SendLine
<1>4. Id(current) \in Ids
  BY <1>3, SendNumbers, IdOfCurrent
<1>5. SendTyped'
  BY <1>2, <1>4 DEF SendOK, SendTyped
<1>6. Called(calls, threw', sendQueue, moves)
  <2>1. threw \subseteq threw'
    OBVIOUS
  <2>2. ASSUME NEW i \in Ids PROVE calls[i] <= IF i \in threw' THEN 2 ELSE 1
    <3>1. calls[i] \in Nat /\ calls[i] <= IF i \in threw THEN 2 ELSE 1
      BY <1>3, SendNumbers DEF Called
    <3> QED  BY <2>1, <3>1
  <2> QED  BY <1>3, <2>2 DEF Called
<1>7. SendInv'
  BY <1>3, <1>6 DEF SendInv, SendLine, CurrentCalls
<1> QED  BY <1>2, <1>5, <1>7 DEF SendOK

LEMMA ThrowKeeps ==
  ASSUME SendOK, Throw
  PROVE  SendOK'
<1>1. /\ stack # <<>> /\ Head(stack) = "send"
      /\ UNCHANGED <<current, sent, sendQueue, wire, msg, moves, room>>
      /\ threw' = IF current.cb THEN threw \cup {Id(current)} ELSE threw
  BY DEF Throw, Running, native
<1>2. CASE sendLoop = "cb"
  <2>1. /\ sendLoop' = "cbErr" /\ calls' = OneMore(calls, Id(current))
        /\ UNCHANGED <<stack, rejected>>
    BY <1>2 DEF Throw, OneMore
  <2>2. /\ current.parts # <<>> /\ calls[Id(current)] = 1
        /\ Line(wire, current.parts, sendQueue, msg, moves)
        /\ Called(calls, threw, sendQueue, moves) /\ current.cb
    BY <1>2 DEF SendOK, SendInv, SendLine, CurrentCalls
  <2>3. Id(current) \in Ids /\ threw' = threw \cup {Id(current)}
    BY <1>1, <2>2, SendNumbers, IdOfCurrent
  <2>4. calls' \in [Ids -> Nat] /\ Called(calls', threw', sendQueue, moves)
    <3> DEFINE t == threw
               u == threw'
    <3>1. t \subseteq u /\ Id(current) \in u /\ Called(calls, t, sendQueue, moves)
      BY <2>2, <2>3
    <3> HIDE DEF t, u
    <3>2. /\ OneMore(calls, Id(current)) \in [Ids -> Nat]
          /\ Called(OneMore(calls, Id(current)), u, sendQueue, moves)
      BY <2>2, <3>1, SendNumbers, CallKeeps
    <3> QED  BY <2>1, <3>2 DEF u
  <2>5. SendTyped'
    BY <1>1, <2>1, <2>3, <2>4 DEF SendOK, SendTyped
  <2>6. StackInv'
    BY <2>1 DEF SendOK, StackInv
  <2>7. SendInv'
    BY <1>1, <2>1, <2>2, <2>4 DEF SendInv, SendLine, CurrentCalls
  <2> QED  BY <1>1, <2>5, <2>6, <2>7 DEF SendOK
<1>3. CASE sendLoop # "cb"
  <2>1. sendLoop' = "off" /\ rejected' = TRUE /\ stack' = Tail(stack) /\ calls' = calls
    BY <1>3 DEF Throw
  <2> QED  BY <1>1, <2>1, CallbackEnds
<1> QED  BY <1>2, <1>3

(* A handler that is not registered does not hear the event.               *)
LEMMA FlushSendKeeps ==
  ASSUME SendOK, NEW q \in Seq(Messages), NEW m \in Seq(Nat), NEW n \in Nat,
         Line(wire, current.parts, q, m, n), Called(calls, threw, q, n),
         NEW isPaused \in BOOLEAN, UNCHANGED threw,
         \/ FlushSend(isPaused, q)
         \/ /\ sendQueue' = q
            /\ UNCHANGED <<sendLoop, current, sent, room, wire, stack, calls, rejected>>
  PROVE  SendTyped' /\ StackInv' /\ SendLine(m, n)'
<1>1. CASE sendLoop = "armed" /\ SendHandler(isPaused, q)
  BY <1>1, SendHandlerKeeps DEF SendOK
<1>2. CASE /\ sendQueue' = q
           /\ UNCHANGED <<sendLoop, current, sent, room, wire, stack, calls, rejected>>
  <2>1. SendTyped' /\ StackInv'
    BY <1>2 DEF SendOK, SendTyped, StackInv
  <2>2. SendLine(m, n)'
    BY <1>2 DEF SendOK, SendInv, SendLine, CurrentCalls
  <2> QED  BY <2>1, <2>2
<1> QED  BY <1>1, <1>2 DEF FlushSend

LEMMA SendKeeps ==
  ASSUME SendOK, NEW cb \in BOOLEAN, Send(cb), moves + 1 \in Ids,
         app.moves \in 0 .. MaxMoves, paused \in BOOLEAN
  PROVE  SendOK'
<1> DEFINE message == [parts |-> Append(msg, moves + 1), cb |-> cb]
           queue == Append(sendQueue, message)
<1>1. /\ msg' = <<>> /\ moves' = moves + 1 /\ UNCHANGED threw
      /\ \/ FlushSend(paused, queue)
         \/ /\ sendQueue' = queue
            /\ UNCHANGED <<sendLoop, current, sent, room, wire, stack, calls, rejected>>
  BY DEF Send, Call
<1>2. Line(wire, current.parts, sendQueue, msg, moves) /\ Called(calls, threw, sendQueue, moves)
  BY DEF SendOK, SendInv, SendLine
<1>3. /\ queue \in Seq(Messages) /\ message \in Messages
      /\ Line(wire, current.parts, queue, <<>>, moves + 1)
      /\ Id(message) = moves + 1
  <2>1. msg \in Seq(Ids) /\ wire \in Seq(Nat) /\ current.parts \in Seq(Nat)
        /\ moves \in Nat /\ sendQueue \in Seq(Messages)
    BY SendNumbers DEF SendOK
  <2>2. message \in Messages
    BY <2>1 DEF Messages
  <2> QED  BY <1>2, <2>1, <2>2, LineGrows
<1>4. Called(calls, threw, queue, moves + 1)
  <2>1. /\ DOMAIN queue = 1 .. Len(sendQueue) + 1 /\ DOMAIN sendQueue = 1 .. Len(sendQueue)
        /\ \A k \in 1 .. Len(sendQueue) : queue[k] = sendQueue[k]
        /\ queue[Len(sendQueue) + 1] = message /\ Len(sendQueue) \in Nat
    <3> HIDE DEF message
    <3> QED  BY ONLY <1>3, SendNumbers, SendOK, AppendProperties, LenProperties
  <2>2. moves \in Nat /\ Ids \subseteq Nat
    BY SendNumbers, IdsAreNumbers
  <2> HIDE DEF queue, message
  <2>3. \A k \in DOMAIN queue : calls[Id(queue[k])] = 0
    BY <1>2, <1>3, <2>1, <2>2 DEF Called
  <2> QED  BY <1>2, <2>2, <2>3 DEF Called
<1> HIDE DEF queue, message
<1>5. PICK q \in Seq(Messages), m \in Seq(Nat), n \in Nat : q = queue /\ m = msg' /\ n = moves'
  <2>1. queue \in Seq(Messages) /\ msg' \in Seq(Nat) /\ moves' \in Nat
    BY <1>1, <1>3, SendNumbers
  <2> QED  BY <2>1
<1>6. SendTyped' /\ StackInv' /\ SendLine(m, n)'
  BY <1>1, <1>3, <1>4, <1>5, FlushSendKeeps
<1>7. SendInv'
  BY <1>5, <1>6 DEF SendInv, SendLine
<1> QED  BY <1>1, <1>6, <1>7, IdsAreNumbers DEF SendOK, Ids

LEMMA SendMoreKeeps ==
  ASSUME SendOK, SendMore, moves + 1 \in Ids
  PROVE  SendOK'
<1>1. /\ msg' = Append(msg, moves + 1) /\ moves' = moves + 1
      /\ UNCHANGED <<sendVars, sendHist, stack, room>>
  BY DEF SendMore, Call, engine
<1>2. Line(wire, current.parts, sendQueue, msg, moves) /\ Called(calls, threw, sendQueue, moves)
  BY DEF SendOK, SendInv, SendLine
<1>3. Line(wire, current.parts, sendQueue, Append(msg, moves + 1), moves + 1)
  BY <1>2, SendNumbers, LineCollects
<1>4. Called(calls, threw, sendQueue, moves + 1)
  <2>1. moves \in Nat /\ Ids \subseteq Nat
    BY SendNumbers, IdsAreNumbers
  <2> QED  BY <1>2, <2>1 DEF Called
<1>5. SendInv'
  BY <1>1, <1>3, <1>4 DEF SendOK, SendInv, SendLine, CurrentCalls, sendVars, sendHist
<1>6. SendTyped' /\ StackInv'
  BY <1>1 DEF SendOK, SendTyped, StackInv, sendVars, sendHist
<1>7. msg' \in Seq(Ids) /\ moves' \in 0 .. MaxMoves
  BY <1>1 DEF SendOK, Ids
<1> QED  BY <1>5, <1>6, <1>7 DEF SendOK

(* A pending send() is settled: by the event loop, by close(), or after a  *)
(* receive().                                                              *)
LEMMA NativeSendKeeps ==
  ASSUME SendOK, sendLoop \in {"wait", "delayed"}, NativeSend(current),
         UNCHANGED <<current, sendQueue, calls, threw, msg, stack, rejected>>,
         moves' \in {moves, moves + 1}, moves' \in 0 .. MaxMoves
  PROVE  SendOK'
<1>1. /\ sendLoop' = "got" /\ wire' \in {wire, wire \o current.parts}
      /\ sent' \in BOOLEAN /\ room' \in BOOLEAN
  BY DEF NativeSend, SendOK, SendTyped
<1>2. /\ Line(wire, current.parts, sendQueue, msg, moves)
      /\ Called(calls, threw, sendQueue, moves) /\ Before(wire, current.parts)
      /\ current.parts # <<>> /\ calls[Id(current)] = 0
  BY DEF SendOK, SendInv, SendLine, CurrentCalls
<1>3. Line(wire', current.parts, sendQueue, msg, moves)
  BY <1>1, <1>2, SendNumbers, LineSends
<1>4. wire' \in Seq(Ids)
  <2>1. wire \in Seq(Ids) /\ current.parts \in Seq(Ids)
    BY DEF SendOK, SendTyped, Messages
  <2> QED  BY ONLY <1>1, <2>1, ConcatProperties
<1>5. Line(wire', current.parts, sendQueue, msg, moves')
  <2>1. wire' \in Seq(Nat)
    BY <1>4, IdsAreNumbers
  <2> QED  BY <1>3, <2>1, SendNumbers, LineSkips
<1>6. Called(calls, threw, sendQueue, moves')
  <2>1. moves \in Nat /\ Ids \subseteq Nat
    BY SendNumbers, IdsAreNumbers
  <2> QED  BY <1>2, <2>1 DEF Called
<1>7. SendTyped' /\ StackInv'
  BY <1>1, <1>4 DEF SendOK, SendTyped, StackInv
<1>8. SendInv'
  BY <1>1, <1>2, <1>5, <1>6 DEF SendInv, SendLine, CurrentCalls
<1> QED  BY <1>7, <1>8 DEF SendOK

(* What may happen to a pending send() in any other step.                  *)
SendAtMost ==
  \/ UNCHANGED <<sendLoop, sent, wire, room>>
  \/ sendLoop \in {"wait", "delayed"} /\ NativeSend(current)

LEMMA SendAtMostKeeps ==
  ASSUME SendOK, SendAtMost,
         UNCHANGED <<current, sendQueue, calls, threw, msg, stack, rejected>>,
         moves' \in {moves, moves + 1}, moves' \in 0 .. MaxMoves
  PROVE  SendOK'
<1>1. room \in BOOLEAN
  BY DEF SendOK, SendTyped
<1> QED  BY <1>1, NativeSendKeeps, SendUnchangedKeeps DEF SendAtMost, sendVars

LEMMA AfterReceiveAtMost == ASSUME AfterReceive PROVE SendAtMost
BY DEF AfterReceive, SendAtMost

LEMMA CloseNowSendsAtMost == ASSUME CloseNow PROVE SendAtMost
BY DEF CloseNow, SendAtMost

(* resume(), and the handler that goes on after _send().                   *)
LEMMA ResumeKeeps ==
  ASSUME SendOK, Resume, moves + 1 \in Ids
  PROVE  SendOK'
<1>1. /\ msg' = msg /\ moves' = moves + 1 /\ threw' = threw /\ moves' \in Ids
      /\ moves' \in 0 .. MaxMoves
  BY DEF Resume, Call, Ids
<1>2. Line(wire, current.parts, sendQueue, msg, moves) /\ Called(calls, threw, sendQueue, moves)
  BY DEF SendOK, SendInv, SendLine
<1>3. Line(wire, current.parts, sendQueue, msg, moves + 1)
  BY <1>2, SendNumbers, LineSkips
<1>4. Called(calls, threw, sendQueue, moves + 1)
  <2>1. moves \in Nat /\ Ids \subseteq Nat
    BY SendNumbers, IdsAreNumbers
  <2> QED  BY <1>2, <2>1 DEF Called
<1>5. PICK q \in Seq(Messages), m \in Seq(Nat), n \in Nat :
        q = sendQueue /\ m = msg' /\ n = moves'
  BY <1>1, SendNumbers
<1>6. CASE sendLoop = "armed"
  <2>1. SendHandler(FALSE, q)
    BY <1>5, <1>6 DEF Resume, FlushSend
  <2>2. SendTyped' /\ StackInv' /\ SendLine(m, n)'
    BY <1>1, <1>3, <1>4, <1>5, <1>6, <2>1, SendHandlerKeeps DEF SendOK
  <2>3. SendInv'
    BY <1>5, <2>2 DEF SendInv, SendLine
  <2> QED  BY <1>1, <2>2, <2>3 DEF SendOK
<1>7. CASE sendLoop # "armed"
  <2>1. /\ SendAtMost
        /\ UNCHANGED <<current, sendQueue, calls, threw, msg, stack, rejected>>
    BY <1>7, AfterReceiveAtMost DEF Resume, FlushSend, SendAtMost
  <2> QED  BY <1>1, <2>1, SendAtMostKeeps
<1> QED  BY <1>6, <1>7

LEMMA SendStepKeeps ==
  ASSUME SendOK, SendStep, paused \in BOOLEAN
  PROVE  SendOK'
<1>1. /\ msg' = msg /\ moves' = moves /\ threw' = threw /\ SendHandler(paused, sendQueue)
      /\ sendLoop = "step"
  BY DEF SendStep
<1>2. Line(wire, current.parts, sendQueue, msg, moves) /\ Called(calls, threw, sendQueue, moves)
  BY DEF SendOK, SendInv, SendLine
<1>5. PICK q \in Seq(Messages), m \in Seq(Nat), n \in Nat :
        q = sendQueue /\ m = msg' /\ n = moves'
  BY <1>1, SendNumbers
<1>6. SendTyped' /\ StackInv' /\ SendLine(m, n)'
  BY <1>1, <1>2, <1>5, SendHandlerKeeps DEF SendOK
<1>7. SendInv'
  BY <1>5, <1>6 DEF SendInv, SendLine
<1> QED  BY <1>1, <1>6, <1>7 DEF SendOK

LEMMA SendGotKeeps ==
  ASSUME SendOK, SendGot
  PROVE  SendOK'
<1>1. /\ UNCHANGED <<current, sent, sendQueue, wire, threw, msg, moves, room>>
      /\ sendLoop = "got" /\ stack = <<>>
  BY DEF SendGot, native, InMicrotask
<1>2. /\ Line(wire, current.parts, sendQueue, msg, moves)
      /\ Called(calls, threw, sendQueue, moves)
      /\ current.parts # <<>> /\ calls[Id(current)] = 0
  BY <1>1 DEF SendOK, SendInv, SendLine, CurrentCalls
<1>3. PICK q \in Seq(Messages), c \in Messages, m \in Seq(Nat), n \in Nat :
        q = sendQueue /\ c = current /\ m = msg /\ n = moves
  BY SendNumbers
<1>4. CASE /\ sent /\ current.cb /\ sendLoop' = "cb" /\ stack' = <<"send">>
           /\ calls' = [calls EXCEPT ![Id(current)] = @ + 1] /\ UNCHANGED rejected
  <2>1. calls' = OneMore(calls, Id(current))
    BY <1>4 DEF OneMore
  <2>2. /\ calls' \in [Ids -> Nat] /\ calls'[Id(current)] = 1
        /\ Called(calls', threw, sendQueue, moves)
    <3>1. /\ OneMore(calls, Id(c)) \in [Ids -> Nat]
          /\ OneMore(calls, Id(c))[Id(c)] = calls[Id(c)] + 1
          /\ Called(OneMore(calls, Id(c)), threw, q, n)
      <4>1. /\ Line(wire, c.parts, q, m, n) /\ Called(calls, threw, q, n)
            /\ c.parts # <<>> /\ calls[Id(c)] = 0
        BY <1>2, <1>3
      <4>2. calls \in [Ids -> Nat] /\ wire \in Seq(Nat)
        BY SendNumbers
      <4> QED  BY ONLY <4>1, <4>2, CallKeeps
    <3> QED  BY <1>2, <1>3, <2>1, <3>1
  <2>3. SendTyped' /\ StackInv'
    BY <1>1, <1>4, <2>2 DEF SendOK, SendTyped, StackInv
  <2>4. SendInv'
    BY <1>1, <1>2, <1>4, <2>2 DEF SendInv, SendLine, CurrentCalls
  <2> QED  BY <1>1, <2>3, <2>4 DEF SendOK
<1>5. CASE sendLoop' = "step" /\ UNCHANGED <<stack, calls, rejected>>
  <2>1. SendTyped' /\ StackInv'
    BY <1>1, <1>5 DEF SendOK, SendTyped, StackInv
  <2>2. SendInv'
    BY <1>1, <1>2, <1>5 DEF SendInv, SendLine, CurrentCalls
  <2> QED  BY <1>1, <2>1, <2>2 DEF SendOK
<1>6. CASE SendFailed(current)
  <2>1. SendTyped' /\ StackInv' /\ SendLine(m, n)'
    BY <1>1, <1>2, <1>3, <1>6, SendFailedKeeps DEF SendOK
  <2>2. SendInv'
    BY <1>1, <1>3, <2>1 DEF SendInv, SendLine
  <2> QED  BY <1>1, <2>1, <2>2 DEF SendOK
<1> QED  BY <1>4, <1>5, <1>6 DEF SendGot

-----------------------------------------------------------------------------
(* All together.                                                           *)

OtherTyped ==
  /\ app \in Apps
  /\ phase \in {"loop", "ticks", "micro", "exited", "hung"}
  /\ moves \in 0 .. app.moves
  /\ state \in {"Open", "Blocked", "Closed"}
  /\ requestClose \in BOOLEAN
  /\ job \in {"none", "running", "settled"}
  /\ paused \in BOOLEAN
  /\ observer \in {"none", "open", "closed"}
  /\ notices \in 0 .. 1
  /\ monitors \in [MonitorLoops -> {"off", "wait", "got", "emit", "failed"}]
  /\ binds \in [started : Nat, called : Nat]

Parts == OtherTyped /\ PhaseInv /\ RecvOK /\ SendOK

LEMMA AppMoves ==
  ASSUME OtherTyped
  PROVE  /\ app.moves \in 0 .. MaxMoves /\ moves \in 0 .. MaxMoves
         /\ moves < app.moves => moves + 1 \in 0 .. app.moves /\ moves + 1 \in Ids
<1>1. app.moves \in 0 .. MaxMoves /\ MaxMoves \in Nat /\ moves \in 0 .. app.moves
  BY AppsAssumption, IdsAreNumbers DEF AppType, OtherTyped
<1> QED  BY <1>1 DEF Ids

LEMMA PartsOfIInv == IInv <=> Parts
<1>1. TypeOK <=> OtherTyped /\ RecvTyped /\ SendTyped /\ msg \in Seq(Ids)
  BY DEF TypeOK, OtherTyped, RecvTyped, SendTyped, Tick
<1>2. OtherTyped => moves \in 0 .. MaxMoves
  BY AppMoves
<1> QED  BY <1>1, <1>2 DEF IInv, Parts, RecvOK, SendOK

(* A method that does not send.                                            *)
LEMMA CallIdle ==
  ASSUME SendOK, OtherTyped, moves < app.moves, moves' = moves + 1,
         UNCHANGED <<sendVars, wire, calls, threw, rejected, msg, room>>,
         \/ stack' = stack
         \/ \E x \in {"task", "tick"} \cup MonitorLoops : stack' = <<x>>
  PROVE  SendOK'
<1>1. moves' \in 0 .. MaxMoves /\ room' \in BOOLEAN
  BY AppMoves, IdsAreNumbers DEF SendOK, SendTyped, Ids
<1> QED  BY <1>1, SendUnchangedKeeps

LEMMA PartsNext == Parts /\ [Next]_vars => Parts'
<1> SUFFICES ASSUME OtherTyped, PhaseInv, RecvOK, SendOK, [Next]_vars
             PROVE  Parts'
  BY DEF Parts
<1> USE DEF native, engine, recvVars, sendVars, monVars, sendHist, Call
<1>1. ASSUME NEW cb \in BOOLEAN, Send(cb) PROVE Parts'
  <2>1. OtherTyped'
    BY <1>1, AppMoves, ProceedKeeps DEF Send, OtherTyped
  <2>2. PhaseInv'
    BY <1>1, ProceedPhase DEF Send
  <2>3. RecvOK'
    <3>1. ReceiveAtMost
      BY <1>1, AfterSendAtMost DEF Send, FlushSend, ReceiveAtMost
    <3> QED  BY <1>1, <3>1, ReceiveAtMostKeeps DEF Send
  <2>4. SendOK'
    <3>1. moves + 1 \in Ids /\ app.moves \in 0 .. MaxMoves /\ paused \in BOOLEAN
      BY <1>1, AppMoves DEF Send, OtherTyped
    <3> QED  BY <1>1, <3>1, SendKeeps
  <2> QED  BY <2>1, <2>2, <2>3, <2>4 DEF Parts
<1>2. ASSUME SendMore PROVE Parts'
  <2>1. OtherTyped'
    BY <1>2, AppMoves DEF SendMore, OtherTyped
  <2>2. PhaseInv'
    BY <1>2 DEF SendMore, PhaseInv
  <2>3. RecvOK'
    BY <1>2, RecvUnchangedKeeps DEF SendMore
  <2>4. SendOK'
    BY <1>2, SendMoreKeeps, AppMoves DEF SendMore
  <2> QED  BY <2>1, <2>2, <2>3, <2>4 DEF Parts
<1>3. ASSUME Pause PROVE Parts'
  <2>1. OtherTyped'
    BY <1>3, AppMoves DEF Pause, OtherTyped
  <2>2. PhaseInv'
    BY <1>3 DEF Pause, PhaseInv
  <2>3. RecvOK'
    BY <1>3, RecvUnchangedKeeps DEF Pause
  <2>4. SendOK'
    BY <1>3, CallIdle DEF Pause
  <2> QED  BY <2>1, <2>2, <2>3, <2>4 DEF Parts
<1>4. ASSUME Resume PROVE Parts'
  <2>1. OtherTyped'
    BY <1>4, AppMoves, ProceedKeeps DEF Resume, OtherTyped
  <2>2. PhaseInv'
    BY <1>4, ProceedPhase DEF Resume
  <2>3. RecvOK'
    <3>1. CASE recvLoop = "armed"
      BY <1>4, <3>1, RecvHandlerKeeps DEF Resume
    <3>2. CASE recvLoop # "armed"
      <4>1. ReceiveAtMost
        BY <1>4, <3>2, AfterSendAtMost DEF Resume, FlushSend, ReceiveAtMost
      <4> QED  BY <1>4, <3>2, <4>1, ReceiveAtMostKeeps DEF Resume
    <3> QED  BY <3>1, <3>2
  <2>4. SendOK'
    BY <1>4, ResumeKeeps, AppMoves DEF Resume
  <2> QED  BY <2>1, <2>2, <2>3, <2>4 DEF Parts
<1>5. ASSUME Close PROVE Parts'
  <2>1. OtherTyped'
    BY <1>5, AppMoves DEF Close, CloseNow, OtherTyped
  <2>2. PhaseInv'
    BY <1>5 DEF Close, PhaseInv
  <2>3. RecvOK'
    <3>1. ReceiveAtMost
      BY <1>5, CloseNowAtMost DEF Close, ReceiveAtMost
    <3> QED  BY <1>5, <3>1, ReceiveAtMostKeeps DEF Close
  <2>4. SendOK'
    <3>1. SendAtMost
      BY <1>5, CloseNowSendsAtMost DEF Close, SendAtMost
    <3>2. moves' = moves + 1 /\ moves' \in 0 .. MaxMoves
      BY <1>5, AppMoves DEF Close, Ids
    <3> QED  BY <1>5, <3>1, <3>2, SendAtMostKeeps DEF Close
  <2> QED  BY <2>1, <2>2, <2>3, <2>4 DEF Parts
<1>6. ASSUME Bind PROVE Parts'
  <2>1. OtherTyped'
    BY <1>6, AppMoves DEF Bind, OtherTyped
  <2>2. PhaseInv'
    BY <1>6 DEF Bind, PhaseInv
  <2>3. RecvOK'
    BY <1>6, RecvUnchangedKeeps DEF Bind
  <2>4. SendOK'
    BY <1>6, CallIdle DEF Bind
  <2> QED  BY <2>1, <2>2, <2>3, <2>4 DEF Parts
<1>7. ASSUME Monitor PROVE Parts'
  <2>1. OtherTyped'
    BY <1>7, AppMoves DEF Monitor, MonitorRead, OtherTyped
  <2>2. PhaseInv'
    BY <1>7 DEF Monitor, PhaseInv, Running
  <2>3. RecvOK'
    BY <1>7, RecvUnchangedKeeps DEF Monitor
  <2>4. SendOK'
    BY <1>7, CallIdle DEF Monitor
  <2> QED  BY <2>1, <2>2, <2>3, <2>4 DEF Parts
<1>8. ASSUME Unmonitor PROVE Parts'
  <2>1. OtherTyped'
    BY <1>8, AppMoves DEF Unmonitor, OtherTyped
  <2>2. PhaseInv'
    BY <1>8 DEF Unmonitor, PhaseInv
  <2>3. RecvOK'
    BY <1>8, RecvUnchangedKeeps DEF Unmonitor
  <2>4. SendOK'
    BY <1>8, CallIdle DEF Unmonitor
  <2> QED  BY <2>1, <2>2, <2>3, <2>4 DEF Parts
<1>9. ASSUME Return PROVE Parts'
  <2>1. OtherTyped'
    BY <1>9, AppMoves, ProceedKeeps DEF Return, MonitorRead, OtherTyped
  <2>2. PhaseInv'
    BY <1>9, ProceedPhase DEF Return, PhaseInv
  <2>3. RecvOK'
    BY <1>9, RecvUnchangedKeeps DEF Return
  <2>4. SendOK'
    <3>1. CASE Head(stack) = "send"
      BY <1>9, <3>1, CallbackEnds
         DEF Return, Running, native, sendHist, SendOK, SendTyped
    <3>2. CASE Head(stack) # "send"
      BY <1>9, <3>2, SendUnchangedKeeps, AppMoves
         DEF Return, Running, native, sendHist, SendOK, SendTyped
    <3> QED  BY <3>1, <3>2
  <2> QED  BY <2>1, <2>2, <2>3, <2>4 DEF Parts
<1>10. ASSUME Throw PROVE Parts'
  <2>1. OtherTyped'
    BY <1>10, ProceedKeeps DEF Throw, OtherTyped
  <2>2. PhaseInv'
    BY <1>10, ProceedPhase DEF Throw
  <2>3. RecvOK'
    BY <1>10, RecvUnchangedKeeps DEF Throw
  <2>4. SendOK'
    BY <1>10, ThrowKeeps
  <2> QED  BY <2>1, <2>2, <2>3, <2>4 DEF Parts
<1>11. ASSUME RecvGot PROVE Parts'
  <2>1. OtherTyped'
    BY <1>11, ProceedKeeps DEF RecvGot, OtherTyped
  <2>2. PhaseInv'
    BY <1>11, ProceedPhase DEF RecvGot
  <2>3. RecvOK'
    BY <1>11, RecvGotKeeps
  <2>4. SendOK'
    BY <1>11, SendUnchangedKeeps, AppMoves DEF RecvGot, SendOK, SendTyped
  <2> QED  BY <2>1, <2>2, <2>3, <2>4 DEF Parts
<1>12. ASSUME RecvStep PROVE Parts'
  <2>1. OtherTyped'
    BY <1>12, ProceedKeeps DEF RecvStep, OtherTyped
  <2>2. PhaseInv'
    BY <1>12, ProceedPhase DEF RecvStep
  <2>3. RecvOK'
    BY <1>12, RecvHandlerKeeps DEF RecvStep, OtherTyped
  <2>4. SendOK'
    BY <1>12, AfterReceiveAtMost, SendAtMostKeeps, AppMoves DEF RecvStep
  <2> QED  BY <2>1, <2>2, <2>3, <2>4 DEF Parts
<1>13. ASSUME SendGot PROVE Parts'
  <2>1. OtherTyped'
    BY <1>13, ProceedKeeps DEF SendGot, OtherTyped
  <2>2. PhaseInv'
    BY <1>13, ProceedPhase DEF SendGot
  <2>3. RecvOK'
    BY <1>13, RecvUnchangedKeeps DEF SendGot
  <2>4. SendOK'
    BY <1>13, SendGotKeeps
  <2> QED  BY <2>1, <2>2, <2>3, <2>4 DEF Parts
<1>14. ASSUME SendStep PROVE Parts'
  <2>1. OtherTyped'
    BY <1>14, ProceedKeeps DEF SendStep, OtherTyped
  <2>2. PhaseInv'
    BY <1>14, ProceedPhase DEF SendStep
  <2>3. RecvOK'
    BY <1>14, AfterSendAtMost, ReceiveAtMostKeeps DEF SendStep
  <2>4. SendOK'
    BY <1>14, SendStepKeeps DEF OtherTyped
  <2> QED  BY <2>1, <2>2, <2>3, <2>4 DEF Parts
<1>15. ASSUME BindSettled PROVE Parts'
  <2>1. OtherTyped'
    BY <1>15, ProceedKeeps DEF BindSettled, OtherTyped
  <2>2. PhaseInv'
    BY <1>15, ProceedPhase DEF BindSettled
  <2>3. RecvOK'
    BY <1>15, OtherTicksKeep DEF BindSettled
  <2>4. SendOK'
    BY <1>15, SendUnchangedKeeps, AppMoves DEF BindSettled, SendOK, SendTyped
  <2> QED  BY <2>1, <2>2, <2>3, <2>4 DEF Parts
<1>16. ASSUME RunTick PROVE Parts'
  <2>1. OtherTyped'
    BY <1>16 DEF RunTick, OtherTyped
  <2>2. PhaseInv'
    BY <1>16 DEF RunTick, PhaseInv
  <2>3. RecvOK'
    BY <1>16, RunTickKeeps DEF RunTick, InTick, PhaseInv
  <2>4. SendOK'
    BY <1>16, SendUnchangedKeeps, AppMoves DEF RunTick, SendOK, SendTyped
  <2> QED  BY <2>1, <2>2, <2>3, <2>4 DEF Parts
<1>17. ASSUME NEW m \in MonitorLoops, MonitorGot(m) PROVE Parts'
  <2>1. OtherTyped'
    BY <1>17, ProceedKeeps DEF MonitorGot, OtherTyped
  <2>2. PhaseInv'
    BY <1>17, ProceedPhase DEF MonitorGot
  <2>3. RecvOK'
    BY <1>17, RecvUnchangedKeeps DEF MonitorGot
  <2>4. SendOK'
    BY <1>17, SendUnchangedKeeps, AppMoves DEF MonitorGot, SendOK, SendTyped
  <2> QED  BY <2>1, <2>2, <2>3, <2>4 DEF Parts
<1>18. ASSUME RecvCompletes \/ RecvDelayed PROVE Parts'
  <2>1. ReceiveSettles /\ recvLoop \in {"wait", "delayed"}
    BY <1>18 DEF RecvCompletes, RecvDelayed
  <2>2. OtherTyped'
    BY <2>1, ProceedKeeps DEF ReceiveSettles, OtherTyped
  <2>3. PhaseInv'
    BY <2>1, ProceedPhase DEF ReceiveSettles
  <2>4. RecvOK'
    BY <2>1, NativeReceiveKeeps DEF ReceiveSettles
  <2>5. SendOK'
    BY <2>1, SendUnchangedKeeps, AppMoves DEF ReceiveSettles, SendOK, SendTyped
  <2> QED  BY <2>2, <2>3, <2>4, <2>5 DEF Parts
<1>19. ASSUME SendCompletes \/ SendDelayed PROVE Parts'
  <2>1. SendSettles /\ sendLoop \in {"wait", "delayed"}
    BY <1>19 DEF SendCompletes, SendDelayed
  <2>2. OtherTyped'
    BY <2>1, ProceedKeeps DEF SendSettles, OtherTyped
  <2>3. PhaseInv'
    BY <2>1, ProceedPhase DEF SendSettles
  <2>4. RecvOK'
    BY <2>1, RecvUnchangedKeeps DEF SendSettles
  <2>5. SendOK'
    BY <2>1, NativeSendKeeps, AppMoves DEF SendSettles
  <2> QED  BY <2>2, <2>3, <2>4, <2>5 DEF Parts
<1>20. ASSUME JobDone PROVE Parts'
  <2>1. OtherTyped'
    BY <1>20, ProceedKeeps DEF JobDone, CloseNow, OtherTyped
  <2>2. PhaseInv'
    BY <1>20, ProceedPhase DEF JobDone
  <2>3. RecvOK'
    <3>1. ReceiveAtMost
      BY <1>20, CloseNowAtMost DEF JobDone, ReceiveAtMost
    <3> QED  BY <1>20, <3>1, ReceiveAtMostKeeps DEF JobDone
  <2>4. SendOK'
    <3>1. SendAtMost
      BY <1>20, CloseNowSendsAtMost DEF JobDone, SendAtMost
    <3> QED  BY <1>20, <3>1, SendAtMostKeeps, AppMoves DEF JobDone
  <2> QED  BY <2>1, <2>2, <2>3, <2>4 DEF Parts
<1>21. ASSUME Notice PROVE Parts'
  <2>1. OtherTyped'
    BY <1>21, ProceedKeeps DEF Notice, OtherTyped
  <2>2. PhaseInv'
    BY <1>21, ProceedPhase DEF Notice
  <2>3. RecvOK'
    BY <1>21, RecvUnchangedKeeps DEF Notice
  <2>4. SendOK'
    BY <1>21, SendUnchangedKeeps, AppMoves DEF Notice, SendOK, SendTyped
  <2> QED  BY <2>1, <2>2, <2>3, <2>4 DEF Parts
<1>22. ASSUME Task PROVE Parts'
  <2>1. OtherTyped'
    BY <1>22, AppMoves DEF Task, AtLoop, OtherTyped
  <2>2. PhaseInv'
    BY <1>22 DEF Task, PhaseInv
  <2>3. RecvOK'
    BY <1>22, RecvUnchangedKeeps DEF Task
  <2>4. SendOK'
    BY <1>22, CallIdle DEF Task
  <2> QED  BY <2>1, <2>2, <2>3, <2>4 DEF Parts
<1>23. ASSUME Arrive PROVE Parts'
  <2>1. OtherTyped'
    BY <1>23 DEF Arrive, OtherTyped
  <2>2. PhaseInv'
    BY <1>23 DEF Arrive, PhaseInv
  <2>3. RecvOK'
    BY <1>23, IdsAreNumbers
       DEF Arrive, RecvOK, RecvTyped, RecvInv, Delivery, InOrder, recvVars, engine
  <2>4. SendOK'
    BY <1>23, SendUnchangedKeeps, AppMoves DEF Arrive, SendOK, SendTyped
  <2> QED  BY <2>1, <2>2, <2>3, <2>4 DEF Parts
<1>24. ASSUME GiveRoom PROVE Parts'
  <2>1. OtherTyped'
    BY <1>24 DEF GiveRoom, OtherTyped
  <2>2. PhaseInv'
    BY <1>24 DEF GiveRoom, PhaseInv
  <2>3. RecvOK'
    BY <1>24, RecvUnchangedKeeps DEF GiveRoom
  <2>4. SendOK'
    BY <1>24, SendUnchangedKeeps, AppMoves DEF GiveRoom, SendOK, SendTyped
  <2> QED  BY <2>1, <2>2, <2>3, <2>4 DEF Parts
<1>25. CASE UNCHANGED vars
  <2>1. OtherTyped' /\ PhaseInv'
    BY <1>25 DEF vars, OtherTyped, PhaseInv
  <2>2. RecvOK'
    BY <1>25, RecvUnchangedKeeps DEF vars
  <2>3. SendOK'
    BY <1>25, SendUnchangedKeeps, AppMoves DEF vars, SendOK, SendTyped
  <2> QED  BY <2>1, <2>2, <2>3 DEF Parts
<1> QED
  BY <1>1, <1>2, <1>3, <1>4, <1>5, <1>6, <1>7, <1>8, <1>9,
     <1>10, <1>11, <1>12, <1>13, <1>14, <1>15, <1>16, <1>17,
     <1>18, <1>19, <1>20, <1>21, <1>22, <1>23, <1>24, <1>25 DEF Next

LEMMA PartsInit == Init => Parts
<1> SUFFICES ASSUME Init PROVE Parts
  OBVIOUS
<1>1. app \in Apps /\ app.moves \in 0 .. MaxMoves /\ MaxRecv \in Nat /\ MaxMoves \in Nat
  BY AppsAssumption, IdsAreNumbers DEF Init, AppType
<1>2. OtherTyped /\ PhaseInv
  <2>1. monitors \in [MonitorLoops -> {"off", "wait", "got", "emit", "failed"}]
    BY DEF Init
  <2>2. binds \in [started : Nat, called : Nat]
    BY DEF Init
  <2>3. /\ app \in Apps /\ moves \in 0 .. app.moves /\ phase = "loop" /\ state = "Open"
        /\ requestClose = FALSE /\ job = "none" /\ paused = FALSE
        /\ observer = "none" /\ notices \in 0 .. 1
    BY <1>1 DEF Init
  <2> QED  BY <2>1, <2>2, <2>3 DEF OtherTyped, PhaseInv
<1>3. RecvOK
  BY <1>1 DEF Init, RecvOK, RecvTyped, RecvInv, Delivery, InOrder, Tick
<1>4. SendTyped
  <2>1. NoMessage \in Messages
    BY DEF NoMessage, Messages
  <2>2. calls \in [Ids -> Nat]
    BY DEF Init
  <2>3. stack \in Seq({"task", "tick", "send"} \cup MonitorLoops)
    BY DEF Init
  <2>4. /\ sendLoop = "armed" /\ current = NoMessage /\ sent = FALSE
        /\ threw = {} /\ rejected = FALSE /\ room = FALSE
    BY DEF Init
  <2>5. sendQueue \in Seq(Messages) /\ wire \in Seq(Ids)
    BY DEF Init
  <2> QED  BY <2>1, <2>2, <2>3, <2>4, <2>5 DEF SendTyped
<1>5. StackInv
  BY DEF Init, StackInv
<1>6. SendInv
  <2>1. Line(<<>>, <<>>, <<>>, <<>>, 0)
    BY DEF Line, Increasing, Upto, Before
  <2>2. Called([i \in Ids |-> 0], {}, <<>>, 0)
    BY DEF Called
  <2> QED  BY <2>1, <2>2 DEF Init, SendInv, SendLine, CurrentCalls, NoMessage
<1>7. msg \in Seq(Ids) /\ moves \in 0 .. MaxMoves
  BY <1>1 DEF Init
<1> QED  BY <1>2, <1>3, <1>4, <1>5, <1>6, <1>7 DEF Parts, SendOK

(* The batches of SendLaw, one by one.                                     *)
LEMMA BatchesAre ==
  ASSUME SendOK
  PROVE  /\ DOMAIN Batches = 1 .. Len(sendQueue) + 3 /\ Len(sendQueue) \in Nat
         /\ Batches[1] = wire /\ Batches[2] = Pending
         /\ \A k \in DOMAIN sendQueue : Batches[k + 2] = sendQueue[k].parts
         /\ Batches[Len(sendQueue) + 3] = msg
<1> DEFINE n == Len(sendQueue)
           parts == [k \in DOMAIN sendQueue |-> sendQueue[k].parts]
<1>1. /\ sendQueue \in Seq(Messages) /\ n \in Nat /\ DOMAIN sendQueue = 1 .. n
      /\ \A k \in 1 .. n : sendQueue[k] \in Messages
  BY SendNumbers
<1>2. parts \in Seq(Seq(Ids)) /\ Len(parts) = n
      /\ \A k \in 1 .. n : parts[k] = sendQueue[k].parts
  BY <1>1, IdsAreNumbers
<1>3. Pending \in Seq(Ids) /\ wire \in Seq(Ids) /\ msg \in Seq(Ids)
  BY DEF SendOK, SendTyped, Pending, Messages
<1> HIDE DEF parts
<1>4. /\ <<wire, Pending>> \in Seq(Seq(Ids)) /\ Len(<<wire, Pending>>) = 2
      /\ <<wire, Pending>>[1] = wire /\ <<wire, Pending>>[2] = Pending
      /\ <<msg>> \in Seq(Seq(Ids)) /\ Len(<<msg>>) = 1 /\ <<msg>>[1] = msg
  BY <1>3
<1> DEFINE first == <<wire, Pending>>
           two == first \o parts
           all == two \o <<msg>>
<1>5. Batches = all
  BY DEF Batches, parts
<1> HIDE DEF first
<1>6. /\ two \in Seq(Seq(Ids)) /\ Len(two) = n + 2
      /\ two[1] = wire /\ two[2] = Pending
      /\ \A k \in 1 .. n : two[k + 2] = parts[k]
  <2>1. first \in Seq(Seq(Ids)) /\ Len(first) = 2 /\ first[1] = wire /\ first[2] = Pending
    BY <1>4 DEF first
  <2>2. /\ two \in Seq(Seq(Ids)) /\ Len(two) = n + 2
        /\ \A i \in 1 .. n + 2 : two[i] = IF i <= 2 THEN first[i] ELSE parts[i - 2]
    <3>1. /\ two \in Seq(Seq(Ids)) /\ Len(two) = Len(first) + Len(parts)
          /\ \A i \in 1 .. Len(first) + Len(parts) :
               two[i] = IF i <= Len(first) THEN first[i] ELSE parts[i - Len(first)]
      <4>1. parts \in Seq(Seq(Ids)) /\ first \in Seq(Seq(Ids))
        BY <1>2, <2>1
      <4> QED  BY ONLY <4>1, ConcatProperties, Zenon
    <3>2. Len(first) = 2 /\ Len(parts) = n /\ n \in Nat /\ 2 + n = n + 2
      BY <1>1, <1>2, <2>1
    <3> HIDE DEF two, n
    <3> QED  BY <3>1, <3>2
  <2>3. \A k \in 1 .. n : k + 2 \in 1 .. n + 2 /\ ~(k + 2 <= 2) /\ k + 2 - 2 = k
    BY <1>1
  <2>4. ASSUME NEW k \in 1 .. n PROVE two[k + 2] = parts[k]
    <3> HIDE DEF two, n
    <3>1. two[k + 2] = parts[k + 2 - 2]
      BY <2>2, <2>3
    <3> QED  BY <2>3, <3>1
  <2> HIDE DEF two
  <2> QED  BY <1>1, <2>1, <2>2, <2>4
<1> HIDE DEF two
<1>7. /\ DOMAIN all = 1 .. n + 3
      /\ \A k \in 1 .. n + 2 : all[k] = two[k]
      /\ all[n + 3] = msg
  BY <1>1, <1>4, <1>6, ConcatProperties
<1> HIDE DEF all
<1>8. 1 \in 1 .. n + 2 /\ 2 \in 1 .. n + 2
  BY <1>1
<1>9. \A k \in DOMAIN sendQueue : k \in 1 .. n /\ k + 2 \in 1 .. n + 2
  BY <1>1
<1>10. \A k \in DOMAIN sendQueue : all[k + 2] = sendQueue[k].parts
  BY <1>2, <1>6, <1>7, <1>9
<1> HIDE DEF n
<1> QED  BY <1>1, <1>5, <1>6, <1>7, <1>8, <1>10 DEF n

LEMMA LineIsLaw == SendOK => SendLaw
<1> SUFFICES ASSUME SendOK PROVE SendLaw
  OBVIOUS
<1> DEFINE n == Len(sendQueue)
<1>1. /\ Line(wire, current.parts, sendQueue, msg, moves)
      /\ Called(calls, threw, sendQueue, moves)
      /\ sendLoop \in {"wait", "delayed"} => Before(wire, current.parts)
  BY DEF SendOK, SendInv, SendLine
<1>2. Pending = <<>> \/ (sendLoop \in {"wait", "delayed"} /\ Pending = current.parts)
  BY DEF Pending
<1>3. Increasing(<<>>) /\ (\A t : Before(t, <<>>) /\ Before(<<>>, t))
  BY DEF Increasing, Before
<1>4. /\ Increasing(wire) /\ Increasing(Pending) /\ Increasing(msg)
      /\ Before(wire, Pending) /\ Before(wire, msg) /\ Before(Pending, msg)
  BY <1>1, <1>2, <1>3 DEF Line
<1>5. \A k \in DOMAIN sendQueue :
        /\ Increasing(sendQueue[k].parts) /\ Before(wire, sendQueue[k].parts)
        /\ Before(Pending, sendQueue[k].parts) /\ Before(sendQueue[k].parts, msg)
        /\ \A l \in DOMAIN sendQueue :
             k < l => Before(sendQueue[k].parts, sendQueue[l].parts)
  BY <1>1, <1>2, <1>3 DEF Line
<1>6. /\ DOMAIN Batches = 1 .. n + 3 /\ n \in Nat /\ DOMAIN sendQueue = 1 .. n
      /\ Batches[1] = wire /\ Batches[2] = Pending
      /\ \A k \in DOMAIN sendQueue : Batches[k + 2] = sendQueue[k].parts
      /\ Batches[n + 3] = msg
  BY BatchesAre, SendNumbers
<1> HIDE DEF n
<1>7. ASSUME NEW k \in DOMAIN Batches
      PROVE  \/ k = 1 /\ Batches[k] = wire
             \/ k = 2 /\ Batches[k] = Pending
             \/ k - 2 \in DOMAIN sendQueue /\ Batches[k] = sendQueue[k - 2].parts
             \/ k = n + 3 /\ Batches[k] = msg
  <2>1. CASE k \in 3 .. n + 2
    <3>1. k - 2 \in DOMAIN sendQueue /\ k - 2 + 2 = k
      BY <1>6, <2>1
    <3> QED  BY <1>6, <3>1
  <2>2. CASE k \in {1, 2, n + 3}
    BY <1>6, <2>2
  <2> QED  BY <1>6, <2>1, <2>2
<1>8. ASSUME NEW k \in DOMAIN Batches PROVE Increasing(Batches[k])
  BY <1>4, <1>5, <1>7
<1>9. ASSUME NEW k \in DOMAIN Batches, NEW l \in DOMAIN Batches, k < l
      PROVE  Before(Batches[k], Batches[l])
  <2>1. CASE k = 1 /\ Batches[k] = wire
    BY <1>4, <1>5, <1>6, <1>7, <1>9, <2>1
  <2>2. CASE k = 2 /\ Batches[k] = Pending
    BY <1>4, <1>5, <1>6, <1>7, <1>9, <2>2
  <2>3. CASE k - 2 \in DOMAIN sendQueue /\ Batches[k] = sendQueue[k - 2].parts
    <3>1. CASE l = n + 3 /\ Batches[l] = msg
      BY <1>5, <2>3, <3>1
    <3>2. CASE l - 2 \in DOMAIN sendQueue /\ Batches[l] = sendQueue[l - 2].parts
      <4>1. k - 2 < l - 2
        BY <1>6, <1>9
      <4> QED  BY <1>5, <2>3, <3>2, <4>1
    <3> QED  BY <1>6, <1>7, <1>9, <2>3, <3>1, <3>2
  <2>4. k # n + 3
    BY <1>6, <1>9
  <2> QED  BY <1>7, <2>1, <2>2, <2>3, <2>4
<1>10. /\ \A i \in Ids : calls[i] <= IF i \in threw THEN 2 ELSE 1
       /\ \A k \in DOMAIN sendQueue : calls[Id(sendQueue[k])] = 0
  BY <1>1 DEF Called
<1> QED  BY <1>8, <1>9, <1>10 DEF SendLaw

(* IInv is inductive.                                                      *)
LEMMA IInvHolds == Spec => []IInv
<1>1. Init => IInv
  BY PartsInit, PartsOfIInv
<1>2. IInv /\ [Next]_vars => IInv'
  <2>1. IInv' <=> Parts'
    BY PartsOfIInv, PTL
  <2> QED  BY <2>1, PartsOfIInv, PartsNext
<1> QED  BY <1>1, <1>2, PTL DEF Spec

-----------------------------------------------------------------------------
(* Every variable of the compatibility layer stays in its type, for any    *)
(* set of applications: no step reads the head of a queue that is empty.   *)
THEOREM CompatTypeCorrect == Spec => []TypeOK
<1>1. IInv => TypeOK
  BY DEF IInv
<1> QED  BY <1>1, IInvHolds, PTL

(* Every message that the receive loop takes is emitted once and in order, *)
(* however pause() and resume() interleave with the loop, with jobs of     *)
(* bind() and with close(): see Delivery.                                  *)
THEOREM DeliveredInOrder == Spec => []Delivery
<1>1. IInv => Delivery
  BY DEF IInv
<1> QED  BY <1>1, IInvHolds, PTL

(* Messages reach libzmq whole, once and in the order of the calls of      *)
(* send(), and their callbacks are called at most once, or twice if they   *)
(* throw: see SendLaw.                                                     *)
THEOREM SentInOrder == Spec => []SendLaw
<1>1. IInv => SendLaw
  BY PartsOfIInv, LineIsLaw DEF Parts
<1> QED  BY <1>1, IInvHolds, PTL

-----------------------------------------------------------------------------
(* Who flushes the queues: the safety half of Flushed.                     *)

JobInv == (job = "running") = (state = "Blocked")

(* The receive listener is only registered again while paused, and its     *)
(* loop only ends for good with the socket.                                *)
RecvListens ==
  /\ recvLoop = "armed" => paused
  /\ recvLoop = "off" => state = "Closed" \/ recvQueue = <<>>

(* The send listener waits with nothing to send, or paused or closed; its  *)
(* loop only ends for good with the socket or when it was rejected.        *)
SendListens ==
  /\ sendLoop = "armed" => sendQueue = <<>> \/ paused \/ state = "Closed"
  /\ sendLoop = "off" => state = "Closed" \/ rejected

LEMMA JobNext ==
  ASSUME JobInv, [Next]_vars
  PROVE  JobInv' /\ (state = "Closed" => state' = "Closed")
<1> USE DEF native, engine, JobInv
<1>1. CASE UNCHANGED <<state, job>>
  BY <1>1
<1>2. CASE Close
  BY <1>2 DEF Close, CloseNow
<1>3. CASE Bind
  BY <1>3 DEF Bind
<1>4. CASE JobDone
  BY <1>4 DEF JobDone, CloseNow
<1>5. CASE BindSettled
  BY <1>5 DEF BindSettled
<1>6. CASE \/ (\E cb \in BOOLEAN : Send(cb)) \/ SendMore \/ Pause \/ Resume
           \/ Monitor \/ Unmonitor \/ Return \/ Throw
  BY <1>1, <1>6 DEF Send, SendMore, Pause, Resume, Monitor, Unmonitor, Return,
                    Throw
<1>7. CASE \/ RecvGot \/ RecvStep \/ SendGot \/ SendStep \/ RunTick
           \/ \E m \in MonitorLoops : MonitorGot(m)
  BY <1>1, <1>7 DEF RecvGot, RecvStep, SendGot, SendStep, RunTick, MonitorGot
<1>8. CASE \/ ReceiveSettles \/ SendSettles \/ Notice \/ Task \/ Arrive
           \/ GiveRoom \/ UNCHANGED vars
  BY <1>1, <1>8 DEF ReceiveSettles, SendSettles, Notice, Task, Arrive,
                    GiveRoom, vars
<1> QED
  BY <1>2, <1>3, <1>4, <1>5, <1>6, <1>7, <1>8
     DEF Next, RecvCompletes, RecvDelayed, SendCompletes, SendDelayed

LEMMA RecvHandlerListens ==
  ASSUME RecvHandler(paused'), UNCHANGED state
  PROVE  RecvListens'
BY DEF RecvHandler, Recv, NativeReceive, RecvListens

LEMMA RecvListensNext ==
  ASSUME RecvListens, [Next]_vars, state = "Closed" => state' = "Closed"
  PROVE  RecvListens'
<1> USE DEF recvVars, native
<1>1. ASSUME ReceiveAtMost, UNCHANGED recvQueue, paused => paused'
      PROVE  RecvListens'
  BY <1>1 DEF RecvListens, ReceiveAtMost, NativeReceive
<1>2. CASE UNCHANGED recvVars /\ (paused => paused')
  BY <1>2 DEF RecvListens
<1>3. CASE Resume
  <2>1. paused' = FALSE /\ state' = state
    BY <1>3 DEF Resume
  <2>2. CASE recvLoop = "armed"
    BY <1>3, <2>1, <2>2, RecvHandlerListens DEF Resume
  <2>3. CASE recvLoop # "armed"
    <3>1. UNCHANGED recvQueue /\ recvLoop' \in {recvLoop, "got"}
      BY <1>3, <2>3 DEF Resume, FlushSend, AfterSend, NativeReceive
    <3> QED  BY <2>1, <2>3, <3>1 DEF RecvListens
  <2> QED  BY <2>2, <2>3
<1>4. CASE RecvStep
  BY <1>4, RecvHandlerListens DEF RecvStep
<1>5. CASE RecvGot \/ ReceiveSettles
  BY <1>5 DEF RecvGot, ReceiveSettles, NativeReceive, RecvListens
<1>6. CASE Close \/ JobDone
  BY <1>1, <1>6, CloseNowAtMost DEF Close, JobDone, ReceiveAtMost
<1>7. CASE (\E cb \in BOOLEAN : Send(cb)) \/ SendStep
  BY <1>1, <1>7, AfterSendAtMost DEF Send, FlushSend, SendStep, ReceiveAtMost
<1>8. CASE \/ SendMore \/ Pause \/ Bind \/ Monitor \/ Unmonitor \/ Return
           \/ Throw
  BY <1>2, <1>8 DEF SendMore, Pause, Bind, Monitor, Unmonitor, Return, Throw
<1>9. CASE \/ SendGot \/ BindSettled \/ RunTick
           \/ \E m \in MonitorLoops : MonitorGot(m)
  BY <1>2, <1>9 DEF SendGot, BindSettled, RunTick, MonitorGot
<1>10. CASE \/ SendSettles \/ Notice \/ Task \/ Arrive \/ GiveRoom
            \/ UNCHANGED vars
  BY <1>2, <1>10 DEF SendSettles, Notice, Task, Arrive, GiveRoom, vars
<1> QED
  BY <1>3, <1>4, <1>5, <1>6, <1>7, <1>8, <1>9, <1>10
     DEF Next, RecvCompletes, RecvDelayed, SendCompletes, SendDelayed

LEMMA SendHandlerListens ==
  ASSUME NEW queue, SendHandler(paused', queue), UNCHANGED state
  PROVE  SendListens'
<1>1. CASE state # "Closed" /\ ~paused' /\ queue # <<>>
  BY <1>1 DEF SendHandler, SendMessage, NativeSend, SendFailed, SendListens
<1>2. CASE ~(state # "Closed" /\ ~paused' /\ queue # <<>>)
  BY <1>2 DEF SendHandler, SendListens
<1> QED  BY <1>1, <1>2

LEMMA FlushListens ==
  ASSUME NEW queue, SendListens, FlushSend(paused', queue), UNCHANGED state
  PROVE  SendListens'
BY SendHandlerListens DEF FlushSend, SendListens

LEMMA SendListensNext ==
  ASSUME SendListens, [Next]_vars, state = "Closed" => state' = "Closed"
  PROVE  SendListens'
<1> USE DEF sendVars, sendHist, native
<1>1. CASE UNCHANGED <<sendLoop, sendQueue, rejected>> /\ (paused => paused')
  BY <1>1 DEF SendListens
<1>2. CASE sendLoop' \notin {"armed", "off"} \/ (sendLoop' = "off" /\ rejected')
  BY <1>2 DEF SendListens
<1>3. ASSUME NEW cb \in BOOLEAN, Send(cb) PROVE SendListens'
  <2>1. paused' = paused /\ state' = state
    BY <1>3 DEF Send
  <2>2. CASE paused
    BY <1>3, <2>1, <2>2 DEF Send, SendListens
  <2>3. CASE ~paused
    <3>1. PICK queue : FlushSend(paused', queue)
      BY <1>3, <2>1, <2>3 DEF Send
    <3> QED  BY <2>1, <3>1, FlushListens
  <2> QED  BY <2>2, <2>3
<1>4. CASE Resume
  <2>1. paused' = FALSE /\ state' = state
    BY <1>4 DEF Resume
  <2>2. CASE sendLoop = "armed"
    <3>1. SendHandler(paused', sendQueue)
      BY <1>4, <2>1, <2>2 DEF Resume, FlushSend
    <3> QED  BY <2>1, <3>1, SendHandlerListens
  <2>3. CASE sendLoop # "armed"
    <3>1. UNCHANGED <<sendQueue, rejected>> /\ sendLoop' \in {sendLoop, "got"}
      BY <1>4, <2>3 DEF Resume, FlushSend, AfterReceive, NativeSend
    <3> QED  BY <2>1, <2>3, <3>1 DEF SendListens
  <2> QED  BY <2>2, <2>3
<1>5. CASE SendStep
  BY <1>5, SendHandlerListens DEF SendStep
<1>6. CASE SendGot
  <2>1. CASE ~sent /\ SendFailed(current)
    BY <1>2, <2>1 DEF SendFailed
  <2>2. CASE sendLoop' \in {"cb", "step"}
    BY <1>2, <2>2
  <2> QED  BY <1>6, <2>1, <2>2 DEF SendGot
<1>7. CASE SendSettles \/ Throw
  BY <1>2, <1>7 DEF SendSettles, NativeSend, Throw
<1>8. CASE Return
  BY <1>1, <1>2, <1>8 DEF Return
<1>9. CASE Close \/ JobDone \/ RecvStep
  <2>1. SendAtMost /\ UNCHANGED <<sendQueue, rejected, paused>>
    BY <1>9, AfterReceiveAtMost, CloseNowSendsAtMost
       DEF Close, JobDone, RecvStep, SendAtMost
  <2> QED  BY <1>1, <1>2, <2>1 DEF SendAtMost, NativeSend
<1>10. CASE SendMore \/ Pause \/ Bind \/ Monitor \/ Unmonitor
  BY <1>1, <1>10 DEF SendMore, Pause, Bind, Monitor, Unmonitor
<1>11. CASE \/ RecvGot \/ BindSettled \/ RunTick
            \/ \E m \in MonitorLoops : MonitorGot(m)
  BY <1>1, <1>11 DEF RecvGot, BindSettled, RunTick, MonitorGot
<1>12. CASE \/ ReceiveSettles \/ Notice \/ Task \/ Arrive \/ GiveRoom
            \/ UNCHANGED vars
  BY <1>1, <1>12 DEF ReceiveSettles, Notice, Task, Arrive, GiveRoom, vars
<1> QED
  BY <1>3, <1>4, <1>5, <1>6, <1>7, <1>8, <1>9, <1>10, <1>11, <1>12
     DEF Next, RecvCompletes, RecvDelayed, SendCompletes, SendDelayed

(* While the socket is neither paused nor closed, a message that waits to  *)
(* be sent has a send handler that runs, unless one was rejected, and one  *)
(* that waits to be emitted has the receive handler's microtask.           *)
FlushOwed ==
  ~paused /\ state # "Closed" =>
    /\ sendQueue # <<>> /\ ~rejected => sendLoop \notin {"armed", "off"}
    /\ recvQueue # <<>> => recvLoop = "step"

(* Nothing waits for a flush nobody makes (the once() listeners of         *)
(* compat.ts:270-296), for all applications: no order of send(), pause(),  *)
(* resume(), jobs, timeouts and callbacks leaves a queue with its listener *)
(* idle.  With the fairness of the engine this gives Flushed.              *)
THEOREM FlushIsOwed == Spec => []FlushOwed
<1> DEFINE Inv == JobInv /\ RecvListens /\ SendListens
<1>1. Init => Inv
  BY DEF Init, JobInv, RecvListens, SendListens
<1>2. Inv /\ [Next]_vars => Inv'
  BY JobNext, RecvListensNext, SendListensNext
<1>3. IInv /\ Inv => FlushOwed
  BY DEF IInv, TypeOK, RecvInv, RecvListens, SendListens, FlushOwed
<1> HIDE DEF Inv
<1> QED  BY <1>1, <1>2, <1>3, IInvHolds, PTL DEF Spec

-----------------------------------------------------------------------------
(* Where the callback of a bind() is: the safety half of BindsCalledBack.  *)

Due(queue) == \E i \in DOMAIN queue : queue[i] = -1
Once(queue) == \A i, j \in DOMAIN queue : queue[i] = -1 /\ queue[j] = -1 => i = j
One(b) == IF b THEN 1 ELSE 0

LEMMA ScheduleAnother ==
  ASSUME NEW queue \in Seq(Tick), NEW t \in Tick, t # -1
  PROVE  /\ Due(Schedule(queue, t)) <=> Due(queue)
         /\ Once(queue) => Once(Schedule(queue, t))
<1> DEFINE q == Append(queue, t)
<1>1. /\ DOMAIN queue = 1 .. Len(queue) /\ DOMAIN q = 1 .. Len(queue) + 1
      /\ \A i \in 1 .. Len(queue) : q[i] = queue[i]
      /\ q[Len(queue) + 1] = t /\ Len(queue) \in Nat
  OBVIOUS
<1> HIDE DEF q
<1>2. Due(q) <=> Due(queue)
  BY <1>1 DEF Due
<1>3. Once(queue) => Once(q)
  BY <1>1 DEF Once
<1>4. Schedule(queue, t) \in {queue, q}
  BY DEF Schedule, q
<1> QED  BY <1>2, <1>3, <1>4

LEMMA ScheduleCallback ==
  ASSUME NEW queue \in Seq(Tick), ~Due(queue)
  PROVE  Due(Schedule(queue, -1)) /\ Once(Schedule(queue, -1))
<1> DEFINE q == Append(queue, -1)
<1>1. /\ DOMAIN queue = 1 .. Len(queue) /\ DOMAIN q = 1 .. Len(queue) + 1
      /\ \A i \in 1 .. Len(queue) : q[i] = queue[i]
      /\ q[Len(queue) + 1] = -1 /\ Len(queue) \in Nat
  OBVIOUS
<1> HIDE DEF q
<1>2. Due(q) /\ Once(q)
  BY <1>1 DEF Due, Once
<1>3. Schedule(queue, -1) = q
  BY DEF Schedule, q
<1> QED  BY <1>2, <1>3

LEMMA TailCallback ==
  ASSUME NEW queue \in Seq(Tick), queue # <<>>, Once(queue)
  PROVE  /\ Once(Tail(queue))
         /\ Head(queue) = -1 => ~Due(Tail(queue)) /\ Due(queue)
         /\ Head(queue) # -1 => (Due(Tail(queue)) <=> Due(queue))
<1> DEFINE q == Tail(queue)
           h == Head(queue)
<1>1. /\ h = queue[1] /\ Len(queue) \in Nat \ {0}
      /\ DOMAIN queue = 1 .. Len(queue) /\ DOMAIN q = 1 .. Len(queue) - 1
      /\ \A i \in 1 .. Len(queue) - 1 : q[i] = queue[i + 1]
  OBVIOUS
<1> HIDE DEF q, h
<1>2. \A i \in DOMAIN q : i + 1 \in DOMAIN queue /\ i + 1 # 1
  BY <1>1
<1>3. \A i \in DOMAIN queue : i # 1 => i - 1 \in DOMAIN q /\ q[i - 1] = queue[i]
  BY <1>1
<1>4. Once(q)
  BY <1>1, <1>2 DEF Once
<1>5. 1 \in DOMAIN queue
  BY <1>1
<1>6. h = -1 => ~Due(q) /\ Due(queue)
  BY <1>1, <1>2, <1>5 DEF Once, Due
<1>7. h # -1 => (Due(q) <=> Due(queue))
  BY <1>1, <1>2, <1>3 DEF Due
<1> QED  BY <1>4, <1>6, <1>7 DEF q, h

(* Every bind() that has not called back has a job, or the one callback in *)
(* the queue of nextTick; the event loop only turns when that is empty.    *)
BindLaw ==
  /\ binds.started = binds.called + One(job # "none") + One(Due(ticks))
  /\ Once(ticks)
  /\ job = "settled" => ~Due(ticks)
  /\ AtLoop => ticks = <<>>

LEMMA ProceedLoop == ASSUME Proceed PROVE (AtLoop => ticks = <<>>)'
BY DEF Proceed, AtLoop

(* Steps that schedule nothing, or something else.                         *)
LEMMA BindStutter ==
  ASSUME BindLaw, RecvTyped, UNCHANGED <<binds, job>>, (AtLoop => ticks = <<>>)',
         ticks' = ticks \/ \E t \in Tick : t # -1 /\ ticks' = Schedule(ticks, t)
  PROVE  BindLaw'
<1>1. (Due(ticks') <=> Due(ticks)) /\ Once(ticks')
  <2>1. CASE ticks' = ticks
    BY <2>1 DEF BindLaw
  <2>2. ASSUME NEW t \in Tick, t # -1, ticks' = Schedule(ticks, t)
        PROVE  (Due(ticks') <=> Due(ticks)) /\ Once(ticks')
    BY <2>2, ScheduleAnother DEF BindLaw, RecvTyped
  <2> QED  BY <2>1, <2>2
<1> QED  BY <1>1 DEF BindLaw, One

LEMMA RecvHandlerTicks ==
  ASSUME RecvTyped, NEW p, RecvHandler(p)
  PROVE  ticks' = ticks \/ \E t \in Tick : t # -1 /\ ticks' = Schedule(ticks, t)
<1>1. CASE ticks' = ticks
  BY <1>1
<1>2. CASE recvQueue # <<>> /\ ticks' = Schedule(ticks, Head(recvQueue))
  <2>1. Head(recvQueue) \in 1 .. MaxRecv
    <3>1. recvQueue \in Seq(1 .. MaxRecv) /\ recvQueue # <<>>
      BY <1>2 DEF RecvTyped
    <3> QED  BY <3>1, HeadTailProperties
  <2>2. Head(recvQueue) \in Tick /\ Head(recvQueue) # -1
    BY <2>1, IdsAreNumbers DEF Tick
  <2> QED  BY <1>2, <2>2
<1> QED  BY <1>1, <1>2 DEF RecvHandler, Recv

LEMMA BindNext ==
  ASSUME IInv, BindLaw, [Next]_vars
  PROVE  BindLaw'
<1> USE DEF native, engine, recvVars
<1>0. RecvTyped /\ binds \in [started : Nat, called : Nat] /\ PhaseInv
  BY Typed DEF IInv, TypeOK
<1>1. ASSUME UNCHANGED <<binds, job, ticks>>,
             Proceed \/ UNCHANGED <<phase, stack>> \/ stack' # <<>> \/ phase' = "hung"
      PROVE  BindLaw'
  BY <1>0, <1>1, BindStutter, ProceedLoop DEF BindLaw, AtLoop
<1>2. CASE Resume
  <2>1. UNCHANGED <<binds, job>> /\ (AtLoop => ticks = <<>>)'
    BY <1>2, ProceedLoop DEF Resume, Call
  <2>2. ticks' = ticks \/ \E t \in Tick : t # -1 /\ ticks' = Schedule(ticks, t)
    BY <1>0, <1>2, RecvHandlerTicks DEF Resume
  <2> QED  BY <1>0, <2>1, <2>2, BindStutter
<1>3. CASE RecvStep
  <2>1. UNCHANGED <<binds, job>> /\ (AtLoop => ticks = <<>>)'
    BY <1>3, ProceedLoop DEF RecvStep
  <2>2. ticks' = ticks \/ \E t \in Tick : t # -1 /\ ticks' = Schedule(ticks, t)
    BY <1>0, <1>3, RecvHandlerTicks DEF RecvStep
  <2> QED  BY <1>0, <2>1, <2>2, BindStutter
<1>4. CASE RecvGot
  <2>1. UNCHANGED <<binds, job>> /\ (AtLoop => ticks = <<>>)'
    BY <1>4, ProceedLoop DEF RecvGot
  <2>2. received \in Tick /\ 0 \in Tick /\ received # -1
    BY <1>0, IdsAreNumbers DEF RecvTyped, Tick
  <2>3. ticks' = ticks \/ \E t \in Tick : t # -1 /\ ticks' = Schedule(ticks, t)
    BY <1>4, <2>2 DEF RecvGot
  <2> QED  BY <1>0, <2>1, <2>3, BindStutter
<1>5. CASE BindSettled
  <2>1. job = "settled" /\ job' = "none" /\ binds' = binds
        /\ ticks' = Schedule(ticks, -1) /\ (AtLoop => ticks = <<>>)'
    BY <1>5, ProceedLoop DEF BindSettled
  <2>2. ~Due(ticks) /\ Due(ticks') /\ Once(ticks')
    BY <1>0, <2>1, ScheduleCallback DEF BindLaw, RecvTyped
  <2> QED  BY <1>0, <2>1, <2>2 DEF BindLaw, One
<1>6. CASE RunTick
  <2>1. /\ ticks # <<>> /\ ticks' = Tail(ticks) /\ job' = job
        /\ binds' = IF Head(ticks) = -1 THEN [binds EXCEPT !.called = @ + 1]
                    ELSE binds
        /\ phase' # "loop"
    BY <1>0, <1>6 DEF RunTick, InTick, PhaseInv
  <2>2. /\ Once(ticks')
        /\ Head(ticks) = -1 => ~Due(ticks') /\ Due(ticks)
        /\ Head(ticks) # -1 => (Due(ticks') <=> Due(ticks))
    BY <1>0, <2>1, TailCallback DEF BindLaw, RecvTyped
  <2>3. CASE Head(ticks) = -1
    BY <1>0, <2>1, <2>2, <2>3 DEF BindLaw, One, AtLoop
  <2>4. CASE Head(ticks) # -1
    BY <1>0, <2>1, <2>2, <2>4 DEF BindLaw, One, AtLoop
  <2> QED  BY <2>3, <2>4
<1>7. CASE Bind
  <2>1. /\ job = "none" /\ job' = "running" /\ UNCHANGED <<ticks, phase, stack>>
        /\ binds' = [binds EXCEPT !.started = @ + 1]
    BY <1>7 DEF Bind
  <2> QED  BY <1>0, <2>1 DEF BindLaw, One, AtLoop
<1>8. CASE JobDone
  <2>1. /\ job = "running" /\ job' = "settled" /\ UNCHANGED <<ticks, binds>>
        /\ AtLoop /\ (AtLoop => ticks = <<>>)'
    BY <1>8, ProceedLoop DEF JobDone
  <2>2. ticks = <<>>
    BY <2>1 DEF BindLaw
  <2> QED  BY <2>1, <2>2 DEF BindLaw, One, Due
<1>9. CASE \/ (\E cb \in BOOLEAN : Send(cb)) \/ SendMore \/ Pause \/ Close
           \/ Unmonitor \/ Throw
  BY <1>1, <1>9 DEF Send, SendMore, Pause, Close, Unmonitor, Throw, Call
<1>10. CASE Monitor \/ Return
  BY <1>1, <1>10 DEF Monitor, Return, Call
<1>11. CASE SendGot \/ SendStep \/ \E m \in MonitorLoops : MonitorGot(m)
  BY <1>1, <1>11 DEF SendGot, SendStep, MonitorGot
<1>12. CASE \/ ReceiveSettles \/ SendSettles \/ Notice \/ Task \/ Arrive
            \/ GiveRoom \/ UNCHANGED vars
  BY <1>1, <1>12 DEF ReceiveSettles, SendSettles, Notice, Task, Arrive,
                     GiveRoom, vars
<1> QED
  BY <1>2, <1>3, <1>4, <1>5, <1>6, <1>7, <1>8, <1>9, <1>10, <1>11, <1>12
     DEF Next, RecvCompletes, RecvDelayed, SendCompletes, SendDelayed

(* No callback of bind() is lost or made twice, whatever closes the socket *)
(* or throws meanwhile: those not called yet are a job in the worker, or   *)
(* its outcome, and at most one tick (compat.ts:360-381).  With the        *)
(* fairness of the engine this gives BindsCalledBack.                      *)
THEOREM CallbacksCounted ==
  Spec => [](binds.started = binds.called + One(job # "none") + One(Due(ticks)))
<1>1. Init => BindLaw
  BY DEF Init, BindLaw, One, Due, Once, AtLoop
<1>2. IInv /\ BindLaw /\ [Next]_vars => BindLaw'
  BY BindNext
<1>3. BindLaw =>
        binds.started = binds.called + One(job # "none") + One(Due(ticks))
  BY DEF BindLaw
<1> QED  BY <1>1, <1>2, <1>3, IInvHolds, PTL DEF Spec
=============================================================================
