--------------------------- MODULE LogStreamProofs ---------------------------
(***************************************************************************)
(* Proofs about LogStream, for every number of clients and every size of   *)
(* the buffer and of the queues: the end of a stream is never lost, lines  *)
(* arrive in order and once, and a client that keeps up misses only what   *)
(* LossIsAccounted names.                                                  *)
(***************************************************************************)
EXTENDS LogStream, SequenceTheorems, TLAPS

\* The lines of s are in order; the sentinel does not count.
Ordered(s) ==
    \A i, j \in 1..Len(s) : i < j /\ s[i] # None /\ s[j] # None => s[i] < s[j]

\* Every line of s is older than every line of t.
Before(s, t) ==
    \A i \in 1..Len(s), j \in 1..Len(t) : s[i] # None /\ t[j] # None => s[i] < t[j]

Within(s, n) == \A i \in 1..Len(s) : s[i] <= n

Holds(s, n) == \E i \in 1..Len(s) : s[i] = n

\* What was sent, what is left of the snapshot and what is queued, of a log of n lines.
Lines(sent, left, queued, n) ==
    /\ sent \in Seq(Nat) /\ left \in Seq(Nat) /\ queued \in Seq(Nat)
    /\ Within(sent, n) /\ Within(left, n) /\ Within(queued, n)
    /\ Ordered(sent) /\ Ordered(left) /\ Ordered(queued)
    /\ Before(sent, left) /\ Before(sent, queued) /\ Before(left, queued)

\* d is the end of 1, 2, ..., n.
EndOf(d, n) ==
    /\ d \in Seq(Nat \ {None})
    /\ Len(d) <= n
    /\ \A i \in 1..Len(d) : d[i] = n - Len(d) + i

\* The buffer holds the last lines of the log.
BufferOK == EndOf(buffer, Len(log))

\* Nothing is logged before register_operation; an operation that ended without a sentinel,
\* or that has SUCCEEDED and is about to fail, did so because its last line raised.
EndingOK ==
    /\ status = "REGISTERING" => log = <<>>
    /\ phase = "unannounced" => status \in Ended /\ Len(log) \in unpublished
    /\ status = "SUCCEEDED" => phase # "running"
    /\ status = "SUCCEEDED" /\ phase = "failing" => Len(log) \in unpublished

\* The snapshot is taken at the start and yielded before anything else.
PhaseOK(c) ==
    /\ stream[c] = "off" => out[c] = <<>> /\ seen[c] = <<>> /\ queue[c] = <<>>
    /\ stream[c] \in {"drain", "live", "closed"} => seen[c] = <<>>
    /\ stream[c] \in {"drain", "closed"} => status \in Ended

OrderOK(c) == Lines(out[c], seen[c], queue[c], Len(log))

\* Line n is the completion line of a cluster build, and was published.
IsCompletion(n) ==
    logsCompletion /\ status = "SUCCEEDED" /\ n = Len(log) /\ n \notin unpublished

\* What may follow the sentinel: the completion line, or the sentinel of _fail_pipeline.
IsTrailer(n) == n = None \/ IsCompletion(n)

SentinelOK(c) ==
    \A i \in 1..Len(queue[c]) :
        queue[c][i] = None =>
            status \in Ended /\ \A j \in (i + 1)..Len(queue[c]) : IsTrailer(queue[c][j])

\* SentinelKept, of one client.
KeptOK(c) ==
    stream[c] = "live" /\ status \in Ended /\ phase # "unannounced" => Holds(queue[c], None)

\* A closed stream leaves nothing else in its queue.
ClosedOK(c) ==
    stream[c] = "closed" => \A i \in 1..Len(queue[c]) : IsTrailer(queue[c][i])

\* Line n was sent to c or still will be, unless a sentinel is before it.
Held(c, n) == Holds(out[c], n) \/ Holds(seen[c], n) \/ Holds(queue[c], n)

\* Of the lines after the first one of c, none is lost but those that were not published
\* and those that the drain skips.
NoGap(c) ==
    stream[c] # "gone" /\ ~dropped[c] =>
        \A m, n \in 1..Len(log) :
            m < n /\ Held(c, m) => Held(c, n) \/ n \in unpublished \/ log[n] \in seenSet[c]

ClientOK(c) ==
    PhaseOK(c) /\ OrderOK(c) /\ SentinelOK(c) /\ KeptOK(c) /\ ClosedOK(c) /\ NoGap(c)

RecordOK == TypeOK /\ BufferOK /\ EndingOK

\* The inductive invariant.
StreamInv == RecordOK /\ \A c \in Clients : ClientOK(c)

-----------------------------------------------------------------------------
\* By how many places an append moves the elements of a deque: by one if it is full.
Shift(d, size) == IF Len(d) < size THEN 0 ELSE 1

\* A deque after x was appended.
LEMMA PushShape ==
    ASSUME NEW d \in Seq(Nat), NEW x \in Nat, NEW size \in Nat \ {0}
    PROVE  /\ Push(d, x, size) \in Seq(Nat)
           /\ Len(Push(d, x, size)) = Len(d) + 1 - Shift(d, size)
           /\ Push(d, x, size)[Len(d) + 1 - Shift(d, size)] = x
           /\ \A i \in 1..(Len(d) - Shift(d, size)) : Push(d, x, size)[i] = d[i + Shift(d, size)]
<1>0. Len(d) \in Nat OBVIOUS
<1>1. CASE Len(d) < size
  <2>1. Push(d, x, size) = Append(d, x) /\ Shift(d, size) = 0 BY <1>1 DEF Push, Shift
  <2>2. /\ Append(d, x) \in Seq(Nat) /\ Len(Append(d, x)) = Len(d) + 1
        /\ Append(d, x)[Len(d) + 1] = x
        /\ \A i \in 1..Len(d) : Append(d, x)[i] = d[i]
    OBVIOUS
  <2> QED BY <2>1, <2>2, <1>0
<1>2. CASE ~(Len(d) < size)
  <2> DEFINE t == Tail(d)
  <2>0. d # <<>> BY <1>0, <1>2
  <2>1. /\ t \in Seq(Nat) /\ Len(t) = Len(d) - 1 /\ \A i \in 1..Len(t) : t[i] = d[i + 1]
    BY <2>0, HeadTailProperties
  <2> HIDE DEF t
  <2>2. /\ Append(t, x) \in Seq(Nat) /\ Len(Append(t, x)) = Len(t) + 1
        /\ Append(t, x)[Len(t) + 1] = x
        /\ \A i \in 1..Len(t) : Append(t, x)[i] = t[i]
    BY <2>1
  <2>3. Push(d, x, size) = Append(t, x) /\ Shift(d, size) = 1 BY <1>2 DEF Push, Shift, t
  <2> QED BY <2>1, <2>2, <2>3, <1>0
<1> QED BY <1>1, <1>2

\* Publishing the sentinel or the next line keeps the lines of a client in order.
LEMMA LinesPublish ==
    ASSUME NEW n \in Nat, NEW o, NEW s, NEW q, Lines(o, s, q, n), NEW x \in {None, n + 1}
    PROVE  Lines(o, s, Publish(q, x), IF x = None THEN n ELSE n + 1)
<1> DEFINE p == Publish(q, x)
           k == Shift(q, QueueSize)
           m == IF x = None THEN n ELSE n + 1
<1>0. /\ o \in Seq(Nat) /\ s \in Seq(Nat) /\ q \in Seq(Nat) /\ x \in Nat /\ m \in Nat
      /\ m >= n /\ m >= x /\ (x # None => x = n + 1) /\ k \in {0, 1}
      /\ QueueSize \in Nat \ {0}
  BY LogConstants DEF Lines, None, Shift
<1>1. /\ p \in Seq(Nat)
      /\ Len(p) = Len(q) + 1 - k
      /\ p[Len(q) + 1 - k] = x
      /\ \A i \in 1..(Len(q) - k) : p[i] = q[i + k]
  <2> HIDE DEF k
  <2>1. /\ Push(q, x, QueueSize) \in Seq(Nat)
        /\ Len(Push(q, x, QueueSize)) = Len(q) + 1 - Shift(q, QueueSize)
        /\ Push(q, x, QueueSize)[Len(q) + 1 - Shift(q, QueueSize)] = x
        /\ \A i \in 1..(Len(q) - Shift(q, QueueSize)) :
              Push(q, x, QueueSize)[i] = q[i + Shift(q, QueueSize)]
    <3>1. q \in Seq(Nat) /\ x \in Nat /\ QueueSize \in Nat \ {0} BY <1>0
    <3> QED BY <3>1, PushShape
  <2> QED BY <2>1 DEF Publish, k
<1> HIDE DEF p, k, m
<1>3. /\ \A i \in 1..Len(o) : o[i] \in Nat /\ o[i] <= n
      /\ \A i \in 1..Len(s) : s[i] \in Nat /\ s[i] <= n
      /\ \A i \in 1..Len(q) : q[i] \in Nat /\ q[i] <= n
      /\ Len(o) \in Nat /\ Len(s) \in Nat /\ Len(q) \in Nat /\ Len(p) \in Nat
  <2>1. /\ \A i \in 1..Len(o) : o[i] <= n
        /\ \A i \in 1..Len(s) : s[i] <= n
        /\ \A i \in 1..Len(q) : q[i] <= n
    BY DEF Lines, Within
  <2>2. o \in Seq(Nat) /\ s \in Seq(Nat) /\ q \in Seq(Nat) /\ p \in Seq(Nat) BY <1>0, <1>1
  <2> QED BY <2>1, <2>2
<1>4. \A i \in 1..Len(p) :
         \/ i = Len(p) /\ p[i] = x
         \/ i < Len(p) /\ i + k \in 1..Len(q) /\ p[i] = q[i + k]
  <2> SUFFICES ASSUME NEW i \in 1..Len(p), i # Len(p)
               PROVE  i < Len(p) /\ i + k \in 1..Len(q) /\ p[i] = q[i + k]
    BY <1>1
  <2>1. Len(q) \in Nat /\ Len(p) = Len(q) + 1 - k /\ k \in {0, 1} BY <1>0, <1>1, <1>3
  <2>2. i \in 1..(Len(q) - k) /\ i < Len(p) /\ i + k \in 1..Len(q) BY <2>1
  <2> QED BY <2>2, <1>1
<1>5. Within(o, m) /\ Within(s, m) BY SMTT(30), <1>0, <1>3 DEF Within
<1>6. Within(p, m)
  <2> SUFFICES ASSUME NEW i \in 1..Len(p) PROVE p[i] <= m BY DEF Within
  <2>1. CASE p[i] = x BY <2>1, <1>0
  <2>2. CASE i + k \in 1..Len(q) /\ p[i] = q[i + k]
    <3>1. q[i + k] \in Nat /\ q[i + k] <= n BY <2>2, <1>3
    <3> QED BY <3>1, <2>2, <1>0
  <2> QED BY <2>1, <2>2, <1>4
<1>7. Ordered(p)
  <2> SUFFICES ASSUME NEW i \in 1..Len(p), NEW j \in 1..Len(p), i < j, p[i] # None, p[j] # None
               PROVE  p[i] < p[j]
    BY DEF Ordered
  <2>1. i + k \in 1..Len(q) /\ p[i] = q[i + k] BY <1>3, <1>4
  <2>2. CASE j = Len(p) /\ p[j] = x BY <2>1, <2>2, <1>0, <1>3
  <2>3. CASE j + k \in 1..Len(q) /\ p[j] = q[j + k]
    <3>1. i + k < j + k BY <1>0, <1>3
    <3>2. Ordered(q) BY DEF Lines
    <3> QED BY <3>1, <3>2, <2>1, <2>3 DEF Ordered
  <2> QED BY <2>2, <2>3, <1>4
<1>8. ASSUME NEW t \in {o, s} PROVE Before(t, p)
  <2> SUFFICES ASSUME NEW i \in 1..Len(t), NEW j \in 1..Len(p), t[i] # None, p[j] # None
               PROVE  t[i] < p[j]
    BY DEF Before
  <2>1. t[i] \in Nat /\ t[i] <= n BY <1>3
  <2>2. CASE p[j] = x BY <2>1, <2>2, <1>0
  <2>3. CASE j + k \in 1..Len(q) /\ p[j] = q[j + k] BY <2>3 DEF Lines, Before
  <2> QED BY <2>2, <2>3, <1>4
<1>9. Lines(o, s, p, m) BY <1>0, <1>1, <1>5, <1>6, <1>7, <1>8 DEF Lines
<1> QED BY <1>9 DEF p, m

\* A log that grows keeps them in order.
LEMMA LinesGrow ==
    ASSUME NEW n \in Nat, NEW m \in Nat, n <= m, NEW o, NEW s, NEW q, Lines(o, s, q, n)
    PROVE  Lines(o, s, q, m)
<1>1. \A t \in {o, s, q} : t \in Seq(Nat) /\ Within(t, n) BY DEF Lines
<1>2. ASSUME NEW t \in Seq(Nat), Within(t, n) PROVE Within(t, m)
  <2> SUFFICES ASSUME NEW i \in 1..Len(t) PROVE t[i] <= m BY DEF Within
  <2>1. t[i] \in Nat OBVIOUS
  <2>2. t[i] <= n BY <1>2 DEF Within
  <2> QED BY <2>1, <2>2
<1> QED BY <1>1, <1>2 DEF Lines

\* The first line of t is sent after those of o, and then the rest of t follows.
LEMMA MoveHead ==
    ASSUME NEW o \in Seq(Nat), NEW t \in Seq(Nat), t # <<>>, Ordered(o), Ordered(t), Before(o, t)
    PROVE  /\ Append(o, Head(t)) \in Seq(Nat) /\ Tail(t) \in Seq(Nat)
           /\ Ordered(Append(o, Head(t))) /\ Ordered(Tail(t))
           /\ Before(Append(o, Head(t)), Tail(t)) /\ Before(o, Tail(t))
           /\ \A u : Before(o, u) /\ Before(t, u) => Before(Append(o, Head(t)), u) /\ Before(Tail(t), u)
           /\ \A n : Within(o, n) /\ Within(t, n) => Within(Append(o, Head(t)), n) /\ Within(Tail(t), n)
<1> DEFINE a == Append(o, Head(t))
           r == Tail(t)
<1>1. /\ Len(t) \in Nat /\ Len(t) >= 1 /\ Head(t) = t[1] /\ Head(t) \in Nat
      /\ r \in Seq(Nat) /\ Len(r) = Len(t) - 1 /\ \A i \in 1..Len(r) : r[i] = t[i + 1]
  BY HeadTailProperties
<1>2. /\ a \in Seq(Nat) /\ Len(o) \in Nat /\ Len(a) = Len(o) + 1 /\ a[Len(o) + 1] = t[1]
      /\ \A i \in 1..Len(o) : a[i] = o[i]
  BY <1>1
<1> HIDE DEF a, r
<1>3. \A i \in 1..Len(r) : i + 1 \in 1..Len(t) /\ r[i] = t[i + 1] BY <1>1
<1>4. \A i \in 1..Len(a) : (i \in 1..Len(o) /\ a[i] = o[i]) \/ (i = Len(o) + 1 /\ a[i] = t[1])
  BY <1>2
<1>5. 1 \in 1..Len(t) BY <1>1
<1>6. Ordered(a)
  <2> SUFFICES ASSUME NEW i \in 1..Len(a), NEW j \in 1..Len(a), i < j, a[i] # None, a[j] # None
               PROVE  a[i] < a[j]
    BY DEF Ordered
  <2>1. i \in 1..Len(o) /\ a[i] = o[i] BY SMTT(30), <1>2, <1>4
  <2>2. CASE j \in 1..Len(o) /\ a[j] = o[j] BY <2>1, <2>2 DEF Ordered
  <2>3. CASE a[j] = t[1] BY <2>1, <2>3, <1>5 DEF Before
  <2> QED BY <2>2, <2>3, <1>4
<1>7. Ordered(r)
  <2> SUFFICES ASSUME NEW i \in 1..Len(r), NEW j \in 1..Len(r), i < j, r[i] # None, r[j] # None
               PROVE  r[i] < r[j]
    BY DEF Ordered
  <2>1. i + 1 < j + 1 BY <1>1
  <2> QED BY <2>1, <1>3 DEF Ordered
<1>8. Before(o, r) BY <1>3 DEF Before
<1>9. Before(a, r)
  <2> SUFFICES ASSUME NEW i \in 1..Len(a), NEW j \in 1..Len(r), a[i] # None, r[j] # None
               PROVE  a[i] < r[j]
    BY DEF Before
  <2>1. j + 1 \in 1..Len(t) /\ r[j] = t[j + 1] /\ 1 < j + 1 BY <1>1, <1>3
  <2>2. CASE i \in 1..Len(o) /\ a[i] = o[i] BY <2>1, <2>2 DEF Before
  <2>3. CASE a[i] = t[1] BY <2>1, <2>3, <1>5 DEF Ordered
  <2> QED BY <2>2, <2>3, <1>4
<1>10. ASSUME NEW u, Before(o, u), Before(t, u) PROVE Before(a, u) /\ Before(r, u)
  <2>1. Before(a, u) BY <1>4, <1>5, <1>10 DEF Before
  <2>2. Before(r, u) BY <1>3, <1>10 DEF Before
  <2> QED BY <2>1, <2>2
<1>11. ASSUME NEW n, Within(o, n), Within(t, n) PROVE Within(a, n) /\ Within(r, n)
  <2>1. Within(a, n) BY <1>4, <1>5, <1>11 DEF Within
  <2>2. Within(r, n) BY <1>3, <1>11 DEF Within
  <2> QED BY <2>1, <2>2
<1>12. /\ a \in Seq(Nat) /\ r \in Seq(Nat) /\ Ordered(a) /\ Ordered(r) /\ Before(a, r) /\ Before(o, r)
       /\ \A u : Before(o, u) /\ Before(t, u) => Before(a, u) /\ Before(r, u)
       /\ \A n : Within(o, n) /\ Within(t, n) => Within(a, n) /\ Within(r, n)
  BY <1>1, <1>2, <1>6, <1>7, <1>8, <1>9, <1>10, <1>11
<1> QED BY <1>12 DEF a, r

\* The next line of the snapshot is sent.
LEMMA LinesYield ==
    ASSUME NEW n, NEW o, NEW s, NEW q, Lines(o, s, q, n), s # <<>>
    PROVE  Lines(Append(o, Head(s)), Tail(s), q, n)
BY MoveHead DEF Lines

\* The next item of the queue is taken, when the snapshot is through, and sent or not.
LEMMA LinesTake ==
    ASSUME NEW n, NEW o, NEW q, Lines(o, <<>>, q, n), q # <<>>
    PROVE  Lines(Append(o, Head(q)), <<>>, Tail(q), n) /\ Lines(o, <<>>, Tail(q), n)
<1>1. \A u : Before(<<>>, u) /\ Before(u, <<>>) BY DEF Before
<1>2. Within(<<>>, n) /\ Ordered(<<>>) BY DEF Within, Ordered
<1>3. o \in Seq(Nat) /\ q \in Seq(Nat) /\ <<>> \in Seq(Nat) BY DEF Lines
<1> QED BY <1>1, <1>2, <1>3, MoveHead DEF Lines

\* A queue after x was published: x is last, and the rest was there before.
LEMMA PublishShape ==
    ASSUME NEW q \in Seq(Nat), NEW x \in Nat
    PROVE  /\ Publish(q, x) \in Seq(Nat)
           /\ Len(Publish(q, x)) \in Nat \ {0}
           /\ Len(q) # 0 => Len(Publish(q, x)) # 1
           /\ Publish(q, x)[Len(Publish(q, x))] = x
           /\ Len(q) # 0 => Publish(q, x)[Len(Publish(q, x)) - 1] = q[Len(q)]
           /\ \A i \in 1..(Len(Publish(q, x)) - 1) : Holds(q, Publish(q, x)[i])
           /\ Len(q) < QueueSize =>
                 /\ Len(Publish(q, x)) = Len(q) + 1
                 /\ \A n : Holds(Publish(q, x), n) <=> Holds(q, n) \/ n = x
<1> DEFINE p == Publish(q, x)
           k == Shift(q, QueueSize)
<1>0. QueueSize \in Nat \ {0, 1} /\ Len(q) \in Nat BY LogConstants
<1>1. k \in {0, 1} /\ (k = 1 => Len(q) >= 2) /\ (Len(q) < QueueSize => k = 0) BY <1>0 DEF Shift
<1> HIDE DEF k
<1>2. /\ p \in Seq(Nat)
      /\ Len(p) = Len(q) + 1 - k
      /\ p[Len(q) + 1 - k] = x
      /\ \A i \in 1..(Len(q) - k) : p[i] = q[i + k]
  <2>1. /\ Push(q, x, QueueSize) \in Seq(Nat)
        /\ Len(Push(q, x, QueueSize)) = Len(q) + 1 - Shift(q, QueueSize)
        /\ Push(q, x, QueueSize)[Len(q) + 1 - Shift(q, QueueSize)] = x
        /\ \A i \in 1..(Len(q) - Shift(q, QueueSize)) :
              Push(q, x, QueueSize)[i] = q[i + Shift(q, QueueSize)]
    <3>1. QueueSize \in Nat \ {0} BY <1>0
    <3> QED BY <3>1, PushShape
  <2>2. p = Push(q, x, QueueSize) /\ k = Shift(q, QueueSize) BY DEF Publish, k
  <2> HIDE DEF p
  <2> QED BY <2>1, <2>2
<1> HIDE DEF p
<1>3. Len(p) \in Nat \ {0} /\ (Len(q) # 0 => Len(p) # 1) BY SMTT(30), <1>0, <1>1, <1>2
<1>4. p[Len(p)] = x BY <1>2
<1>5. Len(q) # 0 => p[Len(p) - 1] = q[Len(q)]
  <2> SUFFICES ASSUME Len(q) # 0 PROVE p[Len(p) - 1] = q[Len(q)] OBVIOUS
  <2>1. Len(q) - k \in 1..(Len(q) - k) /\ Len(p) - 1 = Len(q) - k /\ Len(q) - k + k = Len(q)
    BY <1>0, <1>1, <1>2
  <2> QED BY <2>1, <1>2
<1>6. ASSUME NEW i \in 1..(Len(p) - 1) PROVE i + k \in 1..Len(q) /\ p[i] = q[i + k]
  BY SMTT(30), <1>0, <1>1, <1>2
<1>7. \A i \in 1..(Len(p) - 1) : Holds(q, p[i]) BY <1>6 DEF Holds
<1>8. ASSUME Len(q) < QueueSize
      PROVE  Len(p) = Len(q) + 1 /\ \A n : Holds(p, n) <=> Holds(q, n) \/ n = x
  <2>1. /\ Len(p) = Len(q) + 1 /\ p[Len(q) + 1] = x /\ \A i \in 1..Len(q) : p[i] = q[i]
    BY <1>0, <1>1, <1>2, <1>8
  <2>2. \A i \in 1..Len(p) : i \in 1..Len(q) \/ i = Len(q) + 1 BY <2>1, <1>0
  <2>3. \A i \in 1..Len(q) : i \in 1..Len(p) BY <2>1, <1>0
  <2>4. Len(q) + 1 \in 1..Len(p) BY <2>1, <1>0
  <2> QED BY <2>1, <2>2, <2>3, <2>4 DEF Holds
<1>9. /\ p \in Seq(Nat) /\ Len(p) \in Nat \ {0} /\ (Len(q) # 0 => Len(p) # 1)
      /\ p[Len(p)] = x /\ (Len(q) # 0 => p[Len(p) - 1] = q[Len(q)])
      /\ \A i \in 1..(Len(p) - 1) : Holds(q, p[i])
      /\ Len(q) < QueueSize => Len(p) = Len(q) + 1 /\ \A n : Holds(p, n) <=> Holds(q, n) \/ n = x
  BY <1>2, <1>3, <1>4, <1>5, <1>7, <1>8
<1> QED BY <1>9 DEF p

\* Queue p is queue q after x and then y: neither of them pushed the other out.
TwoMore(p, q, x, y) ==
    /\ p \in Seq(Nat)
    /\ Len(p) \in Nat \ {0, 1}
    /\ p[Len(p)] = y /\ p[Len(p) - 1] = x
    /\ \A i \in 1..(Len(p) - 2) : Holds(q, p[i])
    /\ Len(q) + 2 <= QueueSize => \A n : Holds(p, n) <=> Holds(q, n) \/ n \in {x, y}

\* Two items are published.
LEMMA PublishTwice ==
    ASSUME NEW q \in Seq(Nat), NEW x \in Nat, NEW y \in Nat,
           NEW p, p = Publish(Publish(q, x), y)
    PROVE  TwoMore(p, q, x, y)
<1> DEFINE r == Publish(q, x)
<1>0. p = Publish(r, y) OBVIOUS
<1>1. /\ r \in Seq(Nat) /\ Len(r) \in Nat \ {0} /\ r[Len(r)] = x
      /\ \A i \in 1..(Len(r) - 1) : Holds(q, r[i])
      /\ Len(q) < QueueSize => Len(r) = Len(q) + 1 /\ \A n : Holds(r, n) <=> Holds(q, n) \/ n = x
  BY PublishShape
<1> HIDE DEF r
<1>2. /\ p \in Seq(Nat) /\ Len(p) \in Nat \ {0, 1} /\ p[Len(p)] = y /\ p[Len(p) - 1] = x
      /\ \A i \in 1..(Len(p) - 1) : Holds(r, p[i])
      /\ Len(r) < QueueSize => \A n : Holds(p, n) <=> Holds(r, n) \/ n = y
  BY SMTT(30), <1>0, <1>1, PublishShape
<1>3. Len(q) + 2 <= QueueSize => Len(q) < QueueSize /\ Len(r) < QueueSize
  BY <1>1, LogConstants
<1>4. Len(q) + 2 <= QueueSize => \A n : Holds(p, n) <=> Holds(q, n) \/ n \in {x, y}
  BY <1>1, <1>2, <1>3
<1>5. ASSUME NEW i \in 1..(Len(p) - 2) PROVE Holds(q, p[i])
  <2> DEFINE k == Shift(r, QueueSize)
  <2>1. k \in {0, 1} /\ QueueSize \in Nat \ {0} /\ Len(r) \in Nat BY <1>1, LogConstants DEF Shift
  <2> HIDE DEF k
  <2>2. Len(p) = Len(r) + 1 - k /\ \A j \in 1..(Len(r) - k) : p[j] = r[j + k]
    <3>1. p = Push(r, y, QueueSize) BY <1>0 DEF Publish
    <3>2. /\ Len(Push(r, y, QueueSize)) = Len(r) + 1 - Shift(r, QueueSize)
          /\ \A j \in 1..(Len(r) - Shift(r, QueueSize)) :
                Push(r, y, QueueSize)[j] = r[j + Shift(r, QueueSize)]
      <4>1. r \in Seq(Nat) /\ QueueSize \in Nat \ {0} BY <1>1, <2>1
      <4> QED BY <4>1, PushShape
    <3> QED BY <3>1, <3>2 DEF k
  <2>3. i \in 1..(Len(r) - k) /\ i + k \in 1..(Len(r) - 1) BY <2>1, <2>2, <1>5
  <2> QED BY <2>2, <2>3, <1>1
<1> QED BY <1>2, <1>4, <1>5 DEF TwoMore

-----------------------------------------------------------------------------
\* The buffer stays the end of the log when the next line is appended.
LEMMA PushNext ==
    ASSUME NEW n \in Nat, NEW b, EndOf(b, n)
    PROVE  EndOf(Push(b, n + 1, BufferSize), n + 1)
<1> DEFINE p == Push(b, n + 1, BufferSize)
           k == Shift(b, BufferSize)
<1>1. b \in Seq(Nat \ {None}) /\ b \in Seq(Nat) /\ BufferSize \in Nat \ {0} /\ n + 1 \in Nat
  <2>1. b \in Seq(Nat \ {None}) BY DEF EndOf
  <2>2. b \in Seq(Nat) BY <2>1, SeqMonotonic
  <2> QED BY <2>1, <2>2, LogConstants
<1>2. /\ p \in Seq(Nat)
      /\ Len(p) = Len(b) + 1 - k
      /\ p[Len(b) + 1 - k] = n + 1
      /\ \A i \in 1..(Len(b) - k) : p[i] = b[i + k]
  BY ZenonT(40), <1>1, PushShape
<1>3. k \in {0, 1} /\ Len(b) \in Nat /\ (k = 1 => Len(b) >= 1) BY <1>1 DEF Shift
<1> HIDE DEF k, p
<1>4. Len(b) <= n /\ \A i \in 1..Len(b) : b[i] = n - Len(b) + i BY DEF EndOf
<1>5. Len(p) \in Nat /\ Len(p) <= n + 1 BY <1>2, <1>3, <1>4
<1>6. ASSUME NEW i \in 1..Len(p) PROVE p[i] = n + 1 - Len(p) + i
  <2>1. CASE i = Len(b) + 1 - k BY <2>1, <1>2, <1>3
  <2>2. CASE i # Len(b) + 1 - k
    <3>1. i \in 1..(Len(b) - k) /\ i + k \in 1..Len(b) BY <2>2, <1>2, <1>3
    <3>2. p[i] = n - Len(b) + (i + k) BY <3>1, <1>2, <1>4
    <3> QED BY <3>1, <3>2, <1>2, <1>3
  <2> QED BY <2>1, <2>2
<1>7. p \in Seq(Nat \ {None})
  <2>1. \A i \in 1..Len(p) : p[i] \in Nat \ {None} BY <1>5, <1>6 DEF None
  <2> QED BY <2>1, <1>2, <1>5
<1>8. EndOf(p, n + 1) BY <1>5, <1>6, <1>7 DEF EndOf
<1> QED BY <1>8 DEF p

\* The log grew by k lines, and the buffer with it.
Grows(k) ==
    /\ log' \in Seq(Texts) /\ buffer' \in Seq(Nat \ {None}) /\ BufferOK'
    /\ Len(log) \in Nat /\ Len(log') = Len(log) + k
    /\ \A n \in 1..Len(log) : log'[n] = log[n]

LEMMA WriteStep ==
    ASSUME RecordOK, NEW t \in Texts, Write(t)
    PROVE  Grows(1)
<1>1. log \in Seq(Texts) /\ Len(log) \in Nat /\ EndOf(buffer, Len(log))
  BY DEF RecordOK, TypeOK, BufferOK
<1>2. /\ log' \in Seq(Texts) /\ Len(log') = Len(log) + 1
      /\ \A i \in 1..Len(log) : log'[i] = log[i]
  BY <1>1 DEF Write
<1>3. EndOf(buffer', Len(log) + 1) BY <1>1, PushNext DEF Write
<1> QED BY <1>1, <1>2, <1>3 DEF Grows, BufferOK, EndOf

LEMMA WriteTwoStep ==
    ASSUME RecordOK, NEW t \in Texts, NEW e \in Texts, WriteTwo(t, e)
    PROVE  Grows(2)
<1> DEFINE l == Append(log, t)
           b == Push(buffer, Len(log) + 1, BufferSize)
<1>1. log \in Seq(Texts) /\ Len(log) \in Nat /\ EndOf(buffer, Len(log))
  BY DEF RecordOK, TypeOK, BufferOK
<1>2. l \in Seq(Texts) /\ Len(l) = Len(log) + 1 /\ \A i \in 1..Len(log) : l[i] = log[i]
  BY <1>1
<1>3. EndOf(b, Len(log) + 1) BY <1>1, PushNext
<1>4. log' = Append(l, e) /\ buffer' = Push(b, Len(log) + 2, BufferSize) BY DEF WriteTwo
<1> HIDE DEF l, b
<1>5. log' \in Seq(Texts) /\ Len(log') = Len(l) + 1 /\ \A i \in 1..Len(l) : log'[i] = l[i]
  BY <1>2, <1>4
<1>6. Len(log') = Len(log) + 2 /\ \A i \in 1..Len(log) : i \in 1..Len(l) /\ log'[i] = log[i]
  BY <1>1, <1>2, <1>5
<1>7. EndOf(buffer', Len(log) + 2)
  <2>1. Len(log) + 1 \in Nat /\ (Len(log) + 1) + 1 = Len(log) + 2 BY <1>1
  <2>2. EndOf(Push(b, (Len(log) + 1) + 1, BufferSize), (Len(log) + 1) + 1) BY <1>3, <2>1, PushNext
  <2> QED BY <2>1, <2>2, <1>4
<1> QED BY <1>1, <1>5, <1>6, <1>7 DEF Grows, BufferOK, EndOf

\* Lines of the log, and those that were added to it, are lines of the longer one.
LEMMA LinesStay ==
    ASSUME NEW n \in Nat, NEW k \in Nat
    PROVE  1..n \subseteq 1..(n + k) /\ \A i \in 1..k : n + i \in 1..(n + k)
  OBVIOUS

\* A step of the record that may publish.
Publishes ==
    \/ RegisterRaises \/ FailPipeline \/ EndSilently
    \/ \E t \in Texts : \/ AppendLog(t) \/ AppendRaises(t)
                       \/ EndWithCompletion(t) \/ CompletionRaises(t)
                       \/ EndWithLine(t) \/ EndRaises(t)
                       \/ \E e \in Texts : OutputRaises(t, e)

\* What the steps that publish do to the log and to what is known of its end.
RecordChange ==
    /\ log' \in Seq(Texts) /\ buffer' \in Seq(Nat \ {None}) /\ BufferOK'
    /\ Len(log) \in Nat /\ Len(log') \in Nat /\ Len(log) <= Len(log')
    /\ \A n \in 1..Len(log) : log'[n] = log[n]
    /\ unpublished \subseteq unpublished' /\ unpublished' \subseteq 1..Len(log')
    /\ EndingOK'
    /\ status' \in {"ACTIVE"} \cup Ended
    /\ phase' \in {"absent", "running", "failing", "ended", "unannounced"}
    /\ UNCHANGED <<clientVars, logsCompletion>>

LEMMA PublisherChange ==
    ASSUME RecordOK, Publishes
    PROVE  RecordChange
<1> USE DEF NewLine, Ended
<1>0. /\ TypeOK /\ EndingOK /\ BufferOK /\ Len(log) \in Nat /\ log \in Seq(Texts)
      /\ buffer \in Seq(Nat \ {None}) /\ unpublished \subseteq 1..Len(log)
  BY DEF RecordOK, TypeOK
<1>1. CASE RegisterRaises \/ FailPipeline \/ EndSilently
  <2>1. /\ UNCHANGED <<log, buffer, unpublished, clientVars, logsCompletion>>
        /\ status' \in {"ACTIVE", "FAILED", "SUCCEEDED"} /\ phase' \in {"absent", "ended"}
    BY <1>1 DEF RegisterRaises, FailPipeline, EndSilently, Running
  <2>2. BufferOK' BY <1>0, <2>1 DEF BufferOK
  <2>3. EndingOK' BY <2>1 DEF EndingOK
  <2> QED BY <1>0, <2>1, <2>2, <2>3 DEF RecordChange
<1>2. ASSUME NEW t \in Texts, AppendLog(t) \/ EndWithCompletion(t) \/ EndWithLine(t)
      PROVE  RecordChange
  <2>1. /\ Write(t) /\ UNCHANGED <<unpublished, clientVars, logsCompletion>>
        /\ \/ status' = "ACTIVE" /\ phase' = "running"
           \/ status' \in Ended /\ phase' = "ended"
    BY <1>2 DEF AppendLog, EndWithCompletion, EndWithLine, LastStatus, Running
  <2>2. Grows(1) BY <1>0, <2>1, WriteStep
  <2>3. EndingOK' BY <2>1 DEF EndingOK
  <2>4. unpublished' \subseteq 1..Len(log') BY <1>0, <2>1, <2>2 DEF Grows
  <2> QED BY <1>0, <2>1, <2>2, <2>3, <2>4 DEF RecordChange, Grows
<1>3. ASSUME NEW t \in Texts, AppendRaises(t) \/ CompletionRaises(t) \/ EndRaises(t)
      PROVE  RecordChange
  <2>1. /\ Write(t) /\ UNCHANGED <<clientVars, logsCompletion>>
        /\ unpublished' = unpublished \cup {Len(log) + 1}
        /\ \/ status' = "ACTIVE" /\ phase' = "failing"
           \/ status' \in Ended /\ phase' \in {"failing", "unannounced"}
    BY <1>3 DEF AppendRaises, CompletionRaises, EndRaises, LastStatus, Running
  <2>2. Grows(1) BY <1>0, <2>1, WriteStep
  <2>3. Len(log') \in unpublished' BY <2>1, <2>2 DEF Grows
  <2>4. EndingOK' BY <2>1, <2>3 DEF EndingOK
  <2>5. unpublished' \subseteq 1..Len(log')
    <3>1. 1..Len(log) \subseteq 1..Len(log') /\ Len(log) + 1 \in 1..Len(log') BY <2>2 DEF Grows
    <3> QED BY <1>0, <2>1, <3>1
  <2> QED BY <1>0, <2>1, <2>2, <2>4, <2>5 DEF RecordChange, Grows
<1>4. ASSUME NEW t \in Texts, NEW e \in Texts, OutputRaises(t, e)
      PROVE  RecordChange
  <2>1. /\ WriteTwo(t, e) /\ UNCHANGED <<clientVars, logsCompletion>>
        /\ unpublished \subseteq unpublished'
        /\ unpublished' \subseteq unpublished \cup {Len(log) + 1, Len(log) + 2}
        /\ status' = "ACTIVE" /\ phase' = "failing"
    BY <1>0, <1>4 DEF OutputRaises, Running
  <2>2. Grows(2) BY <1>0, <2>1, WriteTwoStep
  <2>3. EndingOK' BY <2>1 DEF EndingOK
  <2>4. unpublished' \subseteq 1..Len(log')
    <3>1. Len(log) \in Nat /\ Len(log') = Len(log) + 2 BY <2>2 DEF Grows
    <3>2. 1..Len(log) \subseteq 1..Len(log') BY <3>1, LinesStay
    <3>3. Len(log) + 1 \in 1..Len(log') /\ Len(log) + 2 \in 1..Len(log') BY <3>1
    <3> QED BY <1>0, <2>1, <3>2, <3>3
  <2> QED BY <1>0, <2>1, <2>2, <2>3, <2>4 DEF RecordChange, Grows
<1> QED BY <1>1, <1>2, <1>3, <1>4 DEF Publishes

\* The queues stay sequences, whatever is published.
LEMMA PublisherTypes ==
    ASSUME TypeOK, Publishes
    PROVE  queue' \in [Clients -> Seq(Nat)] /\ dropped' \in [Clients -> BOOLEAN]
<1>1. NewLine \in Nat /\ NewLine + 1 \in Nat /\ None \in Nat BY DEF TypeOK, NewLine, None
<1>2. ASSUME NEW p, Deliver(p), \A c \in Clients : p[c] \in Seq(Nat)
      PROVE  queue' \in [Clients -> Seq(Nat)]
  BY <1>2 DEF Deliver, TypeOK
<1>3. \A c \in Clients : queue[c] \in Seq(Nat) BY DEF TypeOK
<1>4. ASSUME NEW count, NoteDrops(count) PROVE dropped' \in [Clients -> BOOLEAN]
  BY <1>4 DEF NoteDrops, TypeOK
<1>5. ASSUME NEW x \in Nat, Deliver([c \in Clients |-> Publish(queue[c], x)])
      PROVE  queue' \in [Clients -> Seq(Nat)]
  <2> DEFINE p == [c \in Clients |-> Publish(queue[c], x)]
  <2>1. \A c \in Clients : p[c] \in Seq(Nat) BY <1>3, PublishShape
  <2>2. Deliver(p) BY <1>5
  <2> HIDE DEF p
  <2> QED BY <2>1, <2>2, <1>2
<1>6. ASSUME NEW x \in Nat, NEW y \in Nat,
             Deliver([c \in Clients |-> Publish(Publish(queue[c], x), y)])
      PROVE  queue' \in [Clients -> Seq(Nat)]
  <2> DEFINE p == [c \in Clients |-> Publish(Publish(queue[c], x), y)]
  <2>1. \A c \in Clients : p[c] \in Seq(Nat) BY <1>3, PublishShape
  <2>2. Deliver(p) BY <1>6
  <2> HIDE DEF p
  <2> QED BY <2>1, <2>2, <1>2
<1>7. CASE UNCHANGED <<queue, dropped>> BY <1>7 DEF TypeOK
<1>8. CASE RegisterRaises BY <1>7, <1>8 DEF RegisterRaises
<1>9. CASE FailPipeline BY <1>1, <1>4, <1>5, <1>9 DEF FailPipeline
<1>10. CASE EndSilently BY <1>1, <1>4, <1>5, <1>10 DEF EndSilently
<1>11. ASSUME NEW t, AppendLog(t) \/ CompletionRaises(t)
       PROVE  queue' \in [Clients -> Seq(Nat)] /\ dropped' \in [Clients -> BOOLEAN]
  BY <1>1, <1>4, <1>5, <1>11 DEF AppendLog, CompletionRaises
<1>12. ASSUME NEW t, AppendRaises(t) \/ EndRaises(t)
       PROVE  queue' \in [Clients -> Seq(Nat)] /\ dropped' \in [Clients -> BOOLEAN]
  BY <1>7, <1>12 DEF AppendRaises, EndRaises
<1>13. ASSUME NEW t, EndWithCompletion(t)
       PROVE  queue' \in [Clients -> Seq(Nat)] /\ dropped' \in [Clients -> BOOLEAN]
  BY <1>1, <1>4, <1>6, <1>13 DEF EndWithCompletion
<1>14. ASSUME NEW t, EndWithLine(t)
       PROVE  queue' \in [Clients -> Seq(Nat)] /\ dropped' \in [Clients -> BOOLEAN]
  BY <1>1, <1>4, <1>6, <1>14 DEF EndWithLine
<1>15. ASSUME NEW t, NEW e, OutputRaises(t, e)
       PROVE  queue' \in [Clients -> Seq(Nat)] /\ dropped' \in [Clients -> BOOLEAN]
  BY <1>1, <1>4, <1>5, <1>7, <1>15 DEF OutputRaises
<1> QED BY <1>8, <1>9, <1>10, <1>11, <1>12, <1>13, <1>14, <1>15 DEF Publishes

\* The record stays well-typed, and its buffer the end of its log.
LEMMA RecordStep ==
    ASSUME StreamInv, [Next]_vars
    PROVE  RecordOK'
<1> USE DEF recordVars, clientVars
<1>0. RecordOK /\ TypeOK BY DEF StreamInv, RecordOK
<1>1. CASE Publishes
  <2>1. RecordChange BY <1>0, <1>1, PublisherChange
  <2>2. queue' \in [Clients -> Seq(Nat)] /\ dropped' \in [Clients -> BOOLEAN]
    BY <1>0, <1>1, PublisherTypes
  <2>3. TypeOK' BY <1>0, <2>1, <2>2 DEF RecordChange, TypeOK
  <2> QED BY <2>1, <2>3 DEF RecordChange, RecordOK
<1>5. ASSUME NEW t \in Texts, Registered(t) PROVE RecordOK'
  <2>1. Write(t) /\ status = "REGISTERING" /\ status' = "ACTIVE"
        /\ UNCHANGED <<phase, queue, dropped, unpublished, clientVars, logsCompletion>>
    BY <1>5 DEF Registered
  <2>2. Grows(1) BY <1>0, <2>1, WriteStep
  <2>3. unpublished' \subseteq 1..Len(log') BY <1>0, <2>1, <2>2 DEF Grows, TypeOK
  <2>4. TypeOK' BY <1>0, <2>1, <2>2, <2>3 DEF Grows, TypeOK
  <2>5. EndingOK' BY <1>0, <2>1 DEF RecordOK, EndingOK, Ended
  <2> QED BY <2>2, <2>4, <2>5 DEF Grows, RecordOK
<1>10. ASSUME UNCHANGED recordVars, stream' \in [Clients -> {"off", "closed", "gone"} \cup Streaming],
              queue' \in [Clients -> Seq(Nat)], seen' \in [Clients -> Seq(Nat \ {None})],
              seenSet' \in [Clients -> SUBSET Texts], out' \in [Clients -> Seq(Nat \ {None})]
       PROVE  RecordOK'
  <2>1. BufferOK' /\ EndingOK' BY <1>0, <1>10 DEF RecordOK, BufferOK, EndingOK
  <2>2. TypeOK' BY <1>0, <1>10 DEF TypeOK
  <2> QED BY <2>1, <2>2 DEF RecordOK
<1>11. ASSUME NEW c \in Clients, Connect(c) PROVE RecordOK'
  <2>1. {log[buffer[i]] : i \in 1..Len(buffer)} \subseteq Texts
    <3> SUFFICES ASSUME NEW i \in 1..Len(buffer) PROVE log[buffer[i]] \in Texts OBVIOUS
    <3>1. /\ Len(buffer) \in Nat /\ Len(log) \in Nat /\ Len(buffer) <= Len(log)
          /\ buffer[i] = Len(log) - Len(buffer) + i
      BY <1>0 DEF RecordOK, TypeOK, BufferOK, EndOf
    <3>2. buffer[i] \in 1..Len(log) BY <3>1
    <3> QED BY <3>2, <1>0 DEF TypeOK
  <2> QED BY <1>0, <1>10, <1>11, <2>1 DEF Connect, TypeOK, Streaming
<1>12. ASSUME NEW c \in Clients, YieldHistory(c) PROVE RecordOK'
  <2>1. seen[c] \in Seq(Nat \ {None}) /\ seen[c] # <<>> /\ out[c] \in Seq(Nat \ {None})
    BY <1>0, <1>12 DEF YieldHistory, TypeOK
  <2>2. /\ Append(out[c], Head(seen[c])) \in Seq(Nat \ {None})
        /\ Tail(seen[c]) \in Seq(Nat \ {None})
    BY <2>1
  <2> QED BY <1>0, <1>10, <1>12, <2>2 DEF YieldHistory, TypeOK
<1>13. ASSUME NEW c \in Clients, HistoryDone(c) \/ DrainDone(c) \/ Disconnect(c) PROVE RecordOK'
  BY <1>0, <1>10, <1>13 DEF HistoryDone, DrainDone, Disconnect, TypeOK, Streaming
<1>14. ASSUME NEW c \in Clients, NEW skipped, Take(c, skipped) PROVE RecordOK'
  <2>1. queue[c] \in Seq(Nat) /\ queue[c] # <<>> /\ out[c] \in Seq(Nat \ {None})
    BY <1>0, <1>14 DEF Take, TypeOK
  <2>2. /\ Tail(queue[c]) \in Seq(Nat) /\ Head(queue[c]) \in Nat
        /\ Head(queue[c]) # None => Append(out[c], Head(queue[c])) \in Seq(Nat \ {None})
    BY <2>1
  <2>3. out' \in [Clients -> Seq(Nat \ {None})] BY <1>0, <1>14, <2>2 DEF Take, TypeOK
  <2>4. queue' \in [Clients -> Seq(Nat)] BY <1>0, <1>14, <2>2 DEF Take, TypeOK
  <2>5. stream' \in [Clients -> {"off", "closed", "gone"} \cup Streaming]
    BY <1>0, <1>14 DEF Take, TypeOK
  <2> QED BY <1>0, <1>10, <1>14, <2>3, <2>4, <2>5 DEF Take, TypeOK
<1>15. CASE UNCHANGED vars BY <1>0, <1>10, <1>15 DEF vars, TypeOK
<1> QED
  BY <1>1, <1>5, <1>11, <1>12, <1>13, <1>14, <1>15 DEF Next, Publishes, Read, Drain, Live

-----------------------------------------------------------------------------
\* A step that does not touch the record or client c.
LEMMA ClientUntouched ==
    ASSUME NEW c \in Clients, ClientOK(c), UNCHANGED <<log, status, phase, unpublished, logsCompletion>>,
           dropped'[c] = dropped[c],
           stream'[c] = stream[c], queue'[c] = queue[c], seen'[c] = seen[c],
           seenSet'[c] = seenSet[c], out'[c] = out[c]
    PROVE  ClientOK(c)'
<1>1. PhaseOK(c)' BY DEF ClientOK, PhaseOK
<1>2. OrderOK(c)' BY DEF ClientOK, OrderOK
<1>3. SentinelOK(c)' /\ ClosedOK(c)' BY DEF ClientOK, SentinelOK, ClosedOK, IsTrailer, IsCompletion
<1>4. KeptOK(c)' BY DEF ClientOK, KeptOK
<1>5. \A n : Held(c, n)' <=> Held(c, n) BY DEF Held
<1>6. NoGap(c)' BY <1>5 DEF ClientOK, NoGap
<1> QED BY <1>1, <1>2, <1>3, <1>4, <1>6 DEF ClientOK

\* What client c is given when something is published: the queue holds what it held and
\* the new lines that were published, or an overflow is noted; a sentinel comes last, or
\* last before a trailer.
Hears(c) ==
    /\ Lines(out[c], seen[c], queue'[c], Len(log'))
    /\ SentinelOK(c)'
    /\ status' \in Ended /\ phase' # "unannounced" => Holds(queue'[c], None)
    /\ ~dropped'[c] =>
          /\ \A n \in 1..Len(log) : Holds(queue'[c], n) <=> Holds(queue[c], n)
          /\ \A n \in (Len(log) + 1)..Len(log') : Holds(queue'[c], n) \/ n \in unpublished'

\* An operation that has ended publishes no more than another sentinel.
OnlySentinelsFollow ==
    status \in Ended =>
        /\ log' = log /\ status' \in Ended
        /\ \A n : ~IsCompletion(n)

\* The record logs a line, ends, or both.
LEMMA ClientHears ==
    ASSUME RecordOK, NEW c \in Clients, ClientOK(c), RecordChange, OnlySentinelsFollow,
           ~dropped'[c] => ~dropped[c],
           stream[c] \notin Streaming => queue'[c] = queue[c],
           stream[c] \in Streaming => Hears(c)
    PROVE  ClientOK(c)'
<1>0. /\ stream[c] \in {"off", "closed", "gone"} \cup Streaming /\ Len(log) \in Nat /\ Len(log') \in Nat
      /\ Len(log) <= Len(log')
      /\ PhaseOK(c) /\ OrderOK(c) /\ SentinelOK(c) /\ ClosedOK(c) /\ NoGap(c)
  BY DEF RecordOK, TypeOK, ClientOK, RecordChange
<1>1. /\ stream'[c] = stream[c] /\ seen'[c] = seen[c] /\ seenSet'[c] = seenSet[c] /\ out'[c] = out[c]
  BY DEF RecordChange, clientVars
<1>2. status \in Ended => status' \in Ended /\ log' = log /\ \A n : IsTrailer(n) <=> n = None
  BY DEF OnlySentinelsFollow, IsTrailer
<1>3. PhaseOK(c)' BY <1>0, <1>1, <1>2 DEF PhaseOK, Streaming
<1>4. ClosedOK(c)'
  <2> SUFFICES ASSUME stream[c] = "closed", NEW i \in 1..Len(queue[c]) PROVE queue[c][i] = None
    BY <1>1 DEF ClosedOK, IsTrailer, Streaming
  <2>1. status \in Ended BY <1>0 DEF PhaseOK
  <2> QED BY <2>1, <1>0, <1>2 DEF ClosedOK
<1>5. OrderOK(c)'
  <2>1. CASE stream[c] \in Streaming BY <2>1, <1>1 DEF Hears, OrderOK
  <2>2. CASE stream[c] \notin Streaming BY <2>2, <1>0, <1>1, LinesGrow DEF OrderOK
  <2> QED BY <2>1, <2>2
<1>6. SentinelOK(c)'
  <2>1. CASE stream[c] \in Streaming BY <2>1 DEF Hears
  <2>2. CASE stream[c] \notin Streaming
    <3> SUFFICES ASSUME NEW i \in 1..Len(queue[c]), queue[c][i] = None
                 PROVE  status' \in Ended /\ \A j \in (i + 1)..Len(queue[c]) : queue[c][j] = None
      BY <2>2 DEF SentinelOK, IsTrailer
    <3> QED BY <1>0, <1>2 DEF SentinelOK
  <2> QED BY <2>1, <2>2
<1>7. KeptOK(c)' BY <1>1 DEF KeptOK, Hears, Streaming
<1>8. NoGap(c)'
  <2> SUFFICES ASSUME stream[c] # "gone", ~dropped'[c], NEW m \in 1..Len(log'), NEW n \in 1..Len(log'),
                      m < n, Held(c, m)', n \notin unpublished'
               PROVE  Held(c, n)' \/ log'[n] \in seenSet[c]
    BY <1>1 DEF NoGap
  <2>1. CASE stream[c] = "off"
    <3>1. out'[c] = <<>> /\ seen'[c] = <<>> /\ queue'[c] = <<>>
      BY <2>1, <1>0, <1>1 DEF PhaseOK, Streaming
    <3> QED BY <3>1 DEF Held, Holds
  <2>2. ASSUME \A k \in 1..Len(log) : Held(c, k)' <=> Held(c, k), n \in 1..Len(log)
        PROVE  Held(c, n)' \/ log'[n] \in seenSet[c]
    <3>1. m \in 1..Len(log) BY <2>2, <1>0
    <3>2. Held(c, m) BY <3>1, <2>2
    <3>3. n \notin unpublished /\ log'[n] = log[n] BY <2>2 DEF RecordChange
    <3>4. Held(c, n) \/ log[n] \in seenSet[c] BY <3>1, <3>2, <3>3, <2>2, <1>0 DEF NoGap
    <3> QED BY <3>3, <3>4, <2>2
  <2>3. CASE stream[c] = "closed"
    <3>1. status \in Ended BY <2>3, <1>0 DEF PhaseOK
    <3>2. log' = log /\ queue'[c] = queue[c] BY <2>3, <3>1, <1>2 DEF Streaming
    <3>3. \A k : Held(c, k)' <=> Held(c, k) BY <3>2, <1>1 DEF Held
    <3> QED BY <2>2, <3>2, <3>3
  <2>4. CASE stream[c] \in Streaming
    <3>1. \A k \in 1..Len(log) : Held(c, k)' <=> Held(c, k) BY <2>4, <1>1 DEF Hears, Held
    <3>2. CASE n \in 1..Len(log) BY <3>1, <3>2, <2>2
    <3>3. CASE n \notin 1..Len(log)
      <4>1. n \in (Len(log) + 1)..Len(log') BY <3>3, <1>0
      <4> QED BY <4>1, <2>4 DEF Hears, Held
    <3> QED BY <3>2, <3>3
  <2> QED BY <2>1, <2>3, <2>4, <1>0
<1> QED BY <1>3, <1>4, <1>5, <1>6, <1>7, <1>8 DEF ClientOK

\* Sentinels, if there are any, are the last items.
SentinelsLast(q) == \A i \in 1..Len(q) : q[i] = None => \A j \in (i + 1)..Len(q) : q[j] = None

\* They still are when another one is published.
LEMMA SentinelsStayLast ==
    ASSUME NEW q \in Seq(Nat), SentinelsLast(q)
    PROVE  SentinelsLast(Publish(q, None))
<1> DEFINE p == Publish(q, None)
           k == Shift(q, QueueSize)
<1>0. QueueSize \in Nat \ {0} /\ Len(q) \in Nat /\ None \in Nat /\ k \in {0, 1}
  BY LogConstants DEF None, Shift
<1>1. /\ Len(p) = Len(q) + 1 - k
      /\ p[Len(q) + 1 - k] = None
      /\ \A i \in 1..(Len(q) - k) : p[i] = q[i + k]
  BY ZenonT(40), <1>0, PushShape DEF Publish
<1> HIDE DEF p, k
<1>2. SUFFICES ASSUME NEW i \in 1..Len(p), p[i] = None, NEW j \in (i + 1)..Len(p), j # Len(p)
               PROVE  p[j] = None
  BY <1>0, <1>1 DEF SentinelsLast, p
<1>3. i \in Nat /\ 1 <= i /\ j \in Nat /\ i < j /\ j < Len(p)
  <2> DEFINE l == Len(p)
  <2>1. l \in Nat BY <1>0, <1>1
  <2>2. i \in 1..l /\ j \in (i + 1)..l /\ j # l BY <1>2
  <2> HIDE DEF l
  <2>3. i \in Nat /\ 1 <= i /\ j \in Nat /\ i < j /\ j < l BY <2>1, <2>2
  <2> QED BY <2>3 DEF l
<1>4. /\ i \in 1..(Len(q) - k) /\ j \in 1..(Len(q) - k)
      /\ i + k \in 1..Len(q) /\ j + k \in ((i + k) + 1)..Len(q)
  BY SMTT(30), <1>0, <1>1, <1>3
<1> QED BY <1>1, <1>2, <1>4 DEF SentinelsLast

\* What a client that is streaming hears, for each of the steps that publish.
LEMMA PublishersAreHeard ==
    ASSUME RecordOK, NEW c \in Clients, ClientOK(c), stream[c] \in Streaming, Publishes
    PROVE  Hears(c)
<1> DEFINE n == Len(log)
           q == queue[c]
           p == queue'[c]
<1>0. /\ n \in Nat /\ q \in Seq(Nat) /\ Len(q) \in Nat /\ Lines(out[c], seen[c], q, n) /\ NewLine = n + 1
      /\ QueueSize \in Nat /\ unpublished \subseteq 1..n
  BY LogConstants DEF RecordOK, TypeOK, ClientOK, OrderOK, NewLine
<1>1. status \notin Ended => ~Holds(q, None) BY DEF ClientOK, SentinelOK, Holds
<1>2. None \in Nat /\ n + 1 \in Nat /\ None # n + 1 BY <1>0 DEF None
<1>3. ASSUME NEW t \in Texts, Write(t) PROVE Len(log') = n + 1 BY <1>3, WriteStep DEF Grows
<1>4. ASSUME NEW count \in Nat, NoteDrops(count), ~dropped'[c] PROVE Len(q) + count <= QueueSize
  <2>1. ~(Len(q) + count > QueueSize) BY <1>4 DEF NoteDrops
  <2> QED BY <2>1, <1>0
<1>5. \A k \in 1..n : k # None /\ k # n + 1 /\ k # n + 2 BY <1>0 DEF None
\* Nothing is published.
<1>6. ASSUME p = q, status \notin Ended, Len(log') \in {n, n + 1, n + 2},
             status' \notin Ended \/ phase' = "unannounced",
             (n + 1)..Len(log') \subseteq unpublished'
      PROVE  Hears(c)
  <2>1. Lines(out[c], seen[c], p, Len(log'))
    <3>1. Lines(out[c], seen[c], q, n + 1) BY <1>0, LinesGrow
    <3>2. Lines(out[c], seen[c], q, n + 1 + 1) BY <1>2, <3>1, LinesGrow
    <3>3. n + 1 + 1 = n + 2 BY <1>0
    <3> QED BY <3>1, <3>2, <3>3, <1>0, <1>6
  <2> HIDE DEF n
  <2>2. SentinelOK(c)' BY <1>1, <1>6 DEF SentinelOK, Holds
  <2> QED BY <2>1, <2>2, <1>6 DEF Hears, n
\* One line is published, the last one.
<1>7. ASSUME Len(log') \in {n + 1, n + 2}, p = Publish(q, Len(log')),
             Len(log') = n + 2 => n + 1 \in unpublished',
             status \notin Ended, status' \notin Ended, NoteDrops(1)
      PROVE  Hears(c)
  <2> DEFINE l == Len(log')
  <2>0. l \in {n + 1, n + 2} /\ l \in Nat /\ l # None BY <1>0, <1>7 DEF None
  <2>3. Lines(out[c], seen[c], p, l)
    <3>1. CASE l = n + 1 BY <3>1, <1>0, <1>2, <1>7, LinesPublish
    <3>2. CASE l = n + 2
      <4>1. Lines(out[c], seen[c], q, n + 1) BY <1>0, LinesGrow
      <4>2. n + 1 \in Nat /\ l = n + 1 + 1 /\ l # None BY <3>2, <1>0, <2>0
      <4> QED BY <4>1, <4>2, <1>7, LinesPublish
    <3> QED BY <3>1, <3>2, <2>0
  <2> HIDE DEF l
  <2>4. /\ p[Len(p)] = l /\ Len(p) \in Nat \ {0} /\ \A i \in 1..(Len(p) - 1) : Holds(q, p[i])
        /\ Len(q) < QueueSize => \A k : Holds(p, k) <=> Holds(q, k) \/ k = l
    <3>1. p = Publish(q, l) BY <1>7 DEF l
    <3> HIDE DEF p, q, n
    <3>2. q \in Seq(Nat) BY <1>0
    <3> QED BY <3>1, <3>2, <2>0, PublishShape
  <2>5. ~dropped'[c] => Len(q) < QueueSize BY <1>0, <1>4, <1>7
  <2> HIDE DEF p, q, n
  <2>6. \A i \in 1..Len(p) : p[i] # None
    <3>1. \A i \in 1..Len(p) : i = Len(p) \/ i \in 1..(Len(p) - 1) BY <2>4
    <3> QED BY <3>1, <2>0, <2>4, <1>1, <1>7
  <2>7. SentinelOK(c)' BY <2>6 DEF SentinelOK, p
  <2>8. ~dropped'[c] => /\ \A k \in 1..n : Holds(p, k) <=> Holds(q, k)
                        /\ Holds(p, l)
    BY <2>0, <2>4, <2>5, <1>5
  <2>9. \A k \in (n + 1)..l : k = l \/ (l = n + 2 /\ k = n + 1) BY <1>0, <2>0
  <2> QED BY <2>3, <2>7, <2>8, <2>9, <1>7 DEF Hears, p, q, n, l
\* The sentinel is published.
<1>8. ASSUME p = Publish(q, None), SentinelsLast(q), status' \in Ended, NoteDrops(1),
             \/ Len(log') = n
             \/ Len(log') = n + 1 /\ n + 1 \in unpublished'
      PROVE  Hears(c)
  <2>3. Lines(out[c], seen[c], p, Len(log'))
    <3>1. Lines(out[c], seen[c], p, n) BY <1>0, <1>2, <1>8, LinesPublish
    <3> QED BY <3>1, <1>0, <1>8, LinesGrow
  <2>4. /\ p[Len(p)] = None /\ Len(p) \in Nat \ {0}
        /\ Len(q) < QueueSize => \A k : Holds(p, k) <=> Holds(q, k) \/ k = None
    <3> HIDE DEF p, q, n
    <3>1. q \in Seq(Nat) /\ None \in Nat BY <1>0, <1>2
    <3> QED BY <3>1, <1>8, PublishShape
  <2>5. ~dropped'[c] => Len(q) < QueueSize BY <1>0, <1>4, <1>8
  <2>6. SentinelsLast(p) BY <1>0, <1>8, SentinelsStayLast
  <2> HIDE DEF p, q, n
  <2>7. SentinelOK(c)' BY <2>6, <1>8 DEF SentinelOK, SentinelsLast, IsTrailer, p
  <2>8. ~dropped'[c] => \A k \in 1..n : Holds(p, k) <=> Holds(q, k) BY <2>4, <2>5, <1>5
  <2>9. Holds(p, None) BY <2>4 DEF Holds
  <2>10. \A k \in (n + 1)..Len(log') : k \in unpublished' BY <1>0, <1>8 DEF n
  <2> QED BY <2>3, <2>7, <2>8, <2>9, <2>10 DEF Hears, p, q, n
<1>9. ASSUME NEW t \in Texts, EndWithCompletion(t) PROVE Hears(c)
  <2>1. p = Publish(Publish(q, None), n + 1) BY <1>0, <1>9 DEF EndWithCompletion, Deliver
  <2>2. /\ Len(log') = n + 1 /\ status' = "SUCCEEDED" /\ logsCompletion' /\ n + 1 \notin unpublished'
        /\ status \notin Ended
    BY <1>0, <1>3, <1>9 DEF EndWithCompletion, Running, Ended
  <2>3. Lines(out[c], seen[c], p, n + 1)
    <3>1. Lines(out[c], seen[c], Publish(q, None), n) BY <1>0, <1>2, LinesPublish
    <3> QED BY <3>1, <1>0, <1>2, <2>1, LinesPublish
  <2>4. /\ p[Len(p)] = n + 1 /\ p[Len(p) - 1] = None /\ Len(p) \in Nat \ {0, 1}
        /\ \A i \in 1..(Len(p) - 2) : Holds(q, p[i])
        /\ Len(q) + 2 <= QueueSize => \A k : Holds(p, k) <=> Holds(q, k) \/ k \in {None, n + 1}
    <3> HIDE DEF p, q, n
    <3>1. q \in Seq(Nat) /\ None \in Nat /\ n + 1 \in Nat BY <1>0, <1>2
    <3>2. TwoMore(p, q, None, n + 1) BY <3>1, <2>1, PublishTwice
    <3> QED BY <3>2 DEF TwoMore
  <2>5. ~dropped'[c] => Len(q) + 2 <= QueueSize BY <1>4, <1>9 DEF EndWithCompletion
  <2> HIDE DEF p, q, n
  <2>6. ASSUME NEW i \in 1..Len(p), p[i] = None, NEW j \in (i + 1)..Len(p) PROVE p[j] = n + 1
    <3>1. i # Len(p) /\ i \notin 1..(Len(p) - 2) BY <2>2, <2>4, <2>6, <1>1, <1>2
    <3>2. j = Len(p) BY <3>1, <2>4, <2>6
    <3> QED BY <3>2, <2>4
  <2>7. SentinelOK(c)' BY <2>2, <2>6 DEF SentinelOK, IsTrailer, IsCompletion, Ended, p
  <2>8. ~dropped'[c] => /\ \A k \in 1..n : Holds(p, k) <=> Holds(q, k)
                        /\ Holds(p, n + 1)
    BY <2>4, <2>5, <1>5
  <2>9. Holds(p, None)
    <3>0. \A l \in Nat \ {0, 1} : l - 1 \in 1..l OBVIOUS
    <3>1. Len(p) \in Nat \ {0, 1} BY <2>4
    <3>2. Len(p) - 1 \in 1..Len(p) BY Zenon, <3>0, <3>1
    <3> QED BY <3>2, <2>4 DEF Holds
  <2>10. \A k \in (n + 1)..(n + 1) : k = n + 1 BY <1>0
  <2> QED BY <2>2, <2>3, <2>7, <2>8, <2>9, <2>10 DEF Hears, p, q, n
<1>10. ASSUME NEW t \in Texts, EndWithLine(t) PROVE Hears(c)
  <2>1. p = Publish(Publish(q, n + 1), None) BY <1>0, <1>10 DEF EndWithLine, Deliver
  <2>2. Len(log') = n + 1 /\ status' \in Ended /\ status \notin Ended
    BY <1>3, <1>10 DEF EndWithLine, LastStatus, Ended
  <2>3. Lines(out[c], seen[c], p, n + 1)
    <3>1. Lines(out[c], seen[c], Publish(q, n + 1), n + 1) BY <1>0, <1>2, LinesPublish
    <3> QED BY <3>1, <1>0, <1>2, <2>1, LinesPublish
  <2>4. /\ p[Len(p)] = None /\ p[Len(p) - 1] = n + 1 /\ Len(p) \in Nat \ {0, 1}
        /\ \A i \in 1..(Len(p) - 2) : Holds(q, p[i])
        /\ Len(q) + 2 <= QueueSize => \A k : Holds(p, k) <=> Holds(q, k) \/ k \in {n + 1, None}
    <3> HIDE DEF p, q, n
    <3>1. q \in Seq(Nat) /\ None \in Nat /\ n + 1 \in Nat BY <1>0, <1>2
    <3>2. TwoMore(p, q, n + 1, None) BY <3>1, <2>1, PublishTwice
    <3> QED BY <3>2 DEF TwoMore
  <2>5. ~dropped'[c] => Len(q) + 2 <= QueueSize BY <1>4, <1>10 DEF EndWithLine
  <2> HIDE DEF p, q, n
  <2>6. ASSUME NEW i \in 1..Len(p), p[i] = None PROVE (i + 1)..Len(p) = {}
    <3>1. i # Len(p) - 1 /\ i \notin 1..(Len(p) - 2) BY <2>2, <2>4, <2>6, <1>1, <1>2
    <3>2. i = Len(p) BY <3>1, <2>4
    <3> QED BY <3>2, <2>4
  <2>7. SentinelOK(c)' BY <2>2, <2>6 DEF SentinelOK, p
  <2>8. ~dropped'[c] => /\ \A k \in 1..n : Holds(p, k) <=> Holds(q, k)
                        /\ Holds(p, n + 1)
    BY <2>4, <2>5, <1>5
  <2>9. Holds(p, None) BY <2>4 DEF Holds
  <2>10. \A k \in (n + 1)..(n + 1) : k = n + 1 BY <1>0
  <2> QED BY <2>2, <2>3, <2>7, <2>8, <2>9, <2>10 DEF Hears, p, q, n
<1>11. CASE RegisterRaises
  <2>1. (n + 1)..n = {} BY <1>0
  <2> QED BY <1>6, <1>11, <2>1 DEF RegisterRaises, Ended
<1>12. ASSUME status \notin Ended PROVE SentinelsLast(q) BY <1>1, <1>12 DEF SentinelsLast, Holds
<1>13. CASE FailPipeline
  <2>1. p = Publish(q, None) /\ status' \in Ended /\ NoteDrops(1) /\ log' = log
    BY <1>13 DEF FailPipeline, Deliver, Ended
  <2>2. SentinelsLast(q)
    <3>1. CASE status \notin Ended BY <3>1, <1>12
    <3>2. CASE status \in Ended
      <4>1. status = "SUCCEEDED" /\ phase = "failing"
        BY <3>2, <1>13 DEF FailPipeline, Ended, RecordOK, EndingOK
      <4>2. \A k : ~IsCompletion(k) BY <4>1 DEF RecordOK, EndingOK, IsCompletion
      <4> QED BY <4>2 DEF ClientOK, SentinelOK, SentinelsLast, IsTrailer
    <3> QED BY <3>1, <3>2
  <2> QED BY <1>8, <2>1, <2>2
<1>14. CASE EndSilently
  <2>1. /\ p = Publish(q, None) /\ status' \in Ended /\ NoteDrops(1) /\ log' = log
        /\ status \notin Ended
    BY <1>14 DEF EndSilently, Running, Deliver, Ended
  <2> QED BY <1>8, <1>12, <2>1
<1>15. ASSUME NEW t \in Texts, CompletionRaises(t) PROVE Hears(c)
  <2>1. /\ p = Publish(q, None) /\ status' \in Ended /\ NoteDrops(1) /\ status \notin Ended
        /\ Len(log') = n + 1 /\ n + 1 \in unpublished'
    BY <1>0, <1>3, <1>15 DEF CompletionRaises, Running, Deliver, Ended
  <2> QED BY <1>8, <1>12, <2>1
<1>16. ASSUME NEW t \in Texts, AppendRaises(t) \/ EndRaises(t) PROVE Hears(c)
  <2>1. /\ p = q /\ status \notin Ended /\ Len(log') = n + 1 /\ n + 1 \in unpublished'
        /\ status' \notin Ended \/ phase' = "unannounced"
    BY <1>0, <1>3, <1>16 DEF AppendRaises, EndRaises, Running, Ended
  <2>2. (n + 1)..(n + 1) \subseteq {n + 1} BY <1>0
  <2> QED BY <1>6, <2>1, <2>2
<1>17. ASSUME NEW t \in Texts, NEW e \in Texts, OutputRaises(t, e) PROVE Hears(c)
  <2>1. /\ status \notin Ended /\ status' \notin Ended /\ Len(log') = n + 2
    BY <1>17, WriteTwoStep DEF OutputRaises, Running, Ended, Grows
  <2>2. CASE unpublished' = unpublished \cup {NewLine, NewLine + 1} /\ UNCHANGED <<queue, dropped>>
    <3>1. (n + 1)..(n + 2) \subseteq {n + 1, n + 1 + 1} BY <1>0
    <3>2. (n + 1)..(n + 2) \subseteq unpublished' BY <3>1, <2>2, <1>0
    <3> QED BY <1>6, <2>1, <2>2, <3>2
  <2>3. CASE /\ unpublished' = unpublished \cup {NewLine} /\ NoteDrops(1)
             /\ Deliver([d \in Clients |-> Publish(queue[d], NewLine + 1)])
    <3>1. NewLine + 1 = Len(log') BY <1>0, <2>1
    <3>2. p = Publish(q, Len(log')) BY <3>1, <2>3 DEF Deliver
    <3> QED BY <1>0, <1>7, <2>1, <2>3, <3>2
  <2> QED BY <2>2, <2>3, <1>17 DEF OutputRaises
<1>18. ASSUME NEW t \in Texts, AppendLog(t) PROVE Hears(c)
  <2>1. /\ p = Publish(q, n + 1) /\ Len(log') = n + 1 /\ status \notin Ended /\ status' \notin Ended
        /\ NoteDrops(1)
    BY <1>0, <1>3, <1>18 DEF AppendLog, Running, Deliver, Ended
  <2>2. n + 1 # n + 2 BY <1>0
  <2> QED BY <1>7, <2>1, <2>2
<1> QED
  BY <1>9, <1>10, <1>11, <1>13, <1>14, <1>15, <1>16, <1>17, <1>18 DEF Publishes

\* Every step of the record that may publish keeps what is known of every client.
LEMMA PublisherStep ==
    ASSUME StreamInv, Publishes, NEW c \in Clients
    PROVE  ClientOK(c)'
<1>0. RecordOK /\ ClientOK(c) BY DEF StreamInv
<1>1. RecordChange BY <1>0, PublisherChange
<1>2. OnlySentinelsFollow
  <2> SUFFICES ASSUME status \in Ended
               PROVE  log' = log /\ status' \in Ended /\ \A n : ~IsCompletion(n)
    BY DEF OnlySentinelsFollow
  <2>1. FailPipeline
    BY DEF Publishes, RegisterRaises, EndSilently, AppendLog, AppendRaises, EndWithCompletion,
           CompletionRaises, EndWithLine, EndRaises, OutputRaises, Running, Ended
  <2>2. status = "SUCCEEDED" /\ phase = "failing" /\ log' = log /\ status' \in Ended
    BY <1>0, <2>1 DEF FailPipeline, Ended, RecordOK, EndingOK
  <2> QED BY <1>0, <2>2 DEF RecordOK, EndingOK, IsCompletion
<1>3. /\ ~dropped'[c] => ~dropped[c]
      /\ stream[c] \notin Streaming => queue'[c] = queue[c]
  <2>1. ASSUME NEW p, NEW count, Deliver(p), NoteDrops(count)
        PROVE  /\ ~dropped'[c] => ~dropped[c]
               /\ stream[c] \notin Streaming => queue'[c] = queue[c]
    BY <2>1 DEF Deliver, NoteDrops
  <2>2. UNCHANGED <<queue, dropped>> \/ \E p, count : Deliver(p) /\ NoteDrops(count)
    BY DEF Publishes, RegisterRaises, FailPipeline, EndSilently, AppendLog, AppendRaises,
           EndWithCompletion, CompletionRaises, EndWithLine, EndRaises, OutputRaises
  <2> QED BY <2>1, <2>2
<1>4. stream[c] \in Streaming => Hears(c) BY <1>0, PublishersAreHeard
<1> QED BY <1>0, <1>1, <1>2, <1>3, <1>4, ClientHears

\* The first line reaches nobody but those that connect later.
LEMMA RegisteredStep ==
    ASSUME StreamInv, NEW t \in Texts, NEW c \in Clients, Registered(t)
    PROVE  ClientOK(c)'
<1> USE DEF clientVars
<1>0. RecordOK /\ ClientOK(c) /\ Len(log) \in Nat BY DEF StreamInv, RecordOK, TypeOK
<1>1. log = <<>> BY <1>0 DEF Registered, RecordOK, EndingOK
<1>2. /\ PhaseOK(c)' /\ SentinelOK(c)' /\ ClosedOK(c)' /\ KeptOK(c)'
  BY <1>0 DEF Registered, ClientOK, PhaseOK, SentinelOK, ClosedOK, KeptOK, Ended
<1>3. Len(log') = Len(log) + 1 BY <1>0, WriteStep DEF Registered, Grows
<1>4. OrderOK(c)' BY <1>0, <1>3, LinesGrow DEF Registered, ClientOK, OrderOK
<1>5. \A m \in 1..Len(log') : ~Held(c, m)'
  <2>1. UNCHANGED <<out, seen, queue>> BY DEF Registered
  <2>2. Within(out[c], 0) /\ Within(seen[c], 0) /\ Within(queue[c], 0)
    BY <1>0, <1>1 DEF ClientOK, OrderOK, Lines
  <2> QED BY <2>1, <2>2, <1>0, <1>3 DEF Held, Holds, Within
<1>6. NoGap(c)' BY <1>5 DEF NoGap
<1> QED BY <1>2, <1>4, <1>6 DEF ClientOK

-----------------------------------------------------------------------------
\* What a sequence holds is its head and what its tail holds.
LEMMA TailHolds ==
    ASSUME NEW q \in Seq(Nat), q # <<>>
    PROVE  /\ Tail(q) \in Seq(Nat) /\ Head(q) = q[1] /\ Head(q) \in Nat
           /\ Len(q) \in Nat \ {0} /\ Len(Tail(q)) = Len(q) - 1
           /\ \A i \in 1..Len(Tail(q)) : i + 1 \in 1..Len(q) /\ Tail(q)[i] = q[i + 1]
           /\ \A n : Holds(q, n) <=> n = Head(q) \/ Holds(Tail(q), n)
<1> DEFINE r == Tail(q)
<1>1. /\ r \in Seq(Nat) /\ Head(q) = q[1] /\ Head(q) \in Nat /\ Len(q) \in Nat \ {0}
      /\ Len(r) = Len(q) - 1 /\ \A i \in 1..Len(r) : r[i] = q[i + 1]
  BY HeadTailProperties
<1> HIDE DEF r
<1>2. \A i \in 1..Len(r) : i + 1 \in 1..Len(q) /\ r[i] = q[i + 1] BY <1>1
<1>3. ASSUME NEW n, Holds(q, n), n # q[1] PROVE Holds(r, n)
  <2>1. PICK i \in 1..Len(q) : q[i] = n BY <1>3 DEF Holds
  <2>2. i # 1 BY <2>1, <1>3
  <2>3. i - 1 \in 1..Len(r) /\ (i - 1) + 1 = i BY <2>2, <1>1
  <2>4. r[i - 1] = n BY <2>1, <2>3, <1>2
  <2> QED BY <2>3, <2>4 DEF Holds
<1>4. ASSUME NEW n, n = q[1] \/ Holds(r, n) PROVE Holds(q, n)
  <2>1. 1 \in 1..Len(q) BY <1>1
  <2> QED BY <2>1, <1>2, <1>4 DEF Holds
<1>5. \A n : Holds(q, n) <=> n = Head(q) \/ Holds(r, n) BY <1>1, <1>3, <1>4
<1> QED BY <1>1, <1>2, <1>5 DEF r

\* What a sequence holds after x was appended to it.
LEMMA AppendHolds ==
    ASSUME NEW o \in Seq(Nat), NEW x \in Nat
    PROVE  \A n : Holds(Append(o, x), n) <=> Holds(o, n) \/ n = x
<1> DEFINE a == Append(o, x)
<1>1. /\ Len(o) \in Nat /\ Len(a) = Len(o) + 1 /\ a[Len(o) + 1] = x
      /\ \A i \in 1..Len(o) : a[i] = o[i]
  OBVIOUS
<1> HIDE DEF a
<1>2. \A i \in 1..Len(a) : i \in 1..Len(o) \/ i = Len(o) + 1 BY <1>1
<1>3. \A i \in 1..Len(o) : i \in 1..Len(a) BY <1>1
<1>4. Len(o) + 1 \in 1..Len(a) BY <1>1
<1>5. \A n : Holds(a, n) <=> Holds(o, n) \/ n = x BY <1>1, <1>2, <1>3, <1>4 DEF Holds
<1> QED BY <1>5 DEF a

\* A client connects: its snapshot is the end of the log.
LEMMA ConnectStep ==
    ASSUME StreamInv, NEW c \in Clients, Connect(c)
    PROVE  ClientOK(c)'
<1> USE DEF recordVars
<1> DEFINE d == Len(log) - Len(buffer)
<1>0. /\ TypeOK /\ PhaseOK(c) /\ Len(log) \in Nat /\ Len(buffer) \in Nat /\ buffer \in Seq(Nat \ {None})
      /\ d \in Nat /\ \A i \in 1..Len(buffer) : buffer[i] = d + i
  BY DEF StreamInv, RecordOK, TypeOK, BufferOK, EndOf, ClientOK
<1>1. /\ stream'[c] = "history" /\ seen'[c] = buffer /\ out'[c] = <<>> /\ queue'[c] = <<>>
      /\ UNCHANGED recordVars
  BY <1>0 DEF Connect, TypeOK, PhaseOK
<1>2. PhaseOK(c)' /\ SentinelOK(c)' /\ KeptOK(c)' /\ ClosedOK(c)'
  BY <1>1 DEF PhaseOK, SentinelOK, KeptOK, ClosedOK
<1>3. OrderOK(c)'
  <2>1. buffer \in Seq(Nat) /\ <<>> \in Seq(Nat) BY <1>0, SeqMonotonic
  <2>2. \A i \in 1..Len(buffer) : buffer[i] <= Len(log) BY <1>0
  <2>3. Within(buffer, Len(log)) BY <2>2 DEF Within
  <2> HIDE DEF d
  <2>4. \A i, j \in 1..Len(buffer) : i < j => d + i < d + j BY <1>0
  <2>5. Ordered(buffer) BY <2>4, <1>0 DEF Ordered
  <2>6. Lines(<<>>, buffer, <<>>, Len(log))
    BY <2>1, <2>3, <2>5 DEF Lines, Within, Ordered, Before
  <2> QED BY <2>6, <1>1 DEF OrderOK
<1>4. NoGap(c)'
  <2> SUFFICES ASSUME NEW m \in 1..Len(log), NEW n \in 1..Len(log), m < n, Held(c, m)'
               PROVE  Held(c, n)'
    BY <1>1 DEF NoGap
  <2>1. Holds(buffer, m) BY <1>1 DEF Held, Holds
  <2>2. PICK i \in 1..Len(buffer) : buffer[i] = m BY <2>1 DEF Holds
  <2>3. n - d \in 1..Len(buffer) /\ d + (n - d) = n BY <2>2, <1>0
  <2> HIDE DEF d
  <2>4. Holds(buffer, n) BY <2>3, <1>0 DEF Holds
  <2> QED BY <2>4, <1>1 DEF Held
<1> QED BY <1>2, <1>3, <1>4 DEF ClientOK

\* A client is sent a line of its snapshot.
LEMMA YieldStep ==
    ASSUME StreamInv, NEW c \in Clients, YieldHistory(c)
    PROVE  ClientOK(c)'
<1> USE DEF recordVars
<1>0. TypeOK /\ ClientOK(c) /\ OrderOK(c) /\ seen[c] # <<>> /\ stream[c] = "history"
  BY DEF StreamInv, RecordOK, ClientOK, YieldHistory
<1>1. /\ out'[c] = Append(out[c], Head(seen[c])) /\ seen'[c] = Tail(seen[c])
      /\ UNCHANGED <<log, status, phase, dropped, unpublished, logsCompletion, stream, queue, seenSet>>
  BY <1>0 DEF YieldHistory, TypeOK
<1>2. PhaseOK(c)' /\ SentinelOK(c)' /\ KeptOK(c)' /\ ClosedOK(c)'
  BY <1>0, <1>1 DEF ClientOK, PhaseOK, SentinelOK, KeptOK, ClosedOK, IsTrailer, IsCompletion
<1>3. OrderOK(c)' BY <1>0, <1>1, LinesYield DEF OrderOK
<1>4. \A n : Held(c, n)' <=> Held(c, n)
  <2>1. out[c] \in Seq(Nat) /\ seen[c] \in Seq(Nat) BY <1>0 DEF OrderOK, Lines
  <2>2. /\ Head(seen[c]) \in Nat
        /\ \A n : Holds(seen[c], n) <=> n = Head(seen[c]) \/ Holds(Tail(seen[c]), n)
    BY <2>1, <1>0, TailHolds
  <2>3. \A n : Holds(Append(out[c], Head(seen[c])), n) <=> Holds(out[c], n) \/ n = Head(seen[c])
    BY <2>1, <2>2, AppendHolds
  <2> QED BY <2>2, <2>3, <1>1 DEF Held
<1>5. NoGap(c)' BY <1>0, <1>1, <1>4 DEF ClientOK, NoGap
<1> QED BY <1>2, <1>3, <1>5 DEF ClientOK

\* A client takes an item of its queue.
LEMMA TakeStep ==
    ASSUME StreamInv, NEW c \in Clients, Drain(c) \/ Live(c)
    PROVE  ClientOK(c)'
<1> USE DEF recordVars
<1> DEFINE q == queue[c]
           x == Head(queue[c])
           Skipped == {n \in 1..Len(log) : log[n] \in seenSet[c]}
<1>0. /\ TypeOK /\ ClientOK(c) /\ q \in Seq(Nat) /\ out[c] \in Seq(Nat) /\ q # <<>>
      /\ stream[c] \in {"drain", "live"} /\ seen[c] = <<>> /\ (stream[c] = "drain" => status \in Ended)
      /\ Lines(out[c], <<>>, q, Len(log)) /\ Len(log) \in Nat
  <2>1. TypeOK /\ ClientOK(c) BY DEF StreamInv, RecordOK
  <2>2. stream[c] \in {"drain", "live"} /\ q # <<>> BY DEF Drain, Live, Take
  <2>3. seen[c] = <<>> /\ (stream[c] = "drain" => status \in Ended)
    BY <2>1, <2>2 DEF ClientOK, PhaseOK
  <2>4. Lines(out[c], <<>>, q, Len(log)) BY <2>1, <2>3 DEF ClientOK, OrderOK
  <2>5. q \in Seq(Nat) /\ out[c] \in Seq(Nat) BY <2>4 DEF Lines
  <2>6. Len(log) \in Nat BY <2>1 DEF TypeOK
  <2> QED BY <2>1, <2>2, <2>3, <2>4, <2>5, <2>6
<1>1. /\ queue'[c] = Tail(q) /\ seen'[c] = seen[c]
      /\ stream'[c] = IF x = None THEN "closed" ELSE stream[c]
      /\ UNCHANGED <<log, status, phase, dropped, unpublished, logsCompletion, seen, seenSet>>
      /\ \/ out'[c] = Append(out[c], x) /\ x # None
         \/ out'[c] = out[c] /\ x \in Skipped \cup {None}
  <2>1. ASSUME NEW s, s \subseteq Skipped, Take(c, s)
        PROVE  /\ queue'[c] = Tail(q) /\ seen'[c] = seen[c]
               /\ stream'[c] = IF x = None THEN "closed" ELSE stream[c]
               /\ UNCHANGED <<log, status, phase, dropped, unpublished, logsCompletion, seen, seenSet>>
               /\ \/ out'[c] = Append(out[c], x) /\ x # None
                  \/ out'[c] = out[c] /\ x \in Skipped \cup {None}
    BY <1>0, <2>1 DEF Take, TypeOK
  <2>2. \E s : s \subseteq Skipped /\ Take(c, s)
    <3>1. {} \subseteq Skipped OBVIOUS
    <3> QED BY <3>1 DEF Drain, Live
  <2> HIDE DEF Skipped, q, x
  <2> QED BY <2>1, <2>2
<1>2. /\ x \in Nat /\ Len(q) \in Nat \ {0} /\ x = q[1] /\ Len(Tail(q)) = Len(q) - 1
      /\ \A i \in 1..Len(Tail(q)) : i + 1 \in 1..Len(q) /\ Tail(q)[i] = q[i + 1]
      /\ \A n : Holds(q, n) <=> n = x \/ Holds(Tail(q), n)
  BY <1>0, TailHolds
<1>3. \A n : Holds(Append(out[c], x), n) <=> Holds(out[c], n) \/ n = x BY <1>0, <1>2, AppendHolds
<1>4. OrderOK(c)'
  <2>1. Lines(Append(out[c], x), <<>>, Tail(q), Len(log)) /\ Lines(out[c], <<>>, Tail(q), Len(log))
    BY <1>0, LinesTake
  <2> QED BY <2>1, <1>0, <1>1 DEF OrderOK
<1>5. \A i \in 1..Len(q) :
         q[i] = None => status \in Ended /\ \A j \in (i + 1)..Len(q) : IsTrailer(q[j])
  BY <1>0 DEF ClientOK, SentinelOK
<1>6. 1 \in 1..Len(q) BY <1>2
<1> HIDE DEF q, x, Skipped
<1>7. PhaseOK(c)' BY <1>0, <1>1, <1>2, <1>5, <1>6 DEF PhaseOK
<1>8. SentinelOK(c)'
  <2> SUFFICES ASSUME NEW i \in 1..Len(Tail(q)), Tail(q)[i] = None
               PROVE  status \in Ended /\ \A j \in (i + 1)..Len(Tail(q)) : IsTrailer(Tail(q)[j])
    BY <1>1 DEF SentinelOK, IsTrailer, IsCompletion
  <2>1. status \in Ended /\ \A j \in ((i + 1) + 1)..Len(q) : IsTrailer(q[j])
    BY <1>2, <1>5
  <2>2. \A j \in (i + 1)..Len(Tail(q)) :
           j \in 1..Len(Tail(q)) /\ j + 1 \in ((i + 1) + 1)..Len(q)
    BY <1>2
  <2> QED BY <2>1, <2>2, <1>2
<1>9. KeptOK(c)'
  <2> SUFFICES ASSUME stream'[c] = "live", status \in Ended, phase # "unannounced"
               PROVE  Holds(Tail(q), None)
    BY <1>1 DEF KeptOK
  <2>1. stream[c] = "live" /\ x # None BY <1>1
  <2>2. Holds(q, None) BY <2>1, <1>0 DEF ClientOK, KeptOK, q
  <2> QED BY <2>1, <2>2, <1>2
<1>10. ClosedOK(c)'
  <2> SUFFICES ASSUME stream'[c] = "closed", NEW i \in 1..Len(Tail(q)) PROVE IsTrailer(Tail(q)[i])
    BY <1>1 DEF ClosedOK, IsTrailer, IsCompletion
  <2>1. x = None BY <1>0, <1>1
  <2>2. i + 1 \in (1 + 1)..Len(q) BY <1>2
  <2> QED BY <2>1, <2>2, <1>2, <1>5, <1>6
<1>11. NoGap(c)'
  <2> SUFFICES ASSUME ~dropped[c], NEW m \in 1..Len(log), NEW n \in 1..Len(log), m < n,
                      Held(c, m)', n \notin unpublished
               PROVE  Held(c, n)' \/ log[n] \in seenSet[c]
    BY <1>1 DEF NoGap
  <2>1. Held(c, m) BY <1>0, <1>1, <1>2, <1>3 DEF Held, q
  <2>2. stream[c] # "gone" BY <1>0
  <2>3. Held(c, n) \/ log[n] \in seenSet[c] BY <2>1, <2>2, <1>0 DEF ClientOK, NoGap
  <2>4. CASE Held(c, n)
    <3>1. CASE n # x BY <2>4, <3>1, <1>0, <1>1, <1>2, <1>3 DEF Held, q
    <3>2. CASE n = x
      <4>1. n # None BY <1>0 DEF None
      <4>2. CASE out'[c] = Append(out[c], x) BY <4>2, <3>2, <1>3 DEF Held
      <4>3. CASE x \in Skipped BY <4>3, <3>2 DEF Skipped
      <4> QED BY <4>1, <4>2, <4>3, <3>2, <1>1
    <3> QED BY <3>1, <3>2
  <2> QED BY <2>3, <2>4
<1> QED BY <1>4, <1>7, <1>8, <1>9, <1>10, <1>11 DEF ClientOK

\* A client goes on to its queue, ends, or goes away, and its queue stays as it is.
LEMMA PhaseStep ==
    ASSUME StreamInv, NEW c \in Clients, HistoryDone(c) \/ DrainDone(c) \/ Disconnect(c)
    PROVE  ClientOK(c)'
<1> USE DEF recordVars
<1>0. /\ TypeOK /\ ClientOK(c) /\ Len(queue[c]) \in Nat
      /\ UNCHANGED <<log, status, phase, dropped, unpublished, logsCompletion, queue, seen, seenSet, out>>
  BY DEF StreamInv, RecordOK, TypeOK, ClientOK, HistoryDone, DrainDone, Disconnect
<1>1. OrderOK(c)' /\ SentinelOK(c)' BY <1>0 DEF ClientOK, OrderOK, SentinelOK, IsTrailer, IsCompletion
<1>2. stream[c] # "gone" BY DEF HistoryDone, DrainDone, Disconnect, Streaming
<1>3. NoGap(c)' BY <1>0, <1>2 DEF ClientOK, NoGap, Held
<1>4. CASE HistoryDone(c)
  <2>1. stream'[c] \in {"drain", "live"} /\ (stream'[c] = "live" <=> status \notin Ended) /\ seen[c] = <<>>
    BY <1>0, <1>4 DEF HistoryDone, TypeOK
  <2> QED BY <1>0, <1>1, <1>3, <2>1 DEF ClientOK, PhaseOK, KeptOK, ClosedOK
<1>5. CASE DrainDone(c)
  <2>1. stream[c] = "drain" /\ stream'[c] = "closed" /\ queue[c] = <<>>
    BY <1>0, <1>5 DEF DrainDone, TypeOK
  <2> QED BY <1>0, <1>1, <1>3, <2>1 DEF ClientOK, PhaseOK, KeptOK, ClosedOK
<1>6. CASE Disconnect(c)
  <2>1. stream'[c] = "gone" BY <1>0, <1>6 DEF Disconnect, TypeOK
  <2> QED BY <1>0, <1>1, <1>3, <2>1 DEF ClientOK, PhaseOK, KeptOK, ClosedOK
<1> QED BY <1>4, <1>5, <1>6

\* A step of one client does not touch the others.
LEMMA OtherClients ==
    ASSUME StreamInv, NEW d \in Clients, Connect(d) \/ Read(d) \/ Disconnect(d),
           NEW c \in Clients, c # d
    PROVE  ClientOK(c)'
<1> USE DEF recordVars
<1>0. TypeOK /\ ClientOK(c) BY DEF StreamInv, RecordOK
<1>1. /\ UNCHANGED <<log, status, phase, unpublished, logsCompletion, dropped>>
      /\ stream'[c] = stream[c] /\ queue'[c] = queue[c] /\ seen'[c] = seen[c]
      /\ seenSet'[c] = seenSet[c] /\ out'[c] = out[c]
  <2>1. CASE Connect(d) BY <2>1, <1>0 DEF Connect, TypeOK
  <2>2. CASE YieldHistory(d) BY <2>2, <1>0 DEF YieldHistory, TypeOK
  <2>3. CASE HistoryDone(d) \/ DrainDone(d) \/ Disconnect(d)
    BY <2>3, <1>0 DEF HistoryDone, DrainDone, Disconnect, TypeOK
  <2>4. ASSUME NEW s, Take(d, s)
        PROVE  /\ UNCHANGED <<log, status, phase, unpublished, logsCompletion, dropped>>
               /\ stream'[c] = stream[c] /\ queue'[c] = queue[c] /\ seen'[c] = seen[c]
               /\ seenSet'[c] = seenSet[c] /\ out'[c] = out[c]
    BY <2>4, <1>0 DEF Take, TypeOK
  <2>5. CASE Drain(d) BY <2>5, <2>4 DEF Drain
  <2>6. CASE Live(d) BY <2>6, <2>4 DEF Live
  <2> QED BY <2>1, <2>2, <2>3, <2>5, <2>6 DEF Read
<1> QED BY <1>0, <1>1, ClientUntouched

LEMMA StreamInit == Init => StreamInv
<1> SUFFICES ASSUME Init PROVE StreamInv OBVIOUS
<1>1. TypeOK BY DEF Init, TypeOK
<1>2. RecordOK BY <1>1 DEF Init, RecordOK, BufferOK, EndOf, EndingOK
<1>3. ASSUME NEW c \in Clients PROVE ClientOK(c)
  <2>1. /\ stream[c] = "off" /\ queue[c] = <<>> /\ seen[c] = <<>> /\ out[c] = <<>> /\ log = <<>>
    BY DEF Init
  <2>2. OrderOK(c) BY <2>1 DEF OrderOK, Lines, Within, Ordered, Before
  <2>3. PhaseOK(c) /\ SentinelOK(c) /\ KeptOK(c) /\ ClosedOK(c)
    BY <2>1 DEF PhaseOK, SentinelOK, KeptOK, ClosedOK
  <2>4. NoGap(c) BY <2>1 DEF NoGap, Held, Holds
  <2> QED BY <2>2, <2>3, <2>4 DEF ClientOK
<1> QED BY <1>2, <1>3 DEF StreamInv

LEMMA StreamStep == StreamInv /\ [Next]_vars => StreamInv'
<1> SUFFICES ASSUME StreamInv, [Next]_vars, NEW c \in Clients PROVE ClientOK(c)'
  BY RecordStep DEF StreamInv
<1>0. RecordOK /\ ClientOK(c) BY DEF StreamInv
<1>1. ASSUME NEW t \in Texts, Registered(t) PROVE ClientOK(c)' BY <1>1, RegisteredStep
<1>2. CASE Publishes BY <1>2, PublisherStep
<1>3. ASSUME NEW d \in Clients, Connect(d) \/ Read(d) \/ Disconnect(d) PROVE ClientOK(c)'
  <2>1. CASE c # d BY <2>1, <1>3, OtherClients
  <2>2. CASE c = d BY <2>2, <1>3, ConnectStep, YieldStep, TakeStep, PhaseStep DEF Read
  <2> QED BY <2>1, <2>2
<1>4. CASE UNCHANGED vars
  BY <1>0, <1>4, ClientUntouched DEF vars
<1> QED BY <1>1, <1>2, <1>3, <1>4 DEF Next, Publishes

\* stream_logs, append_log and the ways an operation ends keep the inductive invariant.
THEOREM StreamInvariant == Spec => []StreamInv
<1>1. Init => StreamInv BY StreamInit
<1>2. StreamInv /\ [Next]_vars => StreamInv' BY StreamStep
<1> QED BY <1>1, <1>2, PTL DEF Spec

\* The log, the buffer, the queues and what the clients were sent keep their types; no
\* client is ever sent the sentinel (operations.py, stream_logs: "if line is None").
THEOREM StreamTypeCorrect == Spec => []TypeOK
<1>1. StreamInv => TypeOK BY DEF StreamInv, RecordOK
<1> QED BY <1>1, StreamInvariant, PTL

\* Whatever the size of the queues, and whichever calls of append_log raise, nothing pushes
\* the sentinel out of the queue of a waiting client: not the lines before the end of an
\* operation, not the completion line, not the sentinel of a _fail_pipeline after SUCCEEDED.
\* Only a raise on the last line of cancel_operation or _finalize_task leaves it without one.
THEOREM SentinelIsKept == Spec => []SentinelKept
<1>1. StreamInv => SentinelKept
  BY DEF StreamInv, RecordOK, EndingOK, ClientOK, KeptOK, Holds, SentinelKept
<1> QED BY <1>1, StreamInvariant, PTL

\* Snapshot and queue do not overlap: a client receives lines in the order they were
\* logged, and none twice.
THEOREM LinesArriveInOrder == Spec => []InOrder
<1>1. StreamInv => InOrder
  <2> SUFFICES ASSUME StreamInv, NEW c \in Clients PROVE Increasing(out[c] \o seen[c])
    BY DEF InOrder
  <2> DEFINE a == out[c]
             b == seen[c]
             s == out[c] \o seen[c]
  <2>1. a \in Seq(Nat \ {None}) /\ b \in Seq(Nat \ {None}) BY DEF StreamInv, RecordOK, TypeOK
  <2>2. Ordered(a) /\ Ordered(b) /\ Before(a, b) BY DEF StreamInv, ClientOK, OrderOK, Lines
  <2>3. /\ Len(a) \in Nat /\ Len(b) \in Nat /\ Len(s) = Len(a) + Len(b)
        /\ \A i \in 1..Len(s) : s[i] = IF i <= Len(a) THEN a[i] ELSE b[i - Len(a)]
    <3>1. Len(a) \in Nat /\ Len(b) \in Nat BY <2>1
    <3>2. Len(s) = Len(a) + Len(b) BY <2>1
    <3>3. ASSUME NEW i \in 1..Len(s) PROVE s[i] = IF i <= Len(a) THEN a[i] ELSE b[i - Len(a)]
      BY <2>1, <3>1, <3>2
    <3> QED BY <3>1, <3>2, <3>3
  <2>4. \A i \in 1..Len(a) : a[i] \in Nat \ {None} BY <2>1
  <2>5. \A i \in 1..Len(b) : b[i] \in Nat \ {None} BY <2>1
  <2> HIDE DEF a, b, s
  <2>6. ASSUME NEW i \in 1..Len(s), NEW j \in 1..Len(s), i < j PROVE s[i] < s[j]
    <3>1. CASE j <= Len(a)
      <4>1. i \in 1..Len(a) /\ j \in 1..Len(a) BY <2>3, <2>6, <3>1
      <4>2. s[i] = a[i] /\ s[j] = a[j] BY <2>3, <4>1
      <4> QED BY <2>2, <2>4, <2>6, <4>1, <4>2 DEF Ordered
    <3>2. CASE i <= Len(a) /\ ~(j <= Len(a))
      <4>1. i \in 1..Len(a) /\ j - Len(a) \in 1..Len(b) BY <2>3, <2>6, <3>2
      <4>2. s[i] = a[i] /\ s[j] = b[j - Len(a)] BY <2>3, <3>2
      <4> QED BY <2>2, <2>4, <2>5, <4>1, <4>2 DEF Before
    <3>3. CASE ~(i <= Len(a))
      <4>1. i - Len(a) \in 1..Len(b) /\ j - Len(a) \in 1..Len(b) /\ i - Len(a) < j - Len(a)
            /\ ~(j <= Len(a))
        BY <2>3, <2>6, <3>3
      <4>2. s[i] = b[i - Len(a)] /\ s[j] = b[j - Len(a)] BY <2>3, <3>3, <4>1
      <4> QED BY <2>2, <2>5, <4>1, <4>2 DEF Ordered
    <3> QED BY <3>1, <3>2, <3>3
  <2> QED BY <2>6 DEF Increasing, s
<1> QED BY <1>1, StreamInvariant, PTL

\* A client whose queue never overflowed and that read its stream to the end missed, of
\* the lines after its first, only the completion line of a cluster build, which follows
\* the sentinel, lines whose append_log raised before _publish, and lines that the drain
\* takes for lines of the snapshot.
THEOREM LossIsAlwaysAccounted == Spec => []LossIsAccounted
<1>1. StreamInv => LossIsAccounted
  <2> SUFFICES ASSUME StreamInv, NEW c \in Clients, NEW n \in 1..Len(log),
                      stream[c] = "closed", ~dropped[c], Missed(c, n), n \notin unpublished,
                      ~(log[n] \in seenSet[c])
               PROVE  IsCompletion(n)
    BY DEF LossIsAccounted, IsCompletion
  <2> DEFINE m == out[c][1]
  <2>1. /\ ClientOK(c) /\ out[c] \in Seq(Nat \ {None}) /\ out[c] # <<>> /\ Len(log) \in Nat
        /\ seen[c] = <<>>
    BY DEF StreamInv, RecordOK, TypeOK, Missed, ClientOK, PhaseOK
  <2>2. 1 \in 1..Len(out[c]) /\ m \in Nat \ {None} BY <2>1
  <2>3. Holds(out[c], m) /\ m <= Len(log)
    BY <2>1, <2>2 DEF Holds, ClientOK, OrderOK, Lines, Within
  <2>4. ~Holds(out[c], n) /\ n \in m..Len(log) BY DEF Missed, Holds
  <2>5. m # n BY <2>3, <2>4
  <2> HIDE DEF m
  <2>6. m \in 1..Len(log) /\ m < n BY <2>1, <2>2, <2>3, <2>4, <2>5 DEF None
  <2>7. Held(c, n) BY <2>1, <2>3, <2>6 DEF ClientOK, NoGap, Held
  <2>8. Holds(queue[c], n) BY <2>1, <2>4, <2>7 DEF Held, Holds
  <2>9. n # None BY <2>1 DEF None
  <2> QED BY <2>1, <2>8, <2>9 DEF Holds, ClientOK, ClosedOK, IsTrailer
<1> QED BY <1>1, StreamInvariant, PTL
=============================================================================
