---------------------------- MODULE SyslogdProofs ----------------------------
(***************************************************************************)
(* Proofs about Syslogd: what stands on the console.                       *)
(***************************************************************************)
EXTENDS Syslogd, SequenceTheorems, TLAPS

-----------------------------------------------------------------------------
(* The kernel log.                                                         *)

(* What was read from the ring and not printed yet: the local buffer of    *)
(* __syslogd_flush().                                                      *)
Local == SubSeq(out, printed + 1, Len(out))

(* Everything that was printed or still will be, in this order.            *)
Join(a, b, c) == a \o b \o c
Stream == Join(console, Local, Ring!Content)

Same(a, b) == a.from = b.from /\ a.n = b.n

Whole(s, cut, hole) == \A j, k \in DOMAIN s : j < k => GoesOn(s, j, k, cut, hole)

(* Every byte of s is one that its thread has written, the last of them    *)
(* being byte number byte[t] of message number last[t].                    *)
Written(s, last, byte) ==
    \A p \in DOMAIN s : /\ s[p].n <= last[s[p].from]
                        /\ s[p].n = last[s[p].from] => s[p].i <= byte[s[p].from]

(* What s has of message n of thread t are its bytes up to i, at its end.  *)
EndsWith(s, t, n, i, cut) ==
    \A p \in DOMAIN s : s[p].from = t /\ s[p].n = n => cut < p /\ i - s[p].i = Len(s) - p

(* A thread that can run is inside the lock only if it holds it; a writer  *)
(* finds the state of syslogd_running that it has tested, and nothing of   *)
(* its message on the console yet.                                         *)
LockInv ==
    \A t \in Threads : CanRun(t) =>
        /\ pc[t] \in {"started", "flush", "print", "write", "direct"} => lock = t
        /\ pc[t] = "write" => /\ running /\ panicked = NULL
                              /\ \A j \in DOMAIN console :
                                   ~(console[j].from = t /\ console[j].n = sent[t])
        /\ pc[t] = "direct" => ~running
        /\ pc[t] = "lock" => pos[t] = 0

(* A thread that panics flushes while syslogd runs and is the only one to  *)
(* write one more message; what a thread writes is a message it has begun. *)
PanicInv ==
    \A t \in Threads :
        /\ panicked = t => pc[t] \in {"loop", "flush", "print", "idle", "lock", "direct", "halt"}
        /\ panicked = t /\ pc[t] \in {"idle", "lock", "direct", "halt"} => ~running
        /\ panicked # t \/ pc[t] \in {"loop", "flush", "print", "idle"} => sent[t] <= MaxMessages
        /\ pc[t] \in {"lock", "write", "direct"} => sent[t] > 0

(* Outside of a flush nothing is in between, and a message that is in the  *)
(* ring has no byte on the console.                                        *)
FlushInv ==
    /\ Len(out) - printed <= ChunkSize
    /\ ~running => count = 0 /\ printed = Len(out)
    /\ panicked = NULL /\ (\A t \in Threads : pc[t] \notin {"flush", "print"})
         => /\ printed = Len(out)
            /\ \A j \in DOMAIN console, r \in DOMAIN Ring!Content :
                 ~Same(console[j], Ring!Content[r])

StreamInv(cut, hole) ==
    /\ panicked = NULL => cut = 0 /\ hole = 0
    /\ Whole(Stream, cut, hole)
    /\ Written(Stream, sent, pos)
    /\ \A t \in Threads : CanRun(t) /\ pc[t] \in {"write", "direct"}
                            => EndsWith(Stream, t, sent[t], pos[t], cut)

LogInv ==
    /\ TypeOK
    /\ Ring!EndFollowsBegin
    /\ LockInv
    /\ PanicInv
    /\ FlushInv
    /\ \E cut \in 0..Len(console), hole \in 0..ChunkSize : StreamInv(cut, hole)

(* What a sequence of bytes is made of.                                    *)
LEMMA Bytes ==
    ASSUME NEW s \in Seq(Byte)
    PROVE  /\ Len(s) \in Nat /\ DOMAIN s = 1..Len(s)
           /\ \A p \in 1..Len(s) : /\ s[p] \in Byte /\ s[p].from \in Threads
                                   /\ s[p].n \in Nat /\ s[p].i \in 1..Length /\ s[p].i \in Int
<1>1. \A b \in Byte : b.from \in Threads /\ b.n \in Nat /\ b.i \in 1..Length /\ b.i \in Int
  BY SyslogdAssumption DEF Byte
<1>2. Len(s) \in Nat /\ DOMAIN s = 1..Len(s) /\ \A p \in 1..Len(s) : s[p] \in Byte
  OBVIOUS
<1> QED
  BY <1>1, <1>2

(* The bytes of s are those of a, b and c one behind the other.            *)
Parts(s, a, b, c) ==
    /\ s \in Seq(Byte)
    /\ Len(s) = Len(a) + Len(b) + Len(c)
    /\ \A p \in 1..Len(a) : s[p] = a[p]
    /\ \A p \in 1..Len(b) : s[Len(a) + p] = b[p]
    /\ \A p \in 1..Len(c) : s[Len(a) + Len(b) + p] = c[p]
    /\ \A p \in Len(a) + 1..Len(a) + Len(b) : s[p] = b[p - Len(a)]
    /\ \A p \in Len(a) + Len(b) + 1..Len(a) + Len(b) + Len(c) : s[p] = c[p - Len(a) - Len(b)]

(* Three sequences joined are their parts one behind the other.            *)
LEMMA ThreeParts ==
    ASSUME NEW a \in Seq(Byte), NEW b \in Seq(Byte), NEW c \in Seq(Byte)
    PROVE  Parts(Join(a, b, c), a, b, c)
BY DEF Join, Parts

(* There is only one such sequence, however the parts are drawn.           *)
LEMMA SameByParts ==
    ASSUME NEW s \in Seq(Byte), NEW r \in Seq(Byte), Len(s) = Len(r),
           \A p \in 1..Len(s) : s[p] = r[p]
    PROVE  s = r
BY SeqEqual

(* What Append, Head and Tail do to the bytes of a sequence.               *)
LEMMA AppendBytes ==
    ASSUME NEW s \in Seq(Byte), NEW x \in Byte
    PROVE  /\ Append(s, x) \in Seq(Byte) /\ Len(Append(s, x)) = Len(s) + 1
           /\ Append(s, x)[Len(s) + 1] = x
           /\ \A p \in 1..Len(s) : Append(s, x)[p] = s[p]
OBVIOUS

(* The first byte of a sequence, and the others.                           *)
LEMMA TailBytes ==
    ASSUME NEW s \in Seq(Byte), s # <<>>
    PROVE  /\ Head(s) = s[1] /\ Head(s) \in Byte
           /\ Len(s) \in Nat \ {0}
           /\ Tail(s) \in Seq(Byte) /\ Len(Tail(s)) = Len(s) - 1
           /\ \A p \in 1..Len(s) - 1 : Tail(s)[p] = s[p + 1]
OBVIOUS

(* A position is in the first part, in the second or behind them.          *)
LEMMA InWhichPart ==
    ASSUME NEW x \in Nat, NEW y \in Nat, NEW p \in Nat, p >= 1
    PROVE  p \in 1..x \/ p - x \in 1..y \/ p = x + y + 1 \/ p > x + y + 1
OBVIOUS

(* A byte may move from the head of one part to the end of the one before. *)
LEMMA MoveByte ==
    ASSUME NEW a \in Seq(Byte), NEW b \in Seq(Byte), NEW c \in Seq(Byte),
           NEW d \in Seq(Byte), NEW e \in Seq(Byte),
           Len(d) = Len(b) + 1, \A p \in 1..Len(b) : d[p] = b[p],
           Len(c) # 0, d[Len(b) + 1] = c[1],
           Len(e) = Len(c) - 1, \A p \in 1..Len(c) - 1 : e[p] = c[p + 1],
           NEW s, NEW r
    PROVE  /\ Parts(s, a, d, e) /\ Parts(r, a, b, c) => s = r
           /\ Parts(s, d, e, a) /\ Parts(r, b, c, a) => s = r
<1>0. /\ Len(a) \in Nat /\ Len(b) \in Nat /\ Len(c) \in Nat /\ Len(c) >= 1
      /\ Len(d) \in Nat /\ Len(e) \in Nat
  OBVIOUS
<1>1. ASSUME Parts(s, a, d, e), Parts(r, a, b, c)
      PROVE  s = r
  <2>1. /\ s \in Seq(Byte) /\ r \in Seq(Byte)
        /\ Len(s) = Len(a) + Len(b) + Len(c) /\ Len(s) = Len(r)
    BY <1>0, <1>1 DEF Parts
  <2>2. ASSUME NEW p \in 1..Len(s)
        PROVE  s[p] = r[p]
    <3>0. p \in Nat /\ p >= 1 /\ p <= Len(a) + Len(b) + Len(c)
      BY <1>0, <2>1
    <3>1. CASE p \in 1..Len(a)
      BY <1>1, <3>1 DEF Parts
    <3>2. CASE p - Len(a) \in 1..Len(b)
      <4>1. s[Len(a) + (p - Len(a))] = d[p - Len(a)]
        <5>1. p - Len(a) \in 1..Len(d)
          BY <1>0, <3>0, <3>2
        <5> QED
          BY <1>1, <5>1 DEF Parts
      <4>2. r[Len(a) + (p - Len(a))] = b[p - Len(a)]
        BY <1>1, <3>2 DEF Parts
      <4>3. d[p - Len(a)] = b[p - Len(a)] /\ Len(a) + (p - Len(a)) = p
        BY <1>0, <3>0, <3>2
      <4> QED
        BY <4>1, <4>2, <4>3
    <3>3. CASE p = Len(a) + Len(b) + 1
      <4>1. s[Len(a) + (Len(b) + 1)] = d[Len(b) + 1]
        <5>1. Len(b) + 1 \in 1..Len(d)
          BY <1>0
        <5> QED
          BY <1>1, <5>1 DEF Parts
      <4>2. r[Len(a) + Len(b) + 1] = c[1]
        <5>1. 1 \in 1..Len(c)
          BY <1>0
        <5> QED
          BY <1>1, <5>1 DEF Parts
      <4>3. Len(a) + (Len(b) + 1) = p
        BY <1>0, <3>3
      <4> QED
        BY <3>3, <4>1, <4>2, <4>3
    <3>4. CASE p > Len(a) + Len(b) + 1
      <4> DEFINE q == p - Len(a) - Len(b) - 1
      <4>1. q \in 1..Len(c) - 1 /\ q \in 1..Len(e) /\ q + 1 \in 1..Len(c)
        BY <1>0, <3>0, <3>4
      <4>2. Len(a) + Len(d) + q = p /\ Len(a) + Len(b) + (q + 1) = p
        BY <1>0, <3>0
      <4> HIDE DEF q
      <4>3. s[Len(a) + Len(d) + q] = e[q]
        BY <1>1, <4>1 DEF Parts
      <4>4. r[Len(a) + Len(b) + (q + 1)] = c[q + 1]
        BY <1>1, <4>1 DEF Parts
      <4>5. e[q] = c[q + 1]
        BY <4>1
      <4> QED
        BY <4>2, <4>3, <4>4, <4>5
    <3>5. \/ p \in 1..Len(a) \/ p - Len(a) \in 1..Len(b)
          \/ p = Len(a) + Len(b) + 1 \/ p > Len(a) + Len(b) + 1
      BY <1>0, <3>0, InWhichPart, Zenon
    <3> QED
      BY <3>1, <3>2, <3>3, <3>4, <3>5, Zenon
  <2> QED
    BY <2>1, <2>2, SameByParts
<1>2. ASSUME Parts(s, d, e, a), Parts(r, b, c, a)
      PROVE  s = r
  <2>1. /\ s \in Seq(Byte) /\ r \in Seq(Byte)
        /\ Len(s) = Len(b) + Len(c) + Len(a) /\ Len(s) = Len(r)
    BY <1>0, <1>2 DEF Parts
  <2>2. ASSUME NEW p \in 1..Len(s)
        PROVE  s[p] = r[p]
    <3>0. p \in Nat /\ p >= 1 /\ p <= Len(b) + Len(c) + Len(a)
      BY <1>0, <2>1
    <3>1. CASE p \in 1..Len(b)
      <4>1. p \in 1..Len(d)
        BY <1>0, <3>1
      <4> QED
        BY <1>2, <3>1, <4>1 DEF Parts
    <3>2. CASE p = Len(b) + 1
      <4>1. s[Len(b) + 1] = d[Len(b) + 1]
        <5>1. Len(b) + 1 \in 1..Len(d)
          BY <1>0
        <5> QED
          BY <1>2, <5>1 DEF Parts
      <4>2. r[Len(b) + 1] = c[1]
        <5>1. 1 \in 1..Len(c)
          BY <1>0
        <5> QED
          BY <1>2, <5>1 DEF Parts
      <4> QED
        BY <3>2, <4>1, <4>2
    <3>3. CASE p > Len(b) + 1 /\ p <= Len(b) + Len(c)
      <4> DEFINE q == p - Len(b) - 1
      <4>1. q \in 1..Len(c) - 1 /\ q \in 1..Len(e) /\ q + 1 \in 1..Len(c)
        BY <1>0, <3>0, <3>3
      <4>2. Len(d) + q = p /\ Len(b) + (q + 1) = p
        BY <1>0, <3>0
      <4> HIDE DEF q
      <4>3. s[Len(d) + q] = e[q]
        BY <1>2, <4>1 DEF Parts
      <4>4. r[Len(b) + (q + 1)] = c[q + 1]
        BY <1>2, <4>1 DEF Parts
      <4>5. e[q] = c[q + 1]
        BY <4>1
      <4> QED
        BY <4>2, <4>3, <4>4, <4>5
    <3>4. CASE p > Len(b) + Len(c)
      <4> DEFINE q == p - Len(b) - Len(c)
      <4>1. q \in 1..Len(a)
        BY <1>0, <3>0, <3>4
      <4>2. Len(d) + Len(e) + q = p /\ Len(b) + Len(c) + q = p
        BY <1>0, <3>0
      <4> HIDE DEF q
      <4>3. s[Len(d) + Len(e) + q] = a[q] /\ r[Len(b) + Len(c) + q] = a[q]
        BY <1>2, <4>1 DEF Parts
      <4> QED
        BY <4>2, <4>3
    <3>5. \/ p \in 1..Len(b) \/ p = Len(b) + 1
          \/ (p > Len(b) + 1 /\ p <= Len(b) + Len(c)) \/ p > Len(b) + Len(c)
      BY <1>0, <3>0
    <3> QED
      BY <3>1, <3>2, <3>3, <3>4, <3>5, Zenon
  <2> QED
    BY <2>1, <2>2, SameByParts
<1> QED
  BY <1>1, <1>2

(* A byte that goes from one part to the part before it stays in place.    *)
LEMMA MoveHead ==
    ASSUME NEW a \in Seq(Byte), NEW b \in Seq(Byte), NEW c \in Seq(Byte)
    PROVE  /\ c # <<>> => Join(a, Append(b, Head(c)), Tail(c)) = Join(a, b, c)
           /\ b # <<>> => Join(Append(a, Head(b)), Tail(b), c) = Join(a, b, c)
<1>1. ASSUME NEW x \in Seq(Byte), NEW y \in Seq(Byte), NEW z \in Seq(Byte), y # <<>>
      PROVE  /\ Join(z, Append(x, Head(y)), Tail(y)) = Join(z, x, y)
             /\ Join(Append(x, Head(y)), Tail(y), z) = Join(x, y, z)
  <2> DEFINE h == Head(y)
             d == Append(x, h)
             e == Tail(y)
  <2>1. /\ h = y[1] /\ h \in Byte /\ Len(y) # 0
        /\ e \in Seq(Byte) /\ Len(e) = Len(y) - 1
        /\ \A p \in 1..Len(y) - 1 : e[p] = y[p + 1]
    BY <1>1, TailBytes
  <2> HIDE DEF h, e
  <2>2. /\ d \in Seq(Byte) /\ Len(d) = Len(x) + 1 /\ d[Len(x) + 1] = h
        /\ \A p \in 1..Len(x) : d[p] = x[p]
    BY <2>1, AppendBytes
  <2> HIDE DEF d
  <2>3. /\ Parts(Join(z, d, e), z, d, e) /\ Parts(Join(z, x, y), z, x, y)
        /\ Parts(Join(d, e, z), d, e, z) /\ Parts(Join(x, y, z), x, y, z)
    BY <2>1, <2>2, ThreeParts
  <2>4. d[Len(x) + 1] = y[1]
    BY <2>1, <2>2
  <2>5. Join(z, d, e) = Join(z, x, y)
    BY <2>1, <2>2, <2>3, <2>4, MoveByte, Zenon
  <2>6. Join(d, e, z) = Join(x, y, z)
    BY <2>1, <2>2, <2>3, <2>4, MoveByte, Zenon
  <2> QED
    BY <2>5, <2>6, Zenon DEF d, e, h
<1> QED
  BY <1>1, Zenon

(* A byte appended to the last part is appended to the whole.              *)
LEMMA AppendLast ==
    ASSUME NEW a \in Seq(Byte), NEW c \in Seq(Byte), NEW x \in Byte
    PROVE  Join(a, <<>>, Append(c, x)) = Append(Join(a, <<>>, c), x)
<1> DEFINE d == Append(c, x)
           r == Join(a, <<>>, c)
           s == Join(a, <<>>, d)
           t == Append(r, x)
           n == Len(a) + Len(c)
<1>0. <<>> \in Seq(Byte) /\ Len(<<>>) = 0 /\ Len(a) \in Nat /\ Len(c) \in Nat
  OBVIOUS
<1>1. /\ d \in Seq(Byte) /\ Len(d) = Len(c) + 1 /\ d[Len(c) + 1] = x
      /\ \A p \in 1..Len(c) : d[p] = c[p]
  BY AppendBytes
<1> HIDE DEF d
<1>2. Parts(r, a, <<>>, c) /\ Parts(s, a, <<>>, d)
  BY <1>0, <1>1, ThreeParts, Zenon
<1> HIDE DEF r, s
<1>3. /\ r \in Seq(Byte) /\ Len(r) = n
      /\ \A p \in 1..Len(a) : r[p] = a[p]
      /\ \A p \in 1..Len(c) : r[Len(a) + p] = c[p]
  BY <1>0, <1>2 DEF Parts
<1>4. /\ s \in Seq(Byte) /\ Len(s) = n + 1
      /\ \A p \in 1..Len(a) : s[p] = a[p]
      /\ \A p \in 1..Len(c) + 1 : s[Len(a) + p] = d[p]
  BY <1>0, <1>1, <1>2 DEF Parts
<1>5. /\ t \in Seq(Byte) /\ Len(t) = n + 1 /\ t[n + 1] = x
      /\ \A p \in 1..n : t[p] = r[p]
  BY <1>3, AppendBytes
<1> HIDE DEF t
<1>6. ASSUME NEW p \in 1..n + 1
      PROVE  s[p] = t[p]
  <2>0. p \in Nat /\ p >= 1 /\ p <= n + 1
    BY <1>0
  <2>1. CASE p \in 1..Len(a)
    <3>1. p \in 1..n
      BY <1>0, <2>1
    <3> QED
      BY <1>3, <1>4, <1>5, <2>1, <3>1
  <2>2. CASE p - Len(a) \in 1..Len(c)
    <3> DEFINE q == p - Len(a)
    <3>1. q \in 1..Len(c) /\ q \in 1..Len(c) + 1 /\ p \in 1..n /\ Len(a) + q = p
      BY <1>0, <2>0, <2>2
    <3> HIDE DEF q
    <3>2. s[Len(a) + q] = d[q] /\ d[q] = c[q] /\ r[Len(a) + q] = c[q] /\ t[p] = r[p]
      BY <1>1, <1>3, <1>4, <1>5, <3>1
    <3> QED
      BY <3>1, <3>2
  <2>3. CASE p = n + 1
    <3>1. Len(c) + 1 \in 1..Len(c) + 1 /\ Len(a) + (Len(c) + 1) = p
      BY <1>0, <2>3
    <3>2. s[p] = d[Len(c) + 1]
      BY <1>4, <3>1
    <3> QED
      BY <1>1, <1>5, <2>3, <3>2
  <2>4. p \in 1..Len(a) \/ p - Len(a) \in 1..Len(c) \/ p = n + 1
    BY <1>0, <2>0
  <2> QED
    BY <2>1, <2>2, <2>3, <2>4, Zenon
<1>7. Len(s) = Len(t) /\ \A p \in 1..Len(s) : s[p] = t[p]
  BY <1>4, <1>5, <1>6
<1>8. s = t
  BY <1>4, <1>5, <1>7, SameByParts
<1> QED
  BY <1>8, Zenon DEF d, r, s, t

(* A stream with only a first part is that part.                           *)
LEMMA FirstPart ==
    ASSUME NEW a \in Seq(Byte)
    PROVE  Join(a, <<>>, <<>>) = a
<1> DEFINE s == Join(a, <<>>, <<>>)
<1>0. <<>> \in Seq(Byte) /\ Len(<<>>) = 0 /\ Len(a) \in Nat
  OBVIOUS
<1>1. Parts(s, a, <<>>, <<>>)
  BY <1>0, ThreeParts, Zenon
<1> HIDE DEF s
<1>2. s \in Seq(Byte) /\ Len(s) = Len(a) /\ \A p \in 1..Len(s) : s[p] = a[p]
  BY <1>0, <1>1 DEF Parts
<1>3. s = a
  BY <1>2, SameByParts
<1> QED
  BY <1>3, Zenon DEF s

(* The local buffer takes the byte that was read.                          *)
LEMMA LocalGrows ==
    ASSUME NEW o \in Seq(Byte), NEW n \in 0..Len(o), NEW x \in Byte
    PROVE  SubSeq(Append(o, x), n + 1, Len(Append(o, x))) = Append(SubSeq(o, n + 1, Len(o)), x)
<1> DEFINE q == Append(o, x)
           r == SubSeq(o, n + 1, Len(o))
           s == SubSeq(q, n + 1, Len(q))
           t == Append(r, x)
<1>1. /\ q \in Seq(Byte) /\ Len(q) = Len(o) + 1 /\ q[Len(o) + 1] = x
      /\ \A i \in 1..Len(o) : q[i] = o[i]
  OBVIOUS
<1>2. /\ r \in Seq(Byte) /\ Len(r) = Len(o) - n
      /\ \A i \in 1..Len(o) - n : r[i] = o[n + i]
  OBVIOUS
<1>3. Len(o) \in Nat /\ n \in Nat /\ n <= Len(o)
  OBVIOUS
<1> HIDE DEF q, r
<1>4. /\ s \in Seq(Byte) /\ Len(s) = Len(o) + 1 - n
      /\ \A i \in 1..Len(o) + 1 - n : s[i] = q[n + i]
  BY <1>1, <1>3
<1>5. /\ t \in Seq(Byte) /\ Len(t) = Len(o) - n + 1 /\ t[Len(o) - n + 1] = x
      /\ \A i \in 1..Len(o) - n : t[i] = r[i]
  BY <1>2, <1>3
<1> HIDE DEF s, t
<1>6. ASSUME NEW i \in 1..Len(o) + 1 - n
      PROVE  s[i] = t[i]
  <2>1. CASE i = Len(o) + 1 - n
    <3>1. s[i] = q[n + i] /\ n + i = Len(o) + 1 /\ i = Len(o) - n + 1
      BY <1>3, <1>4, <2>1
    <3> QED
      BY <1>1, <1>5, <3>1
  <2>2. CASE i # Len(o) + 1 - n
    <3>1. i \in 1..Len(o) - n /\ n + i \in 1..Len(o)
      BY <1>3, <2>2
    <3> QED
      BY <1>1, <1>2, <1>4, <1>5, <3>1
  <2> QED
    BY <2>1, <2>2
<1>7. s = t
  BY <1>3, <1>4, <1>5, <1>6, SeqEqual
<1> QED
  BY <1>7, Zenon DEF s, t, q, r

(* The local buffer gives its first byte to the console.                   *)
LEMMA LocalShrinks ==
    ASSUME NEW o \in Seq(Byte), NEW n \in 0..Len(o) - 1
    PROVE  SubSeq(o, n + 1 + 1, Len(o)) = Tail(SubSeq(o, n + 1, Len(o)))
<1>1. n + 1 \in 1..Len(o) /\ Len(o) \in n + 1..Len(o)
  OBVIOUS
<1> QED
  BY <1>1, HeadTailOfSubSeq

(* What is left of a stream when the local buffer is lost is part of it.   *)
CutParts(r, s, a, b, c) ==
    /\ s \in Seq(Byte) /\ Len(s) = Len(a) + Len(b) + Len(c)
    /\ r \in Seq(Byte) /\ Len(r) = Len(a) + Len(c)
    /\ \A p \in 1..Len(a) : r[p] = s[p]
    /\ \A p \in Len(a) + 1..Len(a) + Len(c) : r[p] = s[p + Len(b)]

(* Where the bytes are when the middle part is lost.                       *)
LEMMA CutAt ==
    ASSUME NEW a \in Seq(Byte), NEW b \in Seq(Byte), NEW c \in Seq(Byte)
    PROVE  CutParts(Join(a, <<>>, c), Join(a, b, c), a, b, c)
<1> DEFINE s == Join(a, b, c)
           r == Join(a, <<>>, c)
<1>0. /\ <<>> \in Seq(Byte) /\ Len(<<>>) = 0
      /\ Len(a) \in Nat /\ Len(b) \in Nat /\ Len(c) \in Nat
  OBVIOUS
<1>1. Parts(s, a, b, c) /\ Parts(r, a, <<>>, c)
  BY <1>0, ThreeParts, Zenon
<1> HIDE DEF s, r
<1>2. s \in Seq(Byte) /\ Len(s) = Len(a) + Len(b) + Len(c)
  BY <1>1 DEF Parts
<1>3. r \in Seq(Byte) /\ Len(r) = Len(a) + Len(c)
  BY <1>0, <1>1 DEF Parts
<1>4. \A p \in 1..Len(a) : r[p] = s[p]
  BY <1>1 DEF Parts
<1>5. ASSUME NEW p \in Len(a) + 1..Len(a) + Len(c)
      PROVE  r[p] = s[p + Len(b)]
  <2> DEFINE q == p - Len(a)
  <2>1. /\ q \in 1..Len(c) /\ Len(a) + Len(<<>>) + q = p
        /\ Len(a) + Len(b) + q = p + Len(b)
    BY <1>0
  <2> HIDE DEF q
  <2>2. r[Len(a) + Len(<<>>) + q] = c[q] /\ s[Len(a) + Len(b) + q] = c[q]
    BY <1>1, <2>1 DEF Parts
  <2> QED
    BY <2>1, <2>2
<1>6. CutParts(r, s, a, b, c)
  BY <1>2, <1>3, <1>4, <1>5 DEF CutParts
<1> QED
  BY <1>6, Zenon DEF r, s

(* No byte is new when the middle part is lost.                            *)
LEMMA CutIsPart ==
    ASSUME NEW a \in Seq(Byte), NEW b \in Seq(Byte), NEW c \in Seq(Byte)
    PROVE  \A p \in DOMAIN Join(a, <<>>, c) : \E q \in DOMAIN Join(a, b, c) :
             Join(a, <<>>, c)[p] = Join(a, b, c)[q]
<1> DEFINE s == Join(a, b, c)
           r == Join(a, <<>>, c)
<1>0. Len(a) \in Nat /\ Len(b) \in Nat /\ Len(c) \in Nat
  OBVIOUS
<1>1. /\ s \in Seq(Byte) /\ Len(s) = Len(a) + Len(b) + Len(c)
      /\ r \in Seq(Byte) /\ Len(r) = Len(a) + Len(c)
      /\ \A p \in 1..Len(a) : r[p] = s[p]
      /\ \A p \in Len(a) + 1..Len(a) + Len(c) : r[p] = s[p + Len(b)]
  <2>1. CutParts(r, s, a, b, c)
    BY CutAt, Zenon
  <2> QED
    BY <2>1, Zenon DEF CutParts
<1> HIDE DEF s, r
<1>2. DOMAIN r = 1..Len(a) + Len(c) /\ DOMAIN s = 1..Len(a) + Len(b) + Len(c)
  BY <1>0, <1>1
<1>3. ASSUME NEW p \in DOMAIN r
      PROVE  \E q \in DOMAIN s : r[p] = s[q]
  <2>1. \/ p \in 1..Len(a) /\ p \in DOMAIN s
        \/ p \in Len(a) + 1..Len(a) + Len(c) /\ p + Len(b) \in DOMAIN s
    BY <1>0, <1>2
  <2> QED
    BY <1>1, <2>1, Zenon
<1> QED
  BY <1>3, Zenon DEF r, s

(* The bytes of a printed part and of the ring, before and after the ring  *)
(* loses its first one.                                                    *)
LEMMA DropAt ==
    ASSUME NEW a \in Seq(Byte), NEW c \in Seq(Byte), c # <<>>
    PROVE  /\ Join(a, <<>>, c) \in Seq(Byte) /\ Len(Join(a, <<>>, c)) = Len(a) + Len(c)
           /\ \A p \in 1..Len(a) : Join(a, <<>>, c)[p] = a[p]
           /\ \A p \in Len(a) + 1..Len(a) + Len(c) : Join(a, <<>>, c)[p] = c[p - Len(a)]
           /\ Join(a, <<>>, Tail(c)) \in Seq(Byte)
           /\ Len(Join(a, <<>>, Tail(c))) = Len(a) + Len(c) - 1
           /\ \A p \in 1..Len(a) : Join(a, <<>>, Tail(c))[p] = a[p]
           /\ \A p \in Len(a) + 1..Len(a) + Len(c) - 1 :
                Join(a, <<>>, Tail(c))[p] = c[p - Len(a) + 1]
<1> DEFINE e == Tail(c)
           s == Join(a, <<>>, c)
           r == Join(a, <<>>, e)
<1>0. <<>> \in Seq(Byte) /\ Len(<<>>) = 0 /\ Len(a) \in Nat
  OBVIOUS
<1>1. /\ Len(c) \in Nat /\ Len(c) >= 1
      /\ e \in Seq(Byte) /\ Len(e) = Len(c) - 1 /\ \A p \in 1..Len(c) - 1 : e[p] = c[p + 1]
  BY TailBytes
<1> HIDE DEF e
<1>2. Parts(s, a, <<>>, c) /\ Parts(r, a, <<>>, e)
  BY <1>0, <1>1, ThreeParts, Zenon
<1> HIDE DEF s, r
<1>3. s \in Seq(Byte) /\ Len(s) = Len(a) + Len(c)
  BY <1>0, <1>1, <1>2 DEF Parts
<1>4. r \in Seq(Byte) /\ Len(r) = Len(a) + Len(c) - 1
  BY <1>0, <1>1, <1>2 DEF Parts
<1>5. \A p \in 1..Len(a) : s[p] = a[p] /\ r[p] = a[p]
  BY <1>2 DEF Parts
<1>6. ASSUME NEW p \in Len(a) + 1..Len(a) + Len(c)
      PROVE  s[p] = c[p - Len(a)]
  <2> DEFINE q == p - Len(a)
  <2>1. q \in 1..Len(c) /\ Len(a) + Len(<<>>) + q = p
    BY <1>0, <1>1
  <2> HIDE DEF q
  <2>2. s[Len(a) + Len(<<>>) + q] = c[q]
    BY <1>2, <2>1 DEF Parts
  <2> QED
    BY <2>1, <2>2 DEF q
<1>7. ASSUME NEW p \in Len(a) + 1..Len(a) + Len(c) - 1
      PROVE  r[p] = c[p - Len(a) + 1]
  <2> DEFINE q == p - Len(a)
  <2>1. q \in 1..Len(c) - 1 /\ q \in 1..Len(e) /\ Len(a) + Len(<<>>) + q = p
    BY <1>0, <1>1
  <2> HIDE DEF q
  <2>2. r[Len(a) + Len(<<>>) + q] = e[q] /\ e[q] = c[q + 1]
    BY <1>1, <1>2, <2>1 DEF Parts
  <2> QED
    BY <2>1, <2>2 DEF q
<1> QED
  BY <1>3, <1>4, <1>5, <1>6, <1>7, Zenon DEF r, s, e

(* So is what is left when the ring loses its first byte.                  *)
LEMMA DropIsPart ==
    ASSUME NEW a \in Seq(Byte), NEW c \in Seq(Byte), c # <<>>
    PROVE  \A p \in DOMAIN Join(a, <<>>, Tail(c)) : \E q \in DOMAIN Join(a, <<>>, c) :
             Join(a, <<>>, Tail(c))[p] = Join(a, <<>>, c)[q]
<1> DEFINE d == Append(<<>>, Head(c))
           e == Tail(c)
<1>1. d \in Seq(Byte) /\ e \in Seq(Byte) /\ <<>> \in Seq(Byte)
  <2>1. <<>> \in Seq(Byte)
    OBVIOUS
  <2> QED
    BY <2>1, TailBytes, AppendBytes
<1>2. Join(a, d, e) = Join(a, <<>>, c)
  BY <1>1, MoveHead, Zenon
<1> HIDE DEF d, e
<1>3. \A p \in DOMAIN Join(a, <<>>, e) : \E q \in DOMAIN Join(a, d, e) :
        Join(a, <<>>, e)[p] = Join(a, d, e)[q]
  BY <1>1, CutIsPart
<1> QED
  BY <1>2, <1>3, Zenon DEF d, e

(* The beginning of a whole stream is whole.                               *)
LEMMA WholeFront ==
    ASSUME NEW s \in Seq(Byte), NEW a \in Seq(Byte), NEW cut \in Nat, NEW hole \in Nat,
           Whole(s, cut, hole), Len(a) <= Len(s), \A p \in 1..Len(a) : a[p] = s[p]
    PROVE  Whole(a, cut, hole)
BY DEF Whole, GoesOn

(* A stream stays whole when the next byte of the message at its end comes.*)
LEMMA WholeAppend ==
    ASSUME NEW s \in Seq(Byte), NEW cut \in 0..Len(s), NEW hole \in Nat, NEW b \in Byte,
           Whole(s, cut, hole), EndsWith(s, b.from, b.n, b.i - 1, cut)
    PROVE  Whole(Append(s, b), cut, hole)
<1> DEFINE r == Append(s, b)
<1>1. r \in Seq(Byte) /\ Len(r) = Len(s) + 1 /\ r[Len(s) + 1] = b
      /\ \A p \in 1..Len(s) : r[p] = s[p]
  OBVIOUS
<1> SUFFICES ASSUME NEW j \in 1..Len(s) + 1, NEW k \in 1..Len(s) + 1, j < k
             PROVE  GoesOn(r, j, k, cut, hole)
  BY <1>1 DEF Whole
<1> HIDE DEF r
<1>2. CASE k <= Len(s)
  BY <1>1, <1>2 DEF Whole, GoesOn
<1>3. CASE k = Len(s) + 1
  <2>1. r[j] = s[j] /\ r[k] = b /\ j \in DOMAIN s /\ r[j].i \in Int /\ r[k].i \in Int
    BY <1>1, <1>3, Bytes
  <2>2. s[j].from = b.from /\ s[j].n = b.n => cut < j /\ b.i - 1 - s[j].i = Len(s) - j
    BY <2>1 DEF EndsWith
  <2>3. Len(s) \in Nat
    OBVIOUS
  <2> QED
    BY <1>3, <2>1, <2>2, <2>3 DEF GoesOn
<1> QED
  BY <1>2, <1>3

(* When the middle of a whole stream is lost, what is left has a cut there.*)
LEMMA WholeCut ==
    ASSUME NEW a \in Seq(Byte), NEW b \in Seq(Byte), NEW c \in Seq(Byte),
           Whole(Join(a, b, c), 0, 0)
    PROVE  Whole(Join(a, <<>>, c), Len(a), Len(b))
<1> DEFINE s == Join(a, b, c)
           r == Join(a, <<>>, c)
           At(p) == IF p <= Len(a) THEN p ELSE p + Len(b)
<1>0. Len(a) \in Nat /\ Len(b) \in Nat /\ Len(c) \in Nat
  OBVIOUS
<1>2. /\ s \in Seq(Byte) /\ Len(s) = Len(a) + Len(b) + Len(c)
      /\ r \in Seq(Byte) /\ Len(r) = Len(a) + Len(c)
      /\ \A p \in 1..Len(a) : r[p] = s[p]
      /\ \A p \in Len(a) + 1..Len(a) + Len(c) : r[p] = s[p + Len(b)]
  <2>1. CutParts(r, s, a, b, c)
    BY CutAt, Zenon
  <2> QED
    BY <2>1, Zenon DEF CutParts
<1>3. Whole(s, 0, 0)
  OBVIOUS
<1> SUFFICES Whole(r, Len(a), Len(b))
  OBVIOUS
<1> HIDE DEF s, r
<1>1. /\ DOMAIN r = 1..Len(r) /\ DOMAIN s = 1..Len(s)
      /\ \A p \in 1..Len(r) : At(p) \in 1..Len(s) /\ r[p] = s[At(p)]
  <2>1. DOMAIN r = 1..Len(r) /\ DOMAIN s = 1..Len(s)
    BY <1>2
  <2>2. ASSUME NEW p \in 1..Len(r)
        PROVE  At(p) \in 1..Len(s) /\ r[p] = s[At(p)]
    <3>1. CASE p <= Len(a)
      <4>1. At(p) = p /\ p \in 1..Len(a) /\ p \in 1..Len(s)
        BY <1>0, <1>2, <3>1
      <4> QED
        BY <1>2, <4>1
    <3>2. CASE ~(p <= Len(a))
      <4>1. At(p) = p + Len(b) /\ p \in Len(a) + 1..Len(a) + Len(c) /\ p + Len(b) \in 1..Len(s)
        BY <1>0, <1>2, <3>2
      <4> QED
        BY <1>2, <4>1
    <3> QED
      BY <3>1, <3>2
  <2> QED
    BY <2>1, <2>2
<1> SUFFICES ASSUME NEW j \in 1..Len(r), NEW k \in 1..Len(r), j < k
             PROVE  GoesOn(r, j, k, Len(a), Len(b))
  BY <1>1, Zenon DEF Whole
<1>8. Len(a) \in Nat /\ Len(b) \in Nat /\ Len(r) \in Nat /\ j \in Nat /\ k \in Nat
  BY <1>0, <1>2
<1>4. At(j) < At(k) /\ At(j) \in DOMAIN s /\ At(k) \in DOMAIN s /\ At(j) > 0
  BY <1>1, <1>2, <1>8
<1>5. GoesOn(s, At(j), At(k), 0, 0)
  BY <1>3, <1>4 DEF Whole
<1>6. r[j] = s[At(j)] /\ r[k] = s[At(k)] /\ r[j].i \in Int /\ r[k].i \in Int
  <2>1. \A p \in 1..Len(r) : r[p].i \in Int
    BY <1>2, Bytes, Zenon
  <2> QED
    BY <1>1, <2>1
<1>7. /\ k <= Len(a) => At(k) = k
      /\ k > Len(a) => At(k) = k + Len(b)
      /\ j <= Len(a) => At(j) = j
      /\ j > Len(a) => At(j) = j + Len(b)
  BY <1>8
<1> HIDE DEF At
<1> QED
  BY <1>4, <1>5, <1>6, <1>7, <1>8 DEF GoesOn

(* When a full ring loses its first byte, the stream stays whole: no       *)
(* message of the ring has begun on the console.                           *)
LEMMA WholeDrop ==
    ASSUME NEW a \in Seq(Byte), NEW c \in Seq(Byte), c # <<>>, Whole(Join(a, <<>>, c), 0, 0),
           \A j \in DOMAIN a, k \in DOMAIN c : ~Same(a[j], c[k])
    PROVE  Whole(Join(a, <<>>, Tail(c)), 0, 0)
<1> DEFINE s == Join(a, <<>>, c)
           r == Join(a, <<>>, Tail(c))
<1>3. /\ s \in Seq(Byte) /\ Len(s) = Len(a) + Len(c)
      /\ \A p \in 1..Len(a) : s[p] = a[p]
      /\ \A p \in Len(a) + 1..Len(a) + Len(c) : s[p] = c[p - Len(a)]
  BY DropAt, Zenon
<1>4. /\ r \in Seq(Byte) /\ Len(r) = Len(a) + Len(c) - 1
      /\ \A p \in 1..Len(a) : r[p] = a[p]
      /\ \A p \in Len(a) + 1..Len(a) + Len(c) - 1 : r[p] = c[p - Len(a) + 1]
  BY DropAt, Zenon
<1>5. Whole(s, 0, 0)
  OBVIOUS
<1> SUFFICES ASSUME NEW j \in 1..Len(r), NEW k \in 1..Len(r), j < k
             PROVE  GoesOn(r, j, k, 0, 0)
  BY <1>4 DEF Whole
<1> HIDE DEF s, r
<1>9. /\ Len(a) \in Nat /\ Len(c) \in Nat /\ DOMAIN s = 1..Len(s)
      /\ Len(r) \in Nat /\ j \in Nat /\ k \in Nat
  BY <1>3, <1>4
<1>6. CASE k <= Len(a)
  <2>1. j \in 1..Len(a) /\ k \in 1..Len(a) /\ j \in DOMAIN s /\ k \in DOMAIN s
    BY <1>3, <1>6, <1>9
  <2>2. r[j] = s[j] /\ r[k] = s[k]
    BY <1>3, <1>4, <2>1
  <2> QED
    BY <1>5, <2>1, <2>2 DEF Whole, GoesOn
<1>7. CASE j > Len(a)
  <2>3. /\ j \in Len(a) + 1..Len(a) + Len(c) - 1 /\ k \in Len(a) + 1..Len(a) + Len(c) - 1
        /\ j + 1 \in Len(a) + 1..Len(a) + Len(c) /\ k + 1 \in Len(a) + 1..Len(a) + Len(c)
        /\ j + 1 \in DOMAIN s /\ k + 1 \in DOMAIN s
    BY <1>3, <1>4, <1>7, <1>9
  <2>4. r[j] = c[j - Len(a) + 1] /\ r[k] = c[k - Len(a) + 1]
    BY <1>4, <2>3
  <2>5. s[j + 1] = c[(j + 1) - Len(a)] /\ s[k + 1] = c[(k + 1) - Len(a)]
    BY <1>3, <2>3, Zenon
  <2>1. /\ j + 1 \in DOMAIN s /\ k + 1 \in DOMAIN s
        /\ r[j] = s[j + 1] /\ r[k] = s[k + 1]
    BY <1>9, <2>3, <2>4, <2>5
  <2>2. GoesOn(s, j + 1, k + 1, 0, 0)
    BY <1>5, <2>1 DEF Whole
  <2> QED
    BY <1>4, <2>1, <2>2 DEF GoesOn
<1>8. CASE j <= Len(a) /\ k > Len(a)
  <2>1. j \in DOMAIN a /\ k - Len(a) + 1 \in DOMAIN c
    BY <1>4, <1>8
  <2>2. r[j] = a[j] /\ r[k] = c[k - Len(a) + 1]
    BY <1>4, <1>8
  <2> QED
    BY <2>1, <2>2 DEF GoesOn, Same
<1> QED
  BY <1>4, <1>6, <1>7, <1>8

(* Part of what was written was written.                                   *)
LEMMA WrittenPart ==
    ASSUME NEW s, NEW r, NEW last, NEW byte, Written(s, last, byte),
           \A p \in DOMAIN r : \E q \in DOMAIN s : r[p] = s[q]
    PROVE  Written(r, last, byte)
BY DEF Written

(* A thread writes the next byte of its message.                           *)
LEMMA WrittenAppend ==
    ASSUME NEW s \in Seq(Byte), NEW b \in Byte, NEW last, NEW byte \in [Threads -> Nat],
           Written(s, last, byte), b.n = last[b.from], byte[b.from] = b.i - 1
    PROVE  Written(Append(s, b), last, [byte EXCEPT ![b.from] = b.i])
<1> DEFINE r == Append(s, b)
           next == [byte EXCEPT ![b.from] = b.i]
<1>1. r \in Seq(Byte) /\ Len(r) = Len(s) + 1 /\ r[Len(s) + 1] = b
      /\ \A p \in 1..Len(s) : r[p] = s[p]
  OBVIOUS
<1>2. b.from \in Threads /\ b.i \in Int /\ b.n \in Int
  BY SyslogdAssumption DEF Byte
<1>3. next[b.from] = b.i /\ \A t \in Threads : byte[t] \in Nat /\ byte[t] <= next[t] /\ next[t] \in Int
  BY <1>2
<1> SUFFICES ASSUME NEW p \in 1..Len(s) + 1
             PROVE  /\ r[p].n <= last[r[p].from]
                    /\ r[p].n = last[r[p].from] => r[p].i <= next[r[p].from]
  BY <1>1 DEF Written
<1> HIDE DEF r, next
<1>4. CASE p = Len(s) + 1
  BY <1>1, <1>2, <1>3, <1>4
<1>5. CASE p # Len(s) + 1
  <2>1. p \in 1..Len(s) /\ p \in DOMAIN s
    BY <1>5
  <2>2. r[p] = s[p] /\ s[p].from \in Threads /\ s[p].i \in Int
    BY <1>1, <2>1, Bytes
  <2> QED
    BY <1>3, <2>1, <2>2 DEF Written
<1> QED
  BY <1>4, <1>5

(* It stands at the end of the stream then.                                *)
LEMMA EndsWithAppend ==
    ASSUME NEW s \in Seq(Byte), NEW b \in Byte, NEW cut \in 0..Len(s),
           EndsWith(s, b.from, b.n, b.i - 1, cut)
    PROVE  EndsWith(Append(s, b), b.from, b.n, b.i, cut)
<1> DEFINE r == Append(s, b)
<1>1. r \in Seq(Byte) /\ Len(r) = Len(s) + 1 /\ r[Len(s) + 1] = b
      /\ \A p \in 1..Len(s) : r[p] = s[p]
  OBVIOUS
<1>2. b.i \in Int /\ Len(s) \in Nat
  BY SyslogdAssumption DEF Byte
<1> SUFFICES ASSUME NEW p \in 1..Len(s) + 1, r[p].from = b.from, r[p].n = b.n
             PROVE  cut < p /\ b.i - r[p].i = Len(r) - p
  BY <1>1 DEF EndsWith
<1> HIDE DEF r
<1>3. CASE p = Len(s) + 1
  BY <1>1, <1>2, <1>3
<1>4. CASE p # Len(s) + 1
  <2>1. p \in 1..Len(s) /\ p \in DOMAIN s
    BY <1>4
  <2>2. r[p] = s[p] /\ s[p].i \in Int
    BY <1>1, <2>1, Bytes
  <2>3. cut < p /\ b.i - 1 - s[p].i = Len(s) - p
    BY <2>1, <2>2 DEF EndsWith
  <2> QED
    BY <1>1, <1>2, <2>2, <2>3
<1> QED
  BY <1>3, <1>4

(* A byte that the ring loses is not missed at the end of the stream.      *)
LEMMA EndsWithDrop ==
    ASSUME NEW a \in Seq(Byte), NEW c \in Seq(Byte), c # <<>>, NEW t, NEW n, NEW i \in Int,
           EndsWith(Join(a, <<>>, c), t, n, i, 0),
           \A j \in DOMAIN a : ~(a[j].from = t /\ a[j].n = n)
    PROVE  EndsWith(Join(a, <<>>, Tail(c)), t, n, i, 0)
<1> DEFINE s == Join(a, <<>>, c)
           r == Join(a, <<>>, Tail(c))
<1>3. /\ s \in Seq(Byte) /\ Len(s) = Len(a) + Len(c)
      /\ \A p \in Len(a) + 1..Len(a) + Len(c) : s[p] = c[p - Len(a)]
  BY DropAt, Zenon
<1>4. /\ r \in Seq(Byte) /\ Len(r) = Len(a) + Len(c) - 1
      /\ \A p \in 1..Len(a) : r[p] = a[p]
      /\ \A p \in Len(a) + 1..Len(a) + Len(c) - 1 : r[p] = c[p - Len(a) + 1]
  BY DropAt, Zenon
<1>5. EndsWith(s, t, n, i, 0)
  OBVIOUS
<1> SUFFICES ASSUME NEW p \in 1..Len(r), r[p].from = t, r[p].n = n
             PROVE  0 < p /\ i - r[p].i = Len(r) - p
  BY <1>4 DEF EndsWith
<1> HIDE DEF s, r
<1>6. Len(a) \in Nat /\ Len(c) \in Nat /\ Len(r) \in Nat /\ p \in Nat /\ p > 0
  BY <1>4
<1>7. p > Len(a)
  <2> SUFFICES ASSUME p <= Len(a)
               PROVE  FALSE
    BY <1>6
  <2>1. p \in 1..Len(a) /\ p \in DOMAIN a
    BY <1>6
  <2> QED
    BY <1>4, <2>1
<1>8. /\ p \in Len(a) + 1..Len(a) + Len(c) - 1 /\ p + 1 \in Len(a) + 1..Len(a) + Len(c)
      /\ p + 1 \in DOMAIN s /\ p + 1 \in 1..Len(s)
  BY <1>3, <1>4, <1>6, <1>7
<1>9. r[p] = c[p - Len(a) + 1] /\ s[p + 1] = c[(p + 1) - Len(a)] /\ s[p + 1].i \in Int
  BY <1>3, <1>4, <1>8, Bytes, Zenon
<1>10. r[p] = s[p + 1]
  BY <1>6, <1>9
<1>11. i - s[p + 1].i = Len(s) - (p + 1)
  BY <1>5, <1>8, <1>10 DEF EndsWith
<1> QED
  BY <1>3, <1>4, <1>6, <1>9, <1>10, <1>11

(* A byte that ringbuffer_write() puts into the ring is its last one; a    *)
(* full ring loses the first one.                                          *)
LEMMA RingWrite ==
    ASSUME Ring!TypeOK, Ring!EndFollowsBegin, NEW b \in Byte, Ring!WriteByte(b)
    PROVE  /\ Ring!TypeOK' /\ Ring!EndFollowsBegin'
           /\ Ring!Content' = Append(IF Len(Ring!Content) = Size THEN Tail(Ring!Content)
                                     ELSE Ring!Content, b)
           /\ out' = out
<1>1. Ring!RingInv
  BY DEF Ring!RingInv
<1>2. Ring!RingInv'
  BY SyslogdAssumption, <1>1, Ring!RingStep DEF Ring!Next
<1>3. Ring!Log!Write(b)
  BY SyslogdAssumption, <1>1, <1>2, Ring!WriteRefines
<1> QED
  BY <1>2, <1>3, Zenon DEF Ring!Log!Write, Ring!RingInv

(* A byte that ringbuffer_read() delivers is the first one of the ring.    *)
LEMMA RingRead ==
    ASSUME Ring!TypeOK, Ring!EndFollowsBegin, Ring!ReadByte
    PROVE  /\ Ring!TypeOK' /\ Ring!EndFollowsBegin'
           /\ Ring!Content # <<>>
           /\ out' = Append(out, Head(Ring!Content)) /\ Len(out') = Len(out) + 1
           /\ Ring!Content' = Tail(Ring!Content)
<1>1. Ring!RingInv
  BY DEF Ring!RingInv
<1>2. Ring!RingInv'
  BY SyslogdAssumption, <1>1, Ring!RingStep DEF Ring!Next
<1>3. Ring!Log!Read
  BY SyslogdAssumption, <1>1, <1>2, Ring!ReadRefines
<1>4. Len(out') = Len(out) + 1
  <2>1. PICK b : out' = Append(out, b)
    BY DEF Ring!ReadByte
  <2>2. out \in Seq(Byte)
    BY DEF Ring!TypeOK
  <2> QED
    BY <2>1, <2>2
<1> QED
  BY <1>2, <1>3, <1>4, Zenon DEF Ring!Log!Read, Ring!RingInv

(* The ring, the local buffer and the stream are sequences of bytes.       *)
LEMMA StreamIsSeq ==
    ASSUME TypeOK
    PROVE  /\ Ring!Content \in Seq(Byte) /\ Len(Ring!Content) = count
           /\ Local \in Seq(Byte) /\ Len(Local) = Len(out) - printed
           /\ \A p \in 1..Len(out) - printed : Local[p] = out[printed + p]
           /\ Stream \in Seq(Byte) /\ Len(Stream) = Len(console) + Len(Local) + count
           /\ \A p \in 1..Len(console) : Stream[p] = console[p]
           /\ \A p \in 1..count : Stream[Len(console) + Len(Local) + p] = Ring!Content[p]
<1>1. /\ Ring!Content = Ring!ContentOf(buffer, begin, count)
      /\ buffer \in [0..Size - 1 -> Byte] /\ begin \in 0..Size - 1 /\ count \in 0..Size
  BY DEF TypeOK, Ring!TypeOK, Ring!Content
<1>2. Ring!Content \in Seq(Byte) /\ Len(Ring!Content) = count
  BY SyslogdAssumption, <1>1, Ring!ContentIsSeq
<1>3. /\ out \in Seq(Byte) /\ printed \in 0..Len(out) /\ console \in Seq(Byte)
  BY DEF TypeOK, Ring!TypeOK
<1>4. /\ Local \in Seq(Byte) /\ Len(Local) = Len(out) - printed
      /\ \A p \in 1..Len(out) - printed : Local[p] = out[printed + p]
  BY <1>3 DEF Local
<1>5. /\ Stream \in Seq(Byte)
      /\ Len(Stream) = Len(console) + Len(Local) + Len(Ring!Content)
      /\ \A p \in 1..Len(console) : Stream[p] = console[p]
      /\ \A p \in 1..Len(Ring!Content) :
           Stream[Len(console) + Len(Local) + p] = Ring!Content[p]
  <2>1. Parts(Stream, console, Local, Ring!Content)
    BY <1>2, <1>3, <1>4, ThreeParts, Zenon DEF Stream
  <2> QED
    BY <2>1 DEF Parts
<1> QED
  BY <1>2, <1>4, <1>5

(* Every step keeps the types of the log, and the ring in order.           *)
LEMMA LogTypeStep ==
    ASSUME TypeOK, Ring!EndFollowsBegin, PanicInv, [Next]_vars
    PROVE  TypeOK' /\ Ring!EndFollowsBegin'
<1> USE SyslogdAssumption
<1>1. ASSUME UNCHANGED ringVars
      PROVE  Ring!TypeOK' /\ Ring!EndFollowsBegin'
  BY <1>1 DEF TypeOK, Ring!TypeOK, Ring!EndFollowsBegin, Ring!Wrap, ringVars
<1>2. ASSUME NEW t \in Threads, Queue(t)
      PROVE  TypeOK' /\ Ring!EndFollowsBegin'
  <2>1. sent[t] + 1 \in 0..MaxMessages + 1
    BY <1>2 DEF TypeOK, PanicInv, Queue, Goto
  <2> QED
    BY <1>1, <1>2, <2>1 DEF TypeOK, Queue, Goto, logVars, ringVars
<1>3. ASSUME NEW t \in Threads, Lock(t)
      PROVE  TypeOK' /\ Ring!EndFollowsBegin'
  BY <1>1, <1>3 DEF TypeOK, Lock, Goto, ringVars
<1>4. ASSUME NEW t \in Threads, CanRun(t), pc[t] \in {"write", "direct"}, MoreBytes(t)
      PROVE  CurrentByte(t) \in Byte /\ pos[t] + 1 \in 0..Length
  BY <1>4 DEF TypeOK, PanicInv, MoreBytes, CurrentByte, Byte
<1>5. ASSUME NEW t \in Threads, WriteRing(t)
      PROVE  TypeOK' /\ Ring!EndFollowsBegin'
  <2>1. Ring!TypeOK' /\ Ring!EndFollowsBegin' /\ out' = out
    BY <1>4, <1>5, RingWrite DEF TypeOK, WriteRing
  <2> QED
    BY <1>4, <1>5, <2>1 DEF TypeOK, WriteRing, logVars
<1>6. ASSUME NEW t \in Threads, WriteConsole(t)
      PROVE  TypeOK' /\ Ring!EndFollowsBegin'
  <2>1. console' \in Seq(Byte)
    BY <1>4, <1>6 DEF TypeOK, WriteConsole
  <2> QED
    BY <1>1, <1>4, <1>6, <2>1 DEF TypeOK, WriteConsole, ringVars
<1>7. ASSUME NEW t \in Threads, Unlock(t)
      PROVE  TypeOK' /\ Ring!EndFollowsBegin'
  BY <1>1, <1>7, Zenon DEF TypeOK, Unlock, Release, Goto, ringVars
<1>8. ASSUME DaemonStep
      PROVE  TypeOK' /\ Ring!EndFollowsBegin'
  BY <1>1, <1>8, Zenon
  DEF TypeOK, DaemonStep, DaemonCreate, DaemonStart, DaemonStarted, Goto, Threads, logVars, ringVars
<1>9. ASSUME NEW t \in Threads, FlushLock(t)
      PROVE  TypeOK' /\ Ring!EndFollowsBegin'
  BY <1>1, <1>9 DEF TypeOK, FlushLock, Goto, ringVars
<1>10. ASSUME NEW t \in Threads, FlushRead(t)
       PROVE  TypeOK' /\ Ring!EndFollowsBegin'
  <2>1. Ring!TypeOK' /\ Ring!EndFollowsBegin' /\ Len(out') = Len(out) + 1
    BY <1>10, RingRead DEF TypeOK, FlushRead
  <2> QED
    BY <1>10, <2>1 DEF TypeOK, FlushRead, logVars, threadVars
<1>11. ASSUME NEW t \in Threads, FlushPrint(t)
       PROVE  TypeOK' /\ Ring!EndFollowsBegin'
  <2>1. console' \in Seq(Byte) /\ printed' \in 0..Len(out)
    BY <1>11 DEF TypeOK, Ring!TypeOK, FlushPrint
  <2> QED
    BY <1>1, <1>11, <2>1 DEF TypeOK, FlushPrint, ringVars
<1>12. ASSUME NEW t \in Threads, FlushUnlock(t)
       PROVE  TypeOK' /\ Ring!EndFollowsBegin'
  BY <1>1, <1>12 DEF TypeOK, FlushUnlock, Goto, ringVars
<1>13. ASSUME NEW t \in Threads, Panic(t)
       PROVE  TypeOK' /\ Ring!EndFollowsBegin'
  BY <1>1, <1>13 DEF TypeOK, Ring!TypeOK, Panic, ForceUnlock, ringVars
<1>14. ASSUME UNCHANGED vars
       PROVE  TypeOK' /\ Ring!EndFollowsBegin'
  BY <1>1, <1>14 DEF TypeOK, vars, ringVars, logVars, threadVars
<1> QED
  BY <1>2, <1>3, <1>5, <1>6, <1>7, <1>8, <1>9, <1>10, <1>11, <1>12, <1>13, <1>14 DEF Next, Step

(* Every step keeps the lock with the thread that is inside it, and a      *)
(* thread that panics on its way.                                          *)
LEMMA LogThreadStep ==
    ASSUME TypeOK, LockInv, PanicInv, Written(console, sent, pos), [Next]_vars
    PROVE  LockInv' /\ PanicInv'
<1> USE SyslogdAssumption
<1>1. \A t \in Threads : t # NULL
  BY DEF Threads
<1>2. ASSUME NEW t \in Threads, Queue(t)
      PROVE  LockInv' /\ PanicInv'
  BY <1>1, <1>2
  DEF TypeOK, LockInv, PanicInv, CanRun, Queue, Goto, ringVars, logVars, threadVars
<1>3. ASSUME NEW t \in Threads, Lock(t)
      PROVE  LockInv' /\ PanicInv'
  <2>1. \A j \in DOMAIN console : ~(console[j].from = t /\ console[j].n = sent[t])
    <3>1. pos[t] = 0 /\ console \in Seq(Byte)
      BY <1>3 DEF TypeOK, LockInv, Lock, Goto
    <3>2. \A j \in DOMAIN console : console[j].i \in Int /\ console[j].i > 0
      BY <3>1, Bytes
    <3> QED
      BY <3>1, <3>2 DEF Written
  <2>2. panicked # NULL => ~running
    BY <1>3 DEF PanicInv, Lock, Goto, CanRun
  <2> QED
    BY <1>1, <1>3, <2>1, <2>2
    DEF TypeOK, LockInv, PanicInv, CanRun, Lock, LockFree, Goto, ringVars
<1>4. ASSUME NEW t \in Threads, WriteRing(t)
      PROVE  LockInv' /\ PanicInv'
  BY <1>1, <1>4
  DEF TypeOK, LockInv, PanicInv, CanRun, WriteRing, ringVars, logVars, threadVars
<1>5. ASSUME NEW t \in Threads, WriteConsole(t)
      PROVE  LockInv' /\ PanicInv'
  BY <1>1, <1>5
  DEF TypeOK, LockInv, PanicInv, CanRun, WriteConsole, Goto, ringVars, logVars, threadVars
<1>6. ASSUME NEW t \in Threads, Unlock(t)
      PROVE  LockInv' /\ PanicInv'
  BY <1>1, <1>6, Zenon
  DEF TypeOK, LockInv, PanicInv, CanRun, Unlock, Release, Goto, ringVars, logVars, threadVars
<1>7. ASSUME NEW t \in Threads, FlushLock(t)
      PROVE  LockInv' /\ PanicInv'
  BY <1>1, <1>7
  DEF TypeOK, LockInv, PanicInv, CanRun, FlushLock, LockFree, Goto, ringVars, logVars, threadVars
<1>8. ASSUME NEW t \in Threads, FlushRead(t)
      PROVE  LockInv' /\ PanicInv'
  BY <1>1, <1>8
  DEF TypeOK, LockInv, PanicInv, CanRun, FlushRead, ringVars, logVars, threadVars
<1>9. ASSUME NEW t \in Threads, FlushPrint(t)
      PROVE  LockInv' /\ PanicInv'
  BY <1>1, <1>9
  DEF TypeOK, LockInv, PanicInv, CanRun, FlushPrint, Goto, ringVars, logVars, threadVars
<1>10. ASSUME NEW t \in Threads, FlushUnlock(t)
       PROVE  LockInv' /\ PanicInv'
  BY <1>1, <1>10, Zenon
  DEF TypeOK, LockInv, PanicInv, CanRun, FlushUnlock, Goto, ringVars, logVars, threadVars
<1>11. ASSUME NEW t \in Threads, Panic(t)
       PROVE  LockInv' /\ PanicInv'
  BY <1>1, <1>11
  DEF TypeOK, LockInv, PanicInv, CanRun, Panic, ForceUnlock, ringVars, logVars, threadVars
<1>12. ASSUME DaemonStep
       PROVE  LockInv' /\ PanicInv'
  BY <1>1, <1>12, SMTT(30)
  DEF TypeOK, LockInv, PanicInv, CanRun, DaemonStep, DaemonCreate, DaemonStart, DaemonStarted,
      LockFree, Goto, Threads, ringVars, logVars
<1>13. ASSUME UNCHANGED vars
       PROVE  LockInv' /\ PanicInv'
  BY <1>13 DEF LockInv, PanicInv, CanRun, vars, logVars, threadVars
<1> QED
  BY <1>2, <1>3, <1>4, <1>5, <1>6, <1>7, <1>8, <1>9, <1>10, <1>11, <1>12, <1>13 DEF Next, Step

(* A step that leaves the ring, the local buffer and the console alone     *)
(* leaves the stream alone.                                                *)
LEMMA StreamStays ==
    ASSUME UNCHANGED <<ringVars, console, printed>>
    PROVE  Stream' = Stream /\ Local' = Local /\ Ring!Content' = Ring!Content
BY DEF Stream, Local, Ring!Content, Ring!ContentOf, Ring!Wrap, ringVars

(* What the counters are.                                                  *)
LEMMA LogTypes ==
    ASSUME TypeOK
    PROVE  /\ out \in Seq(Byte) /\ Len(out) \in Nat /\ printed \in 0..Len(out) /\ printed \in Nat
           /\ count \in Nat /\ console \in Seq(Byte) /\ Len(console) \in Nat
           /\ sent \in [Threads -> Nat] /\ pos \in [Threads -> Nat]
<1>1. /\ out \in Seq(Byte) /\ console \in Seq(Byte) /\ printed \in 0..Len(out) /\ count \in 0..Size
      /\ sent \in [Threads -> 0..MaxMessages + 1] /\ pos \in [Threads -> 0..Length]
  BY DEF TypeOK, Ring!TypeOK
<1>2. Len(out) \in Nat /\ Len(console) \in Nat
  BY <1>1
<1>3. 0..MaxMessages + 1 \subseteq Nat /\ 0..Length \subseteq Nat /\ 0..Size \subseteq Nat
      /\ printed \in Nat
  BY <1>1, <1>2, SyslogdAssumption
<1>4. sent \in [Threads -> Nat] /\ pos \in [Threads -> Nat]
  BY <1>1, <1>3
<1> QED
  BY <1>1, <1>2, <1>3, <1>4

(* While a thread writes to the ring, nobody flushes.                      *)
LEMMA WriterAlone ==
    ASSUME LockInv, FlushInv, NEW t \in Threads, CanRun(t), pc[t] = "write"
    PROVE  /\ running /\ panicked = NULL /\ lock = t /\ printed = Len(out)
           /\ \A u \in Threads : pc[u] \notin {"flush", "print"}
           /\ \A j \in DOMAIN console, r \in DOMAIN Ring!Content :
                ~Same(console[j], Ring!Content[r])
<1>1. running /\ panicked = NULL /\ lock = t
  BY DEF LockInv
<1>2. \A u \in Threads : pc[u] \notin {"flush", "print"}
  BY <1>1 DEF LockInv, CanRun
<1> QED
  BY <1>1, <1>2 DEF FlushInv

(* Every step keeps the local buffer in its size, the ring empty while     *)
(* syslogd does not run, and, outside of a flush, no message both in the   *)
(* ring and on the console.                                                *)
LEMMA LogFlushStep ==
    ASSUME TypeOK, TypeOK', Ring!EndFollowsBegin, LockInv, PanicInv, FlushInv, [Next]_vars
    PROVE  FlushInv'
<1> USE SyslogdAssumption
<1>1. /\ Ring!Content \in Seq(Byte) /\ Len(Ring!Content) = count /\ Len(out) \in Nat
      /\ count \in Nat /\ printed \in Nat /\ console \in Seq(Byte)
  BY StreamIsSeq, SMTT(30) DEF TypeOK, Ring!TypeOK
<1>2. ASSUME NEW t \in Threads, Queue(t) \/ Lock(t) \/ Unlock(t)
      PROVE  FlushInv'
  <2>1. UNCHANGED <<ringVars, console, printed, running, panicked>>
    BY <1>2 DEF Queue, Lock, Unlock, logVars
  <2>2. \A u \in Threads : pc'[u] \notin {"flush", "print"} => pc[u] \notin {"flush", "print"}
    BY <1>2, SMTT(30) DEF Queue, Lock, Unlock, Goto, TypeOK
  <2> QED
    BY <2>1, <2>2, StreamStays DEF FlushInv, ringVars
<1>3. ASSUME DaemonStep
      PROVE  FlushInv'
  <2>1. UNCHANGED <<ringVars, console, printed, panicked>> /\ (running => running')
    BY <1>3 DEF DaemonStep, DaemonCreate, DaemonStart, DaemonStarted, logVars
  <2>2. \A u \in Threads : pc'[u] \notin {"flush", "print"} => pc[u] \notin {"flush", "print"}
    BY <1>3, Zenon DEF DaemonStep, DaemonCreate, DaemonStart, DaemonStarted, Goto, TypeOK
  <2> QED
    BY <2>1, <2>2, StreamStays DEF FlushInv, ringVars
<1>4. ASSUME NEW t \in Threads, WriteRing(t)
      PROVE  FlushInv'
  <2>1. /\ running /\ panicked = NULL /\ lock = t /\ printed = Len(out)
        /\ \A j \in DOMAIN console, r \in DOMAIN Ring!Content :
             ~Same(console[j], Ring!Content[r])
    BY <1>4, WriterAlone DEF WriteRing
  <2>2. CurrentByte(t) \in Byte
    BY <1>4 DEF WriteRing, TypeOK, PanicInv, MoreBytes, CurrentByte, Byte
  <2>3. /\ Ring!Content' = Append(IF Len(Ring!Content) = Size THEN Tail(Ring!Content)
                                  ELSE Ring!Content, CurrentByte(t))
        /\ out' = out
    BY <1>4, <2>2, RingWrite DEF WriteRing, TypeOK
  <2>4. \A r \in DOMAIN Ring!Content' :
          \/ Ring!Content'[r] = CurrentByte(t)
          \/ \E q \in DOMAIN Ring!Content : Ring!Content'[r] = Ring!Content[q]
    <3>1. CASE Len(Ring!Content) = Size
      BY <1>1, <2>2, <2>3, <3>1
    <3>2. CASE Len(Ring!Content) # Size
      BY <1>1, <2>2, <2>3, <3>2
    <3> QED
      BY <3>1, <3>2
  <2>5. \A j \in DOMAIN console : ~Same(console[j], CurrentByte(t))
    BY <1>4 DEF LockInv, WriteRing, Same, CurrentByte
  <2>6. UNCHANGED <<console, printed, running>>
    BY <1>4 DEF WriteRing, logVars
  <2> QED
    BY <1>1, <2>1, <2>3, <2>4, <2>5, <2>6 DEF FlushInv
<1>5. ASSUME NEW t \in Threads, WriteConsole(t)
      PROVE  FlushInv'
  <2>1. ~running /\ count = 0 /\ printed = Len(out)
    BY <1>5 DEF WriteConsole, LockInv, FlushInv
  <2>2. UNCHANGED <<ringVars, printed, running>> /\ Ring!Content' = Ring!Content
    BY <1>5 DEF WriteConsole, Ring!Content, Ring!ContentOf, Ring!Wrap, ringVars
  <2>3. DOMAIN Ring!Content' = {}
    BY <1>1, <2>1, <2>2
  <2> QED
    BY <2>1, <2>2, <2>3 DEF FlushInv, ringVars
<1>6. ASSUME NEW t \in Threads, FlushLock(t)
      PROVE  FlushInv'
  <2>1. pc'[t] = "flush" /\ UNCHANGED <<out, printed, running, count>>
    BY <1>6 DEF FlushLock, Goto, ringVars, TypeOK
  <2> QED
    BY <2>1 DEF FlushInv
<1>7. ASSUME NEW t \in Threads, FlushRead(t)
      PROVE  FlushInv'
  <2>1. Len(out') = Len(out) + 1
    BY <1>1, <1>7, RingRead DEF FlushRead, TypeOK
  <2>2. pc'[t] = "flush" /\ count > 0 /\ printed' = printed /\ running' = running
    BY <1>7 DEF FlushRead, Ring!ReadByte, logVars, threadVars
  <2>3. Len(out) - printed < ChunkSize
    BY <1>7 DEF FlushRead
  <2> QED
    BY <1>1, <2>1, <2>2, <2>3 DEF FlushInv
<1>8. ASSUME NEW t \in Threads, FlushPrint(t)
      PROVE  FlushInv'
  <2>1. /\ pc'[t] \in {"flush", "print"} /\ Len(out) > printed /\ printed' = printed + 1
        /\ UNCHANGED <<out, running, count>>
    BY <1>8 DEF FlushPrint, TypeOK, ringVars
  <2> QED
    BY <1>1, <2>1 DEF FlushInv
<1>9. ASSUME NEW t \in Threads, FlushUnlock(t)
      PROVE  FlushInv'
  <2>1. count = 0 /\ printed = Len(out) /\ UNCHANGED <<ringVars, console, printed>>
    BY <1>9 DEF FlushUnlock
  <2>2. DOMAIN Ring!Content' = {}
    BY <1>1, <2>1, StreamStays
  <2> QED
    BY <1>1, <2>1, <2>2 DEF FlushInv, ringVars
<1>10. ASSUME NEW t \in Threads, Panic(t)
       PROVE  FlushInv'
  <2>1. /\ panicked' # NULL /\ printed' = Len(out)
        /\ UNCHANGED <<out, count, running>>
    BY <1>10 DEF Panic, Threads, ringVars
  <2> QED
    BY <1>1, <2>1 DEF FlushInv
<1>11. ASSUME UNCHANGED vars
       PROVE  FlushInv'
  <2>1. UNCHANGED <<ringVars, console, printed, running, panicked, pc>>
    BY <1>11 DEF vars, logVars, threadVars
  <2> QED
    BY <2>1, StreamStays DEF FlushInv, ringVars
<1> QED
  BY <1>2, <1>3, <1>4, <1>5, <1>6, <1>7, <1>8, <1>9, <1>10, <1>11 DEF Next, Step

(* The byte that a thread writes is the next one of its message.           *)
LEMMA NextByteOfMessage ==
    ASSUME TypeOK, PanicInv, NEW t \in Threads, pc[t] \in {"write", "direct"}, MoreBytes(t)
    PROVE  /\ CurrentByte(t) \in Byte /\ CurrentByte(t).from = t
           /\ CurrentByte(t).n = sent[t] /\ CurrentByte(t).i = pos[t] + 1
           /\ pos[t] = CurrentByte(t).i - 1 /\ pos[t] \in Int
BY SyslogdAssumption DEF TypeOK, PanicInv, MoreBytes, CurrentByte, Byte

(* A step of t that appends the next byte of its message to a stream that  *)
(* it ends keeps the stream whole.                                         *)
LEMMA StreamGrows ==
    ASSUME TypeOK, LockInv, PanicInv, NEW t \in Threads, CanRun(t),
           pc[t] \in {"write", "direct"}, MoreBytes(t),
           NEW s \in Seq(Byte), NEW cut \in 0..Len(s), NEW hole \in Nat,
           panicked = NULL => cut = 0 /\ hole = 0,
           Whole(s, cut, hole), Written(s, sent, pos), EndsWith(s, t, sent[t], pos[t], cut),
           Stream' = Append(s, CurrentByte(t)), pos' = [pos EXCEPT ![t] = @ + 1],
           UNCHANGED <<pc, sent, panicked>>
    PROVE  StreamInv(cut, hole)'
<1> DEFINE b == CurrentByte(t)
<1>1. /\ b \in Byte /\ b.from = t /\ b.n = sent[t] /\ b.i = pos[t] + 1 /\ pos[t] = b.i - 1
      /\ pos[t] \in Int /\ pos \in [Threads -> Nat]
  BY NextByteOfMessage, SyslogdAssumption DEF TypeOK
<1>2. pos' = [pos EXCEPT ![b.from] = b.i]
  BY <1>1
<1> HIDE DEF b
<1>3. Whole(Stream', cut, hole)
  <2>1. Whole(Append(s, b), cut, hole)
    BY <1>1, WholeAppend
  <2> QED
    BY <2>1 DEF b
<1>4. Written(Stream', sent, pos')
  <2>1. Written(Append(s, b), sent, [pos EXCEPT ![b.from] = b.i])
    BY <1>1, WrittenAppend, Zenon
  <2> QED
    BY <1>2, <2>1, Zenon DEF b
<1>5. EndsWith(Stream', t, sent[t], pos'[t], cut)
  <2>1. EndsWith(Append(s, b), b.from, b.n, b.i, cut)
    BY <1>1, EndsWithAppend
  <2>2. pos'[t] = b.i
    BY <1>1
  <2> QED
    BY <1>1, <2>1, <2>2 DEF b
<1>6. \A u \in Threads : CanRun(u) /\ pc[u] \in {"write", "direct"} => u = t
  BY DEF LockInv
<1> QED
  BY <1>3, <1>4, <1>5, <1>6 DEF StreamInv, CanRun

(* Every step keeps the stream whole, and a panic cuts it once.            *)
LEMMA LogStreamStep ==
    ASSUME LogInv, TypeOK', [Next]_vars
    PROVE  \E cut \in 0..Len(console'), hole \in 0..ChunkSize : StreamInv(cut, hole)'
<1> USE SyslogdAssumption
<1>1. TypeOK /\ Ring!EndFollowsBegin /\ LockInv /\ PanicInv /\ FlushInv
  BY DEF LogInv
<1>2. PICK cut \in 0..Len(console), hole \in 0..ChunkSize : StreamInv(cut, hole)
  BY DEF LogInv
<1>3. /\ Ring!Content \in Seq(Byte) /\ Len(Ring!Content) = count
      /\ Local \in Seq(Byte) /\ Len(Local) = Len(out) - printed
      /\ \A p \in 1..Len(out) - printed : Local[p] = out[printed + p]
      /\ Stream \in Seq(Byte) /\ Len(Stream) = Len(console) + Len(Local) + count
      /\ console \in Seq(Byte) /\ out \in Seq(Byte)
  BY <1>1, StreamIsSeq, Zenon DEF TypeOK, Ring!TypeOK
<1>4. /\ Len(out) \in Nat /\ count \in Nat /\ printed \in 0..Len(out) /\ Len(console) \in Nat
      /\ cut \in 0..Len(Stream) /\ cut \in Nat /\ hole \in Nat
  <2>1. Len(out) \in Nat /\ count \in Nat /\ printed \in 0..Len(out) /\ Len(console) \in Nat
    BY <1>1, LogTypes
  <2> QED
    BY <1>3, <2>1
<1>5. ASSUME Stream' = Stream, Len(console') >= Len(console), UNCHANGED <<sent, pos, panicked>>,
             \A u \in Threads : CanRun(u) /\ pc'[u] \in {"write", "direct"}
                                 => pc[u] \in {"write", "direct"}
      PROVE  \E c \in 0..Len(console'), h \in 0..ChunkSize : StreamInv(c, h)'
  <2>1. StreamInv(cut, hole)'
    BY <1>2, <1>5 DEF StreamInv, CanRun
  <2>2. Len(console') \in Nat
    BY DEF TypeOK
  <2> QED
    BY <1>4, <1>5, <2>1, <2>2
<1>6. ASSUME NEW t \in Threads, Queue(t)
      PROVE  \E c \in 0..Len(console'), h \in 0..ChunkSize : StreamInv(c, h)'
  <2>1. /\ Stream' = Stream /\ console' = console /\ panicked' = panicked
        /\ sent' = [sent EXCEPT ![t] = @ + 1] /\ pos' = [pos EXCEPT ![t] = 0]
        /\ pc' = [pc EXCEPT ![t] = "lock"]
    BY <1>6, StreamStays DEF Queue, Goto, logVars
  <2>2. Written(Stream, sent', pos')
    <3>1. sent \in [Threads -> Nat] /\ pos \in [Threads -> Nat]
      BY <1>1, LogTypes
    <3>2. \A p \in DOMAIN Stream : Stream[p].from \in Threads /\ Stream[p].n \in Nat
      BY <1>3, Bytes
    <3> QED
      BY <1>2, <2>1, <3>1, <3>2 DEF StreamInv, Written
  <2>3. StreamInv(cut, hole)'
    BY <1>1, <1>2, <2>1, <2>2 DEF StreamInv, CanRun, TypeOK
  <2> QED
    BY <2>1, <2>3
<1>7. ASSUME NEW t \in Threads, Lock(t)
      PROVE  \E c \in 0..Len(console'), h \in 0..ChunkSize : StreamInv(c, h)'
  <2>1. /\ Stream' = Stream /\ console' = console /\ UNCHANGED <<panicked, sent, pos>>
        /\ pc[t] = "lock" /\ lock = NULL /\ CanRun(t)
        /\ pc' = [pc EXCEPT ![t] = IF running THEN "write" ELSE "direct"]
    BY <1>7, StreamStays DEF Lock, LockFree, Goto
  <2>2. EndsWith(Stream, t, sent[t], pos[t], cut)
    <3>1. pos[t] = 0
      BY <1>1, <2>1 DEF LockInv
    <3>2. \A p \in DOMAIN Stream : Stream[p].i \in Int /\ Stream[p].i > 0
      BY <1>3, Bytes
    <3>3. \A p \in DOMAIN Stream : ~(Stream[p].from = t /\ Stream[p].n = sent[t])
      BY <1>2, <3>1, <3>2 DEF StreamInv, Written
    <3> QED
      BY <3>3 DEF EndsWith
  <2>3. StreamInv(cut, hole)'
    BY <1>1, <1>2, <2>1, <2>2 DEF StreamInv, CanRun, TypeOK
  <2> QED
    BY <2>1, <2>3
<1>8. ASSUME NEW t \in Threads, Unlock(t) \/ FlushLock(t) \/ FlushUnlock(t)
      PROVE  \E c \in 0..Len(console'), h \in 0..ChunkSize : StreamInv(c, h)'
  <2>1. UNCHANGED <<ringVars, console, printed, sent, pos, panicked>>
    BY <1>8 DEF Unlock, FlushLock, FlushUnlock
  <2>2. \A u \in Threads : pc'[u] \in {"write", "direct"} => pc[u] \in {"write", "direct"}
    BY <1>1, <1>8, SMTT(30) DEF Unlock, FlushLock, FlushUnlock, Goto, TypeOK
  <2>3. Stream' = Stream /\ Len(console') >= Len(console)
    BY <1>4, <2>1, StreamStays
  <2> QED
    BY <1>5, <2>1, <2>2, <2>3
<1>9. ASSUME DaemonStep
      PROVE  \E c \in 0..Len(console'), h \in 0..ChunkSize : StreamInv(c, h)'
  <2>1. UNCHANGED <<ringVars, console, printed, sent, pos, panicked>>
    BY <1>9 DEF DaemonStep, DaemonCreate, DaemonStart, DaemonStarted, logVars
  <2>2. \A u \in Threads : pc'[u] \in {"write", "direct"} => pc[u] \in {"write", "direct"}
    BY <1>1, <1>9 DEF DaemonStep, DaemonCreate, DaemonStart, DaemonStarted, Goto, TypeOK
  <2>3. Stream' = Stream /\ Len(console') >= Len(console)
    BY <1>4, <2>1, StreamStays
  <2> QED
    BY <1>5, <2>1, <2>2, <2>3
<1>10. ASSUME NEW t \in Threads, WriteConsole(t)
       PROVE  \E c \in 0..Len(console'), h \in 0..ChunkSize : StreamInv(c, h)'
  <2>1. CanRun(t) /\ pc[t] = "direct" /\ MoreBytes(t) /\ count = 0 /\ printed = Len(out)
    BY <1>1, <1>10 DEF WriteConsole, LockInv, FlushInv
  <2>2. /\ UNCHANGED <<ringVars, printed, pc, sent, panicked>>
        /\ console' = Append(console, CurrentByte(t)) /\ pos' = [pos EXCEPT ![t] = @ + 1]
    BY <1>10 DEF WriteConsole
  <2>3. Local' = Local /\ Ring!Content' = Ring!Content
    BY <2>2 DEF Local, Ring!Content, Ring!ContentOf, Ring!Wrap, ringVars
  <2>4. Local = <<>> /\ Ring!Content = <<>>
    BY <1>3, <1>4, <2>1
  <2>5. CurrentByte(t) \in Byte
    BY <1>1, <2>1, NextByteOfMessage
  <2>6. Stream' = Append(Stream, CurrentByte(t))
    <3>1. Append(console, CurrentByte(t)) \in Seq(Byte)
      BY <1>3, <2>5, AppendBytes
    <3> QED
      BY <1>3, <2>2, <2>3, <2>4, <3>1, FirstPart, Zenon DEF Stream
  <2>7. StreamInv(cut, hole)'
    BY <1>1, <1>2, <1>3, <1>4, <2>1, <2>2, <2>6, StreamGrows, Zenon DEF StreamInv
  <2>8. Len(console') = Len(console) + 1
    BY <1>3, <2>2
  <2> QED
    BY <1>4, <2>7, <2>8
<1>11. ASSUME NEW t \in Threads, WriteRing(t)
       PROVE  \E c \in 0..Len(console'), h \in 0..ChunkSize : StreamInv(c, h)'
  <2> DEFINE C == Ring!Content
             kept == IF Len(C) = Size THEN Tail(C) ELSE C
             s == Join(console, <<>>, kept)
  <2>1. CanRun(t) /\ pc[t] = "write" /\ MoreBytes(t)
    BY <1>11 DEF WriteRing
  <2>2. /\ panicked = NULL /\ printed = Len(out) /\ cut = 0 /\ hole = 0
        /\ \A j \in DOMAIN console, r \in DOMAIN C : ~Same(console[j], C[r])
    BY <1>1, <1>2, <2>1, WriterAlone DEF StreamInv
  <2>3. \A j \in DOMAIN console : ~(console[j].from = t /\ console[j].n = sent[t])
    BY <1>1, <2>1 DEF LockInv
  <2>4. /\ CurrentByte(t) \in Byte /\ pos[t] \in Int
    BY <1>1, <2>1, NextByteOfMessage
  <2>5. C' = Append(kept, CurrentByte(t)) /\ out' = out
    BY <1>1, <1>11, <2>4, RingWrite, SMTT(30) DEF WriteRing, TypeOK
  <2>6. UNCHANGED <<console, printed, pc, sent, panicked>> /\ pos' = [pos EXCEPT ![t] = @ + 1]
    BY <1>11 DEF WriteRing, logVars
  <2>7. Local = <<>> /\ Local' = <<>>
    <3>1. Local' = Local
      BY <2>5, <2>6 DEF Local
    <3> QED
      BY <1>3, <1>4, <2>2, <3>1
  <2>8. Stream = Join(console, <<>>, C)
    BY <2>7 DEF Stream
  <2>9. Whole(Join(console, <<>>, C), 0, 0) /\ EndsWith(Join(console, <<>>, C), t, sent[t], pos[t], 0)
        /\ Written(Join(console, <<>>, C), sent, pos)
    BY <1>2, <2>1, <2>2, <2>8 DEF StreamInv
  <2> HIDE DEF C
  <2>10. kept \in Seq(Byte) /\ s \in Seq(Byte) /\ C \in Seq(Byte)
    <3>1. C \in Seq(Byte) /\ <<>> \in Seq(Byte)
      BY <1>3 DEF C
    <3>2. ASSUME Len(C) = Size
          PROVE  kept \in Seq(Byte)
      <4>1. Len(C) # 0
        BY <3>2
      <4>2. C # <<>>
        BY <4>1
      <4>3. Tail(C) \in Seq(Byte)
        BY <3>1, <4>2, TailBytes
      <4> QED
        BY <3>2, <4>3
    <3>3. ASSUME Len(C) # Size
          PROVE  kept \in Seq(Byte)
      BY <3>1, <3>3
    <3>4. kept \in Seq(Byte)
      BY <3>2, <3>3
    <3> HIDE DEF kept
    <3>5. Parts(s, console, <<>>, kept)
      BY <1>3, <3>1, <3>4, ThreeParts, Zenon
    <3> HIDE DEF s
    <3> QED
      BY <3>1, <3>4, <3>5 DEF Parts
  <2>11. Whole(s, 0, 0) /\ EndsWith(s, t, sent[t], pos[t], 0) /\ Written(s, sent, pos)
    <3>1. CASE Len(C) = Size
      <4>1. kept = Tail(C) /\ C # <<>>
        <5>1. Len(C) # 0
          BY <3>1
        <5> QED
          BY <3>1, <5>1
      <4>2. Whole(s, 0, 0)
        BY <1>3, <2>2, <2>9, <2>10, <4>1, WholeDrop
      <4>3. EndsWith(s, t, sent[t], pos[t], 0)
        BY <1>3, <2>3, <2>4, <2>9, <2>10, <4>1, EndsWithDrop, Zenon
      <4>4. \A p \in DOMAIN s : \E q \in DOMAIN Join(console, <<>>, C) :
              s[p] = Join(console, <<>>, C)[q]
        BY <1>3, <2>10, <4>1, DropIsPart
      <4> QED
        BY <2>9, <4>2, <4>3, <4>4, WrittenPart
    <3>2. CASE Len(C) # Size
      BY <2>9, <3>2
    <3> QED
      BY <3>1, <3>2
  <2>12. Stream' = Append(s, CurrentByte(t))
    <3>1. Stream' = Join(console', Local', C')
      BY DEF Stream, C
    <3> HIDE DEF kept
    <3>2. Join(console', Local', C') = Join(console, <<>>, Append(kept, CurrentByte(t)))
      BY <2>5, <2>6, <2>7
    <3>3. Join(console, <<>>, Append(kept, CurrentByte(t))) = Append(s, CurrentByte(t))
      BY <1>3, <2>4, <2>10, AppendLast, SMTT(30)
    <3> QED
      BY <3>1, <3>2, <3>3
  <2> HIDE DEF s, kept
  <2>13. StreamInv(0, 0)'
    <3>1. 0 \in 0..Len(s) /\ 0 \in Nat
      BY <2>10
    <3> QED
      BY <1>1, <2>1, <2>2, <2>6, <2>10, <2>11, <2>12, <3>1, StreamGrows, Zenon
  <2> QED
    BY <1>4, <2>6, <2>13
<1>12. ASSUME NEW t \in Threads, FlushRead(t)
       PROVE  \E c \in 0..Len(console'), h \in 0..ChunkSize : StreamInv(c, h)'
  <2>1. /\ Ring!Content # <<>> /\ out' = Append(out, Head(Ring!Content))
        /\ Ring!Content' = Tail(Ring!Content)
    BY <1>1, <1>12, RingRead, Zenon DEF FlushRead, TypeOK
  <2>2. UNCHANGED <<console, printed, pc, sent, pos, panicked>>
    BY <1>12 DEF FlushRead, logVars, threadVars
  <2>3. Local' = Append(Local, Head(Ring!Content))
    <3>1. Head(Ring!Content) \in Byte
      BY <1>3, <2>1
    <3> QED
      BY <1>3, <1>4, <2>1, <2>2, <3>1, LocalGrows, Zenon DEF Local
  <2>4. Stream' = Stream
    BY <1>3, <2>1, <2>2, <2>3, MoveHead, SMTT(30) DEF Stream
  <2> QED
    BY <1>4, <1>5, <2>2, <2>4
<1>13. ASSUME NEW t \in Threads, FlushPrint(t)
       PROVE  \E c \in 0..Len(console'), h \in 0..ChunkSize : StreamInv(c, h)'
  <2>1. /\ Len(out) > printed /\ console' = Append(console, out[printed + 1])
        /\ printed' = printed + 1 /\ UNCHANGED <<ringVars, sent, pos, panicked>>
    BY <1>13 DEF FlushPrint
  <2>2. Local # <<>> /\ Head(Local) = out[printed + 1]
    <3>1. Len(Local) \in Nat \ {0} /\ 1 \in 1..Len(out) - printed
      BY <1>3, <1>4, <2>1
    <3>2. Local # <<>> /\ Local[1] = out[printed + 1]
      BY <1>3, <3>1
    <3>3. Head(Local) = Local[1]
      BY <1>3, <3>2, TailBytes
    <3> QED
      BY <3>2, <3>3
  <2>3. Local' = Tail(Local)
    <3>1. printed \in 0..Len(out) - 1
      BY <1>4, <2>1
    <3>2. SubSeq(out, printed + 1 + 1, Len(out)) = Tail(SubSeq(out, printed + 1, Len(out)))
      BY <1>3, <3>1, LocalShrinks, Zenon
    <3>3. out' = out /\ printed' = printed + 1
      BY <2>1 DEF ringVars
    <3> QED
      BY <3>2, <3>3, Zenon DEF Local
  <2>4. Ring!Content' = Ring!Content
    BY <2>1 DEF Ring!Content, Ring!ContentOf, Ring!Wrap, ringVars
  <2>5. Stream' = Stream
    <3>1. Stream' = Join(Append(console, Head(Local)), Tail(Local), Ring!Content)
      BY <2>1, <2>2, <2>3, <2>4, Zenon DEF Stream
    <3> QED
      BY <1>3, <2>2, <3>1, MoveHead, Zenon DEF Stream
  <2>6. Len(console') = Len(console) + 1
    BY <1>3, <2>1
  <2>7. \A u \in Threads : pc'[u] \in {"write", "direct"} => pc[u] \in {"write", "direct"}
    BY <1>1, <1>13 DEF FlushPrint, TypeOK
  <2> QED
    BY <1>4, <1>5, <2>1, <2>5, <2>6, <2>7
<1>14. ASSUME NEW t \in Threads, Panic(t)
       PROVE  \E c \in 0..Len(console'), h \in 0..ChunkSize : StreamInv(c, h)'
  <2>1. /\ panicked = NULL /\ panicked' = t /\ printed' = Len(out)
        /\ UNCHANGED <<ringVars, console, sent, pos>>
        /\ pc' = [pc EXCEPT ![t] = IF running THEN "loop" ELSE "idle"]
    BY <1>14 DEF Panic
  <2>2. Local' = <<>> /\ Ring!Content' = Ring!Content
    <3>1. Local' = SubSeq(out, Len(out) + 1, Len(out))
      BY <2>1 DEF Local, ringVars
    <3> QED
      BY <1>3, <1>4, <2>1, <3>1 DEF Ring!Content, Ring!ContentOf, Ring!Wrap, ringVars
  <2>3. Stream' = Join(console, <<>>, Ring!Content)
    BY <2>1, <2>2 DEF Stream
  <2>4. Whole(Join(console, Local, Ring!Content), 0, 0) /\ Written(Join(console, Local, Ring!Content), sent, pos)
    BY <1>2, <2>1 DEF StreamInv, Stream
  <2>5. Whole(Stream', Len(console), Len(Local))
    BY <1>3, <2>3, <2>4, WholeCut
  <2>6. Written(Stream', sent, pos)
    <3> DEFINE r == Join(console, <<>>, Ring!Content)
               s == Join(console, Local, Ring!Content)
    <3>1. \A p \in DOMAIN r : \E q \in DOMAIN s : r[p] = s[q]
      BY <1>3, CutIsPart, Zenon
    <3>2. Written(s, sent, pos)
      BY <2>4, Zenon
    <3> HIDE DEF r, s
    <3>3. Written(r, sent, pos)
      BY <3>1, <3>2, WrittenPart, Zenon
    <3> QED
      BY <2>3, <3>3, Zenon DEF r
  <2>7. PICK c, h : c = Len(console) /\ h = Len(Local)
    BY Zenon
  <2>9. \A u \in Threads : CanRun(u)' => pc'[u] \notin {"write", "direct"}
    BY <1>1, <2>1 DEF CanRun, Threads, TypeOK
  <2>10. StreamInv(c, h)'
    BY <2>1, <2>5, <2>6, <2>7, <2>9 DEF StreamInv, Threads
  <2>8. Len(Local) \in 0..ChunkSize
    <3>1. Len(out) - printed <= ChunkSize
      BY <1>1 DEF FlushInv
    <3> QED
      BY <1>3, <1>4, <3>1
  <2>11. c \in 0..Len(console') /\ h \in 0..ChunkSize
    BY <1>4, <2>1, <2>7, <2>8
  <2> QED
    BY <2>10, <2>11
<1>15. ASSUME UNCHANGED vars
       PROVE  \E c \in 0..Len(console'), h \in 0..ChunkSize : StreamInv(c, h)'
  <2>1. UNCHANGED <<ringVars, console, printed, sent, pos, panicked, pc>>
    BY <1>15 DEF vars, logVars, threadVars
  <2>2. Stream' = Stream /\ Len(console') >= Len(console)
    BY <1>4, <2>1, StreamStays
  <2> QED
    BY <1>5, <2>1, <2>2
<1> QED
  BY <1>6, <1>7, <1>8, <1>9, <1>10, <1>11, <1>12, <1>13, <1>14, <1>15 DEF Next, Step

(* The invariant of the log holds in every state.                          *)
LEMMA LogInvariant == Spec => []LogInv
<1>1. Init => LogInv
  <2> SUFFICES ASSUME Init
               PROVE  LogInv
    OBVIOUS
  <2> USE SyslogdAssumption
  <2>1. TypeOK /\ Ring!EndFollowsBegin
    <3>1. [from |-> Daemon, n |-> 1, i |-> 1] \in Byte
      BY DEF Byte, Threads
    <3>2. Ring!TypeOK /\ Ring!EndFollowsBegin
      <4>1. buffer \in [0..Size - 1 -> Byte] /\ out \in Seq(Byte)
        BY <3>1 DEF Init
      <4>2. 0 \in 0..Size - 1 /\ 0 \in 0..Size /\ 0 = Ring!Wrap(0 + 0)
        BY DEF Ring!Wrap
      <4> QED
        BY <4>1, <4>2 DEF Init, Ring!TypeOK, Ring!EndFollowsBegin
    <3>3. printed \in 0..Len(out) /\ console \in Seq(Byte)
      BY DEF Init
    <3>4. /\ 0 \in 0..MaxMessages + 1 /\ 0 \in 0..Length
          /\ sent \in [Threads -> 0..MaxMessages + 1] /\ pos \in [Threads -> 0..Length]
      BY DEF Init
    <3> QED
      BY <3>2, <3>3, <3>4 DEF Init, TypeOK
  <2>2. LockInv /\ PanicInv
    <3>1. /\ panicked = NULL /\ NULL \notin Threads /\ 0 <= MaxMessages
          /\ \A t \in Threads : pc[t] \in {"create", "idle"} /\ sent[t] = 0
      <4>1. panicked = NULL /\ NULL \notin Threads
        BY Zenon DEF Init, Threads
      <4>2. \A t \in Threads : sent[t] = 0
        BY DEF Init
      <4>3. \A t \in Threads : pc[t] = IF t = Daemon THEN "create" ELSE "idle"
        BY DEF Init
      <4> QED
        BY <4>1, <4>2, <4>3
    <3>2. LockInv
      BY <3>1 DEF LockInv
    <3>3. PanicInv
      BY <3>1 DEF PanicInv
    <3> QED
      BY <3>2, <3>3
  <2>3. Stream = <<>> /\ Ring!Content = <<>>
    <3>1. Ring!Content \in Seq(Byte) /\ Stream \in Seq(Byte) /\ Len(Ring!Content) = 0 /\ Len(Stream) = 0
      BY <2>1, StreamIsSeq DEF Init
    <3> QED
      BY <3>1
  <2>4. FlushInv
    BY <2>3 DEF Init, FlushInv
  <2>5. StreamInv(0, 0)
    BY <2>3 DEF Init, StreamInv, Whole, Written, EndsWith
  <2> QED
    BY <2>1, <2>2, <2>4, <2>5 DEF Init, LogInv
<1>2. LogInv /\ [Next]_vars => LogInv'
  <2> SUFFICES ASSUME LogInv, [Next]_vars
               PROVE  LogInv'
    OBVIOUS
  <2>1. [Next]_vars
    OBVIOUS
  <2>2. TypeOK' /\ Ring!EndFollowsBegin'
    BY <2>1, LogTypeStep DEF LogInv
  <2>3. Written(console, sent, pos)
    <3>1. \A p \in DOMAIN console : p \in DOMAIN Stream /\ console[p] = Stream[p]
      <4>1. /\ console \in Seq(Byte) /\ Stream \in Seq(Byte) /\ Len(Local) \in Nat /\ count \in Nat
            /\ Len(Stream) = Len(console) + Len(Local) + count
            /\ \A p \in 1..Len(console) : Stream[p] = console[p]
        <5>1. TypeOK
          BY DEF LogInv
        <5> QED
          BY <5>1, StreamIsSeq, LogTypes
      <4> QED
        BY <4>1
    <3> QED
      BY <3>1, WrittenPart DEF LogInv, StreamInv
  <2>4. LockInv' /\ PanicInv'
    BY <2>1, <2>3, LogThreadStep DEF LogInv
  <2>5. FlushInv'
    BY <2>1, <2>2, LogFlushStep DEF LogInv
  <2> QED
    BY <2>1, <2>2, <2>4, <2>5, LogStreamStep DEF LogInv
<1> QED
  BY <1>1, <1>2, PTL DEF Spec

(* Whatever the sizes of messages, ring and local buffer, the number of    *)
(* threads and the moment at which one of them panics: a message stands on *)
(* the console in one piece and in order, and a panic takes at most the    *)
(* local buffer of a flush out of one place.                               *)
THEOREM LogIsWhole == Spec => []MessagesWhole
<1>1. LogInv => MessagesWhole
  <2> SUFFICES ASSUME LogInv
               PROVE  MessagesWhole
    OBVIOUS
  <2>1. PICK cut \in 0..Len(console), hole \in 0..ChunkSize : StreamInv(cut, hole)
    BY DEF LogInv
  <2>2. /\ console \in Seq(Byte) /\ Stream \in Seq(Byte) /\ Len(console) <= Len(Stream)
        /\ \A p \in 1..Len(console) : console[p] = Stream[p]
    BY StreamIsSeq DEF LogInv, TypeOK, Ring!TypeOK
  <2>3. cut \in Nat /\ hole \in Nat
    BY <2>2, SyslogdAssumption
  <2>4. Whole(console, cut, hole)
    BY <2>1, <2>2, <2>3, WholeFront DEF StreamInv
  <2> QED
    BY <2>1, <2>4 DEF MessagesWhole, Whole, StreamInv
<1> QED
  BY <1>1, LogInvariant, PTL
=============================================================================
