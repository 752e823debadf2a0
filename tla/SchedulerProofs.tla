--------------------------- MODULE SchedulerProofs ---------------------------
(***************************************************************************)
(* Proofs about the scheduler, for every number of processes and threads   *)
(* and every length of a time slice: what the operations on lists do to    *)
(* the elements of a list, the inductive invariant, that every step of the *)
(* handlers, of the system calls and of kerneld keeps it, and the theorems *)
(* that follow from it.  SchedulerBlocks goes on with what blocks a thread.*)
(***************************************************************************)
EXTENDS Scheduler, SequenceTheorems, TLAPS

(* Lists without repetitions, and the operations on them.                  *)

(* An element is found where it is.                                        *)
LEMMA PosOfFinds ==
    ASSUME NEW S, NEW s \in Seq(S), NEW e \in ToSet(s)
    PROVE  PosOf(s, e) \in 1..Len(s) /\ s[PosOf(s, e)] = e
BY DEF PosOf, ToSet

(* The successor of an element is in the list ...                          *)
LEMMA NextInList ==
    ASSUME NEW S, NEW s \in Seq(S), NEW e \in ToSet(s)
    PROVE  NextIn(s, e) \in ToSet(s)
BY PosOfFinds DEF NextIn, ToSet

(* ... and another element, when there is another one.                     *)
LEMMA NextInOther ==
    ASSUME NEW S, NEW s \in Seq(S), NEW e \in ToSet(s), NEW f \in ToSet(s),
           IsInjective(s), e # f
    PROVE  NextIn(s, e) # e
<1> DEFINE i == PosOf(s, e)
<1>1. i \in 1..Len(s) /\ s[i] = e
  BY PosOfFinds
<1>2. PICK j \in 1..Len(s) : s[j] = f
  BY DEF ToSet
<1>3. i # j
  BY <1>1, <1>2
<1>4. CASE i < Len(s)
  BY <1>1, <1>4 DEF NextIn, IsInjective
<1>5. CASE i = Len(s)
  BY <1>1, <1>2, <1>3, <1>5 DEF NextIn, IsInjective
<1> QED BY <1>1, <1>4, <1>5

(* The elements of a concatenation are those of its parts.                 *)
LEMMA ConcatElements ==
    ASSUME NEW S, NEW a \in Seq(S), NEW b \in Seq(S)
    PROVE  /\ a \o b \in Seq(S)
           /\ ToSet(a \o b) = ToSet(a) \cup ToSet(b)
           /\ IsInjective(a) /\ IsInjective(b) /\ ToSet(a) \cap ToSet(b) = {}
                => IsInjective(a \o b)
           /\ a # <<>> => Head(a \o b) = Head(a)
<1> DEFINE c == a \o b
           m == Len(a)
           n == Len(b)
<1>1. /\ c \in Seq(S) /\ Len(c) = m + n /\ m \in Nat /\ n \in Nat
      /\ DOMAIN c = 1..m + n /\ DOMAIN a = 1..m /\ DOMAIN b = 1..n
  BY ConcatProperties, LenProperties
<1>2. \A i \in 1..m : c[i] = a[i]
  BY ConcatProperties
<1>3. \A i \in 1..n : c[i + m] = b[i]
  <2> TAKE i \in 1..n
  <2>1. i + m \in 1..m + n /\ ~ (i + m <= m) /\ (i + m) - m = i
    BY <1>1
  <2>2. c[i + m] = IF i + m <= m THEN a[i + m] ELSE b[(i + m) - m]
    BY <2>1, ConcatProperties
  <2> QED BY <2>1, <2>2
<1>4. \A i \in (1..m + n) \ (1..m) : i - m \in 1..n /\ (i - m) + m = i
  BY <1>1
<1> HIDE DEF c, m, n
<1>5. \A i \in (1..m + n) \ (1..m) : c[i] = b[i - m]
  BY <1>3, <1>4
<1>6. ToSet(c) = ToSet(a) \cup ToSet(b)
  <2>1. ASSUME NEW x \in ToSet(c) PROVE x \in ToSet(a) \cup ToSet(b)
    <3>1. PICK i \in 1..m + n : c[i] = x
      BY <1>1 DEF ToSet
    <3>2. CASE i \in 1..m
      BY <1>1, <1>2, <3>1, <3>2 DEF ToSet
    <3>3. CASE i \notin 1..m
      BY <1>1, <1>4, <1>5, <3>1, <3>3 DEF ToSet
    <3> QED BY <3>2, <3>3
  <2>2. ASSUME NEW x \in ToSet(a) PROVE x \in ToSet(c)
    <3>1. PICK i \in 1..m : a[i] = x
      BY <1>1 DEF ToSet
    <3>2. i \in 1..m + n
      BY <1>1
    <3> QED BY <1>1, <1>2, <3>1, <3>2 DEF ToSet
  <2>3. ASSUME NEW x \in ToSet(b) PROVE x \in ToSet(c)
    <3>1. PICK i \in 1..n : b[i] = x
      BY <1>1 DEF ToSet
    <3>2. i + m \in 1..m + n
      BY <1>1
    <3> QED BY <1>1, <1>3, <3>1, <3>2 DEF ToSet
  <2> QED BY <2>1, <2>2, <2>3
<1>7. ASSUME IsInjective(a), IsInjective(b), ToSet(a) \cap ToSet(b) = {}
      PROVE  IsInjective(c)
  <2> SUFFICES ASSUME NEW i \in 1..m + n, NEW j \in 1..m + n, c[i] = c[j]
               PROVE  i = j
    BY <1>1 DEF IsInjective
  <2>1. CASE i \in 1..m /\ j \in 1..m
    BY <1>1, <1>2, <1>7, <2>1 DEF IsInjective
  <2>2. CASE i \in 1..m /\ j \notin 1..m
    <3>1. c[i] \in ToSet(a)
      BY <1>1, <1>2, <2>2 DEF ToSet
    <3>2. c[j] \in ToSet(b)
      BY <1>1, <1>4, <1>5, <2>2 DEF ToSet
    <3> QED BY <1>7, <3>1, <3>2
  <2>3. CASE i \notin 1..m /\ j \in 1..m
    <3>1. c[j] \in ToSet(a)
      BY <1>1, <1>2, <2>3 DEF ToSet
    <3>2. c[i] \in ToSet(b)
      BY <1>1, <1>4, <1>5, <2>3 DEF ToSet
    <3> QED BY <1>7, <3>1, <3>2
  <2>4. CASE i \notin 1..m /\ j \notin 1..m
    <3>1. i - m \in 1..n /\ j - m \in 1..n /\ b[i - m] = b[j - m]
      BY <1>4, <1>5, <2>4
    <3>2. i - m = j - m
      BY <1>1, <1>7, <3>1 DEF IsInjective
    <3> QED BY <1>1, <3>2
  <2> QED BY <2>1, <2>2, <2>3, <2>4
<1>8. ASSUME a # <<>> PROVE Head(c) = Head(a)
  <2>1. 1 \in 1..m /\ c # <<>>
    BY <1>1, <1>8, EmptySeq DEF m
  <2>2. Head(c) = c[1] /\ Head(a) = a[1]
    BY <1>1, <1>8, <2>1
  <2> QED BY <1>2, <2>1, <2>2
<1> QED BY <1>1, <1>6, <1>7, <1>8 DEF c

(* The elements of a part of a list.                                       *)
LEMMA SubSeqElements ==
    ASSUME NEW S, NEW s \in Seq(S), NEW m \in 1..Len(s) + 1, NEW n \in 0..Len(s)
    PROVE  /\ SubSeq(s, m, n) \in Seq(S)
           /\ ToSet(SubSeq(s, m, n)) = {s[i] : i \in m..n}
           /\ IsInjective(s) => IsInjective(SubSeq(s, m, n))
           /\ m = 1 /\ n > 0 => SubSeq(s, m, n) # <<>> /\ Head(SubSeq(s, m, n)) = Head(s)
<1> DEFINE t == SubSeq(s, m, n)
           l == IF m <= n THEN n - m + 1 ELSE 0
<1>1. /\ m \in Int /\ n \in Int /\ Len(s) \in Nat /\ DOMAIN s = 1..Len(s)
      /\ \A i \in m..n : i \in 1..Len(s) /\ s[i] \in S
  OBVIOUS
<1>2. /\ t \in Seq(S) /\ Len(t) = l
      /\ \A i \in 1..n - m + 1 : t[i] = s[m + i - 1]
  BY <1>1, SubSeqProperties
<1>3. DOMAIN t = 1..n - m + 1
  BY <1>1, <1>2, LenProperties
<1> HIDE DEF t
<1>4. \A i \in 1..n - m + 1 : m + i - 1 \in m..n
  BY <1>1
<1>5. \A i \in m..n : i - m + 1 \in 1..n - m + 1 /\ m + (i - m + 1) - 1 = i
  BY <1>1
<1>6. ToSet(t) = {s[i] : i \in m..n}
  <2>1. ASSUME NEW x \in ToSet(t) PROVE x \in {s[i] : i \in m..n}
    BY <1>2, <1>3, <1>4 DEF ToSet
  <2>2. ASSUME NEW i \in m..n PROVE s[i] \in ToSet(t)
    <3>1. t[i - m + 1] = s[i]
      BY <1>2, <1>5
    <3> QED BY <1>3, <1>5, <3>1 DEF ToSet
  <2> QED BY <2>1, <2>2
<1>7. ASSUME IsInjective(s) PROVE IsInjective(t)
  <2> SUFFICES ASSUME NEW i \in 1..n - m + 1, NEW j \in 1..n - m + 1, t[i] = t[j]
               PROVE  i = j
    BY <1>3 DEF IsInjective
  <2>1. m + i - 1 \in 1..Len(s) /\ m + j - 1 \in 1..Len(s)
    BY <1>1, <1>4
  <2>2. s[m + i - 1] = s[m + j - 1]
    BY <1>2
  <2>3. m + i - 1 = m + j - 1
    BY <1>1, <1>7, <2>1, <2>2 DEF IsInjective
  <2> QED BY <1>1, <2>3
<1>8. ASSUME m = 1, n > 0 PROVE t # <<>> /\ Head(t) = Head(s)
  <2>1. Len(t) > 0 /\ 1 \in 1..n - m + 1
    BY <1>1, <1>2, <1>8
  <2>2. t[1] = s[1]
    BY <1>1, <1>2, <1>8, <2>1
  <2>3. t # <<>> /\ s # <<>>
    BY <1>1, <1>8, <2>1
  <2> QED BY <1>2, <2>2, <2>3
<1> QED BY <1>2, <1>6, <1>7, <1>8 DEF t

(* Unlinking takes one element away, and leaves the head where it was      *)
(* unless it is the one.                                                   *)
LEMMA UnlinkElements ==
    ASSUME NEW S, NEW s \in Seq(S), NEW e \in ToSet(s), IsInjective(s)
    PROVE  /\ Unlink(s, e) \in Seq(S)
           /\ ToSet(Unlink(s, e)) = ToSet(s) \ {e}
           /\ IsInjective(Unlink(s, e))
           /\ e # Head(s) => Head(Unlink(s, e)) = Head(s)
<1> DEFINE k == PosOf(s, e)
           a == SubSeq(s, 1, k - 1)
           b == SubSeq(s, k + 1, Len(s))
<1>1. /\ k \in 1..Len(s) /\ s[k] = e /\ Len(s) \in Nat
      /\ DOMAIN s = 1..Len(s)
  BY PosOfFinds
<1>2. 1 \in 1..Len(s) + 1 /\ k - 1 \in 0..Len(s) /\ k + 1 \in 1..Len(s) + 1 /\ Len(s) \in 0..Len(s)
  BY <1>1
<1>3. /\ a \in Seq(S) /\ ToSet(a) = {s[i] : i \in 1..k - 1} /\ IsInjective(a)
      /\ k - 1 > 0 => a # <<>> /\ Head(a) = Head(s)
  BY <1>2, SubSeqElements
<1>4. /\ b \in Seq(S) /\ ToSet(b) = {s[i] : i \in k + 1..Len(s)} /\ IsInjective(b)
  BY <1>2, SubSeqElements
<1>5. Unlink(s, e) = a \o b
  BY DEF Unlink, RemoveAt
<1> HIDE DEF a, b, k
<1>6. ToSet(a) \cup ToSet(b) = ToSet(s) \ {e}
  <2>1. ASSUME NEW x \in ToSet(s), x # e PROVE x \in ToSet(a) \cup ToSet(b)
    <3>1. PICK i \in 1..Len(s) : s[i] = x
      BY <1>1 DEF ToSet
    <3>2. i \in 1..k - 1 \/ i \in k + 1..Len(s)
      BY <1>1, <2>1, <3>1
    <3> QED BY <1>3, <1>4, <3>1, <3>2
  <2>2. ASSUME NEW i \in (1..k - 1) \cup (k + 1..Len(s)) PROVE s[i] \in ToSet(s) \ {e}
    <3>1. i \in 1..Len(s) /\ i # k
      BY <1>1
    <3> QED BY <1>1, <3>1 DEF ToSet, IsInjective
  <2> QED BY <1>3, <1>4, <2>1, <2>2
<1>7. ToSet(a) \cap ToSet(b) = {}
  <2> SUFFICES ASSUME NEW i \in 1..k - 1, NEW j \in k + 1..Len(s), s[i] = s[j]
               PROVE  FALSE
    BY <1>3, <1>4
  <2>1. i \in 1..Len(s) /\ j \in 1..Len(s) /\ i # j
    BY <1>1
  <2> QED BY <1>1, <2>1 DEF IsInjective
<1>8. ASSUME e # Head(s) PROVE Head(a \o b) = Head(s)
  <2>1. k # 1
    BY <1>1, <1>8
  <2>2. k - 1 > 0
    BY <1>1, <2>1
  <2> QED BY <1>3, <1>4, <2>2, ConcatElements
<1>9. /\ a \o b \in Seq(S) /\ ToSet(a \o b) = ToSet(a) \cup ToSet(b)
      /\ IsInjective(a \o b)
  <2>1. a \in Seq(S) /\ b \in Seq(S) /\ IsInjective(a) /\ IsInjective(b)
    BY <1>3, <1>4
  <2>2. a \o b \in Seq(S) /\ ToSet(a \o b) = ToSet(a) \cup ToSet(b)
    BY <2>1, ConcatElements
  <2>3. IsInjective(a \o b)
    BY <1>7, <2>1, ConcatElements
  <2> QED BY <2>2, <2>3
<1> QED BY <1>5, <1>6, <1>8, <1>9

(* Inserting adds one element, and leaves the head where it was unless it  *)
(* is inserted before it.                                                  *)
LEMMA InsertAtElements ==
    ASSUME NEW S, NEW s \in Seq(S), NEW k \in 1..Len(s) + 1, NEW e \in S
    PROVE  /\ InsertAt(s, k, e) \in Seq(S)
           /\ ToSet(InsertAt(s, k, e)) = ToSet(s) \cup {e}
           /\ IsInjective(s) /\ e \notin ToSet(s) => IsInjective(InsertAt(s, k, e))
           /\ k > 1 => InsertAt(s, k, e) # <<>> /\ Head(InsertAt(s, k, e)) = Head(s)
<1> DEFINE a == SubSeq(s, 1, k - 1)
           b == SubSeq(s, k, Len(s))
           x == <<e>>
<1>1. Len(s) \in Nat /\ DOMAIN s = 1..Len(s)
  OBVIOUS
<1>2. 1 \in 1..Len(s) + 1 /\ k - 1 \in 0..Len(s) /\ Len(s) \in 0..Len(s)
  BY <1>1
<1>3. /\ a \in Seq(S) /\ ToSet(a) = {s[i] : i \in 1..k - 1}
      /\ IsInjective(s) => IsInjective(a)
      /\ k - 1 > 0 => a # <<>> /\ Head(a) = Head(s)
  BY <1>2, SubSeqElements
<1>4. /\ b \in Seq(S) /\ ToSet(b) = {s[i] : i \in k..Len(s)}
      /\ IsInjective(s) => IsInjective(b)
  BY <1>2, SubSeqElements
<1>5. x \in Seq(S) /\ ToSet(x) = {e} /\ IsInjective(x)
  BY DEF ToSet, IsInjective
<1>6. InsertAt(s, k, e) = (a \o x) \o b
  BY DEF InsertAt
<1> HIDE DEF a, b, x
<1>7. /\ a \o x \in Seq(S) /\ ToSet(a \o x) = ToSet(a) \cup {e}
      /\ IsInjective(a) /\ ToSet(a) \cap {e} = {} => IsInjective(a \o x)
      /\ a # <<>> => Head(a \o x) = Head(a)
  BY <1>3, <1>5, ConcatElements
<1>8. /\ (a \o x) \o b \in Seq(S)
      /\ ToSet((a \o x) \o b) = ToSet(a \o x) \cup ToSet(b)
      /\ IsInjective(a \o x) /\ IsInjective(b) /\ ToSet(a \o x) \cap ToSet(b) = {}
           => IsInjective((a \o x) \o b)
      /\ a \o x # <<>> => Head((a \o x) \o b) = Head(a \o x)
  BY <1>4, <1>7, ConcatElements
<1>9. ToSet(a) \cup ToSet(b) = ToSet(s)
  <2>1. ASSUME NEW y \in ToSet(s) PROVE y \in ToSet(a) \cup ToSet(b)
    <3>1. PICK i \in 1..Len(s) : s[i] = y
      BY <1>1 DEF ToSet
    <3>2. i \in 1..k - 1 \/ i \in k..Len(s)
      BY <1>1
    <3> QED BY <1>3, <1>4, <3>1, <3>2
  <2>2. ASSUME NEW i \in (1..k - 1) \cup (k..Len(s)) PROVE s[i] \in ToSet(s)
    <3>1. i \in 1..Len(s)
      BY <1>1
    <3> QED BY <1>1, <3>1 DEF ToSet
  <2> QED BY <1>3, <1>4, <2>1, <2>2
<1>10. ASSUME IsInjective(s) PROVE ToSet(a) \cap ToSet(b) = {}
  <2> SUFFICES ASSUME NEW i \in 1..k - 1, NEW j \in k..Len(s), s[i] = s[j]
               PROVE  FALSE
    BY <1>3, <1>4
  <2>1. i \in 1..Len(s) /\ j \in 1..Len(s) /\ i # j
    BY <1>1
  <2> QED BY <1>1, <1>10, <2>1 DEF IsInjective
<1>11. ASSUME IsInjective(s), e \notin ToSet(s) PROVE IsInjective((a \o x) \o b)
  BY <1>3, <1>4, <1>7, <1>8, <1>9, <1>10, <1>11
<1>12. ASSUME k > 1
       PROVE  (a \o x) \o b # <<>> /\ Head((a \o x) \o b) = Head(s)
  <2>1. a # <<>> /\ Head(a) = Head(s)
    BY <1>2, <1>3, <1>12
  <2>2. e \in ToSet(a \o x) /\ e \in ToSet((a \o x) \o b)
    BY <1>7, <1>8
  <2>3. ToSet(<<>>) = {}
    BY DEF ToSet
  <2>4. a \o x # <<>> /\ (a \o x) \o b # <<>>
    BY <2>2, <2>3
  <2> QED BY <1>7, <1>8, <2>1, <2>4
<1> QED BY <1>6, <1>7, <1>8, <1>9, <1>11, <1>12

(* Prepending adds one element.                                            *)
LEMMA ConsElements ==
    ASSUME NEW S, NEW s \in Seq(S), NEW e \in S
    PROVE  /\ Cons(e, s) \in Seq(S)
           /\ ToSet(Cons(e, s)) = ToSet(s) \cup {e}
           /\ IsInjective(s) /\ e \notin ToSet(s) => IsInjective(Cons(e, s))
<1>1. <<e>> \in Seq(S) /\ ToSet(<<e>>) = {e} /\ IsInjective(<<e>>)
  BY DEF ToSet, IsInjective
<1>2. /\ <<e>> \o s \in Seq(S) /\ ToSet(<<e>> \o s) = ToSet(<<e>>) \cup ToSet(s)
      /\ IsInjective(s) /\ ToSet(<<e>>) \cap ToSet(s) = {} => IsInjective(<<e>> \o s)
  <2> DEFINE a == <<e>>
  <2>1. a \in Seq(S) /\ IsInjective(a)
    BY <1>1
  <2> HIDE DEF a
  <2>2. a \o s \in Seq(S) /\ ToSet(a \o s) = ToSet(a) \cup ToSet(s)
    BY <2>1, ConcatElements
  <2>3. IsInjective(s) /\ ToSet(a) \cap ToSet(s) = {} => IsInjective(a \o s)
    BY <2>1, ConcatElements
  <2> QED BY <2>2, <2>3 DEF a
<1> QED BY <1>1, <1>2 DEF Cons

(* Taking the head away.                                                   *)
LEMMA TailElements ==
    ASSUME NEW S, NEW s \in Seq(S), s # <<>>
    PROVE  /\ Head(s) \in ToSet(s) /\ Head(s) \in S
           /\ Tail(s) \in Seq(S)
           /\ IsInjective(s) =>
                IsInjective(Tail(s)) /\ ToSet(Tail(s)) = ToSet(s) \ {Head(s)}
<1>1. /\ Len(s) \in Nat /\ Len(s) > 0 /\ DOMAIN s = 1..Len(s) /\ Head(s) = s[1]
      /\ Tail(s) = SubSeq(s, 2, Len(s)) /\ 2 \in 1..Len(s) + 1 /\ Len(s) \in 0..Len(s)
  BY EmptySeq, TailIsSubSeq
<1>2. Head(s) \in ToSet(s) /\ Head(s) \in S
  BY <1>1 DEF ToSet
<1>3. /\ Tail(s) \in Seq(S) /\ ToSet(Tail(s)) = {s[i] : i \in 2..Len(s)}
      /\ IsInjective(s) => IsInjective(Tail(s))
  <2>1. /\ SubSeq(s, 2, Len(s)) \in Seq(S)
        /\ ToSet(SubSeq(s, 2, Len(s))) = {s[i] : i \in 2..Len(s)}
        /\ IsInjective(s) => IsInjective(SubSeq(s, 2, Len(s)))
    BY <1>1, SubSeqElements
  <2> QED BY <1>1, <2>1
<1>4. ASSUME IsInjective(s) PROVE {s[i] : i \in 2..Len(s)} = ToSet(s) \ {Head(s)}
  <2>1. ASSUME NEW i \in 2..Len(s) PROVE s[i] \in ToSet(s) \ {Head(s)}
    <3>1. i \in 1..Len(s) /\ 1 \in 1..Len(s) /\ i # 1
      BY <1>1
    <3> QED BY <1>1, <1>4, <3>1 DEF ToSet, IsInjective
  <2>2. ASSUME NEW x \in ToSet(s), x # Head(s) PROVE x \in {s[i] : i \in 2..Len(s)}
    <3>1. PICK i \in 1..Len(s) : s[i] = x
      BY <1>1 DEF ToSet
    <3>2. i \in 2..Len(s)
      BY <1>1, <2>2, <3>1
    <3> QED BY <3>1, <3>2
  <2> QED BY <2>1, <2>2
<1> QED BY <1>2, <1>3, <1>4

(* The empty list and the list of one element.                             *)
LEMMA SmallLists ==
    ASSUME NEW S
    PROVE  /\ <<>> \in Seq(S) /\ ToSet(<<>>) = {} /\ IsInjective(<<>>)
           /\ \A e \in S : /\ <<e>> \in Seq(S) /\ <<e>> # <<>> /\ Head(<<e>>) = e
                           /\ ToSet(<<e>>) = {e} /\ IsInjective(<<e>>)
           /\ \A s \in Seq(S) : s = <<>> <=> ToSet(s) = {}
<1>1. <<>> \in Seq(S) /\ ToSet(<<>>) = {} /\ IsInjective(<<>>)
  BY DEF ToSet, IsInjective
<1>2. \A e \in S : /\ <<e>> \in Seq(S) /\ <<e>> # <<>> /\ Head(<<e>>) = e
                   /\ ToSet(<<e>>) = {e} /\ IsInjective(<<e>>)
  BY DEF ToSet, IsInjective
<1>3. ASSUME NEW s \in Seq(S), s # <<>> PROVE ToSet(s) # {}
  BY <1>3, TailElements
<1> QED BY <1>1, <1>2, <1>3

-----------------------------------------------------------------------------
(* The inductive invariant.                                                *)

(* Where kerneld holds _sd_lock *)
Critical == {"insert", "takeProcesses", "takeThreads"}

(* The three lists of processes have no element twice, none in common, and *)
(* together hold what is in use.                                           *)
ProcessLists ==
    /\ IsInjective(procs) /\ IsInjective(deadProcs) /\ IsInjective(kprocs)
    /\ ToSet(procs) \cap ToSet(deadProcs) = {}
    /\ ToSet(procs) \cap ToSet(kprocs) = {}
    /\ ToSet(deadProcs) \cap ToSet(kprocs) = {}
    /\ ToSet(procs) \cup ToSet(deadProcs) \cup ToSet(kprocs)
         = (created \cap Process) \ freed

(* The same of the lists of threads. *)
ThreadLists ==
    /\ IsInjective(deadThreads) /\ IsInjective(kthreads)
    /\ ToSet(deadThreads) \cap ToSet(kthreads) = {}
    /\ \A p \in Process :
         /\ IsInjective(threads[p])
         /\ ToSet(threads[p]) \cap ToSet(deadThreads) = {}
         /\ ToSet(threads[p]) \cap ToSet(kthreads) = {}
         /\ \A q \in Process \ {p} : ToSet(threads[p]) \cap ToSet(threads[q]) = {}
    /\ \A t \in Thread :
         t \in created \ freed <=> \/ t \in ToSet(deadThreads) \cup ToSet(kthreads)
                                   \/ \E p \in Process : t \in ToSet(threads[p])

(* The run list: kerneld's process never leaves it, every process in it    *)
(* has a thread to schedule, and only what runs can have died, until       *)
(* sd_schedule() has taken it off.                                         *)
RunList ==
    /\ freed \subseteq created
    /\ KProc \in ToSet(procs) /\ current \in ToSet(procs)
    /\ \A p \in ToSet(procs) : threads[p] # <<>> /\ scheduled[p] \in ToSet(threads[p])
    /\ Head(threads[KProc]) = Kerneld /\ ~pdied[KProc] /\ ~tdied[Kerneld]
    /\ \A p \in Process \ created : threads[p] = <<>> /\ ~pdied[p]
    /\ \A t \in Thread \ created : ~tdied[t]
    /\ \A p \in ToSet(procs) : pdied[p] => p = current /\ phase = "enter"
    /\ \A p \in ToSet(procs) : \A t \in ToSet(threads[p]) :
          tdied[t] => t = CurrentThread /\ phase = "enter"

(* Only the current thread has used ticks of its slice. *)
Ticks ==
    /\ \A p \in ToSet(procs) : \A t \in ToSet(threads[p]) \ {CurrentThread} : usedTicks[t] = 0
    /\ \A t \in Thread \ created : usedTicks[t] = 0
    /\ phase \in {"run", "return"} => usedTicks[CurrentThread] < WantedTicks
    /\ phase = "enter" => usedTicks[CurrentThread] <= WantedTicks

(* Who holds _sd_lock: sd_schedule() itself, or kerneld in its critical    *)
(* sections, which sd_schedule() then does not take the CPU from.          *)
Locking ==
    /\ phase \in {"enter", "loop"} => lock
    /\ phase \in {"run", "return"} /\ lock => kpc \in Critical
    /\ kpc \in Critical => /\ lock /\ phase \in {"run", "return"}
                           /\ current = KProc /\ CurrentThread = Kerneld

(* What kerneld has in its hands. *)
Collecting ==
    /\ kprocs # <<>> => kpc = "destroyProcesses"
    /\ kthreads # <<>> => kpc = "destroyThreads"
    /\ kvictim # NULL => KdVictims # <<>> /\ kvictim = Head(KdVictims)

(* The inductive invariant. *)
SchedInv ==
    /\ TypeOK /\ ProcessLists /\ ThreadLists /\ RunList /\ Ticks
    /\ Locking /\ Collecting

-----------------------------------------------------------------------------
(* The elements of a list are of its type. *)
LEMMA ElementsOf ==
    ASSUME NEW S, NEW s \in Seq(S)
    PROVE  ToSet(s) \subseteq S
BY DEF ToSet

(* The current thread is a thread of the current process, and it is        *)
(* kerneld only in kerneld's process.                                      *)
LEMMA CurrentIsListed ==
    ASSUME SchedInv
    PROVE  /\ current \in Process /\ current \in ToSet(procs)
           /\ CurrentThread \in Thread /\ CurrentThread \in ToSet(threads[current])
           /\ KProc \in Process /\ Kerneld \in Thread
           /\ Kerneld \in ToSet(threads[KProc])
           /\ CurrentThread = Kerneld => current = KProc
<1> USE SchedulerAssumption
<1>1. current \in Process /\ current \in ToSet(procs) /\ KProc \in ToSet(procs)
  BY DEF SchedInv, TypeOK, RunList
<1>2. CurrentThread \in ToSet(threads[current])
  BY <1>1 DEF SchedInv, RunList, CurrentThread
<1>3. \A p \in Process : threads[p] \in Seq(Thread) /\ ToSet(threads[p]) \subseteq Thread
  BY ElementsOf DEF SchedInv, TypeOK
<1>4. Kerneld \in ToSet(threads[KProc])
  <2>1. threads[KProc] # <<>> /\ Head(threads[KProc]) = Kerneld
    BY <1>1 DEF SchedInv, RunList
  <2> QED BY <1>3, <2>1, TailElements
<1>5. CurrentThread = Kerneld => current = KProc
  BY <1>1, <1>2, <1>4 DEF SchedInv, ThreadLists
<1> QED BY <1>1, <1>2, <1>3, <1>4, <1>5

(* While code other than kerneld's runs, _sd_lock is free.                 *)
LEMMA LockIsFree ==
    ASSUME SchedInv, phase = "run", current # KProc \/ CurrentThread # Kerneld
    PROVE  lock = FALSE /\ kpc \notin Critical
BY DEF SchedInv, Locking, TypeOK

(* Only the states of the lists matter to the invariants about them.       *)
LEMMA ProcessListsKept ==
    ASSUME ProcessLists, UNCHANGED <<procs, deadProcs, kprocs, created, freed>>
    PROVE  ProcessLists'
BY DEF ProcessLists

(* The lists of threads are as they were if nothing of them changes.       *)
LEMMA ThreadListsKept ==
    ASSUME ThreadLists, UNCHANGED <<threads, deadThreads, kthreads, created, freed>>
    PROVE  ThreadLists'
BY DEF ThreadLists

(* So is what kerneld has in its hands.                                    *)
LEMMA CollectingKept ==
    ASSUME Collecting, UNCHANGED <<threads, kpc, kprocs, kthreads, kvictim>>
    PROVE  Collecting'
BY DEF Collecting, KdVictims

(* Counting in an uint8_t stays in it.                                     *)
LEMMA CountDown ==
    ASSUME NEW f \in [Thread -> 0..255], NEW t \in Thread \cup {NULL}
    PROVE  (IF t = NULL THEN f ELSE [f EXCEPT ![t] = UInt8(@ - 1)]) \in [Thread -> 0..255]
<1>1. \A n \in 0..255 : UInt8(n - 1) \in 0..255
  BY DEF UInt8
<1> QED BY Zenon, <1>1

-----------------------------------------------------------------------------
(* The steps of the interrupt handlers.                                    *)

(* The invariant holds when the kernel starts.                             *)
LEMMA InitInv == Init => SchedInv
<1> SUFFICES ASSUME Init PROVE SchedInv
  OBVIOUS
<1> USE SchedulerAssumption
<1>1. /\ ToSet(<<KProc>>) = {KProc} /\ ToSet(<<Kerneld>>) = {Kerneld}
      /\ <<KProc>> \in Seq(Process) /\ <<Kerneld>> \in Seq(Thread)
      /\ IsInjective(<<KProc>>) /\ IsInjective(<<Kerneld>>)
      /\ <<Kerneld>> # <<>> /\ Head(<<Kerneld>>) = Kerneld
  BY Zenon, SmallLists
<1>2. ToSet(<<>>) = {} /\ IsInjective(<<>>)
  BY SmallLists
<1>3. TypeOK
  BY <1>1 DEF Init, TypeOK, KpcValues
<1>4. ProcessLists
  BY <1>1, <1>2 DEF Init, ProcessLists
<1>5. ThreadLists
  <2>1. \A p \in Process : /\ IsInjective(threads[p])
                           /\ ToSet(threads[p]) = IF p = KProc THEN {Kerneld} ELSE {}
    BY Zenon, <1>1, <1>2 DEF Init
  <2>2. deadThreads = <<>> /\ kthreads = <<>> /\ created = {KProc, Kerneld} /\ freed = {}
    BY DEF Init
  <2> QED BY <1>2, <2>1, <2>2 DEF ThreadLists
<1>6. RunList
  BY <1>1 DEF Init, RunList
<1>7. Ticks
  <2>1. \A t \in Thread : usedTicks[t] = 0
    BY DEF Init
  <2>2. procs = <<KProc>> /\ threads[KProc] = <<Kerneld>> /\ CurrentThread = Kerneld /\ phase = "run"
    BY DEF Init, CurrentThread
  <2>3. 0 < WantedTicks
    OBVIOUS
  <2>4. \A p \in ToSet(procs) : \A t \in ToSet(threads[p]) : t = Kerneld
    BY <1>1, <2>2
  <2> QED BY <2>1, <2>2, <2>3, <2>4 DEF Ticks
<1>8. Locking
  BY DEF Init, Locking, Critical
<1>9. Collecting
  BY DEF Init, Collecting
<1> QED BY <1>3, <1>4, <1>5, <1>6, <1>7, <1>8, <1>9 DEF SchedInv

(* sd_schedule() has found the thread that runs next.                      *)
LEMMA SdPickStep ==
    ASSUME SchedInv, SdPick
    PROVE  SchedInv'
<1>1. /\ UNCHANGED <<procVars, deadVars, threadVars, memVars, current, resume, kVars>>
      /\ phase = "loop" /\ phase' = "return" /\ lock' = FALSE
      /\ ~MustSkip(CurrentThread)
  BY DEF SdPick, SdUnlock
<1> USE DEF procVars, deadVars, threadVars, blockVars, memVars, kVars, CurrentThread
<1>2. TypeOK'
  BY Zenon, <1>1 DEF SchedInv, TypeOK
<1>3. ProcessLists' /\ ThreadLists' /\ Collecting'
  BY <1>1, ProcessListsKept, ThreadListsKept, CollectingKept DEF SchedInv
<1>4. RunList'
  BY <1>1 DEF SchedInv, RunList
<1>5. Ticks'
  <2>1. usedTicks[CurrentThread] < WantedTicks
    <3>1. CurrentThread \in Thread /\ usedTicks \in [Thread -> 0..WantedTicks + 1]
      BY CurrentIsListed DEF SchedInv, TypeOK
    <3>2. ~(usedTicks[CurrentThread] >= WantedTicks)
      BY <1>1 DEF MustSkip
    <3> QED BY <3>1, <3>2, SchedulerAssumption
  <2> QED BY <1>1, <2>1 DEF SchedInv, Ticks
<1>6. Locking'
  BY <1>1 DEF SchedInv, Locking
<1> QED BY <1>2, <1>3, <1>4, <1>5, <1>6 DEF SchedInv

(* The handler returns.                                                    *)
LEMMA SdReturnStep ==
    ASSUME SchedInv, SdReturn
    PROVE  SchedInv'
<1>1. /\ UNCHANGED <<procVars, deadVars, tdied, usedTicks, sleepVars, listener,
                     memVars, current, lock, kVars>>
      /\ phase = "return" /\ phase' = "run" /\ resume' = NULL
      /\ blocks' = IF resume = NULL THEN blocks
                   ELSE [blocks EXCEPT ![resume] = UInt8(@ - 1)]
  BY DEF SdReturn
<1> USE DEF procVars, deadVars, sleepVars, memVars, kVars, CurrentThread
<1>2. TypeOK'
  <2>1. blocks' \in [Thread -> 0..255]
    BY Zenon, <1>1, CountDown DEF SchedInv, TypeOK
  <2> QED BY <1>1, <2>1 DEF SchedInv, TypeOK
<1>3. ProcessLists' /\ ThreadLists' /\ Collecting'
  BY <1>1, ProcessListsKept, ThreadListsKept, CollectingKept DEF SchedInv
<1>4. RunList'
  BY <1>1 DEF SchedInv, RunList
<1>5. Ticks'
  BY <1>1 DEF SchedInv, Ticks
<1>6. Locking'
  BY <1>1 DEF SchedInv, Locking
<1> QED BY <1>2, <1>3, <1>4, <1>5, <1>6 DEF SchedInv

(* Whoever calls sd_schedule() leaves the lists alone; it may have died,   *)
(* or given up the rest of its slice, unless it is kerneld in a critical   *)
(* section.                                                                *)
LEMMA SdCallStep ==
    ASSUME SchedInv, TypeOK', phase = "run", SdCall,
           UNCHANGED <<procs, threads, scheduled, deadVars, memVars>>,
           UNCHANGED <<kprocs, kthreads, kvictim>>,
           \/ kpc' = kpc
           \/ kpc = "halt" /\ kpc' = "collectProcesses"
           \/ kpc = "start" /\ kpc' = "boot",
           \/ usedTicks' = usedTicks
           \/ ~lock /\ usedTicks' = [usedTicks EXCEPT ![CurrentThread] = WantedTicks],
           \/ pdied' = pdied
           \/ ~lock /\ current # KProc /\ pdied' = [pdied EXCEPT ![current] = TRUE],
           \/ tdied' = tdied
           \/ ~lock /\ CurrentThread # Kerneld /\ tdied' = [tdied EXCEPT ![CurrentThread] = TRUE]
    PROVE  SchedInv'
<1> USE DEF deadVars, memVars
<1>1. /\ current' = current /\ CurrentThread' = CurrentThread /\ lock' = TRUE
      /\ phase' = IF lock THEN "return" ELSE "enter"
      /\ lock \in BOOLEAN
  BY DEF SdCall, CurrentThread, SchedInv, TypeOK
<1>2. /\ current \in Process /\ CurrentThread \in Thread
      /\ CurrentThread \in ToSet(threads[current]) /\ current \in ToSet(procs)
      /\ CurrentThread # Kerneld \/ current = KProc
  BY CurrentIsListed
<1>3. /\ pdied \in [Process -> BOOLEAN] /\ tdied \in [Thread -> BOOLEAN]
      /\ usedTicks \in [Thread -> 0..WantedTicks + 1]
      /\ ToSet(procs) \subseteq Process
      /\ \A p \in Process : ToSet(threads[p]) \subseteq Thread
      /\ current \in created /\ CurrentThread \in created
  <2>1. procs \in Seq(Process) /\ \A p \in Process : threads[p] \in Seq(Thread)
    BY DEF SchedInv, TypeOK
  <2>2. current \in created /\ CurrentThread \in created
    BY <1>2 DEF SchedInv, ProcessLists, ThreadLists
  <2> QED BY Zenon, <2>1, <2>2, ElementsOf DEF SchedInv, TypeOK
<1>4. ProcessLists' /\ ThreadLists'
  BY ProcessListsKept, ThreadListsKept DEF SchedInv
<1>5. Collecting'
  <2>1. CASE kpc' = kpc
    BY <2>1, CollectingKept DEF SchedInv
  <2>2. CASE kpc # kpc'
    <3>1. /\ kprocs = <<>> /\ kthreads = <<>> /\ kvictim = NULL
      BY <2>2 DEF SchedInv, Collecting, KdVictims
    <3> QED BY <3>1 DEF Collecting
  <2> QED BY <2>1, <2>2
<1>6. RunList'
  <2>1. \A p \in Process : pdied'[p] => pdied[p] \/ (p = current /\ ~lock /\ p # KProc)
    BY <1>2, <1>3
  <2>2. \A t \in Thread : tdied'[t] => tdied[t] \/ (t = CurrentThread /\ ~lock /\ t # Kerneld)
    BY <1>2, <1>3
  <2>3. RunList
    BY DEF SchedInv
  <2>4. \A p \in ToSet(procs) : pdied'[p] => p = current /\ phase' = "enter"
    BY <1>1, <1>3, <2>1, <2>3 DEF RunList
  <2>5. \A p \in ToSet(procs) : \A t \in ToSet(threads[p]) :
          tdied'[t] => t = CurrentThread /\ phase' = "enter"
    BY <1>1, <1>3, <2>2, <2>3 DEF RunList
  <2>6. ~pdied'[KProc] /\ ~tdied'[Kerneld]
    BY <2>1, <2>2, <2>3, SchedulerAssumption DEF RunList
  <2>7. \A p \in Process \ created : ~pdied'[p]
    BY <1>3, <2>1, <2>3 DEF RunList
  <2>8. \A t \in Thread \ created : ~tdied'[t]
    BY <1>3, <2>2, <2>3 DEF RunList
  <2> QED BY <1>1, <2>3, <2>4, <2>5, <2>6, <2>7, <2>8 DEF RunList
<1>7. Ticks'
  <2>1. \A t \in Thread \ {CurrentThread} : usedTicks'[t] = usedTicks[t]
    BY <1>2, <1>3
  <2>2. usedTicks[CurrentThread] < WantedTicks
    BY DEF SchedInv, Ticks
  <2>3. /\ phase' = "enter" => usedTicks'[CurrentThread] <= WantedTicks
        /\ phase' # "enter" => phase' = "return" /\ usedTicks'[CurrentThread] < WantedTicks
    <3>1. usedTicks' = usedTicks \/ (phase' = "enter" /\ usedTicks'[CurrentThread] = WantedTicks)
      BY <1>1, <1>2, <1>3
    <3>2. usedTicks[CurrentThread] \in Int /\ WantedTicks \in Int
      BY <1>2, <1>3, SchedulerAssumption
    <3> QED BY <1>1, <2>2, <3>1, <3>2
  <2> QED BY <1>1, <1>3, <2>1, <2>3 DEF SchedInv, Ticks
<1>8. Locking'
  <2>1. kpc' \in Critical <=> kpc \in Critical
    BY DEF Critical
  <2> QED BY <1>1, <2>1 DEF SchedInv, Locking
<1> QED BY <1>4, <1>5, <1>6, <1>7, <1>8 DEF SchedInv

(* The timer interrupt.                                                    *)
LEMMA TickStep ==
    ASSUME SchedInv, Tick
    PROVE  SchedInv'
<1>1. TypeOK'
  <2>1. alarm' \in [Thread -> Nat]
    <3>1. alarm \in [Thread -> Nat]
      BY DEF SchedInv, TypeOK
    <3> QED BY <3>1 DEF Tick, Elapse
  <2>2. kpc' \in KpcValues
    BY DEF SchedInv, TypeOK, Tick, KpcValues
  <2> QED BY Zenon, <2>1, <2>2 DEF SchedInv, TypeOK, Tick, SdCall, procVars, deadVars, memVars
<1> QED BY <1>1, SdCallStep DEF Tick, procVars, KerneldRuns

(* A thread that gives up the CPU has used its slice.                      *)
LEMMA SpendSlice ==
    ASSUME TypeOK, NEW t \in Thread
    PROVE  [usedTicks EXCEPT ![t] = WantedTicks] \in [Thread -> 0..WantedTicks + 1]
<1>1. WantedTicks \in 0..WantedTicks + 1
  BY SchedulerAssumption
<1>2. usedTicks \in [Thread -> 0..WantedTicks + 1]
  BY DEF TypeOK
<1> QED BY <1>1, <1>2

(* A kernel thread gives up the CPU, or exits.                             *)
LEMMA YieldStep ==
    ASSUME SchedInv, Yield
    PROVE  SchedInv'
<1>1. TypeOK'
  <2>1. usedTicks' \in [Thread -> 0..WantedTicks + 1]
    BY SpendSlice, CurrentIsListed DEF SchedInv, Yield
  <2> QED BY Zenon, <2>1, CurrentIsListed DEF SchedInv, TypeOK, Yield, SdCall, procVars, deadVars,
                                       blockVars, memVars, kVars
<1>2. ~lock
  BY LockIsFree DEF Yield
<1> QED BY <1>1, <1>2, SdCallStep DEF Yield, procVars, kVars

(* sd_threadExit(), what a kernel thread ends with.                        *)
LEMMA SdThreadExitStep ==
    ASSUME SchedInv, SdThreadExit
    PROVE  SchedInv'
<1>1. TypeOK'
  <2>1. usedTicks' \in [Thread -> 0..WantedTicks + 1]
    BY SpendSlice, CurrentIsListed DEF SchedInv, SdThreadExit
  <2> QED BY Zenon, <2>1, CurrentIsListed DEF SchedInv, TypeOK, SdThreadExit, SdCall, procVars, deadVars,
                                       blockVars, memVars, kVars
<1>2. ~lock
  BY LockIsFree DEF SdThreadExit
<1> QED BY <1>1, <1>2, SdCallStep DEF SdThreadExit, procVars, kVars

-----------------------------------------------------------------------------
(* The system calls.                                                       *)

(* _sc_threadExit() marks the thread as dead.                              *)
LEMMA ScThreadExitStep ==
    ASSUME SchedInv, ScThreadExit
    PROVE  SchedInv'
<1>1. TypeOK'
  BY Zenon, CurrentIsListed
     DEF SchedInv, TypeOK, ScThreadExit, SdCall, procVars, deadVars, blockVars, memVars, kVars
<1>2. ~lock /\ CurrentThread # Kerneld /\ phase = "run"
  BY LockIsFree, CurrentIsListed DEF ScThreadExit, UserRuns
<1> QED BY <1>1, <1>2, SdCallStep DEF ScThreadExit, procVars, kVars

(* _sc_exit() marks the process as dead.                                   *)
LEMMA ScExitStep ==
    ASSUME SchedInv, ScExit
    PROVE  SchedInv'
<1>1. TypeOK'
  BY Zenon, CurrentIsListed
     DEF SchedInv, TypeOK, ScExit, SdCall, deadVars, threadVars, blockVars, memVars, kVars
<1>2. ~lock /\ current # KProc /\ phase = "run"
  BY LockIsFree DEF ScExit, UserRuns
<1> QED BY <1>1, <1>2, SdCallStep DEF ScExit, threadVars, kVars

(* _sc_threadSleep() blocks the caller and sets its alarm.                 *)
LEMMA ScSleepStep ==
    ASSUME SchedInv, ScSleep
    PROVE  SchedInv'
<1>1. TypeOK'
  <2>1. PICK time \in 0..MaxSleep :
          LET t == CurrentThread
              fresh == time > 0 /\ ~sleeping[t]
          IN /\ blocks' = [blocks EXCEPT ![t] = UInt8(@ + SleepBlocks(fresh))]
             /\ sleeping' = [sleeping EXCEPT ![t] = @ \/ fresh]
             /\ alarm' = [alarm EXCEPT ![t] = (IF fresh THEN 0 ELSE @) + time]
             /\ resume' = t
    BY Zenon DEF ScSleep
  <2>2. /\ blocks \in [Thread -> 0..255] /\ sleeping \in [Thread -> BOOLEAN]
        /\ alarm \in [Thread -> Nat] /\ CurrentThread \in Thread
    BY Zenon, CurrentIsListed DEF SchedInv, TypeOK
  <2>3. \A n \in 0..255 : \A fresh \in BOOLEAN : UInt8(n + SleepBlocks(fresh)) \in 0..255
    BY DEF UInt8, SleepBlocks
  <2>4. blocks' \in [Thread -> 0..255]
    <3> DEFINE fresh == time > 0 /\ ~sleeping[CurrentThread]
    <3>1. fresh \in BOOLEAN /\ blocks' = [blocks EXCEPT ![CurrentThread] = UInt8(@ + SleepBlocks(fresh))]
      BY <2>1
    <3> HIDE DEF fresh
    <3> QED BY Zenon, <2>2, <2>3, <3>1
  <2>5. sleeping' \in [Thread -> BOOLEAN] /\ resume' \in Thread
    BY <2>1, <2>2
  <2>6. alarm' \in [Thread -> Nat]
    <3> DEFINE rest == IF time > 0 /\ ~sleeping[CurrentThread] THEN 0 ELSE alarm[CurrentThread]
    <3>1. alarm' = [alarm EXCEPT ![CurrentThread] = rest + time] /\ rest + time \in Nat
      BY <2>1, <2>2, SchedulerAssumption
    <3> HIDE DEF rest
    <3> QED BY <2>2, <3>1
  <2> QED BY Zenon, <2>4, <2>5, <2>6
          DEF SchedInv, TypeOK, ScSleep, SdCall, procVars, deadVars, memVars, kVars
<1> QED BY <1>1, SdCallStep DEF ScSleep, UserRuns, procVars, kVars

(* thread_join() adds to lists of listeners and to blocks.                 *)
LEMMA ThreadJoinTypes ==
    ASSUME TypeOK, NEW ts \in Seq(Thread), NEW t \in Thread, ThreadJoin(ts, t)
    PROVE  listener' \in [Thread -> Seq(Thread)] /\ blocks' \in [Thread -> 0..255]
<1>1. \A n \in 0..255 : UInt8(n + 1) \in 0..255
  BY DEF UInt8
<1>2. listener[t] \o ts \in Seq(Thread)
  BY DEF TypeOK
<1> QED BY Zenon, <1>1, <1>2 DEF TypeOK, ThreadJoin

(* _sc_threadJoin() blocks the caller until a thread has exited.           *)
LEMMA ScThreadJoinStep ==
    ASSUME SchedInv, ScThreadJoin
    PROVE  SchedInv'
<1>1. TypeOK'
  <2>1. PICK t \in ToSet(threads[current]) : ThreadJoin(<<CurrentThread>>, t)
    BY DEF ScThreadJoin
  <2>2. t \in Thread /\ <<CurrentThread>> \in Seq(Thread)
    <3>1. threads[current] \in Seq(Thread)
      BY CurrentIsListed DEF SchedInv, TypeOK
    <3> QED BY <3>1, ElementsOf, CurrentIsListed
  <2>3. listener' \in [Thread -> Seq(Thread)] /\ blocks' \in [Thread -> 0..255]
    BY Zenon, <2>1, <2>2, ThreadJoinTypes DEF SchedInv
  <2> QED BY <2>3 DEF SchedInv, TypeOK, ScThreadJoin, SdCall, procVars, deadVars,
                      sleepVars, memVars, kVars
<1> QED BY <1>1, SdCallStep DEF ScThreadJoin, UserRuns, procVars, kVars

(* _sc_wait() blocks the threads of a process until another has exited.    *)
LEMMA ScWaitStep ==
    ASSUME SchedInv, ScWait
    PROVE  SchedInv'
<1>1. TypeOK'
  <2>1. PICK p \in ToSet(procs) : ThreadJoin(threads[current], Head(threads[p]))
    BY DEF ScWait
  <2>2. threads[current] \in Seq(Thread) /\ Head(threads[p]) \in Thread
    <3>1. p \in Process /\ threads[p] # <<>>
      BY ElementsOf DEF SchedInv, TypeOK, RunList
    <3>2. threads[p] \in Seq(Thread) /\ threads[current] \in Seq(Thread)
      BY <3>1, CurrentIsListed DEF SchedInv, TypeOK
    <3> QED BY <3>1, <3>2, TailElements
  <2>3. listener' \in [Thread -> Seq(Thread)] /\ blocks' \in [Thread -> 0..255]
    BY <2>1, <2>2, ThreadJoinTypes DEF SchedInv
  <2> QED BY Zenon, <2>3 DEF SchedInv, TypeOK, ScWait, SdCall, procVars, deadVars,
                      sleepVars, memVars, kVars
<1> QED BY <1>1, SdCallStep DEF ScWait, UserRuns, procVars, kVars

(* The sd_yield() that kerneld begins with.                                *)
LEMMA KdYieldStep ==
    ASSUME SchedInv, KdYield
    PROVE  SchedInv'
<1>1. TypeOK'
  <2>1. usedTicks' \in [Thread -> 0..WantedTicks + 1]
    BY SpendSlice, CurrentIsListed DEF SchedInv, KdYield
  <2> QED BY Zenon, <2>1 DEF SchedInv, TypeOK, KdYield, SdCall, procVars, deadVars, blockVars,
                      memVars, KpcValues
<1>2. ~lock /\ CurrentThread = Kerneld
  BY DEF SchedInv, Locking, KdYield, KerneldRuns, Critical
<1> QED BY <1>1, <1>2, SdCallStep DEF KdYield, KerneldRuns, procVars

-----------------------------------------------------------------------------
(* sd_schedule() itself.                                                   *)

(* What is listed is allocated, and no thread of one process is one of     *)
(* another.                                                                *)
LEMMA Listed ==
    ASSUME SchedInv
    PROVE  /\ ToSet(procs) \subseteq Process /\ ToSet(procs) \subseteq created
           /\ \A p \in Process : /\ threads[p] \in Seq(Thread)
                                 /\ ToSet(threads[p]) \subseteq Thread
                                 /\ ToSet(threads[p]) \subseteq created \ freed
                                 /\ IsInjective(threads[p])
           /\ \A p, q \in Process : \A t \in ToSet(threads[p]) :
                 t \in ToSet(threads[q]) => p = q
           /\ \A p \in ToSet(procs) : /\ scheduled[p] \in ToSet(threads[p])
                                      /\ scheduled[p] \in Thread
<1>1. procs \in Seq(Process) /\ \A p \in Process : threads[p] \in Seq(Thread)
  BY DEF SchedInv, TypeOK
<1>2. ToSet(procs) \subseteq Process /\ \A p \in Process : ToSet(threads[p]) \subseteq Thread
  BY <1>1, ElementsOf
<1>3. ToSet(procs) \subseteq created
  BY DEF SchedInv, ProcessLists
<1>4. \A p \in Process : ToSet(threads[p]) \subseteq created \ freed /\ IsInjective(threads[p])
  BY <1>2 DEF SchedInv, ThreadLists
<1>5. \A p, q \in Process : \A t \in ToSet(threads[p]) : t \in ToSet(threads[q]) => p = q
  BY DEF SchedInv, ThreadLists
<1>6. \A p \in ToSet(procs) : scheduled[p] \in ToSet(threads[p]) /\ scheduled[p] \in Thread
  BY <1>2 DEF SchedInv, RunList
<1> QED BY <1>1, <1>2, <1>3, <1>4, <1>5, <1>6

(* A tick is charged to a thread that has some of its slice left.          *)
LEMMA ChargeTick ==
    ASSUME TypeOK, NEW t \in Thread, usedTicks[t] <= WantedTicks
    PROVE  /\ [usedTicks EXCEPT ![t] = @ + 1] \in [Thread -> 0..WantedTicks + 1]
           /\ \A u \in Thread \ {t} : [usedTicks EXCEPT ![t] = @ + 1][u] = usedTicks[u]
<1>1. usedTicks \in [Thread -> 0..WantedTicks + 1]
  BY DEF TypeOK
<1>2. usedTicks[t] \in 0..WantedTicks + 1
  BY <1>1
<1>3. usedTicks[t] + 1 \in 0..WantedTicks + 1
  BY <1>2, SchedulerAssumption
<1> QED BY <1>1, <1>3

(* The charge for the tick on the way into the loop.                       *)
LEMMA SdChargeTickStep ==
    ASSUME SchedInv, SdEnter, SdChargeTick
    PROVE  SchedInv'
<1>1. /\ phase = "enter" /\ phase' = "loop"
      /\ ~pdied[current] /\ ~tdied[CurrentThread]
      /\ usedTicks' = [usedTicks EXCEPT ![CurrentThread] = @ + 1]
      /\ UNCHANGED <<procs, threads, scheduled, deadVars, current>>
      /\ UNCHANGED <<pdied, tdied, blockVars, memVars, lock, resume, kVars>>
  BY DEF SdEnter, SdChargeTick
<1> USE DEF deadVars, blockVars, memVars, kVars
<1>2. CurrentThread' = CurrentThread /\ CurrentThread \in Thread
  BY <1>1, CurrentIsListed DEF CurrentThread
<1>3. /\ usedTicks' \in [Thread -> 0..WantedTicks + 1]
      /\ \A u \in Thread \ {CurrentThread} : usedTicks'[u] = usedTicks[u]
  <2>1. usedTicks[CurrentThread] <= WantedTicks
    BY <1>1 DEF SchedInv, Ticks
  <2> QED BY <1>1, <1>2, <2>1, ChargeTick DEF SchedInv
<1>4. TypeOK'
  BY Zenon, <1>1, <1>3 DEF SchedInv, TypeOK
<1>5. ProcessLists' /\ ThreadLists' /\ Collecting'
  BY <1>1, ProcessListsKept, ThreadListsKept, CollectingKept DEF SchedInv
<1>6. RunList'
  BY <1>1, <1>2 DEF SchedInv, RunList
<1>7. Ticks'
  <2>1. \A p \in ToSet(procs) : ToSet(threads[p]) \subseteq Thread
    BY Listed
  <2>2. CurrentThread \in created
    BY CurrentIsListed, Listed
  <2> QED BY <1>1, <1>2, <1>3, <2>1, <2>2 DEF SchedInv, Ticks
<1>8. Locking'
  BY <1>1 DEF SchedInv, Locking
<1> QED BY <1>4, <1>5, <1>6, <1>7, <1>8 DEF SchedInv

(* A process whose main thread exited, or that exited, is taken off.       *)
LEMMA SdReapProcessStep ==
    ASSUME SchedInv, SdEnter, SdReapProcess
    PROVE  SchedInv'
<1> DEFINE p == current
           next == NextIn(procs, p)
<1>1. /\ phase = "enter" /\ phase' = "loop"
      /\ pdied[p] \/ (tdied[scheduled[p]] /\ scheduled[p] = Head(threads[p]))
      /\ procs' = Unlink(procs, p)
      /\ deadProcs' = Cons(p, deadProcs)
      /\ current' = next
      /\ usedTicks' = [usedTicks EXCEPT ![scheduled[next]] = @ + 1]
      /\ UNCHANGED <<threads, scheduled, deadThreads>>
      /\ UNCHANGED <<pdied, tdied, blockVars, memVars, lock, resume, kVars>>
  BY DEF SdEnter, SdReapProcess
<1> USE DEF blockVars, memVars, kVars
<1>2. p \in Process /\ p \in ToSet(procs) /\ KProc \in ToSet(procs) /\ p # KProc
  <2>1. Head(threads[KProc]) = Kerneld /\ ~pdied[KProc] /\ ~tdied[Kerneld] /\ KProc \in ToSet(procs)
    BY DEF SchedInv, RunList
  <2> QED BY <1>1, <2>1, CurrentIsListed
<1>3. /\ procs \in Seq(Process) /\ deadProcs \in Seq(Process)
      /\ IsInjective(procs) /\ IsInjective(deadProcs) /\ p \notin ToSet(deadProcs)
  BY <1>2 DEF SchedInv, TypeOK, ProcessLists
<1>4. next \in ToSet(procs) /\ next # p
  BY <1>2, <1>3, NextInList, NextInOther
<1>5. /\ procs' \in Seq(Process) /\ IsInjective(procs')
      /\ ToSet(procs') = ToSet(procs) \ {p}
  BY <1>1, <1>2, <1>3, UnlinkElements
<1>6. /\ deadProcs' \in Seq(Process) /\ IsInjective(deadProcs')
      /\ ToSet(deadProcs') = ToSet(deadProcs) \cup {p}
  BY <1>1, <1>2, <1>3, ConsElements
<1> HIDE DEF next
<1>7. next \in Process /\ scheduled[next] \in Thread /\ scheduled[next] \in ToSet(threads[next])
  BY <1>4, Listed
<1>8. CurrentThread' = scheduled[next] /\ CurrentThread \in ToSet(threads[p])
  BY <1>1, CurrentIsListed DEF CurrentThread
<1>9. \A q \in ToSet(procs') : q \in ToSet(procs) /\ CurrentThread \notin ToSet(threads[q])
  BY Zenon, <1>2, <1>5, <1>8, Listed
<1>10. usedTicks[scheduled[next]] = 0
  BY <1>4, <1>5, <1>7, <1>9 DEF SchedInv, Ticks
<1>11. /\ usedTicks' \in [Thread -> 0..WantedTicks + 1]
       /\ \A u \in Thread \ {scheduled[next]} : usedTicks'[u] = usedTicks[u]
  <2>1. usedTicks[scheduled[next]] <= WantedTicks
    BY <1>10, SchedulerAssumption
  <2> QED BY <1>1, <1>7, <2>1, ChargeTick DEF SchedInv
<1>12. TypeOK'
  BY Zenon, <1>1, <1>5, <1>6, <1>7, <1>11 DEF SchedInv, TypeOK
<1>13. ProcessLists'
  BY <1>1, <1>2, <1>5, <1>6 DEF SchedInv, ProcessLists
<1>14. ThreadLists' /\ Collecting'
  BY <1>1, ThreadListsKept, CollectingKept DEF SchedInv
<1>15. RunList'
  <2>1. KProc \in ToSet(procs') /\ current' \in ToSet(procs')
    BY <1>1, <1>2, <1>4, <1>5
  <2>2. \A q \in ToSet(procs') : ~pdied[q]
    BY <1>5 DEF SchedInv, RunList
  <2>3. \A q \in ToSet(procs') : \A t \in ToSet(threads[q]) : ~tdied[t]
    BY <1>9 DEF SchedInv, RunList
  <2> QED BY <1>1, <1>9, <2>1, <2>2, <2>3 DEF SchedInv, RunList
<1>16. Ticks'
  <2>1. \A q \in ToSet(procs') : \A t \in ToSet(threads[q]) : t \in Thread /\ usedTicks[t] = 0
    BY <1>9, Listed DEF SchedInv, Ticks
  <2>2. scheduled[next] \in created
    BY <1>7, Listed
  <2> QED BY <1>1, <1>8, <1>11, <2>1, <2>2 DEF SchedInv, Ticks
<1>17. Locking'
  BY <1>1 DEF SchedInv, Locking
<1> QED BY <1>12, <1>13, <1>14, <1>15, <1>16, <1>17 DEF SchedInv

(* A thread other than the main thread that exited is taken off.           *)
LEMMA SdReapThreadStep ==
    ASSUME SchedInv, SdEnter, SdReapThread
    PROVE  SchedInv'
<1> DEFINE p == current
           t == scheduled[p]
           next == NextIn(threads[p], t)
<1>1. /\ phase = "enter" /\ phase' = "loop"
      /\ ~pdied[p] /\ tdied[t] /\ t # Head(threads[p])
      /\ threads' = [threads EXCEPT ![p] = Unlink(@, t)]
      /\ deadThreads' = Cons(t, deadThreads)
      /\ scheduled' = [scheduled EXCEPT ![p] = next]
      /\ usedTicks' = [usedTicks EXCEPT ![next] = @ + 1]
      /\ UNCHANGED <<procs, deadProcs, current>>
      /\ UNCHANGED <<pdied, tdied, blockVars, memVars, lock, resume, kVars>>
  BY DEF SdEnter, SdReapThread, NextThread
<1> USE DEF blockVars, memVars, kVars
<1>2. /\ p \in Process /\ p \in ToSet(procs) /\ t \in ToSet(threads[p]) /\ t \in Thread
      /\ t = CurrentThread
  BY CurrentIsListed DEF CurrentThread
<1>3. /\ threads \in [Process -> Seq(Thread)] /\ scheduled \in [Process -> Thread \cup {NULL}]
      /\ deadThreads \in Seq(Thread)
      /\ threads[p] \in Seq(Thread) /\ threads[p] # <<>>
      /\ IsInjective(threads[p]) /\ IsInjective(deadThreads) /\ t \notin ToSet(deadThreads)
  BY Zenon, <1>2 DEF SchedInv, TypeOK, ThreadLists, RunList
<1>4. Head(threads[p]) \in ToSet(threads[p])
  BY <1>3, TailElements
<1>5. next \in ToSet(threads[p]) /\ next # t
  BY <1>1, <1>2, <1>3, <1>4, NextInList, NextInOther
<1>6. /\ Unlink(threads[p], t) \in Seq(Thread) /\ IsInjective(Unlink(threads[p], t))
      /\ ToSet(Unlink(threads[p], t)) = ToSet(threads[p]) \ {t}
      /\ Head(Unlink(threads[p], t)) = Head(threads[p])
  BY <1>1, <1>2, <1>3, UnlinkElements
<1>7. /\ deadThreads' \in Seq(Thread) /\ IsInjective(deadThreads')
      /\ ToSet(deadThreads') = ToSet(deadThreads) \cup {t}
  <2>1. deadThreads' = Cons(t, deadThreads)
    BY <1>1
  <2>2. t \in Thread /\ deadThreads \in Seq(Thread) /\ IsInjective(deadThreads)
        /\ t \notin ToSet(deadThreads)
    BY <1>2, <1>3
  <2> HIDE DEF t
  <2> QED BY <2>1, <2>2, ConsElements
<1> HIDE DEF t, next
<1>8. /\ threads' \in [Process -> Seq(Thread)]
      /\ \A q \in Process \ {p} : threads'[q] = threads[q] /\ scheduled'[q] = scheduled[q]
      /\ IsInjective(threads'[p]) /\ ToSet(threads'[p]) = ToSet(threads[p]) \ {t}
      /\ Head(threads'[p]) = Head(threads[p]) /\ scheduled'[p] = next
  BY <1>1, <1>2, <1>3, <1>6
<1>9. threads'[p] # <<>>
  BY <1>5, <1>8, SmallLists
<1>10. next \in Thread /\ CurrentThread' = next
  BY <1>1, <1>2, <1>5, <1>8, Listed DEF CurrentThread
<1>11. \A q \in Process : /\ ToSet(threads'[q]) \subseteq ToSet(threads[q])
                          /\ t \notin ToSet(threads'[q])
  BY Zenon, <1>2, <1>8, Listed
<1>12. usedTicks[next] = 0
  BY <1>2, <1>5, <1>10 DEF SchedInv, Ticks
<1>13. /\ usedTicks' \in [Thread -> 0..WantedTicks + 1]
       /\ \A u \in Thread \ {next} : usedTicks'[u] = usedTicks[u]
  <2>1. usedTicks[next] <= WantedTicks
    BY <1>12, SchedulerAssumption
  <2> QED BY <1>1, <1>10, <2>1, ChargeTick DEF SchedInv
<1>14. TypeOK'
  <2>1. scheduled' \in [Process -> Thread \cup {NULL}]
    BY Zenon, <1>1, <1>3, <1>10
  <2> QED BY Zenon, <1>1, <1>7, <1>8, <1>13, <2>1 DEF SchedInv, TypeOK
<1>15. ProcessLists'
  BY <1>1, ProcessListsKept DEF SchedInv
<1>16. ThreadLists'
  <2>1. ThreadLists
    BY DEF SchedInv
  <2>2. ToSet(deadThreads') \cap ToSet(kthreads) = {}
    BY <1>2, <1>7, <2>1 DEF ThreadLists
  <2>3. ASSUME NEW q \in Process
        PROVE  /\ IsInjective(threads'[q])
               /\ ToSet(threads'[q]) \cap ToSet(deadThreads') = {}
               /\ ToSet(threads'[q]) \cap ToSet(kthreads) = {}
               /\ \A r \in Process \ {q} : ToSet(threads'[q]) \cap ToSet(threads'[r]) = {}
    <3>1. /\ IsInjective(threads[q])
          /\ ToSet(threads[q]) \cap ToSet(deadThreads) = {}
          /\ ToSet(threads[q]) \cap ToSet(kthreads) = {}
          /\ \A r \in Process \ {q} : ToSet(threads[q]) \cap ToSet(threads[r]) = {}
      BY <2>1 DEF ThreadLists
    <3>2. IsInjective(threads'[q])
      BY <1>8, <3>1
    <3>3. /\ ToSet(threads'[q]) \cap ToSet(deadThreads') = {}
          /\ ToSet(threads'[q]) \cap ToSet(kthreads) = {}
      BY <1>7, <1>11, <3>1
    <3>4. \A r \in Process \ {q} : ToSet(threads'[q]) \cap ToSet(threads'[r]) = {}
      BY <1>11, <3>1
    <3> QED BY <3>2, <3>3, <3>4
  <2>4. ASSUME NEW u \in Thread
        PROVE  u \in created \ freed <=> \/ u \in ToSet(deadThreads') \cup ToSet(kthreads)
                                         \/ \E q \in Process : u \in ToSet(threads'[q])
    <3>1. t \in created \ freed
      BY <1>2, Listed
    <3>2. CASE u = t
      BY <1>7, <3>1, <3>2
    <3>3. CASE u # t
      <4>1. \A q \in Process : u \in ToSet(threads'[q]) <=> u \in ToSet(threads[q])
        BY <1>8, <3>3
      <4>2. u \in ToSet(deadThreads') <=> u \in ToSet(deadThreads)
        BY <1>7, <3>3
      <4> QED BY <2>1, <4>1, <4>2 DEF ThreadLists
    <3> QED BY <3>2, <3>3
  <2> QED BY Zenon, <1>1, <1>7, <2>1, <2>2, <2>3, <2>4 DEF ThreadLists
<1>17. Collecting'
  <2>1. kprocs # <<>> => threads'[Head(kprocs)] = threads[Head(kprocs)]
    <3>1. kprocs \in Seq(Process) /\ ToSet(procs) \cap ToSet(kprocs) = {}
      BY DEF SchedInv, TypeOK, ProcessLists
    <3>2. kprocs # <<>> => Head(kprocs) \in ToSet(kprocs) /\ Head(kprocs) \in Process
      BY <3>1, TailElements
    <3> QED BY <1>2, <1>8, <3>1, <3>2
  <2> QED BY <1>1, <2>1 DEF SchedInv, Collecting, KdVictims
<1>18. RunList'
  <2>1. RunList
    BY DEF SchedInv
  <2>2. ASSUME NEW q \in ToSet(procs)
        PROVE  threads'[q] # <<>> /\ scheduled'[q] \in ToSet(threads'[q]) /\ ~pdied[q]
    <3>1. q \in Process
      BY Listed
    <3> QED BY <1>1, <1>5, <1>8, <1>9, <2>1, <3>1 DEF RunList
  <2>3. Head(threads'[KProc]) = Kerneld
    BY <1>8, <2>1, SchedulerAssumption DEF RunList
  <2>4. \A q \in Process \ created : threads'[q] = <<>>
    BY <1>2, <1>8, <2>1, Listed DEF RunList
  <2>5. \A q \in ToSet(procs) : \A u \in ToSet(threads'[q]) : ~tdied[u]
    BY <1>2, <1>11, <2>1, Listed DEF RunList
  <2> QED BY <1>1, <2>1, <2>2, <2>3, <2>4, <2>5 DEF RunList
<1>19. Ticks'
  <2>1. \A q \in ToSet(procs) : \A u \in ToSet(threads'[q]) : u \in Thread /\ usedTicks[u] = 0
    BY <1>2, <1>11, Listed DEF SchedInv, Ticks
  <2>2. next \in created
    BY <1>2, <1>5, Listed
  <2> QED BY <1>1, <1>10, <1>13, <2>1, <2>2 DEF SchedInv, Ticks
<1>20. Locking'
  BY <1>1 DEF SchedInv, Locking
<1> QED BY <1>14, <1>15, <1>16, <1>17, <1>18, <1>19, <1>20 DEF SchedInv

(* sd_schedule() moves on: since nothing in the run list has died, the     *)
(* loop never goes back to its beginning nor leaves in the middle.         *)
LEMMA SdSkipStep ==
    ASSUME SchedInv, SdSkip
    PROVE  SchedInv'
<1> DEFINE p == current
           t == scheduled[p]
           wake == sleeping[t] /\ alarm[t] = 0
           left == IF wake THEN UInt8(blocks[t] - 1) ELSE blocks[t]
           next == NextIn(procs, p)
<1>1. /\ phase = "loop"
      /\ usedTicks' = [usedTicks EXCEPT ![t] = 0]
      /\ sleeping' = [sleeping EXCEPT ![t] = @ /\ ~wake]
      /\ blocks' = [blocks EXCEPT ![t] = left]
      /\ UNCHANGED <<procs, pdied, threads, deadVars, tdied, alarm, listener,
                     memVars, resume, kVars>>
  BY DEF SdSkip, ResetTicks
<1>2. /\ p \in Process /\ p \in ToSet(procs) /\ t \in ToSet(threads[p]) /\ t \in Thread
      /\ t = CurrentThread
  BY CurrentIsListed DEF CurrentThread
<1>3. /\ procs \in Seq(Process) /\ threads[p] \in Seq(Thread)
  BY <1>2 DEF SchedInv, TypeOK
<1>4. /\ next \in ToSet(procs) /\ next \in Process
      /\ NextIn(threads[p], t) \in ToSet(threads[p]) /\ NextIn(threads[p], t) \in Thread
  BY <1>2, <1>3, NextInList, Listed
<1>5. ~tdied[t] /\ ~pdied[next]
  BY <1>1, <1>2, <1>4 DEF SchedInv, RunList
<1>6. /\ scheduled' = [scheduled EXCEPT ![p] = NextIn(threads[p], t)]
      /\ current' = next /\ phase' = "loop" /\ lock' = lock
  BY <1>5 DEF SdSkip, NextThread
<1> USE DEF deadVars, memVars, kVars
<1>7. /\ usedTicks \in [Thread -> 0..WantedTicks + 1] /\ blocks \in [Thread -> 0..255]
      /\ sleeping \in [Thread -> BOOLEAN] /\ scheduled \in [Process -> Thread \cup {NULL}]
  BY DEF SchedInv, TypeOK
<1>8. /\ usedTicks' \in [Thread -> 0..WantedTicks + 1]
      /\ usedTicks'[t] = 0 /\ \A u \in Thread \ {t} : usedTicks'[u] = usedTicks[u]
  <2>1. 0 \in 0..WantedTicks + 1
    BY SchedulerAssumption
  <2> QED BY <1>1, <1>2, <1>7, <2>1
<1>9. blocks' \in [Thread -> 0..255]
  <2>1. blocks[t] \in 0..255
    BY <1>2, <1>7
  <2>2. \A n \in 0..255 : UInt8(n - 1) \in 0..255
    BY DEF UInt8
  <2>3. left \in 0..255
    BY Zenon, <2>1, <2>2
  <2> HIDE DEF left
  <2> QED BY <1>1, <1>2, <1>7, <2>3
<1>10. sleeping' \in [Thread -> BOOLEAN]
  BY <1>1, <1>2, <1>7
<1> HIDE DEF t, next, wake, left
<1>11. /\ scheduled' \in [Process -> Thread \cup {NULL}]
       /\ \A q \in ToSet(procs) : scheduled'[q] \in ToSet(threads[q])
  <2>1. scheduled'[p] = NextIn(threads[p], t) /\ \A q \in Process \ {p} : scheduled'[q] = scheduled[q]
    BY <1>2, <1>6, <1>7
  <2>2. scheduled' \in [Process -> Thread \cup {NULL}]
    BY Zenon, <1>4, <1>6, <1>7
  <2> QED BY <1>4, <2>1, <2>2, Listed
<1>12. TypeOK'
  BY Zenon, <1>1, <1>4, <1>6, <1>8, <1>9, <1>10, <1>11 DEF SchedInv, TypeOK
<1>13. ProcessLists' /\ ThreadLists' /\ Collecting'
  BY <1>1, ProcessListsKept, ThreadListsKept, CollectingKept DEF SchedInv
<1>14. RunList'
  <2>1. RunList
    BY DEF SchedInv
  <2>2. \A q \in ToSet(procs) : ~pdied[q] /\ \A u \in ToSet(threads[q]) : ~tdied[u]
    BY <1>1, <2>1 DEF RunList
  <2> QED BY <1>1, <1>4, <1>6, <1>11, <2>1, <2>2 DEF RunList
<1>15. Ticks'
  <2>1. \A q \in ToSet(procs) : \A u \in ToSet(threads[q]) : u \in Thread /\ usedTicks'[u] = 0
    BY <1>2, <1>8, Listed DEF SchedInv, Ticks
  <2>2. \A u \in Thread \ created : usedTicks'[u] = 0
    BY <1>8 DEF SchedInv, Ticks
  <2> QED BY <1>1, <1>6, <2>1, <2>2 DEF Ticks
<1>16. Locking'
  BY <1>1, <1>6 DEF SchedInv, Locking
<1> QED BY <1>12, <1>13, <1>14, <1>15, <1>16 DEF SchedInv

-----------------------------------------------------------------------------
(* New threads and processes.                                              *)

(* A thread that was just allocated is attached to a process in the run    *)
(* list.                                                                   *)
LEMMA AttachStep ==
    ASSUME SchedInv, NEW p \in ToSet(procs), NEW t \in VoidThread,
           AttachThread(p, t), created' = created \cup {t},
           UNCHANGED <<procs, pdied, deadVars, threadVars, freed, cpuVars, kVars>>
    PROVE  SchedInv'
<1> USE DEF deadVars, threadVars, blockVars, cpuVars, kVars
<1>1. p \in Process /\ t \in Thread /\ t \notin created /\ t \notin Process
  BY Listed, SchedulerAssumption DEF VoidThread
<1>2. /\ threads \in [Process -> Seq(Thread)] /\ threads[p] \in Seq(Thread) /\ threads[p] # <<>>
      /\ IsInjective(threads[p])
      /\ \A q \in Process : t \notin ToSet(threads[q])
      /\ t \notin ToSet(deadThreads) /\ t \notin ToSet(kthreads)
      /\ scheduled \in [Process -> Thread \cup {NULL}]
  BY Zenon, <1>1 DEF SchedInv, TypeOK, RunList, ThreadLists
<1>3. 2 \in 1..Len(threads[p]) + 1
  <2>1. Len(threads[p]) \in Nat /\ Len(threads[p]) # 0
    BY <1>2, EmptySeq
  <2> QED BY <2>1
<1>4. /\ threads' = [threads EXCEPT ![p] = InsertAt(threads[p], 2, t)]
      /\ scheduled' = scheduled
  BY <1>1, <1>2 DEF AttachThread
<1>5. /\ InsertAt(threads[p], 2, t) \in Seq(Thread)
      /\ ToSet(InsertAt(threads[p], 2, t)) = ToSet(threads[p]) \cup {t}
      /\ IsInjective(InsertAt(threads[p], 2, t))
      /\ InsertAt(threads[p], 2, t) # <<>>
      /\ Head(InsertAt(threads[p], 2, t)) = Head(threads[p])
  BY <1>1, <1>2, <1>3, InsertAtElements
<1>6. /\ threads' \in [Process -> Seq(Thread)]
      /\ \A q \in Process \ {p} : threads'[q] = threads[q]
      /\ ToSet(threads'[p]) = ToSet(threads[p]) \cup {t} /\ IsInjective(threads'[p])
      /\ threads'[p] # <<>> /\ Head(threads'[p]) = Head(threads[p])
  BY <1>1, <1>2, <1>4, <1>5
<1>7. CurrentThread' = CurrentThread
  BY <1>4 DEF CurrentThread
<1>8. TypeOK'
  BY Zenon, <1>1, <1>4, <1>6 DEF SchedInv, TypeOK
<1>9. ProcessLists'
  BY <1>1 DEF SchedInv, ProcessLists
<1>10. ThreadLists'
  <2>1. ThreadLists /\ t \notin freed
    BY <1>1 DEF SchedInv, RunList
  <2>2. ASSUME NEW q \in Process
        PROVE  /\ IsInjective(threads'[q])
               /\ ToSet(threads'[q]) \cap ToSet(deadThreads) = {}
               /\ ToSet(threads'[q]) \cap ToSet(kthreads) = {}
    BY <1>2, <1>6, <2>1 DEF ThreadLists
  <2>3. ASSUME NEW q \in Process, NEW r \in Process \ {q}
        PROVE  ToSet(threads'[q]) \cap ToSet(threads'[r]) = {}
    <3>1. ToSet(threads[q]) \cap ToSet(threads[r]) = {}
      BY <2>1 DEF ThreadLists
    <3>2. t \notin ToSet(threads[q]) /\ t \notin ToSet(threads[r])
      BY <1>2
    <3>3. CASE q = p
      BY <1>6, <3>1, <3>2, <3>3
    <3>4. CASE r = p
      BY <1>6, <3>1, <3>2, <3>4
    <3>5. CASE q # p /\ r # p
      <4>1. threads'[q] = threads[q] /\ threads'[r] = threads[r]
        BY <1>6, <3>5
      <4> QED BY <3>1, <4>1
    <3> QED BY <3>3, <3>4, <3>5
  <2>4. ASSUME NEW u \in Thread
        PROVE  u \in (created \cup {t}) \ freed
                 <=> \/ u \in ToSet(deadThreads) \cup ToSet(kthreads)
                     \/ \E q \in Process : u \in ToSet(threads'[q])
    <3>1. CASE u = t
      BY <1>1, <1>6, <2>1, <3>1
    <3>2. CASE u # t
      <4>1. \A q \in Process : u \in ToSet(threads'[q]) <=> u \in ToSet(threads[q])
        BY <1>6, <3>2
      <4> QED BY <2>1, <3>2, <4>1 DEF ThreadLists
    <3> QED BY <3>1, <3>2
  <2> QED BY <2>1, <2>2, <2>3, <2>4 DEF ThreadLists
<1>11. Collecting'
  <2>1. kprocs # <<>> => threads'[Head(kprocs)] = threads[Head(kprocs)]
    <3>1. kprocs \in Seq(Process) /\ ToSet(procs) \cap ToSet(kprocs) = {}
      BY DEF SchedInv, TypeOK, ProcessLists
    <3>2. kprocs # <<>> => Head(kprocs) \in ToSet(kprocs) /\ Head(kprocs) \in Process
      BY <3>1, TailElements
    <3> QED BY <1>6, <3>1, <3>2
  <2> QED BY <2>1 DEF SchedInv, Collecting, KdVictims
<1>12. RunList'
  <2>1. RunList
    BY DEF SchedInv
  <2>2. \A q \in ToSet(procs) : threads'[q] # <<>> /\ scheduled[q] \in ToSet(threads'[q])
    BY Zenon, <1>6, <2>1, Listed DEF RunList
  <2>3. Head(threads'[KProc]) = Kerneld
    BY <1>6, <2>1, SchedulerAssumption DEF RunList
  <2>4. \A q \in Process \ created' : threads'[q] = <<>> /\ ~pdied[q]
    BY <1>1, <1>6, <2>1, Listed DEF RunList
  <2>5. \A q \in ToSet(procs) : \A u \in ToSet(threads'[q]) :
           tdied[u] => u = CurrentThread /\ phase = "enter"
    BY <1>1, <1>6, <2>1, Listed DEF RunList
  <2> QED BY <1>4, <1>7, <2>1, <2>2, <2>3, <2>4, <2>5 DEF RunList
<1>13. Ticks'
  <2>1. Ticks
    BY DEF SchedInv
  <2>2. \A q \in ToSet(procs) : \A u \in ToSet(threads'[q]) \ {CurrentThread} : usedTicks[u] = 0
    BY <1>1, <1>6, <2>1, Listed DEF Ticks
  <2> QED BY <1>7, <2>1, <2>2 DEF Ticks
<1>14. Locking'
  BY <1>7 DEF SchedInv, Locking
<1> QED BY <1>8, <1>9, <1>10, <1>11, <1>12, <1>13, <1>14 DEF SchedInv

(* _sc_threadAttach() gives the process one more thread.                   *)
LEMMA ScThreadAttachStep ==
    ASSUME SchedInv, ScThreadAttach
    PROVE  SchedInv'
BY AttachStep, CurrentIsListed DEF ScThreadAttach

(* kerneld creates a system thread.                                        *)
LEMMA KdCreateThreadStep ==
    ASSUME SchedInv, KdCreateThread
    PROVE  SchedInv'
<1>1. KProc \in ToSet(procs)
  BY DEF SchedInv, RunList
<1> QED BY <1>1, AttachStep DEF KdCreateThread

(* A process that was just allocated, with its only thread, is inserted    *)
(* behind a process in the run list.                                       *)
LEMMA NewProcessStep ==
    ASSUME SchedInv, NEW q \in ToSet(procs), NEW p \in VoidProcess, NEW t \in VoidThread,
           AttachThread(p, t), procs' = InsertAfter(procs, q, p),
           created' = created \cup {p, t},
           UNCHANGED <<pdied, deadVars, threadVars, freed, current, phase, resume>>,
           UNCHANGED <<kprocs, kthreads, kvictim>>,
           \/ UNCHANGED <<lock, kpc>>
           \/ phase = "run" /\ kpc = "insert" /\ lock' = FALSE /\ kpc' = "collectProcesses"
    PROVE  SchedInv'
<1> USE DEF deadVars, threadVars, blockVars
<1>1. /\ p \in Process /\ p \notin created /\ t \in Thread /\ t \notin created
      /\ p \notin Thread /\ t \notin Process /\ p \notin freed /\ t \notin freed
  BY SchedulerAssumption DEF VoidThread, VoidProcess, SchedInv, RunList
<1>2. /\ threads \in [Process -> Seq(Thread)] /\ scheduled \in [Process -> Thread \cup {NULL}]
      /\ threads[p] = <<>> /\ ~pdied[p] /\ ~tdied[t] /\ usedTicks[t] = 0
      /\ \A r \in Process : t \notin ToSet(threads[r])
      /\ t \notin ToSet(deadThreads) /\ t \notin ToSet(kthreads)
  <2>1. threads \in [Process -> Seq(Thread)] /\ scheduled \in [Process -> Thread \cup {NULL}]
    BY DEF SchedInv, TypeOK
  <2>2. threads[p] = <<>> /\ ~pdied[p] /\ ~tdied[t] /\ usedTicks[t] = 0
    BY <1>1 DEF SchedInv, RunList, Ticks
  <2>3. /\ \A r \in Process : t \notin ToSet(threads[r])
        /\ t \notin ToSet(deadThreads) /\ t \notin ToSet(kthreads)
    BY <1>1 DEF SchedInv, ThreadLists
  <2> QED BY <2>1, <2>2, <2>3
<1>3. /\ <<t>> \in Seq(Thread) /\ ToSet(<<t>>) = {t} /\ IsInjective(<<t>>)
      /\ <<t>> # <<>>
  BY <1>1, SmallLists
<1>4. threads' = [threads EXCEPT ![p] = <<t>>] /\ scheduled' = [scheduled EXCEPT ![p] = t]
  BY <1>1, <1>2 DEF AttachThread
<1>5. /\ threads' \in [Process -> Seq(Thread)] /\ scheduled' \in [Process -> Thread \cup {NULL}]
      /\ threads'[p] = <<t>> /\ scheduled'[p] = t
      /\ \A r \in Process \ {p} : threads'[r] = threads[r] /\ scheduled'[r] = scheduled[r]
  BY <1>1, <1>2, <1>3, <1>4
<1>6. /\ procs \in Seq(Process) /\ IsInjective(procs)
      /\ p \notin ToSet(procs) /\ p \notin ToSet(deadProcs) /\ p \notin ToSet(kprocs)
  BY <1>1 DEF SchedInv, TypeOK, ProcessLists
<1>7. /\ procs' \in Seq(Process) /\ IsInjective(procs')
      /\ ToSet(procs') = ToSet(procs) \cup {p}
  <2> DEFINE k == PosOf(procs, q) + 1
  <2>1. k \in 1..Len(procs) + 1
    <3>1. PosOf(procs, q) \in 1..Len(procs) /\ Len(procs) \in Nat
      BY <1>6, PosOfFinds
    <3> QED BY <3>1
  <2>2. procs' = InsertAt(procs, k, p)
    BY DEF InsertAfter
  <2> HIDE DEF k
  <2> QED BY <1>1, <1>6, <2>1, <2>2, InsertAtElements
<1>8. current # p /\ current \in Process /\ KProc # p /\ CurrentThread' = CurrentThread
  <2>1. current \in ToSet(procs) /\ KProc \in ToSet(procs) /\ current \in Process
    BY CurrentIsListed DEF SchedInv, RunList
  <2> QED BY <1>5, <1>6, <2>1 DEF CurrentThread
<1>9. TypeOK'
  <2>1. lock' \in BOOLEAN /\ kpc' \in KpcValues
    BY Zenon DEF SchedInv, TypeOK, KpcValues
  <2>2. created' \subseteq Process \cup Thread
    BY <1>1 DEF SchedInv, TypeOK
  <2> QED BY Zenon, <1>5, <1>7, <2>1, <2>2 DEF SchedInv, TypeOK
<1>10. ProcessLists'
  BY <1>1, <1>6, <1>7 DEF SchedInv, ProcessLists
<1>11. ThreadLists'
  <2>1. ThreadLists
    BY DEF SchedInv
  <2>2. ASSUME NEW r \in Process
        PROVE  /\ IsInjective(threads'[r])
               /\ ToSet(threads'[r]) \cap ToSet(deadThreads) = {}
               /\ ToSet(threads'[r]) \cap ToSet(kthreads) = {}
    <3>1. CASE r = p
      BY Zenon, <1>2, <1>3, <1>5, <3>1
    <3>2. CASE r # p
      BY <1>5, <2>1, <3>2 DEF ThreadLists
    <3> QED BY <3>1, <3>2
  <2>3. ASSUME NEW r \in Process, NEW s \in Process \ {r}
        PROVE  ToSet(threads'[r]) \cap ToSet(threads'[s]) = {}
    <3>1. ToSet(threads[r]) \cap ToSet(threads[s]) = {}
      BY <2>1 DEF ThreadLists
    <3>2. t \notin ToSet(threads[r]) /\ t \notin ToSet(threads[s])
      BY <1>2
    <3>3. CASE r = p
      BY <1>3, <1>5, <3>2, <3>3
    <3>4. CASE s = p
      BY <1>3, <1>5, <3>2, <3>4
    <3>5. CASE r # p /\ s # p
      BY Zenon, <1>5, <3>1, <3>5
    <3> QED BY <3>3, <3>4, <3>5
  <2>4. ASSUME NEW u \in Thread
        PROVE  u \in (created \cup {p, t}) \ freed
                 <=> \/ u \in ToSet(deadThreads) \cup ToSet(kthreads)
                     \/ \E r \in Process : u \in ToSet(threads'[r])
    <3>1. CASE u = t
      BY <1>1, <1>3, <1>5, <3>1
    <3>2. CASE u # t
      <4>1. \A r \in Process : u \in ToSet(threads'[r]) <=> u \in ToSet(threads[r])
        <5>1. u \notin ToSet(threads'[p]) /\ u \notin ToSet(threads[p])
          BY <1>2, <1>3, <1>5, <3>2, SmallLists
        <5> QED BY <1>5, <5>1
      <4>2. u # p
        BY <1>1
      <4> QED BY <2>1, <3>2, <4>1, <4>2 DEF ThreadLists
    <3> QED BY <3>1, <3>2
  <2> QED BY <2>1, <2>2, <2>3, <2>4 DEF ThreadLists
<1>12. Collecting'
  <2>1. kprocs # <<>> => threads'[Head(kprocs)] = threads[Head(kprocs)]
    <3>1. kprocs \in Seq(Process)
      BY DEF SchedInv, TypeOK
    <3>2. kprocs # <<>> => Head(kprocs) \in ToSet(kprocs) /\ Head(kprocs) \in Process
      BY <3>1, TailElements
    <3> QED BY <1>5, <1>6, <3>2
  <2>2. CASE kpc' = kpc
    BY <2>1, <2>2 DEF SchedInv, Collecting, KdVictims
  <2>3. CASE kpc # kpc'
    <3>1. /\ kprocs = <<>> /\ kthreads = <<>> /\ kvictim = NULL
      BY <2>3 DEF SchedInv, Collecting, KdVictims
    <3> QED BY <3>1 DEF Collecting
  <2> QED BY <2>2, <2>3
<1>13. RunList'
  <2>1. RunList
    BY DEF SchedInv
  <2>2. \A r \in ToSet(procs') : threads'[r] # <<>> /\ scheduled'[r] \in ToSet(threads'[r])
    <3>1. threads'[p] # <<>> /\ scheduled'[p] \in ToSet(threads'[p])
      BY <1>3, <1>5
    <3>2. \A r \in ToSet(procs) : threads'[r] # <<>> /\ scheduled'[r] \in ToSet(threads'[r])
      BY Zenon, <1>5, <1>6, <2>1, Listed DEF RunList
    <3> QED BY <1>7, <3>1, <3>2
  <2>3. Head(threads'[KProc]) = Kerneld
    BY <1>5, <1>8, <2>1, SchedulerAssumption DEF RunList
  <2>4. \A r \in Process \ created' : threads'[r] = <<>> /\ ~pdied[r]
    BY <1>5, <2>1 DEF RunList
  <2>5. \A r \in ToSet(procs') : \A u \in ToSet(threads'[r]) :
           tdied[u] => u = CurrentThread /\ phase = "enter"
    <3>1. \A u \in ToSet(threads'[p]) : ~tdied[u]
      BY <1>2, <1>3, <1>5
    <3>2. \A r \in ToSet(procs) : threads'[r] = threads[r]
      BY <1>5, <1>6, Listed
    <3> QED BY <1>7, <2>1, <3>1, <3>2 DEF RunList
  <2>6. \A r \in ToSet(procs') : pdied[r] => r = current /\ phase = "enter"
    BY <1>2, <1>7, <2>1 DEF RunList
  <2>7. KProc \in ToSet(procs') /\ current \in ToSet(procs') /\ freed \subseteq created'
    BY Zenon, <1>7, <2>1 DEF RunList
  <2> QED BY <1>8, <2>1, <2>2, <2>3, <2>4, <2>5, <2>6, <2>7 DEF RunList
<1>14. Ticks'
  <2>1. Ticks
    BY DEF SchedInv
  <2>2. \A r \in ToSet(procs') : \A u \in ToSet(threads'[r]) \ {CurrentThread} : usedTicks[u] = 0
    <3>1. \A u \in ToSet(threads'[p]) : usedTicks[u] = 0
      BY <1>2, <1>3, <1>5
    <3>2. \A r \in ToSet(procs) : threads'[r] = threads[r]
      BY <1>5, <1>6, Listed
    <3> QED BY <1>7, <2>1, <3>1, <3>2 DEF Ticks
  <2> QED BY Zenon, <1>8, <2>1, <2>2 DEF Ticks
<1>15. Locking'
  BY <1>8 DEF SchedInv, Locking, Critical
<1> QED BY <1>9, <1>10, <1>11, <1>12, <1>13, <1>14, <1>15 DEF SchedInv

(* _sc_fork() inserts a process with one thread.                           *)
LEMMA ScForkStep ==
    ASSUME SchedInv, ScFork
    PROVE  SchedInv'
BY NewProcessStep, CurrentIsListed DEF ScFork, cpuVars, kVars

(* kerneld creates the first user process.                                 *)
LEMMA KdInsertProcessStep ==
    ASSUME SchedInv, KdInsertProcess
    PROVE  SchedInv'
<1>1. KProc \in ToSet(procs)
  BY DEF SchedInv, RunList
<1> QED BY Zenon, <1>1, NewProcessStep DEF KdInsertProcess, KerneldRuns

-----------------------------------------------------------------------------
(* kerneld.                                                                *)

(* The run list is as it was if nothing of it changes.                     *)
LEMMA RunListKept ==
    ASSUME RunList, UNCHANGED <<procs, current, pdied, threads, scheduled, tdied>>,
           UNCHANGED <<created, freed, phase>>
    PROVE  RunList'
BY DEF RunList, CurrentThread

(* So are the ticks that were used.                                        *)
LEMMA TicksKept ==
    ASSUME Ticks, UNCHANGED <<procs, current, threads, scheduled, usedTicks>>,
           UNCHANGED <<created, phase>>
    PROVE  Ticks'
BY DEF Ticks, CurrentThread

(* Outside the two places where it destroys, kerneld has nothing.          *)
LEMMA NothingCollected ==
    ASSUME SchedInv, kpc \notin {"destroyProcesses", "destroyThreads"}
    PROVE  kprocs = <<>> /\ kthreads = <<>> /\ kvictim = NULL
BY DEF SchedInv, Collecting, KdVictims

(* kerneld takes _sd_lock.                                                 *)
LEMMA KdLockStep ==
    ASSUME SchedInv, KdLock
    PROVE  SchedInv'
<1>1. /\ phase = "run" /\ current = KProc /\ CurrentThread = Kerneld
      /\ lock' = TRUE /\ kpc' \in Critical
      /\ kpc \notin {"destroyProcesses", "destroyThreads"}
      /\ UNCHANGED <<procVars, deadVars, threadVars, memVars, current, phase, resume,
                     kprocs, kthreads, kvictim>>
  BY DEF KdLock, KerneldRuns, Critical
<1> USE DEF procVars, deadVars, threadVars, blockVars, memVars
<1>2. TypeOK'
  BY Zenon, <1>1 DEF SchedInv, TypeOK, KpcValues, Critical
<1>3. ProcessLists' /\ ThreadLists' /\ RunList' /\ Ticks'
  BY <1>1, ProcessListsKept, ThreadListsKept, RunListKept, TicksKept DEF SchedInv
<1>4. Locking'
  BY <1>1 DEF Locking, CurrentThread
<1>5. Collecting'
  BY <1>1, NothingCollected DEF Collecting
<1> QED BY <1>2, <1>3, <1>4, <1>5 DEF SchedInv

(* kerneld takes the list of dead processes.                               *)
LEMMA KdTakeProcessesStep ==
    ASSUME SchedInv, KdTakeProcesses
    PROVE  SchedInv'
<1>1. /\ phase = "run" /\ kpc = "takeProcesses" /\ kpc' = "destroyProcesses"
      /\ lock' = FALSE /\ kprocs' = deadProcs /\ deadProcs' = <<>>
      /\ UNCHANGED <<procVars, deadThreads, threadVars, memVars, current, phase,
                     resume, kthreads, kvictim>>
  BY DEF KdTakeProcesses, TakeDeadProcesses, KerneldRuns
<1> USE DEF procVars, threadVars, blockVars, memVars
<1>2. kprocs = <<>> /\ kthreads = <<>> /\ kvictim = NULL
  BY <1>1, NothingCollected
<1>3. TypeOK'
  BY Zenon, <1>1, SmallLists DEF SchedInv, TypeOK, KpcValues
<1>4. ProcessLists'
  <2>1. ToSet(<<>>) = {} /\ IsInjective(<<>>)
    BY SmallLists
  <2> QED BY <1>1, <1>2, <2>1 DEF SchedInv, ProcessLists
<1>5. ThreadLists' /\ RunList' /\ Ticks'
  BY <1>1, ThreadListsKept, RunListKept, TicksKept DEF SchedInv
<1>6. Locking'
  BY <1>1 DEF Locking, Critical
<1>7. Collecting'
  BY <1>1, <1>2 DEF Collecting
<1> QED BY <1>3, <1>4, <1>5, <1>6, <1>7 DEF SchedInv

(* kerneld takes the list of dead threads.                                 *)
LEMMA KdTakeThreadsStep ==
    ASSUME SchedInv, KdTakeThreads
    PROVE  SchedInv'
<1>1. /\ phase = "run" /\ kpc = "takeThreads" /\ kpc' = "destroyThreads"
      /\ lock' = FALSE /\ kthreads' = deadThreads /\ deadThreads' = <<>>
      /\ UNCHANGED <<procVars, deadProcs, threadVars, memVars, current, phase,
                     resume, kprocs, kvictim>>
  BY DEF KdTakeThreads, TakeDeadThreads, KerneldRuns
<1> USE DEF procVars, threadVars, blockVars, memVars
<1>2. kprocs = <<>> /\ kthreads = <<>> /\ kvictim = NULL
  BY <1>1, NothingCollected
<1>3. TypeOK'
  BY Zenon, <1>1, SmallLists DEF SchedInv, TypeOK, KpcValues
<1>4. ThreadLists'
  <2>1. ToSet(<<>>) = {} /\ IsInjective(<<>>)
    BY SmallLists
  <2> QED BY <1>1, <1>2, <2>1 DEF SchedInv, ThreadLists
<1>5. ProcessLists' /\ RunList' /\ Ticks'
  BY <1>1, ProcessListsKept, RunListKept, TicksKept DEF SchedInv
<1>6. Locking'
  BY <1>1 DEF Locking, Critical
<1>7. Collecting'
  BY <1>1, <1>2 DEF Collecting
<1> QED BY <1>3, <1>4, <1>5, <1>6, <1>7 DEF SchedInv

(* kerneld goes from one list to the other.                                *)
LEMMA KdTurnStep ==
    ASSUME SchedInv, KdTurn
    PROVE  SchedInv'
<1>1. /\ phase = "run" /\ kpc' \in KpcValues
      /\ kpc \notin Critical /\ kpc' \notin Critical
      /\ UNCHANGED <<procVars, deadVars, threadVars, memVars, cpuVars, kprocs,
                     kthreads, kvictim>>
  BY DEF KdTurn, KerneldRuns, Critical, KpcValues, AfterProcesses
<1> USE DEF procVars, deadVars, threadVars, blockVars, memVars, cpuVars
<1>2. kprocs = <<>> /\ kthreads = <<>> /\ kvictim = NULL
  BY DEF SchedInv, Collecting, KdVictims, KdTurn
<1>3. TypeOK'
  BY <1>1 DEF SchedInv, TypeOK
<1>4. ProcessLists' /\ ThreadLists' /\ RunList' /\ Ticks'
  BY <1>1, ProcessListsKept, ThreadListsKept, RunListKept, TicksKept DEF SchedInv
<1>5. Locking'
  BY <1>1 DEF SchedInv, Locking, CurrentThread
<1>6. Collecting'
  BY <1>1, <1>2 DEF Collecting
<1> QED BY <1>3, <1>4, <1>5, <1>6 DEF SchedInv

(* The thread being destroyed is the first of a process that was taken off *)
(* the run list, or of the threads that were.                              *)
LEMMA Victims ==
    ASSUME SchedInv, KdVictims # <<>>
    PROVE  /\ KdVictims \in Seq(Thread) /\ Head(KdVictims) \in Thread
           /\ \/ /\ kpc = "destroyProcesses" /\ kprocs # <<>> /\ kthreads = <<>>
                 /\ Head(kprocs) \in Process /\ Head(kprocs) \in ToSet(kprocs)
                 /\ Head(kprocs) \notin ToSet(procs)
                 /\ KdVictims = threads[Head(kprocs)]
              \/ /\ kpc = "destroyThreads" /\ kthreads # <<>> /\ KdVictims = kthreads
                 /\ kprocs = <<>>
<1>1. kprocs \in Seq(Process) /\ kthreads \in Seq(Thread) /\ threads \in [Process -> Seq(Thread)]
  BY DEF SchedInv, TypeOK
<1>2. kprocs # <<>> => Head(kprocs) \in Process /\ Head(kprocs) \in ToSet(kprocs)
                       /\ Head(kprocs) \notin ToSet(procs)
  BY <1>1, TailElements DEF SchedInv, ProcessLists
<1>3. \/ kpc = "destroyProcesses" /\ kprocs # <<>> /\ KdVictims = threads[Head(kprocs)]
      \/ kpc = "destroyThreads" /\ kthreads # <<>> /\ KdVictims = kthreads
  BY DEF KdVictims
<1>4. KdVictims \in Seq(Thread)
  BY <1>1, <1>2, <1>3
<1>5. Head(KdVictims) \in Thread
  BY <1>4, TailElements
<1> QED BY <1>2, <1>3, <1>4, <1>5 DEF SchedInv, Collecting

(* kerneld counts down the blocks of a listener.                           *)
LEMMA KdNotifyStep ==
    ASSUME SchedInv, KdNotify
    PROVE  SchedInv'
<1> DEFINE t == Head(KdVictims)
           u == Head(listener[t])
<1>1. /\ KdVictims # <<>> /\ kvictim = NULL
      /\ IF listener[t] = <<>>
         THEN kvictim' = t /\ UNCHANGED <<blocks, listener>>
         ELSE /\ blocks' = [blocks EXCEPT ![u] = UInt8(@ - 1)]
              /\ listener' = [listener EXCEPT ![t] = Tail(@)]
              /\ UNCHANGED kvictim
      /\ UNCHANGED <<procVars, deadVars, tdied, usedTicks, sleepVars, memVars,
                     cpuVars, kpc, kprocs, kthreads>>
  BY DEF KdNotify
<1> USE DEF procVars, deadVars, sleepVars, memVars, cpuVars
<1>2. t \in Thread
  BY <1>1, Victims
<1> HIDE DEF t
<1>3. /\ listener \in [Thread -> Seq(Thread)] /\ blocks \in [Thread -> 0..255]
      /\ listener[t] \in Seq(Thread)
  BY <1>2 DEF SchedInv, TypeOK
<1>4. blocks' \in [Thread -> 0..255] /\ listener' \in [Thread -> Seq(Thread)]
  <2>1. CASE listener[t] = <<>>
    BY <1>1, <1>3, <2>1
  <2>2. CASE listener[t] # <<>>
    <3>1. u \in Thread /\ Tail(listener[t]) \in Seq(Thread)
      BY <1>3, <2>2, TailElements
    <3>2. blocks' = [blocks EXCEPT ![u] = UInt8(@ - 1)]
          /\ listener' = [listener EXCEPT ![t] = Tail(@)]
      BY <1>1, <2>2
    <3> HIDE DEF u
    <3>3. \A n \in 0..255 : UInt8(n - 1) \in 0..255
      BY DEF UInt8
    <3> QED BY Zenon, <1>2, <1>3, <3>1, <3>2, <3>3
  <2> QED BY <2>1, <2>2
<1>5. kvictim' = t \/ kvictim' = NULL
  BY <1>1
<1>6. TypeOK'
  BY Zenon, <1>1, <1>2, <1>4, <1>5 DEF SchedInv, TypeOK
<1>7. ProcessLists' /\ ThreadLists' /\ RunList' /\ Ticks'
  BY <1>1, ProcessListsKept, ThreadListsKept, RunListKept, TicksKept DEF SchedInv
<1>8. Locking'
  BY <1>1 DEF SchedInv, Locking, CurrentThread
<1>9. Collecting'
  <2>1. KdVictims' = KdVictims
    BY <1>1 DEF KdVictims
  <2> QED BY <1>1, <1>5, <2>1 DEF SchedInv, Collecting, t
<1> QED BY <1>6, <1>7, <1>8, <1>9 DEF SchedInv

(* kerneld frees a process whose threads are gone.                         *)
LEMMA KdFreeProcessStep ==
    ASSUME SchedInv, KdFreeProcess
    PROVE  SchedInv'
<1> DEFINE p == Head(kprocs)
<1>1. /\ phase = "run" /\ kpc = "destroyProcesses" /\ kprocs # <<>> /\ threads[p] = <<>>
      /\ freed' = freed \cup {p} /\ kprocs' = Tail(kprocs)
      /\ UNCHANGED <<procVars, deadVars, threadVars, created, cpuVars, kpc,
                     kthreads, kvictim>>
  BY DEF KdFreeProcess, KerneldRuns
<1> USE DEF procVars, deadVars, threadVars, blockVars, cpuVars
<1>2. kprocs \in Seq(Process) /\ IsInjective(kprocs)
  BY DEF SchedInv, TypeOK, ProcessLists
<1>3. /\ p \in ToSet(kprocs) /\ p \in Process /\ kprocs' \in Seq(Process)
      /\ IsInjective(kprocs') /\ ToSet(kprocs') = ToSet(kprocs) \ {p}
  BY <1>1, <1>2, TailElements
<1>4. p \notin Thread /\ p \in created /\ kvictim = NULL /\ kthreads = <<>>
  <2>1. kvictim = NULL /\ kthreads = <<>>
    BY <1>1 DEF SchedInv, Collecting, KdVictims
  <2> QED BY <1>3, <2>1, SchedulerAssumption DEF SchedInv, ProcessLists
<1> HIDE DEF p
<1>5. TypeOK'
  BY Zenon, <1>1, <1>3 DEF SchedInv, TypeOK
<1>6. ProcessLists'
  BY <1>1, <1>3 DEF SchedInv, ProcessLists
<1>7. ThreadLists'
  BY <1>1, <1>4 DEF SchedInv, ThreadLists
<1>8. RunList'
  <2>1. freed' \subseteq created
    BY <1>1, <1>4 DEF SchedInv, RunList
  <2> QED BY <1>1, <2>1 DEF SchedInv, RunList, CurrentThread
<1>9. Ticks'
  BY <1>1, TicksKept DEF SchedInv
<1>10. Locking'
  BY <1>1 DEF SchedInv, Locking, CurrentThread
<1>11. Collecting'
  BY <1>1, <1>4 DEF Collecting
<1> QED BY <1>5, <1>6, <1>7, <1>8, <1>9, <1>10, <1>11 DEF SchedInv

(* kerneld frees a thread.                                                 *)
LEMMA KdFreeThreadStep ==
    ASSUME SchedInv, KdFreeThread
    PROVE  SchedInv'
<1> DEFINE p == Head(kprocs)
           v == kvictim
<1>1. /\ phase = "run" /\ v # NULL /\ listener' = [listener EXCEPT ![v] = <<>>]
      /\ freed' = freed \cup {v} /\ kvictim' = NULL
      /\ IF kpc = "destroyProcesses"
         THEN threads' = [threads EXCEPT ![p] = Tail(@)] /\ UNCHANGED kthreads
         ELSE kthreads' = Tail(kthreads) /\ UNCHANGED threads
      /\ UNCHANGED <<procs, pdied, scheduled, deadVars, tdied, usedTicks, blocks,
                     sleepVars, created, cpuVars, kpc, kprocs>>
  BY DEF KdFreeThread, KerneldRuns
<1> USE DEF deadVars, sleepVars, cpuVars
<1>2. KdVictims # <<>> /\ v = Head(KdVictims)
  BY <1>1 DEF SchedInv, Collecting
<1>3. v \in Thread /\ v \notin Process
  BY <1>2, Victims, SchedulerAssumption
<1>4. /\ threads \in [Process -> Seq(Thread)] /\ kthreads \in Seq(Thread)
      /\ IsInjective(kthreads) /\ listener \in [Thread -> Seq(Thread)]
      /\ \A q \in Process : IsInjective(threads[q])
  BY DEF SchedInv, TypeOK, ThreadLists
<1>5. /\ threads' \in [Process -> Seq(Thread)] /\ kthreads' \in Seq(Thread)
      /\ IsInjective(kthreads') /\ \A q \in Process : IsInjective(threads'[q])
      /\ \A q \in Process : ToSet(threads'[q]) = ToSet(threads[q]) \ {v}
      /\ ToSet(kthreads') = ToSet(kthreads) \ {v}
      /\ v \in created \ freed /\ v \notin ToSet(deadThreads)
      /\ \A q \in Process : q \in ToSet(procs) \/ q \notin created => threads'[q] = threads[q]
      /\ kthreads' # <<>> => kpc = "destroyThreads"
  <2>1. ThreadLists
    BY DEF SchedInv
  <2>2. CASE kpc = "destroyProcesses"
    <3>1. /\ p \in Process /\ p \in ToSet(kprocs) /\ p \notin ToSet(procs)
          /\ kthreads = <<>> /\ threads[p] # <<>> /\ v = Head(threads[p])
      BY <1>2, <2>2, Victims
    <3>2. p \in created
      BY <3>1 DEF SchedInv, ProcessLists
    <3> HIDE DEF p, v
    <3>3. threads' = [threads EXCEPT ![p] = Tail(@)] /\ kthreads' = kthreads
      BY <1>1, <2>2
    <3>4. /\ v \in ToSet(threads[p]) /\ Tail(threads[p]) \in Seq(Thread)
          /\ IsInjective(Tail(threads[p])) /\ ToSet(Tail(threads[p])) = ToSet(threads[p]) \ {v}
      BY <1>4, <3>1, TailElements
    <3>5. /\ threads' \in [Process -> Seq(Thread)] /\ threads'[p] = Tail(threads[p])
          /\ \A q \in Process \ {p} : threads'[q] = threads[q]
      BY <1>4, <3>1, <3>3, <3>4
    <3>6. /\ v \in created \ freed /\ v \notin ToSet(deadThreads) /\ v \notin ToSet(kthreads)
          /\ \A q \in Process \ {p} : v \notin ToSet(threads[q])
      BY Zenon, <1>3, <2>1, <3>1, <3>4 DEF ThreadLists
    <3>7. \A q \in Process : IsInjective(threads'[q]) /\ ToSet(threads'[q]) = ToSet(threads[q]) \ {v}
      BY Zenon, <1>4, <3>4, <3>5, <3>6
    <3> QED BY <1>4, <3>1, <3>2, <3>3, <3>5, <3>6, <3>7
  <2>3. CASE kpc # "destroyProcesses"
    <3>1. kpc = "destroyThreads" /\ kthreads # <<>> /\ v = Head(kthreads)
      BY <1>2, <2>3, Victims
    <3> HIDE DEF v
    <3>2. threads' = threads /\ kthreads' = Tail(kthreads)
      BY <1>1, <2>3
    <3>3. /\ v \in ToSet(kthreads) /\ Tail(kthreads) \in Seq(Thread)
          /\ IsInjective(Tail(kthreads)) /\ ToSet(Tail(kthreads)) = ToSet(kthreads) \ {v}
      BY <1>4, <3>1, TailElements
    <3>4. /\ v \in created \ freed /\ v \notin ToSet(deadThreads)
          /\ \A q \in Process : v \notin ToSet(threads[q])
      BY <1>3, <2>1, <3>3 DEF ThreadLists
    <3> QED BY <1>4, <3>1, <3>2, <3>3, <3>4
  <2> QED BY Zenon, <2>2, <2>3
<1> HIDE DEF v, p
<1>6. TypeOK'
  <2>1. listener' \in [Thread -> Seq(Thread)]
    BY <1>1, <1>3, <1>4, SmallLists
  <2> QED BY Zenon, <1>1, <1>3, <1>5, <2>1 DEF SchedInv, TypeOK
<1>7. ProcessLists'
  BY <1>1, <1>3 DEF SchedInv, ProcessLists
<1>8. ThreadLists'
  <2>1. ThreadLists
    BY DEF SchedInv
  <2>2. ToSet(deadThreads) \cap ToSet(kthreads') = {}
    BY <1>5, <2>1 DEF ThreadLists
  <2>3. ASSUME NEW q \in Process
        PROVE  /\ ToSet(threads'[q]) \cap ToSet(deadThreads) = {}
               /\ ToSet(threads'[q]) \cap ToSet(kthreads') = {}
    <3>1. /\ ToSet(threads[q]) \cap ToSet(deadThreads) = {}
          /\ ToSet(threads[q]) \cap ToSet(kthreads) = {}
      BY <2>1 DEF ThreadLists
    <3> QED BY <1>5, <3>1
  <2>4. ASSUME NEW q \in Process, NEW r \in Process \ {q}
        PROVE  ToSet(threads'[q]) \cap ToSet(threads'[r]) = {}
    <3>1. ToSet(threads[q]) \cap ToSet(threads[r]) = {}
      BY <2>1 DEF ThreadLists
    <3> QED BY <1>5, <3>1
  <2>5. ASSUME NEW u \in Thread
        PROVE  u \in created \ freed' <=> \/ u \in ToSet(deadThreads) \cup ToSet(kthreads')
                                          \/ \E q \in Process : u \in ToSet(threads'[q])
    <3>1. CASE u = v
      BY <1>1, <1>5, <3>1
    <3>2. CASE u # v
      <4>1. u \in ToSet(kthreads') <=> u \in ToSet(kthreads)
        BY <1>5, <3>2
      <4>2. \A q \in Process : u \in ToSet(threads'[q]) <=> u \in ToSet(threads[q])
        BY <1>5, <3>2
      <4> QED BY <1>1, <2>1, <3>2, <4>1, <4>2 DEF ThreadLists
    <3> QED BY <3>1, <3>2
  <2> QED BY <1>1, <1>5, <2>1, <2>2, <2>3, <2>4, <2>5 DEF ThreadLists
<1>9. RunList'
  <2>1. \A q \in ToSet(procs) : threads'[q] = threads[q]
    BY <1>5, Listed
  <2>2. \A q \in Process \ created : threads'[q] = threads[q]
    BY <1>5
  <2>3. freed' \subseteq created
    BY <1>1, <1>5 DEF SchedInv, RunList
  <2> QED BY <1>1, <2>1, <2>2, <2>3 DEF SchedInv, RunList, CurrentThread
<1>10. Ticks'
  <2>1. \A q \in ToSet(procs) : threads'[q] = threads[q]
    BY <1>5, Listed
  <2> QED BY <1>1, <2>1 DEF SchedInv, Ticks, CurrentThread
<1>11. Locking'
  BY <1>1 DEF SchedInv, Locking, CurrentThread
<1>12. Collecting'
  BY <1>1, <1>5 DEF SchedInv, Collecting
<1> QED BY <1>6, <1>7, <1>8, <1>9, <1>10, <1>11, <1>12 DEF SchedInv

(* Nothing happens.                                                        *)
LEMMA StutterStep ==
    ASSUME SchedInv, UNCHANGED vars
    PROVE  SchedInv'
<1> USE DEF vars, procVars, deadVars, threadVars, blockVars, memVars, cpuVars, kVars
<1>1. TypeOK'
  BY Zenon DEF SchedInv, TypeOK
<1>2. ProcessLists' /\ ThreadLists' /\ RunList' /\ Ticks' /\ Collecting'
  BY ProcessListsKept, ThreadListsKept, RunListKept, TicksKept, CollectingKept DEF SchedInv
<1>3. Locking'
  BY DEF SchedInv, Locking, CurrentThread
<1> QED BY <1>1, <1>2, <1>3 DEF SchedInv

-----------------------------------------------------------------------------
(* Every step of the system keeps the lists, the lock, the slices and      *)
(* kerneld's bookkeeping consistent with each other.                       *)
THEOREM SchedulerInvariant == Spec => []SchedInv
<1>1. SchedInv /\ [Next]_vars => SchedInv'
  <2> SUFFICES ASSUME SchedInv, [Next]_vars
               PROVE  SchedInv'
    OBVIOUS
  <2>1. CASE SdStep
    <3>1. CASE SdEnter
      BY <3>1, SdReapProcessStep, SdReapThreadStep, SdChargeTickStep DEF SdEnter
    <3> QED BY <2>1, <3>1, SdSkipStep, SdPickStep, SdReturnStep DEF SdStep
  <2>2. CASE Tick \/ Yield \/ SdThreadExit
    BY <2>2, TickStep, YieldStep, SdThreadExitStep
  <2>3. CASE Syscall
    BY <2>3, ScThreadAttachStep, ScForkStep, ScSleepStep, ScThreadJoinStep, ScWaitStep,
       ScThreadExitStep, ScExitStep DEF Syscall
  <2>4. CASE KerneldStep
    BY <2>4, KdYieldStep, KdCreateThreadStep, KdLockStep, KdInsertProcessStep,
       KdTakeProcessesStep, KdTakeThreadsStep, KdNotifyStep, KdFreeThreadStep,
       KdFreeProcessStep, KdTurnStep DEF KerneldStep
  <2>5. CASE UNCHANGED vars
    BY <2>5, StutterStep
  <2> QED BY <2>1, <2>2, <2>3, <2>4, <2>5 DEF Next
<1> QED BY <1>1, InitInv, PTL DEF Spec

(* The structures keep their types; usedTicks is at most one tick beyond   *)
(* the slice, however the charges of sd_schedule() and the yields meet.    *)
THEOREM TypeCorrect == Spec => []TypeOK
<1>1. SchedInv => TypeOK
  BY DEF SchedInv
<1> QED BY <1>1, SchedulerInvariant, PTL

(* sd_schedule() only ever gives the CPU to a live thread of a live        *)
(* process: it never follows a pointer to one that was taken off a list or *)
(* freed.                                                                  *)
THEOREM LiveRuns == Spec => []OnlyLiveRuns
<1>1. SchedInv => OnlyLiveRuns
  <2> SUFFICES ASSUME SchedInv, phase = "run"
               PROVE  /\ current \in ToSet(procs) /\ ~pdied[current]
                      /\ CurrentThread \in ToSet(threads[current])
                      /\ ~tdied[CurrentThread] /\ CurrentThread \notin freed
    BY DEF OnlyLiveRuns
  <2>1. /\ current \in ToSet(procs) /\ current \in Process
        /\ CurrentThread \in ToSet(threads[current])
    BY CurrentIsListed
  <2>2. ~pdied[current] /\ ~tdied[CurrentThread]
    BY <2>1 DEF SchedInv, RunList
  <2> QED BY <2>1, <2>2, Listed
<1> QED BY <1>1, SchedulerInvariant, PTL

(* Every process in use is in exactly one of the three lists, once, and    *)
(* none is freed twice or while it is in a list.                           *)
THEOREM ProcessesInOnePlace == Spec => []ProcessInOnePlace
<1>1. SchedInv => ProcessInOnePlace
  <2> SUFFICES ASSUME SchedInv PROVE ProcessInOnePlace
    OBVIOUS
  <2>1. procs \in Seq(Process) /\ deadProcs \in Seq(Process) /\ kprocs \in Seq(Process)
    BY DEF SchedInv, TypeOK
  <2>2. ProcessLists
    BY DEF SchedInv
  <2>3. /\ procs \o deadProcs \in Seq(Process) /\ IsInjective(procs \o deadProcs)
        /\ ToSet(procs \o deadProcs) = ToSet(procs) \cup ToSet(deadProcs)
    BY <2>1, <2>2, ConcatElements DEF ProcessLists
  <2>4. (ToSet(procs) \cup ToSet(deadProcs)) \cap ToSet(kprocs) = {} /\ IsInjective(kprocs)
    BY <2>2 DEF ProcessLists
  <2>5. /\ IsInjective((procs \o deadProcs) \o kprocs)
        /\ ToSet((procs \o deadProcs) \o kprocs)
             = ToSet(procs) \cup ToSet(deadProcs) \cup ToSet(kprocs)
    <3> DEFINE both == procs \o deadProcs
    <3>1. /\ both \in Seq(Process) /\ IsInjective(both)
          /\ ToSet(both) = ToSet(procs) \cup ToSet(deadProcs)
      BY <2>3
    <3> HIDE DEF both
    <3>2. IsInjective(both \o kprocs) /\ ToSet(both \o kprocs) = ToSet(both) \cup ToSet(kprocs)
      BY <2>1, <2>4, <3>1, ConcatElements
    <3> QED BY <3>1, <3>2 DEF both
  <2> QED BY <2>2, <2>5 DEF ProcessInOnePlace, ProcessLists
<1> QED BY <1>1, SchedulerInvariant, PTL

(* The same of every thread in use.                                        *)
THEOREM ThreadsInOnePlace == Spec => []ThreadInOnePlace
<1>1. SchedInv => ThreadInOnePlace
  <2> SUFFICES ASSUME SchedInv PROVE ThreadInOnePlace
    OBVIOUS
  <2> DEFINE dead == deadThreads \o kthreads
  <2>1. deadThreads \in Seq(Thread) /\ kthreads \in Seq(Thread)
    BY DEF SchedInv, TypeOK
  <2>2. ThreadLists
    BY DEF SchedInv
  <2>3. IsInjective(dead) /\ ToSet(dead) = ToSet(deadThreads) \cup ToSet(kthreads)
    <3>1. /\ IsInjective(deadThreads) /\ IsInjective(kthreads)
          /\ ToSet(deadThreads) \cap ToSet(kthreads) = {}
      BY <2>2 DEF ThreadLists
    <3> QED BY <2>1, <3>1, ConcatElements
  <2>4. ToSet(dead) \subseteq Thread /\ \A p \in Process : ToSet(threads[p]) \subseteq Thread
    BY <2>1, <2>3, ElementsOf, Listed
  <2> HIDE DEF dead
  <2>5. ToSet(dead) \cup UNION {ToSet(threads[p]) : p \in Process} = (created \cap Thread) \ freed
    <3>1. \A t \in Thread : t \in created \ freed
                              <=> t \in ToSet(dead) \/ \E p \in Process : t \in ToSet(threads[p])
      BY <2>2, <2>3 DEF ThreadLists
    <3> QED BY <2>4, <3>1
  <2>6. \A p \in Process :
          /\ IsInjective(threads[p])
          /\ ToSet(threads[p]) \cap ToSet(dead) = {}
          /\ \A q \in Process \ {p} : ToSet(threads[p]) \cap ToSet(threads[q]) = {}
    BY <2>2, <2>3 DEF ThreadLists
  <2> QED BY <2>3, <2>5, <2>6 DEF ThreadInOnePlace, dead
<1> QED BY <1>1, SchedulerInvariant, PTL

(* While code runs, only kerneld can hold _sd_lock, and then it is kerneld *)
(* that runs: no spinlock_lock(&_sd_lock) waits, in a system call or       *)
(* elsewhere.                                                              *)
THEOREM LockNeverWaits == Spec => []LockHolderRuns
<1>1. SchedInv => LockHolderRuns
  BY DEF SchedInv, Locking, LockHolderRuns, KerneldRuns, Critical
<1> QED BY <1>1, SchedulerInvariant, PTL
=============================================================================
