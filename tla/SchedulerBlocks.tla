--------------------------- MODULE SchedulerBlocks ---------------------------
(***************************************************************************)
(* Proofs about what blocks a thread: that thread->blocks counts it, and   *)
(* that no blocked thread runs.  The count is exact only as long as it     *)
(* fits in an uint8_t, so the proofs bound how often one thread can be in  *)
(* the lists of listeners of all threads, for any number of them.          *)
(***************************************************************************)
EXTENDS SchedulerProofs, FiniteSetTheorems

(* The thread that kerneld is waking the listeners of.                     *)
Victim == IF KdVictims = <<>> THEN NULL ELSE Head(KdVictims)

AtMostOne(S) == \E e : S \subseteq {e}
AtMostTwo(S) == \E e, f : S \subseteq {e, f}

Entries(L, u) == UNION {{t} \X {i \in DOMAIN L[t] : L[t][i] = u} : t \in Thread}
Others(L, u, v) == {e \in Entries(L, u) : e[1] # v}
Within(L, u, v) == {e \in Entries(L, u) : e[1] = v}

(* A list of listeners in which all threads of a process are.              *)
AllWait(p) == \E t \in Thread \ {Victim} : ToSet(threads[p]) \subseteq ToSet(listener[t])

(* How often a thread can be in the lists of listeners.  A thread that     *)
(* calls _sc_wait() is in no list, so all lists that hold all threads of   *)
(* its process have lost one: there is only one such list, kerneld's.      *)
JoinInv ==
    /\ \A u \in Thread : /\ AtMostTwo(Others(listener, u, Victim))
                         /\ AtMostTwo(Within(listener, u, Victim))
    /\ \A p \in ToSet(procs) : \A u \in ToSet(threads[p]) :
          AtMostOne(Others(listener, u, Victim)) \/ AllWait(p)
    /\ \A t \in Thread : ToSet(listener[t]) \subseteq created

(* Whoever runs next is blocked by nothing.                                *)
BlockInv ==
    /\ BlocksCountResources
    /\ phase = "run" => resume = NULL
    /\ phase \in {"run", "return"} => blocks[CurrentThread] = 0
    /\ kvictim # NULL => listener[kvictim] = <<>>

-----------------------------------------------------------------------------
(* The entries of a thread in the lists of listeners: a list and a place   *)
(* in it.                                                                  *)
LEMMA EntriesAre ==
    ASSUME NEW L \in [Thread -> Seq(Thread)], NEW u, NEW e
    PROVE  e \in Entries(L, u) <=> \E t \in Thread, i \in Nat :
                                      e = <<t, i>> /\ i \in DOMAIN L[t] /\ L[t][i] = u
<1>1. \A t \in Thread : DOMAIN L[t] \subseteq Nat
  OBVIOUS
<1>2. ASSUME NEW t \in Thread, NEW i \in Nat, e = <<t, i>>, i \in DOMAIN L[t], L[t][i] = u
      PROVE  e \in Entries(L, u)
  <2>1. e \in {t} \X {j \in DOMAIN L[t] : L[t][j] = u}
    BY <1>2
  <2> QED BY <2>1, Zenon DEF Entries
<1>3. ASSUME e \in Entries(L, u)
      PROVE  \E t \in Thread, i \in Nat : e = <<t, i>> /\ i \in DOMAIN L[t] /\ L[t][i] = u
  <2>1. PICK t \in Thread : e \in {t} \X {j \in DOMAIN L[t] : L[t][j] = u}
    BY <1>3, Zenon DEF Entries
  <2>2. PICK j \in DOMAIN L[t] : e = <<t, j>> /\ L[t][j] = u
    BY <2>1
  <2> QED BY <1>1, <2>2, Zenon
<1> QED BY <1>2, <1>3, Zenon

(* What is an entry ...                                                    *)
LEMMA EntryIs ==
    ASSUME NEW L \in [Thread -> Seq(Thread)], NEW u, NEW t \in Thread, NEW i
    PROVE  <<t, i>> \in Entries(L, u) <=> i \in DOMAIN L[t] /\ L[t][i] = u
<1>1. ASSUME i \in DOMAIN L[t], L[t][i] = u
      PROVE  <<t, i>> \in Entries(L, u)
  BY <1>1, EntriesAre
<1>2. ASSUME <<t, i>> \in Entries(L, u)
      PROVE  i \in DOMAIN L[t] /\ L[t][i] = u
  <2>1. PICK s \in Thread, j \in Nat : <<t, i>> = <<s, j>> /\ j \in DOMAIN L[s] /\ L[s][j] = u
    BY <1>2, EntriesAre
  <2>2. s = t /\ i = j
    BY <2>1
  <2> QED BY <2>1, <2>2
<1> QED BY <1>1, <1>2

(* ... and the form they all have.                                         *)
LEMMA EntriesForm ==
    ASSUME NEW L \in [Thread -> Seq(Thread)], NEW u
    PROVE  /\ \A t \in Thread : \A i : <<t, i>> \in Entries(L, u) <=> i \in DOMAIN L[t] /\ L[t][i] = u
           /\ \A e \in Entries(L, u) : \E t \in Thread, i \in Nat :
                  e = <<t, i>> /\ i \in DOMAIN L[t] /\ L[t][i] = u
<1>1. \A t \in Thread : \A i : <<t, i>> \in Entries(L, u) <=> i \in DOMAIN L[t] /\ L[t][i] = u
  <2> TAKE t \in Thread
  <2> TAKE i
  <2> QED BY EntryIs
<1>2. \A e \in Entries(L, u) : \E t \in Thread, i \in Nat :
        e = <<t, i>> /\ i \in DOMAIN L[t] /\ L[t][i] = u
  <2> TAKE e \in Entries(L, u)
  <2> QED BY EntriesAre
<1> QED BY <1>1, <1>2

Grows(L, M, t, ts, u) ==
    /\ u \notin ToSet(ts) => Entries(M, u) = Entries(L, u)
    /\ u \in ToSet(ts) => \E e : /\ e \notin Entries(L, u) /\ e[1] = t
                                 /\ Entries(M, u) = Entries(L, u) \cup {e}

(* thread_join() adds one entry for each thread that joins.                *)
LEMMA EntriesAppend ==
    ASSUME NEW L \in [Thread -> Seq(Thread)], NEW t \in Thread, NEW ts \in Seq(Thread),
           IsInjective(ts), NEW u, NEW M \in [Thread -> Seq(Thread)],
           M[t] = L[t] \o ts, \A s \in Thread : s # t => M[s] = L[s]
    PROVE  Grows(L, M, t, ts, u)
<1> DEFINE n == Len(L[t])
<1>0. M[t] = L[t] \o ts /\ L[t] \in Seq(Thread)
  OBVIOUS
<1>1. /\ n \in Nat /\ Len(ts) \in Nat /\ M \in [Thread -> Seq(Thread)]
      /\ \A s \in Thread : s # t => M[s] = L[s]
  OBVIOUS
<1>2. /\ DOMAIN L[t] = 1..n /\ DOMAIN M[t] = 1..n + Len(ts) /\ DOMAIN ts = 1..Len(ts)
      /\ \A i \in 1..n : M[t][i] = L[t][i]
      /\ \A k \in 1..Len(ts) : M[t][n + k] = ts[k]
  BY <1>0, <1>1
<1> HIDE DEF n
<1>3. \A e \in Entries(L, u) : e \in Entries(M, u)
  <2> TAKE e \in Entries(L, u)
  <2>1. PICK s \in Thread, i \in Nat : e = <<s, i>> /\ i \in DOMAIN L[s] /\ L[s][i] = u
    <3>1. L \in [Thread -> Seq(Thread)]
      OBVIOUS
    <3>2. \A x \in Entries(L, u) : \E s \in Thread, i \in Nat :
             x = <<s, i>> /\ i \in DOMAIN L[s] /\ L[s][i] = u
      BY <3>1, EntriesForm, Zenon
    <3> QED BY <3>2, Zenon
  <2>2. i \in DOMAIN M[s] /\ M[s][i] = u
    <3>1. CASE s = t
      <4>1. i \in 1..n /\ i \in 1..n + Len(ts)
        BY <1>1, <1>2, <2>1, <3>1
      <4> QED BY <1>2, <2>1, <3>1, <4>1, Zenon
    <3>2. CASE s # t
      BY <1>1, <2>1, <3>2, Zenon
    <3> QED BY <3>1, <3>2
  <2> QED BY <1>1, <2>1, <2>2, EntryIs
<1>4. \A e \in Entries(M, u) :
         e \in Entries(L, u) \/ \E k \in 1..Len(ts) : e = <<t, n + k>> /\ ts[k] = u
  <2> TAKE e \in Entries(M, u)
  <2>1. PICK s \in Thread, i \in Nat : e = <<s, i>> /\ i \in DOMAIN M[s] /\ M[s][i] = u
    <3>1. M \in [Thread -> Seq(Thread)]
      BY <1>1
    <3>2. \A x \in Entries(M, u) : \E s \in Thread, i \in Nat :
             x = <<s, i>> /\ i \in DOMAIN M[s] /\ M[s][i] = u
      BY <3>1, EntriesForm, Zenon
    <3> QED BY <3>2, Zenon
  <2>2. CASE s # t
    BY <1>1, <2>1, <2>2, EntryIs
  <2>3. CASE s = t /\ i <= n
    <3>1. i \in DOMAIN L[t] /\ L[t][i] = u
      <4>1. i \in 1..n
        BY <1>1, <1>2, <2>1, <2>3
      <4> QED BY <1>2, <2>1, <2>3, <4>1, Zenon
    <3> QED BY <2>1, <2>3, <3>1, EntryIs
  <2>4. CASE s = t /\ i > n
    <3>1. i \in 1..n + Len(ts)
      BY <1>2, <2>1, <2>4
    <3>2. i - n \in 1..Len(ts) /\ i = n + (i - n)
      BY <1>1, <2>4, <3>1
    <3> QED BY <1>2, <2>1, <2>4, <3>2
  <2>5. s = t => i \in Int
    BY <1>2, <2>1
  <2> QED BY <1>1, <2>2, <2>3, <2>4, <2>5
<1>5. ASSUME u \notin ToSet(ts)
      PROVE  Entries(M, u) = Entries(L, u)
  BY <1>2, <1>3, <1>4, <1>5 DEF ToSet
<1>6. ASSUME u \in ToSet(ts)
      PROVE  \E e : /\ e \notin Entries(L, u) /\ e[1] = t
                    /\ Entries(M, u) = Entries(L, u) \cup {e}
  <2>1. PICK k \in 1..Len(ts) : ts[k] = u
    BY <1>2, <1>6 DEF ToSet
  <2>2. \A j \in 1..Len(ts) : ts[j] = u => j = k
    BY <1>2, <2>1 DEF IsInjective
  <2>3. <<t, n + k>> \notin Entries(L, u)
    <3>1. n + k \notin 1..n
      BY <1>1
    <3> QED BY <1>1, <1>2, <3>1, EntryIs
  <2>4. <<t, n + k>> \in Entries(M, u)
    <3>1. n + k \in 1..n + Len(ts) /\ M[t][n + k] = u
      <4>1. n + k \in 1..n + Len(ts)
        BY <1>1
      <4> QED BY <1>2, <2>1, <4>1, Zenon
    <3> QED BY <1>1, <1>2, <3>1, EntryIs
  <2>5. Entries(M, u) = Entries(L, u) \cup {<<t, n + k>>}
    BY <1>3, <1>4, <2>2, <2>4
  <2> QED BY <2>3, <2>5
<1> QED BY <1>5, <1>6 DEF Grows

(* thread_notify() takes one entry of the first listener out, and moves    *)
(* the others up.                                                          *)
LEMMA EntriesTail ==
    ASSUME NEW L \in [Thread -> Seq(Thread)], NEW t \in Thread, L[t] # <<>>, NEW u
    PROVE  LET M == [L EXCEPT ![t] = Tail(@)] IN
           /\ Others(M, u, t) = Others(L, u, t)
           /\ AtMostTwo(Within(L, u, t)) => AtMostTwo(Within(M, u, t))
           /\ IsFiniteSet(Entries(L, u)) =>
                /\ Cardinality(Entries(L, u)) \in Nat
                /\ u = Head(L[t]) => Cardinality(Entries(L, u)) >= 1
                /\ Cardinality(Entries(M, u))
                     = Cardinality(Entries(L, u)) - (IF u = Head(L[t]) THEN 1 ELSE 0)
<1> DEFINE M == [L EXCEPT ![t] = Tail(@)]
           n == Len(L[t])
<1>0. M[t] = Tail(L[t]) /\ L[t] \in Seq(Thread)
  OBVIOUS
<1>1. /\ n \in Nat /\ n >= 1 /\ M \in [Thread -> Seq(Thread)]
      /\ \A s \in Thread : s # t => M[s] = L[s]
  OBVIOUS
<1>2. /\ DOMAIN L[t] = 1..n /\ DOMAIN M[t] = 1..n - 1 /\ Head(L[t]) = L[t][1]
      /\ \A i \in 1..n - 1 : M[t][i] = L[t][i + 1]
  BY <1>0, <1>1
<1> HIDE DEF M, n
<1>20. /\ \A s \in Thread : \A i : <<s, i>> \in Entries(L, u) <=> i \in DOMAIN L[s] /\ L[s][i] = u
      /\ \A e \in Entries(L, u) : \E s \in Thread, i \in Nat :
             e = <<s, i>> /\ i \in DOMAIN L[s] /\ L[s][i] = u
  BY EntriesForm, Zenon
<1>21. /\ \A s \in Thread : \A i : <<s, i>> \in Entries(M, u) <=> i \in DOMAIN M[s] /\ M[s][i] = u
      /\ \A e \in Entries(M, u) : \E s \in Thread, i \in Nat :
             e = <<s, i>> /\ i \in DOMAIN M[s] /\ M[s][i] = u
  <2>1. M \in [Thread -> Seq(Thread)]
    BY <1>1
  <2> QED BY <2>1, EntriesForm, Zenon
<1>3. \A s \in Thread : \A i : s # t => (<<s, i>> \in Entries(M, u) <=> <<s, i>> \in Entries(L, u))
  BY <1>1, <1>20, <1>21, Zenon
<1>4. \A i : <<t, i>> \in Entries(M, u) <=> i \in 1..n - 1 /\ L[t][i + 1] = u
  BY <1>2, <1>21, Zenon
<1>5. \A i : <<t, i>> \in Entries(L, u) <=> i \in 1..n /\ L[t][i] = u
  BY <1>2, <1>20, Zenon
<1>6. /\ \A e \in Entries(M, u) : \E s \in Thread, i \in Nat : e = <<s, i>>
      /\ \A e \in Entries(L, u) : \E s \in Thread, i \in Nat : e = <<s, i>>
  BY <1>20, <1>21, Zenon
<1>7. Others(M, u, t) = Others(L, u, t)
  <2>1. \A e \in Others(M, u, t) : e \in Others(L, u, t)
    BY <1>3, <1>6 DEF Others
  <2>2. \A e \in Others(L, u, t) : e \in Others(M, u, t)
    BY <1>3, <1>6 DEF Others
  <2> QED BY <2>1, <2>2 DEF Others
<1>8. ASSUME AtMostTwo(Within(L, u, t))
      PROVE  AtMostTwo(Within(M, u, t))
  <2>1. PICK e, f : Within(L, u, t) \subseteq {e, f}
    BY <1>8 DEF AtMostTwo
  <2> DEFINE d(x) == <<t, x[2] - 1>>
  <2>2. ASSUME NEW x \in Within(M, u, t)
        PROVE  x \in {d(e), d(f)}
    <3>1. x \in Entries(M, u) /\ x[1] = t
      BY DEF Within
    <3>2. PICK i \in Nat : x = <<t, i>>
      <4>1. PICK s \in Thread, i \in Nat : x = <<s, i>>
        BY <1>6, <3>1
      <4> QED BY <3>1, <4>1
    <3>3. i \in 1..n - 1 /\ L[t][i + 1] = u
      BY <1>4, <3>1, <3>2
    <3>4. <<t, i + 1>> \in Within(L, u, t)
      <4>1. i + 1 \in 1..n
        BY <1>1, <3>3
      <4>2. <<t, i + 1>> \in Entries(L, u)
        BY <1>5, <3>3, <4>1, Zenon
      <4> QED BY <4>2 DEF Within
    <3>5. <<t, i + 1>> \in {e, f}
      BY <2>1, <3>4, Zenon
    <3>6. d(<<t, i + 1>>) = x
      <4>1. (i + 1) - 1 = i
        OBVIOUS
      <4> QED BY <3>2, <4>1
    <3> QED BY <3>5, <3>6
  <2> QED BY <2>2 DEF AtMostTwo
<1>9. ASSUME IsFiniteSet(Entries(L, u))
      PROVE  /\ Cardinality(Entries(L, u)) \in Nat
             /\ u = Head(L[t]) => Cardinality(Entries(L, u)) >= 1
             /\ Cardinality(Entries(M, u))
                  = Cardinality(Entries(L, u)) - (IF u = Head(L[t]) THEN 1 ELSE 0)
  <2> DEFINE S == Entries(L, u) \ {<<t, 1>>}
             T == Entries(M, u)
             f == [e \in S |-> IF e[1] = t THEN <<t, e[2] - 1>> ELSE e]
  <2>1. \A e \in S : f[e] \in T
    <3> TAKE e \in S
    <3>1. PICK s \in Thread, i \in Nat : e = <<s, i>>
      BY <1>6
    <3>2. CASE s = t
      <4>1. i \in 1..n /\ L[t][i] = u /\ i # 1
        BY <1>5, <3>1, <3>2
      <4>2. i - 1 \in 1..n - 1 /\ (i - 1) + 1 = i
        BY <1>1, <4>1
      <4> QED BY <1>4, <3>1, <3>2, <4>1, <4>2
    <3>3. CASE s # t
      BY <1>3, <3>1, <3>3
    <3> QED BY <3>2, <3>3
  <2>2. \A a, b \in S : f[a] = f[b] => a = b
    <3> SUFFICES ASSUME NEW a \in S, NEW b \in S, f[a] = f[b]
                 PROVE  a = b
      OBVIOUS
    <3>1. PICK s \in Thread, i \in Nat : a = <<s, i>>
      BY <1>6
    <3>2. PICK r \in Thread, j \in Nat : b = <<r, j>>
      BY <1>6
    <3>3. /\ s = t => i \in 1..n
          /\ r = t => j \in 1..n
      BY <1>5, <3>1, <3>2
    <3>4. f[a] = (IF s = t THEN <<t, i - 1>> ELSE <<s, i>>)
      BY <3>1
    <3>5. f[b] = (IF r = t THEN <<t, j - 1>> ELSE <<r, j>>)
      BY <3>2
    <3>6. s = r
      BY <3>4, <3>5
    <3>7. i = j
      <4>1. CASE s = t
        <5>1. i - 1 = j - 1
          BY <3>4, <3>5, <3>6, <4>1
        <5> QED BY <1>1, <3>3, <3>6, <4>1, <5>1
      <4>2. CASE s # t
        BY <3>4, <3>5, <3>6, <4>2
      <4> QED BY <4>1, <4>2
    <3> QED BY <3>1, <3>2, <3>6, <3>7
  <2>3. \A e \in T : \E a \in S : f[a] = e
    <3> TAKE e \in T
    <3>1. PICK s \in Thread, i \in Nat : e = <<s, i>>
      BY <1>6
    <3>2. CASE s = t
      <4>1. i \in 1..n - 1 /\ L[t][i + 1] = u
        BY <1>4, <3>1, <3>2
      <4>2. <<t, i + 1>> \in S
        <5>1. i + 1 \in 1..n /\ i + 1 # 1
          BY <1>1, <4>1
        <5> QED BY <1>5, <4>1, <5>1
      <4>3. f[<<t, i + 1>>] = <<t, (i + 1) - 1>> /\ (i + 1) - 1 = i
        BY <1>1, <4>1, <4>2
      <4> QED BY <3>1, <3>2, <4>2, <4>3
    <3>3. CASE s # t
      <4>1. e \in S
        BY <1>3, <3>1, <3>3
      <4> QED BY <3>1, <3>3, <4>1
    <3> QED BY <3>2, <3>3
  <2>4. f \in Bijection(S, T)
    <3>1. f \in [S -> T]
      BY <2>1
    <3> HIDE DEF f, S, T
    <3> QED BY <2>2, <2>3, <3>1 DEF Bijection, Injection, Surjection, IsInjective
  <2>5. /\ IsFiniteSet(S)
        /\ Cardinality(S) = IF <<t, 1>> \in Entries(L, u) THEN Cardinality(Entries(L, u)) - 1
                                                          ELSE Cardinality(Entries(L, u))
    BY <1>9, FS_RemoveElement
  <2>6. Cardinality(T) = Cardinality(S) /\ IsFiniteSet(T)
    <3> HIDE DEF S, T, f
    <3>1. ExistsBijection(S, T)
      BY <2>4 DEF ExistsBijection
    <3> QED BY <2>5, <3>1, FS_Bijection
  <2>7. <<t, 1>> \in Entries(L, u) <=> u = Head(L[t])
    BY <1>1, <1>2, <1>5
  <2>8. Cardinality(S) \in Nat /\ Cardinality(Entries(L, u)) \in Nat
    BY <1>9, <2>5, FS_CardinalityType
  <2> HIDE DEF S, f
  <2> QED BY <2>5, <2>6, <2>7, <2>8
<1> QED BY <1>7, <1>8, <1>9 DEF M

-----------------------------------------------------------------------------
(* Two entries in one list and two in the others are at most four.         *)
LEMMA AtMostFour ==
    ASSUME NEW L, NEW u, NEW v, AtMostTwo(Others(L, u, v)), AtMostTwo(Within(L, u, v))
    PROVE  IsFiniteSet(Entries(L, u)) /\ Cardinality(Entries(L, u)) \in 0..4
<1>1. PICK a, b : Others(L, u, v) \subseteq {a, b}
  BY DEF AtMostTwo
<1>2. PICK c, d : Within(L, u, v) \subseteq {c, d}
  BY DEF AtMostTwo
<1> DEFINE two == {a} \cup {b}
           three == two \cup {c}
           four == three \cup {d}
<1>3. IsFiniteSet({a}) /\ Cardinality({a}) = 1
  BY FS_Singleton
<1>4. IsFiniteSet(two) /\ Cardinality(two) \in 1..2
  BY <1>3, FS_AddElement
<1>5. IsFiniteSet(three) /\ Cardinality(three) \in 1..3
  <2> HIDE DEF two
  <2> QED BY <1>4, FS_AddElement
<1>6. IsFiniteSet(four) /\ Cardinality(four) \in 1..4
  <2> HIDE DEF three
  <2> QED BY <1>5, FS_AddElement
<1>7. Entries(L, u) \subseteq four
  BY <1>1, <1>2 DEF Others, Within
<1> HIDE DEF four
<1>8. IsFiniteSet(Entries(L, u)) /\ Cardinality(Entries(L, u)) <= Cardinality(four)
  BY <1>6, <1>7, FS_Subset
<1>9. Cardinality(Entries(L, u)) \in Nat
  BY <1>8, FS_CardinalityType
<1> QED BY <1>6, <1>8, <1>9

(* Without one of its elements, a set of at most two has at most one.      *)
LEMMA OneLess ==
    ASSUME NEW S, AtMostTwo(S), NEW x \in S, NEW T \in SUBSET S, x \notin T
    PROVE  AtMostOne(T)
<1>1. PICK e, f : S \subseteq {e, f}
  BY DEF AtMostTwo
<1>2. T \subseteq {e} \/ T \subseteq {f}
  BY <1>1
<1> QED BY <1>2, Zenon DEF AtMostOne

(* kerneld wakes the listeners of a thread that is in no process of the    *)
(* run list.                                                               *)
LEMMA VictimIsDead ==
    ASSUME SchedInv
    PROVE  /\ Victim \in Thread \cup {NULL}
           /\ \A p \in ToSet(procs) : Victim \notin ToSet(threads[p])
<1>1. CASE KdVictims = <<>>
  <2>1. \A p \in ToSet(procs) : NULL \notin ToSet(threads[p])
    BY Listed, SchedulerAssumption
  <2> QED BY <1>1, <2>1 DEF Victim
<1>2. CASE KdVictims # <<>>
  <2>1. Head(KdVictims) \in ToSet(KdVictims) /\ Head(KdVictims) \in Thread
    BY <1>2, Victims, TailElements
  <2>2. ASSUME NEW p \in ToSet(procs)
        PROVE  ToSet(KdVictims) \cap ToSet(threads[p]) = {}
    <3>1. p \in Process
      BY Listed
    <3>2. CASE Head(kprocs) \in Process /\ p # Head(kprocs) /\ KdVictims = threads[Head(kprocs)]
      BY <3>1, <3>2 DEF SchedInv, ThreadLists
    <3>3. CASE KdVictims = kthreads
      BY <3>1, <3>3 DEF SchedInv, ThreadLists
    <3> QED BY <1>2, <3>2, <3>3, Victims
  <2> QED BY <1>2, <2>1, <2>2 DEF Victim
<1> QED BY <1>1, <1>2

(* The lists of listeners stay when they are left alone and processes and  *)
(* threads only leave the run list.                                        *)
LEMMA JoinsStay ==
    ASSUME JoinInv, listener' = listener, Victim' = Victim, created \subseteq created',
           ToSet(procs') \subseteq ToSet(procs),
           \A p \in ToSet(procs') : ToSet(threads'[p]) \subseteq ToSet(threads[p])
    PROVE  JoinInv'
<1>1. \A p \in ToSet(procs') : AllWait(p) => AllWait(p)'
  BY Zenon DEF AllWait
<1> QED BY <1>1, Zenon DEF JoinInv

(* kerneld goes on to the next thread, after the last listener of this one *)
(* was woken.                                                              *)
LEMMA VictimMoves ==
    ASSUME SchedInv, JoinInv, listener' = listener, created' = created,
           Victim # NULL => listener[Victim] = <<>>,
           procs' = procs, \A p \in ToSet(procs) : threads'[p] = threads[p]
    PROVE  JoinInv'
<1> DEFINE w == Victim'
<1>0. listener \in [Thread -> Seq(Thread)] /\ Victim \in Thread \cup {NULL} /\ NULL \notin Thread
  BY VictimIsDead, SchedulerAssumption DEF SchedInv, TypeOK
<1>1. ASSUME NEW u
      PROVE  Others(listener, u, Victim) = Entries(listener, u)
  <2>1. \A e \in Entries(listener, u) : e[1] # Victim
    <3> TAKE e \in Entries(listener, u)
    <3>1. PICK t \in Thread, i \in Nat : e = <<t, i>> /\ i \in DOMAIN listener[t]
      BY <1>0, EntriesForm
    <3>2. listener[t] # <<>>
      BY <3>1
    <3> QED BY <1>0, <3>1, <3>2
  <2> QED BY <2>1 DEF Others
<1>2. ASSUME NEW u
      PROVE  /\ Others(listener, u, w) \subseteq Entries(listener, u)
             /\ Within(listener, u, w) \subseteq Entries(listener, u)
  BY DEF Others, Within
<1>3. \A u \in Thread : AtMostTwo(Entries(listener, u))
  BY <1>1 DEF JoinInv
<1>4. \A u \in Thread : AtMostTwo(Others(listener, u, w)) /\ AtMostTwo(Within(listener, u, w))
  BY <1>2, <1>3, Zenon DEF AtMostTwo
<1>5. ASSUME NEW p \in ToSet(procs), NEW u \in ToSet(threads[p])
      PROVE  AtMostOne(Others(listener, u, w)) \/ AllWait(p)'
  <2>1. u \in Thread
    BY Listed
  <2>2. CASE AtMostOne(Entries(listener, u))
    BY <1>2, <2>2, Zenon DEF AtMostOne
  <2>3. CASE AllWait(p)
    <3>1. PICK t \in Thread : ToSet(threads[p]) \subseteq ToSet(listener[t])
      BY <2>3 DEF AllWait
    <3>2. CASE t # w
      BY <3>1, <3>2 DEF AllWait
    <3>3. CASE t = w
      <4>1. PICK i \in DOMAIN listener[t] : listener[t][i] = u
        BY <3>1 DEF ToSet
      <4>2. <<t, i>> \in Entries(listener, u)
        BY <1>0, <4>1, EntryIs
      <4>3. <<t, i>> \notin Others(listener, u, w)
        BY <3>3 DEF Others
      <4> QED BY <1>2, <1>3, <2>1, <4>2, <4>3, OneLess
    <3> QED BY <3>2, <3>3
  <2> QED BY <1>1, <2>2, <2>3 DEF JoinInv
<1>6. \A t \in Thread : ToSet(listener[t]) \subseteq created
  BY DEF JoinInv
<1>7. \A u \in Thread : /\ AtMostTwo(Others(listener, u, Victim))'
                         /\ AtMostTwo(Within(listener, u, Victim))'
  BY <1>4
<1>8. \A p \in ToSet(procs') : \A u \in ToSet(threads'[p]) :
         AtMostOne(Others(listener, u, Victim))' \/ AllWait(p)'
  BY <1>5
<1> QED BY <1>6, <1>7, <1>8, Zenon DEF JoinInv

(* The rest of a list holds nothing else.                                  *)
LEMMA TailSubset ==
    ASSUME NEW S, NEW s \in Seq(S), s # <<>>
    PROVE  ToSet(Tail(s)) \subseteq ToSet(s)
<1>1. /\ Len(s) \in Nat /\ Len(s) > 0 /\ DOMAIN s = 1..Len(s) /\ DOMAIN Tail(s) = 1..Len(s) - 1
      /\ \A i \in 1..Len(s) - 1 : Tail(s)[i] = s[i + 1]
  OBVIOUS
<1>2. \A i \in 1..Len(s) - 1 : i + 1 \in 1..Len(s)
  BY <1>1
<1> QED BY <1>1, <1>2 DEF ToSet

(* The current thread is in no list of listeners, and so there is none     *)
(* that holds all threads of its process.                                  *)
LEMMA RunnerWaitsForNobody ==
    ASSUME SchedInv, JoinInv, BlockInv, phase = "run"
    PROVE  Entries(listener, CurrentThread) = {} /\ ~AllWait(current)
<1>1. CurrentThread \in Thread /\ blocks[CurrentThread] = 0
  BY CurrentIsListed DEF BlockInv
<1>2. /\ IsFiniteSet(Entries(listener, CurrentThread))
      /\ Cardinality(Entries(listener, CurrentThread)) \in 0..4
  BY <1>1, AtMostFour, Zenon DEF JoinInv
<1>3. Resources(CurrentThread) = 0
  BY <1>1, Zenon DEF BlockInv, BlocksCountResources
<1>4. Cardinality(Entries(listener, CurrentThread)) = 0
  BY <1>2, <1>3 DEF Resources, Joins, Entries
<1>5. Entries(listener, CurrentThread) = {}
  BY <1>2, <1>4, FS_EmptySet
<1>6. ASSUME AllWait(current)
      PROVE  FALSE
  <2>1. PICK t \in Thread : ToSet(threads[current]) \subseteq ToSet(listener[t])
    BY <1>6 DEF AllWait
  <2>2. PICK i \in DOMAIN listener[t] : listener[t][i] = CurrentThread
    BY <2>1, CurrentIsListed DEF ToSet
  <2>3. listener \in [Thread -> Seq(Thread)]
    BY DEF SchedInv, TypeOK
  <2>4. <<t, i>> \in Entries(listener, CurrentThread)
    BY <2>2, <2>3, EntryIs
  <2> QED BY <1>5, <2>4
<1> QED BY <1>5, <1>6

(* A new thread waits for nobody.  It is attached to a process of which    *)
(* not all threads wait.                                                   *)
LEMMA NewThreadJoins ==
    ASSUME SchedInv, JoinInv, listener' = listener, Victim' = Victim, created \subseteq created',
           NEW x \in Thread \ created, NEW q,
           \A p \in ToSet(procs') : p # q =>
               p \in ToSet(procs) /\ ToSet(threads'[p]) \subseteq ToSet(threads[p]),
           q \in ToSet(procs) => ~AllWait(q),
           \A u \in ToSet(threads'[q]) : u # x => q \in ToSet(procs) /\ u \in ToSet(threads[q])
    PROVE  JoinInv'
<1>1. \A p \in ToSet(procs') : p # q /\ AllWait(p) => AllWait(p)'
  BY Zenon DEF AllWait
<1>2. AtMostOne(Others(listener, x, Victim))
  <2>1. Entries(listener, x) = {}
    <3>1. \A t \in Thread : \A i \in DOMAIN listener[t] : listener[t][i] # x
      BY DEF JoinInv, ToSet
    <3>2. listener \in [Thread -> Seq(Thread)]
      BY DEF SchedInv, TypeOK
    <3> QED BY <3>1, <3>2, EntriesForm
  <2> QED BY <2>1 DEF Others, AtMostOne
<1>3. \A u \in ToSet(threads'[q]) : AtMostOne(Others(listener, u, Victim))
  BY <1>2, Zenon DEF JoinInv
<1> QED BY <1>1, <1>3, Zenon DEF JoinInv

(* kerneld wakes a listener.                                               *)
LEMMA NotifyJoins ==
    ASSUME SchedInv, JoinInv, Victim' = Victim, Victim \in Thread, listener[Victim] # <<>>,
           listener' = [listener EXCEPT ![Victim] = Tail(@)],
           UNCHANGED <<procs, threads, created>>
    PROVE  JoinInv'
<1>0. listener \in [Thread -> Seq(Thread)]
  BY DEF SchedInv, TypeOK
<1>1. \A u \in Thread : /\ Others(listener', u, Victim) = Others(listener, u, Victim)
                        /\ AtMostTwo(Within(listener', u, Victim))
  <2> TAKE u \in Thread
  <2>1. AtMostTwo(Within(listener, u, Victim))
    BY DEF JoinInv
  <2> QED BY <1>0, <2>1, EntriesTail
<1>2. \A t \in Thread \ {Victim} : listener'[t] = listener[t]
  BY <1>0
<1>3. \A p : AllWait(p) => AllWait(p)'
  BY <1>2, Zenon DEF AllWait
<1>4. \A t \in Thread : ToSet(listener'[t]) \subseteq created
  <2>1. listener[Victim] \in Seq(Thread) /\ listener'[Victim] = Tail(listener[Victim])
    BY <1>0
  <2>2. ToSet(Tail(listener[Victim])) \subseteq ToSet(listener[Victim])
    BY <2>1, TailSubset
  <2> QED BY <1>2, <2>1, <2>2 DEF JoinInv
<1>5. \A p \in ToSet(procs) : \A u \in ToSet(threads[p]) : u \in Thread
  BY Listed
<1> QED BY <1>1, <1>3, <1>4, <1>5, Zenon DEF JoinInv

(* A list of which another is a part holds what that one holds.            *)
LEMMA AppendHolds ==
    ASSUME NEW S, NEW a \in Seq(S), NEW b \in Seq(S)
    PROVE  ToSet(a \o b) = ToSet(a) \cup ToSet(b)
BY ConcatElements

(* thread_join() and _sc_wait(): the current thread, or all threads of its *)
(* process, wait for the exit of a thread.                                 *)
LEMMA JoinJoins ==
    ASSUME SchedInv, JoinInv, BlockInv, phase = "run", Victim' = Victim,
           NEW t \in Thread, t # Victim, NEW ts \in Seq(Thread), IsInjective(ts),
           \/ ts = threads[current]
           \/ ToSet(ts) = {CurrentThread},
           listener' = [listener EXCEPT ![t] = listener[t] \o ts],
           UNCHANGED <<procs, threads, created>>
    PROVE  JoinInv'
<1>0. listener \in [Thread -> Seq(Thread)]
  BY DEF SchedInv, TypeOK
<1>1. /\ Entries(listener, CurrentThread) = {} /\ ~AllWait(current)
      /\ current \in ToSet(procs) /\ current \in Process
      /\ ToSet(ts) \subseteq ToSet(threads[current])
      /\ CurrentThread \in ToSet(threads[current])
  BY RunnerWaitsForNobody, CurrentIsListed
<1>20. listener' \in [Thread -> Seq(Thread)] /\ listener'[t] = listener[t] \o ts
  BY <1>0
<1>2. /\ ToSet(listener'[t]) = ToSet(listener[t]) \cup ToSet(ts)
      /\ \A s \in Thread : s # t => listener'[s] = listener[s]
  BY <1>0, <1>20, AppendHolds
<1>3. \A p : AllWait(p) => AllWait(p)'
  <2> SUFFICES ASSUME NEW p, AllWait(p) PROVE AllWait(p)'
    OBVIOUS
  <2>1. PICK s \in Thread \ {Victim} : ToSet(threads[p]) \subseteq ToSet(listener[s])
    BY DEF AllWait
  <2>2. ToSet(listener[s]) \subseteq ToSet(listener'[s])
    BY <1>2
  <2> QED BY <2>1, <2>2 DEF AllWait
<1>40. \A u : Grows(listener, listener', t, ts, u)
  <2> TAKE u
  <2> QED BY <1>0, <1>20, <1>2, EntriesAppend
<1>4. \A u : u \notin ToSet(ts) => Entries(listener', u) = Entries(listener, u)
  BY <1>40 DEF Grows
<1> PICK q : q = current
  OBVIOUS
<1>5. ASSUME NEW u \in ToSet(ts)
      PROVE  /\ AtMostTwo(Others(listener', u, Victim))
             /\ AtMostTwo(Within(listener', u, Victim))
             /\ AtMostOne(Others(listener', u, Victim)) \/ AllWait(q)'
  <2>0. u \in Thread /\ u \in ToSet(threads[current])
    BY <1>1, Listed
  <2>1. PICK e : e[1] = t /\ Entries(listener', u) = Entries(listener, u) \cup {e}
    BY <1>40, Zenon DEF Grows
  <2>2. /\ Others(listener', u, Victim) = Others(listener, u, Victim) \cup {e}
        /\ Within(listener', u, Victim) = Within(listener, u, Victim)
    <3>1. \A x : x \in Entries(listener', u) <=> x \in Entries(listener, u) \/ x = e
      BY <2>1
    <3>2. \A x : x \in Others(listener', u, Victim) <=> x \in Others(listener, u, Victim) \/ x = e
      BY <2>1, <3>1 DEF Others
    <3>3. \A x : x \in Within(listener', u, Victim) <=> x \in Within(listener, u, Victim)
      BY <2>1, <3>1 DEF Within
    <3> QED BY <3>2, <3>3, Zenon
  <2>3. AtMostTwo(Within(listener, u, Victim)) /\ AtMostOne(Others(listener, u, Victim))
    BY <1>1, <2>0 DEF JoinInv
  <2>4. AtMostTwo(Others(listener', u, Victim))
    <3>1. PICK f : Others(listener, u, Victim) \subseteq {f}
      BY <2>3 DEF AtMostOne
    <3>2. Others(listener', u, Victim) \subseteq {e, f}
      BY <2>2, <3>1
    <3> QED BY <3>2, Zenon DEF AtMostTwo
  <2>5. CASE ts = threads[current]
    <3>1. ToSet(threads[current]) \subseteq ToSet(listener'[t])
      BY <1>2, <2>5
    <3> QED BY <2>2, <2>3, <2>4, <3>1 DEF AllWait
  <2>6. CASE ToSet(ts) = {CurrentThread}
    <3>1. Others(listener', u, Victim) \subseteq {e}
      BY <1>1, <2>2, <2>6 DEF Others
    <3> QED BY <2>2, <2>3, <2>4, <3>1, Zenon DEF AtMostOne
  <2> QED BY <2>5, <2>6
<1>6. \A s \in Thread : ToSet(listener'[s]) \subseteq created
  <2>1. ToSet(ts) \subseteq created
    BY <1>1, Listed
  <2> QED BY <1>2, <2>1 DEF JoinInv
<1>7. ASSUME NEW u \in Thread
      PROVE  AtMostTwo(Others(listener', u, Victim)) /\ AtMostTwo(Within(listener', u, Victim))
  <2>1. CASE u \in ToSet(ts)
    BY <1>5, <2>1
  <2>2. CASE u \notin ToSet(ts)
    BY <1>4, <2>2 DEF JoinInv, Others, Within
  <2> QED BY <2>1, <2>2
<1>8. ASSUME NEW p \in ToSet(procs), NEW u \in ToSet(threads[p])
      PROVE  AtMostOne(Others(listener', u, Victim)) \/ AllWait(p)'
  <2>1. CASE u \in ToSet(ts)
    <3>1. p = q
      BY <1>1, <2>1, Listed
    <3> QED BY <1>5, <2>1, <3>1
  <2>2. CASE u \notin ToSet(ts)
    <3>1. Others(listener', u, Victim) = Others(listener, u, Victim)
      BY <1>4, <2>2 DEF Others
    <3> QED BY <1>3, <3>1 DEF JoinInv
  <2> QED BY <2>1, <2>2
<1> QED BY <1>6, <1>7, <1>8, Zenon DEF JoinInv

-----------------------------------------------------------------------------
(* What blocks a thread.                                                   *)
LEMMA ResourcesAre ==
    ASSUME JoinInv, NEW u \in Thread
    PROVE  /\ IsFiniteSet(Entries(listener, u)) /\ Cardinality(Entries(listener, u)) \in 0..4
           /\ Resources(u) = Cardinality(Entries(listener, u)) + (IF sleeping[u] THEN 1 ELSE 0)
                                                               + (IF resume = u THEN 1 ELSE 0)
           /\ Resources(u) \in 0..6
<1>1. IsFiniteSet(Entries(listener, u)) /\ Cardinality(Entries(listener, u)) \in 0..4
  BY AtMostFour, Zenon DEF JoinInv
<1>2. Joins(u) = Entries(listener, u)
  BY DEF Joins, Entries
<1>3. Resources(u) = Cardinality(Entries(listener, u)) + (IF sleeping[u] THEN 1 ELSE 0)
                                                       + (IF resume = u THEN 1 ELSE 0)
  BY <1>2 DEF Resources
<1> QED BY <1>1, <1>3

(* The count stays when nothing changes.                                   *)
LEMMA CountStays ==
    ASSUME BlocksCountResources, UNCHANGED <<blocks, sleeping, listener, resume>>
    PROVE  BlocksCountResources'
BY DEF BlocksCountResources, Resources, Joins

(* The block of a call or of an alarm is counted.                          *)
LEMMA CountSleep ==
    ASSUME SchedInv, JoinInv, BlocksCountResources, listener' = listener,
           NEW t \in Thread, NEW r \in Thread \cup {NULL},
           NEW d \in -1..2,
           blocks' = [blocks EXCEPT ![t] = UInt8(@ + d)],
           \A u \in Thread \ {t} : /\ sleeping'[u] = sleeping[u]
                                   /\ resume' = u <=> resume = u,
           d = ((IF sleeping'[t] THEN 1 ELSE 0) - (IF sleeping[t] THEN 1 ELSE 0))
                 + ((IF resume' = t THEN 1 ELSE 0) - (IF resume = t THEN 1 ELSE 0))
    PROVE  BlocksCountResources'
<1>0. blocks \in [Thread -> 0..255]
  BY DEF SchedInv, TypeOK
<1>1. ASSUME NEW u \in Thread
      PROVE  Resources(u)' = Cardinality(Entries(listener, u)) + (IF sleeping'[u] THEN 1 ELSE 0)
                                                              + (IF resume' = u THEN 1 ELSE 0)
  <2>1. Joins(u)' = Entries(listener, u)
    BY DEF Joins, Entries
  <2> QED BY <2>1 DEF Resources
<1>2. \A u \in Thread \ {t} : blocks'[u] = Resources(u)'
  <2> TAKE u \in Thread \ {t}
  <2>1. blocks'[u] = blocks[u] /\ blocks[u] = Resources(u)
    BY <1>0 DEF BlocksCountResources
  <2> QED BY <1>1, <2>1, ResourcesAre
<1>3. blocks'[t] = Resources(t)'
  <2> DEFINE c == Cardinality(Entries(listener, t))
  <2>1. /\ c \in 0..4 /\ Resources(t) = c + (IF sleeping[t] THEN 1 ELSE 0)
                                         + (IF resume = t THEN 1 ELSE 0)
        /\ blocks[t] = Resources(t) /\ blocks'[t] = UInt8(blocks[t] + d)
    BY <1>0, ResourcesAre DEF BlocksCountResources
  <2>2. Resources(t)' = c + (IF sleeping'[t] THEN 1 ELSE 0) + (IF resume' = t THEN 1 ELSE 0)
    BY <1>1
  <2> HIDE DEF c
  <2>3. blocks[t] + d = Resources(t)' /\ Resources(t)' \in 0..6
    BY <2>1, <2>2
  <2> QED BY <2>1, <2>3 DEF UInt8
<1> QED BY <1>2, <1>3 DEF BlocksCountResources

(* A thread that joins counts one more.                                    *)
LEMMA CountJoin ==
    ASSUME SchedInv, JoinInv, BlocksCountResources, UNCHANGED <<sleeping, resume>>,
           NEW t \in Thread, NEW ts \in Seq(Thread), IsInjective(ts), ThreadJoin(ts, t)
    PROVE  BlocksCountResources'
<1>0. blocks \in [Thread -> 0..255] /\ listener \in [Thread -> Seq(Thread)]
  BY DEF SchedInv, TypeOK
<1>1. /\ listener' = [listener EXCEPT ![t] = listener[t] \o ts]
      /\ blocks' = [u \in Thread |-> IF u \in ToSet(ts) THEN UInt8(blocks[u] + 1) ELSE blocks[u]]
  BY DEF ThreadJoin
<1>2. /\ listener' \in [Thread -> Seq(Thread)] /\ listener'[t] = listener[t] \o ts
      /\ \A s \in Thread : s # t => listener'[s] = listener[s]
  BY <1>0, <1>1
<1>3. ASSUME NEW u \in Thread
      PROVE  blocks'[u] = Resources(u)'
  <2> DEFINE c == Cardinality(Entries(listener, u))
             d == Cardinality(Entries(listener', u))
             more == (IF sleeping[u] THEN 1 ELSE 0) + (IF resume = u THEN 1 ELSE 0)
  <2>1. /\ IsFiniteSet(Entries(listener, u)) /\ c \in 0..4 /\ more \in 0..2
        /\ blocks[u] = c + more
    BY ResourcesAre DEF BlocksCountResources
  <2>2. Resources(u)' = d + more
    <3>1. Joins(u)' = Entries(listener', u)
      BY DEF Joins, Entries
    <3>2. d \in Nat
      <4>1. Grows(listener, listener', t, ts, u)
        BY <1>0, <1>2, EntriesAppend
      <4>2. IsFiniteSet(Entries(listener', u))
        BY <2>1, <4>1, FS_AddElement DEF Grows
      <4> QED BY <4>2, FS_CardinalityType
    <3> QED BY <3>1, <3>2 DEF Resources
  <2>3. d = c + (IF u \in ToSet(ts) THEN 1 ELSE 0)
    <3>1. Grows(listener, listener', t, ts, u)
      BY <1>0, <1>2, EntriesAppend
    <3>2. CASE u \in ToSet(ts)
      <4>1. PICK e : e \notin Entries(listener, u) /\ Entries(listener', u) = Entries(listener, u) \cup {e}
        BY <3>1, <3>2, Zenon DEF Grows
      <4> QED BY <2>1, <3>2, <4>1, FS_AddElement
    <3>3. CASE u \notin ToSet(ts)
      BY <2>1, <3>1, <3>3 DEF Grows
    <3> QED BY <3>2, <3>3
  <2>4. blocks'[u] = IF u \in ToSet(ts) THEN UInt8(blocks[u] + 1) ELSE blocks[u]
    BY <1>1
  <2> HIDE DEF c, d, more
  <2> QED BY <2>1, <2>2, <2>3, <2>4 DEF UInt8
<1> QED BY <1>3 DEF BlocksCountResources

(* A listener that is woken counts one less.                               *)
LEMMA CountNotify ==
    ASSUME SchedInv, JoinInv, BlocksCountResources, UNCHANGED <<sleeping, resume>>,
           NEW t \in Thread, listener[t] # <<>>,
           listener' = [listener EXCEPT ![t] = Tail(@)],
           blocks' = [blocks EXCEPT ![Head(listener[t])] = UInt8(@ - 1)]
    PROVE  BlocksCountResources' /\ blocks[Head(listener[t])] >= 1
<1>0. /\ blocks \in [Thread -> 0..255] /\ listener \in [Thread -> Seq(Thread)]
      /\ Head(listener[t]) \in Thread
  <2>1. blocks \in [Thread -> 0..255] /\ listener \in [Thread -> Seq(Thread)]
    BY DEF SchedInv, TypeOK
  <2> QED BY <2>1, TailElements
<1>1. ASSUME NEW u \in Thread
      PROVE  blocks'[u] = Resources(u)' /\ (u = Head(listener[t]) => blocks[u] >= 1)
  <2> DEFINE c == Cardinality(Entries(listener, u))
             d == Cardinality(Entries(listener', u))
             more == (IF sleeping[u] THEN 1 ELSE 0) + (IF resume = u THEN 1 ELSE 0)
  <2>1. /\ IsFiniteSet(Entries(listener, u)) /\ c \in 0..4 /\ more \in 0..2
        /\ blocks[u] = c + more
    BY ResourcesAre DEF BlocksCountResources
  <2>2. /\ u = Head(listener[t]) => c >= 1
        /\ d = c - (IF u = Head(listener[t]) THEN 1 ELSE 0)
    BY <1>0, <2>1, EntriesTail
  <2>3. Resources(u)' = d + more
    <3>1. Joins(u)' = Entries(listener', u)
      BY DEF Joins, Entries
    <3>2. d \in Int
      BY <2>1, <2>2
    <3> QED BY <3>1, <3>2 DEF Resources
  <2>4. blocks'[u] = IF u = Head(listener[t]) THEN UInt8(blocks[u] - 1) ELSE blocks[u]
    BY <1>0
  <2> HIDE DEF c, d, more
  <2>5. CASE u = Head(listener[t])
    <3>1. c \in 1..4 /\ d = c - 1 /\ blocks'[u] = UInt8(c + more - 1)
      BY <2>1, <2>2, <2>4, <2>5
    <3>2. c + more - 1 = d + more /\ d + more \in 0..255 /\ blocks[u] >= 1
      BY <2>1, <3>1
    <3>3. \A n \in 0..255 : UInt8(n) = n
      BY DEF UInt8
    <3>4. UInt8(c + more - 1) = d + more
      BY <3>2, <3>3
    <3> QED BY <2>3, <3>1, <3>2, <3>4
  <2>6. CASE u # Head(listener[t])
    <3>1. d = c /\ blocks'[u] = c + more
      BY <2>1, <2>2, <2>4, <2>6
    <3> QED BY <2>3, <2>6, <3>1
  <2> QED BY <2>5, <2>6
<1> QED BY <1>0, <1>1 DEF BlocksCountResources

-----------------------------------------------------------------------------
(* kerneld's victim stays the same while the processes it destroys keep    *)
(* their threads.                                                          *)
LEMMA VictimStays ==
    ASSUME SchedInv, UNCHANGED <<kprocs, kthreads>>,
           \/ kpc' = kpc
           \/ {kpc, kpc'} \cap {"destroyProcesses", "destroyThreads"} = {},
           \A p \in ToSet(kprocs) : threads'[p] = threads[p]
    PROVE  Victim' = Victim
<1>1. kprocs # <<>> => Head(kprocs) \in ToSet(kprocs)
  BY TailElements DEF SchedInv, TypeOK
<1>2. KdVictims' = KdVictims
  BY <1>1 DEF KdVictims
<1> QED BY <1>2 DEF Victim

(* A step that leaves what blocks the threads alone.                       *)
LEMMA OtherStep ==
    ASSUME SchedInv, JoinInv, BlockInv, Victim' = Victim, created \subseteq created',
           UNCHANGED <<listener, blocks, sleeping, resume, kvictim>>,
           ToSet(procs') \subseteq ToSet(procs),
           \A p \in ToSet(procs') : ToSet(threads'[p]) \subseteq ToSet(threads[p]),
           phase' = "run" => phase = "run",
           phase' \in {"run", "return"} => blocks[CurrentThread'] = 0
    PROVE  JoinInv' /\ BlockInv'
<1>1. JoinInv'
  BY JoinsStay
<1>2. BlocksCountResources'
  BY CountStays DEF BlockInv
<1> QED BY <1>1, <1>2 DEF BlockInv

(* Whoever calls sd_schedule() and adds no block.                          *)
LEMMA CallBlocks ==
    ASSUME SchedInv, JoinInv, BlockInv, phase = "run", SdCall,
           UNCHANGED <<procs, threads, scheduled, created>>,
           UNCHANGED <<kprocs, kthreads, kvictim, listener, blocks, sleeping, resume>>,
           \/ kpc' = kpc
           \/ kpc = "halt" /\ kpc' = "collectProcesses"
           \/ kpc = "start" /\ kpc' = "boot"
    PROVE  JoinInv' /\ BlockInv'
<1>1. Victim' = Victim
  BY VictimStays
<1>2. CurrentThread' = CurrentThread /\ phase' # "run" /\ blocks[CurrentThread] = 0
  BY DEF SdCall, CurrentThread, BlockInv
<1> QED BY <1>1, <1>2, OtherStep

(* The calls of sd_schedule() that add no block.                           *)
LEMMA CallsBlocks ==
    ASSUME SchedInv, JoinInv, BlockInv,
           Tick \/ Yield \/ SdThreadExit \/ ScThreadExit \/ ScExit \/ KdYield
    PROVE  JoinInv' /\ BlockInv'
<1> USE DEF procVars, blockVars, threadVars, memVars, kVars
<1>1. CASE Tick
  BY <1>1, CallBlocks DEF Tick, KerneldRuns
<1>2. CASE Yield
  BY <1>2, CallBlocks DEF Yield
<1>3. CASE SdThreadExit
  BY <1>3, CallBlocks DEF SdThreadExit
<1>4. CASE ScThreadExit
  BY <1>4, CallBlocks DEF ScThreadExit, UserRuns
<1>5. CASE ScExit
  BY <1>5, CallBlocks DEF ScExit, UserRuns
<1>6. CASE KdYield
  BY <1>6, CallBlocks DEF KdYield, KerneldRuns
<1> QED BY <1>1, <1>2, <1>3, <1>4, <1>5, <1>6

(* _sc_sleep().                                                            *)
LEMMA ScSleepBlocks ==
    ASSUME SchedInv, JoinInv, BlockInv, ScSleep
    PROVE  JoinInv' /\ BlockInv'
<1>1. PICK time \in 0..MaxSleep :
        LET t == CurrentThread
            fresh == time > 0 /\ ~sleeping[t]
        IN /\ blocks' = [blocks EXCEPT ![t] = UInt8(@ + SleepBlocks(fresh))]
           /\ sleeping' = [sleeping EXCEPT ![t] = @ \/ fresh]
           /\ resume' = t
  BY Zenon DEF ScSleep
<1> DEFINE t == CurrentThread
           fresh == time > 0 /\ ~sleeping[t]
<1>2. /\ t \in Thread /\ sleeping \in [Thread -> BOOLEAN] /\ lock = FALSE /\ phase = "run"
      /\ blocks[t] = 0 /\ resume = NULL /\ NULL \notin Thread
  BY CurrentIsListed, LockIsFree, SchedulerAssumption
     DEF SchedInv, TypeOK, ScSleep, UserRuns, BlockInv
<1>3. UNCHANGED <<procs, threads, created, listener, kpc, kprocs, kthreads, kvictim>>
  BY DEF ScSleep, procVars, memVars, kVars
<1>4. phase' = "enter"
  BY <1>2 DEF ScSleep, SdCall
<1>5. Victim' = Victim
  BY <1>3, VictimStays
<1>6. JoinInv'
  BY <1>3, <1>5, JoinsStay
<1>7. BlocksCountResources'
  <2> DEFINE d == IF fresh THEN 2 ELSE 1
  <2>1. blocks' = [blocks EXCEPT ![t] = UInt8(@ + d)] /\ d \in -1..2
    BY <1>1 DEF SleepBlocks
  <2>2. \A u \in Thread \ {t} : sleeping'[u] = sleeping[u] /\ (resume' = u <=> resume = u)
    BY <1>1, <1>2
  <2>3. sleeping'[t] = (sleeping[t] \/ fresh) /\ resume' = t /\ resume # t
    BY <1>1, <1>2
  <2>4. d = ((IF sleeping'[t] THEN 1 ELSE 0) - (IF sleeping[t] THEN 1 ELSE 0))
              + ((IF resume' = t THEN 1 ELSE 0) - (IF resume = t THEN 1 ELSE 0))
    <3>1. CASE fresh
      <4>1. sleeping'[t] = TRUE /\ sleeping[t] = FALSE /\ d = 2
        BY <1>2, <2>3, <3>1
      <4> QED BY <2>3, <4>1
    <3>2. CASE ~fresh
      <4>1. sleeping'[t] = sleeping[t] /\ d = 1
        BY <1>2, <2>3, <3>2
      <4> QED BY <2>3, <4>1
    <3> QED BY <3>1, <3>2
  <2>5. t \in Thread /\ BlocksCountResources /\ listener' = listener
    BY <1>2, <1>3 DEF BlockInv
  <2> HIDE DEF t, d
  <2> QED BY <2>1, <2>2, <2>4, <2>5, CountSleep
<1> QED BY <1>3, <1>4, <1>6, <1>7 DEF BlockInv

(* _sc_threadJoin() and _sc_wait().                                        *)
LEMMA JoinBlocks ==
    ASSUME SchedInv, JoinInv, BlockInv, phase = "run", lock = FALSE, SdCall,
           NEW p \in ToSet(procs), NEW t \in ToSet(threads[p]),
           NEW ts \in Seq(Thread), IsInjective(ts), ThreadJoin(ts, t),
           ts = threads[current] \/ ToSet(ts) = {CurrentThread},
           UNCHANGED <<procs, threads, created, sleeping, resume, kpc, kprocs, kthreads, kvictim>>
    PROVE  JoinInv' /\ BlockInv'
<1>1. t \in Thread /\ t # Victim
  BY Listed, VictimIsDead
<1>2. Victim' = Victim
  BY VictimStays
<1>3. listener' = [listener EXCEPT ![t] = listener[t] \o ts]
  BY DEF ThreadJoin
<1>4. JoinInv'
  BY <1>1, <1>2, <1>3, JoinJoins
<1>5. BlocksCountResources'
  BY <1>1, CountJoin DEF BlockInv
<1>6. phase' = "enter"
  BY DEF SdCall
<1>7. kvictim = NULL \/ kvictim = Victim
  BY DEF SchedInv, Collecting, Victim
<1>8. kvictim # NULL => listener'[kvictim] = <<>>
  <2>1. listener \in [Thread -> Seq(Thread)] /\ kvictim \in Thread \cup {NULL}
    BY DEF SchedInv, TypeOK
  <2>2. kvictim # NULL => kvictim \in Thread /\ kvictim # t
    BY <1>1, <1>7, <2>1
  <2> QED BY <1>1, <1>3, <2>1, <2>2 DEF BlockInv
<1> QED BY <1>4, <1>5, <1>6, <1>8 DEF BlockInv

(* _sc_threadJoin(): the current thread waits for one of its process.      *)
LEMMA ScThreadJoinBlocks ==
    ASSUME SchedInv, JoinInv, BlockInv, ScThreadJoin
    PROVE  JoinInv' /\ BlockInv'
<1>1. PICK t \in ToSet(threads[current]) : ThreadJoin(<<CurrentThread>>, t)
  BY DEF ScThreadJoin
<1>2. /\ <<CurrentThread>> \in Seq(Thread) /\ IsInjective(<<CurrentThread>>)
      /\ ToSet(<<CurrentThread>>) = {CurrentThread}
  BY CurrentIsListed, SmallLists
<1>3. current \in ToSet(procs) /\ phase = "run" /\ lock = FALSE /\ SdCall
  BY CurrentIsListed, LockIsFree DEF ScThreadJoin, UserRuns
<1>4. UNCHANGED <<procs, threads, created, sleeping, resume, kpc, kprocs, kthreads, kvictim>>
  BY DEF ScThreadJoin, procVars, sleepVars, memVars, kVars
<1> QED BY <1>1, <1>2, <1>3, <1>4, JoinBlocks

(* _sc_wait(): all threads of the process wait for the first of another.   *)
LEMMA ScWaitBlocks ==
    ASSUME SchedInv, JoinInv, BlockInv, ScWait
    PROVE  JoinInv' /\ BlockInv'
<1>1. PICK p \in ToSet(procs) : ThreadJoin(threads[current], Head(threads[p]))
  BY DEF ScWait
<1>2. /\ threads[current] \in Seq(Thread) /\ IsInjective(threads[current])
      /\ Head(threads[p]) \in ToSet(threads[p])
  <2>1. p \in Process /\ threads[p] # <<>> /\ threads[p] \in Seq(Thread)
    BY Listed DEF SchedInv, RunList
  <2> QED BY <2>1, CurrentIsListed, Listed, TailElements
<1>3. current \in ToSet(procs) /\ phase = "run" /\ lock = FALSE /\ SdCall
  BY CurrentIsListed, LockIsFree DEF ScWait, UserRuns
<1>4. UNCHANGED <<procs, threads, created, sleeping, resume, kpc, kprocs, kthreads, kvictim>>
  BY DEF ScWait, procVars, sleepVars, memVars, kVars
<1> QED BY <1>1, <1>2, <1>3, <1>4, JoinBlocks

-----------------------------------------------------------------------------
(* sd_schedule() takes what died off its list, or charges the thread.      *)
LEMMA SdEnterBlocks ==
    ASSUME SchedInv, JoinInv, BlockInv, SdEnter
    PROVE  JoinInv' /\ BlockInv'
<1>1. /\ phase' = "loop"
      /\ UNCHANGED <<created, listener, blocks, sleeping, resume, kvictim, kpc, kprocs, kthreads>>
      /\ SdReapProcess \/ SdReapThread \/ SdChargeTick
  BY DEF SdEnter, blockVars, memVars, kVars
<1>2. /\ current \in Process /\ current \in ToSet(procs) /\ current \notin ToSet(kprocs)
      /\ CurrentThread \in ToSet(threads[current])
      /\ procs \in Seq(Process) /\ IsInjective(procs)
      /\ threads \in [Process -> Seq(Thread)] /\ kprocs \in Seq(Process)
      /\ threads[current] \in Seq(Thread) /\ IsInjective(threads[current])
  BY CurrentIsListed, Listed DEF SchedInv, TypeOK, ProcessLists
<1>3. /\ ToSet(procs') \subseteq ToSet(procs)
      /\ \A p \in ToSet(procs') : ToSet(threads'[p]) \subseteq ToSet(threads[p])
      /\ \A p \in ToSet(kprocs) : threads'[p] = threads[p]
  <2>1. CASE SdReapProcess
    <3>1. procs' = Unlink(procs, current) /\ threads' = threads
      BY <2>1 DEF SdReapProcess
    <3>2. ToSet(Unlink(procs, current)) = ToSet(procs) \ {current}
      BY <1>2, UnlinkElements
    <3> QED BY <3>1, <3>2
  <2>2. CASE SdReapThread
    <3> PICK l : l = Unlink(threads[current], CurrentThread)
      OBVIOUS
    <3>1. procs' = procs /\ threads' = [threads EXCEPT ![current] = l]
      BY <2>2 DEF SdReapThread, CurrentThread
    <3>2. ToSet(l) \subseteq ToSet(threads[current])
      BY <1>2, UnlinkElements
    <3>3. ToSet(procs) \subseteq Process /\ ToSet(kprocs) \subseteq Process
      BY <1>2, ElementsOf
    <3>4. \A p \in Process : threads'[p] = IF p = current THEN l ELSE threads[p]
      BY <1>2, <3>1
    <3> QED BY <1>2, <3>1, <3>2, <3>3, <3>4
  <2>3. CASE SdChargeTick
    BY <2>3 DEF SdChargeTick
  <2> QED BY <1>1, <2>1, <2>2, <2>3
<1>4. Victim' = Victim
  BY <1>1, <1>3, VictimStays
<1> QED BY <1>1, <1>3, <1>4, OtherStep

(* One turn of the loop of sd_schedule(): an alarm takes its block along.  *)
LEMMA SdSkipBlocks ==
    ASSUME SchedInv, JoinInv, BlockInv, SdSkip
    PROVE  JoinInv' /\ BlockInv'
<1> PICK t : t = CurrentThread
  OBVIOUS
<1> DEFINE wake == sleeping[t] /\ alarm[t] = 0
           left == IF wake THEN UInt8(blocks[t] - 1) ELSE blocks[t]
<1>1. /\ phase = "loop"
      /\ sleeping' = [sleeping EXCEPT ![t] = @ /\ ~wake]
      /\ blocks' = [blocks EXCEPT ![t] = left]
      /\ UNCHANGED <<procs, threads, created, listener, resume, kpc, kprocs, kthreads, kvictim>>
  BY DEF SdSkip, CurrentThread, memVars, kVars
<1>2. /\ t \in Thread /\ sleeping \in [Thread -> BOOLEAN] /\ blocks \in [Thread -> 0..255]
      /\ tdied[t] = FALSE
  <2>1. t \in Thread /\ t \in ToSet(threads[current]) /\ current \in ToSet(procs)
    BY CurrentIsListed
  <2>2. ~tdied[t] /\ tdied \in [Thread -> BOOLEAN]
    BY <1>1, <2>1 DEF SchedInv, RunList, TypeOK
  <2>3. sleeping \in [Thread -> BOOLEAN] /\ blocks \in [Thread -> 0..255]
    BY DEF SchedInv, TypeOK
  <2> QED BY <2>1, <2>2, <2>3
<1>3. phase' \in {"enter", "loop"}
  BY <1>2 DEF SdSkip, CurrentThread
<1>4. Victim' = Victim
  BY <1>1, VictimStays
<1>5. JoinInv'
  BY <1>1, <1>4, JoinsStay
<1>6. BlocksCountResources'
  <2>0. BlocksCountResources
    BY DEF BlockInv
  <2>1. CASE wake
    <3>0. \A n \in 0..255 : n - 1 = n + (-1)
      OBVIOUS
    <3>1. blocks' = [blocks EXCEPT ![t] = UInt8(@ + (-1))] /\ -1 \in -1..2
      <4>1. blocks[t] - 1 = blocks[t] + (-1)
        BY <1>2, <3>0
      <4>2. blocks' = [blocks EXCEPT ![t] = UInt8(blocks[t] - 1)]
        BY <1>1, <2>1
      <4>3. blocks' = [blocks EXCEPT ![t] = UInt8(@ + (-1))]
        BY <4>1, <4>2, Zenon
      <4>4. -1 \in -1..2
        OBVIOUS
      <4> QED BY <4>3, <4>4, Zenon
    <3>2. /\ \A u \in Thread \ {t} : sleeping'[u] = sleeping[u] /\ (resume' = u <=> resume = u)
          /\ sleeping[t] = TRUE /\ sleeping'[t] = FALSE /\ resume' = resume
      BY <1>1, <1>2, <2>1
    <3>3. -1 = ((IF sleeping'[t] THEN 1 ELSE 0) - (IF sleeping[t] THEN 1 ELSE 0))
                 + ((IF resume' = t THEN 1 ELSE 0) - (IF resume = t THEN 1 ELSE 0))
      BY <3>2
    <3> QED BY <1>1, <1>2, <2>0, <3>1, <3>2, <3>3, CountSleep
  <2>2. CASE ~wake
    <3>1. blocks' = blocks
      BY <1>1, <1>2, <2>2
    <3>2. sleeping' = sleeping
      BY <1>1, <1>2, <2>2
    <3> QED BY <1>1, <2>0, <3>1, <3>2, CountStays
  <2> QED BY <2>1, <2>2
<1> QED BY <1>1, <1>3, <1>5, <1>6 DEF BlockInv

(* sd_schedule() has found a thread, which no resource blocks.             *)
LEMMA SdPickBlocks ==
    ASSUME SchedInv, JoinInv, BlockInv, SdPick
    PROVE  JoinInv' /\ BlockInv'
<1>1. /\ phase' = "return" /\ ~MustSkip(CurrentThread)
      /\ UNCHANGED <<procs, threads, scheduled, current, created, listener, blocks, sleeping,
                     resume, kpc, kprocs, kthreads, kvictim>>
  BY DEF SdPick, procVars, threadVars, blockVars, memVars, kVars
<1>2. blocks[CurrentThread] = 0 /\ CurrentThread' = CurrentThread
  <2>1. blocks[CurrentThread] \in 0..255
    BY CurrentIsListed DEF SchedInv, TypeOK
  <2>2. ~(blocks[CurrentThread] > 0)
    BY <1>1 DEF MustSkip
  <2> QED BY <1>1, <2>1, <2>2 DEF CurrentThread
<1>3. Victim' = Victim
  BY <1>1, VictimStays
<1> QED BY <1>1, <1>2, <1>3, OtherStep

(* The handler returns to the thread that runs next; _sc_sleep(), which    *)
(* gives its block back, is another thread's.                              *)
LEMMA SdReturnBlocks ==
    ASSUME SchedInv, JoinInv, BlockInv, SdReturn
    PROVE  JoinInv' /\ BlockInv'
<1>1. /\ phase = "return" /\ resume' = NULL
      /\ blocks' = IF resume = NULL THEN blocks ELSE [blocks EXCEPT ![resume] = UInt8(@ - 1)]
      /\ UNCHANGED <<procs, threads, scheduled, current, created, listener, sleeping,
                     kpc, kprocs, kthreads, kvictim>>
  BY DEF SdReturn, procVars, sleepVars, memVars, kVars
<1>2. Victim' = Victim
  BY <1>1, VictimStays
<1>3. JoinInv'
  BY <1>1, <1>2, JoinsStay
<1>4. /\ BlocksCountResources /\ blocks[CurrentThread] = 0 /\ CurrentThread' = CurrentThread
      /\ CurrentThread \in Thread /\ resume \in Thread \cup {NULL} /\ NULL \notin Thread
      /\ blocks \in [Thread -> 0..255]
  BY <1>1, CurrentIsListed, SchedulerAssumption DEF BlockInv, CurrentThread, SchedInv, TypeOK
<1>5. CASE resume = NULL
  <2>1. UNCHANGED <<blocks, sleeping, listener, resume>>
    BY <1>1, <1>5
  <2>2. BlocksCountResources'
    BY <1>4, <2>1, CountStays
  <2> QED BY <1>1, <1>3, <1>4, <2>1, <2>2 DEF BlockInv
<1>6. CASE resume # NULL
  <2>0. \A n \in 0..255 : n - 1 = n + (-1)
    OBVIOUS
  <2>1. resume \in Thread /\ blocks' = [blocks EXCEPT ![resume] = UInt8(@ + (-1))] /\ -1 \in -1..2
    <3>1. resume \in Thread /\ blocks[resume] - 1 = blocks[resume] + (-1)
      BY <1>4, <1>6, <2>0
    <3>2. blocks' = [blocks EXCEPT ![resume] = UInt8(blocks[resume] - 1)]
      BY <1>1, <1>6
    <3>3. blocks' = [blocks EXCEPT ![resume] = UInt8(@ + (-1))]
      BY <3>1, <3>2, Zenon
    <3>4. -1 \in -1..2
      OBVIOUS
    <3> QED BY <3>1, <3>3, <3>4, Zenon
  <2>2. \A u \in Thread \ {resume} : sleeping'[u] = sleeping[u] /\ (resume' = u <=> resume = u)
    BY <1>1, <1>4, <2>1
  <2>3. -1 = ((IF sleeping'[resume] THEN 1 ELSE 0) - (IF sleeping[resume] THEN 1 ELSE 0))
               + ((IF resume' = resume THEN 1 ELSE 0) - (IF resume = resume THEN 1 ELSE 0))
    BY <1>1, <1>6
  <2>4. BlocksCountResources'
    BY <1>1, <1>4, <2>1, <2>2, <2>3, CountSleep
  <2>5. resume # CurrentThread
    <3>1. blocks[resume] = Cardinality(Entries(listener, resume))
                             + (IF sleeping[resume] THEN 1 ELSE 0) + (IF resume = resume THEN 1 ELSE 0)
          /\ Cardinality(Entries(listener, resume)) \in 0..4
      BY <1>4, <2>1, ResourcesAre DEF BlocksCountResources
    <3>2. blocks[resume] # 0
      BY <3>1
    <3> QED BY <1>4, <3>2
  <2>6. blocks'[CurrentThread] = 0
    BY <1>4, <2>1, <2>5
  <2> QED BY <1>1, <1>3, <1>4, <2>4, <2>6 DEF BlockInv
<1> QED BY <1>5, <1>6

(* thread_attachToProcess() to a process in the run list.                  *)
LEMMA AttachBlocks ==
    ASSUME SchedInv, JoinInv, BlockInv, phase = "run", NEW t \in VoidThread,
           AttachThread(current, t), created' = created \cup {t},
           UNCHANGED <<procs, pdied, deadVars, threadVars, freed, cpuVars, kVars>>
    PROVE  JoinInv' /\ BlockInv'
<1> USE DEF threadVars, blockVars, cpuVars, kVars
<1> PICK q : q = current
  OBVIOUS
<1>1. /\ q \in Process /\ q \in ToSet(procs) /\ q \notin ToSet(kprocs)
      /\ threads \in [Process -> Seq(Thread)] /\ threads[q] \in Seq(Thread) /\ threads[q] # <<>>
      /\ kprocs \in Seq(Process) /\ t \in Thread \ created
  BY CurrentIsListed DEF SchedInv, TypeOK, ProcessLists, RunList, VoidThread
<1>2. ~AllWait(q)
  BY RunnerWaitsForNobody
<1>3. threads' = [threads EXCEPT ![q] = InsertAt(threads[q], 2, t)] /\ scheduled' = scheduled
  <2>1. scheduled \in [Process -> Thread \cup {NULL}]
    BY DEF SchedInv, TypeOK
  <2> QED BY <1>1, <2>1 DEF AttachThread
<1>4. ToSet(InsertAt(threads[q], 2, t)) = ToSet(threads[q]) \cup {t}
  <2>1. Len(threads[q]) \in Nat /\ Len(threads[q]) # 0
    BY <1>1, EmptySeq
  <2>2. 2 \in 1..Len(threads[q]) + 1
    BY <2>1
  <2> QED BY <1>1, <2>2, InsertAtElements
<1>5. ToSet(procs) \subseteq Process /\ ToSet(kprocs) \subseteq Process
  BY <1>1, Listed, ElementsOf
<1>6. /\ \A p \in Process : p # q => threads'[p] = threads[p]
      /\ ToSet(threads'[q]) = ToSet(threads[q]) \cup {t}
  BY <1>1, <1>3, <1>4
<1>7. Victim' = Victim
  <2>1. \A p \in ToSet(kprocs) : threads'[p] = threads[p]
    BY <1>1, <1>5, <1>6
  <2> QED BY <2>1, VictimStays
<1>8. JoinInv'
  <2>1. \A p \in ToSet(procs') : p # q =>
               p \in ToSet(procs) /\ ToSet(threads'[p]) \subseteq ToSet(threads[p])
    BY <1>5, <1>6
  <2>2. \A u \in ToSet(threads'[q]) : u # t => q \in ToSet(procs) /\ u \in ToSet(threads[q])
    BY <1>1, <1>6
  <2> QED BY <1>1, <1>2, <1>7, <2>1, <2>2, NewThreadJoins
<1>9. BlocksCountResources'
  BY CountStays DEF BlockInv
<1> QED BY <1>3, <1>8, <1>9 DEF BlockInv, CurrentThread

(* process_insert(): the process has one thread, which was just created.   *)
LEMMA InsertBlocks ==
    ASSUME SchedInv, JoinInv, BlockInv, phase = "run",
           NEW r \in ToSet(procs), NEW q \in VoidProcess, NEW t \in VoidThread,
           AttachThread(q, t), procs' = InsertAfter(procs, r, q),
           created' = created \cup {q, t},
           UNCHANGED <<threadVars, current, phase, resume, kprocs, kthreads, kvictim>>,
           kpc' = kpc \/ (kpc = "insert" /\ kpc' = "collectProcesses")
    PROVE  JoinInv' /\ BlockInv'
<1> USE DEF threadVars, blockVars
<1>1. /\ q \in Process /\ q \notin ToSet(procs) /\ q \notin ToSet(kprocs)
      /\ threads \in [Process -> Seq(Thread)] /\ threads[q] = <<>>
      /\ scheduled \in [Process -> Thread \cup {NULL}]
      /\ kprocs \in Seq(Process) /\ procs \in Seq(Process) /\ t \in Thread \ created
  BY DEF SchedInv, TypeOK, ProcessLists, RunList, VoidThread, VoidProcess
<1>2. threads' = [threads EXCEPT ![q] = <<t>>] /\ scheduled' = [scheduled EXCEPT ![q] = t]
  BY <1>1 DEF AttachThread
<1>3. ToSet(<<t>>) = {t}
  BY <1>1, SmallLists
<1>4. ToSet(procs) \subseteq Process /\ ToSet(kprocs) \subseteq Process
  BY <1>1, Listed, ElementsOf
<1>5. /\ \A p \in Process : p # q => threads'[p] = threads[p]
      /\ ToSet(threads'[q]) = {t}
  BY <1>1, <1>2, <1>3
<1>6. ToSet(procs') = ToSet(procs) \cup {q}
  <2> PICK k : k = PosOf(procs, r) + 1
    OBVIOUS
  <2>1. k \in 1..Len(procs) + 1
    <3>1. PosOf(procs, r) \in 1..Len(procs) /\ Len(procs) \in Nat
      BY <1>1, PosOfFinds
    <3> QED BY <3>1
  <2>2. procs' = InsertAt(procs, k, q)
    BY DEF InsertAfter
  <2> QED BY <1>1, <2>1, <2>2, InsertAtElements
<1>7. Victim' = Victim
  <2>1. \A p \in ToSet(kprocs) : threads'[p] = threads[p]
    BY <1>1, <1>4, <1>5
  <2> QED BY <2>1, VictimStays
<1>8. JoinInv'
  <2>1. \A p \in ToSet(procs') : p # q =>
               p \in ToSet(procs) /\ ToSet(threads'[p]) \subseteq ToSet(threads[p])
    BY <1>4, <1>5, <1>6
  <2>2. \A u \in ToSet(threads'[q]) : u # t => q \in ToSet(procs) /\ u \in ToSet(threads[q])
    BY <1>5
  <2> QED BY <1>1, <1>7, <2>1, <2>2, NewThreadJoins
<1>9. BlocksCountResources'
  BY CountStays DEF BlockInv
<1>10. CurrentThread' = CurrentThread
  <2>1. current \in ToSet(procs) /\ current \in Process
    BY CurrentIsListed
  <2> QED BY <1>1, <1>2, <2>1 DEF CurrentThread
<1> QED BY <1>8, <1>9, <1>10 DEF BlockInv

(* A new thread, in a new process or in one that runs.                     *)
LEMMA CreateBlocks ==
    ASSUME SchedInv, JoinInv, BlockInv,
           ScThreadAttach \/ KdCreateThread \/ ScFork \/ KdInsertProcess
    PROVE  JoinInv' /\ BlockInv'
<1>0. current \in ToSet(procs) /\ KProc \in ToSet(procs)
  BY CurrentIsListed DEF SchedInv, RunList
<1>1. CASE ScThreadAttach
  BY <1>1, AttachBlocks DEF ScThreadAttach, UserRuns
<1>2. CASE KdCreateThread
  <2>1. phase = "run" /\ KProc = current
    BY <1>2 DEF KdCreateThread, KerneldRuns
  <2> QED BY <1>2, <2>1, AttachBlocks DEF KdCreateThread
<1>3. CASE ScFork
  <2>1. phase = "run"
    BY <1>3 DEF ScFork, UserRuns
  <2> QED BY <1>0, <1>3, <2>1, InsertBlocks DEF ScFork, cpuVars, kVars
<1>4. CASE KdInsertProcess
  <2>1. phase = "run"
    BY <1>4 DEF KdInsertProcess, KerneldRuns
  <2> QED BY <1>0, <1>4, <2>1, InsertBlocks DEF KdInsertProcess
<1> QED BY <1>1, <1>2, <1>3, <1>4

-----------------------------------------------------------------------------
(* kerneld goes on, with no listener left to wake.                         *)
LEMMA KerneldBlocks ==
    ASSUME SchedInv, JoinInv, BlockInv, Victim # NULL => listener[Victim] = <<>>,
           UNCHANGED <<procs, scheduled, created, listener, blocks, sleeping>>,
           UNCHANGED <<current, phase, resume>>, kvictim' \in {kvictim, NULL},
           \A p \in ToSet(procs) : threads'[p] = threads[p]
    PROVE  JoinInv' /\ BlockInv'
<1>1. JoinInv'
  BY VictimMoves
<1>2. BlocksCountResources'
  BY CountStays DEF BlockInv
<1> QED BY <1>1, <1>2 DEF BlockInv, CurrentThread

(* The steps of kerneld that leave the listeners alone.                    *)
LEMMA KdGoesOnBlocks ==
    ASSUME SchedInv, JoinInv, BlockInv,
           KdLock \/ KdTakeProcesses \/ KdTakeThreads \/ KdFreeProcess \/ KdTurn
    PROVE  JoinInv' /\ BlockInv'
<1> USE DEF procVars, threadVars, blockVars, memVars, cpuVars
<1>1. CASE KdLock
  <2>1. Victim = NULL
    BY <1>1 DEF KdLock, Victim, KdVictims
  <2> QED BY <1>1, <2>1, KerneldBlocks DEF KdLock
<1>2. CASE KdTakeProcesses
  <2>1. Victim = NULL
    BY <1>2 DEF KdTakeProcesses, Victim, KdVictims
  <2> QED BY <1>2, <2>1, KerneldBlocks DEF KdTakeProcesses
<1>3. CASE KdTakeThreads
  <2>1. Victim = NULL
    BY <1>3 DEF KdTakeThreads, Victim, KdVictims
  <2> QED BY <1>3, <2>1, KerneldBlocks DEF KdTakeThreads
<1>4. CASE KdFreeProcess
  <2>1. Victim = NULL
    BY <1>4 DEF KdFreeProcess, Victim, KdVictims
  <2> QED BY <1>4, <2>1, KerneldBlocks DEF KdFreeProcess
<1>5. CASE KdTurn
  <2>1. Victim = NULL
    BY <1>5 DEF KdTurn, Victim, KdVictims
  <2> QED BY <1>5, <2>1, KerneldBlocks DEF KdTurn
<1> QED BY <1>1, <1>2, <1>3, <1>4, <1>5

(* The end of thread_destroy(): the list of listeners it frees is empty.   *)
LEMMA KdFreeThreadBlocks ==
    ASSUME SchedInv, JoinInv, BlockInv, KdFreeThread
    PROVE  JoinInv' /\ BlockInv'
<1>1. /\ kvictim # NULL /\ listener' = [listener EXCEPT ![kvictim] = <<>>] /\ kvictim' = NULL
      /\ \/ kpc = "destroyProcesses" /\ threads' = [threads EXCEPT ![Head(kprocs)] = Tail(@)]
         \/ threads' = threads
      /\ UNCHANGED <<procs, scheduled, created, blocks, sleeping, current, phase, resume>>
  BY DEF KdFreeThread, sleepVars, cpuVars
<1>2. /\ KdVictims # <<>> /\ Victim = kvictim /\ listener[kvictim] = <<>>
  BY <1>1 DEF SchedInv, Collecting, Victim, BlockInv
<1>3. listener' = listener
  <2>1. listener \in [Thread -> Seq(Thread)]
    BY DEF SchedInv, TypeOK
  <2> QED BY <1>1, <1>2, <2>1
<1>4. \A p \in ToSet(procs) : threads'[p] = threads[p]
  <2>1. /\ ToSet(procs) \subseteq Process /\ threads \in [Process -> Seq(Thread)]
        /\ kpc = "destroyProcesses" => Head(kprocs) \notin ToSet(procs)
    BY <1>2, Victims, Listed DEF SchedInv, TypeOK
  <2> QED BY <1>1, <2>1
<1> QED BY <1>1, <1>2, <1>3, <1>4, KerneldBlocks

(* thread_notify() wakes the next listener, who was blocked by this.       *)
LEMMA KdNotifyBlocks ==
    ASSUME SchedInv, JoinInv, BlockInv, KdNotify
    PROVE  JoinInv' /\ BlockInv'
<1> PICK t : t = Victim
  OBVIOUS
<1>1. /\ phase = "run" /\ KdVictims # <<>> /\ t = Head(KdVictims) /\ kvictim = NULL
      /\ IF listener[t] = <<>>
         THEN kvictim' = t /\ UNCHANGED <<blocks, listener>>
         ELSE /\ blocks' = [blocks EXCEPT ![Head(listener[t])] = UInt8(@ - 1)]
              /\ listener' = [listener EXCEPT ![t] = Tail(@)]
              /\ UNCHANGED kvictim
      /\ UNCHANGED <<procs, threads, scheduled, sleeping, created, current, phase, resume>>
      /\ UNCHANGED <<kpc, kprocs, kthreads>>
  BY DEF KdNotify, KerneldRuns, Victim, procVars, sleepVars, memVars, cpuVars
<1>2. t \in Thread
  BY <1>1, Victims
<1>3. Victim' = Victim /\ CurrentThread' = CurrentThread
  BY <1>1, VictimStays DEF CurrentThread
<1>4. CASE listener[t] = <<>>
  <2>1. kvictim' = t /\ UNCHANGED <<blocks, listener>>
    BY <1>1, <1>4
  <2>2. JoinInv'
    BY <1>1, <1>3, <2>1, JoinsStay
  <2>3. BlocksCountResources'
    BY <1>1, <2>1, CountStays DEF BlockInv
  <2> QED BY <1>1, <1>3, <1>4, <2>1, <2>2, <2>3 DEF BlockInv
<1>5. CASE listener[t] # <<>>
  <2> PICK u : u = Head(listener[t])
    OBVIOUS
  <2>1. /\ blocks' = [blocks EXCEPT ![u] = UInt8(@ - 1)] /\ kvictim' = NULL
        /\ listener' = [listener EXCEPT ![t] = Tail(@)]
    BY <1>1, <1>5
  <2>2. JoinInv'
    BY <1>1, <1>2, <1>3, <1>5, <2>1, NotifyJoins
  <2>3. BlocksCountResources' /\ blocks[u] >= 1
    BY <1>1, <1>2, <1>5, <2>1, CountNotify DEF BlockInv
  <2>4. blocks[CurrentThread] = 0 /\ resume = NULL
    BY <1>1 DEF BlockInv
  <2>5. u # CurrentThread
    BY <2>3, <2>4
  <2>6. blocks'[CurrentThread] = 0
    <3>1. blocks \in [Thread -> 0..255] /\ CurrentThread \in Thread
      BY CurrentIsListed DEF SchedInv, TypeOK
    <3> QED BY <2>1, <2>4, <2>5, <3>1
  <2> QED BY <1>1, <1>3, <2>1, <2>2, <2>3, <2>4, <2>6 DEF BlockInv
<1> QED BY <1>4, <1>5

(* At first nobody waits.                                                  *)
LEMMA InitBlocks == Init => JoinInv /\ BlockInv
<1> SUFFICES ASSUME Init PROVE JoinInv /\ BlockInv
  OBVIOUS
<1>1. /\ listener \in [Thread -> Seq(Thread)] /\ \A t \in Thread : listener[t] = <<>>
  BY DEF Init
<1>2. \A u : Entries(listener, u) = {}
  BY <1>1, EntriesForm
<1>3. \A u, v : AtMostOne(Others(listener, u, v)) /\ AtMostTwo(Others(listener, u, v))
                /\ AtMostTwo(Within(listener, u, v))
  BY <1>2 DEF Others, Within, AtMostOne, AtMostTwo
<1>4. JoinInv
  <2>1. \A t \in Thread : ToSet(listener[t]) = {}
    BY <1>1, SmallLists
  <2> QED BY <1>3, <2>1 DEF JoinInv
<1>5. BlocksCountResources
  <2> SUFFICES ASSUME NEW u \in Thread PROVE blocks[u] = Resources(u)
    BY DEF BlocksCountResources
  <2>1. Cardinality(Entries(listener, u)) = 0
    BY <1>2, FS_EmptySet
  <2>2. blocks[u] = 0 /\ sleeping[u] = FALSE /\ resume # u
    BY SchedulerAssumption DEF Init
  <2> QED BY <1>4, <2>1, <2>2, ResourcesAre
<1>6. blocks[CurrentThread] = 0
  BY SchedulerAssumption DEF Init, CurrentThread
<1> QED BY <1>4, <1>5, <1>6 DEF BlockInv, Init

(* What blocks a thread, and how often, in every state of the scheduler.   *)
LEMMA BlockInvariant == Spec => [](SchedInv /\ JoinInv /\ BlockInv)
<1>1. SchedInv /\ JoinInv /\ BlockInv /\ [Next]_vars => JoinInv' /\ BlockInv'
  <2> SUFFICES ASSUME SchedInv, JoinInv, BlockInv, [Next]_vars
               PROVE  JoinInv' /\ BlockInv'
    OBVIOUS
  <2>1. CASE SdStep
    BY <2>1, SdEnterBlocks, SdSkipBlocks, SdPickBlocks, SdReturnBlocks DEF SdStep
  <2>2. CASE Tick \/ Yield \/ SdThreadExit
    BY <2>2, CallsBlocks
  <2>3. CASE Syscall
    BY <2>3, CreateBlocks, ScSleepBlocks, ScThreadJoinBlocks, ScWaitBlocks, CallsBlocks
       DEF Syscall
  <2>4. CASE KerneldStep
    BY <2>4, CallsBlocks, CreateBlocks, KdGoesOnBlocks, KdNotifyBlocks, KdFreeThreadBlocks
       DEF KerneldStep
  <2>5. CASE UNCHANGED vars
    <3> USE <2>5 DEF vars, procVars, deadVars, threadVars, blockVars, memVars, cpuVars, kVars
    <3>1. Victim' = Victim
      BY VictimStays
    <3>2. JoinInv'
      BY <3>1, JoinsStay
    <3>3. BlocksCountResources'
      BY CountStays DEF BlockInv
    <3> QED BY <3>2, <3>3 DEF BlockInv, CurrentThread
  <2> QED BY <2>1, <2>2, <2>3, <2>4, <2>5 DEF Next
<1> QED BY <1>1, InitBlocks, SchedulerInvariant, PTL DEF Spec

(* blocks is the number of resources that block a thread, in every state   *)
(* and for any number of threads: an uint8_t is enough for it, although    *)
(* nothing bounds the number of listeners of a thread.                     *)
THEOREM BlocksAreResources == Spec => []BlocksCountResources
<1>1. BlockInv => BlocksCountResources
  BY DEF BlockInv
<1> QED BY <1>1, BlockInvariant, PTL

(* The thread that runs is neither blocked nor asleep.                     *)
THEOREM UnblockedRuns == Spec => []OnlyUnblockedRuns
<1>1. SchedInv /\ JoinInv /\ BlockInv => OnlyUnblockedRuns
  <2> SUFFICES ASSUME SchedInv, JoinInv, BlockInv, phase = "run"
               PROVE  blocks[CurrentThread] = 0 /\ ~sleeping[CurrentThread]
    BY DEF OnlyUnblockedRuns
  <2> PICK t : t = CurrentThread
    OBVIOUS
  <2>1. t \in Thread /\ blocks[t] = 0
    BY CurrentIsListed DEF BlockInv
  <2>2. /\ Cardinality(Entries(listener, t)) \in 0..4
        /\ 0 = Cardinality(Entries(listener, t)) + (IF sleeping[t] THEN 1 ELSE 0)
                                                 + (IF resume = t THEN 1 ELSE 0)
    BY <2>1, ResourcesAre DEF BlockInv, BlocksCountResources
  <2>3. ~sleeping[t]
    BY <2>2
  <2> QED BY <2>1, <2>3
<1> QED BY <1>1, BlockInvariant, PTL
=============================================================================
