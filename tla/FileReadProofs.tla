--------------------------- MODULE FileReadProofs ---------------------------
(***************************************************************************)
(* Theorems about FileRead for any files of the kernel, any names and any  *)
(* sizes of the buffer and of the pieces read: the buffer holds the file,  *)
(* and what is looked up in it is what the file says under the name.       *)
(***************************************************************************)
EXTENDS FileRead, TLAPS, SequenceTheorems, FiniteSetTheorems, WellFoundedInduction, Integers

----------------------------------------------------------------------------
(* Induction, with sets of numbers in place of predicates *)

(* A set of numbers that is not empty has a least one. *)
LEMMA Smallest ==
    ASSUME NEW T \in SUBSET Nat, T # {}
    PROVE  \E x \in T : \A y \in T : x <= y
  <1> DEFINE R == {p \in Nat \X Nat : p[1] < p[2]}
  <1>1. IsWellFoundedOn(R, Nat)
    BY NatLessThanWellFounded, Zenon DEF OpToRel
  <1>2. PICK x \in T : \A y \in T : <<y, x>> \notin R
    <2> HIDE DEF R
    <2> QED
      BY <1>1, WFMin
  <1>3. \A y \in T : <<y, x>> \in Nat \X Nat /\ <<y, x>>[1] = y /\ <<y, x>>[2] = x
    OBVIOUS
  <1>4. \A y \in T : ~(y < x)
    BY <1>2, <1>3
  <1> QED
    BY <1>2, <1>4

(* A set that has 0 and with n also n + 1 has every number. *)
LEMMA SetInduction ==
    ASSUME NEW S \in SUBSET Nat, 0 \in S, \A n \in S : n + 1 \in S
    PROVE  S = Nat
  <1> SUFFICES ASSUME Nat \ S # {}  PROVE FALSE
    OBVIOUS
  <1>1. PICK x \in Nat \ S : \A y \in Nat \ S : x <= y
    BY Smallest
  <1>2. x - 1 \in Nat
    BY <1>1
  <1>3. x - 1 \in S
    BY <1>1, <1>2
  <1> QED
    BY <1>1, <1>3

----------------------------------------------------------------------------
(* FlattenSeq *)

Steps(g, seqs, n) == [i \in 1..n |-> IF i = 1 THEN seqs[i] ELSE g[i - 1] \o seqs[i]]

(* The function by which FlattenSeq is defined. *)
LEMMA StepsExist ==
    ASSUME NEW seqs, NEW n \in Nat
    PROVE  \E g : g = Steps(g, seqs, n)
  <1> DEFINE S == {k \in Nat : \E g : g = Steps(g, seqs, k)}
  <1>1. 0 \in S
    <2> DEFINE g == [i \in 1..0 |-> 0]
    <2>1. g = Steps(g, seqs, 0)
      BY DEF Steps
    <2> QED
      BY <2>1
  <1>2. ASSUME NEW k \in S  PROVE k + 1 \in S
    <2>1. PICK g : g = Steps(g, seqs, k)
      BY <1>2
    <2>2. k \in Nat
      OBVIOUS
    <2> DEFINE h == [i \in 1..(k + 1) |->
                       IF i <= k THEN g[i] ELSE IF i = 1 THEN seqs[i] ELSE g[i - 1] \o seqs[i]]
    <2>3. \A i \in 1..k : g[i] = IF i = 1 THEN seqs[i] ELSE g[i - 1] \o seqs[i]
      BY <2>1 DEF Steps
    <2>4. \A i \in 1..k : h[i] = g[i]
      BY <2>2
    <2>5. ASSUME NEW i \in 1..(k + 1)
          PROVE  h[i] = IF i = 1 THEN seqs[i] ELSE h[i - 1] \o seqs[i]
      <3>1. i # 1 => i - 1 \in 1..k
        BY <2>2
      <3>2. CASE i <= k
        <4>1. i \in 1..k
          BY <2>2, <3>2
        <4> QED
          BY <2>3, <2>4, <3>1, <4>1
      <3>3. CASE ~(i <= k)
        <4>1. h[i] = IF i = 1 THEN seqs[i] ELSE g[i - 1] \o seqs[i]
          BY <3>3
        <4> QED
          BY <2>4, <3>1, <4>1
      <3> QED
        BY <3>2, <3>3
    <2>6. DOMAIN h = 1..(k + 1) /\ h = [i \in 1..(k + 1) |-> h[i]]
      OBVIOUS
    <2> HIDE DEF h
    <2>7. h = Steps(h, seqs, k + 1)
      BY <2>5, <2>6 DEF Steps
    <2> QED
      BY <2>2, <2>7
  <1> HIDE DEF S
  <1>3. S = Nat
    <2>1. S \in SUBSET Nat
      BY DEF S
    <2> QED
      BY <1>1, <1>2, <2>1, SetInduction
  <1> QED
    BY <1>3 DEF S

LEMMA Flattened ==
    ASSUME NEW seqs, Len(seqs) \in Nat \ {0}
    PROVE  \E f : FlattenSeq(seqs) = f[Len(seqs)] /\ f = Steps(f, seqs, Len(seqs))
  <1> DEFINE f == CHOOSE g : g = Steps(g, seqs, Len(seqs))
  <1>1. f = Steps(f, seqs, Len(seqs))
    <2>1. \E g : g = Steps(g, seqs, Len(seqs))
      BY StepsExist
    <2> QED
      BY <2>1
  <1>2. FlattenSeq(seqs) = f[Len(seqs)]
    BY DEF FlattenSeq, Steps
  <1> QED
    BY <1>1, <1>2

(* The place before the i-th of the sequences when they are put together.  *)
Place(f, i) == IF i = 1 THEN 0 ELSE Len(f[i - 1])

(* The sequences up to the n-th lie one after the other in s.              *)
LaidOut(s, seqs, n, at) ==
    /\ at[n + 1] = Len(s)
    /\ \A i \in 1..n : at[i] \in Nat /\ at[i + 1] = at[i] + Len(seqs[i])
    /\ \A i \in 1..n : \A k \in 1..Len(seqs[i]) : s[at[i] + k] = seqs[i][k]
    /\ \A p \in 1..Len(s) : \E i \in 1..n : \E k \in 1..Len(seqs[i]) : p = at[i] + k
    /\ \A i, j \in 1..n : i < j => at[i] + Len(seqs[i]) <= at[j]

LEMMA InFirst ==
    ASSUME NEW a \in Nat, NEW b \in Nat, NEW k \in 1..b, NEW l \in Nat, NEW m \in Nat, a + b <= l
    PROVE  a + k \in 1..l /\ a + k \in 1..(l + m) /\ a + k <= l
  OBVIOUS

LEMMA InSecond ==
    ASSUME NEW l \in Nat, NEW m \in Nat
    PROVE  /\ \A k \in 1..m : l + k \in 1..(l + m) /\ ~(l + k <= l) /\ (l + k) - l = k
           /\ \A p \in 1..(l + m) : ~(p <= l) => p - l \in 1..m /\ p = l + (p - l)
  OBVIOUS

LEMMA AtMost ==
    ASSUME NEW a \in Nat, NEW b \in Nat, NEW c \in Nat, a <= b
    PROVE  a <= b + c
  OBVIOUS

(* The end of the n-th sequence is no later than that of them all. *)
LEMMA EndsBy ==
    ASSUME NEW s, Len(s) \in Nat, NEW seqs, NEW n \in Nat, NEW at, LaidOut(s, seqs, n, at),
           \A i \in 1..n : Len(seqs[i]) \in Nat, NEW i \in 1..n
    PROVE  at[i] \in Nat /\ at[i] + Len(seqs[i]) <= Len(s)
  <1>a. at[n + 1] = Len(s)
    BY DEF LaidOut
  <1>b. \A j \in 1..n : at[j] \in Nat /\ at[j + 1] = at[j] + Len(seqs[j])
    BY DEF LaidOut
  <1>c. \A j, k \in 1..n : j < k => at[j] + Len(seqs[j]) <= at[k]
    BY DEF LaidOut
  <1>1. CASE i = n
    <2>1. at[i] \in Nat /\ at[i + 1] = at[i] + Len(seqs[i])
      BY <1>b
    <2>2. at[i + 1] = Len(s)
      BY <1>a, <1>1
    <2>3. at[i] + Len(seqs[i]) = Len(s)
      BY <2>1, <2>2
    <2> QED
      BY <2>1, <2>3
  <1>2. CASE i < n
    <2>1. n \in 1..n /\ at[i] + Len(seqs[i]) <= at[n] /\ at[n] \in Nat /\ Len(seqs[n]) \in Nat
      BY <1>b, <1>c, <1>2
    <2>2. at[n] + Len(seqs[n]) = Len(s)
      <3>1. at[n + 1] = at[n] + Len(seqs[n])
        BY <1>b, <2>1
      <3> QED
        BY <1>a, <3>1
    <2>3. at[i] \in Nat /\ Len(seqs[i]) \in Nat
      BY <1>b
    <2>4. at[i] + Len(seqs[i]) \in Nat
      BY <2>3
    <2>5. at[i] + Len(seqs[i]) <= at[n] + Len(seqs[n])
      BY <2>1, <2>4, AtMost
    <2> QED
      BY <2>2, <2>3, <2>5
  <1> QED
    BY <1>1, <1>2

LEMMA LaidOutNext ==
    ASSUME NEW W, NEW seqs \in Seq(Seq(W)), NEW n \in Nat, n + 1 <= Len(seqs), n > 0,
           NEW s \in Seq(W), NEW at, LaidOut(s, seqs, n, at),
           at[n + 2] = Len(s \o seqs[n + 1])
    PROVE  s \o seqs[n + 1] \in Seq(W) /\ LaidOut(s \o seqs[n + 1], seqs, n + 1, at)
  <1> DEFINE q == seqs[n + 1]
             t == s \o q
  <1>1. Len(seqs) \in Nat /\ DOMAIN seqs = 1..Len(seqs)
    BY LenProperties
  <1>2. \A i \in 1..(n + 1) : seqs[i] \in Seq(W) /\ Len(seqs[i]) \in Nat
    <2> SUFFICES ASSUME NEW i \in 1..(n + 1)  PROVE seqs[i] \in Seq(W) /\ Len(seqs[i]) \in Nat
      OBVIOUS
    <2>1. i \in 1..Len(seqs)
      BY <1>1
    <2>2. seqs[i] \in Seq(W)
      BY <2>1, ElementOfSeq
    <2> QED
      BY <2>2, LenProperties
  <1>3. q \in Seq(W) /\ Len(q) \in Nat /\ Len(s) \in Nat
    BY <1>2, LenProperties
  <1> HIDE DEF q
  <1>4. /\ t \in Seq(W) /\ Len(t) = Len(s) + Len(q)
        /\ \A i \in 1..(Len(s) + Len(q)) : t[i] = IF i <= Len(s) THEN s[i] ELSE q[i - Len(s)]
    BY <1>3, ConcatProperties
  <1> HIDE DEF t
  <1>a. at[n + 1] = Len(s)
    BY DEF LaidOut
  <1>b. \A i \in 1..n : at[i] \in Nat /\ at[i + 1] = at[i] + Len(seqs[i])
    BY DEF LaidOut
  <1>c. \A i \in 1..n : \A k \in 1..Len(seqs[i]) : s[at[i] + k] = seqs[i][k]
    BY DEF LaidOut
  <1>d. \A p \in 1..Len(s) : \E i \in 1..n : \E k \in 1..Len(seqs[i]) : p = at[i] + k
    BY DEF LaidOut
  <1>e. \A i, j \in 1..n : i < j => at[i] + Len(seqs[i]) <= at[j]
    BY DEF LaidOut
  <1>6. at[n + 2] = Len(t) /\ (n + 1) + 1 = n + 2
    BY DEF t, q
  <1>7. \A i \in 1..n : at[i] \in Nat /\ Len(seqs[i]) \in Nat /\ at[i] + Len(seqs[i]) <= Len(s)
    <2>1. \A i \in 1..n : Len(seqs[i]) \in Nat
      BY <1>2
    <2> QED
      BY <1>3, <2>1, EndsBy
  <1>8. \A i \in 1..(n + 1) : at[i] \in Nat /\ at[i + 1] = at[i] + Len(seqs[i])
    <2>1. at[n + 1] \in Nat /\ at[(n + 1) + 1] = at[n + 1] + Len(q)
      <3>1. at[n + 2] = Len(s) + Len(q) /\ (n + 1) + 1 = n + 2
        BY <1>4, <1>6
      <3> QED
        BY <1>3, <1>a, <3>1
    <2>2. q = seqs[n + 1]
      BY DEF q
    <2>3. \A i \in 1..(n + 1) : i \in 1..n \/ i = n + 1
      OBVIOUS
    <2> QED
      BY <1>b, <2>1, <2>2, <2>3
  <1>9. \A i \in 1..(n + 1) : \A k \in 1..Len(seqs[i]) : t[at[i] + k] = seqs[i][k]
    <2> SUFFICES ASSUME NEW i \in 1..(n + 1), NEW k \in 1..Len(seqs[i])
                 PROVE  t[at[i] + k] = seqs[i][k]
      OBVIOUS
    <2>1. CASE i \in 1..n
      <3>1. at[i] \in Nat /\ Len(seqs[i]) \in Nat /\ at[i] + Len(seqs[i]) <= Len(s)
        BY <1>7, <2>1
      <3>2. at[i] + k \in 1..Len(s) /\ at[i] + k \in 1..(Len(s) + Len(q)) /\ at[i] + k <= Len(s)
        BY <1>3, <3>1, InFirst
      <3>3. t[at[i] + k] = s[at[i] + k]
        BY <1>4, <3>2
      <3> QED
        BY <1>c, <2>1, <3>3
    <2>2. CASE i = n + 1
      <3>1. seqs[i] = q /\ at[i] = Len(s)
        BY <1>a, <2>2 DEF q
      <3>2. /\ Len(s) + k \in 1..(Len(s) + Len(q))
            /\ ~(Len(s) + k <= Len(s)) /\ (Len(s) + k) - Len(s) = k
        BY <1>3, <3>1, InSecond
      <3>3. t[Len(s) + k] = q[(Len(s) + k) - Len(s)]
        BY <1>4, <3>2
      <3> QED
        BY <3>1, <3>2, <3>3
    <2> QED
      BY <2>1, <2>2
  <1>10. \A p \in 1..Len(t) : \E i \in 1..(n + 1) : \E k \in 1..Len(seqs[i]) : p = at[i] + k
    <2> SUFFICES ASSUME NEW p \in 1..Len(t)
                 PROVE  \E i \in 1..(n + 1) : \E k \in 1..Len(seqs[i]) : p = at[i] + k
      OBVIOUS
    <2>1. CASE p <= Len(s)
      <3>1. p \in 1..Len(s) /\ 1..n \subseteq 1..(n + 1)
        BY <1>3, <1>4, <2>1
      <3> QED
        BY <1>d, <3>1
    <2>2. CASE ~(p <= Len(s))
      <3>1. p - Len(s) \in 1..Len(q) /\ p = at[n + 1] + (p - Len(s))
        <4>1. p \in 1..(Len(s) + Len(q))
          BY <1>4
        <4> QED
          BY <1>3, <1>a, <2>2, <4>1, InSecond
      <3>2. n + 1 \in 1..(n + 1) /\ q = seqs[n + 1]
        BY DEF q
      <3> QED
        BY <3>1, <3>2
    <2> QED
      BY <2>1, <2>2
  <1>11. \A i, j \in 1..(n + 1) : i < j => at[i] + Len(seqs[i]) <= at[j]
    <2> SUFFICES ASSUME NEW i \in 1..(n + 1), NEW j \in 1..(n + 1), i < j
                 PROVE  at[i] + Len(seqs[i]) <= at[j]
      OBVIOUS
    <2>1. i \in 1..n /\ (j \in 1..n \/ j = n + 1)
      OBVIOUS
    <2> QED
      BY <1>a, <1>e, <1>7, <2>1
  <1>12. LaidOut(t, seqs, n + 1, at)
    BY <1>6, <1>8, <1>9, <1>10, <1>11 DEF LaidOut
  <1> QED
    BY <1>4, <1>12 DEF t, q

(* FlattenSeq puts the sequences one after the other. *)
LEMMA Layout ==
    ASSUME NEW W, NEW seqs \in Seq(Seq(W))
    PROVE  /\ FlattenSeq(seqs) \in Seq(W)
           /\ \E at : LaidOut(FlattenSeq(seqs), seqs, Len(seqs), at)
  <1>1. Len(seqs) \in Nat /\ DOMAIN seqs = 1..Len(seqs)
    BY LenProperties
  <1>2. CASE Len(seqs) = 0
    <2>1. FlattenSeq(seqs) = seqs
      BY <1>2 DEF FlattenSeq
    <2>2. seqs = <<>>
      BY <1>2, EmptySeq
    <2> DEFINE at == [i \in {1} |-> 0]
    <2>3. LaidOut(seqs, seqs, 0, at)
      BY <1>2 DEF LaidOut
    <2> HIDE DEF at
    <2> QED
      BY <1>2, <2>1, <2>2, <2>3, EmptySeq
  <1>3. CASE Len(seqs) # 0
    <2>1. PICK f : FlattenSeq(seqs) = f[Len(seqs)] /\ f = Steps(f, seqs, Len(seqs))
      BY <1>1, <1>3, Flattened
    <2>2. \A i \in 1..Len(seqs) : f[i] = IF i = 1 THEN seqs[i] ELSE f[i - 1] \o seqs[i]
      BY <2>1 DEF Steps
    <2> DEFINE at == [i \in 1..(Len(seqs) + 1) |-> Place(f, i)]
               S == {n \in Nat : n + 1 <= Len(seqs) =>
                                   f[n + 1] \in Seq(W) /\ LaidOut(f[n + 1], seqs, n + 1, at)}
    <2>3. at[1] = 0 /\ \A i \in 1..Len(seqs) : at[i + 1] = Len(f[i])
      <3>1. at[1] = 0
        BY <1>1 DEF Place
      <3>2. ASSUME NEW i \in 1..Len(seqs)  PROVE at[i + 1] = Len(f[i])
        <4>1. i + 1 \in 1..(Len(seqs) + 1) /\ i + 1 # 1 /\ (i + 1) - 1 = i
          BY <1>1
        <4> QED
          BY <4>1 DEF Place
      <3> QED
        BY <3>1, <3>2
    <2> HIDE DEF at
    <2>4. f[1] \in Seq(W) /\ LaidOut(f[1], seqs, 1, at)
      <3>1. 1 \in 1..Len(seqs) /\ f[1] = seqs[1]
        BY <1>1, <1>3, <2>2
      <3>2. seqs[1] \in Seq(W)
        BY <3>1, ElementOfSeq
      <3>3. Len(seqs[1]) \in Nat
        BY <3>2, LenProperties
      <3>4. at[1] = 0 /\ at[1 + 1] = Len(seqs[1])
        BY <2>3, <3>1
      <3>5. \A i \in 1..1 : i = 1
        OBVIOUS
      <3>6. \A p \in 1..Len(seqs[1]) : p = 0 + p /\ 0 + p = p
        BY <3>3
      <3>7. LaidOut(seqs[1], seqs, 1, at)
        BY <3>3, <3>4, <3>5, <3>6 DEF LaidOut
      <3> QED
        BY <3>1, <3>2, <3>7
    <2>5. 0 \in S
      BY <2>4
    <2>6. ASSUME NEW n \in S  PROVE n + 1 \in S
      <3> SUFFICES ASSUME (n + 1) + 1 <= Len(seqs)
                   PROVE  /\ f[(n + 1) + 1] \in Seq(W)
                          /\ LaidOut(f[(n + 1) + 1], seqs, (n + 1) + 1, at)
        OBVIOUS
      <3>1. n \in Nat /\ n + 1 <= Len(seqs) /\ f[n + 1] \in Seq(W) /\ LaidOut(f[n + 1], seqs, n + 1, at)
        BY <1>1
      <3>2. PICK m \in Nat : m = n + 1 /\ m > 0 /\ m + 1 \in 1..Len(seqs) /\ m + 1 # 1 /\ (m + 1) - 1 = m
        BY <1>1, <3>1
      <3>3. f[m + 1] = f[m] \o seqs[m + 1]
        BY <2>2, <3>2
      <3>4. at[m + 2] = Len(f[m + 1])
        <4>1. (m + 1) + 1 = m + 2
          BY <3>2
        <4> QED
          BY <2>3, <3>2, <4>1
      <3>5. f[m] \in Seq(W) /\ LaidOut(f[m], seqs, m, at) /\ m + 1 <= Len(seqs)
        BY <3>1, <3>2
      <3>6. PICK g \in Seq(W) : g = f[m]
        BY <3>5
      <3>7. f[m + 1] \in Seq(W) /\ LaidOut(f[m + 1], seqs, m + 1, at)
        <4>1. f[m + 1] = g \o seqs[m + 1] /\ LaidOut(g, seqs, m, at)
          BY <3>3, <3>5, <3>6
        <4>2. at[m + 2] = Len(g \o seqs[m + 1])
          BY <3>4, <4>1
        <4>3. g \o seqs[m + 1] \in Seq(W) /\ LaidOut(g \o seqs[m + 1], seqs, m + 1, at)
          <5> HIDE DEF S
          <5> QED
            BY <3>2, <3>5, <4>1, <4>2, LaidOutNext
        <4> QED
          BY <4>1, <4>3
      <3> QED
        BY <3>2, <3>7
    <2> HIDE DEF S
    <2>7. S = Nat
      <3>1. S \in SUBSET Nat
        BY DEF S
      <3> QED
        BY <2>5, <2>6, <3>1, SetInduction
    <2>8. Len(seqs) - 1 \in S /\ (Len(seqs) - 1) + 1 = Len(seqs)
      BY <1>1, <1>3, <2>7
    <2>9. f[Len(seqs)] \in Seq(W) /\ LaidOut(f[Len(seqs)], seqs, Len(seqs), at)
      BY <1>1, <2>8 DEF S
    <2> QED
      BY <2>1, <2>9
  <1> QED
    BY <1>2, <1>3

----------------------------------------------------------------------------
(* The text of a file that has keys *)

(* The words of the texts. *)
Token == Plain \cup {"POWER_SUPPLY_", "=", ":", " kB", Newline, " ", "/"}

LEMMA PlainWord ==
    ASSUME NEW w \in Plain
    PROVE  w \in Token /\ w \notin {"POWER_SUPPLY_", "=", ":", " kB", Newline, " ", "/"}
  BY DEF Plain, Token

LEMMA PlainSeq ==
    ASSUME NEW q \in Seq(Plain)
    PROVE  /\ q \in Seq(Token) /\ Len(q) \in Nat /\ DOMAIN q = 1..Len(q)
           /\ \A k \in 1..Len(q) : q[k] \in Plain
  <1>1. Plain \subseteq Token
    BY DEF Token
  <1> QED
    BY <1>1, SeqMonotonic, LenProperties, ElementOfSeq

LEMMA Tuple1 ==
    ASSUME NEW W, NEW a \in W
    PROVE  <<a>> \in Seq(W) /\ Len(<<a>>) = 1 /\ <<a>>[1] = a
  OBVIOUS

LEMMA Tuple2 ==
    ASSUME NEW W, NEW a \in W, NEW b \in W
    PROVE  <<a, b>> \in Seq(W) /\ Len(<<a, b>>) = 2 /\ <<a, b>>[1] = a /\ <<a, b>>[2] = b
  OBVIOUS

LEMMA Tuple3 ==
    ASSUME NEW W, NEW a \in W, NEW b \in W, NEW c \in W
    PROVE  /\ <<a, b, c>> \in Seq(W) /\ Len(<<a, b, c>>) = 3
           /\ <<a, b, c>>[1] = a /\ <<a, b, c>>[2] = b /\ <<a, b, c>>[3] = c
  OBVIOUS

LEMMA Tuple4 ==
    ASSUME NEW W, NEW a \in W, NEW b \in W, NEW c \in W, NEW d \in W
    PROVE  /\ <<a, b, c, d>> \in Seq(W) /\ Len(<<a, b, c, d>>) = 4
           /\ <<a, b, c, d>>[1] = a /\ <<a, b, c, d>>[2] = b
           /\ <<a, b, c, d>>[3] = c /\ <<a, b, c, d>>[4] = d
  OBVIOUS

LEMMA Joined ==
    ASSUME NEW W, NEW s \in Seq(W), NEW u \in Seq(W)
    PROVE  /\ s \o u \in Seq(W) /\ Len(s \o u) = Len(s) + Len(u)
           /\ \A k \in 1..(Len(s) + Len(u)) :
                 (s \o u)[k] = IF k <= Len(s) THEN s[k] ELSE u[k - Len(s)]
  BY ConcatProperties

(* What a line is made of. *)
KeyLength(l) == Len(l.key)

LEMMA KeyOf ==
    ASSUME NEW l \in Line
    PROVE  /\ l.key \in Seq(Token) /\ KeyLength(l) \in Nat
           /\ \A k \in 1..KeyLength(l) : l.key[k] \in Plain
           /\ l.val \in Plain /\ l.val \in Token
  <1>1. l.key \in Seq(Plain) /\ l.val \in Plain
    BY DEF Line
  <1> QED
    BY <1>1, PlainSeq, PlainWord DEF KeyLength

BatteryLine(t, l, K) ==
    /\ t \in Seq(Token) /\ Len(t) = K + 4
    /\ t[1] = "POWER_SUPPLY_" /\ \A k \in 1..K : t[k + 1] = l.key[k]
    /\ t[K + 2] = "=" /\ t[K + 3] = l.val /\ t[K + 4] = Newline

LEMMA LineOfBattery ==
    ASSUME kind = "battery", NEW l \in Line
    PROVE  BatteryLine(LineText(l), l, KeyLength(l))
  <1> DEFINE front == <<"POWER_SUPPLY_">>
             back == <<"=", l.val, Newline>>
             t == front \o l.key \o back
  <1>1. PICK K \in Nat : K = KeyLength(l) /\ Len(l.key) = K
    BY KeyOf DEF KeyLength
  <1>2. l.key \in Seq(Token) /\ l.val \in Token
    BY KeyOf
  <1>3. front \in Seq(Token) /\ Len(front) = 1 /\ front[1] = "POWER_SUPPLY_"
    <2>1. "POWER_SUPPLY_" \in Token
      BY DEF Token
    <2> QED
      BY <2>1, Tuple1
  <1>4. /\ back \in Seq(Token) /\ Len(back) = 3
        /\ back[1] = "=" /\ back[2] = l.val /\ back[3] = Newline
    <2>1. "=" \in Token /\ Newline \in Token
      BY DEF Token
    <2> QED
      BY <1>2, <2>1, Tuple3
  <1>5. LineText(l) = t
    BY DEF LineText
  <1> HIDE DEF front, back
  <1>6. /\ front \o l.key \in Seq(Token) /\ Len(front \o l.key) = 1 + K
        /\ \A k \in 1..(1 + K) : (front \o l.key)[k] = IF k <= 1 THEN front[k] ELSE l.key[k - 1]
    <2>1. /\ front \o l.key \in Seq(Token) /\ Len(front \o l.key) = Len(front) + Len(l.key)
          /\ \A k \in 1..(Len(front) + Len(l.key)) :
                (front \o l.key)[k] = IF k <= Len(front) THEN front[k] ELSE l.key[k - Len(front)]
      BY <1>2, <1>3, Joined
    <2> QED
      BY <1>1, <1>3, <2>1
  <1>7. /\ t \in Seq(Token) /\ Len(t) = 1 + K + 3
        /\ \A k \in 1..(1 + K + 3) :
              t[k] = IF k <= 1 + K THEN (front \o l.key)[k] ELSE back[k - (1 + K)]
    <2> DEFINE f == front \o l.key
    <2>1. f \in Seq(Token) /\ back \in Seq(Token) /\ t = f \o back
      BY <1>4, <1>6
    <2> HIDE DEF f, t
    <2>2. /\ f \o back \in Seq(Token) /\ Len(f \o back) = Len(f) + Len(back)
          /\ \A k \in 1..(Len(f) + Len(back)) :
                (f \o back)[k] = IF k <= Len(f) THEN f[k] ELSE back[k - Len(f)]
      BY <2>1, Joined
    <2>3. Len(f) = 1 + K
      BY <1>6 DEF f
    <2> QED
      BY <1>4, <2>1, <2>2, <2>3 DEF f
  <1> HIDE DEF t
  <1>8. t[1] = "POWER_SUPPLY_"
    <2>1. 1 \in 1..(1 + K + 3) /\ 1 <= 1 + K /\ 1 \in 1..(1 + K) /\ 1 <= 1
      OBVIOUS
    <2>2. t[1] = (front \o l.key)[1]
      BY <1>7, <2>1
    <2>3. (front \o l.key)[1] = front[1]
      BY <1>6, <2>1
    <2> QED
      BY <1>3, <2>2, <2>3
  <1>9. ASSUME NEW k \in 1..K  PROVE t[k + 1] = l.key[k]
    <2>1. /\ k + 1 \in 1..(1 + K + 3) /\ k + 1 <= 1 + K /\ k + 1 \in 1..(1 + K)
          /\ ~(k + 1 <= 1) /\ (k + 1) - 1 = k
      OBVIOUS
    <2> QED
      BY <1>6, <1>7, <2>1
  <1>10. ASSUME NEW k \in 1..3  PROVE t[1 + K + k] = back[k]
    <2>1. 1 + K + k \in 1..(1 + K + 3) /\ ~(1 + K + k <= 1 + K) /\ (1 + K + k) - (1 + K) = k
      OBVIOUS
    <2> QED
      BY <1>7, <2>1
  <1>11. 1 + K + 1 = K + 2 /\ 1 + K + 2 = K + 3 /\ 1 + K + 3 = K + 4
    OBVIOUS
  <1>12. t[K + 2] = "=" /\ t[K + 3] = l.val /\ t[K + 4] = Newline
    <2>1. t[1 + K + 1] = back[1] /\ t[1 + K + 2] = back[2] /\ t[1 + K + 3] = back[3]
      BY <1>10
    <2> QED
      BY <1>4, <1>11, <2>1
  <1> QED
    BY <1>1, <1>5, <1>7, <1>8, <1>9, <1>11, <1>12 DEF BatteryLine

MeminfoLine(t, l, K) ==
    /\ t \in Seq(Token) /\ Len(t) = K + 4
    /\ \A k \in 1..K : t[k] = l.key[k]
    /\ t[K + 1] = ":" /\ t[K + 2] = l.val /\ t[K + 3] = " kB" /\ t[K + 4] = Newline

LEMMA LineOfMeminfo ==
    ASSUME kind = "memory", NEW l \in Line
    PROVE  MeminfoLine(LineText(l), l, KeyLength(l))
  <1> DEFINE back == <<":", l.val, " kB", Newline>>
             t == l.key \o back
  <1>1. PICK K \in Nat : K = KeyLength(l) /\ Len(l.key) = K
    BY KeyOf DEF KeyLength
  <1>2. l.key \in Seq(Token) /\ l.val \in Token
    BY KeyOf
  <1>3. /\ back \in Seq(Token) /\ Len(back) = 4
        /\ back[1] = ":" /\ back[2] = l.val /\ back[3] = " kB" /\ back[4] = Newline
    <2>1. ":" \in Token /\ " kB" \in Token /\ Newline \in Token
      BY DEF Token
    <2> QED
      BY <1>2, <2>1, Tuple4
  <1>4. LineText(l) = t
    BY DEF LineText
  <1> HIDE DEF back
  <1>5. /\ t \in Seq(Token) /\ Len(t) = K + 4
        /\ \A k \in 1..(K + 4) : t[k] = IF k <= K THEN l.key[k] ELSE back[k - K]
    <2>1. /\ l.key \o back \in Seq(Token) /\ Len(l.key \o back) = Len(l.key) + Len(back)
          /\ \A k \in 1..(Len(l.key) + Len(back)) :
                (l.key \o back)[k] = IF k <= Len(l.key) THEN l.key[k] ELSE back[k - Len(l.key)]
      BY <1>2, <1>3, Joined
    <2> QED
      BY <1>1, <1>3, <2>1
  <1> HIDE DEF t
  <1>6. ASSUME NEW k \in 1..K  PROVE t[k] = l.key[k]
    <2>1. k \in 1..(K + 4) /\ k <= K
      OBVIOUS
    <2> QED
      BY <1>5, <2>1
  <1>7. ASSUME NEW k \in 1..4  PROVE t[K + k] = back[k]
    <2>1. K + k \in 1..(K + 4) /\ ~(K + k <= K) /\ (K + k) - K = k
      OBVIOUS
    <2> QED
      BY <1>5, <2>1
  <1>8. t[K + 1] = back[1] /\ t[K + 2] = back[2] /\ t[K + 3] = back[3] /\ t[K + 4] = back[4]
    BY <1>7
  <1> QED
    BY <1>1, <1>3, <1>4, <1>5, <1>6, <1>8 DEF MeminfoLine

(* The lines of the file lie one after the other in its text. *)
Placed(lines, at) ==
    LaidOut(FileText(lines), [i \in DOMAIN lines |-> LineText(lines[i])], Len(lines), at)

LEMMA FileLayout ==
    ASSUME kind \in {"battery", "memory"}, NEW lines \in Seq(Line)
    PROVE  FileText(lines) \in Seq(Token) /\ \E at : Placed(lines, at)
  <1> DEFINE seqs == [i \in DOMAIN lines |-> LineText(lines[i])]
  <1>1. Len(lines) \in Nat /\ DOMAIN lines = 1..Len(lines)
    BY LenProperties
  <1>2. \A i \in 1..Len(lines) : LineText(lines[i]) \in Seq(Token)
    <2> SUFFICES ASSUME NEW i \in 1..Len(lines)  PROVE LineText(lines[i]) \in Seq(Token)
      OBVIOUS
    <2>1. lines[i] \in Line
      BY ElementOfSeq
    <2> QED
      BY <2>1, LineOfBattery, LineOfMeminfo DEF BatteryLine, MeminfoLine
  <1>3. seqs \in [1..Len(lines) -> Seq(Token)]
    BY <1>1, <1>2
  <1>4. seqs \in Seq(Seq(Token)) /\ Len(seqs) = Len(lines)
    <2> HIDE DEF seqs
    <2>1. seqs \in Seq(Seq(Token))
      BY <1>1, <1>3, SeqDef
    <2>2. DOMAIN seqs = 1..Len(lines) /\ DOMAIN seqs = 1..Len(seqs) /\ Len(seqs) \in Nat
      BY <1>3, <2>1, LenProperties
    <2> QED
      BY <1>1, <2>1, <2>2
  <1>5. FileText(lines) = FlattenSeq(seqs)
    BY DEF FileText
  <1> HIDE DEF seqs
  <1>6. FlattenSeq(seqs) \in Seq(Token) /\ \E at : LaidOut(FlattenSeq(seqs), seqs, Len(seqs), at)
    BY <1>4, Layout
  <1> QED
    BY <1>4, <1>5, <1>6 DEF Placed, seqs

----------------------------------------------------------------------------
(* Parts of a sequence, occurrences, suffixes *)

(* A part of a sequence. *)
LEMMA Part ==
    ASSUME NEW W, NEW s \in Seq(W), NEW a \in Nat \ {0}, NEW n \in Nat, a + n - 1 <= Len(s)
    PROVE  LET u == SubSeq(s, a, a + n - 1)
           IN  u \in Seq(W) /\ Len(u) = n /\ \A m \in 1..n : u[m] = s[a + m - 1]
  <1>1. PICK b \in Int : b = a + n - 1
    OBVIOUS
  <1>2. \A i \in a..b : s[i] \in W
    <2> SUFFICES ASSUME NEW i \in a..b  PROVE s[i] \in W
      OBVIOUS
    <2>1. Len(s) \in Nat
      BY LenProperties
    <2>2. i \in 1..Len(s)
      BY <1>1, <2>1
    <2> QED
      BY <2>2, ElementOfSeq
  <1>3. a \in Int
    OBVIOUS
  <1>4. /\ SubSeq(s, a, b) \in Seq(W) /\ Len(SubSeq(s, a, b)) = IF a <= b THEN b - a + 1 ELSE 0
        /\ \A m \in 1..(b - a + 1) : SubSeq(s, a, b)[m] = s[a + m - 1]
    BY <1>1, <1>2, <1>3, SubSeqProperties
  <1>5. (IF a <= b THEN b - a + 1 ELSE 0) = n /\ b - a + 1 = n
    BY <1>1
  <1> QED
    BY <1>1, <1>4, <1>5

LEMMA PartOne ==
    ASSUME NEW W, NEW s \in Seq(W), NEW i \in Nat, i \in 1..Len(s)
    PROVE  SubSeq(s, i, i) = <<s[i]>>
  <1>1. i \in Nat \ {0} /\ i + 1 - 1 = i
    BY LenProperties
  <1>2. PICK a \in Nat \ {0}, n \in Nat : a = i /\ n = 1 /\ a + n - 1 = i /\ a + n - 1 <= Len(s)
    BY <1>1, LenProperties
  <1>3. LET u == SubSeq(s, a, a + n - 1)
        IN  u \in Seq(W) /\ Len(u) = n /\ \A m \in 1..n : u[m] = s[a + m - 1]
    BY <1>2, Part
  <1>4. PICK u : u = SubSeq(s, i, i)
    OBVIOUS
  <1>5. u \in Seq(W) /\ Len(u) = 1 /\ \A m \in 1..1 : u[m] = s[i + m - 1]
    BY <1>2, <1>3, <1>4
  <1>6. 1 \in 1..1 /\ \A m \in 1..1 : m = 1
    OBVIOUS
  <1>7. u[1] = s[i]
    BY <1>1, <1>5, <1>6
  <1>8. s[i] \in W
    BY ElementOfSeq
  <1>9. PICK v \in Seq(W) : v = <<s[i]>> /\ Len(v) = 1 /\ v[1] = s[i]
    BY <1>8, Tuple1
  <1>10. u = v
    BY <1>5, <1>6, <1>7, <1>9, SeqEqual
  <1> QED
    BY <1>4, <1>9, <1>10

LEMMA PartTwo ==
    ASSUME NEW W, NEW s \in Seq(W), NEW i \in Nat, i \in 1..Len(s), i + 1 \in 1..Len(s)
    PROVE  SubSeq(s, i, i + 1) = <<s[i], s[i + 1]>>
  <1>1. i \in Nat \ {0} /\ i + 1 - 1 = i /\ i + 2 - 1 = i + 1
    BY LenProperties
  <1>2. PICK a \in Nat \ {0}, n \in Nat : a = i /\ n = 2 /\ a + n - 1 = i + 1 /\ a + n - 1 <= Len(s)
    BY <1>1, LenProperties
  <1>3. LET u == SubSeq(s, a, a + n - 1)
        IN  u \in Seq(W) /\ Len(u) = n /\ \A m \in 1..n : u[m] = s[a + m - 1]
    BY <1>2, Part
  <1>4. PICK u : u = SubSeq(s, i, i + 1)
    OBVIOUS
  <1>5. u \in Seq(W) /\ Len(u) = 2 /\ \A m \in 1..2 : u[m] = s[i + m - 1]
    BY <1>2, <1>3, <1>4
  <1>6. 1 \in 1..2 /\ 2 \in 1..2 /\ \A m \in 1..2 : m = 1 \/ m = 2
    OBVIOUS
  <1>7. u[1] = s[i] /\ u[2] = s[i + 1]
    BY <1>1, <1>5, <1>6
  <1>8. s[i] \in W /\ s[i + 1] \in W
    BY ElementOfSeq
  <1>b. PICK v : v = <<s[i], s[i + 1]>>
    OBVIOUS
  <1>9. v \in Seq(W) /\ Len(v) = 2 /\ v[1] = s[i] /\ v[2] = s[i + 1]
    BY <1>8, <1>b, Tuple2
  <1>a. \A m \in 1..2 : u[m] = v[m]
    BY <1>6, <1>7, <1>9
  <1>10. u = v
    BY <1>5, <1>9, <1>a, SeqEqual
  <1> QED
    BY <1>4, <1>b, <1>10

LEMMA PartThree ==
    ASSUME NEW W, NEW s \in Seq(W), NEW i \in Nat, i \in 1..Len(s), i + 1 \in 1..Len(s),
           i + 2 \in 1..Len(s)
    PROVE  SubSeq(s, i, i + 2) = <<s[i], s[i + 1], s[i + 2]>>
  <1>1. i \in Nat \ {0} /\ i + 1 - 1 = i /\ i + 2 - 1 = i + 1 /\ i + 3 - 1 = i + 2
    BY LenProperties
  <1>2. PICK a \in Nat \ {0}, n \in Nat : a = i /\ n = 3 /\ a + n - 1 = i + 2 /\ a + n - 1 <= Len(s)
    BY <1>1, LenProperties
  <1>3. LET u == SubSeq(s, a, a + n - 1)
        IN  u \in Seq(W) /\ Len(u) = n /\ \A m \in 1..n : u[m] = s[a + m - 1]
    BY <1>2, Part
  <1>4. PICK u : u = SubSeq(s, i, i + 2)
    OBVIOUS
  <1>5. u \in Seq(W) /\ Len(u) = 3 /\ \A m \in 1..3 : u[m] = s[i + m - 1]
    BY <1>2, <1>3, <1>4
  <1>6. 1 \in 1..3 /\ 2 \in 1..3 /\ 3 \in 1..3 /\ \A m \in 1..3 : m = 1 \/ m = 2 \/ m = 3
    OBVIOUS
  <1>7. u[1] = s[i] /\ u[2] = s[i + 1] /\ u[3] = s[i + 2]
    BY <1>1, <1>5, <1>6
  <1>8. s[i] \in W /\ s[i + 1] \in W /\ s[i + 2] \in W
    BY ElementOfSeq
  <1>b. PICK v : v = <<s[i], s[i + 1], s[i + 2]>>
    OBVIOUS
  <1>9. v \in Seq(W) /\ Len(v) = 3 /\ v[1] = s[i] /\ v[2] = s[i + 1] /\ v[3] = s[i + 2]
    BY <1>8, <1>b, Tuple3
  <1>a. \A m \in 1..3 : u[m] = v[m]
    BY <1>6, <1>7, <1>9
  <1>10. u = v
    BY <1>5, <1>9, <1>a, SeqEqual
  <1> QED
    BY <1>4, <1>b, <1>10

(* Where a name is found. *)
LEMMA OccursAt ==
    ASSUME NEW s \in Seq(Token), NEW name \in Seq(Token), NEW i \in Nat
    PROVE  i \in Occurrences(s, name) <=>
              /\ i \in 1..(Len(s) - Len(name))
              /\ \A m \in 1..Len(name) : s[i + m - 1] = name[m]
  <1>1. PICK L \in Nat : L = Len(name)
    BY LenProperties
  <1>2. Len(s) \in Nat
    BY LenProperties
  <1> SUFFICES ASSUME i \in 1..(Len(s) - L)
               PROVE  SubSeq(s, i, i + L - 1) = name <=> \A m \in 1..L : s[i + m - 1] = name[m]
    BY <1>1 DEF Occurrences
  <1>3. i \in Nat \ {0} /\ i + L - 1 <= Len(s)
    BY <1>2
  <1>4. PICK u \in Seq(Token) : /\ u = SubSeq(s, i, i + L - 1) /\ Len(u) = L
                                /\ \A m \in 1..L : u[m] = s[i + m - 1]
    <2>1. /\ SubSeq(s, i, i + L - 1) \in Seq(Token) /\ Len(SubSeq(s, i, i + L - 1)) = L
          /\ \A m \in 1..L : SubSeq(s, i, i + L - 1)[m] = s[i + m - 1]
      BY <1>3, Part
    <2> QED
      BY <2>1
  <1>5. (\A m \in 1..L : u[m] = name[m]) => u = name
    BY <1>1, <1>4, SeqEqual
  <1> QED
    BY <1>4, <1>5

(* The least of the places found. *)
LEMMA LeastOf ==
    ASSUME NEW T \in SUBSET Nat, NEW x \in T, \A y \in T : x <= y
    PROVE  Least(T) = x
  <1> DEFINE y == Least(T)
  <1>1. y \in T /\ \A j \in T : y <= j
    BY DEF Least
  <1> HIDE DEF y
  <1>2. y <= x /\ x <= y /\ x \in Nat /\ y \in Nat
    BY <1>1
  <1>3. y = x
    BY <1>2
  <1> QED
    BY <1>3 DEF y

(* The last words of a key. *)
LEMMA SuffixOf ==
    ASSUME NEW name \in Seq(Token), NEW key \in Seq(Token), Len(name) <= Len(key),
           \A m \in 1..Len(name) : name[m] = key[Len(key) - Len(name) + m]
    PROVE  IsSuffix(name, key)
  <1>1. PICK L \in Nat, K \in Nat : L = Len(name) /\ K = Len(key)
    BY LenProperties
  <1>2. PICK r : r = Reverse(name)
    OBVIOUS
  <1>3. PICK q : q = Reverse(key)
    OBVIOUS
  <1>4. r = [i \in 1..L |-> name[L - i + 1]] /\ q = [i \in 1..K |-> key[K - i + 1]]
    BY <1>1, <1>2, <1>3 DEF Reverse
  <1>5. \A i \in 1..L : name[i] \in Token
    BY <1>1, ElementOfSeq
  <1>6. \A i \in 1..K : key[i] \in Token
    BY <1>1, ElementOfSeq
  <1>7. r \in Seq(Token) /\ Len(r) = L
    <2>1. \A i \in 1..L : L - i + 1 \in 1..L
      OBVIOUS
    <2>2. r \in [1..L -> Token]
      BY <1>4, <1>5, <2>1
    <2>3. r \in Seq(Token)
      BY <2>2, SeqDef
    <2> QED
      BY <2>2, <2>3, LenProperties
  <1>8. q \in Seq(Token) /\ Len(q) = K
    <2>1. \A i \in 1..K : K - i + 1 \in 1..K
      OBVIOUS
    <2>2. q \in [1..K -> Token]
      BY <1>4, <1>6, <2>1
    <2>3. q \in Seq(Token)
      BY <2>2, SeqDef
    <2> QED
      BY <2>2, <2>3, LenProperties
  <1>9. \A i \in 1..L : r[i] = q[i]
    <2> SUFFICES ASSUME NEW i \in 1..L  PROVE r[i] = q[i]
      OBVIOUS
    <2>1. L - i + 1 \in 1..L /\ i \in 1..K /\ K - L + (L - i + 1) = K - i + 1
      BY <1>1
    <2>2. name[L - i + 1] = key[K - i + 1]
      BY <1>1, <2>1
    <2> QED
      BY <1>4, <2>1, <2>2
  <1>10. PICK u \in Seq(Token) : u = SubSeq(r, 1, L) /\ Len(u) = L /\ \A m \in 1..L : u[m] = r[m]
    <2>1. 1 \in Nat \ {0} /\ 1 + L - 1 = L /\ \A m \in 1..L : 1 + m - 1 = m
      OBVIOUS
    <2> QED
      BY <1>7, <2>1, Part
  <1>11. PICK v \in Seq(Token) : v = SubSeq(q, 1, L) /\ Len(v) = L /\ \A m \in 1..L : v[m] = q[m]
    <2>1. 1 \in Nat \ {0} /\ 1 + L - 1 = L /\ L <= K /\ \A m \in 1..L : 1 + m - 1 = m
      BY <1>1
    <2>2. /\ SubSeq(q, 1, 1 + L - 1) \in Seq(Token) /\ Len(SubSeq(q, 1, 1 + L - 1)) = L
          /\ \A m \in 1..L : SubSeq(q, 1, 1 + L - 1)[m] = q[1 + m - 1]
      BY <1>8, <2>1, Part
    <2> QED
      BY <2>1, <2>2
  <1>12. u = v
    BY <1>9, <1>10, <1>11, SeqEqual
  <1>13. IsPrefix(r, q)
    BY <1>1, <1>7, <1>8, <1>10, <1>11, <1>12 DEF IsPrefix
  <1> QED
    BY <1>2, <1>3, <1>13 DEF IsSuffix

(* The words of a key from some place on. *)
LEMMA PartOf ==
    ASSUME NEW name \in Seq(Token), NEW key \in Seq(Token), NEW a \in Nat,
           name # <<>>, a + Len(name) <= Len(key),
           \A m \in 1..Len(name) : name[m] = key[a + m]
    PROVE  name \in SubSeqs(key)
  <1>1. PICK L \in Nat, K \in Nat : L = Len(name) /\ K = Len(key)
    BY LenProperties
  <1>2. PICK u \in Seq(Token) : /\ u = SubSeq(key, a + 1, a + L) /\ Len(u) = L
                                /\ \A m \in 1..L : u[m] = key[a + m]
    <2>1. /\ a + 1 \in Nat \ {0} /\ (a + 1) + L - 1 = a + L /\ a + L <= K
          /\ \A m \in 1..L : (a + 1) + m - 1 = a + m
      BY <1>1
    <2>2. PICK b \in Nat \ {0} : b = a + 1
      BY <2>1
    <2> QED
      BY <1>1, <2>1, <2>2, Part
  <1>3. u = name
    BY <1>1, <1>2, SeqEqual
  <1>4. a \in 0..Len(key) /\ a + L \in 0..Len(key)
    BY <1>1
  <1> QED
    BY <1>2, <1>3, <1>4 DEF SubSeqs

----------------------------------------------------------------------------
(* The lines of a file in its text *)

(* Where the lines of the file lie in its text s, when each is as much     *)
(* longer than its key as both kinds of lines are.                         *)
Lined(s, lines, at) ==
    /\ s \in Seq(Token)
    /\ \A i \in 1..Len(lines) : at[i] \in Nat /\ KeyLength(lines[i]) \in Nat
    /\ \A i \in 1..Len(lines) : at[i] + KeyLength(lines[i]) + 4 <= Len(s)
    /\ \A p \in 1..Len(s) : \E i \in 1..Len(lines) : \E k \in 1..(KeyLength(lines[i]) + 4) :
          p = at[i] + k
    /\ \A i, j \in 1..Len(lines) : i < j => at[i] + KeyLength(lines[i]) + 4 <= at[j]

BatteryText(s, lines, at) ==
    \A i \in 1..Len(lines) :
       /\ s[at[i] + 1] = "POWER_SUPPLY_"
       /\ \A k \in 1..KeyLength(lines[i]) : s[at[i] + k + 1] = lines[i].key[k]
       /\ s[at[i] + KeyLength(lines[i]) + 2] = "="
       /\ s[at[i] + KeyLength(lines[i]) + 3] = lines[i].val
       /\ s[at[i] + KeyLength(lines[i]) + 4] = Newline

MeminfoText(s, lines, at) ==
    \A i \in 1..Len(lines) :
       /\ \A k \in 1..KeyLength(lines[i]) : s[at[i] + k] = lines[i].key[k]
       /\ s[at[i] + KeyLength(lines[i]) + 1] = ":"
       /\ s[at[i] + KeyLength(lines[i]) + 2] = lines[i].val
       /\ s[at[i] + KeyLength(lines[i]) + 3] = " kB"
       /\ s[at[i] + KeyLength(lines[i]) + 4] = Newline

LEMMA Brackets ==
    ASSUME NEW a \in Nat, NEW b \in Nat, NEW c \in Nat
    PROVE  a + (b + c) = a + b + c
  OBVIOUS

(* The lines of both kinds of files, one after the other in the text. *)
LEMMA FileLined ==
    ASSUME kind \in {"battery", "memory"}, NEW lines \in Seq(Line)
    PROVE  \E at : /\ Lined(FileText(lines), lines, at)
                   /\ kind = "battery" => BatteryText(FileText(lines), lines, at)
                   /\ kind = "memory" => MeminfoText(FileText(lines), lines, at)
  <1> DEFINE seqs == [i \in DOMAIN lines |-> LineText(lines[i])]
  <1>1. PICK s \in Seq(Token) : s = FileText(lines)
    BY FileLayout
  <1>2. PICK at : LaidOut(s, seqs, Len(lines), at)
    BY <1>1, FileLayout DEF Placed
  <1>3. PICK n \in Nat : n = Len(lines) /\ DOMAIN lines = 1..n
    BY LenProperties
  <1>4. Len(s) \in Nat
    BY <1>1, LenProperties
  <1>5. \A i \in 1..n : lines[i] \in Line /\ seqs[i] = LineText(lines[i])
    <2> SUFFICES ASSUME NEW i \in 1..n  PROVE lines[i] \in Line /\ seqs[i] = LineText(lines[i])
      OBVIOUS
    <2>1. lines[i] \in Line
      BY <1>3, ElementOfSeq
    <2> QED
      BY <1>3, <2>1
  <1> HIDE DEF seqs
  <1>6. \A i \in 1..n : KeyLength(lines[i]) \in Nat
    BY <1>5, KeyOf
  <1>7. \A i \in 1..n : Len(seqs[i]) = KeyLength(lines[i]) + 4
    BY <1>5, LineOfBattery, LineOfMeminfo DEF BatteryLine, MeminfoLine
  <1>8. \A i \in 1..n : Len(seqs[i]) \in Nat
    BY <1>6, <1>7
  <1>9. LaidOut(s, seqs, n, at)
    BY <1>2, <1>3
  <1>10. \A i \in 1..n : at[i] \in Nat /\ at[i] + Len(seqs[i]) <= Len(s)
    BY <1>4, <1>8, <1>9, EndsBy
  <1>11. \A i \in 1..n : \A k \in 1..Len(seqs[i]) : s[at[i] + k] = seqs[i][k]
    BY <1>9 DEF LaidOut
  <1>12. \A p \in 1..Len(s) : \E i \in 1..n : \E k \in 1..Len(seqs[i]) : p = at[i] + k
    BY <1>9 DEF LaidOut
  <1>13. \A i, j \in 1..n : i < j => at[i] + Len(seqs[i]) <= at[j]
    BY <1>9 DEF LaidOut
  <1>14. \A i \in 1..n : at[i] + KeyLength(lines[i]) + 4 = at[i] + Len(seqs[i])
    <2> SUFFICES ASSUME NEW i \in 1..n
                 PROVE  at[i] + KeyLength(lines[i]) + 4 = at[i] + Len(seqs[i])
      OBVIOUS
    <2>1. at[i] \in Nat /\ KeyLength(lines[i]) \in Nat /\ 4 \in Nat
      BY <1>6, <1>10
    <2>2. at[i] + (KeyLength(lines[i]) + 4) = at[i] + KeyLength(lines[i]) + 4
      BY <2>1, Brackets
    <2> QED
      BY <1>7, <2>2
  <1>15. Lined(s, lines, at)
    <2>1. \A i \in 1..n : at[i] + KeyLength(lines[i]) + 4 <= Len(s)
      BY <1>10, <1>14
    <2>2. \A p \in 1..Len(s) : \E i \in 1..n : \E k \in 1..(KeyLength(lines[i]) + 4) : p = at[i] + k
      BY <1>7, <1>12
    <2>3. \A i, j \in 1..n : i < j => at[i] + KeyLength(lines[i]) + 4 <= at[j]
      BY <1>13, <1>14
    <2> QED
      BY <1>3, <1>6, <1>10, <2>1, <2>2, <2>3 DEF Lined
  <1>16. kind = "battery" => BatteryText(s, lines, at)
    <2> SUFFICES ASSUME kind = "battery", NEW i \in 1..n, NEW K \in Nat, K = KeyLength(lines[i])
                 PROVE  /\ s[at[i] + 1] = "POWER_SUPPLY_"
                        /\ \A k \in 1..K : s[at[i] + k + 1] = lines[i].key[k]
                        /\ s[at[i] + K + 2] = "="
                        /\ s[at[i] + K + 3] = lines[i].val
                        /\ s[at[i] + K + 4] = Newline
      BY <1>3, <1>6 DEF BatteryText
    <2>1. BatteryLine(seqs[i], lines[i], K)
      BY <1>5, LineOfBattery
    <2>2. \A k \in 1..(K + 4) : s[at[i] + k] = seqs[i][k]
      BY <1>7, <1>11
    <2>3. 1 \in 1..(K + 4) /\ K + 2 \in 1..(K + 4) /\ K + 3 \in 1..(K + 4) /\ K + 4 \in 1..(K + 4)
      OBVIOUS
    <2> at[i] \in Nat /\ 1 \in Nat /\ 2 \in Nat /\ 3 \in Nat /\ 4 \in Nat
      BY <1>10
    <2>4. at[i] + (K + 2) = at[i] + K + 2 /\ at[i] + (K + 3) = at[i] + K + 3 /\ at[i] + (K + 4) = at[i] + K + 4
      BY Brackets
    <2>5. ASSUME NEW k \in 1..K  PROVE s[at[i] + k + 1] = lines[i].key[k]
      <3>1. k + 1 \in 1..(K + 4) /\ k \in Nat
        OBVIOUS
      <3>2. PICK a \in Nat, b \in Nat : a = at[i] /\ b = k
        BY <3>1
      <3>3. a + (b + 1) = a + b + 1
        OBVIOUS
      <3> QED
        BY <2>1, <2>2, <3>1, <3>2, <3>3 DEF BatteryLine
    <2>6. s[at[i] + 1] = seqs[i][1] /\ s[at[i] + (K + 2)] = seqs[i][K + 2]
      BY <2>2, <2>3
    <2>7. s[at[i] + (K + 3)] = seqs[i][K + 3] /\ s[at[i] + (K + 4)] = seqs[i][K + 4]
      BY <2>2, <2>3
    <2> QED
      BY <2>1, <2>4, <2>5, <2>6, <2>7 DEF BatteryLine
  <1>17. kind = "memory" => MeminfoText(s, lines, at)
    <2> SUFFICES ASSUME kind = "memory", NEW i \in 1..n, NEW K \in Nat, K = KeyLength(lines[i])
                 PROVE  /\ \A k \in 1..K : s[at[i] + k] = lines[i].key[k]
                        /\ s[at[i] + K + 1] = ":"
                        /\ s[at[i] + K + 2] = lines[i].val
                        /\ s[at[i] + K + 3] = " kB"
                        /\ s[at[i] + K + 4] = Newline
      BY <1>3, <1>6 DEF MeminfoText
    <2>1. MeminfoLine(seqs[i], lines[i], K)
      BY <1>5, LineOfMeminfo
    <2>2. \A k \in 1..(K + 4) : s[at[i] + k] = seqs[i][k]
      BY <1>7, <1>11
    <2>3. K + 1 \in 1..(K + 4) /\ K + 2 \in 1..(K + 4) /\ K + 3 \in 1..(K + 4) /\ K + 4 \in 1..(K + 4)
      OBVIOUS
    <2> at[i] \in Nat /\ 1 \in Nat /\ 2 \in Nat /\ 3 \in Nat /\ 4 \in Nat
      BY <1>10
    <2>4. /\ at[i] + (K + 1) = at[i] + K + 1 /\ at[i] + (K + 2) = at[i] + K + 2
          /\ at[i] + (K + 3) = at[i] + K + 3 /\ at[i] + (K + 4) = at[i] + K + 4
      BY Brackets
    <2>5. ASSUME NEW k \in 1..K  PROVE s[at[i] + k] = lines[i].key[k]
      <3>1. k \in 1..(K + 4)
        OBVIOUS
      <3> QED
        BY <2>1, <2>2, <3>1 DEF MeminfoLine
    <2>6. s[at[i] + (K + 1)] = seqs[i][K + 1] /\ s[at[i] + (K + 2)] = seqs[i][K + 2]
      BY <2>2, <2>3
    <2>7. s[at[i] + (K + 3)] = seqs[i][K + 3] /\ s[at[i] + (K + 4)] = seqs[i][K + 4]
      BY <2>2, <2>3
    <2> QED
      BY <2>1, <2>4, <2>5, <2>6, <2>7 DEF MeminfoLine
  <1> QED
    BY <1>1, <1>15, <1>16, <1>17

----------------------------------------------------------------------------
(* Battery::get_property *)

LEMMA BackFrom ==
    ASSUME NEW x \in Nat, NEW a \in Nat, NEW K \in Nat, NEW L \in Nat, x + L = a + K + 2
    PROVE  /\ L <= K => \A m \in 1..L : /\ K - L + m \in 1..K
                                        /\ x + m - 1 = a + (K - L + m) + 1
           /\ ~(L <= K) => L - K \in 1..L /\ x + (L - K) - 1 = a + 1
  OBVIOUS

LEMMA InLine ==
    ASSUME NEW K \in Nat, NEW a \in Nat, NEW k \in 1..(K + 4)
    PROVE  /\ k = 1 \/ k - 1 \in 1..K \/ k = K + 2 \/ k = K + 3 \/ k = K + 4
           /\ k - 1 \in 1..K => a + k = a + (k - 1) + 1
           /\ a + (K + 2) = a + K + 2 /\ a + (K + 3) = a + K + 3 /\ a + (K + 4) = a + K + 4
  OBVIOUS

LEMMA ValuePlaces ==
    ASSUME NEW a \in Nat, NEW L \in Nat, NEW n \in Nat, a + L + 4 <= n, NEW x, x = a + 2
    PROVE  /\ x \in Nat /\ x + L = a + L + 2 /\ x + L + 1 = a + L + 3 /\ x + L + 2 = a + L + 4
           /\ x \in 1..(n - L) /\ x + L + 2 <= n
           /\ \A m \in 1..L : x + m - 1 = a + m + 1
           /\ \A j \in x..(x + L + 1) :
                 (j - (a + 1) \in 1..L /\ j = a + (j - (a + 1)) + 1) \/ j = a + L + 2 \/ j = a + L + 3
  OBVIOUS

(* An equals sign is the one of a line. *)
LEMMA EqualsOfLine ==
    ASSUME NEW s, NEW lines \in Seq(Line), NEW at, Lined(s, lines, at), BatteryText(s, lines, at),
           NEW p \in 1..Len(s), s[p] = "="
    PROVE  \E i \in 1..Len(lines) : p = at[i] + KeyLength(lines[i]) + 2
  <1>0. PICK i \in 1..Len(lines) : \E k \in 1..(KeyLength(lines[i]) + 4) : p = at[i] + k
    BY DEF Lined
  <1>1. PICK k \in 1..(KeyLength(lines[i]) + 4) : p = at[i] + k
    BY <1>0
  <1>2. PICK K \in Nat, a \in Nat : K = KeyLength(lines[i]) /\ a = at[i]
    BY DEF Lined
  <1>3. lines[i] \in Line
    BY ElementOfSeq
  <1>4. /\ s[a + 1] = "POWER_SUPPLY_"
        /\ \A m \in 1..K : s[a + m + 1] = lines[i].key[m]
        /\ s[a + K + 3] = lines[i].val
        /\ s[a + K + 4] = Newline
    BY <1>2 DEF BatteryText
  <1>5. "=" # "POWER_SUPPLY_" /\ "=" # Newline
    BY DEF Newline
  <1>6. lines[i].val # "=" /\ \A m \in 1..K : lines[i].key[m] # "="
    BY <1>2, <1>3, KeyOf, PlainWord
  <1>k. k \in 1..(K + 4)
    BY <1>2
  <1>7. k = 1 \/ k - 1 \in 1..K \/ k = K + 2 \/ k = K + 3 \/ k = K + 4
    BY <1>k, InLine
  <1>8. k - 1 \in 1..K => a + k = a + (k - 1) + 1
    BY <1>k, InLine
  <1>9. a + (K + 2) = a + K + 2 /\ a + (K + 3) = a + K + 3 /\ a + (K + 4) = a + K + 4
    OBVIOUS
  <1>10. p = a + k
    BY <1>1, <1>2
  <1>11. k # 1
    BY <1>4, <1>5, <1>10
  <1>12. ~(k - 1 \in 1..K)
    BY <1>4, <1>6, <1>8, <1>10
  <1>13. k # K + 3
    BY <1>4, <1>6, <1>9, <1>10
  <1>14. k # K + 4
    BY <1>4, <1>5, <1>9, <1>10
  <1> QED
    BY <1>2, <1>7, <1>9, <1>10, <1>11, <1>12, <1>13, <1>14

(* What is found before an equals sign ends the key of a line. *)
LEMMA PropertyPlace ==
    ASSUME NEW s, NEW lines \in Seq(Line), NEW at, Lined(s, lines, at), BatteryText(s, lines, at),
           NEW name \in Seq(Plain), name # <<>>, NEW x \in Occurrences(s, name),
           s[x + Len(name)] = "="
    PROVE  \E i \in 1..Len(lines) : /\ x + Len(name) = at[i] + KeyLength(lines[i]) + 2
                                    /\ Len(name) <= KeyLength(lines[i])
                                    /\ IsSuffix(name, lines[i].key)
  <1>1. s \in Seq(Token) /\ name \in Seq(Token) /\ \A m \in 1..Len(name) : name[m] \in Plain
    BY PlainSeq DEF Lined
  <1>2. PICK L \in Nat : L = Len(name)
    BY LenProperties
  <1>3. Len(s) \in Nat
    BY <1>1, LenProperties
  <1>4. x \in 1..(Len(s) - L) /\ x \in Nat
    BY <1>2, <1>3 DEF Occurrences
  <1>5. \A m \in 1..L : s[x + m - 1] = name[m]
    BY <1>1, <1>2, <1>4, OccursAt
  <1>6. x + L \in 1..Len(s)
    BY <1>3, <1>4
  <1>7. PICK i \in 1..Len(lines) : x + L = at[i] + KeyLength(lines[i]) + 2
    BY <1>2, <1>6, EqualsOfLine
  <1>8. PICK K \in Nat, a \in Nat : K = KeyLength(lines[i]) /\ a = at[i]
    BY DEF Lined
  <1>9. x + L = a + K + 2
    BY <1>7, <1>8
  <1>10. s[a + 1] = "POWER_SUPPLY_" /\ \A m \in 1..K : s[a + m + 1] = lines[i].key[m]
    BY <1>8 DEF BatteryText
  <1>11. L <= K
    <2> SUFFICES ASSUME ~(L <= K)  PROVE FALSE
      OBVIOUS
    <2>1. L - K \in 1..L /\ x + (L - K) - 1 = a + 1
      BY <1>4, <1>9, BackFrom
    <2>2. name[L - K] = s[a + 1] /\ name[L - K] \in Plain
      BY <1>1, <1>2, <1>5, <2>1
    <2> QED
      BY <1>10, <2>2, PlainWord
  <1>12. \A m \in 1..L : name[m] = lines[i].key[K - L + m]
    <2> SUFFICES ASSUME NEW m \in 1..L  PROVE name[m] = lines[i].key[K - L + m]
      OBVIOUS
    <2>1. K - L + m \in 1..K /\ x + m - 1 = a + (K - L + m) + 1
      BY <1>4, <1>9, <1>11, BackFrom
    <2>2. name[m] = s[x + m - 1]
      BY <1>5
    <2>3. s[a + (K - L + m) + 1] = lines[i].key[K - L + m]
      BY <1>10, <2>1
    <2> QED
      BY <2>1, <2>2, <2>3
  <1>13. lines[i].key \in Seq(Token) /\ Len(lines[i].key) = K
    <2>1. lines[i] \in Line
      BY ElementOfSeq
    <2> QED
      BY <1>8, <2>1, KeyOf DEF KeyLength
  <1>14. IsSuffix(name, lines[i].key)
    BY <1>1, <1>2, <1>11, <1>12, <1>13, SuffixOf
  <1> QED
    BY <1>2, <1>7, <1>8, <1>11, <1>14

(* The line of a name is found by it, its value and its end behind it. *)
FoundAt(s, name, x, val) ==
    /\ x \in Nat /\ x \in Occurrences(s, name) /\ s[x + Len(name)] = "="
    /\ s[x + Len(name) + 1] = val /\ s[x + Len(name) + 2] = Newline
    /\ \A j \in x..(x + Len(name) + 1) : s[j] # Newline
    /\ x + Len(name) + 2 <= Len(s)

LEMMA PropertyOfLine ==
    ASSUME NEW s, NEW lines \in Seq(Line), NEW at, Lined(s, lines, at), BatteryText(s, lines, at),
           NEW name \in Seq(Plain), NEW i \in 1..Len(lines), lines[i].key = name,
           NEW x, x = at[i] + 2
    PROVE  FoundAt(s, name, x, lines[i].val)
  <1>1. s \in Seq(Token) /\ name \in Seq(Token)
    BY PlainSeq DEF Lined
  <1>2. PICK L \in Nat, a \in Nat : L = Len(name) /\ a = at[i] /\ L = KeyLength(lines[i])
    BY LenProperties DEF Lined, KeyLength
  <1>3. PICK n \in Nat : n = Len(s) /\ a + L + 4 <= n
    <2>1. Len(s) \in Nat
      BY <1>1, LenProperties
    <2> QED
      BY <1>2, <2>1 DEF Lined
  <1>4. /\ \A m \in 1..L : s[a + m + 1] = name[m]
        /\ s[a + L + 2] = "=" /\ s[a + L + 3] = lines[i].val /\ s[a + L + 4] = Newline
    BY <1>2 DEF BatteryText
  <1>a. x = a + 2
    BY <1>2
  <1>5. x \in Nat /\ x + L = a + L + 2 /\ x + L + 1 = a + L + 3 /\ x + L + 2 = a + L + 4
    BY <1>3, <1>a, ValuePlaces
  <1>6. x \in 1..(n - L) /\ \A m \in 1..L : x + m - 1 = a + m + 1
    BY <1>3, <1>a, ValuePlaces
  <1>7. x \in Occurrences(s, name)
    <2>1. x \in 1..(Len(s) - Len(name))
      BY <1>2, <1>3, <1>6
    <2>2. \A m \in 1..Len(name) : s[x + m - 1] = name[m]
      BY <1>2, <1>4, <1>6
    <2> QED
      BY <1>1, <1>5, <2>1, <2>2, OccursAt
  <1>8. ASSUME NEW j \in x..(x + L + 1)  PROVE s[j] # Newline
    <2>1. lines[i] \in Line
      BY ElementOfSeq
    <2>2. \A m \in 1..L : name[m] # Newline
      BY <1>2, <2>1, KeyOf, PlainWord
    <2>3. lines[i].val # Newline
      BY <2>1, KeyOf, PlainWord
    <2>4. "=" # Newline
      BY DEF Newline
    <2>5. (j - (a + 1) \in 1..L /\ j = a + (j - (a + 1)) + 1) \/ j = a + L + 2 \/ j = a + L + 3
      BY <1>3, <1>a, ValuePlaces
    <2>6. CASE j = a + L + 2 \/ j = a + L + 3
      BY <1>4, <2>3, <2>4, <2>6
    <2>7. CASE j - (a + 1) \in 1..L /\ j = a + (j - (a + 1)) + 1
      BY <1>4, <2>2, <2>7
    <2> QED
      BY <2>5, <2>6, <2>7
  <1>9. x + L + 2 <= n
    BY <1>3, <1>a, ValuePlaces
  <1> QED
    BY <1>2, <1>3, <1>4, <1>5, <1>7, <1>8, <1>9 DEF FoundAt

(* The first end of a line. *)
LEMMA LineEndAt ==
    ASSUME NEW s, NEW x \in Nat, NEW e \in Nat, x <= e, Len(s) \in Nat, e <= Len(s),
           s[e] = Newline, \A j \in x..(e - 1) : s[j] # Newline
    PROVE  LineEnd(s, x) = e
  <1> DEFINE c == LineEnd(s, x)
  <1>1. e \in x..Len(s)
    OBVIOUS
  <1>2. c \in x..Len(s) /\ s[c] = Newline /\ \A j \in x..(c - 1) : s[j] # Newline
    BY <1>1 DEF LineEnd
  <1> HIDE DEF c
  <1>3. ~(c < e)
    <2>1. c < e => c \in x..(e - 1)
      BY <1>2
    <2> QED
      BY <1>2, <2>1
  <1>4. ~(e < c)
    <2>1. e < c => e \in x..(c - 1)
      BY <1>2
    <2> QED
      BY <1>2, <2>1
  <1>5. c \in Nat
    BY <1>2
  <1>6. c = e
    BY <1>3, <1>4, <1>5
  <1> QED
    BY <1>6 DEF c

(* The files of the battery and the memory block have each key once. *)
LEMMA Keyed ==
    ASSUME kind \in Kind, kind \in {"battery", "memory"}, file \in Files[kind]
    PROVE  /\ file \in Seq(Line)
           /\ \A i, j \in 1..Len(file) : file[i].key = file[j].key => i = j
           /\ \A n \in Fields[kind] : Words[n] \in Seq(Plain) /\ Words[n] # <<>>
  <1>1. file \in Seq(Line)
    BY KernelFiles
  <1>2. DOMAIN file = 1..Len(file)
    BY <1>1, LenProperties
  <1>3. \A i, j \in DOMAIN file : file[i].key = file[j].key => i = j
    BY KernelFiles
  <1>4. \A n \in Fields[kind] : Words[n] \in Seq(Plain) /\ Words[n] # <<>>
    BY KernelFiles
  <1> QED
    BY <1>1, <1>2, <1>3, <1>4

(* A name has at most one line. *)
LEMMA LineOfOne ==
    ASSUME kind \in Kind, kind \in {"battery", "memory"}, file \in Files[kind],
           NEW n, NEW i \in LineOf(n)
    PROVE  i \in 1..Len(file) /\ file[i].key = Words[n] /\ LineOf(n) = {i}
  <1>1. file \in Seq(Line) /\ \A k, j \in 1..Len(file) : file[k].key = file[j].key => k = j
    BY Keyed
  <1>2. DOMAIN file = 1..Len(file)
    BY <1>1, LenProperties
  <1> QED
    BY <1>1, <1>2 DEF LineOf

LEMMA SizesOfText ==
    ASSUME NEW s, NEW lines \in Seq(Line), NEW at, Lined(s, lines, at), NEW i \in 1..Len(lines)
    PROVE  at[i] \in Nat /\ KeyLength(lines[i]) \in Nat
  BY DEF Lined

LEMMA LaterPlace ==
    ASSUME NEW a \in Nat, NEW K \in Nat, NEW b \in Nat, NEW M \in Nat, NEW L \in Nat, NEW y \in Nat,
           a + K + 4 <= b, y + L = b + M + 2, L <= M
    PROVE  a + 2 <= y
  OBVIOUS

(* Battery::get_property finds the value of the line with the name. *)
THEOREM GetPropertyShows ==
    ASSUME kind \in Kind, kind = "battery", file \in Files[kind], KernelOrder, NEW n \in Fields[kind]
    PROVE  GetProperty(FileText(file), Words[n]) = InFile(n)
  <1> DEFINE name == Words[n]
  <1>1. /\ file \in Seq(Line) /\ name \in Seq(Plain) /\ name # <<>>
    BY Keyed
  <1>2. PICK at : Lined(FileText(file), file, at) /\ BatteryText(FileText(file), file, at)
    BY <1>1, FileLined
  <1>3. PICK s : s = FileText(file)
    OBVIOUS
  <1>4. Lined(s, file, at) /\ BatteryText(s, file, at)
    BY <1>2, <1>3
  <1>5. DOMAIN file = 1..Len(file)
    BY <1>1, LenProperties
  <1>6. PICK L \in Nat : L = Len(name)
    BY <1>1, LenProperties
  <1> HIDE DEF name
  <1> DEFINE found == {i \in Occurrences(s, name) : s[i + L] = "="}
  <1>7. ASSUME NEW y \in found
        PROVE  \E i \in 1..Len(file) : /\ y + L = at[i] + KeyLength(file[i]) + 2
                                       /\ L <= KeyLength(file[i]) /\ IsSuffix(name, file[i].key)
    BY <1>1, <1>4, <1>6, PropertyPlace
  <1>8. \A i \in 1..Len(file) : IsSuffix(name, file[i].key) => \E j \in LineOf(n) : j <= i
    BY <1>5 DEF KernelOrder, Confused, name
  <1>9. CASE LineOf(n) = {}
    <2>1. found = {}
      BY <1>7, <1>8, <1>9
    <2>2. GetProperty(s, name) = Missing
      BY <1>6, <2>1 DEF GetProperty, Matches
    <2>3. InFile(n) = Missing
      BY <1>9 DEF InFile
    <2> QED
      BY <1>3, <2>2, <2>3 DEF name
  <1>10. CASE LineOf(n) # {}
    <2>1. PICK l \in LineOf(n) : TRUE
      BY <1>10
    <2>2. l \in 1..Len(file) /\ file[l].key = name /\ LineOf(n) = {l}
      BY <2>1, LineOfOne DEF name
    <2>3. PICK x : x = at[l] + 2
      OBVIOUS
    <2>4. /\ x \in Nat /\ x \in Occurrences(s, name) /\ s[x + L] = "="
          /\ s[x + L + 1] = file[l].val /\ s[x + L + 2] = Newline
          /\ \A j \in x..(x + L + 1) : s[j] # Newline
          /\ x + L + 2 <= Len(s)
      <3> HIDE DEF found
      <3>1. FoundAt(s, name, x, file[l].val)
        BY <1>1, <1>4, <2>2, <2>3, PropertyOfLine
      <3> QED
        BY <1>6, <3>1 DEF FoundAt
    <2>5. ASSUME NEW y \in found  PROVE x <= y
      <3>1. PICK i \in 1..Len(file) : /\ y + L = at[i] + KeyLength(file[i]) + 2
                                      /\ L <= KeyLength(file[i]) /\ IsSuffix(name, file[i].key)
        BY <1>7
      <3>2. PICK a \in Nat, K \in Nat : a = at[l] /\ K = KeyLength(file[l])
        BY <1>1, <1>4, <2>2, SizesOfText
      <3>3. PICK b \in Nat, M \in Nat : b = at[i] /\ M = KeyLength(file[i])
        BY <1>1, <1>4, SizesOfText
      <3>4. y \in Nat
        <4>1. Len(s) \in Nat
          BY <1>4, LenProperties DEF Lined
        <4> QED
          BY <1>6, <4>1 DEF Occurrences
      <3>5. l = i \/ l < i
        BY <1>8, <2>2, <3>1
      <3>6. K = L
        BY <1>6, <2>2, <3>2 DEF KeyLength
      <3>7. CASE l = i
        <4>1. x = a + 2 /\ y + L = a + L + 2
          BY <2>3, <3>1, <3>2, <3>3, <3>6, <3>7
        <4> QED
          BY <3>4, <4>1
      <3>8. CASE l < i
        <4>1. a + K + 4 <= b
          BY <1>4, <2>2, <3>2, <3>3, <3>8 DEF Lined
        <4>2. y + L = b + M + 2 /\ L <= M
          BY <3>1, <3>3
        <4>3. a + 2 <= y
          BY <3>4, <4>1, <4>2, LaterPlace
        <4> QED
          BY <2>3, <3>2, <4>3
      <3> QED
        BY <3>5, <3>7, <3>8
    <2>6. x \in found /\ found \in SUBSET Nat
      <3>1. Len(s) \in Nat
        BY <1>4, LenProperties DEF Lined
      <3> QED
        BY <1>6, <2>4, <3>1 DEF Occurrences
    <2> HIDE DEF found
    <2>7. Least(found) = x
      BY <2>5, <2>6, LeastOf
    <2>8. LineEnd(s, x) = x + L + 2
      <3>1. PICK e \in Nat : e = x + L + 2 /\ x <= e /\ e - 1 = x + L + 1
        BY <2>4
      <3>2. Len(s) \in Nat
        BY <1>4, LenProperties DEF Lined
      <3> QED
        BY <2>4, <3>1, <3>2, LineEndAt
    <2>9. GetProperty(s, name) = SubSeq(s, x + L + 1, x + L + 2 - 1)
      <3>1. found = Matches(s, name)
        BY <1>6 DEF found, Matches
      <3> QED
        BY <1>6, <2>6, <2>7, <2>8, <3>1 DEF GetProperty
    <2>10. SubSeq(s, x + L + 1, x + L + 2 - 1) = <<file[l].val>>
      <3>1. PICK v \in Nat : v = x + L + 1 /\ v = x + L + 2 - 1 /\ v \in 1..Len(s)
        <4>1. Len(s) \in Nat
          BY <1>4, LenProperties DEF Lined
        <4> QED
          BY <2>4, <4>1
      <3>2. SubSeq(s, v, v) = <<s[v]>>
        BY <1>4, <3>1, PartOne DEF Lined
      <3> QED
        BY <2>4, <3>1, <3>2
    <2>11. InFile(n) = <<file[l].val>>
      <3>1. (CHOOSE i \in LineOf(n) : TRUE) = l
        BY <2>2
      <3> QED
        BY <1>10, <3>1 DEF InFile
    <2> QED
      BY <1>3, <2>9, <2>10, <2>11 DEF name
  <1> QED
    BY <1>9, <1>10

----------------------------------------------------------------------------
(* MemoryUsagePrinter::get_memusage *)

LEMMA InKey ==
    ASSUME NEW a \in Nat, NEW K \in Nat, NEW k \in 1..K, NEW L \in Nat
    PROVE  /\ ~(k - 1 + L <= K) => K + 2 - k \in 1..L /\ a + k + (K + 2 - k) - 1 = a + K + 1
           /\ k - 1 + L <= K => \A m \in 1..L : /\ k - 1 + m \in 1..K
                                                /\ a + k + m - 1 = a + (k - 1 + m)
  OBVIOUS

LEMMA InMeminfoLine ==
    ASSUME NEW K \in Nat, NEW a \in Nat, NEW k \in 1..(K + 4)
    PROVE  /\ k \in 1..K \/ k = K + 1 \/ k = K + 2 \/ k = K + 3 \/ k = K + 4
           /\ a + (K + 1) = a + K + 1 /\ a + (K + 2) = a + K + 2
           /\ a + (K + 3) = a + K + 3 /\ a + (K + 4) = a + K + 4
  OBVIOUS

(* A name the memory block looks for. *)
MeminfoName(name) ==
    /\ name \in Seq(Plain) /\ name # <<>>
    /\ \A m \in 1..Len(name) : name[m] \notin DOMAIN Amount

MeminfoLines(lines) ==
    /\ lines \in Seq(Line)
    /\ \A i \in 1..Len(lines) : lines[i].val \in DOMAIN Amount

(* A name is found within a key and nowhere else. *)
LEMMA MeminfoPlace ==
    ASSUME NEW s, NEW lines, MeminfoLines(lines), NEW at, Lined(s, lines, at),
           MeminfoText(s, lines, at), NEW name, MeminfoName(name), NEW x \in Occurrences(s, name)
    PROVE  \E i \in 1..Len(lines) : at[i] + 1 <= x /\ name \in SubSeqs(lines[i].key)
  <1>1. s \in Seq(Token) /\ name \in Seq(Token) /\ \A m \in 1..Len(name) : name[m] \in Plain
    BY PlainSeq DEF Lined, MeminfoName
  <1>2. PICK L \in Nat : L = Len(name) /\ L # 0
    <2>1. Len(name) # 0
      BY <1>1, EmptySeq DEF MeminfoName
    <2> QED
      BY <1>1, <2>1, LenProperties
  <1>3. Len(s) \in Nat
    BY <1>1, LenProperties
  <1>4. x \in 1..(Len(s) - L) /\ x \in Nat
    BY <1>2, <1>3 DEF Occurrences
  <1>5. \A m \in 1..L : s[x + m - 1] = name[m]
    BY <1>1, <1>2, <1>4, OccursAt
  <1>6. x \in 1..Len(s)
    BY <1>3, <1>4
  <1>7. PICK i \in 1..Len(lines) : \E k \in 1..(KeyLength(lines[i]) + 4) : x = at[i] + k
    BY <1>6 DEF Lined
  <1>8. PICK k \in 1..(KeyLength(lines[i]) + 4) : x = at[i] + k
    BY <1>7
  <1>9. PICK K \in Nat, a \in Nat : K = KeyLength(lines[i]) /\ a = at[i]
    BY DEF Lined
  <1>10. k \in 1..(K + 4) /\ x = a + k
    BY <1>8, <1>9
  <1>11. /\ \A m \in 1..K : s[a + m] = lines[i].key[m]
         /\ s[a + K + 1] = ":" /\ s[a + K + 2] = lines[i].val
         /\ s[a + K + 3] = " kB" /\ s[a + K + 4] = Newline
    BY <1>9 DEF MeminfoText
  <1>12. s[x] = name[1] /\ name[1] \in Plain /\ name[1] \notin DOMAIN Amount
    <2>1. 1 \in 1..L /\ x + 1 - 1 = x
      BY <1>2, <1>4
    <2> QED
      BY <1>1, <1>2, <1>5, <2>1 DEF MeminfoName
  <1>13. k \in 1..K
    <2>1. lines[i].val \in DOMAIN Amount
      BY DEF MeminfoLines
    <2>2. k \in 1..K \/ k = K + 1 \/ k = K + 2 \/ k = K + 3 \/ k = K + 4
      BY <1>10, InMeminfoLine
    <2>3. /\ a + (K + 1) = a + K + 1 /\ a + (K + 2) = a + K + 2
          /\ a + (K + 3) = a + K + 3 /\ a + (K + 4) = a + K + 4
      BY <1>10, InMeminfoLine
    <2>4. s[x] # ":" /\ s[x] # " kB" /\ s[x] # Newline
      BY <1>12, PlainWord
    <2>5. s[x] # lines[i].val
      BY <1>12, <2>1
    <2> QED
      BY <1>10, <1>11, <2>2, <2>3, <2>4, <2>5
  <1>14. k - 1 + L <= K
    <2> SUFFICES ASSUME ~(k - 1 + L <= K)  PROVE FALSE
      OBVIOUS
    <2>1. K + 2 - k \in 1..L /\ a + k + (K + 2 - k) - 1 = a + K + 1
      BY <1>13, InKey
    <2>2. name[K + 2 - k] = s[a + K + 1] /\ name[K + 2 - k] \in Plain
      BY <1>1, <1>2, <1>5, <1>10, <2>1
    <2> QED
      BY <1>11, <2>2, PlainWord
  <1>15. \A m \in 1..L : name[m] = lines[i].key[k - 1 + m]
    <2> SUFFICES ASSUME NEW m \in 1..L  PROVE name[m] = lines[i].key[k - 1 + m]
      OBVIOUS
    <2>1. k - 1 + m \in 1..K /\ a + k + m - 1 = a + (k - 1 + m)
      BY <1>13, <1>14, InKey
    <2>2. name[m] = s[a + k + m - 1]
      BY <1>5, <1>10
    <2> QED
      BY <1>11, <2>1, <2>2
  <1>16. lines[i].key \in Seq(Token) /\ Len(lines[i].key) = K
    <2>1. lines[i] \in Line
      BY ElementOfSeq DEF MeminfoLines
    <2> QED
      BY <1>9, <2>1, KeyOf DEF KeyLength
  <1>17. PICK c \in Nat : c = k - 1
    BY <1>13
  <1>18. name \in SubSeqs(lines[i].key)
    <2>1. c + Len(name) <= Len(lines[i].key)
      BY <1>2, <1>14, <1>16, <1>17
    <2>2. \A m \in 1..Len(name) : name[m] = lines[i].key[c + m]
      BY <1>2, <1>15, <1>17
    <2> QED
      BY <1>1, <1>16, <2>1, <2>2, PartOf DEF MeminfoName
  <1>19. at[i] + 1 <= x
    BY <1>9, <1>10
  <1> QED
    BY <1>18, <1>19

LEMMA AmountPlaces ==
    ASSUME NEW a \in Nat, NEW L \in Nat, NEW n \in Nat, a + L + 4 <= n, NEW x, x = a + 1
    PROVE  /\ x \in Nat /\ x + L = a + L + 1 /\ x + L + 1 = a + L + 2 /\ x \in 1..(n - L)
           /\ \A m \in 1..L : x + m - 1 = a + m
  OBVIOUS

(* Without the name in an earlier key the line of the name is found. *)
LEMMA MemusageOfLine ==
    ASSUME NEW s, NEW lines, MeminfoLines(lines), NEW at, Lined(s, lines, at),
           MeminfoText(s, lines, at), NEW name, MeminfoName(name),
           NEW l \in 1..Len(lines), lines[l].key = name,
           \A i \in 1..Len(lines) : name \in SubSeqs(lines[i].key) => l <= i
    PROVE  GetMemusage(s, name) = Amount[lines[l].val] * Thousand
  <1>1. s \in Seq(Token) /\ name \in Seq(Token)
    BY PlainSeq DEF Lined, MeminfoName
  <1>2. PICK L \in Nat, a \in Nat : L = Len(name) /\ a = at[l] /\ L = KeyLength(lines[l])
    BY <1>1, LenProperties DEF Lined, KeyLength
  <1>3. PICK n \in Nat : n = Len(s) /\ a + L + 4 <= n
    <2>1. Len(s) \in Nat
      BY <1>1, LenProperties
    <2> QED
      BY <1>2, <2>1 DEF Lined
  <1>4. /\ \A m \in 1..L : s[a + m] = name[m]
        /\ s[a + L + 1] = ":" /\ s[a + L + 2] = lines[l].val
    BY <1>2 DEF MeminfoText
  <1>5. PICK x : x = a + 1
    OBVIOUS
  <1>6. x \in Nat /\ x + L = a + L + 1 /\ x + L + 1 = a + L + 2 /\ x \in 1..(n - L)
    BY <1>3, <1>5, AmountPlaces
  <1>7. \A m \in 1..L : x + m - 1 = a + m
    BY <1>3, <1>5, AmountPlaces
  <1>8. x \in Occurrences(s, name)
    <2>1. x \in 1..(Len(s) - Len(name))
      BY <1>2, <1>3, <1>6
    <2>2. \A m \in 1..Len(name) : s[x + m - 1] = name[m]
      BY <1>2, <1>4, <1>7
    <2> QED
      BY <1>1, <1>6, <2>1, <2>2, OccursAt
  <1>9. Occurrences(s, name) \in SUBSET Nat
    BY <1>2, <1>3 DEF Occurrences
  <1>10. ASSUME NEW y \in Occurrences(s, name)  PROVE x <= y
    <2>1. PICK i \in 1..Len(lines) : at[i] + 1 <= y /\ name \in SubSeqs(lines[i].key)
      BY MeminfoPlace
    <2>2. i = l \/ l < i
      BY <2>1
    <2>3. PICK b \in Nat : b = at[i]
      BY DEF Lined
    <2>4. y \in Nat
      BY <1>9
    <2>5. a <= b
      <3>1. l < i => a + L + 4 <= b
        BY <1>2, <2>3 DEF Lined
      <3> QED
        BY <1>2, <2>2, <2>3, <3>1
    <2> QED
      BY <1>5, <2>1, <2>3, <2>4, <2>5
  <1>11. Least(Occurrences(s, name)) = x
    BY <1>8, <1>9, <1>10, LeastOf
  <1>12. s[x + L] = ":" /\ s[x + L + 1] = lines[l].val
    BY <1>4, <1>6
  <1> QED
    BY <1>2, <1>8, <1>11, <1>12 DEF GetMemusage

LEMMA OfMeminfo ==
    ASSUME kind \in Kind, kind = "memory", file \in Files[kind]
    PROVE  /\ MeminfoLines(file)
           /\ \A n \in Fields[kind] \cup {"MemTotal"} : MeminfoName(Words[n])
           /\ 1 \in 1..Len(file) /\ file[1].key = Words["MemTotal"]
           /\ \A i \in 1..Len(file) : Amount[file[i].val] * Thousand < SizeMax
  <1>1. file \in Seq(Line) /\ file # <<>> /\ file[1].key = Words["MemTotal"]
    BY Keyed, MeminfoFiles
  <1>2. Len(file) \in Nat /\ DOMAIN file = 1..Len(file)
    BY <1>1, LenProperties
  <1>3. Len(file) # 0
    BY <1>1, EmptySeq
  <1>4. \A i \in 1..Len(file) : file[i].val \in DOMAIN Amount /\ Amount[file[i].val] * Thousand < SizeMax
    BY <1>2, MeminfoFiles
  <1>5. ASSUME NEW n \in Fields[kind] \cup {"MemTotal"}  PROVE MeminfoName(Words[n])
    <2>1. Words[n] \in Seq(Plain) /\ Words[n] # <<>>
      BY Keyed, MeminfoFiles
    <2>2. DOMAIN Words[n] = 1..Len(Words[n])
      BY <2>1, LenProperties
    <2>3. ToSet(Words[n]) \cap DOMAIN Amount = {}
      BY MeminfoFiles
    <2>4. \A m \in 1..Len(Words[n]) : Words[n][m] \in ToSet(Words[n])
      BY <2>2 DEF ToSet
    <2> QED
      BY <2>1, <2>3, <2>4 DEF MeminfoName
  <1> QED
    BY <1>1, <1>2, <1>3, <1>4, <1>5 DEF MeminfoLines

(* MemoryUsagePrinter::get_memusage finds the amount of the line with the name. *)
THEOREM GetMemusageShows ==
    ASSUME kind \in Kind, kind = "memory", file \in Files[kind], KernelOrder, NEW n \in Fields[kind]
    PROVE  GetMemusage(FileText(file), Words[n]) = InFile(n)
  <1> DEFINE name == Words[n]
  <1>1. MeminfoLines(file) /\ MeminfoName(name) /\ file \in Seq(Line)
    BY OfMeminfo, Keyed
  <1>2. PICK s, at : s = FileText(file) /\ Lined(s, file, at) /\ MeminfoText(s, file, at)
    BY <1>1, FileLined
  <1>3. DOMAIN file = 1..Len(file)
    BY <1>1, LenProperties
  <1> HIDE DEF name
  <1>4. \A i \in 1..Len(file) : name \in SubSeqs(file[i].key) => \E j \in LineOf(n) : j <= i
    BY <1>3 DEF KernelOrder, Confused, name
  <1>5. CASE LineOf(n) = {}
    <2>1. Occurrences(s, name) = {}
      BY <1>1, <1>2, <1>4, <1>5, MeminfoPlace
    <2>2. GetMemusage(s, name) = SizeMax
      BY <2>1 DEF GetMemusage
    <2> QED
      BY <1>2, <1>5, <2>2 DEF InFile, name
  <1>6. CASE LineOf(n) # {}
    <2>1. PICK l \in LineOf(n) : TRUE
      BY <1>6
    <2>2. l \in 1..Len(file) /\ file[l].key = name /\ LineOf(n) = {l}
      BY <2>1, LineOfOne DEF name
    <2>3. \A i \in 1..Len(file) : name \in SubSeqs(file[i].key) => l <= i
      BY <1>4, <2>2
    <2>4. GetMemusage(s, name) = Amount[file[l].val] * Thousand
      BY <1>1, <1>2, <2>2, <2>3, MemusageOfLine
    <2>5. InFile(n) = Amount[file[l].val] * Thousand
      <3>1. (CHOOSE i \in LineOf(n) : TRUE) = l
        BY <2>2
      <3> QED
        BY <1>6, <3>1 DEF InFile
    <2> QED
      BY <1>2, <2>4, <2>5 DEF name
  <1> QED
    BY <1>5, <1>6

Total == Amount[file[1].val] * Thousand

(* The total of the memory is found in every file of the memory block: the *)
(* search of the first update (MemoryUsagePrinter::update) ends.           *)
THEOREM TotalFound ==
    ASSUME kind \in Kind, kind = "memory", file \in Files[kind]
    PROVE  GetMemusage(FileText(file), Words["MemTotal"]) = Total
  <1>1. MeminfoLines(file) /\ MeminfoName(Words["MemTotal"]) /\ file \in Seq(Line)
    BY OfMeminfo, Keyed
  <1>2. PICK s, at : s = FileText(file) /\ Lined(s, file, at) /\ MeminfoText(s, file, at)
    BY <1>1, FileLined
  <1>3. 1 \in 1..Len(file) /\ file[1].key = Words["MemTotal"]
    BY OfMeminfo
  <1>4. \A i \in 1..Len(file) : Words["MemTotal"] \in SubSeqs(file[i].key) => 1 <= i
    OBVIOUS
  <1>5. GetMemusage(s, Words["MemTotal"]) = Amount[file[1].val] * Thousand
    BY <1>1, <1>2, <1>3, <1>4, MemusageOfLine
  <1> QED
    BY <1>2, <1>5 DEF Total

LEMMA TotalInFile ==
    ASSUME kind \in Kind, kind = "memory", file \in Files[kind]
    PROVE  InFile("MemTotal") = Total
  <1>1. 1 \in 1..Len(file) /\ file[1].key = Words["MemTotal"] /\ file \in Seq(Line)
    BY OfMeminfo, Keyed
  <1>2. DOMAIN file = 1..Len(file)
    BY <1>1, LenProperties
  <1>3. 1 \in LineOf("MemTotal")
    BY <1>1, <1>2 DEF LineOf
  <1>4. LineOf("MemTotal") = {1}
    BY <1>3, LineOfOne
  <1>5. (CHOOSE i \in LineOf("MemTotal") : TRUE) = 1
    BY <1>4
  <1> QED
    BY <1>3, <1>5 DEF InFile, Total

----------------------------------------------------------------------------
(* LoadPrinter::split and parse_loadavg *)

LEMMA Tuple12 ==
    ASSUME NEW W, NEW a \in W, NEW b \in W, NEW c \in W, NEW d \in W, NEW e \in W, NEW f \in W,
           NEW g \in W, NEW h \in W, NEW i \in W, NEW j \in W, NEW k \in W, NEW l \in W
    PROVE  /\ <<a, b, c, d, e, f, g, h, i, j, k, l>> \in Seq(W)
           /\ Len(<<a, b, c, d, e, f, g, h, i, j, k, l>>) = 12
  OBVIOUS

LEMMA Grown ==
    ASSUME NEW T, IsFiniteSet(T), NEW n \in Nat, Cardinality(T) = n, NEW x, x \notin T
    PROVE  IsFiniteSet(T \cup {x}) /\ Cardinality(T \cup {x}) = n + 1
  BY FS_AddElement

(* The text of /proc/loadavg. *)
LoadavgText(s) ==
    /\ s \in Seq(Token) /\ Len(s) = 12
    /\ s[1] \in Plain /\ s[3] \in Plain /\ s[5] \in Plain
    /\ s[7] \in Plain /\ s[9] \in Plain /\ s[11] \in Plain
    /\ s[2] = " " /\ s[4] = " " /\ s[6] = " " /\ s[8] = "/" /\ s[10] = " " /\ s[12] = Newline

LEMMA OneOfTwelve ==
    \A i \in 1..12 : i = 1 \/ i = 2 \/ i = 3 \/ i = 4 \/ i = 5 \/ i = 6 \/ i = 7 \/ i = 8
                     \/ i = 9 \/ i = 10 \/ i = 11 \/ i = 12
  OBVIOUS

LEMMA SpacesOfLoadavg ==
    ASSUME NEW s, LoadavgText(s)
    PROVE  Spaces(s) = {2, 4, 6, 10} /\ Spaces(s) \cup {Len(s) + 1} = {2, 4, 6, 10, 13}
  <1>1. DOMAIN s = 1..12
    BY LenProperties DEF LoadavgText
  <1>2. s[1] # " " /\ s[3] # " " /\ s[5] # " " /\ s[7] # " " /\ s[9] # " " /\ s[11] # " "
    BY PlainWord DEF LoadavgText
  <1>3. s[8] # " " /\ s[12] # " "
    BY DEF LoadavgText, Newline
  <1>4. s[2] = " " /\ s[4] = " " /\ s[6] = " " /\ s[10] = " "
    BY DEF LoadavgText
  <1>5. \A i \in 1..12 : s[i] = " " <=> i \in {2, 4, 6, 10}
    BY <1>2, <1>3, <1>4, OneOfTwelve
  <1>6. 2 \in 1..12 /\ 4 \in 1..12 /\ 6 \in 1..12 /\ 10 \in 1..12
    OBVIOUS
  <1>7. Spaces(s) = {2, 4, 6, 10}
    BY <1>1, <1>5, <1>6 DEF Spaces
  <1>8. Len(s) + 1 = 13
    <2>1. Len(s) = 12
      BY DEF LoadavgText
    <2>2. 12 + 1 = 13
      OBVIOUS
    <2> QED
      BY <2>1, <2>2
  <1> QED
    BY <1>7, <1>8

LEMMA Counts ==
    /\ Cardinality({}) = 0 /\ Cardinality({2}) = 1 /\ Cardinality({2, 4}) = 2
    /\ Cardinality({2, 4, 6}) = 3 /\ Cardinality({2, 4, 6, 10}) = 4
    /\ Cardinality({2, 4, 6, 10, 13}) = 5
  <1>1. IsFiniteSet({}) /\ Cardinality({}) = 0
    BY FS_EmptySet
  <1>2. IsFiniteSet({2}) /\ Cardinality({2}) = 1
    BY FS_Singleton
  <1>3. IsFiniteSet({2, 4}) /\ Cardinality({2, 4}) = 2
    <2>1. {2, 4} = {2} \cup {4} /\ 4 \notin {2} /\ 1 \in Nat /\ 1 + 1 = 2
      OBVIOUS
    <2> QED
      BY <1>2, <2>1, Grown
  <1>4. IsFiniteSet({2, 4, 6}) /\ Cardinality({2, 4, 6}) = 3
    <2>1. {2, 4, 6} = {2, 4} \cup {6} /\ 6 \notin {2, 4} /\ 2 \in Nat /\ 2 + 1 = 3
      OBVIOUS
    <2> QED
      BY <1>3, <2>1, Grown
  <1>5. IsFiniteSet({2, 4, 6, 10}) /\ Cardinality({2, 4, 6, 10}) = 4
    <2>1. {2, 4, 6, 10} = {2, 4, 6} \cup {10} /\ 10 \notin {2, 4, 6} /\ 3 \in Nat /\ 3 + 1 = 4
      OBVIOUS
    <2> QED
      BY <1>4, <2>1, Grown
  <1>6. Cardinality({2, 4, 6, 10, 13}) = 5
    <2>1. {2, 4, 6, 10, 13} = {2, 4, 6, 10} \cup {13} /\ 13 \notin {2, 4, 6, 10} /\ 4 \in Nat /\ 4 + 1 = 5
      OBVIOUS
    <2> QED
      BY <1>5, <2>1, Grown
  <1> QED
    BY <1>1, <1>2, <1>3, <1>4, <1>5, <1>6

Ends == {2, 4, 6, 10, 13}

LEMMA EndsUpTo ==
    /\ {e \in Ends : e <= 0} = {} /\ {e \in Ends : e <= 2} = {2} /\ {e \in Ends : e <= 4} = {2, 4}
    /\ {e \in Ends : e <= 6} = {2, 4, 6} /\ {e \in Ends : e <= 10} = {2, 4, 6, 10}
    /\ {e \in Ends : e <= 13} = {2, 4, 6, 10, 13}
  <1>1. {e \in Ends : e <= 0} = {} /\ {e \in Ends : e <= 2} = {2}
    BY DEF Ends
  <1>2. {e \in Ends : e <= 4} = {2, 4}
    BY DEF Ends
  <1>3. {e \in Ends : e <= 6} = {2, 4, 6}
    BY DEF Ends
  <1>4. {e \in Ends : e <= 10} = {2, 4, 6, 10}
    BY DEF Ends
  <1>5. {e \in Ends : e <= 13} = {2, 4, 6, 10, 13}
    BY DEF Ends
  <1> QED
    BY <1>1, <1>2, <1>3, <1>4, <1>5

(* Where LoadPrinter::split cuts it. *)
LEMMA CutsOfLoadavg ==
    ASSUME NEW s, LoadavgText(s)
    PROVE  /\ Cut(s, 0) = 0 /\ Cut(s, 1) = 2 /\ Cut(s, 2) = 4 /\ Cut(s, 3) = 6
           /\ Cut(s, 4) = 10 /\ Cut(s, 5) = 13
  <1>1. Spaces(s) \cup {Len(s) + 1} = Ends
    BY SpacesOfLoadavg DEF Ends
  <1> DEFINE count(i) == Cardinality({e \in Ends : e <= i})
             P == {0} \cup Ends
  <1>2. count(0) = 0 /\ count(2) = 1 /\ count(4) = 2 /\ count(6) = 3 /\ count(10) = 4 /\ count(13) = 5
    BY Counts, EndsUpTo
  <1>3. \A k : Cut(s, k) = CHOOSE i \in P : count(i) = k
    BY <1>1 DEF Cut
  <1>4. P = {0, 2, 4, 6, 10, 13}
    BY DEF Ends
  <1> HIDE DEF count, P
  <1>5. ASSUME NEW x \in P, NEW k, k = count(x)  PROVE Cut(s, k) = x
    <2>1. \A i \in P : count(i) = k <=> i = x
      BY <1>2, <1>4, <1>5
    <2> QED
      BY <1>3, <2>1
  <1> QED
    BY <1>2, <1>4, <1>5

LEMMA PartsOfLoadavg ==
    ASSUME NEW s, LoadavgText(s)
    PROVE  /\ Split(s)[1] = <<s[1]>> /\ Split(s)[2] = <<s[3]>> /\ Split(s)[3] = <<s[5]>>
           /\ Split(s)[4] = <<s[7], "/", s[9]>> /\ Split(s)[5] = <<s[11], Newline>>
  <1>1. Cardinality(Spaces(s)) + 1 = 5
    <2>1. Spaces(s) = {2, 4, 6, 10}
      BY SpacesOfLoadavg
    <2>2. Cardinality({2, 4, 6, 10}) = 4 /\ 4 + 1 = 5
      BY Counts
    <2> QED
      BY <2>1, <2>2
  <1>2. \A k \in 1..5 : Split(s)[k] = SubSeq(s, Cut(s, k - 1) + 1, Cut(s, k) - 1)
    BY <1>1 DEF Split
  <1>3. 1 \in 1..5 /\ 2 \in 1..5 /\ 3 \in 1..5 /\ 4 \in 1..5 /\ 5 \in 1..5
    OBVIOUS
  <1>4. 1 - 1 = 0 /\ 2 - 1 = 1 /\ 3 - 1 = 2 /\ 4 - 1 = 3 /\ 5 - 1 = 4
    OBVIOUS
  <1>5. Split(s)[1] = SubSeq(s, 0 + 1, 2 - 1) /\ Split(s)[2] = SubSeq(s, 2 + 1, 4 - 1)
    BY <1>2, <1>3, <1>4, CutsOfLoadavg
  <1>6. Split(s)[3] = SubSeq(s, 4 + 1, 6 - 1) /\ Split(s)[4] = SubSeq(s, 6 + 1, 10 - 1)
    BY <1>2, <1>3, <1>4, CutsOfLoadavg
  <1>7. Split(s)[5] = SubSeq(s, 10 + 1, 13 - 1)
    BY <1>2, <1>3, <1>4, CutsOfLoadavg
  <1>8. s \in Seq(Token) /\ Len(s) = 12 /\ \A i \in 1..12 : s[i] \in Token
    BY ElementOfSeq DEF LoadavgText
  <1>9. SubSeq(s, 1, 1) = <<s[1]>> /\ SubSeq(s, 3, 3) = <<s[3]>> /\ SubSeq(s, 5, 5) = <<s[5]>>
    <2>1. 1 \in Nat /\ 3 \in Nat /\ 5 \in Nat /\ 1 \in 1..12 /\ 3 \in 1..12 /\ 5 \in 1..12
      OBVIOUS
    <2> QED
      BY <1>8, <2>1, PartOne
  <1>10. SubSeq(s, 7, 9) = <<s[7], "/", s[9]>>
    <2>1. 7 \in Nat /\ 7 \in 1..12 /\ 7 + 1 \in 1..12 /\ 7 + 2 \in 1..12
      OBVIOUS
    <2>2. SubSeq(s, 7, 7 + 2) = <<s[7], s[7 + 1], s[7 + 2]>>
      BY <1>8, <2>1, PartThree
    <2>3. 7 + 1 = 8 /\ 7 + 2 = 9
      OBVIOUS
    <2>4. s[8] = "/"
      BY DEF LoadavgText
    <2> QED
      BY <2>2, <2>3, <2>4
  <1>11. SubSeq(s, 11, 12) = <<s[11], Newline>>
    <2>1. 11 \in Nat /\ 11 \in 1..12 /\ 11 + 1 \in 1..12
      OBVIOUS
    <2>2. SubSeq(s, 11, 11 + 1) = <<s[11], s[11 + 1]>>
      BY <1>8, <2>1, PartTwo
    <2>3. 11 + 1 = 12
      OBVIOUS
    <2>4. s[12] = Newline
      BY DEF LoadavgText
    <2> QED
      BY <2>2, <2>3, <2>4
  <1>12. 0 + 1 = 1 /\ 2 + 1 = 3 /\ 4 + 1 = 5 /\ 6 + 1 = 7 /\ 10 + 1 = 11 /\ 13 - 1 = 12
    OBVIOUS
  <1>13. 2 - 1 = 1 /\ 4 - 1 = 3 /\ 6 - 1 = 5 /\ 10 - 1 = 9
    OBVIOUS
  <1> QED
    BY <1>5, <1>6, <1>7, <1>9, <1>10, <1>11, <1>12, <1>13

LEMMA StatisticsOfLoadavg ==
    ASSUME NEW s, LoadavgText(s)
    PROVE  Statistics(s) = <<<<s[1]>>, <<s[3]>>, <<s[5]>>, <<s[7]>>, <<s[9]>>, <<s[11], Newline>>>>
  <1>1. s[7] \in Token /\ s[9] \in Token /\ s[7] # "/" /\ s[9] # "/" /\ "/" \in Token
    BY PlainWord DEF LoadavgText, Token
  <1>2. PICK u : u = <<s[7], "/", s[9]>>
    OBVIOUS
  <1>3. u \in Seq(Token) /\ Len(u) = 3 /\ u[1] = s[7] /\ u[2] = "/" /\ u[3] = s[9]
    BY <1>1, <1>2, Tuple3
  <1>4. DOMAIN u = 1..3
    BY <1>3, LenProperties
  <1>5. (CHOOSE i \in DOMAIN u : u[i] = "/") = 2
    <2>1. \A i \in 1..3 : i = 1 \/ i = 2 \/ i = 3
      OBVIOUS
    <2>2. \A i \in DOMAIN u : u[i] = "/" <=> i = 2
      BY <1>1, <1>3, <1>4, <2>1
    <2>3. 2 \in DOMAIN u
      BY <1>4
    <2> QED
      BY <2>2, <2>3
  <1>6. SubSeq(u, 1, 1) = <<u[1]>> /\ SubSeq(u, 3, 3) = <<u[3]>>
    <2>1. 1 \in Nat /\ 3 \in Nat /\ 1 \in 1..3 /\ 3 \in 1..3
      OBVIOUS
    <2> QED
      BY <1>3, <2>1, PartOne
  <1>7. SubSeq(u, 1, 2 - 1) = <<s[7]>> /\ SubSeq(u, 2 + 1, 3) = <<s[9]>>
    <2>1. 2 - 1 = 1 /\ 2 + 1 = 3
      OBVIOUS
    <2> QED
      BY <1>3, <1>6, <2>1
  <1>8. Split(s)[4] = u
    BY <1>2, PartsOfLoadavg
  <1>9. Statistics(s) = <<Split(s)[1], Split(s)[2], Split(s)[3], SubSeq(u, 1, 2 - 1),
                          SubSeq(u, 2 + 1, Len(u)), Split(s)[5]>>
    BY <1>5, <1>8 DEF Statistics
  <1> QED
    BY <1>3, <1>7, <1>9, PartsOfLoadavg

(* The text of the file of the load block. *)
LEMMA LoadavgTextOf ==
    ASSUME kind \in Kind, kind = "load", file \in Files[kind], file # <<>>
    PROVE  /\ LoadavgText(FileText(file)) /\ file \in [1..6 -> Plain]
           /\ LET s == FileText(file)
              IN  /\ s[1] = file[1] /\ s[3] = file[2] /\ s[5] = file[3]
                  /\ s[7] = file[4] /\ s[9] = file[5] /\ s[11] = file[6]
  <1>1. file \in [1..6 -> Plain]
    BY LoadavgFiles
  <1>2. PICK s : s = <<file[1], " ", file[2], " ", file[3], " ",
                       file[4], "/", file[5], " ", file[6], Newline>>
    OBVIOUS
  <1>3. FileText(file) = s
    BY <1>2 DEF FileText
  <1>4. \A i \in 1..6 : file[i] \in Plain
    BY <1>1
  <1>5. /\ file[1] \in Plain /\ file[2] \in Plain /\ file[3] \in Plain
        /\ file[4] \in Plain /\ file[5] \in Plain /\ file[6] \in Plain
    BY <1>4
  <1>6. /\ file[1] \in Token /\ file[2] \in Token /\ file[3] \in Token
        /\ file[4] \in Token /\ file[5] \in Token /\ file[6] \in Token
    BY <1>5, PlainWord
  <1>7. " " \in Token /\ "/" \in Token /\ Newline \in Token
    BY DEF Token
  <1>8. s \in Seq(Token) /\ Len(s) = 12
    BY <1>2, <1>6, <1>7, Tuple12
  <1>9. /\ s[1] = file[1] /\ s[2] = " " /\ s[3] = file[2] /\ s[4] = " "
        /\ s[5] = file[3] /\ s[6] = " " /\ s[7] = file[4] /\ s[8] = "/"
        /\ s[9] = file[5] /\ s[10] = " " /\ s[11] = file[6] /\ s[12] = Newline
    BY <1>2
  <1>10. LoadavgText(s)
    BY <1>5, <1>8, <1>9 DEF LoadavgText
  <1> QED
    BY <1>1, <1>3, <1>9, <1>10

(* LoadPrinter::parse_loadavg finds the six values of the file. *)
THEOREM StatisticsShow ==
    ASSUME kind \in Kind, kind = "load", file \in Files[kind], file # <<>>, NEW n \in Fields[kind]
    PROVE  Statistics(FileText(file))[Words[n]] = InFile(n)
  <1>1. PICK s : s = FileText(file)
    OBVIOUS
  <1>2. Statistics(s) = <<<<file[1]>>, <<file[2]>>, <<file[3]>>, <<file[4]>>, <<file[5]>>,
                          <<file[6], Newline>>>>
    BY <1>1, LoadavgTextOf, StatisticsOfLoadavg
  <1>3. PICK w \in 1..6 : w = Words[n]
    BY LoadavgFiles
  <1>4. w = 1 \/ w = 2 \/ w = 3 \/ w = 4 \/ w = 5 \/ w = 6
    OBVIOUS
  <1>5. InFile(n) = IF w = 6 THEN <<file[6], Newline>> ELSE <<file[w]>>
    BY <1>3 DEF InFile
  <1>6. Statistics(s)[w] = IF w = 6 THEN <<file[6], Newline>> ELSE <<file[w]>>
    BY <1>2, <1>4
  <1> QED
    BY <1>1, <1>3, <1>5, <1>6

----------------------------------------------------------------------------
(* The inductive invariant *)

Cell == Token \cup {Nul}

(* The lengths of the buffer and what it has room for. *)
Sizes ==
    /\ buffer \in Seq(Cell) /\ bytes \in Nat /\ capacity \in Nat /\ rest \in Seq(Token)
    /\ IF kind = "load" THEN Len(buffer) = LoadSize /\ bytes < LoadSize
       ELSE Len(buffer) <= capacity /\ bytes <= capacity

(* What has been read and what is left make the file. *)
ReadSoFar ==
    pc = "reading" =>
       /\ kind # "load" => bytes <= Len(buffer)
       /\ bytes + Len(rest) = Len(FileText(file))
       /\ \A i \in 1..bytes : buffer[i] = FileText(file)[i]
       /\ \A i \in 1..Len(rest) : rest[i] = FileText(file)[bytes + i]

(* After an update the buffer holds the file and nothing else. *)
HoldsFile ==
    pc \in {"idle", "printed"} =>
       /\ kind \in {"battery", "memory"} => buffer = FileText(file)
       /\ kind = "memory" => memtotal # SizeMax
       /\ kind = "load" => SubSeq(buffer, 1, bytes) = FileText(file) /\ file # <<>>

(* The total once found is that of every file. *)
TotalKept ==
    /\ memtotal \in Nat
    /\ memtotal # SizeMax =>
          /\ kind = "memory"
          /\ \A lines \in Files["memory"] : memtotal = Amount[lines[1].val] * Thousand

IInv ==
    /\ kind \in Kind
    /\ pc \in {"new", "idle", "reading", "printed", "searching", "rejected",
           "failed"}
    /\ Sizes
    /\ kind # "network" /\ pc # "new" => file \in Files[kind]
    /\ pc = "reading" => kind # "network"
    /\ ReadSoFar /\ HoldsFile /\ TotalKept

(* A text is made of words. *)
LEMMA TextTyped ==
    ASSUME kind \in Kind, kind # "network", NEW lines \in Files[kind]
    PROVE  FileText(lines) \in Seq(Token)
  <1>1. CASE kind \in {"battery", "memory"}
    <2>1. lines \in Seq(Line)
      BY <1>1, KernelFiles
    <2> QED
      BY <1>1, <2>1, FileLayout
  <1>2. CASE kind = "load"
    <2>1. CASE lines = <<>>
      <3>1. FileText(lines) = <<>>
        BY <1>2, <2>1 DEF FileText
      <3> QED
        BY <3>1, EmptySeq
    <2>2. CASE lines # <<>>
      <3>1. lines \in [1..6 -> Plain]
        BY <1>2, <2>2, LoadavgFiles
      <3>2. \A i \in 1..6 : lines[i] \in Token
        BY <3>1, PlainWord
      <3>3. /\ lines[1] \in Token /\ lines[2] \in Token /\ lines[3] \in Token
            /\ lines[4] \in Token /\ lines[5] \in Token /\ lines[6] \in Token
        BY <3>2
      <3>4. " " \in Token /\ "/" \in Token /\ Newline \in Token
        BY DEF Token
      <3>5. PICK s : s = <<lines[1], " ", lines[2], " ", lines[3], " ",
                           lines[4], "/", lines[5], " ", lines[6], Newline>>
        OBVIOUS
      <3>6. s \in Seq(Token)
        BY <3>3, <3>4, <3>5, Tuple12
      <3>7. FileText(lines) = s
        BY <1>2, <2>2, <3>5 DEF FileText
      <3> QED
        BY <3>6, <3>7
    <2> QED
      BY <2>1, <2>2
  <1> QED
    BY <1>1, <1>2, FileReadAssumption

LEMMA SameText ==
    ASSUME kind' = kind, NEW lines, file' = lines
    PROVE  FileText(file)' = FileText(lines)
  BY DEF FileText, LineText

LEMMA ResizedTo ==
    ASSUME NEW s \in Seq(Cell), NEW n \in Nat
    PROVE  /\ Resized(s, n) \in Seq(Cell) /\ Len(Resized(s, n)) = n
           /\ \A i \in 1..n : i <= Len(s) => Resized(s, n)[i] = s[i]
  <1>1. PICK u : u = Resized(s, n)
    OBVIOUS
  <1>2. u = [i \in 1..n |-> IF i <= Len(s) THEN s[i] ELSE Nul]
    BY <1>1 DEF Resized
  <1>3. Len(s) \in Nat /\ \A i \in 1..Len(s) : s[i] \in Cell
    BY LenProperties, ElementOfSeq
  <1>4. Nul \in Cell
    BY DEF Cell
  <1>5. \A i \in 1..n : i <= Len(s) => i \in 1..Len(s)
    BY <1>3
  <1>6. u \in [1..n -> Cell]
    BY <1>2, <1>3, <1>4, <1>5
  <1>7. u \in Seq(Cell) /\ DOMAIN u = 1..n
    BY <1>6, SeqDef
  <1>8. Len(u) = n
    BY <1>7, LenProperties
  <1> QED
    BY <1>1, <1>2, <1>7, <1>8

(* The invariant holds before the first update. *)
THEOREM ReadInitIInv == ReadInit => IInv
  <1> SUFFICES ASSUME ReadInit  PROVE IInv
    OBVIOUS
  <1> USE DEF ReadInit
  <1>1. buffer \in Seq(Cell) /\ Len(buffer) = IF kind = "load" THEN LoadSize ELSE 0
    <2>1. CASE kind = "load"
      <3>1. <<>> \in Seq(Cell) /\ LoadSize \in Nat
        BY EmptySeq, FileReadAssumption
      <3>2. buffer \in [1..LoadSize -> Cell]
        BY <2>1 DEF Cell
      <3>3. buffer \in Seq(Cell) /\ DOMAIN buffer = 1..LoadSize
        BY <3>1, <3>2, SeqDef
      <3> QED
        BY <2>1, <3>1, <3>3, LenProperties
    <2>2. CASE kind # "load"
      BY <2>2, EmptySeq
    <2> QED
      BY <2>1, <2>2
  <1>2. Sizes
    <2>1. rest \in Seq(Token) /\ bytes = 0 /\ capacity = Initial
      BY EmptySeq
    <2>2. Initial \in Nat /\ LoadSize \in Nat /\ LoadSize # 0
      BY FileReadAssumption
    <2> QED
      BY <1>1, <2>1, <2>2 DEF Sizes
  <1>3. TotalKept
    BY FileReadAssumption DEF TotalKept
  <1> QED
    BY <1>2, <1>3 DEF IInv, ReadSoFar, HoldsFile

LEMMA BeginUpdateStep == IInv /\ BeginUpdate => IInv'
  <1> SUFFICES ASSUME IInv, BeginUpdate  PROVE IInv'
    OBVIOUS
  <1>1. /\ kind' = kind /\ capacity' = capacity /\ memtotal' = memtotal /\ kind # "network"
        /\ bytes' = 0 /\ pc' = "reading" /\ kind \in Kind
    BY DEF BeginUpdate, IInv
  <1>2. PICK lines \in Files[kind] : file' = lines /\ rest' = FileText(lines)
    BY DEF BeginUpdate
  <1>3. FileText(file)' = FileText(lines)
    BY <1>1, <1>2, SameText
  <1>4. rest' \in Seq(Token)
    BY <1>1, <1>2, TextTyped
  <1>5. buffer \in Seq(Cell) /\ capacity \in Nat
    BY DEF IInv, Sizes
  <1>6. /\ buffer' \in Seq(Cell)
        /\ Len(buffer') = IF kind = "load" THEN LoadSize ELSE capacity
    <2>1. CASE kind = "battery"
      <3>1. buffer' = Resized(<<>>, capacity) /\ <<>> \in Seq(Cell)
        BY <2>1, EmptySeq DEF BeginUpdate
      <3> QED
        BY <1>5, <2>1, <3>1, ResizedTo
    <2>2. CASE kind = "memory"
      <3>1. buffer' = Resized(buffer, capacity)
        BY <2>2 DEF BeginUpdate
      <3> QED
        BY <1>5, <2>2, <3>1, ResizedTo
    <2>3. CASE kind = "load"
      BY <1>5, <2>3 DEF BeginUpdate, IInv, Sizes
    <2> QED
      BY <1>1, <2>1, <2>2, <2>3, FileReadAssumption
  <1>7. Sizes'
    <2>1. LoadSize \in Nat /\ LoadSize # 0 /\ 0 \in Nat
      BY FileReadAssumption
    <2> QED
      BY <1>1, <1>4, <1>5, <1>6, <2>1 DEF Sizes
  <1>8. ReadSoFar'
    <2>1. PICK r \in Seq(Token) : r = rest' /\ FileText(file)' = r
      BY <1>2, <1>3, <1>4
    <2>2. Len(r) \in Nat /\ capacity \in Nat
      BY <1>5, LenProperties
    <2>3. kind # "load" => 0 <= Len(buffer')
      BY <1>5, <1>6
    <2>4. 0 + Len(r) = Len(r) /\ \A i \in 1..Len(r) : 0 + i = i
      BY <2>2
    <2> QED
      BY <1>1, <2>1, <2>3, <2>4 DEF ReadSoFar
  <1>9. TotalKept'
    BY <1>1 DEF IInv, TotalKept
  <1>10. HoldsFile'
    BY <1>1 DEF HoldsFile
  <1> QED
    BY <1>1, <1>2, <1>7, <1>8, <1>9, <1>10 DEF IInv

LEMMA GrowStep == IInv /\ Grow => IInv'
  <1> SUFFICES ASSUME IInv, Grow  PROVE IInv'
    OBVIOUS
  <1>1. /\ kind' = kind /\ pc' = pc /\ rest' = rest /\ bytes' = bytes /\ memtotal' = memtotal
        /\ file' = file /\ pc = "reading" /\ kind # "load" /\ Len(buffer) = bytes
        /\ kind \in Kind /\ kind # "network"
    BY DEF Grow, IInv
  <1>2. buffer \in Seq(Cell) /\ bytes \in Nat /\ rest \in Seq(Token)
    BY DEF IInv, Sizes
  <1>3. PICK n \in Nat : n = 2 * Len(buffer) + Step /\ bytes <= n
    <2>1. Step \in Nat
      BY FileReadAssumption
    <2> QED
      BY <1>1, <1>2, <2>1
  <1>4. buffer' = Resized(buffer, n) /\ capacity' = Len(buffer')
    BY <1>3 DEF Grow
  <1>5. buffer' \in Seq(Cell) /\ Len(buffer') = n /\ \A i \in 1..n : i <= bytes => buffer'[i] = buffer[i]
    BY <1>1, <1>2, <1>4, ResizedTo
  <1>6. Sizes'
    BY <1>1, <1>2, <1>3, <1>4, <1>5 DEF Sizes
  <1>7. FileText(file)' = FileText(file)
    BY <1>1, SameText
  <1>8. ReadSoFar'
    <2>1. \A i \in 1..bytes : i \in 1..n /\ i <= bytes
      BY <1>2, <1>3
    <2>2. \A i \in 1..bytes : buffer'[i] = buffer[i]
      BY <1>5, <2>1
    <2> QED
      BY <1>1, <1>3, <1>5, <1>7, <2>2 DEF IInv, ReadSoFar
  <1>9. TotalKept' /\ HoldsFile'
    BY <1>1 DEF IInv, TotalKept, HoldsFile
  <1> QED
    BY <1>1, <1>6, <1>8, <1>9 DEF IInv

LEMMA RestCount ==
    ASSUME NEW l \in Nat, NEW n \in Nat, n <= l
    PROVE  /\ n + 1 \in Nat \ {0} /\ l - n \in Nat /\ (n + 1) + (l - n) - 1 = l
           /\ \A i \in 1..(l - n) : (n + 1) + i - 1 = n + i
  OBVIOUS

(* What is left when n words were taken. *)
LEMMA Rest ==
    ASSUME NEW s \in Seq(Token), NEW n \in Nat, n <= Len(s)
    PROVE  /\ SubSeq(s, n + 1, Len(s)) \in Seq(Token) /\ Len(SubSeq(s, n + 1, Len(s))) = Len(s) - n
           /\ \A i \in 1..(Len(s) - n) : SubSeq(s, n + 1, Len(s))[i] = s[n + i]
  <1>1. PICK l \in Nat : l = Len(s)
    BY LenProperties
  <1>2. /\ n + 1 \in Nat \ {0} /\ l - n \in Nat /\ (n + 1) + (l - n) - 1 = l
        /\ \A i \in 1..(l - n) : (n + 1) + i - 1 = n + i
    BY <1>1, RestCount
  <1>3. PICK a \in Nat \ {0}, m \in Nat : a = n + 1 /\ m = l - n
    BY <1>2
  <1>4. a + m - 1 = l /\ \A i \in 1..m : a + i - 1 = n + i
    BY <1>2, <1>3
  <1>5. PICK u : u = SubSeq(s, a, a + m - 1)
    OBVIOUS
  <1>6. a + m - 1 <= Len(s)
    BY <1>1, <1>4
  <1>7. u \in Seq(Token) /\ Len(u) = m /\ \A i \in 1..m : u[i] = s[a + i - 1]
    BY <1>5, <1>6, Part
  <1>8. u = SubSeq(s, n + 1, Len(s))
    BY <1>1, <1>3, <1>4, <1>5
  <1>9. \A i \in 1..m : u[i] = s[n + i]
    BY <1>4, <1>7
  <1> QED
    BY <1>1, <1>3, <1>7, <1>8, <1>9

LEMMA PiecePlaces ==
    ASSUME NEW b \in Nat, NEW n \in Nat, NEW l \in Nat, b + n <= l
    PROVE  /\ \A i \in 1..l : i \in (b + 1)..(b + n) => i - b \in 1..n
           /\ \A i \in 1..(b + n) : i \in 1..l
           /\ \A i \in 1..b : i \in 1..l /\ i \notin (b + 1)..(b + n)
           /\ \A i \in 1..(b + n) : i \in 1..b \/ (i \in (b + 1)..(b + n) /\ i - b \in 1..n /\ b + (i - b) = i)
  OBVIOUS

LEMMA RestPlaces ==
    ASSUME NEW b \in Nat, NEW n \in Nat, NEW r \in Nat, n <= r
    PROVE  /\ (b + n) + (r - n) = b + r
           /\ \A i \in 1..(r - n) : n + i \in 1..r /\ b + (n + i) = (b + n) + i
  OBVIOUS

LEMMA ReadPieceStep == IInv /\ ReadPiece => IInv'
  <1> SUFFICES ASSUME IInv, ReadPiece  PROVE IInv'
    OBVIOUS
  <1>1. /\ kind' = kind /\ pc' = pc /\ capacity' = capacity /\ memtotal' = memtotal
        /\ file' = file /\ pc = "reading" /\ kind \in Kind /\ kind # "network"
    BY DEF ReadPiece, IInv
  <1>2. buffer \in Seq(Cell) /\ bytes \in Nat /\ rest \in Seq(Token) /\ capacity \in Nat
    BY DEF IInv, Sizes
  <1>3. PICK n \in 1..Len(rest) :
          /\ n <= Room
          /\ buffer' = [i \in 1..(IF bytes + n > Len(buffer) THEN bytes + n ELSE Len(buffer)) |->
                          IF i \in (bytes + 1)..(bytes + n) THEN rest[i - bytes] ELSE buffer[i]]
          /\ bytes' = bytes + n
          /\ rest' = SubSeq(rest, n + 1, Len(rest))
    BY DEF ReadPiece
  <1>4. PICK l \in Nat, r \in Nat : l = Len(buffer) /\ r = Len(rest)
    BY <1>2, LenProperties
  <1>5. n \in Nat /\ n <= r /\ n <= Len(rest)
    BY <1>3, <1>4
  <1>6. bytes + n <= l
    <2>1. CASE kind = "load"
      <3>1. n <= LoadSize - 1 - bytes /\ l = LoadSize
        BY <1>3, <1>4, <2>1 DEF Room, IInv, Sizes
      <3>2. LoadSize \in Nat
        BY FileReadAssumption
      <3> QED
        BY <1>2, <1>5, <3>1, <3>2
    <2>2. CASE kind # "load"
      <3>1. n <= l - bytes
        BY <1>3, <1>4, <2>2 DEF Room
      <3> QED
        BY <1>2, <1>4, <1>5, <3>1
    <2> QED
      BY <2>1, <2>2
  <1>7. buffer' = [i \in 1..l |-> IF i \in (bytes + 1)..(bytes + n) THEN rest[i - bytes] ELSE buffer[i]]
    <2>1. (IF bytes + n > l THEN bytes + n ELSE l) = l
      BY <1>2, <1>4, <1>5, <1>6
    <2> QED
      BY <1>3, <1>4, <2>1
  <1>8. \A i \in 1..l : i \in (bytes + 1)..(bytes + n) => i - bytes \in 1..n
    BY <1>2, <1>5, <1>6, PiecePlaces
  <1>9. \A i \in 1..n : i \in 1..r
    BY <1>4, <1>5
  <1>10. buffer' \in Seq(Cell) /\ Len(buffer') = l
    <2>1. \A i \in 1..r : rest[i] \in Cell
      <3> SUFFICES ASSUME NEW i \in 1..r  PROVE rest[i] \in Cell
        OBVIOUS
      <3>1. rest[i] \in Token
        BY <1>2, <1>4, ElementOfSeq
      <3> QED
        BY <3>1 DEF Cell
    <2>2. \A i \in 1..l : buffer[i] \in Cell
      BY <1>2, <1>4, ElementOfSeq
    <2>3. buffer' \in [1..l -> Cell]
      BY <1>7, <1>8, <1>9, <2>1, <2>2
    <2>4. PICK u : u = buffer'
      OBVIOUS
    <2>5. u \in Seq(Cell) /\ DOMAIN u = 1..l
      BY <2>3, <2>4, SeqDef
    <2>6. Len(u) = l
      BY <2>5, LenProperties
    <2> QED
      BY <2>4, <2>5, <2>6
  <1>11. rest' \in Seq(Token) /\ Len(rest') = r - n /\ \A i \in 1..(r - n) : rest'[i] = rest[n + i]
    BY <1>2, <1>3, <1>4, <1>5, Rest
  <1>12. bytes' \in Nat /\ bytes' = bytes + n
    BY <1>2, <1>3, <1>5
  <1>13. Sizes'
    <2>1. kind # "load" => bytes + n <= capacity
      <3> SUFFICES ASSUME kind # "load"  PROVE bytes + n <= capacity
        OBVIOUS
      <3>1. l <= capacity
        BY <1>4 DEF IInv, Sizes
      <3> QED
        BY <1>2, <1>4, <1>5, <1>6, <3>1
    <2>2. kind = "load" => bytes + n < LoadSize
      <3> SUFFICES ASSUME kind = "load"  PROVE bytes + n < LoadSize
        OBVIOUS
      <3>1. n <= LoadSize - 1 - bytes /\ LoadSize \in Nat
        BY <1>3, FileReadAssumption DEF Room
      <3> QED
        BY <1>2, <1>5, <3>1
    <2>3. IF kind = "load" THEN Len(buffer) = LoadSize ELSE Len(buffer) <= capacity
      BY DEF IInv, Sizes
    <2> QED
      BY <1>1, <1>2, <1>4, <1>10, <1>11, <1>12, <2>1, <2>2, <2>3 DEF Sizes
  <1>14. FileText(file)' = FileText(file)
    BY <1>1, SameText
  <1>15. PICK t : t = FileText(file)
    OBVIOUS
  <1>16. /\ bytes + r = Len(t) /\ \A i \in 1..bytes : buffer[i] = t[i]
         /\ \A i \in 1..r : rest[i] = t[bytes + i]
    BY <1>1, <1>4, <1>15 DEF IInv, ReadSoFar
  <1>17. (bytes + n) + (r - n) = Len(t)
    BY <1>2, <1>4, <1>5, <1>16, RestPlaces
  <1>18. \A i \in 1..(bytes + n) : buffer'[i] = t[i]
    <2> SUFFICES ASSUME NEW i \in 1..(bytes + n)  PROVE buffer'[i] = t[i]
      OBVIOUS
    <2>1. i \in 1..l
      BY <1>2, <1>4, <1>5, <1>6, PiecePlaces
    <2>2. buffer'[i] = IF i \in (bytes + 1)..(bytes + n) THEN rest[i - bytes] ELSE buffer[i]
      BY <1>7, <2>1
    <2>3. i \in 1..bytes \/ (i \in (bytes + 1)..(bytes + n) /\ i - bytes \in 1..n /\ bytes + (i - bytes) = i)
      BY <1>2, <1>4, <1>5, <1>6, PiecePlaces
    <2>4. CASE i \in 1..bytes
      <3>1. i \notin (bytes + 1)..(bytes + n)
        BY <1>2, <1>4, <1>5, <1>6, <2>4, PiecePlaces
      <3> QED
        BY <1>16, <2>2, <2>4, <3>1
    <2>5. CASE i \in (bytes + 1)..(bytes + n) /\ i - bytes \in 1..n /\ bytes + (i - bytes) = i
      BY <1>9, <1>16, <2>2, <2>5
    <2> QED
      BY <2>3, <2>4, <2>5
  <1>19. \A i \in 1..(r - n) : rest'[i] = t[(bytes + n) + i]
    <2> SUFFICES ASSUME NEW i \in 1..(r - n)  PROVE rest'[i] = t[(bytes + n) + i]
      OBVIOUS
    <2>1. n + i \in 1..r /\ bytes + (n + i) = (bytes + n) + i
      BY <1>2, <1>4, <1>5, RestPlaces
    <2> QED
      BY <1>11, <1>16, <2>1
  <1>20. ReadSoFar'
    <2>1. kind # "load" => bytes + n <= Len(buffer')
      BY <1>6, <1>10
    <2> QED
      BY <1>1, <1>11, <1>12, <1>14, <1>15, <1>17, <1>18, <1>19, <2>1 DEF ReadSoFar
  <1>21. TotalKept' /\ HoldsFile'
    BY <1>1 DEF IInv, TotalKept, HoldsFile
  <1> QED
    BY <1>1, <1>13, <1>20, <1>21 DEF IInv

LEMMA ReadFailsStep == IInv /\ ReadFails => IInv'
  <1> SUFFICES ASSUME IInv, ReadFails  PROVE IInv'
    OBVIOUS
  <1>1. /\ kind' = kind /\ pc' = "failed" /\ capacity' = capacity /\ memtotal' = memtotal
        /\ file' = file /\ buffer' = buffer /\ rest' = rest /\ bytes' = bytes /\ pc = "reading"
    BY DEF ReadFails
  <1> QED
    BY <1>1 DEF IInv, Sizes, ReadSoFar, HoldsFile, TotalKept

LEMMA UpdateTableStep == IInv /\ UpdateTable => IInv'
  <1> SUFFICES ASSUME IInv, UpdateTable  PROVE IInv'
    OBVIOUS
  <1>1. /\ kind' = kind /\ pc' = "idle" /\ capacity' = capacity /\ memtotal' = memtotal
        /\ buffer' = buffer /\ rest' = rest /\ bytes' = bytes /\ kind = "network"
    BY DEF UpdateTable
  <1> QED
    BY <1>1 DEF IInv, Sizes, ReadSoFar, HoldsFile, TotalKept

LEMMA LookUpStep == IInv /\ LookUp => IInv'
  <1> SUFFICES ASSUME IInv, LookUp  PROVE IInv'
    OBVIOUS
  <1>1. /\ kind' = kind /\ capacity' = capacity /\ memtotal' = memtotal /\ file' = file
        /\ buffer' = buffer /\ rest' = rest /\ bytes' = bytes
        /\ pc \in {"idle", "printed"} /\ pc' \in {"printed", "searching", "rejected"}
    BY DEF LookUp
  <1>2. FileText(file)' = FileText(file)
    BY <1>1, SameText
  <1>3. HoldsFile'
    BY <1>1, <1>2 DEF IInv, HoldsFile
  <1> QED
    BY <1>1, <1>3 DEF IInv, Sizes, ReadSoFar, TotalKept

(* When all is read, what was read is the text of the file. *)
LEMMA AllRead ==
    ASSUME IInv, pc = "reading", rest = <<>>
    PROVE  /\ SubSeq(buffer, 1, bytes) = FileText(file) /\ bytes = Len(FileText(file))
  <1>1. kind \in Kind /\ kind # "network" /\ file \in Files[kind]
    BY DEF IInv
  <1>2. buffer \in Seq(Cell) /\ bytes \in Nat
    BY DEF IInv, Sizes
  <1>3. PICK t \in Seq(Token) : t = FileText(file)
    BY <1>1, TextTyped
  <1>4. bytes + Len(rest) = Len(t) /\ \A i \in 1..bytes : buffer[i] = t[i]
    BY <1>3 DEF IInv, ReadSoFar
  <1>5. Len(rest) = 0
    BY EmptySeq
  <1>6. bytes = Len(t)
    BY <1>2, <1>4, <1>5
  <1>7. bytes <= Len(buffer)
    <2>1. kind = "load" => Len(buffer) = LoadSize /\ bytes < LoadSize
      BY DEF IInv, Sizes
    <2>2. kind # "load" => bytes <= Len(buffer)
      BY DEF IInv, ReadSoFar
    <2>3. LoadSize \in Nat
      BY FileReadAssumption
    <2> QED
      BY <1>2, <2>1, <2>2, <2>3
  <1>8. PICK u : u = SubSeq(buffer, 1, bytes)
    OBVIOUS
  <1>9. u \in Seq(Cell) /\ Len(u) = bytes /\ \A i \in 1..bytes : u[i] = buffer[i]
    <2>1. PICK a \in Nat \ {0}, n \in Nat : a = 1 /\ n = bytes /\ a + n - 1 = bytes
                                            /\ \A i \in 1..n : a + i - 1 = i
      BY <1>2
    <2>2. a + n - 1 <= Len(buffer)
      BY <1>7, <2>1
    <2>3. LET v == SubSeq(buffer, a, a + n - 1)
          IN  v \in Seq(Cell) /\ Len(v) = n /\ \A i \in 1..n : v[i] = buffer[a + i - 1]
      BY <1>2, <2>1, <2>2, Part
    <2> QED
      BY <1>8, <2>1, <2>3
  <1>10. t \in Seq(Cell)
    <2>1. Token \subseteq Cell
      BY DEF Cell
    <2> QED
      BY <2>1, SeqMonotonic
  <1>11. u = t
    BY <1>4, <1>6, <1>9, <1>10, SeqEqual
  <1> QED
    BY <1>3, <1>6, <1>8, <1>11

LEMMA Product == ASSUME NEW a \in Nat, NEW b \in Nat PROVE a * b \in Nat
  OBVIOUS

(* The total of the file that was read, for every file. *)
LEMMA TotalIs ==
    ASSUME kind \in Kind, kind = "memory", file \in Files[kind]
    PROVE  /\ Total \in Nat /\ Total < SizeMax
           /\ \A lines \in Files["memory"] : Total = Amount[lines[1].val] * Thousand
  <1>1. MeminfoLines(file) /\ 1 \in 1..Len(file) /\ Amount[file[1].val] * Thousand < SizeMax
    BY OfMeminfo
  <1>2. Amount[file[1].val] \in Nat /\ Thousand \in Nat
    BY <1>1, TextsAssumption, FileReadAssumption DEF MeminfoLines
  <1>3. Amount[file[1].val] * Thousand \in Nat
    BY <1>2, Product
  <1>4. \A lines \in Files["memory"] : lines[1].val = file[1].val
    BY MeminfoFiles
  <1> QED
    BY <1>1, <1>3, <1>4 DEF Total

LEMMA EndOfFileStep == IInv /\ EndOfFile => IInv'
  <1> SUFFICES ASSUME IInv, EndOfFile  PROVE IInv'
    OBVIOUS
  <1> DEFINE total == IF kind = "memory" /\ memtotal = SizeMax
                      THEN GetMemusage(buffer', Words["MemTotal"]) ELSE memtotal
  <1>1. /\ kind' = kind /\ capacity' = capacity /\ file' = file /\ rest' = rest /\ bytes' = bytes
        /\ pc = "reading" /\ kind \in {"battery", "memory"} /\ rest = <<>>
        /\ buffer' = SubSeq(buffer, 1, bytes)
    BY DEF EndOfFile
  <1>2. /\ memtotal' = (IF total = Hang THEN memtotal ELSE total)
        /\ pc' = (IF total = Hang THEN "searching" ELSE "idle")
    BY DEF EndOfFile
  <1>3. kind \in Kind /\ kind # "network" /\ file \in Files[kind] /\ kind # "load"
    BY <1>1 DEF IInv
  <1>4. buffer' = FileText(file) /\ bytes = Len(FileText(file))
    BY <1>1, AllRead
  <1>5. FileText(file)' = FileText(file)
    BY <1>1, SameText
  <1>6. PICK t \in Seq(Token) : t = FileText(file)
    BY <1>3, TextTyped
  <1>7. buffer' \in Seq(Cell) /\ Len(buffer') = bytes
    <2>1. Token \subseteq Cell
      BY DEF Cell
    <2>2. t \in Seq(Cell)
      BY <2>1, SeqMonotonic
    <2> QED
      BY <1>4, <1>6, <2>2
  <1>8. bytes \in Nat /\ capacity \in Nat /\ rest \in Seq(Token) /\ bytes <= capacity
    BY <1>3 DEF IInv, Sizes
  <1>9. Sizes'
    BY <1>1, <1>3, <1>7, <1>8 DEF Sizes
  <1>10. memtotal \in Nat /\ SizeMax \in Nat /\ Hang = SizeMax + 1
    BY FileReadAssumption DEF IInv, TotalKept, Hang
  <1>11. CASE kind = "battery"
    <2>1. total = memtotal /\ memtotal = SizeMax
      BY <1>11 DEF IInv, TotalKept
    <2>2. total # Hang
      BY <1>10, <2>1
    <2>3. memtotal' = memtotal /\ pc' = "idle"
      BY <1>2, <2>1, <2>2
    <2>4. TotalKept'
      BY <1>1, <2>3 DEF IInv, TotalKept
    <2>5. HoldsFile'
      BY <1>1, <1>4, <1>5, <1>11 DEF HoldsFile
    <2> QED
      BY <1>1, <1>3, <1>9, <2>3, <2>4, <2>5 DEF IInv, ReadSoFar
  <1>12. CASE kind = "memory"
    <2>1. total = Total
      <3>1. CASE memtotal = SizeMax
        <4>1. total = GetMemusage(buffer', Words["MemTotal"])
          BY <1>12, <3>1
        <4> QED
          BY <1>3, <1>4, <1>12, <4>1, TotalFound
      <3>2. CASE memtotal # SizeMax
        <4>1. total = memtotal
          BY <3>2
        <4>2. memtotal = Amount[file[1].val] * Thousand
          BY <1>3, <1>12, <3>2 DEF IInv, TotalKept
        <4> QED
          BY <4>1, <4>2 DEF Total
      <3> QED
        BY <3>1, <3>2
    <2> HIDE DEF total
    <2>2. /\ Total \in Nat /\ Total < SizeMax
          /\ \A lines \in Files["memory"] : Total = Amount[lines[1].val] * Thousand
      BY <1>3, <1>12, TotalIs
    <2>3. total # Hang /\ Total # SizeMax
      BY <1>10, <2>1, <2>2
    <2>4. memtotal' = Total /\ pc' = "idle"
      BY <1>2, <2>1, <2>3
    <2>5. TotalKept'
      BY <1>1, <1>12, <2>2, <2>4 DEF TotalKept
    <2>6. HoldsFile'
      BY <1>1, <1>4, <1>5, <1>12, <2>3, <2>4 DEF HoldsFile
    <2> QED
      BY <1>1, <1>3, <1>9, <2>4, <2>5, <2>6 DEF IInv, ReadSoFar
  <1> QED
    BY <1>1, <1>11, <1>12

LEMMA EndOfLoadStep == IInv /\ EndOfLoad => IInv'
  <1> SUFFICES ASSUME IInv, EndOfLoad  PROVE IInv'
    OBVIOUS
  <1>1. /\ kind' = kind /\ capacity' = capacity /\ file' = file /\ rest' = rest /\ bytes' = bytes
        /\ memtotal' = memtotal /\ pc = "reading" /\ kind = "load"
        /\ buffer' = [buffer EXCEPT ![bytes + 1] = Nul]
    BY DEF EndOfLoad
  <1>2. pc' \in {"idle", "failed"} /\ (pc' = "idle" => bytes # 0 /\ rest = <<>>)
    BY DEF EndOfLoad
  <1>3. kind \in Kind /\ file \in Files[kind]
    BY <1>1 DEF IInv
  <1>4. /\ buffer \in Seq(Cell) /\ bytes \in Nat /\ rest \in Seq(Token) /\ capacity \in Nat
        /\ Len(buffer) = LoadSize /\ bytes < LoadSize
    BY <1>1 DEF IInv, Sizes
  <1>5. LoadSize \in Nat
    BY FileReadAssumption
  <1>6. PICK b \in Seq(Cell) : b = buffer
    BY <1>4
  <1>7. bytes + 1 \in 1..Len(b) /\ Nul \in Cell
    BY <1>4, <1>5, <1>6 DEF Cell
  <1>8. PICK u : u = buffer'
    OBVIOUS
  <1>9. u \in Seq(Cell) /\ Len(u) = Len(b)
    BY <1>1, <1>6, <1>7, <1>8, ExceptSeq
  <1>10. Sizes'
    BY <1>1, <1>4, <1>6, <1>8, <1>9 DEF Sizes
  <1>11. \A i \in 1..bytes : u[i] = b[i]
    <2> SUFFICES ASSUME NEW i \in 1..bytes  PROVE u[i] = b[i]
      OBVIOUS
    <2>1. i # bytes + 1 /\ i \in 1..Len(b)
      BY <1>4, <1>5, <1>6
    <2>2. i \in DOMAIN b
      BY <2>1, LenProperties
    <2> QED
      BY <1>1, <1>6, <1>8, <2>1, <2>2
  <1>12. HoldsFile'
    <2> SUFFICES ASSUME pc' = "idle"
                 PROVE  SubSeq(u, 1, bytes) = FileText(file) /\ file # <<>>
      <3>1. FileText(file)' = FileText(file)
        BY <1>1, SameText
      <3> QED
        BY <1>1, <1>2, <1>8, <3>1 DEF HoldsFile
    <2>1. rest = <<>> /\ bytes # 0
      BY <1>2
    <2>2. SubSeq(b, 1, bytes) = FileText(file) /\ bytes = Len(FileText(file))
      BY <1>1, <1>6, <2>1, AllRead
    <2>3. SubSeq(u, 1, bytes) = SubSeq(b, 1, bytes)
      <3>1. PICK a \in Nat \ {0}, n \in Nat : a = 1 /\ n = bytes /\ a + n - 1 = bytes
                                              /\ \A i \in 1..n : a + i - 1 = i
        BY <1>4
      <3>2. a + n - 1 <= Len(b) /\ a + n - 1 <= Len(u)
        BY <1>4, <1>5, <1>6, <1>9, <3>1
      <3>3. LET v == SubSeq(b, a, a + n - 1)
            IN  v \in Seq(Cell) /\ Len(v) = n /\ \A i \in 1..n : v[i] = b[a + i - 1]
        BY <3>1, <3>2, Part
      <3>4. LET v == SubSeq(u, a, a + n - 1)
            IN  v \in Seq(Cell) /\ Len(v) = n /\ \A i \in 1..n : v[i] = u[a + i - 1]
        BY <1>9, <3>1, <3>2, Part
      <3>5. PICK v, w : v = SubSeq(b, a, a + n - 1) /\ w = SubSeq(u, a, a + n - 1)
        OBVIOUS
      <3>6. /\ v \in Seq(Cell) /\ w \in Seq(Cell) /\ Len(v) = Len(w)
            /\ \A i \in 1..Len(w) : w[i] = v[i]
        BY <1>11, <3>1, <3>3, <3>4, <3>5
      <3>7. w = v
        BY <3>6, SeqEqual
      <3> QED
        BY <3>1, <3>5, <3>7
    <2>4. file # <<>>
      <3> SUFFICES ASSUME file = <<>>  PROVE FALSE
        OBVIOUS
      <3>1. FileText(file) = <<>>
        BY <1>1 DEF FileText
      <3>2. Len(FileText(file)) = 0
        BY <3>1
      <3> QED
        BY <2>1, <2>2, <3>2
    <2> QED
      BY <2>2, <2>3, <2>4
  <1>13. TotalKept'
    BY <1>1 DEF IInv, TotalKept
  <1> QED
    BY <1>1, <1>2, <1>3, <1>10, <1>12, <1>13 DEF IInv, ReadSoFar

(* Every step of an update and every look-up keeps it. *)
THEOREM ReadStepIInv == IInv /\ [UpdateNext \/ LookUp]_readVars => IInv'
  <1> SUFFICES ASSUME IInv, [UpdateNext \/ LookUp]_readVars  PROVE IInv'
    OBVIOUS
  <1>1. CASE UNCHANGED readVars
    <2>1. /\ kind' = kind /\ capacity' = capacity /\ memtotal' = memtotal /\ file' = file
          /\ buffer' = buffer /\ rest' = rest /\ bytes' = bytes /\ pc' = pc
      BY <1>1 DEF readVars
    <2>2. FileText(file)' = FileText(file)
      BY <2>1, SameText
    <2> QED
      BY <2>1, <2>2 DEF IInv, Sizes, ReadSoFar, HoldsFile, TotalKept
  <1> QED
    BY <1>1, BeginUpdateStep, GrowStep, ReadPieceStep, ReadFailsStep, EndOfFileStep,
       EndOfLoadStep, UpdateTableStep, LookUpStep DEF UpdateNext

(* In every state, whatever the sizes of the pieces and however often the *)
(* buffer grew, what was read of the file and what is left make the file.  *)
THEOREM ReadInvariant == ReadSpec => []IInv
  BY ReadInitIInv, ReadStepIInv, PTL DEF ReadSpec

LEMMA IInvTypeOK == IInv => TypeOK
  <1> SUFFICES ASSUME IInv  PROVE TypeOK
    OBVIOUS
  <1>1. bytes \in Nat /\ capacity \in Nat /\ memtotal \in Nat /\ LoadSize \in Nat
    BY FileReadAssumption DEF IInv, Sizes, TotalKept
  <1>2. CASE kind = "load"
    <2>1. Len(buffer) = LoadSize /\ bytes < LoadSize
      BY <1>2 DEF IInv, Sizes
    <2>2. Len(buffer) <= LoadSize /\ bytes + 1 <= LoadSize
      BY <1>1, <2>1
    <2> QED
      BY <1>1, <1>2, <2>2 DEF IInv, TypeOK
  <1>3. CASE kind # "load"
    <2>1. Len(buffer) <= capacity /\ bytes <= capacity
      BY <1>3 DEF IInv, Sizes
    <2>2. bytes + 0 <= capacity
      BY <1>1, <2>1
    <2> QED
      BY <1>1, <1>3, <2>1, <2>2 DEF IInv, TypeOK
  <1> QED
    BY <1>2, <1>3

(* No read passes the end of the buffer, for any initial capacity and any  *)
(* growth, nor that of the fixed array of the load block.                  *)
THEOREM ReadTypeOK == ReadSpec => []TypeOK
  BY ReadInvariant, IInvTypeOK, PTL

LEMMA IInvShows == IInv => ShowsTheFile
  <1> SUFFICES ASSUME IInv, pc \in {"idle", "printed"}, kind # "network", KernelOrder,
                      NEW n \in Fields[kind]
               PROVE  Looked[n] = InFile(n)
    BY DEF ShowsTheFile
  <1>1. kind \in Kind /\ file \in Files[kind]
    BY DEF IInv
  <1>2. CASE kind = "battery"
    <2>1. buffer = FileText(file)
      BY <1>2 DEF IInv, HoldsFile
    <2>2. Looked[n] = GetProperty(buffer, Words[n])
      BY <1>2 DEF Looked
    <2> QED
      BY <1>1, <1>2, <2>1, <2>2, GetPropertyShows
  <1>3. CASE kind = "memory"
    <2>1. buffer = FileText(file) /\ memtotal # SizeMax
      BY <1>3 DEF IInv, HoldsFile
    <2>2. Looked[n] = IF n = "MemTotal" THEN memtotal ELSE GetMemusage(buffer, Words[n])
      BY <1>3 DEF Looked
    <2>3. memtotal = Total
      BY <1>1, <1>3, <2>1 DEF IInv, TotalKept, Total
    <2> QED
      BY <1>1, <1>3, <2>1, <2>2, <2>3, GetMemusageShows, TotalInFile
  <1>4. CASE kind = "load"
    <2>1. SubSeq(buffer, 1, bytes) = FileText(file) /\ file # <<>>
      BY <1>4 DEF IInv, HoldsFile
    <2>2. Looked[n] = Statistics(SubSeq(buffer, 1, bytes))[Words[n]]
      BY <1>4 DEF Looked
    <2> QED
      BY <1>1, <1>4, <2>1, <2>2, StatisticsShow
  <1> QED
    BY <1>1, <1>2, <1>3, <1>4, FileReadAssumption

(* What get_property, get_memusage and parse_loadavg find in the buffer is *)
(* what the file says under exactly this name, for any file in the order   *)
(* of the kernel, any names and any sizes of the pieces it was read in.    *)
THEOREM ReadShowsTheFile == ReadSpec => []ShowsTheFile
  BY ReadInvariant, IInvShows, PTL
=============================================================================
