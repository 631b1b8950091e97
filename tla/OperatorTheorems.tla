-------------------------- MODULE OperatorTheorems --------------------------
(***************************************************************************)
(* Facts about the operators that the models are built from.  Induction     *)
(* over the natural numbers with sets in place of predicates and recursive   *)
(* functions; with them, sums of sequences, sequences that are concatenated, *)
(* and what TableOperators computes when a table comes in parts: there is    *)
(* one way to sort rows, a merge takes the first of the first rows, an       *)
(* update applies its first row, and joins, selections and transforms of two *)
(* parts are those of the first part and then of the second.                 *)
(***************************************************************************)
EXTENDS TableOperators, SequenceSums, Integers, FiniteSets, SequencesExt,
        SequenceTheorems, FiniteSetTheorems, WellFoundedInduction, TLAPS

----------------------------------------------------------------------------
\* Induction

LEMMA LessIsWellFounded == IsWellFoundedOn({ss \in Nat \X Nat : ss[1] < ss[2]}, Nat)
BY NatLessThanWellFounded DEF OpToRel

\* A set with 0 and the successor of each of its numbers has all numbers.
LEMMA SetInduction ==
  ASSUME NEW S, 0 \in S, \A n \in Nat : n \in S => n + 1 \in S
  PROVE  \A n \in Nat : n \in S
<1> DEFINE Less == {ss \in Nat \X Nat : ss[1] < ss[2]}
           T == Nat \ S
<1> SUFFICES ASSUME T # {} PROVE FALSE
  OBVIOUS
<1>1. \E x \in T : \A y \in T : ~(<<y, x>> \in Less)
  <2>1. T \subseteq Nat
    OBVIOUS
  <2> HIDE DEF T
  <2> QED
    BY <2>1, LessIsWellFounded, WFMin
<1>2. PICK x \in T : \A y \in T : ~(<<y, x>> \in Less)
  BY <1>1
<1>3. x - 1 \in Nat /\ x - 1 < x /\ (x - 1) + 1 = x
  OBVIOUS
<1> QED
  BY <1>2, <1>3

\* The same up to a number.
LEMMA BoundedInduction ==
  ASSUME NEW m \in Nat, NEW S, 0 \in S, \A n \in 0..(m - 1) : n \in S => n + 1 \in S
  PROVE  \A n \in 0..m : n \in S
<1> DEFINE T == {n \in Nat : n <= m => n \in S}
<1>1. 0 \in T
  OBVIOUS
<1>2. \A n \in Nat : n \in T => n + 1 \in T
  OBVIOUS
<1>3. \A n \in Nat : n \in T
  <2> HIDE DEF T
  <2> QED
    BY <1>1, <1>2, SetInduction
<1> QED
  BY <1>3

\* f, on 0..m, is defined by its value at 0 and a step.
Recursive(f, m, base, step) == f[0] = base /\ \A n \in 1..m : f[n] = step[n][f[n - 1]]

\* A function defined by its value at 0 and how each value follows from the last.
LEMMA RecursiveFunctionExists ==
  ASSUME NEW V, NEW base \in V, NEW step, \A n \in Nat, v \in V : step[n][v] \in V
  PROVE  \A m \in Nat : \E f \in [0..m -> V] : Recursive(f, m, base, step)
<1> DEFINE Is(f, m) == Recursive(f, m, base, step)
           S == {m \in Nat : \E f \in [0..m -> V] : Is(f, m)}
<1> USE DEF Recursive
<1>1. 0 \in S
  <2>1. [i \in 0..0 |-> base] \in [0..0 -> V] /\ Is([i \in 0..0 |-> base], 0)
    OBVIOUS
  <2> QED
    BY <2>1
<1>2. ASSUME NEW m \in Nat, m \in S PROVE m + 1 \in S
  <2>1. PICK f \in [0..m -> V] : Is(f, m)
    BY <1>2
  <2> DEFINE g == [i \in 0..(m + 1) |-> IF i = m + 1 THEN step[m + 1][f[m]] ELSE f[i]]
  <2>2. m + 1 \in Nat /\ f[m] \in V
    OBVIOUS
  <2>3. g \in [0..(m + 1) -> V]
    BY <2>2
  <2>4. \A i \in 0..m : g[i] = f[i]
    OBVIOUS
  <2>5. g[m + 1] = step[m + 1][f[m]]
    OBVIOUS
  <2>6. g[0] = base
    BY <2>1, <2>4
  <2>7. ASSUME NEW n \in 1..(m + 1) PROVE g[n] = step[n][g[n - 1]]
    <3>1. CASE n = m + 1
      <4>1. n - 1 = m /\ m \in 0..m /\ g[m] = f[m]
        BY <2>4, <3>1
      <4> QED
        BY <2>5, <3>1, <4>1
    <3>2. CASE n # m + 1
      <4>1. n \in 1..m /\ n - 1 \in 0..m /\ n \in 0..m
        BY <3>2
      <4> QED
        BY <2>1, <2>4, <4>1
    <3> QED
      BY <3>1, <3>2
  <2> HIDE DEF g
  <2>8. Is(g, m + 1)
    BY <2>6, <2>7
  <2> HIDE DEF Is
  <2> QED
    BY <2>3, <2>8
<1>3. \A m \in Nat : m \in S
  <2> HIDE DEF S
  <2> QED
    BY <1>1, <1>2, SetInduction
<1> QED
  BY <1>3

----------------------------------------------------------------------------
\* Sums

IsSum(f, s) == /\ f \in [0..Len(s) -> Int] /\ f[0] = 0
               /\ \A n \in 1..Len(s) : f[n] = f[n - 1] + s[n]

LEMMA SumExists ==
  ASSUME NEW s \in Seq(Int)
  PROVE  \E f : IsSum(f, s)
<1> DEFINE step == [n \in Nat |-> [v \in Int |-> v + (IF n \in 1..Len(s) THEN s[n] ELSE 0)]]
<1>1. \A n \in Nat, v \in Int : step[n][v] \in Int
  OBVIOUS
<1>2. Len(s) \in Nat /\ 0 \in Int
  OBVIOUS
<1>3. \A n \in 1..Len(s), v \in Int : step[n][v] = v + s[n]
  OBVIOUS
<1> HIDE DEF step
<1>4. PICK f \in [0..Len(s) -> Int] : f[0] = 0 /\ \A n \in 1..Len(s) : f[n] = step[n][f[n - 1]]
  <2>1. \A m \in Nat : \E f \in [0..m -> Int] : Recursive(f, m, 0, step)
    BY <1>1, <1>2, RecursiveFunctionExists, Zenon
  <2> QED
    BY <1>2, <2>1 DEF Recursive
<1>5. \A n \in 1..Len(s) : f[n] = f[n - 1] + s[n]
  <2> SUFFICES ASSUME NEW n \in 1..Len(s) PROVE f[n] = f[n - 1] + s[n]
    OBVIOUS
  <2>1. n - 1 \in 0..Len(s)
    BY <1>2
  <2> QED
    BY <1>3, <1>4, <2>1
<1> QED
  BY <1>4, <1>5 DEF IsSum

LEMMA SumUnique ==
  ASSUME NEW s \in Seq(Int), NEW f, NEW g, IsSum(f, s), IsSum(g, s)
  PROVE  \A n \in 0..Len(s) : f[n] = g[n]
<1> DEFINE S == {n \in Nat : f[n] = g[n]}
<1>1. Len(s) \in Nat /\ 0 \in S
  BY DEF IsSum
<1>2. \A n \in 0..(Len(s) - 1) : n \in S => n + 1 \in S
  <2> SUFFICES ASSUME NEW n \in 0..(Len(s) - 1), f[n] = g[n] PROVE f[n + 1] = g[n + 1]
    BY <1>1
  <2>1. n + 1 \in 1..Len(s) /\ (n + 1) - 1 = n
    BY <1>1
  <2> QED
    BY <2>1 DEF IsSum
<1>3. \A n \in 0..Len(s) : n \in S
  <2> HIDE DEF S
  <2> QED
    BY <1>1, <1>2, BoundedInduction
<1> QED
  BY <1>3

\* Total(s) is the last of the partial sums.
LEMMA TotalIs ==
  ASSUME NEW s \in Seq(Int), NEW f, IsSum(f, s)
  PROVE  Total(s) = f[Len(s)]
<1> DEFINE F(u) == [n \in 0..Len(s) |-> IF n = 0 THEN 0 ELSE u[n - 1] + s[n]]
           upto == CHOOSE u : u = F(u)
<1>1. Len(s) \in Nat
  OBVIOUS
<1>2. f = F(f)
  <2>1. f = [n \in 0..Len(s) |-> f[n]]
    BY DEF IsSum
  <2>2. \A n \in 0..Len(s) : f[n] = IF n = 0 THEN 0 ELSE f[n - 1] + s[n]
    BY <1>1 DEF IsSum
  <2> QED
    BY <2>1, <2>2
<1>3. upto = F(upto)
  <2>1. \E u : u = F(u)
    BY <1>2
  <2> HIDE DEF F
  <2> QED
    BY <2>1
<1>4. Total(s) = upto[Len(s)]
  BY DEF Total
<1> HIDE DEF upto
<1>5. IsSum(upto, s)
  <2> DEFINE S == {n \in Nat : upto[n] \in Int}
  <2>1. upto[0] = 0 /\ \A n \in 1..Len(s) : upto[n] = upto[n - 1] + s[n]
    BY <1>1, <1>3
  <2>2. 0 \in S
    BY <2>1
  <2>3. \A n \in 0..(Len(s) - 1) : n \in S => n + 1 \in S
    <3> SUFFICES ASSUME NEW n \in 0..(Len(s) - 1), upto[n] \in Int PROVE upto[n + 1] \in Int
      BY <1>1
    <3>1. n + 1 \in 1..Len(s) /\ (n + 1) - 1 = n /\ s[n + 1] \in Int
      BY <1>1
    <3> QED
      BY <2>1, <3>1
  <2>4. \A n \in 0..Len(s) : n \in S
    <3> HIDE DEF S
    <3> QED
      BY <1>1, <2>2, <2>3, BoundedInduction
  <2>5. upto \in [0..Len(s) -> Int]
    BY <1>3, <2>4
  <2> QED
    BY <2>1, <2>5 DEF IsSum
<1> QED
  BY <1>1, <1>4, <1>5, SumUnique

LEMMA TotalEmpty == Total(<< >>) = 0
<1>1. IsSum([n \in {0} |-> 0], << >>)
  BY DEF IsSum
<1>2. << >> \in Seq(Int) /\ Len(<< >>) = 0
  OBVIOUS
<1> QED
  BY <1>1, <1>2, TotalIs

LEMMA TotalInt ==
  ASSUME NEW s \in Seq(Int)
  PROVE  Total(s) \in Int
<1>1. PICK f : IsSum(f, s)
  BY SumExists
<1>2. Total(s) = f[Len(s)] /\ Len(s) \in 0..Len(s)
  BY <1>1, TotalIs
<1> QED
  BY <1>1, <1>2 DEF IsSum

LEMMA TotalConcat ==
  ASSUME NEW s \in Seq(Int), NEW t \in Seq(Int)
  PROVE  Total(s \o t) = Total(s) + Total(t)
<1>1. PICK f : IsSum(f, s)
  BY SumExists
<1>2. PICK g : IsSum(g, t)
  BY SumExists
<1> DEFINE m == Len(s)
           n == Len(t)
           h == [i \in 0..(m + n) |-> IF i <= m THEN f[i] ELSE f[m] + g[i - m]]
<1>3. m \in Nat /\ n \in Nat /\ s \o t \in Seq(Int) /\ Len(s \o t) = m + n
  OBVIOUS
<1>4. \A i \in 1..(m + n) : (s \o t)[i] = IF i <= m THEN s[i] ELSE t[i - m]
  OBVIOUS
<1>5. /\ f \in [0..m -> Int] /\ f[0] = 0 /\ \A i \in 1..m : f[i] = f[i - 1] + s[i]
      /\ g \in [0..n -> Int] /\ g[0] = 0 /\ \A i \in 1..n : g[i] = g[i - 1] + t[i]
      /\ \A i \in 1..n : t[i] \in Int
  BY <1>1, <1>2 DEF IsSum
<1> HIDE DEF m, n
<1>6. h \in [0..(m + n) -> Int] /\ h[0] = 0
  <2>1. \A i \in 0..(m + n) : (i <= m => i \in 0..m) /\ (~(i <= m) => m \in 0..m /\ i - m \in 0..n)
    BY <1>3
  <2>2. \A i \in 0..(m + n) : h[i] \in Int
    BY <1>5, <2>1
  <2>3. 0 \in 0..(m + n) /\ 0 <= m
    BY <1>3
  <2>4. h[0] = 0
    BY <1>5, <2>3
  <2>5. h = [i \in 0..(m + n) |-> h[i]]
    OBVIOUS
  <2> HIDE DEF h
  <2> QED
    BY <2>2, <2>4, <2>5
<1>7. \A i \in 1..(m + n) : h[i] = h[i - 1] + (s \o t)[i]
  <2> SUFFICES ASSUME NEW i \in 1..(m + n) PROVE h[i] = h[i - 1] + (s \o t)[i]
    OBVIOUS
  <2>1. i \in 0..(m + n) /\ i - 1 \in 0..(m + n)
    BY <1>3
  <2>2. CASE i <= m
    <3>1. i \in 1..m /\ i - 1 <= m
      BY <1>3, <2>2
    <3> QED
      BY <1>4, <1>5, <2>1, <2>2, <3>1
  <2>3. CASE i = m + 1
    <3>1. i - 1 <= m /\ ~(i <= m) /\ i - 1 = m /\ i - m = 1 /\ 1 \in 1..n
      BY <1>3, <2>3
    <3>2. h[i] = f[m] + g[1] /\ h[i - 1] = f[m]
      BY <2>1, <3>1
    <3>3. g[1] = t[1] /\ t[1] \in Int
      <4>1. g[1] = g[1 - 1] + t[1]
        BY <1>5, <3>1
      <4>2. t[1] \in Int
        BY <1>5, <3>1
      <4> QED
        BY <1>5, <4>1, <4>2
    <3> QED
      BY <1>4, <3>1, <3>2, <3>3
  <2>4. CASE i > m + 1
    <3>1. ~(i <= m) /\ ~(i - 1 <= m) /\ i - m \in 1..n /\ (i - 1) - m = (i - m) - 1
      BY <1>3, <2>4
    <3>2. h[i] = f[m] + g[i - m] /\ h[i - 1] = f[m] + g[(i - m) - 1]
      BY <2>1, <3>1
    <3>3. f[m] \in Int /\ g[i - m] = g[(i - m) - 1] + t[i - m] /\ g[(i - m) - 1] \in Int
          /\ t[i - m] \in Int
      <4>1. m \in 0..m /\ (i - m) - 1 \in 0..n
        BY <1>3, <3>1
      <4> QED
        BY <1>5, <3>1, <4>1
    <3>4. (s \o t)[i] = t[i - m]
      BY <1>4, <3>1
    <3> HIDE DEF h
    <3> QED
      BY <3>2, <3>3, <3>4
  <2> QED
    BY <1>3, <2>2, <2>3, <2>4, SMTT(30)
<1>8. h[m + n] = f[m] + g[n]
  <2>1. CASE n = 0
    BY <1>3, <1>5, <2>1
  <2>2. CASE n # 0
    <3>1. ~(m + n <= m) /\ (m + n) - m = n /\ m + n \in 0..(m + n)
      BY <1>3, <2>2
    <3> QED
      BY <3>1
  <2> QED
    BY <2>1, <2>2
<1>9. Total(s \o t) = h[m + n]
  <2> HIDE DEF h
  <2>1. IsSum(h, s \o t)
    BY <1>3, <1>6, <1>7 DEF IsSum
  <2> QED
    BY <1>3, <2>1, TotalIs
<1>10. Total(s) = f[m] /\ Total(t) = g[n]
  BY <1>1, <1>2, TotalIs DEF m, n
<1> QED
  BY <1>8, <1>9, <1>10

LEMMA TotalOne ==
  ASSUME NEW x \in Int
  PROVE  Total(<<x>>) = x
<1> DEFINE f == [n \in 0..1 |-> IF n = 0 THEN 0 ELSE x]
<1>1. <<x>> \in Seq(Int) /\ Len(<<x>>) = 1 /\ <<x>>[1] = x
  OBVIOUS
<1>2. IsSum(f, <<x>>)
  BY <1>1 DEF IsSum
<1> QED
  BY <1>1, <1>2, TotalIs

LEMMA TotalAppend ==
  ASSUME NEW s \in Seq(Int), NEW x \in Int
  PROVE  Total(Append(s, x)) = Total(s) + x
<1>1. Append(s, x) = s \o <<x>> /\ <<x>> \in Seq(Int)
  OBVIOUS
<1> QED
  BY <1>1, TotalConcat, TotalOne

\* A sequence is split in two.
LEMMA TotalSplit ==
  ASSUME NEW s \in Seq(Int), NEW n \in 0..Len(s)
  PROVE  Total(s) = Total(SubSeq(s, 1, n)) + Total(SubSeq(s, n + 1, Len(s)))
<1> DEFINE a == SubSeq(s, 1, n)
           b == SubSeq(s, n + 1, Len(s))
<1>1. a \in Seq(Int) /\ b \in Seq(Int)
  OBVIOUS
<1>2. s = a \o b
  <2>1. Len(a) = n /\ Len(b) = Len(s) - n /\ Len(s) \in Nat
    OBVIOUS
  <2>2. \A i \in 1..n : a[i] = s[i]
    OBVIOUS
  <2>3. \A i \in 1..(Len(s) - n) : b[i] = s[n + i]
    OBVIOUS
  <2> HIDE DEF a, b
  <2>4. a \o b \in Seq(Int) /\ Len(a \o b) = Len(s)
    <3>1. a \o b \in Seq(Int) /\ Len(a \o b) = Len(a) + Len(b)
      BY <1>1, ConcatProperties
    <3>2. n \in Int /\ Len(s) \in Int
      OBVIOUS
    <3> QED
      BY <2>1, <3>1, <3>2
  <2>5. \A i \in 1..Len(s) : (a \o b)[i] = s[i]
    <3> SUFFICES ASSUME NEW i \in 1..Len(s) PROVE (a \o b)[i] = s[i]
      OBVIOUS
    <3>1. (a \o b)[i] = IF i <= n THEN a[i] ELSE b[i - n]
      BY <1>1, <2>1, SMTT(30)
    <3>2. CASE i <= n
      BY <2>1, <2>2, <3>1, <3>2
    <3>3. CASE ~(i <= n)
      <4>1. i - n \in 1..(Len(s) - n) /\ n + (i - n) = i
        BY <2>1, <3>3
      <4> QED
        BY <2>3, <3>1, <3>3, <4>1
    <3> QED
      BY <3>2, <3>3
  <2> QED
    BY <2>4, <2>5, SeqEqual
<1> QED
  BY <1>1, <1>2, TotalConcat

LEMMA TotalTail ==
  ASSUME NEW s \in Seq(Int), s # << >>
  PROVE  Total(s) = Head(s) + Total(Tail(s))
<1>1. s = <<Head(s)>> \o Tail(s) /\ Head(s) \in Int /\ Tail(s) \in Seq(Int) /\ <<Head(s)>> \in Seq(Int)
  OBVIOUS
<1> QED
  BY <1>1, TotalConcat, TotalOne

\* One element is replaced.
LEMMA TotalExcept ==
  ASSUME NEW s \in Seq(Int), NEW i \in 1..Len(s), NEW x \in Int
  PROVE  Total([s EXCEPT ![i] = x]) = Total(s) - s[i] + x
<1>1. PICK f : IsSum(f, s)
  BY SumExists
<1> DEFINE t == [s EXCEPT ![i] = x]
           g == [n \in 0..Len(s) |-> IF n < i THEN f[n] ELSE f[n] - s[i] + x]
<1>2. t \in Seq(Int) /\ Len(t) = Len(s) /\ s[i] \in Int /\ Len(s) \in Nat
      /\ \A n \in 1..Len(s) : t[n] = IF n = i THEN x ELSE s[n]
  OBVIOUS
<1>3. f \in [0..Len(s) -> Int] /\ f[0] = 0 /\ \A n \in 1..Len(s) : f[n] = f[n - 1] + s[n]
  BY <1>1 DEF IsSum
<1> HIDE DEF t
<1>4. g \in [0..Len(s) -> Int] /\ g[0] = 0
  BY <1>2, <1>3
<1>5. \A n \in 1..Len(s) : g[n] = g[n - 1] + t[n]
  <2> SUFFICES ASSUME NEW n \in 1..Len(s) PROVE g[n] = g[n - 1] + t[n]
    OBVIOUS
  <2>0. n \in 0..Len(s) /\ n - 1 \in 0..Len(s) /\ s[n] \in Int
    BY <1>2
  <2>1. f[n] = f[n - 1] + s[n] /\ f[n - 1] \in Int /\ f[n] \in Int
    BY <1>3, <2>0
  <2>2. CASE n < i
    BY <1>2, <2>0, <2>1, <2>2
  <2>3. CASE n = i
    BY <1>2, <2>0, <2>1, <2>3, SMTT(30)
  <2>4. CASE n > i
    <3>1. ~(n < i) /\ ~(n - 1 < i) /\ n # i
      BY <1>2, <2>4
    <3>2. g[n] = f[n] - s[i] + x /\ g[n - 1] = f[n - 1] - s[i] + x
      BY <2>0, <3>1
    <3>3. t[n] = s[n]
      BY <1>2, <3>1
    <3>4. s[i] \in Int
      BY <1>2
    <3> HIDE DEF g
    <3> QED
      BY <2>0, <2>1, <3>2, <3>3, <3>4, SMTT(30)
  <2> QED
    BY <1>2, <2>2, <2>3, <2>4
<1>6. g[Len(s)] = f[Len(s)] - s[i] + x
  BY <1>2
<1> HIDE DEF g
<1>7. Total(t) = g[Len(s)]
  <2>1. IsSum(g, t)
    BY <1>2, <1>4, <1>5 DEF IsSum
  <2> QED
    BY <1>2, <2>1, TotalIs
<1>8. Total(s) = f[Len(s)]
  BY <1>1, TotalIs
<1> QED
  BY <1>6, <1>7, <1>8 DEF t

\* A sum of natural numbers is one, and at least each of them.
LEMMA TotalNat ==
  ASSUME NEW s \in Seq(Nat)
  PROVE  /\ Total(s) \in Nat
         /\ \A i \in 1..Len(s) : s[i] <= Total(s)
<1>1. s \in Seq(Int) /\ Len(s) \in Nat /\ \A i \in 1..Len(s) : s[i] \in Nat
  OBVIOUS
<1>2. PICK f : IsSum(f, s)
  BY <1>1, SumExists
<1>3. f[0] = 0 /\ \A n \in 1..Len(s) : f[n] = f[n - 1] + s[n]
  BY <1>2 DEF IsSum
<1> DEFINE S == {n \in Nat : f[n] \in Nat /\ \A i \in 1..n : s[i] <= f[n]}
<1>4. 0 \in S
  BY <1>3
<1>5. \A n \in 0..(Len(s) - 1) : n \in S => n + 1 \in S
  <2> SUFFICES ASSUME NEW n \in 0..(Len(s) - 1), f[n] \in Nat, \A i \in 1..n : s[i] <= f[n]
               PROVE  f[n + 1] \in Nat /\ \A i \in 1..(n + 1) : s[i] <= f[n + 1]
    BY <1>1
  <2>1. n + 1 \in 1..Len(s) /\ (n + 1) - 1 = n
    BY <1>1
  <2>2. f[n + 1] = f[n] + s[n + 1] /\ s[n + 1] \in Nat
    BY <1>1, <1>3, <2>1
  <2>3. ASSUME NEW i \in 1..(n + 1) PROVE s[i] <= f[n + 1]
    <3>1. CASE i = n + 1
      BY <2>2, <3>1
    <3>2. CASE i # n + 1
      <4>1. i \in 1..n /\ s[i] \in Nat
        BY <1>1, <3>2
      <4> QED
        BY <2>2, <4>1
    <3> QED
      BY <3>1, <3>2
  <2> QED
    BY <2>2, <2>3
<1>6. \A n \in 0..Len(s) : n \in S
  <2> HIDE DEF S
  <2> QED
    BY <1>1, <1>4, <1>5, BoundedInduction
<1>7. Total(s) = f[Len(s)]
  BY <1>1, <1>2, TotalIs
<1> QED
  BY <1>1, <1>6, <1>7

----------------------------------------------------------------------------
\* Weights

Weights(f, s) == [i \in 1..Len(s) |-> f[s[i]]]

LEMMA WeightsType ==
  ASSUME NEW S, NEW f, \A x \in S : f[x] \in Int, NEW s \in Seq(S)
  PROVE  /\ Weights(f, s) \in Seq(Int) /\ Len(Weights(f, s)) = Len(s) /\ Len(s) \in Nat
         /\ \A i \in 1..Len(s) : Weights(f, s)[i] = f[s[i]] /\ s[i] \in S /\ f[s[i]] \in Int
         /\ Weight(f, s) = Total(Weights(f, s))
         /\ Weight(f, s) \in Int
<1>1. Len(s) \in Nat /\ \A i \in 1..Len(s) : s[i] \in S
  OBVIOUS
<1>2. \A i \in 1..Len(s) : f[s[i]] \in Int
  BY <1>1
<1>3. Weights(f, s) \in Seq(Int) /\ Len(Weights(f, s)) = Len(s)
  BY <1>1, <1>2 DEF Weights
<1>4. Weight(f, s) = Total(Weights(f, s))
  BY DEF Weight, Weights
<1>5. Weight(f, s) \in Int
  BY <1>3, <1>4, TotalInt
<1>6. \A i \in 1..Len(s) : Weights(f, s)[i] = f[s[i]]
  BY DEF Weights
<1> QED
  BY <1>1, <1>2, <1>3, <1>4, <1>5, <1>6

LEMMA WeightEmpty == \A f : Weight(f, << >>) = 0
<1> SUFFICES ASSUME NEW f PROVE Weight(f, << >>) = 0
  OBVIOUS
<1>1. [i \in 1..Len(<< >>) |-> f[<< >>[i]]] = << >>
  OBVIOUS
<1> QED
  BY <1>1, TotalEmpty DEF Weight

LEMMA WeightAppend ==
  ASSUME NEW S, NEW f, \A x \in S : f[x] \in Int, NEW s \in Seq(S), NEW x \in S
  PROVE  Weight(f, Append(s, x)) = Weight(f, s) + f[x]
<1>1. Append(s, x) \in Seq(S) /\ f[x] \in Int
  OBVIOUS
<1>2. Weights(f, Append(s, x)) = Append(Weights(f, s), f[x])
  <2>1. Len(s) \in Nat /\ Len(Append(s, x)) = Len(s) + 1
        /\ \A i \in 1..(Len(s) + 1) : Append(s, x)[i] = IF i = Len(s) + 1 THEN x ELSE s[i]
    OBVIOUS
  <2> QED
    BY <1>1, <2>1, WeightsType DEF Weights
<1>3. /\ Weight(f, s) = Total(Weights(f, s)) /\ Weights(f, s) \in Seq(Int)
      /\ Weight(f, Append(s, x)) = Total(Weights(f, Append(s, x)))
  BY <1>1, WeightsType
<1> QED
  BY <1>1, <1>2, <1>3, TotalAppend

LEMMA WeightExcept ==
  ASSUME NEW S, NEW f, \A x \in S : f[x] \in Int, NEW s \in Seq(S), NEW i \in 1..Len(s),
         NEW x \in S
  PROVE  Weight(f, [s EXCEPT ![i] = x]) = Weight(f, s) - f[s[i]] + f[x]
<1> DEFINE t == [s EXCEPT ![i] = x]
<1>1. t \in Seq(S) /\ Len(t) = Len(s) /\ f[x] \in Int
      /\ \A j \in 1..Len(s) : t[j] = IF j = i THEN x ELSE s[j]
  OBVIOUS
<1> HIDE DEF t
<1>3. /\ Weight(f, s) = Total(Weights(f, s)) /\ Weights(f, s) \in Seq(Int)
      /\ Len(Weights(f, s)) = Len(s)
      /\ Weights(f, s)[i] = f[s[i]]
  BY WeightsType
<1>4. Weight(f, t) = Total(Weights(f, t))
  BY DEF Weight, Weights
<1>2. Weights(f, t) = [Weights(f, s) EXCEPT ![i] = f[x]]
  BY <1>1 DEF Weights
<1> QED
  BY <1>1, <1>2, <1>3, <1>4, TotalExcept DEF t

LEMMA WeightSplit ==
  ASSUME NEW S, NEW f, \A x \in S : f[x] \in Int, NEW s \in Seq(S), NEW n \in 0..Len(s)
  PROVE  Weight(f, s) = Weight(f, SubSeq(s, 1, n)) + Weight(f, SubSeq(s, n + 1, Len(s)))
<1> DEFINE a == SubSeq(s, 1, n)
           b == SubSeq(s, n + 1, Len(s))
           W == Weights(f, s)
<1>1. /\ a \in Seq(S) /\ b \in Seq(S) /\ Len(a) = n /\ Len(b) = Len(s) - n /\ Len(s) \in Nat
      /\ \A i \in 1..n : a[i] = s[i]
      /\ \A i \in 1..(Len(s) - n) : b[i] = s[n + i]
  OBVIOUS
<1>2. /\ W \in Seq(Int) /\ Len(W) = Len(s) /\ \A i \in 1..Len(s) : W[i] = f[s[i]]
      /\ Weight(f, s) = Total(W)
  BY WeightsType
<1> HIDE DEF a, b, W
<1>3. Weight(f, a) = Total(Weights(f, a)) /\ Weight(f, b) = Total(Weights(f, b))
  BY <1>1, WeightsType
<1>4. Weights(f, a) = SubSeq(W, 1, n)
  <2>1. SubSeq(W, 1, n) = [i \in 1..n |-> W[i]]
    BY <1>1, <1>2
  <2>2. \A i \in 1..n : W[i] = f[a[i]]
    <3>1. \A i \in 1..n : i \in 1..Len(s)
      BY <1>1
    <3> QED
      BY <1>1, <1>2, <3>1
  <2> QED
    BY <1>1, <2>1, <2>2 DEF Weights
<1>5. Weights(f, b) = SubSeq(W, n + 1, Len(W))
  <2>1. \A i \in 1..(Len(s) - n) : n + i \in 1..Len(s)
    BY <1>1
  <2>2. SubSeq(W, n + 1, Len(W)) = [i \in 1..(Len(s) - n) |-> W[n + i]]
    BY <1>1, <1>2
  <2>3. \A i \in 1..(Len(s) - n) : W[n + i] = f[b[i]]
    BY <1>1, <1>2, <2>1
  <2> QED
    BY <1>1, <2>2, <2>3 DEF Weights
<1> QED
  BY <1>2, <1>3, <1>4, <1>5, TotalSplit DEF a, b

LEMMA WeightTail ==
  ASSUME NEW S, NEW f, \A x \in S : f[x] \in Int, NEW s \in Seq(S), s # << >>
  PROVE  Weight(f, s) = f[Head(s)] + Weight(f, Tail(s))
<1>1. /\ Tail(s) \in Seq(S) /\ Len(s) \in Nat /\ Len(s) > 0 /\ Len(Tail(s)) = Len(s) - 1
      /\ \A i \in 1..(Len(s) - 1) : Tail(s)[i] = s[i + 1]
      /\ Head(s) = s[1]
  OBVIOUS
<1>2. /\ Weights(f, s) \in Seq(Int) /\ Len(Weights(f, s)) = Len(s)
      /\ \A i \in 1..Len(s) : Weights(f, s)[i] = f[s[i]]
      /\ Weight(f, s) = Total(Weights(f, s))
  BY WeightsType
<1>5. Weight(f, Tail(s)) = Total(Weights(f, Tail(s)))
  BY DEF Weight, Weights
<1>3. Weights(f, s) # << >> /\ Head(Weights(f, s)) = f[Head(s)]
  BY <1>1, <1>2
<1>4. Weights(f, Tail(s)) = Tail(Weights(f, s))
  BY <1>1, <1>2 DEF Weights
<1> QED
  BY <1>2, <1>3, <1>4, <1>5, TotalTail

\* Sequences of equal weights.
LEMMA WeightSame ==
  ASSUME NEW f, NEW g, NEW s, NEW t, Len(s) = Len(t), \A i \in 1..Len(s) : f[s[i]] = g[t[i]]
  PROVE  Weight(f, s) = Weight(g, t)
<1>1. [i \in 1..Len(s) |-> f[s[i]]] = [i \in 1..Len(t) |-> g[t[i]]]
  OBVIOUS
<1> QED
  BY <1>1 DEF Weight

\* A sequence weighs at least what one of its elements does.
LEMMA WeightNat ==
  ASSUME NEW S, NEW f, \A x \in S : f[x] \in Nat, NEW s \in Seq(S)
  PROVE  /\ Weight(f, s) \in Nat
         /\ \A i \in 1..Len(s) : f[s[i]] <= Weight(f, s)
<1>1. Len(s) \in Nat /\ \A i \in 1..Len(s) : s[i] \in S
  OBVIOUS
<1>2. \A i \in 1..Len(s) : f[s[i]] \in Nat
  BY <1>1
<1>3. /\ Weights(f, s) \in Seq(Nat) /\ Len(Weights(f, s)) = Len(s)
      /\ \A i \in 1..Len(s) : Weights(f, s)[i] = f[s[i]]
  BY <1>1, <1>2 DEF Weights
<1>4. Weight(f, s) = Total(Weights(f, s))
  BY DEF Weight, Weights
<1> QED
  BY <1>3, <1>4, TotalNat

LEMMA ConstantTotal ==
  ASSUME NEW c \in Int
  PROVE  \A n \in Nat : Total([i \in 1..n |-> c]) = n * c
<1> DEFINE C == {n \in Nat : Total([i \in 1..n |-> c]) = n * c}
<1>1. 0 \in C
  <2>1. [i \in 1..0 |-> c] = << >>
    OBVIOUS
  <2> QED
    BY <2>1, TotalEmpty
<1>2. ASSUME NEW n \in Nat, n \in C PROVE n + 1 \in C
  <2> DEFINE s == [i \in 1..n |-> c]
  <2>1. [i \in 1..(n + 1) |-> c] = Append(s, c) /\ s \in Seq(Int)
    OBVIOUS
  <2>2. Total(s) = n * c
    BY <1>2
  <2> HIDE DEF s
  <2>3. Total(Append(s, c)) = n * c + c
    BY <2>1, <2>2, TotalAppend
  <2>4. (n + 1) * c = n * c + c
    OBVIOUS
  <2>5. Total([i \in 1..(n + 1) |-> c]) = (n + 1) * c
    BY <2>1, <2>3, <2>4
  <2> QED
    BY <2>5
<1>3. \A n \in Nat : n \in C
  <2> HIDE DEF C
  <2> QED
    BY <1>1, <1>2, SetInduction
<1> QED
  BY <1>3

LEMMA WeightZero ==
  ASSUME NEW f, NEW s, Len(s) \in Nat, \A i \in 1..Len(s) : f[s[i]] = 0
  PROVE  Weight(f, s) = 0
<1>1. [i \in 1..Len(s) |-> f[s[i]]] = [i \in 1..Len(s) |-> 0]
  OBVIOUS
<1>2. Len(s) * 0 = 0
  OBVIOUS
<1> QED
  BY <1>1, <1>2, ConstantTotal DEF Weight

LEMMA WeightOne ==
  ASSUME NEW f, NEW s, Len(s) \in Nat, \A i \in 1..Len(s) : f[s[i]] = 1
  PROVE  Weight(f, s) = Len(s)
<1>1. [i \in 1..Len(s) |-> f[s[i]]] = [i \in 1..Len(s) |-> 1]
  OBVIOUS
<1>2. Len(s) * 1 = Len(s)
  OBVIOUS
<1> QED
  BY <1>1, <1>2, ConstantTotal DEF Weight

----------------------------------------------------------------------------
\* Counting: one for each position that is in T.
Indicator(n, T) == [i \in 1..n |-> IF i \in T THEN 1 ELSE 0]

LEMMA IndicatorType == \A n \in Nat : \A T : Indicator(n, T) \in Seq(Int)
  BY DEF Indicator

LEMMA CountIsTotal ==
  \A n \in Nat : \A T \in SUBSET (1..n) :
    IsFiniteSet(T) /\ Cardinality(T) = Total(Indicator(n, T))
<1> DEFINE Counts(n, T) == IsFiniteSet(T) /\ Cardinality(T) = Total(Indicator(n, T))
           C == {n \in Nat : \A T \in SUBSET (1..n) : Counts(n, T)}
<1>1. 0 \in C
  <2>1. \A T \in SUBSET (1..0) : T = {}
    OBVIOUS
  <2>2. Indicator(0, {}) = << >>
    BY DEF Indicator
  <2>3. Counts(0, {})
    BY <2>2, TotalEmpty, FS_EmptySet
  <2> HIDE DEF Counts
  <2> QED
    BY <2>1, <2>3
<1>2. ASSUME NEW n \in Nat, n \in C PROVE n + 1 \in C
  <2> SUFFICES ASSUME NEW T \in SUBSET (1..(n + 1)) PROVE Counts(n + 1, T)
    OBVIOUS
  <2> DEFINE U == T \ {n + 1}
  <2>1. U \in SUBSET (1..n) /\ n + 1 \notin U
    OBVIOUS
  <2>2. IsFiniteSet(U) /\ Cardinality(U) = Total(Indicator(n, U))
    BY <1>2, <2>1
  <2>3. Total(Indicator(n, U)) \in Int /\ Indicator(n, U) \in Seq(Int)
    BY IndicatorType, TotalInt
  <2>4. Indicator(n + 1, T) = Append(Indicator(n, U), IF n + 1 \in T THEN 1 ELSE 0)
    BY DEF Indicator
  <2>5. Total(Indicator(n + 1, T)) = Total(Indicator(n, U)) + (IF n + 1 \in T THEN 1 ELSE 0)
    <3> DEFINE x == IF n + 1 \in T THEN 1 ELSE 0
    <3>1. x \in Int
      OBVIOUS
    <3> HIDE DEF x
    <3>2. Total(Append(Indicator(n, U), x)) = Total(Indicator(n, U)) + x
      BY <2>3, <3>1, TotalAppend
    <3> QED
      BY <2>4, <3>2 DEF x
  <2>6. CASE n + 1 \in T
    <3>1. T = U \cup {n + 1}
      BY <2>6
    <3> HIDE DEF U
    <3>2. IsFiniteSet(T) /\ Cardinality(T) = Cardinality(U) + 1
      BY <2>1, <2>2, <3>1, FS_AddElement
    <3> QED
      BY <2>2, <2>5, <2>6, <3>2
  <2>7. CASE n + 1 \notin T
    <3>1. T = U
      BY <2>7
    <3> HIDE DEF U
    <3> QED
      BY <2>2, <2>3, <2>5, <2>7, <3>1
  <2> QED
    BY <2>6, <2>7
<1>3. \A n \in Nat : n \in C
  <2> HIDE DEF C
  <2> QED
    BY <1>1, <1>2, SetInduction
<1> QED
  BY <1>3

----------------------------------------------------------------------------
\* Concatenations

\* f[n] is the concatenation of the first n sequences of ss.
IsFlat(f, ss, S) == /\ f \in [0..Len(ss) -> Seq(S)] /\ f[0] = << >>
                    /\ \A n \in 1..Len(ss) : f[n] = f[n - 1] \o ss[n]

LEMMA FlatExists ==
  ASSUME NEW S, NEW ss \in Seq(Seq(S))
  PROVE  \E f : IsFlat(f, ss, S)
<1> DEFINE V == Seq(S)
           e == << >>
           step == [n \in Nat |-> [v \in V |-> v \o (IF n \in 1..Len(ss) THEN ss[n] ELSE << >>)]]
<1>1. \A n \in Nat, v \in V : step[n][v] \in V
  <2> SUFFICES ASSUME NEW n \in Nat, NEW v \in Seq(S)
               PROVE  v \o (IF n \in 1..Len(ss) THEN ss[n] ELSE << >>) \in Seq(S)
    OBVIOUS
  <2>1. (IF n \in 1..Len(ss) THEN ss[n] ELSE << >>) \in Seq(S)
    OBVIOUS
  <2> QED
    BY <2>1
<1>2. Len(ss) \in Nat /\ e \in V
  OBVIOUS
<1>3. ASSUME NEW n \in 1..Len(ss), NEW v \in V PROVE step[n][v] = v \o ss[n]
  <2>1. n \in Nat
    BY <1>2
  <2> HIDE DEF V
  <2> QED
    BY <2>1
<1> HIDE DEF step, V, e
<1>4. \A m \in Nat : \E f \in [0..m -> V] : Recursive(f, m, e, step)
  BY <1>1, <1>2, RecursiveFunctionExists, Zenon
<1>5. PICK f \in [0..Len(ss) -> V] : f[0] = e /\ \A n \in 1..Len(ss) : f[n] = step[n][f[n - 1]]
  BY <1>2, <1>4 DEF Recursive
<1>6. \A n \in 1..Len(ss) : f[n] = f[n - 1] \o ss[n]
  <2> SUFFICES ASSUME NEW n \in 1..Len(ss) PROVE f[n] = f[n - 1] \o ss[n]
    OBVIOUS
  <2>1. n - 1 \in 0..Len(ss)
    BY <1>2
  <2> QED
    BY <1>3, <1>5, <2>1
<1> QED
  BY <1>5, <1>6 DEF IsFlat, V, e

\* Two concatenations go on alike, from where the sequences are the same.
LEMMA FlatUnique ==
  ASSUME NEW S, NEW ss \in Seq(Seq(S)), NEW f, NEW g, IsFlat(f, ss, S), IsFlat(g, ss, S)
  PROVE  \A n \in 0..Len(ss) : f[n] = g[n]
<1> DEFINE T == {n \in Nat : f[n] = g[n]}
<1>1. Len(ss) \in Nat /\ 0 \in T
  BY DEF IsFlat
<1>2. \A n \in 0..(Len(ss) - 1) : n \in T => n + 1 \in T
  <2> SUFFICES ASSUME NEW n \in 0..(Len(ss) - 1), f[n] = g[n] PROVE f[n + 1] = g[n + 1]
    BY <1>1
  <2>1. n + 1 \in 1..Len(ss) /\ (n + 1) - 1 = n
    BY <1>1
  <2> QED
    BY <2>1 DEF IsFlat
<1>3. \A n \in 0..Len(ss) : n \in T
  <2> HIDE DEF T
  <2> QED
    BY <1>1, <1>2, BoundedInduction
<1> QED
  BY <1>3

LEMMA FlattenEmpty == FlattenSeq(<< >>) = << >>
  BY DEF FlattenSeq

LEMMA FlattenIs ==
  ASSUME NEW S, NEW ss \in Seq(Seq(S)), NEW f, IsFlat(f, ss, S)
  PROVE  FlattenSeq(ss) = f[Len(ss)]
<1>1. Len(ss) \in Nat /\ f \in [0..Len(ss) -> Seq(S)] /\ f[0] = << >>
  BY DEF IsFlat
<1>2. CASE Len(ss) = 0
  BY <1>1, <1>2 DEF FlattenSeq
<1>3. CASE Len(ss) # 0
  <2> DEFINE n == Len(ss)
             F(u) == [i \in 1..Len(ss) |-> IF i = 1 THEN ss[i] ELSE u[i - 1] \o ss[i]]
             flat == CHOOSE u : u = F(u)
             g == [i \in 1..Len(ss) |-> f[i]]
  <2>1. g = F(g)
    <3> SUFFICES ASSUME NEW i \in 1..Len(ss)
                 PROVE  f[i] = IF i = 1 THEN ss[i] ELSE g[i - 1] \o ss[i]
      OBVIOUS
    <3>1. f[i] = f[i - 1] \o ss[i] /\ ss[i] \in Seq(S)
      BY DEF IsFlat
    <3>2. CASE i = 1
      BY <1>1, <3>1, <3>2
    <3>3. CASE i # 1
      <4>1. i - 1 \in 1..Len(ss)
        BY <1>1, <3>3
      <4> QED
        BY <3>1, <3>3, <4>1
    <3> QED
      BY <3>2, <3>3
  <2>2. flat = F(flat)
    <3>1. \E u : u = F(u)
      BY <2>1
    <3> HIDE DEF F
    <3> QED
      BY <3>1
  <2>3. FlattenSeq(ss) = flat[Len(ss)]
    BY <1>3 DEF FlattenSeq
  <2> HIDE DEF flat
  <2> DEFINE h == [i \in 0..Len(ss) |-> IF i = 0 THEN << >> ELSE flat[i]]
             T == {i \in Nat : h[i] \in Seq(S) /\ h[i] = f[i]}
  <2>4. 0 \in T
    BY <1>1
  <2>8. \A i \in 0..Len(ss) : h[i] = IF i = 0 THEN << >> ELSE flat[i]
    OBVIOUS
  <2> HIDE DEF h
  <2>5. \A i \in 0..(Len(ss) - 1) : i \in T => i + 1 \in T
    <3> SUFFICES ASSUME NEW i \in 0..(Len(ss) - 1), h[i] \in Seq(S), h[i] = f[i]
                 PROVE  h[i + 1] \in Seq(S) /\ h[i + 1] = f[i + 1]
      BY <1>1
    <3>1. i + 1 \in 1..Len(ss) /\ (i + 1) - 1 = i /\ i + 1 \in 0..Len(ss) /\ i + 1 # 0
      BY <1>1
    <3>2. ss[i + 1] \in Seq(S) /\ f[i + 1] = f[i] \o ss[i + 1]
      <4>1. f[i + 1] = f[(i + 1) - 1] \o ss[i + 1]
        BY <3>1 DEF IsFlat
      <4> QED
        BY <3>1, <4>1
    <3>3. flat[i + 1] = IF i + 1 = 1 THEN ss[i + 1] ELSE flat[i] \o ss[i + 1]
      <4>1. flat[i + 1] = IF i + 1 = 1 THEN ss[i + 1] ELSE flat[(i + 1) - 1] \o ss[i + 1]
        BY <2>2, <3>1
      <4> QED
        BY <3>1, <4>1
    <3>4. h[i + 1] = flat[i + 1]
      BY <2>8, <3>1
    <3>5. CASE i = 0
      BY <1>1, <3>1, <3>2, <3>3, <3>4, <3>5, SMTT(30)
    <3>6. CASE i # 0
      <4>1. h[i] = flat[i] /\ i + 1 # 1
        BY <1>1, <2>8, <3>6
      <4>2. h[i + 1] = h[i] \o ss[i + 1]
        BY <3>3, <3>4, <4>1
      <4> QED
        BY <3>2, <4>2
    <3> QED
      BY <3>5, <3>6
  <2>6. \A i \in 0..Len(ss) : i \in T
    <3> HIDE DEF T
    <3> QED
      BY <1>1, <2>4, <2>5, BoundedInduction
  <2>7. h[Len(ss)] = flat[Len(ss)] /\ h[Len(ss)] = f[Len(ss)]
    BY <1>1, <1>3, <2>6, <2>8
  <2> QED
    BY <2>3, <2>7
<1> QED
  BY <1>2, <1>3

LEMMA FlattenType ==
  ASSUME NEW S, NEW ss \in Seq(Seq(S))
  PROVE  FlattenSeq(ss) \in Seq(S)
<1>1. PICK f : IsFlat(f, ss, S)
  BY FlatExists
<1>2. FlattenSeq(ss) = f[Len(ss)] /\ Len(ss) \in 0..Len(ss)
  BY <1>1, FlattenIs
<1> QED
  BY <1>1, <1>2 DEF IsFlat

LEMMA ConcatRegroup ==
  \A S : \A x, y, u \in Seq(S) : x \o (y \o u) = (x \o y) \o u
  OBVIOUS

\* The last sequences of ss and tt are empty, one before them goes on with u in
\* tt, and all others are the same: so tt goes on with u.
Extends(tt, ss, i, u) ==
  /\ Len(tt) = Len(ss) /\ i \in 1..Len(ss)
  /\ tt[i] = ss[i] \o u
  /\ \A j \in 1..(i - 1) : tt[j] = ss[j]
  /\ \A j \in (i + 1)..Len(ss) : ss[j] = << >> /\ tt[j] = << >>

LEMMA FlattenExtend ==
  ASSUME NEW S, NEW ss \in Seq(Seq(S)), NEW tt \in Seq(Seq(S)), NEW u \in Seq(S),
         NEW i, Extends(tt, ss, i, u)
  PROVE  FlattenSeq(tt) = FlattenSeq(ss) \o u
<1>1. PICK f : IsFlat(f, ss, S)
  BY FlatExists
<1>2. PICK g : IsFlat(g, tt, S)
  BY FlatExists
<1>0. /\ Len(ss) \in Nat /\ \A n \in 1..Len(ss) : ss[n] \in Seq(S)
      /\ Len(tt) = Len(ss) /\ i \in 1..Len(ss)
  BY DEF Extends
<1>3. /\ Len(ss) \in Nat /\ \A n \in 1..Len(ss) : ss[n] \in Seq(S)
      /\ f \in [0..Len(ss) -> Seq(S)] /\ f[0] = << >>
      /\ \A n \in 1..Len(ss) : f[n] = f[n - 1] \o ss[n]
      /\ g[0] = << >>
      /\ \A n \in 1..Len(ss) : g[n] = g[n - 1] \o tt[n]
  BY <1>0, <1>1, <1>2 DEF IsFlat
<1> DEFINE T == {n \in Nat : g[n] = IF n < i THEN f[n] ELSE f[n] \o u}
<1>4. 0 \in T
  BY <1>0, <1>3
<1>5. \A n \in 0..(Len(ss) - 1) : n \in T => n + 1 \in T
  <2> SUFFICES ASSUME NEW n \in 0..(Len(ss) - 1), n \in T
               PROVE  n + 1 \in T
    OBVIOUS
  <2>6. n + 1 \in Nat
    BY <1>0
  <2>1. n + 1 \in 1..Len(ss) /\ (n + 1) - 1 = n /\ n \in 0..Len(ss)
    BY <1>3
  <2>2. /\ f[n + 1] = f[n] \o ss[n + 1] /\ g[n + 1] = g[n] \o tt[n + 1]
        /\ f[n] \in Seq(S) /\ ss[n + 1] \in Seq(S)
    <3>1. f[n + 1] = f[(n + 1) - 1] \o ss[n + 1] /\ g[n + 1] = g[(n + 1) - 1] \o tt[n + 1]
      BY <1>3, <2>1
    <3>2. f[n] \in Seq(S) /\ ss[n + 1] \in Seq(S)
      BY <1>3, <2>1
    <3> QED
      BY <2>1, <3>1, <3>2
  <2>3. CASE n + 1 < i
    <3>1. n < i /\ n + 1 \in 1..(i - 1)
      BY <1>0, <2>1, <2>3
    <3>2. tt[n + 1] = ss[n + 1]
      BY <3>1 DEF Extends
    <3> QED
      BY <2>6, <2>2, <2>3, <3>1, <3>2
  <2>4. CASE n + 1 = i
    <3>1. n < i /\ ~(n + 1 < i)
      BY <1>0, <2>1, <2>4
    <3>2. tt[n + 1] = ss[n + 1] \o u
      BY <2>4 DEF Extends
    <3>3. f[n] \o (ss[n + 1] \o u) = (f[n] \o ss[n + 1]) \o u
      <4> DEFINE x == f[n]
                 y == ss[n + 1]
      <4>1. x \in Seq(S) /\ y \in Seq(S)
        BY <2>2
      <4> HIDE DEF x, y, T
      <4>2. x \o (y \o u) = (x \o y) \o u
        BY <4>1, SMTT(30)
      <4> QED
        BY <4>2 DEF x, y
    <3> QED
      BY <2>6, <2>2, <3>1, <3>2, <3>3
  <2>5. CASE n + 1 > i
    <3>1. ~(n < i) /\ ~(n + 1 < i) /\ n + 1 \in (i + 1)..Len(ss)
      <4>1. i \in Int /\ n \in Int /\ Len(ss) \in Int /\ n + 1 <= Len(ss)
        BY <1>0, <2>1
      <4> QED
        BY <2>5, <4>1
    <3>2. ss[n + 1] = << >> /\ tt[n + 1] = << >>
      BY <3>1 DEF Extends
    <3>3. f[n + 1] = f[n]
      BY <2>2, <3>2
    <3>4. g[n] = f[n] \o u
      BY <3>1
    <3>5. g[n] \in Seq(S)
      <4> DEFINE x == f[n]
      <4>1. x \in Seq(S)
        BY <2>2
      <4> HIDE DEF x
      <4>2. x \o u \in Seq(S)
        BY <4>1
      <4> QED
        BY <3>4, <4>2 DEF x
    <3>6. g[n + 1] = g[n]
      BY <2>2, <3>2, <3>5
    <3> QED
      BY <2>6, <3>1, <3>3, <3>4, <3>6
  <2> QED
    BY <1>0, <2>1, <2>3, <2>4, <2>5, <2>6
<1>6. \A n \in 0..Len(ss) : n \in T
  <2> HIDE DEF T
  <2> QED
    BY <1>3, <1>4, <1>5, BoundedInduction
<1>7. g[Len(ss)] = f[Len(ss)] \o u
  <2>1. Len(ss) \in 0..Len(ss) /\ ~(Len(ss) < i)
    BY <1>0
  <2> QED
    BY <1>6, <2>1
<1> QED
  BY <1>0, <1>1, <1>2, <1>7, FlattenIs

LEMMA FlattenAppend ==
  ASSUME NEW S, NEW ss \in Seq(Seq(S)), NEW t \in Seq(S)
  PROVE  FlattenSeq(Append(ss, t)) = FlattenSeq(ss) \o t
<1>1. PICK f : IsFlat(f, ss, S)
  BY FlatExists
<1> DEFINE n == Len(ss)
           tt == Append(ss, t)
           g == [i \in 0..(n + 1) |-> IF i <= n THEN f[i] ELSE f[n] \o t]
<1>0. n \in Nat
  OBVIOUS
<1>2. /\ n \in Nat /\ f \in [0..n -> Seq(S)] /\ f[0] = << >>
      /\ \A i \in 1..n : f[i] = f[i - 1] \o ss[i]
  BY <1>0, <1>1 DEF IsFlat
<1>3. /\ tt \in Seq(Seq(S)) /\ Len(tt) = n + 1 /\ tt[n + 1] = t
      /\ \A i \in 1..n : tt[i] = ss[i]
  OBVIOUS
<1> HIDE DEF n, tt
<1>4. \A i \in 0..(n + 1) : g[i] \in Seq(S)
  <2> SUFFICES ASSUME NEW i \in 0..(n + 1) PROVE g[i] \in Seq(S)
    OBVIOUS
  <2>1. i <= n => f[i] \in Seq(S)
    BY <1>2
  <2>2. f[n] \o t \in Seq(S)
    <3>1. f[n] \in Seq(S)
      BY <1>2
    <3> QED
      BY <3>1
  <2> QED
    BY <2>1, <2>2
<1>5. g[0] = << >> /\ g[n + 1] = f[n] \o t /\ g = [i \in 0..(n + 1) |-> g[i]]
  BY <1>2
<1>6. \A i \in 1..(n + 1) : g[i] = g[i - 1] \o tt[i]
  <2> SUFFICES ASSUME NEW i \in 1..(n + 1) PROVE g[i] = g[i - 1] \o tt[i]
    OBVIOUS
  <2>1. i \in 0..(n + 1) /\ i - 1 \in 0..(n + 1) /\ i - 1 <= n
    BY <1>2
  <2>2. g[i - 1] = f[i - 1]
    BY <2>1
  <2>3. CASE i = n + 1
    <3>1. i - 1 = n
      BY <1>2, <2>3
    <3> QED
      BY <1>3, <1>5, <2>2, <2>3, <3>1
  <2>4. CASE i # n + 1
    <3>1. i \in 1..n /\ i <= n
      BY <1>2, <2>4
    <3> QED
      BY <1>2, <1>3, <2>1, <2>2, <3>1
  <2> QED
    BY <2>3, <2>4
<1> HIDE DEF g
<1>7. IsFlat(g, tt, S)
  BY <1>3, <1>4, <1>5, <1>6 DEF IsFlat
<1>8. FlattenSeq(tt) = g[n + 1]
  BY <1>3, <1>7, FlattenIs
<1>9. FlattenSeq(ss) = f[n]
  BY <1>1, FlattenIs DEF n
<1> QED
  BY <1>5, <1>8, <1>9 DEF tt

----------------------------------------------------------------------------
\* The parts of a sequence from its start
LEMMA PrefixFacts ==
  ASSUME NEW S, NEW s \in Seq(S)
  PROVE  /\ SubSeq(s, 1, 0) = << >> /\ SubSeq(s, 1, Len(s)) = s
         /\ \A n \in 0..Len(s) : SubSeq(s, 1, n) \in Seq(S) /\ Len(SubSeq(s, 1, n)) = n
         /\ \A n \in 0..(Len(s) - 1) :
              s[n + 1] \in S /\ SubSeq(s, 1, n + 1) = Append(SubSeq(s, 1, n), s[n + 1])
  OBVIOUS

LEMMA ConcatFacts ==
  ASSUME NEW S, NEW s \in Seq(S), NEW t \in Seq(S)
  PROVE  /\ s \o << >> = s /\ << >> \o s = s /\ s \o t \in Seq(S)
         /\ Len(s \o t) = Len(s) + Len(t)
         /\ \A x \in S : s \o Append(t, x) = Append(s \o t, x) /\ Append(s, x) = s \o <<x>>
                        /\ <<x>> \in Seq(S)
         /\ \A u \in Seq(S) : (s \o t) \o u = s \o (t \o u)
  OBVIOUS

LEMMA HeadFacts ==
  ASSUME NEW S, NEW s \in Seq(S), s # << >>
  PROVE  /\ Head(s) \in S /\ Head(s) = s[1] /\ Tail(s) \in Seq(S) /\ s = <<Head(s)>> \o Tail(s)
         /\ Len(s) \in Nat /\ Len(s) > 0 /\ Len(Tail(s)) = Len(s) - 1
         /\ \A i \in 1..Len(Tail(s)) : Tail(s)[i] = s[i + 1]
  OBVIOUS

LEMMA Assoc ==
  ASSUME NEW S, NEW x \in Seq(S), NEW y \in Seq(S), NEW z \in Seq(S)
  PROVE  (x \o y) \o z = x \o (y \o z)
  OBVIOUS

\* The parts around one place
LEMMA SequenceParts ==
  ASSUME NEW S, NEW s \in Seq(S), NEW i \in 1..Len(s)
  PROVE  /\ SubSeq(s, 1, i - 1) \in Seq(S) /\ SubSeq(s, i + 1, Len(s)) \in Seq(S)
         /\ <<s[i]>> \in Seq(S) /\ s[i] \in S
         /\ s = (SubSeq(s, 1, i - 1) \o <<s[i]>>) \o SubSeq(s, i + 1, Len(s))
         /\ Len(SubSeq(s, 1, i - 1)) = i - 1
         /\ \A j \in 1..(i - 1) : SubSeq(s, 1, i - 1)[j] = s[j]
<1>1. /\ SubSeq(s, 1, i - 1) \in Seq(S) /\ SubSeq(s, i + 1, Len(s)) \in Seq(S)
      /\ <<s[i]>> \in Seq(S) /\ s[i] \in S /\ Len(SubSeq(s, 1, i - 1)) = i - 1
  OBVIOUS
<1>2. s = (SubSeq(s, 1, i - 1) \o <<s[i]>>) \o SubSeq(s, i + 1, Len(s))
  <2>1. SubSeq(s, 1, i) = SubSeq(s, 1, i - 1) \o <<s[i]>>
    OBVIOUS
  <2>2. s = SubSeq(s, 1, i) \o SubSeq(s, i + 1, Len(s))
    OBVIOUS
  <2> QED
    BY <2>1, <2>2
<1>3. \A j \in 1..(i - 1) : SubSeq(s, 1, i - 1)[j] = s[j]
  OBVIOUS
<1> QED
  BY <1>1, <1>2, <1>3

LEMMA SameParts ==
  ASSUME NEW S, NEW s \in Seq(S), NEW t \in Seq(S), Len(t) = Len(s), NEW i \in 1..Len(s),
         \A j \in 1..Len(s) : j # i => t[j] = s[j]
  PROVE  /\ SubSeq(t, 1, i - 1) = SubSeq(s, 1, i - 1)
         /\ SubSeq(t, i + 1, Len(t)) = SubSeq(s, i + 1, Len(s))
  OBVIOUS

LEMMA FlattenOne ==
  ASSUME NEW S, NEW t \in Seq(S)
  PROVE  FlattenSeq(<<t>>) = t
<1>1. << >> \in Seq(Seq(S)) /\ Append(<< >>, t) = <<t>>
  OBVIOUS
<1>2. FlattenSeq(Append(<< >>, t)) = FlattenSeq(<< >>) \o t
  BY <1>1, FlattenAppend
<1> QED
  BY <1>1, <1>2, FlattenEmpty

LEMMA FlattenConcat ==
  ASSUME NEW S, NEW ss \in Seq(Seq(S)), NEW tt \in Seq(Seq(S))
  PROVE  FlattenSeq(ss \o tt) = FlattenSeq(ss) \o FlattenSeq(tt)
<1> DEFINE V == Seq(S)
           p(n) == SubSeq(tt, 1, n)
           T == {n \in Nat : FlattenSeq(ss \o p(n)) = FlattenSeq(ss) \o FlattenSeq(p(n))}
<1>0. ss \in Seq(V) /\ tt \in Seq(V)
  OBVIOUS
<1> HIDE DEF V
<1>1. /\ Len(tt) \in Nat /\ p(0) = << >> /\ p(Len(tt)) = tt
      /\ \A n \in 0..Len(tt) : p(n) \in Seq(V)
      /\ \A n \in 0..(Len(tt) - 1) : tt[n + 1] \in V /\ p(n + 1) = Append(p(n), tt[n + 1])
  <2>1. Len(tt) \in Nat /\ p(0) = << >> /\ p(Len(tt)) = tt
    BY <1>0
  <2>2. \A n \in 0..Len(tt) : p(n) \in Seq(V)
    BY <1>0
  <2>3. ASSUME NEW n \in 0..(Len(tt) - 1) PROVE tt[n + 1] \in V /\ p(n + 1) = Append(p(n), tt[n + 1])
    BY <1>0
  <2> QED
    BY <2>1, <2>2, <2>3
<1>2. FlattenSeq(ss) \in Seq(S) /\ \A n \in 0..Len(tt) : FlattenSeq(p(n)) \in Seq(S)
  BY <1>0, <1>1, FlattenType DEF V
<1> HIDE DEF p
<1>3. 0 \in T
  <2>1. ss \o << >> = ss /\ 0 \in 0..Len(tt)
    BY <1>0, <1>1
  <2>2. FlattenSeq(ss) \o << >> = FlattenSeq(ss)
    BY <1>2
  <2> QED
    BY <1>1, <2>1, <2>2, FlattenEmpty
<1>4. \A n \in 0..(Len(tt) - 1) : n \in T => n + 1 \in T
  <2> SUFFICES ASSUME NEW n \in 0..(Len(tt) - 1), n \in T PROVE n + 1 \in T
    OBVIOUS
  <2> DEFINE a == p(n)
             b == tt[n + 1]
  <2>1. n + 1 \in Nat /\ a \in Seq(V) /\ b \in V /\ p(n + 1) = Append(a, b)
    BY <1>1, SMTT(30)
  <2>2. FlattenSeq(ss \o a) = FlattenSeq(ss) \o FlattenSeq(a)
    OBVIOUS
  <2> HIDE DEF a, b, T
  <2>3. ss \o Append(a, b) = Append(ss \o a, b) /\ ss \o a \in Seq(V)
    BY <1>0, <2>1, SMTT(30)
  <2>4. FlattenSeq(Append(ss \o a, b)) = FlattenSeq(ss \o a) \o b
    BY <2>1, <2>3, FlattenAppend DEF V
  <2>5. FlattenSeq(Append(a, b)) = FlattenSeq(a) \o b /\ FlattenSeq(a) \in Seq(S) /\ b \in Seq(S)
    BY <2>1, FlattenAppend, FlattenType DEF V
  <2>6. (FlattenSeq(ss) \o FlattenSeq(a)) \o b = FlattenSeq(ss) \o (FlattenSeq(a) \o b)
    <3> DEFINE x == FlattenSeq(ss)
               y == FlattenSeq(a)
    <3>1. x \in Seq(S) /\ y \in Seq(S) /\ b \in Seq(S)
      BY <1>2, <2>5
    <3> HIDE DEF x, y
    <3>2. (x \o y) \o b = x \o (y \o b)
      BY <3>1, Assoc, SMTT(30)
    <3> QED
      BY <3>2 DEF x, y
  <2>7. FlattenSeq(ss \o p(n + 1)) = FlattenSeq(ss) \o FlattenSeq(p(n + 1))
    BY <2>1, <2>2, <2>3, <2>4, <2>5, <2>6
  <2> QED
    BY <2>1, <2>7 DEF T
<1>5. \A n \in 0..Len(tt) : n \in T
  <2> HIDE DEF T
  <2> QED
    BY <1>1, <1>3, <1>4, BoundedInduction
<1>6. Len(tt) \in T
  <2>1. Len(tt) \in 0..Len(tt)
    BY <1>1
  <2> HIDE DEF T
  <2> QED
    BY <1>5, <2>1
<1> QED
  BY <1>1, <1>6

LEMMA FlattenHead ==
  ASSUME NEW S, NEW ss \in Seq(Seq(S)), ss # << >>
  PROVE  /\ Head(ss) \in Seq(S) /\ Tail(ss) \in Seq(Seq(S))
         /\ FlattenSeq(ss) = Head(ss) \o FlattenSeq(Tail(ss))
<1> DEFINE V == Seq(S)
<1>0. ss \in Seq(V)
  OBVIOUS
<1> HIDE DEF V
<1>1. Head(ss) \in V /\ Tail(ss) \in Seq(V) /\ ss = <<Head(ss)>> \o Tail(ss)
  BY <1>0, HeadFacts
<1> DEFINE h == Head(ss)
           t == Tail(ss)
<1>2. h \in V /\ t \in Seq(V) /\ ss = <<h>> \o t
  BY <1>1
<1> HIDE DEF h, t
<1>3. <<h>> \in Seq(V)
  BY <1>2
<1>4. FlattenSeq(<<h>> \o t) = FlattenSeq(<<h>>) \o FlattenSeq(t)
  BY <1>2, <1>3, FlattenConcat DEF V
<1>5. FlattenSeq(<<h>>) = h
  BY <1>2, FlattenOne DEF V
<1> QED
  BY <1>1, <1>2, <1>4, <1>5 DEF h, t, V

LEMMA FlattenAllEmpty ==
  ASSUME NEW S, NEW ss \in Seq(Seq(S)), \A n \in 1..Len(ss) : ss[n] = << >>
  PROVE  FlattenSeq(ss) = << >>
<1>1. PICK f : IsFlat(f, ss, S)
  BY FlatExists
<1>2. Len(ss) \in Nat /\ f[0] = << >> /\ \A n \in 1..Len(ss) : f[n] = f[n - 1] \o ss[n]
  <2>1. Len(ss) \in Nat
    OBVIOUS
  <2> QED
    BY <1>1, <2>1 DEF IsFlat
<1> DEFINE T == {n \in Nat : f[n] = << >>}
<1>3. 0 \in T
  BY <1>2
<1>4. \A n \in 0..(Len(ss) - 1) : n \in T => n + 1 \in T
  <2> SUFFICES ASSUME NEW n \in 0..(Len(ss) - 1), f[n] = << >> PROVE n + 1 \in T
    OBVIOUS
  <2>1. n + 1 \in 1..Len(ss) /\ (n + 1) - 1 = n /\ n + 1 \in Nat
    BY <1>2
  <2>2. f[n + 1] = f[n] \o ss[n + 1] /\ ss[n + 1] = << >>
    BY <1>2, <2>1
  <2>3. << >> \o << >> = << >>
    OBVIOUS
  <2> QED
    BY <2>1, <2>2, <2>3
<1>5. \A n \in 0..Len(ss) : n \in T
  <2> HIDE DEF T
  <2> QED
    BY <1>2, <1>3, <1>4, BoundedInduction
<1> QED
  BY <1>1, <1>2, <1>5, FlattenIs

LEMMA Slide ==
  ASSUME NEW S, NEW a \in Seq(S), NEW e \in Seq(S), NEW t \in Seq(S), NEW c \in Seq(S)
  PROVE  Len(e) = 0 \/ Len(a) = 0 => (a \o (e \o t)) \o c = e \o ((a \o t) \o c)
<1>0. a \o t \in Seq(S) /\ e \o t \in Seq(S)
  OBVIOUS
<1>1. ASSUME Len(e) = 0 PROVE (a \o (e \o t)) \o c = e \o ((a \o t) \o c)
  <2>1. e \o t = t
    BY <1>1
  <2>2. e \o ((a \o t) \o c) = (a \o t) \o c
    BY <1>0, <1>1
  <2> QED
    BY <2>1, <2>2
<1>2. ASSUME Len(a) = 0 PROVE (a \o (e \o t)) \o c = e \o ((a \o t) \o c)
  <2>1. a \o t = t /\ a \o (e \o t) = e \o t
    BY <1>0, <1>2
  <2>2. (e \o t) \o c = e \o (t \o c)
    OBVIOUS
  <2> QED
    BY <2>1, <2>2
<1> QED
  BY <1>1, <1>2

\* ss begins with e where tt does not, after sequences that are empty.
TakenFrom(ss, tt, e, i) ==
  /\ Len(tt) = Len(ss) /\ i \in 1..Len(ss) /\ ss[i] = e \o tt[i]
  /\ \A j \in 1..Len(ss) : j # i => tt[j] = ss[j]
  /\ e = << >> \/ \A j \in 1..(i - 1) : ss[j] = << >>

LEMMA FlattenTake ==
  ASSUME NEW S, NEW ss \in Seq(Seq(S)), NEW tt \in Seq(Seq(S)), NEW e \in Seq(S), NEW i,
         TakenFrom(ss, tt, e, i)
  PROVE  FlattenSeq(ss) = e \o FlattenSeq(tt)
<1> DEFINE V == Seq(S)
           a == SubSeq(ss, 1, i - 1)
           c == SubSeq(ss, i + 1, Len(ss))
           t == tt[i]
           u == ss[i]
           A == FlattenSeq(a)
           C == FlattenSeq(c)
<1>0. /\ ss \in Seq(V) /\ tt \in Seq(V)
      /\ Len(tt) = Len(ss) /\ i \in 1..Len(ss) /\ ss[i] = e \o tt[i]
      /\ \A j \in 1..Len(ss) : j # i => tt[j] = ss[j]
  BY DEF TakenFrom
<1> HIDE DEF V
<1>1. /\ a \in Seq(V) /\ c \in Seq(V) /\ u \in V /\ ss = (a \o <<u>>) \o c
      /\ Len(a) = i - 1 /\ \A j \in 1..(i - 1) : a[j] = ss[j]
  <2> USE DEF a, c, u
  <2>1. i \in 1..Len(ss)
    BY <1>0
  <2>2. /\ SubSeq(ss, 1, i - 1) \in Seq(V) /\ SubSeq(ss, i + 1, Len(ss)) \in Seq(V) /\ ss[i] \in V
        /\ ss = (SubSeq(ss, 1, i - 1) \o <<ss[i]>>) \o SubSeq(ss, i + 1, Len(ss))
        /\ Len(SubSeq(ss, 1, i - 1)) = i - 1
    BY <1>0, <2>1, SequenceParts
  <2>3. \A j \in 1..(i - 1) : SubSeq(ss, 1, i - 1)[j] = ss[j]
    BY <1>0, <2>1, SequenceParts
  <2> QED
    BY <2>2, <2>3
<1>2. t \in V /\ tt = (a \o <<t>>) \o c
  <2>1. i \in 1..Len(tt)
    BY <1>0
  <2>2. tt[i] \in V /\ tt = (SubSeq(tt, 1, i - 1) \o <<tt[i]>>) \o SubSeq(tt, i + 1, Len(tt))
    BY <1>0, <2>1, SequenceParts
  <2>3. SubSeq(tt, 1, i - 1) = a /\ SubSeq(tt, i + 1, Len(tt)) = c
    BY <1>0, SameParts
  <2> QED
    BY <2>2, <2>3
<1> HIDE DEF a, c, t
<1>3. e = << >> \/ A = << >>
  <2> SUFFICES ASSUME \A j \in 1..(i - 1) : ss[j] = << >> PROVE FlattenSeq(a) = << >>
    BY DEF TakenFrom, A
  <2>1. \A n \in 1..Len(a) : a[n] = << >>
    BY <1>1
  <2> QED
    BY <1>1, <2>1, FlattenAllEmpty DEF V
<1>4. u = e \o t
  BY <1>0 DEF t
<1> HIDE DEF u
<1>5. <<u>> \in Seq(V) /\ <<t>> \in Seq(V) /\ a \o <<u>> \in Seq(V) /\ a \o <<t>> \in Seq(V)
  BY <1>1, <1>2, ConcatFacts
<1>6. A \in Seq(S) /\ C \in Seq(S) /\ t \in Seq(S)
  BY <1>1, <1>2, FlattenType DEF V
<1>7. FlattenSeq(<<u>>) = u /\ FlattenSeq(<<t>>) = t
  BY <1>1, <1>2, FlattenOne DEF V
<1>8. FlattenSeq(ss) = (A \o u) \o C
  <2>1. FlattenSeq(a \o <<u>>) = A \o u
    BY <1>1, <1>5, <1>7, FlattenConcat DEF V
  <2> QED
    BY <1>1, <1>5, <2>1, FlattenConcat DEF V
<1>9. FlattenSeq(tt) = (A \o t) \o C
  <2>1. FlattenSeq(a \o <<t>>) = A \o t
    BY <1>1, <1>5, <1>7, FlattenConcat DEF V
  <2> QED
    BY <1>1, <1>2, <1>5, <2>1, FlattenConcat DEF V
<1> HIDE DEF A, C
<1>10. (A \o (e \o t)) \o C = e \o ((A \o t) \o C)
  <2>1. Len(e) = 0 \/ Len(A) = 0
    BY <1>3
  <2>2. CASE Len(e) = 0
    BY <1>6, <2>2, Slide, SMTT(30)
  <2>3. CASE Len(A) = 0
    BY <1>6, <2>3, Slide, SMTT(30)
  <2> QED
    BY <2>1, <2>2, <2>3
<1> QED
  BY <1>4, <1>8, <1>9, <1>10

\* Every sequence is reached from the empty one by appending.
LEMMA AppendInduction ==
  ASSUME NEW D, NEW T, << >> \in T, \A s \in Seq(D), x \in D : s \in T => Append(s, x) \in T
  PROVE  \A s \in Seq(D) : s \in T
<1> DEFINE L == {n \in Nat : \A s \in Seq(D) : Len(s) = n => s \in T}
<1>1. 0 \in L
  <2>1. \A s \in Seq(D) : Len(s) = 0 => s = << >>
    OBVIOUS
  <2> QED
    BY <2>1
<1>2. \A n \in Nat : n \in L => n + 1 \in L
  <2> SUFFICES ASSUME NEW n \in Nat, n \in L, NEW s \in Seq(D), Len(s) = n + 1 PROVE s \in T
    OBVIOUS
  <2> DEFINE p == SubSeq(s, 1, n)
             x == s[n + 1]
  <2>1. p \in Seq(D) /\ Len(p) = n /\ x \in D /\ s = Append(p, x)
    OBVIOUS
  <2>2. p \in T
    BY <2>1
  <2> HIDE DEF p, x, L
  <2> QED
    BY <2>1, <2>2
<1>3. \A n \in Nat : n \in L
  <2> HIDE DEF L
  <2> QED
    BY <1>1, <1>2, SetInduction
<1> QED
  <2> TAKE s \in Seq(D)
  <2>1. Len(s) \in Nat
    OBVIOUS
  <2> QED
    BY <1>3, <2>1

\* Every sequence is reached from the empty one by putting elements in front.
LEMMA FrontInduction ==
  ASSUME NEW D, NEW T, << >> \in T, \A s \in Seq(D), x \in D : s \in T => <<x>> \o s \in T
  PROVE  \A s \in Seq(D) : s \in T
<1> DEFINE L == {n \in Nat : \A s \in Seq(D) : Len(s) = n => s \in T}
<1>1. 0 \in L
  <2>1. \A s \in Seq(D) : Len(s) = 0 => s = << >>
    OBVIOUS
  <2> QED
    BY <2>1
<1>2. \A n \in Nat : n \in L => n + 1 \in L
  <2> SUFFICES ASSUME NEW n \in Nat, n \in L, NEW s \in Seq(D), Len(s) = n + 1 PROVE s \in T
    OBVIOUS
  <2> DEFINE p == Tail(s)
             x == Head(s)
  <2>1. p \in Seq(D) /\ Len(p) = n /\ x \in D /\ s = <<x>> \o p
    OBVIOUS
  <2>2. p \in T
    BY <2>1
  <2> HIDE DEF p, x, L
  <2> QED
    BY <2>1, <2>2
<1>3. \A n \in Nat : n \in L
  <2> HIDE DEF L
  <2> QED
    BY <1>1, <1>2, SetInduction
<1> QED
  <2> TAKE s \in Seq(D)
  <2>1. Len(s) \in Nat
    OBVIOUS
  <2> QED
    BY <1>3, <2>1

----------------------------------------------------------------------------
\* A sequence per element, and all of them in a row

FlatOf(s, g) == FlattenSeq([i \in DOMAIN s |-> g[s[i]]])

\* What g gives for each element
Given(s, g) == [i \in DOMAIN s |-> g[s[i]]]

\* g gives a sequence over S for each element of D.
Gives(g, D, S) == g \in [D -> Seq(S)]

LEMMA GivenType ==
  ASSUME NEW D, NEW V, NEW g \in [D -> V], NEW s \in Seq(D)
  PROVE  Given(s, g) \in Seq(V)
  BY DEF Given

LEMMA GivenAppend ==
  ASSUME NEW D, NEW s \in Seq(D), NEW x \in D, NEW g
  PROVE  Given(Append(s, x), g) = Append(Given(s, g), g[x])
  BY DEF Given

LEMMA GivesSome ==
  ASSUME NEW D, NEW S, NEW g, Gives(g, D, S), NEW x \in D
  PROVE  g[x] \in Seq(S)
  BY DEF Gives

LEMMA FlatOfEmpty == \A g : FlatOf(<< >>, g) = << >>
<1> TAKE g
<1>1. [i \in DOMAIN << >> |-> g[<< >>[i]]] = << >>
  OBVIOUS
<1> QED
  BY <1>1, FlattenEmpty DEF FlatOf

LEMMA FlatOfType ==
  ASSUME NEW D, NEW S, NEW g, Gives(g, D, S), NEW s \in Seq(D)
  PROVE  FlatOf(s, g) \in Seq(S)
<1> DEFINE V == Seq(S)
<1>0. g \in [D -> V]
  BY DEF Gives
<1> HIDE DEF V
<1>1. Given(s, g) \in Seq(V)
  BY <1>0, GivenType
<1> QED
  BY <1>1, FlattenType DEF V, FlatOf, Given

LEMMA FlatOfAppend ==
  ASSUME NEW D, NEW S, NEW g, Gives(g, D, S), NEW s \in Seq(D), NEW x \in D
  PROVE  FlatOf(Append(s, x), g) = FlatOf(s, g) \o g[x]
<1> DEFINE V == Seq(S)
<1>0. g \in [D -> V]
  BY DEF Gives
<1> HIDE DEF V
<1>1. Given(s, g) \in Seq(V)
  BY <1>0, GivenType
<1>2. Given(Append(s, x), g) = Append(Given(s, g), g[x])
  BY GivenAppend
<1>5. g[x] \in V
  BY <1>0
<1>3. FlattenSeq(Append(Given(s, g), g[x])) = FlattenSeq(Given(s, g)) \o g[x]
  BY <1>1, <1>5, FlattenAppend DEF V
<1>4. FlatOf(s, g) = FlattenSeq(Given(s, g)) /\ FlatOf(Append(s, x), g) = FlattenSeq(Given(Append(s, x), g))
  BY DEF FlatOf, Given
<1> QED
  BY <1>2, <1>3, <1>4 DEF V

LEMMA FlatOfOne ==
  ASSUME NEW D, NEW S, NEW g, Gives(g, D, S), NEW x \in D
  PROVE  FlatOf(<<x>>, g) = g[x]
<1>1. << >> \in Seq(D) /\ Append(<< >>, x) = <<x>>
  OBVIOUS
<1>2. FlatOf(Append(<< >>, x), g) = FlatOf(<< >>, g) \o g[x]
  BY <1>1, FlatOfAppend
<1> DEFINE y == g[x]
<1>3. y \in Seq(S)
  BY GivesSome
<1> HIDE DEF y
<1>4. << >> \o y = y
  BY <1>3
<1> QED
  BY <1>1, <1>2, <1>4, FlatOfEmpty DEF y

LEMMA FlatOfConcat ==
  ASSUME NEW D, NEW S, NEW g, Gives(g, D, S), NEW s \in Seq(D), NEW t \in Seq(D)
  PROVE  FlatOf(s \o t, g) = FlatOf(s, g) \o FlatOf(t, g)
<1> DEFINE T == {u \in Seq(D) : FlatOf(s \o u, g) = FlatOf(s, g) \o FlatOf(u, g)}
<1>1. << >> \in T
  <2>1. << >> \in Seq(D) /\ s \o << >> = s
    OBVIOUS
  <2>2. FlatOf(s, g) \in Seq(S)
    BY FlatOfType
  <2>3. FlatOf(s, g) \o << >> = FlatOf(s, g)
    BY <2>2
  <2> QED
    BY <2>1, <2>3, FlatOfEmpty
<1>2. ASSUME NEW u \in Seq(D), NEW x \in D, u \in T PROVE Append(u, x) \in T
  <2> DEFINE y == g[x]
             a == FlatOf(s, g)
             b == FlatOf(u, g)
  <2>1. y \in Seq(S) /\ a \in Seq(S) /\ b \in Seq(S)
    BY FlatOfType, GivesSome
  <2>2. Append(u, x) \in Seq(D) /\ s \o u \in Seq(D) /\ s \o Append(u, x) = Append(s \o u, x)
    OBVIOUS
  <2>3. FlatOf(Append(s \o u, x), g) = FlatOf(s \o u, g) \o y
    <3> DEFINE w == s \o u
    <3>1. w \in Seq(D)
      OBVIOUS
    <3> HIDE DEF w
    <3>2. FlatOf(Append(w, x), g) = FlatOf(w, g) \o g[x]
      BY <3>1, FlatOfAppend
    <3> QED
      BY <3>2 DEF w
  <2>4. FlatOf(Append(u, x), g) = b \o y
    BY FlatOfAppend
  <2>5. FlatOf(s \o u, g) = a \o b
    BY <1>2
  <2> HIDE DEF y, a, b, T
  <2>6. (a \o b) \o y = a \o (b \o y)
    BY <2>1, Assoc, SMTT(30)
  <2>7. FlatOf(s \o Append(u, x), g) = FlatOf(s, g) \o FlatOf(Append(u, x), g)
    BY <2>2, <2>3, <2>4, <2>5, <2>6 DEF a
  <2> QED
    BY <2>2, <2>7 DEF T
<1>3. \A u \in Seq(D) : u \in T
  <2> HIDE DEF T
  <2> QED
    BY <1>1, <1>2, AppendInduction
<1> QED
  BY <1>3

\* All sequences of ss, each with its elements replaced
LEMMA FlatOfFlatten ==
  ASSUME NEW D, NEW S, NEW g, Gives(g, D, S), NEW ss \in Seq(Seq(D))
  PROVE  FlatOf(FlattenSeq(ss), g) = FlattenSeq([i \in DOMAIN ss |-> FlatOf(ss[i], g)])
<1> DEFINE W == Seq(D)
           h == [w \in W |-> FlatOf(w, g)]
           T == {u \in Seq(W) : FlatOf(FlattenSeq(u), g) = FlatOf(u, h)}
<1>0. ss \in Seq(W) /\ << >> \in Seq(W)
  OBVIOUS
<1>1. \A w \in W : h[w] = FlatOf(w, g)
  OBVIOUS
<1>2. Gives(h, W, S)
  BY FlatOfType DEF Gives
<1>3. << >> \in T
  BY <1>0, FlattenEmpty, FlatOfEmpty
<1>4. ASSUME NEW u \in Seq(W), NEW x \in W, u \in T PROVE Append(u, x) \in T
  <2>1. FlattenSeq(Append(u, x)) = FlattenSeq(u) \o x /\ FlattenSeq(u) \in Seq(D) /\ x \in Seq(D)
    BY FlattenAppend, FlattenType
  <2>2. FlatOf(FlattenSeq(u) \o x, g) = FlatOf(FlattenSeq(u), g) \o FlatOf(x, g)
    BY <2>1, FlatOfConcat
  <2>3. FlatOf(FlattenSeq(u), g) = FlatOf(u, h)
    BY <1>4
  <2> HIDE DEF W, h, T
  <2>4. FlatOf(Append(u, x), h) = FlatOf(u, h) \o h[x]
    BY <1>2, FlatOfAppend
  <2>5. Append(u, x) \in Seq(W)
    OBVIOUS
  <2>6. FlatOf(FlattenSeq(Append(u, x)), g) = FlatOf(Append(u, x), h)
    BY <1>1, <2>1, <2>2, <2>3, <2>4
  <2> QED
    BY <2>5, <2>6 DEF T
<1>5. \A u \in Seq(W) : u \in T
  <2> HIDE DEF T, W
  <2> QED
    BY <1>3, <1>4, AppendInduction
<1>6. \A i \in DOMAIN ss : ss[i] \in W
  <2> HIDE DEF W
  <2> QED
    BY <1>0
<1>7. [i \in DOMAIN ss |-> h[ss[i]]] = [i \in DOMAIN ss |-> FlatOf(ss[i], g)]
  <2> HIDE DEF h, W
  <2> QED
    BY <1>1, <1>6
<1>8. FlatOf(FlattenSeq(ss), g) = FlatOf(ss, h)
  BY <1>0, <1>5
<1>9. FlatOf(ss, h) = FlattenSeq([i \in DOMAIN ss |-> h[ss[i]]])
  BY DEF FlatOf
<1> QED
  BY <1>7, <1>8, <1>9

----------------------------------------------------------------------------
\* The largest of some numbers up to a bound

LEMMA LargestExists ==
  ASSUME NEW m \in Nat, NEW P, P \subseteq 0..m, P # {}
  PROVE  \E n \in P : \A x \in P : x <= n
<1> DEFINE T == {n \in Nat : (\E x \in P : x <= n) => \E y \in P : y <= n /\ \A x \in P : x <= n => x <= y}
<1>0. \A x \in P : x \in Nat
  OBVIOUS
<1>1. 0 \in T
  <2> SUFFICES ASSUME NEW x \in P, x <= 0
               PROVE  \E y \in P : y <= 0 /\ \A z \in P : z <= 0 => z <= y
    OBVIOUS
  <2>1. x = 0
    BY <1>0
  <2> QED
    BY <1>0, <2>1
<1>2. \A n \in 0..(m - 1) : n \in T => n + 1 \in T
  <2> SUFFICES ASSUME NEW n \in 0..(m - 1), n \in T, NEW x \in P, x <= n + 1
               PROVE  \E y \in P : y <= n + 1 /\ \A z \in P : z <= n + 1 => z <= y
    OBVIOUS
  <2>1. CASE n + 1 \in P
    BY <1>0, <2>1
  <2>2. CASE n + 1 \notin P
    <3>1. \A z \in P : z <= n + 1 => z <= n
      BY <1>0, <2>2
    <3>2. PICK y \in P : y <= n /\ \A z \in P : z <= n => z <= y
      BY <3>1
    <3> QED
      BY <1>0, <3>1, <3>2
  <2> QED
    BY <2>1, <2>2
<1>3. \A n \in 0..m : n \in T
  <2> HIDE DEF T
  <2> QED
    BY <1>1, <1>2, BoundedInduction
<1>4. m \in T /\ \A x \in P : x <= m
  BY <1>3
<1> QED
  BY <1>4

----------------------------------------------------------------------------
\* What occurs in a sequence

LEMMA ToSetType ==
  ASSUME NEW S, NEW s \in Seq(S)
  PROVE  ToSet(s) \subseteq S
  BY DEF ToSet

LEMMA ToSetNone ==
  ASSUME NEW S, NEW s \in Seq(S)
  PROVE  ToSet(s) = {} <=> s = << >>
<1>1. s # << >> => 1 \in DOMAIN s
  OBVIOUS
<1>2. DOMAIN << >> = {}
  OBVIOUS
<1> QED
  BY <1>1, <1>2 DEF ToSet

LEMMA ToSetConcat ==
  ASSUME NEW S, NEW s \in Seq(S), NEW t \in Seq(S)
  PROVE  ToSet(s \o t) = ToSet(s) \cup ToSet(t)
<1>2. ToSet(s \o t) \subseteq ToSet(s) \cup ToSet(t)
  BY DEF ToSet
<1>3. ToSet(s) \subseteq ToSet(s \o t)
  <2> SUFFICES ASSUME NEW i \in DOMAIN s PROVE \E j \in DOMAIN (s \o t) : (s \o t)[j] = s[i]
    BY DEF ToSet
  <2>1. i \in DOMAIN (s \o t) /\ (s \o t)[i] = s[i]
    OBVIOUS
  <2> QED
    BY <2>1
<1>4. ToSet(t) \subseteq ToSet(s \o t)
  <2> SUFFICES ASSUME NEW i \in DOMAIN t PROVE \E j \in DOMAIN (s \o t) : (s \o t)[j] = t[i]
    BY DEF ToSet
  <2>1. Len(s) + i \in DOMAIN (s \o t) /\ (s \o t)[Len(s) + i] = t[i]
    OBVIOUS
  <2> QED
    BY <2>1
<1> QED
  BY <1>2, <1>3, <1>4

LEMMA ToSetEmpty == ToSet(<< >>) = {}
  BY DEF ToSet

LEMMA ToSetOne ==
  ASSUME NEW x
  PROVE  ToSet(<<x>>) = {x}
  BY DEF ToSet

LEMMA ToSetFront ==
  ASSUME NEW S, NEW x \in S, NEW s \in Seq(S)
  PROVE  ToSet(<<x>> \o s) = {x} \cup ToSet(s)
<1>1. <<x>> \in Seq(S)
  OBVIOUS
<1>2. ToSet(<<x>> \o s) = ToSet(<<x>>) \cup ToSet(s)
  BY <1>1, ToSetConcat, ZenonT(60)
<1> QED
  BY <1>2, ToSetOne

LEMMA ToSetMember ==
  ASSUME NEW s, NEW i \in DOMAIN s
  PROVE  s[i] \in ToSet(s)
  BY DEF ToSet

----------------------------------------------------------------------------
\* The rows of a table that are in a set

KeepMap(T) == [r \in Row |-> IF r \in T THEN <<r>> ELSE << >>]

Keep(rows, T) == FlatOf(rows, KeepMap(T))

LEMMA KeepMapGives == \A T : Gives(KeepMap(T), Row, Row)
  BY DEF Gives, KeepMap

LEMMA KeepEmpty == \A T : Keep(<< >>, T) = << >>
  BY FlatOfEmpty DEF Keep

LEMMA KeepType ==
  ASSUME NEW rows \in Seq(Row), NEW T
  PROVE  Keep(rows, T) \in Seq(Row)
  BY FlatOfType, KeepMapGives DEF Keep

LEMMA KeepConcat ==
  ASSUME NEW a \in Seq(Row), NEW b \in Seq(Row), NEW T
  PROVE  Keep(a \o b, T) = Keep(a, T) \o Keep(b, T)
  BY FlatOfConcat, KeepMapGives DEF Keep

LEMMA KeepOne ==
  ASSUME NEW r \in Row, NEW T
  PROVE  Keep(<<r>>, T) = IF r \in T THEN <<r>> ELSE << >>
<1>1. Keep(<<r>>, T) = KeepMap(T)[r]
  BY FlatOfOne, KeepMapGives DEF Keep
<1> QED
  BY <1>1 DEF KeepMap

LEMMA KeepFlatten ==
  ASSUME NEW ss \in Seq(Seq(Row)), NEW T
  PROVE  Keep(FlattenSeq(ss), T) = FlattenSeq([i \in DOMAIN ss |-> Keep(ss[i], T)])
  BY FlatOfFlatten, KeepMapGives DEF Keep

LEMMA KeepFront ==
  ASSUME NEW r \in Row, NEW s \in Seq(Row), NEW T
  PROVE  Keep(<<r>> \o s, T) = IF r \in T THEN <<r>> \o Keep(s, T) ELSE Keep(s, T)
<1> DEFINE k == Keep(s, T)
<1>1. k \in Seq(Row) /\ <<r>> \in Seq(Row)
  BY KeepType
<1>2. Keep(<<r>> \o s, T) = Keep(<<r>>, T) \o k
  BY <1>1, KeepConcat, ZenonT(60)
<1>3. Keep(<<r>>, T) = IF r \in T THEN <<r>> ELSE << >>
  BY KeepOne
<1> HIDE DEF k
<1>4. << >> \o k = k
  BY <1>1
<1> QED
  BY <1>2, <1>3, <1>4 DEF k

LEMMA KeepSet ==
  ASSUME NEW T
  PROVE  \A s \in Seq(Row) : ToSet(Keep(s, T)) = ToSet(s) \cap T
<1> DEFINE U == {s \in Seq(Row) : ToSet(Keep(s, T)) = ToSet(s) \cap T}
<1>1. << >> \in U
  BY KeepEmpty, ToSetEmpty
<1>2. ASSUME NEW s \in Seq(Row), NEW r \in Row, s \in U PROVE <<r>> \o s \in U
  <2>1. <<r>> \in Seq(Row) /\ <<r>> \o s \in Seq(Row) /\ Keep(s, T) \in Seq(Row)
    BY KeepType
  <2>2. ToSet(<<r>> \o s) = {r} \cup ToSet(s)
    BY ToSetFront
  <2>5. ToSet(<<r>> \o Keep(s, T)) = {r} \cup ToSet(Keep(s, T))
    BY <2>1, ToSetFront
  <2>3. ToSet(Keep(s, T)) = ToSet(s) \cap T
    BY <1>2
  <2>4. ToSet(Keep(<<r>> \o s, T)) = ({r} \cup ToSet(s)) \cap T
    <3>1. Keep(<<r>> \o s, T) = IF r \in T THEN <<r>> \o Keep(s, T) ELSE Keep(s, T)
      BY KeepFront
    <3>2. CASE r \in T
      BY <2>3, <2>5, <3>1, <3>2
    <3>3. CASE r \notin T
      BY <2>3, <3>1, <3>3
    <3> QED
      BY <3>2, <3>3
  <2> QED
    BY <2>1, <2>2, <2>4
<1>3. \A s \in Seq(Row) : s \in U
  <2> HIDE DEF U
  <2> QED
    BY <1>1, <1>2, FrontInduction
<1> QED
  BY <1>3

\* The rows with a key
WithKey(k) == {r \in Row : r.k = k}

KeyRows(rows, k) == Keep(rows, WithKey(k))

LEMMA KeyRowsNone ==
  ASSUME NEW s \in Seq(Row), NEW k
  PROVE  KeyRows(s, k) = << >> <=> \A r \in ToSet(s) : r.k # k
<1>1. ToSet(Keep(s, WithKey(k))) = ToSet(s) \cap WithKey(k)
  BY KeepSet
<1>2. Keep(s, WithKey(k)) \in Seq(Row)
  BY KeepType
<1>3. ToSet(Keep(s, WithKey(k))) = {} <=> Keep(s, WithKey(k)) = << >>
  BY <1>2, ToSetNone
<1>4. ToSet(s) \subseteq Row
  BY ToSetType
<1> QED
  BY <1>1, <1>3, <1>4 DEF KeyRows, WithKey

----------------------------------------------------------------------------
\* Before is an order of the keys.

Order == [less : BOOLEAN, nulls_first : BOOLEAN]

LEMMA BeforeOrder ==
  ASSUME NEW by \in Order, NEW r \in Row, NEW s \in Row, NEW t \in Row
  PROVE  /\ ~Before(r, r, by)
         /\ Before(r, s, by) => ~Before(s, r, by) /\ r.k # s.k
         /\ r.k # s.k => Before(r, s, by) \/ Before(s, r, by)
         /\ ~Before(s, r, by) /\ ~Before(t, s, by) => ~Before(t, r, by)
         /\ Before(r, s, by) /\ ~Before(t, s, by) => Before(r, t, by)
         /\ ~Before(s, r, by) /\ Before(s, t, by) => Before(r, t, by)
<1>0. r.k \in Nat /\ s.k \in Nat /\ t.k \in Nat /\ by.less \in BOOLEAN /\ by.nulls_first \in BOOLEAN
  BY DEF Row, Order
<1>1. CASE by.less = TRUE /\ by.nulls_first = TRUE
  BY <1>0, <1>1 DEF Before, Null
<1>2. CASE by.less = TRUE /\ by.nulls_first = FALSE
  BY <1>0, <1>2 DEF Before, Null
<1>3. CASE by.less = FALSE /\ by.nulls_first = TRUE
  BY <1>0, <1>3 DEF Before, Null
<1>4. CASE by.less = FALSE /\ by.nulls_first = FALSE
  BY <1>0, <1>4 DEF Before, Null
<1> QED
  BY <1>0, <1>1, <1>2, <1>3, <1>4

\* No row of s is before r.
NoneBefore(s, r, by) == \A x \in ToSet(s) : ~Before(x, r, by)

LEMMA SortedFront ==
  ASSUME NEW by, NEW r \in Row, NEW s \in Seq(Row), Sorted(s, by), NoneBefore(s, r, by)
  PROVE  Sorted(<<r>> \o s, by)
<1> DEFINE w == <<r>> \o s
<1>1. /\ Len(s) \in Nat /\ DOMAIN w = 1..(Len(s) + 1) /\ w[1] = r /\ DOMAIN s = 1..Len(s)
      /\ \A i \in 1..Len(s) : w[i + 1] = s[i]
  OBVIOUS
<1> HIDE DEF w
<1> SUFFICES ASSUME NEW i \in DOMAIN w, NEW j \in DOMAIN w, i < j PROVE ~Before(w[j], w[i], by)
  BY DEF Sorted, w
<1>2. j - 1 \in 1..Len(s) /\ w[j] = s[j - 1]
  <2>1. j - 1 \in 1..Len(s) /\ (j - 1) + 1 = j
    BY <1>1
  <2> QED
    BY <1>1, <2>1
<1>3. CASE i = 1
  <2>1. s[j - 1] \in ToSet(s)
    BY <1>1, <1>2, ToSetMember
  <2> QED
    BY <1>1, <1>2, <1>3, <2>1 DEF NoneBefore
<1>4. CASE i # 1
  <2>1. i - 1 \in 1..Len(s) /\ (i - 1) + 1 = i /\ i - 1 < j - 1
    BY <1>1, <1>4
  <2>2. w[i] = s[i - 1]
    BY <1>1, <2>1
  <2> QED
    BY <1>1, <1>2, <2>1, <2>2 DEF Sorted
<1> QED
  BY <1>3, <1>4

LEMMA SortedTail ==
  ASSUME NEW by, NEW r \in Row, NEW s \in Seq(Row), Sorted(<<r>> \o s, by)
  PROVE  Sorted(s, by) /\ NoneBefore(s, r, by)
<1> DEFINE w == <<r>> \o s
<1>1. /\ Len(s) \in Nat /\ DOMAIN w = 1..(Len(s) + 1) /\ w[1] = r /\ DOMAIN s = 1..Len(s)
      /\ \A i \in 1..Len(s) : w[i + 1] = s[i]
  OBVIOUS
<1>2. Sorted(w, by)
  OBVIOUS
<1> HIDE DEF w
<1>3. Sorted(s, by)
  <2> SUFFICES ASSUME NEW i \in DOMAIN s, NEW j \in DOMAIN s, i < j PROVE ~Before(s[j], s[i], by)
    BY DEF Sorted
  <2>1. i + 1 \in DOMAIN w /\ j + 1 \in DOMAIN w /\ i + 1 < j + 1
    BY <1>1
  <2>2. ~Before(w[j + 1], w[i + 1], by)
    BY <1>2, <2>1 DEF Sorted
  <2> QED
    BY <1>1, <2>2
<1>4. ASSUME NEW x \in ToSet(s) PROVE ~Before(x, r, by)
  <2>1. PICK j \in DOMAIN s : x = s[j]
    BY DEF ToSet
  <2>2. 1 \in DOMAIN w /\ j + 1 \in DOMAIN w /\ 1 < j + 1
    BY <1>1
  <2>3. ~Before(w[j + 1], w[1], by)
    BY <1>2, <2>2 DEF Sorted
  <2> QED
    BY <1>1, <2>1, <2>3
<1> QED
  BY <1>3, <1>4 DEF NoneBefore

LEMMA SortedEmpty == \A by : Sorted(<< >>, by)
  BY DEF Sorted

LEMMA NoneBeforeConcat ==
  ASSUME NEW by, NEW r, NEW s \in Seq(Row), NEW t \in Seq(Row)
  PROVE  NoneBefore(s \o t, r, by) <=> NoneBefore(s, r, by) /\ NoneBefore(t, r, by)
<1>1. ToSet(s \o t) = ToSet(s) \cup ToSet(t)
  BY ToSetConcat
<1> QED
  BY <1>1 DEF NoneBefore

\* The same rows, those with the same key in the same order.
SameRows(x, y) == \A k \in Nat : KeyRows(x, k) = KeyRows(y, k)

LEMMA KeyRowsType ==
  ASSUME NEW s \in Seq(Row), NEW k
  PROVE  KeyRows(s, k) \in Seq(Row)
  BY KeepType DEF KeyRows

LEMMA KeyRowsFront ==
  ASSUME NEW r \in Row, NEW s \in Seq(Row), NEW k
  PROVE  KeyRows(<<r>> \o s, k) = IF r.k = k THEN <<r>> \o KeyRows(s, k) ELSE KeyRows(s, k)
<1>1. r \in WithKey(k) <=> r.k = k
  BY DEF WithKey
<1> QED
  BY <1>1, KeepFront DEF KeyRows

LEMMA KeyRowsConcat ==
  ASSUME NEW s \in Seq(Row), NEW t \in Seq(Row), NEW k
  PROVE  KeyRows(s \o t, k) = KeyRows(s, k) \o KeyRows(t, k)
  BY KeepConcat DEF KeyRows

LEMMA KeyRowsEmpty == \A k : KeyRows(<< >>, k) = << >>
  BY KeepEmpty DEF KeyRows

\* Sequences that begin alike go on alike if they are the same.
LEMMA FrontCancel ==
  ASSUME NEW S, NEW x \in S, NEW y \in S, NEW s \in Seq(S), NEW t \in Seq(S),
         <<x>> \o s = <<y>> \o t
  PROVE  x = y /\ s = t
<1>1. Head(<<x>> \o s) = x /\ Tail(<<x>> \o s) = s
  OBVIOUS
<1>2. Head(<<y>> \o t) = y /\ Tail(<<y>> \o t) = t
  OBVIOUS
<1> QED
  BY <1>1, <1>2

LEMMA FrontNotEmpty ==
  ASSUME NEW S, NEW x \in S, NEW s \in Seq(S)
  PROVE  <<x>> \o s # << >>
<1>1. Len(<<x>> \o s) = Len(s) + 1 /\ Len(s) \in Nat
  OBVIOUS
<1>2. Len(<< >>) = 0
  OBVIOUS
<1> QED
  BY <1>1, <1>2

\* Sorted sequences with the same rows begin with the same row.
LEMMA SameFirst ==
  ASSUME NEW by \in Order, NEW r \in Row, NEW s \in Seq(Row), NEW q \in Row, NEW t \in Seq(Row),
         NoneBefore(s, r, by), NoneBefore(t, q, by), SameRows(<<r>> \o s, <<q>> \o t)
  PROVE  r = q
<1>1. r.k \in Nat /\ q.k \in Nat
  BY DEF Row
<1>2. /\ KeyRows(<<r>> \o s, r.k) = <<r>> \o KeyRows(s, r.k)
      /\ KeyRows(<<q>> \o t, q.k) = <<q>> \o KeyRows(t, q.k)
  BY KeyRowsFront
<1>3. CASE r.k = q.k
  <2>1. <<r>> \o KeyRows(s, r.k) = <<q>> \o KeyRows(t, r.k)
    BY <1>1, <1>2, <1>3 DEF SameRows
  <2>2. KeyRows(s, r.k) \in Seq(Row) /\ KeyRows(t, r.k) \in Seq(Row)
    BY KeyRowsType
  <2> QED
    BY <2>1, <2>2, FrontCancel
<1>4. CASE r.k # q.k
  <2>1. KeyRows(<<q>> \o t, r.k) = KeyRows(t, r.k) /\ KeyRows(<<r>> \o s, q.k) = KeyRows(s, q.k)
    BY <1>4, KeyRowsFront
  <2>2. KeyRows(t, r.k) = <<r>> \o KeyRows(s, r.k) /\ KeyRows(s, q.k) = <<q>> \o KeyRows(t, q.k)
    BY <1>1, <1>2, <2>1 DEF SameRows
  <2>3. KeyRows(s, r.k) \in Seq(Row) /\ KeyRows(t, q.k) \in Seq(Row)
    BY KeyRowsType
  <2>4. KeyRows(t, r.k) # << >> /\ KeyRows(s, q.k) # << >>
    BY <2>2, <2>3, FrontNotEmpty
  <2>5. (\E x \in ToSet(t) : x.k = r.k) /\ (\E y \in ToSet(s) : y.k = q.k)
    BY <2>4, KeyRowsNone
  <2>6. PICK x \in ToSet(t) : x.k = r.k
    BY <2>5
  <2>7. PICK y \in ToSet(s) : y.k = q.k
    BY <2>5
  <2>8. x \in Row /\ y \in Row
    BY ToSetType
  <2>9. ~Before(x, q, by) /\ ~Before(y, r, by)
    BY DEF NoneBefore
  <2>10. ~Before(r, q, by) /\ ~Before(q, r, by)
    BY <2>6, <2>7, <2>9 DEF Before
  <2> QED
    BY <1>4, <2>10, BeforeOrder
<1> QED
  BY <1>3, <1>4

\* There is one way to sort.
LEMMA SortUnique ==
  ASSUME NEW by \in Order
  PROVE  \A x, y \in Seq(Row) : Sorted(x, by) /\ Sorted(y, by) /\ SameRows(x, y) => x = y
<1> DEFINE U == {x \in Seq(Row) : \A y \in Seq(Row) :
                   Sorted(x, by) /\ Sorted(y, by) /\ SameRows(x, y) => x = y}
<1>1. << >> \in U
  <2> SUFFICES ASSUME NEW y \in Seq(Row), SameRows(<< >>, y) PROVE y = << >>
    OBVIOUS
  <2>1. \A k \in Nat : KeyRows(y, k) = << >>
    BY KeyRowsEmpty DEF SameRows
  <2>2. \A k \in Nat : \A r \in ToSet(y) : r.k # k
    BY <2>1, KeyRowsNone
  <2>3. \A r \in ToSet(y) : r.k \in Nat
    BY ToSetType DEF Row
  <2>4. ToSet(y) = {}
    BY <2>2, <2>3
  <2> QED
    BY <2>4, ToSetNone
<1>2. ASSUME NEW s \in Seq(Row), NEW r \in Row, s \in U PROVE <<r>> \o s \in U
  <2>1. <<r>> \o s \in Seq(Row)
    OBVIOUS
  <2> SUFFICES ASSUME NEW y \in Seq(Row), Sorted(<<r>> \o s, by), Sorted(y, by),
                      SameRows(<<r>> \o s, y)
               PROVE  <<r>> \o s = y
    BY <2>1
  <2>2. Sorted(s, by) /\ NoneBefore(s, r, by)
    BY SortedTail
  <2>3. y # << >>
    <3>1. r.k \in Nat
      BY DEF Row
    <3>2. KeyRows(y, r.k) = <<r>> \o KeyRows(s, r.k)
      BY <3>1, KeyRowsFront DEF SameRows
    <3>3. KeyRows(s, r.k) \in Seq(Row)
      BY KeyRowsType
    <3> QED
      BY <3>2, <3>3, FrontNotEmpty, KeyRowsEmpty
  <2> DEFINE q == Head(y)
             t == Tail(y)
  <2>4. q \in Row /\ t \in Seq(Row) /\ y = <<q>> \o t
    BY <2>3
  <2> HIDE DEF q, t, U
  <2>5. Sorted(t, by) /\ NoneBefore(t, q, by)
    BY <2>4, SortedTail
  <2>6. r = q
    BY <2>2, <2>4, <2>5, SameFirst
  <2>7. SameRows(s, t)
    <3> SUFFICES ASSUME NEW k \in Nat PROVE KeyRows(s, k) = KeyRows(t, k)
      BY DEF SameRows
    <3>1. KeyRows(<<r>> \o s, k) = KeyRows(<<r>> \o t, k)
      BY <2>4, <2>6 DEF SameRows
    <3>2. KeyRows(s, k) \in Seq(Row) /\ KeyRows(t, k) \in Seq(Row)
      BY <2>4, KeyRowsType
    <3>3. CASE r.k = k
      <4>1. <<r>> \o KeyRows(s, k) = <<r>> \o KeyRows(t, k)
        <5>1. KeyRows(<<r>> \o s, k) = <<r>> \o KeyRows(s, k)
          BY <3>3, KeyRowsFront
        <5>2. KeyRows(<<r>> \o t, k) = <<r>> \o KeyRows(t, k)
          BY <2>4, <3>3, KeyRowsFront
        <5> QED
          BY <3>1, <5>1, <5>2
      <4> QED
        BY <3>2, <4>1, FrontCancel, ZenonT(60)
    <3>4. CASE r.k # k
      BY <2>4, <3>1, <3>4, KeyRowsFront
    <3> QED
      BY <3>3, <3>4
  <2>8. s = t
    BY <1>2, <2>2, <2>4, <2>5, <2>7 DEF U
  <2> QED
    BY <2>4, <2>6, <2>8
<1>3. \A x \in Seq(Row) : x \in U
  <2> HIDE DEF U
  <2> QED
    BY <1>1, <1>2, FrontInduction
<1> QED
  BY <1>3

----------------------------------------------------------------------------
\* StableSort

IsPlace(n, r, s, by) == /\ n \in 0..Len(s)
                        /\ \A i \in 1..n : ~Before(r, s[i], by)
                        /\ \A i \in (n + 1)..Len(s) : Before(r, s[i], by)

LEMMA PlaceExists ==
  ASSUME NEW by \in Order, NEW r \in Row, NEW s \in Seq(Row), Sorted(s, by)
  PROVE  IsPlace(Place(r, s, by), r, s, by)
<1> DEFINE P == {n \in 0..Len(s) : \A i \in 1..n : ~Before(r, s[i], by)}
<1>1. Len(s) \in Nat /\ P \subseteq 0..Len(s) /\ 0 \in P /\ \A i \in 1..Len(s) : s[i] \in Row
  OBVIOUS
<1>2. PICK n \in P : \A x \in P : x <= n
  <2>1. P # {}
    BY <1>1
  <2> HIDE DEF P
  <2> QED
    BY <1>1, <2>1, LargestExists
<1>3. n \in 0..Len(s) /\ \A i \in 1..n : ~Before(r, s[i], by)
  BY <1>2
<1>4. ASSUME NEW i \in (n + 1)..Len(s) PROVE Before(r, s[i], by)
  <2>1. n + 1 \in 1..Len(s) /\ i \in 1..Len(s)
    BY <1>1, <1>3
  <2>2. n + 1 \notin P
    BY <1>2, <1>3
  <2>3. Before(r, s[n + 1], by)
    <3> SUFFICES ASSUME ~Before(r, s[n + 1], by) PROVE n + 1 \in P
      BY <2>2
    <3>1. \A j \in 1..(n + 1) : j \in 1..n \/ j = n + 1
      BY <1>3
    <3>2. n + 1 \in 0..Len(s)
      BY <2>1
    <3> QED
      BY <1>3, <3>1, <3>2
  <2>4. CASE i = n + 1
    BY <2>3, <2>4
  <2>5. CASE i # n + 1
    <3>1. n + 1 < i
      BY <1>3, <2>5
    <3>2. ~Before(s[i], s[n + 1], by)
      BY <2>1, <3>1 DEF Sorted
    <3>3. s[i] \in Row /\ s[n + 1] \in Row
      BY <1>1, <2>1
    <3> HIDE DEF P
    <3> QED
      BY <2>3, <3>2, <3>3, BeforeOrder
  <2> QED
    BY <2>4, <2>5
<1>5. IsPlace(n, r, s, by)
  BY <1>3, <1>4 DEF IsPlace
<1>6. \E m \in 0..Len(s) : (\A i \in 1..m : ~Before(r, s[i], by)) /\ (\A i \in (m + 1)..Len(s) : Before(r, s[i], by))
  BY <1>3, <1>4
<1> HIDE DEF P
<1> QED
  BY <1>6 DEF Place, IsPlace

Inserted(s, n, r) == (SubSeq(s, 1, n) \o <<r>>) \o SubSeq(s, n + 1, Len(s))

LEMMA SplitAt ==
  ASSUME NEW S, NEW s \in Seq(S), NEW n \in 0..Len(s)
  PROVE  /\ SubSeq(s, 1, n) \in Seq(S) /\ SubSeq(s, n + 1, Len(s)) \in Seq(S) /\ Len(s) \in Nat
         /\ Len(SubSeq(s, 1, n)) = n /\ Len(SubSeq(s, n + 1, Len(s))) = Len(s) - n
         /\ \A i \in 1..n : SubSeq(s, 1, n)[i] = s[i]
         /\ \A i \in 1..(Len(s) - n) : SubSeq(s, n + 1, Len(s))[i] = s[n + i]
         /\ s = SubSeq(s, 1, n) \o SubSeq(s, n + 1, Len(s))
<1>1. SubSeq(s, 1, n) \in Seq(S) /\ SubSeq(s, n + 1, Len(s)) \in Seq(S) /\ Len(s) \in Nat
  OBVIOUS
<1>2. Len(SubSeq(s, 1, n)) = n /\ Len(SubSeq(s, n + 1, Len(s))) = Len(s) - n
  OBVIOUS
<1>3. \A i \in 1..n : SubSeq(s, 1, n)[i] = s[i]
  OBVIOUS
<1>4. \A i \in 1..(Len(s) - n) : SubSeq(s, n + 1, Len(s))[i] = s[n + i]
  OBVIOUS
<1>5. s = SubSeq(s, 1, n) \o SubSeq(s, n + 1, Len(s))
  <2>1. CASE n = 0
    BY <2>1
  <2>2. CASE n \in 1..Len(s)
    BY <2>2
  <2>3. n = 0 \/ n \in 1..Len(s)
    BY <1>1
  <2> QED
    BY <2>1, <2>2, <2>3, Zenon
<1> QED
  BY <1>1, <1>2, <1>3, <1>4, <1>5

LEMMA AroundAt ==
  ASSUME NEW S, NEW a \in Seq(S), NEW c \in Seq(S), NEW r \in S
  PROVE  /\ (a \o <<r>>) \o c \in Seq(S)
         /\ DOMAIN ((a \o <<r>>) \o c) = 1..(Len(a) + 1 + Len(c))
         /\ \A i \in 1..Len(a) : ((a \o <<r>>) \o c)[i] = a[i]
         /\ ((a \o <<r>>) \o c)[Len(a) + 1] = r
         /\ \A i \in (Len(a) + 2)..(Len(a) + 1 + Len(c)) : ((a \o <<r>>) \o c)[i] = c[i - (Len(a) + 1)]
<1>1. (a \o <<r>>) \o c \in Seq(S) /\ DOMAIN ((a \o <<r>>) \o c) = 1..(Len(a) + 1 + Len(c))
  OBVIOUS
<1>2. \A i \in 1..Len(a) : ((a \o <<r>>) \o c)[i] = a[i]
  OBVIOUS
<1>3. ((a \o <<r>>) \o c)[Len(a) + 1] = r
  OBVIOUS
<1>4. \A i \in (Len(a) + 2)..(Len(a) + 1 + Len(c)) : ((a \o <<r>>) \o c)[i] = c[i - (Len(a) + 1)]
  OBVIOUS
<1> QED
  BY <1>1, <1>2, <1>3, <1>4

\* Where the rows are after one was inserted
LEMMA InsertedAt ==
  ASSUME NEW r \in Row, NEW s \in Seq(Row), NEW n \in 0..Len(s)
  PROVE  /\ Inserted(s, n, r) \in Seq(Row) /\ DOMAIN Inserted(s, n, r) = 1..(Len(s) + 1)
         /\ \A i \in 1..n : Inserted(s, n, r)[i] = s[i]
         /\ Inserted(s, n, r)[n + 1] = r
         /\ \A i \in (n + 2)..(Len(s) + 1) : Inserted(s, n, r)[i] = s[i - 1]
<1> DEFINE a == SubSeq(s, 1, n)
           c == SubSeq(s, n + 1, Len(s))
<1>1. /\ a \in Seq(Row) /\ c \in Seq(Row) /\ Len(s) \in Nat
      /\ Len(a) = n /\ Len(c) = Len(s) - n
      /\ \A i \in 1..n : a[i] = s[i]
      /\ \A i \in 1..(Len(s) - n) : c[i] = s[n + i]
  BY SplitAt
<1> HIDE DEF a, c
<1> DEFINE w == (a \o <<r>>) \o c
<1>2. /\ w \in Seq(Row) /\ DOMAIN w = 1..(Len(s) + 1)
      /\ \A i \in 1..n : w[i] = a[i]
      /\ w[n + 1] = r
      /\ \A i \in (n + 2)..(Len(s) + 1) : w[i] = c[i - (n + 1)]
  <2>0. a \in Seq(Row) /\ c \in Seq(Row)
    BY <1>1
  <2>3. w \in Seq(Row) /\ DOMAIN w = 1..(Len(a) + 1 + Len(c))
    BY <2>0, AroundAt
  <2>4. \A i \in 1..Len(a) : w[i] = a[i]
    BY <2>0, AroundAt
  <2>5. w[Len(a) + 1] = r
    BY <2>0, AroundAt
  <2>6. \A i \in (Len(a) + 2)..(Len(a) + 1 + Len(c)) : w[i] = c[i - (Len(a) + 1)]
    BY <2>0, AroundAt
  <2>1. /\ w \in Seq(Row) /\ DOMAIN w = 1..(Len(a) + 1 + Len(c))
        /\ \A i \in 1..Len(a) : w[i] = a[i]
        /\ w[Len(a) + 1] = r
        /\ \A i \in (Len(a) + 2)..(Len(a) + 1 + Len(c)) : w[i] = c[i - (Len(a) + 1)]
    BY <2>3, <2>4, <2>5, <2>6
  <2>2. n + 1 + (Len(s) - n) = Len(s) + 1
    BY <1>1
  <2> HIDE DEF w
  <2> QED
    BY <1>1, <2>1, <2>2
<1>3. Inserted(s, n, r) = w
  BY DEF Inserted, a, c
<1> HIDE DEF w
<1>4. \A i \in (n + 2)..(Len(s) + 1) : w[i] = s[i - 1]
  <2> SUFFICES ASSUME NEW i \in (n + 2)..(Len(s) + 1) PROVE w[i] = s[i - 1]
    OBVIOUS
  <2>1. i - (n + 1) \in 1..(Len(s) - n) /\ n + (i - (n + 1)) = i - 1
    BY <1>1
  <2>2. c[i - (n + 1)] = s[n + (i - (n + 1))]
    BY <1>1, <2>1
  <2> QED
    BY <1>2, <2>1, <2>2
<1> QED
  BY <1>1, <1>2, <1>3, <1>4

LEMMA InsertedSorted ==
  ASSUME NEW by \in Order, NEW r \in Row, NEW s \in Seq(Row), Sorted(s, by), NEW n, IsPlace(n, r, s, by)
  PROVE  Sorted(Inserted(s, n, r), by)
<1> DEFINE w == Inserted(s, n, r)
<1>1. n \in 0..Len(s) /\ Len(s) \in Nat
  BY DEF IsPlace
<1>2. /\ w \in Seq(Row) /\ DOMAIN w = 1..(Len(s) + 1) /\ w[n + 1] = r
      /\ \A i \in 1..n : w[i] = s[i]
      /\ \A i \in (n + 2)..(Len(s) + 1) : w[i] = s[i - 1]
  BY <1>1, InsertedAt
<1> HIDE DEF w
<1> SUFFICES ASSUME NEW i \in DOMAIN w, NEW j \in DOMAIN w, i < j PROVE ~Before(w[j], w[i], by)
  BY DEF Sorted, w
<1>3. i \in 1..(Len(s) + 1) /\ j \in 1..(Len(s) + 1)
  BY <1>2
<1>4. \A m \in 1..Len(s) : s[m] \in Row
  OBVIOUS
<1>5. \A m, l \in 1..Len(s) : m < l => ~Before(s[l], s[m], by)
  BY DEF Sorted
<1>6. (\A m \in 1..n : ~Before(r, s[m], by)) /\ (\A m \in (n + 1)..Len(s) : Before(r, s[m], by))
  BY DEF IsPlace
<1>7. CASE j <= n
  <2>1. i \in 1..n /\ j \in 1..n /\ i \in 1..Len(s) /\ j \in 1..Len(s)
    BY <1>1, <1>3, <1>7
  <2> QED
    BY <1>2, <1>5, <2>1
<1>8. CASE j = n + 1
  <2>1. i \in 1..n
    BY <1>1, <1>3, <1>8
  <2> QED
    BY <1>2, <1>6, <1>8, <2>1
<1>9. CASE j > n + 1
  <2>1. j \in (n + 2)..(Len(s) + 1) /\ j - 1 \in 1..Len(s) /\ j - 1 \in (n + 1)..Len(s)
    BY <1>1, <1>3, <1>9
  <2>2. w[j] = s[j - 1]
    BY <1>2, <2>1
  <2>3. CASE i <= n
    <3>1. i \in 1..n /\ i \in 1..Len(s) /\ i < j - 1
      BY <1>1, <1>3, <1>9, <2>3
    <3> QED
      BY <1>2, <1>5, <2>1, <2>2, <3>1
  <2>4. CASE i = n + 1
    <3>1. Before(r, s[j - 1], by) /\ s[j - 1] \in Row
      BY <1>4, <1>6, <2>1
    <3> QED
      BY <1>2, <2>2, <2>4, <3>1, BeforeOrder
  <2>5. CASE i > n + 1
    <3>1. i \in (n + 2)..(Len(s) + 1) /\ i - 1 \in 1..Len(s) /\ i - 1 < j - 1
      BY <1>1, <1>3, <2>5
    <3> QED
      BY <1>2, <1>5, <2>1, <2>2, <3>1
  <2> QED
    BY <1>1, <1>3, <2>3, <2>4, <2>5
<1> QED
  BY <1>1, <1>3, <1>7, <1>8, <1>9

LEMMA InsertedRows ==
  ASSUME NEW by \in Order, NEW r \in Row, NEW s \in Seq(Row), NEW n, IsPlace(n, r, s, by), NEW k
  PROVE  KeyRows(Inserted(s, n, r), k) = KeyRows(s, k) \o KeyRows(<<r>>, k)
<1> DEFINE a == SubSeq(s, 1, n)
           c == SubSeq(s, n + 1, Len(s))
           A == KeyRows(a, k)
           C == KeyRows(c, k)
           R == KeyRows(<<r>>, k)
<1>1. n \in 0..Len(s) /\ Len(s) \in Nat
  BY DEF IsPlace
<1>2. a \in Seq(Row) /\ c \in Seq(Row) /\ <<r>> \in Seq(Row) /\ s = a \o c
  <2>2. <<r>> \in Seq(Row)
    OBVIOUS
  <2> QED
    BY <1>1, <2>2, SplitAt
<1>3. \A x \in ToSet(c) : Before(r, x, by)
  <2> SUFFICES ASSUME NEW i \in DOMAIN c PROVE Before(r, c[i], by)
    BY DEF ToSet
  <2>1. n + i \in (n + 1)..Len(s) /\ c[i] = s[n + i]
    BY <1>1, SMTT(30)
  <2> QED
    BY <2>1 DEF IsPlace
<1> HIDE DEF a, c
<1>4. a \o <<r>> \in Seq(Row)
  BY <1>2
<1>5. KeyRows((a \o <<r>>) \o c, k) = (A \o R) \o C
  <2> HIDE DEF A, R, C
  <2>0. KeyRows(a \o <<r>>, k) = KeyRows(a, k) \o KeyRows(<<r>>, k)
    <3> DEFINE o == <<r>>
    <3>1. o \in Seq(Row)
      BY <1>2
    <3> HIDE DEF o
    <3>2. KeyRows(a \o o, k) = KeyRows(a, k) \o KeyRows(o, k)
      BY <1>2, <3>1, KeyRowsConcat
    <3> QED
      BY <3>2 DEF o
  <2> DEFINE b == a \o <<r>>
  <2>1. KeyRows(b, k) = KeyRows(a, k) \o KeyRows(<<r>>, k)
    BY <2>0
  <2>3. b \in Seq(Row)
    BY <1>4
  <2> HIDE DEF b
  <2>2. KeyRows(b \o c, k) = KeyRows(b, k) \o KeyRows(c, k)
    BY <1>2, <2>3, KeyRowsConcat
  <2> USE DEF b, A, R, C
  <2> QED
    BY <2>1, <2>2
<1>6. KeyRows(s, k) = A \o C
  BY <1>2, KeyRowsConcat
<1>7. A \in Seq(Row) /\ R \in Seq(Row) /\ C \in Seq(Row)
  BY <1>2, KeyRowsType
<1>8. R = << >> \/ C = << >>
  <2>1. CASE r.k = k
    <3>1. \A x \in ToSet(c) : x.k # k
      <4> SUFFICES ASSUME NEW x \in ToSet(c) PROVE x.k # k
        OBVIOUS
      <4>1. x \in Row /\ Before(r, x, by)
        BY <1>2, <1>3, ToSetType
      <4> QED
        BY <2>1, <4>1, BeforeOrder
    <3> QED
      BY <1>2, <3>1, KeyRowsNone
  <2>2. CASE r.k # k
    <3>1. \A x \in ToSet(<<r>>) : x.k # k
      BY <2>2, ToSetOne
    <3> QED
      BY <1>2, <3>1, KeyRowsNone
  <2> QED
    BY <2>1, <2>2
<1> HIDE DEF A, R, C
<1>9. ASSUME R = << >> PROVE (A \o R) \o C = (A \o C) \o R
  <2>1. A \o C \in Seq(Row)
    BY <1>7
  <2>2. A \o << >> = A /\ (A \o C) \o << >> = A \o C
    BY <1>7, <2>1
  <2> QED
    BY <1>9, <2>2
<1>10. ASSUME C = << >> PROVE (A \o R) \o C = (A \o C) \o R
  <2>1. A \o R \in Seq(Row)
    BY <1>7
  <2>2. A \o << >> = A /\ (A \o R) \o << >> = A \o R
    BY <1>7, <2>1
  <2> QED
    BY <1>10, <2>2
<1>11. Inserted(s, n, r) = (a \o <<r>>) \o c
  BY DEF Inserted, a, c
<1> QED
  BY <1>5, <1>6, <1>8, <1>9, <1>10, <1>11 DEF R

\* x is the rows of s, sorted.
IsSort(x, s, by) == x \in Seq(Row) /\ Sorted(x, by) /\ SameRows(x, s)

LEMMA Insertion ==
  ASSUME NEW by \in Order, NEW r \in Row, NEW s \in Seq(Row), Sorted(s, by)
  PROVE  IsSort(InsertAt(s, Place(r, s, by) + 1, r), Append(s, r), by)
<1> DEFINE n == Place(r, s, by)
<1>1. IsPlace(n, r, s, by) /\ n \in 0..Len(s)
  BY PlaceExists DEF IsPlace
<1> HIDE DEF n
<1>2. InsertAt(s, n + 1, r) = Inserted(s, n, r)
  <2>1. (n + 1) - 1 = n
    BY <1>1
  <2> QED
    BY <2>1 DEF InsertAt, Inserted
<1>3. Inserted(s, n, r) \in Seq(Row)
  BY <1>1, InsertedAt
<1>4. Sorted(Inserted(s, n, r), by)
  BY <1>1, InsertedSorted
<1>5. SameRows(Inserted(s, n, r), Append(s, r))
  <2>1. <<r>> \in Seq(Row) /\ Append(s, r) = s \o <<r>>
    OBVIOUS
  <2>2. \A k \in Nat : KeyRows(s \o <<r>>, k) = KeyRows(s, k) \o KeyRows(<<r>>, k)
    <3> DEFINE o == <<r>>
    <3>1. o \in Seq(Row)
      BY <2>1
    <3> HIDE DEF o
    <3>2. \A k \in Nat : KeyRows(s \o o, k) = KeyRows(s, k) \o KeyRows(o, k)
      BY <3>1, KeyRowsConcat
    <3> QED
      BY <3>2 DEF o
  <2>3. \A k \in Nat : KeyRows(Inserted(s, n, r), k) = KeyRows(s, k) \o KeyRows(<<r>>, k)
    BY <1>1, InsertedRows
  <2> QED
    BY <2>1, <2>2, <2>3 DEF SameRows
<1> QED
  BY <1>2, <1>3, <1>4, <1>5 DEF IsSort, n

\* StableSort sorts.
LEMMA StableSortSorts ==
  ASSUME NEW by \in Order, NEW s \in Seq(Row)
  PROVE  IsSort(StableSort(s, by), s, by)
<1> DEFINE V == {x \in Seq(Row) : Sorted(x, by)}
           m == Len(s)
           I(x, r) == InsertAt(x, Place(r, x, by) + 1, r)
           step == [n \in Nat |-> [x \in V |-> IF n \in 1..m THEN I(x, s[n]) ELSE x]]
           e == << >>
           F(u) == [n \in 0..m |-> IF n = 0 THEN << >> ELSE I(u[n - 1], s[n])]
           sorted == CHOOSE u : u = F(u)
<1>0. m \in Nat /\ e \in V /\ \A n \in 1..m : s[n] \in Row
  BY SortedEmpty
<1>1. ASSUME NEW x \in V, NEW r \in Row PROVE IsSort(I(x, r), Append(x, r), by) /\ I(x, r) \in V
  <2>1. x \in Seq(Row) /\ Sorted(x, by)
    OBVIOUS
  <2>2. IsSort(I(x, r), Append(x, r), by)
    BY <2>1, Insertion
  <2> QED
    BY <2>2 DEF IsSort
<1> HIDE DEF I
<1>2. \A n \in Nat, v \in V : step[n][v] \in V
  <2> SUFFICES ASSUME NEW n \in Nat, NEW v \in V PROVE (IF n \in 1..m THEN I(v, s[n]) ELSE v) \in V
    OBVIOUS
  <2> HIDE DEF V
  <2> QED
    BY <1>0, <1>1
<1>3. ASSUME NEW n \in 1..m, NEW v \in V PROVE step[n][v] = I(v, s[n])
  <2>1. n \in Nat
    BY <1>0
  <2> HIDE DEF V
  <2> QED
    BY <2>1
<1> HIDE DEF step, e, V
<1>4. \A l \in Nat : \E f \in [0..l -> V] : Recursive(f, l, e, step)
  BY <1>0, <1>2, RecursiveFunctionExists, Zenon
<1>5. PICK f \in [0..m -> V] : f[0] = e /\ \A n \in 1..m : f[n] = step[n][f[n - 1]]
  BY <1>0, <1>4 DEF Recursive
<1>6. \A n \in 1..m : f[n - 1] \in V /\ f[n] = I(f[n - 1], s[n])
  <2> SUFFICES ASSUME NEW n \in 1..m PROVE f[n - 1] \in V /\ f[n] = I(f[n - 1], s[n])
    OBVIOUS
  <2>1. n - 1 \in 0..m
    BY <1>0
  <2> QED
    BY <1>3, <1>5, <2>1
<1>7. f = F(f)
  <2> SUFFICES ASSUME NEW n \in 0..m PROVE f[n] = IF n = 0 THEN << >> ELSE I(f[n - 1], s[n])
    BY <1>5
  <2>1. n # 0 => n \in 1..m
    BY <1>0
  <2> QED
    BY <1>5, <1>6, <2>1 DEF e
<1>8. sorted = F(sorted)
  <2>1. \E u : u = F(u)
    BY <1>7
  <2> HIDE DEF F
  <2> QED
    BY <2>1
<1>9. StableSort(s, by) = sorted[m]
  BY DEF StableSort, I
<1>10. sorted[0] = << >> /\ \A n \in 1..m : sorted[n] = I(sorted[n - 1], s[n])
  <2>1. ASSUME NEW n \in 0..m PROVE sorted[n] = IF n = 0 THEN << >> ELSE I(sorted[n - 1], s[n])
    <3> HIDE DEF sorted
    <3> QED
      BY <1>8
  <2> HIDE DEF sorted
  <2> QED
    BY <1>0, <2>1
<1> HIDE DEF sorted, F
<1> DEFINE T == {n \in Nat : sorted[n] \in V /\ SameRows(sorted[n], SubSeq(s, 1, n))}
<1>11. 0 \in T
  <2>1. SubSeq(s, 1, 0) = << >>
    OBVIOUS
  <2> QED
    BY <1>0, <1>10, <2>1 DEF SameRows, e
<1>12. \A n \in 0..(m - 1) : n \in T => n + 1 \in T
  <2> SUFFICES ASSUME NEW n \in 0..(m - 1), n \in T PROVE n + 1 \in T
    OBVIOUS
  <2> DEFINE x == sorted[n]
             r == s[n + 1]
             p == SubSeq(s, 1, n)
  <2>1. n + 1 \in 1..m /\ (n + 1) - 1 = n /\ n + 1 \in Nat /\ r \in Row /\ x \in V /\ SameRows(x, p)
    BY <1>0
  <2>2. p \in Seq(Row) /\ SubSeq(s, 1, n + 1) = Append(p, r)
    BY <1>0
  <2>3. sorted[n + 1] = I(x, r)
    BY <1>10, <2>1
  <2> HIDE DEF x, r, p, T
  <2>4. I(x, r) \in V /\ SameRows(I(x, r), Append(x, r)) /\ x \in Seq(Row)
    <3>1. IsSort(I(x, r), Append(x, r), by) /\ I(x, r) \in V
      BY <1>1, <2>1
    <3> QED
      BY <2>1, <3>1 DEF IsSort, V
  <2>5. SameRows(Append(x, r), Append(p, r))
    <3> DEFINE o == <<r>>
    <3>4. x \in Seq(Row) /\ p \in Seq(Row) /\ r \in Row
      BY <2>1, <2>2, <2>4
    <3>5. o \in Seq(Row)
      BY <3>4
    <3>6. Append(x, r) = x \o o
      BY <3>4
    <3>7. Append(p, r) = p \o o
      BY <3>4
    <3>1. o \in Seq(Row) /\ Append(x, r) = x \o o /\ Append(p, r) = p \o o
      BY <3>5, <3>6, <3>7
    <3> HIDE DEF o
    <3>2. \A k \in Nat : KeyRows(x \o o, k) = KeyRows(x, k) \o KeyRows(o, k)
      BY <2>4, <3>1, KeyRowsConcat
    <3>3. \A k \in Nat : KeyRows(p \o o, k) = KeyRows(p, k) \o KeyRows(o, k)
      BY <2>2, <3>1, KeyRowsConcat
    <3> QED
      BY <2>1, <3>1, <3>2, <3>3 DEF SameRows
  <2>6. SameRows(I(x, r), Append(p, r))
    BY <2>4, <2>5 DEF SameRows
  <2> QED
    BY <2>1, <2>2, <2>3, <2>4, <2>6 DEF T
<1>13. \A n \in 0..m : n \in T
  <2> HIDE DEF T, m
  <2> QED
    BY <1>0, <1>11, <1>12, BoundedInduction
<1>14. m \in T /\ SubSeq(s, 1, m) = s
  <2>1. m \in 0..m /\ SubSeq(s, 1, m) = s
    BY <1>0
  <2> HIDE DEF T, m
  <2> QED
    BY <1>13, <2>1
<1> QED
  BY <1>9, <1>14 DEF IsSort, V

LEMMA StableSortIs ==
  ASSUME NEW by \in Order, NEW s \in Seq(Row), NEW x, IsSort(x, s, by)
  PROVE  StableSort(s, by) = x
<1>1. IsSort(StableSort(s, by), s, by)
  BY StableSortSorts
<1>2. SameRows(StableSort(s, by), x)
  BY <1>1 DEF IsSort, SameRows
<1> QED
  BY <1>1, <1>2, SortUnique DEF IsSort

LEMMA StableSortSame ==
  ASSUME NEW by \in Order, NEW s \in Seq(Row), NEW t \in Seq(Row), SameRows(s, t)
  PROVE  StableSort(s, by) = StableSort(t, by)
<1>1. IsSort(StableSort(t, by), t, by)
  BY StableSortSorts
<1>2. IsSort(StableSort(t, by), s, by)
  BY <1>1 DEF IsSort, SameRows
<1> QED
  BY <1>2, StableSortIs

LEMMA StableSortType ==
  ASSUME NEW by \in Order, NEW s \in Seq(Row)
  PROVE  StableSort(s, by) \in Seq(Row)
  BY StableSortSorts DEF IsSort

----------------------------------------------------------------------------
\* Merging

LEMMA ToSetFlatten ==
  ASSUME NEW S
  PROVE  \A ss \in Seq(Seq(S)) : ToSet(FlattenSeq(ss)) = UNION {ToSet(t) : t \in ToSet(ss)}
<1> DEFINE W == Seq(S)
           U == {ss \in Seq(W) : ToSet(FlattenSeq(ss)) = UNION {ToSet(t) : t \in ToSet(ss)}}
<1>1. << >> \in U
  <2>1. << >> \in Seq(W)
    OBVIOUS
  <2> QED
    BY <2>1, FlattenEmpty, ToSetEmpty
<1>2. ASSUME NEW ss \in Seq(W), NEW t \in W, ss \in U PROVE Append(ss, t) \in U
  <2> DEFINE a == FlattenSeq(ss)
  <2>1. FlattenSeq(Append(ss, t)) = a \o t /\ a \in Seq(S) /\ t \in Seq(S)
    BY FlattenAppend, FlattenType
  <2>2. ToSet(a) = UNION {ToSet(x) : x \in ToSet(ss)}
    BY <1>2
  <2> HIDE DEF a, W, U
  <2>3. ToSet(a \o t) = ToSet(a) \cup ToSet(t)
    BY <2>1, ToSetConcat
  <2>4. <<t>> \in Seq(W) /\ Append(ss, t) = ss \o <<t>> /\ Append(ss, t) \in Seq(W)
    OBVIOUS
  <2>5. ToSet(Append(ss, t)) = ToSet(ss) \cup {t}
    <3> DEFINE o == <<t>>
    <3>1. o \in Seq(W) /\ ToSet(o) = {t}
      BY <2>4, ToSetOne
    <3>2. Append(ss, t) = ss \o o
      BY <2>4
    <3> HIDE DEF o
    <3> QED
      BY <3>1, <3>2, ToSetConcat
  <2>6. ToSet(FlattenSeq(Append(ss, t))) = UNION {ToSet(x) : x \in ToSet(Append(ss, t))}
    BY <2>1, <2>2, <2>3, <2>5
  <2> QED
    BY <2>4, <2>6 DEF U
<1>3. \A ss \in Seq(W) : ss \in U
  <2> HIDE DEF U, W
  <2> QED
    BY <1>1, <1>2, AppendInduction
<1> QED
  BY <1>3

LEMMA KeyRowsSet ==
  ASSUME NEW s \in Seq(Row), NEW k
  PROVE  ToSet(KeyRows(s, k)) = ToSet(s) \cap WithKey(k)
  BY KeepSet DEF KeyRows

LEMMA SameRowsSet ==
  ASSUME NEW s \in Seq(Row), NEW t \in Seq(Row), SameRows(s, t)
  PROVE  ToSet(s) = ToSet(t)
<1>1. \A k \in Nat : ToSet(s) \cap WithKey(k) = ToSet(t) \cap WithKey(k)
  BY KeyRowsSet DEF SameRows
<1>2. ToSet(s) \subseteq Row /\ ToSet(t) \subseteq Row
  BY ToSetType
<1>3. \A r \in Row : r.k \in Nat /\ r \in WithKey(r.k)
  BY DEF WithKey, Row
<1> QED
  BY <1>1, <1>2, <1>3

LEMMA StableSortSet ==
  ASSUME NEW by \in Order, NEW s \in Seq(Row)
  PROVE  ToSet(StableSort(s, by)) = ToSet(s)
  BY StableSortSorts, SameRowsSet DEF IsSort

LEMMA SameRowsFlatten ==
  ASSUME NEW ss \in Seq(Seq(Row)), NEW tt \in Seq(Seq(Row)), Len(ss) = Len(tt),
         \A i \in 1..Len(ss) : SameRows(ss[i], tt[i])
  PROVE  SameRows(FlattenSeq(ss), FlattenSeq(tt))
<1> SUFFICES ASSUME NEW k \in Nat PROVE KeyRows(FlattenSeq(ss), k) = KeyRows(FlattenSeq(tt), k)
  BY DEF SameRows
<1>1. KeyRows(FlattenSeq(ss), k) = FlattenSeq([i \in DOMAIN ss |-> KeyRows(ss[i], k)])
  BY KeepFlatten DEF KeyRows
<1>2. KeyRows(FlattenSeq(tt), k) = FlattenSeq([i \in DOMAIN tt |-> KeyRows(tt[i], k)])
  BY KeepFlatten DEF KeyRows
<1>3. DOMAIN ss = 1..Len(ss) /\ DOMAIN tt = 1..Len(ss)
  <2> DEFINE V == Seq(Row)
  <2>1. ss \in Seq(V) /\ tt \in Seq(V)
    OBVIOUS
  <2> HIDE DEF V
  <2> QED
    BY <2>1
<1>4. [i \in DOMAIN ss |-> KeyRows(ss[i], k)] = [i \in DOMAIN tt |-> KeyRows(tt[i], k)]
  BY <1>3 DEF SameRows
<1> QED
  BY <1>1, <1>2, <1>4

\* Which of some rows comes first
Beats(H, i, j, by) == Before(H[i], H[j], by) \/ (i < j /\ ~Before(H[j], H[i], by))

LEMMA BeatsIf ==
  ASSUME NEW H, NEW i, NEW j, NEW by, Before(H[i], H[j], by)
  PROVE  Beats(H, i, j, by)
  BY DEF Beats

LEMMA BestExists ==
  ASSUME NEW by \in Order, NEW m \in Nat, NEW P, P \subseteq 1..m, P # {}, NEW H, \A i \in P : H[i] \in Row
  PROVE  \E i \in P : \A j \in P \ {i} : Beats(H, i, j, by)
<1> DEFINE T == {n \in Nat : (\E j \in P : j <= n) =>
                   \E i \in P : i <= n /\ \A j \in P \ {i} : j <= n => Beats(H, i, j, by)}
<1>0. \A i \in P : i \in Nat /\ i > 0 /\ i <= m
  OBVIOUS
<1>6. \A n \in Nat : \A j \in P : j <= n + 1 <=> j <= n \/ j = n + 1
  BY <1>0
<1>7. \A n \in Nat : \A j \in P : j <= n => j < n + 1
  BY <1>0
<1>1. 0 \in T
  BY <1>0
<1>2. \A n \in 0..(m - 1) : n \in T => n + 1 \in T
  <2> SUFFICES ASSUME NEW n \in Nat, n \in T PROVE n + 1 \in T
    OBVIOUS
  <2>9. n + 1 \in Nat
    OBVIOUS
  <2> SUFFICES ASSUME \E j \in P : j <= n + 1
               PROVE  \E i \in P : i <= n + 1 /\ \A j \in P \ {i} : j <= n + 1 => Beats(H, i, j, by)
    BY <2>9
  <2>0. (\E j \in P : j <= n) => \E i \in P : i <= n /\ \A j \in P \ {i} : j <= n => Beats(H, i, j, by)
    OBVIOUS
  <2> HIDE DEF T
  <2>1. CASE n + 1 \notin P
    <3>1. \A j \in P : j <= n + 1 <=> j <= n
      BY <1>6, <2>1
    <3> QED
      BY <2>0, <3>1
  <2>2. CASE n + 1 \in P /\ ~(\E j \in P : j <= n)
    <3>1. \A j \in P \ {n + 1} : ~(j <= n + 1)
      BY <1>6, <2>2
    <3> QED
      BY <1>6, <2>2, <3>1
  <2>3. CASE n + 1 \in P /\ \E j \in P : j <= n
    <3>1. PICK i \in P : i <= n /\ \A j \in P \ {i} : j <= n => Beats(H, i, j, by)
      BY <2>0, <2>3
    <3>2. CASE Before(H[n + 1], H[i], by)
      <4>1. \A j \in P \ {n + 1} : j <= n + 1 => j <= n
        BY <1>6
      <4>2. ASSUME NEW j \in P \ {n + 1}, j <= n + 1 PROVE Beats(H, n + 1, j, by)
        <5>1. CASE j = i
          <6>1. H[j] = H[i]
            BY <5>1
          <6>2. Before(H[n + 1], H[j], by)
            BY <3>2, <6>1
          <6> QED
            BY <6>2, BeatsIf
        <5>2. CASE j # i
          <6>1. Beats(H, i, j, by)
            BY <3>1, <4>1, <4>2, <5>2
          <6>2. H[i] \in Row /\ H[j] \in Row /\ H[n + 1] \in Row
            BY <2>3
          <6>3. ~Before(H[j], H[i], by)
            BY <6>1, <6>2, BeforeOrder DEF Beats
          <6> QED
            BY <3>2, <6>2, <6>3, BeforeOrder DEF Beats
        <5> QED
          BY <5>1, <5>2
      <4>3. n + 1 <= n + 1
        OBVIOUS
      <4> QED
        BY <2>3, <4>2, <4>3
    <3>3. CASE ~Before(H[n + 1], H[i], by)
      <4>1. ASSUME NEW j \in P \ {i}, j <= n + 1 PROVE Beats(H, i, j, by)
        <5>1. CASE j = n + 1
          <6>1. i < j
            BY <1>7, <3>1, <5>1
          <6> QED
            BY <3>3, <5>1, <6>1 DEF Beats
        <5>2. CASE j # n + 1
          <6>1. j <= n
            BY <1>6, <4>1, <5>2
          <6> QED
            BY <3>1, <6>1
        <5> QED
          BY <5>1, <5>2
      <4>2. i <= n + 1
        BY <1>6, <3>1
      <4> QED
        BY <4>1, <4>2
    <3> QED
      BY <3>2, <3>3
  <2> QED
    BY <2>1, <2>2, <2>3
<1>3. \A n \in 0..m : n \in T
  <2> HIDE DEF T
  <2> QED
    BY <1>1, <1>2, BoundedInduction
<1>4. m \in T
  <2> HIDE DEF T
  <2> QED
    BY <1>3
<1>5. (\E j \in P : j <= m) /\ \A j \in P : j <= m
  BY <1>0
<1> QED
  BY <1>4, <1>5

\* The sequence that a merge takes its next row from
IsFirst(i, ss, by) ==
  /\ i \in 1..Len(ss) /\ ss[i] # << >>
  /\ \A j \in 1..Len(ss) : j # i /\ ss[j] # << >> =>
       Before(Head(ss[i]), Head(ss[j]), by) \/ (i < j /\ ~Before(Head(ss[j]), Head(ss[i]), by))

\* tt is left of ss when a merge has taken a row.
OneTaken(ss, tt, i) ==
  /\ Len(tt) = Len(ss) /\ i \in 1..Len(ss) /\ tt[i] = Tail(ss[i])
  /\ \A j \in 1..Len(ss) : j # i => tt[j] = ss[j]

LEMMA NoneBeforeTail ==
  ASSUME NEW by \in Order, NEW s \in Seq(Row), Sorted(s, by), s # << >>
  PROVE  /\ Head(s) \in Row /\ Tail(s) \in Seq(Row) /\ s = <<Head(s)>> \o Tail(s)
         /\ Sorted(Tail(s), by) /\ NoneBefore(Tail(s), Head(s), by) /\ NoneBefore(s, Head(s), by)
<1>1. Head(s) \in Row /\ Tail(s) \in Seq(Row) /\ s = <<Head(s)>> \o Tail(s)
  BY HeadFacts
<1> DEFINE h == Head(s)
           t == Tail(s)
<1>2. h \in Row /\ t \in Seq(Row) /\ s = <<h>> \o t
  BY <1>1
<1> HIDE DEF h, t
<1>3. Sorted(t, by) /\ NoneBefore(t, h, by)
  BY <1>2, SortedTail
<1>4. ToSet(s) = {h} \cup ToSet(t)
  BY <1>2, ToSetFront
<1>5. NoneBefore(s, h, by)
  BY <1>2, <1>3, <1>4, BeforeOrder DEF NoneBefore
<1> QED
  BY <1>1, <1>3, <1>5 DEF h, t

LEMMA MergeStep ==
  ASSUME NEW by \in Order, NEW ss \in Seq(Seq(Row)), NEW tt \in Seq(Seq(Row)), NEW i,
         \A j \in 1..Len(ss) : Sorted(ss[j], by), IsFirst(i, ss, by), OneTaken(ss, tt, i)
  PROVE  /\ StableSort(FlattenSeq(ss), by) = <<Head(ss[i])>> \o StableSort(FlattenSeq(tt), by)
         /\ \A j \in 1..Len(tt) : Sorted(tt[j], by)
<1> DEFINE V == Seq(Row)
           r == Head(ss[i])
           X == FlattenSeq(ss)
           Y == FlattenSeq(tt)
           Z == StableSort(Y, by)
<1>0. ss \in Seq(V) /\ tt \in Seq(V)
  OBVIOUS
<1> HIDE DEF V
<1>1. /\ i \in 1..Len(ss) /\ Len(tt) = Len(ss) /\ ss[i] # << >> /\ tt[i] = Tail(ss[i])
      /\ \A j \in 1..Len(ss) : j # i => tt[j] = ss[j]
      /\ DOMAIN ss = 1..Len(ss) /\ DOMAIN tt = 1..Len(ss) /\ Len(ss) \in Nat
      /\ \A j \in 1..Len(ss) : ss[j] \in V /\ tt[j] \in V
  BY <1>0 DEF IsFirst, OneTaken
<1>2. X \in Seq(Row) /\ Y \in Seq(Row) /\ Z \in Seq(Row)
  BY FlattenType, StableSortType
<1>3. /\ r \in Row /\ tt[i] \in Seq(Row) /\ ss[i] = <<r>> \o tt[i] /\ Sorted(tt[i], by)
      /\ NoneBefore(tt[i], r, by)
  BY <1>1, NoneBeforeTail DEF V
<1>4. ASSUME NEW j \in 1..Len(ss), j # i, NEW y \in ToSet(ss[j])
      PROVE  y \in Row /\ ~Before(y, r, by) /\ (j < i => Before(r, y, by))
  <2>1. ss[j] \in Seq(Row) /\ Sorted(ss[j], by)
    BY <1>1 DEF V
  <2>2. ss[j] # << >>
    BY ToSetEmpty
  <2> DEFINE h == Head(ss[j])
  <2>3. h \in Row /\ NoneBefore(ss[j], h, by)
    BY <2>1, <2>2, NoneBeforeTail
  <2>4. Before(r, h, by) \/ (i < j /\ ~Before(h, r, by))
    BY <1>4, <2>2 DEF IsFirst
  <2> HIDE DEF h, r
  <2>5. y \in Row
    BY <2>1, ToSetType
  <2>6. ~Before(y, h, by)
    BY <2>3 DEF NoneBefore
  <2>7. ~Before(h, r, by)
    BY <1>3, <2>3, <2>4, BeforeOrder
  <2>8. ~Before(y, r, by)
    BY <1>3, <2>3, <2>5, <2>6, <2>7, BeforeOrder
  <2>9. j < i => Before(r, h, by)
    BY <1>1, <2>4
  <2>10. j < i => Before(r, y, by)
    BY <1>3, <2>3, <2>5, <2>6, <2>9, BeforeOrder
  <2> QED
    BY <2>5, <2>8, <2>10
<1> HIDE DEF r
<1>5. NoneBefore(Z, r, by)
  <2> SUFFICES ASSUME NEW y \in ToSet(Z) PROVE ~Before(y, r, by)
    BY DEF NoneBefore
  <2>1. y \in ToSet(Y)
    BY <1>2, StableSortSet
  <2>2. PICK t \in ToSet(tt) : y \in ToSet(t)
    BY <2>1, ToSetFlatten
  <2>3. PICK j \in 1..Len(ss) : t = tt[j]
    BY <1>1 DEF ToSet
  <2>4. CASE j = i
    BY <1>3, <2>2, <2>3, <2>4 DEF NoneBefore
  <2>5. CASE j # i
    BY <1>1, <1>4, <2>2, <2>3, <2>5
  <2> QED
    BY <2>4, <2>5
<1>6. Sorted(Z, by) /\ SameRows(Z, Y)
  BY <1>2, StableSortSorts DEF IsSort
<1>7. Sorted(<<r>> \o Z, by)
  BY <1>2, <1>3, <1>5, <1>6, SortedFront
<1>8. ASSUME NEW k \in Nat PROVE KeyRows(X, k) = KeyRows(<<r>> \o Z, k)
  <2> DEFINE K(uu) == [j \in DOMAIN uu |-> KeyRows(uu[j], k)]
             e == IF r.k = k THEN <<r>> ELSE << >>
  <2>1. KeyRows(X, k) = FlattenSeq(K(ss)) /\ KeyRows(Y, k) = FlattenSeq(K(tt))
    BY KeepFlatten DEF KeyRows
  <2>2. /\ DOMAIN K(ss) = 1..Len(ss) /\ DOMAIN K(tt) = 1..Len(ss)
        /\ \A j \in 1..Len(ss) : K(ss)[j] = KeyRows(ss[j], k) /\ K(tt)[j] = KeyRows(tt[j], k)
    BY <1>1
  <2>3. \A j \in 1..Len(ss) : KeyRows(ss[j], k) \in Seq(Row) /\ KeyRows(tt[j], k) \in Seq(Row)
    BY <1>1, KeyRowsType DEF V
  <2> DEFINE A == K(ss)
             B == K(tt)
  <2>4. A \in Seq(Seq(Row)) /\ B \in Seq(Seq(Row)) /\ Len(A) = Len(ss) /\ Len(B) = Len(ss)
    <3>1. A = [j \in 1..Len(ss) |-> KeyRows(ss[j], k)] /\ B = [j \in 1..Len(ss) |-> KeyRows(tt[j], k)]
      BY <1>1
    <3>2. \A j \in 1..Len(ss) : KeyRows(ss[j], k) \in V /\ KeyRows(tt[j], k) \in V
      BY <2>3 DEF V
    <3> HIDE DEF A, B
    <3>3. A \in Seq(V) /\ Len(A) = Len(ss)
      BY <1>1, <3>1, <3>2
    <3>4. B \in Seq(V) /\ Len(B) = Len(ss)
      BY <1>1, <3>1, <3>2
    <3> QED
      BY <3>3, <3>4 DEF V
  <2>5. e \in Seq(Row)
    BY <1>3
  <2>6. KeyRows(ss[i], k) = e \o KeyRows(tt[i], k)
    <3>1. KeyRows(ss[i], k) = IF r.k = k THEN <<r>> \o KeyRows(tt[i], k) ELSE KeyRows(tt[i], k)
      <4> DEFINE u == tt[i]
      <4>1. u \in Seq(Row) /\ ss[i] = <<r>> \o u
        BY <1>3
      <4> HIDE DEF u
      <4>2. KeyRows(<<r>> \o u, k) = IF r.k = k THEN <<r>> \o KeyRows(u, k) ELSE KeyRows(u, k)
        BY <1>3, <4>1, KeyRowsFront
      <4> QED
        BY <4>1, <4>2 DEF u
    <3>2. << >> \o KeyRows(tt[i], k) = KeyRows(tt[i], k)
      BY <1>1, <2>3, ConcatEmptySeq
    <3> QED
      BY <3>1, <3>2
  <2>7. e = << >> \/ \A j \in 1..(i - 1) : KeyRows(ss[j], k) = << >>
    <3> SUFFICES ASSUME r.k = k, NEW j \in 1..(i - 1) PROVE KeyRows(ss[j], k) = << >>
      OBVIOUS
    <3>1. j \in 1..Len(ss) /\ j # i /\ j < i /\ ss[j] \in Seq(Row)
      BY <1>1, SMTT(30) DEF V
    <3>2. \A y \in ToSet(ss[j]) : y.k # k
      BY <1>3, <1>4, <3>1, BeforeOrder
    <3> QED
      BY <3>1, <3>2, KeyRowsNone
  <2> HIDE DEF e
  <2>8. TakenFrom(A, B, e, i)
    <3>1. \A j \in 1..Len(ss) : A[j] = KeyRows(ss[j], k) /\ B[j] = KeyRows(tt[j], k)
      BY <2>2
    <3>2. Len(A) = Len(ss) /\ Len(B) = Len(ss)
      BY <2>4
    <3>3. \A j \in 1..(i - 1) : j \in 1..Len(ss)
      BY <1>1
    <3> HIDE DEF A, B
    <3> QED
      BY <1>1, <2>6, <2>7, <3>1, <3>2, <3>3 DEF TakenFrom
  <2>9. FlattenSeq(A) = e \o FlattenSeq(B)
    <3> HIDE DEF A, B
    <3> QED
      BY <2>4, <2>5, <2>8, FlattenTake
  <2>10. KeyRows(X, k) = e \o KeyRows(Y, k)
    BY <2>1, <2>9
  <2>11. KeyRows(<<r>> \o Z, k) = IF r.k = k THEN <<r>> \o KeyRows(Z, k) ELSE KeyRows(Z, k)
    BY <1>2, <1>3, KeyRowsFront
  <2>12. KeyRows(Z, k) = KeyRows(Y, k) /\ << >> \o KeyRows(Y, k) = KeyRows(Y, k)
    <3>1. KeyRows(Y, k) \in Seq(Row)
      BY <1>2, KeyRowsType
    <3> QED
      BY <1>6, <3>1, ConcatEmptySeq DEF SameRows
  <2> HIDE DEF X, Y, Z
  <2> QED
    BY <2>10, <2>11, <2>12 DEF e
<1>9. StableSort(X, by) = <<r>> \o Z
  <2>1. <<r>> \o Z \in Seq(Row)
    BY <1>2, <1>3
  <2>2. IsSort(<<r>> \o Z, X, by)
    BY <1>7, <1>8, <2>1 DEF IsSort, SameRows
  <2> QED
    BY <1>2, <2>2, StableSortIs
<1>10. \A j \in 1..Len(tt) : Sorted(tt[j], by)
  BY <1>1, <1>3
<1> QED
  BY <1>9, <1>10 DEF r

----------------------------------------------------------------------------
\* Tables that are sorted uniquely, and SortedUpdate

Above(s, k) == \A x \in ToSet(s) : k < x.k

LEMMA KeysSet == \A s : Keys(s) = {x.k : x \in ToSet(s)}
  BY DEF Keys, ToSet

LEMMA UniqueFront ==
  ASSUME NEW r \in Row, NEW s \in Seq(Row), UniquelySorted(s), Above(s, r.k)
  PROVE  UniquelySorted(<<r>> \o s)
<1> DEFINE w == <<r>> \o s
<1>1. /\ Len(s) \in Nat /\ DOMAIN w = 1..(Len(s) + 1) /\ w[1] = r /\ DOMAIN s = 1..Len(s)
      /\ \A i \in 1..Len(s) : w[i + 1] = s[i]
  OBVIOUS
<1> HIDE DEF w
<1> SUFFICES ASSUME NEW i \in DOMAIN w, NEW j \in DOMAIN w, i < j PROVE w[i].k < w[j].k
  BY DEF UniquelySorted, w
<1>2. j - 1 \in 1..Len(s) /\ w[j] = s[j - 1]
  <2>1. j - 1 \in 1..Len(s) /\ (j - 1) + 1 = j
    BY <1>1
  <2> QED
    BY <1>1, <2>1
<1>3. CASE i = 1
  <2>1. s[j - 1] \in ToSet(s)
    BY <1>1, <1>2, ToSetMember
  <2> QED
    BY <1>1, <1>2, <1>3, <2>1 DEF Above
<1>4. CASE i # 1
  <2>1. i - 1 \in 1..Len(s) /\ (i - 1) + 1 = i /\ i - 1 < j - 1
    BY <1>1, <1>4
  <2>2. w[i] = s[i - 1]
    BY <1>1, <2>1
  <2> QED
    BY <1>1, <1>2, <2>1, <2>2 DEF UniquelySorted
<1> QED
  BY <1>3, <1>4

LEMMA UniqueTail ==
  ASSUME NEW r \in Row, NEW s \in Seq(Row), UniquelySorted(<<r>> \o s)
  PROVE  UniquelySorted(s) /\ Above(s, r.k)
<1> DEFINE w == <<r>> \o s
<1>1. /\ Len(s) \in Nat /\ DOMAIN w = 1..(Len(s) + 1) /\ w[1] = r /\ DOMAIN s = 1..Len(s)
      /\ \A i \in 1..Len(s) : w[i + 1] = s[i]
  OBVIOUS
<1>2. UniquelySorted(w)
  OBVIOUS
<1> HIDE DEF w
<1>3. UniquelySorted(s)
  <2> SUFFICES ASSUME NEW i \in DOMAIN s, NEW j \in DOMAIN s, i < j PROVE s[i].k < s[j].k
    BY DEF UniquelySorted
  <2>1. i + 1 \in DOMAIN w /\ j + 1 \in DOMAIN w /\ i + 1 < j + 1
    BY <1>1
  <2>2. w[i + 1].k < w[j + 1].k
    BY <1>2, <2>1 DEF UniquelySorted
  <2> QED
    BY <1>1, <2>2
<1>4. ASSUME NEW x \in ToSet(s) PROVE r.k < x.k
  <2>1. PICK j \in DOMAIN s : x = s[j]
    BY DEF ToSet
  <2>2. 1 \in DOMAIN w /\ j + 1 \in DOMAIN w /\ 1 < j + 1
    BY <1>1
  <2>3. w[1].k < w[j + 1].k
    BY <1>2, <2>2 DEF UniquelySorted
  <2> QED
    BY <1>1, <2>1, <2>3
<1> QED
  BY <1>3, <1>4 DEF Above

LEMMA UniqueEmpty == UniquelySorted(<< >>)
  BY DEF UniquelySorted

LEMMA AboveTypes ==
  ASSUME NEW s \in Seq(Row)
  PROVE  \A x \in ToSet(s) : x \in Row /\ x.k \in Nat
  BY ToSetType DEF Row

\* A sequence that is sorted uniquely is determined by what occurs in it.
LEMMA UniqueUnique ==
  \A x, y \in Seq(Row) : UniquelySorted(x) /\ UniquelySorted(y) /\ ToSet(x) = ToSet(y) => x = y
<1> DEFINE U == {x \in Seq(Row) : \A y \in Seq(Row) :
                   UniquelySorted(x) /\ UniquelySorted(y) /\ ToSet(x) = ToSet(y) => x = y}
<1>1. << >> \in U
  BY ToSetEmpty, ToSetNone
<1>2. ASSUME NEW s \in Seq(Row), NEW r \in Row, s \in U PROVE <<r>> \o s \in U
  <2>1. <<r>> \o s \in Seq(Row) /\ r.k \in Nat
    BY DEF Row
  <2> SUFFICES ASSUME NEW y \in Seq(Row), UniquelySorted(<<r>> \o s), UniquelySorted(y),
                      ToSet(<<r>> \o s) = ToSet(y)
               PROVE  <<r>> \o s = y
    BY <2>1
  <2>2. UniquelySorted(s) /\ Above(s, r.k)
    BY UniqueTail
  <2>3. ToSet(y) = {r} \cup ToSet(s) /\ y # << >>
    BY ToSetFront, ToSetEmpty
  <2> DEFINE q == Head(y)
             t == Tail(y)
  <2>4. q \in Row /\ t \in Seq(Row) /\ y = <<q>> \o t
    BY <2>3, HeadFacts
  <2> HIDE DEF q, t, U
  <2>5. UniquelySorted(t) /\ Above(t, q.k) /\ q.k \in Nat
    BY <2>4, UniqueTail DEF Row
  <2>6. ToSet(y) = {q} \cup ToSet(t)
    BY <2>4, ToSetFront
  <2>7. \A x \in ToSet(s) \cup ToSet(t) : x.k \in Nat
    BY <2>4, AboveTypes
  <2>8. r = q
    <3> SUFFICES ASSUME r # q PROVE FALSE
      OBVIOUS
    <3>1. q \in ToSet(s) /\ r \in ToSet(t)
      BY <2>3, <2>6
    <3>2. r.k < q.k /\ q.k < r.k
      BY <2>2, <2>5, <3>1 DEF Above
    <3> QED
      BY <2>1, <2>5, <3>2
  <2>9. r \notin ToSet(s) /\ q \notin ToSet(t)
    BY <2>1, <2>2, <2>5 DEF Above
  <2>10. ToSet(s) = ToSet(t)
    <3> DEFINE A == ToSet(s)
               B == ToSet(t)
    <3>1. {r} \cup A = {r} \cup B /\ r \notin A /\ r \notin B
      BY <2>3, <2>6, <2>8, <2>9
    <3> HIDE DEF A, B
    <3>2. A = B
      <4>1. ASSUME NEW x \in A PROVE x \in B
        BY <3>1
      <4>2. ASSUME NEW x \in B PROVE x \in A
        BY <3>1
      <4> QED
        BY <4>1, <4>2
    <3> QED
      BY <3>2 DEF A, B
  <2>11. s = t
    BY <1>2, <2>2, <2>4, <2>5, <2>10 DEF U
  <2> QED
    BY <2>4, <2>8, <2>11
<1>3. \A x \in Seq(Row) : x \in U
  <2> HIDE DEF U
  <2> QED
    BY <1>1, <1>2, FrontInduction
<1> QED
  BY <1>3

LEMMA UniqueKeep ==
  ASSUME NEW T
  PROVE  \A s \in Seq(Row) : UniquelySorted(s) => UniquelySorted(Keep(s, T))
<1> DEFINE U == {s \in Seq(Row) : UniquelySorted(s) => UniquelySorted(Keep(s, T))}
<1>1. << >> \in U
  BY KeepEmpty
<1>2. ASSUME NEW s \in Seq(Row), NEW r \in Row, s \in U PROVE <<r>> \o s \in U
  <2>1. <<r>> \o s \in Seq(Row)
    OBVIOUS
  <2> SUFFICES ASSUME UniquelySorted(<<r>> \o s) PROVE UniquelySorted(Keep(<<r>> \o s, T))
    BY <2>1
  <2>2. UniquelySorted(s) /\ Above(s, r.k)
    BY UniqueTail
  <2> DEFINE t == Keep(s, T)
  <2>3. UniquelySorted(t) /\ t \in Seq(Row)
    BY <1>2, <2>2, KeepType
  <2>4. ToSet(t) \subseteq ToSet(s)
    BY KeepSet
  <2>5. Keep(<<r>> \o s, T) = IF r \in T THEN <<r>> \o t ELSE t
    BY KeepFront
  <2> HIDE DEF t, U
  <2>6. UniquelySorted(<<r>> \o t)
    BY <2>2, <2>3, <2>4, UniqueFront DEF Above
  <2> QED
    BY <2>3, <2>5, <2>6
<1>3. \A x \in Seq(Row) : x \in U
  <2> HIDE DEF U
  <2> QED
    BY <1>1, <1>2, FrontInduction
<1> QED
  BY <1>3

LEMMA UniqueKeyRows ==
  ASSUME NEW k
  PROVE  \A s \in Seq(Row) : UniquelySorted(s) => Len(KeyRows(s, k)) <= 1
<1> DEFINE U == {s \in Seq(Row) : UniquelySorted(s) => Len(KeyRows(s, k)) <= 1}
<1>1. << >> \in U
  BY KeyRowsEmpty
<1>2. ASSUME NEW s \in Seq(Row), NEW r \in Row, s \in U PROVE <<r>> \o s \in U
  <2>1. <<r>> \o s \in Seq(Row) /\ r.k \in Nat
    BY DEF Row
  <2> SUFFICES ASSUME UniquelySorted(<<r>> \o s) PROVE Len(KeyRows(<<r>> \o s, k)) <= 1
    BY <2>1
  <2>2. UniquelySorted(s) /\ Above(s, r.k)
    BY UniqueTail
  <2>3. Len(KeyRows(s, k)) <= 1
    BY <1>2, <2>2
  <2>4. KeyRows(<<r>> \o s, k) = IF r.k = k THEN <<r>> \o KeyRows(s, k) ELSE KeyRows(s, k)
    BY KeyRowsFront
  <2>5. CASE r.k = k
    <3>1. \A x \in ToSet(s) : x.k # k
      BY <2>1, <2>2, <2>5 DEF Above
    <3>2. KeyRows(s, k) = << >>
      BY <3>1, KeyRowsNone
    <3>3. Len(<<r>> \o KeyRows(s, k)) = 1
      BY <3>2
    <3> QED
      BY <2>4, <2>5, <3>3
  <2>6. CASE r.k # k
    BY <2>3, <2>4, <2>6
  <2> QED
    BY <2>5, <2>6
<1>3. \A x \in Seq(Row) : x \in U
  <2> HIDE DEF U
  <2> QED
    BY <1>1, <1>2, FrontInduction
<1> QED
  BY <1>3

LEMMA OrderedBefore ==
  ASSUME NEW r \in Row, NEW s \in Row, NEW by \in Order, by.less = TRUE, by.nulls_first = TRUE
  PROVE  Before(r, s, by) <=> r.k < s.k
<1> DEFINE a == r.k
           b == s.k
<1>1. a \in Nat /\ b \in Nat
  BY DEF Row
<1>2. Before(r, s, by) <=> IF (a = 0) # (b = 0) THEN (a = 0) = by.nulls_first ELSE a # b /\ ((a < b) = by.less)
  BY DEF Before, Null
<1>3. Before(r, s, by) <=> IF (a = 0) # (b = 0) THEN (a = 0) = TRUE ELSE a # b /\ ((a < b) = TRUE)
  BY <1>2
<1> HIDE DEF a, b
<1>4. CASE a = 0 /\ b # 0
  <2>1. Before(r, s, by)
    BY <1>3, <1>4, Zenon
  <2>2. a < b
    BY <1>1, <1>4
  <2> QED BY <2>1, <2>2 DEF a, b
<1>5. CASE a # 0 /\ b = 0
  <2>1. ~Before(r, s, by)
    BY <1>3, <1>5, Zenon
  <2>2. ~(a < b)
    BY <1>1, <1>5
  <2> QED BY <2>1, <2>2 DEF a, b
<1>6. CASE (a = 0 /\ b = 0) \/ (a # 0 /\ b # 0)
  <2>1. Before(r, s, by) <=> a # b /\ ((a < b) = TRUE)
    BY <1>3, <1>6, Zenon
  <2>2. Before(r, s, by) <=> a # b /\ a < b
    BY <2>1, Zenon
  <2>3. a # b /\ a < b <=> a < b
    BY <1>1
  <2> QED BY <2>2, <2>3 DEF a, b
<1> QED BY <1>4, <1>5, <1>6

LEMMA AscendingBefore ==
  ASSUME NEW r \in Row, NEW s \in Row
  PROVE  /\ Ascending \in Order
         /\ Before(r, s, Ascending) <=> r.k < s.k
<1>1. Ascending \in Order /\ Ascending.less = TRUE /\ Ascending.nulls_first = TRUE
  BY DEF Ascending, Order
<1> QED
  BY <1>1, OrderedBefore

LEMMA FewSorted ==
  \A s \in Seq(Row) : Sorted(s, Ascending) /\ (\A k \in Nat : Len(KeyRows(s, k)) <= 1) => UniquelySorted(s)
<1> DEFINE U == {s \in Seq(Row) : Sorted(s, Ascending) /\ (\A k \in Nat : Len(KeyRows(s, k)) <= 1)
                                     => UniquelySorted(s)}
<1>1. << >> \in U
  BY UniqueEmpty
<1>2. ASSUME NEW s \in Seq(Row), NEW r \in Row, s \in U PROVE <<r>> \o s \in U
  <2>1. <<r>> \o s \in Seq(Row) /\ r.k \in Nat
    BY DEF Row
  <2> SUFFICES ASSUME Sorted(<<r>> \o s, Ascending), \A k \in Nat : Len(KeyRows(<<r>> \o s, k)) <= 1
               PROVE  UniquelySorted(<<r>> \o s)
    BY <2>1
  <2>2. Sorted(s, Ascending) /\ NoneBefore(s, r, Ascending)
    BY SortedTail
  <2>3. ASSUME NEW k \in Nat
        PROVE  Len(KeyRows(s, k)) <= 1 /\ (r.k = k => KeyRows(s, k) = << >>)
    <3>1. KeyRows(<<r>> \o s, k) = IF r.k = k THEN <<r>> \o KeyRows(s, k) ELSE KeyRows(s, k)
      BY KeyRowsFront
    <3>2. Len(KeyRows(<<r>> \o s, k)) <= 1
      OBVIOUS
    <3> DEFINE t == KeyRows(s, k)
    <3>3. t \in Seq(Row)
      BY KeyRowsType
    <3> HIDE DEF t
    <3>4. Len(<<r>> \o t) = Len(t) + 1 /\ Len(t) \in Nat /\ (Len(t) = 0 => t = << >>)
      BY <3>3
    <3>5. CASE r.k = k
      <4>1. Len(<<r>> \o t) <= 1
        BY <3>1, <3>2, <3>5 DEF t
      <4>2. Len(t) = 0
        BY <3>4, <4>1
      <4> QED
        BY <3>4, <4>2 DEF t
    <3>6. CASE r.k # k
      BY <3>1, <3>2, <3>6
    <3> QED
      BY <3>5, <3>6
  <2>4. UniquelySorted(s)
    BY <1>2, <2>2, <2>3
  <2>5. KeyRows(s, r.k) = << >>
    BY <2>1, <2>3
  <2>6. ASSUME NEW x \in ToSet(s) PROVE r.k < x.k
    <3>1. x.k # r.k /\ x \in Row /\ x.k \in Nat
      BY <2>5, KeyRowsNone, AboveTypes
    <3>2. ~Before(x, r, Ascending)
      BY <2>2 DEF NoneBefore
    <3>3. ~(x.k < r.k)
      BY <3>1, <3>2, AscendingBefore
    <3> DEFINE a == r.k
               b == x.k
    <3>4. a \in Nat /\ b \in Nat /\ a # b /\ ~(b < a)
      BY <2>1, <3>1, <3>3
    <3> HIDE DEF a, b
    <3>5. a < b
      BY <3>4
    <3> QED
      BY <3>5 DEF a, b
  <2> QED
    BY <2>4, <2>6, UniqueFront DEF Above
<1>3. \A x \in Seq(Row) : x \in U
  <2> HIDE DEF U
  <2> QED
    BY <1>1, <1>2, FrontInduction
<1> QED
  BY <1>3

\* The rows that an update leaves
Leaves(b, u) == {r \in ToSet(b) : r.k \notin Keys(u)}
                  \cup {Updated(r) : r \in {x \in ToSet(u) : x.u # UpdateDelete}}

IsUpdate(x, b, u) == x \in Seq(Row) /\ UniquelySorted(x) /\ ToSet(x) = Leaves(b, u)

WithoutKeys(K) == {r \in Row : r.k \notin K}

LEMMA OnlyWithoutKeys ==
  ASSUME NEW s \in Seq(Row), NEW K
  PROVE  Only(s, LAMBDA r : r.k \notin K) = Keep(s, WithoutKeys(K))
<1>1. \A i \in DOMAIN s : s[i] \in Row
  OBVIOUS
<1>2. ASSUME NEW i \in DOMAIN s
      PROVE  KeepMap(WithoutKeys(K))[s[i]] = IF s[i].k \notin K THEN <<s[i]>> ELSE << >>
  BY <1>1 DEF KeepMap, WithoutKeys
<1>3. [i \in DOMAIN s |-> KeepMap(WithoutKeys(K))[s[i]]]
        = [i \in DOMAIN s |-> IF s[i].k \notin K THEN <<s[i]>> ELSE << >>]
  BY <1>2
<1> QED
  BY <1>3 DEF Only, Keep, FlatOf

UpdatedRows(s) == [i \in DOMAIN s |-> Updated(s[i])]

LEMMA UpdatedRow ==
  ASSUME NEW r \in Row
  PROVE  Updated(r) \in Row /\ Updated(r).k = r.k
  BY DEF Updated, Row

LEMMA UpdatedRowsFacts ==
  ASSUME NEW s \in Seq(Row)
  PROVE  /\ UpdatedRows(s) \in Seq(Row)
         /\ ToSet(UpdatedRows(s)) = {Updated(r) : r \in ToSet(s)}
         /\ Keys(UpdatedRows(s)) = Keys(s)
         /\ UniquelySorted(s) => UniquelySorted(UpdatedRows(s))
<1>1. /\ DOMAIN s = DOMAIN UpdatedRows(s) /\ \A i \in DOMAIN s : UpdatedRows(s)[i] = Updated(s[i])
      /\ DOMAIN s = 1..Len(s) /\ Len(s) \in Nat
  BY DEF UpdatedRows
<1>2. \A i \in DOMAIN s : s[i] \in Row /\ Updated(s[i]) \in Row /\ Updated(s[i]).k = s[i].k
  BY UpdatedRow
<1>3. UpdatedRows(s) \in Seq(Row)
  <2> DEFINE h == [r \in Row |-> Updated(r)]
  <2>1. h \in [Row -> Row]
    BY UpdatedRow
  <2>2. UpdatedRows(s) = Given(s, h)
    BY <1>2 DEF UpdatedRows, Given
  <2> QED
    BY <2>1, <2>2, GivenType
<1>4. ToSet(UpdatedRows(s)) = {Updated(r) : r \in ToSet(s)}
  <2>1. ToSet(UpdatedRows(s)) = {UpdatedRows(s)[i] : i \in DOMAIN s}
    BY <1>1 DEF ToSet
  <2>2. {UpdatedRows(s)[i] : i \in DOMAIN s} = {Updated(s[i]) : i \in DOMAIN s}
    BY <1>1
  <2>3. {Updated(s[i]) : i \in DOMAIN s} = {Updated(r) : r \in ToSet(s)}
    BY DEF ToSet
  <2> QED
    BY <2>1, <2>2, <2>3
<1>5. Keys(UpdatedRows(s)) = Keys(s)
  <2>1. \A i \in DOMAIN s : UpdatedRows(s)[i].k = s[i].k
    BY <1>1, <1>2
  <2> QED
    BY <1>1, <2>1 DEF Keys
<1>6. ASSUME UniquelySorted(s) PROVE UniquelySorted(UpdatedRows(s))
  <2>1. \A i \in DOMAIN s : UpdatedRows(s)[i].k = s[i].k
    BY <1>1, <1>2
  <2> QED
    BY <1>1, <1>6, <2>1 DEF UniquelySorted
<1> QED
  BY <1>3, <1>4, <1>5, <1>6

\* In a table that is sorted uniquely a key says which row it is.
LEMMA UniqueRow ==
  ASSUME NEW s \in Seq(Row), UniquelySorted(s), NEW x \in ToSet(s), NEW y \in ToSet(s), x.k = y.k
  PROVE  x = y
<1>1. PICK i \in DOMAIN s : x = s[i]
  BY DEF ToSet
<1>2. PICK j \in DOMAIN s : y = s[j]
  BY DEF ToSet
<1>3. i \in Nat /\ j \in Nat /\ s[i].k \in Nat /\ s[j].k \in Nat
  <2>1. i \in Nat /\ j \in Nat /\ s[i] \in Row /\ s[j] \in Row
    OBVIOUS
  <2> QED
    BY <2>1 DEF Row
<1>4. ~(i < j) /\ ~(j < i)
  <2>1. i < j => s[i].k < s[j].k
    BY DEF UniquelySorted
  <2>2. j < i => s[j].k < s[i].k
    BY DEF UniquelySorted
  <2> QED
    BY <1>1, <1>2, <1>3, <2>1, <2>2
<1> QED
  BY <1>1, <1>2, <1>3, <1>4

DeletedKeys(u) == {u[i].k : i \in {n \in DOMAIN u : u[n].u = UpdateDelete}}

LEMMA Undeleted ==
  ASSUME NEW u \in Seq(Row), UniquelySorted(u)
  PROVE  ToSet(u) \cap WithoutKeys(DeletedKeys(u)) = {x \in ToSet(u) : x.u # UpdateDelete}
<1>1. ToSet(u) \subseteq Row
  BY ToSetType
<1>2. DeletedKeys(u) = {x.k : x \in {y \in ToSet(u) : y.u = UpdateDelete}}
  BY DEF DeletedKeys, ToSet
<1>3. ASSUME NEW x \in ToSet(u), x.k \in DeletedKeys(u)
      PROVE  x.u = UpdateDelete
  BY <1>2, <1>3, UniqueRow
<1>4. ASSUME NEW x \in ToSet(u), x.u = UpdateDelete
      PROVE  x.k \in DeletedKeys(u)
  BY <1>2, <1>4
<1> QED
  BY <1>1, <1>3, <1>4 DEF WithoutKeys

LEMMA KeysMember ==
  ASSUME NEW s, NEW k
  PROVE  k \in Keys(s) <=> \E x \in ToSet(s) : x.k = k
  BY KeysSet

\* The rows that an update leaves, sorted uniquely
LEMMA SortedUpdateLeaves ==
  ASSUME NEW b \in Seq(Row), NEW u \in Seq(Row), UniquelySorted(b), UniquelySorted(u)
  PROVE  IsUpdate(SortedUpdate(b, u), b, u)
<1> DEFINE A == Keep(b, WithoutKeys(Keys(u)))
           B == Keep(u, WithoutKeys(DeletedKeys(u)))
           C == UpdatedRows(B)
           w == A \o C
           x == StableSort(w, Ascending)
<1>1. SortedUpdate(b, u) = x
  <2>1. Only(b, LAMBDA r : r.k \notin Keys(u)) = A
    BY OnlyWithoutKeys
  <2>2. Only(u, LAMBDA r : r.k \notin DeletedKeys(u)) = B
    BY OnlyWithoutKeys
  <2> HIDE DEF A, B
  <2> QED
    BY <2>1, <2>2 DEF SortedUpdate, DeletedKeys, UpdatedRows
<1>2. A \in Seq(Row) /\ ToSet(A) = ToSet(b) \cap WithoutKeys(Keys(u)) /\ UniquelySorted(A)
  BY KeepType, KeepSet, UniqueKeep
<1>3. /\ B \in Seq(Row) /\ UniquelySorted(B)
      /\ ToSet(B) = {y \in ToSet(u) : y.u # UpdateDelete}
  BY KeepType, KeepSet, UniqueKeep, Undeleted
<1> HIDE DEF A, B
<1>4. /\ C \in Seq(Row) /\ UniquelySorted(C)
      /\ ToSet(C) = {Updated(r) : r \in {y \in ToSet(u) : y.u # UpdateDelete}}
      /\ Keys(C) = Keys(B)
  BY <1>3, UpdatedRowsFacts
<1>5. Keys(C) \subseteq Keys(u)
  BY <1>3, <1>4, KeysSet
<1> HIDE DEF C
<1>6. w \in Seq(Row) /\ ToSet(w) = ToSet(A) \cup ToSet(C)
  BY <1>2, <1>4, ToSetConcat
<1>7. IsSort(x, w, Ascending) /\ ToSet(x) = ToSet(w)
  <2>1. Ascending \in Order
    BY DEF Ascending, Order
  <2> QED
    BY <1>6, <2>1, StableSortSorts, StableSortSet
<1>8. ASSUME NEW k \in Nat PROVE Len(KeyRows(w, k)) <= 1
  <2>1. KeyRows(w, k) = KeyRows(A, k) \o KeyRows(C, k)
    BY <1>2, <1>4, KeyRowsConcat, SMTT(30)
  <2>2. Len(KeyRows(A, k)) <= 1 /\ Len(KeyRows(C, k)) <= 1
    BY <1>2, <1>4, UniqueKeyRows
  <2>3. KeyRows(A, k) \in Seq(Row) /\ KeyRows(C, k) \in Seq(Row)
    BY <1>2, <1>4, KeyRowsType
  <2>4. KeyRows(A, k) = << >> \/ KeyRows(C, k) = << >>
    <3>1. KeyRows(A, k) = << >> <=> \A r \in ToSet(A) : r.k # k
      BY <1>2, KeyRowsNone
    <3>2. KeyRows(C, k) = << >> <=> \A r \in ToSet(C) : r.k # k
      BY <1>4, KeyRowsNone
    <3>3. \A r \in ToSet(A) : r.k \notin Keys(u)
      BY <1>2 DEF WithoutKeys
    <3>4. \A r \in ToSet(C) : r.k \in Keys(u)
      BY <1>5, KeysMember
    <3> QED
      BY <3>1, <3>2, <3>3, <3>4
  <2> DEFINE p == KeyRows(A, k)
             q == KeyRows(C, k)
  <2>5. Len(p \o q) <= 1
    <3>1. Len(p) <= 1 /\ Len(q) <= 1 /\ p \in Seq(Row) /\ q \in Seq(Row) /\ (Len(p) = 0 \/ Len(q) = 0)
      BY <2>2, <2>3, <2>4
    <3> HIDE DEF p, q
    <3> QED
      BY <3>1
  <2> QED
    BY <2>1, <2>5
<1>9. UniquelySorted(x)
  <2>1. x \in Seq(Row) /\ Sorted(x, Ascending) /\ \A k \in Nat : Len(KeyRows(x, k)) <= 1
    BY <1>7, <1>8 DEF IsSort, SameRows
  <2> HIDE DEF x
  <2> QED
    BY <2>1, FewSorted
<1>10. ToSet(A) = {r \in ToSet(b) : r.k \notin Keys(u)}
  BY <1>2, ToSetType DEF WithoutKeys
<1> QED
  BY <1>1, <1>4, <1>6, <1>7, <1>9, <1>10 DEF IsUpdate, Leaves, IsSort

LEMMA SortedUpdateIs ==
  ASSUME NEW b \in Seq(Row), NEW u \in Seq(Row), UniquelySorted(b), UniquelySorted(u),
         NEW x, IsUpdate(x, b, u)
  PROVE  SortedUpdate(b, u) = x
<1>1. IsUpdate(SortedUpdate(b, u), b, u)
  BY SortedUpdateLeaves
<1> QED
  BY <1>1, UniqueUnique DEF IsUpdate

\* The keys that an update leaves
LEMMA LeavesKeys ==
  ASSUME NEW b \in Seq(Row), NEW u \in Seq(Row), NEW x \in Leaves(b, u)
  PROVE  x \in Row /\ (x \in ToSet(b) \/ \E y \in ToSet(u) : y.k = x.k)
<1>1. ToSet(b) \subseteq Row /\ ToSet(u) \subseteq Row
  BY ToSetType
<1> QED
  BY <1>1, UpdatedRow DEF Leaves

\* Every row of an update says what to do, and inserts only what is not there.
CanApply(b, u) == \A y \in ToSet(u) : /\ y.u \in {UpdateInsert, UpdateReplace, UpdateDelete}
                                      /\ y.u = UpdateInsert => \A x \in ToSet(b) : x.k # y.k

LEMMA CanUpdateIs ==
  \A b, u : CanUpdate(b, u) <=> UniquelySorted(b) /\ UniquelySorted(u) /\ CanApply(b, u)
<1> SUFFICES ASSUME NEW b, NEW u
             PROVE  CanUpdate(b, u) <=> UniquelySorted(b) /\ UniquelySorted(u) /\ CanApply(b, u)
  OBVIOUS
<1>1. \A k : k \in Keys(b) <=> \E x \in ToSet(b) : x.k = k
  BY KeysMember
<1> DEFINE P(y) == /\ y.u \in {UpdateInsert, UpdateReplace, UpdateDelete}
                   /\ y.u = UpdateInsert => y.k \notin Keys(b)
<1>2. CanApply(b, u) <=> \A y \in ToSet(u) : P(y)
  BY <1>1 DEF CanApply
<1>3. CanUpdate(b, u) <=> UniquelySorted(b) /\ UniquelySorted(u) /\ \A i \in DOMAIN u : P(u[i])
  BY DEF CanUpdate
<1> HIDE DEF P
<1>4. (\A y \in ToSet(u) : P(y)) <=> \A i \in DOMAIN u : P(u[i])
  BY DEF ToSet
<1> QED
  BY <1>2, <1>3, <1>4

LEMMA NoKey ==
  ASSUME NEW s \in Seq(Row), NEW k \in Nat, Above(s, k)
  PROVE  k \notin Keys(s) /\ \A x \in ToSet(s) : x.k # k
<1>1. \A x \in ToSet(s) : x.k \in Nat
  BY AboveTypes
<1>2. \A x \in ToSet(s) : x.k # k
  BY <1>1 DEF Above
<1> QED
  BY <1>2, KeysMember

LEMMA KeysFront ==
  ASSUME NEW r \in Row, NEW s \in Seq(Row)
  PROVE  Keys(<<r>> \o s) = {r.k} \cup Keys(s)
  BY KeysSet, ToSetFront

LEMMA LeavesAbove ==
  ASSUME NEW b \in Seq(Row), NEW u \in Seq(Row), NEW k, Above(b, k), Above(u, k)
  PROVE  \A x \in Leaves(b, u) : k < x.k
  BY LeavesKeys DEF Above

\* The first row of the base is left if it comes before the update.
LEMMA UpdateCopies ==
  ASSUME NEW h \in Row, NEW b \in Seq(Row), NEW u \in Seq(Row), CanUpdate(<<h>> \o b, u), Above(u, h.k)
  PROVE  CanUpdate(b, u) /\ SortedUpdate(<<h>> \o b, u) = <<h>> \o SortedUpdate(b, u)
<1> DEFINE c == <<h>> \o b
           x == SortedUpdate(b, u)
<1>1. UniquelySorted(c) /\ UniquelySorted(u) /\ CanApply(c, u) /\ c \in Seq(Row) /\ h.k \in Nat
  BY CanUpdateIs DEF Row
<1>2. UniquelySorted(b) /\ Above(b, h.k)
  BY <1>1, UniqueTail
<1>3. ToSet(c) = {h} \cup ToSet(b)
  BY ToSetFront
<1>4. CanApply(b, u)
  BY <1>1, <1>3 DEF CanApply
<1>5. IsUpdate(x, b, u)
  BY <1>1, <1>2, SortedUpdateLeaves
<1> HIDE DEF x, c
<1>6. Above(x, h.k)
  BY <1>2, <1>5, LeavesAbove DEF IsUpdate, Above
<1>7. UniquelySorted(<<h>> \o x) /\ ToSet(<<h>> \o x) = {h} \cup ToSet(x) /\ <<h>> \o x \in Seq(Row)
  BY <1>5, <1>6, UniqueFront, ToSetFront DEF IsUpdate
<1>8. Leaves(c, u) = {h} \cup Leaves(b, u)
  <2>1. h.k \notin Keys(u)
    BY <1>1, NoKey
  <2> QED
    BY <1>3, <2>1 DEF Leaves
<1>9. IsUpdate(<<h>> \o x, c, u)
  BY <1>5, <1>7, <1>8 DEF IsUpdate
<1>10. SortedUpdate(c, u) = <<h>> \o x
  BY <1>1, <1>9, SortedUpdateIs
<1>11. CanUpdate(b, u)
  BY <1>1, <1>2, <1>4, CanUpdateIs
<1> QED
  BY <1>10, <1>11 DEF c, x

\* What one row of an update leaves
LeavesOf(r) == IF r.u = UpdateDelete THEN << >> ELSE <<Updated(r)>>

LEMMA LeavesOfFacts ==
  ASSUME NEW r \in Row, NEW x \in Seq(Row), UniquelySorted(x), Above(x, r.k)
  PROVE  /\ LeavesOf(r) \in Seq(Row) /\ LeavesOf(r) \o x \in Seq(Row) /\ UniquelySorted(LeavesOf(r) \o x)
         /\ ToSet(LeavesOf(r) \o x) = (IF r.u = UpdateDelete THEN {} ELSE {Updated(r)}) \cup ToSet(x)
<1>1. Updated(r) \in Row /\ Updated(r).k = r.k
  BY UpdatedRow
<1>2. CASE r.u = UpdateDelete
  <2>1. LeavesOf(r) = << >> /\ << >> \o x = x /\ << >> \in Seq(Row)
    BY <1>2 DEF LeavesOf
  <2> QED
    BY <1>2, <2>1
<1>3. CASE r.u # UpdateDelete
  <2> DEFINE d == Updated(r)
  <2>1. d \in Row /\ Above(x, d.k)
    BY <1>1
  <2>2. LeavesOf(r) = <<d>>
    BY <1>3 DEF LeavesOf
  <2> HIDE DEF d
  <2>3. UniquelySorted(<<d>> \o x) /\ ToSet(<<d>> \o x) = {d} \cup ToSet(x) /\ <<d>> \o x \in Seq(Row)
        /\ <<d>> \in Seq(Row)
    BY <2>1, UniqueFront, ToSetFront
  <2> QED
    BY <1>3, <2>2, <2>3 DEF d
<1> QED
  BY <1>2, <1>3

LEMMA LeavesFront ==
  ASSUME NEW r \in Row, NEW b, NEW u \in Seq(Row), \A x \in ToSet(b) : x.k # r.k
  PROVE  Leaves(b, <<r>> \o u) = (IF r.u = UpdateDelete THEN {} ELSE {Updated(r)}) \cup Leaves(b, u)
<1>1. Keys(<<r>> \o u) = {r.k} \cup Keys(u) /\ ToSet(<<r>> \o u) = {r} \cup ToSet(u)
  BY KeysFront, ToSetFront
<1>2. {x \in ToSet(b) : x.k \notin Keys(<<r>> \o u)} = {x \in ToSet(b) : x.k \notin Keys(u)}
  BY <1>1
<1>3. {Updated(x) : x \in {y \in ToSet(<<r>> \o u) : y.u # UpdateDelete}}
        = (IF r.u = UpdateDelete THEN {} ELSE {Updated(r)}) \cup {Updated(x) : x \in {y \in ToSet(u) : y.u # UpdateDelete}}
  BY <1>1
<1> QED
  BY <1>2, <1>3 DEF Leaves

\* The first row of the update is applied if it comes before the base.
LEMMA UpdateTakes ==
  ASSUME NEW r \in Row, NEW b \in Seq(Row), NEW u \in Seq(Row), CanUpdate(b, <<r>> \o u), Above(b, r.k)
  PROVE  CanUpdate(b, u) /\ SortedUpdate(b, <<r>> \o u) = LeavesOf(r) \o SortedUpdate(b, u)
<1> DEFINE v == <<r>> \o u
           x == SortedUpdate(b, u)
<1>1. UniquelySorted(b) /\ UniquelySorted(v) /\ CanApply(b, v) /\ v \in Seq(Row) /\ r.k \in Nat
  BY CanUpdateIs DEF Row
<1>2. UniquelySorted(u) /\ Above(u, r.k)
  BY <1>1, UniqueTail
<1>3. ToSet(v) = {r} \cup ToSet(u)
  BY ToSetFront
<1>4. CanApply(b, u)
  BY <1>1, <1>3 DEF CanApply
<1>5. IsUpdate(x, b, u)
  BY <1>1, <1>2, SortedUpdateLeaves
<1>6. Leaves(b, v) = (IF r.u = UpdateDelete THEN {} ELSE {Updated(r)}) \cup Leaves(b, u)
  BY <1>1, NoKey, LeavesFront
<1> HIDE DEF x, v
<1>7. Above(x, r.k)
  BY <1>2, <1>5, LeavesAbove DEF IsUpdate, Above
<1>8. IsUpdate(LeavesOf(r) \o x, b, v)
  BY <1>5, <1>6, <1>7, LeavesOfFacts DEF IsUpdate
<1>9. SortedUpdate(b, v) = LeavesOf(r) \o x
  BY <1>1, <1>8, SortedUpdateIs
<1>10. CanUpdate(b, u)
  BY <1>1, <1>2, <1>4, CanUpdateIs
<1> QED
  BY <1>9, <1>10 DEF v, x

\* The first row of the update replaces the first row of the base.
LEMMA UpdateReplaces ==
  ASSUME NEW h \in Row, NEW r \in Row, NEW b \in Seq(Row), NEW u \in Seq(Row), h.k = r.k,
         CanUpdate(<<h>> \o b, <<r>> \o u)
  PROVE  /\ CanUpdate(b, u) /\ r.u # UpdateInsert
         /\ SortedUpdate(<<h>> \o b, <<r>> \o u) = LeavesOf(r) \o SortedUpdate(b, u)
<1> DEFINE c == <<h>> \o b
           v == <<r>> \o u
<1>1. UniquelySorted(c) /\ UniquelySorted(v) /\ CanApply(c, v) /\ v \in Seq(Row) /\ c \in Seq(Row) /\ r.k \in Nat
  BY CanUpdateIs DEF Row
<1>2. UniquelySorted(b) /\ Above(b, r.k)
  BY <1>1, UniqueTail
<1>3. ToSet(c) = {h} \cup ToSet(b) /\ ToSet(v) = {r} \cup ToSet(u)
  BY ToSetFront, ZenonT(60)
<1>4. CanApply(b, v) /\ r.u # UpdateInsert
  BY <1>1, <1>3 DEF CanApply
<1>5. CanUpdate(b, v)
  BY <1>1, <1>2, <1>4, CanUpdateIs
<1>6. CanUpdate(b, u) /\ SortedUpdate(b, v) = LeavesOf(r) \o SortedUpdate(b, u)
  BY <1>2, <1>5, UpdateTakes
<1>7. Leaves(c, v) = Leaves(b, v)
  <2>1. h.k \in Keys(v)
    BY KeysFront
  <2> QED
    BY <1>3, <2>1 DEF Leaves
<1>8. IsUpdate(SortedUpdate(b, v), b, v)
  BY <1>1, <1>2, SortedUpdateLeaves
<1>9. IsUpdate(SortedUpdate(b, v), c, v)
  BY <1>7, <1>8 DEF IsUpdate
<1>10. SortedUpdate(c, v) = SortedUpdate(b, v)
  BY <1>1, <1>9, SortedUpdateIs
<1> QED
  BY <1>4, <1>6, <1>10

LEMMA UpdateNothing == SortedUpdate(<< >>, << >>) = << >>
<1>1. << >> \in Seq(Row) /\ ToSet(<< >>) = {}
  BY ToSetEmpty
<1>2. IsUpdate(<< >>, << >>, << >>)
  BY <1>1, UniqueEmpty DEF IsUpdate, Leaves
<1> QED
  BY <1>1, <1>2, UniqueEmpty, SortedUpdateIs

LEMMA SortedUpdateType ==
  ASSUME NEW b \in Seq(Row), NEW u \in Seq(Row), CanUpdate(b, u)
  PROVE  SortedUpdate(b, u) \in Seq(Row) /\ ToSet(SortedUpdate(b, u)) = Leaves(b, u)
  BY CanUpdateIs, SortedUpdateLeaves DEF IsUpdate

----------------------------------------------------------------------------
\* Functions defined by recursion over a sequence

\* f has what was reached from e after each element of s, by steps of g.
IsLoop(f, s, e, g, V) ==
  /\ f \in [0..Len(s) -> V] /\ f[0] = e
  /\ \A n \in 1..Len(s) : f[n - 1] \in V /\ f[n] = g[<<f[n - 1], s[n]>>]

LEMMA LoopExists ==
  ASSUME NEW V, NEW e \in V, NEW D, NEW s \in Seq(D), NEW g \in [V \X D -> V]
  PROVE  \E f : IsLoop(f, s, e, g, V)
<1> DEFINE m == Len(s)
           step == [n \in Nat |-> [x \in V |-> IF n \in 1..m THEN g[<<x, s[n]>>] ELSE x]]
<1>0. m \in Nat /\ \A n \in 1..m : s[n] \in D
  OBVIOUS
<1>1. \A n \in Nat, v \in V : step[n][v] \in V
  BY <1>0
<1>2. ASSUME NEW n \in 1..m, NEW v \in V PROVE step[n][v] = g[<<v, s[n]>>]
  <2>1. n \in Nat
    BY <1>0
  <2> QED
    BY <2>1
<1> HIDE DEF step, m
<1>3. \A l \in Nat : \E f \in [0..l -> V] : Recursive(f, l, e, step)
  BY <1>0, <1>1, RecursiveFunctionExists, Zenon
<1>4. PICK f \in [0..m -> V] : f[0] = e /\ \A n \in 1..m : f[n] = step[n][f[n - 1]]
  BY <1>0, <1>3 DEF Recursive
<1>5. ASSUME NEW n \in 1..m PROVE f[n - 1] \in V /\ f[n] = g[<<f[n - 1], s[n]>>]
  <2>1. n - 1 \in 0..m
    BY <1>0
  <2> QED
    BY <1>2, <1>4, <2>1
<1> QED
  BY <1>4, <1>5 DEF m, IsLoop

LEMMA LoopKeeps ==
  ASSUME NEW D, NEW s \in Seq(D), NEW K, NEW u, <<u[0], << >> >> \in K,
         \A n \in 0..(Len(s) - 1), p \in Seq(D) :
           <<u[n], p>> \in K => <<u[n + 1], Append(p, s[n + 1])>> \in K
  PROVE  <<u[Len(s)], s>> \in K
<1> DEFINE m == Len(s)
           T == {n \in Nat : <<u[n], SubSeq(s, 1, n)>> \in K}
<1>1. m \in Nat /\ SubSeq(s, 1, 0) = << >> /\ SubSeq(s, 1, m) = s
  OBVIOUS
<1>2. 0 \in T
  BY <1>1
<1>3. \A n \in 0..(m - 1) : n \in T => n + 1 \in T
  <2> SUFFICES ASSUME NEW n \in 0..(m - 1), n \in T PROVE n + 1 \in T
    OBVIOUS
  <2>1. /\ SubSeq(s, 1, n) \in Seq(D) /\ SubSeq(s, 1, n + 1) = Append(SubSeq(s, 1, n), s[n + 1])
        /\ n + 1 \in Nat
    BY <1>1
  <2> QED
    BY <2>1
<1>4. \A n \in 0..m : n \in T
  <2> HIDE DEF T, m
  <2> QED
    BY <1>1, <1>2, <1>3, BoundedInduction
<1>5. m \in 0..m
  BY <1>1
<1>6. m \in T
  BY <1>4, <1>5
<1> QED
  BY <1>1, <1>6

----------------------------------------------------------------------------
\* Given, of a sequence in two parts

LEMMA GivenConcat ==
  ASSUME NEW D, NEW s \in Seq(D), NEW t \in Seq(D), NEW g
  PROVE  Given(s \o t, g) = Given(s, g) \o Given(t, g)
<1> DEFINE V == {g[x] : x \in D}
           h == [x \in D |-> g[x]]
<1>1. h \in [D -> V]
  OBVIOUS
<1>2. \A u \in Seq(D) : Given(u, h) = Given(u, g) /\ Given(u, h) \in Seq(V)
  <2> SUFFICES ASSUME NEW u \in Seq(D) PROVE Given(u, h) = Given(u, g)
    BY <1>1, GivenType
  <2> QED
    BY DEF Given
<1>3. s \o t \in Seq(D) /\ Len(s) \in Nat /\ Len(t) \in Nat /\ Len(s \o t) = Len(s) + Len(t)
      /\ \A i \in 1..(Len(s) + Len(t)) : (s \o t)[i] = IF i <= Len(s) THEN s[i] ELSE t[i - Len(s)]
  OBVIOUS
<1> DEFINE a == Given(s, g)
           b == Given(t, g)
           c == Given(s \o t, g)
<1>4. a \in Seq(V) /\ b \in Seq(V) /\ c \in Seq(V)
  BY <1>2, <1>3
<1>5. /\ Len(a) = Len(s) /\ Len(b) = Len(t) /\ Len(c) = Len(s) + Len(t)
      /\ \A i \in 1..Len(s) : a[i] = g[s[i]]
      /\ \A i \in 1..Len(t) : b[i] = g[t[i]]
      /\ \A i \in 1..(Len(s) + Len(t)) : c[i] = g[(s \o t)[i]]
  <2>1. DOMAIN a = DOMAIN s /\ DOMAIN b = DOMAIN t /\ DOMAIN c = DOMAIN (s \o t)
    BY DEF Given
  <2>2. DOMAIN s = 1..Len(s) /\ DOMAIN t = 1..Len(t) /\ DOMAIN (s \o t) = 1..(Len(s) + Len(t))
    OBVIOUS
  <2> QED
    BY <1>3, <1>4, <2>1, <2>2 DEF Given
<1> HIDE DEF a, b, c, V, h
<1>6. \A i \in 1..(Len(s) + Len(t)) : c[i] = (a \o b)[i]
  <2> SUFFICES ASSUME NEW i \in 1..(Len(s) + Len(t)) PROVE c[i] = (a \o b)[i]
    OBVIOUS
  <2>1. (a \o b)[i] = IF i <= Len(a) THEN a[i] ELSE b[i - Len(a)]
    BY <1>3, <1>4, <1>5
  <2>2. CASE i <= Len(s)
    BY <1>3, <1>5, <2>1, <2>2
  <2>3. CASE ~(i <= Len(s))
    <3>1. i - Len(s) \in 1..Len(t)
      BY <1>3, <2>3
    <3> QED
      BY <1>3, <1>5, <2>1, <2>3, <3>1, SMTT(30)
  <2> QED
    BY <2>2, <2>3
<1>7. a \o b \in Seq(V) /\ Len(a \o b) = Len(s) + Len(t)
  BY <1>3, <1>4, <1>5
<1>8. c = a \o b
  <2>1. PICK d : d = a \o b
    OBVIOUS
  <2>2. c \in Seq(V) /\ d \in Seq(V) /\ Len(c) = Len(d)
    BY <1>3, <1>4, <1>5, <1>7, <2>1
  <2>3. \A i \in 1..Len(c) : c[i] = d[i]
    BY <1>5, <1>6, <2>1
  <2>4. c = d
    BY <2>2, <2>3, SMTT(30)
  <2> QED
    BY <2>1, <2>4
<1> QED
  BY <1>8 DEF a, b, c

LEMMA GivenEmpty == \A g : Given(<< >>, g) = << >>
  BY DEF Given

----------------------------------------------------------------------------
\* The requests on one table and on two, of tables in two parts

SelectedRows == {r \in Row : Selected(r)}

LEMMA SelectKeeps ==
  ASSUME NEW s \in Seq(Row)
  PROVE  Only(s, Selected) = Keep(s, SelectedRows)
<1>1. ASSUME NEW i \in DOMAIN s
      PROVE  KeepMap(SelectedRows)[s[i]] = IF Selected(s[i]) THEN <<s[i]>> ELSE << >>
  <2>1. s[i] \in Row
    OBVIOUS
  <2> QED
    BY <2>1 DEF KeepMap, SelectedRows
<1>2. [i \in DOMAIN s |-> KeepMap(SelectedRows)[s[i]]]
        = [i \in DOMAIN s |-> IF Selected(s[i]) THEN <<s[i]>> ELSE << >>]
  BY <1>1
<1> QED
  BY <1>2 DEF Only, Keep, FlatOf

LEMMA SelectConcat ==
  ASSUME NEW s \in Seq(Row), NEW t \in Seq(Row)
  PROVE  /\ Only(s, Selected) \in Seq(Row)
         /\ Only(s \o t, Selected) = Only(s, Selected) \o Only(t, Selected)
         /\ Only(<< >>, Selected) = << >>
<1>1. s \o t \in Seq(Row) /\ << >> \in Seq(Row)
  OBVIOUS
<1>2. Only(s \o t, Selected) = Keep(s \o t, SelectedRows)
  BY <1>1, SelectKeeps
<1>3. Only(s, Selected) = Keep(s, SelectedRows) /\ Only(t, Selected) = Keep(t, SelectedRows)
  BY SelectKeeps
<1>4. Only(<< >>, Selected) = Keep(<< >>, SelectedRows)
  BY <1>1, SelectKeeps
<1>5. Keep(s \o t, SelectedRows) = Keep(s, SelectedRows) \o Keep(t, SelectedRows)
  BY KeepConcat
<1>6. Keep(s, SelectedRows) \in Seq(Row) /\ Keep(<< >>, SelectedRows) = << >>
  BY KeepType, KeepEmpty
<1> QED
  BY <1>2, <1>3, <1>4, <1>5, <1>6

ProjectMap == [r \in Row |-> Projected(r)]

LEMMA ProjectGiven ==
  ASSUME NEW s \in Seq(Row)
  PROVE  Project(s) = Given(s, ProjectMap)
  BY DEF Project, Given, ProjectMap

LEMMA ProjectConcat ==
  ASSUME NEW s \in Seq(Row), NEW t \in Seq(Row)
  PROVE  /\ Project(s) \in Seq(Row)
         /\ Project(s \o t) = Project(s) \o Project(t)
         /\ Project(<< >>) = << >>
<1>1. s \o t \in Seq(Row) /\ << >> \in Seq(Row)
  OBVIOUS
<1>2. ProjectMap \in [Row -> Row]
  BY DEF ProjectMap, Projected, Row, Null
<1>3. Project(s \o t) = Given(s \o t, ProjectMap)
  BY <1>1, ProjectGiven
<1>4. Project(s) = Given(s, ProjectMap) /\ Project(t) = Given(t, ProjectMap)
  BY ProjectGiven
<1>5. Project(<< >>) = Given(<< >>, ProjectMap)
  BY <1>1, ProjectGiven
<1>6. Given(s \o t, ProjectMap) = Given(s, ProjectMap) \o Given(t, ProjectMap)
  BY GivenConcat
<1>7. Given(s, ProjectMap) \in Seq(Row) /\ Given(<< >>, ProjectMap) = << >>
  BY <1>2, GivenType, GivenEmpty
<1> QED
  BY <1>3, <1>4, <1>5, <1>6, <1>7

LEMMA MatchesKeeps ==
  ASSUME NEW r, NEW s \in Seq(Row)
  PROVE  Matches(r, s) = KeyRows(s, r.k)
<1>1. ASSUME NEW i \in DOMAIN s
      PROVE  KeepMap(WithKey(r.k))[s[i]] = IF s[i].k = r.k THEN <<s[i]>> ELSE << >>
  <2>1. s[i] \in Row
    OBVIOUS
  <2> QED
    BY <2>1 DEF KeepMap, WithKey
<1>2. [i \in DOMAIN s |-> KeepMap(WithKey(r.k))[s[i]]]
        = [i \in DOMAIN s |-> IF s[i].k = r.k THEN <<s[i]>> ELSE << >>]
  BY <1>1
<1> QED
  BY <1>2 DEF Matches, Only, KeyRows, Keep, FlatOf

JoinedMap(r) == [q \in Row |-> Joined(q, r)]

LEMMA JoinedRow ==
  ASSUME NEW q \in Row, NEW r \in Row
  PROVE  Joined(q, r) \in Row
  BY DEF Joined, Row

JoinMap(a) == [r \in Row |-> Given(Matches(r, a), JoinedMap(r))]

LEMMA JoinMapGives ==
  ASSUME NEW a \in Seq(Row)
  PROVE  Gives(JoinMap(a), Row, Row)
<1>1. ASSUME NEW r \in Row PROVE Given(Matches(r, a), JoinedMap(r)) \in Seq(Row)
  <2>1. Matches(r, a) \in Seq(Row)
    BY MatchesKeeps, KeyRowsType
  <2>2. JoinedMap(r) \in [Row -> Row]
    BY JoinedRow DEF JoinedMap
  <2> QED
    BY <2>1, <2>2, GivenType
<1> QED
  BY <1>1 DEF Gives, JoinMap

LEMMA HashJoinFlat ==
  ASSUME NEW a \in Seq(Row), NEW b \in Seq(Row)
  PROVE  HashJoin(a, b) = FlatOf(b, JoinMap(a))
<1>1. ASSUME NEW r \in Row
      PROVE  LET found == Matches(r, a) IN [j \in DOMAIN found |-> Joined(found[j], r)] = JoinMap(a)[r]
  <2>1. Matches(r, a) \in Seq(Row)
    BY MatchesKeeps, KeyRowsType
  <2>2. \A j \in DOMAIN Matches(r, a) : JoinedMap(r)[Matches(r, a)[j]] = Joined(Matches(r, a)[j], r)
    <3> DEFINE f == Matches(r, a)
    <3> HIDE DEF f
    <3>1. f \in Seq(Row)
      BY <2>1 DEF f
    <3>2. \A j \in DOMAIN f : f[j] \in Row
      BY <3>1
    <3>3. \A j \in DOMAIN f : JoinedMap(r)[f[j]] = Joined(f[j], r)
      BY <3>2 DEF JoinedMap
    <3> QED
      BY <3>3 DEF f
  <2>3. JoinMap(a)[r] = Given(Matches(r, a), JoinedMap(r))
    BY DEF JoinMap
  <2> QED
    BY <2>2, <2>3 DEF Given
<1>2. \A i \in DOMAIN b : b[i] \in Row
  OBVIOUS
<1>3. [i \in DOMAIN b |-> LET found == Matches(b[i], a) IN [j \in DOMAIN found |-> Joined(found[j], b[i])]]
        = [i \in DOMAIN b |-> JoinMap(a)[b[i]]]
  BY <1>1, <1>2
<1> QED
  BY <1>3 DEF HashJoin, FlatOf

LEMMA HashJoinConcat ==
  ASSUME NEW a \in Seq(Row), NEW s \in Seq(Row), NEW t \in Seq(Row)
  PROVE  /\ HashJoin(a, s) \in Seq(Row)
         /\ HashJoin(a, s \o t) = HashJoin(a, s) \o HashJoin(a, t)
         /\ HashJoin(a, << >>) = << >>
<1>1. s \o t \in Seq(Row) /\ << >> \in Seq(Row)
  OBVIOUS
<1>2. Gives(JoinMap(a), Row, Row)
  BY JoinMapGives
<1>3. HashJoin(a, s \o t) = FlatOf(s \o t, JoinMap(a))
  BY <1>1, HashJoinFlat
<1>4. HashJoin(a, s) = FlatOf(s, JoinMap(a)) /\ HashJoin(a, t) = FlatOf(t, JoinMap(a))
  BY HashJoinFlat
<1>5. HashJoin(a, << >>) = FlatOf(<< >>, JoinMap(a))
  BY <1>1, HashJoinFlat
<1>6. FlatOf(s \o t, JoinMap(a)) = FlatOf(s, JoinMap(a)) \o FlatOf(t, JoinMap(a))
  BY <1>2, FlatOfConcat
<1>7. FlatOf(s, JoinMap(a)) \in Seq(Row) /\ FlatOf(<< >>, JoinMap(a)) = << >>
  BY <1>2, FlatOfType, FlatOfEmpty
<1> QED
  BY <1>3, <1>4, <1>5, <1>6, <1>7

StarMap(d) == [r \in Row |-> Joined(Last(Matches(r, d)), r)]

LEMMA StarJoinGiven ==
  ASSUME NEW d, NEW s \in Seq(Row)
  PROVE  StarJoin(d, s) = Given(s, StarMap(d))
<1>1. \A i \in DOMAIN s : s[i] \in Row
  OBVIOUS
<1> QED
  BY <1>1 DEF StarJoin, Given, StarMap

LEMMA StarJoinConcat ==
  ASSUME NEW d, NEW s \in Seq(Row), NEW t \in Seq(Row)
  PROVE  /\ StarJoin(d, s \o t) = StarJoin(d, s) \o StarJoin(d, t)
         /\ StarJoin(d, << >>) = << >>
<1>1. s \o t \in Seq(Row) /\ << >> \in Seq(Row)
  OBVIOUS
<1>2. StarJoin(d, s \o t) = Given(s \o t, StarMap(d))
  BY <1>1, StarJoinGiven
<1>3. StarJoin(d, s) = Given(s, StarMap(d)) /\ StarJoin(d, t) = Given(t, StarMap(d))
  BY StarJoinGiven
<1>4. StarJoin(d, << >>) = Given(<< >>, StarMap(d))
  BY <1>1, StarJoinGiven
<1>5. Given(s \o t, StarMap(d)) = Given(s, StarMap(d)) \o Given(t, StarMap(d))
  BY GivenConcat
<1> QED
  BY <1>2, <1>3, <1>4, <1>5, GivenEmpty

LEMMA StarJoinType ==
  ASSUME NEW d \in Seq(Row), NEW s \in Seq(Row), Keys(s) \subseteq Keys(d)
  PROVE  StarJoin(d, s) \in Seq(Row)
<1>1. ASSUME NEW i \in DOMAIN s PROVE Joined(Last(Matches(s[i], d)), s[i]) \in Row
  <2> DEFINE r == s[i]
             f == Matches(r, d)
  <2>1. r \in Row /\ r.k \in Keys(s)
    BY DEF Keys
  <2>2. f = KeyRows(d, r.k) /\ f \in Seq(Row)
    BY MatchesKeeps, KeyRowsType
  <2>3. \E x \in ToSet(d) : x.k = r.k
    BY <2>1, KeysMember
  <2>4. f # << >>
    BY <2>2, <2>3, KeyRowsNone
  <2> HIDE DEF f, r
  <2>5. Last(f) \in Row
    BY <2>2, <2>4 DEF Last
  <2> QED
    BY <2>1, <2>5, JoinedRow DEF f, r
<1> QED
  BY <1>1 DEF StarJoin

----------------------------------------------------------------------------
\* Transform

Previous(t) == IF t = << >> THEN NoPrevious ELSE Last(t)

IsTransform(t, s) ==
  /\ t \in Seq(Row) /\ Len(t) = Len(s)
  /\ \A n \in 1..Len(s) : t[n] = Transformed(s[n], IF n = 1 THEN NoPrevious ELSE t[n - 1])

LEMMA TransformedRow ==
  ASSUME NEW r \in Row, NEW q \in Row
  PROVE  Transformed(r, q) \in Row
<1>1. r.v \in Nat /\ q.v \in Nat /\ r.v + q.v \in Nat
  BY DEF Row
<1> QED
  BY <1>1 DEF Transformed, Row

LEMMA NoPreviousRow == NoPrevious \in Row
  BY DEF NoPrevious, Row, Null

LEMMA TransformIs ==
  ASSUME NEW s \in Seq(Row)
  PROVE  IsTransform(Transform(s), s)
<1> DEFINE m == Len(s)
           g == [w \in Row \X Row |-> Transformed(w[2], w[1])]
           F(u) == [i \in 0..m |-> IF i = 0 THEN NoPrevious ELSE Transformed(s[i], u[i - 1])]
           sum == CHOOSE u : u = F(u)
           t == [i \in DOMAIN s |-> sum[i]]
<1>1. m \in Nat /\ DOMAIN s = 1..m /\ \A n \in 1..m : s[n] \in Row
  OBVIOUS
<1>2. g \in [Row \X Row -> Row]
  BY TransformedRow
<1>3. \A x, y \in Row : g[<<x, y>>] = Transformed(y, x)
  OBVIOUS
<1> HIDE DEF g
<1>4. PICK f \in [0..m -> Row] :
        f[0] = NoPrevious /\ \A n \in 1..m : f[n - 1] \in Row /\ f[n] = g[<<f[n - 1], s[n]>>]
  <2>1. \E f : IsLoop(f, s, NoPrevious, g, Row)
    BY <1>2, NoPreviousRow, LoopExists
  <2> QED
    BY <2>1 DEF IsLoop
<1>5. f = F(f)
  <2> SUFFICES ASSUME NEW n \in 0..m PROVE f[n] = IF n = 0 THEN NoPrevious ELSE Transformed(s[n], f[n - 1])
    BY <1>4
  <2>1. n # 0 => n \in 1..m
    BY <1>1
  <2> QED
    BY <1>1, <1>3, <1>4, <2>1
<1>6. sum = F(sum)
  <2> HIDE DEF F
  <2> QED
    BY <1>5
<1>7. Transform(s) = t
  BY DEF Transform
<1>8. sum[0] = NoPrevious /\ \A n \in 1..m : sum[n] = Transformed(s[n], sum[n - 1])
  <2>1. ASSUME NEW n \in 0..m PROVE sum[n] = IF n = 0 THEN NoPrevious ELSE Transformed(s[n], sum[n - 1])
    <3> HIDE DEF sum
    <3> QED
      BY <1>6
  <2> HIDE DEF sum
  <2> QED
    BY <1>1, <2>1
<1> HIDE DEF sum, F
<1> DEFINE T == {n \in Nat : sum[n] \in Row}
<1>9. 0 \in T
  BY <1>8, NoPreviousRow
<1>10. \A n \in 0..(m - 1) : n \in T => n + 1 \in T
  <2> SUFFICES ASSUME NEW n \in 0..(m - 1), n \in T PROVE n + 1 \in T
    OBVIOUS
  <2>1. n + 1 \in 1..m /\ (n + 1) - 1 = n /\ n + 1 \in Nat /\ sum[n] \in Row /\ s[n + 1] \in Row
    BY <1>1
  <2> QED
    BY <1>8, <2>1, TransformedRow
<1>11. \A n \in 0..m : sum[n] \in Row
  <2>1. \A n \in 0..m : n \in T
    <3> HIDE DEF T, m
    <3> QED
      BY <1>1, <1>9, <1>10, BoundedInduction
  <2> QED
    BY <2>1
<1>12. t \in Seq(Row) /\ Len(t) = Len(s) /\ \A n \in 1..m : t[n] = sum[n]
  <2>1. t \in [1..m -> Row]
    BY <1>1, <1>11
  <2> QED
    BY <1>1, <2>1
<1>13. ASSUME NEW n \in 1..m PROVE t[n] = Transformed(s[n], IF n = 1 THEN NoPrevious ELSE t[n - 1])
  <2>1. n # 1 => n - 1 \in 1..m
    BY <1>1
  <2>2. n = 1 => n - 1 = 0
    BY <1>1
  <2> HIDE DEF t
  <2> QED
    BY <1>8, <1>12, <2>1, <2>2
<1> QED
  BY <1>7, <1>12, <1>13 DEF IsTransform

LEMMA TransformUnique ==
  ASSUME NEW s \in Seq(Row), NEW t, NEW w, IsTransform(t, s), IsTransform(w, s)
  PROVE  t = w
<1> DEFINE m == Len(s)
           T == {n \in Nat : n = 0 \/ t[n] = w[n]}
<1>1. /\ m \in Nat /\ t \in Seq(Row) /\ w \in Seq(Row) /\ Len(t) = m /\ Len(w) = m
      /\ \A n \in 1..m : t[n] = Transformed(s[n], IF n = 1 THEN NoPrevious ELSE t[n - 1])
      /\ \A n \in 1..m : w[n] = Transformed(s[n], IF n = 1 THEN NoPrevious ELSE w[n - 1])
  BY DEF IsTransform
<1>2. 0 \in T
  OBVIOUS
<1>3. \A n \in 0..(m - 1) : n \in T => n + 1 \in T
  <2> SUFFICES ASSUME NEW n \in 0..(m - 1), n \in T PROVE t[n + 1] = w[n + 1]
    BY <1>1
  <2>1. n + 1 \in 1..m /\ (n + 1) - 1 = n /\ (n + 1 = 1 <=> n = 0)
    BY <1>1
  <2>2. n = 0 \/ t[n] = w[n]
    OBVIOUS
  <2> QED
    BY <1>1, <2>1, <2>2
<1>4. \A n \in 1..m : t[n] = w[n]
  <2>1. \A n \in 0..m : n \in T
    <3> HIDE DEF T, m
    <3> QED
      BY <1>1, <1>2, <1>3, BoundedInduction
  <2> QED
    BY <1>1, <2>1
<1> HIDE DEF T, m
<1> QED
  BY <1>1, <1>4

LEMMA TransformEmpty == Transform(<< >>) = << >>
<1>1. << >> \in Seq(Row)
  OBVIOUS
<1>2. IsTransform(Transform(<< >>), << >>)
  BY <1>1, TransformIs
<1> QED
  BY <1>2 DEF IsTransform

\* Each row is transformed with the one that came before it.
LEMMA TransformAppend ==
  ASSUME NEW s \in Seq(Row), NEW r \in Row
  PROVE  /\ Transform(s) \in Seq(Row) /\ Previous(Transform(s)) \in Row
         /\ Transform(Append(s, r)) = Append(Transform(s), Transformed(r, Previous(Transform(s))))
<1> DEFINE t == Transform(s)
           q == Previous(t)
           x == Transformed(r, q)
           w == Append(t, x)
           u == Append(s, r)
<1>1. IsTransform(t, s)
  BY TransformIs
<1> HIDE DEF t
<1>2. t \in Seq(Row) /\ Len(t) = Len(s) /\ Len(s) \in Nat
  BY <1>1 DEF IsTransform
<1>3. q \in Row /\ q = IF Len(s) = 0 THEN NoPrevious ELSE t[Len(s)]
  <2>1. t = << >> <=> Len(s) = 0
    BY <1>2
  <2>2. t # << >> => Last(t) = t[Len(s)] /\ Last(t) \in Row
    BY <1>2 DEF Last
  <2> QED
    BY <2>1, <2>2, NoPreviousRow DEF Previous
<1> HIDE DEF q
<1>4. x \in Row
  BY <1>3, TransformedRow
<1> HIDE DEF x
<1>5. /\ w \in Seq(Row) /\ u \in Seq(Row) /\ Len(w) = Len(s) + 1 /\ Len(u) = Len(s) + 1
      /\ \A i \in 1..Len(s) : w[i] = t[i] /\ u[i] = s[i]
      /\ w[Len(s) + 1] = x /\ u[Len(s) + 1] = r
  BY <1>2, <1>4
<1> HIDE DEF w, u
<1>6. ASSUME NEW n \in 1..(Len(s) + 1)
      PROVE  w[n] = Transformed(u[n], IF n = 1 THEN NoPrevious ELSE w[n - 1])
  <2>1. CASE n \in 1..Len(s)
    <3>1. n # 1 => n - 1 \in 1..Len(s)
      BY <1>2, <2>1
    <3>2. t[n] = Transformed(s[n], IF n = 1 THEN NoPrevious ELSE t[n - 1])
      BY <1>1, <2>1 DEF IsTransform
    <3> QED
      BY <1>5, <2>1, <3>1, <3>2
  <2>2. CASE n = Len(s) + 1
    <3>1. n - 1 = Len(s) /\ (n = 1 <=> Len(s) = 0) /\ (n # 1 => Len(s) \in 1..Len(s))
      BY <1>2, <2>2
    <3>2. q = IF n = 1 THEN NoPrevious ELSE w[n - 1]
      BY <1>3, <1>5, <3>1
    <3> QED
      BY <1>5, <2>2, <3>2 DEF x
  <2> QED
    BY <1>2, <2>1, <2>2
<1>7. IsTransform(w, u)
  BY <1>5, <1>6 DEF IsTransform
<1>8. IsTransform(Transform(u), u)
  BY <1>5, TransformIs
<1>9. Transform(u) = w
  BY <1>5, <1>7, <1>8, TransformUnique
<1>10. q \in Row
  BY <1>3
<1> QED
  BY <1>2, <1>9, <1>10 DEF w, u, x, q, t

LEMMA PreviousAppend ==
  ASSUME NEW s \in Seq(Row), NEW r \in Row
  PROVE  Previous(Append(s, r)) = r /\ Previous(<< >>) = NoPrevious
<1>1. Append(s, r) # << >> /\ Last(Append(s, r)) = r
  BY DEF Last
<1> QED
  BY <1>1 DEF Previous

----------------------------------------------------------------------------
\* Small facts about numbers and sequences

\* A step reads a source
Replaced(s, i, x, t, S) ==
  /\ t \in Seq(S) /\ Len(t) = Len(s) /\ DOMAIN t = DOMAIN s /\ t[i] = x
  /\ \A j \in DOMAIN s : j # i => t[j] = s[j]

LEMMA ReplaceOne ==
  ASSUME NEW S, NEW s \in Seq(S), NEW i \in 1..Len(s), NEW x \in S, NEW t, t = [s EXCEPT ![i] = x]
  PROVE  Replaced(s, i, x, t, S)
  BY DEF Replaced

LEMMA LenRows ==
  ASSUME NEW S, NEW ss \in Seq(S)
  PROVE  Len(ss) \in Nat
  OBVIOUS

LEMMA OneOrTwo == 1 \in 1..2 /\ 2 \in 1..2 /\ 2 # 1 /\ \A j \in 1..2 : j = 1 \/ j = 2
  OBVIOUS

LEMMA PairElement ==
  ASSUME NEW S, NEW s \in Seq(S), Len(s) = 2, NEW j \in 1..2
  PROVE  s[j] \in S
<1>1. j \in 1..Len(s)
  OBVIOUS
<1>2. \A k \in 1..Len(s) : s[k] \in S
  OBVIOUS
<1> QED
  BY <1>1, <1>2

LEMMA NotBelow == \A a, b \in Nat : ~(a < b) /\ a # b => b < a
  OBVIOUS

\* CopyExtent: a merge, and what import and get read
LEMMA SmallestExists ==
  ASSUME NEW m \in Nat, NEW P, P \subseteq 0..m, P # {}
  PROVE  \E n \in P : \A x \in P : n <= x
<1> DEFINE Q == {m - x : x \in P}
<1>1. Q \subseteq 0..m /\ Q # {}
  <2>1. \A x \in P : m - x \in 0..m
    OBVIOUS
  <2> QED
    BY <2>1
<1>2. PICK n \in Q : \A x \in Q : x <= n
  <2> HIDE DEF Q
  <2> QED
    BY <1>1, LargestExists
<1>3. PICK y \in P : n = m - y
  BY <1>2
<1>4. \A x \in P : m - x <= m - y /\ x \in Nat /\ y \in Nat
  BY <1>2, <1>3
<1> QED
  BY <1>4

LEMMA LastPlace == \A l \in Nat : \A i \in 1..l : (i < l \/ i = l) /\ (l = 1 => ~(i < l))
  OBVIOUS

LEMMA MinOfTwo ==
  ASSUME NEW a \in Nat, NEW c \in Nat
  PROVE  Min({a, c}) \in {a, c} /\ Min({a, c}) <= a /\ Min({a, c}) <= c
<1>1. \E x \in {a, c} : \A y \in {a, c} : x =< y
  OBVIOUS
<1>2. Min({a, c}) = CHOOSE x \in {a, c} : \A y \in {a, c} : x =< y
  BY DEF Min
<1>3. Min({a, c}) \in {a, c} /\ \A y \in {a, c} : Min({a, c}) =< y
  BY <1>1, <1>2
<1> QED
  BY <1>3
=============================================================================
