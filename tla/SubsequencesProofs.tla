-------------------------- MODULE SubsequencesProofs --------------------------
(***************************************************************************)
(* What filtering and sorting keep of a list, for any list: the lemmas     *)
(* that the proofs about the pages have in common.                         *)
(***************************************************************************)
EXTENDS Subsequences, WellFoundedInduction, SequenceTheorems, FiniteSetTheorems, TLAPS

-----------------------------------------------------------------------------
(* What Within keeps of any sequence: the order and the multiplicity of the *)
(* elements that are asked for. The recursion is by number, and induction   *)
(* over a set of numbers follows from the least element of its complement.  *)

LEMMA Least ==
  ASSUME NEW T, T \subseteq Nat, T # {}
  PROVE  \E n \in T : \A m \in T : n <= m
  <1> DEFINE R == {ss \in Nat \X Nat : ss[1] < ss[2]}
  <1>1. IsWellFoundedOn(R, Nat)
    BY NatLessThanWellFounded DEF OpToRel
  <1>2. PICK n \in T : \A m \in T : ~(<<m, n>> \in R)
    <2> HIDE DEF R
    <2> QED BY <1>1, WFMin
  <1>3. \A m \in T : ~(m < n)
    BY <1>2
  <1> QED
    BY <1>3

LEMMA Induct ==
  ASSUME NEW S, 0 \in S, \A n \in Nat : n \in S => n + 1 \in S
  PROVE  Nat \subseteq S
  <1> SUFFICES ASSUME Nat \ S # {} PROVE FALSE
    OBVIOUS
  <1>1. PICK n \in Nat \ S : \A m \in Nat \ S : n <= m
    BY Least
  <1>2. n # 0 /\ n \in Nat
    OBVIOUS
  <1>3. PICK k \in Nat : n = k + 1
    <2>1. n - 1 \in Nat /\ n = (n - 1) + 1
      BY <1>2
    <2> QED BY <2>1
  <1>4. k \in S
    BY <1>1, <1>3
  <1> QED
    BY <1>3, <1>4

Step(f, s, S, i) == IF i = 0 THEN <<>> ELSE IF s[i] \in S THEN Append(f[i - 1], s[i]) ELSE f[i - 1]

LEMMA WithinBy ==
  ASSUME NEW X, NEW s \in Seq(X), NEW S
  PROVE  \E f : f = [i \in 0..Len(s) |-> Step(f, s, S, i)] /\ Within(s, S) = f[Len(s)]
  <1> DEFINE Good == {n \in Nat : n <= Len(s) => \E f : f = [i \in 0..n |-> Step(f, s, S, i)]}
  <1>1. 0 \in Good
    <2>1. [i \in 0..0 |-> <<>>] = [i \in 0..0 |-> Step([j \in 0..0 |-> <<>>], s, S, i)]
      BY DEF Step
    <2> QED BY <2>1
  <1>2. ASSUME NEW n \in Nat, n \in Good PROVE n + 1 \in Good
    <2> SUFFICES ASSUME n + 1 <= Len(s) PROVE \E f : f = [i \in 0..(n + 1) |-> Step(f, s, S, i)]
      OBVIOUS
    <2>1. PICK f : f = [i \in 0..n |-> Step(f, s, S, i)]
      BY <1>2
    <2> DEFINE last == IF s[n + 1] \in S THEN Append(f[n], s[n + 1]) ELSE f[n]
               g == [i \in 0..(n + 1) |-> IF i = n + 1 THEN last ELSE f[i]]
    <2>2. ASSUME NEW i \in 0..(n + 1) PROVE g[i] = Step(g, s, S, i)
      <3>1. CASE i = n + 1
        BY <3>1 DEF Step
      <3>2. CASE i # n + 1
        <4>1. i \in 0..n /\ (i # 0 => i - 1 \in 0..n)
          BY <3>2
        <4>2. f[i] = Step(f, s, S, i)
          BY <2>1, <4>1
        <4> QED BY <4>1, <4>2 DEF Step
      <3> QED BY <3>1, <3>2
    <2>3. g = [i \in 0..(n + 1) |-> Step(g, s, S, i)]
      BY <2>2
    <2> HIDE DEF g
    <2> QED BY <2>3
  <1>3. Len(s) \in Good
    <2> HIDE DEF Good
    <2> QED BY <1>1, <1>2, Induct
  <1>4. PICK f : f = [i \in 0..Len(s) |-> Step(f, s, S, i)]
    BY <1>3
  <1> DEFINE h == CHOOSE k : k = [i \in 0..Len(s) |-> IF i = 0 THEN <<>> ELSE IF s[i] \in S THEN Append(k[i - 1], s[i]) ELSE k[i - 1]]
  <1>5. h = [i \in 0..Len(s) |-> Step(h, s, S, i)]
    BY <1>4 DEF Step
  <1>6. Within(s, S) = h[Len(s)]
    BY DEF Within
  <1> HIDE DEF h
  <1> QED
    BY <1>5, <1>6

LEMMA ValuesAppended ==
  ASSUME NEW X, NEW q \in Seq(X), NEW e \in X
  PROVE  ToSet(Append(q, e)) = ToSet(q) \cup {e}
  <1> DEFINE a == Append(q, e)
  <1>1. DOMAIN a = 1..(Len(q) + 1) /\ DOMAIN q = 1..Len(q) /\ Len(q) \in Nat
    OBVIOUS
  <1>2. a[Len(q) + 1] = e /\ \A i \in 1..Len(q) : a[i] = q[i]
    OBVIOUS
  <1>3. ASSUME NEW i \in DOMAIN a PROVE a[i] \in ToSet(q) \cup {e}
    <2>1. i = Len(q) + 1 \/ i \in DOMAIN q
      BY <1>1
    <2> QED
      BY <1>1, <1>2, <2>1 DEF ToSet
  <1>4. ASSUME NEW i \in DOMAIN q PROVE q[i] \in ToSet(a)
    <2>1. i \in DOMAIN a /\ a[i] = q[i]
      BY <1>1, <1>2
    <2> QED
      BY <2>1 DEF ToSet
  <1>5. e \in ToSet(a)
    BY <1>1, <1>2 DEF ToSet
  <1>6. ToSet(a) = ToSet(q) \cup {e}
    <2> HIDE DEF a
    <2> QED
      BY <1>3, <1>4, <1>5 DEF ToSet
  <1> QED
    BY <1>6

LEMMA ValuesJoined ==
  ASSUME NEW X, NEW p \in Seq(X), NEW q \in Seq(X)
  PROVE  ToSet(p \o q) = ToSet(p) \cup ToSet(q)
  <1> DEFINE a == p \o q
  <1>1. DOMAIN a = 1..(Len(p) + Len(q)) /\ DOMAIN q = 1..Len(q) /\ Len(q) \in Nat /\ DOMAIN p = 1..Len(p) /\ Len(p) \in Nat
    OBVIOUS
  <1>2. (\A i \in 1..Len(p) : a[i] = p[i]) /\ \A i \in 1..Len(q) : a[Len(p) + i] = q[i]
    OBVIOUS
  <1>3. ASSUME NEW i \in DOMAIN a PROVE a[i] \in ToSet(p) \cup ToSet(q)
    <2>1. CASE i \in 1..Len(p)
      BY <1>1, <1>2, <2>1 DEF ToSet
    <2>2. CASE i \notin 1..Len(p)
      <3>1. i - Len(p) \in 1..Len(q) /\ Len(p) + (i - Len(p)) = i
        BY <1>1, <2>2
      <3>2. a[i] = q[i - Len(p)]
        BY <1>2, <3>1
      <3> HIDE DEF a
      <3> QED
        BY <1>1, <3>1, <3>2 DEF ToSet
    <2> QED
      BY <2>1, <2>2
  <1>4. ASSUME NEW i \in DOMAIN p PROVE p[i] \in ToSet(a)
    <2>1. i \in DOMAIN a /\ a[i] = p[i]
      BY <1>1, <1>2
    <2> HIDE DEF a
    <2> QED
      BY <2>1 DEF ToSet
  <1>5. ASSUME NEW i \in DOMAIN q PROVE q[i] \in ToSet(a)
    <2>1. Len(p) + i \in DOMAIN a /\ a[Len(p) + i] = q[i]
      BY <1>1, <1>2
    <2> HIDE DEF a
    <2> QED
      BY <2>1 DEF ToSet
  <1>6. ToSet(a) = ToSet(p) \cup ToSet(q)
    <2> HIDE DEF a
    <2> QED
      BY <1>3, <1>4, <1>5 DEF ToSet
  <1> QED
    BY <1>6

LEMMA WithinKeeps ==
  ASSUME NEW X, NEW s \in Seq(X), NEW S
  PROVE  /\ Within(s, S) \in Seq(X) /\ Len(Within(s, S)) <= Len(s)
         /\ ToSet(Within(s, S)) = ToSet(s) \cap S
         /\ IsInjective(s) => IsInjective(Within(s, S))
         /\ ToSet(s) \subseteq S => Within(s, S) = s
  <1>1. PICK f : f = [i \in 0..Len(s) |-> Step(f, s, S, i)] /\ Within(s, S) = f[Len(s)]
    BY WithinBy
  <1> DEFINE Upto(n) == {s[i] : i \in 1..n}
             P(n) == /\ f[n] \in Seq(X) /\ Len(f[n]) <= n
                     /\ ToSet(f[n]) = Upto(n) \cap S
                     /\ IsInjective(s) => IsInjective(f[n])
                     /\ Upto(n) \subseteq S => f[n] = SubSeq(s, 1, n)
             Good == {n \in Nat : n <= Len(s) => P(n)}
  <1>2. 0 \in Good
    <2>1. f[0] = <<>>
      BY <1>1 DEF Step
    <2>2. SubSeq(s, 1, 0) = <<>>
      OBVIOUS
    <2> QED
      <3>1. ToSet(f[0]) = {} /\ Upto(0) = {} /\ IsInjective(f[0])
        BY <2>1 DEF ToSet, IsInjective
      <3>2. f[0] \in Seq(X) /\ Len(f[0]) <= 0
        BY <2>1
      <3> QED
        BY <2>1, <2>2, <3>1, <3>2
  <1>3. ASSUME NEW n \in Nat, n \in Good PROVE n + 1 \in Good
    <2> SUFFICES ASSUME n + 1 <= Len(s) PROVE P(n + 1)
      OBVIOUS
    <2>1. P(n)
      BY <1>3
    <2>2. f[n + 1] = IF s[n + 1] \in S THEN Append(f[n], s[n + 1]) ELSE f[n]
      <3>1. n + 1 \in 0..Len(s) /\ n + 1 # 0 /\ (n + 1) - 1 = n
        OBVIOUS
      <3> QED
        BY <1>1, <3>1 DEF Step
    <2>3. s[n + 1] \in X /\ Upto(n + 1) = Upto(n) \cup {s[n + 1]}
      OBVIOUS
    <2>4. CASE s[n + 1] \notin S
      BY <2>1, <2>2, <2>3, <2>4
    <2>5. CASE s[n + 1] \in S
      <3>1. f[n + 1] = Append(f[n], s[n + 1]) /\ f[n] \in Seq(X)
        BY <2>1, <2>2, <2>5
      <3>2. f[n + 1] \in Seq(X) /\ Len(f[n + 1]) = Len(f[n]) + 1 /\ Len(f[n]) \in Nat
            /\ f[n + 1][Len(f[n]) + 1] = s[n + 1] /\ \A i \in 1..Len(f[n]) : f[n + 1][i] = f[n][i]
        BY <2>3, <3>1
      <3>3. ToSet(f[n + 1]) = ToSet(f[n]) \cup {s[n + 1]}
        BY <2>3, <3>1, ValuesAppended
      <3>4. ToSet(f[n + 1]) = Upto(n + 1) \cap S
        BY <2>1, <2>3, <2>5, <3>3
      <3>5. IsInjective(s) => IsInjective(f[n + 1])
        <4> SUFFICES ASSUME IsInjective(s) PROVE IsInjective(f[n + 1])
          OBVIOUS
        <4>1. \A i \in 1..n : s[i] # s[n + 1]
          BY DEF IsInjective
        <4>2. \A i \in DOMAIN f[n] : f[n][i] # s[n + 1]
          BY <2>1, <4>1 DEF ToSet
        <4> QED
          BY <2>1, <3>1, <3>2, <4>2 DEF IsInjective
      <3>6. Upto(n + 1) \subseteq S => f[n + 1] = SubSeq(s, 1, n + 1)
        <4> SUFFICES ASSUME Upto(n + 1) \subseteq S PROVE f[n + 1] = SubSeq(s, 1, n + 1)
          OBVIOUS
        <4>1. f[n] = SubSeq(s, 1, n)
          BY <2>1, <2>3
        <4>2. SubSeq(s, 1, n + 1) = Append(SubSeq(s, 1, n), s[n + 1])
          OBVIOUS
        <4> QED
          BY <3>1, <4>1, <4>2
      <3> QED
        BY <2>1, <3>2, <3>4, <3>5, <3>6
    <2> QED
      BY <2>4, <2>5
  <1>4. P(Len(s))
    <2>1. Len(s) \in Good
      <3> HIDE DEF Good
      <3> QED
        BY <1>2, <1>3, Induct
    <2> QED
      BY <2>1
  <1>5. Upto(Len(s)) = ToSet(s) /\ SubSeq(s, 1, Len(s)) = s
    BY DEF ToSet
  <1> QED
    BY <1>1, <1>4, <1>5

\* A function applied again and again, from a first value.
Repeated(f, n, first, step) == f[0] = first /\ \A i \in 1..n : f[i] = step[f[i - 1]]

LEMMA Repeats ==
  ASSUME NEW X, NEW n \in Nat, NEW first \in X, NEW step \in [X -> X]
  PROVE  \E f \in [0..n -> X] : Repeated(f, n, first, step)
  <1> DEFINE Runs(m) == \E f \in [0..m -> X] : f[0] = first /\ \A i \in 1..m : f[i] = step[f[i - 1]]
             Good == {m \in Nat : Runs(m)}
  <1>1. 0 \in Good
    <2>1. PICK f : f = [i \in 0..0 |-> first]
      OBVIOUS
    <2>2. f \in [0..0 -> X] /\ f[0] = first /\ \A i \in 1..0 : FALSE
      BY <2>1
    <2> QED
      BY <2>2
  <1>2. ASSUME NEW m \in Nat, m \in Good PROVE m + 1 \in Good
    <2>1. PICK f \in [0..m -> X] : f[0] = first /\ \A i \in 1..m : f[i] = step[f[i - 1]]
      BY <1>2
    <2>2. PICK last \in X : last = step[f[m]]
      OBVIOUS
    <2>3. PICK g : g = [i \in 0..(m + 1) |-> IF i = m + 1 THEN last ELSE f[i]]
      OBVIOUS
    <2>4. g \in [0..(m + 1) -> X] /\ g[0] = first
      BY <2>1, <2>3
    <2>5. ASSUME NEW i \in 1..(m + 1) PROVE g[i] = step[g[i - 1]]
      <3>1. CASE i = m + 1
        BY <2>2, <2>3, <3>1
      <3>2. CASE i # m + 1
        <4>1. i \in 1..m /\ i - 1 \in 0..m
          BY <3>2
        <4> QED
          BY <2>1, <2>3, <4>1
      <3> QED
        BY <3>1, <3>2
    <2>6. Runs(m + 1)
      BY Zenon, <2>4, <2>5
    <2> HIDE DEF Runs
    <2> QED
      BY <2>6
  <1>3. n \in Good
    <2> HIDE DEF Good
    <2> QED
      BY <1>1, <1>2, Induct
  <1> QED
    BY <1>3 DEF Repeated

\* What stands where in a filtered list: the elements keep their order.
LEMMA WithinOrder ==
  ASSUME NEW X, NEW s \in Seq(X), NEW S
  PROVE  \E g \in [DOMAIN Within(s, S) -> DOMAIN s] :
           /\ \A i \in DOMAIN Within(s, S) : Within(s, S)[i] = s[g[i]]
           /\ \A i, j \in DOMAIN Within(s, S) : i < j => g[i] < g[j]
  <1>1. PICK f : f = [i \in 0..Len(s) |-> Step(f, s, S, i)] /\ Within(s, S) = f[Len(s)]
    BY WithinBy
  <1> DEFINE P(n) == /\ f[n] \in Seq(X)
                     /\ \E g \in [1..Len(f[n]) -> 1..n] :
                          /\ \A i \in 1..Len(f[n]) : f[n][i] = s[g[i]]
                          /\ \A i, j \in 1..Len(f[n]) : i < j => g[i] < g[j]
             Good == {n \in Nat : n <= Len(s) => P(n)}
  <1>2. 0 \in Good
    <2>1. f[0] = <<>> /\ Len(f[0]) = 0
      BY <1>1 DEF Step
    <2>2. PICK g : g = [i \in 1..0 |-> 1]
      OBVIOUS
    <2>3. g \in [1..0 -> 1..0]
      BY <2>2
    <2>4. f[0] \in Seq(X)
      BY <2>1
    <2>5. P(0)
      <3>1. \A i \in 1..0 : FALSE
        OBVIOUS
      <3> QED
        BY <2>1, <2>3, <2>4, <3>1
    <2> QED
      BY <2>5
  <1>3. ASSUME NEW n \in Nat, n \in Good PROVE n + 1 \in Good
    <2> SUFFICES ASSUME n + 1 <= Len(s) PROVE P(n + 1)
      OBVIOUS
    <2>1. P(n)
      BY <1>3
    <2>2. f[n + 1] = IF s[n + 1] \in S THEN Append(f[n], s[n + 1]) ELSE f[n]
      <3>1. n + 1 \in 0..Len(s) /\ n + 1 # 0 /\ (n + 1) - 1 = n
        OBVIOUS
      <3> QED
        BY <1>1, <3>1 DEF Step
    <2>3. PICK g \in [1..Len(f[n]) -> 1..n] :
            /\ \A i \in 1..Len(f[n]) : f[n][i] = s[g[i]]
            /\ \A i, j \in 1..Len(f[n]) : i < j => g[i] < g[j]
      BY <2>1
    <2>4. CASE s[n + 1] \notin S
      <3>1. PICK t \in Seq(X) : t = f[n] /\ t = f[n + 1]
        <4>1. f[n + 1] = f[n]
          BY Zenon, <2>2, <2>4
        <4> QED
          BY Zenon, <2>1, <4>1
      <3>2. /\ g \in [1..Len(t) -> 1..n]
            /\ \A i \in 1..Len(t) : t[i] = s[g[i]]
            /\ \A i, j \in 1..Len(t) : i < j => g[i] < g[j]
        BY Zenon, <2>3, <3>1
      <3>3. g \in [1..Len(t) -> 1..(n + 1)]
        <4>1. 1..n \subseteq 1..(n + 1)
          OBVIOUS
        <4> QED
          BY <3>2, <4>1
      <3>4. \E h \in [1..Len(t) -> 1..(n + 1)] :
              /\ \A i \in 1..Len(t) : t[i] = s[h[i]]
              /\ \A i, j \in 1..Len(t) : i < j => h[i] < h[j]
        BY Zenon, <3>2, <3>3
      <3> QED
        BY Zenon, <3>1, <3>4
    <2>5. CASE s[n + 1] \in S
      <3>1. PICK t \in Seq(X) : t = f[n]
        BY <2>1
      <3>2. PICK k \in Nat : k = Len(t)
        OBVIOUS
      <3>3. s[n + 1] \in X
        OBVIOUS
      <3>4. PICK u \in Seq(X) : u = Append(t, s[n + 1])
        <4>1. Append(t, s[n + 1]) \in Seq(X)
          BY <3>3
        <4> QED
          BY <4>1
      <3>5. f[n + 1] = u /\ Len(u) = k + 1 /\ u[k + 1] = s[n + 1] /\ \A i \in 1..k : u[i] = t[i]
        BY <2>2, <2>5, <3>1, <3>2, <3>3, <3>4
      <3>6. PICK h : h = [i \in 1..(k + 1) |-> IF i = k + 1 THEN n + 1 ELSE g[i]]
        OBVIOUS
      <3>7. \A i \in 1..k : g[i] \in 1..n
        BY <2>3, <3>1, <3>2
      <3>8. h \in [1..(k + 1) -> 1..(n + 1)]
        BY <3>6, <3>7
      <3>9. \A i \in 1..(k + 1) : u[i] = s[h[i]]
        BY <2>3, <3>1, <3>2, <3>5, <3>6
      <3>10. ASSUME NEW i \in 1..(k + 1), NEW j \in 1..(k + 1), i < j PROVE h[i] < h[j]
        <4>1. i \in 1..k /\ h[i] = g[i] /\ g[i] \in 1..n
          BY <3>6, <3>7, <3>10
        <4>2. CASE j = k + 1
          BY <3>6, <4>1, <4>2
        <4>3. CASE j # k + 1
          <5>1. j \in 1..k /\ h[j] = g[j]
            BY <3>6, <4>3
          <5> QED
            BY <2>3, <3>1, <3>2, <3>10, <4>1, <5>1
        <4> QED
          BY <4>2, <4>3
      <3>11. Len(u) = k + 1
        BY <3>5
      <3>12. \E e \in [1..Len(u) -> 1..(n + 1)] :
               /\ \A i \in 1..Len(u) : u[i] = s[e[i]]
               /\ \A i, j \in 1..Len(u) : i < j => e[i] < e[j]
        BY Zenon, <3>8, <3>9, <3>10, <3>11
      <3>13. f[n + 1] = u /\ u \in Seq(X)
        BY Zenon, <3>5
      <3> QED
        BY Zenon, <3>12, <3>13
    <2> QED
      BY <2>4, <2>5
  <1>4. P(Len(s))
    <2>1. Len(s) \in Good
      <3> HIDE DEF Good
      <3> QED
        BY <1>2, <1>3, Induct
    <2> QED
      BY <2>1
  <1>5. DOMAIN s = 1..Len(s) /\ DOMAIN Within(s, S) = 1..Len(Within(s, S))
    BY <1>1, <1>4
  <1> QED
    BY <1>1, <1>4, <1>5

\* What is kept are the first elements.
LEMMA WithinFirst ==
  ASSUME NEW X, NEW s \in Seq(X), NEW S, NEW m \in 0..Len(s),
         \A i \in 1..m : s[i] \in S, \A i \in (m + 1)..Len(s) : s[i] \notin S
  PROVE  Within(s, S) = SubSeq(s, 1, m)
  <1>1. PICK f : f = [i \in 0..Len(s) |-> Step(f, s, S, i)] /\ Within(s, S) = f[Len(s)]
    BY WithinBy
  <1> DEFINE P(n) == f[n] = SubSeq(s, 1, IF n <= m THEN n ELSE m)
             Good == {n \in Nat : n <= Len(s) => P(n)}
  <1>2. 0 \in Good
    <2>1. f[0] = <<>> /\ SubSeq(s, 1, 0) = <<>>
      BY <1>1 DEF Step
    <2>2. P(0)
      BY <2>1
    <2> QED
      BY <2>2
  <1>3. ASSUME NEW n \in Nat, n \in Good PROVE n + 1 \in Good
    <2> SUFFICES ASSUME n + 1 <= Len(s) PROVE P(n + 1)
      OBVIOUS
    <2>1. P(n)
      BY <1>3
    <2>2. f[n + 1] = IF s[n + 1] \in S THEN Append(f[n], s[n + 1]) ELSE f[n]
      <3>1. n + 1 \in 0..Len(s) /\ n + 1 # 0 /\ (n + 1) - 1 = n
        OBVIOUS
      <3> QED
        BY <1>1, <3>1 DEF Step
    <2>3. CASE n + 1 <= m
      <3>1. s[n + 1] \in S /\ SubSeq(s, 1, n + 1) = Append(SubSeq(s, 1, n), s[n + 1])
        BY <2>3
      <3> QED
        BY <2>1, <2>2, <2>3, <3>1
    <2>4. CASE n + 1 > m
      <3>1. s[n + 1] \notin S
        BY <2>4
      <3>2. f[n] = SubSeq(s, 1, m)
        BY <2>1, <2>4
      <3> QED
        BY <2>2, <2>4, <3>1, <3>2
    <2> QED
      BY <2>3, <2>4
  <1>4. Len(s) \in Good
    <2> HIDE DEF Good
    <2> QED
      BY <1>2, <1>3, Induct
  <1> QED
    BY <1>1, <1>4

\* Two sequences without an element in common, each without repetition.
LEMMA InjectiveJoined ==
  ASSUME NEW X, NEW p \in Seq(X), NEW q \in Seq(X), IsInjective(p), IsInjective(q), ToSet(p) \cap ToSet(q) = {}
  PROVE  IsInjective(p \o q)
  <1> DEFINE a == p \o q
  <1>1. /\ DOMAIN a = 1..(Len(p) + Len(q)) /\ DOMAIN q = 1..Len(q) /\ Len(q) \in Nat
        /\ DOMAIN p = 1..Len(p) /\ Len(p) \in Nat
    OBVIOUS
  <1>2. (\A i \in 1..Len(p) : a[i] = p[i]) /\ \A i \in 1..Len(q) : a[Len(p) + i] = q[i]
    OBVIOUS
  <1>3. \A i \in DOMAIN a \ DOMAIN p : i - Len(p) \in DOMAIN q /\ a[i] = q[i - Len(p)]
    <2>1. ASSUME NEW i \in DOMAIN a \ DOMAIN p PROVE i - Len(p) \in 1..Len(q) /\ Len(p) + (i - Len(p)) = i
      BY <1>1
    <2> HIDE DEF a
    <2> QED
      BY <1>1, <1>2, <2>1
  <1>4. \A i \in DOMAIN p : p[i] \in ToSet(p)
    BY DEF ToSet
  <1>5. \A i \in DOMAIN q : q[i] \in ToSet(q)
    BY DEF ToSet
  <1>6. ASSUME NEW i \in DOMAIN a, NEW j \in DOMAIN a, a[i] = a[j] PROVE i = j
    <2> HIDE DEF a
    <2>1. CASE i \in DOMAIN p /\ j \in DOMAIN p
      BY <1>1, <1>2, <1>6, <2>1 DEF IsInjective
    <2>2. CASE i \notin DOMAIN p /\ j \notin DOMAIN p
      <3>1. i - Len(p) = j - Len(p)
        BY <1>3, <1>6, <2>2 DEF IsInjective
      <3> QED
        BY <1>1, <3>1
    <2>3. CASE (i \in DOMAIN p) # (j \in DOMAIN p)
      BY <1>1, <1>2, <1>3, <1>4, <1>5, <1>6, <2>3
    <2> QED
      BY <2>1, <2>2, <2>3
  <1> QED
    BY <1>6 DEF IsInjective

\* A page of a list.
LEMMA PartOfList ==
  ASSUME NEW X, NEW s \in Seq(X), NEW m \in Nat \ {0}, NEW n \in Nat, n <= Len(s)
  PROVE  /\ SubSeq(s, m, n) \in Seq(X) /\ ToSet(SubSeq(s, m, n)) \subseteq ToSet(s)
         /\ IsInjective(s) => IsInjective(SubSeq(s, m, n))
  <1> DEFINE a == SubSeq(s, m, n)
  <1>1. /\ a \in Seq(X) /\ DOMAIN a \subseteq Int
        /\ \A i \in DOMAIN a : m + i - 1 \in DOMAIN s /\ a[i] = s[m + i - 1]
    OBVIOUS
  <1>2. ToSet(a) \subseteq ToSet(s)
    <2> HIDE DEF a
    <2> QED
      BY <1>1 DEF ToSet
  <1>3. IsInjective(s) => IsInjective(a)
    <2> SUFFICES ASSUME IsInjective(s), NEW i \in DOMAIN a, NEW j \in DOMAIN a, a[i] = a[j] PROVE i = j
      BY DEF IsInjective
    <2> HIDE DEF a
    <2>1. m + i - 1 = m + j - 1
      BY <1>1 DEF IsInjective
    <2> QED
      BY <1>1, <2>1
  <1> QED
    BY <1>1, <1>2, <1>3

\* Limit and offset: what they cut out of a list.
LEMMA PageOfList ==
  ASSUME NEW X, NEW s \in Seq(X), NEW off \in Nat, NEW limit \in Nat
  PROVE  LET page == SubSeq(s, off + 1, IF off + limit > Len(s) THEN Len(s) ELSE off + limit)
         IN  /\ page \in Seq(X) /\ ToSet(page) \subseteq ToSet(s)
             /\ IsInjective(s) => IsInjective(page)
  <1>1. PICK m \in Nat \ {0} : m = off + 1
    OBVIOUS
  <1>2. PICK n \in Nat : n = (IF off + limit > Len(s) THEN Len(s) ELSE off + limit) /\ n <= Len(s)
    <2>1. Len(s) \in Nat
      OBVIOUS
    <2>2. CASE off + limit > Len(s)
      BY <2>1, <2>2
    <2>3. CASE ~(off + limit > Len(s))
      BY <2>1, <2>3
    <2> QED
      BY <2>2, <2>3
  <1>3. PICK page : page = SubSeq(s, m, n)
    OBVIOUS
  <1>4. page \in Seq(X) /\ ToSet(page) \subseteq ToSet(s) /\ (IsInjective(s) => IsInjective(page))
    BY <1>2, <1>3, PartOfList
  <1> QED
    BY Zenon, <1>1, <1>2, <1>3, <1>4

\* A list that grows by the rows of q it does not have.
LEMMA Merges ==
  ASSUME NEW X, NEW p \in Seq(X), NEW q \in Seq(X)
  PROVE  /\ WithNew(p, q) \in Seq(X) /\ ToSet(WithNew(p, q)) = ToSet(p) \cup ToSet(q)
         /\ IsInjective(p) /\ IsInjective(q) => IsInjective(WithNew(p, q))
         /\ ToSet(p) \cap ToSet(q) = {} => WithNew(p, q) = p \o q
  <1> DEFINE S == ToSet(q) \ ToSet(p)
             w == Within(q, S)
  <1>1. /\ w \in Seq(X) /\ ToSet(w) = ToSet(q) \cap S /\ (IsInjective(q) => IsInjective(w))
        /\ ToSet(q) \subseteq S => w = q
    <2> HIDE DEF S
    <2> QED
      BY WithinKeeps
  <1>2. WithNew(p, q) = p \o w
    BY DEF WithNew
  <1> HIDE DEF w
  <1>3. p \o w \in Seq(X) /\ ToSet(p \o w) = ToSet(p) \cup ToSet(w)
    BY <1>1, ValuesJoined
  <1>4. IsInjective(p) /\ IsInjective(q) => IsInjective(p \o w)
    BY <1>1, InjectiveJoined
  <1> QED
    BY <1>1, <1>2, <1>3, <1>4

\* A row that is taken out of a list.
LEMMA WithoutOne ==
  ASSUME NEW X, NEW s \in Seq(X), NEW e
  PROVE  /\ WithoutValue(s, e) \in Seq(X) /\ ToSet(WithoutValue(s, e)) = ToSet(s) \ {e}
         /\ IsInjective(s) => IsInjective(WithoutValue(s, e))
  <1> DEFINE S == ToSet(s) \ {e}
  <1>1. S \cap ToSet(s) = S
    OBVIOUS
  <1> HIDE DEF S
  <1>2. /\ Within(s, S) \in Seq(X) /\ ToSet(Within(s, S)) = ToSet(s) \cap S
        /\ IsInjective(s) => IsInjective(Within(s, S))
    BY WithinKeeps
  <1> QED
    BY <1>1, <1>2 DEF S, WithoutValue

-----------------------------------------------------------------------------
(* A set as a list, and a list as a set.                                    *)

LEMMA OneOfEach ==
  ASSUME NEW S, IsFiniteSet(S)
  PROVE  IsInjective(SetToSeq(S)) /\ ToSet(SetToSeq(S)) = S /\ SetToSeq(S) \in Seq(S)
  <1>1. PICK n \in Nat : n = Cardinality(S)
    BY FS_CardinalityType
  <1>2. \E f \in [1..n -> S] : IsInjective(f)
    BY <1>1, FS_CardinalityType DEF ExistsBijection, Bijection, Injection, IsInjective
  <1> DEFINE q == CHOOSE f \in [1..n -> S] : IsInjective(f)
  <1>3. q \in [1..n -> S] /\ IsInjective(q)
    BY <1>2
  <1>4. SetToSeq(S) = q
    BY <1>1 DEF SetToSeq, IsInjective
  <1> HIDE DEF q
  <1>5. q \in Injection(1..n, S)
    BY <1>3 DEF Injection, IsInjective
  <1>6. IsFiniteSet(1..n) /\ Cardinality(1..n) = n
    BY FS_Interval
  <1>7. q \in Surjection(1..n, S)
    BY <1>1, <1>5, <1>6, FS_Injection
  <1>8. ToSet(q) = S
    BY <1>3, <1>7 DEF Surjection, ToSet
  <1> QED
    BY <1>3, <1>4, <1>8

\* A list in which each row stands once is as long as the set of its rows.
LEMMA LengthOfList ==
  ASSUME NEW X, NEW q \in Seq(X), IsInjective(q)
  PROVE  Len(q) = Cardinality(ToSet(q))
  <1>1. q \in [1..Len(q) -> ToSet(q)] /\ Len(q) \in Nat
    BY DEF ToSet
  <1>2. q \in Bijection(1..Len(q), ToSet(q))
    BY <1>1 DEF Bijection, Injection, Surjection, IsInjective, ToSet
  <1>3. IsFiniteSet(1..Len(q)) /\ Cardinality(1..Len(q)) = Len(q)
    <2>1. PICK n \in Nat : n = Len(q)
      BY <1>1
    <2>2. IsFiniteSet(1..n) /\ Cardinality(1..n) = n
      BY FS_Interval
    <2> QED
      BY Zenon, <2>1, <2>2
  <1> QED
    BY <1>2, <1>3, FS_Bijection DEF ExistsBijection
-----------------------------------------------------------------------------
(* Sorting. A strict total order on 1..n gives each number a rank of its    *)
(* own, as many as there are numbers, so that SortedBy chooses each element *)
(* once.                                                                    *)

Behind(P, n, i) == {j \in 1..n : <<j, i>> \in P}
TotalOn(P, n) ==
  /\ \A i \in 1..n : <<i, i>> \notin P
  /\ \A i, j \in 1..n : i # j => <<i, j>> \in P \/ <<j, i>> \in P
  /\ \A i, j, k \in 1..n : <<i, j>> \in P /\ <<j, k>> \in P => <<i, k>> \in P

LEMMA Ranks ==
  ASSUME NEW n \in Nat, NEW P, TotalOn(P, n)
  PROVE  /\ \A i \in 1..n : Cardinality(Behind(P, n, i)) \in 0..(n - 1)
         /\ \A i, j \in 1..n : <<i, j>> \in P => Cardinality(Behind(P, n, i)) < Cardinality(Behind(P, n, j))
         /\ \A r \in 0..(n - 1) : \E i \in 1..n : Cardinality(Behind(P, n, i)) = r
  <1>1. IsFiniteSet(1..n) /\ Cardinality(1..n) = n
    BY FS_Interval
  <1>2. ASSUME NEW i \in 1..n
        PROVE  IsFiniteSet(Behind(P, n, i)) /\ Cardinality(Behind(P, n, i)) \in 0..(n - 1)
    <2> DEFINE B == Behind(P, n, i)
               T == (1..n) \ {i}
    <2>1. IsFiniteSet(T) /\ Cardinality(T) = n - 1
      BY <1>1, FS_RemoveElement
    <2>2. B \in SUBSET T
      BY DEF Behind, TotalOn
    <2> HIDE DEF B, T
    <2>3. IsFiniteSet(B) /\ Cardinality(B) <= n - 1
      BY <2>1, <2>2, FS_Subset
    <2>4. Cardinality(B) \in Nat
      BY <2>3, FS_CardinalityType
    <2>5. Cardinality(B) \in 0..(n - 1)
      BY <2>3, <2>4
    <2> QED
      BY <2>3, <2>5 DEF B
  <1>3. ASSUME NEW i \in 1..n, NEW j \in 1..n, <<i, j>> \in P
        PROVE  Cardinality(Behind(P, n, i)) < Cardinality(Behind(P, n, j))
    <2> DEFINE A == Behind(P, n, i)
               B == Behind(P, n, j)
    <2>1. A \cup {i} \in SUBSET B /\ i \notin A
      BY <1>3 DEF Behind, TotalOn
    <2>2. IsFiniteSet(A) /\ IsFiniteSet(B) /\ Cardinality(A) \in Nat /\ Cardinality(B) \in Nat
      BY <1>2
    <2> HIDE DEF A, B
    <2>3. Cardinality(A \cup {i}) = Cardinality(A) + 1
      BY <2>1, <2>2, FS_AddElement
    <2>4. Cardinality(A \cup {i}) <= Cardinality(B)
      BY <2>1, <2>2, FS_Subset
    <2>5. Cardinality(A) < Cardinality(B)
      BY <2>2, <2>3, <2>4
    <2> QED
      BY <2>5 DEF A, B
  <1> DEFINE f == [i \in 1..n |-> Cardinality(Behind(P, n, i))]
  <1>4. f \in Injection(1..n, 0..(n - 1))
    <2>1. f \in [1..n -> 0..(n - 1)]
      BY <1>2
    <2>2. ASSUME NEW i \in 1..n, NEW j \in 1..n, f[i] = f[j] PROVE i = j
      <3> SUFFICES ASSUME i # j PROVE FALSE
        OBVIOUS
      <3>1. f[i] \in Nat /\ f[j] \in Nat
        BY <2>1
      <3>2. f[i] < f[j] \/ f[j] < f[i]
        BY <1>3 DEF TotalOn
      <3> QED
        BY <2>2, <3>1, <3>2
    <2> HIDE DEF f
    <2> QED
      BY <2>1, <2>2 DEF Injection, IsInjective
  <1>5. IsFiniteSet(0..(n - 1)) /\ Cardinality(0..(n - 1)) = n
    BY FS_Interval
  <1>6. f \in Surjection(1..n, 0..(n - 1))
    <2> HIDE DEF f
    <2> QED
      BY <1>1, <1>4, <1>5, FS_Injection
  <1>7. ASSUME NEW r \in 0..(n - 1) PROVE \E i \in 1..n : Cardinality(Behind(P, n, i)) = r
    <2>1. PICK i \in 1..n : f[i] = r
      <3> HIDE DEF f
      <3> QED
        BY <1>6 DEF Surjection
    <2> QED
      BY <2>1
  <1> QED
    BY <1>2, <1>3, <1>7

\* What a comparison function must be: nothing before itself, and what stands
\* between is before one of the two or after.
WeakOrder(R, X) ==
  /\ \A a \in X : <<a, a>> \notin R
  /\ \A a, b, c \in X : <<a, b>> \in R /\ <<b, c>> \in R => <<a, c>> \in R
  /\ \A a, b, c \in X : <<a, c>> \in R => <<a, b>> \in R \/ <<b, c>> \in R

\* A sorted list has the elements of the list, none twice unless it was, and none
\* stands before one that comes before it.
LEMMA Sorts ==
  ASSUME NEW X, NEW s \in Seq(X), NEW R, WeakOrder(R, ToSet(s))
  PROVE  /\ SortedBy(s, R) \in Seq(X) /\ Len(SortedBy(s, R)) = Len(s)
         /\ ToSet(SortedBy(s, R)) = ToSet(s)
         /\ IsInjective(s) => IsInjective(SortedBy(s, R))
         /\ \A m, n \in DOMAIN s : m < n => <<SortedBy(s, R)[n], SortedBy(s, R)[m]>> \notin R
  <1> DEFINE k == Len(s)
             P == Precedes(s, R)
             rank(i) == Cardinality(Behind(P, k, i))
             ranked(n) == CHOOSE i \in 1..k : rank(i) = n - 1
  <1>1. DOMAIN s = 1..k /\ k \in Nat
    OBVIOUS
  <1>2. \A i, j \in 1..k : <<i, j>> \in P <=> (<<s[i], s[j]>> \in R \/ (<<s[j], s[i]>> \notin R /\ i < j))
    BY <1>1 DEF Precedes
  <1>3. \A i \in 1..k : s[i] \in ToSet(s)
    BY <1>1 DEF ToSet
  <1>4. TotalOn(P, k)
    <2> HIDE DEF P, k
    <2>1. ASSUME NEW i \in 1..k PROVE <<i, i>> \notin P
      <3>1. ~(i < i)
        BY <1>1
      <3>2. <<s[i], s[i]>> \notin R
        BY <1>3 DEF WeakOrder
      <3> QED
        BY <1>2, <3>1, <3>2
    <2>2. ASSUME NEW i \in 1..k, NEW j \in 1..k, i # j PROVE <<i, j>> \in P \/ <<j, i>> \in P
      <3>1. i < j \/ j < i
        BY <1>1, <2>2
      <3> QED
        BY Zenon, <1>2, <3>1
    <2>3. ASSUME NEW i \in 1..k, NEW j \in 1..k, NEW l \in 1..k, <<i, j>> \in P, <<j, l>> \in P PROVE <<i, l>> \in P
      <3>1. i < j /\ j < l => i < l
        BY <1>1
      <3>2. /\ s[i] \in ToSet(s) /\ s[j] \in ToSet(s) /\ s[l] \in ToSet(s)
        BY <1>3
      <3>3. /\ <<s[i], s[j]>> \in R \/ (<<s[j], s[i]>> \notin R /\ i < j)
            /\ <<s[j], s[l]>> \in R \/ (<<s[l], s[j]>> \notin R /\ j < l)
        BY <1>2, <2>3
      <3>4. <<s[i], s[l]>> \in R \/ (<<s[l], s[i]>> \notin R /\ i < l)
        BY <3>1, <3>2, <3>3 DEF WeakOrder
      <3> QED
        BY <1>2, <3>4
    <2> QED
      BY <2>1, <2>2, <2>3 DEF TotalOn
  <1>5. SortedBy(s, R) = [n \in 1..k |-> s[ranked(n)]]
    BY <1>1 DEF SortedBy, Behind
  <1>6. /\ \A i \in 1..k : rank(i) \in 0..(k - 1)
        /\ \A i, j \in 1..k : <<i, j>> \in P => rank(i) < rank(j)
        /\ \A r \in 0..(k - 1) : \E i \in 1..k : rank(i) = r
    <2> HIDE DEF P, k
    <2> QED
      BY <1>1, <1>4, Ranks
  <1> HIDE DEF P, k, rank
  <1>7. ASSUME NEW n \in 1..k PROVE ranked(n) \in 1..k /\ rank(ranked(n)) = n - 1
    <2>1. n - 1 \in 0..(k - 1)
      BY <1>1
    <2>2. \E i \in 1..k : rank(i) = n - 1
      BY <1>6, <2>1
    <2> QED
      BY <2>2
  <1>8. ASSUME NEW i \in 1..k PROVE rank(i) + 1 \in 1..k /\ ranked(rank(i) + 1) = i
    <2>1. PICK r \in 0..(k - 1) : r = rank(i)
      BY <1>6
    <2>2. r + 1 \in 1..k /\ (r + 1) - 1 = r
      BY <1>1
    <2>3. PICK j : j = ranked(r + 1) /\ j \in 1..k /\ rank(j) = r
      BY <1>7, <2>2
    <2>4. j = i
      <3> SUFFICES ASSUME j # i PROVE FALSE
        OBVIOUS
      <3>1. <<i, j>> \in P \/ <<j, i>> \in P
        BY <1>4, <2>3 DEF TotalOn
      <3>2. r < r
        BY <1>6, <2>1, <2>3, <3>1
      <3> QED
        BY <3>2
    <2> HIDE DEF ranked
    <2> QED
      BY <2>1, <2>2, <2>3, <2>4
  <1> DEFINE t == SortedBy(s, R)
  <1>9. t = [n \in 1..k |-> s[ranked(n)]]
    BY <1>5
  <1> HIDE DEF t, ranked
  <1>10. DOMAIN t = 1..k /\ \A n \in 1..k : t[n] = s[ranked(n)] /\ t[n] \in X
    <2>1. \A n \in 1..k : s[ranked(n)] \in X
      BY <1>1, <1>7
    <2> QED
      BY <1>9, <2>1
  <1>11. t \in Seq(X) /\ Len(t) = k
    <2>1. t \in [1..k -> X]
      BY <1>9, <1>10
    <2>2. t \in Seq(X)
      BY <1>1, <2>1, SeqDef
    <2> QED
      BY <1>1, <1>10, <2>2
  <1>12. ToSet(t) = ToSet(s)
    <2>1. ASSUME NEW n \in 1..k PROVE t[n] \in ToSet(s)
      BY <1>3, <1>7, <1>10
    <2>2. ASSUME NEW i \in 1..k PROVE s[i] \in ToSet(t)
      <3>1. rank(i) + 1 \in 1..k /\ t[rank(i) + 1] = s[i]
        BY <1>8, <1>10
      <3> QED
        BY <1>10, <3>1 DEF ToSet
    <2> QED
      BY <1>1, <1>10, <2>1, <2>2 DEF ToSet
  <1>13. ASSUME IsInjective(s) PROVE IsInjective(t)
    <2> SUFFICES ASSUME NEW m \in 1..k, NEW n \in 1..k, t[m] = t[n] PROVE m = n
      BY <1>10 DEF IsInjective
    <2>1. ranked(m) = ranked(n)
      BY <1>1, <1>7, <1>10, <1>13 DEF IsInjective
    <2>2. m - 1 = n - 1
      BY <1>7, <2>1
    <2> QED
      BY <1>1, <2>2
  <1>14. ASSUME NEW m \in 1..k, NEW n \in 1..k, m < n PROVE <<t[n], t[m]>> \notin R
    <2> SUFFICES ASSUME <<t[n], t[m]>> \in R PROVE FALSE
      OBVIOUS
    <2>1. <<ranked(n), ranked(m)>> \in P
      BY <1>2, <1>7, <1>10
    <2>2. n - 1 < m - 1
      BY <1>6, <1>7, <2>1
    <2> QED
      BY <1>1, <1>14, <2>2
  <1> QED
    BY <1>1, <1>10, <1>11, <1>12, <1>13, <1>14 DEF t, k
=============================================================================
