---------------------------- MODULE LaptopProofs -----------------------------
(***************************************************************************)
(* Proofs about what the program on the laptop holds: how it reads a       *)
(* logger's file, whatever the logger wrote (Laps, UniFile), and how the   *)
(* user it acts for and the cached login agree (Desktop), for every value  *)
(* of the constants.  The two parts share no variable.                     *)
(*                                                                         *)
(* The order: the recursive functions of Laps and what they return; the    *)
(* file falls into the sessions recorded; a decoded file runs forward; the *)
(* laps of a session, as a layout of its rows, what lap_table makes of it, *)
(* and that every step of the logger keeps it; what lap_table makes of a   *)
(* decoded file; the sign-in.                                              *)
(***************************************************************************)
EXTENDS Desktop, UniFile, TLAPS, FiniteSetTheorems, SequenceTheorems, WellFoundedInduction

-----------------------------------------------------------------------------
\* Every nonempty set of natural numbers has a least element.
LEMMA Least == ASSUME NEW N, N \subseteq Nat, N # {} PROVE \E n \in N : \A m \in N : n <= m
<1> DEFINE R == OpToRel(<, Nat)
<1>1. IsWellFoundedOn(R, Nat)
      BY NatLessThanWellFounded
<1>2. \A x, y \in Nat : x < y => <<x, y>> \in R
      BY DEF OpToRel
<1> HIDE DEF R
<1>3. PICK x \in N : \A y \in N : ~ (<<y, x>> \in R)
      BY <1>1, WFMin
<1>4. ASSUME NEW m \in N PROVE x <= m
  <2>1. m \in Nat /\ x \in Nat /\ ~(m < x)
        BY <1>2, <1>3
  <2> QED BY <2>1
<1> QED BY <1>3, <1>4

\* A set that holds 0 and with a number the next one, up to n.
LEMMA Induct ==
    ASSUME NEW n \in Nat, NEW P, 0 \in P, \A i \in 0..(n - 1) : i \in P => i + 1 \in P
    PROVE  0..n \subseteq P
<1> SUFFICES ASSUME ~(0..n \subseteq P) PROVE FALSE
    OBVIOUS
<1> DEFINE N == {i \in 0..n : i \notin P}
<1>1. N \subseteq Nat /\ N # {}
      OBVIOUS
<1>2. PICK i \in N : \A j \in N : i <= j
      BY <1>1, Least
<1>3. i # 0 /\ i \in 1..n /\ i - 1 \in 0..(n - 1)
      BY <1>2
<1>4. i - 1 \in P
      BY <1>2, <1>3
<1>5. (i - 1) + 1 \in P
      BY <1>3, <1>4
<1> QED BY <1>2, <1>3, <1>5

\* The least and the greatest of numbers.
LEMMA MinOf ==
    ASSUME NEW S, S \subseteq Nat, S # {}
    PROVE  Min(S) \in S /\ \A x \in S : Min(S) <= x
BY Least DEF Min

LEMMA MaxOf ==
    ASSUME NEW S, S \subseteq Nat, S # {}, NEW b \in Nat, \A x \in S : x <= b
    PROVE  Max(S) \in S /\ \A x \in S : x <= Max(S)
<1> DEFINE N == {b - x : x \in S}
<1>1. N \subseteq Nat /\ N # {}
      OBVIOUS
<1>2. PICK n \in N : \A m \in N : n <= m
      BY <1>1, Least
<1>3. PICK x \in S : n = b - x
      BY <1>2
<1>4. ASSUME NEW y \in S PROVE y <= x
  <2>1. b - x <= b - y
        BY <1>2, <1>3
  <2> QED BY <2>1
<1>5. \E z \in S : \A y \in S : y <= z
      BY <1>4
<1> QED BY <1>5 DEF Max

\* A recursion over 1..n has a solution.
LEMMA Recursion ==
    ASSUME NEW n \in Nat, NEW V, NEW v \in V, NEW G \in [1..n -> [V -> V]]
    PROVE  \E u \in [0..n -> V] : u[0] = v /\ \A i \in 1..n : u[i] = G[i][u[i - 1]]
<1> DEFINE Sol(m) == {u \in [0..m -> V] : u[0] = v /\ \A i \in 1..m : u[i] = G[i][u[i - 1]]}
           P == {m \in 0..n : Sol(m) # {}}
<1>1. 0 \in P
  <2>1. [i \in 0..0 |-> v] \in Sol(0)
        OBVIOUS
  <2> QED BY <2>1
<1>2. ASSUME NEW m \in 0..(n - 1), m \in P PROVE m + 1 \in P
  <2>1. PICK u \in [0..m -> V] : u[0] = v /\ \A i \in 1..m : u[i] = G[i][u[i - 1]]
        BY <1>2
  <2> DEFINE w == [i \in 0..(m + 1) |-> IF i = m + 1 THEN G[m + 1][u[m]] ELSE u[i]]
  <2>2. m + 1 \in 1..n /\ u[m] \in V
        OBVIOUS
  <2>3. G[m + 1][u[m]] \in V
        BY <2>2
  <2>4. w \in [0..(m + 1) -> V]
        BY <2>3
  <2>5. w[0] = v
        BY <2>1
  <2>6. ASSUME NEW i \in 1..(m + 1) PROVE w[i] = G[i][w[i - 1]]
    <3>1. CASE i = m + 1
      <4>1. i - 1 = m /\ w[m] = u[m] /\ w[i] = G[m + 1][u[m]]
            BY <3>1
      <4> QED BY <3>1, <4>1
    <3>2. CASE i \in 1..m
      <4>1. w[i] = u[i] /\ w[i - 1] = u[i - 1] /\ u[i] = G[i][u[i - 1]]
            BY <2>1, <3>2
      <4> QED BY <4>1
    <3> QED BY <3>1, <3>2
  <2>7. w \in Sol(m + 1)
        BY <2>4, <2>5, <2>6
  <2> QED BY <2>7
<1>3. 0..n \subseteq P
  <2> HIDE DEF P
  <2> QED BY <1>1, <1>2, Induct
<1>4. n \in P
      BY <1>3
<1> QED BY <1>4

-----------------------------------------------------------------------------
\* At goes through the positions one by one.
AtSteps(T, s, is, u) ==
    /\ u \in [0..Len(s) -> Seq(T)]
    /\ u[0] = <<>>
    /\ \A i \in 1..Len(s) : u[i] = IF i \in is THEN Append(u[i - 1], s[i]) ELSE u[i - 1]
    /\ At(s, is) = u[Len(s)]

LEMMA AtUpto ==
    ASSUME NEW T, NEW s \in Seq(T), NEW is
    PROVE  \E u : AtSteps(T, s, is, u)
<1> DEFINE G == [i \in 1..Len(s) |-> [v \in Seq(T) |-> IF i \in is THEN Append(v, s[i]) ELSE v]]
           Eq(f) == f = [i \in 0..Len(s) |->
                           IF i = 0 THEN <<>>
                           ELSE IF i \in is THEN Append(f[i - 1], s[i]) ELSE f[i - 1]]
           c == CHOOSE f : Eq(f)
<1>1. Len(s) \in Nat /\ \A i \in 1..Len(s) : s[i] \in T
      OBVIOUS
<1>2. <<>> \in Seq(T) /\ \A v \in Seq(T), e \in T : Append(v, e) \in Seq(T)
      OBVIOUS
<1>3. G \in [1..Len(s) -> [Seq(T) -> Seq(T)]]
      BY <1>1, <1>2
<1>4. \A i \in 1..Len(s), v \in Seq(T) : G[i][v] = IF i \in is THEN Append(v, s[i]) ELSE v
      OBVIOUS
<1> HIDE DEF G
<1>5. PICK u \in [0..Len(s) -> Seq(T)] : u[0] = <<>> /\ \A i \in 1..Len(s) : u[i] = G[i][u[i - 1]]
  <2> DEFINE n == Len(s)  V == Seq(T)  v == <<>>
  <2>1. n \in Nat /\ v \in V /\ G \in [1..n -> [V -> V]]
        BY <1>1, <1>2, <1>3
  <2> HIDE DEF n, V, v
  <2>2. \E u \in [0..n -> V] : u[0] = v /\ \A i \in 1..n : u[i] = G[i][u[i - 1]]
        BY <2>1, Recursion
  <2> QED BY <2>2 DEF n, V, v
<1>6. \A i \in 1..Len(s) : u[i] = IF i \in is THEN Append(u[i - 1], s[i]) ELSE u[i - 1]
  <2> TAKE i \in 1..Len(s)
  <2>1. i - 1 \in 0..Len(s)
        BY <1>1
  <2>2. u[i - 1] \in Seq(T)
        BY <2>1
  <2> QED BY <1>4, <1>5, <2>2
<1>7. Eq(u)
  <2> DEFINE w == [i \in 0..Len(s) |->
                     IF i = 0 THEN <<>>
                     ELSE IF i \in is THEN Append(u[i - 1], s[i]) ELSE u[i - 1]]
  <2>1. ASSUME NEW i \in 0..Len(s) PROVE u[i] = w[i]
    <3>1. CASE i = 0
          BY <1>5, <3>1
    <3>2. CASE i # 0
      <4>1. i \in 1..Len(s)
            BY <1>1, <3>2
      <4>2. w[i] = IF i \in is THEN Append(u[i - 1], s[i]) ELSE u[i - 1]
            BY <3>2
      <4> QED BY <1>6, <4>1, <4>2
    <3> QED BY <3>1, <3>2
  <2> HIDE DEF w
  <2>2. w = [i \in 0..Len(s) |-> w[i]]
        BY DEF w
  <2>3. u = [i \in 0..Len(s) |-> u[i]]
        OBVIOUS
  <2>4. u = w
        BY <2>1, <2>2, <2>3
  <2> QED BY <2>4 DEF w
<1>8. Eq(c)
      BY <1>7
<1>9. At(s, is) = c[Len(s)]
      BY DEF At
<1>10. \A i \in 0..Len(s) : c[i] = IF i = 0 THEN <<>>
                           ELSE IF i \in is THEN Append(c[i - 1], s[i]) ELSE c[i - 1]
  <2> HIDE DEF c
  <2> QED BY <1>8
<1> HIDE DEF c, Eq
<1> DEFINE P == {i \in 0..Len(s) : c[i] = u[i]}
<1>11. 0 \in P
      BY <1>1, <1>5, <1>10
<1>12. ASSUME NEW i \in 0..(Len(s) - 1), i \in P PROVE i + 1 \in P
  <2>1. i + 1 \in 1..Len(s) /\ (i + 1) - 1 = i /\ i + 1 \in 0..Len(s) /\ i + 1 # 0
        BY <1>1
  <2> QED BY <1>6, <1>10, <1>12, <2>1
<1> HIDE DEF P
<1>13. 0..Len(s) \subseteq P
      BY <1>1, <1>11, <1>12, Induct
<1>14. Len(s) \in 0..Len(s)
      BY <1>1
<1>15. c[Len(s)] = u[Len(s)]
      BY <1>13, <1>14 DEF P
<1> QED BY <1>5, <1>6, <1>9, <1>15 DEF AtSteps

LEMMA AtEmpty == ASSUME NEW is PROVE At(<<>>, is) = <<>>
<1>1. <<>> \in Seq({})
      OBVIOUS
<1>2. PICK u : AtSteps({}, <<>>, is, u)
      BY <1>1, AtUpto
<1> QED BY <1>2 DEF AtSteps

\* A sequence that grows: what is at its positions grows, or not.
LEMMA AtGrows ==
    ASSUME NEW T, NEW s \in Seq(T), NEW t \in Seq(T), Len(t) = Len(s) + 1,
           \A i \in 1..Len(s) : t[i] = s[i],
           NEW is, NEW js, \A i \in 1..Len(s) : i \in is <=> i \in js
    PROVE  /\ At(s, is) \in Seq(T)
           /\ At(t, js) = IF Len(t) \in js THEN Append(At(s, is), t[Len(t)]) ELSE At(s, is)
<1> DEFINE n == Len(s)  e == t[Len(t)]
<1>1. n \in Nat /\ Len(t) = n + 1 /\ t[n + 1] = e /\ \A i \in 1..n : t[i] = s[i]
      OBVIOUS
<1>2. PICK u : AtSteps(T, s, is, u)
      BY AtUpto
<1>3. PICK w : AtSteps(T, t, js, w)
      BY AtUpto
<1> HIDE DEF n
<1> DEFINE P == {i \in 0..n : u[i] = w[i]}
<1>4. 0 \in P
      BY <1>1, <1>2, <1>3 DEF AtSteps
<1>5. ASSUME NEW i \in 0..(n - 1), i \in P PROVE i + 1 \in P
  <2>1. i + 1 \in 1..n /\ i + 1 \in 1..Len(t) /\ (i + 1) - 1 = i /\ i + 1 \in 0..n
        BY <1>1
  <2>2. t[i + 1] = s[i + 1] /\ (i + 1 \in is <=> i + 1 \in js)
        BY <1>1, <2>1 DEF n
  <2> QED BY <1>2, <1>3, <1>5, <2>1, <2>2 DEF AtSteps, n
<1> HIDE DEF P
<1>6. 0..n \subseteq P
      BY <1>1, <1>4, <1>5, Induct
<1>7. u[n] = w[n]
      BY <1>1, <1>6 DEF P
<1>8. n + 1 \in 1..Len(t) /\ (n + 1) - 1 = n
      BY <1>1
<1>9. At(t, js) = IF n + 1 \in js THEN Append(At(s, is), e) ELSE At(s, is)
      BY <1>1, <1>2, <1>3, <1>7, <1>8 DEF AtSteps
<1>10. u[n] \in Seq(T)
      BY <1>1, <1>2 DEF AtSteps, n
<1> QED BY <1>1, <1>2, <1>9, <1>10 DEF n, AtSteps

\* Positions without a gap.
LEMMA AtInterval ==
    ASSUME NEW T, NEW s \in Seq(T), NEW a \in 1..Len(s), NEW b \in a..Len(s),
           NEW is, \A i \in 1..Len(s) : i \in is <=> i \in a..b
    PROVE  At(s, is) = SubSeq(s, a, b)
<1> DEFINE n == Len(s)
<1>1. n \in Nat /\ a \in Nat /\ b \in Nat /\ 1 <= a /\ a <= b /\ b <= n
      OBVIOUS
<1>2. PICK u : AtSteps(T, s, is, u)
      BY AtUpto
<1> DEFINE W(i) == IF i < a THEN <<>> ELSE IF i <= b THEN SubSeq(s, a, i) ELSE SubSeq(s, a, b)
           P == {i \in 0..n : u[i] = W(i)}
<1>3. 0 \in P
      BY <1>1, <1>2 DEF AtSteps
<1>4. ASSUME NEW i \in 0..(n - 1), i \in P PROVE i + 1 \in P
  <2>1. i + 1 \in 1..n /\ (i + 1) - 1 = i /\ i + 1 \in 0..n
        BY <1>1
  <2>2. u[i] = W(i) /\ u[i + 1] = IF i + 1 \in a..b THEN Append(u[i], s[i + 1]) ELSE u[i]
        BY <1>2, <1>4, <2>1 DEF AtSteps
  <2>3. CASE i + 1 < a \/ i + 1 > b
        BY <1>1, <2>1, <2>2, <2>3
  <2>4. CASE i + 1 = a
    <3>1. SubSeq(s, a, a) = <<s[a]>>
      <4>1. a \in 1..n
            BY <1>1
      <4>2. SubSeq(s, a, a) \in Seq(T) /\ Len(SubSeq(s, a, a)) = 1 /\ SubSeq(s, a, a)[1] = s[a]
            BY <1>1, <4>1, SubSeqProperties
      <4> DEFINE x == SubSeq(s, a, a)
      <4> HIDE DEF x
      <4>3. x \in Seq(T) /\ Len(x) = 1 /\ x[1] = s[a] /\ s[a] \in T
            BY <1>1, <4>2 DEF x
      <4>4. x = <<s[a]>>
            BY <4>3
      <4> QED BY <4>4 DEF x
    <3>2. i + 1 \in a..b /\ i < a /\ ~(i + 1 < a) /\ i + 1 <= b
          BY <1>1, <2>1, <2>4
    <3>3. u[i + 1] = Append(<<>>, s[a])
          BY <2>2, <2>4, <3>2
    <3>4. Append(<<>>, s[a]) = <<s[a]>>
          OBVIOUS
    <3> QED BY <2>1, <2>4, <3>1, <3>2, <3>3, <3>4
  <2>5. CASE i + 1 > a /\ i + 1 <= b
    <3>1. Append(SubSeq(s, a, i), s[i + 1]) = SubSeq(s, a, i + 1)
      <4>1. i + 1 \in a..n /\ i \in a..n
            BY <1>1, <2>5
      <4>2. SubSeq(s, a, i + 1) \in Seq(T) /\ SubSeq(s, a, i) \in Seq(T)
            BY <1>1, <4>1
      <4>3. Len(SubSeq(s, a, i)) = i - a + 1 /\ Len(SubSeq(s, a, i + 1)) = i - a + 2
            BY <1>1, <4>1
      <4> QED BY <1>1, <4>1, <4>2, <4>3
    <3>2. i + 1 \in a..b /\ ~(i < a) /\ i <= b /\ ~(i + 1 < a)
          BY <1>1, <2>1, <2>5
    <3>3. u[i + 1] = Append(SubSeq(s, a, i), s[i + 1])
          BY <2>2, <3>2
    <3> QED BY <2>1, <2>5, <3>1, <3>2, <3>3
  <2> QED BY <1>1, <2>3, <2>4, <2>5
<1> HIDE DEF P
<1>5. 0..n \subseteq P
      BY <1>1, <1>3, <1>4, Induct DEF AtSteps
<1> QED BY SMTT(30), <1>1, <1>2, <1>5 DEF P, AtSteps

\* Insertion puts an element between the others.
LEMMA InsertAtIs ==
    ASSUME NEW T, NEW s \in Seq(T), NEW e \in T, NEW k \in 1..(Len(s) + 1)
    PROVE  /\ InsertAt(s, k, e) \in Seq(T)
           /\ Len(InsertAt(s, k, e)) = Len(s) + 1
           /\ \A i \in 1..(Len(s) + 1) :
                 InsertAt(s, k, e)[i] = IF i < k THEN s[i] ELSE IF i = k THEN e ELSE s[i - 1]
<1>1. Len(s) \in Nat
      OBVIOUS
<1>2. SubSeq(s, 1, k - 1) \in Seq(T) /\ Len(SubSeq(s, 1, k - 1)) = k - 1
      BY <1>1
<1>3. SubSeq(s, k, Len(s)) \in Seq(T) /\ Len(SubSeq(s, k, Len(s))) = Len(s) - k + 1
      BY <1>1
<1>4. \A i \in 1..(k - 1) : SubSeq(s, 1, k - 1)[i] = s[i]
      BY <1>1
<1>5. \A i \in 1..(Len(s) - k + 1) : SubSeq(s, k, Len(s))[i] = s[k + i - 1]
      BY <1>1
<1> DEFINE A == SubSeq(s, 1, k - 1)  B == SubSeq(s, k, Len(s))
<1> HIDE DEF A, B
<1>6. A \o <<e>> \in Seq(T) /\ Len(A \o <<e>>) = k /\ (A \o <<e>>)[k] = e
      /\ \A i \in 1..(k - 1) : (A \o <<e>>)[i] = s[i]
      BY <1>1, <1>2, <1>4 DEF A
<1> DEFINE C == A \o <<e>>
<1> HIDE DEF C
<1>C. C \in Seq(T) /\ Len(C) = k /\ C[k] = e /\ \A i \in 1..(k - 1) : C[i] = s[i]
      BY <1>6 DEF C
<1>B. B \in Seq(T) /\ Len(B) = Len(s) - k + 1 /\ \A i \in 1..(Len(s) - k + 1) : B[i] = s[k + i - 1]
      BY <1>3, <1>5 DEF B
<1>7. /\ C \o B \in Seq(T) /\ Len(C \o B) = Len(s) + 1
      /\ \A i \in 1..(Len(s) + 1) : (C \o B)[i] = IF i <= k THEN C[i] ELSE B[i - k]
  <2>1. /\ C \o B \in Seq(T) /\ Len(C \o B) = Len(C) + Len(B)
        /\ \A i \in 1..(Len(C) + Len(B)) : (C \o B)[i] = IF i <= Len(C) THEN C[i] ELSE B[i - Len(C)]
        BY <1>C, <1>B, ConcatProperties
  <2>2. Len(C) + Len(B) = Len(s) + 1
        BY <1>1, <1>C, <1>B
  <2> QED BY <1>C, <2>1, <2>2
<1>8. \A i \in 1..(Len(s) + 1) : (C \o B)[i] = IF i < k THEN s[i] ELSE IF i = k THEN e ELSE s[i - 1]
  <2> TAKE i \in 1..(Len(s) + 1)
  <2>1. CASE i <= k
    <3>1. (C \o B)[i] = C[i]
          BY <1>7, <2>1
    <3>2. i = k \/ i \in 1..(k - 1)
          BY <1>1, <2>1
    <3> QED BY <1>1, <1>C, <3>1, <3>2
  <2>2. CASE i > k
    <3>1. (C \o B)[i] = B[i - k]
          BY <1>1, <1>7, <2>2
    <3>2. i - k \in 1..(Len(s) - k + 1) /\ k + (i - k) - 1 = i - 1
          BY <1>1, <2>2
    <3>3. B[i - k] = s[k + (i - k) - 1]
          BY <1>B, <3>2
    <3> QED BY <2>2, <3>1, <3>2, <3>3
  <2>3. i <= k \/ i > k
        BY <1>1
  <2> QED BY <2>1, <2>2, <2>3
<1> QED BY <1>7, <1>8 DEF InsertAt, A, B, C

-----------------------------------------------------------------------------
\* The stable sort.
Timed(T) == \A e \in T : e.at \in Int
Ascending(s) == \A i, j \in 1..Len(s) : i <= j => s[i].at <= s[j].at
RowSet(s)    == {s[i] : i \in 1..Len(s)}

\* In a sorted sequence what is no later comes first.
LEMMA InsertIs ==
    ASSUME NEW T, Timed(T), NEW s \in Seq(T), Ascending(s), NEW e \in T
    PROVE  \E k \in 1..(Len(s) + 1) :
              /\ Insert(s, e) = InsertAt(s, k, e)
              /\ \A i \in 1..(k - 1) : s[i].at <= e.at
              /\ \A i \in k..Len(s) : s[i].at > e.at
<1> DEFINE D == {i \in DOMAIN s : s[i].at <= e.at}  n == Len(s)
<1>1. n \in Nat /\ DOMAIN s = 1..n /\ D \subseteq 1..n /\ e.at \in Int /\ \A i \in 1..n : s[i].at \in Int
      BY DEF Timed
<1>2. \E c \in 0..n : D = 1..c
  <2>1. CASE D = {}
    <3>1. 0 \in 0..n /\ 1..0 = {}
          BY <1>1
    <3> QED BY <2>1, <3>1
  <2>2. CASE D # {}
    <3>1. D \subseteq Nat /\ \A x \in D : x <= n
          BY <1>1
    <3> HIDE DEF D
    <3>2. Max(D) \in D /\ \A x \in D : x <= Max(D)
          BY <1>1, <2>2, <3>1, MaxOf
    <3>3. \A i \in 1..Max(D) : i \in D
      <4> TAKE i \in 1..Max(D)
      <4>0. Max(D) \in 1..n
            BY <1>1, <3>2
      <4>1. i \in 1..n /\ Max(D) \in 1..n /\ i <= Max(D)
            BY <1>1, <4>0
      <4>2. s[i].at <= s[Max(D)].at /\ s[Max(D)].at <= e.at
            BY <3>2, <4>1 DEF Ascending, D
      <4> QED BY <1>1, <4>1, <4>2 DEF D
    <3>4. Max(D) \in 0..n /\ D = 1..Max(D)
      <4>1. Max(D) \in 1..n
            BY <1>1, <3>2
      <4> DEFINE m == Max(D)
      <4> HIDE DEF m
      <4>2. \A x \in D : x \in Nat /\ 1 <= x /\ x <= m
            BY <1>1, <3>2 DEF m
      <4>3. \A x \in D : x \in 1..m
            BY <4>1, <4>2 DEF m
      <4>4. m \in 0..n
            BY <1>1, <4>1 DEF m
      <4>5. \A x \in 1..m : x \in D
            BY <3>3 DEF m
      <4>6. D = 1..m
            BY <4>3, <4>5
      <4> QED BY <4>4, <4>6 DEF m
    <3> QED BY <3>4 DEF D
  <2> QED BY <2>1, <2>2
<1>3. PICK c \in 0..n : D = 1..c
      BY <1>2
<1>4. Cardinality(D) = c
  <2>1. Cardinality(1..c) = c
        BY <1>1, <1>3, FS_Interval
  <2> QED BY <1>3, <2>1
<1>5. c + 1 \in 1..(n + 1) /\ Insert(s, e) = InsertAt(s, c + 1, e)
      BY <1>1, <1>4 DEF Insert
<1>6. \A i \in 1..n : (i \in 1..c <=> s[i].at <= e.at)
      BY <1>1, <1>3
<1> HIDE DEF D
<1>7. \A i \in 1..((c + 1) - 1) : s[i].at <= e.at
      BY <1>1, <1>6
<1>8. \A i \in (c + 1)..n : s[i].at > e.at
      BY <1>1, <1>6
<1> QED BY <1>5, <1>7, <1>8

\* Insertion keeps a sequence sorted.
LEMMA InsertSorts ==
    ASSUME NEW T, Timed(T), NEW s \in Seq(T), Ascending(s), NEW e \in T
    PROVE  /\ Insert(s, e) \in Seq(T) /\ Ascending(Insert(s, e))
           /\ Len(Insert(s, e)) = Len(s) + 1
           /\ RowSet(Insert(s, e)) = RowSet(s) \cup {e}
<1> DEFINE n == Len(s)  w == Insert(s, e)
<1>1. n \in Nat /\ e.at \in Int /\ \A i \in 1..n : s[i].at \in Int
      BY DEF Timed
<1>2. PICK k \in 1..(n + 1) :
              /\ w = InsertAt(s, k, e)
              /\ \A i \in 1..(k - 1) : s[i].at <= e.at
              /\ \A i \in k..n : s[i].at > e.at
      BY InsertIs
<1>3. /\ w \in Seq(T) /\ Len(w) = n + 1
      /\ \A i \in 1..(n + 1) : w[i] = IF i < k THEN s[i] ELSE IF i = k THEN e ELSE s[i - 1]
      BY SMTT(30), <1>2, InsertAtIs
<1> HIDE DEF w
<1>4. ASSUME NEW i \in 1..(n + 1), NEW j \in 1..(n + 1), i <= j
      PROVE  w[i].at <= w[j].at
  <2>1. i < k => w[i] = s[i] /\ i \in 1..n /\ s[i].at <= e.at
        BY <1>1, <1>2, <1>3
  <2>2. i > k => w[i] = s[i - 1] /\ i - 1 \in 1..n /\ s[i - 1].at > e.at
        BY <1>1, <1>2, <1>3
  <2>3. j < k => w[j] = s[j] /\ j \in 1..n /\ s[j].at <= e.at
        BY <1>1, <1>2, <1>3
  <2>4. j > k => w[j] = s[j - 1] /\ j - 1 \in 1..n /\ s[j - 1].at > e.at
        BY <1>1, <1>2, <1>3
  <2>5. w[k] = e
        BY <1>1, <1>3
  <2>6. \A x, y \in 1..n : x <= y => s[x].at <= s[y].at
        BY DEF Ascending
  <2>7. CASE j < k
        BY <1>1, <1>4, <2>1, <2>3, <2>6, <2>7
  <2>8. CASE i > k
        BY <1>1, <1>4, <2>2, <2>4, <2>6, <2>8
  <2>9. CASE i <= k /\ j >= k
    <3>1. w[i].at <= e.at
          BY <1>1, <2>1, <2>5, <2>9
    <3>2. e.at <= w[j].at
          BY <1>1, <2>4, <2>5, <2>9
    <3>3. w[i].at \in Int /\ w[j].at \in Int
          BY <1>1, <1>3 DEF Timed
    <3> QED BY <1>1, <3>1, <3>2, <3>3
  <2> QED BY <1>1, <2>7, <2>8, <2>9
<1>5. Ascending(w)
      BY <1>3, <1>4 DEF Ascending
<1>6. {w[i] : i \in 1..(n + 1)} = {s[i] : i \in 1..n} \cup {e}
  <2>1. ASSUME NEW i \in 1..(n + 1) PROVE w[i] \in {s[x] : x \in 1..n} \cup {e}
    <3>1. i < k => i \in 1..n
          BY <1>1
    <3>2. i > k => i - 1 \in 1..n
          BY <1>1
    <3> QED BY <1>1, <1>3, <3>1, <3>2
  <2>2. ASSUME NEW x \in 1..n PROVE \E i \in 1..(n + 1) : w[i] = s[x]
    <3>1. CASE x < k
      <4>1. x \in 1..(n + 1) /\ w[x] = s[x]
            BY <1>1, <1>3, <3>1
      <4> QED BY <4>1
    <3>2. CASE x >= k
      <4>1. x + 1 \in 1..(n + 1) /\ (x + 1) - 1 = x /\ w[x + 1] = s[x]
            BY <1>1, <1>3, <3>2
      <4> QED BY <4>1
    <3> QED BY <1>1, <3>1, <3>2
  <2>3. k \in 1..(n + 1) /\ w[k] = e
        BY <1>1, <1>3
  <2> QED BY <2>1, <2>2, <2>3
<1> QED BY <1>3, <1>5, <1>6 DEF w, RowSet

\* Sorted inserts the rows one by one.
SortSteps(T, f, u) ==
    /\ \A i \in 0..Len(f) : u[i] \in Seq(T) /\ Ascending(u[i]) /\ Len(u[i]) = i
    /\ u[0] = <<>>
    /\ \A i \in 1..Len(f) : u[i] = Insert(u[i - 1], f[i])
    /\ Sorted(f) = u[Len(f)]

LEMMA SortedUpto ==
    ASSUME NEW T, Timed(T), NEW f \in Seq(T)
    PROVE  \E u : SortSteps(T, f, u)
<1> DEFINE V == {s \in Seq(T) : Ascending(s)}  n == Len(f)
           G == [i \in 1..n |-> [v \in V |-> Insert(v, f[i])]]
           Eq(g) == g = [i \in 0..Len(f) |-> IF i = 0 THEN <<>> ELSE Insert(g[i - 1], f[i])]
           c == CHOOSE g : Eq(g)
<1>1. n \in Nat /\ \A i \in 1..n : f[i] \in T
      OBVIOUS
<1>2. <<>> \in V
  <2>1. <<>> \in Seq(T) /\ Len(<<>>) = 0
        OBVIOUS
  <2> QED BY <2>1 DEF Ascending
<1>3. \A v \in V, e \in T : Insert(v, e) \in V
      BY InsertSorts
<1> HIDE DEF V
<1>4. G \in [1..n -> [V -> V]]
      BY <1>1, <1>3
<1>5. \A i \in 1..n, v \in V : G[i][v] = Insert(v, f[i])
      OBVIOUS
<1> HIDE DEF G
<1>6. PICK u \in [0..n -> V] : u[0] = <<>> /\ \A i \in 1..n : u[i] = G[i][u[i - 1]]
  <2> DEFINE v == <<>>
  <2>1. n \in Nat /\ v \in V /\ G \in [1..n -> [V -> V]]
        BY <1>1, <1>2, <1>4
  <2> HIDE DEF n, v
  <2>2. \E u \in [0..n -> V] : u[0] = v /\ \A i \in 1..n : u[i] = G[i][u[i - 1]]
        BY <2>1, Recursion
  <2> QED BY <2>2 DEF n, v
<1>7. \A i \in 1..n : u[i] = Insert(u[i - 1], f[i])
  <2> TAKE i \in 1..n
  <2>1. i - 1 \in 0..n
        BY <1>1
  <2>2. u[i - 1] \in V
        BY <2>1
  <2> QED BY <1>5, <1>6, <2>2
<1>8. Eq(u)
  <2> DEFINE w == [i \in 0..Len(f) |-> IF i = 0 THEN <<>> ELSE Insert(u[i - 1], f[i])]
  <2>1. ASSUME NEW i \in 0..n PROVE u[i] = w[i]
    <3>1. CASE i = 0
          BY <1>6, <3>1
    <3>2. CASE i # 0
      <4>1. i \in 1..n
            BY <1>1, <3>2
      <4>2. w[i] = Insert(u[i - 1], f[i])
            BY <3>2
      <4> QED BY <1>7, <4>1, <4>2
    <3> QED BY <3>1, <3>2
  <2> HIDE DEF w
  <2>2. w = [i \in 0..n |-> w[i]]
        BY DEF w
  <2>3. u = [i \in 0..n |-> u[i]]
        OBVIOUS
  <2>4. u = w
        BY <2>1, <2>2, <2>3
  <2> QED BY <2>4 DEF w
<1>9. Eq(c)
      BY <1>8
<1>10. Sorted(f) = c[n]
      BY DEF Sorted
<1>11. \A i \in 0..n : c[i] = IF i = 0 THEN <<>> ELSE Insert(c[i - 1], f[i])
  <2> HIDE DEF c
  <2> QED BY <1>9
<1> HIDE DEF c, Eq
<1> DEFINE P == {i \in 0..n : c[i] = u[i] /\ Len(u[i]) = i}
<1>12. 0 \in P
      BY <1>1, <1>6, <1>11
<1>13. ASSUME NEW i \in 0..(n - 1), i \in P PROVE i + 1 \in P
  <2>1. i + 1 \in 1..n /\ (i + 1) - 1 = i /\ i + 1 \in 0..n /\ i + 1 # 0
        BY <1>1
  <2>2. u[i + 1] = Insert(u[i], f[i + 1]) /\ c[i + 1] = Insert(c[i], f[i + 1])
        BY <1>7, <1>11, <2>1
  <2>3. Len(u[i + 1]) = i + 1
    <3> DEFINE v == u[i]  e == f[i + 1]
    <3>1. v \in V /\ Len(v) = i /\ e \in T
          BY <1>1, <1>13, <2>1
    <3> HIDE DEF v, e
    <3>2. v \in Seq(T) /\ Ascending(v)
          BY <3>1 DEF V
    <3>3. Len(Insert(v, e)) = Len(v) + 1
          BY <3>1, <3>2, InsertSorts
    <3> QED BY <2>2, <3>1, <3>3 DEF v, e
  <2> QED BY <1>13, <2>1, <2>2, <2>3
<1> HIDE DEF P
<1>14. 0..n \subseteq P
      BY <1>1, <1>12, <1>13, Induct
<1>15. n \in 0..n /\ \A i \in 0..n : c[i] = u[i] /\ Len(u[i]) = i
      BY <1>1, <1>14 DEF P
<1>16. \A i \in 0..n : u[i] \in Seq(T) /\ Ascending(u[i])
      BY <1>6 DEF V
<1> QED BY <1>6, <1>7, <1>10, <1>15, <1>16 DEF SortSteps

LEMMA SortedIs ==
    ASSUME NEW T, Timed(T), NEW f \in Seq(T)
    PROVE  Sorted(f) \in Seq(T) /\ Ascending(Sorted(f)) /\ Len(Sorted(f)) = Len(f)
<1>1. PICK u : SortSteps(T, f, u)
      BY SortedUpto
<1>2. Len(f) \in 0..Len(f)
      OBVIOUS
<1> QED BY <1>1, <1>2 DEF SortSteps

\* Sorting loses and invents no row.
LEMMA SortedRows ==
    ASSUME NEW T, Timed(T), NEW f \in Seq(T)
    PROVE  RowSet(Sorted(f)) = RowSet(f)
<1> DEFINE n == Len(f)
<1>1. PICK u : SortSteps(T, f, u)
      BY SortedUpto
<1>2. n \in Nat /\ \A i \in 1..n : f[i] \in T
      OBVIOUS
<1> DEFINE P == {m \in 0..n : {u[m][k] : k \in 1..m} = {f[k] : k \in 1..m}}
<1>3. 0 \in P
      BY <1>2
<1>4. ASSUME NEW m \in 0..(n - 1), m \in P PROVE m + 1 \in P
  <2>1. m + 1 \in 1..n /\ (m + 1) - 1 = m /\ m + 1 \in 0..n /\ m \in 0..n
        BY <1>2
  <2>2. u[m] \in Seq(T) /\ Ascending(u[m]) /\ Len(u[m]) = m /\ u[m + 1] = Insert(u[m], f[m + 1])
        BY <1>1, <2>1 DEF SortSteps
  <2> DEFINE v == u[m]  e == f[m + 1]
  <2>3. v \in Seq(T) /\ Ascending(v) /\ Len(v) = m /\ e \in T
        BY <1>2, <2>1, <2>2
  <2> HIDE DEF v, e
  <2>4. {Insert(v, e)[i] : i \in 1..(m + 1)} = {v[i] : i \in 1..m} \cup {e}
    <3>1. RowSet(Insert(v, e)) = RowSet(v) \cup {e} /\ Len(Insert(v, e)) = m + 1
          BY ZenonT(30), <2>3, InsertSorts
    <3> QED BY <2>3, <3>1 DEF RowSet
  <2>5. {u[m + 1][i] : i \in 1..(m + 1)} = {f[k] : k \in 1..m} \cup {f[m + 1]}
        BY <1>4, <2>2, <2>4 DEF v, e
  <2>6. {f[k] : k \in 1..m} \cup {f[m + 1]} = {f[k] : k \in 1..(m + 1)}
    <3>1. \A k \in 1..(m + 1) : k \in 1..m \/ k = m + 1
          OBVIOUS
    <3>2. \A k \in 1..m : k \in 1..(m + 1)
          OBVIOUS
    <3>3. m + 1 \in 1..(m + 1)
          OBVIOUS
    <3> QED BY <3>1, <3>2, <3>3
  <2> QED BY <2>1, <2>5, <2>6
<1> HIDE DEF P
<1>5. 0..n \subseteq P
      BY <1>2, <1>3, <1>4, Induct
<1>6. n \in P
      BY <1>2, <1>5
<1>7. Len(Sorted(f)) = n /\ Sorted(f) = u[n]
      BY <1>1, SortedIs DEF SortSteps
<1> QED BY <1>6, <1>7 DEF P, RowSet

\* A row more is one insertion more.
LEMMA SortedGrows ==
    ASSUME NEW T, Timed(T), NEW f \in Seq(T), NEW t \in Seq(T), Len(t) = Len(f) + 1,
           \A i \in 1..Len(f) : t[i] = f[i]
    PROVE  Sorted(t) = Insert(Sorted(f), t[Len(t)])
<1> DEFINE n == Len(f)
<1>1. n \in Nat /\ Len(t) = n + 1 /\ \A i \in 1..n : t[i] = f[i]
      OBVIOUS
<1>2. PICK u : SortSteps(T, f, u)
      BY SortedUpto
<1>3. PICK w : SortSteps(T, t, w)
      BY SortedUpto
<1> DEFINE P == {i \in 0..n : u[i] = w[i]}
<1>4. 0 \in P
      BY <1>1, <1>2, <1>3 DEF SortSteps
<1>5. ASSUME NEW i \in 0..(n - 1), i \in P PROVE i + 1 \in P
  <2>1. i + 1 \in 1..n /\ i + 1 \in 1..Len(t) /\ (i + 1) - 1 = i /\ i + 1 \in 0..n
        BY <1>1
  <2>2. u[i + 1] = Insert(u[i], f[i + 1]) /\ w[i + 1] = Insert(w[i], t[i + 1])
        BY <1>2, <1>3, <2>1 DEF SortSteps
  <2> QED BY <1>1, <1>5, <2>1, <2>2
<1> HIDE DEF P
<1>6. 0..n \subseteq P
      BY <1>1, <1>4, <1>5, Induct
<1>7. u[n] = w[n]
      BY <1>1, <1>6 DEF P
<1>8. n + 1 \in 1..Len(t) /\ (n + 1) - 1 = n
      BY <1>1
<1>9. w[n + 1] = Insert(w[n], t[n + 1])
      BY <1>3, <1>8 DEF SortSteps
<1> QED BY <1>1, <1>2, <1>3, <1>7, <1>9 DEF SortSteps

LEMMA SortedEmpty == Sorted(<<>>) = <<>>
<1>1. <<>> \in Seq({}) /\ Timed({})
      BY DEF Timed
<1>2. PICK u : SortSteps({}, <<>>, u)
      BY <1>1, SortedUpto
<1> QED BY <1>2 DEF SortSteps

-----------------------------------------------------------------------------
Groups(f, g) == {At(f, {i \in 1..Len(f) : g[i] = r}) : r \in {g[i] : i \in 1..Len(f)}}

\* A file is cut where a new recording begins, if that is where the boundaries
\* are: the pieces are the recordings.
LEMMA SplitIs ==
    ASSUME NEW T, NEW f \in Seq(T), NEW g \in [1..Len(f) -> Nat],
           \A i, j \in 1..Len(f) : i <= j => g[i] <= g[j],
           \A i \in 1..Len(f) : Boundary(f, i) <=> i = 1 \/ g[i] # g[i - 1]
    PROVE  SplitSessions(f) = Groups(f, g)
<1> DEFINE n == Len(f)
           starts == {i \in DOMAIN f : Boundary(f, i)}
           end(s) == Min({i \in starts : i > s} \cup {Len(f) + 1}) - 1
           of(r) == {i \in 1..n : g[i] = r}
<1>1. n \in Nat /\ DOMAIN f = 1..n /\ starts \subseteq 1..n
      OBVIOUS
<1>2. \A i \in 1..n : i \in starts <=> i = 1 \/ g[i] # g[i - 1]
      BY <1>1
<1> HIDE DEF starts
<1>3. ASSUME NEW s \in starts
      PROVE  SubSeq(f, s, end(s)) = At(f, of(g[s]))
  <2> DEFINE later == {i \in starts : i > s} \cup {n + 1}
             m == Min(later)
  <2>0. s \in 1..n
        BY <1>1
  <2>1. s \in 1..n /\ later \subseteq Nat /\ later # {} /\ n + 1 \in later
    <3>1. \A x \in later : x \in starts \/ x = n + 1
          OBVIOUS
    <3>2. n + 1 \in Nat /\ \A x \in starts : x \in Nat
          BY <1>1
    <3>3. n + 1 \in later
          OBVIOUS
    <3> QED BY <2>0, <3>1, <3>2, <3>3
  <2> HIDE DEF later
  <2>2. m \in later /\ \A x \in later : m <= x
        BY <2>1, MinOf
  <2>3. m \in (s + 1)..(n + 1) /\ (m = n + 1 \/ m \in starts)
        BY <1>1, <2>1, <2>2 DEF later
  <2>4. \A i \in (s + 1)..(m - 1) : i \notin starts
    <3> TAKE i \in (s + 1)..(m - 1)
    <3>1. i \in starts => i \in later
          BY <2>1, <2>3 DEF later
    <3> QED BY <1>1, <2>1, <2>2, <2>3, <3>1
  <2> HIDE DEF m
  <2> DEFINE P == {k \in 0..(m - 1 - s) : g[s + k] = g[s]}
  <2>5. 0 \in P
        BY <1>1, <2>1, <2>3
  <2>6. ASSUME NEW k \in 0..((m - 1 - s) - 1), k \in P PROVE k + 1 \in P
    <3>1. s + (k + 1) \in (s + 1)..(m - 1) /\ s + (k + 1) \in 1..n /\ (s + (k + 1)) - 1 = s + k
          /\ k + 1 \in 0..(m - 1 - s) /\ s + (k + 1) # 1
          BY <1>1, <2>1, <2>3
    <3>2. g[s + (k + 1)] = g[s + k]
          BY <1>2, <2>4, <3>1
    <3> QED BY <2>6, <3>1, <3>2
  <2> HIDE DEF P
  <2>7. m - 1 - s \in Nat
        BY <1>1, <2>1, <2>3
  <2>8. 0..(m - 1 - s) \subseteq P
        BY <2>5, <2>6, <2>7, Induct
  <2>9. \A i \in s..(m - 1) : g[i] = g[s]
    <3> TAKE i \in s..(m - 1)
    <3>1. i - s \in 0..(m - 1 - s) /\ s + (i - s) = i
          BY <1>1, <2>1, <2>3
    <3> QED BY <2>8, <3>1 DEF P
  <2>10. \A i \in 1..n : i < s => g[i] # g[s]
    <3> TAKE i \in 1..n
    <3> HAVE i < s
    <3>1. s - 1 \in 1..n /\ s # 1 /\ i <= s - 1 /\ s - 1 <= s
          BY <1>1, <2>1
    <3>2. g[s] # g[s - 1]
          BY <1>2, <2>1, <3>1
    <3>3. g[i] <= g[s - 1] /\ g[s - 1] <= g[s]
          BY <2>1, <3>1
    <3>4. g[i] \in Nat /\ g[s] \in Nat /\ g[s - 1] \in Nat
          BY <2>1, <3>1
    <3> QED BY <3>2, <3>3, <3>4
  <2>11. \A i \in 1..n : i >= m => g[i] # g[s]
    <3> TAKE i \in 1..n
    <3> HAVE i >= m
    <3>1. m \in starts /\ m \in 1..n /\ m - 1 \in s..(m - 1) /\ m - 1 \in 1..n /\ m # 1 /\ m - 1 <= m
          BY <1>1, <2>1, <2>3
    <3>2. g[m] # g[m - 1] /\ g[m - 1] = g[s]
          BY <1>2, <2>9, <3>1
    <3>3. g[m - 1] <= g[m] /\ g[m] <= g[i]
          BY <3>1
    <3>4. g[i] \in Nat /\ g[s] \in Nat /\ g[m] \in Nat
          BY <2>1, <3>1
    <3> QED BY <3>2, <3>3, <3>4
  <2>12. \A i \in 1..n : i \in of(g[s]) <=> i \in s..(m - 1)
    <3> TAKE i \in 1..n
    <3>1. i < s \/ i \in s..(m - 1) \/ i >= m
          BY <1>1, <2>1, <2>3
    <3> QED BY <1>1, <2>1, <2>3, <2>9, <2>10, <2>11, <3>1
  <2>13. s \in 1..n /\ m - 1 \in s..n
         BY <1>1, <2>1, <2>3
  <2>14. end(s) = m - 1
         BY DEF m, later
  <2>15. At(f, of(g[s])) = SubSeq(f, s, m - 1)
    <3> DEFINE is == of(g[s])
    <3>1. \A i \in 1..Len(f) : i \in is <=> i \in s..(m - 1)
          BY <2>12
    <3> HIDE DEF is
    <3>2. At(f, is) = SubSeq(f, s, m - 1)
          BY <2>13, <3>1, AtInterval
    <3> QED BY <3>2 DEF is
  <2> QED BY <2>14, <2>15
<1>4. ASSUME NEW i \in 1..n PROVE \E s \in starts : g[s] = g[i]
  <2> DEFINE N == {j \in 1..n : g[j] = g[i]}
  <2>1. N \subseteq Nat /\ N # {}
        OBVIOUS
  <2>2. PICK s \in N : \A j \in N : s <= j
        BY <2>1, Least
  <2>3. s \in 1..n /\ g[s] = g[i]
        BY <2>2
  <2>4. s # 1 => s - 1 \in 1..n /\ s - 1 \notin N
        BY <1>1, <2>2
  <2>5. s = 1 \/ g[s] # g[s - 1]
        BY <2>3, <2>4
  <2> QED BY <1>2, <2>3, <2>5
<1>5. SplitSessions(f) = {SubSeq(f, s, end(s)) : s \in starts}
      BY DEF SplitSessions, starts
<1>6. \A s \in starts : s \in 1..n
      BY <1>1
<1> HIDE DEF end, of
<1>7. SplitSessions(f) = {At(f, of(g[s])) : s \in starts}
      BY <1>3, <1>5
<1>8. {At(f, of(g[s])) : s \in starts} = {At(f, of(r)) : r \in {g[i] : i \in 1..n}}
      BY <1>4, <1>6
<1> QED BY <1>7, <1>8 DEF of, Groups

-----------------------------------------------------------------------------
\* The logger's file: types, and how two rows that follow each other differ.
Row == [at : Int, lap : Int, clock : Int, run : Nat, driven : Int]

LogTypes ==
    /\ rows \in Seq(Row)
    /\ run \in Runs /\ lap \in LapNumbers
    /\ now \in Nat /\ clock \in Nat /\ whole \in 0..MinRun /\ stray \in Nat
    /\ times \in [Runs -> [LapNumbers -> Int]]
    /\ \A i \in 1..Len(rows) : rows[i].driven \in LapNumbers /\ rows[i].run \in Runs

Ordered ==
    /\ \A i \in 1..Len(rows) : rows[i].run <= run
    /\ \A i, j \in 1..Len(rows) : i <= j => rows[i].run <= rows[j].run
    /\ \A i \in 1..Len(rows) : i # 1 =>
          IF rows[i].run = rows[i - 1].run
          THEN rows[i - 1].at - rows[i].at <= MinDrop
          ELSE rows[i].at = 0 /\ rows[i - 1].at > MinDrop
    /\ IF rows # <<>> /\ rows[Len(rows)].run = run THEN rows[Len(rows)].at < now
       ELSE now = 0 /\ (rows # <<>> => rows[Len(rows)].at > MinDrop)

FileInv == LogTypes /\ Ordered

LEMMA InitFileInv == RecordingInit => FileInv
<1> SUFFICES ASSUME RecordingInit PROVE FileInv
    OBVIOUS
<1>1. rows = <<>> /\ Len(rows) = 0 /\ rows \in Seq(Row)
      BY DEF RecordingInit, LoggerInit
<1>2. 0 \in Runs /\ 0 \in LapNumbers /\ 0 \in 0..MinRun
      BY LapsConstantsOK DEF Runs, LapNumbers
<1>3. times = [r \in Runs |-> [n \in LapNumbers |-> 0]] /\ run = 0 /\ now = 0 /\ lap = 0 /\ clock = 0
      /\ whole = 0 /\ stray = 0
      BY DEF RecordingInit, LoggerInit
<1>4. times \in [Runs -> [LapNumbers -> Int]]
      BY <1>3
<1>5. LogTypes
      BY <1>1, <1>2, <1>3, <1>4 DEF LogTypes
<1>6. Ordered
      BY <1>1, <1>3 DEF Ordered
<1> QED BY <1>5, <1>6 DEF FileInv

LEMMA MinMax ==
    ASSUME NEW a \in Int, NEW b \in Int
    PROVE  /\ Max({a, b}) = IF a > b THEN a ELSE b
           /\ Min({a, b}) = IF a < b THEN a ELSE b
<1>1. \E x \in {a, b} : \A y \in {a, b} : x >= y
      OBVIOUS
<1>2. \E x \in {a, b} : \A y \in {a, b} : x <= y
      OBVIOUS
<1>3. Max({a, b}) \in {a, b} /\ Max({a, b}) >= a /\ Max({a, b}) >= b
      BY <1>1 DEF Max
<1>4. Min({a, b}) \in {a, b} /\ Min({a, b}) <= a /\ Min({a, b}) <= b
      BY <1>2 DEF Min
<1> QED BY <1>3, <1>4

\* One row more, by any of the three.
LEMMA AppendOrdered ==
    ASSUME FileInv, NEW r \in Row, rows' = Append(rows, r), run' = run, r.run = run,
           now' >= now, r.at < now',
           IF rows # <<>> /\ rows[Len(rows)].run = run THEN rows[Len(rows)].at - r.at <= MinDrop
           ELSE r.at = 0,
           now' \in Int
    PROVE  Ordered'
<1> DEFINE n == Len(rows)
<1>1. n \in Nat /\ rows \in Seq(Row) /\ Len(rows') = n + 1 /\ rows'[n + 1] = r /\ rows' # <<>>
      /\ \A i \in 1..n : rows'[i] = rows[i] /\ rows[i] \in Row
  <2>1. rows \in Seq(Row)
        BY DEF FileInv, LogTypes
  <2>2. rows' \in Seq(Row) /\ n \in Nat /\ Len(rows') = n + 1 /\ rows'[n + 1] = r
        BY <2>1
  <2>3. \A i \in 1..n : rows'[i] = rows[i] /\ rows[i] \in Row
        BY <2>1
  <2> QED BY <2>1, <2>2, <2>3
<1>2. rows # <<>> <=> n \in 1..n
      BY <1>1
<1>3. \A i \in 1..n : rows[i].run \in Nat /\ rows[i].at \in Int /\ r.at \in Int /\ r.run \in Nat
      BY <1>1 DEF Row
<1>4. run \in Nat /\ MinDrop \in Nat
      BY LapsConstantsOK DEF FileInv, LogTypes, Runs
<1> DEFINE m == n + 1
<1>5. \A i \in 1..Len(rows') : rows'[i].run <= run'
  <2> TAKE i \in 1..Len(rows')
  <2>1. i \in 1..n \/ i = n + 1
        BY <1>1
  <2> QED BY <1>1, <1>3, <1>4, <2>1 DEF FileInv, Ordered
<1>6. \A i, j \in 1..Len(rows') : i <= j => rows'[i].run <= rows'[j].run
  <2> TAKE i, j \in 1..Len(rows')
  <2> HAVE i <= j
  <2>1. CASE j = n + 1
        BY <1>1, <1>5, <2>1
  <2>2. CASE j # n + 1
    <3>1. i \in 1..n /\ j \in 1..n
          BY <1>1, <2>2
    <3> QED BY <1>1, <3>1 DEF FileInv, Ordered
  <2> QED BY <2>1, <2>2
<1>7. ASSUME NEW i \in 1..Len(rows'), i # 1
      PROVE  IF rows'[i].run = rows'[i - 1].run
             THEN rows'[i - 1].at - rows'[i].at <= MinDrop
             ELSE rows'[i].at = 0 /\ rows'[i - 1].at > MinDrop
  <2>1. CASE i = n + 1
    <3>1. rows # <<>> /\ n \in 1..n /\ i - 1 = n /\ rows'[i] = r /\ rows'[i - 1] = rows[n]
          BY <1>1, <1>7, <2>1
    <3>2. CASE rows[n].run = run
          BY <1>3, <3>1, <3>2
    <3>3. CASE rows[n].run # run
          BY <1>3, <3>1, <3>3 DEF FileInv, Ordered
    <3> QED BY <3>2, <3>3
  <2>2. CASE i # n + 1
    <3>1. i \in 1..n /\ i - 1 \in 1..n
          BY <1>1, <1>7, <2>2
    <3> QED BY <1>1, <1>7, <3>1 DEF FileInv, Ordered
  <2> QED BY <2>1, <2>2
<1>8. rows' # <<>> /\ rows'[Len(rows')].run = run' /\ rows'[Len(rows')].at < now'
      BY <1>1
<1> QED BY <1>5, <1>6, <1>7, <1>8 DEF Ordered

\* What the logger writes.
LEMMA LastIs ==
    ASSUME FileInv, rows # <<>>
    PROVE  /\ Len(rows) \in 1..Len(rows) /\ Last(rows) = rows[Len(rows)] /\ Last(rows) \in Row
           /\ Last(rows).driven \in LapNumbers /\ Last(rows).run \in Runs
<1>1. rows \in Seq(Row)
      BY DEF FileInv, LogTypes
<1>2. Len(rows) \in 1..Len(rows)
      BY <1>1
<1>3. rows[Len(rows)] \in Row
      BY <1>1, <1>2
<1> QED BY <1>2, <1>3 DEF Last, FileInv, LogTypes

LEMMA WriteFile == FileInv /\ Write => FileInv'
<1> SUFFICES ASSUME FileInv, Write PROVE FileInv'
    OBVIOUS
<1> DEFINE r == [at |-> now, lap |-> lap, clock |-> clock, run |-> run, driven |-> lap]
<1>1. /\ rows' = Append(rows, r) /\ now' = now + Step /\ clock' = clock + Step
      /\ whole' = Min({MinRun, whole + 1}) /\ times' = [times EXCEPT ![run][lap] = clock]
      /\ UNCHANGED <<run, lap, stray>>
      BY DEF Write, Append1
<1>2. run \in Nat /\ lap \in Nat /\ Step \in Nat \ {0} /\ MinRun \in Nat /\ MinDrop \in Nat
      BY LapsConstantsOK DEF FileInv, LogTypes, Runs, LapNumbers
<1>3. r \in Row /\ r.run = run /\ r.at = now /\ r.driven = lap
      BY <1>2 DEF Row, FileInv, LogTypes
<1> HIDE DEF r
<1>4. LogTypes'
  <2>1. rows' \in Seq(Row) /\ \A i \in 1..Len(rows') : rows'[i].driven \in LapNumbers /\ rows'[i].run \in Runs
    <3>1. rows \in Seq(Row) /\ run \in Runs /\ lap \in LapNumbers
          /\ \A i \in 1..Len(rows) : rows[i].driven \in LapNumbers /\ rows[i].run \in Runs
          BY DEF FileInv, LogTypes
    <3> QED BY <1>1, <1>3, <3>1
  <2>2. whole' \in 0..MinRun
    <3>1. whole \in 0..MinRun
          BY DEF FileInv, LogTypes
    <3>2. whole + 1 \in Int /\ MinRun \in Int
          BY <1>2, <3>1
    <3>3. Min({MinRun, whole + 1}) = IF MinRun < whole + 1 THEN MinRun ELSE whole + 1
          BY <3>2, MinMax
    <3> QED BY <1>1, <1>2, <3>1, <3>3
  <2>3. times' \in [Runs -> [LapNumbers -> Int]]
        BY <1>1 DEF FileInv, LogTypes
  <2>4. now' \in Nat /\ clock' \in Nat
        BY <1>1, <1>2 DEF FileInv, LogTypes
  <2> QED BY <1>1, <2>1, <2>2, <2>3, <2>4 DEF FileInv, LogTypes
<1>5. Ordered'
  <2>1. now' >= now /\ r.at < now' /\ now' \in Int
        BY <1>1, <1>2, <1>3 DEF FileInv, LogTypes
  <2>2. IF rows # <<>> /\ rows[Len(rows)].run = run THEN rows[Len(rows)].at - r.at <= MinDrop
        ELSE r.at = 0
    <3>1. CASE rows # <<>> /\ rows[Len(rows)].run = run
      <4>1. rows[Len(rows)].at < now /\ rows[Len(rows)].at \in Int /\ now \in Int
            BY SMTT(30), <3>1, LastIs DEF FileInv, LogTypes, Ordered, Row
      <4> QED BY <1>2, <1>3, <3>1, <4>1
    <3>2. CASE ~(rows # <<>> /\ rows[Len(rows)].run = run)
          BY <1>3, <3>2 DEF FileInv, Ordered
    <3> QED BY <3>1, <3>2
  <2> QED BY <1>1, <1>3, <2>1, <2>2, AppendOrdered
<1> QED BY <1>4, <1>5 DEF FileInv

LEMMA WriteStrayFile == FileInv /\ WriteStray => FileInv'
<1> SUFFICES ASSUME FileInv, WriteStray PROVE FileInv'
    OBVIOUS
<1> DEFINE r == [at |-> now, lap |-> lap - 1, clock |-> times[run][lap - 1], run |-> run, driven |-> lap]
<1>1. /\ rows' = Append(rows, r) /\ now' = now + Step /\ clock' = clock + Step
      /\ whole' = IF whole = MinRun THEN whole ELSE 0
      /\ stray' = stray + 1 /\ lap > 0 /\ UNCHANGED <<run, lap, times>>
      BY DEF WriteStray, Append1
<1>2. run \in Nat /\ lap \in Nat /\ Step \in Nat \ {0} /\ MinRun \in Nat /\ MinDrop \in Nat /\ MaxLaps \in Nat
      /\ lap <= MaxLaps
      BY LapsConstantsOK DEF FileInv, LogTypes, Runs, LapNumbers
<1>3. r \in Row /\ r.run = run /\ r.at = now /\ r.driven = lap
  <2>1. lap - 1 \in LapNumbers /\ run \in Runs
        BY <1>1, <1>2 DEF FileInv, LogTypes, LapNumbers
  <2>2. times[run][lap - 1] \in Int
        BY <2>1 DEF FileInv, LogTypes
  <2> QED BY <1>2, <2>2 DEF Row, FileInv, LogTypes
<1> HIDE DEF r
<1>4. LogTypes'
  <2>1. rows' \in Seq(Row) /\ \A i \in 1..Len(rows') : rows'[i].driven \in LapNumbers /\ rows'[i].run \in Runs
    <3>1. rows \in Seq(Row) /\ run \in Runs /\ lap \in LapNumbers
          /\ \A i \in 1..Len(rows) : rows[i].driven \in LapNumbers /\ rows[i].run \in Runs
          BY DEF FileInv, LogTypes
    <3> QED BY <1>1, <1>3, <3>1
  <2>2. whole' \in 0..MinRun
        BY <1>1, <1>2 DEF FileInv, LogTypes
  <2>3. now' \in Nat /\ clock' \in Nat /\ stray' \in Nat
        BY <1>1, <1>2 DEF FileInv, LogTypes
  <2> QED BY <1>1, <2>1, <2>2, <2>3 DEF FileInv, LogTypes
<1>5. Ordered'
  <2>1. now' >= now /\ r.at < now' /\ now' \in Int
        BY <1>1, <1>2, <1>3 DEF FileInv, LogTypes
  <2>2. IF rows # <<>> /\ rows[Len(rows)].run = run THEN rows[Len(rows)].at - r.at <= MinDrop
        ELSE r.at = 0
    <3>1. CASE rows # <<>> /\ rows[Len(rows)].run = run
      <4>1. rows[Len(rows)].at < now /\ rows[Len(rows)].at \in Int /\ now \in Int
            BY SMTT(30), <3>1, LastIs DEF FileInv, LogTypes, Ordered, Row
      <4> QED BY <1>2, <1>3, <3>1, <4>1
    <3>2. CASE ~(rows # <<>> /\ rows[Len(rows)].run = run)
          BY <1>3, <3>2 DEF FileInv, Ordered
    <3> QED BY <3>1, <3>2
  <2> QED BY <1>1, <1>3, <2>1, <2>2, AppendOrdered
<1> QED BY <1>4, <1>5 DEF FileInv

\* The row that WriteLate writes.
LateRow(e) == IF e.clock = 0 /\ e.driven > 0
              THEN [e EXCEPT !.lap = e.lap - 1, !.driven = e.driven - 1,
                             !.clock = times[run][e.lap - 1] + Step - Jitter]
              ELSE [e EXCEPT !.clock = e.clock - Jitter]

LEMMA LateIs ==
    ASSUME FileInv, WriteLate
    PROVE  LET e == Last(rows)  r == [LateRow(e) EXCEPT !.at = e.at - Jitter]
           IN  /\ r \in Row /\ r.run = run /\ r.at = e.at - Jitter /\ r.driven \in LapNumbers
               /\ r.clock = LateRow(e).clock /\ r.driven = LateRow(e).driven /\ r.lap = LateRow(e).lap
               /\ rows' = Append(rows, r)
               /\ times' = [times EXCEPT ![run][r.driven] = Max({@, r.clock})]
               /\ whole' = IF r.driven = lap THEN Min({MinRun, whole + 1}) ELSE whole
               /\ UNCHANGED <<run, now, lap, clock, stray>>
               /\ rows # <<>> /\ e.run = run /\ e.at = now - Step /\ e.at > 0 /\ e.lap = e.driven
<1> DEFINE e == Last(rows)  l == LateRow(e)  r == [l EXCEPT !.at = e.at - Jitter]
<1>1. rows # <<>> /\ e.run = run /\ e.at = now - Step /\ e.at > 0 /\ e.lap = e.driven
      /\ UNCHANGED <<run, now, lap, clock, stray>>
      BY DEF WriteLate
<1>2. e \in Row /\ e.driven \in LapNumbers
      BY <1>1, LastIs
<1>3. Jitter \in Int /\ Step \in Int /\ MaxLaps \in Nat
      BY LapsConstantsOK
<1> HIDE DEF e
<1>4. l \in Row /\ l.run = e.run /\ l.driven \in LapNumbers
  <2>1. CASE e.clock = 0 /\ e.driven > 0
    <3>1. e.lap - 1 \in LapNumbers /\ run \in Runs
          BY <1>1, <1>2, <1>3, <2>1 DEF LapNumbers, FileInv, LogTypes
    <3>2. times[run][e.lap - 1] + Step - Jitter \in Int
          BY <1>3, <3>1 DEF FileInv, LogTypes
    <3>3. l = [e EXCEPT !.lap = e.lap - 1, !.driven = e.driven - 1,
                        !.clock = times[run][e.lap - 1] + Step - Jitter]
          BY <2>1 DEF LateRow
    <3> HIDE DEF l
    <3>4. e.lap - 1 \in Int /\ e.driven - 1 \in Int /\ e.driven - 1 \in LapNumbers
          BY <1>1, <1>2, <3>1 DEF Row
    <3> QED BY <1>2, <3>2, <3>3, <3>4 DEF Row
  <2>2. CASE ~(e.clock = 0 /\ e.driven > 0)
    <3>1. l = [e EXCEPT !.clock = e.clock - Jitter]
          BY <2>2 DEF LateRow
    <3> HIDE DEF l
    <3> QED BY <1>2, <1>3, <3>1 DEF Row
  <2> QED BY <2>1, <2>2
<1> HIDE DEF l
<1>5. /\ r \in Row /\ r.run = e.run /\ r.at = e.at - Jitter /\ r.driven = l.driven
      /\ r.clock = l.clock /\ r.lap = l.lap
      BY <1>2, <1>3, <1>4 DEF Row
<1>6. /\ rows' = Append(rows, r)
      /\ times' = [times EXCEPT ![run][l.driven] = Max({@, l.clock})]
      /\ whole' = IF l.driven = lap THEN Min({MinRun, whole + 1}) ELSE whole
      BY DEF WriteLate, Append1, LateRow, e, l
<1> QED BY <1>1, <1>4, <1>5, <1>6 DEF e, l

LEMMA WriteLateFile == FileInv /\ WriteLate => FileInv'
<1> SUFFICES ASSUME FileInv, WriteLate PROVE FileInv'
    OBVIOUS
<1> DEFINE e == Last(rows)  r == [LateRow(e) EXCEPT !.at = e.at - Jitter]
<1>1. /\ r \in Row /\ r.run = run /\ r.at = e.at - Jitter /\ r.driven \in LapNumbers
      /\ rows' = Append(rows, r)
      /\ times' = [times EXCEPT ![run][r.driven] = Max({@, r.clock})]
      /\ whole' = IF r.driven = lap THEN Min({MinRun, whole + 1}) ELSE whole
      /\ UNCHANGED <<run, now, lap, clock, stray>>
      /\ rows # <<>> /\ e.run = run /\ e.at = now - Step
      BY LateIs
<1>2. run \in Nat /\ Step \in Nat \ {0} /\ MinRun \in Nat /\ MinDrop \in Nat
      /\ Jitter \in Nat /\ Jitter <= MinDrop
      BY LapsConstantsOK DEF FileInv, LogTypes, Runs
<1>3. e \in Row /\ e = rows[Len(rows)]
      BY <1>1, LastIs
<1> HIDE DEF r, e
<1>4. LogTypes'
  <2>1. rows' \in Seq(Row) /\ \A i \in 1..Len(rows') : rows'[i].driven \in LapNumbers /\ rows'[i].run \in Runs
    <3>1. rows \in Seq(Row) /\ run \in Runs
          /\ \A i \in 1..Len(rows) : rows[i].driven \in LapNumbers /\ rows[i].run \in Runs
          BY DEF FileInv, LogTypes
    <3> QED BY <1>1, <3>1
  <2>2. whole' \in 0..MinRun
    <3>1. whole \in 0..MinRun
          BY DEF FileInv, LogTypes
    <3>2. whole + 1 \in Int /\ MinRun \in Int
          BY <1>2, <3>1
    <3>3. Min({MinRun, whole + 1}) = IF MinRun < whole + 1 THEN MinRun ELSE whole + 1
          BY <3>2, MinMax
    <3> QED BY <1>1, <1>2, <3>1, <3>3
  <2>3. times' \in [Runs -> [LapNumbers -> Int]]
    <3>1. r.clock \in Int /\ times \in [Runs -> [LapNumbers -> Int]] /\ run \in Runs
          BY <1>1 DEF Row, FileInv, LogTypes
    <3>2. times[run][r.driven] \in Int
          BY <1>1, <3>1
    <3>3. Max({times[run][r.driven], r.clock}) \in Int
          BY <3>1, <3>2, MinMax
    <3> QED BY <1>1, <3>1, <3>3
  <2> QED BY <1>1, <2>1, <2>2, <2>3 DEF FileInv, LogTypes
<1>5. Ordered'
  <2>1. e.at \in Int /\ now \in Int
        BY <1>3 DEF Row, FileInv, LogTypes
  <2>2. r.at = e.at - Jitter /\ e.at = now - Step /\ now' = now
        BY <1>1
  <2>3. r.at \in Int /\ e.at - r.at = Jitter /\ r.at < now /\ now >= now
        BY ONLY <1>2, <2>1, <2>2
  <2>4. now' >= now /\ r.at < now' /\ now' \in Int
        BY ONLY <2>1, <2>2, <2>3
  <2>5. e.at - r.at <= MinDrop
        BY ONLY <1>2, <2>3
  <2>6. r \in Row /\ rows' = Append(rows, r) /\ run' = run /\ r.run = run /\ rows # <<>> /\ e.run = run
        BY <1>1
  <2>7. IF rows # <<>> /\ rows[Len(rows)].run = run THEN rows[Len(rows)].at - r.at <= MinDrop
        ELSE r.at = 0
        BY ONLY <1>3, <2>5, <2>6
  <2> QED BY <2>4, <2>6, <2>7, AppendOrdered
<1> QED BY <1>4, <1>5 DEF FileInv

LEMMA NextLapFile == FileInv /\ NextLap => FileInv'
<1> SUFFICES ASSUME FileInv, NextLap PROVE FileInv'
    OBVIOUS
<1>1. lap' = lap + 1 /\ lap < MaxLaps /\ clock' = 0 /\ whole' = 0 /\ stray' = 0
      /\ UNCHANGED <<rows, run, now, times>>
      BY DEF NextLap
<1>2. lap' \in LapNumbers /\ 0 \in 0..MinRun
      BY <1>1, LapsConstantsOK DEF FileInv, LogTypes, LapNumbers
<1>3. LogTypes'
      BY <1>1, <1>2 DEF FileInv, LogTypes
<1>4. Ordered'
      BY <1>1 DEF FileInv, Ordered
<1> QED BY <1>3, <1>4 DEF FileInv

LEMMA RestartFile == FileInv /\ Restart => FileInv'
<1> SUFFICES ASSUME FileInv, Restart PROVE FileInv'
    OBVIOUS
<1>1. run < MaxRestarts /\ rows # <<>> /\ Last(rows).run = run /\ Last(rows).at > MinDrop
      /\ run' = run + 1 /\ now' = 0 /\ lap' = 0 /\ clock' = 0 /\ whole' = 0 /\ stray' = 0
      /\ UNCHANGED <<rows, times>>
      BY DEF Restart
<1>2. run \in Nat /\ run' \in Runs /\ 0 \in LapNumbers /\ 0 \in 0..MinRun
      BY <1>1, LapsConstantsOK DEF FileInv, LogTypes, Runs, LapNumbers
<1>3. LogTypes'
      BY <1>1, <1>2 DEF FileInv, LogTypes
<1>4. rows[Len(rows)].run = run /\ rows[Len(rows)].at > MinDrop
      BY <1>1, LastIs
<1>5. \A i \in 1..Len(rows) : rows[i].run <= run' /\ rows[i].run \in Nat
  <2>1. \A i \in 1..Len(rows) : rows[i].run <= run /\ rows[i].run \in Runs
        BY DEF FileInv, LogTypes, Ordered
  <2> QED BY <1>1, <1>2, <2>1 DEF Runs
<1>6. rows[Len(rows)].run # run'
      BY <1>1, <1>2, <1>4
<1>7. Ordered'
      BY <1>1, <1>4, <1>5, <1>6 DEF FileInv, Ordered
<1> QED BY <1>3, <1>7 DEF FileInv

recording == <<device, laptimer, logger>>

LEMMA NextFileInv == FileInv /\ [RecordingNext]_recording => FileInv'
<1> SUFFICES ASSUME FileInv, [RecordingNext]_recording PROVE FileInv'
    OBVIOUS
<1>1. CASE UNCHANGED logger
      BY <1>1 DEF logger, FileInv, LogTypes, Ordered
<1>2. CASE LoggerNext
      BY <1>2, WriteFile, WriteLateFile, WriteStrayFile, NextLapFile, RestartFile DEF LoggerNext
<1> QED BY <1>1, <1>2 DEF RecordingNext, recording

\* The boundaries of split_sessions are the restarts.
LEMMA FileInvSplits == FileInv => SessionsRecovered
<1> SUFFICES ASSUME FileInv PROVE SessionsRecovered
    OBVIOUS
<1> DEFINE n == Len(rows)  g == [i \in 1..Len(rows) |-> rows[i].run]
<1>1. rows \in Seq(Row) /\ n \in Nat /\ DOMAIN rows = 1..n
      BY DEF FileInv, LogTypes
<1>2. \A i \in 1..n : rows[i] \in Row
      BY <1>1
<1>3. g \in [1..Len(rows) -> Nat] /\ \A i \in 1..n : g[i] = rows[i].run
      BY <1>2 DEF Row
<1>4. \A i, j \in 1..Len(rows) : i <= j => g[i] <= g[j]
      BY <1>3 DEF FileInv, Ordered
<1>5. ASSUME NEW i \in 1..Len(rows)
      PROVE  Boundary(rows, i) <=> i = 1 \/ g[i] # g[i - 1]
  <2>1. CASE i = 1
        BY <2>1 DEF Boundary
  <2>2. CASE i # 1
    <3>1. i - 1 \in 1..n
          BY <1>1, <2>2
    <3>2. g[i] = rows[i].run /\ g[i - 1] = rows[i - 1].run
          BY <1>3, <3>1
    <3>3. IF rows[i].run = rows[i - 1].run
          THEN rows[i - 1].at - rows[i].at <= MinDrop
          ELSE rows[i].at = 0 /\ rows[i - 1].at > MinDrop
          BY <2>2 DEF FileInv, Ordered
    <3>4. rows[i].at \in Int /\ rows[i - 1].at \in Int /\ MinDrop \in Nat /\ MaxPost \in Nat \ {0}
          BY <1>2, <3>1, LapsConstantsOK DEF Row
    <3> QED BY <2>2, <3>2, <3>3, <3>4 DEF Boundary
  <2> QED BY <2>1, <2>2
<1> HIDE DEF g
<1>6. SplitSessions(rows) = Groups(rows, g)
      BY <1>1, <1>3, <1>4, <1>5, SplitIs
<1>7. \A r : {i \in 1..Len(rows) : g[i] = r} = RowsOf(r)
      BY <1>1, <1>3 DEF RowsOf
<1>8. {g[i] : i \in 1..Len(rows)} = {rows[i].run : i \in DOMAIN rows}
      BY <1>1, <1>3
<1> QED BY <1>6, <1>7, <1>8 DEF SessionsRecovered, Groups

\* A file is cut exactly where the logger was restarted, however many rows it
\* wrote late and wherever.
THEOREM SessionsAreFound == RecordingSpec => []SessionsRecovered
<1> QED BY InitFileInv, NextFileInv, FileInvSplits, PTL DEF RecordingSpec, recording

-----------------------------------------------------------------------------
\* Whole quotients.
LEMMA Quotient ==
    ASSUME NEW a \in Int, NEW d \in Nat \ {0}
    PROVE  a \div d \in Int /\ d * (a \div d) <= a /\ a < d * (a \div d) + d
OBVIOUS

LEMMA Multiples ==
    ASSUME NEW F \in Nat \ {0}, NEW i \in Int, NEW j \in Int
    PROVE  /\ i <= j <=> i * F <= j * F
           /\ i < j <=> i * F < j * F
           /\ i * F \in Int
           /\ (i + 1) * F = i * F + F
<1>1. i * F \in Int /\ j * F \in Int /\ (i + 1) * F = i * F + F
      OBVIOUS
<1>2. i <= j => i * F <= j * F
  <2> SUFFICES ASSUME i <= j PROVE i * F <= j * F
      OBVIOUS
  <2>1. j - i \in Nat /\ F \in Nat
        OBVIOUS
  <2>2. (j - i) * F >= 0
        BY ONLY <2>1
  <2>3. (j - i) * F = j * F - i * F
        OBVIOUS
  <2> QED BY <1>1, <2>2, <2>3
<1>3. i < j => i * F < j * F
  <2> SUFFICES ASSUME i < j PROVE i * F < j * F
      OBVIOUS
  <2>1. j - i - 1 \in Nat /\ F \in Nat
        OBVIOUS
  <2>2. (j - i - 1) * F >= 0
        BY ONLY <2>1
  <2>3. (j - i - 1) * F = j * F - i * F - F
        OBVIOUS
  <2> QED BY <1>1, <2>2, <2>3
<1>4. i > j => i * F > j * F
  <2> SUFFICES ASSUME i > j PROVE i * F > j * F
      OBVIOUS
  <2>1. i - j - 1 \in Nat /\ F \in Nat
        OBVIOUS
  <2>2. (i - j - 1) * F >= 0
        BY ONLY <2>1
  <2>3. (i - j - 1) * F = i * F - j * F - F
        OBVIOUS
  <2> QED BY <1>1, <2>2, <2>3
<1> QED BY <1>1, <1>2, <1>3, <1>4

\* A part of a whole is less than the whole.
LEMMA PartOf ==
    ASSUME NEW F \in Nat \ {0}, NEW d \in Nat \ {0}, NEW a \in 0..(d - 1)
    PROVE  (F * a) \div d \in 0..(F - 1)
<1> DEFINE p == F * a  q == p \div d
<1>1. p \in Int /\ p >= 0
      OBVIOUS
<1>2. p < d * F
  <2>1. a < d => a * F < d * F
        BY Multiples
  <2> QED BY <2>1
<1> HIDE DEF p
<1>3. q \in Int /\ d * q <= p /\ p < d * q + d
      BY <1>1, Quotient
<1> HIDE DEF q
<1>4. q < F
  <2>1. q < F <=> q * d < F * d
        BY <1>3, Multiples
  <2>2. q * d = d * q /\ F * d = d * F
        BY <1>3
  <2>3. d * q \in Int /\ d * F \in Int
        BY <1>3
  <2> QED BY <1>1, <1>2, <1>3, <2>1, <2>2, <2>3
<1>5. q >= 0
  <2>1. -1 < q <=> (-1) * d < q * d
        BY <1>3, Multiples
  <2>2. q * d = d * q /\ (-1) * d = -d
        BY <1>3
  <2>3. d * q \in Int
        BY <1>3
  <2> QED BY <1>1, <1>3, <2>1, <2>2, <2>3
<1> QED BY <1>3, <1>4, <1>5 DEF p, q

\* The fix before a time.
LEMMA FixOf ==
    ASSUME NEW F \in Nat \ {0}, NEW n \in Nat, NEW t \in 0..(n * F)
    PROVE  /\ t \div F \in 0..n
           /\ (t \div F) * F <= t
           /\ t < (t \div F) * F + F
           /\ t - F < (t \div F) * F
<1> DEFINE q == t \div F
<1>1. n * F \in Int /\ t \in Int /\ t >= 0
      OBVIOUS
<1>2. q \in Int /\ F * q <= t /\ t < F * q + F
      BY <1>1, Quotient
<1> HIDE DEF q
<1>3. F * q = q * F /\ q * F \in Int
      BY <1>2
<1>4. q <= n <=> q * F <= n * F
      BY <1>2, Multiples
<1>5. -1 < q <=> (-1) * F < q * F
      BY <1>2, Multiples
<1>6. (-1) * F = -F
      OBVIOUS
<1>7. q <= n /\ q >= 0
      BY <1>1, <1>2, <1>3, <1>4, <1>5, <1>6
<1> QED BY <1>1, <1>2, <1>3, <1>7 DEF q

LEMMA FixTimeOf ==
    ASSUME NEW F \in Nat \ {0}, NEW i \in Nat
    PROVE  (i * F) \div F = i
<1>1. i * F \in Int
      OBVIOUS
<1>2. i * F \in 0..(i * F)
  <2>1. 0 <= i <=> 0 * F <= i * F
        BY Multiples
  <2> QED BY <1>1, <2>1
<1> DEFINE q == (i * F) \div F
<1>3. q \in 0..i /\ i * F < q * F + F
      BY <1>2, FixOf
<1> HIDE DEF q
<1>4. i < q + 1 <=> i * F < (q + 1) * F
      BY <1>3, Multiples
<1>5. (q + 1) * F = q * F + F
      BY <1>3, Multiples
<1> QED BY <1>3, <1>4, <1>5 DEF q

-----------------------------------------------------------------------------
\* Crossings goes through the fixes one by one.
Crosses(fwd) == {Crossing(fwd, i) : i \in 1..Len(fwd)}
CrossSteps(fwd, passed, u) ==
    /\ u \in [0..Len(fwd) -> Seq(Crosses(fwd))]
    /\ u[0] = <<>>
    /\ \A i \in 1..Len(fwd) :
          u[i] = IF i \in passed THEN Cross(u[i - 1], Crossing(fwd, i)) ELSE u[i - 1]
    /\ Crossings(fwd, passed) = u[Len(fwd)]

LEMMA CrossIs == ASSUME NEW cs, NEW c PROVE Cross(cs, c) = Append(cs, c) \/ Cross(cs, c) = cs
BY DEF Cross

LEMMA CrossingsUpto ==
    ASSUME NEW T, NEW fwd \in Seq(T), NEW passed
    PROVE  \E u : CrossSteps(fwd, passed, u)
<1> DEFINE n == Len(fwd)  V == Seq(Crosses(fwd))  one(i) == Crossing(fwd, i)
           G == [i \in 1..n |-> [v \in V |-> IF i \in passed THEN Cross(v, one(i)) ELSE v]]
           Eq(f) == f = [i \in 0..Len(fwd) |->
                           IF i = 0 THEN <<>>
                           ELSE IF i \in passed THEN Cross(f[i - 1], Crossing(fwd, i))
                           ELSE f[i - 1]]
           c == CHOOSE f : Eq(f)
<1>1. n \in Nat /\ \A i \in 1..n : one(i) \in Crosses(fwd)
      BY DEF Crosses
<1>2. <<>> \in V /\ \A v \in V, e \in Crosses(fwd) : Append(v, e) \in V
      OBVIOUS
<1>3. \A v \in V, e \in Crosses(fwd) : Cross(v, e) \in V
      BY <1>2, CrossIs
<1> HIDE DEF V, one
<1>4. G \in [1..n -> [V -> V]]
      BY <1>1, <1>3
<1>5. \A i \in 1..n, v \in V : G[i][v] = IF i \in passed THEN Cross(v, one(i)) ELSE v
      OBVIOUS
<1> HIDE DEF G
<1>6. PICK u \in [0..n -> V] : u[0] = <<>> /\ \A i \in 1..n : u[i] = G[i][u[i - 1]]
  <2> DEFINE v == <<>>
  <2>1. n \in Nat /\ v \in V /\ G \in [1..n -> [V -> V]]
        BY <1>1, <1>2, <1>4
  <2> HIDE DEF n, v
  <2>2. \E u \in [0..n -> V] : u[0] = v /\ \A i \in 1..n : u[i] = G[i][u[i - 1]]
        BY <2>1, Recursion
  <2> QED BY <2>2 DEF n, v
<1>7. \A i \in 1..n : u[i] = IF i \in passed THEN Cross(u[i - 1], Crossing(fwd, i)) ELSE u[i - 1]
  <2> TAKE i \in 1..n
  <2>1. i - 1 \in 0..n
        BY <1>1
  <2>2. u[i - 1] \in V
        BY <2>1
  <2> QED BY <1>5, <1>6, <2>2 DEF one
<1>8. Eq(u)
  <2> DEFINE w == [i \in 0..Len(fwd) |->
                     IF i = 0 THEN <<>>
                     ELSE IF i \in passed THEN Cross(u[i - 1], Crossing(fwd, i)) ELSE u[i - 1]]
  <2>1. ASSUME NEW i \in 0..n PROVE u[i] = w[i]
    <3>1. CASE i = 0
          BY <1>6, <3>1
    <3>2. CASE i # 0
      <4>1. i \in 1..n
            BY <1>1, <3>2
      <4>2. w[i] = IF i \in passed THEN Cross(u[i - 1], Crossing(fwd, i)) ELSE u[i - 1]
            BY <3>2
      <4> QED BY <1>7, <4>1, <4>2
    <3> QED BY <3>1, <3>2
  <2> HIDE DEF w
  <2>2. w = [i \in 0..n |-> w[i]]
        BY DEF w
  <2>3. u = [i \in 0..n |-> u[i]]
        OBVIOUS
  <2>4. u = w
        BY <2>1, <2>2, <2>3
  <2> QED BY <2>4 DEF w
<1>9. Eq(c)
      BY <1>8
<1>10. Crossings(fwd, passed) = c[n]
      BY DEF Crossings
<1>11. \A i \in 0..n : c[i] = IF i = 0 THEN <<>>
                       ELSE IF i \in passed THEN Cross(c[i - 1], Crossing(fwd, i)) ELSE c[i - 1]
  <2> HIDE DEF c
  <2> QED BY <1>9
<1> HIDE DEF c, Eq
<1> DEFINE P == {i \in 0..n : c[i] = u[i]}
<1>12. 0 \in P
      BY <1>1, <1>6, <1>11
<1>13. ASSUME NEW i \in 0..(n - 1), i \in P PROVE i + 1 \in P
  <2>1. i + 1 \in 1..n /\ (i + 1) - 1 = i /\ i + 1 \in 0..n /\ i + 1 # 0
        BY <1>1
  <2> QED BY <1>7, <1>11, <1>13, <2>1
<1> HIDE DEF P
<1>14. 0..n \subseteq P
      BY <1>1, <1>12, <1>13, Induct
<1>15. n \in 0..n
      BY <1>1
<1>16. c[n] = u[n]
      BY <1>14, <1>15 DEF P
<1> QED BY <1>6, <1>7, <1>10, <1>16 DEF CrossSteps, V

\* A crossing for each fix at most, one after the other, none at the first.
InOrder(cs, i) ==
    /\ \A k \in 1..Len(cs) : cs[k].fix \in 2..i
    /\ \A k, m \in 1..Len(cs) : k < m => cs[k].fix < cs[m].fix

LEMMA CrossingsInOrder ==
    ASSUME NEW T, NEW fwd \in Seq(T), NEW passed, passed \subseteq 2..Len(fwd)
    PROVE  /\ Crossings(fwd, passed) \in Seq(Crosses(fwd))
           /\ InOrder(Crossings(fwd, passed), Len(fwd))
<1> DEFINE n == Len(fwd)
<1>1. n \in Nat
      OBVIOUS
<1>2. PICK u : CrossSteps(fwd, passed, u)
      BY CrossingsUpto
<1> DEFINE P == {i \in 0..n : InOrder(u[i], i)}
<1>3. 0 \in P
      BY <1>1, <1>2 DEF CrossSteps, InOrder
<1>4. ASSUME NEW i \in 0..(n - 1), i \in P PROVE i + 1 \in P
  <2>1. i + 1 \in 1..n /\ (i + 1) - 1 = i /\ i + 1 \in 0..n /\ i \in 0..n
        BY <1>1
  <2> DEFINE v == u[i]  c == Crossing(fwd, i + 1)
  <2>2. v \in Seq(Crosses(fwd)) /\ InOrder(v, i)
        BY <1>2, <1>4, <2>1 DEF CrossSteps
  <2>3. c \in Crosses(fwd) /\ c.fix = i + 1
        BY <2>1 DEF Crosses, Crossing
  <2>4. u[i + 1] = IF i + 1 \in passed THEN Cross(v, c) ELSE v
        BY <1>2, <2>1 DEF CrossSteps
  <2> HIDE DEF v, c
  <2>5. u[i + 1] = v \/ (i + 1 \in passed /\ u[i + 1] = Append(v, c))
        BY <2>4, CrossIs
  <2>6. InOrder(v, i + 1)
        BY <2>2, <1>1 DEF InOrder
  <2>7. i + 1 \in passed => InOrder(Append(v, c), i + 1)
    <3> SUFFICES ASSUME i + 1 \in passed PROVE InOrder(Append(v, c), i + 1)
        OBVIOUS
    <3> DEFINE m == Len(v)  w == Append(v, c)
    <3>1. m \in Nat /\ Len(w) = m + 1 /\ w[m + 1] = c /\ \A k \in 1..m : w[k] = v[k]
          BY <2>2, <2>3
    <3> HIDE DEF m, w
    <3>2. \A k \in 1..m : v[k].fix \in 2..i
          BY <2>2 DEF InOrder, m
    <3>3. \A k, l \in 1..m : k < l => v[k].fix < v[l].fix
          BY <2>2 DEF InOrder, m
    <3>4. i + 1 \in 2..(i + 1)
          BY <2>1
    <3>5. \A k \in 1..(m + 1) : k \in 1..m \/ k = m + 1
          BY <3>1
    <3>6. \A k \in 1..Len(w) : w[k].fix \in 2..(i + 1)
          BY <2>1, <2>3, <3>1, <3>2, <3>4, <3>5
    <3>7. ASSUME NEW k \in 1..Len(w), NEW l \in 1..Len(w), k < l
          PROVE  w[k].fix < w[l].fix
      <4>1. k \in 1..m
            BY <3>1, <3>7
      <4>2. CASE l = m + 1
            BY <2>1, <2>3, <3>1, <3>2, <4>1, <4>2
      <4>3. CASE l \in 1..m
            BY <3>1, <3>3, <3>7, <4>1, <4>3
      <4> QED BY <3>1, <3>5, <4>2, <4>3
    <3> QED BY <3>6, <3>7 DEF InOrder, w
  <2> QED BY <2>1, <2>5, <2>6, <2>7
<1> HIDE DEF P
<1>5. 0..n \subseteq P
      BY <1>1, <1>3, <1>4, Induct
<1>6. n \in 0..n /\ n \in P
      BY <1>1, <1>5
<1> QED BY <1>2, <1>6 DEF CrossSteps, P

-----------------------------------------------------------------------------
\* Laps are counted one at a time, from none.
Stepwise(laps, n) ==
    /\ laps \in [1..n -> Nat]
    /\ laps[1] = 0
    /\ \A i \in 1..(n - 1) : laps[i + 1] \in laps[i]..(laps[i] + 1)

LEMMA StepwiseGrows ==
    ASSUME NEW n \in Nat \ {0}, NEW laps, Stepwise(laps, n)
    PROVE  \A i, j \in 1..n : i <= j => laps[i] <= laps[j]
<1> TAKE i \in 1..n
<1>1. \A j \in 1..n : laps[j] \in Nat
      BY DEF Stepwise
<1> DEFINE P == {k \in 0..(n - i) : laps[i] <= laps[i + k]}
<1>2. 0 \in P
      BY <1>1
<1>3. ASSUME NEW k \in 0..((n - i) - 1), k \in P PROVE k + 1 \in P
  <2>1. k + 1 \in 0..(n - i) /\ i + k \in 1..(n - 1) /\ (i + k) + 1 = i + (k + 1) /\ i + k \in 1..n
        /\ i + (k + 1) \in 1..n
        OBVIOUS
  <2>2. laps[(i + k) + 1] \in laps[i + k]..(laps[i + k] + 1)
        BY <2>1 DEF Stepwise
  <2> QED BY <1>1, <1>3, <2>1, <2>2
<1> HIDE DEF P
<1>4. 0..(n - i) \subseteq P
  <2>1. n - i \in Nat
        OBVIOUS
  <2> QED BY <1>2, <1>3, <2>1, Induct
<1> TAKE j \in 1..n
<1> HAVE i <= j
<1>5. j - i \in 0..(n - i) /\ i + (j - i) = j
      OBVIOUS
<1> QED BY <1>4, <1>5 DEF P

LEMMA LapsStepwise ==
    ASSUME NEW n \in Nat \ {0}, NEW x, DOMAIN x = 1..n, NEW C, NEW cs \in Seq(C), InOrder(cs, n)
    PROVE  Stepwise(Laps(x, cs), n)
<1> DEFINE upto(i) == {k \in DOMAIN cs : cs[k].fix <= i}
<1>1. DOMAIN cs = 1..Len(cs) /\ Len(cs) \in Nat /\ \A k \in 1..Len(cs) : cs[k].fix \in 2..n
      BY DEF InOrder
<1>2. \A i : IsFiniteSet(upto(i))
  <2>1. IsFiniteSet(1..Len(cs))
        BY <1>1, FS_Interval
  <2> TAKE i
  <2>2. upto(i) \subseteq 1..Len(cs)
        BY <1>1
  <2> HIDE DEF upto
  <2> QED BY <2>1, <2>2, FS_Subset
<1>3. upto(1) = {}
      BY <1>1
<1>4. ASSUME NEW i \in 1..(n - 1)
      PROVE  Cardinality(upto(i + 1)) \in Cardinality(upto(i))..(Cardinality(upto(i)) + 1)
  <2> DEFINE at == {k \in DOMAIN cs : cs[k].fix = i + 1}
  <2>1. CASE at = {}
    <3>1. upto(i + 1) = upto(i)
          BY <1>1, <2>1
    <3>2. Cardinality(upto(i)) \in Nat
      <4> HIDE DEF upto
      <4> QED BY <1>2, FS_CardinalityType
    <3> HIDE DEF upto
    <3> QED BY <3>1, <3>2
  <2>2. CASE at # {}
    <3>1. PICK k \in at : TRUE
          BY <2>2
    <3>2. k \in 1..Len(cs) /\ cs[k].fix = i + 1
          BY <1>1, <3>1
    <3>3. \A m \in 1..Len(cs) : cs[m].fix = i + 1 => m = k
          BY <1>1, <3>2 DEF InOrder
    <3>4. k \notin upto(i) /\ upto(i + 1) = upto(i) \cup {k}
      <4>1. k \notin upto(i) /\ k \in upto(i + 1)
            BY <1>1, <3>2
      <4>2. \A m \in 1..Len(cs) : cs[m].fix <= i + 1 <=> cs[m].fix <= i \/ cs[m].fix = i + 1
            BY <1>1
      <4> QED BY <1>1, <3>2, <3>3, <4>1, <4>2
    <3> HIDE DEF upto
    <3>5. Cardinality(upto(i + 1)) = Cardinality(upto(i)) + 1
          BY <1>2, <3>4, FS_AddElement
    <3>6. Cardinality(upto(i)) \in Nat
          BY <1>2, FS_CardinalityType
    <3> QED BY <3>5, <3>6
  <2> QED BY <2>1, <2>2
<1>5. \A i \in 1..n : Laps(x, cs)[i] = Cardinality(upto(i))
      BY DEF Laps
<1>6. DOMAIN Laps(x, cs) = 1..n /\ Laps(x, cs) = [i \in 1..n |-> Laps(x, cs)[i]]
      BY DEF Laps
<1>7. Cardinality({}) = 0
      BY FS_EmptySet
<1>8. \A i \in 1..n : Cardinality(upto(i)) \in Nat
  <2> HIDE DEF upto
  <2> QED BY <1>2, FS_CardinalityType
<1> DEFINE l == Laps(x, cs)
<1> HIDE DEF l
<1>9. l \in [1..n -> Nat]
      BY <1>5, <1>6, <1>8 DEF l
<1>10. l[1] = 0
  <2>1. 1 \in 1..n
        OBVIOUS
  <2> HIDE DEF upto
  <2> QED BY <1>3, <1>5, <1>7, <2>1 DEF l
<1>11. \A i \in 1..(n - 1) : l[i + 1] \in l[i]..(l[i] + 1)
  <2> TAKE i \in 1..(n - 1)
  <2>1. i \in 1..n /\ i + 1 \in 1..n
        OBVIOUS
  <2> HIDE DEF upto
  <2> QED BY <1>4, <1>5, <2>1 DEF l
<1> QED BY <1>9, <1>10, <1>11 DEF Stepwise, l

LEMMA LapNumbersStepwise ==
    ASSUME NEW R, NEW x \in Seq(R), x # <<>>
    PROVE  Stepwise(LapNumbersOf(x), Len(x))
<1> DEFINE n == Len(x)  fwd == Forward(x)
<1>1. n \in Nat \ {0} /\ DOMAIN x = 1..n
      OBVIOUS
<1>2. CASE LapNumbersOf(x) = [i \in DOMAIN x |-> 0]
      BY <1>1, <1>2 DEF Stepwise
<1>3. CASE LapNumbersOf(x) = Laps(x, Crossings(fwd, Passed(fwd)))
  <2> DEFINE T == {fwd[i] : i \in 1..n}
  <2>1. DOMAIN fwd = 1..n
        BY <1>1 DEF Forward
  <2>2. fwd = [i \in 1..n |-> fwd[i]]
        BY <1>1 DEF Forward
  <2> HIDE DEF fwd
  <2>3. fwd \in [1..n -> T]
        BY <2>2
  <2>4. fwd \in Seq(T) /\ Len(fwd) = n
        BY <1>1, <2>3
  <2>5. Passed(fwd) \subseteq 2..Len(fwd)
        BY DEF Passed
  <2> HIDE DEF T
  <2>6. /\ Crossings(fwd, Passed(fwd)) \in Seq(Crosses(fwd))
        /\ InOrder(Crossings(fwd, Passed(fwd)), n)
        BY <2>4, <2>5, CrossingsInOrder
  <2> QED BY <1>1, <1>3, <2>6, LapsStepwise
<1> QED BY <1>2, <1>3 DEF LapNumbersOf

-----------------------------------------------------------------------------
\* What a decoder of a file of n fixes shows at time t, from 0 to (n - 1)
\* fixes: the lap of the fix before.
Frame(n)      == 0..((n - 1) * FixTime)
FixAt(t)      == t \div FixTime + 1
ShownAt(laps, t) == RowAt(laps, t, FixAt(t))
Shown == [at : Int, lap : Int, clock : Int]

LEMMA FixAtIs ==
    ASSUME NEW n \in Nat \ {0}, NEW t \in Frame(n)
    PROVE  /\ FixAt(t) \in 1..n
           /\ (FixAt(t) - 1) * FixTime <= t
           /\ t < FixAt(t) * FixTime
           /\ FixBefore([i \in 1..n |-> 0], t) = FixAt(t)
<1> DEFINE F == FixTime  m == n - 1  q == t \div FixTime
<1>1. F \in Nat \ {0} /\ m \in Nat /\ t \in 0..(m * F)
      BY UniFileConstantsOK DEF Frame
<1>2. q \in 0..m /\ q * F <= t /\ t < q * F + F
      BY <1>1, FixOf
<1> HIDE DEF q
<1>3. (q + 1) * F = q * F + F
      BY <1>1, <1>2, Multiples
<1>4. FixAt(t) = q + 1 /\ (q + 1) - 1 = q /\ q + 1 \in 1..n
      BY <1>2 DEF FixAt, q
<1>5. Len([i \in 1..n |-> 0]) = n
      OBVIOUS
<1>6. Min({n, q + 1}) = q + 1
  <2>1. q + 1 \in Int /\ n \in Int /\ q + 1 <= n
        BY <1>2
  <2>2. Min({n, q + 1}) = IF n < q + 1 THEN n ELSE q + 1
        BY <2>1, MinMax
  <2> QED BY <2>1, <2>2
<1> QED BY <1>2, <1>3, <1>4, <1>5, <1>6 DEF FixBefore, q

\* The sequence of fixes a file holds matters by its length and its offsets.
Placed(x) == \A i \in 1..Len(x) : x[i].off \in Int

LEMMA ElapsedIs ==
    ASSUME NEW R, NEW x \in Seq(R), x # <<>>, Placed(x), NEW e, e.off \in Int
    PROVE  Elapsed(x, e) \in Frame(Len(x))
<1> DEFINE n == Len(x)  F == FixTime
           before == {i \in DOMAIN x : x[i].off <= e.off}
           k == Max(before)
           part == (F * (e.off - x[k].off)) \div (x[k + 1].off - x[k].off)
<1>1. n \in Nat \ {0} /\ DOMAIN x = 1..n /\ F \in Nat \ {0}
      BY UniFileConstantsOK
<1>2. \A i \in Nat : i <= n - 1 => i * F \in Frame(n)
  <2> TAKE i \in Nat
  <2> HAVE i <= n - 1
  <2>1. i * F <= (n - 1) * F /\ 0 * F <= i * F /\ i * F \in Int
        BY <1>1, Multiples
  <2>2. 0 * F = 0
        BY <1>1
  <2> DEFINE a == i * F  b == (n - 1) * F
  <2>3. b \in Int
        BY <1>1, Multiples
  <2>4. a \in Int /\ b \in Int /\ 0 <= a /\ a <= b
        BY <2>1, <2>2, <2>3
  <2> HIDE DEF a, b
  <2>5. a \in 0..b
        BY <2>4
  <2> QED BY <2>5 DEF Frame, a, b
<1>3. CASE before = {}
  <2>1. Elapsed(x, e) = 0
        BY <1>3 DEF Elapsed
  <2>2. 0 * F \in Frame(n)
        BY <1>1, <1>2
  <2>3. 0 * F = 0
        BY <1>1
  <2> QED BY <2>1, <2>2, <2>3
<1>4. CASE before # {}
  <2>1. before \subseteq Nat /\ \A i \in before : i <= n
        BY <1>1
  <2> HIDE DEF before
  <2>2. k \in before /\ \A i \in before : i <= k
        BY <1>1, <1>4, <2>1, MaxOf
  <2> HIDE DEF k
  <2>3. k \in 1..n /\ x[k].off <= e.off
        BY <1>1, <2>2 DEF before
  <2>4. CASE k = n
    <3>1. Elapsed(x, e) = (k - 1) * F
          BY <1>4, <2>4 DEF Elapsed, k, before
    <3>2. k - 1 \in Nat /\ k - 1 <= n - 1
          BY <2>3, <2>4
    <3> QED BY <1>2, <3>1, <3>2
  <2>5. CASE k # n
    <3>0. k \in Int /\ k + 1 \in 1..n
      <4>1. k \in 1..n /\ n \in Nat /\ k # n
            BY <1>1, <2>3, <2>5
      <4> HIDE DEF n
      <4> QED BY ONLY <4>1
    <3>1. k + 1 \in 1..n /\ k + 1 \notin before
      <4>1. ~(k + 1 <= k)
            BY <3>0
      <4> QED BY <2>2, <3>0, <4>1
    <3>2. x[k].off \in Int /\ x[k + 1].off \in Int /\ e.off < x[k + 1].off
          BY <1>1, <2>3, <3>1 DEF Placed, before
    <3> DEFINE d == x[k + 1].off - x[k].off  a == e.off - x[k].off
    <3>3. d \in Nat \ {0} /\ a \in 0..(d - 1)
          BY <2>3, <3>2
    <3> HIDE DEF d, a
    <3>4. (F * a) \div d \in 0..(F - 1)
          BY <1>1, <3>3, PartOf
    <3>5. part = (F * a) \div d
          BY DEF a, d
    <3> HIDE DEF part
    <3>6. Elapsed(x, e) = (k - 1) * F + part
          BY <1>4, <2>5 DEF Elapsed, k, before, part
    <3>7. (k - 1) * F \in Frame(n) /\ k * F \in Frame(n)
          BY <1>2, <2>3, <3>1
    <3>8. ((k - 1) + 1) * F = (k - 1) * F + F
          BY <1>1, <2>3, Multiples
    <3>9. k * F = (k - 1) * F + F
          BY <2>3, <3>8
    <3> DEFINE b == (k - 1) * F  c == k * F
    <3>10. b \in Int /\ b >= 0 /\ c \in Int /\ c <= (n - 1) * F /\ c = b + F
           BY <3>7, <3>9 DEF Frame
    <3> HIDE DEF b, c
    <3>11. part \in 0..(F - 1)
           BY <3>4, <3>5
    <3>12. b + part \in 0..((n - 1) * F)
      <4>1. (n - 1) * F \in Int
            BY <1>1, Multiples
      <4> DEFINE z == (n - 1) * F
      <4> HIDE DEF z
      <4>2. z \in Int /\ c <= z
            BY <3>10, <4>1 DEF z
      <4>3. b + part \in 0..z
            BY ONLY <1>1, <3>10, <3>11, <4>2
      <4> QED BY <4>3 DEF z
    <3> QED BY <3>6, <3>12 DEF Frame, b
  <2> QED BY <2>4, <2>5
<1> QED BY <1>3, <1>4

\* The rows of a table before they are sorted.
Unsorted(x, laps, events) ==
    [i \in DOMAIN x |-> RowAt(laps, (i - 1) * FixTime, i)]
    \o [k \in DOMAIN events |-> EventRow(x, laps, Elapsed(x, events[k]))]

FirstOf(laps, i) == Min({j \in DOMAIN laps : laps[j] = laps[i]})

LEMMA FirstIs ==
    ASSUME NEW n \in Nat \ {0}, NEW laps, Stepwise(laps, n), NEW i \in 1..n
    PROVE  /\ FirstOf(laps, i) \in 1..i /\ laps[FirstOf(laps, i)] = laps[i]
           /\ \A j \in 1..n : laps[j] = laps[i] => FirstOf(laps, i) <= j
<1> DEFINE S == {j \in DOMAIN laps : laps[j] = laps[i]}
<1>1. DOMAIN laps = 1..n
      BY DEF Stepwise
<1>2. S \subseteq Nat /\ i \in S
      BY <1>1
<1> HIDE DEF S
<1>3. Min(S) \in S /\ \A j \in S : Min(S) <= j
      BY <1>2, MinOf
<1>4. Min(S) \in 1..n /\ Min(S) <= i /\ laps[Min(S)] = laps[i]
      BY <1>1, <1>2, <1>3 DEF S
<1>5. \A j \in 1..n : laps[j] = laps[i] => Min(S) <= j
      BY <1>1, <1>3 DEF S
<1> QED BY <1>4, <1>5 DEF S, FirstOf

LEMMA ShownAtIs ==
    ASSUME NEW n \in Nat \ {0}, NEW laps, Stepwise(laps, n), NEW t \in Frame(n)
    PROVE  /\ ShownAt(laps, t) \in Shown
           /\ ShownAt(laps, t).at = t
           /\ ShownAt(laps, t).lap = laps[FixAt(t)]
           /\ ShownAt(laps, t).clock = t - (FirstOf(laps, FixAt(t)) - 1) * FixTime
           /\ ShownAt(laps, t).clock >= 0
<1> DEFINE i == FixAt(t)
           m == FirstOf(laps, i)
           r == ShownAt(laps, t)
<1>1. FixTime \in Nat \ {0} /\ t \in Int
      BY UniFileConstantsOK DEF Frame
<1>2. i \in 1..n /\ (i - 1) * FixTime <= t
      BY FixAtIs
<1>3. m \in 1..i /\ laps[i] \in Nat
      BY <1>2, FirstIs DEF Stepwise
<1>4. r = [at |-> t, lap |-> laps[i], clock |-> t - (m - 1) * FixTime]
      BY DEF ShownAt, RowAt, Clock, FirstOf
<1> HIDE DEF i, m, r
<1>5. (m - 1) * FixTime <= (i - 1) * FixTime /\ (m - 1) * FixTime \in Int /\ (i - 1) * FixTime \in Int
  <2>1. m - 1 \in Int /\ i - 1 \in Int /\ m - 1 <= i - 1
        BY <1>2, <1>3
  <2> QED BY <1>1, <2>1, Multiples
<1> DEFINE c == (m - 1) * FixTime
<1> HIDE DEF c
<1>6. t - c \in Int /\ t - c >= 0
  <2>1. c \in Int /\ c <= t
    <3> DEFINE d == (i - 1) * FixTime
    <3>1. c \in Int /\ d \in Int /\ c <= d /\ d <= t
          BY <1>2, <1>5 DEF c
    <3> HIDE DEF d
    <3> QED BY <1>1, <3>1
  <2> QED BY <1>1, <2>1
<1>7. r = [at |-> t, lap |-> laps[i], clock |-> t - c]
      BY <1>4 DEF c
<1>8. r \in Shown /\ r.at = t /\ r.lap = laps[i] /\ r.clock = t - c
      BY <1>1, <1>3, <1>6, <1>7 DEF Shown
<1> QED BY <1>6, <1>8 DEF c, i, m, r

LEMMA UnsortedIs ==
    ASSUME NEW R, NEW x \in Seq(R), x # <<>>, Placed(x),
           NEW Q, NEW events \in Seq(Q), Placed(events),
           NEW laps, Stepwise(laps, Len(x))
    PROVE  LET f == Unsorted(x, laps, events)
           IN  /\ f \in Seq(Shown) /\ f # <<>>
               /\ \A i \in 1..Len(f) : f[i].at \in Frame(Len(x)) /\ f[i] = ShownAt(laps, f[i].at)
               /\ \A j \in 1..Len(x) : ShownAt(laps, (j - 1) * FixTime) \in RowSet(f)
<1> DEFINE n == Len(x)  p == Len(events)
           A == [i \in DOMAIN x |-> RowAt(laps, (i - 1) * FixTime, i)]
           B == [k \in DOMAIN events |-> EventRow(x, laps, Elapsed(x, events[k]))]
           f == A \o B
<1>1. n \in Nat \ {0} /\ DOMAIN x = 1..n /\ p \in Nat /\ DOMAIN events = 1..p /\ FixTime \in Nat \ {0}
      BY SMTT(30), UniFileConstantsOK
<1>2. ASSUME NEW i \in 1..n
      PROVE  /\ (i - 1) * FixTime \in Frame(n)
             /\ RowAt(laps, (i - 1) * FixTime, i) = ShownAt(laps, (i - 1) * FixTime)
  <2>1. i - 1 \in Nat /\ i - 1 <= n - 1
        BY <1>1
  <2>2. 0 * FixTime <= (i - 1) * FixTime /\ (i - 1) * FixTime <= (n - 1) * FixTime
        /\ (i - 1) * FixTime \in Int
        BY <1>1, <2>1, Multiples
  <2>3. ((i - 1) * FixTime) \div FixTime = i - 1
        BY <1>1, <2>1, FixTimeOf
  <2>4. FixAt((i - 1) * FixTime) = i
        BY <2>3 DEF FixAt
  <2> DEFINE a == (i - 1) * FixTime  b == (n - 1) * FixTime
  <2>5. 0 * FixTime = 0 /\ b \in Int
        BY <1>1, Multiples
  <2>6. a \in Int /\ b \in Int /\ 0 <= a /\ a <= b
        BY <2>2, <2>5
  <2>7. FixAt(a) = i
        BY <2>4
  <2> HIDE DEF a, b
  <2>8. a \in 0..b /\ RowAt(laps, a, i) = ShownAt(laps, a)
        BY <2>6, <2>7 DEF ShownAt
  <2> QED BY <2>8 DEF Frame, a, b
<1>3. ASSUME NEW k \in 1..p
      PROVE  /\ Elapsed(x, events[k]) \in Frame(n)
             /\ EventRow(x, laps, Elapsed(x, events[k])) = ShownAt(laps, Elapsed(x, events[k]))
  <2> DEFINE t == Elapsed(x, events[k])
  <2>1. events[k].off \in Int
        BY DEF Placed
  <2>2. t \in Frame(n)
        BY <2>1, ElapsedIs
  <2> HIDE DEF t
  <2>3. FixBefore([i \in 1..n |-> 0], t) = FixAt(t)
        BY <1>1, <2>2, FixAtIs
  <2>4. Len([i \in 1..n |-> 0]) = n
        BY <1>1
  <2>5. FixBefore(x, t) = FixAt(t)
        BY <2>3, <2>4 DEF FixBefore
  <2> QED BY <2>2, <2>5 DEF t, EventRow, ShownAt
<1>4. \A t \in Frame(n) : ShownAt(laps, t) \in Shown /\ ShownAt(laps, t).at = t
  <2> TAKE t \in Frame(n)
  <2> HIDE DEF n
  <2>1. Stepwise(laps, n)
        BY DEF n
  <2> QED BY <1>1, <2>1, ShownAtIs
<1>5. /\ A \in Seq(Shown) /\ Len(A) = n
      /\ \A i \in 1..n : A[i] = ShownAt(laps, (i - 1) * FixTime)
      BY <1>1, <1>2, <1>4
<1>6. /\ B \in Seq(Shown) /\ Len(B) = p
      /\ \A k \in 1..p : B[k] = ShownAt(laps, Elapsed(x, events[k]))
      BY <1>1, <1>3, <1>4
<1>7. /\ \A i \in 1..n : A[i].at \in Frame(n) /\ A[i] = ShownAt(laps, A[i].at)
      /\ \A k \in 1..p : B[k].at \in Frame(n) /\ B[k] = ShownAt(laps, B[k].at)
  <2> HIDE DEF A, B
  <2> QED BY <1>2, <1>3, <1>4, <1>5, <1>6
<1>8. f = Unsorted(x, laps, events)
      BY DEF Unsorted
<1> HIDE DEF A, B, f
<1>9. /\ f \in Seq(Shown) /\ Len(f) = n + p
      /\ \A i \in 1..(n + p) : f[i] = IF i <= n THEN A[i] ELSE B[i - n]
  <2>1. /\ A \o B \in Seq(Shown) /\ Len(A \o B) = Len(A) + Len(B)
        /\ \A i \in 1..(Len(A) + Len(B)) : (A \o B)[i] = IF i <= Len(A) THEN A[i] ELSE B[i - Len(A)]
    <3>1. A \in Seq(Shown) /\ B \in Seq(Shown)
          BY <1>5, <1>6
    <3> QED BY <3>1, ConcatProperties
  <2> QED BY <1>5, <1>6, <2>1 DEF f
<1>10. \A i \in 1..Len(f) : f[i].at \in Frame(n) /\ f[i] = ShownAt(laps, f[i].at)
  <2> TAKE i \in 1..Len(f)
  <2>1. CASE i <= n
        BY <1>1, <1>7, <1>9, <2>1
  <2>2. CASE i > n
    <3>1. i - n \in 1..p /\ f[i] = B[i - n]
          BY <1>1, <1>9, <2>2
    <3> QED BY <1>7, <3>1
  <2> QED BY <1>1, <1>9, <2>1, <2>2
<1>11. \A j \in 1..n : ShownAt(laps, (j - 1) * FixTime) \in RowSet(f)
  <2> TAKE j \in 1..n
  <2>1. j \in 1..Len(f) /\ f[j] = A[j]
        BY <1>1, <1>9
  <2> QED BY <1>5, <2>1 DEF RowSet
<1>12. f # <<>>
       BY <1>1, <1>9
<1> QED BY <1>8, <1>9, <1>10, <1>11, <1>12

\* Rows in the order of their times are one recording.
LEMMA NoBoundary ==
    ASSUME NEW T, Timed(T), NEW s \in Seq(T), s # <<>>, Ascending(s)
    PROVE  SplitSessions(s) = {s}
<1> DEFINE n == Len(s)  g == [i \in 1..Len(s) |-> 0]
<1>1. n \in Nat \ {0} /\ \A i \in 1..n : s[i].at \in Int
      BY DEF Timed
<1>2. MinDrop \in Nat
      BY LapsConstantsOK
<1>3. ASSUME NEW i \in 1..Len(s)
      PROVE  Boundary(s, i) <=> i = 1 \/ g[i] # g[i - 1]
  <2>1. CASE i = 1
        BY <2>1 DEF Boundary
  <2>2. CASE i # 1
    <3>1. i - 1 \in 1..n /\ i - 1 <= i
          BY <1>1, <2>2
    <3>2. s[i - 1].at <= s[i].at /\ s[i - 1].at \in Int /\ s[i].at \in Int
          BY <1>1, <3>1 DEF Ascending
    <3>3. ~(s[i - 1].at - s[i].at > MinDrop)
          BY ONLY <1>2, <3>2
    <3>4. g[i] = g[i - 1]
          BY <3>1
    <3> QED BY <2>2, <3>3, <3>4 DEF Boundary
  <2> QED BY <2>1, <2>2
<1>4. g \in [1..Len(s) -> Nat] /\ \A i, j \in 1..Len(s) : i <= j => g[i] <= g[j]
      OBVIOUS
<1>5. \A i \in 1..Len(s) : g[i] = 0
      OBVIOUS
<1> HIDE DEF g
<1>6. SplitSessions(s) = Groups(s, g)
      BY <1>3, <1>4, SplitIs
<1>7. At(s, {i \in 1..Len(s) : g[i] = 0}) = s
  <2> DEFINE is == {i \in 1..Len(s) : g[i] = 0}
  <2>1. 1 \in 1..Len(s) /\ n \in 1..Len(s) /\ \A i \in 1..Len(s) : i \in is <=> i \in 1..n
        BY <1>1, <1>5
  <2> HIDE DEF is
  <2>2. At(s, is) = SubSeq(s, 1, n)
        BY <2>1, AtInterval
  <2>3. SubSeq(s, 1, n) = s
        OBVIOUS
  <2> QED BY <2>2, <2>3 DEF is
<1>8. {g[i] : i \in 1..Len(s)} = {0}
      BY <1>1, <1>5
<1> QED BY <1>6, <1>7, <1>8 DEF Groups

\* Between two rows that follow each other no fix is passed over, and the
\* first row of a lap is its first fix.
LEMMA RowsStep ==
    ASSUME NEW n \in Nat \ {0}, NEW laps, Stepwise(laps, n),
           NEW s \in Seq(Shown), Ascending(s),
           \A i \in 1..Len(s) : s[i].at \in Frame(n) /\ s[i] = ShownAt(laps, s[i].at),
           \A j \in 1..n : ShownAt(laps, (j - 1) * FixTime) \in RowSet(s),
           NEW i \in 1..Len(s), i > 1
    PROVE  /\ s[i].lap \in s[i - 1].lap..(s[i - 1].lap + 1)
           /\ IF s[i].lap = s[i - 1].lap THEN s[i].clock >= s[i - 1].clock ELSE s[i].clock = 0
<1> DEFINE F == FixTime  a == s[i - 1].at  b == s[i].at  p == FixAt(a)  q == FixAt(b)
<1>1. F \in Nat \ {0} /\ i - 1 \in 1..Len(s) /\ i - 1 <= i
      BY UniFileConstantsOK
<1>2. a \in Frame(n) /\ b \in Frame(n) /\ s[i - 1] = ShownAt(laps, a) /\ s[i] = ShownAt(laps, b)
      BY <1>1
<1>3. a \in Int /\ b \in Int /\ a <= b
      BY <1>1, <1>2 DEF Frame, Ascending
<1> HIDE DEF a, b
<1>4. /\ p \in 1..n /\ (p - 1) * F <= a /\ a < p * F
      /\ q \in 1..n /\ (q - 1) * F <= b /\ b < q * F
      BY <1>2, FixAtIs
<1>5. /\ s[i - 1].lap = laps[p] /\ s[i - 1].clock = a - (FirstOf(laps, p) - 1) * F
      /\ s[i].lap = laps[q] /\ s[i].clock = b - (FirstOf(laps, q) - 1) * F
      BY <1>2, ShownAtIs
<1> HIDE DEF p, q
<1>6. p <= q
  <2>1. (p - 1) * F \in Int /\ q * F \in Int
        BY <1>1, <1>4, Multiples
  <2>2. (p - 1) * F < q * F
        BY <1>3, <1>4, <2>1
  <2>3. p - 1 < q
        BY <1>1, <1>4, <2>2, Multiples
  <2> QED BY <1>4, <2>3
<1>7. ASSUME NEW j \in 1..n, p < j
      PROVE  b <= (j - 1) * F
  <2> DEFINE c == (j - 1) * F
  <2>1. p * F <= (j - 1) * F /\ (j - 1) * F \in Int /\ p * F \in Int
    <3>1. p \in Int /\ j - 1 \in Int /\ p <= j - 1
          BY <1>4, <1>7
    <3> QED BY <1>1, <3>1, Multiples
  <2>2. c \in Frame(n) /\ ShownAt(laps, c) \in RowSet(s)
    <3>1. j - 1 \in Int /\ 0 <= j - 1 /\ j - 1 <= n - 1 /\ n - 1 \in Int
          OBVIOUS
    <3>2. 0 * F <= (j - 1) * F /\ (j - 1) * F <= (n - 1) * F /\ (n - 1) * F \in Int
          BY <1>1, <3>1, Multiples
    <3>3. 0 * F = 0
          BY <1>1
    <3> DEFINE d == (n - 1) * F
    <3>4. c \in Int /\ d \in Int /\ 0 <= c /\ c <= d
          BY <2>1, <3>2, <3>3
    <3>5. ShownAt(laps, c) \in RowSet(s)
          OBVIOUS
    <3> HIDE DEF c, d
    <3>6. c \in 0..d
          BY <3>4
    <3> QED BY <3>5, <3>6 DEF Frame, d
  <2>3. a < c /\ c \in Int
    <3> DEFINE d == p * F
    <3>1. a < d /\ d <= c /\ d \in Int /\ c \in Int
          BY <1>4, <2>1
    <3> HIDE DEF d, c
    <3> QED BY <1>3, <3>1
  <2> HIDE DEF c
  <2>4. ShownAt(laps, c).at = c
        BY <2>2, ShownAtIs
  <2>5. PICK m \in 1..Len(s) : s[m] = ShownAt(laps, c)
        BY <2>2 DEF RowSet
  <2>6. s[m].at = c
        BY <2>4, <2>5
  <2>7. m >= i
    <3> SUFFICES ASSUME m <= i - 1 PROVE FALSE
        OBVIOUS
    <3>1. s[m].at <= s[i - 1].at
          BY <1>1 DEF Ascending
    <3> QED BY <1>3, <2>3, <2>6, <3>1 DEF a
  <2>8. b <= c
        BY <2>6, <2>7 DEF Ascending, b
  <2> QED BY <2>8 DEF c
<1>8. q <= p + 1
  <2> SUFFICES ASSUME q > p + 1 PROVE FALSE
      BY <1>4
  <2>1. q - 1 \in 1..n /\ p < q - 1
        BY <1>4
  <2>2. b <= (q - 1 - 1) * F
        BY <1>7, <2>1
  <2>3. (q - 1 - 1) * F < (q - 1) * F /\ (q - 1 - 1) * F \in Int /\ (q - 1) * F \in Int
    <3>1. q - 1 - 1 \in Int /\ q - 1 \in Int /\ q - 1 - 1 < q - 1
          BY <1>4
    <3> QED BY <1>1, <3>1, Multiples
  <2> DEFINE c == (q - 1 - 1) * F  d == (q - 1) * F
  <2>4. c \in Int /\ d \in Int /\ b <= c /\ c < d /\ d <= b
        BY <1>4, <2>2, <2>3
  <2> HIDE DEF c, d
  <2> QED BY <1>3, <2>4
<1>9. laps[p] \in Nat /\ laps[q] \in Nat /\ laps[q] \in laps[p]..(laps[p] + 1)
  <2>1. laps \in [1..n -> Nat]
        BY DEF Stepwise
  <2>2. CASE p = q
        BY <1>4, <2>1, <2>2
  <2>3. CASE p # q
    <3>1. q = p + 1 /\ p \in 1..(n - 1)
          BY <1>4, <1>6, <1>8, <2>3
    <3> QED BY <1>4, <2>1, <3>1 DEF Stepwise
  <2> QED BY <2>2, <2>3
<1>10. CASE laps[q] = laps[p]
  <2>1. FirstOf(laps, p) = FirstOf(laps, q)
        BY <1>10 DEF FirstOf
  <2> DEFINE c == (FirstOf(laps, p) - 1) * F
  <2>2. c \in Int
    <3>1. FirstOf(laps, p) \in Int
          BY <1>4, FirstIs
    <3> QED BY <1>1, <3>1, Multiples
  <2>3. s[i - 1].clock = a - c /\ s[i].clock = b - c
        BY <1>5, <2>1
  <2> HIDE DEF c
  <2>4. s[i].clock >= s[i - 1].clock
        BY <1>3, <2>2, <2>3
  <2> QED BY <1>5, <1>9, <1>10, <2>4
<1>11. CASE laps[q] # laps[p]
  <2>1. q = p + 1
        BY <1>4, <1>6, <1>8, <1>11
  <2>2. FirstOf(laps, q) = q
    <3>1. FirstOf(laps, q) \in 1..q /\ laps[FirstOf(laps, q)] = laps[q]
          BY <1>4, FirstIs
    <3> DEFINE m == FirstOf(laps, q)
    <3> HIDE DEF m
    <3>2. m \in 1..q /\ laps[m] = laps[q]
          BY <3>1 DEF m
    <3>3. ~(m <= p)
      <4> SUFFICES ASSUME m <= p PROVE FALSE
          OBVIOUS
      <4>1. m \in 1..n
            BY <1>4, <3>2
      <4>2. laps[m] <= laps[p]
            BY <1>4, <4>1, StepwiseGrows
      <4> QED BY <1>9, <1>11, <3>2, <4>2
    <3>4. m = q
          BY <1>4, <2>1, <3>2, <3>3
    <3> QED BY <3>4 DEF m
  <2>3. b <= (q - 1) * F
        BY <1>4, <1>7, <2>1
  <2> DEFINE c == (q - 1) * F
  <2>4. c \in Int /\ b <= c /\ c <= b
    <3>1. q - 1 \in Int
          BY <1>4
    <3> QED BY <1>1, <1>4, <2>3, <3>1, Multiples
  <2>5. s[i].clock = b - c
        BY <1>5, <2>2
  <2> HIDE DEF c
  <2>6. s[i].clock = 0
        BY <1>3, <2>4, <2>5
  <2> QED BY <1>5, <1>9, <1>11, <2>6
<1> QED BY <1>10, <1>11

\* A table is a recording, whatever the records in the file are.
LEMMA TableForward ==
    ASSUME NEW R, NEW x \in Seq(R), x # <<>>, Placed(x),
           NEW Q, NEW events \in Seq(Q), Placed(events)
    PROVE  LET t == TableOf(x, LapNumbersOf(x), events)
           IN  t \in Seq(Shown) /\ Ascending(t) /\ Forwards(t)
<1> DEFINE n == Len(x)  laps == LapNumbersOf(x)  f == Unsorted(x, laps, events)  s == Sorted(f)
<1>1. n \in Nat \ {0} /\ Stepwise(laps, n)
      BY LapNumbersStepwise
<1> HIDE DEF laps
<1>2. /\ f \in Seq(Shown) /\ f # <<>>
      /\ \A i \in 1..Len(f) : f[i].at \in Frame(n) /\ f[i] = ShownAt(laps, f[i].at)
      /\ \A j \in 1..n : ShownAt(laps, (j - 1) * FixTime) \in RowSet(f)
      BY <1>1, UnsortedIs
<1>3. Timed(Shown)
      BY DEF Timed, Shown
<1>4. TableOf(x, laps, events) = s
      BY DEF TableOf, Unsorted
<1> HIDE DEF f
<1>5. s \in Seq(Shown) /\ Ascending(s) /\ Len(s) = Len(f)
      BY <1>2, <1>3, SortedIs
<1>6. RowSet(s) = RowSet(f)
      BY <1>2, <1>3, SortedRows
<1> HIDE DEF s
<1>7. s # <<>>
      BY <1>2, <1>5
<1>8. \A i \in 1..Len(s) : s[i].at \in Frame(n) /\ s[i] = ShownAt(laps, s[i].at)
  <2> TAKE i \in 1..Len(s)
  <2>1. s[i] \in RowSet(f)
        BY <1>6 DEF RowSet
  <2>2. PICK k \in 1..Len(f) : f[k] = s[i]
        BY <2>1 DEF RowSet
  <2> QED BY <1>2, <2>2
<1>9. \A j \in 1..n : ShownAt(laps, (j - 1) * FixTime) \in RowSet(s)
      BY <1>2, <1>6
<1>10. SplitSessions(s) = {s}
      BY <1>3, <1>5, <1>7, NoBoundary
<1>11. \A i \in 1..Len(s) : s[i].clock >= 0
  <2> TAKE i \in 1..Len(s)
  <2> DEFINE t == s[i].at
  <2>1. t \in Frame(n) /\ s[i] = ShownAt(laps, t)
        BY <1>8
  <2> HIDE DEF t, n
  <2> QED BY <1>1, <2>1, ShownAtIs
<1>12. ASSUME NEW i \in 1..Len(s), i > 1
       PROVE  /\ s[i].lap \in s[i - 1].lap..(s[i - 1].lap + 1)
              /\ IF s[i].lap = s[i - 1].lap THEN s[i].clock >= s[i - 1].clock ELSE s[i].clock = 0
  <2> HIDE DEF n
  <2> QED BY <1>1, <1>5, <1>8, <1>9, <1>12, RowsStep
<1>13. DOMAIN s = 1..Len(s)
      BY <1>5
<1>14. Forwards(s)
       BY <1>10, <1>11, <1>12, <1>13 DEF Forwards
<1> QED BY <1>4, <1>5, <1>14 DEF laps

-----------------------------------------------------------------------------
\* The laptimer's file.
Marker == [off : Int, fwd : Int, fix : BOOLEAN, driven : Int]
FileTypes == file \in Seq(Marker) /\ size \in Int /\ pos \in Int

LEMMA AtIn ==
    ASSUME NEW T, NEW s \in Seq(T), NEW is
    PROVE  At(s, is) \in Seq(T)
<1>1. PICK u : AtSteps(T, s, is, u)
      BY AtUpto
<1>2. Len(s) \in 0..Len(s)
      OBVIOUS
<1> QED BY <1>1, <1>2 DEF AtSteps

Rec == [off : Int, len : Int, rec : Marker]

LEMMA RecordsIn ==
    ASSUME NEW f \in Seq(Marker)
    PROVE  Records(f) \in Seq(Rec)
<1>1. CASE f = <<>>
      BY <1>1 DEF Records
<1>2. CASE f # <<>>
  <2> DEFINE m == Len(f) - 1
             one(k) == [off |-> f[k].off, len |-> f[k + 1].off - f[k].off, rec |-> f[k]]
  <2>1. m \in Nat
        BY <1>2
  <2>2. ASSUME NEW k \in 1..m PROVE one(k) \in Rec
    <3>1. f[k] \in Marker /\ f[k + 1] \in Marker
      <4>1. k \in 1..Len(f) /\ k + 1 \in 1..Len(f)
            BY <2>1
      <4> QED BY <4>1
    <3> QED BY <3>1 DEF Marker, Rec
  <2> HIDE DEF one
  <2>3. [k \in 1..m |-> one(k)] \in Seq(Rec)
        BY <2>1, <2>2
  <2>4. Records(f) = [k \in 1..m |-> one(k)]
        BY <1>2 DEF Records, one
  <2> QED BY <2>3, <2>4
<1> QED BY <1>1, <1>2

LEMMA DecodeForward ==
    ASSUME NEW f \in Seq(Marker)
    PROVE  Decode(f) \in Seq(Shown) /\ Ascending(Decode(f)) /\ Forwards(Decode(f))
<1> DEFINE x == Fixes(f)  events == Events(f)
<1>1. x \in Seq(Rec) /\ events \in Seq(Rec)
      BY RecordsIn, AtIn DEF Fixes, Events
<1>2. Decode(f) = TableOf(x, LapNumbersOf(x), events)
      BY DEF Decode
<1> HIDE DEF x, events
<1>3. CASE x = <<>>
  <2>1. Decode(f) = <<>>
        BY <1>2, <1>3 DEF TableOf
  <2>2. Decode(f) \in Seq(Shown) /\ Ascending(Decode(f))
        BY <2>1 DEF Ascending
  <2> QED BY <2>1, <2>2 DEF Forwards
<1>4. CASE x # <<>>
  <2>1. \A i \in 1..Len(x) : x[i].off \in Int
    <3> TAKE i \in 1..Len(x)
    <3>1. x[i] \in Rec
          BY <1>1
    <3> QED BY <3>1 DEF Rec
  <2>2. \A i \in 1..Len(events) : events[i].off \in Int
    <3> TAKE i \in 1..Len(events)
    <3>1. events[i] \in Rec
          BY <1>1
    <3> QED BY <3>1 DEF Rec
  <2>3. Placed(x) /\ Placed(events)
        BY <2>1, <2>2 DEF Placed
  <2> QED BY <1>1, <1>2, <1>4, <2>3, TableForward
<1> QED BY <1>3, <1>4

LEMMA InitFileTypes == RecordingInit => FileTypes
<1> SUFFICES ASSUME RecordingInit PROVE FileTypes
    OBVIOUS
<1>1. file = <<>> /\ size = 0 /\ pos = Pit
      BY DEF RecordingInit
<1>2. Pit \in Int
      BY UniFileConstantsOK
<1>3. <<>> \in Seq(Marker)
      OBVIOUS
<1> QED BY <1>1, <1>2, <1>3 DEF FileTypes

LEMMA RoundIs == Round \in Nat \ {0} /\ Radius \in Nat /\ Noise \in Nat
<1>1. {Window, Radius, Round, Noise} \subseteq Nat /\ 2 * ((Window + 1) * Radius + Noise) < Round
      BY UniFileConstantsOK
<1> DEFINE w == (Window + 1) * Radius
<1>2. w \in Nat
      BY <1>1
<1> HIDE DEF w
<1>3. 2 * (w + Noise) < Round
      BY <1>1 DEF w
<1> QED BY <1>1, <1>2, <1>3

LEMMA SeenIn ==
    ASSUME NEW p \in Int
    PROVE  Seen(p) \in Int /\ p \div Round \in Int
<1>1. Round \in Nat \ {0}
      BY RoundIs
<1>2. p % Round \in Int /\ p \div Round \in Int
      BY <1>1
<1> QED BY <1>1, <1>2 DEF Seen

LEMMA DriveTypes == FileTypes /\ Drive => FileTypes'
<1> SUFFICES ASSUME FileTypes, Drive PROVE FileTypes'
    OBVIOUS
<1>1. file \in Seq(Marker) /\ size \in Int /\ pos \in Int
      BY DEF FileTypes
<1>2. FixLen \in Nat /\ Cuts \subseteq 1..(FixLen - 1) /\ Radius \in Nat /\ Noise \in Nat
      /\ \A v \in Speeds : v \in 1..Radius
      BY UniFileConstantsOK, RoundIs
<1>3. PICK v \in IF Size(Seen(pos)) <= Radius THEN Speeds ELSE {Radius} :
         /\ pos' = pos + v
         /\ \E n \in IF Size(Seen(pos')) <= Noise THEN -Noise..Noise ELSE {0},
               c \in IF OddCount < MaxOdd THEN Cuts \cup {0} ELSE {0} :
              LET m == [off |-> size, fwd |-> Seen(pos') + n, fix |-> TRUE,
                        driven |-> pos' \div Round]
              IN  file' = file \o IF c = 0 THEN <<m>>
                                  ELSE <<m, [m EXCEPT !.off = size + c, !.fix = FALSE]>>
      BY DEF Drive
<1>4. v \in Int /\ pos' \in Int
      BY <1>1, <1>2, <1>3
<1>5. PICK n \in IF Size(Seen(pos')) <= Noise THEN -Noise..Noise ELSE {0},
           c \in IF OddCount < MaxOdd THEN Cuts \cup {0} ELSE {0} :
              file' = file \o IF c = 0 THEN <<[off |-> size, fwd |-> Seen(pos') + n, fix |-> TRUE,
                        driven |-> pos' \div Round]>>
                      ELSE <<[off |-> size, fwd |-> Seen(pos') + n, fix |-> TRUE,
                        driven |-> pos' \div Round], [[off |-> size, fwd |-> Seen(pos') + n, fix |-> TRUE,
                        driven |-> pos' \div Round] EXCEPT !.off = size + c, !.fix = FALSE]>>
      BY <1>3
<1> DEFINE m == [off |-> size, fwd |-> Seen(pos') + n, fix |-> TRUE, driven |-> pos' \div Round]
           k == [m EXCEPT !.off = size + c, !.fix = FALSE]
<1>6. n \in Int /\ c \in Int
      BY <1>2
<1>7. m \in Marker
      BY <1>1, <1>4, <1>6, SeenIn DEF Marker
<1>8. k \in Marker
  <2>1. size + c \in Int
        BY <1>1, <1>6
  <2> HIDE DEF m
  <2> QED BY <1>7, <2>1 DEF Marker
<1>9. file' = file \o <<m>> \/ file' = file \o <<m, k>>
      BY <1>5
<1> HIDE DEF m, k
<1>10. file' \in Seq(Marker)
  <2>1. <<m>> \in Seq(Marker) /\ <<m, k>> \in Seq(Marker)
        BY <1>7, <1>8
  <2> DEFINE a == <<m>>  b == <<m, k>>
  <2>2. a \in Seq(Marker) /\ b \in Seq(Marker) /\ (file' = file \o a \/ file' = file \o b)
        BY <1>9, <2>1
  <2> HIDE DEF a, b
  <2>3. file \o a \in Seq(Marker)
        BY ONLY <1>1, <2>2, ConcatProperties
  <2>4. file \o b \in Seq(Marker)
        BY ONLY <1>1, <2>2, ConcatProperties
  <2> QED BY ONLY <2>2, <2>3, <2>4
<1>11. size' \in Int
      BY <1>1, <1>2 DEF Drive
<1> QED BY <1>4, <1>10, <1>11 DEF FileTypes

LEMMA EventTypes == FileTypes /\ RecordEvent => FileTypes'
<1> SUFFICES ASSUME FileTypes, RecordEvent PROVE FileTypes'
    OBVIOUS
<1>1. file \in Seq(Marker) /\ size \in Int /\ pos \in Int
      BY DEF FileTypes
<1>2. EventLens \cup OtherLens \subseteq Nat \ {0}
      BY UniFileConstantsOK
<1>3. size' \in Int /\ pos' = pos
      BY <1>1, <1>2 DEF RecordEvent
<1> DEFINE m == [off |-> size, fwd |-> 0, fix |-> FALSE, driven |-> pos \div Round]
<1>4. m \in Marker
      BY <1>1, SeenIn DEF Marker
<1>5. file' = Append(file, m)
      BY DEF RecordEvent
<1> HIDE DEF m
<1>6. file' \in Seq(Marker)
      BY <1>1, <1>4, <1>5
<1> QED BY <1>1, <1>3, <1>6 DEF FileTypes

LEMMA NextFileTypes == FileTypes /\ [RecordingNext]_recording => FileTypes'
<1> SUFFICES ASSUME FileTypes, [RecordingNext]_recording PROVE FileTypes'
    OBVIOUS
<1>1. CASE UNCHANGED laptimer
      BY <1>1 DEF laptimer, FileTypes
<1>2. CASE Drive \/ RecordEvent
      BY <1>2, DriveTypes, EventTypes
<1> QED BY <1>1, <1>2 DEF RecordingNext, recording

-----------------------------------------------------------------------------
\* How the rows of a session lie, in the order of their times: lap d has those
\* from B[d] on, up to the first of the next lap, and of these the rows from
\* A[d] to before C[d] still have the number of the lap before.
Block(S, d, B, A, C) ==
    /\ B[d] <= A[d] /\ A[d] <= C[d] /\ C[d] <= B[d + 1]
    /\ C[d] - A[d] < MinRun
    /\ A[d] = C[d] => A[d] = B[d + 1]
    /\ d = 0 => A[d] = C[d]
    /\ \A i \in B[d]..(B[d + 1] - 1) :
          /\ S[i].driven = d
          /\ S[i].lap = IF A[d] <= i /\ i < C[d] THEN d - 1 ELSE d

\* Enough rows of one number, before the stray ones or after.
Solid(d, B, A, C) == A[d] - B[d] >= MinRun \/ B[d + 1] - C[d] >= MinRun

Shape(S, L, B, A, C) ==
    /\ B \in [Nat -> Nat] /\ A \in [Nat -> Nat] /\ C \in [Nat -> Nat]
    /\ B[0] = 1 /\ B[L + 1] = Len(S) + 1
    /\ \A d \in 0..L : Block(S, d, B, A, C)
    /\ \A d \in 0..(L - 1) : Solid(d, B, A, C) /\ LapTime <= (B[d + 1] - B[d]) * Step

LEMMA ShapeTypes ==
    ASSUME NEW S, NEW L \in Nat, NEW B, NEW A, NEW C, Shape(S, L, B, A, C)
    PROVE  /\ \A d \in Nat : B[d] \in Nat /\ A[d] \in Nat /\ C[d] \in Nat
           /\ B[0] = 1 /\ B[L + 1] = Len(S) + 1
           /\ \A d \in 0..L : Block(S, d, B, A, C)
<1>1. B \in [Nat -> Nat] /\ A \in [Nat -> Nat] /\ C \in [Nat -> Nat]
      BY DEF Shape
<1>2. \A d \in Nat : B[d] \in Nat /\ A[d] \in Nat /\ C[d] \in Nat
      BY <1>1
<1> QED BY <1>2 DEF Shape

LEMMA BlocksGrow ==
    ASSUME NEW S, NEW L \in Nat, NEW B, NEW A, NEW C, Shape(S, L, B, A, C)
    PROVE  \A d, e \in 0..(L + 1) : d <= e => B[d] <= B[e]
<1> TAKE d \in 0..(L + 1)
<1>1. \A e \in 0..(L + 1) : B[e] \in Nat
      BY ShapeTypes
<1> DEFINE m == L + 1 - d
           P == {k \in 0..m : B[d] <= B[d + k]}
<1>2. m \in Nat /\ 0 \in P
      BY <1>1
<1>3. ASSUME NEW k \in 0..(m - 1), k \in P PROVE k + 1 \in P
  <2>1. d + k \in 0..L /\ d + (k + 1) = (d + k) + 1 /\ d + k + 1 \in 0..(L + 1)
        /\ d + k \in 0..(L + 1) /\ k + 1 \in 0..m
        OBVIOUS
  <2>2. Block(S, d + k, B, A, C)
        BY <2>1, ShapeTypes
  <2>3. A[d + k] \in Nat /\ C[d + k] \in Nat
    <3>1. \A x \in Nat : A[x] \in Nat /\ C[x] \in Nat
          BY ShapeTypes
    <3>2. d + k \in Nat
          BY <2>1
    <3> QED BY <3>1, <3>2
  <2>4. B[d + k] <= B[(d + k) + 1]
        BY <1>1, <2>1, <2>2, <2>3 DEF Block
  <2>5. B[d] \in Nat /\ B[d + k] \in Nat /\ B[(d + k) + 1] \in Nat /\ B[d] <= B[d + k]
        BY <1>1, <1>3, <2>1
  <2>6. B[d] <= B[(d + k) + 1]
        BY <2>4, <2>5
  <2> QED BY <2>1, <2>6
<1> HIDE DEF P, m
<1>4. 0..m \subseteq P
      BY <1>2, <1>3, Induct
<1> TAKE e \in 0..(L + 1)
<1> HAVE d <= e
<1>5. e - d \in 0..m /\ d + (e - d) = e
      BY DEF m
<1> QED BY <1>4, <1>5 DEF P

\* Every row is of a lap.
LEMMA BlockOf ==
    ASSUME NEW S, Len(S) \in Nat, NEW L \in Nat, NEW B, NEW A, NEW C, Shape(S, L, B, A, C),
           NEW i \in 1..Len(S)
    PROVE  \E d \in 0..L : i \in B[d]..(B[d + 1] - 1)
<1>1. \A e \in 0..(L + 1) : B[e] \in Nat
      BY ShapeTypes
<1>2. B[0] = 1 /\ B[L + 1] = Len(S) + 1
      BY DEF Shape
<1> DEFINE N == {d \in 1..(L + 1) : i < B[d]}
<1>3. N \subseteq Nat /\ L + 1 \in N
      BY <1>2
<1>4. PICK e \in N : \A d \in N : e <= d
      BY <1>3, Least
<1>5. e \in 1..(L + 1) /\ i < B[e] /\ e - 1 \in 0..L /\ (e - 1) + 1 = e
      BY <1>4
<1>6. B[e - 1] <= i
  <2>1. CASE e - 1 = 0
        BY <1>2, <2>1
  <2>2. CASE e - 1 # 0
    <3>1. e - 1 \in 1..(L + 1) /\ e - 1 \notin N
          BY <1>4, <1>5, <2>2
    <3>2. B[e - 1] \in Nat /\ ~(i < B[e - 1])
          BY <1>1, <3>1
    <3> QED BY <3>2
  <2> QED BY <2>1, <2>2
<1>7. i \in B[e - 1]..(B[(e - 1) + 1] - 1)
      BY <1>1, <1>5, <1>6
<1> QED BY <1>5, <1>7

-----------------------------------------------------------------------------
\* Runs of one number.
Level(S, i, k) == \A j \in i..k : S[j].lap = S[i].lap

LEMMA RealRows ==
    ASSUME NEW T, NEW S \in Seq(T), NEW p \in Real(S), MinRun \in Nat \ {0}
    PROVE  p \in RunStarts(S) /\ p \in 1..Len(S) /\ p + MinRun - 1 <= Len(S) /\ Level(S, p, p + MinRun - 1)
<1> DEFINE n == Len(S)  later == {j \in RunStarts(S) : j > p} \cup {n + 1}  m == Min(later)
<1>1. n \in Nat /\ DOMAIN S = 1..n
      OBVIOUS
<1>2. p \in RunStarts(S) /\ RunSize(S, p) >= MinRun /\ RunStarts(S) \subseteq 1..n
      BY <1>1 DEF Real, RunStarts
<1>3. later \subseteq Nat /\ n + 1 \in later
      BY <1>1, <1>2
<1>4. RunSize(S, p) = m - p
      BY DEF RunSize
<1> HIDE DEF later
<1>5. m \in later /\ \A j \in later : m <= j
      BY <1>3, MinOf
<1>6. m \in Nat /\ m <= n + 1 /\ p + MinRun <= m
  <2>1. m \in Nat /\ m <= n + 1 /\ p \in Nat
    <3>1. m \in Nat /\ m <= n + 1
          BY <1>3, <1>5
    <3>2. p \in Nat
          BY <1>2
    <3> QED BY <3>1, <3>2
  <2>2. m - p >= MinRun
        BY <1>2, <1>4
  <2> HIDE DEF m
  <2> QED BY <2>1, <2>2
<1>7. \A j \in (p + 1)..(m - 1) : j \notin RunStarts(S)
  <2> TAKE j \in (p + 1)..(m - 1)
  <2>1. j \in RunStarts(S) => j \in later
        BY <1>2 DEF later
  <2> QED BY <1>2, <1>5, <1>6, <2>1
<1> HIDE DEF m, n
<1> DEFINE P == {k \in 0..(m - 1 - p) : S[p + k].lap = S[p].lap}
<1>8. m - 1 - p \in Nat /\ p \in 1..n
      BY <1>2, <1>6
<1>9. 0 \in P
      BY <1>8
<1>10. ASSUME NEW k \in 0..((m - 1 - p) - 1), k \in P PROVE k + 1 \in P
  <2>1. p + (k + 1) \in (p + 1)..(m - 1) /\ p + (k + 1) \in 1..n /\ (p + (k + 1)) - 1 = p + k
        /\ k + 1 \in 0..(m - 1 - p) /\ p + (k + 1) # 1
        BY <1>1, <1>6, <1>8
  <2>2. p + (k + 1) \notin RunStarts(S)
        BY <1>7, <2>1
  <2>3. S[p + (k + 1)].lap = S[p + k].lap
        BY <1>1, <2>1, <2>2 DEF RunStarts
  <2> QED BY <1>10, <2>1, <2>3
<1> HIDE DEF P
<1>11. 0..(m - 1 - p) \subseteq P
       BY <1>8, <1>9, <1>10, Induct
<1>12. Level(S, p, p + MinRun - 1)
  <2> SUFFICES ASSUME NEW j \in p..(p + MinRun - 1) PROVE S[j].lap = S[p].lap
      BY DEF Level
  <2>1. j - p \in 0..(m - 1 - p) /\ p + (j - p) = j
        BY <1>6, <1>8
  <2> QED BY <1>11, <2>1 DEF P
<1> QED BY <1>1, <1>2, <1>6, <1>8, <1>12 DEF n

LEMMA RowsReal ==
    ASSUME NEW T, NEW S \in Seq(T), NEW p \in RunStarts(S), MinRun \in Nat \ {0},
           p + MinRun - 1 <= Len(S), Level(S, p, p + MinRun - 1)
    PROVE  p \in Real(S)
<1> DEFINE n == Len(S)  later == {j \in RunStarts(S) : j > p} \cup {n + 1}  m == Min(later)
<1>1. n \in Nat /\ DOMAIN S = 1..n
      OBVIOUS
<1>2. RunStarts(S) \subseteq 1..n
      BY <1>1 DEF RunStarts
<1>3. later \subseteq Nat /\ n + 1 \in later
      BY <1>1, <1>2
<1>4. RunSize(S, p) = m - p
      BY DEF RunSize
<1> HIDE DEF later
<1>5. m \in later /\ \A j \in later : m <= j
      BY <1>3, MinOf
<1>6. m = n + 1 \/ (m \in RunStarts(S) /\ m > p)
      BY <1>5 DEF later
<1> HIDE DEF m
<1>7. m >= p + MinRun
  <2>1. CASE m = n + 1
        BY <1>1, <1>2, <2>1
  <2>2. CASE m \in RunStarts(S) /\ m > p
    <3> SUFFICES ASSUME m < p + MinRun PROVE FALSE
        BY <1>2, <2>2
    <3>1. m \in p..(p + MinRun - 1) /\ m - 1 \in p..(p + MinRun - 1) /\ m # 1
          BY <1>2, <2>2
    <3>2. S[m].lap = S[p].lap /\ S[m - 1].lap = S[p].lap
          BY <3>1 DEF Level
    <3> QED BY <2>2, <3>1, <3>2 DEF RunStarts
  <2> QED BY <1>6, <2>1, <2>2
<1>8. RunSize(S, p) >= MinRun
      BY <1>1, <1>2, <1>4, <1>6, <1>7
<1> QED BY <1>8 DEF Real

-----------------------------------------------------------------------------
\* A session whose laps up to K have enough rows of their number; of a last one
\* after them there are fewer.
Laid(S, L, K, B, A, C) ==
    /\ S \in Seq(Row) /\ L \in Nat /\ K \in 0..L
    /\ Shape(S, L, B, A, C)
    /\ \A d \in 0..K : Solid(d, B, A, C)
    /\ K < L => K = L - 1 /\ A[L] - B[L] < MinRun /\ B[L + 1] - C[L] < MinRun

\* Where lap_table has the laps begin.
Starts(S, K, B, A, C) ==
    [d \in 0..(K + 1) |->
        IF d = K + 1 THEN Len(S) + 1
        ELSE IF A[d] - B[d] >= MinRun THEN B[d] ELSE C[d]]

\* The numbers of a lap's marks, without the rows.
LEMMA MarksIs ==
    ASSUME NEW S, NEW L, NEW K, NEW B, NEW A, NEW C, Laid(S, L, K, B, A, C), NEW d \in 0..L
    PROVE  /\ B[d] \in Nat /\ A[d] \in Nat /\ C[d] \in Nat /\ B[d + 1] \in Nat
           /\ 1 <= B[d] /\ B[d] <= A[d] /\ A[d] <= C[d] /\ C[d] <= B[d + 1] /\ B[d + 1] <= Len(S) + 1
           /\ C[d] - A[d] < MinRun
           /\ A[d] = C[d] => A[d] = B[d + 1]
           /\ Len(S) \in Nat /\ MinRun \in Nat \ {0, 1}
<1>1. L \in Nat /\ Shape(S, L, B, A, C) /\ S \in Seq(Row)
      BY DEF Laid
<1>2. \A x \in Nat : B[x] \in Nat /\ A[x] \in Nat /\ C[x] \in Nat
      BY <1>1, ShapeTypes
<1>3. Block(S, d, B, A, C) /\ B[0] = 1 /\ B[L + 1] = Len(S) + 1
      BY <1>1, ShapeTypes
<1>4. \A x, y \in 0..(L + 1) : x <= y => B[x] <= B[y]
      BY <1>1, BlocksGrow
<1>5. d \in 0..(L + 1) /\ d + 1 \in 0..(L + 1) /\ d \in Nat /\ d + 1 \in Nat /\ 0 \in 0..(L + 1) /\ L + 1 \in 0..(L + 1)
      BY <1>1
<1>6. B[0] <= B[d] /\ B[d + 1] <= B[L + 1]
      BY <1>1, <1>4, <1>5
<1>7. MinRun \in Nat \ {0, 1}
      BY LapsConstantsOK
<1>8. Len(S) \in Nat
      BY <1>1
<1> QED BY <1>2, <1>3, <1>5, <1>6, <1>7, <1>8 DEF Block

LEMMA RowIs ==
    ASSUME NEW S, NEW L, NEW K, NEW B, NEW A, NEW C, Laid(S, L, K, B, A, C), NEW d \in 0..L,
           NEW i \in B[d]..(B[d + 1] - 1)
    PROVE  /\ i \in 1..Len(S) /\ S[i].driven = d
           /\ S[i].lap = IF A[d] <= i /\ i < C[d] THEN d - 1 ELSE d
<1>1. L \in Nat /\ Shape(S, L, B, A, C)
      BY DEF Laid
<1>2. Block(S, d, B, A, C)
      BY <1>1, ShapeTypes
<1>3. i \in 1..Len(S)
  <2>1. B[d] \in Nat /\ B[d + 1] \in Nat /\ 1 <= B[d] /\ B[d + 1] <= Len(S) + 1 /\ Len(S) \in Nat
        BY MarksIs
  <2> QED BY <2>1
<1> QED BY <1>2, <1>3 DEF Block

LEMMA StartIs ==
    ASSUME NEW S, NEW L, NEW K, NEW B, NEW A, NEW C, Laid(S, L, K, B, A, C), NEW d \in 0..K,
           NEW q, q = Starts(S, K, B, A, C)[d]
    PROVE  /\ B[d] <= q /\ q + MinRun <= B[d + 1]
           /\ \A i \in q..(q + MinRun - 1) : S[i].lap = d
           /\ q \in Real(S)
           /\ q = IF A[d] - B[d] >= MinRun THEN B[d] ELSE C[d]
           /\ A[d] - B[d] < MinRun => A[d] < C[d]
<1>1. L \in Nat /\ K \in 0..L /\ d \in 0..L /\ S \in Seq(Row) /\ Solid(d, B, A, C)
      BY DEF Laid
<1> DEFINE n == Len(S)  b == B[d]  a == A[d]  c == C[d]  e == B[d + 1]  M == MinRun
<1>2. /\ b \in Nat /\ a \in Nat /\ c \in Nat /\ e \in Nat /\ 1 <= b /\ b <= a /\ a <= c /\ c <= e
      /\ e <= n + 1 /\ c - a < M /\ (a = c => a = e) /\ n \in Nat /\ M \in Nat \ {0, 1}
      BY <1>1, MarksIs
<1>3. a - b >= M \/ e - c >= M
      BY <1>1 DEF Solid
<1>4. q = IF a - b >= M THEN b ELSE c
  <2>1. d \in 0..(K + 1) /\ d # K + 1
        BY <1>1
  <2> QED BY <2>1 DEF Starts
<1>5. \A i \in b..(e - 1) : S[i].lap = IF a <= i /\ i < c THEN d - 1 ELSE d
      BY <1>1, RowIs
<1>6. d > 0 => B[d - 1] \in Nat /\ B[d - 1] < b /\ \A i \in B[d - 1]..(b - 1) : S[i].lap # d
  <2> SUFFICES ASSUME d > 0
               PROVE B[d - 1] \in Nat /\ B[d - 1] < b /\ \A i \in B[d - 1]..(b - 1) : S[i].lap # d
      OBVIOUS
  <2>1. d - 1 \in 0..L /\ d - 1 \in 0..K /\ (d - 1) + 1 = d
        BY <1>1
  <2>2. Solid(d - 1, B, A, C)
        BY <2>1 DEF Laid
  <2>3. /\ B[d - 1] \in Nat /\ A[d - 1] \in Nat /\ C[d - 1] \in Nat /\ B[(d - 1) + 1] \in Nat
        /\ B[d - 1] <= A[d - 1] /\ A[d - 1] <= C[d - 1] /\ C[d - 1] <= B[(d - 1) + 1]
        BY <2>1, MarksIs
  <2>4. B[d - 1] < b
        BY SMTT(30), <1>2, <2>1, <2>2, <2>3 DEF Solid
  <2>5. \A i \in B[d - 1]..(B[(d - 1) + 1] - 1) :
            S[i].lap = IF A[d - 1] <= i /\ i < C[d - 1] THEN (d - 1) - 1 ELSE d - 1
        BY <2>1, RowIs
  <2>6. d \in Int
        BY <1>1
  <2> QED BY <2>1, <2>3, <2>4, <2>5, <2>6
<1> HIDE DEF n, b, a, c, e, M
<1>7. d \in Int
      BY <1>1
<1>8. CASE a - b >= M
  <2>1. q = b /\ q + M <= e
        BY <1>2, <1>4, <1>8
  <2>2. \A i \in q..(q + M - 1) : S[i].lap = d
    <3> TAKE i \in q..(q + M - 1)
    <3>1. i \in b..(e - 1) /\ ~(a <= i /\ i < c)
          BY <1>2, <1>8, <2>1
    <3> QED BY <1>5, <3>1
  <2>3. q = 1 \/ S[q].lap # S[q - 1].lap
    <3>1. CASE d = 0
      <4>1. B[0] = 1
            BY <1>1, ShapeTypes DEF Laid
      <4> QED BY <2>1, <3>1, <4>1 DEF b
    <3>2. CASE d > 0
      <4>1. b - 1 \in B[d - 1]..(b - 1) /\ q \in q..(q + M - 1)
            BY <1>2, <1>6, <2>1, <3>2
      <4> QED BY <1>6, <2>1, <2>2, <3>2, <4>1
    <3> QED BY <1>1, <3>1, <3>2
  <2>4. q \in 1..n
        BY <1>2, <2>1
  <2>5. q \in RunStarts(S)
        BY <1>1, <2>3, <2>4 DEF RunStarts, n
  <2>6. q \in q..(q + M - 1) /\ q + M - 1 <= n
        BY <1>2, <2>1, <2>4
  <2>7. Level(S, q, q + MinRun - 1)
        BY <2>2, <2>6 DEF Level, M
  <2>8. q \in Real(S)
        BY <1>1, <1>2, <2>5, <2>6, <2>7, RowsReal DEF n, M
  <2>9. b <= q
        BY <1>2, <2>1
  <2> QED BY <1>2, <1>4, <1>8, <2>1, <2>2, <2>8, <2>9 DEF b, a, c, e, M
<1>9. CASE ~(a - b >= M)
  <2>1. q = c /\ q + M <= e /\ a < c
        BY <1>2, <1>3, <1>4, <1>9
  <2>2. \A i \in q..(q + M - 1) : S[i].lap = d
    <3> TAKE i \in q..(q + M - 1)
    <3>1. i \in b..(e - 1) /\ ~(a <= i /\ i < c)
          BY <1>2, <2>1
    <3> QED BY <1>5, <3>1
  <2>3. S[q].lap # S[q - 1].lap
    <3>1. c - 1 \in b..(e - 1) /\ a <= c - 1 /\ c - 1 < c /\ q \in q..(q + M - 1)
          BY <1>2, <2>1
    <3>2. S[c - 1].lap = d - 1
          BY <1>5, <3>1
    <3> QED BY <1>7, <2>1, <2>2, <3>1, <3>2
  <2>4. q \in 1..n /\ q \in Nat /\ a - b < M
        BY <1>2, <1>9, <2>1
  <2>5. q \in RunStarts(S)
        BY <1>1, <2>3, <2>4 DEF RunStarts, n
  <2>6. q \in q..(q + M - 1) /\ q + M - 1 <= n
        BY <1>2, <2>1, <2>4
  <2>7. Level(S, q, q + MinRun - 1)
        BY <2>2, <2>6 DEF Level, M
  <2>8. q \in Real(S)
        BY <1>1, <1>2, <2>5, <2>6, <2>7, RowsReal DEF n, M
  <2>9. b <= q
        BY <1>2, <2>1
  <2> QED BY <1>2, <1>4, <1>9, <2>1, <2>2, <2>8, <2>9 DEF b, a, c, e, M
<1> QED BY <1>8, <1>9

LEMMA StartsUp ==
    ASSUME NEW S, NEW L, NEW K, NEW B, NEW A, NEW C, Laid(S, L, K, B, A, C),
           NEW q, q = Starts(S, K, B, A, C)
    PROVE  /\ q \in [0..(K + 1) -> 1..(Len(S) + 1)] /\ q[0] = 1 /\ q[K + 1] = Len(S) + 1
           /\ \A d \in 0..K : B[d] <= q[d] /\ q[d] < B[d + 1] /\ B[d + 1] <= q[d + 1] /\ q[d] < q[d + 1]
           /\ \A d, e \in 0..(K + 1) : d <= e => q[d] <= q[e]
<1> DEFINE n == Len(S)
<1>1. L \in Nat /\ K \in 0..L /\ K \in Nat /\ n \in Nat
      BY DEF Laid
<1>2. \A d \in 0..K : /\ B[d] \in Nat /\ A[d] \in Nat /\ C[d] \in Nat /\ B[d + 1] \in Nat
                      /\ 1 <= B[d] /\ B[d] <= A[d] /\ A[d] <= C[d] /\ C[d] <= B[d + 1]
                      /\ B[d + 1] <= n + 1
  <2> TAKE d \in 0..K
  <2>1. d \in 0..L
        BY <1>1
  <2> QED BY <2>1, MarksIs
<1>3. \A d \in 0..K : /\ B[d] <= q[d] /\ q[d] + MinRun <= B[d + 1]
                      /\ q[d] = IF A[d] - B[d] >= MinRun THEN B[d] ELSE C[d]
                      /\ A[d] - B[d] < MinRun => A[d] < C[d]
      BY StartIs
<1>4. q[K + 1] = n + 1 /\ DOMAIN q = 0..(K + 1)
      BY <1>1 DEF Starts
<1>5. MinRun \in Nat \ {0}
      BY LapsConstantsOK
<1>6. \A d \in 0..K : q[d] \in 1..n /\ q[d] \in Nat /\ q[d] < B[d + 1]
  <2> TAKE d \in 0..K
  <2>1. q[d] = B[d] \/ q[d] = C[d]
        BY <1>3
  <2>2. q[d] \in Nat
        BY <1>2, <2>1
  <2> DEFINE x == q[d]  b == B[d]  e == B[d + 1]
  <2>3. x \in Nat /\ b \in Nat /\ e \in Nat /\ b <= x /\ x + MinRun <= e /\ 1 <= b /\ e <= n + 1
        BY <1>2, <1>3, <2>2
  <2> HIDE DEF x, b, e, n
  <2>4. x \in 1..n /\ x < e
        BY <1>1, <1>5, <2>3
  <2> QED BY <2>2, <2>4 DEF x, e
<1>7. q[0] = 1
  <2>1. 0 \in 0..K /\ 0 \in 0..L
        BY <1>1
  <2>2. B[0] = 1 /\ Block(S, 0, B, A, C)
        BY <1>1, <2>1, ShapeTypes DEF Laid
  <2>3. A[0] = C[0]
        BY <2>2 DEF Block
  <2>4. A[0] \in Nat /\ C[0] \in Nat /\ B[0] \in Nat
        BY <1>2, <2>1
  <2>5. ~(A[0] - B[0] < MinRun)
        BY <1>3, <2>1, <2>3, <2>4
  <2>6. A[0] - B[0] >= MinRun
        BY <1>5, <2>4, <2>5
  <2> QED BY <1>3, <2>1, <2>2, <2>6
<1>8. ASSUME NEW d \in 0..K PROVE B[d + 1] <= q[d + 1]
  <2>1. CASE d = K
        BY <1>2, <1>4, <2>1
  <2>2. CASE d # K
    <3>1. d + 1 \in 0..K
          BY <1>1, <2>2
    <3> QED BY <1>3, <3>1
  <2> QED BY <2>1, <2>2
<1>9. q \in [0..(K + 1) -> 1..(n + 1)]
  <2>1. \A d \in 0..(K + 1) : q[d] \in 1..(n + 1)
    <3> TAKE d \in 0..(K + 1)
    <3>1. d = K + 1 \/ d \in 0..K
          BY <1>1
    <3> QED BY <1>1, <1>4, <1>6, <3>1
  <2>2. q = [d \in 0..(K + 1) |-> q[d]]
        BY DEF Starts
  <2> QED BY <2>1, <2>2
<1> HIDE DEF n
<1>10. \A d \in 0..K : q[d] < q[d + 1]
  <2> TAKE d \in 0..K
  <2>1. d + 1 \in 0..(K + 1)
        BY <1>1
  <2>2. q[d + 1] \in Nat
        BY <1>1, <1>9, <2>1
  <2> QED BY <1>2, <1>6, <1>8, <2>2
<1>11. ASSUME NEW d \in 0..(K + 1) PROVE \A e \in 0..(K + 1) : d <= e => q[d] <= q[e]
  <2> DEFINE m == K + 1 - d
             P == {k \in 0..m : q[d] <= q[d + k]}
  <2>1. m \in Nat /\ 0 \in P /\ \A e \in 0..(K + 1) : q[e] \in Nat
        BY <1>1, <1>9
  <2>2. ASSUME NEW k \in 0..(m - 1), k \in P PROVE k + 1 \in P
    <3>1. d + k \in 0..K /\ d + (k + 1) = (d + k) + 1 /\ (d + k) + 1 \in 0..(K + 1) /\ k + 1 \in 0..m
          /\ d + k \in 0..(K + 1)
          BY <1>1
    <3>2. q[d + k] < q[(d + k) + 1] /\ q[d] <= q[d + k]
          BY <1>10, <2>2, <3>1
    <3>3. q[d] \in Nat /\ q[d + k] \in Nat /\ q[(d + k) + 1] \in Nat
          BY <2>1, <3>1
    <3>4. q[d] <= q[(d + k) + 1]
          BY <3>2, <3>3
    <3> QED BY <3>1, <3>4
  <2> HIDE DEF P, m
  <2>3. 0..m \subseteq P
        BY <2>1, <2>2, Induct
  <2> TAKE e \in 0..(K + 1)
  <2> HAVE d <= e
  <2>4. e - d \in 0..m /\ d + (e - d) = e
        BY <1>1 DEF m
  <2> QED BY <2>3, <2>4 DEF P
<1> QED BY <1>3, <1>4, <1>6, <1>7, <1>8, <1>9, <1>10, <1>11 DEF n

\* Every row is in a lap of lap_table's.
LEMMA StartOf ==
    ASSUME NEW S, NEW L, NEW K, NEW B, NEW A, NEW C, Laid(S, L, K, B, A, C),
           NEW q, q = Starts(S, K, B, A, C), NEW i \in 1..Len(S)
    PROVE  \E d \in 0..K : q[d] <= i /\ i < q[d + 1]
<1>1. K \in Nat /\ Len(S) \in Nat
      BY DEF Laid
<1>2. q \in [0..(K + 1) -> 1..(Len(S) + 1)] /\ q[0] = 1 /\ q[K + 1] = Len(S) + 1
      BY StartsUp
<1> DEFINE N == {d \in 1..(K + 1) : i < q[d]}
<1>3. N \subseteq Nat /\ K + 1 \in N
      BY <1>1, <1>2
<1>4. PICK e \in N : \A d \in N : e <= d
      BY <1>3, Least
<1>5. e \in 1..(K + 1) /\ i < q[e] /\ e - 1 \in 0..K /\ (e - 1) + 1 = e
      BY <1>1, <1>4
<1>6. q[e - 1] <= i
  <2>1. CASE e - 1 = 0
        BY <1>2, <2>1
  <2>2. CASE e - 1 # 0
    <3>1. e - 1 \in 1..(K + 1) /\ e - 1 \notin N /\ e - 1 \in 0..(K + 1)
          BY <1>1, <1>4, <1>5, <2>2
    <3>2. q[e - 1] \in Nat /\ ~(i < q[e - 1])
          BY <1>2, <3>1
    <3> QED BY <3>2
  <2> QED BY <2>1, <2>2
<1> QED BY <1>5, <1>6

\* After a lap's rows no row has a number below the lap's.
LEMMA NumbersAfter ==
    ASSUME NEW S, NEW L, NEW K, NEW B, NEW A, NEW C, Laid(S, L, K, B, A, C), NEW d \in 0..L,
           NEW i \in B[d + 1]..Len(S)
    PROVE  S[i].lap >= d /\ S[i].lap \in Int
<1>1. L \in Nat /\ Len(S) \in Nat /\ Shape(S, L, B, A, C)
      BY DEF Laid
<1>2. B[d] \in Nat /\ B[d + 1] \in Nat /\ 1 <= B[d] /\ B[d] <= B[d + 1]
  <2>1. /\ B[d] \in Nat /\ A[d] \in Nat /\ C[d] \in Nat /\ B[d + 1] \in Nat
        /\ 1 <= B[d] /\ B[d] <= A[d] /\ A[d] <= C[d] /\ C[d] <= B[d + 1]
        BY MarksIs
  <2> QED BY <2>1
<1>3. i \in 1..Len(S)
      BY <1>1, <1>2
<1>4. PICK e \in 0..L : i \in B[e]..(B[e + 1] - 1)
      BY <1>1, <1>3, BlockOf
<1>5. S[i].lap = IF A[e] <= i /\ i < C[e] THEN e - 1 ELSE e
      BY <1>4, RowIs
<1>6. e > d
  <2> SUFFICES ASSUME e <= d PROVE FALSE
      BY <1>1
  <2>1. e + 1 \in 0..(L + 1) /\ d + 1 \in 0..(L + 1) /\ e + 1 <= d + 1
        BY <1>1
  <2>2. B[e + 1] <= B[d + 1] /\ B[e + 1] \in Nat
        BY <1>1, <2>1, BlocksGrow, MarksIs
  <2> QED BY <1>2, <1>4, <2>2
<1> QED BY <1>5, <1>6

LEMMA RealNumber ==
    ASSUME NEW S, NEW L, NEW K, NEW B, NEW A, NEW C, Laid(S, L, K, B, A, C),
           NEW q, q = Starts(S, K, B, A, C), NEW p \in Real(S),
           NEW d \in 0..K, q[d] <= p, p < q[d + 1]
    PROVE  S[p].lap = d
<1> DEFINE n == Len(S)  M == MinRun
<1>1. L \in Nat /\ K \in 0..L /\ n \in Nat /\ S \in Seq(Row) /\ d \in 0..L /\ Shape(S, L, B, A, C)
      BY DEF Laid
<1>2. M \in Nat \ {0, 1}
      BY LapsConstantsOK
<1>3. p \in 1..n /\ p + M - 1 <= n /\ \A j \in p..(p + M - 1) : S[j].lap = S[p].lap
  <2>1. p \in RunStarts(S) /\ p \in 1..Len(S) /\ p + MinRun - 1 <= Len(S) /\ Level(S, p, p + MinRun - 1)
        BY <1>1, <1>2, RealRows
  <2> QED BY <2>1 DEF Level
<1>4. PICK e \in 0..L : p \in B[e]..(B[e + 1] - 1)
      BY <1>1, <1>3, BlockOf
<1>5. S[p].lap = IF A[e] <= p /\ p < C[e] THEN e - 1 ELSE e
      BY <1>4, RowIs
<1>6. B[d] <= q[d] /\ q[d] < B[d + 1] /\ q \in [0..(K + 1) -> 1..(n + 1)]
      BY StartsUp
<1>7. /\ B[d] \in Nat /\ A[d] \in Nat /\ C[d] \in Nat /\ B[d + 1] \in Nat
      /\ B[d] <= A[d] /\ A[d] <= C[d] /\ C[d] <= B[d + 1] /\ C[d] - A[d] < M
      BY <1>1, MarksIs
<1>8. /\ B[e] \in Nat /\ A[e] \in Nat /\ C[e] \in Nat /\ B[e + 1] \in Nat
      /\ B[e] <= A[e] /\ A[e] <= C[e] /\ C[e] <= B[e + 1] /\ C[e] - A[e] < M
      /\ (A[e] = C[e] => A[e] = B[e + 1]) /\ B[e + 1] <= n + 1
      BY MarksIs
<1>9. d \in 0..(K + 1) /\ d + 1 \in 0..(K + 1) /\ q[d] \in Nat /\ q[d + 1] \in Nat
      BY <1>1, <1>6
<1>10. e >= d
  <2> SUFFICES ASSUME e < d PROVE FALSE
      BY <1>1
  <2>1. e + 1 \in 0..(L + 1) /\ d \in 0..(L + 1) /\ e + 1 <= d
        BY <1>1
  <2>2. B[e + 1] <= B[d]
        BY <1>1, <2>1, BlocksGrow
  <2> QED BY <1>4, <1>6, <1>7, <1>8, <1>9, <2>2
<1>11. e <= d + 1
  <2>1. CASE d = K
        BY <1>1, <2>1 DEF Laid
  <2>2. CASE d # K
    <3>1. d + 1 \in 0..K
          BY <1>1, <2>2
    <3>2. q[d + 1] < B[(d + 1) + 1]
          BY <3>1, StartsUp
    <3> SUFFICES ASSUME e > d + 1 PROVE FALSE
        BY <1>1
    <3>3. e \in 0..(L + 1) /\ (d + 1) + 1 \in 0..(L + 1) /\ (d + 1) + 1 <= e /\ d + 1 \in 0..L
          BY <1>1, <3>1
    <3>4. B[(d + 1) + 1] <= B[e] /\ B[(d + 1) + 1] \in Nat
          BY <1>1, <3>3, BlocksGrow, MarksIs
    <3> QED BY <1>4, <1>8, <1>9, <3>2, <3>4
  <2> QED BY <2>1, <2>2
<1>12. CASE e = d
  <2> SUFFICES ASSUME A[d] <= p, p < C[d] PROVE FALSE
      BY <1>5, <1>12
  <2> DEFINE c == C[d]
  <2>1. c \in p..(p + M - 1) /\ c \in 1..n
        BY <1>1, <1>2, <1>3, <1>7
  <2>2. S[c].lap = d - 1
        BY <1>3, <1>5, <1>12, <2>1
  <2>3. CASE c < B[d + 1]
    <3>1. c \in B[d]..(B[d + 1] - 1)
          BY <1>7, <2>3
    <3>2. S[c].lap = d
          BY <1>1, <1>7, <3>1, RowIs
    <3> QED BY <1>1, <2>2, <3>2
  <2>4. CASE c = B[d + 1]
    <3>1. S[c].lap >= d
          BY <1>1, <2>1, <2>4, NumbersAfter
    <3> QED BY <1>1, <2>2, <3>1
  <2> QED BY <1>7, <2>3, <2>4
<1>13. CASE e = d + 1
  <2> SUFFICES ASSUME ~(A[e] <= p /\ p < C[e]) PROVE FALSE
    <3>1. d \in Int
          BY <1>1
    <3> QED BY <1>5, <1>13, <3>1
  <2>1. S[p].lap = e
        BY <1>5
  <2>2. A[e] - B[e] < M
    <3>1. CASE d = K
      <4>1. K < L /\ e = L
            BY <1>1, <1>13, <3>1 DEF Laid
      <4> QED BY <4>1 DEF Laid
    <3>2. CASE d # K
      <4>1. e \in 0..K
            BY <1>1, <1>13, <3>2
      <4>2. q[e] = IF A[e] - B[e] >= M THEN B[e] ELSE C[e]
            BY <4>1, StartIs
      <4> QED BY <1>2, <1>4, <1>8, <1>13, <4>2
    <3> QED BY <3>1, <3>2
  <2>3. p < A[e] => A[e] = C[e]
    <3> SUFFICES ASSUME p < A[e], A[e] # C[e] PROVE FALSE
        OBVIOUS
    <3>1. A[e] \in p..(p + M - 1) /\ A[e] \in B[e]..(B[e + 1] - 1) /\ A[e] < C[e]
          BY SMTT(30), <1>2, <1>3, <1>4, <1>8, <2>2
    <3>2. S[A[e]].lap = e - 1
          BY <3>1, RowIs
    <3>3. S[A[e]].lap = e
          BY <1>3, <2>1, <3>1
    <3> QED BY <1>1, <3>2, <3>3
  <2>4. CASE d = K
    <3>1. K < L /\ e = L
          BY <1>1, <1>13, <2>4 DEF Laid
    <3>2. B[e + 1] = n + 1
          BY <1>1, <3>1, ShapeTypes
    <3>3. B[e + 1] - C[e] < M
          BY <3>1 DEF Laid
    <3>4. CASE p < A[e]
          BY <1>1, <1>2, <1>3, <1>4, <1>8, <2>2, <2>3, <3>2, <3>4
    <3>5. CASE p >= C[e]
          BY <1>1, <1>2, <1>3, <1>8, <3>2, <3>3, <3>5
    <3> QED BY <1>3, <1>8, <3>4, <3>5
  <2>5. CASE d # K
    <3>1. e \in 0..K
          BY <1>1, <1>13, <2>5
    <3>2. q[e] = (IF A[e] - B[e] >= M THEN B[e] ELSE C[e]) /\ (A[e] - B[e] < M => A[e] < C[e])
          BY <3>1, StartIs
    <3>3. q[e] = C[e] /\ A[e] < C[e] /\ p < C[e]
          BY <1>2, <1>8, <1>13, <2>2, <3>2
    <3> QED BY <1>3, <1>8, <2>3, <3>3
  <2> QED BY <2>4, <2>5
<1>14. e = d \/ e = d + 1
      BY <1>1, <1>10, <1>11
<1> QED BY <1>12, <1>13, <1>14

LEMMA ResolvedIs ==
    ASSUME NEW S, NEW L, NEW K, NEW B, NEW A, NEW C, Laid(S, L, K, B, A, C),
           NEW q, q = Starts(S, K, B, A, C), NEW i \in 1..Len(S),
           NEW d \in 0..K, q[d] <= i, i < q[d + 1]
    PROVE  Resolved(S, Real(S), i) = d
<1> DEFINE before == {j \in Real(S) : j <= i}
<1>1. S \in Seq(Row) /\ Len(S) \in Nat
      BY DEF Laid
<1>2. Real(S) \subseteq Nat
      BY <1>1 DEF Real, RunStarts
<1>3. q[d] \in Real(S)
      BY StartIs
<1>4. before \subseteq Nat /\ before # {} /\ \A j \in before : j <= i
      BY <1>2, <1>3
<1>5. Resolved(S, Real(S), i) = S[Max(before)].lap
      BY <1>4 DEF Resolved
<1> HIDE DEF before
<1>6. Max(before) \in before /\ \A j \in before : j <= Max(before)
  <2>1. i \in Nat
        BY <1>1
  <2> QED BY <1>4, <2>1, MaxOf
<1>7. Max(before) \in Real(S) /\ Max(before) <= i /\ q[d] <= Max(before)
      BY <1>3, <1>6 DEF before
<1>8. Max(before) < q[d + 1]
  <2>1. K \in Nat /\ q \in [0..(K + 1) -> 1..(Len(S) + 1)]
    <3>1. K \in Nat
          BY DEF Laid
    <3> QED BY <3>1, StartsUp
  <2>2. d + 1 \in 0..(K + 1)
        BY <2>1
  <2>3. q[d + 1] \in Nat /\ Max(before) \in Nat
        BY <1>2, <1>7, <2>1, <2>2
  <2> QED BY <1>7, <2>3
<1>9. S[Max(before)].lap = d
  <2> DEFINE p == Max(before)
  <2>1. p \in Real(S) /\ q[d] <= p /\ p < q[d + 1]
        BY <1>7, <1>8
  <2> HIDE DEF p
  <2>2. S[p].lap = d
        BY <2>1, RealNumber
  <2> QED BY <2>2 DEF p
<1> QED BY <1>5, <1>9

-----------------------------------------------------------------------------
\* The laps of lap_table are those that begin at the starts.
Before(S, i) == Max({j \in RunStarts(S) : j < i})
Firsts(S) ==
    {i \in RunStarts(S) :
        i = 1 \/ Resolved(S, Real(S), i) # Resolved(S, Real(S), Before(S, i))}
LastOf(S, i) == Min({j \in Firsts(S) : j > i} \cup {Len(S) + 1}) - 1
Entry(S, i, j) ==
    [lap_number |-> Mode(S, i..j), lap_time |-> Max({S[x].clock : x \in i..j}),
     start |-> S[i].at, n_rows |-> j - i + 1]

LEMMA LapTableIs ==
    ASSUME NEW f
    PROVE  LapTable(f) = {Entry(Sorted(f), i, LastOf(Sorted(f), i)) : i \in Firsts(Sorted(f))}
BY DEF LapTable, Entry, LastOf, Firsts, Before

LEMMA FirstsAre ==
    ASSUME NEW S, NEW L, NEW K, NEW B, NEW A, NEW C, Laid(S, L, K, B, A, C),
           NEW q, q = Starts(S, K, B, A, C)
    PROVE  Firsts(S) = {q[d] : d \in 0..K}
<1> DEFINE n == Len(S)  R == Resolved(S, Real(S), 0)
<1>1. S \in Seq(Row) /\ n \in Nat /\ K \in Nat
      BY DEF Laid
<1>2. /\ q \in [0..(K + 1) -> 1..(n + 1)] /\ q[0] = 1 /\ q[K + 1] = n + 1
      /\ \A d \in 0..K : q[d] < q[d + 1]
      /\ \A d, e \in 0..(K + 1) : d <= e => q[d] <= q[e]
      BY StartsUp
<1>3. RunStarts(S) \subseteq 1..n
      BY <1>1 DEF RunStarts
<1>4. \A d \in 0..K : q[d] \in RunStarts(S) /\ q[d] \in 1..n
  <2> TAKE d \in 0..K
  <2>1. q[d] \in Real(S)
        BY StartIs
  <2> QED BY <1>3, <2>1 DEF Real
<1>5. ASSUME NEW i \in RunStarts(S), i # 1
      PROVE  Before(S, i) \in RunStarts(S) /\ Before(S, i) < i /\ \A j \in RunStarts(S) : j < i => j <= Before(S, i)
  <2> DEFINE N == {j \in RunStarts(S) : j < i}
  <2>1. 0 \in 0..K
        BY <1>1
  <2>2. 1 \in RunStarts(S) /\ i \in 1..n
        BY <1>2, <1>3, <1>4, <2>1
  <2>3. N \subseteq Nat /\ 1 \in N /\ \A j \in N : j <= i
        BY <1>3, <1>5, <2>2
  <2> HIDE DEF N
  <2>4. i \in Nat /\ N # {}
        BY <2>2, <2>3
  <2>5. Max(N) \in N /\ \A j \in N : j <= Max(N)
        BY <2>3, <2>4, MaxOf
  <2> QED BY <2>5 DEF N, Before
<1>6. ASSUME NEW d \in 0..K PROVE q[d] \in Firsts(S)
  <2>1. CASE q[d] = 1
        BY <1>4, <2>1 DEF Firsts
  <2>2. CASE q[d] # 1
    <3> DEFINE j == Before(S, q[d])
    <3>1. j \in RunStarts(S) /\ j < q[d]
          BY <1>4, <1>5, <2>2
    <3> HIDE DEF j
    <3>2. j \in 1..n
          BY <1>3, <3>1
    <3>3. PICK e \in 0..K : q[e] <= j /\ j < q[e + 1]
          BY <3>2, StartOf
    <3>4. e # d
      <4>1. q[d] \in 1..n /\ q[e] \in 1..n
            BY <1>4
      <4> QED BY <3>1, <3>2, <3>3, <4>1
    <3>5. Resolved(S, Real(S), j) = e
          BY <3>2, <3>3, ResolvedIs
    <3>6. q[d] <= q[d] /\ q[d] < q[d + 1] /\ q[d] \in 1..Len(S)
          BY <1>2, <1>4
    <3>7. Resolved(S, Real(S), q[d]) = d
          BY <3>6, ResolvedIs
    <3> QED BY <1>4, <3>4, <3>5, <3>7 DEF Firsts, j
  <2> QED BY <2>1, <2>2
<1>7. ASSUME NEW i \in Firsts(S) PROVE \E d \in 0..K : i = q[d]
  <2>1. i \in RunStarts(S) /\ i \in 1..n
        BY <1>3 DEF Firsts
  <2>2. PICK d \in 0..K : q[d] <= i /\ i < q[d + 1]
        BY <2>1, StartOf
  <2>3. CASE i = q[d]
        BY <2>3
  <2>4. CASE i # q[d]
    <3> DEFINE j == Before(S, i)
    <3>1. i # 1 /\ q[d] < i
      <4>1. q[d] \in 1..n
            BY <1>4
      <4> QED BY <2>1, <2>2, <2>4, <4>1
    <3>2. j \in RunStarts(S) /\ j < i /\ q[d] <= j
          BY <1>4, <1>5, <2>1, <3>1
    <3> HIDE DEF j
    <3>3. j \in 1..n
          BY <1>3, <3>2
    <3>4. d + 1 \in 0..(K + 1)
          BY <1>1
    <3>5. q[d + 1] \in 1..(n + 1)
          BY <1>2, <3>4
    <3>6. j < q[d + 1]
          BY <2>1, <2>2, <3>2, <3>3, <3>5
    <3>7. Resolved(S, Real(S), j) = d
          BY <3>2, <3>3, <3>6, ResolvedIs
    <3>8. Resolved(S, Real(S), i) = d
          BY <2>1, <2>2, ResolvedIs
    <3> QED BY <3>1, <3>7, <3>8 DEF Firsts, j
  <2> QED BY <2>3, <2>4
<1> QED BY <1>6, <1>7

LEMMA LastIsNext ==
    ASSUME NEW S, NEW L, NEW K, NEW B, NEW A, NEW C, Laid(S, L, K, B, A, C),
           NEW q, q = Starts(S, K, B, A, C), NEW d \in 0..K
    PROVE  LastOf(S, q[d]) = q[d + 1] - 1
<1> DEFINE n == Len(S)  later == {j \in Firsts(S) : j > q[d]} \cup {n + 1}  m == Min(later)
<1>1. n \in Nat /\ K \in Nat /\ d + 1 \in 0..(K + 1) /\ d \in 0..(K + 1)
      BY DEF Laid
<1>2. /\ q \in [0..(K + 1) -> 1..(n + 1)] /\ q[0] = 1 /\ q[K + 1] = n + 1
      /\ \A e \in 0..K : q[e] < q[e + 1]
      /\ \A x, e \in 0..(K + 1) : x <= e => q[x] <= q[e]
      BY StartsUp
<1>3. Firsts(S) = {q[e] : e \in 0..K}
      BY FirstsAre
<1>4. q[d + 1] \in later
  <2>1. CASE d = K
        BY <1>2, <2>1
  <2>2. CASE d # K
    <3>1. d + 1 \in 0..K /\ q[d] < q[d + 1]
          BY <1>1, <1>2, <2>2
    <3> QED BY <1>1, <1>2, <1>3, <3>1
  <2> QED BY <2>1, <2>2
<1>5. \A j \in later : j \in Nat /\ q[d + 1] <= j
  <2> TAKE j \in later
  <2>1. CASE j = n + 1
    <3>1. q[d + 1] \in 1..(n + 1)
          BY <1>1, <1>2
    <3> QED BY <1>1, <2>1, <3>1
  <2>2. CASE j # n + 1
    <3>1. PICK e \in 0..K : j = q[e] /\ j > q[d]
          BY <1>3, <2>2
    <3>2. e \in 0..(K + 1) /\ q[e] \in 1..(n + 1) /\ q[d] \in 1..(n + 1)
          BY <1>1, <1>2
    <3>3. e > d
      <4> SUFFICES ASSUME e <= d PROVE FALSE
          BY <1>1
      <4>1. q[e] <= q[d]
            BY <1>1, <1>2, <3>2
      <4> QED BY <3>1, <3>2, <4>1
    <3>4. d + 1 <= e
          BY <3>3, <1>1
    <3> QED BY <1>1, <1>2, <3>1, <3>2, <3>4
  <2> QED BY <2>1, <2>2
<1>6. LastOf(S, q[d]) = m - 1
      BY DEF LastOf
<1> HIDE DEF later
<1>7. m \in later /\ \A j \in later : m <= j
  <2>1. later \subseteq Nat /\ later # {}
        BY <1>4, <1>5
  <2> QED BY <2>1, MinOf
<1>8. m = q[d + 1]
  <2>1. m <= q[d + 1] /\ q[d + 1] <= m /\ m \in Nat
        BY <1>4, <1>5, <1>7
  <2>2. q[d + 1] \in Nat
        BY <1>4, <1>5
  <2> HIDE DEF m
  <2> QED BY <2>1, <2>2
<1> QED BY <1>6, <1>8

LEMMA TableIs ==
    ASSUME NEW f, NEW S, S = Sorted(f), NEW L, NEW K, NEW B, NEW A, NEW C, Laid(S, L, K, B, A, C),
           NEW q, q = Starts(S, K, B, A, C)
    PROVE  LapTable(f) = {Entry(S, q[d], q[d + 1] - 1) : d \in 0..K}
<1>1. LapTable(f) = {Entry(S, i, LastOf(S, i)) : i \in Firsts(S)}
      BY LapTableIs
<1>2. Firsts(S) = {q[d] : d \in 0..K}
      BY FirstsAre
<1>3. \A d \in 0..K : LastOf(S, q[d]) = q[d + 1] - 1
      BY LastIsNext
<1> QED BY <1>1, <1>2, <1>3

-----------------------------------------------------------------------------
\* Counting rows that lie together.
Upto(a, b) == a..(b - 1)

LEMMA Span ==
    ASSUME NEW a \in Int, NEW b \in Int, a <= b
    PROVE  IsFiniteSet(Upto(a, b)) /\ Cardinality(Upto(a, b)) = b - a
<1>1. b - 1 \in Int
      OBVIOUS
<1>2. IsFiniteSet(a..(b - 1)) /\ Cardinality(a..(b - 1)) = IF a > b - 1 THEN 0 ELSE (b - 1) - a + 1
      BY <1>1, FS_Interval
<1> QED BY <1>2 DEF Upto

LEMMA Disjoint ==
    ASSUME NEW X, NEW Y, IsFiniteSet(X), IsFiniteSet(Y), X \cap Y = {}
    PROVE  IsFiniteSet(X \cup Y) /\ Cardinality(X \cup Y) = Cardinality(X) + Cardinality(Y)
<1>1. IsFiniteSet(X \cup Y) /\ Cardinality(X \cup Y) = Cardinality(X) + Cardinality(Y) - Cardinality({})
      BY FS_Union
<1>2. Cardinality({}) = 0
      BY FS_EmptySet
<1>3. Cardinality(X) \in Nat /\ Cardinality(Y) \in Nat
      BY FS_CardinalityType
<1> QED BY <1>1, <1>2, <1>3

LEMMA TwoSpans ==
    ASSUME NEW a \in Int, NEW b \in Int, NEW c \in Int, NEW d \in Int, a <= b, b <= c, c <= d
    PROVE  /\ IsFiniteSet(Upto(a, b) \cup Upto(c, d))
           /\ Cardinality(Upto(a, b) \cup Upto(c, d)) = (b - a) + (d - c)
<1>1. /\ IsFiniteSet(Upto(a, b)) /\ Cardinality(Upto(a, b)) = b - a
      /\ IsFiniteSet(Upto(c, d)) /\ Cardinality(Upto(c, d)) = d - c
      BY Span
<1>2. Upto(a, b) \cap Upto(c, d) = {}
      BY DEF Upto
<1> QED BY SMTT(30), <1>1, <1>2, Disjoint

LEMMA Fewer ==
    ASSUME NEW X, NEW Y, IsFiniteSet(Y), X \subseteq Y
    PROVE  IsFiniteSet(X) /\ Cardinality(X) <= Cardinality(Y) /\ Cardinality(X) \in Nat /\ Cardinality(Y) \in Nat
<1>1. IsFiniteSet(X) /\ Cardinality(X) <= Cardinality(Y)
      BY FS_Subset
<1> QED BY <1>1, FS_CardinalityType

\* The rows that have a number.
Numbered(S, is, k) == {i \in is : S[i].lap = k}

LEMMA ModeOf ==
    ASSUME NEW S, NEW is, NEW d \in Int, IsFiniteSet(is),
           \A i \in is : S[i].lap \in {d - 1, d, d + 1},
           Cardinality(Numbered(S, is, d - 1)) < Cardinality(Numbered(S, is, d)),
           Cardinality(Numbered(S, is, d + 1)) <= Cardinality(Numbered(S, is, d))
    PROVE  Mode(S, is) = d
<1> DEFINE count(n) == Cardinality(Numbered(S, is, n))
           numbers == {S[i].lap : i \in is}
           most == {n \in numbers : \A k \in numbers : count(k) <= count(n)}
<1>1. \A n : count(n) \in Nat
  <2> TAKE n
  <2>1. Numbered(S, is, n) \subseteq is
        BY DEF Numbered
  <2> QED BY <2>1, Fewer
<1>2. numbers \subseteq {d - 1, d, d + 1}
      OBVIOUS
<1>3. d \in numbers
  <2> SUFFICES ASSUME d \notin numbers PROVE FALSE
      OBVIOUS
  <2>1. Numbered(S, is, d) = {}
        BY DEF Numbered
  <2>2. count(d) = 0
        BY <2>1, FS_EmptySet
  <2>3. count(d - 1) < count(d)
        OBVIOUS
  <2> HIDE DEF count
  <2> QED BY <1>1, <2>2, <2>3
<1>4. Mode(S, is) = Min(most)
      BY DEF Mode, Numbered
<1>5. count(d - 1) < count(d) /\ count(d + 1) <= count(d)
      OBVIOUS
<1> HIDE DEF count, numbers
<1>6. d \in most
  <2> SUFFICES ASSUME NEW k \in numbers PROVE count(k) <= count(d)
      BY <1>3
  <2>1. CASE k = d - 1
        BY <1>1, <1>5, <2>1
  <2>2. CASE k = d
        BY <1>1, <2>2
  <2>3. CASE k = d + 1
        BY <1>5, <2>3
  <2> QED BY <1>2, <2>1, <2>2, <2>3
<1>7. \A n \in most : d <= n /\ n \in Int
  <2> TAKE n \in most
  <2>1. n \in {d - 1, d, d + 1} /\ count(d) <= count(n)
        BY <1>2, <1>3
  <2>2. n # d - 1
        BY <1>1, <1>5, <2>1
  <2> QED BY <2>1, <2>2
<1> HIDE DEF most
<1>8. Min(most) \in most /\ \A n \in most : Min(most) <= n
      BY <1>6, <1>7 DEF Min
<1>9. Min(most) <= d /\ d <= Min(most) /\ Min(most) \in Int
      BY <1>6, <1>7, <1>8
<1> QED BY <1>4, <1>9

\* The numbers of the rows of a lap of lap_table's.
LEMMA GroupRows ==
    ASSUME NEW S, NEW L, NEW K, NEW B, NEW A, NEW C, Laid(S, L, K, B, A, C),
           NEW q, q = Starts(S, K, B, A, C), NEW d \in 0..K, NEW i \in q[d]..(q[d + 1] - 1)
    PROVE  \/ /\ i \in B[d]..(B[d + 1] - 1)
              /\ S[i].driven = d
              /\ S[i].lap = IF A[d] <= i /\ i < C[d] THEN d - 1 ELSE d
           \/ /\ d + 1 \in 0..L
              /\ i \in B[d + 1]..(B[(d + 1) + 1] - 1)
              /\ S[i].driven = d + 1
              /\ S[i].lap = IF A[d + 1] <= i /\ i < C[d + 1] THEN d ELSE d + 1
<1>1. L \in Nat /\ K \in 0..L /\ K \in Nat /\ Len(S) \in Nat /\ Shape(S, L, B, A, C) /\ d \in 0..L
      BY DEF Laid
<1>2. /\ q \in [0..(K + 1) -> 1..(Len(S) + 1)] /\ q[K + 1] = Len(S) + 1
      /\ B[d] <= q[d] /\ q[d] < B[d + 1] /\ B[d + 1] <= q[d + 1]
      BY StartsUp
<1>3. d \in 0..(K + 1) /\ d + 1 \in 0..(K + 1)
      BY <1>1
<1>4. q[d] \in 1..(Len(S) + 1) /\ q[d + 1] \in 1..(Len(S) + 1)
      BY <1>2, <1>3
<1>5. B[d] \in Nat /\ B[d + 1] \in Nat
      BY <1>1, MarksIs
<1>6. CASE i < B[d + 1]
  <2>1. i \in B[d]..(B[d + 1] - 1)
        BY <1>2, <1>4, <1>5, <1>6
  <2>2. S[i].driven = d /\ S[i].lap = IF A[d] <= i /\ i < C[d] THEN d - 1 ELSE d
        BY <1>1, <2>1, RowIs
  <2> QED BY <2>1, <2>2
<1>7. CASE i >= B[d + 1]
  <2>1. d + 1 \in 0..L /\ i < B[(d + 1) + 1]
    <3>1. CASE d = K
      <4>1. K < L
        <5> SUFFICES ASSUME K = L PROVE FALSE
            BY <1>1
        <5>1. B[d + 1] = Len(S) + 1
              BY <1>1, <3>1, ShapeTypes
        <5> QED BY <1>1, <1>4, <1>7, <5>1
      <4>2. d + 1 = L /\ B[(d + 1) + 1] = Len(S) + 1
            BY <1>1, <3>1, <4>1, ShapeTypes DEF Laid
      <4> QED BY <1>1, <1>4, <4>2
    <3>2. CASE d # K
      <4>1. d + 1 \in 0..K /\ d + 1 \in 0..L
            BY <1>1, <3>2
      <4>2. q[d + 1] < B[(d + 1) + 1]
            BY <4>1, StartsUp
      <4>3. B[(d + 1) + 1] \in Nat
            BY <4>1, MarksIs
      <4> QED BY <1>4, <4>1, <4>2, <4>3
    <3> QED BY <3>1, <3>2
  <2>2. i \in B[d + 1]..(B[(d + 1) + 1] - 1)
    <3>1. B[(d + 1) + 1] \in Nat
          BY <2>1, MarksIs
    <3> QED BY <1>4, <1>5, <1>7, <2>1, <3>1
  <2>3. S[i].driven = d + 1 /\ S[i].lap = IF A[d + 1] <= i /\ i < C[d + 1] THEN (d + 1) - 1 ELSE d + 1
        BY <2>1, <2>2, RowIs
  <2>4. (d + 1) - 1 = d
        BY <1>1
  <2> QED BY <2>1, <2>2, <2>3, <2>4
<1> QED BY <1>1, <1>4, <1>5, <1>6, <1>7

\* A lap has more rows than MinRun can confuse.
LEMMA LongLap ==
    ASSUME NEW S, NEW L, NEW K, NEW B, NEW A, NEW C, Laid(S, L, K, B, A, C), NEW d \in 0..L, d < L
    PROVE  B[d + 1] - B[d] >= 4 * MinRun - 5
<1>1. L \in Nat /\ Shape(S, L, B, A, C)
      BY DEF Laid
<1>2. d \in 0..(L - 1) /\ Step \in Nat \ {0} /\ MinRun \in Nat /\ LapTime \in Nat
      /\ LapTime >= (4 * MinRun - 5) * Step
      BY <1>1, LapsConstantsOK
<1>3. LapTime <= (B[d + 1] - B[d]) * Step
      BY <1>2 DEF Laid, Shape
<1>4. B[d] \in Nat /\ B[d + 1] \in Nat
      BY MarksIs
<1> DEFINE x == B[d + 1] - B[d]  y == 4 * MinRun - 5
<1>5. x \in Int /\ y \in Int /\ LapTime >= y * Step /\ LapTime <= x * Step
      BY <1>2, <1>3, <1>4
<1> HIDE DEF x, y
<1>6. y <= x <=> y * Step <= x * Step
      BY <1>2, <1>5, Multiples
<1>7. y * Step \in Int /\ x * Step \in Int
      BY <1>2, <1>5, Multiples
<1>8. y <= x
      BY <1>2, <1>5, <1>6, <1>7
<1> QED BY <1>5, <1>8 DEF x, y

LEMMA GroupMode ==
    ASSUME NEW S, NEW L, NEW K, NEW B, NEW A, NEW C, Laid(S, L, K, B, A, C),
           NEW q, q = Starts(S, K, B, A, C), NEW d \in 0..K
    PROVE  Mode(S, q[d]..(q[d + 1] - 1)) = d
<1> DEFINE n == Len(S)  M == MinRun  is == q[d]..(q[d + 1] - 1)
           b == B[d]  a == A[d]  c == C[d]  e == B[d + 1]  p == q[d]  r == q[d + 1]
           N(k) == Numbered(S, is, k)
<1>1. L \in Nat /\ K \in 0..L /\ K \in Nat /\ n \in Nat /\ Shape(S, L, B, A, C) /\ d \in 0..L /\ d \in Int
      /\ d + 1 \in 0..(K + 1) /\ d \in 0..(K + 1)
      BY DEF Laid
<1>2. /\ b \in Nat /\ a \in Nat /\ c \in Nat /\ e \in Nat /\ 1 <= b /\ b <= a /\ a <= c /\ c <= e
      /\ c - a < M /\ M \in Nat \ {0, 1} /\ e <= n + 1
      BY <1>1, MarksIs
<1>3. q \in [0..(K + 1) -> 1..(n + 1)] /\ q[K + 1] = n + 1 /\ e <= r
      BY StartsUp
<1>4. p \in 1..(n + 1) /\ r \in 1..(n + 1)
      BY <1>1, <1>3
<1>5. /\ b <= p /\ p + M <= e /\ p = (IF a - b >= M THEN b ELSE c)
      /\ \A i \in p..(p + M - 1) : S[i].lap = d
      BY StartIs
<1>6. \A i \in is :
           \/ i \in b..(e - 1) /\ S[i].lap = IF a <= i /\ i < c THEN d - 1 ELSE d
           \/ /\ d + 1 \in 0..L /\ i \in e..(B[(d + 1) + 1] - 1)
              /\ S[i].lap = IF A[d + 1] <= i /\ i < C[d + 1] THEN d ELSE d + 1
      BY GroupRows
<1>7. IsFiniteSet(is)
  <2>1. r - 1 \in Int /\ p \in Int
        BY <1>4
  <2> QED BY <2>1, FS_Interval
<1> HIDE DEF b, a, c, e, p, r, n, M
<1>8. \A i \in is : S[i].lap \in {d - 1, d, d + 1}
  <2> HIDE DEF is
  <2> QED BY <1>6
<1>9. Cardinality(N(d - 1)) < M
  <2>1. N(d - 1) \subseteq Upto(a, c)
    <3> SUFFICES ASSUME NEW i \in is, S[i].lap = d - 1 PROVE i \in Upto(a, c)
        BY DEF Numbered
    <3>1. i \in b..(e - 1) /\ a <= i /\ i < c
          BY <1>1, <1>6
    <3> QED BY <1>2, <3>1 DEF Upto
  <2>2. IsFiniteSet(Upto(a, c)) /\ Cardinality(Upto(a, c)) = c - a
        BY <1>2, Span
  <2> HIDE DEF N
  <2>3. Cardinality(N(d - 1)) <= Cardinality(Upto(a, c)) /\ Cardinality(N(d - 1)) \in Nat
        BY <2>1, <2>2, Fewer
  <2> QED BY <1>2, <2>2, <2>3
<1>10. \A k : N(k) \subseteq is /\ IsFiniteSet(N(k)) /\ Cardinality(N(k)) \in Nat
  <2> TAKE k
  <2> HIDE DEF is
  <2>1. N(k) \subseteq is
        BY DEF Numbered
  <2> HIDE DEF N
  <2> QED BY <1>7, <2>1, Fewer
<1>11. Cardinality(N(d)) >= M
  <2>1. Upto(p, p + M) \subseteq N(d)
    <3> SUFFICES ASSUME NEW i \in p..(p + M - 1) PROVE i \in is /\ S[i].lap = d
        BY <1>4, <1>2 DEF Numbered, Upto
    <3>1. i \in is
          BY <1>2, <1>3, <1>4, <1>5 DEF p, r
    <3> QED BY <1>5, <3>1
  <2>2. Cardinality(Upto(p, p + M)) = M
    <3>1. p \in Int /\ p + M \in Int /\ p <= p + M /\ (p + M) - p = M
          BY <1>2, <1>4
    <3> QED BY <3>1, Span
  <2> HIDE DEF N
  <2>3. Cardinality(Upto(p, p + M)) <= Cardinality(N(d))
        BY <1>10, <2>1, Fewer
  <2> QED BY <2>2, <2>3
<1>12. Cardinality(N(d + 1)) <= Cardinality(N(d))
  <2>1. CASE d + 1 \notin 0..L
    <3>1. N(d + 1) = {}
      <4> SUFFICES ASSUME NEW i \in is, S[i].lap = d + 1 PROVE FALSE
          BY DEF Numbered
      <4> QED BY <1>1, <1>6, <2>1
    <3>2. Cardinality(N(d + 1)) = 0
          BY <3>1, FS_EmptySet
    <3> HIDE DEF N
    <3> QED BY <1>10, <3>2
  <2> DEFINE a2 == A[d + 1]  c2 == C[d + 1]  e2 == B[(d + 1) + 1]
  <2>2. ASSUME d + 1 \in 0..L
        PROVE  /\ a2 \in Nat /\ c2 \in Nat /\ e2 \in Nat /\ e <= a2 /\ a2 <= c2 /\ c2 <= e2 /\ e2 <= n + 1
               /\ c2 - a2 < M /\ (a2 = c2 => a2 = e2)
        BY <2>2, MarksIs DEF e, n, M
  <2>3. \A i \in is : S[i].lap = d + 1 =>
             d + 1 \in 0..L /\ i \in e..(e2 - 1) /\ (i < a2 \/ c2 <= i)
    <3> TAKE i \in is
    <3> HAVE S[i].lap = d + 1
    <3>1. d + 1 \in 0..L /\ i \in e..(e2 - 1) /\ ~(a2 <= i /\ i < c2)
          BY <1>1, <1>6
    <3>2. a2 \in Nat /\ c2 \in Nat /\ i \in Int
          BY <2>2, <3>1
    <3> QED BY <3>1, <3>2
  <2> HIDE DEF a2, c2, e2
  <2>4. ASSUME d + 1 \in 0..L, a2 - e < M, \A i \in is : S[i].lap = d + 1 => i < a2
        PROVE  Cardinality(N(d + 1)) <= Cardinality(N(d))
    <3>1. N(d + 1) \subseteq Upto(e, a2)
      <4> SUFFICES ASSUME NEW i \in is, S[i].lap = d + 1 PROVE i \in Upto(e, a2)
          BY DEF Numbered
      <4>1. i \in e..(e2 - 1) /\ i < a2
            BY <2>3, <2>4
      <4> QED BY <1>2, <2>2, <2>4, <4>1 DEF Upto
    <3>2. IsFiniteSet(Upto(e, a2)) /\ Cardinality(Upto(e, a2)) = a2 - e
          BY <1>2, <2>2, <2>4, Span
    <3> HIDE DEF N
    <3>3. Cardinality(N(d + 1)) <= a2 - e
          BY <3>1, <3>2, Fewer
    <3>4. a2 - e \in Int /\ a2 - e < M /\ M \in Int
          BY <1>2, <2>2, <2>4
    <3> QED BY <1>10, <1>11, <3>3, <3>4
  <2>5. CASE d + 1 \in 0..L /\ d # K
    <3>1. d + 1 \in 0..K
          BY <1>1, <2>5
    <3>2. r = (IF a2 - e >= M THEN e ELSE c2) /\ (a2 - e < M => a2 < c2)
          BY <3>1, StartIs DEF r, e, a2, c2, M
    <3>3. CASE a2 - e >= M
      <4>1. \A i \in is : i < e
            BY <1>2, <1>4, <3>2, <3>3 DEF r
      <4>2. N(d + 1) = {}
        <5> SUFFICES ASSUME NEW i \in is, S[i].lap = d + 1 PROVE FALSE
            BY DEF Numbered
        <5>1. i \in e..(e2 - 1) /\ i < e
              BY <2>3, <4>1
        <5> QED BY <1>2, <5>1
      <4>3. Cardinality(N(d + 1)) = 0
            BY <4>2, FS_EmptySet
      <4> HIDE DEF N
      <4> QED BY <1>10, <4>3
    <3>4. CASE ~(a2 - e >= M)
      <4>1. r = c2 /\ a2 - e < M
            BY <1>2, <2>2, <2>5, <3>2, <3>4
      <4>2. \A i \in is : i \in Int /\ i < c2
            BY <1>4, <4>1 DEF r
      <4>3. \A i \in is : S[i].lap = d + 1 => i < a2
            BY <2>2, <2>3, <2>5, <4>2
      <4> QED BY <2>4, <2>5, <4>1, <4>3
    <3> QED BY <3>3, <3>4
  <2>6. CASE d + 1 \in 0..L /\ d = K
    <3>1. d + 1 = L /\ a2 - e < M /\ e2 - c2 < M /\ e2 = n + 1 /\ r = n + 1
      <4>1. K < L
            BY <1>1, <2>6
      <4>2. K = L - 1 /\ A[L] - B[L] < MinRun /\ B[L + 1] - C[L] < MinRun
            BY <4>1 DEF Laid
      <4>3. d + 1 = L
            BY <1>1, <2>6, <4>2
      <4>4. B[L + 1] = n + 1
            BY <1>1, ShapeTypes DEF n
      <4> QED BY <1>3, <2>6, <4>2, <4>3, <4>4 DEF a2, c2, e2, e, r, M
    <3>2. CASE a2 = c2
      <4>1. \A i \in is : S[i].lap = d + 1 => i < a2
            BY <2>2, <2>3, <2>6, <3>2
      <4> QED BY <2>4, <2>6, <3>1, <4>1
    <3>3. CASE a2 # c2
      <4>1. c2 - a2 >= 1
            BY <2>2, <2>6, <3>3
      <4>2. Cardinality(N(d + 1)) <= 2 * M - 2
        <5>1. N(d + 1) \subseteq Upto(e, a2) \cup Upto(c2, e2)
          <6> SUFFICES ASSUME NEW i \in is, S[i].lap = d + 1 PROVE i \in Upto(e, a2) \cup Upto(c2, e2)
              BY DEF Numbered
          <6>1. i \in e..(e2 - 1) /\ (i < a2 \/ c2 <= i)
                BY <2>3
          <6> QED BY <1>2, <2>2, <2>6, <6>1 DEF Upto
        <5>2. /\ IsFiniteSet(Upto(e, a2) \cup Upto(c2, e2))
              /\ Cardinality(Upto(e, a2) \cup Upto(c2, e2)) = (a2 - e) + (e2 - c2)
              BY <1>2, <2>2, <2>6, TwoSpans
        <5> HIDE DEF N
        <5>3. Cardinality(N(d + 1)) <= (a2 - e) + (e2 - c2)
              BY <5>1, <5>2, Fewer
        <5> QED BY <1>2, <1>10, <2>2, <2>6, <3>1, <5>3
      <4>3. e - b >= 4 * M - 5
        <5>1. d < L
              BY <1>1, <3>1
        <5> QED BY <1>1, <5>1, LongLap DEF e, b, M
      <4>4. Upto(a2, c2) \subseteq N(d)
        <5> SUFFICES ASSUME NEW i \in Upto(a2, c2) PROVE i \in is /\ S[i].lap = d
            BY DEF Numbered
        <5>1. i \in e..(e2 - 1) /\ a2 <= i /\ i < c2 /\ i \in is
          <6>1. i \in a2..(c2 - 1)
                BY DEF Upto
          <6> QED BY <1>2, <1>4, <1>5, <2>2, <2>6, <3>1, <6>1 DEF p, r
        <5>2. S[i].lap = (d + 1) - 1
              BY <2>6, <5>1, RowIs DEF e, e2, a2, c2
        <5> QED BY <1>1, <5>1, <5>2
      <4>5. \A i \in is : i < e /\ (i < a \/ c <= i) => i \in N(d)
        <5> SUFFICES ASSUME NEW i \in is, i < e, i < a \/ c <= i PROVE S[i].lap = d
            BY DEF Numbered
        <5>1. ~(i \in e..(e2 - 1))
              BY <1>2
        <5>2. i \in b..(e - 1) /\ S[i].lap = IF a <= i /\ i < c THEN d - 1 ELSE d
              BY <1>6, <5>1 DEF e2
        <5> QED BY <1>2, <5>2
      <4>6. Cardinality(N(d)) >= 2 * M - 2
        <5>1. CASE a - b >= M
          <6>1. (Upto(b, a) \cup Upto(c, e)) \cup Upto(a2, c2) \subseteq N(d)
            <7>1. \A i \in Upto(b, a) \cup Upto(c, e) : i \in is /\ i < e /\ (i < a \/ c <= i)
                  BY <1>2, <1>3, <1>4, <1>5, <5>1 DEF Upto, p, r
            <7> HIDE DEF N
            <7> QED BY <4>4, <4>5, <7>1
          <6>2. Cardinality((Upto(b, a) \cup Upto(c, e)) \cup Upto(a2, c2)) = (a - b) + (e - c) + (c2 - a2)
            <7>1. /\ b \in Int /\ a \in Int /\ c \in Int /\ e \in Int /\ a2 \in Int /\ c2 \in Int
                  /\ b <= a /\ a <= c /\ c <= e /\ e <= a2 /\ a2 <= c2
                  BY <1>2, <2>2, <2>6
            <7> HIDE DEF N
            <7> DEFINE U == Upto(b, a) \cup Upto(c, e)  V == Upto(a2, c2)
            <7>2. IsFiniteSet(U) /\ Cardinality(U) = (a - b) + (e - c)
                  BY ONLY <7>1, TwoSpans
            <7>3. IsFiniteSet(V) /\ Cardinality(V) = c2 - a2
                  BY ONLY <7>1, Span
            <7>4. U \cap V = {}
                  BY ONLY <7>1 DEF Upto
            <7> HIDE DEF U, V
            <7>5. Cardinality(U \cup V) = Cardinality(U) + Cardinality(V)
                  BY ONLY <7>2, <7>3, <7>4, Disjoint
            <7>6. Cardinality(U \cup V) = (a - b) + (e - c) + (c2 - a2)
                  BY ONLY <7>1, <7>2, <7>3, <7>5
            <7> QED BY ONLY <7>6 DEF U, V
          <6> HIDE DEF N
          <6>3. Cardinality(N(d)) >= (a - b) + (e - c) + (c2 - a2)
                BY <1>10, <6>1, <6>2, Fewer
          <6> QED BY <1>2, <1>10, <2>2, <2>6, <4>1, <4>3, <6>3
        <5>2. CASE ~(a - b >= M)
          <6>1. Upto(c, e) \cup Upto(a2, c2) \subseteq N(d)
            <7>1. \A i \in Upto(c, e) : i \in is /\ i < e /\ c <= i
                  BY <1>2, <1>3, <1>4, <1>5, <5>2 DEF Upto, p, r
            <7> HIDE DEF N
            <7> QED BY <4>4, <4>5, <7>1
          <6>2. Cardinality(Upto(c, e) \cup Upto(a2, c2)) = (e - c) + (c2 - a2)
            <7>1. /\ c \in Int /\ e \in Int /\ a2 \in Int /\ c2 \in Int
                  /\ c <= e /\ e <= a2 /\ a2 <= c2
                  BY <1>2, <2>2, <2>6
            <7> HIDE DEF N
            <7> QED BY ONLY <7>1, TwoSpans
          <6> HIDE DEF N
          <6>3. Cardinality(N(d)) >= (e - c) + (c2 - a2)
                BY <1>10, <6>1, <6>2, Fewer
          <6> QED BY <1>2, <1>10, <2>2, <2>6, <4>1, <4>3, <5>2, <6>3
        <5> QED BY <5>1, <5>2
      <4> HIDE DEF N
      <4> QED BY <1>2, <1>10, <4>2, <4>6
    <3> QED BY <3>2, <3>3
  <2> QED BY <2>1, <2>5, <2>6
<1>13. Cardinality(N(d - 1)) < Cardinality(N(d))
  <2> HIDE DEF N
  <2> QED BY <1>2, <1>9, <1>10, <1>11
<1>14. Mode(S, is) = d
  <2> HIDE DEF is
  <2> QED BY <1>1, <1>7, <1>8, <1>12, <1>13, ModeOf
<1> QED BY <1>14

-----------------------------------------------------------------------------
\* A row more, of a lap that has begun: the laps after it move up by one.
IsStray(A, C, d, i) == A[d] <= i /\ i < C[d]

OneMore(X, d) == [x \in Nat |-> IF x > d THEN X[x] + 1 ELSE X[x]]
MoreB(B, D) == OneMore(B, D)
MoreA(A, C, D, odd) == OneMore(A, IF ~odd /\ A[D] = C[D] THEN D - 1 ELSE D)
MoreC(A, C, D, odd) == OneMore(C, IF odd \/ A[D] = C[D] THEN D - 1 ELSE D)

Inserted(S, k, e, S2) ==
    /\ S2 \in Seq(Row) /\ Len(S2) = Len(S) + 1
    /\ \A i \in 1..(Len(S) + 1) : S2[i] = IF i < k THEN S[i] ELSE IF i = k THEN e ELSE S[i - 1]

\* Where a row e of lap D may be put, an odd one at the end only.
Fits(S, L, B, A, C, D, k, e, odd) ==
    /\ S \in Seq(Row) /\ L \in Nat /\ D \in 0..L /\ Shape(S, L, B, A, C)
    /\ odd \in BOOLEAN /\ k \in B[D]..B[D + 1]
    /\ e \in Row /\ e.driven = D /\ e.lap = IF odd THEN D - 1 ELSE D
    /\ IF odd THEN /\ D > 0 /\ D = L /\ k = B[D + 1]
                   /\ A[D] = C[D] \/ C[D] = k
                   /\ C[D] - A[D] < MinRun - 1
       ELSE A[D] = C[D] \/ C[D] <= k

LEMMA OneMoreIs ==
    ASSUME NEW X, \A x \in Nat : X[x] \in Nat, NEW d, NEW x \in Nat
    PROVE  /\ OneMore(X, d)[x] = IF x > d THEN X[x] + 1 ELSE X[x]
           /\ OneMore(X, d) \in [Nat -> Nat]
BY DEF OneMore

\* The marks of one lap, before and after.
LEMMA MarksMove ==
    ASSUME NEW S, NEW L, NEW B, NEW A, NEW C, NEW D, NEW k, NEW e, NEW odd,
           Fits(S, L, B, A, C, D, k, e, odd), NEW d \in 0..L,
           NEW B2, B2 = MoreB(B, D), NEW A2, A2 = MoreA(A, C, D, odd), NEW C2, C2 = MoreC(A, C, D, odd)
    PROVE  /\ B[d] \in Nat /\ A[d] \in Nat /\ C[d] \in Nat /\ B[d + 1] \in Nat
           /\ 1 <= B[d] /\ B[d] <= A[d] /\ A[d] <= C[d] /\ C[d] <= B[d + 1] /\ B[d + 1] <= Len(S) + 1
           /\ C[d] - A[d] < MinRun /\ (A[d] = C[d] => A[d] = B[d + 1])
           /\ d < D => /\ B[d + 1] <= k
                       /\ B2[d] = B[d] /\ A2[d] = A[d] /\ C2[d] = C[d] /\ B2[d + 1] = B[d + 1]
           /\ d > D => /\ k <= B[d]
                       /\ B2[d] = B[d] + 1 /\ A2[d] = A[d] + 1 /\ C2[d] = C[d] + 1
                       /\ B2[d + 1] = B[d + 1] + 1
           /\ d = D => /\ B[d] <= k /\ k <= B[d + 1]
                       /\ B2[d] = B[d] /\ B2[d + 1] = B[d + 1] + 1
                       /\ A2[d] = IF ~odd /\ A[d] = C[d] THEN A[d] + 1 ELSE A[d]
                       /\ C2[d] = IF odd \/ A[d] = C[d] THEN C[d] + 1 ELSE C[d]
           /\ k \in Int /\ D \in Int /\ d \in Int /\ Len(S) \in Nat
<1>1. L \in Nat /\ D \in 0..L /\ Shape(S, L, B, A, C) /\ k \in B[D]..B[D + 1] /\ S \in Seq(Row)
      BY DEF Fits
<1>2. \A x \in Nat : B[x] \in Nat /\ A[x] \in Nat /\ C[x] \in Nat
      BY <1>1, ShapeTypes
<1>3. Block(S, d, B, A, C) /\ B[0] = 1 /\ B[L + 1] = Len(S) + 1
      BY <1>1, ShapeTypes
<1>4. \A x, y \in 0..(L + 1) : x <= y => B[x] <= B[y]
      BY <1>1, BlocksGrow
<1>5. /\ d \in 0..(L + 1) /\ d + 1 \in 0..(L + 1) /\ D \in 0..(L + 1) /\ D + 1 \in 0..(L + 1)
      /\ 0 \in 0..(L + 1) /\ L + 1 \in 0..(L + 1) /\ d \in Nat /\ d + 1 \in Nat /\ D \in Nat /\ D + 1 \in Nat
      /\ d <= L
      BY <1>1
<1>6. B[0] <= B[d] /\ B[d + 1] <= B[L + 1] /\ (d < D => B[d + 1] <= B[D]) /\ (d > D => B[D + 1] <= B[d])
      BY <1>1, <1>4, <1>5
<1>7. B[D] \in Nat /\ B[D + 1] \in Nat /\ B[d] \in Nat /\ A[d] \in Nat /\ C[d] \in Nat /\ B[d + 1] \in Nat
      /\ k \in Int /\ B[D] <= k /\ k <= B[D + 1]
      BY <1>1, <1>2, <1>5
<1>8. /\ B2[d] = (IF d > D THEN B[d] + 1 ELSE B[d])
      /\ B2[d + 1] = (IF d + 1 > D THEN B[d + 1] + 1 ELSE B[d + 1])
      BY <1>2, <1>5, OneMoreIs DEF MoreB
<1>9. /\ A2[d] = IF d > (IF ~odd /\ A[D] = C[D] THEN D - 1 ELSE D) THEN A[d] + 1 ELSE A[d]
      /\ C2[d] = IF d > (IF odd \/ A[D] = C[D] THEN D - 1 ELSE D) THEN C[d] + 1 ELSE C[d]
  <2> DEFINE x == IF ~odd /\ A[D] = C[D] THEN D - 1 ELSE D
             y == IF odd \/ A[D] = C[D] THEN D - 1 ELSE D
  <2>1. A2 = OneMore(A, x) /\ C2 = OneMore(C, y)
        BY DEF MoreA, MoreC
  <2> HIDE DEF x, y
  <2>2. A2[d] = IF d > x THEN A[d] + 1 ELSE A[d]
        BY <1>2, <1>5, <2>1, OneMoreIs
  <2>3. C2[d] = IF d > y THEN C[d] + 1 ELSE C[d]
        BY <1>2, <1>5, <2>1, OneMoreIs
  <2> QED BY <2>2, <2>3 DEF x, y
<1>10. Len(S) \in Nat
      BY <1>1
<1>11. /\ B[d] <= A[d] /\ A[d] <= C[d] /\ C[d] <= B[d + 1] /\ C[d] - A[d] < MinRun
       /\ (A[d] = C[d] => A[d] = B[d + 1])
       BY <1>3 DEF Block
<1>12. /\ d < D => d + 1 <= D /\ ~(d > D) /\ ~(d > D - 1)
       /\ d > D => d + 1 > D /\ d > D - 1
       /\ d = D => d + 1 > D /\ d > D - 1 /\ ~(d > D)
       BY <1>5
<1>13. 1 <= B[d] /\ B[d + 1] <= Len(S) + 1
       BY <1>3, <1>6
<1>14. ASSUME d < D
       PROVE  B[d + 1] <= k /\ B2[d] = B[d] /\ A2[d] = A[d] /\ C2[d] = C[d] /\ B2[d + 1] = B[d + 1]
  <2>1. B[d + 1] <= k
        BY <1>6, <1>7, <1>14
  <2>2. ~(d + 1 > D)
        BY <1>5, <1>14
  <2> QED BY <1>8, <1>9, <1>12, <1>14, <2>1, <2>2
<1>15. ASSUME d > D
       PROVE  /\ k <= B[d] /\ B2[d] = B[d] + 1 /\ A2[d] = A[d] + 1 /\ C2[d] = C[d] + 1
              /\ B2[d + 1] = B[d + 1] + 1
  <2>1. k <= B[d]
        BY <1>6, <1>7, <1>15
  <2> QED BY <1>8, <1>9, <1>12, <1>15, <2>1
<1>16. ASSUME d = D
       PROVE  /\ B[d] <= k /\ k <= B[d + 1] /\ B2[d] = B[d] /\ B2[d + 1] = B[d + 1] + 1
              /\ A2[d] = IF ~odd /\ A[d] = C[d] THEN A[d] + 1 ELSE A[d]
              /\ C2[d] = IF odd \/ A[d] = C[d] THEN C[d] + 1 ELSE C[d]
       BY <1>7, <1>8, <1>9, <1>12, <1>16
<1>17. k \in Int /\ D \in Int /\ d \in Int
       BY <1>5, <1>7
<1> QED BY <1>7, <1>10, <1>11, <1>13, <1>14, <1>15, <1>16, <1>17

\* Where a row of the grown session comes from.
LEMMA RowFrom ==
    ASSUME NEW S, NEW L, NEW B, NEW A, NEW C, NEW D, NEW k, NEW e, NEW odd,
           Fits(S, L, B, A, C, D, k, e, odd), NEW S2, Inserted(S, k, e, S2), NEW d \in 0..L,
           NEW B2, B2 = MoreB(B, D), NEW A2, A2 = MoreA(A, C, D, odd), NEW C2, C2 = MoreC(A, C, D, odd),
           NEW i \in B2[d]..(B2[d + 1] - 1)
    PROVE  \/ i = k /\ d = D /\ S2[i] = e /\ (IsStray(A2, C2, d, i) <=> odd)
           \/ \E j \in B[d]..(B[d + 1] - 1) :
                 /\ S2[i] = S[j] /\ (IsStray(A2, C2, d, i) <=> IsStray(A, C, d, j))
                 /\ j - B[d] <= i - B2[d] /\ j <= i
<1> DEFINE n == Len(S)  b == B[d]  a == A[d]  c == C[d]  f == B[d + 1]
           b2 == B2[d]  a2 == A2[d]  c2 == C2[d]  f2 == B2[d + 1]
<1>1. /\ b \in Nat /\ a \in Nat /\ c \in Nat /\ f \in Nat
      /\ 1 <= b /\ b <= a /\ a <= c /\ c <= f /\ f <= n + 1 /\ (a = c => a = f)
      /\ d < D => f <= k /\ b2 = b /\ a2 = a /\ c2 = c /\ f2 = f
      /\ d > D => k <= b /\ b2 = b + 1 /\ a2 = a + 1 /\ c2 = c + 1 /\ f2 = f + 1
      /\ d = D => /\ b <= k /\ k <= f /\ b2 = b /\ f2 = f + 1
                  /\ a2 = IF ~odd /\ a = c THEN a + 1 ELSE a
                  /\ c2 = IF odd \/ a = c THEN c + 1 ELSE c
      /\ k \in Int /\ n \in Nat /\ D \in Int /\ d \in Int
      BY MarksMove
<1>2. d = D => IF odd THEN k = f /\ (a = c \/ c = k) ELSE a = c \/ c <= k
      BY DEF Fits
<1>3. \A x \in 1..(n + 1) : S2[x] = IF x < k THEN S[x] ELSE IF x = k THEN e ELSE S[x - 1]
      BY DEF Inserted
<1>4. odd \in BOOLEAN /\ i \in b2..(f2 - 1)
      BY DEF Fits
<1>5. /\ IsStray(A2, C2, d, i) <=> a2 <= i /\ i < c2
      /\ \A j : IsStray(A, C, d, j) <=> a <= j /\ j < c
      BY DEF IsStray
<1> HIDE DEF n, b, a, c, f, b2, a2, c2, f2
<1>6. CASE d < D
  <2>1. i \in b..(f - 1) /\ i < k /\ i \in 1..(n + 1)
        BY <1>1, <1>4, <1>6
  <2>2. S2[i] = S[i] /\ (IsStray(A2, C2, d, i) <=> IsStray(A, C, d, i)) /\ i - b <= i - b2 /\ i <= i
        BY <1>1, <1>3, <1>5, <1>6, <2>1
  <2> QED BY <2>1, <2>2 DEF b, f, b2
<1>7. CASE d > D
  <2> DEFINE j == i - 1
  <2>1. j \in b..(f - 1) /\ i > k /\ i \in 1..(n + 1) /\ j - b <= i - b2 /\ j <= i
        BY <1>1, <1>4, <1>7
  <2>2. S2[i] = S[j]
        BY <1>1, <1>3, <2>1
  <2>3. a2 <= i /\ i < c2 <=> a <= j /\ j < c
        BY <1>1, <1>7, <2>1
  <2> HIDE DEF j
  <2> QED BY <1>5, <2>1, <2>2, <2>3 DEF b, f, b2
<1>8. CASE d = D
  <2>0. i \in b..f /\ i \in 1..(n + 1) /\ i \in Int
        BY <1>1, <1>4, <1>8
  <2>1. CASE i = k
    <3>1. S2[i] = e
          BY <1>1, <1>3, <2>0, <2>1
    <3>2. a2 <= i /\ i < c2 <=> odd
          BY <1>1, <1>2, <1>4, <1>8, <2>0, <2>1
    <3> QED BY <1>5, <1>8, <2>1, <3>1, <3>2
  <2>2. CASE i < k
    <3>1. S2[i] = S[i] /\ i \in b..(f - 1) /\ i - b <= i - b2 /\ i <= i
          BY <1>1, <1>3, <1>8, <2>0, <2>2
    <3>2. a2 <= i /\ i < c2 <=> a <= i /\ i < c
          BY <1>1, <1>2, <1>4, <1>8, <2>0, <2>2
    <3> QED BY <1>5, <3>1, <3>2 DEF b, f, b2
  <2>3. CASE i > k
    <3> DEFINE j == i - 1
    <3>1. S2[i] = S[j] /\ j \in b..(f - 1) /\ j - b <= i - b2 /\ j <= i /\ j >= k /\ ~odd
          BY <1>1, <1>2, <1>3, <1>8, <2>0, <2>3
    <3>2. a2 <= i /\ i < c2 <=> a <= j /\ j < c
          BY <1>1, <1>2, <1>4, <1>8, <2>0, <2>3, <3>1
    <3> HIDE DEF j
    <3> QED BY <1>5, <3>1, <3>2 DEF b, f, b2
  <2> QED BY <1>1, <2>0, <2>1, <2>2, <2>3
<1> QED BY <1>1, <1>6, <1>7, <1>8

\* And where it goes.
LEMMA RowTo ==
    ASSUME NEW S, NEW L, NEW B, NEW A, NEW C, NEW D, NEW k, NEW e, NEW odd,
           Fits(S, L, B, A, C, D, k, e, odd), NEW S2, Inserted(S, k, e, S2), NEW d \in 0..L,
           NEW B2, B2 = MoreB(B, D), NEW A2, A2 = MoreA(A, C, D, odd), NEW C2, C2 = MoreC(A, C, D, odd),
           NEW j \in B[d]..(B[d + 1] - 1)
    PROVE  \E i \in B2[d]..(B2[d + 1] - 1) :
              S2[i] = S[j] /\ (IsStray(A2, C2, d, i) <=> IsStray(A, C, d, j))
<1> DEFINE n == Len(S)  b == B[d]  a == A[d]  c == C[d]  f == B[d + 1]
           b2 == B2[d]  a2 == A2[d]  c2 == C2[d]  f2 == B2[d + 1]
           i == IF j < k THEN j ELSE j + 1
<1>1. /\ b \in Nat /\ a \in Nat /\ c \in Nat /\ f \in Nat
      /\ 1 <= b /\ b <= a /\ a <= c /\ c <= f /\ f <= n + 1 /\ (a = c => a = f)
      /\ d < D => f <= k /\ b2 = b /\ a2 = a /\ c2 = c /\ f2 = f
      /\ d > D => k <= b /\ b2 = b + 1 /\ a2 = a + 1 /\ c2 = c + 1 /\ f2 = f + 1
      /\ d = D => /\ b <= k /\ k <= f /\ b2 = b /\ f2 = f + 1
                  /\ a2 = IF ~odd /\ a = c THEN a + 1 ELSE a
                  /\ c2 = IF odd \/ a = c THEN c + 1 ELSE c
      /\ k \in Int /\ n \in Nat /\ D \in Int /\ d \in Int
      BY MarksMove
<1>2. d = D => IF odd THEN k = f /\ (a = c \/ c = k) ELSE a = c \/ c <= k
      BY DEF Fits
<1>3. \A x \in 1..(n + 1) : S2[x] = IF x < k THEN S[x] ELSE IF x = k THEN e ELSE S[x - 1]
      BY DEF Inserted
<1>4. odd \in BOOLEAN /\ j \in b..(f - 1) /\ j \in Int
      BY <1>1 DEF Fits
<1>5. /\ IsStray(A2, C2, d, i) <=> a2 <= i /\ i < c2
      /\ IsStray(A, C, d, j) <=> a <= j /\ j < c
      BY DEF IsStray
<1> HIDE DEF n, b, a, c, f, b2, a2, c2, f2
<1>6. CASE j < k
  <2>1. i = j /\ i \in 1..(n + 1)
        BY <1>1, <1>4, <1>6
  <2>2. S2[i] = S[j]
        BY <1>3, <1>6, <2>1
  <2>3. i \in b2..(f2 - 1) /\ (a2 <= i /\ i < c2 <=> a <= j /\ j < c)
    <3>1. ~(d > D)
          BY <1>1, <1>4, <1>6
    <3>2. d < D \/ d = D
          BY <1>1, <3>1
    <3> HIDE DEF i
    <3> QED BY <1>1, <1>2, <1>4, <1>6, <2>1, <3>2
  <2> HIDE DEF i
  <2> QED BY <1>5, <2>2, <2>3 DEF b2, f2
<1>7. CASE ~(j < k)
  <2>1. i = j + 1 /\ i \in 1..(n + 1) /\ i > k /\ i - 1 = j
        BY <1>1, <1>4, <1>7
  <2>2. S2[i] = S[j]
        BY <1>1, <1>3, <2>1
  <2>3. i \in b2..(f2 - 1) /\ (a2 <= i /\ i < c2 <=> a <= j /\ j < c)
    <3>1. ~(d < D)
          BY <1>1, <1>4, <1>7
    <3>2. d > D \/ (d = D /\ ~odd)
          BY <1>1, <1>2, <1>4, <1>7, <3>1
    <3> HIDE DEF i
    <3> QED BY <1>1, <1>2, <1>4, <1>7, <2>1, <3>2
  <2> HIDE DEF i
  <2> QED BY <1>5, <2>2, <2>3 DEF b2, f2
<1> QED BY <1>6, <1>7

\* A session with a row more is laid out the same.
LEMMA ShapeMoves ==
    ASSUME NEW S, NEW L, NEW B, NEW A, NEW C, NEW D, NEW k, NEW e, NEW odd,
           Fits(S, L, B, A, C, D, k, e, odd), NEW S2, Inserted(S, k, e, S2),
           NEW B2, B2 = MoreB(B, D), NEW A2, A2 = MoreA(A, C, D, odd), NEW C2, C2 = MoreC(A, C, D, odd)
    PROVE  Shape(S2, L, B2, A2, C2)
<1>1. L \in Nat /\ D \in 0..L /\ Shape(S, L, B, A, C) /\ S \in Seq(Row) /\ odd \in BOOLEAN
      BY DEF Fits
<1>2. \A x \in Nat : B[x] \in Nat /\ A[x] \in Nat /\ C[x] \in Nat
      BY <1>1, ShapeTypes
<1>3. B2 \in [Nat -> Nat] /\ A2 \in [Nat -> Nat] /\ C2 \in [Nat -> Nat]
  <2>1. \A x : OneMore(B, x) \in [Nat -> Nat] /\ OneMore(A, x) \in [Nat -> Nat] /\ OneMore(C, x) \in [Nat -> Nat]
        BY <1>2, OneMoreIs
  <2> QED BY <2>1 DEF MoreA, MoreB, MoreC
<1>4. B2[0] = 1 /\ B2[L + 1] = Len(S2) + 1
  <2>1. B[0] = 1 /\ B[L + 1] = Len(S) + 1 /\ Len(S2) = Len(S) + 1 /\ Len(S) \in Nat
        BY <1>1, ShapeTypes DEF Inserted
  <2>2. 0 \in Nat /\ L + 1 \in Nat /\ ~(0 > D) /\ L + 1 > D
        BY <1>1
  <2>3. B2[0] = B[0] /\ B2[L + 1] = B[L + 1] + 1
        BY <1>2, <2>2, OneMoreIs DEF MoreB
  <2> QED BY <2>1, <2>3
<1>5. MinRun \in Nat /\ Step \in Nat \ {0} /\ LapTime \in Nat
      BY LapsConstantsOK
<1>6. ASSUME NEW d \in 0..L PROVE Block(S2, d, B2, A2, C2)
  <2> DEFINE n == Len(S)  b == B[d]  a == A[d]  c == C[d]  f == B[d + 1]
             b2 == B2[d]  a2 == A2[d]  c2 == C2[d]  f2 == B2[d + 1]
  <2>1. /\ b \in Nat /\ a \in Nat /\ c \in Nat /\ f \in Nat
        /\ 1 <= b /\ b <= a /\ a <= c /\ c <= f /\ f <= n + 1 /\ c - a < MinRun /\ (a = c => a = f)
        /\ d < D => f <= k /\ b2 = b /\ a2 = a /\ c2 = c /\ f2 = f
        /\ d > D => k <= b /\ b2 = b + 1 /\ a2 = a + 1 /\ c2 = c + 1 /\ f2 = f + 1
        /\ d = D => /\ b <= k /\ k <= f /\ b2 = b /\ f2 = f + 1
                    /\ a2 = IF ~odd /\ a = c THEN a + 1 ELSE a
                    /\ c2 = IF odd \/ a = c THEN c + 1 ELSE c
        /\ k \in Int /\ n \in Nat /\ D \in Int /\ d \in Int
        BY MarksMove
  <2>2. d = D /\ odd => D > 0 /\ (a = c \/ c = k) /\ c - a < MinRun - 1 /\ k = f
        BY DEF Fits
  <2>3. Block(S, d, B, A, C)
        BY <1>1, ShapeTypes
  <2>4. d = 0 => a = c
        BY <2>3 DEF Block
  <2>5. e.driven = D /\ e.lap = IF odd THEN D - 1 ELSE D
        BY DEF Fits
  <2>6. ASSUME NEW i \in b2..(f2 - 1)
        PROVE  S2[i].driven = d /\ S2[i].lap = IF a2 <= i /\ i < c2 THEN d - 1 ELSE d
    <3>1. \/ i = k /\ d = D /\ S2[i] = e /\ (IsStray(A2, C2, d, i) <=> odd)
          \/ \E j \in B[d]..(B[d + 1] - 1) :
                /\ S2[i] = S[j] /\ (IsStray(A2, C2, d, i) <=> IsStray(A, C, d, j))
          BY RowFrom
    <3>2. \A j \in B[d]..(B[d + 1] - 1) :
             S[j].driven = d /\ S[j].lap = IF IsStray(A, C, d, j) THEN d - 1 ELSE d
          BY <2>3 DEF Block, IsStray
    <3>3. S2[i].driven = d /\ S2[i].lap = IF IsStray(A2, C2, d, i) THEN d - 1 ELSE d
          BY <2>5, <3>1, <3>2
    <3> QED BY <3>3 DEF IsStray
  <2> HIDE DEF b, a, c, f, b2, a2, c2, f2, n
  <2>7. /\ b2 <= a2 /\ a2 <= c2 /\ c2 <= f2 /\ c2 - a2 < MinRun /\ (a2 = c2 => a2 = f2) /\ (d = 0 => a2 = c2)
    <3>1. CASE d < D
          BY <2>1, <2>4, <3>1
    <3>2. CASE d > D
          BY <1>1, <1>5, <2>1, <3>2
    <3>3. CASE d = D
          BY <1>1, <1>5, <2>1, <2>2, <2>4, <3>3
    <3> QED BY <2>1, <3>1, <3>2, <3>3
  <2> QED BY <2>6, <2>7 DEF Block, b2, a2, c2, f2
<1>7. ASSUME NEW d \in 0..(L - 1)
      PROVE  Solid(d, B2, A2, C2) /\ LapTime <= (B2[d + 1] - B2[d]) * Step
  <2> DEFINE b == B[d]  a == A[d]  c == C[d]  f == B[d + 1]
             b2 == B2[d]  a2 == A2[d]  c2 == C2[d]  f2 == B2[d + 1]
  <2>0. d \in 0..L /\ d < L /\ d \in Int
        BY <1>1
  <2>1. /\ b \in Nat /\ a \in Nat /\ c \in Nat /\ f \in Nat
        /\ b <= a /\ a <= c /\ c <= f
        /\ d < D => b2 = b /\ a2 = a /\ c2 = c /\ f2 = f
        /\ d > D => b2 = b + 1 /\ a2 = a + 1 /\ c2 = c + 1 /\ f2 = f + 1
        /\ d = D => /\ b2 = b /\ f2 = f + 1
                    /\ a2 = IF ~odd /\ a = c THEN a + 1 ELSE a
                    /\ c2 = IF odd \/ a = c THEN c + 1 ELSE c
        /\ D \in Int
        BY <2>0, MarksMove
  <2>2. odd => D = L
        BY DEF Fits
  <2>3. (a - b >= MinRun \/ f - c >= MinRun) /\ LapTime <= (f - b) * Step
        BY <1>1 DEF Shape, Solid
  <2> DEFINE w == f - b  w2 == f2 - b2
  <2> HIDE DEF b, a, c, f, b2, a2, c2, f2
  <2>4. (a2 - b2 >= MinRun \/ f2 - c2 >= MinRun) /\ w <= w2 /\ w \in Int /\ w2 \in Int
    <3>1. CASE d < D
          BY <2>1, <2>3, <3>1
    <3>2. CASE d > D
          BY <1>5, <2>1, <2>3, <3>2
    <3>3. CASE d = D
      <4>1. ~odd
            BY <1>1, <2>0, <2>2, <3>3
      <4>2. b2 = b /\ f2 = f + 1 /\ ((a2 = a + 1 /\ c2 = c + 1) \/ (a2 = a /\ c2 = c))
            BY <2>1, <3>3, <4>1
      <4> QED BY <1>5, <2>1, <2>3, <4>2
    <3> QED BY <2>0, <2>1, <3>1, <3>2, <3>3
  <2>5. LapTime <= w * Step
        BY <2>3
  <2> HIDE DEF w, w2
  <2>6. w * Step <= w2 * Step /\ w * Step \in Int /\ w2 * Step \in Int
        BY <1>5, <2>4, Multiples
  <2>7. LapTime <= w2 * Step
        BY <1>5, <2>5, <2>6
  <2> QED BY <2>4, <2>7 DEF Solid, w2, b2, a2, c2, f2
<1> QED BY <1>3, <1>4, <1>6, <1>7 DEF Shape

-----------------------------------------------------------------------------
\* The times of a session's laps: T[d] is the last that a row of lap d itself
\* shows, and none of them shows more than its place in the lap allows.
Clocked(S, L, T, B, A, C) ==
    /\ \A d \in 0..L : T[d] \in Nat
    /\ \A d \in 0..L : \A i \in B[d]..(B[d + 1] - 1) :
          /\ S[i].clock \in Nat
          /\ IsStray(A, C, d, i) => S[i].clock <= T[d - 1]
          /\ ~IsStray(A, C, d, i) =>
                /\ S[i].clock <= T[d] /\ S[i].clock <= (i - B[d]) * Step
                /\ \E j \in B[d]..(B[d + 1] - 1) : ~IsStray(A, C, d, j) /\ S[j].clock = T[d]
    /\ \A d \in 0..(L - 1) : A[d] = C[d] => T[d] + Step >= LapTime

\* The time of lap D after the row e.
Shows(S, B, A, C, D, T, T2, k, e, odd) ==
    /\ T2[D] \in Nat /\ T[D] <= T2[D] /\ e.clock \in Nat
    /\ IF odd THEN T2[D] = T[D] /\ e.clock <= T[D - 1]
       ELSE /\ e.clock <= T2[D] /\ e.clock <= (k - B[D]) * Step
            /\ \/ T2[D] = e.clock
               \/ T2[D] = T[D] /\ \E i \in B[D]..(B[D + 1] - 1) : ~IsStray(A, C, D, i)

LEMMA ClockedRow ==
    ASSUME NEW S, NEW L, NEW T, NEW B, NEW A, NEW C, Clocked(S, L, T, B, A, C),
           NEW d \in 0..L, NEW i \in B[d]..(B[d + 1] - 1)
    PROVE  /\ S[i].clock \in Nat /\ T[d] \in Nat
           /\ IsStray(A, C, d, i) => S[i].clock <= T[d - 1]
           /\ ~IsStray(A, C, d, i) =>
                 /\ S[i].clock <= T[d] /\ S[i].clock <= (i - B[d]) * Step
                 /\ \E j \in B[d]..(B[d + 1] - 1) : ~IsStray(A, C, d, j) /\ S[j].clock = T[d]
BY DEF Clocked

LEMMA ClockedMoves ==
    ASSUME NEW S, NEW L, NEW B, NEW A, NEW C, NEW D, NEW k, NEW e, NEW odd,
           Fits(S, L, B, A, C, D, k, e, odd), NEW S2, Inserted(S, k, e, S2),
           NEW B2, B2 = MoreB(B, D), NEW A2, A2 = MoreA(A, C, D, odd), NEW C2, C2 = MoreC(A, C, D, odd),
           NEW T, NEW T2, Clocked(S, L, T, B, A, C),
           \A d \in 0..L : d # D => T2[d] = T[d], Shows(S, B, A, C, D, T, T2, k, e, odd)
    PROVE  Clocked(S2, L, T2, B2, A2, C2)
<1>1. L \in Nat /\ D \in 0..L /\ odd \in BOOLEAN
      BY DEF Fits
<1>2. \A d \in 0..L : T[d] \in Nat /\ T2[d] \in Nat /\ T[d] <= T2[d]
  <2> TAKE d \in 0..L
  <2>1. T[d] \in Nat
        BY DEF Clocked
  <2>2. CASE d = D
        BY <2>1, <2>2 DEF Shows
  <2>3. CASE d # D
    <3>1. T2[d] = T[d]
          BY <2>3
    <3> QED BY <2>1, <3>1
  <2> QED BY <2>2, <2>3
<1>3. Step \in Nat \ {0} /\ LapTime \in Nat
      BY LapsConstantsOK
<1>4. T2[D] \in Nat /\ e.clock \in Nat
      /\ (odd => T2[D] = T[D] /\ e.clock <= T[D - 1])
      /\ (~odd => e.clock <= T2[D] /\ e.clock <= (k - B[D]) * Step)
      BY <1>1 DEF Shows
<1>5. k \in Int /\ B2[D] = B[D] /\ B[D] <= k /\ k <= B[D + 1] /\ B2[D + 1] = B[D + 1] + 1
      /\ B[D] \in Nat /\ B[D + 1] \in Nat
      /\ (odd => k = B[D + 1] /\ D = L /\ D > 0)
  <2>1. \A d \in 0..L : /\ B[d] \in Nat /\ B[d + 1] \in Nat /\ k \in Int
                        /\ (d = D => B[d] <= k /\ k <= B[d + 1] /\ B2[d] = B[d] /\ B2[d + 1] = B[d + 1] + 1)
        BY MarksMove
  <2>2. odd => k = B[D + 1] /\ D = L /\ D > 0
        BY DEF Fits
  <2> QED BY <1>1, <2>1, <2>2
<1>6. k \in 1..(Len(S) + 1) /\ S2[k] = e
  <2>1. k \in 1..(Len(S) + 1)
        BY SMTT(30), <1>1, <1>5, MarksMove
  <2> QED BY <2>1, <1>5 DEF Inserted
<1>7. k \in B2[D]..(B2[D + 1] - 1)
      BY <1>5
<1>8. IsStray(A2, C2, D, k) <=> odd
  <2>1. \A d \in 0..L : /\ A[d] \in Nat /\ C[d] \in Nat /\ B[d + 1] \in Nat
                        /\ A[d] <= C[d] /\ C[d] <= B[d + 1] /\ (A[d] = C[d] => A[d] = B[d + 1])
                        /\ (d = D => /\ A2[d] = IF ~odd /\ A[d] = C[d] THEN A[d] + 1 ELSE A[d]
                                     /\ C2[d] = IF odd \/ A[d] = C[d] THEN C[d] + 1 ELSE C[d])
        BY MarksMove
  <2>2. IF odd THEN k = B[D + 1] /\ (A[D] = C[D] \/ C[D] = k) ELSE A[D] = C[D] \/ C[D] <= k
        BY DEF Fits
  <2> DEFINE a == A[D]  c == C[D]  f == B[D + 1]  a2 == A2[D]  c2 == C2[D]
  <2>3. /\ a \in Nat /\ c \in Nat /\ f \in Nat /\ a <= c /\ c <= f /\ (a = c => a = f)
        /\ a2 = (IF ~odd /\ a = c THEN a + 1 ELSE a) /\ c2 = (IF odd \/ a = c THEN c + 1 ELSE c)
        BY <1>1, <2>1
  <2>4. k <= f
        BY <1>5
  <2> HIDE DEF a, c, f, a2, c2
  <2>5. a2 <= k /\ k < c2 <=> odd
    <3>1. IF odd THEN k = f /\ (a = c \/ c = k) ELSE a = c \/ c <= k
          BY <2>2 DEF a, c, f
    <3> QED BY <1>1, <1>5, <2>3, <2>4, <3>1
  <2> QED BY <2>5 DEF IsStray, a2, c2
\* The last time shown is still shown.
<1>9. ASSUME NEW d \in 0..L, NEW i \in B2[d]..(B2[d + 1] - 1), ~IsStray(A2, C2, d, i)
      PROVE  \E j \in B2[d]..(B2[d + 1] - 1) : ~IsStray(A2, C2, d, j) /\ S2[j].clock = T2[d]
  <2>1. CASE d = D /\ T2[D] = e.clock /\ ~odd
        BY <1>6, <1>7, <1>8, <2>1
  <2>2. CASE ~(d = D /\ T2[D] = e.clock /\ ~odd)
    <3>1. T2[d] = T[d]
          BY <1>4, <2>2 DEF Shows
    <3>2. PICK x \in B[d]..(B[d + 1] - 1) : ~IsStray(A, C, d, x)
      <4>1. \/ d = D /\ i = k /\ ~odd
            \/ \E j \in B[d]..(B[d + 1] - 1) : ~IsStray(A, C, d, j)
            BY <1>8, <1>9, RowFrom
      <4>2. d = D /\ ~odd => \E j \in B[d]..(B[d + 1] - 1) : ~IsStray(A, C, d, j)
            BY <2>2 DEF Shows
      <4> QED BY <4>1, <4>2
    <3>3. PICK y \in B[d]..(B[d + 1] - 1) : ~IsStray(A, C, d, y) /\ S[y].clock = T[d]
          BY <3>2, ClockedRow
    <3>4. PICK j \in B2[d]..(B2[d + 1] - 1) :
             S2[j] = S[y] /\ (IsStray(A2, C2, d, j) <=> IsStray(A, C, d, y))
          BY <3>3, RowTo
    <3> QED BY <3>1, <3>3, <3>4
  <2> QED BY <2>1, <2>2
<1>10. ASSUME NEW d \in 0..L, NEW i \in B2[d]..(B2[d + 1] - 1)
       PROVE  /\ S2[i].clock \in Nat
              /\ IsStray(A2, C2, d, i) => S2[i].clock <= T2[d - 1]
              /\ ~IsStray(A2, C2, d, i) => S2[i].clock <= T2[d] /\ S2[i].clock <= (i - B2[d]) * Step
  <2>1. \/ i = k /\ d = D /\ S2[i] = e /\ (IsStray(A2, C2, d, i) <=> odd)
        \/ \E j \in B[d]..(B[d + 1] - 1) :
              /\ S2[i] = S[j] /\ (IsStray(A2, C2, d, i) <=> IsStray(A, C, d, j))
              /\ j - B[d] <= i - B2[d]
        BY RowFrom
  <2>2. CASE i = k /\ d = D /\ S2[i] = e /\ (IsStray(A2, C2, d, i) <=> odd)
    <3>1. odd => T2[d - 1] = T[d - 1]
      <4>1. odd => d - 1 \in 0..L /\ d - 1 # D
            BY <1>1, <1>5, <2>2
      <4> QED BY <4>1
    <3> QED BY <1>4, <1>5, <2>2, <3>1
  <2>3. ASSUME NEW j \in B[d]..(B[d + 1] - 1), S2[i] = S[j],
               IsStray(A2, C2, d, i) <=> IsStray(A, C, d, j), j - B[d] <= i - B2[d]
        PROVE  /\ S2[i].clock \in Nat
               /\ IsStray(A2, C2, d, i) => S2[i].clock <= T2[d - 1]
               /\ ~IsStray(A2, C2, d, i) => S2[i].clock <= T2[d] /\ S2[i].clock <= (i - B2[d]) * Step
    <3>1. /\ S[j].clock \in Nat
          /\ IsStray(A, C, d, j) => S[j].clock <= T[d - 1]
          /\ ~IsStray(A, C, d, j) => S[j].clock <= T[d] /\ S[j].clock <= (j - B[d]) * Step
          BY ClockedRow
    <3>2. IsStray(A, C, d, j) => d - 1 \in 0..L
      <4>1. Block(S, d, B, A, C)
            BY <1>1, ShapeTypes DEF Fits
      <4>2. d = 0 => A[d] = C[d]
            BY <4>1 DEF Block
      <4>3. A[d] \in Nat /\ C[d] \in Nat /\ B[d] \in Nat /\ B[d + 1] \in Nat
            BY MarksMove
      <4>4. IsStray(A, C, d, j) => d # 0
            BY <4>2, <4>3 DEF IsStray
      <4> QED BY <1>1, <4>4
    <3>3. B[d] \in Nat /\ B[d + 1] \in Nat /\ B2[d] \in Int /\ B2[d + 1] \in Int
      <4>1. /\ B[d] \in Nat /\ B[d + 1] \in Nat
            /\ (d < D => B2[d] = B[d] /\ B2[d + 1] = B[d + 1])
            /\ (d > D => B2[d] = B[d] + 1 /\ B2[d + 1] = B[d + 1] + 1)
            /\ (d = D => B2[d] = B[d] /\ B2[d + 1] = B[d + 1] + 1)
            BY MarksMove
      <4> QED BY <1>1, <4>1
    <3> DEFINE x == j - B[d]  y == i - B2[d]
    <3>4. x \in Int /\ y \in Int /\ x <= y
          BY <2>3, <3>3
    <3>5. S[j].clock <= x * Step => S[j].clock <= y * Step
      <4> HIDE DEF x, y
      <4>1. x * Step <= y * Step /\ x * Step \in Int /\ y * Step \in Int
            BY <1>3, <3>4, Multiples
      <4> QED BY <3>1, <4>1
    <3>6. ~IsStray(A2, C2, d, i) => S2[i].clock <= T2[d]
      <4>1. T[d] \in Nat /\ T2[d] \in Nat /\ T[d] <= T2[d]
            BY <1>2
      <4> QED BY <2>3, <3>1, <4>1
    <3>7. IsStray(A2, C2, d, i) => S2[i].clock <= T2[d - 1]
          BY <1>2, <2>3, <3>1, <3>2
    <3> QED BY <2>3, <3>1, <3>5, <3>6, <3>7
  <2> QED BY <2>1, <2>2, <2>3
<1>11. ASSUME NEW d \in 0..(L - 1), A2[d] = C2[d] PROVE T2[d] + Step >= LapTime
  <2>1. d \in 0..L /\ d # L
        BY <1>1
  <2>2. /\ A[d] \in Nat /\ C[d] \in Nat
        /\ (d < D => A2[d] = A[d] /\ C2[d] = C[d])
        /\ (d > D => A2[d] = A[d] + 1 /\ C2[d] = C[d] + 1)
        /\ (d = D => /\ A2[d] = IF ~odd /\ A[d] = C[d] THEN A[d] + 1 ELSE A[d]
                     /\ C2[d] = IF odd \/ A[d] = C[d] THEN C[d] + 1 ELSE C[d])
        BY <2>1, MarksMove
  <2>3. d = D => ~odd
        BY <1>5, <2>1
  <2>4. A[d] = C[d]
    <3>1. d < D \/ d > D \/ d = D
          BY <1>1
    <3> QED BY <1>11, <2>2, <2>3, <3>1
  <2>5. T[d] + Step >= LapTime
        BY <2>4 DEF Clocked
  <2>6. T[d] \in Nat /\ T2[d] \in Nat /\ T[d] <= T2[d]
        BY <1>2, <2>1
  <2> QED BY <1>3, <2>5, <2>6
<1> QED BY <1>2, <1>9, <1>10, <1>11 DEF Clocked

-----------------------------------------------------------------------------
\* The lap underway: what the logger's counters say of its rows ...
Counted(L, B, A, C, wh, st) ==
    /\ wh \in 0..MinRun /\ st = C[L] - A[L]
    /\ wh = MinRun => Solid(L, B, A, C)
    /\ wh # MinRun =>
          /\ A[L] - B[L] < MinRun /\ B[L + 1] - C[L] < MinRun
          /\ wh = IF st = 0 THEN B[L + 1] - B[L] ELSE B[L + 1] - C[L]

\* ... its clocks of its rows, and the last row of both.
Going(S, L, T, B, A, C, nw, ck) ==
    /\ nw \in Nat /\ ck \in Nat
    /\ ck = 0 \/ ck = Step \/ ck >= Step + Step
    /\ L = 0 => ck = nw
    /\ ck <= (B[L + 1] - B[L]) * Step
    /\ ck = 0 => B[L + 1] = B[L]
    /\ ck = Step => B[L + 1] = B[L] + 1
    /\ T[L] <= ck
    /\ B[L] < B[L + 1] /\ A[L] = C[L] => T[L] + Step >= ck
    /\ \A i \in 1..Len(S) :
          /\ S[i].at + Step <= nw
          /\ i # Len(S) => S[i].at + Step + Jitter <= nw
          /\ i = Len(S) => S[i].at + Step = nw
          /\ i = Len(S) /\ S[i].lap = S[i].driven =>
                IF B[L] < B[L + 1] THEN S[i].clock + Step = ck ELSE S[i].clock >= Step

Under(S, L, T, B, A, C, nw, ck, wh, st) ==
    /\ S \in Seq(Row) /\ L \in Nat
    /\ Shape(S, L, B, A, C) /\ Clocked(S, L, T, B, A, C)
    /\ Counted(L, B, A, C, wh, st) /\ Going(S, L, T, B, A, C, nw, ck)

LEMMA TopMarks ==
    ASSUME NEW S, NEW L, NEW B, NEW A, NEW C, NEW D, NEW k, NEW e, NEW odd,
           Fits(S, L, B, A, C, D, k, e, odd),
           NEW B2, B2 = MoreB(B, D), NEW A2, A2 = MoreA(A, C, D, odd), NEW C2, C2 = MoreC(A, C, D, odd)
    PROVE  /\ B[L] \in Nat /\ A[L] \in Nat /\ C[L] \in Nat /\ B[L + 1] \in Nat
           /\ 1 <= B[L] /\ B[L] <= A[L] /\ A[L] <= C[L] /\ C[L] <= B[L + 1]
           /\ B[L + 1] = Len(S) + 1 /\ Len(S) \in Nat
           /\ A[L] = C[L] => A[L] = B[L + 1]
           /\ B2[L + 1] = B[L + 1] + 1
           /\ D # L => B2[L] = B[L] + 1 /\ A2[L] = A[L] + 1 /\ C2[L] = C[L] + 1
           /\ D = L => /\ B2[L] = B[L]
                       /\ A2[L] = IF ~odd /\ A[L] = C[L] THEN A[L] + 1 ELSE A[L]
                       /\ C2[L] = IF odd \/ A[L] = C[L] THEN C[L] + 1 ELSE C[L]
<1>1. L \in Nat /\ D \in 0..L /\ S \in Seq(Row) /\ Shape(S, L, B, A, C) /\ L \in 0..L
      BY DEF Fits
<1>2. \A d \in 0..L :
           /\ B[d] \in Nat /\ A[d] \in Nat /\ C[d] \in Nat /\ B[d + 1] \in Nat
           /\ 1 <= B[d] /\ B[d] <= A[d] /\ A[d] <= C[d] /\ C[d] <= B[d + 1]
           /\ (A[d] = C[d] => A[d] = B[d + 1])
           /\ d > D => /\ B2[d] = B[d] + 1 /\ A2[d] = A[d] + 1 /\ C2[d] = C[d] + 1
                       /\ B2[d + 1] = B[d + 1] + 1
           /\ d = D => /\ B2[d] = B[d] /\ B2[d + 1] = B[d + 1] + 1
                       /\ A2[d] = IF ~odd /\ A[d] = C[d] THEN A[d] + 1 ELSE A[d]
                       /\ C2[d] = IF odd \/ A[d] = C[d] THEN C[d] + 1 ELSE C[d]
      BY MarksMove
<1>3. B[L + 1] = Len(S) + 1 /\ Len(S) \in Nat
      BY <1>1, ShapeTypes
<1>4. L > D \/ L = D
      BY <1>1
<1> QED BY <1>1, <1>2, <1>3, <1>4

\* The counters after a row, after an odd one, and after one of the lap before.
LEMMA CountedMoves ==
    ASSUME NEW S, NEW L, NEW B, NEW A, NEW C, NEW D, NEW k, NEW e, NEW odd,
           Fits(S, L, B, A, C, D, k, e, odd),
           NEW B2, B2 = MoreB(B, D), NEW A2, A2 = MoreA(A, C, D, odd), NEW C2, C2 = MoreC(A, C, D, odd),
           NEW wh, NEW st, Counted(L, B, A, C, wh, st),
           NEW wh2, wh2 = IF D # L THEN wh
                          ELSE IF odd THEN IF wh = MinRun THEN wh ELSE 0
                          ELSE IF wh = MinRun THEN MinRun ELSE wh + 1,
           NEW st2, st2 = IF odd THEN st + 1 ELSE st
    PROVE  Counted(L, B2, A2, C2, wh2, st2)
<1> DEFINE b == B[L]  a == A[L]  c == C[L]  f == B[L + 1]
           b2 == B2[L]  a2 == A2[L]  c2 == C2[L]  f2 == B2[L + 1]
<1>1. /\ b \in Nat /\ a \in Nat /\ c \in Nat /\ f \in Nat
      /\ 1 <= b /\ b <= a /\ a <= c /\ c <= f /\ (a = c => a = f)
      /\ f2 = f + 1
      /\ D # L => b2 = b + 1 /\ a2 = a + 1 /\ c2 = c + 1
      /\ D = L => /\ b2 = b
                  /\ a2 = IF ~odd /\ a = c THEN a + 1 ELSE a
                  /\ c2 = IF odd \/ a = c THEN c + 1 ELSE c
      BY TopMarks
<1>2. odd \in BOOLEAN /\ (odd => D = L /\ (a = c \/ c = k) /\ k = f)
      BY DEF Fits
<1>3. MinRun \in Nat \ {0, 1}
      BY LapsConstantsOK
<1>4. /\ wh \in 0..MinRun /\ st = c - a
      /\ wh = MinRun => a - b >= MinRun \/ f - c >= MinRun
      /\ wh # MinRun => /\ a - b < MinRun /\ f - c < MinRun
                        /\ wh = IF st = 0 THEN f - b ELSE f - c
      BY DEF Counted, Solid
<1> HIDE DEF b, a, c, f, b2, a2, c2, f2
<1>5. /\ wh2 \in 0..MinRun /\ st2 = c2 - a2
      /\ wh2 = MinRun => a2 - b2 >= MinRun \/ f2 - c2 >= MinRun
      /\ wh2 # MinRun => /\ a2 - b2 < MinRun /\ f2 - c2 < MinRun
                         /\ wh2 = IF st2 = 0 THEN f2 - b2 ELSE f2 - c2
  <2>1. CASE D # L
    <3>1. ~odd /\ wh2 = wh /\ st2 = st
          BY <1>2, <2>1
    <3> QED BY <1>1, <1>3, <1>4, <2>1, <3>1
  <2>2. CASE D = L /\ odd
    <3>1. wh2 = (IF wh = MinRun THEN wh ELSE 0) /\ st2 = st + 1
          BY <2>2
    <3>2. b2 = b /\ a2 = a /\ c2 = c + 1 /\ f2 = f + 1 /\ c = f
          BY <1>1, <1>2, <2>2
    <3> QED BY <1>1, <1>3, <1>4, <3>1, <3>2
  <2>3. CASE D = L /\ ~odd
    <3>1. wh2 = (IF wh = MinRun THEN MinRun ELSE wh + 1) /\ st2 = st /\ b2 = b /\ f2 = f + 1
          BY <1>1, <2>3
    <3>2. CASE a = c
      <4>1. a2 = a + 1 /\ c2 = c + 1 /\ a = f /\ st = 0
            BY <1>1, <1>4, <2>3, <3>2
      <4> QED BY <1>1, <1>3, <1>4, <3>1, <3>2, <4>1
    <3>3. CASE a # c
      <4>1. a2 = a /\ c2 = c /\ st # 0
            BY <1>1, <1>4, <2>3, <3>3
      <4> QED BY <1>1, <1>3, <1>4, <3>1, <3>3, <4>1
    <3> QED BY <3>2, <3>3
  <2> QED BY <1>2, <2>1, <2>2, <2>3
<1> QED BY <1>5 DEF Counted, Solid, b2, a2, c2, f2

\* A row with its lap's clock, and an odd one.
LEMMA UnderWrites ==
    ASSUME NEW S, NEW L, NEW T, NEW B, NEW A, NEW C, NEW nw, NEW ck, NEW wh, NEW st,
           Under(S, L, T, B, A, C, nw, ck, wh, st),
           NEW odd \in BOOLEAN, NEW e \in Row, e.at = nw, e.driven = L,
           e.lap = IF odd THEN L - 1 ELSE L,
           e.clock = IF odd THEN T[L - 1] ELSE ck,
           odd => L > 0 /\ C[L] - A[L] < MinRun - 1 /\ (A[L] = C[L] \/ C[L] = B[L + 1]),
           NEW S2, Inserted(S, Len(S) + 1, e, S2),
           NEW T2, \A d \in 0..L : d # L => T2[d] = T[d], T2[L] = IF odd THEN T[L] ELSE ck,
           NEW wh2, wh2 = IF odd THEN IF wh = MinRun THEN wh ELSE 0
                          ELSE IF wh = MinRun THEN MinRun ELSE wh + 1,
           NEW st2, st2 = IF odd THEN st + 1 ELSE st
    PROVE  \E B2, A2, C2 : Under(S2, L, T2, B2, A2, C2, nw + Step, ck + Step, wh2, st2)
<1> DEFINE n == Len(S)  k == Len(S) + 1
           B2 == MoreB(B, L)  A2 == MoreA(A, C, L, odd)  C2 == MoreC(A, C, L, odd)
<1>1. /\ S \in Seq(Row) /\ L \in Nat /\ Shape(S, L, B, A, C) /\ Clocked(S, L, T, B, A, C)
      /\ Counted(L, B, A, C, wh, st) /\ Going(S, L, T, B, A, C, nw, ck) /\ n \in Nat
      BY DEF Under
<1>2. Step \in Nat \ {0} /\ Jitter \in 1..(Step - 1) /\ MinRun \in Nat
      BY LapsConstantsOK
<1>3. /\ \A x \in Nat : B[x] \in Nat /\ A[x] \in Nat /\ C[x] \in Nat
      /\ B[L + 1] = n + 1 /\ Block(S, L, B, A, C)
      BY <1>1, ShapeTypes
<1>4. /\ B[L] \in Nat /\ A[L] \in Nat /\ C[L] \in Nat /\ B[L + 1] = n + 1
      /\ B[L] <= A[L] /\ A[L] <= C[L] /\ C[L] <= B[L + 1] /\ (A[L] = C[L] => A[L] = B[L + 1])
      BY <1>1, <1>3 DEF Block
<1>5. Fits(S, L, B, A, C, L, k, e, odd)
  <2>1. L \in 0..L /\ k \in B[L]..B[L + 1] /\ k = B[L + 1] /\ C[L] <= k
        BY <1>1, <1>4
  <2> QED BY <1>1, <2>1 DEF Fits
<1>6. Shape(S2, L, B2, A2, C2)
      BY <1>5, ShapeMoves
<1>7. /\ nw \in Nat /\ ck \in Nat /\ (ck = 0 \/ ck = Step \/ ck >= Step + Step)
      /\ (L = 0 => ck = nw)
      /\ ck <= (B[L + 1] - B[L]) * Step
      /\ (ck = 0 => B[L + 1] = B[L]) /\ (ck = Step => B[L + 1] = B[L] + 1)
      /\ T[L] <= ck
      /\ (B[L] < B[L + 1] /\ A[L] = C[L] => T[L] + Step >= ck)
      /\ \A i \in 1..n : S[i].at + Step <= nw
      BY <1>1 DEF Going
<1>8. \A d \in 0..L : T[d] \in Nat
      BY <1>1 DEF Clocked
<1>9. T[L] \in Nat /\ (odd => T[L - 1] \in Nat)
  <2>1. L \in 0..L /\ (odd => L - 1 \in 0..L)
        BY <1>1
  <2> QED BY <1>8, <2>1
<1>10. Shows(S, B, A, C, L, T, T2, k, e, odd)
  <2>1. k - B[L] = B[L + 1] - B[L]
        BY <1>4
  <2>2. e.clock \in Nat /\ T2[L] \in Nat /\ T[L] <= T2[L]
        BY <1>7, <1>9
  <2>3. odd => T2[L] = T[L] /\ e.clock <= T[L - 1]
        BY <1>9
  <2>4. ~odd => e.clock <= T2[L] /\ e.clock <= (k - B[L]) * Step /\ T2[L] = e.clock
        BY <1>7, <2>1
  <2> HIDE DEF k
  <2> QED BY <2>2, <2>3, <2>4 DEF Shows
<1>11. Clocked(S2, L, T2, B2, A2, C2)
       BY <1>1, <1>5, <1>10, ClockedMoves
<1>12. Counted(L, B2, A2, C2, wh2, st2)
       BY <1>1, <1>5, CountedMoves
<1>13. /\ B2[L] = B[L] /\ B2[L + 1] = B[L + 1] + 1 /\ B[L + 1] \in Nat
       /\ A2[L] = (IF ~odd /\ A[L] = C[L] THEN A[L] + 1 ELSE A[L])
       /\ C2[L] = (IF odd \/ A[L] = C[L] THEN C[L] + 1 ELSE C[L])
       BY <1>5, TopMarks
<1>14. S2 \in Seq(Row) /\ Len(S2) = n + 1 /\ S2[n + 1] = e /\ \A i \in 1..n : S2[i] = S[i]
  <2>1. \A i \in 1..(n + 1) : S2[i] = IF i < n + 1 THEN S[i] ELSE IF i = n + 1 THEN e ELSE S[i - 1]
        BY DEF Inserted
  <2>2. S2 \in Seq(Row) /\ Len(S2) = n + 1
        BY DEF Inserted
  <2> HIDE DEF n
  <2>3. n + 1 \in 1..(n + 1) /\ ~(n + 1 < n + 1)
        BY <1>1
  <2>4. S2[n + 1] = e
        BY <2>1, <2>3
  <2>5. ASSUME NEW i \in 1..n PROVE S2[i] = S[i]
    <3>1. i \in 1..(n + 1) /\ i < n + 1
          BY <1>1
    <3> QED BY <2>1, <3>1
  <2> QED BY <2>2, <2>4, <2>5
<1> HIDE DEF B2, A2, C2, n, k
<1>15. ck + Step <= (B2[L + 1] - B2[L]) * Step
  <2> DEFINE x == B[L + 1] - B[L]
  <2>1. x \in Int /\ B2[L + 1] - B2[L] = x + 1
        BY <1>4, <1>13
  <2>2. ck <= x * Step
        BY <1>7
  <2> HIDE DEF x
  <2>3. (x + 1) * Step = x * Step + Step /\ x * Step \in Int
        BY <1>2, <2>1, Multiples
  <2> QED BY <1>2, <1>7, <2>1, <2>2, <2>3
<1>16. \A i \in 1..(n + 1) : S2[i].at \in Int /\ S2[i].clock \in Int
  <2>1. \A i \in 1..(n + 1) : S2[i] \in Row
        BY <1>14
  <2> QED BY <2>1 DEF Row
<1>17. ASSUME NEW i \in 1..Len(S2)
       PROVE  /\ S2[i].at + Step <= nw + Step
              /\ i # Len(S2) => S2[i].at + Step + Jitter <= nw + Step
              /\ i = Len(S2) => S2[i].at + Step = nw + Step
              /\ i = Len(S2) /\ S2[i].lap = S2[i].driven => S2[i].clock + Step = ck + Step
  <2>1. CASE i = n + 1
    <3>1. S2[i] = e /\ S2[i].at = nw
          BY <1>14, <2>1
    <3>2. e.lap = e.driven => ~odd
          BY <1>1
    <3> QED BY <1>2, <1>7, <1>14, <2>1, <3>1, <3>2
  <2>2. CASE i # n + 1
    <3>1. i \in 1..n /\ i # Len(S2) /\ S2[i] = S[i] /\ S[i].at + Step <= nw
          BY <1>1, <1>7, <1>14, <2>2
    <3>2. S[i].at \in Int
          BY <1>14, <1>16, <3>1
    <3> QED BY SMTT(30), <1>2, <1>7, <3>1, <3>2
  <2> QED BY <2>1, <2>2
<1>18. Going(S2, L, T2, B2, A2, C2, nw + Step, ck + Step)
  <2>1. nw + Step \in Nat /\ ck + Step \in Nat
        /\ (ck + Step = 0 \/ ck + Step = Step \/ ck + Step >= Step + Step)
        /\ (L = 0 => ck + Step = nw + Step)
        BY <1>2, <1>7
  <2>2. (ck + Step = 0 => B2[L + 1] = B2[L])
        /\ (ck + Step = Step => B2[L + 1] = B2[L] + 1)
        /\ T2[L] <= ck + Step /\ B2[L] < B2[L + 1]
    <3>1. B2[L] < B2[L + 1] /\ (ck + Step = 0 => B2[L + 1] = B2[L])
          /\ (ck + Step = Step => B2[L + 1] = B2[L] + 1)
          BY SMTT(30), <1>2, <1>4, <1>7, <1>13
    <3>2. T2[L] = T[L] \/ T2[L] = ck
          OBVIOUS
    <3>3. T2[L] <= ck + Step
          BY <1>2, <1>7, <1>9, <3>2
    <3> QED BY <3>1, <3>3
  <2>3. A2[L] = C2[L] => T2[L] + Step >= ck + Step
    <3>1. CASE odd
      <4>1. A2[L] = A[L] /\ C2[L] = C[L] + 1
            BY <1>13, <3>1
      <4>2. A2[L] # C2[L]
            BY <1>4, <4>1
      <4> QED BY <4>2
    <3>2. CASE ~odd
      <4>1. T2[L] = ck
            BY <3>2
      <4> QED BY <1>2, <1>7, <4>1
    <3> QED BY <3>1, <3>2
  <2> QED BY <1>15, <1>17, <2>1, <2>2, <2>3 DEF Going
<1>19. Under(S2, L, T2, B2, A2, C2, nw + Step, ck + Step, wh2, st2)
       BY <1>1, <1>6, <1>11, <1>12, <1>14, <1>18 DEF Under
<1> QED BY <1>19

-----------------------------------------------------------------------------
\* The last row is of the lap underway, or of the one before that has no rows.
LEMMA LastBlock ==
    ASSUME NEW S, NEW L, NEW T, NEW B, NEW A, NEW C, NEW nw, NEW ck, NEW wh, NEW st,
           Under(S, L, T, B, A, C, nw, ck, wh, st), Len(S) # 0
    PROVE  \E d \in 0..L :
              /\ Len(S) \in B[d]..(B[d + 1] - 1) /\ B[d + 1] = Len(S) + 1
              /\ S[Len(S)].driven = d
              /\ d = L \/ (d = L - 1 /\ B[L] = B[L + 1])
<1> DEFINE n == Len(S)
<1>1. /\ S \in Seq(Row) /\ L \in Nat /\ Shape(S, L, B, A, C) /\ n \in Nat /\ n \in 1..n
      BY DEF Under
<1>2. PICK d \in 0..L : n \in B[d]..(B[d + 1] - 1)
      BY <1>1, BlockOf
<1>3. /\ \A x \in Nat : B[x] \in Nat /\ A[x] \in Nat /\ C[x] \in Nat
      /\ B[L + 1] = n + 1 /\ Block(S, d, B, A, C)
      BY <1>1, ShapeTypes
<1>4. \A x, y \in 0..(L + 1) : x <= y => B[x] <= B[y]
      BY <1>1, BlocksGrow
<1>5. d + 1 \in 0..(L + 1) /\ L \in 0..(L + 1) /\ L + 1 \in 0..(L + 1) /\ d + 1 \in Nat /\ d \in Nat /\ d + 1 <= L + 1
      BY <1>1
<1>6. B[d + 1] <= B[L + 1] /\ B[d + 1] \in Nat /\ B[d] \in Nat
      BY <1>3, <1>4, <1>5
<1>7. B[d + 1] = n + 1
      BY <1>1, <1>2, <1>3, <1>6
<1>8. S[n].driven = d
      BY <1>2, <1>3 DEF Block
<1>9. ASSUME d # L PROVE d = L - 1 /\ B[L] = B[L + 1]
  <2>1. d + 1 <= L /\ L - 1 \in 0..L /\ L - 1 \in 0..(L - 1) /\ L - 1 \in 0..(L + 1) /\ L - 1 \in Nat /\ (L - 1) + 1 = L
        BY <1>1, <1>9
  <2>2. B[d + 1] <= B[L] /\ B[L] <= B[L + 1] /\ B[L] \in Nat
        BY <1>1, <1>3, <1>4, <1>5, <2>1
  <2>3. B[L] = n + 1
        BY <1>1, <1>3, <1>7, <2>2
  <2>4. B[L - 1] < B[L]
    <3>1. Block(S, L - 1, B, A, C)
          BY <1>1, <2>1, ShapeTypes
    <3>2. Solid(L - 1, B, A, C)
          BY <1>1, <2>1 DEF Shape
    <3>3. B[L - 1] \in Nat /\ A[L - 1] \in Nat /\ C[L - 1] \in Nat /\ B[(L - 1) + 1] \in Nat
          BY <1>3, <2>1, <2>2
    <3>4. /\ B[L - 1] <= A[L - 1] /\ A[L - 1] <= C[L - 1] /\ C[L - 1] <= B[(L - 1) + 1]
          /\ A[L - 1] - B[L - 1] >= MinRun \/ B[(L - 1) + 1] - C[L - 1] >= MinRun
          BY <3>1, <3>2 DEF Block, Solid
    <3>5. MinRun \in Nat \ {0}
          BY LapsConstantsOK
    <3>6. B[L - 1] < B[(L - 1) + 1]
          BY <3>3, <3>4, <3>5
    <3> QED BY <2>1, <3>6
  <2>5. d = L - 1
    <3>1. d + 1 <= L - 1 => B[d + 1] <= B[L - 1]
          BY <1>4, <1>5, <2>1
    <3>2. B[L - 1] \in Nat
          BY <1>3, <2>1
    <3>3. ~(d + 1 <= L - 1)
          BY <1>1, <1>7, <2>3, <2>4, <3>1, <3>2
    <3> QED BY <1>5, <2>1, <3>3, <1>1
  <2> QED BY <1>3, <2>3, <2>5
<1> QED BY <1>2, <1>7, <1>8, <1>9

\* What of a late row is fixed by the last one.
LateOf(f, e, T) ==
    /\ e \in Row /\ e.at = f.at - Jitter
    /\ IF f.clock = 0 /\ f.driven > 0
       THEN e.driven = f.driven - 1 /\ e.lap = f.lap - 1 /\ e.clock = T[f.lap - 1] + Step - Jitter
       ELSE e.driven = f.driven /\ e.lap = f.lap /\ e.clock = f.clock - Jitter

LateTimes(L, T, e, T2) ==
    /\ \A d \in 0..L : d # e.driven => T2[d] = T[d]
    /\ T2[e.driven] = IF T[e.driven] > e.clock THEN T[e.driven] ELSE e.clock

\* In a lap with stray rows it is of the lap the last row is of.
KeepsLap(S, L, A, C, e) == S[Len(S)].lap = L /\ A[L] # C[L] => e.lap = L

\* It fits before the last row, and its clock is one of its lap.
LEMMA LateFits ==
    ASSUME NEW S, NEW L, NEW T, NEW B, NEW A, NEW C, NEW nw, NEW ck, NEW wh, NEW st,
           Under(S, L, T, B, A, C, nw, ck, wh, st), Len(S) # 0,
           S[Len(S)].lap = S[Len(S)].driven, S[Len(S)].at > 0,
           NEW e, LateOf(S[Len(S)], e, T),
           NEW T2, LateTimes(L, T, e, T2)
    PROVE  /\ Fits(S, L, B, A, C, e.driven, Len(S), e, FALSE)
           /\ Shows(S, B, A, C, e.driven, T, T2, Len(S), e, FALSE)
           /\ e.driven = L => B[L] < B[L + 1] /\ ck >= Step + Step /\ e.clock <= ck
           /\ KeepsLap(S, L, A, C, e)
<1> DEFINE n == Len(S)  g == S[n]  D == e.driven
<1>1. /\ S \in Seq(Row) /\ L \in Nat /\ Shape(S, L, B, A, C) /\ Clocked(S, L, T, B, A, C)
      /\ Going(S, L, T, B, A, C, nw, ck) /\ n \in Nat /\ n \in 1..n /\ Len(S) \in Nat
      BY DEF Under
<1>2. Step \in Nat \ {0} /\ Jitter \in 1..(Step - 1) /\ MinRun \in Nat \ {0}
      BY LapsConstantsOK
<1>3. g \in Row /\ g.at \in Int /\ g.clock \in Int /\ g.driven \in Int /\ g.lap \in Int
  <2>1. g \in Row
        BY <1>1
  <2> HIDE DEF g
  <2> QED BY <2>1 DEF Row
<1>4. /\ nw \in Nat /\ ck \in Nat /\ (ck = 0 \/ ck = Step \/ ck >= Step + Step)
      /\ (L = 0 => ck = nw) /\ (ck = Step => B[L + 1] = B[L] + 1)
      /\ g.at + Step = nw
      /\ IF B[L] < B[L + 1] THEN g.clock + Step = ck ELSE g.clock >= Step
      BY <1>1 DEF Going
<1>5. PICK d \in 0..L :
              /\ n \in B[d]..(B[d + 1] - 1) /\ B[d + 1] = n + 1 /\ g.driven = d
              /\ d = L \/ (d = L - 1 /\ B[L] = B[L + 1])
      BY <1>1, LastBlock
<1>6. \A x \in Nat : B[x] \in Nat /\ A[x] \in Nat /\ C[x] \in Nat
      BY <1>1, ShapeTypes
<1>7. \A x \in 0..L : /\ B[x] \in Nat /\ A[x] \in Nat /\ C[x] \in Nat /\ B[x + 1] \in Nat
                      /\ B[x] <= A[x] /\ A[x] <= C[x] /\ C[x] <= B[x + 1]
                      /\ (A[x] = C[x] => A[x] = B[x + 1])
  <2> TAKE x \in 0..L
  <2>1. Block(S, x, B, A, C)
        BY <1>1, ShapeTypes
  <2>2. x \in Nat /\ x + 1 \in Nat
        BY <1>1
  <2> QED BY <1>6, <2>1, <2>2 DEF Block
<1>8. /\ B[d] \in Nat /\ A[d] \in Nat /\ C[d] \in Nat /\ B[d] <= n
      /\ B[d] <= A[d] /\ A[d] <= C[d] /\ C[d] <= n + 1 /\ (A[d] = C[d] => A[d] = n + 1)
      BY <1>1, <1>5, <1>7
<1>9. ~IsStray(A, C, d, n) /\ (A[d] = C[d] \/ C[d] <= n)
  <2>1. Block(S, d, B, A, C)
        BY <1>1, ShapeTypes
  <2>2. g.lap = IF A[d] <= n /\ n < C[d] THEN d - 1 ELSE d
        BY <1>5, <2>1 DEF Block
  <2>3. ~(A[d] <= n /\ n < C[d])
        BY <1>5, <2>2
  <2> QED BY <1>1, <1>8, <2>3 DEF IsStray
<1>10. g.clock \in Nat /\ g.clock <= (n - B[d]) * Step /\ T[d] \in Nat
       BY <1>1, <1>5, <1>9, ClockedRow
<1>11. LateOf(g, e, T) /\ g.lap = g.driven /\ g.at > 0
       OBVIOUS
<1>14. T2[D] = IF T[D] > e.clock THEN T[D] ELSE e.clock
       BY DEF LateTimes
<1> HIDE DEF g, n
<1>12. CASE g.clock = 0 /\ g.driven > 0
  <2>1. d = L /\ L > 0 /\ B[L] < B[L + 1]
    <3>1. d = L
          BY <1>1, <1>2, <1>4, <1>5, <1>12
    <3> QED BY <1>1, <1>5, <1>8, <1>12, <3>1
  <2>2. ck = Step /\ B[L] = n
        BY <1>1, <1>2, <1>4, <1>5, <1>8, <1>12, <2>1
  <2>3. /\ D = L - 1 /\ e.lap = D /\ e.clock = T[D] + Step - Jitter
        BY <1>5, <1>11, <1>12, <2>1 DEF LateOf
  <2>4. D \in 0..L /\ D \in 0..(L - 1) /\ D + 1 = L /\ D # L /\ D \in Int
        BY <1>1, <2>1, <2>3
  <2>5. /\ B[D] \in Nat /\ A[D] \in Nat /\ C[D] \in Nat /\ B[D + 1] = n
        /\ B[D] <= A[D] /\ A[D] <= C[D] /\ C[D] <= n
        /\ (A[D] - B[D] >= MinRun \/ B[D + 1] - C[D] >= MinRun)
    <3>1. Solid(D, B, A, C)
          BY <1>1, <2>4 DEF Shape
    <3>2. /\ B[D] \in Nat /\ A[D] \in Nat /\ C[D] \in Nat
          /\ B[D] <= A[D] /\ A[D] <= C[D] /\ C[D] <= B[D + 1]
          BY <1>7, <2>4
    <3> QED BY <2>2, <2>4, <3>1, <3>2 DEF Solid
  <2>6. PICK j \in B[D]..(B[D + 1] - 1) : ~IsStray(A, C, D, j) /\ S[j].clock = T[D]
    <3>1. CASE A[D] - B[D] >= MinRun
      <4>1. B[D] \in B[D]..(B[D + 1] - 1) /\ ~(A[D] <= B[D])
            BY <1>1, <1>2, <2>5, <3>1
      <4>2. ~IsStray(A, C, D, B[D])
            BY <4>1 DEF IsStray
      <4> QED BY <1>1, <2>4, <4>1, <4>2, ClockedRow
    <3>2. CASE B[D + 1] - C[D] >= MinRun
      <4>1. C[D] \in B[D]..(B[D + 1] - 1) /\ ~(C[D] < C[D])
            BY <1>1, <1>2, <2>5, <3>2
      <4>2. ~IsStray(A, C, D, C[D])
            BY <4>1 DEF IsStray
      <4> QED BY <1>1, <2>4, <4>1, <4>2, ClockedRow
    <3> QED BY <2>5, <3>1, <3>2
  <2>7. S[j].clock <= (j - B[D]) * Step /\ T[D] \in Nat
        BY <1>1, <2>4, <2>6, ClockedRow
  <2>8. T[D] + Step <= (n - B[D]) * Step
    <3> DEFINE x == j - B[D]  y == n - B[D]
    <3>1. x \in Int /\ y \in Int /\ x + 1 <= y /\ x + 1 \in Int
          BY <1>1, <2>5
    <3>2. T[D] <= x * Step
          BY <2>6, <2>7
    <3> HIDE DEF x, y
    <3>3. (x + 1) * Step <= y * Step /\ (x + 1) * Step \in Int /\ y * Step \in Int
          BY <1>2, <3>1, Multiples
    <3>4. (x + 1) * Step = x * Step + Step /\ x * Step \in Int
          BY <1>2, <3>1, Multiples
    <3>5. T[D] + Step <= y * Step
          BY <1>2, <2>7, <3>2, <3>3, <3>4
    <3> QED BY <3>5 DEF y
  <2>9. e.clock \in Nat /\ T[D] <= e.clock /\ e.clock <= T[D] + Step
        BY <1>2, <2>3, <2>7
  <2>10. T2[D] = e.clock
    <3>1. T[D] > e.clock => T[D] = e.clock
          BY <2>7, <2>9
    <3> QED BY <1>14, <3>1
  <2>11. e.clock <= (n - B[D]) * Step
    <3> DEFINE z == (n - B[D]) * Step
    <3>1. z \in Int
      <4>1. n - B[D] \in Int
            BY <1>1, <2>5
      <4> QED BY <1>2, <4>1
    <3>2. T[D] + Step <= z
          BY <2>8
    <3> HIDE DEF z
    <3>3. e.clock <= z
          BY <1>2, <2>7, <2>9, <3>1, <3>2
    <3> QED BY <3>3 DEF z
  <2>12. Shows(S, B, A, C, D, T, T2, n, e, FALSE)
         BY <2>7, <2>9, <2>10, <2>11 DEF Shows
  <2>13. Fits(S, L, B, A, C, D, n, e, FALSE)
    <3>1. n \in B[D]..B[D + 1] /\ C[D] <= n
          BY <1>1, <2>5
    <3>2. e \in Row /\ e.driven = D /\ e.lap = D
          BY <1>11, <2>3 DEF LateOf
    <3> QED BY <1>1, <2>4, <3>1, <3>2 DEF Fits
  <2>14. A[L] = C[L]
    <3>1. A[d] = C[d]
          BY <1>8, <1>9, <2>1, <2>2
    <3> QED BY <2>1, <3>1
  <2> QED BY <2>4, <2>12, <2>13, <2>14 DEF n, KeepsLap
<1>13. CASE ~(g.clock = 0 /\ g.driven > 0)
  <2>1. D = d /\ e.lap = D /\ e.clock = g.clock - Jitter /\ e \in Row
        BY <1>5, <1>11, <1>13 DEF LateOf
  <2>2. D = L => B[L] < B[L + 1] /\ ck >= Step + Step /\ g.clock + Step = ck
    <3> SUFFICES ASSUME D = L PROVE B[L] < B[L + 1] /\ ck >= Step + Step /\ g.clock + Step = ck
        OBVIOUS
    <3>1. B[L] < B[L + 1]
          BY <1>1, <1>5, <1>8, <2>1
    <3>2. g.clock + Step = ck
          BY <1>4, <3>1
    <3>3. ck # 0
          BY <1>2, <1>10, <3>2
    <3>4. ck # Step
      <4> SUFFICES ASSUME ck = Step PROVE FALSE
          OBVIOUS
      <4>1. g.clock = 0 /\ L = 0
            BY <1>1, <1>2, <1>3, <1>5, <1>10, <1>13, <2>1, <3>2
      <4>2. ck = nw
            BY <1>4, <4>1
      <4> QED BY <1>2, <1>3, <1>4, <1>11, <4>2
    <3> QED BY <1>4, <3>1, <3>2, <3>3, <3>4
  <2>3. g.clock >= Step
    <3>1. CASE D = L
          BY <1>2, <1>3, <1>4, <2>2, <3>1
    <3>2. CASE D # L
      <4>1. ~(B[L] < B[L + 1])
        <5>1. B[L] = B[L + 1] /\ L \in Nat
              BY <1>1, <1>5, <2>1, <3>2
        <5>2. B[L] \in Nat
              BY <1>6, <5>1
        <5> QED BY <5>1, <5>2
      <4> QED BY <1>4, <4>1
    <3> QED BY <3>1, <3>2
  <2>4. e.clock \in Nat /\ e.clock <= g.clock
        BY <1>2, <1>10, <2>1, <2>3
  <2>5. e.clock <= (n - B[D]) * Step
    <3> DEFINE z == (n - B[d]) * Step
    <3>1. z \in Int
      <4>1. n - B[d] \in Int
            BY <1>1, <1>8
      <4> QED BY <1>2, <4>1
    <3>2. g.clock <= z
          BY <1>10
    <3> HIDE DEF z
    <3>3. e.clock <= z
          BY <1>10, <2>4, <3>1, <3>2
    <3> QED BY <2>1, <3>3 DEF z
  <2>6. /\ T2[D] \in Nat /\ T[D] <= T2[D] /\ e.clock <= T2[D]
        /\ T2[D] = e.clock \/ T2[D] = T[D]
    <3>1. T[D] \in Nat
          BY <1>10, <2>1
    <3>2. CASE T[D] > e.clock
      <4>1. T2[D] = T[D]
            BY <1>14, <3>2
      <4> QED BY <2>4, <3>1, <3>2, <4>1
    <3>3. CASE ~(T[D] > e.clock)
      <4>1. T2[D] = e.clock
            BY <1>14, <3>3
      <4> QED BY <2>4, <3>1, <3>3, <4>1
    <3> QED BY <3>2, <3>3
  <2>7. \E i \in B[D]..(B[D + 1] - 1) : ~IsStray(A, C, D, i)
        BY <1>5, <1>9, <2>1
  <2>8. Shows(S, B, A, C, D, T, T2, n, e, FALSE)
        BY <2>4, <2>5, <2>6, <2>7 DEF Shows
  <2>9. Fits(S, L, B, A, C, D, n, e, FALSE)
    <3>1. n \in B[D]..B[D + 1] /\ (A[D] = C[D] \/ C[D] <= n) /\ D \in 0..L
          BY <1>1, <1>5, <1>8, <1>9, <2>1
    <3> QED BY <1>1, <2>1, <3>1 DEF Fits
  <2>10. D = L => e.clock <= ck
         BY <1>2, <1>4, <1>10, <2>2, <2>4
  <2>11. g.lap = L => e.lap = L
         BY <1>5, <1>11, <2>1
  <2> QED BY <2>2, <2>8, <2>9, <2>10, <2>11 DEF n, g, KeepsLap
<1> QED BY <1>12, <1>13

-----------------------------------------------------------------------------
LEMMA UnderLate ==
    ASSUME NEW S, NEW L, NEW T, NEW B, NEW A, NEW C, NEW nw, NEW ck, NEW wh, NEW st,
           Under(S, L, T, B, A, C, nw, ck, wh, st), Len(S) # 0,
           S[Len(S)].lap = S[Len(S)].driven, S[Len(S)].at > 0,
           NEW e, LateOf(S[Len(S)], e, T), NEW S2, Inserted(S, Len(S), e, S2),
           NEW T2, LateTimes(L, T, e, T2),
           NEW wh2, wh2 = IF e.driven # L THEN wh ELSE IF wh = MinRun THEN MinRun ELSE wh + 1
    PROVE  /\ \E B2, A2, C2 : Under(S2, L, T2, B2, A2, C2, nw, ck, wh2, st)
           /\ e.driven \in 0..L
           /\ S2[Len(S2)] = S[Len(S)]
           /\ st > 0 /\ S[Len(S)].lap = L => e.lap = L
<1>0. PICK D, odd : odd \in BOOLEAN /\ D = e.driven /\ ~odd /\ odd = FALSE
      OBVIOUS
<1> DEFINE n == Len(S)
           B2 == MoreB(B, D)  A2 == MoreA(A, C, D, odd)  C2 == MoreC(A, C, D, odd)
<1>1. /\ S \in Seq(Row) /\ L \in Nat /\ Shape(S, L, B, A, C) /\ Clocked(S, L, T, B, A, C)
      /\ Counted(L, B, A, C, wh, st) /\ Going(S, L, T, B, A, C, nw, ck) /\ n \in Nat /\ n \in 1..n
      BY DEF Under
<1>2. Step \in Nat \ {0} /\ Jitter \in 1..(Step - 1) /\ MinRun \in Nat \ {0}
      BY LapsConstantsOK
<1>3. /\ Fits(S, L, B, A, C, D, n, e, odd)
      /\ Shows(S, B, A, C, D, T, T2, n, e, odd)
      /\ D = L => B[L] < B[L + 1] /\ ck >= Step + Step /\ e.clock <= ck
      /\ KeepsLap(S, L, A, C, e)
  <2>1. /\ Fits(S, L, B, A, C, e.driven, Len(S), e, FALSE)
        /\ Shows(S, B, A, C, e.driven, T, T2, Len(S), e, FALSE)
        /\ e.driven = L => B[L] < B[L + 1] /\ ck >= Step + Step /\ e.clock <= ck
        /\ KeepsLap(S, L, A, C, e)
        BY LateFits
  <2> QED BY <1>0, <2>1
<1>4. Shape(S2, L, B2, A2, C2)
      BY <1>3, ShapeMoves
<1>5. Clocked(S2, L, T2, B2, A2, C2)
  <2>1. \A d \in 0..L : d # D => T2[d] = T[d]
        BY <1>0 DEF LateTimes
  <2> HIDE DEF n
  <2> QED BY <1>1, <1>3, <2>1, ClockedMoves DEF n
<1>6. Counted(L, B2, A2, C2, wh2, st)
  <2>1. wh2 = IF D # L THEN wh
              ELSE IF odd THEN IF wh = MinRun THEN wh ELSE 0
              ELSE IF wh = MinRun THEN MinRun ELSE wh + 1
        BY <1>0
  <2>2. st = IF odd THEN st + 1 ELSE st
        BY <1>0
  <2> QED BY <1>1, <1>3, <2>1, <2>2, CountedMoves
<1>7. /\ B[L] \in Nat /\ B[L + 1] \in Nat /\ A[L] \in Nat /\ C[L] \in Nat
      /\ B2[L + 1] = B[L + 1] + 1
      /\ D # L => B2[L] = B[L] + 1 /\ A2[L] = A[L] + 1 /\ C2[L] = C[L] + 1
      /\ D = L => /\ B2[L] = B[L]
                  /\ A2[L] = IF A[L] = C[L] THEN A[L] + 1 ELSE A[L]
                  /\ C2[L] = IF A[L] = C[L] THEN C[L] + 1 ELSE C[L]
  <2>1. /\ B[L] \in Nat /\ B[L + 1] \in Nat /\ A[L] \in Nat /\ C[L] \in Nat
        /\ B2[L + 1] = B[L + 1] + 1
        /\ D # L => B2[L] = B[L] + 1 /\ A2[L] = A[L] + 1 /\ C2[L] = C[L] + 1
        /\ D = L => /\ B2[L] = B[L]
                    /\ A2[L] = IF ~odd /\ A[L] = C[L] THEN A[L] + 1 ELSE A[L]
                    /\ C2[L] = IF odd \/ A[L] = C[L] THEN C[L] + 1 ELSE C[L]
        BY <1>3, TopMarks
  <2> QED BY <1>0, <2>1
<1>8. /\ nw \in Nat /\ ck \in Nat /\ (ck = 0 \/ ck = Step \/ ck >= Step + Step)
      /\ (L = 0 => ck = nw)
      /\ ck <= (B[L + 1] - B[L]) * Step
      /\ (ck = 0 => B[L + 1] = B[L]) /\ (ck = Step => B[L + 1] = B[L] + 1)
      /\ T[L] <= ck
      /\ (B[L] < B[L + 1] /\ A[L] = C[L] => T[L] + Step >= ck)
      /\ \A i \in 1..n : S[i].at + Step <= nw /\ (i # n => S[i].at + Step + Jitter <= nw)
      /\ S[n].at + Step = nw
      /\ S[n].lap = S[n].driven => IF B[L] < B[L + 1] THEN S[n].clock + Step = ck ELSE S[n].clock >= Step
      BY <1>1 DEF Going
<1>9. T[L] \in Nat /\ D \in 0..L /\ T[D] <= T2[D] /\ T2[D] \in Nat /\ (T2[D] = e.clock \/ T2[D] = T[D])
  <2>1. L \in 0..L /\ \A d \in 0..L : T[d] \in Nat
        BY <1>1 DEF Clocked
  <2> QED BY <1>3, <2>1 DEF Fits, Shows
<1>10. e \in Row /\ e.at = S[n].at - Jitter /\ S[n] \in Row
       BY <1>1 DEF LateOf
<1>11. S2 \in Seq(Row) /\ Len(S2) = n + 1 /\ S2[n + 1] = S[n] /\ S2[n] = e /\ \A i \in 1..(n - 1) : S2[i] = S[i]
  <2>1. \A i \in 1..(n + 1) : S2[i] = IF i < n THEN S[i] ELSE IF i = n THEN e ELSE S[i - 1]
        BY DEF Inserted
  <2>2. S2 \in Seq(Row) /\ Len(S2) = n + 1
        BY DEF Inserted
  <2> HIDE DEF n
  <2>3. n + 1 \in 1..(n + 1) /\ ~(n + 1 < n) /\ n + 1 # n /\ (n + 1) - 1 = n /\ n \in 1..(n + 1) /\ ~(n < n)
        BY <1>1
  <2>4. S2[n + 1] = S[n]
        BY <2>1, <2>3
  <2>5. S2[n] = e
        BY <2>1, <2>3
  <2>6. ASSUME NEW i \in 1..(n - 1) PROVE S2[i] = S[i]
    <3>1. i \in 1..(n + 1) /\ i < n
          BY <1>1
    <3> QED BY <2>1, <3>1
  <2> QED BY <2>2, <2>4, <2>5, <2>6
<1>12. S[n].lap = S[n].driven
       OBVIOUS
<1> DEFINE g == S[n]
<1>13. g.at \in Int /\ g.clock \in Int
  <2> HIDE DEF g
  <2> QED BY <1>10 DEF Row, g
<1> HIDE DEF B2, A2, C2, n
<1>14. ck <= (B2[L + 1] - B2[L]) * Step
  <2> DEFINE x == B[L + 1] - B[L]  y == B2[L + 1] - B2[L]
  <2>1. x \in Int /\ y \in Int /\ x <= y /\ ck <= x * Step
        BY SMTT(30), <1>7, <1>8
  <2> HIDE DEF x, y
  <2>2. x * Step <= y * Step /\ x * Step \in Int /\ y * Step \in Int
        BY <1>2, <2>1, Multiples
  <2>3. ck <= y * Step
        BY <1>8, <2>1, <2>2
  <2> QED BY <2>3 DEF y
<1>15. ASSUME NEW i \in 1..Len(S2)
       PROVE  /\ S2[i].at + Step <= nw
              /\ i # Len(S2) => S2[i].at + Step + Jitter <= nw
              /\ i = Len(S2) => S2[i].at + Step = nw
              /\ i = Len(S2) /\ S2[i].lap = S2[i].driven =>
                    IF B2[L] < B2[L + 1] THEN S2[i].clock + Step = ck ELSE S2[i].clock >= Step
  <2>1. CASE i = n + 1
    <3>1. S2[i] = S[n] /\ i = Len(S2)
          BY <1>11, <2>1
    <3>2. S[n].at + Step = nw
          BY <1>8
    <3>3. IF B[L] < B[L + 1] THEN S[n].clock + Step = ck ELSE S[n].clock >= Step
          BY <1>8, <1>12
    <3>4. B2[L] < B2[L + 1] <=> B[L] < B[L + 1]
          BY <1>3, <1>7
    <3> QED BY <1>8, <3>1, <3>2, <3>3, <3>4
  <2>2. CASE i = n
    <3>1. S2[i] = e /\ i # Len(S2)
          BY <1>1, <1>11, <2>2
    <3>2. e.at = g.at - Jitter /\ g.at + Step = nw
          BY <1>8, <1>10
    <3>3. e.at + Step <= nw /\ e.at + Step + Jitter <= nw
          BY <1>2, <1>8, <1>13, <3>2
    <3> QED BY <3>1, <3>3
  <2>3. CASE i # n /\ i # n + 1
    <3>1. i \in 1..(n - 1) /\ i \in 1..n /\ i # n
          BY <1>1, <1>11, <2>3
    <3>2. S2[i] = S[i] /\ S[i].at + Step <= nw /\ S[i].at + Step + Jitter <= nw /\ i # Len(S2)
          BY <1>8, <1>11, <2>3, <3>1
    <3> QED BY <3>2
  <2> QED BY <2>1, <2>2, <2>3
<1>16. Going(S2, L, T2, B2, A2, C2, nw, ck)
  <2>1. CASE D = L
    <3>1. ck # 0 /\ ck # Step /\ B2[L] = B[L] /\ (A2[L] = C2[L] => A[L] = C[L])
          BY <1>2, <1>3, <1>7, <2>1
    <3>2. T2[L] <= ck
          BY <1>3, <1>8, <1>9, <2>1
    <3>3. A2[L] = C2[L] => T2[L] + Step >= ck
      <4>1. A[L] = C[L] => T[L] + Step >= ck
            BY <1>3, <1>8, <2>1
      <4>2. T[L] <= T2[L] /\ T[L] \in Nat /\ T2[L] \in Nat
            BY <1>9, <2>1
      <4> QED BY <1>2, <1>8, <3>1, <4>1, <4>2
    <3> QED BY <1>8, <1>14, <1>15, <3>1, <3>2, <3>3 DEF Going
  <2>2. CASE D # L
    <3>1. T2[L] = T[L]
      <4>1. L \in 0..L
            BY <1>1
      <4> QED BY <1>0, <2>2, <4>1 DEF LateTimes
    <3>2. /\ (ck = 0 => B2[L + 1] = B2[L]) /\ (ck = Step => B2[L + 1] = B2[L] + 1)
          /\ (B2[L] < B2[L + 1] <=> B[L] < B[L + 1]) /\ (A2[L] = C2[L] <=> A[L] = C[L])
      <4> DEFINE b == B[L]  f == B[L + 1]  b2 == B2[L]  f2 == B2[L + 1]
                 a == A[L]  c == C[L]  a2 == A2[L]  c2 == C2[L]
      <4>1. /\ b \in Nat /\ f \in Nat /\ a \in Nat /\ c \in Nat
            /\ f2 = f + 1 /\ b2 = b + 1 /\ a2 = a + 1 /\ c2 = c + 1
            /\ (ck = 0 => f = b) /\ (ck = Step => f = b + 1)
            BY <1>7, <1>8, <2>2
      <4> HIDE DEF b, f, b2, f2, a, c, a2, c2
      <4>2. /\ (ck = 0 => f2 = b2) /\ (ck = Step => f2 = b2 + 1)
            /\ (b2 < f2 <=> b < f) /\ (a2 = c2 <=> a = c)
            BY ONLY <4>1
      <4> QED BY <4>2 DEF b, f, b2, f2, a, c, a2, c2
    <3> QED BY <1>8, <1>14, <1>15, <3>1, <3>2 DEF Going
  <2> QED BY <2>1, <2>2
<1>17. Under(S2, L, T2, B2, A2, C2, nw, ck, wh2, st)
       BY <1>1, <1>4, <1>5, <1>6, <1>11, <1>16 DEF Under
<1>18. st > 0 /\ S[n].lap = L => e.lap = L
  <2>1. st = C[L] - A[L]
        BY <1>1 DEF Counted
  <2>2. st > 0 => A[L] # C[L]
        BY <1>7, <2>1
  <2>3. S[n].lap = L /\ A[L] # C[L] => e.lap = L
        BY <1>3 DEF KeepsLap, n
  <2> QED BY <2>2, <2>3
<1>19. e.driven \in 0..L /\ S2[Len(S2)] = S[n]
       BY <1>0, <1>9, <1>11
<1> QED BY <1>17, <1>18, <1>19 DEF n

\* The lap is over and none of the next one's rows is there yet.
LEMMA UnderNext ==
    ASSUME NEW S, NEW L, NEW T, NEW B, NEW A, NEW C, NEW nw, NEW ck, NEW wh, NEW st,
           Under(S, L, T, B, A, C, nw, ck, wh, st), wh = MinRun, ck >= LapTime, T[L + 1] = 0
    PROVE  \E B2, A2, C2 : Under(S, L + 1, T, B2, A2, C2, nw, 0, 0, 0)
<1> DEFINE n == Len(S)
           B2 == [x \in Nat |-> IF x = L + 2 THEN n + 1 ELSE B[x]]
           A2 == [x \in Nat |-> IF x = L + 1 THEN n + 1 ELSE A[x]]
           C2 == [x \in Nat |-> IF x = L + 1 THEN n + 1 ELSE C[x]]
<1>1. /\ S \in Seq(Row) /\ L \in Nat /\ Shape(S, L, B, A, C) /\ Clocked(S, L, T, B, A, C)
      /\ Counted(L, B, A, C, wh, st) /\ Going(S, L, T, B, A, C, nw, ck) /\ n \in Nat
      BY DEF Under
<1>2. Step \in Nat \ {0} /\ MinRun \in Nat \ {0, 1} /\ LapTime \in Nat /\ LapTime >= Step + Step
  <2>1. Step \in Nat \ {0} /\ MinRun \in Nat \ {0, 1} /\ LapTime \in Nat /\ LapTime >= (4 * MinRun - 5) * Step
        BY LapsConstantsOK
  <2> DEFINE x == 4 * MinRun - 5
  <2>2. x \in Int /\ 2 <= x /\ 1 + 1 <= x
        BY <2>1
  <2>3. LapTime >= x * Step
        BY <2>1
  <2> HIDE DEF x
  <2>4. 2 * Step <= x * Step /\ x * Step \in Int
        BY <2>1, <2>2, Multiples
  <2> QED BY <2>1, <2>3, <2>4
<1>3. /\ \A x \in Nat : B[x] \in Nat /\ A[x] \in Nat /\ C[x] \in Nat
      /\ B[0] = 1 /\ B[L + 1] = n + 1 /\ \A d \in 0..L : Block(S, d, B, A, C)
      BY <1>1, ShapeTypes
<1>4. /\ B2 \in [Nat -> Nat] /\ A2 \in [Nat -> Nat] /\ C2 \in [Nat -> Nat]
      BY <1>1, <1>3
<1>5. \A d \in 0..L : B2[d] = B[d] /\ A2[d] = A[d] /\ C2[d] = C[d] /\ B2[d + 1] = B[d + 1]
  <2> TAKE d \in 0..L
  <2>1. d \in Nat /\ d + 1 \in Nat /\ d # L + 2 /\ d # L + 1 /\ d + 1 # L + 2
        BY <1>1
  <2> QED BY <2>1
<1>6. /\ B2[L + 1] = n + 1 /\ A2[L + 1] = n + 1 /\ C2[L + 1] = n + 1 /\ B2[(L + 1) + 1] = n + 1
  <2>1. L + 1 \in Nat /\ L + 1 # L + 2 /\ (L + 1) + 1 = L + 2 /\ L + 2 \in Nat
        BY <1>1
  <2> QED BY <1>3, <2>1
<1> HIDE DEF B2, A2, C2
<1>7. /\ nw \in Nat /\ ck \in Nat
      /\ ck <= (B[L + 1] - B[L]) * Step
      /\ (B[L] < B[L + 1] /\ A[L] = C[L] => T[L] + Step >= ck)
      /\ \A i \in 1..n :
          /\ S[i].at + Step <= nw
          /\ i # n => S[i].at + Step + Jitter <= nw
          /\ i = n => S[i].at + Step = nw
          /\ i = n /\ S[i].lap = S[i].driven =>
                IF B[L] < B[L + 1] THEN S[i].clock + Step = ck ELSE S[i].clock >= Step
      BY <1>1 DEF Going
<1>8. Solid(L, B, A, C)
      BY <1>1 DEF Counted
<1>9. /\ B[L] \in Nat /\ A[L] \in Nat /\ C[L] \in Nat /\ B[L + 1] \in Nat
      /\ B[L] <= A[L] /\ A[L] <= C[L] /\ C[L] <= B[L + 1] /\ B[L] < B[L + 1]
  <2>1. L \in 0..L /\ L \in Nat /\ L + 1 \in Nat
        BY <1>1
  <2>2. /\ B[L] \in Nat /\ A[L] \in Nat /\ C[L] \in Nat /\ B[L + 1] \in Nat
        /\ B[L] <= A[L] /\ A[L] <= C[L] /\ C[L] <= B[L + 1]
        BY <1>3, <2>1 DEF Block
  <2> QED BY <1>2, <1>8, <2>2 DEF Solid
<1>10. Shape(S, L + 1, B2, A2, C2)
  <2>1. B2[0] = 1 /\ B2[(L + 1) + 1] = Len(S) + 1
    <3>1. 0 \in 0..L
          BY <1>1
    <3> QED BY <1>3, <1>5, <1>6, <3>1
  <2>2. ASSUME NEW d \in 0..(L + 1) PROVE Block(S, d, B2, A2, C2)
    <3>1. CASE d = L + 1
      <4>1. d # 0 /\ n + 1 \in Int /\ (n + 1) - (n + 1) = 0 /\ (n + 1)..((n + 1) - 1) = {}
            BY <1>1, <3>1
      <4> QED BY <1>2, <1>6, <3>1, <4>1 DEF Block
    <3>2. CASE d # L + 1
      <4>1. d \in 0..L
            BY <1>1, <3>2
      <4>2. Block(S, d, B, A, C)
            BY <1>3, <4>1
      <4>3. B2[d] = B[d] /\ A2[d] = A[d] /\ C2[d] = C[d] /\ B2[d + 1] = B[d + 1]
            BY <1>5, <4>1
      <4> QED BY <4>2, <4>3 DEF Block
    <3> QED BY <3>1, <3>2
  <2>3. ASSUME NEW d \in 0..((L + 1) - 1)
        PROVE Solid(d, B2, A2, C2) /\ LapTime <= (B2[d + 1] - B2[d]) * Step
    <3>1. d \in 0..L
          BY <1>1
    <3>2. B2[d] = B[d] /\ A2[d] = A[d] /\ C2[d] = C[d] /\ B2[d + 1] = B[d + 1]
          BY <1>5, <3>1
    <3>3. Solid(d, B, A, C) /\ LapTime <= (B[d + 1] - B[d]) * Step
      <4>1. CASE d = L
        <5> DEFINE z == (B[L + 1] - B[L]) * Step
        <5>1. z \in Int
          <6>1. B[L + 1] - B[L] \in Int
                BY <1>9
          <6> QED BY <1>2, <6>1
        <5>2. ck <= z
              BY <1>7
        <5> HIDE DEF z
        <5>3. LapTime <= z
              BY <1>2, <1>7, <5>1, <5>2
        <5> QED BY <1>8, <4>1, <5>3 DEF z
      <4>2. CASE d # L
        <5>1. d \in 0..(L - 1)
              BY <1>1, <3>1, <4>2
        <5> QED BY <1>1, <5>1 DEF Shape
      <4> QED BY <4>1, <4>2
    <3> QED BY <3>2, <3>3 DEF Solid
  <2> QED BY <1>4, <2>1, <2>2, <2>3 DEF Shape
<1>11. Clocked(S, L + 1, T, B2, A2, C2)
  <2>1. \A d \in 0..(L + 1) : T[d] \in Nat
    <3> TAKE d \in 0..(L + 1)
    <3>1. d = L + 1 \/ d \in 0..L
          BY <1>1
    <3> QED BY <1>1, <3>1 DEF Clocked
  <2>2. ASSUME NEW d \in 0..(L + 1), NEW i \in B2[d]..(B2[d + 1] - 1)
        PROVE  /\ S[i].clock \in Nat
               /\ IsStray(A2, C2, d, i) => S[i].clock <= T[d - 1]
               /\ ~IsStray(A2, C2, d, i) =>
                     /\ S[i].clock <= T[d] /\ S[i].clock <= (i - B2[d]) * Step
                     /\ \E j \in B2[d]..(B2[d + 1] - 1) : ~IsStray(A2, C2, d, j) /\ S[j].clock = T[d]
    <3>1. d # L + 1
      <4> SUFFICES ASSUME d = L + 1 PROVE FALSE
          OBVIOUS
      <4>1. i \in (n + 1)..((n + 1) - 1)
            BY <1>6
      <4> QED BY <1>1, <4>1
    <3>2. d \in 0..L
          BY <1>1, <3>1
    <3>3. B2[d] = B[d] /\ A2[d] = A[d] /\ C2[d] = C[d] /\ B2[d + 1] = B[d + 1]
          BY <1>5, <3>2
    <3>4. \A j : IsStray(A2, C2, d, j) <=> IsStray(A, C, d, j)
          BY <3>3 DEF IsStray
    <3>5. i \in B[d]..(B[d + 1] - 1)
          BY <3>3
    <3>6. /\ S[i].clock \in Nat
          /\ IsStray(A, C, d, i) => S[i].clock <= T[d - 1]
          /\ ~IsStray(A, C, d, i) =>
               /\ S[i].clock <= T[d] /\ S[i].clock <= (i - B[d]) * Step
               /\ \E j \in B[d]..(B[d + 1] - 1) : ~IsStray(A, C, d, j) /\ S[j].clock = T[d]
          BY SMTT(30), <1>1, <3>2, <3>5, ClockedRow
    <3> QED BY <3>3, <3>4, <3>6
  <2>3. ASSUME NEW d \in 0..((L + 1) - 1), A2[d] = C2[d] PROVE T[d] + Step >= LapTime
    <3>1. d \in 0..L
          BY <1>1
    <3>2. A[d] = C[d]
          BY <1>5, <2>3, <3>1
    <3>3. CASE d = L
      <4>1. T[L] + Step >= ck /\ T[L] \in Nat
            BY <1>7, <1>9, <2>1, <3>1, <3>2, <3>3
      <4> QED BY <1>2, <1>7, <3>3, <4>1
    <3>4. CASE d # L
      <4>1. d \in 0..(L - 1)
            BY <1>1, <3>1, <3>4
      <4> QED BY <1>1, <3>2, <4>1 DEF Clocked
    <3> QED BY <3>3, <3>4
  <2> QED BY <2>1, <2>2, <2>3 DEF Clocked
<1>12. Counted(L + 1, B2, A2, C2, 0, 0)
       BY <1>1, <1>2, <1>6 DEF Counted
<1>13. Going(S, L + 1, T, B2, A2, C2, nw, 0)
  <2>1. L + 1 # 0 /\ ~(n + 1 < n + 1) /\ (n + 1) - (n + 1) = 0 /\ 0 * Step = 0
        BY <1>1, <1>2
  <2>2. \A i \in 1..n : S[i].clock \in Int
    <3> TAKE i \in 1..n
    <3>1. S[i] \in Row
          BY <1>1
    <3> QED BY <3>1 DEF Row
  <2>3. ASSUME NEW i \in 1..n, i = n, S[i].lap = S[i].driven PROVE S[i].clock >= Step
    <3>1. S[i].clock + Step = ck
          BY <1>7, <1>9, <2>3
    <3> QED BY <1>2, <1>7, <2>2, <3>1
  <2>4. 0 \in Nat /\ 0 # Step
        BY <1>2
  <2> QED BY <1>6, <1>7, <2>1, <2>3, <2>4 DEF Going
<1>14. Under(S, L + 1, T, B2, A2, C2, nw, 0, 0, 0)
       BY <1>1, <1>10, <1>11, <1>12, <1>13 DEF Under
<1> QED BY <1>14

\* Nothing is recorded yet.
LEMMA UnderBegin ==
    ASSUME NEW T, T[0] = 0
    PROVE  \E B2, A2, C2 : Under(<<>>, 0, T, B2, A2, C2, 0, 0, 0, 0)
<1> DEFINE X == [x \in Nat |-> 1]
<1>1. X \in [Nat -> Nat] /\ X[0] = 1 /\ X[0 + 1] = 1 /\ \A d \in {0} : X[d] = 1
      OBVIOUS
<1>2. MinRun \in Nat \ {0, 1} /\ Step \in Nat \ {0}
      BY LapsConstantsOK
<1>3. <<>> \in Seq(Row) /\ Len(<<>>) = 0 /\ 0..0 = {0} /\ 0..(0 - 1) = {} /\ 1..(1 - 1) = {} /\ 0 \in Nat
      OBVIOUS
<1> HIDE DEF X
<1>4. Block(<<>>, 0, X, X, X)
      BY <1>1, <1>2, <1>3 DEF Block
<1>5. Shape(<<>>, 0, X, X, X)
      BY <1>1, <1>3, <1>4 DEF Shape
<1>6. Clocked(<<>>, 0, T, X, X, X)
      BY <1>1, <1>3 DEF Clocked
<1>7. Counted(0, X, X, X, 0, 0)
      BY <1>1, <1>2 DEF Counted
<1>8. Going(<<>>, 0, T, X, X, X, 0, 0)
  <2>1. (1 - 1) * Step = 0 /\ 0 # Step /\ 1..0 = {}
        BY <1>2
  <2> QED BY <1>1, <1>2, <1>3, <2>1 DEF Going
<1>9. Under(<<>>, 0, T, X, X, X, 0, 0, 0, 0)
      BY <1>3, <1>5, <1>6, <1>7, <1>8 DEF Under
<1> QED BY <1>9

-----------------------------------------------------------------------------
\* The session the logger is in, and the laps in it.
Recorded == Sorted(At(rows, RowsOf(run)))
TopRow(s) == s[Len(s)]

LapsLaid == \E B, A, C : Under(Recorded, lap, times[run], B, A, C, now, clock, whole, stray)
NotYet == \A r \in Runs, d \in LapNumbers : r > run \/ (r = run /\ d > lap) => times[r][d] = 0
LastRecorded ==
    /\ rows # <<>> /\ TopRow(rows).run = run => TopRow(rows) \in RowSet(Recorded)
    /\ stray > 0 /\ Recorded # <<>> /\ TopRow(Recorded).lap = lap => TopRow(rows).lap = lap

LapInv == FileInv /\ LapsLaid /\ NotYet /\ LastRecorded

\* Rows have a time to be sorted by.
LEMMA RowsTimed == Timed(Row)
BY DEF Timed, Row

LEMMA RecordedIs ==
    ASSUME FileInv
    PROVE  Recorded \in Seq(Row) /\ Ascending(Recorded) /\ At(rows, RowsOf(run)) \in Seq(Row)
<1>1. rows \in Seq(Row)
      BY DEF FileInv, LogTypes
<1> DEFINE e == [at |-> 0, lap |-> 0, clock |-> 0, run |-> 0, driven |-> 0]  t == Append(rows, e)  is == RowsOf(run)
<1>2. e \in Row
      BY DEF Row
<1> HIDE DEF e
<1>3. t \in Seq(Row) /\ Len(t) = Len(rows) + 1 /\ \A i \in 1..Len(rows) : t[i] = rows[i]
      BY <1>1, <1>2
<1> HIDE DEF t, is
<1>4. At(rows, is) \in Seq(Row)
      BY <1>1, <1>3, AtGrows
<1> DEFINE f == At(rows, is)
<1> HIDE DEF f
<1>5. Sorted(f) \in Seq(Row) /\ Ascending(Sorted(f))
      BY <1>4, RowsTimed, SortedIs DEF f
<1> QED BY <1>4, <1>5 DEF Recorded, f, is

LEMMA RecordedGrows ==
    ASSUME FileInv, NEW r \in Row, rows' = Append(rows, r), run' = run, r.run = run
    PROVE  Recorded' = Insert(Recorded, r)
<1>1. rows \in Seq(Row) /\ rows' \in Seq(Row)
      BY DEF FileInv, LogTypes
<1> DEFINE s == rows  t == rows'  is == RowsOf(run)  js == RowsOf(run)'
<1>2. Len(t) = Len(s) + 1 /\ (\A i \in 1..Len(s) : t[i] = s[i]) /\ t[Len(t)] = r
      BY <1>1
<1>3. \A i \in 1..Len(s) : i \in is <=> i \in js
  <2>1. DOMAIN rows = 1..Len(rows) /\ DOMAIN rows' = 1..Len(rows') /\ Len(rows) \in Nat
        BY <1>1
  <2> QED BY <1>2, <2>1 DEF RowsOf
<1>4. Len(t) \in js
  <2>1. DOMAIN rows' = 1..Len(rows') /\ Len(rows') \in 1..Len(rows')
        BY <1>1, <1>2
  <2> QED BY <1>2, <2>1 DEF RowsOf
<1>5. Recorded = Sorted(At(s, is)) /\ Recorded' = Sorted(At(t, js))
      BY DEF Recorded
<1>6. s \in Seq(Row) /\ t \in Seq(Row)
      BY <1>1
<1> HIDE DEF s, t, is, js
<1>7. At(s, is) \in Seq(Row) /\ At(t, js) = Append(At(s, is), r)
      BY SMTT(30), <1>2, <1>3, <1>4, <1>6, AtGrows
<1> DEFINE f == At(s, is)  g == At(t, js)
<1>8. f \in Seq(Row) /\ g = Append(f, r)
      BY <1>7
<1> HIDE DEF f, g
<1>9. g \in Seq(Row) /\ Len(g) = Len(f) + 1 /\ (\A i \in 1..Len(f) : g[i] = f[i]) /\ g[Len(g)] = r
      BY <1>8
<1>10. Sorted(g) = Insert(Sorted(f), g[Len(g)])
      BY <1>8, <1>9, RowsTimed, SortedGrows
<1> QED BY <1>5, <1>9, <1>10 DEF f, g

LEMMA InsertedIs ==
    ASSUME NEW S \in Seq(Row), Ascending(S), NEW e \in Row, NEW k \in 1..(Len(S) + 1),
           \A i \in 1..Len(S) : i < k => S[i].at <= e.at, \A i \in 1..Len(S) : k <= i => S[i].at > e.at
    PROVE  Inserted(S, k, e, Insert(S, e)) /\ RowSet(Insert(S, e)) = RowSet(S) \cup {e}
<1>1. PICK j \in 1..(Len(S) + 1) :
              /\ Insert(S, e) = InsertAt(S, j, e)
              /\ \A i \in 1..(j - 1) : S[i].at <= e.at
              /\ \A i \in j..Len(S) : S[i].at > e.at
      BY RowsTimed, InsertIs
<1>2. Len(S) \in Nat /\ e.at \in Int /\ \A i \in 1..Len(S) : S[i].at \in Int
  <2>1. Len(S) \in Nat /\ \A i \in 1..Len(S) : S[i] \in Row
        OBVIOUS
  <2> QED BY <2>1 DEF Row
<1>3. j = k
  <2>1. CASE j < k
    <3>1. j \in 1..Len(S) /\ j \in j..Len(S)
          BY <1>2, <2>1
    <3>2. S[j].at <= e.at /\ S[j].at > e.at /\ S[j].at \in Int
          BY <1>1, <1>2, <2>1, <3>1
    <3> QED BY <1>2, <3>2
  <2>2. CASE k < j
    <3>1. k \in 1..Len(S) /\ k \in 1..(j - 1) /\ k <= k
          BY <1>2, <2>2
    <3>2. S[k].at <= e.at /\ S[k].at > e.at /\ S[k].at \in Int
          BY <1>1, <1>2, <3>1
    <3> QED BY <1>2, <3>2
  <2> QED BY <1>2, <2>1, <2>2
<1>4. /\ InsertAt(S, k, e) \in Seq(Row)
      /\ Len(InsertAt(S, k, e)) = Len(S) + 1
      /\ \A i \in 1..(Len(S) + 1) :
            InsertAt(S, k, e)[i] = IF i < k THEN S[i] ELSE IF i = k THEN e ELSE S[i - 1]
      BY InsertAtIs
<1>5. Inserted(S, k, e, Insert(S, e))
      BY <1>1, <1>3, <1>4 DEF Inserted
<1>6. RowSet(Insert(S, e)) = RowSet(S) \cup {e}
      BY RowsTimed, InsertSorts
<1> QED BY <1>5, <1>6

\* None of the positions are there.
LEMMA AtNone ==
    ASSUME NEW T, NEW s \in Seq(T), NEW is, \A i \in 1..Len(s) : i \notin is
    PROVE  At(s, is) = <<>>
<1> DEFINE n == Len(s)
<1>1. PICK u : AtSteps(T, s, is, u)
      BY AtUpto
<1>2. n \in Nat /\ u[0] = <<>> /\ (\A i \in 1..n : u[i] = u[i - 1]) /\ At(s, is) = u[n]
      BY <1>1 DEF AtSteps
<1> DEFINE P == {i \in 0..n : u[i] = <<>>}
<1> HIDE DEF n
<1>3. 0 \in P
      BY <1>2
<1>4. ASSUME NEW i \in 0..(n - 1), i \in P PROVE i + 1 \in P
  <2>1. i + 1 \in 1..n /\ i + 1 \in 0..n /\ (i + 1) - 1 = i
        BY <1>2
  <2> QED BY <1>2, <1>4, <2>1
<1> HIDE DEF P
<1>5. 0..n \subseteq P
      BY <1>2, <1>3, <1>4, Induct
<1>6. u[n] = <<>>
      BY <1>2, <1>5 DEF P
<1> QED BY <1>2, <1>6

-----------------------------------------------------------------------------
\* What a row at the logger's time does: one with its lap's number and clock,
\* and an odd one.
RowAtNow(r, odd) ==
    /\ r \in Row /\ r.at = now /\ r.run = run /\ r.driven = lap
    /\ r.lap = IF odd THEN lap - 1 ELSE lap
    /\ r.clock = IF odd THEN times[run][lap - 1] ELSE clock
    /\ odd => lap > 0 /\ stray < MinRun - 1 /\ (stray > 0 => TopRow(rows).lap # lap)

LEMMA RowWritten ==
    ASSUME LapInv, NEW odd \in BOOLEAN, NEW r, RowAtNow(r, odd),
           rows' = Append(rows, r), run' = run, lap' = lap, now' = now + Step, clock' = clock + Step,
           whole' = IF odd THEN IF whole = MinRun THEN whole ELSE 0
                    ELSE IF whole = MinRun THEN MinRun ELSE whole + 1,
           stray' = IF odd THEN stray + 1 ELSE stray,
           times' = IF odd THEN times ELSE [times EXCEPT ![run][lap] = clock]
    PROVE  LapsLaid' /\ NotYet' /\ LastRecorded'
<1> DEFINE S == Recorded  S2 == Recorded'  L == lap  T == times[run]  T2 == times'[run]  n == Len(Recorded)
<1>1. /\ rows \in Seq(Row) /\ run \in Runs /\ lap \in LapNumbers /\ lap \in Nat /\ now \in Nat
      /\ times \in [Runs -> [LapNumbers -> Int]] /\ clock \in Int
      BY LapsConstantsOK DEF LapInv, FileInv, LogTypes, LapNumbers
<1>2. S \in Seq(Row) /\ Ascending(S) /\ n \in Nat
      BY RecordedIs DEF LapInv
<1>3. PICK B, A, C : Under(S, L, T, B, A, C, now, clock, whole, stray)
      BY DEF LapInv, LapsLaid
<1>4. S2 = Insert(S, r) /\ r \in Row
      BY RecordedGrows DEF LapInv, RowAtNow
<1>5. Step \in Nat \ {0} /\ \A i \in 1..n : S[i].at + Step <= now
      BY <1>3, LapsConstantsOK DEF Under, Going
<1>6. r.at = now /\ \A i \in 1..n : S[i].at \in Int /\ S[i].at <= r.at
  <2>1. \A i \in 1..n : S[i] \in Row
        BY <1>2
  <2>2. \A i \in 1..n : S[i].at \in Int
        BY <2>1 DEF Row
  <2> QED BY SMTT(30), <1>1, <1>5, <2>2 DEF RowAtNow
<1>7. Inserted(S, n + 1, r, S2) /\ RowSet(S2) = RowSet(S) \cup {r}
  <2> DEFINE k == n + 1
  <2>1. k \in 1..(n + 1) /\ \A i \in 1..n : ~(k <= i)
        BY <1>2
  <2> HIDE DEF S, k
  <2>2. Inserted(S, k, r, Insert(S, r)) /\ RowSet(Insert(S, r)) = RowSet(S) \cup {r}
        BY <1>2, <1>4, <1>6, <2>1, InsertedIs DEF S
  <2> QED BY <1>4, <2>2 DEF k
<1>8. odd => L > 0 /\ C[L] - A[L] < MinRun - 1 /\ (A[L] = C[L] \/ C[L] = B[L + 1])
  <2> SUFFICES ASSUME odd PROVE L > 0 /\ C[L] - A[L] < MinRun - 1 /\ (A[L] = C[L] \/ C[L] = B[L + 1])
      OBVIOUS
  <2>1. lap > 0 /\ stray < MinRun - 1 /\ (stray > 0 => TopRow(rows).lap # lap)
        BY DEF RowAtNow
  <2>2. stray = C[L] - A[L] /\ Shape(S, L, B, A, C)
        BY <1>3 DEF Under, Counted
  <2>3. /\ Block(S, L, B, A, C) /\ B[L + 1] = n + 1
        /\ B[L] \in Nat /\ A[L] \in Nat /\ C[L] \in Nat
    <3>1. L \in Nat /\ L \in 0..L
          BY <1>1
    <3> QED BY <2>2, <3>1, ShapeTypes
  <2>4. B[L] <= A[L] /\ A[L] <= C[L] /\ C[L] <= n + 1
        BY <2>3 DEF Block
  <2>5. ASSUME A[L] # C[L], C[L] # B[L + 1] PROVE FALSE
    <3>1. stray > 0 /\ n \in B[L]..(B[L + 1] - 1) /\ ~(A[L] <= n /\ n < C[L]) /\ n # 0
          BY <1>2, <2>2, <2>3, <2>4, <2>5
    <3>2. S[n].lap = L
          BY <2>3, <3>1 DEF Block
    <3>3. S # <<>>
          BY <1>2, <3>1
    <3>4. TopRow(rows).lap = lap
          BY <3>1, <3>2, <3>3 DEF LapInv, LastRecorded, TopRow
    <3> QED BY <2>1, <3>1, <3>4
  <2> QED BY <2>1, <2>2, <2>5
<1>9. T2[L] = (IF odd THEN T[L] ELSE clock) /\ \A d \in 0..L : d # L => T2[d] = T[d]
  <2>1. CASE odd
    <3>1. times' = times
          BY <2>1
    <3> QED BY <2>1, <3>1
  <2>2. CASE ~odd
    <3>1. times' = [times EXCEPT ![run][lap] = clock]
          BY <2>2
    <3>2. T2 = [T EXCEPT ![lap] = clock]
          BY <1>1, <3>1
    <3>3. T \in [LapNumbers -> Int]
          BY <1>1
    <3>4. \A d \in 0..L : d \in LapNumbers
          BY <1>1, LapsConstantsOK DEF LapNumbers
    <3> HIDE DEF T, T2
    <3> QED BY <1>1, <2>2, <3>2, <3>3, <3>4
  <2> QED BY <2>1, <2>2
<1>10. /\ r.at = now /\ r.driven = L /\ r.lap = (IF odd THEN L - 1 ELSE L)
       /\ r.clock = IF odd THEN T[L - 1] ELSE clock
       BY DEF RowAtNow
<1> DEFINE ck == clock  nw == now  wh == whole  st == stray  wh2 == whole'  st2 == stray'
<1>11. /\ wh2 = IF odd THEN IF wh = MinRun THEN wh ELSE 0
                ELSE IF wh = MinRun THEN MinRun ELSE wh + 1
       /\ st2 = IF odd THEN st + 1 ELSE st
       OBVIOUS
<1>12. \E B2, A2, C2 : Under(S2, L, T2, B2, A2, C2, nw + Step, ck + Step, wh2, st2)
  <2>1. Under(S, L, T, B, A, C, nw, ck, wh, st)
        BY <1>3
  <2>2. Inserted(S, Len(S) + 1, r, S2)
        BY <1>7
  <2>3. T2[L] = (IF odd THEN T[L] ELSE ck) /\ r.at = nw /\ r.clock = IF odd THEN T[L - 1] ELSE ck
        BY <1>9, <1>10
  <2> HIDE DEF S, S2, L, T, T2, n, ck, nw, wh, st, wh2, st2
  <2> QED BY <1>4, <1>8, <1>9, <1>10, <1>11, <2>1, <2>2, <2>3, UnderWrites
<1>13. LapsLaid'
       BY <1>12 DEF LapsLaid
<1>14. NotYet'
  <2> SUFFICES ASSUME NEW x \in Runs, NEW d \in LapNumbers, x > run \/ (x = run /\ d > lap)
               PROVE  times'[x][d] = 0
      BY DEF NotYet
  <2>1. times[x][d] = 0
        BY DEF LapInv, NotYet
  <2>2. CASE odd
    <3>1. times' = times
          BY <2>2
    <3> QED BY <2>1, <3>1
  <2>3. CASE ~odd
    <3>1. times' = [times EXCEPT ![run][lap] = clock]
          BY <2>3
    <3>2. x # run \/ d # lap
          BY <1>1 DEF Runs, LapNumbers
    <3> QED BY <1>1, <2>1, <3>1, <3>2
  <2> QED BY <2>2, <2>3
<1>15. LastRecorded'
  <2>1. TopRow(rows') = r
        BY <1>1, <1>4 DEF TopRow
  <2>2. r \in RowSet(S2)
        BY <1>7
  <2>3. TopRow(S2) = r
    <3>1. Len(S2) = n + 1 /\ \A i \in 1..(n + 1) : S2[i] = IF i < n + 1 THEN S[i] ELSE IF i = n + 1 THEN r ELSE S[i - 1]
          BY <1>7 DEF Inserted
    <3>2. n + 1 \in 1..(n + 1) /\ ~(n + 1 < n + 1)
          BY <1>2
    <3> HIDE DEF n, S2, S
    <3> QED BY <3>1, <3>2 DEF TopRow
  <2> QED BY <2>1, <2>2, <2>3 DEF LastRecorded
<1> QED BY <1>13, <1>14, <1>15

-----------------------------------------------------------------------------
LEMMA WriteLaps == LapInv /\ Write => LapInv'
<1> SUFFICES ASSUME LapInv, Write PROVE LapInv'
    OBVIOUS
<1>1. FileInv'
      BY WriteFile DEF LapInv
<1> DEFINE r == [at |-> now, lap |-> lap, clock |-> clock, run |-> run, driven |-> lap]
<1>2. /\ rows' = Append(rows, r) /\ now' = now + Step /\ clock' = clock + Step
      /\ whole' = Min({MinRun, whole + 1}) /\ times' = [times EXCEPT ![run][lap] = clock]
      /\ UNCHANGED <<run, lap, stray>>
      BY DEF Write, Append1
<1>3. /\ run \in Nat /\ lap \in Int /\ now \in Int /\ clock \in Int
      /\ whole \in 0..MinRun /\ MinRun \in Nat
      BY LapsConstantsOK DEF LapInv, FileInv, LogTypes, Runs, LapNumbers
<1>4. /\ r \in Row /\ r.at = now /\ r.run = run /\ r.driven = lap /\ r.lap = lap /\ r.clock = clock
      BY <1>3 DEF Row
<1> HIDE DEF r
<1>5. whole' = IF whole = MinRun THEN MinRun ELSE whole + 1
  <2>1. Min({MinRun, whole + 1}) = IF MinRun < whole + 1 THEN MinRun ELSE whole + 1
    <3>1. MinRun \in Int /\ whole + 1 \in Int
          BY <1>3
    <3> QED BY <3>1, MinMax
  <2> QED BY <1>2, <1>3, <2>1
<1>6. PICK odd : odd \in BOOLEAN /\ ~odd /\ odd = FALSE
      OBVIOUS
<1>7. RowAtNow(r, odd)
      BY <1>4, <1>6 DEF RowAtNow
<1>8. LapsLaid' /\ NotYet' /\ LastRecorded'
  <2>1. /\ whole' = IF odd THEN IF whole = MinRun THEN whole ELSE 0
                    ELSE IF whole = MinRun THEN MinRun ELSE whole + 1
        /\ stray' = IF odd THEN stray + 1 ELSE stray
        /\ times' = IF odd THEN times ELSE [times EXCEPT ![run][lap] = clock]
        BY <1>2, <1>5, <1>6
  <2> QED BY <1>2, <1>6, <1>7, <2>1, RowWritten
<1> QED BY <1>1, <1>8 DEF LapInv

LEMMA WriteStrayLaps == LapInv /\ WriteStray => LapInv'
<1> SUFFICES ASSUME LapInv, WriteStray PROVE LapInv'
    OBVIOUS
<1>1. FileInv'
      BY WriteStrayFile DEF LapInv
<1> DEFINE r == [at |-> now, lap |-> lap - 1, clock |-> times[run][lap - 1], run |-> run, driven |-> lap]
<1>2. /\ rows' = Append(rows, r) /\ now' = now + Step /\ clock' = clock + Step
      /\ whole' = (IF whole = MinRun THEN whole ELSE 0) /\ stray' = stray + 1
      /\ UNCHANGED <<run, lap, times>>
      /\ lap > 0 /\ stray < MinRun - 1 /\ (stray > 0 => Last(rows).lap # lap)
      BY DEF WriteStray, Append1
<1>3. /\ run \in Nat /\ lap \in Int /\ now \in Int /\ times[run][lap - 1] \in Int
  <2>1. /\ run \in Nat /\ lap \in Int /\ now \in Int
        BY LapsConstantsOK DEF LapInv, FileInv, LogTypes, Runs, LapNumbers
  <2>2. lap \in LapNumbers /\ run \in Runs /\ times \in [Runs -> [LapNumbers -> Int]]
        BY DEF LapInv, FileInv, LogTypes
  <2>3. MaxLaps \in Nat /\ lap > 0
        BY <1>2, LapsConstantsOK
  <2>4. lap - 1 \in LapNumbers
        BY <2>2, <2>3 DEF LapNumbers
  <2> QED BY <2>1, <2>2, <2>4
<1>4. /\ r \in Row /\ r.at = now /\ r.run = run /\ r.driven = lap /\ r.lap = lap - 1
      /\ r.clock = times[run][lap - 1]
      BY <1>3 DEF Row
<1> HIDE DEF r
<1>6. PICK odd : odd \in BOOLEAN /\ odd /\ odd = TRUE
      OBVIOUS
<1>7. RowAtNow(r, odd)
      BY <1>2, <1>4, <1>6 DEF RowAtNow, TopRow, Last
<1>8. LapsLaid' /\ NotYet' /\ LastRecorded'
  <2>1. /\ whole' = IF odd THEN IF whole = MinRun THEN whole ELSE 0
                    ELSE IF whole = MinRun THEN MinRun ELSE whole + 1
        /\ stray' = IF odd THEN stray + 1 ELSE stray
        /\ times' = IF odd THEN times ELSE [times EXCEPT ![run][lap] = clock]
        BY <1>2, <1>6
  <2> QED BY <1>2, <1>6, <1>7, <2>1, RowWritten
<1> QED BY <1>1, <1>8 DEF LapInv

\* A late row goes before the last one, which it was flushed after.
LEMMA WriteLateLaps == LapInv /\ WriteLate => LapInv'
<1> SUFFICES ASSUME LapInv, WriteLate PROVE LapInv'
    OBVIOUS
<1> DEFINE S == Recorded  S2 == Recorded'  L == lap  T == times[run]  T2 == times'[run]  n == Len(Recorded)
           e == Last(rows)  r == [LateRow(e) EXCEPT !.at = e.at - Jitter]
<1>1. /\ r \in Row /\ r.run = run /\ r.at = e.at - Jitter /\ r.driven \in LapNumbers
      /\ r.clock = LateRow(e).clock /\ r.driven = LateRow(e).driven /\ r.lap = LateRow(e).lap
      /\ rows' = Append(rows, r)
      /\ times' = [times EXCEPT ![run][r.driven] = Max({@, r.clock})]
      /\ whole' = IF r.driven = lap THEN Min({MinRun, whole + 1}) ELSE whole
      /\ UNCHANGED <<run, now, lap, clock, stray>>
      /\ rows # <<>> /\ e.run = run /\ e.at = now - Step /\ e.at > 0 /\ e.lap = e.driven
      BY LateIs DEF LapInv
<1>2. /\ rows \in Seq(Row) /\ run \in Runs /\ lap \in LapNumbers /\ lap \in Nat /\ now \in Nat
      /\ times \in [Runs -> [LapNumbers -> Int]] /\ whole \in 0..MinRun
      BY LapsConstantsOK DEF LapInv, FileInv, LogTypes, LapNumbers
<1>3. e = TopRow(rows) /\ e \in Row
      BY <1>1, LastIs DEF LapInv, TopRow
<1>4. FileInv'
      BY WriteLateFile DEF LapInv
<1>5. /\ e.clock = 0 /\ e.driven > 0 =>
            r.driven = e.driven - 1 /\ r.lap = e.lap - 1 /\ r.clock = T[e.lap - 1] + Step - Jitter
      /\ ~(e.clock = 0 /\ e.driven > 0) =>
            r.driven = e.driven /\ r.lap = e.lap /\ r.clock = e.clock - Jitter
  <2>1. CASE e.clock = 0 /\ e.driven > 0
    <3> DEFINE l == LateRow(e)
    <3>1. l = [e EXCEPT !.lap = e.lap - 1, !.driven = e.driven - 1,
                        !.clock = times[run][e.lap - 1] + Step - Jitter]
          BY <2>1 DEF LateRow
    <3>2. r.clock = l.clock /\ r.driven = l.driven /\ r.lap = l.lap
          BY <1>1
    <3> HIDE DEF l, r, e
    <3>3. l.driven = e.driven - 1 /\ l.lap = e.lap - 1 /\ l.clock = T[e.lap - 1] + Step - Jitter
          BY <1>3, <3>1 DEF Row
    <3> QED BY <2>1, <3>2, <3>3
  <2>2. CASE ~(e.clock = 0 /\ e.driven > 0)
    <3> DEFINE l == LateRow(e)
    <3>1. l = [e EXCEPT !.clock = e.clock - Jitter]
          BY <2>2 DEF LateRow
    <3>2. r.clock = l.clock /\ r.driven = l.driven /\ r.lap = l.lap
          BY <1>1
    <3> HIDE DEF l, r, e
    <3>3. l.driven = e.driven /\ l.lap = e.lap /\ l.clock = e.clock - Jitter
          BY <1>3, <3>1 DEF Row
    <3> QED BY <2>2, <3>2, <3>3
  <2> QED BY <2>1, <2>2
<1> HIDE DEF r, e
<1>6. S \in Seq(Row) /\ Ascending(S) /\ n \in Nat
      BY RecordedIs DEF LapInv
<1>7. PICK B, A, C : Under(S, L, T, B, A, C, now, clock, whole, stray)
      BY DEF LapInv, LapsLaid
<1>8. S2 = Insert(S, r)
      BY <1>1, RecordedGrows DEF LapInv
<1>9. /\ Step \in Nat \ {0} /\ Jitter \in 1..(Step - 1) /\ MinRun \in Nat
      /\ \A i \in 1..n : S[i].at + Step <= now /\ (i # n => S[i].at + Step + Jitter <= now)
      /\ \A i \in 1..n : i = n => S[i].at + Step = now
      BY <1>7, LapsConstantsOK DEF Under, Going
<1>10. \A i \in 1..n : S[i].at \in Int
  <2>1. \A i \in 1..n : S[i] \in Row
        BY <1>6
  <2> QED BY <2>1 DEF Row
<1>11. e.at \in Int /\ e.at = now - Step /\ e.lap = e.driven /\ e.at > 0 /\ r.at = e.at - Jitter
       BY <1>1, <1>3 DEF Row
<1>12. n # 0 /\ n \in 1..n /\ S[n] = e
  <2>1. e \in RowSet(S)
        BY <1>1, <1>3 DEF LapInv, LastRecorded
  <2>2. PICK i \in 1..n : e = S[i]
        BY <2>1 DEF RowSet
  <2>3. i = n
    <3> SUFFICES ASSUME i # n PROVE FALSE
        OBVIOUS
    <3>1. S[i].at + Step + Jitter <= now /\ S[i].at = now - Step
          BY <1>9, <1>11, <2>2
    <3> QED BY <1>2, <1>9, <1>10, <3>1
  <2> QED BY <1>6, <2>2, <2>3
<1>13. Inserted(S, n, r, S2) /\ RowSet(S2) = RowSet(S) \cup {r}
  <2>1. ASSUME NEW i \in 1..n, i < n PROVE S[i].at <= r.at
    <3>1. S[i].at + Step + Jitter <= now /\ S[i].at \in Int
          BY <1>6, <1>9, <1>10, <2>1
    <3> QED BY <1>2, <1>9, <1>11, <3>1
  <2>2. ASSUME NEW i \in 1..n, n <= i PROVE S[i].at > r.at
    <3>1. i = n /\ S[i].at = e.at
          BY <1>6, <1>12, <2>2
    <3> QED BY <1>9, <1>11, <3>1
  <2>3. n \in 1..(n + 1)
        BY <1>12
  <2>4. r \in Row
        BY <1>1
  <2>5. \A i \in 1..Len(S) : n <= i => S[i].at > r.at
        BY <2>2
  <2>6. \A i \in 1..Len(S) : i < n => S[i].at <= r.at
        BY <2>1
  <2> DEFINE k == n
  <2>7. k \in 1..(Len(S) + 1) /\ (\A i \in 1..Len(S) : k <= i => S[i].at > r.at)
        /\ (\A i \in 1..Len(S) : i < k => S[i].at <= r.at)
        BY <2>3, <2>5, <2>6
  <2> HIDE DEF S, k, S2
  <2>8. Inserted(S, k, r, Insert(S, r)) /\ RowSet(Insert(S, r)) = RowSet(S) \cup {r}
        BY <1>6, <2>4, <2>7, InsertedIs
  <2> QED BY <1>8, <2>8 DEF k
<1>14. LateOf(S[n], r, T)
  <2>1. r \in Row
        BY <1>1
  <2> HIDE DEF S, n, T
  <2> QED BY <1>5, <1>11, <1>12, <2>1 DEF LateOf
<1>15. r.driven \in LapNumbers /\ r.clock \in Int /\ T[r.driven] \in Int
  <2>1. r.driven \in LapNumbers /\ r \in Row
        BY <1>1
  <2>2. r.clock \in Int
        BY <2>1 DEF Row
  <2> QED BY <1>2, <2>1, <2>2
<1>16. LateTimes(L, T, r, T2)
  <2> DEFINE v == Max({times[run][r.driven], r.clock})
  <2>1. v = IF T[r.driven] > r.clock THEN T[r.driven] ELSE r.clock
        BY <1>15, MinMax
  <2>2. times' = [times EXCEPT ![run][r.driven] = v]
        BY <1>1
  <2> HIDE DEF v
  <2>3. T2 = [T EXCEPT ![r.driven] = v]
        BY <1>2, <2>2
  <2>4. T \in [LapNumbers -> Int] /\ \A d \in 0..L : d \in LapNumbers
        BY <1>2, LapsConstantsOK DEF LapNumbers
  <2> HIDE DEF T, T2
  <2>5. T2[r.driven] = v /\ \A d \in 0..L : d # r.driven => T2[d] = T[d]
        BY <1>15, <2>3, <2>4
  <2> QED BY <2>1, <2>5 DEF LateTimes
<1>17. whole' = IF r.driven # L THEN whole ELSE IF whole = MinRun THEN MinRun ELSE whole + 1
  <2>1. Min({MinRun, whole + 1}) = IF MinRun < whole + 1 THEN MinRun ELSE whole + 1
    <3>1. MinRun \in Int /\ whole + 1 \in Int
          BY <1>2, <1>9
    <3> QED BY <3>1, MinMax
  <2> QED BY <1>1, <1>2, <1>9, <2>1
<1> DEFINE ck == clock  nw == now  wh == whole  st == stray  wh2 == whole'
<1>18. /\ \E B2, A2, C2 : Under(S2, L, T2, B2, A2, C2, nw, ck, wh2, st)
       /\ r.driven \in 0..L
       /\ S2[Len(S2)] = S[Len(S)]
       /\ st > 0 /\ S[Len(S)].lap = L => r.lap = L
  <2>1. Under(S, L, T, B, A, C, nw, ck, wh, st)
        BY <1>7
  <2>2. Len(S) # 0 /\ S[Len(S)].lap = S[Len(S)].driven /\ S[Len(S)].at > 0
        BY <1>11, <1>12
  <2>3. LateOf(S[Len(S)], r, T) /\ Inserted(S, Len(S), r, S2)
        BY <1>13, <1>14
  <2>4. wh2 = IF r.driven # L THEN wh ELSE IF wh = MinRun THEN MinRun ELSE wh + 1
        BY <1>17
  <2> HIDE DEF S, S2, L, T, T2, n, ck, nw, wh, st, wh2
  <2> QED BY <1>16, <2>1, <2>2, <2>3, <2>4, UnderLate
<1>19. LapsLaid'
  <2>1. run' = run /\ now' = now /\ lap' = lap /\ clock' = clock /\ stray' = stray
        BY <1>1
  <2> QED BY <1>18, <2>1 DEF LapsLaid
<1>20. NotYet'
  <2> SUFFICES ASSUME NEW x \in Runs, NEW d \in LapNumbers, x > run \/ (x = run /\ d > lap)
               PROVE  times'[x][d] = 0
      BY <1>1 DEF NotYet
  <2>1. times[x][d] = 0
        BY DEF LapInv, NotYet
  <2>2. x # run \/ d # r.driven
        BY <1>2, <1>18 DEF Runs, LapNumbers
  <2>3. times' = [times EXCEPT ![run][r.driven] = Max({times[run][r.driven], r.clock})]
        BY <1>1
  <2> QED BY <1>2, <1>15, <2>1, <2>2, <2>3
<1>21. LastRecorded'
  <2>1. TopRow(rows') = r
        BY <1>1, <1>2 DEF TopRow
  <2>2. r \in RowSet(S2)
        BY <1>13
  <2>3. TopRow(S2) = TopRow(S)
        BY <1>18 DEF TopRow
  <2>4. stray' = stray /\ lap' = lap
        BY <1>1
  <2>5. stray > 0 /\ TopRow(S).lap = lap => r.lap = lap
        BY <1>18 DEF TopRow
  <2> QED BY <2>1, <2>2, <2>3, <2>4, <2>5 DEF LastRecorded
<1> QED BY <1>4, <1>19, <1>20, <1>21 DEF LapInv

LEMMA NextLapLaps == LapInv /\ NextLap => LapInv'
<1> SUFFICES ASSUME LapInv, NextLap PROVE LapInv'
    OBVIOUS
<1>1. /\ whole = MinRun /\ clock >= LapTime /\ lap < MaxLaps
      /\ lap' = lap + 1 /\ clock' = 0 /\ whole' = 0 /\ stray' = 0
      /\ rows' = rows /\ run' = run /\ now' = now /\ times' = times
      BY DEF NextLap
<1>2. FileInv'
      BY NextLapFile DEF LapInv
<1>3. run \in Runs /\ lap \in LapNumbers /\ lap \in Nat /\ lap + 1 \in LapNumbers /\ run \in Nat
      BY <1>1, LapsConstantsOK DEF LapInv, FileInv, LogTypes, LapNumbers, Runs
<1>4. Recorded' = Recorded
      BY <1>1 DEF Recorded, RowsOf
<1>5. LapsLaid'
  <2> DEFINE S == Recorded  T == times[run]
  <2>1. PICK B, A, C : Under(S, lap, T, B, A, C, now, clock, whole, stray)
        BY DEF LapInv, LapsLaid
  <2>2. T[lap + 1] = 0
    <3>1. lap + 1 > lap
          BY <1>3
    <3> QED BY <1>3, <3>1 DEF LapInv, NotYet
  <2> HIDE DEF S, T
  <2>3. \E B2, A2, C2 : Under(S, lap + 1, T, B2, A2, C2, now, 0, 0, 0)
        BY <1>1, <2>1, <2>2, UnderNext
  <2> QED BY <1>1, <1>4, <2>3 DEF LapsLaid, S, T
<1>6. NotYet'
  <2> SUFFICES ASSUME NEW x \in Runs, NEW d \in LapNumbers, x > run \/ (x = run /\ d > lap + 1)
               PROVE  times[x][d] = 0
      BY <1>1 DEF NotYet
  <2>1. x > run \/ (x = run /\ d > lap)
        BY <1>3 DEF LapNumbers
  <2> QED BY <2>1 DEF LapInv, NotYet
<1>7. LastRecorded'
      BY <1>1, <1>4 DEF LapInv, LastRecorded
<1> QED BY <1>2, <1>5, <1>6, <1>7 DEF LapInv

LEMMA RestartLaps == LapInv /\ Restart => LapInv'
<1> SUFFICES ASSUME LapInv, Restart PROVE LapInv'
    OBVIOUS
<1>1. /\ run < MaxRestarts /\ rows # <<>> /\ Last(rows).run = run
      /\ run' = run + 1 /\ now' = 0 /\ lap' = 0 /\ clock' = 0 /\ whole' = 0 /\ stray' = 0
      /\ rows' = rows /\ times' = times
      BY DEF Restart
<1>2. FileInv'
      BY RestartFile DEF LapInv
<1>3. run \in Nat /\ run + 1 \in Runs /\ 0 \in LapNumbers /\ MaxRestarts \in Nat
      BY <1>1, LapsConstantsOK DEF LapInv, FileInv, LogTypes, LapNumbers, Runs
<1>4. rows \in Seq(Row) /\ \A i \in 1..Len(rows) : rows[i].run <= run /\ rows[i].run \in Runs
      BY DEF LapInv, FileInv, LogTypes, Ordered
<1>5. Recorded' = <<>>
  <2> DEFINE is == RowsOf(run)'
  <2>1. \A i \in 1..Len(rows) : i \notin is
    <3> TAKE i \in 1..Len(rows)
    <3>1. rows[i].run # run + 1
      <4>1. rows[i].run <= run /\ rows[i].run \in Nat
            BY <1>4 DEF Runs
      <4> QED BY <1>3, <4>1
    <3> QED BY <1>1, <3>1 DEF RowsOf
  <2>2. Recorded' = Sorted(At(rows, is))
        BY <1>1 DEF Recorded
  <2> HIDE DEF is
  <2>3. At(rows, is) = <<>>
        BY <1>4, <2>1, AtNone
  <2> QED BY <2>2, <2>3, SortedEmpty
<1>6. LapsLaid'
  <2> DEFINE T == times[run + 1]
  <2>1. T[0] = 0
    <3>1. run + 1 > run
          BY <1>3
    <3> QED BY <1>3, <3>1 DEF LapInv, NotYet
  <2> HIDE DEF T
  <2>2. \E B2, A2, C2 : Under(<<>>, 0, T, B2, A2, C2, 0, 0, 0, 0)
        BY <2>1, UnderBegin
  <2> QED BY <1>1, <1>5, <2>2 DEF LapsLaid, T
<1>7. NotYet'
  <2> SUFFICES ASSUME NEW x \in Runs, NEW d \in LapNumbers, x > run + 1 \/ (x = run + 1 /\ d > 0)
               PROVE  times[x][d] = 0
      BY <1>1 DEF NotYet
  <2>1. x > run
        BY <1>3 DEF Runs
  <2> QED BY <2>1 DEF LapInv, NotYet
<1>8. LastRecorded'
  <2>1. TopRow(rows).run # run + 1
    <3>1. Len(rows) \in 1..Len(rows)
          BY <1>1, <1>4
    <3>2. rows[Len(rows)].run <= run /\ rows[Len(rows)].run \in Nat
          BY <1>4, <3>1 DEF Runs
    <3> QED BY <1>3, <3>2 DEF TopRow
  <2> QED BY <1>1, <1>5, <2>1 DEF LastRecorded
<1> QED BY <1>2, <1>6, <1>7, <1>8 DEF LapInv

LEMMA InitLapInv == RecordingInit => LapInv
<1> SUFFICES ASSUME RecordingInit PROVE LapInv
    OBVIOUS
<1>1. /\ rows = <<>> /\ run = 0 /\ now = 0 /\ lap = 0 /\ clock = 0 /\ whole = 0 /\ stray = 0
      /\ times = [r \in Runs |-> [n \in LapNumbers |-> 0]]
      BY DEF RecordingInit, LoggerInit
<1>2. FileInv
      BY InitFileInv
<1>3. \A r \in Runs, d \in LapNumbers : times[r][d] = 0
      BY <1>1
<1>4. 0 \in Runs /\ 0 \in LapNumbers
      BY LapsConstantsOK DEF Runs, LapNumbers
<1>5. Recorded = <<>>
      BY <1>1, AtEmpty, SortedEmpty DEF Recorded
<1>6. LapsLaid
  <2> DEFINE T == times[0]
  <2>1. T[0] = 0
        BY <1>3, <1>4
  <2> HIDE DEF T
  <2>2. \E B2, A2, C2 : Under(<<>>, 0, T, B2, A2, C2, 0, 0, 0, 0)
        BY <2>1, UnderBegin
  <2> QED BY <1>1, <1>5, <2>2 DEF LapsLaid, T
<1>7. NotYet /\ LastRecorded
      BY <1>1, <1>3, <1>5 DEF NotYet, LastRecorded
<1> QED BY <1>2, <1>6, <1>7 DEF LapInv

LEMMA NextLapInv == LapInv /\ [RecordingNext]_recording => LapInv'
<1> SUFFICES ASSUME LapInv, [RecordingNext]_recording PROVE LapInv'
    OBVIOUS
<1>1. CASE UNCHANGED logger
  <2>1. FileInv'
        BY NextFileInv DEF LapInv
  <2>2. /\ rows' = rows /\ run' = run /\ now' = now /\ lap' = lap /\ clock' = clock
        /\ whole' = whole /\ stray' = stray /\ times' = times
        BY <1>1 DEF logger
  <2>3. Recorded' = Recorded
        BY <2>2 DEF Recorded, RowsOf
  <2>4. LapsLaid' /\ NotYet' /\ LastRecorded'
        BY <2>2, <2>3 DEF LapInv, LapsLaid, NotYet, LastRecorded
  <2> QED BY <2>1, <2>4 DEF LapInv
<1>2. CASE LoggerNext
      BY <1>2, WriteLaps, WriteLateLaps, WriteStrayLaps, NextLapLaps, RestartLaps DEF LoggerNext
<1> QED BY <1>1, <1>2 DEF RecordingNext, recording

-----------------------------------------------------------------------------
\* A row of the next lap that lap_table counts to lap d comes early in it.
LEMMA SpillsEarly ==
    ASSUME NEW S, NEW L, NEW K, NEW B, NEW A, NEW C, Laid(S, L, K, B, A, C),
           NEW q, q = Starts(S, K, B, A, C), NEW d \in 0..K, d + 1 \in 0..L,
           NEW i \in B[d + 1]..(B[(d + 1) + 1] - 1), i < q[d + 1], ~IsStray(A, C, d + 1, i)
    PROVE  i - B[d + 1] <= 4 * MinRun - 6
<1> DEFINE M == MinRun  b == B[d + 1]  a == A[d + 1]  c == C[d + 1]  f == B[(d + 1) + 1]
<1>1. L \in Nat /\ K \in 0..L /\ K \in Nat
      BY DEF Laid
<1>2. /\ b \in Nat /\ a \in Nat /\ c \in Nat /\ f \in Nat
      /\ b <= a /\ a <= c /\ c <= f /\ c - a < M /\ M \in Nat \ {0, 1}
      BY MarksIs
<1>3. i \in b..(f - 1) /\ ~(a <= i /\ i < c)
      BY DEF IsStray
<1>4. CASE d = K
  <2>1. d + 1 = L /\ A[L] - B[L] < MinRun /\ B[L + 1] - C[L] < MinRun
        BY <1>1, <1>4 DEF Laid
  <2>2. a - b < M /\ f - c < M
        BY <2>1
  <2> HIDE DEF b, a, c, f, M
  <2>3. i - b <= 4 * M - 6
        BY <1>2, <1>3, <2>2
  <2> QED BY <2>3 DEF b, M
<1>5. CASE d # K
  <2>1. d + 1 \in 0..K
        BY <1>1, <1>5
  <2>2. /\ q[d + 1] = IF a - b >= M THEN b ELSE c
        BY <2>1, StartIs
  <2> DEFINE p == q[d + 1]
  <2>3. i < p /\ p = IF a - b >= M THEN b ELSE c
        BY <2>2
  <2> HIDE DEF b, a, c, f, M, p
  <2>4. i - b <= 4 * M - 6
        BY <1>2, <1>3, <2>3
  <2> QED BY <2>4 DEF b, M
<1> QED BY <1>4, <1>5

\* The time that lap_table gives a lap without stray rows.
LEMMA GroupTime ==
    ASSUME NEW S, NEW L, NEW K, NEW B, NEW A, NEW C, Laid(S, L, K, B, A, C),
           NEW T, Clocked(S, L, T, B, A, C),
           NEW q, q = Starts(S, K, B, A, C), NEW d \in 0..K, A[d] = C[d]
    PROVE  Max({S[x].clock : x \in q[d]..(q[d + 1] - 1)}) = T[d]
<1> DEFINE is == q[d]..(q[d + 1] - 1)  N == {S[x].clock : x \in is}
<1>1. L \in Nat /\ K \in 0..L /\ K \in Nat /\ d \in 0..L /\ d \in 0..(K + 1) /\ d + 1 \in 0..(K + 1) /\ Len(S) \in Nat
      BY DEF Laid
<1>2. T[d] \in Nat
      BY <1>1 DEF Clocked
<1>3. /\ B[d] \in Nat /\ A[d] \in Nat /\ C[d] \in Nat /\ B[d + 1] \in Nat
      /\ B[d] <= A[d] /\ A[d] = B[d + 1] /\ MinRun \in Nat \ {0, 1}
      BY <1>1, MarksIs
<1>4. /\ q \in [0..(K + 1) -> 1..(Len(S) + 1)]
      /\ B[d] <= q[d] /\ q[d] < B[d + 1] /\ B[d + 1] <= q[d + 1]
      BY StartsUp
<1>5. q[d] \in Nat /\ q[d + 1] \in Nat
      BY <1>1, <1>4
<1>6. q[d] = B[d]
  <2>1. /\ q[d] = IF A[d] - B[d] >= MinRun THEN B[d] ELSE C[d]
        /\ A[d] - B[d] < MinRun => A[d] < C[d]
        BY StartIs
  <2> QED BY <1>3, <2>1
<1>7. ASSUME NEW i \in is PROVE S[i].clock \in Nat /\ S[i].clock <= T[d]
  <2>1. CASE i < B[d + 1]
    <3>1. i \in B[d]..(B[d + 1] - 1)
          BY <1>3, <1>5, <1>6, <2>1
    <3>2. ~IsStray(A, C, d, i)
          BY <1>3, <3>1 DEF IsStray
    <3> QED BY <1>1, <3>1, <3>2, ClockedRow
  <2>2. CASE ~(i < B[d + 1])
    <3>1. d + 1 \in 0..L /\ i \in B[d + 1]..(B[(d + 1) + 1] - 1)
      <4>1. ~(i \in B[d]..(B[d + 1] - 1))
            BY <1>3, <2>2
      <4> QED BY <4>1, GroupRows
    <3>2. /\ S[i].clock \in Nat
          /\ IsStray(A, C, d + 1, i) => S[i].clock <= T[(d + 1) - 1]
          /\ ~IsStray(A, C, d + 1, i) => S[i].clock <= (i - B[d + 1]) * Step
          BY <3>1, ClockedRow
    <3>3. (d + 1) - 1 = d /\ d \in 0..(L - 1)
          BY <1>1, <3>1
    <3>4. CASE IsStray(A, C, d + 1, i)
          BY <3>2, <3>3, <3>4
    <3>5. CASE ~IsStray(A, C, d + 1, i)
      <4>1. i < q[d + 1]
            BY <1>5
      <4>2. i - B[d + 1] <= 4 * MinRun - 6
            BY <3>1, <3>5, <4>1, SpillsEarly
      <4>3. T[d] + Step >= LapTime
            BY <3>3 DEF Clocked
      <4> DEFINE x == i - B[d + 1]  y == 4 * MinRun - 6
      <4>4. x \in Int /\ y \in Int /\ y + 1 = 4 * MinRun - 5
            BY <1>3, <3>1
      <4>5. x <= y /\ S[i].clock <= x * Step
            BY <3>2, <3>5, <4>2
      <4> HIDE DEF x, y
      <4>6. Step \in Nat \ {0} /\ LapTime \in Nat /\ LapTime >= (y + 1) * Step
            BY <4>4, LapsConstantsOK
      <4>7. x * Step \in Int /\ y * Step \in Int /\ x * Step <= y * Step /\ (y + 1) * Step = y * Step + Step
            BY <4>4, <4>5, <4>6, Multiples
      <4> DEFINE u == x * Step  v == y * Step  w == (y + 1) * Step
      <4>8. /\ u \in Int /\ v \in Int /\ u <= v /\ w = v + Step /\ LapTime >= w /\ S[i].clock <= u
            /\ S[i].clock \in Nat /\ Step \in Nat /\ T[d] \in Nat /\ LapTime \in Nat
            BY <1>2, <3>2, <4>5, <4>6, <4>7
      <4> HIDE DEF u, v, w
      <4>9. S[i].clock <= T[d]
            BY ONLY <4>3, <4>8
      <4> QED BY <3>2, <4>9
    <3> QED BY <3>4, <3>5
  <2> QED BY <2>1, <2>2
<1>8. T[d] \in N
  <2>1. B[d] \in B[d]..(B[d + 1] - 1) /\ ~IsStray(A, C, d, B[d])
        BY <1>3, <1>4, <1>5, <1>6 DEF IsStray
  <2>2. PICK j \in B[d]..(B[d + 1] - 1) : S[j].clock = T[d]
        BY <1>1, <2>1, ClockedRow
  <2>3. j \in is
        BY <1>3, <1>4, <1>5, <1>6, <2>2
  <2> QED BY <2>2, <2>3
<1>9. N \subseteq Nat /\ \A x \in N : x <= T[d]
      BY <1>7
<1> HIDE DEF N, is
<1>10. Max(N) \in N /\ \A x \in N : x <= Max(N)
       BY <1>2, <1>8, <1>9, MaxOf
<1>11. Max(N) <= T[d] /\ T[d] <= Max(N) /\ Max(N) \in Nat
       BY <1>8, <1>9, <1>10
<1>12. Max(N) = T[d]
       BY <1>2, <1>11
<1> QED BY <1>12 DEF N, is

\* As many as there are numbers for them.
LEMMA CountedOff ==
    ASSUME NEW n \in Nat, NEW g, NEW h, \A d \in 0..n : h[g[d]] = d
    PROVE  Cardinality({g[d] : d \in 0..n}) = Cardinality(0..n)
<1> DEFINE X == {g[d] : d \in 0..n}  k == [d \in 0..n |-> g[d]]
<1>1. IsFiniteSet(0..n)
      BY FS_Interval
<1>2. k \in Surjection(0..n, X)
      BY DEF Surjection
<1>3. k \in Injection(0..n, X)
      BY DEF Injection, IsInjective
<1> HIDE DEF k, X
<1>4. Cardinality(X) = Cardinality(0..n)
      BY <1>1, <1>2, <1>3, FS_Surjection
<1> QED BY <1>4 DEF X

Clean(f, n) == \A i \in DOMAIN f : f[i].driven = n => f[i].lap = n

\* What lap_table makes of a session that is laid out so.
LEMMA TableTells ==
    ASSUME NEW f \in Seq(Row), NEW S, S = Sorted(f), NEW L, NEW K, NEW B, NEW A, NEW C, Laid(S, L, K, B, A, C),
           NEW T, Clocked(S, L, T, B, A, C)
    PROVE  /\ {e.lap_number : e \in LapTable(f)} = 0..K
           /\ Cardinality(LapTable(f)) = Cardinality(0..K)
           /\ \A e \in LapTable(f) : Clean(f, e.lap_number) => e.lap_time = T[e.lap_number]
<1> DEFINE q == Starts(S, K, B, A, C)
           g == [d \in 0..K |-> Entry(S, q[d], q[d + 1] - 1)]
           table == LapTable(f)
<1>1. K \in Nat /\ L \in Nat /\ K \in 0..L
      BY DEF Laid
<1>2. table = {Entry(S, q[d], q[d + 1] - 1) : d \in 0..K}
      BY TableIs
<1>3. \A d \in 0..K : Mode(S, q[d]..(q[d + 1] - 1)) = d
      BY GroupMode
<1>4. \A d \in 0..K : A[d] = C[d] => Max({S[x].clock : x \in q[d]..(q[d + 1] - 1)}) = T[d]
      BY GroupTime
<1>5. RowSet(S) = RowSet(f)
      BY RowsTimed, SortedRows
<1>6. ASSUME NEW d \in 0..K, Clean(f, d) PROVE A[d] = C[d]
  <2> SUFFICES ASSUME A[d] # C[d] PROVE FALSE
      OBVIOUS
  <2>1. d \in 0..L /\ d \in Int
        BY <1>1
  <2>2. /\ B[d] \in Nat /\ A[d] \in Nat /\ C[d] \in Nat /\ B[d + 1] \in Nat
        /\ B[d] <= A[d] /\ A[d] <= C[d] /\ C[d] <= B[d + 1]
        BY <2>1, MarksIs
  <2>3. A[d] \in B[d]..(B[d + 1] - 1) /\ A[d] <= A[d] /\ A[d] < C[d]
        BY <2>2
  <2>4. A[d] \in 1..Len(S) /\ S[A[d]].driven = d /\ S[A[d]].lap = d - 1
        BY <2>1, <2>3, RowIs
  <2>5. S[A[d]] \in RowSet(f)
        BY <1>5, <2>4 DEF RowSet
  <2>6. PICK i \in 1..Len(f) : f[i] = S[A[d]]
        BY <2>5 DEF RowSet
  <2>7. i \in DOMAIN f
        OBVIOUS
  <2>8. f[i].lap = d
        BY <1>6, <2>4, <2>6, <2>7 DEF Clean
  <2> QED BY <2>1, <2>4, <2>6, <2>8
<1> HIDE DEF q, table
<1>7. \A d \in 0..K : g[d].lap_number = d /\ (A[d] = C[d] => g[d].lap_time = T[d])
      BY <1>3, <1>4 DEF Entry
<1>8. table = {g[d] : d \in 0..K}
      BY <1>2
<1> HIDE DEF g
<1>9. {e.lap_number : e \in table} = 0..K
      BY <1>7, <1>8
<1>10. Cardinality(table) = Cardinality(0..K)
  <2> DEFINE h == [e \in table |-> e.lap_number]
  <2>1. \A d \in 0..K : h[g[d]] = d
        BY <1>7, <1>8
  <2> HIDE DEF h
  <2> QED BY <1>1, <1>8, <2>1, CountedOff
<1>11. \A e \in table : Clean(f, e.lap_number) => e.lap_time = T[e.lap_number]
  <2> TAKE e \in table
  <2>1. PICK d \in 0..K : e = g[d]
        BY <1>8
  <2> QED BY <1>6, <1>7, <2>1
<1> QED BY <1>9, <1>10, <1>11 DEF table

LEMMA LapInvFinds == LapInv => LapsRecovered
<1> SUFFICES ASSUME LapInv PROVE LapsRecovered
    OBVIOUS
<1> DEFINE f == At(rows, RowsOf(run))  T == times[run]  K == IF whole = MinRun THEN lap ELSE lap - 1
<1>1. FileInv /\ LapsLaid
      BY DEF LapInv
<1>2. lap \in Nat
      BY <1>1, LapsConstantsOK DEF FileInv, LogTypes, LapNumbers
<1>3. f \in Seq(Row) /\ Recorded = Sorted(f)
      BY <1>1, RecordedIs DEF Recorded
<1>4. PICK B, A, C : Under(Recorded, lap, T, B, A, C, now, clock, whole, stray)
      BY <1>1 DEF LapsLaid
<1> HIDE DEF f, T
<1> DEFINE S == Recorded
<1>5. ASSUME 0..K # {} PROVE Laid(S, lap, K, B, A, C) /\ Clocked(S, lap, T, B, A, C)
  <2>1. S \in Seq(Row) /\ Shape(S, lap, B, A, C) /\ Clocked(S, lap, T, B, A, C) /\ Counted(lap, B, A, C, whole, stray)
        BY <1>4 DEF Under
  <2>2. K \in 0..lap
        BY <1>2, <1>5
  <2>3. \A d \in 0..(lap - 1) : Solid(d, B, A, C)
        BY <2>1 DEF Shape
  <2>4. whole = MinRun => Solid(lap, B, A, C)
        BY <2>1 DEF Counted
  <2>5. whole # MinRun => A[lap] - B[lap] < MinRun /\ B[lap + 1] - C[lap] < MinRun
        BY <2>1 DEF Counted
  <2>6. \A d \in 0..K : Solid(d, B, A, C)
    <3> TAKE d \in 0..K
    <3>1. d \in 0..(lap - 1) \/ (d = lap /\ whole = MinRun)
          BY <1>2
    <3> QED BY <2>3, <2>4, <3>1
  <2>7. K < lap => K = lap - 1 /\ whole # MinRun
        BY <1>2
  <2> HIDE DEF K, S
  <2> QED BY <1>2, <2>1, <2>2, <2>5, <2>6, <2>7 DEF Laid
<1> DEFINE table == LapTable(f)
<1>6. ASSUME 0..K # {}
      PROVE /\ {e.lap_number : e \in table} = 0..K
            /\ Cardinality(table) = Cardinality(0..K)
            /\ \A e \in table : Clean(f, e.lap_number) => e.lap_time = T[e.lap_number]
  <2> HIDE DEF K, S
  <2> QED BY <1>3, <1>5, <1>6, TableTells DEF S
<1> QED BY <1>6 DEF LapsRecovered, Clean, f, T

\* lap_table finds the laps driven and their times, after every row.
THEOREM LapsAreFound == RecordingSpec => []LapsRecovered
<1> QED BY InitLapInv, NextLapInv, LapInvFinds, PTL DEF RecordingSpec, recording

-----------------------------------------------------------------------------
\* Rows whose number never goes back: those of one number are one run.
Rising(S) ==
    /\ Len(S) \in Nat /\ DOMAIN S = 1..Len(S)
    /\ \A i \in 1..Len(S) : S[i].lap \in Int
    /\ \A i, j \in 1..Len(S) : i <= j => S[i].lap <= S[j].lap
OfNumber(S, l) == {i \in DOMAIN S : S[i].lap = l}
Number(S, i) == Resolved(S, Real(S), i)

\* What is in order already is left as it is.
LEMMA SortedSame ==
    ASSUME NEW T, Timed(T), NEW f \in Seq(T), Ascending(f)
    PROVE  Sorted(f) = f
<1> DEFINE n == Len(f)
<1>1. PICK u : SortSteps(T, f, u)
      BY SortedUpto
<1>2. n \in Nat /\ \A i \in 1..n : f[i] \in T /\ f[i].at \in Int
      BY DEF Timed
<1>3. /\ \A i \in 0..n : u[i] \in Seq(T) /\ Ascending(u[i]) /\ Len(u[i]) = i
      /\ \A i \in 1..n : u[i] = Insert(u[i - 1], f[i])
      /\ Sorted(f) = u[n]
      BY <1>1 DEF SortSteps
<1> DEFINE P == {m \in 0..n : \A i \in 1..m : u[m][i] = f[i]}
<1>4. 0 \in P
      BY <1>2
<1>5. ASSUME NEW m \in 0..(n - 1), m \in P PROVE m + 1 \in P
  <2> DEFINE s == u[m]  e == f[m + 1]
  <2>1. m + 1 \in 1..n /\ (m + 1) - 1 = m /\ m + 1 \in 0..n /\ m \in 0..n
        BY <1>2
  <2>2. s \in Seq(T) /\ Ascending(s) /\ Len(s) = m /\ e \in T /\ e.at \in Int
        BY <1>2, <1>3, <2>1
  <2>3. u[m + 1] = Insert(s, e)
        BY <1>3, <2>1
  <2>4. \A i \in 1..m : s[i] = f[i]
        BY <1>5
  <2>5. \A i \in 1..m : s[i].at <= e.at /\ s[i].at \in Int
    <3> TAKE i \in 1..m
    <3>1. i \in 1..n /\ i <= m + 1
          BY <2>1
    <3>2. f[i].at <= f[m + 1].at /\ f[i].at \in Int
          BY <1>2, <2>1, <3>1 DEF Ascending
    <3> QED BY <2>4, <3>2
  <2> HIDE DEF s, e
  <2>6. PICK k \in 1..(Len(s) + 1) :
              Insert(s, e) = InsertAt(s, k, e) /\ \A i \in k..Len(s) : s[i].at > e.at
        BY <2>2, InsertIs
  <2>7. k = m + 1
    <3> SUFFICES ASSUME k # m + 1 PROVE FALSE
        OBVIOUS
    <3>1. k \in 1..m /\ k \in k..Len(s)
          BY <2>2
    <3>2. s[k].at > e.at /\ s[k].at <= e.at /\ s[k].at \in Int
          BY <2>5, <2>6, <3>1
    <3> QED BY <2>2, <3>2
  <2>8. /\ InsertAt(s, k, e) \in Seq(T)
        /\ Len(InsertAt(s, k, e)) = Len(s) + 1
        /\ \A i \in 1..(Len(s) + 1) :
              InsertAt(s, k, e)[i] = IF i < k THEN s[i] ELSE IF i = k THEN e ELSE s[i - 1]
    <3>1. s \in Seq(T) /\ e \in T /\ k \in 1..(Len(s) + 1)
          BY <2>2, <2>6
    <3> QED BY <3>1, InsertAtIs
  <2>9. \A i \in 1..(m + 1) : u[m + 1][i] = f[i]
    <3> TAKE i \in 1..(m + 1)
    <3>1. u[m + 1][i] = IF i < k THEN s[i] ELSE IF i = k THEN e ELSE s[i - 1]
          BY <2>2, <2>3, <2>6, <2>8
    <3>2. CASE i < k
          BY <2>1, <2>4, <2>7, <3>1, <3>2
    <3>3. CASE i = k
          BY <2>7, <3>1, <3>3 DEF e
    <3> QED BY <2>7, <3>2, <3>3
  <2> QED BY <2>1, <2>9
<1> HIDE DEF P
<1>6. 0..n \subseteq P
      BY <1>2, <1>4, <1>5, Induct
<1>7. n \in 0..n
      BY <1>2
<1>8. u[n] \in Seq(T) /\ Len(u[n]) = n /\ \A i \in 1..n : u[n][i] = f[i]
      BY <1>3, <1>6, <1>7 DEF P
<1> DEFINE v == u[n]
<1>9. v \in Seq(T) /\ Len(v) = Len(f) /\ \A i \in 1..Len(f) : v[i] = f[i]
      BY <1>8
<1> HIDE DEF v
<1>10. v = f
       BY <1>9
<1> QED BY <1>3, <1>10 DEF v

\* A run begins at the first row of its number, and so does every number.
LEMMA RunOfNumber ==
    ASSUME NEW S, Rising(S)
    PROVE  /\ RunStarts(S) \subseteq 1..Len(S)
           /\ \A p \in RunStarts(S), i \in 1..Len(S) : S[i].lap = S[p].lap => p <= i
           /\ \A p \in RunStarts(S), i \in 1..Len(S) : p <= i => S[p].lap <= S[i].lap
           /\ \A i \in 1..Len(S) : \E p \in RunStarts(S) : p <= i /\ S[p].lap = S[i].lap
<1> DEFINE n == Len(S)
<1>1. n \in Nat /\ RunStarts(S) \subseteq 1..n /\ \A i \in 1..n : S[i].lap \in Int
      BY DEF Rising, RunStarts
<1>2. ASSUME NEW p \in RunStarts(S), NEW i \in 1..n, S[i].lap = S[p].lap PROVE p <= i
  <2> SUFFICES ASSUME i < p PROVE FALSE
      BY <1>1
  <2>1. p \in 1..n /\ p # 1 /\ p - 1 \in 1..n /\ i <= p - 1 /\ p - 1 <= p
        BY <1>1
  <2>2. S[p].lap # S[p - 1].lap
        BY <2>1 DEF RunStarts
  <2>3. S[i].lap <= S[p - 1].lap /\ S[p - 1].lap <= S[p].lap
        BY <2>1 DEF Rising
  <2>4. S[i].lap \in Int /\ S[p - 1].lap \in Int /\ S[p].lap \in Int
        BY <1>1, <2>1
  <2> QED BY <1>2, <2>2, <2>3, <2>4
<1>3. ASSUME NEW i \in 1..n PROVE \E p \in RunStarts(S) : p <= i /\ S[p].lap = S[i].lap
  <2> DEFINE N == {j \in 1..n : S[j].lap = S[i].lap}
  <2>1. N \subseteq Nat /\ i \in N
        OBVIOUS
  <2>2. PICK p \in N : \A j \in N : p <= j
        BY <2>1, Least
  <2>3. p \in 1..n /\ S[p].lap = S[i].lap /\ p <= i
        BY <2>1, <2>2
  <2>4. p = 1 \/ S[p].lap # S[p - 1].lap
    <3> SUFFICES ASSUME p # 1, S[p].lap = S[p - 1].lap PROVE FALSE
        OBVIOUS
    <3>0. p - 1 \in 1..n
          BY <1>1, <2>3
    <3>1. p - 1 \in N
          BY <2>3, <3>0
    <3>2. p <= p - 1 /\ p \in Nat
          BY <2>2, <2>3, <3>1
    <3> QED BY <3>2
  <2>5. p \in RunStarts(S)
        BY <2>3, <2>4 DEF RunStarts, Rising
  <2> QED BY <2>3, <2>5
<1>4. \A p \in RunStarts(S), i \in 1..n : p <= i => S[p].lap <= S[i].lap
      BY <1>1 DEF Rising
<1> QED BY <1>1, <1>2, <1>3, <1>4

\* It is as long as there are rows of its number.
LEMMA RunSizeIs ==
    ASSUME NEW S, Rising(S), NEW p \in RunStarts(S)
    PROVE  RunSize(S, p) = Cardinality(OfNumber(S, S[p].lap))
<1> DEFINE n == Len(S)  later == {j \in RunStarts(S) : j > p} \cup {n + 1}  m == Min(later)
<1>1. n \in Nat /\ DOMAIN S = 1..n /\ p \in 1..n /\ RunStarts(S) \subseteq 1..n /\ \A i \in 1..n : S[i].lap \in Int
      BY RunOfNumber DEF Rising
<1>2. later \subseteq Nat /\ n + 1 \in later
      BY <1>1
<1>3. RunSize(S, p) = m - p
      BY DEF RunSize
<1> HIDE DEF later
<1>4. m \in later /\ \A j \in later : m <= j
      BY <1>2, MinOf
<1>5. m \in Nat /\ m <= n + 1 /\ (m = n + 1 \/ m \in RunStarts(S)) /\ m > p
  <2>1. m \in Nat /\ m <= n + 1
        BY <1>2, <1>4
  <2>2. m = n + 1 \/ (m \in RunStarts(S) /\ m > p)
        BY <1>4 DEF later
  <2> QED BY <1>1, <2>1, <2>2
<1>6. \A j \in RunStarts(S) : j > p => m <= j
      BY <1>4 DEF later
<1> HIDE DEF m
<1>7. ASSUME NEW i \in 1..n, S[i].lap = S[p].lap PROVE i \in Upto(p, m)
  <2>1. p <= i
        BY <1>7, RunOfNumber
  <2>2. i < m
    <3> SUFFICES ASSUME m <= i PROVE FALSE
        BY <1>5
    <3>1. m \in RunStarts(S) /\ m \in 1..n
          BY <1>1, <1>5
    <3>2. S[p].lap <= S[m].lap /\ S[m].lap <= S[i].lap
          BY <1>1, <1>5, <3>1, RunOfNumber
    <3>3. S[m].lap = S[p].lap
          BY <1>1, <1>7, <3>1, <3>2
    <3>4. m <= p
          BY <1>1, <3>1, <3>3, RunOfNumber
    <3> QED BY <1>1, <1>5, <3>4
  <2> QED BY <1>1, <1>5, <2>1, <2>2 DEF Upto
<1>8. ASSUME NEW i \in Upto(p, m) PROVE i \in 1..n /\ S[i].lap = S[p].lap
  <2>1. i \in 1..n /\ p <= i /\ i < m
        BY <1>1, <1>5 DEF Upto
  <2>2. PICK j \in RunStarts(S) : j <= i /\ S[j].lap = S[i].lap
        BY <2>1, RunOfNumber
  <2>3. j \in 1..n /\ j <= p
        BY <1>1, <1>5, <1>6, <2>1, <2>2
  <2>4. S[j].lap <= S[p].lap /\ S[p].lap <= S[i].lap
        BY <1>1, <2>1, <2>3, RunOfNumber
  <2> QED BY <1>1, <2>1, <2>2, <2>3, <2>4
<1>9. OfNumber(S, S[p].lap) = Upto(p, m)
      BY <1>1, <1>7, <1>8 DEF OfNumber
<1>10. Cardinality(Upto(p, m)) = m - p
       BY <1>1, <1>5, Span
<1> QED BY <1>3, <1>9, <1>10

LEMMA RealIs ==
    ASSUME NEW S, Rising(S)
    PROVE  Real(S) = {p \in RunStarts(S) : Cardinality(OfNumber(S, S[p].lap)) >= MinRun}
BY RunSizeIs DEF Real

\* The last real run up to a run, or the first.
LEMMA NumberIs ==
    ASSUME NEW S, Rising(S), NEW i \in RunStarts(S)
    PROVE  /\ Real(S) = {} => Number(S, i) = S[i].lap
           /\ i \in Real(S) => Number(S, i) = S[i].lap
           /\ Real(S) # {} => \E p \in Real(S) :
                 /\ Number(S, i) = S[p].lap
                 /\ \/ p <= i /\ \A j \in Real(S) : j <= i => j <= p
                    \/ i < p /\ \A j \in Real(S) : p <= j
<1> DEFINE n == Len(S)  before == {j \in Real(S) : j <= i}
<1>1. i \in 1..n /\ Real(S) \subseteq 1..n /\ n \in Nat
      BY RunOfNumber, RealIs DEF Rising
<1>2. Number(S, i) = IF before # {} THEN S[Max(before)].lap
                     ELSE IF Real(S) # {} THEN S[Min(Real(S))].lap ELSE S[i].lap
      BY DEF Number, Resolved
<1>3. CASE before # {}
  <2>1. before \subseteq Nat /\ i \in Nat /\ \A j \in before : j <= i
        BY <1>1
  <2> HIDE DEF before
  <2>2. Max(before) \in before /\ \A j \in before : j <= Max(before)
        BY <1>3, <2>1, MaxOf
  <2> DEFINE p == Max(before)
  <2>3. p \in Real(S) /\ p <= i /\ Number(S, i) = S[p].lap /\ \A j \in Real(S) : j <= i => j <= p
        BY <1>2, <1>3, <2>2 DEF before
  <2> HIDE DEF p
  <2>4. i \in Real(S) => p = i
    <3> SUFFICES ASSUME i \in Real(S) PROVE p = i
        OBVIOUS
    <3>1. i <= i
          BY <1>1
    <3>2. i <= p /\ p \in 1..n
          BY <1>1, <2>3, <3>1
    <3> QED BY <1>1, <2>3, <3>2
  <2> QED BY <2>3, <2>4
<1>4. CASE before = {}
  <2>1. i \notin Real(S)
        BY <1>1, <1>4
  <2>2. CASE Real(S) = {}
        BY <1>2, <1>4, <2>1, <2>2
  <2>3. CASE Real(S) # {}
    <3>1. Min(Real(S)) \in Real(S) /\ \A j \in Real(S) : Min(Real(S)) <= j
      <4>1. Real(S) \subseteq Nat
            BY <1>1
      <4> QED BY <2>3, <4>1, MinOf
    <3> DEFINE p == Min(Real(S))
    <3>2. p \in Real(S) /\ Number(S, i) = S[p].lap /\ \A j \in Real(S) : p <= j
          BY <1>2, <1>4, <2>3, <3>1
    <3> HIDE DEF p
    <3>3. i < p
          BY <1>1, <1>4, <3>2
    <3> QED BY <2>1, <2>3, <3>2, <3>3
  <2> QED BY <2>2, <2>3
<1> QED BY <1>3, <1>4

LEMMA NumbersRise ==
    ASSUME NEW S, Rising(S), NEW i \in RunStarts(S), NEW k \in RunStarts(S), i <= k
    PROVE  Number(S, i) \in Int /\ Number(S, k) \in Int /\ Number(S, i) <= Number(S, k)
<1>1. i \in 1..Len(S) /\ k \in 1..Len(S) /\ Real(S) \subseteq 1..Len(S) /\ Len(S) \in Nat
      BY RunOfNumber, RealIs DEF Rising
<1>2. \A a, b \in 1..Len(S) : a <= b => S[a].lap <= S[b].lap /\ S[a].lap \in Int /\ S[b].lap \in Int
      BY DEF Rising
<1>3. CASE Real(S) = {}
  <2>1. Number(S, i) = S[i].lap /\ Number(S, k) = S[k].lap
        BY <1>3, NumberIs
  <2> QED BY <1>1, <1>2, <2>1
<1>4. CASE Real(S) # {}
  <2>1. PICK p \in Real(S) :
            /\ Number(S, i) = S[p].lap
            /\ \/ p <= i /\ \A j \in Real(S) : j <= i => j <= p
               \/ i < p /\ \A j \in Real(S) : p <= j
        BY <1>4, NumberIs
  <2>2. PICK r \in Real(S) :
            /\ Number(S, k) = S[r].lap
            /\ \/ r <= k /\ \A j \in Real(S) : j <= k => j <= r
               \/ k < r /\ \A j \in Real(S) : r <= j
        BY <1>4, NumberIs
  <2>3. p \in 1..Len(S) /\ r \in 1..Len(S) /\ p <= r
    <3>1. p \in Nat /\ r \in Nat /\ i \in Nat /\ k \in Nat /\ p \in 1..Len(S) /\ r \in 1..Len(S)
          BY <1>1
    <3>2. CASE p <= i
      <4>1. p <= k
            BY <3>1, <3>2
      <4> QED BY <2>2, <3>1, <4>1
    <3>3. CASE i < p
          BY <2>1, <3>1, <3>3
    <3> QED BY <3>1, <3>2, <3>3
  <2> QED BY <1>2, <2>1, <2>2, <2>3
<1> QED BY <1>3, <1>4

\* The runs of a lap of lap_table's go by one number.
LEMMA RunBefore ==
    ASSUME NEW S, Rising(S), NEW i \in RunStarts(S), i # 1
    PROVE  Before(S, i) \in RunStarts(S) /\ Before(S, i) < i /\ \A j \in RunStarts(S) : j < i => j <= Before(S, i)
<1> DEFINE N == {j \in RunStarts(S) : j < i}
<1>1. RunStarts(S) \subseteq 1..Len(S) /\ i \in 1..Len(S) /\ Len(S) \in Nat
      BY RunOfNumber DEF Rising
<1>2. 1 \in 1..Len(S) /\ 1 < i
      BY <1>1
<1>3. PICK p \in RunStarts(S) : p <= 1
      BY <1>2, RunOfNumber
<1>4. p \in N
      BY <1>1, <1>2, <1>3
<1>5. N \subseteq Nat /\ N # {} /\ i \in Nat /\ \A j \in N : j <= i
      BY <1>1, <1>4
<1> HIDE DEF N
<1>6. Max(N) \in N /\ \A j \in N : j <= Max(N)
      BY <1>5, MaxOf
<1> QED BY <1>6 DEF N, Before

LEMMA LastOfIs ==
    ASSUME NEW S, Rising(S), NEW i \in Firsts(S)
    PROVE  /\ i \in RunStarts(S) /\ i \in 1..Len(S) /\ LastOf(S, i) \in i..Len(S)
           /\ \A j \in Firsts(S) : j > i => j > LastOf(S, i)
           /\ LastOf(S, i) = Len(S) \/ LastOf(S, i) + 1 \in Firsts(S)
<1> DEFINE n == Len(S)  later == {j \in Firsts(S) : j > i} \cup {n + 1}  m == Min(later)
<1>1. n \in Nat /\ Firsts(S) \subseteq 1..n /\ i \in RunStarts(S)
      BY RunOfNumber DEF Rising, Firsts
<1>2. later \subseteq Nat /\ n + 1 \in later
      BY <1>1
<1>3. LastOf(S, i) = m - 1
      BY DEF LastOf
<1> HIDE DEF later
<1>4. m \in later /\ \A j \in later : m <= j
      BY <1>2, MinOf
<1>5. m \in Nat /\ m <= n + 1
      BY <1>2, <1>4
<1>6. m = n + 1 \/ (m \in Firsts(S) /\ m > i)
      BY <1>4 DEF later
<1>7. \A j \in Firsts(S) : j > i => m <= j
      BY <1>4 DEF later
<1> HIDE DEF m
<1> QED BY <1>1, <1>3, <1>5, <1>6, <1>7

LEMMA GroupRuns ==
    ASSUME NEW S, Rising(S), NEW i \in Firsts(S), NEW j \in RunStarts(S), j \in i..LastOf(S, i)
    PROVE  Number(S, j) = Number(S, i)
<1> SUFFICES ASSUME Number(S, j) # Number(S, i) PROVE FALSE
    OBVIOUS
<1> DEFINE N == {r \in RunStarts(S) : r \in i..LastOf(S, i) /\ Number(S, r) # Number(S, i)}
<1>1. /\ i \in RunStarts(S) /\ i \in 1..Len(S) /\ LastOf(S, i) \in i..Len(S) /\ Len(S) \in Nat
      /\ RunStarts(S) \subseteq 1..Len(S)
      /\ \A r \in Firsts(S) : r > i => r > LastOf(S, i)
      BY LastOfIs, RunOfNumber DEF Rising
<1>2. N \subseteq Nat /\ j \in N
      BY <1>1
<1>3. PICK r \in N : \A x \in N : r <= x
      BY <1>2, Least
<1>4. r \in RunStarts(S) /\ r \in i..LastOf(S, i) /\ Number(S, r) # Number(S, i) /\ r > i /\ r # 1
      BY <1>1, <1>3
<1> DEFINE b == Before(S, r)
<1>5. b \in RunStarts(S) /\ b < r /\ i <= b
      BY <1>1, <1>4, RunBefore
<1> HIDE DEF b
<1>6. Number(S, b) = Number(S, i)
  <2> SUFFICES ASSUME Number(S, b) # Number(S, i) PROVE FALSE
      OBVIOUS
  <2>1. b \in i..LastOf(S, i)
        BY <1>1, <1>4, <1>5
  <2>2. b \in N /\ b \in Nat /\ r \in Nat
        BY <1>1, <1>5, <1>4, <2>1
  <2>3. r <= b
        BY <1>3, <2>2
  <2> QED BY <1>5, <2>2, <2>3
<1>7. r \in Firsts(S)
      BY <1>4, <1>6 DEF Firsts, b, Number
<1> QED BY <1>1, <1>4, <1>7

LEMMA GroupRow ==
    ASSUME NEW S, Rising(S), NEW i \in Firsts(S), NEW x \in i..LastOf(S, i)
    PROVE  \E j \in RunStarts(S) :
              j \in i..x /\ j \in i..LastOf(S, i) /\ S[j].lap = S[x].lap /\ Number(S, j) = Number(S, i)
<1>1. /\ i \in RunStarts(S) /\ i \in 1..Len(S) /\ LastOf(S, i) \in i..Len(S) /\ Len(S) \in Nat
      BY LastOfIs DEF Rising
<1>2. x \in 1..Len(S) /\ i <= x
      BY <1>1
<1>3. PICK j \in RunStarts(S) : j <= x /\ S[j].lap = S[x].lap
      BY <1>2, RunOfNumber
<1>4. j \in 1..Len(S)
      BY RunOfNumber
<1>5. i <= j
  <2> SUFFICES ASSUME j < i PROVE FALSE
      BY <1>1, <1>4
  <2>1. j <= i
        BY <1>1, <1>4
  <2>2. S[j].lap <= S[i].lap /\ S[i].lap <= S[x].lap
        BY <1>1, <1>2, <2>1, RunOfNumber
  <2>3. S[i].lap \in Int /\ S[j].lap \in Int
        BY <1>1, <1>4 DEF Rising
  <2>4. S[j].lap = S[i].lap
        BY <1>3, <2>2, <2>3
  <2>5. i <= j
        BY <1>1, <1>4, <2>4, RunOfNumber
  <2> QED BY <1>1, <1>4, <2>5
<1>6. j \in i..x /\ j \in i..LastOf(S, i)
      BY <1>1, <1>2, <1>3, <1>4, <1>5
<1>7. Number(S, j) = Number(S, i)
      BY <1>6, GroupRuns
<1> QED BY <1>3, <1>6, <1>7

\* If any run is real, one of the lap's is, and has its number.
LEMMA GroupReal ==
    ASSUME NEW S, Rising(S), NEW i \in Firsts(S), Real(S) # {}
    PROVE  \E p \in Real(S) : p \in i..LastOf(S, i) /\ S[p].lap = Number(S, i)
<1>1. /\ i \in RunStarts(S) /\ i \in 1..Len(S) /\ LastOf(S, i) \in i..Len(S) /\ Len(S) \in Nat
      /\ RunStarts(S) \subseteq 1..Len(S) /\ Real(S) \subseteq RunStarts(S)
      /\ LastOf(S, i) = Len(S) \/ LastOf(S, i) + 1 \in Firsts(S)
      BY LastOfIs, RunOfNumber, RealIs DEF Rising
<1>2. PICK p \in Real(S) :
          /\ Number(S, i) = S[p].lap
          /\ \/ p <= i /\ \A j \in Real(S) : j <= i => j <= p
             \/ i < p /\ \A j \in Real(S) : p <= j
      BY <1>1, NumberIs
<1>3. p \in RunStarts(S) /\ p \in 1..Len(S) /\ Number(S, p) = S[p].lap
      BY <1>1, NumberIs
<1>4. CASE p <= i /\ \A j \in Real(S) : j <= i => j <= p
  <2>1. CASE p = i
        BY <1>1, <1>2, <2>1
  <2>2. CASE p # i
    <3> DEFINE b == Before(S, i)
    <3>1. i # 1 /\ p < i
          BY <1>1, <1>3, <1>4, <2>2
    <3>2. b \in RunStarts(S) /\ b < i /\ p <= b
          BY <1>1, <1>3, <3>1, RunBefore
    <3> HIDE DEF b
    <3>3. Number(S, p) <= Number(S, b) /\ Number(S, b) <= Number(S, i)
          /\ Number(S, p) \in Int /\ Number(S, b) \in Int /\ Number(S, i) \in Int
      <4>1. b <= i
            BY <1>1, <3>2
      <4> QED BY <1>1, <1>3, <3>2, <4>1, NumbersRise
    <3>4. Number(S, b) = Number(S, i)
          BY <1>2, <1>3, <3>3
    <3> QED BY <3>1, <3>4 DEF Firsts, b, Number
  <2> QED BY <2>1, <2>2
<1>5. CASE i < p
  <2> DEFINE m == LastOf(S, i) + 1
  <2>1. p <= LastOf(S, i)
    <3> SUFFICES ASSUME LastOf(S, i) < p PROVE FALSE
        BY <1>1, <1>3
    <3>1. m \in Firsts(S) /\ m \in RunStarts(S) /\ m <= p /\ i < m /\ m # 1
      <4>1. m \in Firsts(S) /\ m <= p /\ i < m /\ m # 1
            BY <1>1, <1>3
      <4> QED BY <4>1 DEF Firsts
    <3> HIDE DEF m
    <3> DEFINE b == Before(S, m)
    <3>2. b \in RunStarts(S) /\ b < m /\ i <= b
          BY <1>1, <3>1, RunBefore
    <3> HIDE DEF b
    <3>3. /\ Number(S, i) <= Number(S, b) /\ Number(S, b) <= Number(S, m) /\ Number(S, m) <= Number(S, p)
          /\ Number(S, i) \in Int /\ Number(S, b) \in Int /\ Number(S, m) \in Int /\ Number(S, p) \in Int
      <4>1. b <= m
            BY <1>1, <3>1, <3>2
      <4> QED BY <1>1, <1>3, <3>1, <3>2, <4>1, NumbersRise
    <3>4. Number(S, b) = Number(S, m)
          BY <1>2, <1>3, <3>3
    <3> QED BY <3>1, <3>4 DEF Firsts, b, Number
  <2> QED BY <1>1, <1>2, <1>3, <1>5, <2>1
<1> QED BY <1>2, <1>4, <1>5

\* The number it is shown by is the one its runs go by.
LEMMA GroupShows ==
    ASSUME NEW S, Rising(S), NEW i \in Firsts(S), MinRun \in Nat \ {0}
    PROVE  Mode(S, i..LastOf(S, i)) = Number(S, i)
<1> DEFINE is == i..LastOf(S, i)  d == Number(S, i)
           count(k) == Cardinality({x \in is : S[x].lap = k})
           numbers == {S[x].lap : x \in is}
           most == {k \in numbers : \A l \in numbers : count(l) <= count(k)}
<1>1. /\ i \in RunStarts(S) /\ i \in 1..Len(S) /\ LastOf(S, i) \in i..Len(S) /\ Len(S) \in Nat
      /\ DOMAIN S = 1..Len(S)
      /\ \A j \in Firsts(S) : j > i => j > LastOf(S, i)
      /\ LastOf(S, i) = Len(S) \/ LastOf(S, i) + 1 \in Firsts(S)
      BY LastOfIs DEF Rising
<1>2. d \in Int
      BY <1>1, NumbersRise
<1>3. is \subseteq DOMAIN S /\ IsFiniteSet(DOMAIN S)
  <2>1. 1 \in Int /\ Len(S) \in Int
        BY <1>1
  <2>2. IsFiniteSet(1..Len(S))
        BY <2>1, FS_Interval
  <2> QED BY <1>1, <2>2
<1>4. \A k : IsFiniteSet(OfNumber(S, k)) /\ {x \in is : S[x].lap = k} \subseteq OfNumber(S, k)
  <2> TAKE k
  <2>1. OfNumber(S, k) \subseteq DOMAIN S
        BY DEF OfNumber
  <2> QED BY <1>3, <2>1, FS_Subset DEF OfNumber
<1>5. \A k : count(k) \in Nat /\ count(k) <= Cardinality(OfNumber(S, k)) /\ Cardinality(OfNumber(S, k)) \in Nat
      BY <1>4, Fewer
<1>6. d \in numbers /\ \A k \in numbers : k # d => count(k) < count(d)
  <2>1. CASE Real(S) = {}
    <3>1. \A x \in is : S[x].lap = d
      <4> TAKE x \in is
      <4>1. PICK j \in RunStarts(S) : S[j].lap = S[x].lap /\ Number(S, j) = d
            BY GroupRow
      <4> QED BY <2>1, <4>1, NumberIs
    <3>2. i \in is
          BY <1>1
    <3> HIDE DEF count, is, d
    <3> QED BY <3>1, <3>2
  <2>2. CASE Real(S) # {}
    <3>1. PICK p \in Real(S) : p \in is /\ S[p].lap = d
          BY <2>2, GroupReal
    <3>2. p \in RunStarts(S) /\ p \in 1..Len(S) /\ Cardinality(OfNumber(S, d)) >= MinRun
          BY <3>1, RealIs, RunOfNumber
    <3>3. OfNumber(S, d) \subseteq {x \in is : S[x].lap = d}
      <4> SUFFICES ASSUME NEW x \in 1..Len(S), S[x].lap = d PROVE x \in is
          BY <1>1 DEF OfNumber
      <4>1. p <= x
            BY <3>1, <3>2, RunOfNumber
      <4>2. x <= LastOf(S, i)
        <5> SUFFICES ASSUME LastOf(S, i) < x PROVE FALSE
            BY <1>1
        <5> DEFINE m == LastOf(S, i) + 1
        <5>1. m \in Firsts(S) /\ m <= x /\ p < m
              BY <1>1, <3>1
        <5>2. m \in RunStarts(S) /\ m \in 1..Len(S)
              BY <5>1, RunOfNumber DEF Firsts
        <5> HIDE DEF m
        <5>3. S[p].lap <= S[m].lap /\ S[m].lap <= S[x].lap /\ S[m].lap \in Int
          <6>1. p <= m
                BY <3>2, <5>1, <5>2
          <6> QED BY <3>2, <5>1, <5>2, <6>1 DEF Rising
        <5>4. S[m].lap = S[p].lap
              BY <1>2, <3>1, <5>3
        <5>5. m <= p
              BY <3>2, <5>2, <5>4, RunOfNumber
        <5> QED BY <3>2, <5>1, <5>2, <5>5
      <4> QED BY <1>1, <3>1, <3>2, <4>1, <4>2
    <3>4. count(d) >= MinRun
      <4>1. OfNumber(S, d) = {x \in is : S[x].lap = d}
            BY <1>4, <3>3
      <4> QED BY <3>2, <4>1
    <3>5. ASSUME NEW k \in numbers, k # d PROVE count(k) < MinRun
      <4>1. PICK x \in is : S[x].lap = k
            OBVIOUS
      <4>2. PICK j \in RunStarts(S) : S[j].lap = k /\ Number(S, j) = d
            BY <4>1, GroupRow
      <4>3. j \notin Real(S)
            BY <3>5, <4>2, NumberIs
      <4>4. ~(Cardinality(OfNumber(S, k)) >= MinRun)
            BY <4>2, <4>3, RealIs
      <4> HIDE DEF count
      <4> QED BY <1>5, <4>4
    <3>6. d \in numbers
          BY <3>1
    <3>7. count(d) \in Nat /\ \A k : count(k) \in Nat
          BY <1>5
    <3> HIDE DEF count, numbers, d
    <3> QED BY <3>4, <3>5, <3>6, <3>7
  <2> QED BY <2>1, <2>2
<1>7. Mode(S, is) = Min(most)
      BY DEF Mode
<1>8. \A k : count(k) \in Nat
      BY <1>5
<1> HIDE DEF count, numbers, d, is
<1>9. most = {d}
      BY <1>6, <1>8
<1>10. Min({d}) = d
       BY <1>2 DEF Min
<1> QED BY <1>7, <1>9, <1>10 DEF is, d

\* The numbers in the rows, and those of MinRun rows or more.
Numbers(S) == {S[i].lap : i \in DOMAIN S}
LongNumbers(S) == {k \in Numbers(S) : Cardinality(OfNumber(S, k)) >= MinRun}

\* The runs go by the numbers that are long, if any is.
LEMMA NumbersUsed ==
    ASSUME NEW S, Rising(S)
    PROVE  {Number(S, i) : i \in Firsts(S)} = IF LongNumbers(S) = {} THEN Numbers(S) ELSE LongNumbers(S)
<1>1. /\ Len(S) \in Nat /\ DOMAIN S = 1..Len(S)
      /\ RunStarts(S) \subseteq 1..Len(S) /\ Firsts(S) \subseteq RunStarts(S) /\ Real(S) \subseteq RunStarts(S)
      BY RunOfNumber, RealIs DEF Rising, Firsts
<1>2. ASSUME NEW j \in RunStarts(S) PROVE \E i \in Firsts(S) : Number(S, i) = Number(S, j)
  <2> DEFINE N == {r \in RunStarts(S) : \A i \in Firsts(S) : Number(S, i) # Number(S, r)}
  <2> SUFFICES ASSUME j \in N PROVE FALSE
      OBVIOUS
  <2>1. N \subseteq Nat /\ N # {}
        BY <1>1
  <2>2. PICK r \in N : \A x \in N : r <= x
        BY <2>1, Least
  <2>3. r \in RunStarts(S) /\ r \notin Firsts(S) /\ r \in Nat /\ \A i \in Firsts(S) : Number(S, i) # Number(S, r)
        BY <2>1
  <2> DEFINE b == Before(S, r)
  <2>4. r # 1 /\ Number(S, b) = Number(S, r)
        BY <2>3 DEF Firsts, Number
  <2>5. b \in RunStarts(S) /\ b < r
        BY <2>3, <2>4, RunBefore
  <2> HIDE DEF b
  <2>6. b \in N /\ b \in Nat
        BY <1>1, <2>3, <2>4, <2>5
  <2>7. r <= b
        BY <2>2, <2>6
  <2> QED BY <2>3, <2>5, <2>6, <2>7
<1>3. ASSUME NEW k \in LongNumbers(S) PROVE \E p \in Real(S) : S[p].lap = k
  <2>1. PICK x \in 1..Len(S) : S[x].lap = k
        BY <1>1 DEF LongNumbers, Numbers
  <2>2. PICK p \in RunStarts(S) : S[p].lap = k
        BY <2>1, RunOfNumber
  <2> QED BY <2>2, RealIs DEF LongNumbers
<1>4. ASSUME NEW p \in Real(S) PROVE S[p].lap \in LongNumbers(S)
  <2>1. p \in DOMAIN S
        BY <1>1
  <2> QED BY <2>1, RealIs DEF LongNumbers, Numbers
<1>5. CASE LongNumbers(S) = {}
  <2>1. Real(S) = {}
        BY <1>4, <1>5
  <2>2. \A j \in RunStarts(S) : Number(S, j) = S[j].lap
        BY <2>1, NumberIs
  <2>3. \A k \in Numbers(S) : \E j \in RunStarts(S) : S[j].lap = k
        BY <1>1, RunOfNumber DEF Numbers
  <2>4. \A j \in RunStarts(S) : S[j].lap \in Numbers(S)
        BY <1>1 DEF Numbers
  <2>5. \A i \in Firsts(S) : Number(S, i) \in Numbers(S)
        BY <1>1, <2>2, <2>4
  <2>6. \A k \in Numbers(S) : \E i \in Firsts(S) : Number(S, i) = k
        BY <1>2, <2>2, <2>3
  <2> QED BY <1>5, <2>5, <2>6
<1>6. CASE LongNumbers(S) # {}
  <2>1. Real(S) # {}
        BY <1>3, <1>6
  <2>2. \A i \in Firsts(S) : Number(S, i) \in LongNumbers(S)
    <3> TAKE i \in Firsts(S)
    <3>1. i \in RunStarts(S)
          BY <1>1
    <3>2. PICK p \in Real(S) : Number(S, i) = S[p].lap
          BY <2>1, <3>1, NumberIs
    <3> QED BY <1>4, <3>2
  <2>3. \A k \in LongNumbers(S) : \E i \in Firsts(S) : Number(S, i) = k
    <3> TAKE k \in LongNumbers(S)
    <3>1. PICK p \in Real(S) : S[p].lap = k
          BY <1>3
    <3>2. p \in RunStarts(S) /\ Number(S, p) = k
          BY <1>1, <3>1, NumberIs
    <3> QED BY <1>2, <3>2
  <2> QED BY <1>6, <2>2, <2>3
<1> QED BY <1>5, <1>6

\* No two laps of lap_table's go by one.
LEMMA FirstsDiffer ==
    ASSUME NEW S, Rising(S), NEW i \in Firsts(S), NEW k \in Firsts(S), i < k
    PROVE  Number(S, i) # Number(S, k)
<1> DEFINE b == Before(S, k)
<1>1. i \in RunStarts(S) /\ k \in RunStarts(S) /\ i \in 1..Len(S) /\ k \in 1..Len(S)
      BY RunOfNumber DEF Firsts
<1>2. k # 1
      BY <1>1
<1>3. b \in RunStarts(S) /\ b < k /\ i <= b
      BY <1>1, <1>2, RunBefore
<1>4. Number(S, b) # Number(S, k)
      BY <1>2 DEF Firsts, Number
<1> HIDE DEF b
<1>5. b <= k
  <2>1. b \in 1..Len(S)
        BY <1>3, RunOfNumber
  <2> QED BY <1>1, <1>3, <2>1
<1>6. Number(S, i) <= Number(S, b) /\ Number(S, i) \in Int /\ Number(S, b) \in Int
      BY <1>1, <1>3, NumbersRise
<1>7. Number(S, b) <= Number(S, k) /\ Number(S, k) \in Int
      BY <1>1, <1>3, <1>5, NumbersRise
<1> QED BY <1>4, <1>6, <1>7

Entries(S) == {Entry(S, i, LastOf(S, i)) : i \in Firsts(S)}
ShownBy(table) == {e.lap_number : e \in table}

LEMMA EntriesShow ==
    ASSUME NEW S, Rising(S), MinRun \in Nat \ {0}
    PROVE  /\ ShownBy(Entries(S)) = {Number(S, i) : i \in Firsts(S)}
           /\ Cardinality(Entries(S)) = Cardinality(ShownBy(Entries(S)))
<1> DEFINE table == Entries(S)
           g == [i \in Firsts(S) |-> Entry(S, i, LastOf(S, i))]
           h == [e \in table |-> e.lap_number]
           numerals == ShownBy(table)
<1>1. \A i \in Firsts(S) : g[i] \in table /\ g[i].lap_number = Number(S, i)
      BY GroupShows DEF Entry, Entries
<1>2. \A e \in table : \E i \in Firsts(S) : e = g[i]
      BY DEF Entries
<1> HIDE DEF table
<1>3. IsFiniteSet(Firsts(S)) /\ \A i \in Firsts(S) : i \in Nat
  <2>1. Firsts(S) \subseteq 1..Len(S) /\ 1 \in Int /\ Len(S) \in Int
        BY RunOfNumber DEF Firsts, Rising
  <2>2. IsFiniteSet(1..Len(S))
        BY <2>1, FS_Interval
  <2> QED BY <2>1, <2>2, FS_Subset
<1>4. g \in Surjection(Firsts(S), table)
      BY <1>1, <1>2 DEF Surjection
<1>5. h \in Surjection(table, numerals)
      BY DEF Surjection, ShownBy
<1>6. h \in Injection(table, numerals)
  <2>1. ASSUME NEW c \in table, NEW e \in table, h[c] = h[e] PROVE c = e
    <3>1. PICK i \in Firsts(S) : c = g[i]
          BY <1>2
    <3>2. PICK k \in Firsts(S) : e = g[k]
          BY <1>2
    <3>3. h[c] = c.lap_number /\ h[e] = e.lap_number
          OBVIOUS
    <3> HIDE DEF g, h
    <3>4. Number(S, i) = Number(S, k)
          BY <1>1, <2>1, <3>1, <3>2, <3>3
    <3>5. i \in Nat /\ k \in Nat /\ ~(i < k) /\ ~(k < i)
          BY <1>3, <3>4, FirstsDiffer
    <3>6. i = k
          BY <3>5
    <3> QED BY <3>1, <3>2, <3>6
  <2>2. h \in [table -> numerals]
        BY DEF ShownBy
  <2>3. DOMAIN h = table
        OBVIOUS
  <2> HIDE DEF h, numerals
  <2> QED BY <2>1, <2>2, <2>3 DEF Injection, IsInjective
<1> HIDE DEF g, h
<1>7. IsFiniteSet(table)
      BY <1>3, <1>4, FS_Surjection
<1>8. Cardinality(numerals) = Cardinality(table)
  <2> HIDE DEF numerals
  <2> QED BY <1>5, <1>6, <1>7, FS_Surjection
<1>9. numerals = {Number(S, i) : i \in Firsts(S)}
  <2>1. ASSUME NEW i \in Firsts(S) PROVE Number(S, i) \in numerals
        BY <1>1 DEF ShownBy
  <2>2. ASSUME NEW k \in numerals PROVE \E i \in Firsts(S) : k = Number(S, i)
    <3>1. PICK e \in table : k = e.lap_number
          BY DEF ShownBy
    <3>2. PICK i \in Firsts(S) : e = g[i]
          BY <1>2
    <3> QED BY <1>1, <3>1, <3>2
  <2> HIDE DEF numerals
  <2> QED BY <2>1, <2>2
<1> QED BY <1>8, <1>9 DEF table

\* A table is in order, and its numbers never go back.
LEMMA ForwardRises ==
    ASSUME NEW t \in Seq(Shown), Forwards(t)
    PROVE  Rising(t)
<1> DEFINE n == Len(t)
<1>1. n \in Nat /\ DOMAIN t = 1..n /\ \A i \in 1..n : t[i].lap \in Int
  <2>1. n \in Nat /\ DOMAIN t = 1..n /\ \A i \in 1..n : t[i] \in Shown
        OBVIOUS
  <2> QED BY <2>1 DEF Shown
<1> DEFINE P == {m \in 0..n : \A i, j \in 1..m : i <= j => t[i].lap <= t[j].lap}
<1>2. 0 \in P
      BY <1>1
<1>3. ASSUME NEW m \in 0..(n - 1), m \in P PROVE m + 1 \in P
  <2>1. ASSUME NEW i \in 1..(m + 1), NEW j \in 1..(m + 1), i <= j PROVE t[i].lap <= t[j].lap
    <3>0. i \in 1..n /\ j \in 1..n /\ m \in Nat
          BY <1>1
    <3>1. CASE j <= m
      <4>1. i \in 1..m /\ j \in 1..m
            BY <2>1, <3>0, <3>1
      <4> QED BY <1>3, <2>1, <4>1
    <3>2. CASE i = j
          BY <1>1, <3>0, <3>2
    <3>3. CASE j > m /\ i # j
      <4>1. j = m + 1 /\ i \in 1..m /\ m \in 1..m /\ i <= m /\ j > 1 /\ j - 1 = m /\ m \in 1..n
            BY <1>1, <2>1, <3>0, <3>3
      <4>2. t # <<>>
            BY <1>1, <3>0
      <4>3. t[j].lap \in t[m].lap..(t[m].lap + 1)
            BY <1>1, <3>0, <4>1, <4>2 DEF Forwards
      <4>4. t[i].lap <= t[m].lap
            BY <1>3, <4>1
      <4>5. t[i].lap \in Int /\ t[m].lap \in Int /\ t[j].lap \in Int
            BY <1>1, <3>0, <4>1
      <4> QED BY <4>3, <4>4, <4>5
    <3> QED BY <3>0, <3>1, <3>2, <3>3
  <2>2. m + 1 \in 0..n
        BY <1>1
  <2> QED BY <2>1, <2>2
<1> HIDE DEF P
<1>4. 0..n \subseteq P
      BY <1>1, <1>2, <1>3, Induct
<1>5. n \in P
      BY <1>1, <1>4
<1>6. \A i, j \in 1..n : i <= j => t[i].lap <= t[j].lap
      BY <1>5 DEF P
<1> QED BY <1>1, <1>6 DEF Rising

LEMMA DecodeShows ==
    ASSUME NEW f \in Seq(Marker)
    PROVE  ShowsLongLaps(Decode(f))
<1> DEFINE t == Decode(f)
<1>1. t \in Seq(Shown) /\ Ascending(t) /\ Forwards(t)
      BY DecodeForward
<1> HIDE DEF t
<1>2. Rising(t)
      BY <1>1, ForwardRises
<1>3. Timed(Shown)
      BY DEF Timed, Shown
<1>4. Sorted(t) = t
      BY <1>1, <1>3, SortedSame
<1>5. LapTable(t) = Entries(t)
      BY <1>4, LapTableIs DEF Entries
<1>6. MinRun \in Nat \ {0}
      BY LapsConstantsOK
<1>7. /\ ShownBy(Entries(t)) = {Number(t, i) : i \in Firsts(t)}
      /\ Cardinality(Entries(t)) = Cardinality(ShownBy(Entries(t)))
      BY <1>2, <1>6, EntriesShow
<1>8. ShownBy(Entries(t)) = IF LongNumbers(t) = {} THEN Numbers(t) ELSE LongNumbers(t)
      BY <1>2, <1>7, NumbersUsed
<1>9. ShowsLongLaps(t)
      BY <1>5, <1>7, <1>8 DEF ShowsLongLaps, LongNumbers, Numbers, OfNumber, ShownBy
<1> QED BY <1>9 DEF t

LEMMA FileTypesForward == FileTypes => RowsRunForward
BY DecodeForward, DecodeShows DEF FileTypes, RowsRunForward

\* Theorem: whatever the laptimer's file holds, what is decoded of it is a
\* recording, and lap_table shows a lap for each number that has enough rows.
THEOREM RecordingsRunForward == RecordingSpec => []RowsRunForward
<1> QED BY InitFileTypes, NextFileTypes, FileTypesForward, PTL DEF RecordingSpec, recording

-----------------------------------------------------------------------------
\* The user the program acts for and the file of the cached login.
\* A file that holds one record.
Held(c) == DOMAIN c = {1} /\ DOMAIN c[1] = {"login", "driver", "period", "stale"}

CacheOK == cache = <<>> \/ Held(cache)

IInv == CacheOK /\ CacheMirrorsLogin

LEMMA InitIInv == Init => IInv
BY DEF Init, IInv, CacheOK, CacheMirrorsLogin, NoCache

\* save leaves one record, of that login.
LEMMA CachedHolds ==
    ASSUME NEW l
    PROVE  Held(Cached(l)) /\ Cached(l) # <<>> /\ Cached(l)[1].login = l
<1> DEFINE r == [login |-> l, driver |-> NoDriver, period |-> "today", stale |-> FALSE]
<1>1. Cached(l) = <<r>>
      BY DEF Cached
<1>2. DOMAIN r = {"login", "driver", "period", "stale"} /\ r.login = l
      OBVIOUS
<1> HIDE DEF r
<1> QED BY <1>1, <1>2 DEF Held

\* Nor do the settings change whose login it is.
LEMMA UpdateKeepsLogin ==
    ASSUME NEW c, Held(c), NEW d, NEW p
    PROVE  LET n == UpdateSettings(c, d, p)
           IN  Held(n) /\ n # <<>> /\ n[1].login = c[1].login
<1> DEFINE r == [c[1] EXCEPT !.driver = d, !.period = p]
           n == UpdateSettings(c, d, p)
<1>1. DOMAIN n = {1} /\ n[1] = r
      BY DEF UpdateSettings, Held
<1>2. DOMAIN r = DOMAIN c[1] /\ r.login = c[1].login
      BY DEF Held
<1> HIDE DEF r, n
<1>3. Held(n) /\ n # <<>> /\ n[1].login = c[1].login
      BY <1>1, <1>2 DEF Held
<1> QED BY <1>3 DEF n

\* A settings screen that is built shows the login of the file.
LEMMA ShowSettingsOK ==
    ASSUME NEW l, NEW c, Held(c), NEW pre, NEW p,
           ShowSettings(l, c, pre, p), mem' = c[1].login
    PROVE  IInv'
<1>1. screen' = "settings" /\ cache' = UpdateSettings(c, pick', p)
      BY DEF ShowSettings, SaveSettings
<1>2. Held(cache') /\ cache' # <<>> /\ cache'[1].login = c[1].login
      BY <1>1, UpdateKeepsLogin
<1> QED BY <1>1, <1>2 DEF IInv, CacheOK, CacheMirrorsLogin, NoCache

\* The settings are saved where there is a login.
LEMMA SavedOnForm ==
    ASSUME IInv, screen = "settings", UNCHANGED <<screen, mem>>,
           NEW d, NEW p, SaveSettings(cache, d, p)
    PROVE  IInv'
<1>1. Held(cache)
      BY DEF IInv, CacheOK, CacheMirrorsLogin, NoCache
<1>2. Held(cache') /\ cache' # <<>> /\ cache'[1].login = cache[1].login
      BY <1>1, UpdateKeepsLogin DEF SaveSettings
<1> QED BY <1>2 DEF IInv, CacheOK, CacheMirrorsLogin, NoCache

\* What touches neither the file, the screen nor the login.
LEMMA Untouched == IInv /\ UNCHANGED <<cache, screen, mem>> => IInv'
BY DEF IInv, CacheOK, CacheMirrorsLogin

\* The login screen is shown once the file is gone.
LEMMA LoginScreenOK == Clear /\ mem' = Out /\ ShowLogin => IInv'
BY DEF Clear, ShowLogin, IInv, CacheOK, CacheMirrorsLogin, NoCache

LEMMA NextIInv == IInv /\ [Next]_vars => IInv'
<1> SUFFICES ASSUME IInv, [Next]_vars PROVE IInv'
    OBVIOUS
<1>1. CASE WeekPasses
  <2>1. Held(cache)
        BY <1>1 DEF WeekPasses, Stale, IInv, CacheOK
  <2> DEFINE r == [cache[1] EXCEPT !.stale = TRUE]
  <2>2. DOMAIN cache' = {1} /\ cache'[1] = r
        BY <1>1, <2>1 DEF WeekPasses, Held
  <2>3. DOMAIN r = DOMAIN cache[1] /\ r.login = cache[1].login
        BY <2>1 DEF Held
  <2> HIDE DEF r
  <2>4. Held(cache') /\ cache' # <<>> /\ cache'[1].login = cache[1].login
        BY <2>1, <2>2, <2>3 DEF Held
  <2> QED BY <1>1, <2>1, <2>4 DEF WeekPasses, Held, IInv, CacheOK, CacheMirrorsLogin, NoCache
<1>2. CASE Launch
  <2>1. CASE Clear /\ mem' = Out /\ ShowLogin
        BY <2>1, LoginScreenOK
  <2>2. CASE ~Stale /\ mem' = cache[1].login
             /\ ShowSettings(cache[1].login, cache, cache[1].driver, cache[1].period)
    <3>1. Held(cache)
          BY <2>2 DEF Stale, IInv, CacheOK
    <3> QED BY <2>2, <3>1, ShowSettingsOK
  <2> QED BY <1>2, <2>1, <2>2 DEF Launch
<1>3. CASE Quit
      BY <1>3 DEF Quit, IInv, CacheOK, CacheMirrorsLogin
<1>4. CASE SignOut
      BY <1>4 DEF SignOut, IInv, CacheOK, CacheMirrorsLogin
<1>5. CASE SignedOut
      BY <1>5, LoginScreenOK DEF SignedOut
<1>6. CASE Callback
  <2> DEFINE e == Head(ui)  c == Cached(e.login)
  <2>1. CASE SignedIn(e)
    <3>1. mem' = e.login /\ Held(c) /\ c # <<>> /\ c[1].login = e.login
          BY <2>1, CachedHolds DEF SignedIn
    <3>2. CASE ShowSettings(e.login, c, NoDriver, "today")
          BY <3>1, <3>2, ShowSettingsOK
    <3>3. CASE screen' = "half" /\ cache' = c
          BY <3>1, <3>3 DEF IInv, CacheOK, CacheMirrorsLogin, NoCache
    <3>4. CASE screen # "login" /\ cache' = c /\ UNCHANGED screen
          BY <3>1, <3>4 DEF IInv, CacheOK, CacheMirrorsLogin, NoCache
    <3> QED BY <2>1, <3>2, <3>3, <3>4 DEF SignedIn
  <2>2. CASE OnReport(e)
        BY <2>2, Untouched DEF OnReport
  <2> QED BY <1>6, <2>1, <2>2 DEF Callback
<1>7. CASE \E d : Choose(d)
      BY <1>7, SavedOnForm DEF Choose, OnForm
<1>8. CASE \E d \in Drivers : AddDriver(d)
  <2> PICK d \in Drivers : AddDriver(d)
      BY <1>8
  <2>1. CASE SaveSettings(cache, d, period)
        BY <2>1, SavedOnForm DEF AddDriver, OnForm
  <2>2. CASE UNCHANGED cache
        BY <2>2, Untouched DEF AddDriver
  <2> QED BY <2>1, <2>2 DEF AddDriver
<1>9. CASE \E p \in Periods : SetPeriod(p)
      BY <1>9, SavedOnForm DEF SetPeriod, OnForm
<1>10. CASE \/ SignIn \/ LoginWorker \/ ToggleAuto \/ Tick \/ AutoSync
            \/ \E l \in Logins : Expire(l)
            \/ \E v \in Uploaders : UploadNow(v) \/ ManualFlush(v)
            \/ \E w \in Workers : Preview(w) \/ SyncWorker(w)
       BY <1>10, Untouched DEF SignIn, LoginWorker, ToggleAuto, Tick, AutoSync, Expire,
          UploadNow, ManualFlush, Preview, SyncWorker
<1>11. CASE \E w \in Workers : StartSync(w) \/ \E yes \in BOOLEAN : Answer(yes, w)
       BY <1>11, Untouched DEF StartSync, Answer
<1>12. CASE UNCHANGED vars
       BY <1>12, Untouched DEF vars
<1> QED BY <1>1, <1>2, <1>3, <1>4, <1>5, <1>6, <1>7, <1>8, <1>9, <1>10, <1>11, <1>12
        DEF Next

\* Theorem: whoever signs in, whenever a login comes back and wherever the
\* tool is killed, the user and token the program goes on with are those of
\* the file of auth_cache. (Of the label on the screen this says nothing.)
THEOREM UserMatchesFile == Spec => []CacheMirrorsLogin
<1>1. IInv => CacheMirrorsLogin
      BY DEF IInv
<1> QED BY InitIInv, NextIInv, <1>1, PTL DEF Spec

=============================================================================
