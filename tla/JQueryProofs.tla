----------------------------- MODULE JQueryProofs -----------------------------
(***************************************************************************)
(* Theorems about parts of jQuery, for any functions, data, requests,      *)
(* names, elements and animations: lists of callbacks whose functions      *)
(* change the list while it fires, requests by script tags, and queues of  *)
(* animations, of which one interval runs the timers.                      *)
(***************************************************************************)
EXTENDS Callbacks, Jsonp, Animations, FiniteSetTheorems, TLAPS

------------------------------------------------------------------------------
(* Induction, from the order of finite sets. *)

LEMMA Least ==
  ASSUME NEW S \in SUBSET Nat, S # {}
  PROVE  \E m \in S : \A n \in S : m <= n
<1> DEFINE F == {1..n : n \in S}
           R == StrictSubsetOrdering(Nat)
<1>1. IsWellFoundedOn(R, FiniteSubsetsOf(Nat))
  BY FS_StrictSubsetOrderingWellFounded
<1>2. F \subseteq FiniteSubsetsOf(Nat)
  <2>1. ASSUME NEW n \in S PROVE 1..n \in FiniteSubsetsOf(Nat)
    BY FS_Interval DEF FiniteSubsetsOf
  <2> QED BY <2>1
<1>3. F # {}
  OBVIOUS
<1>4. \E x \in F : \A y \in F : <<y, x>> \notin R
  <2> HIDE DEF F, R
  <2> QED BY <1>1, <1>2, <1>3, WFMin
<1>5. PICK m \in S : \A n \in S : <<1..n, 1..m>> \notin R
  BY <1>4
<1>6. ASSUME NEW n \in S, n < m PROVE FALSE
  <2>1. 1..n \subseteq 1..m /\ m \in 1..m /\ m \notin 1..n
    BY <1>6
  <2>2. <<1..n, 1..m>> \in R
    BY <2>1 DEF StrictSubsetOrdering
  <2> QED BY <1>5, <2>2
<1> QED BY <1>6

LEMMA Induct ==
  ASSUME NEW S \in SUBSET Nat, 0 \in S, \A n \in S : n + 1 \in S
  PROVE  S = Nat
<1>1. ASSUME Nat \ S # {} PROVE FALSE
  <2>1. PICK m \in Nat \ S : \A n \in Nat \ S : m <= n
    BY <1>1, Least
  <2>2. m # 0
    OBVIOUS
  <2>3. m - 1 \in Nat /\ m - 1 \in S
    BY <2>1, <2>2
  <2> QED
    BY <2>3
<1> QED
  BY <1>1

\* Induction up to a bound.
LEMMA InductTo ==
  ASSUME NEW m \in Nat, NEW S, 0 \in S, \A n \in 0..(m - 1) : n \in S => n + 1 \in S
  PROVE  0..m \subseteq S
<1> DEFINE T == {n \in Nat : n <= m => n \in S}
<1>1. T = Nat
  <2>1. 0 \in T
    OBVIOUS
  <2>2. \A n \in T : n + 1 \in T
    OBVIOUS
  <2> HIDE DEF T
  <2>3. T \in SUBSET Nat
    BY DEF T
  <2> QED BY <2>1, <2>2, <2>3, Induct
<1> QED BY <1>1

------------------------------------------------------------------------------
(* What is left of a list when a function is taken out. *)

KeptIs(s, f, m, k) ==
  k = [n \in 0..m |-> IF n = 0 THEN << >> ELSE IF s[n] = f THEN k[n - 1] ELSE Append(k[n - 1], s[n])]

LEMMA KeptExists ==
  ASSUME NEW s, NEW f
  PROVE  \A m \in Nat : \E k : KeptIs(s, f, m, k)
<1> DEFINE S == {m \in Nat : \E k : KeptIs(s, f, m, k)}
<1>1. 0 \in S
  <2>1. KeptIs(s, f, 0, [n \in 0..0 |-> << >>])
    BY DEF KeptIs
  <2> QED BY <2>1
<1>2. ASSUME NEW m \in S PROVE m + 1 \in S
  <2>1. PICK k : KeptIs(s, f, m, k)
    OBVIOUS
  <2>2. m \in Nat
    OBVIOUS
  <2> DEFINE x == IF s[m + 1] = f THEN k[m] ELSE Append(k[m], s[m + 1])
             h == [n \in 0..(m + 1) |-> IF n = m + 1 THEN x ELSE k[n]]
  <2>3. h = [n \in 0..(m + 1) |-> IF n = 0 THEN << >> ELSE IF s[n] = f THEN h[n - 1] ELSE Append(h[n - 1], s[n])]
    <3>1. ASSUME NEW n \in 0..(m + 1)
          PROVE  h[n] = IF n = 0 THEN << >> ELSE IF s[n] = f THEN h[n - 1] ELSE Append(h[n - 1], s[n])
      <4>1. CASE n = m + 1
        BY <2>2, <4>1
      <4>2. CASE n \in 0..m
        <5>1. h[n] = k[n] /\ (n # 0 => h[n - 1] = k[n - 1])
          BY <2>2, <4>2
        <5>2. k[n] = IF n = 0 THEN << >> ELSE IF s[n] = f THEN k[n - 1] ELSE Append(k[n - 1], s[n])
          BY <2>1, <4>2 DEF KeptIs
        <5> HIDE DEF h
        <5> QED BY <5>1, <5>2
      <4> QED BY <2>2, <4>1, <4>2
    <3>2. h = [n \in 0..(m + 1) |-> h[n]]
      OBVIOUS
    <3> HIDE DEF h
    <3> QED BY <3>1, <3>2
  <2>4. KeptIs(s, f, m + 1, h)
    BY <2>3 DEF KeptIs
  <2> QED BY <2>2, <2>4
<1> HIDE DEF S
<1>3. S = Nat
  <2>1. S \in SUBSET Nat
    BY DEF S
  <2> QED BY <1>1, <1>2, <2>1, Induct
<1> QED BY <1>3 DEF S

LEMMA KeptStep ==
  ASSUME NEW T, NEW s \in Seq(T), NEW f
  PROVE  /\ Kept(s, f)[0] = << >>
         /\ \A n \in 1..Len(s) : Kept(s, f)[n] =
              IF s[n] = f THEN Kept(s, f)[n - 1] ELSE Append(Kept(s, f)[n - 1], s[n])
<1>0. Len(s) \in Nat
  OBVIOUS
<1>1. \E k : KeptIs(s, f, Len(s), k)
  BY <1>0, KeptExists, Zenon
<1>2. KeptIs(s, f, Len(s), Kept(s, f))
  BY <1>1, Zenon DEF Kept, KeptIs
<1> DEFINE k == Kept(s, f)
<1>3. k = [n \in 0..Len(s) |-> IF n = 0 THEN << >> ELSE IF s[n] = f THEN k[n - 1] ELSE Append(k[n - 1], s[n])]
  BY <1>2 DEF KeptIs
<1>4. Len(s) \in Nat
  OBVIOUS
<1> HIDE DEF k
<1>5. \A n \in 0..Len(s) :
        k[n] = IF n = 0 THEN << >> ELSE IF s[n] = f THEN k[n - 1] ELSE Append(k[n - 1], s[n])
  <2> DEFINE F(n) == IF n = 0 THEN << >> ELSE IF s[n] = f THEN k[n - 1] ELSE Append(k[n - 1], s[n])
  <2>1. k = [n \in 0..Len(s) |-> F(n)]
    BY <1>3
  <2> HIDE DEF F
  <2>2. \A n \in 0..Len(s) : k[n] = F(n)
    BY <2>1
  <2> QED BY <2>2 DEF F
<1>6. 0 \in 0..Len(s) /\ \A n \in 1..Len(s) : n \in 0..Len(s) /\ n # 0
  BY <1>4
<1> QED BY <1>5, <1>6 DEF k

LEMMA KeptType ==
  ASSUME NEW T, NEW s \in Seq(T), NEW f
  PROVE  \A n \in 0..Len(s) : Kept(s, f)[n] \in Seq(T)
<1> DEFINE S == {n \in 0..Len(s) : Kept(s, f)[n] \in Seq(T)}
<1>1. 0 \in S
  <2>1. Kept(s, f)[0] = << >>
    BY KeptStep
  <2>2. << >> \in Seq(T) /\ 0 \in 0..Len(s)
    OBVIOUS
  <2> QED BY <2>1, <2>2
<1>2. ASSUME NEW n \in 0..(Len(s) - 1), n \in S PROVE n + 1 \in S
  <2>1. n + 1 \in 1..Len(s) /\ (n + 1) - 1 = n /\ s[n + 1] \in T /\ n + 1 \in 0..Len(s)
    OBVIOUS
  <2>2. Kept(s, f)[n + 1] = IF s[n + 1] = f THEN Kept(s, f)[n] ELSE Append(Kept(s, f)[n], s[n + 1])
    BY <2>1, KeptStep
  <2>3. Kept(s, f)[n] \in Seq(T)
    BY <1>2
  <2>4. Append(Kept(s, f)[n], s[n + 1]) \in Seq(T)
    BY <2>1, <2>3
  <2>5. Kept(s, f)[n + 1] \in Seq(T)
    BY <2>2, <2>3, <2>4
  <2> QED BY <2>1, <2>5
<1> HIDE DEF S
<1>3. 0..Len(s) \subseteq S
  BY <1>1, <1>2, InductTo
<1> QED BY <1>3 DEF S

LEMMA CopiesType ==
  ASSUME NEW T, NEW s \in Seq(T), NEW f, NEW n \in Int
  PROVE  /\ IsFiniteSet(Copies(s, f, n)) /\ Cardinality(Copies(s, f, n)) \in Nat
         /\ n >= 0 => Cardinality(Copies(s, f, n)) <= n
         /\ n = 0 => Cardinality(Copies(s, f, n)) = 0
<1>1. Copies(s, f, n) \in SUBSET (1..n) /\ Copies(s, f, n) \in SUBSET (1..Len(s))
  BY DEF Copies
<1>2. IsFiniteSet(1..n) /\ (n >= 0 => Cardinality(1..n) = n) /\ IsFiniteSet(1..Len(s))
  BY FS_Interval
<1>3. IsFiniteSet(Copies(s, f, n)) /\ Cardinality(Copies(s, f, n)) <= Cardinality(1..n)
  BY <1>1, <1>2, FS_Subset
<1>4. Cardinality(Copies(s, f, n)) \in Nat
  BY <1>3, FS_CardinalityType
<1> QED BY <1>2, <1>3, <1>4

LEMMA CopiesNext ==
  ASSUME NEW T, NEW s \in Seq(T), NEW f, NEW n \in 0..(Len(s) - 1)
  PROVE  Cardinality(Copies(s, f, n + 1)) =
           Cardinality(Copies(s, f, n)) + (IF s[n + 1] = f THEN 1 ELSE 0)
<1>1. n + 1 \in DOMAIN s /\ n + 1 \notin Copies(s, f, n)
  BY DEF Copies
<1>2. IsFiniteSet(Copies(s, f, n)) /\ Cardinality(Copies(s, f, n)) \in Nat
  BY CopiesType
<1>3. CASE s[n + 1] = f
  <2>1. Copies(s, f, n + 1) = Copies(s, f, n) \cup {n + 1}
    BY <1>1, <1>3 DEF Copies
  <2>2. Cardinality(Copies(s, f, n) \cup {n + 1}) = Cardinality(Copies(s, f, n)) + 1
    BY <1>1, <1>2, FS_AddElement
  <2> QED BY <1>3, <2>1, <2>2
<1>4. CASE s[n + 1] # f
  <2>1. Copies(s, f, n + 1) = Copies(s, f, n)
    BY <1>1, <1>4 DEF Copies
  <2> QED BY <1>2, <1>4, <2>1
<1> QED BY <1>3, <1>4

LEMMA KeptLen ==
  ASSUME NEW T, NEW s \in Seq(T), NEW f
  PROVE  \A n \in 0..Len(s) : Len(Kept(s, f)[n]) = n - Cardinality(Copies(s, f, n))
<1> DEFINE S == {n \in 0..Len(s) : Len(Kept(s, f)[n]) = n - Cardinality(Copies(s, f, n))}
<1>1. 0 \in S
  BY KeptStep, CopiesType
<1>2. ASSUME NEW n \in 0..(Len(s) - 1), n \in S PROVE n + 1 \in S
  <2>1. n + 1 \in 1..Len(s) /\ (n + 1) - 1 = n /\ n \in 0..Len(s) /\ Len(Kept(s, f)[n]) = n - Cardinality(Copies(s, f, n))
    BY <1>2
  <2>2. Kept(s, f)[n + 1] = IF s[n + 1] = f THEN Kept(s, f)[n] ELSE Append(Kept(s, f)[n], s[n + 1])
    BY <2>1, KeptStep
  <2>3. Kept(s, f)[n] \in Seq(T)
    BY <2>1, KeptType
  <2>4. Len(Kept(s, f)[n + 1]) = Len(Kept(s, f)[n]) + (IF s[n + 1] = f THEN 0 ELSE 1)
    <3>1. Len(Append(Kept(s, f)[n], s[n + 1])) = Len(Kept(s, f)[n]) + 1 /\ Len(Kept(s, f)[n]) \in Nat
      <4>1. s[n + 1] \in T
        BY <2>1
      <4> QED BY <2>3, <4>1
    <3>2. CASE s[n + 1] = f
      BY <2>2, <3>1, <3>2
    <3>3. CASE s[n + 1] # f
      BY <2>2, <3>1, <3>3
    <3> QED BY <3>2, <3>3
  <2>5. Cardinality(Copies(s, f, n + 1)) = Cardinality(Copies(s, f, n)) + (IF s[n + 1] = f THEN 1 ELSE 0)
    BY CopiesNext
  <2>6. Cardinality(Copies(s, f, n)) \in Nat
    BY CopiesType
  <2> QED BY <2>1, <2>4, <2>5, <2>6
<1> HIDE DEF S
<1>3. 0..Len(s) \subseteq S
  BY <1>1, <1>2, InductTo
<1> QED BY <1>3 DEF S

Begins(a, b) == Len(a) <= Len(b) /\ \A i \in 1..Len(a) : b[i] = a[i]

\* What was kept of the first n stays.
LEMMA KeptPrefix ==
  ASSUME NEW T, NEW s \in Seq(T), NEW f, NEW n \in 0..Len(s)
  PROVE  \A m \in n..Len(s) : Begins(Kept(s, f)[n], Kept(s, f)[m])
<1> DEFINE k == Kept(s, f)
           S == {d \in Nat : n + d <= Len(s) =>
                   /\ Len(k[n]) <= Len(k[n + d])
                   /\ \A i \in 1..Len(k[n]) : k[n + d][i] = k[n][i]}
<1>1. 0 \in S
  <2>1. k[n] \in Seq(T)
    BY KeptType
  <2> QED BY <2>1
<1>2. ASSUME NEW d \in S PROVE d + 1 \in S
  <2>1. SUFFICES ASSUME n + (d + 1) <= Len(s)
                 PROVE  /\ Len(k[n]) <= Len(k[n + (d + 1)])
                        /\ \A i \in 1..Len(k[n]) : k[n + (d + 1)][i] = k[n][i]
    OBVIOUS
  <2>2. /\ n + (d + 1) \in 1..Len(s) /\ n + d \in 0..Len(s) /\ (n + (d + 1)) - 1 = n + d
        /\ Len(k[n]) <= Len(k[n + d])
        /\ \A i \in 1..Len(k[n]) : k[n + d][i] = k[n][i]
    BY <2>1
  <2>3. k[n] \in Seq(T) /\ k[n + d] \in Seq(T)
    BY <2>2, KeptType
  <2>4. k[n + (d + 1)] = k[n + d] \/ k[n + (d + 1)] = Append(k[n + d], s[n + (d + 1)])
    <3>1. k[n + (d + 1)] = IF s[n + (d + 1)] = f THEN k[(n + (d + 1)) - 1]
                           ELSE Append(k[(n + (d + 1)) - 1], s[n + (d + 1)])
      BY <2>2, KeptStep
    <3> HIDE DEF k
    <3> QED BY <2>2, <3>1
  <2>5. s[n + (d + 1)] \in T
    BY <2>2
  <2> HIDE DEF k
  <2>6. CASE k[n + (d + 1)] = k[n + d]
    BY <2>2, <2>6
  <2>7. CASE k[n + (d + 1)] = Append(k[n + d], s[n + (d + 1)])
    <3>1. /\ Len(k[n + (d + 1)]) = Len(k[n + d]) + 1
          /\ \A i \in 1..Len(k[n + d]) : k[n + (d + 1)][i] = k[n + d][i]
      BY <2>3, <2>5, <2>7
    <3>2. Len(k[n]) \in Nat /\ Len(k[n + d]) \in Nat
      BY <2>3
    <3> QED BY <2>2, <3>1, <3>2
  <2> QED BY <2>4, <2>6, <2>7
<1> HIDE DEF S
<1>3. S = Nat
  <2>1. S \in SUBSET Nat
    BY DEF S
  <2> QED BY <1>1, <1>2, <2>1, Induct
<1>4. ASSUME NEW m \in n..Len(s)
      PROVE  /\ Len(k[n]) <= Len(k[m])
             /\ \A i \in 1..Len(k[n]) : k[m][i] = k[n][i]
  <2>1. m - n \in S /\ n + (m - n) = m /\ m <= Len(s)
    BY <1>3
  <2> HIDE DEF k
  <2> QED BY <2>1 DEF S
<1> QED BY <1>4 DEF Begins

\* What is kept stood in s.
LEMMA KeptFrom ==
  ASSUME NEW T, NEW s \in Seq(T), NEW f
  PROVE  \A n \in 0..Len(s) : \A i \in 1..Len(Kept(s, f)[n]) :
           \E j \in 1..n : s[j] = Kept(s, f)[n][i] /\ s[j] # f
<1> DEFINE k == Kept(s, f)
           P(n) == \A i \in 1..Len(k[n]) : \E j \in 1..n : s[j] = k[n][i] /\ s[j] # f
           S == {n \in 0..Len(s) : P(n)}
<1>1. 0 \in S
  BY KeptStep
<1>2. ASSUME NEW n \in 0..(Len(s) - 1), n \in S PROVE n + 1 \in S
  <2>1. n + 1 \in 1..Len(s) /\ (n + 1) - 1 = n /\ n \in 0..Len(s) /\ P(n)
    <3>1. n \in 0..Len(s) /\ P(n)
      BY <1>2
    <3>2. n + 1 \in 1..Len(s) /\ (n + 1) - 1 = n
      OBVIOUS
    <3> QED BY <3>1, <3>2
  <2>2. k[n + 1] = IF s[n + 1] = f THEN k[n] ELSE Append(k[n], s[n + 1])
    BY <2>1, KeptStep
  <2>3. k[n] \in Seq(T)
    BY <2>1, KeptType
  <2> HIDE DEF k
  <2>4. ASSUME NEW i \in 1..Len(k[n + 1]) PROVE \E j \in 1..(n + 1) : s[j] = k[n + 1][i] /\ s[j] # f
    <3>1. CASE i \in 1..Len(k[n])
      <4>1. PICK j \in 1..n : s[j] = k[n][i] /\ s[j] # f
        BY <2>1, <3>1
      <4>2. k[n + 1][i] = k[n][i]
        BY <2>2, <2>3, <3>1
      <4> QED BY <4>1, <4>2
    <3>2. CASE i \notin 1..Len(k[n])
      <4>1. s[n + 1] # f /\ k[n + 1][i] = s[n + 1]
        BY <2>2, <2>3, <3>2
      <4> QED BY <4>1
    <3> QED BY <3>1, <3>2
  <2> QED BY <2>1, <2>4
<1> HIDE DEF S
<1>3. 0..Len(s) \subseteq S
  BY <1>1, <1>2, InductTo
<1> QED BY <1>3 DEF S

LEMMA AppendRest ==
  ASSUME NEW T, NEW q \in Seq(T), NEW x \in T, NEW a \in 0..Len(q)
  PROVE  Append(SubSeq(q, a + 1, Len(q)), x) = SubSeq(Append(q, x), a + 1, Len(Append(q, x)))
<1> DEFINE l == Append(SubSeq(q, a + 1, Len(q)), x)
           r == SubSeq(Append(q, x), a + 1, Len(Append(q, x)))
<1>1. /\ SubSeq(q, a + 1, Len(q)) \in Seq(T) /\ Len(SubSeq(q, a + 1, Len(q))) = Len(q) - a
      /\ \A i \in 1..(Len(q) - a) : SubSeq(q, a + 1, Len(q))[i] = q[a + i]
  OBVIOUS
<1>2. /\ Append(q, x) \in Seq(T) /\ Len(Append(q, x)) = Len(q) + 1
      /\ \A i \in 1..Len(q) : Append(q, x)[i] = q[i]
      /\ Append(q, x)[Len(q) + 1] = x
  OBVIOUS
<1>3. /\ r \in Seq(T) /\ Len(r) = Len(q) + 1 - a
      /\ \A i \in 1..(Len(q) + 1 - a) : r[i] = Append(q, x)[a + i]
  <2> DEFINE p == Append(q, x)
  <2>1. p \in Seq(T) /\ Len(p) = Len(q) + 1 /\ a + 1 \in 1..(Len(p))
    BY <1>2
  <2> HIDE DEF p
  <2>2. /\ SubSeq(p, a + 1, Len(p)) \in Seq(T) /\ Len(SubSeq(p, a + 1, Len(p))) = Len(p) - a
        /\ \A i \in 1..(Len(p) - a) : SubSeq(p, a + 1, Len(p))[i] = p[a + i]
    BY <2>1
  <2> QED BY <2>1, <2>2 DEF p
<1>4. /\ l \in Seq(T) /\ Len(l) = Len(q) + 1 - a
      /\ \A i \in 1..(Len(q) - a) : l[i] = q[a + i]
      /\ l[Len(q) + 1 - a] = x
  <2> DEFINE p == SubSeq(q, a + 1, Len(q))
  <2>1. p \in Seq(T) /\ Len(p) = Len(q) - a /\ \A i \in 1..Len(p) : p[i] = q[a + i]
    BY <1>1
  <2> HIDE DEF p
  <2>2. /\ Append(p, x) \in Seq(T) /\ Len(Append(p, x)) = Len(p) + 1
        /\ \A i \in 1..Len(p) : Append(p, x)[i] = p[i]
        /\ Append(p, x)[Len(p) + 1] = x
    BY <2>1
  <2>3. l = Append(p, x)
    BY DEF p
  <2> HIDE DEF l
  <2> QED BY <2>1, <2>2, <2>3
<1> HIDE DEF l, r
<1>5. \A i \in 1..(Len(q) + 1 - a) : l[i] = r[i]
  BY <1>2, <1>3, <1>4
<1>6. l = r
  BY <1>3, <1>4, <1>5, SMTT(30)
<1> QED BY <1>6 DEF l, r

\* What is kept of the rest of s is the rest of what is kept.
LEMMA WithoutRest ==
  ASSUME NEW T, NEW s \in Seq(T), NEW f, NEW n \in 0..Len(s)
  PROVE  Without(SubSeq(s, n + 1, Len(s)), f) =
           SubSeq(Without(s, f), Len(Kept(s, f)[n]) + 1, Len(Without(s, f)))
<1> DEFINE t == SubSeq(s, n + 1, Len(s))
           k == Kept(s, f)
           h == Kept(t, f)
           a == Len(k[n])
           S == {d \in 0..Len(t) : h[d] = SubSeq(k[n + d], a + 1, Len(k[n + d]))}
<1>1. /\ t \in Seq(T) /\ Len(t) = Len(s) - n
      /\ \A d \in 1..Len(t) : t[d] = s[n + d]
  OBVIOUS
<1>2. \A m \in 0..Len(s) : k[m] \in Seq(T) /\ Len(k[m]) \in Nat
  BY KeptType
<1>3. a \in Nat /\ \A d \in 0..Len(t) : n + d \in n..Len(s) /\ a <= Len(k[n + d])
  <2>1. \A d \in 0..Len(t) : n + d \in n..Len(s)
    BY <1>1
  <2>2. \A m \in n..Len(s) : Begins(k[n], k[m])
    BY KeptPrefix
  <2> QED BY <1>2, <2>1, <2>2 DEF Begins
<1>4. /\ h[0] = << >>
      /\ \A d \in 1..Len(t) : h[d] = IF t[d] = f THEN h[d - 1] ELSE Append(h[d - 1], t[d])
  <2> HIDE DEF t
  <2> QED BY <1>1, KeptStep
<1>5. \A m \in 1..Len(s) : k[m] = IF s[m] = f THEN k[m - 1] ELSE Append(k[m - 1], s[m])
  BY KeptStep
<1> HIDE DEF t, k, h
<1>6. 0 \in S
  <2>1. n + 0 = n /\ Len(t) \in Nat
    BY <1>1
  <2>2. SubSeq(k[n], a + 1, a) = << >>
    BY <1>2, <1>3
  <2>3. h[0] = SubSeq(k[n + 0], a + 1, Len(k[n + 0]))
    BY <1>4, <2>1, <2>2
  <2>4. 0 \in 0..Len(t)
    BY <2>1
  <2> QED BY <2>3, <2>4
<1>7. ASSUME NEW d \in 0..(Len(t) - 1), d \in S PROVE d + 1 \in S
  <2>1. /\ d + 1 \in 1..Len(t) /\ (d + 1) - 1 = d /\ n + (d + 1) \in 1..Len(s) /\ n + d \in 0..Len(s)
        /\ (n + (d + 1)) - 1 = n + d /\ d \in 0..Len(t)
    BY <1>1, <1>7
  <2>2. h[d] = SubSeq(k[n + d], a + 1, Len(k[n + d]))
    BY <1>7
  <2>3. t[d + 1] = s[n + (d + 1)]
    BY <1>1, <2>1
  <2>4. k[n + d] \in Seq(T) /\ a <= Len(k[n + d]) /\ s[n + (d + 1)] \in T
    BY <1>2, <1>3, <2>1
  <2>5. CASE s[n + (d + 1)] = f
    <3>1. h[d + 1] = h[d] /\ k[n + (d + 1)] = k[n + d]
      BY <1>4, <1>5, <2>1, <2>3, <2>5
    <3>2. h[d + 1] = SubSeq(k[n + (d + 1)], a + 1, Len(k[n + (d + 1)]))
      BY <2>2, <3>1
    <3>3. d + 1 \in 0..Len(t)
      BY <2>1
    <3> QED BY <3>2, <3>3
  <2>6. CASE s[n + (d + 1)] # f
    <3>1. h[d + 1] = Append(h[d], s[n + (d + 1)]) /\ k[n + (d + 1)] = Append(k[n + d], s[n + (d + 1)])
      BY <1>4, <1>5, <2>1, <2>3, <2>6
    <3>2. a \in 0..Len(k[n + d])
      BY <1>3, <2>4
    <3> DEFINE q == k[n + d]
               x == s[n + (d + 1)]
    <3>5. Append(SubSeq(q, a + 1, Len(q)), x) = SubSeq(Append(q, x), a + 1, Len(Append(q, x)))
      <4>1. q \in Seq(T) /\ x \in T /\ a \in 0..Len(q)
        BY <2>4, <3>2
      <4> HIDE DEF q, x, a
      <4> QED BY <4>1, AppendRest
    <3>3. h[d + 1] = SubSeq(k[n + (d + 1)], a + 1, Len(k[n + (d + 1)]))
      BY <2>2, <3>1, <3>5
    <3>4. d + 1 \in 0..Len(t)
      BY <2>1
    <3> QED BY <3>3, <3>4
  <2> QED BY <2>5, <2>6
<1> HIDE DEF S
<1>8. 0..Len(t) \subseteq S
  <2>1. Len(t) \in Nat
    BY <1>1
  <2> QED BY <1>6, <1>7, <2>1, InductTo
<1>9. h[Len(t)] = SubSeq(k[Len(s)], a + 1, Len(k[Len(s)]))
  <2>1. Len(t) \in S /\ n + Len(t) = Len(s)
    BY <1>1, <1>8
  <2> QED BY <2>1 DEF S
<1> QED BY <1>9 DEF Without, h, k, t

------------------------------------------------------------------------------
(* Any list, whatever its functions do. *)

Once(M) == "once" \in M.options

\* What holds of a list between any two steps.
ListInv(M) ==
  /\ ListOK(M)
  /\ M.firing => M.fired
  /\ M.fired => M.data \in Data
  /\ ~M.alive => M.list = << >> /\ ~M.queueing /\ M.memory = NoData
  /\ ~M.queueing => M.stack = << >>
  /\ M.firingStart = 0
  /\ M.memory # NoData => M.fired /\ M.memory = M.data
  /\ Once(M) => ~M.queueing

OnceInv ==
  Once(L) => \A f \in Fns : last[f] = NoData \/ (L.fired /\ last[f] = L.data)

Base ==
  /\ ListInv(L)
  /\ pc \in {"idle", "loop", "call"}
  /\ pc # "idle" => L.firing
  /\ last \in [Fns -> Data \cup {NoData}]
  /\ OnceInv

\* How a method may change what a list that fires once has fired.
Holds(M, N) ==
  /\ N.options = M.options
  /\ M.fired => N.fired
  /\ Once(M) /\ M.fired => N.data = M.data

LEMMA BeginInv ==
  ASSUME NEW M, NEW d \in Data, ListInv([M EXCEPT !.firingStart = 0]), M.alive, M.firingStart \in Nat,
         M \in [options : SUBSET Flags, alive : BOOLEAN, list : Seq(Fns),
           queueing : BOOLEAN, stack : Seq(Data), memory : Data \cup {NoData},
           fired : BOOLEAN, firing : BOOLEAN, data : Data \cup {NoData},
           firingStart : Nat, firingLength : Int, firingIndex : Int]
  PROVE  /\ ListInv(begin(M, d))
         /\ begin(M, d).options = M.options /\ begin(M, d).fired /\ begin(M, d).firing
         /\ begin(M, d).data = d
<1> DEFINE N == begin(M, d)
<1>1. /\ N.options = M.options /\ N.alive = M.alive /\ N.list = M.list /\ N.queueing = M.queueing
      /\ N.stack = M.stack /\ N.fired = TRUE /\ N.firing = TRUE /\ N.data = d /\ N.firingStart = 0
      /\ N.firingLength = Len(M.list) /\ N.firingIndex = M.firingStart
      /\ N.memory \in {d, NoData}
  BY DEF begin
<1>2. ListOK(N)
  <2> DEFINE l == Len(M.list)
             m == IF "memory" \in M.options THEN d ELSE NoData
  <2>1. l \in Int /\ M.firingStart \in Int /\ M.firingStart >= -1 /\ m \in Data \cup {NoData}
    OBVIOUS
  <2> HIDE DEF l, m
  <2> DEFINE K == [M EXCEPT !.memory = m, !.fired = TRUE, !.firingIndex = M.firingStart,
                     !.firingStart = 0, !.firingLength = l, !.firing = TRUE, !.data = d]
  <2>2. ListOK(K)
    BY <2>1 DEF ListOK
  <2>3. N = K
    BY DEF begin, l, m
  <2> QED BY <2>2, <2>3
<1> HIDE DEF N
<1>3. (~M.queueing => M.stack = << >>) /\ (Once(M) => ~M.queueing)
  BY DEF ListInv, Once
<1>4. ListInv(N)
  BY <1>1, <1>2, <1>3 DEF ListInv, Once
<1> QED BY <1>1, <1>4 DEF N

LEMMA DisableInv ==
  ASSUME NEW M, ListInv(M)
  PROVE  ListInv(disable(M)) /\ Holds(M, disable(M)) /\ disable(M).firing = M.firing
<1> DEFINE N == disable(M)
<1>1. /\ N.options = M.options /\ N.alive = FALSE /\ N.list = << >> /\ N.queueing = FALSE
      /\ N.stack = << >> /\ N.fired = M.fired /\ N.firing = M.firing /\ N.data = M.data
      /\ N.firingStart = M.firingStart /\ N.memory = NoData
  BY DEF disable, ListInv, ListOK
<1>2. ListOK(N)
  <2>1. << >> \in Seq(Fns) /\ << >> \in Seq(Data)
    OBVIOUS
  <2> QED BY <2>1 DEF disable, ListOK, ListInv
<1> HIDE DEF N
<1>3. ListInv(N)
  BY <1>1, <1>2 DEF ListInv, Once
<1> QED BY <1>1, <1>3 DEF N, Holds, Once

LEMMA RemoveIndex ==
  ASSUME NEW M, ListInv(M), NEW f
  PROVE  /\ Without(M.list, f) \in Seq(Fns)
         /\ Cardinality(Copies(M.list, f, M.firingIndex + 1)) \in Nat
         /\ Cardinality(Copies(M.list, f, M.firingIndex + 1)) <= M.firingIndex + 1
         /\ Cardinality(Copies(M.list, f, M.firingLength + 1)) \in Nat
<1>1. M.list \in Seq(Fns) /\ M.firingIndex \in Int /\ M.firingIndex >= -1 /\ M.firingLength \in Int
  BY DEF ListInv, ListOK
<1>2. Len(M.list) \in 0..Len(M.list)
  BY <1>1
<1>3. Without(M.list, f) \in Seq(Fns)
  BY <1>1, <1>2, KeptType DEF Without
<1>4. M.firingIndex + 1 \in Int /\ M.firingIndex + 1 >= 0 /\ M.firingLength + 1 \in Int
  BY <1>1
<1> QED BY <1>1, <1>3, <1>4, CopiesType

LEMMA RemoveInv ==
  ASSUME NEW M, ListInv(M), NEW f
  PROVE  ListInv(remove(M, f)) /\ Holds(M, remove(M, f)) /\ remove(M, f).firing = M.firing
<1>1. CASE ~M.alive
  BY <1>1 DEF remove, Holds
<1>2. CASE M.alive
  <2> DEFINE gone(index) == IF M.firing THEN Cardinality(Copies(M.list, f, index + 1)) ELSE 0
             w == Without(M.list, f)
             n == M.firingLength - gone(M.firingLength)
             i == M.firingIndex - gone(M.firingIndex)
             N == [M EXCEPT !.list = w, !.firingLength = n, !.firingIndex = i]
  <2>1. remove(M, f) = N
    BY <1>2 DEF remove
  <2>2. M.firingLength \in Int /\ M.firingIndex \in Int /\ M.firingIndex >= -1
    BY DEF ListInv, ListOK
  <2>3. w \in Seq(Fns) /\ n \in Int /\ i \in Int /\ i >= -1
    <3>1. w \in Seq(Fns)
      BY RemoveIndex
    <3>2. gone(M.firingLength) \in Nat
      BY RemoveIndex
    <3>3. gone(M.firingIndex) \in Nat /\ gone(M.firingIndex) <= M.firingIndex + 1
      BY <2>2, RemoveIndex
    <3> HIDE DEF gone, w
    <3> QED BY <2>2, <3>1, <3>2, <3>3
  <2> HIDE DEF w, n, i
  <2>4. /\ N.options = M.options /\ N.alive = M.alive /\ N.queueing = M.queueing
        /\ N.stack = M.stack /\ N.fired = M.fired /\ N.firing = M.firing /\ N.data = M.data
        /\ N.firingStart = M.firingStart /\ N.memory = M.memory
    BY DEF ListInv, ListOK
  <2>5. ListOK(N)
    BY <2>3 DEF ListInv, ListOK
  <2> HIDE DEF N
  <2>6. ListInv(N)
    BY <1>2, <2>4, <2>5 DEF ListInv, Once
  <2> QED BY <2>1, <2>4, <2>6 DEF Holds
<1> QED BY <1>1, <1>2

LEMMA EmptyInv ==
  ASSUME NEW M, ListInv(M)
  PROVE  ListInv(empty(M)) /\ Holds(M, empty(M)) /\ empty(M).firing = M.firing
<1> DEFINE N == empty(M)
<1>1. /\ N.options = M.options /\ N.alive = TRUE /\ N.list = << >> /\ N.queueing = M.queueing
      /\ N.stack = M.stack /\ N.fired = M.fired /\ N.firing = M.firing /\ N.data = M.data
      /\ N.firingStart = M.firingStart /\ N.memory = M.memory
  BY DEF empty, ListInv, ListOK
<1>2. ListOK(N)
  <2>1. << >> \in Seq(Fns)
    OBVIOUS
  <2> QED BY <2>1 DEF empty, ListOK, ListInv
<1> HIDE DEF N
<1>3. ListInv(N)
  BY <1>1, <1>2 DEF ListInv, Once
<1> QED BY <1>1, <1>3 DEF N, Holds, Once

LEMMA LockInv ==
  ASSUME NEW M, ListInv(M)
  PROVE  ListInv(lock(M)) /\ Holds(M, lock(M)) /\ lock(M).firing = M.firing
<1> DEFINE N == [M EXCEPT !.queueing = FALSE, !.stack = << >>]
<1>1. /\ N.options = M.options /\ N.alive = M.alive /\ N.list = M.list /\ N.queueing = FALSE
      /\ N.stack = << >> /\ N.fired = M.fired /\ N.firing = M.firing /\ N.data = M.data
      /\ N.firingStart = M.firingStart /\ N.memory = M.memory
  BY DEF ListInv, ListOK
<1>2. ListOK(N)
  <2>1. << >> \in Seq(Data)
    OBVIOUS
  <2> QED BY <2>1 DEF ListOK, ListInv
<1>3. lock(M) = N \/ lock(M) = disable(N)
  BY DEF lock
<1> HIDE DEF N
<1>4. ListInv(N) /\ Holds(M, N)
  BY <1>1, <1>2 DEF ListInv, Once, Holds
<1>5. ListInv(disable(N)) /\ Holds(N, disable(N)) /\ disable(N).firing = N.firing
  BY <1>4, DisableInv
<1> QED BY <1>1, <1>3, <1>4, <1>5 DEF Holds, Once

LEMMA AddInv ==
  ASSUME NEW M, ListInv(M), NEW f \in Fns
  PROVE  /\ ListInv(add(M, f)) /\ Holds(M, add(M, f))
         /\ M.firing => add(M, f).firing
<1>1. CASE ~M.alive
  BY <1>1 DEF add, Holds
<1>2. CASE M.alive
  <2> DEFINE l == IF "unique" \in M.options /\ has(M, f) THEN M.list ELSE Append(M.list, f)
             N == IF "unique" \in M.options /\ has(M, f) THEN M ELSE [M EXCEPT !.list = Append(@, f)]
             m == Len(N.list)
             P == [N EXCEPT !.firingLength = m]
             a == Len(M.list)
             Q == [N EXCEPT !.firingStart = a]
  <2>1. l \in Seq(Fns) /\ a \in Nat
    BY DEF ListInv, ListOK
  <2>2. /\ N.options = M.options /\ N.alive = M.alive /\ N.list = l /\ N.queueing = M.queueing
        /\ N.stack = M.stack /\ N.fired = M.fired /\ N.firing = M.firing /\ N.data = M.data
        /\ N.firingStart = M.firingStart /\ N.memory = M.memory
    BY DEF ListInv, ListOK
  <2>3. ListOK(N)
    <3>1. CASE "unique" \in M.options /\ has(M, f)
      BY <3>1 DEF ListInv
    <3>2. CASE ~("unique" \in M.options /\ has(M, f))
      <4> DEFINE K == Append(M.list, f)
      <4>1. K \in Seq(Fns)
        BY DEF ListInv, ListOK
      <4> HIDE DEF K
      <4>2. ListOK([M EXCEPT !.list = K])
        BY <4>1 DEF ListInv, ListOK
      <4>3. N = [M EXCEPT !.list = K]
        BY <3>2 DEF K
      <4> QED BY <4>2, <4>3
    <3> QED BY <3>1, <3>2
  <2>4. add(M, f) = IF M.firing THEN P ELSE IF M.memory # NoData THEN begin(Q, M.memory) ELSE N
    BY <1>2 DEF add
  <2>5. m \in Nat
    BY <2>1, <2>2
  <2> HIDE DEF N, l, m, a
  <2>6. ListInv(N)
    BY <1>2, <2>2, <2>3 DEF ListInv, Once
  <2>7. ListInv(P) /\ Holds(M, P) /\ P.firing = M.firing
    <3>1. /\ P.options = N.options /\ P.alive = N.alive /\ P.list = N.list /\ P.queueing = N.queueing
          /\ P.stack = N.stack /\ P.fired = N.fired /\ P.firing = N.firing /\ P.data = N.data
          /\ P.firingStart = N.firingStart /\ P.memory = N.memory
      BY <2>3 DEF ListOK
    <3>2. ListOK(P)
      BY <2>3, <2>5 DEF ListOK
    <3> HIDE DEF P
    <3> QED BY <2>2, <2>6, <3>1, <3>2 DEF ListInv, Once, Holds
  <2>8. ASSUME ~M.firing, M.memory # NoData
        PROVE  ListInv(begin(Q, M.memory)) /\ Holds(M, begin(Q, M.memory))
    <3>1. Q.firingStart = a /\ Q.alive /\ Q.options = M.options
      BY <1>2, <2>2, <2>3 DEF ListOK
    <3>2. [Q EXCEPT !.firingStart = 0] = N
      BY <2>3, <2>6 DEF ListOK, ListInv
    <3>3. M.memory \in Data /\ M.fired /\ M.memory = M.data
      BY <2>8 DEF ListInv
    <3>4. Q \in [options : SUBSET Flags, alive : BOOLEAN, list : Seq(Fns),
           queueing : BOOLEAN, stack : Seq(Data), memory : Data \cup {NoData},
           fired : BOOLEAN, firing : BOOLEAN, data : Data \cup {NoData},
           firingStart : Nat, firingLength : Int, firingIndex : Int]
      BY <2>1, <2>3 DEF ListOK
    <3> HIDE DEF Q
    <3>5. /\ ListInv(begin(Q, M.memory)) /\ begin(Q, M.memory).options = Q.options
          /\ begin(Q, M.memory).fired /\ begin(Q, M.memory).data = M.memory
      BY <2>1, <2>6, <3>1, <3>2, <3>3, <3>4, BeginInv
    <3> QED BY <3>1, <3>3, <3>5 DEF Holds
  <2>9. Holds(M, N)
    BY <2>2 DEF Holds
  <2> HIDE DEF P, Q
  <2> QED BY <2>4, <2>6, <2>7, <2>8, <2>9
<1> QED BY <1>1, <1>2

LEMMA FireInv ==
  ASSUME NEW M, ListInv(M), NEW d \in Data
  PROVE  /\ ListInv(fireWith(M, d)) /\ Holds(M, fireWith(M, d))
         /\ M.firing => fireWith(M, d).firing
<1>1. CASE ~(M.alive /\ (~M.fired \/ M.queueing))
  BY <1>1 DEF fireWith, Holds
<1>2. CASE M.alive /\ (~M.fired \/ M.queueing) /\ M.firing
  <2> DEFINE k == Append(M.stack, d)
             N == [M EXCEPT !.stack = k]
  <2>1. k \in Seq(Data) /\ M.queueing
    BY <1>2 DEF ListInv, ListOK
  <2>2. fireWith(M, d) = N
    BY <1>2 DEF fireWith
  <2> HIDE DEF k
  <2>3. /\ N.options = M.options /\ N.alive = M.alive /\ N.list = M.list /\ N.queueing = M.queueing
        /\ N.fired = M.fired /\ N.firing = M.firing /\ N.data = M.data
        /\ N.firingStart = M.firingStart /\ N.memory = M.memory
    BY DEF ListInv, ListOK
  <2>4. ListOK(N)
    BY <2>1 DEF ListInv, ListOK
  <2> HIDE DEF N
  <2> QED BY <1>2, <2>1, <2>2, <2>3, <2>4 DEF ListInv, Once, Holds
<1>3. CASE M.alive /\ (~M.fired \/ M.queueing) /\ ~M.firing
  <2>1. fireWith(M, d) = begin(M, d)
    BY <1>3 DEF fireWith
  <2>2. [M EXCEPT !.firingStart = 0] = M /\ M.firingStart = 0
    BY DEF ListInv, ListOK
  <2>3. ListInv(begin(M, d)) /\ begin(M, d).options = M.options /\ begin(M, d).fired
    BY <1>3, <2>2, BeginInv, SMTT(30) DEF ListInv, ListOK
  <2>4. Once(M) => ~M.fired
    BY <1>3 DEF ListInv
  <2> QED BY <1>3, <2>1, <2>3, <2>4 DEF Holds
<1> QED BY <1>1, <1>2, <1>3

LEMMA FinishInv ==
  ASSUME NEW M, ListInv(M)
  PROVE  ListInv(finish(M)) /\ Holds(M, finish(M))
<1> DEFINE N == [M EXCEPT !.firing = FALSE]
<1>1. /\ N.options = M.options /\ N.alive = M.alive /\ N.list = M.list /\ N.queueing = M.queueing
      /\ N.stack = M.stack /\ N.fired = M.fired /\ N.firing = FALSE /\ N.data = M.data
      /\ N.firingStart = M.firingStart /\ N.memory = M.memory
  BY DEF ListInv, ListOK
<1>2. ListOK(N)
  BY DEF ListInv, ListOK
<1>3. finish(M) =
        IF ~N.alive THEN N
        ELSE IF N.queueing
             THEN IF N.stack = << >> THEN N
                  ELSE begin([N EXCEPT !.stack = Tail(N.stack)], Head(N.stack))
             ELSE IF N.memory # NoData THEN [N EXCEPT !.list = << >>] ELSE disable(N)
  BY DEF finish
<1> HIDE DEF N
<1>4. ListInv(N) /\ Holds(M, N)
  BY <1>1, <1>2 DEF ListInv, Once, Holds
<1>5. ASSUME N.alive, N.queueing, N.stack # << >>
      PROVE  /\ ListInv(begin([N EXCEPT !.stack = Tail(N.stack)], Head(N.stack)))
             /\ Holds(M, begin([N EXCEPT !.stack = Tail(N.stack)], Head(N.stack)))
  <2> DEFINE t == Tail(N.stack)
             h == Head(N.stack)
             P == [N EXCEPT !.stack = t]
  <2>1. t \in Seq(Data) /\ h \in Data
    BY <1>2, <1>5 DEF ListOK
  <2> HIDE DEF t, h
  <2>2. /\ P.options = N.options /\ P.alive = N.alive /\ P.list = N.list /\ P.queueing = N.queueing
        /\ P.fired = N.fired /\ P.firing = N.firing /\ P.data = N.data
        /\ P.firingStart = N.firingStart /\ P.memory = N.memory
    BY <1>2 DEF ListOK
  <2>3. ListOK(P)
    BY <1>2, <2>1 DEF ListOK
  <2>4. [P EXCEPT !.firingStart = 0] = P
    BY <1>2, <1>4 DEF ListOK, ListInv
  <2> HIDE DEF P
  <2>5. ListInv(P)
    BY <1>4, <1>5, <2>2, <2>3 DEF ListInv, Once
  <2>6. ListInv(begin(P, h)) /\ begin(P, h).options = P.options /\ begin(P, h).fired
    BY <1>5, <2>1, <2>2, <2>3, <2>4, <2>5, BeginInv, ZenonT(40) DEF ListOK
  <2>7. ~Once(M)
    BY <1>1, <1>4, <1>5 DEF ListInv, Once
  <2>8. Holds(M, begin(P, h))
    BY <1>1, <2>2, <2>6, <2>7 DEF Holds
  <2> QED BY <2>6, <2>8 DEF P, t, h
<1>6. ASSUME N.alive, ~N.queueing, N.memory # NoData
      PROVE  ListInv([N EXCEPT !.list = << >>]) /\ Holds(M, [N EXCEPT !.list = << >>])
  <2> DEFINE P == [N EXCEPT !.list = << >>]
  <2>1. /\ P.options = N.options /\ P.alive = N.alive /\ P.stack = N.stack /\ P.queueing = N.queueing
        /\ P.fired = N.fired /\ P.firing = N.firing /\ P.data = N.data
        /\ P.firingStart = N.firingStart /\ P.memory = N.memory
    BY <1>2 DEF ListOK
  <2>2. ListOK(P)
    <3>1. << >> \in Seq(Fns)
      OBVIOUS
    <3> QED BY <1>2, <3>1 DEF ListOK
  <2> HIDE DEF P
  <2>3. ListInv(P) /\ Holds(M, P)
    BY <1>1, <1>4, <1>6, <2>1, <2>2 DEF ListInv, Once, Holds
  <2> QED BY <2>3 DEF P
<1>7. ListInv(disable(N)) /\ Holds(M, disable(N))
  BY <1>4, DisableInv DEF Holds, Once
<1> QED BY <1>3, <1>4, <1>5, <1>6, <1>7

LEMMA ReturnedInv ==
  ASSUME NEW M, ListInv(M), NEW false \in BOOLEAN
  PROVE  /\ ListInv(returned(M, false)) /\ Holds(M, returned(M, false))
         /\ ~(false /\ "stopOnFalse" \in M.options) => returned(M, false).firing = M.firing
<1>1. CASE false /\ "stopOnFalse" \in M.options
  <2> DEFINE N == [M EXCEPT !.memory = NoData]
  <2>1. /\ N.options = M.options /\ N.alive = M.alive /\ N.list = M.list /\ N.queueing = M.queueing
        /\ N.stack = M.stack /\ N.fired = M.fired /\ N.firing = M.firing /\ N.data = M.data
        /\ N.firingStart = M.firingStart /\ N.memory = NoData
    BY DEF ListInv, ListOK
  <2>2. ListOK(N)
    BY DEF ListInv, ListOK
  <2>3. returned(M, false) = finish(N)
    BY <1>1 DEF returned
  <2> HIDE DEF N
  <2>4. ListInv(N) /\ Holds(M, N)
    BY <2>1, <2>2 DEF ListInv, Once, Holds
  <2>5. ListInv(finish(N)) /\ Holds(N, finish(N))
    BY <2>4, FinishInv
  <2> QED BY <1>1, <2>3, <2>4, <2>5 DEF Holds, Once
<1>2. CASE ~(false /\ "stopOnFalse" \in M.options)
  <2> DEFINE i == M.firingIndex + 1
             N == [M EXCEPT !.firingIndex = i]
  <2>1. i \in Int /\ i >= -1
    BY DEF ListInv, ListOK
  <2>2. returned(M, false) = N
    BY <1>2 DEF returned
  <2> HIDE DEF i
  <2>3. /\ N.options = M.options /\ N.alive = M.alive /\ N.list = M.list /\ N.queueing = M.queueing
        /\ N.stack = M.stack /\ N.fired = M.fired /\ N.firing = M.firing /\ N.data = M.data
        /\ N.firingStart = M.firingStart /\ N.memory = M.memory
    BY DEF ListInv, ListOK
  <2>4. ListOK(N)
    BY <2>1 DEF ListInv, ListOK
  <2> HIDE DEF N
  <2> QED BY <2>2, <2>3, <2>4 DEF ListInv, Once, Holds
<1> QED BY <1>1, <1>2

------------------------------------------------------------------------------
(* Steps. *)

LEMMA NewListInv ==
  ASSUME NEW options \in SUBSET Flags
  PROVE  LET M == NewList(options) IN
         ListInv(M) /\ ~M.firing /\ ~M.fired /\ M.memory = NoData /\ M.stack = << >> /\ M.list = << >>
<1> DEFINE M == NewList(options)
           q == "once" \notin options
<1>1. << >> \in Seq(Fns) /\ << >> \in Seq(Data) /\ q \in BOOLEAN
  OBVIOUS
<1>2. M = [options |-> options, alive |-> TRUE, list |-> << >>,
           queueing |-> q, stack |-> << >>,
           memory |-> NoData, fired |-> FALSE, firing |-> FALSE, data |-> NoData,
           firingStart |-> 0, firingLength |-> 0, firingIndex |-> 0]
  BY DEF NewList
<1> HIDE DEF q, M
<1>3. ListOK(M)
  BY <1>1, <1>2 DEF ListOK
<1>4. /\ M.alive /\ M.options = options /\ M.queueing = q /\ M.stack = << >> /\ M.memory = NoData
      /\ ~M.fired /\ ~M.firing /\ M.firingStart = 0 /\ M.list = << >>
  BY <1>2
<1> QED BY <1>3, <1>4 DEF ListInv, Once, q, M

LEMMA InitBase == ASSUME OptionsAssumption PROVE Init => Base
<1> SUFFICES ASSUME Init PROVE Base
  OBVIOUS
<1>1. PICK options \in OptionSets : L = NewList(options)
  BY DEF Init
<1>2. ListInv(L) /\ ~L.firing /\ ~L.fired
  BY <1>1, NewListInv DEF OptionsAssumption
<1> QED BY <1>2 DEF Init, Base, OnceInv

\* A method that keeps the list in order keeps Base.
LEMMA CalledBase ==
  ASSUME Base, NEW M, ListInv(M), Holds(L, M), L.firing => M.firing, NEW from, NEW running,
         Called(M, from, running)
  PROVE  Base'
<1>1. L' = M /\ last' = last /\ pc' = (IF M.firing /\ ~L.firing THEN "loop" ELSE pc)
  BY DEF Called
<1>2. ListInv(L)'
  BY <1>1
<1>3. pc' \in {"idle", "loop", "call"} /\ (pc' # "idle" => M.firing)
  BY <1>1 DEF Base
<1>4. OnceInv'
  BY <1>1 DEF Base, OnceInv, Holds, Once
<1> QED BY <1>1, <1>2, <1>3, <1>4 DEF Base

LEMMA StepBase == Base /\ [Next]_vars => Base'
<1> SUFFICES ASSUME Base, [Next]_vars PROVE Base'
  OBVIOUS
<1>0. ListInv(L)
  BY DEF Base
<1>1. ASSUME NEW f \in Fns, AddFn(f) PROVE Base'
  BY <1>0, <1>1, AddInv, CalledBase DEF AddFn
<1>2. ASSUME NEW f \in Fns, RemoveFn(f) PROVE Base'
  BY <1>0, <1>2, RemoveInv, CalledBase DEF RemoveFn
<1>3. ASSUME NEW d \in Data, Fire(d) PROVE Base'
  BY <1>0, <1>3, FireInv, CalledBase DEF Fire
<1>4. CASE Empty
  BY <1>0, <1>4, EmptyInv, CalledBase DEF Empty
<1>5. CASE Disable
  BY <1>0, <1>5, DisableInv, CalledBase DEF Disable
<1>6. CASE Lock
  BY <1>0, <1>6, LockInv, CalledBase DEF Lock
<1>7. CASE Iterate
  <2>1. CASE More(L) /\ Missing(L)
    BY <1>7, <2>1 DEF Iterate, Base, OnceInv, Once
  <2>2. CASE More(L) /\ ~Missing(L)
    <3>1. L' = L /\ pc' = "call" /\ last' = [last EXCEPT ![Current(L)] = L.data] /\ pc = "loop"
      BY <1>7, <2>2 DEF Iterate
    <3>2. L.fired /\ L.data \in Data
      BY <3>1 DEF Base, ListInv
    <3>3. last' \in [Fns -> Data \cup {NoData}]
      BY <3>1, <3>2 DEF Base
    <3>4. OnceInv'
      BY <3>1, <3>2 DEF Base, OnceInv, Once
    <3> QED BY <3>1, <3>3, <3>4 DEF Base
  <2>3. CASE ~More(L)
    <3>1. L' = finish(L) /\ pc' = (IF L'.firing THEN "loop" ELSE "idle") /\ last' = last
      BY <1>7, <2>3 DEF Iterate
    <3>2. ListInv(L)' /\ Holds(L, L')
      BY <1>0, <3>1, FinishInv
    <3> QED BY <3>1, <3>2 DEF Base, OnceInv, Holds, Once
  <2> QED BY <2>1, <2>2, <2>3
<1>8. CASE Throw
  BY <1>8 DEF Throw, Base, OnceInv, Once
<1>9. ASSUME NEW false \in BOOLEAN, Return(false) PROVE Base'
  <2> DEFINE stopped == false /\ "stopOnFalse" \in L.options
  <2>1. L' = returned(L, false) /\ pc' = (IF stopped /\ ~L'.firing THEN "idle" ELSE "loop") /\ last' = last /\ pc = "call"
    BY <1>9 DEF Return, Busy
  <2>2. ListInv(L)' /\ Holds(L, L') /\ (~stopped => L'.firing = L.firing)
    BY <1>0, <2>1, ReturnedInv
  <2> HIDE DEF stopped
  <2> QED BY <2>1, <2>2 DEF Base, OnceInv, Holds, Once
<1>10. CASE UNCHANGED vars
  BY <1>10 DEF vars, Base, OnceInv, Once
<1> QED BY <1>1, <1>2, <1>3, <1>4, <1>5, <1>6, <1>7, <1>8, <1>9, <1>10 DEF Next

\* The functions of a list that fires once never see two values, even when
\* functions throw and empty the list under the loop.
THEOREM OnceMeansOnce == ASSUME OptionsAssumption PROVE Spec => []OnceOnly
<1>1. Base => OnceOnly
  BY DEF Base, OnceInv, OnceOnly, Once
<1> QED BY <1>1, InitBase, StepBase, PTL DEF Spec

------------------------------------------------------------------------------
(* Batches, when no function throws or empties its list. *)

\* How far the loop of a list has come.
Position(M, p) == M.firingIndex + (IF p = "call" THEN 1 ELSE 0)

\* What holds of the batch of a list, where its loop stands at p, owes the
\* calls d, and has made the last calls l.
BatchOf(M, p, d, l) ==
  /\ M.firing <=> p # "idle"
  /\ d \in Seq(Fns)
  /\ p # "idle" /\ M.alive =>
       /\ Position(M, p) \in 0..Len(M.list)
       /\ M.firingLength = Len(M.list)
       /\ d = SubSeq(M.list, Position(M, p) + 1, Len(M.list))
  /\ p = "idle" => M.stack = << >>
  /\ M.memory # NoData =>
       \A i \in DOMAIN M.list : p = "idle" \/ i <= Position(M, p) => l[M.list[i]] = M.memory

LEMMA ListType ==
  ASSUME NEW M, ListInv(M)
  PROVE  /\ M.list \in Seq(Fns) /\ Len(M.list) \in Nat /\ DOMAIN M.list = 1..Len(M.list)
         /\ M.firingIndex \in Int /\ M.stack \in Seq(Data) /\ M.firing \in BOOLEAN /\ M.alive \in BOOLEAN
  BY DEF ListInv, ListOK

LEMMA RestType ==
  ASSUME NEW T, NEW s \in Seq(T), NEW n \in 0..Len(s)
  PROVE  SubSeq(s, n + 1, Len(s)) \in Seq(T)
  OBVIOUS

LEMMA BeginBatch ==
  ASSUME NEW M, M.list \in Seq(Fns), NEW x, NEW l, M.firingStart \in 0..Len(M.list),
         \A i \in 1..M.firingStart : l[M.list[i]] = x,
         M \in [options : SUBSET Flags, alive : BOOLEAN, list : Seq(Fns),
           queueing : BOOLEAN, stack : Seq(Data), memory : Data \cup {NoData},
           fired : BOOLEAN, firing : BOOLEAN, data : Data \cup {NoData},
           firingStart : Nat, firingLength : Int, firingIndex : Int]
  PROVE  BatchOf(begin(M, x), "loop", SubSeq(M.list, M.firingStart + 1, Len(M.list)), l)
<1> DEFINE N == begin(M, x)
<1>1. /\ N.list = M.list /\ N.firing = TRUE /\ N.firingLength = Len(M.list)
      /\ N.firingIndex = M.firingStart /\ N.memory \in {x, NoData}
  BY DEF begin
<1> HIDE DEF N
<1>2. SubSeq(M.list, M.firingStart + 1, Len(M.list)) \in Seq(Fns)
  BY RestType
<1>3. Position(N, "loop") = M.firingStart
  BY <1>1 DEF Position
<1>4. DOMAIN N.list = 1..Len(M.list)
  BY <1>1
<1>5. N.memory # NoData => \A i \in DOMAIN N.list : i <= M.firingStart => l[N.list[i]] = N.memory
  BY <1>1, <1>4
<1> QED BY <1>1, <1>2, <1>3, <1>5 DEF BatchOf, N

LEMMA FinishBatch ==
  ASSUME NEW M, ListInv(M), NEW d \in Seq(Fns), NEW l,
         M.memory # NoData => \A i \in DOMAIN M.list : l[M.list[i]] = M.memory
  PROVE  LET N == finish(M) IN
         BatchOf(N, IF N.firing THEN "loop" ELSE "idle", IF N.firing THEN N.list ELSE d, l)
<1> DEFINE N == [M EXCEPT !.firing = FALSE]
           P == finish(M)
           Good(Q) == BatchOf(Q, IF Q.firing THEN "loop" ELSE "idle", IF Q.firing THEN Q.list ELSE d, l)
<1>1. /\ N.options = M.options /\ N.alive = M.alive /\ N.list = M.list /\ N.queueing = M.queueing
      /\ N.stack = M.stack /\ N.fired = M.fired /\ N.firing = FALSE /\ N.data = M.data
      /\ N.firingStart = M.firingStart /\ N.memory = M.memory
  BY DEF ListInv, ListOK
<1>2. ListOK(N)
  BY DEF ListInv, ListOK
<1>3. P = IF ~N.alive THEN N
          ELSE IF N.queueing
               THEN IF N.stack = << >> THEN N
                    ELSE begin([N EXCEPT !.stack = Tail(N.stack)], Head(N.stack))
               ELSE IF N.memory # NoData THEN [N EXCEPT !.list = << >>] ELSE disable(N)
  BY DEF finish
<1>0. /\ ~M.alive => M.list = << >> /\ ~M.queueing /\ M.memory = NoData
      /\ ~M.queueing => M.stack = << >>
      /\ M.firingStart = 0
  BY DEF ListInv
<1> HIDE DEF N
<1>4. CASE P = N /\ (~N.alive \/ N.stack = << >>)
  <2>1. N.stack = << >>
    BY <1>0, <1>1, <1>4
  <2> QED BY <1>1, <1>4, <2>1 DEF BatchOf
<1>5. CASE P = begin([N EXCEPT !.stack = Tail(N.stack)], Head(N.stack)) /\ N.stack # << >>
  <2> DEFINE t == Tail(N.stack)
             h == Head(N.stack)
             R == [N EXCEPT !.stack = t]
  <2>1. t \in Seq(Data)
    BY <1>2, <1>5 DEF ListOK
  <2> HIDE DEF t, h
  <2>2. R.list = N.list /\ R.firingStart = 0
    BY <1>0, <1>1, <1>2 DEF ListOK
  <2>3. R \in [options : SUBSET Flags, alive : BOOLEAN, list : Seq(Fns),
           queueing : BOOLEAN, stack : Seq(Data), memory : Data \cup {NoData},
           fired : BOOLEAN, firing : BOOLEAN, data : Data \cup {NoData},
           firingStart : Nat, firingLength : Int, firingIndex : Int]
    BY <1>2, <2>1 DEF ListOK
  <2>4. R.list \in Seq(Fns) /\ Len(R.list) \in Nat
    BY <2>3
  <2>5. begin(R, h).list = R.list /\ begin(R, h).firing
    BY <2>3 DEF begin
  <2> HIDE DEF R
  <2>6. BatchOf(begin(R, h), "loop", SubSeq(R.list, 1, Len(R.list)), l)
    <3>1. \A i \in 1..R.firingStart : l[R.list[i]] = h
      BY <2>2
    <3>2. R.firingStart \in 0..Len(R.list) /\ R.firingStart + 1 = 1
      BY <2>2, <2>4
    <3>3. BatchOf(begin(R, h), "loop", SubSeq(R.list, R.firingStart + 1, Len(R.list)), l)
      BY <2>3, <2>4, <3>1, <3>2, BeginBatch
    <3> QED BY <3>2, <3>3
  <2>7. SubSeq(R.list, 1, Len(R.list)) = R.list
    BY <2>4
  <2>8. P = begin(R, h)
    BY <1>5 DEF R, t, h
  <2> QED BY <2>5, <2>6, <2>7, <2>8
<1>6. CASE P = [N EXCEPT !.list = << >>] /\ ~N.queueing
  <2>1. P.list = << >> /\ ~P.firing /\ P.stack = << >>
    BY <1>0, <1>1, <1>2, <1>6 DEF ListOK
  <2>2. DOMAIN P.list = {}
    BY <2>1
  <2>3. (IF P.firing THEN "loop" ELSE "idle") = "idle" /\ (IF P.firing THEN P.list ELSE d) = d
    BY <2>1
  <2> HIDE DEF P
  <2>4. BatchOf(P, "idle", d, l)
    BY <2>1, <2>2 DEF BatchOf
  <2> QED BY <2>3, <2>4 DEF P
<1>7. CASE P = disable(N)
  <2>1. P.list = << >> /\ ~P.firing /\ P.stack = << >>
    BY <1>1, <1>2, <1>7 DEF ListOK, disable
  <2>2. DOMAIN P.list = {}
    BY <2>1
  <2>3. (IF P.firing THEN "loop" ELSE "idle") = "idle" /\ (IF P.firing THEN P.list ELSE d) = d
    BY <2>1
  <2> HIDE DEF P
  <2>4. BatchOf(P, "idle", d, l)
    BY <2>1, <2>2 DEF BatchOf
  <2> QED BY <2>3, <2>4 DEF P
<1> HIDE DEF P
<1> QED BY <1>3, <1>4, <1>5, <1>6, <1>7 DEF P
BatchInv == Base /\ BatchOf(L, pc, due, last)

LEMMA AddBatch ==
  ASSUME BatchInv, NEW f \in Fns, AddFn(f)
  PROVE  BatchOf(L, pc, due, last)'
<1> DEFINE M == add(L, f)
<1>1. /\ L' = M /\ last' = last /\ pc \in {"idle", "call"}
      /\ pc' = (IF M.firing /\ ~L.firing THEN "loop" ELSE pc)
      /\ due' = IF M.firing /\ ~L.firing THEN SubSeq(M.list, Len(L.list) + 1, Len(M.list))
                ELSE IF Busy /\ Len(M.list) > Len(L.list) THEN Append(due, f) ELSE due
  BY DEF AddFn, Called, Free
<1>2. ListInv(L) /\ BatchOf(L, pc, due, last)
  BY DEF BatchInv, Base
<1>3. CASE ~L.alive
  <2>1. M = L
    BY <1>3 DEF add
  <2>2. pc' = pc /\ due' = due
    <3>1. ~(Len(L.list) > Len(L.list))
      BY <1>2, ListType
    <3> HIDE DEF M
    <3> QED BY <1>1, <2>1, <3>1
  <2> HIDE DEF M
  <2> QED BY <1>1, <1>2, <2>1, <2>2
<1>4. CASE L.alive
  <2> DEFINE u == "unique" \in L.options /\ has(L, f)
             l == IF u THEN L.list ELSE Append(L.list, f)
             N == IF u THEN L ELSE [L EXCEPT !.list = Append(@, f)]
             m == Len(N.list)
             P == [N EXCEPT !.firingLength = m]
             a == Len(L.list)
             Q == [N EXCEPT !.firingStart = a]
  <2>1. /\ L.list \in Seq(Fns) /\ l \in Seq(Fns) /\ a \in Nat /\ Len(l) \in Nat
        /\ Len(l) = a \/ Len(l) = a + 1
        /\ \A i \in 1..a : l[i] = L.list[i]
    BY <1>2, ListType
  <2>2. /\ N.alive = L.alive /\ N.list = l /\ N.stack = L.stack /\ N.firing = L.firing
        /\ N.firingIndex = L.firingIndex /\ N.memory = L.memory /\ N.firingLength = L.firingLength
    BY <1>2 DEF ListInv, ListOK
  <2>3. ListOK(N)
    <3>1. CASE u
      BY <1>2, <3>1 DEF ListInv
    <3>2. CASE ~u
      <4> DEFINE K == Append(L.list, f)
      <4>1. K \in Seq(Fns)
        BY <2>1
      <4> HIDE DEF K
      <4>2. ListOK([L EXCEPT !.list = K])
        BY <1>2, <4>1 DEF ListInv, ListOK
      <4>3. N = [L EXCEPT !.list = K]
        BY <3>2 DEF K
      <4> QED BY <4>2, <4>3
    <3> QED BY <3>1, <3>2
  <2>4. M = IF L.firing THEN P ELSE IF L.memory # NoData THEN begin(Q, L.memory) ELSE N
    BY <1>4 DEF add
  <2>0. m = Len(l) /\ (~u => l = Append(L.list, f)) /\ (u => l = L.list)
    BY <2>2
  <2>5. CASE L.firing
    <3> HIDE DEF N, l, m, a, u, M
    <3>1. pc = "call" /\ Busy
      BY <1>1, <1>2, <2>5 DEF BatchOf, Busy
    <3>2. /\ M.list = l /\ M.firing /\ M.firingLength = Len(l) /\ M.firingIndex = L.firingIndex
          /\ M.memory = L.memory /\ M.alive
      BY <1>4, <2>0, <2>2, <2>3, <2>4, <2>5 DEF ListOK
    <3>3. /\ Position(L, "call") \in 0..a /\ L.firingLength = a
          /\ due = SubSeq(L.list, Position(L, "call") + 1, a) /\ due \in Seq(Fns)
      BY <1>2, <1>4, <3>1 DEF BatchOf, a
    <3>4. Position(M, "call") = Position(L, "call") /\ Position(L, "call") \in 0..Len(l)
      <4>1. Position(M, "call") = Position(L, "call")
        BY <3>2 DEF Position
      <4> QED BY <2>1, <3>3, <4>1
    <3>5. due' = SubSeq(l, Position(L, "call") + 1, Len(l)) /\ due' \in Seq(Fns)
      <4>1. due' = IF Len(l) > a THEN Append(due, f) ELSE due
        BY <1>1, <2>5, <3>1, <3>2 DEF a
      <4>2. CASE u
        <5>1. l = L.list /\ Len(l) = a
          BY <2>0, <4>2 DEF a
        <5> QED BY <2>1, <3>3, <4>1, <5>1
      <4>3. CASE ~u
        <5>1. l = Append(L.list, f) /\ Len(l) = a + 1
          BY <2>0, <2>1, <4>3 DEF a
        <5>2. due' = Append(due, f)
          BY <2>1, <4>1, <5>1
        <5>3. Append(SubSeq(L.list, Position(L, "call") + 1, Len(L.list)), f) =
                SubSeq(Append(L.list, f), Position(L, "call") + 1, Len(Append(L.list, f)))
          BY <2>1, <3>3, AppendRest DEF a
        <5>4. due' \in Seq(Fns)
          BY <3>3, <5>2
        <5> QED BY <3>3, <5>1, <5>2, <5>3, <5>4 DEF a
      <4> QED BY <4>2, <4>3
    <3>6. pc' = "call" /\ L' = M /\ last' = last
      BY <1>1, <2>5, <3>1
    <3>7. ASSUME M.memory # NoData, NEW i \in DOMAIN M.list, i <= Position(M, "call")
          PROVE  last[M.list[i]] = M.memory
      <4>1. i \in 1..a
        BY <2>1, <3>2, <3>3, <3>4, <3>7
      <4>2. i \in DOMAIN L.list /\ l[i] = L.list[i]
        BY <2>1, <4>1 DEF a
      <4>3. last[L.list[i]] = L.memory
        BY <1>2, <3>1, <3>2, <3>4, <3>7, <4>2 DEF BatchOf
      <4> QED BY <3>2, <4>2, <4>3
    <3>8. BatchOf(M, "call", due', last)
      BY <3>2, <3>4, <3>5, <3>7 DEF BatchOf
    <3> QED BY <3>6, <3>8
  <2>6. CASE ~L.firing /\ L.memory # NoData
    <3>1. M = begin(Q, L.memory) /\ pc = "idle"
      BY <1>2, <2>4, <2>6 DEF BatchOf
    <3> HIDE DEF N, l, m, u, M
    <3>2. Q.firingStart = a /\ Q.list = l /\ Q \in [options : SUBSET Flags, alive : BOOLEAN, list : Seq(Fns),
           queueing : BOOLEAN, stack : Seq(Data), memory : Data \cup {NoData},
           fired : BOOLEAN, firing : BOOLEAN, data : Data \cup {NoData},
           firingStart : Nat, firingLength : Int, firingIndex : Int]
      BY <2>1, <2>2, <2>3 DEF ListOK
    <3>3. \A i \in 1..a : last[l[i]] = L.memory
      <4>1. \A i \in 1..a : i \in DOMAIN L.list
        BY <2>1
      <4> QED BY <1>2, <2>1, <2>6, <3>1, <4>1 DEF BatchOf
    <3> HIDE DEF a
    <3>4. BatchOf(begin(Q, L.memory), "loop", SubSeq(Q.list, Q.firingStart + 1, Len(Q.list)), last)
      <4>1. Q.firingStart \in 0..Len(Q.list)
        BY <2>1, <3>2
      <4>2. \A i \in 1..Q.firingStart : last[Q.list[i]] = L.memory
        BY <3>2, <3>3
      <4>3. Q.list \in Seq(Fns)
        BY <2>1, <3>2
      <4> HIDE DEF Q
      <4> QED BY <3>2, <4>1, <4>2, <4>3, BeginBatch
    <3>5. M.list = l /\ M.firing
      BY <3>1, <3>2 DEF begin
    <3>6. L' = M /\ last' = last /\ pc' = "loop" /\ due' = SubSeq(l, a + 1, Len(l))
      BY <1>1, <2>6, <3>5 DEF a
    <3> QED BY <3>1, <3>2, <3>4, <3>6
  <2>7. CASE ~L.firing /\ L.memory = NoData
    <3>1. M = N /\ pc = "idle"
      BY <1>2, <2>4, <2>7 DEF BatchOf
    <3> HIDE DEF N, l, m, u, M
    <3>2. L' = M /\ last' = last /\ pc' = "idle" /\ due' = due
      BY <1>1, <2>2, <2>7, <3>1 DEF Busy
    <3>3. BatchOf(M, "idle", due, last)
      BY <1>2, <2>2, <2>7, <3>1 DEF BatchOf
    <3> QED BY <3>2, <3>3
  <2> QED BY <2>5, <2>6, <2>7
<1> QED BY <1>2, <1>3, <1>4, ListType

LEMMA FireBatch ==
  ASSUME BatchInv, NEW d \in Data, Fire(d)
  PROVE  BatchOf(L, pc, due, last)'
<1> DEFINE M == fireWith(L, d)
<1>1. /\ L' = M /\ last' = last /\ pc \in {"idle", "call"}
      /\ pc' = (IF M.firing /\ ~L.firing THEN "loop" ELSE pc)
      /\ due' = IF M.firing /\ ~L.firing THEN SubSeq(M.list, 0 + 1, Len(M.list)) ELSE due
  BY DEF Fire, Called, Free
<1>2. ListInv(L) /\ BatchOf(L, pc, due, last)
  BY DEF BatchInv, Base
<1>3. CASE ~(L.alive /\ (~L.fired \/ L.queueing))
  <2>1. M = L
    BY <1>3 DEF fireWith
  <2> HIDE DEF M
  <2> QED BY <1>1, <1>2, <2>1
<1>4. CASE L.alive /\ (~L.fired \/ L.queueing) /\ L.firing
  <2> DEFINE k == Append(L.stack, d)
  <2>1. M = [L EXCEPT !.stack = k]
    BY <1>4 DEF fireWith
  <2> HIDE DEF k
  <2>2. /\ M.alive = L.alive /\ M.list = L.list /\ M.firing = L.firing
        /\ M.firingIndex = L.firingIndex /\ M.memory = L.memory /\ M.firingLength = L.firingLength
    BY <1>2, <2>1 DEF ListInv, ListOK
  <2> HIDE DEF M
  <2>3. Position(M, pc) = Position(L, pc) /\ pc # "idle"
    BY <1>2, <1>4, <2>2 DEF Position, BatchOf
  <2>4. BatchOf(M, pc, due, last)
    BY <1>2, <2>2, <2>3 DEF BatchOf
  <2> QED BY <1>1, <1>4, <2>2, <2>4
<1>5. CASE L.alive /\ (~L.fired \/ L.queueing) /\ ~L.firing
  <2>1. M = begin(L, d)
    BY <1>5 DEF fireWith
  <2>2. L.firingStart = 0 /\ L.list \in Seq(Fns) /\ Len(L.list) \in Nat
    BY <1>2, ListType DEF ListInv
  <2>3. L.firingStart \in 0..Len(L.list) /\ \A i \in 1..L.firingStart : last[L.list[i]] = d
    BY <2>2
  <2>4. BatchOf(begin(L, d), "loop", SubSeq(L.list, L.firingStart + 1, Len(L.list)), last)
    BY <1>2, <2>2, <2>3, BeginBatch DEF ListInv, ListOK
  <2>5. M.list = L.list /\ M.firing
    BY <1>2, <2>1 DEF begin, ListInv, ListOK
  <2> HIDE DEF M
  <2> QED BY <1>1, <1>5, <2>1, <2>2, <2>4, <2>5
<1> QED BY <1>3, <1>4, <1>5

LEMMA RemoveBatch ==
  ASSUME BatchInv, NEW f \in Fns, RemoveFn(f)
  PROVE  BatchOf(L, pc, due, last)'
<1> DEFINE M == remove(L, f)
           k == Kept(L.list, f)
           w == Without(L.list, f)
           gone(index) == IF L.firing THEN Cardinality(Copies(L.list, f, index + 1)) ELSE 0
<1>1. /\ L' = M /\ last' = last /\ pc \in {"idle", "call"}
      /\ pc' = (IF M.firing /\ ~L.firing THEN "loop" ELSE pc)
      /\ due' = IF M.firing /\ ~L.firing THEN SubSeq(M.list, 0 + 1, Len(M.list)) ELSE Without(due, f)
  BY DEF RemoveFn, Called, Free
<1>2. ListInv(L) /\ BatchOf(L, pc, due, last)
  BY DEF BatchInv, Base
<1>3. M.firing = L.firing
  BY <1>2, RemoveInv
<1>4. L.list \in Seq(Fns) /\ Len(L.list) \in Nat /\ due \in Seq(Fns)
  BY <1>2, ListType DEF BatchOf
<1>5. Without(due, f) \in Seq(Fns) /\ w \in Seq(Fns) /\ Len(w) \in Nat
  <2>1. Len(due) \in 0..Len(due) /\ Len(L.list) \in 0..Len(L.list)
    BY <1>4
  <2> QED BY <1>4, <2>1, KeptType DEF Without
<1>6. pc' = pc /\ due' = Without(due, f)
  BY <1>1, <1>3
<1>7. CASE ~L.alive
  <2>1. M = L
    BY <1>7 DEF remove
  <2> HIDE DEF M
  <2> QED BY <1>1, <1>2, <1>5, <1>6, <1>7, <2>1 DEF BatchOf
<1>8. CASE L.alive
  <2>1. /\ M.list = w /\ M.stack = L.stack /\ M.memory = L.memory /\ M.alive = L.alive
        /\ M.firingLength = L.firingLength - gone(L.firingLength)
        /\ M.firingIndex = L.firingIndex - gone(L.firingIndex)
    BY <1>2, <1>8 DEF remove, ListInv, ListOK
  <2>2. \A i \in DOMAIN w : \E j \in DOMAIN L.list : L.list[j] = w[i]
    <3>1. \A i \in 1..Len(w) : \E j \in 1..Len(L.list) : L.list[j] = w[i]
      <4>1. Len(L.list) \in 0..Len(L.list)
        BY <1>4
      <4> QED BY <1>4, <4>1, KeptFrom, SMTT(30) DEF Without
    <3> QED BY <1>4, <1>5, <3>1
  <2>3. CASE pc = "idle"
    <3>1. ASSUME M.memory # NoData, NEW i \in DOMAIN M.list PROVE last[M.list[i]] = M.memory
      <4> HIDE DEF M, w
      <4> QED BY <1>2, <2>1, <2>2, <2>3, <3>1 DEF BatchOf
    <3> HIDE DEF M, w
    <3> QED BY <1>1, <1>2, <1>3, <1>5, <1>6, <2>1, <2>3, <3>1 DEF BatchOf
  <2>4. CASE pc = "call"
    <3> DEFINE n == L.firingIndex + 1
    <3>1. /\ n \in 0..Len(L.list) /\ L.firingLength = Len(L.list) /\ L.firing
          /\ due = SubSeq(L.list, n + 1, Len(L.list))
      BY <1>2, <1>8, <2>4 DEF BatchOf, Position
    <3>2. L.firingIndex \in Int
      BY <1>2, ListType
    <3>3. Len(k[n]) = n - Cardinality(Copies(L.list, f, n)) /\ k[n] \in Seq(Fns) /\ Len(k[n]) \in Nat
      BY <1>4, <3>1, KeptLen, KeptType
    <3>4. Position(M, "call") = Len(k[n])
      <4>1. gone(L.firingIndex) = Cardinality(Copies(L.list, f, n))
        BY <3>1
      <4>2. Cardinality(Copies(L.list, f, n)) \in Nat
        BY <1>4, <3>1, CopiesType
      <4> HIDE DEF gone, M, k
      <4> QED BY <2>1, <3>2, <3>3, <4>1, <4>2 DEF Position
    <3>5. Len(w) = Len(L.list) - Cardinality(Copies(L.list, f, Len(L.list)))
      <4>1. Len(L.list) \in 0..Len(L.list)
        BY <1>4
      <4> QED BY <1>4, <4>1, KeptLen DEF Without
    <3>6. M.firingLength = Len(w)
      <4>1. Copies(L.list, f, Len(L.list) + 1) = Copies(L.list, f, Len(L.list))
        BY <1>4 DEF Copies
      <4>2. gone(L.firingLength) = Cardinality(Copies(L.list, f, Len(L.list)))
        BY <3>1, <4>1
      <4> HIDE DEF gone, M, w
      <4> QED BY <2>1, <3>1, <3>5, <4>2
    <3>7. Len(k[n]) <= Len(w) /\ \A i \in 1..Len(k[n]) : w[i] = k[n][i]
      <4>1. Len(L.list) \in n..Len(L.list)
        BY <1>4, <3>1
      <4>2. \A m \in n..Len(L.list) : Begins(k[n], k[m])
        <5>1. L.list \in Seq(Fns) /\ n \in 0..Len(L.list)
          BY <1>4, <3>1
        <5> HIDE DEF n
        <5> QED BY <5>1, KeptPrefix
      <4>3. w = k[Len(L.list)]
        BY DEF Without
      <4> HIDE DEF w, k, n
      <4> QED BY <4>1, <4>2, <4>3 DEF Begins
    <3>8. due' = SubSeq(w, Position(M, "call") + 1, Len(w))
      <4>1. Without(SubSeq(L.list, n + 1, Len(L.list)), f) = SubSeq(w, Len(k[n]) + 1, Len(w))
        BY <1>4, <3>1, WithoutRest
      <4> HIDE DEF M, w, k, n
      <4> QED BY <1>6, <3>1, <3>4, <4>1
    <3>9. ASSUME M.memory # NoData, NEW i \in DOMAIN M.list, i <= Position(M, "call")
          PROVE  last[M.list[i]] = M.memory
      <4>0. i \in 1..Len(w)
        BY <1>5, <2>1
      <4>1. i \in 1..Len(k[n])
        BY <3>3, <3>4, <3>9, <4>0
      <4>2. PICK j \in 1..n : L.list[j] = k[n][i]
        <5>1. L.list \in Seq(Fns) /\ n \in 0..Len(L.list)
          BY <1>4, <3>1
        <5> HIDE DEF n
        <5>2. \A h \in 1..Len(k[n]) : \E j \in 1..n : L.list[j] = k[n][h] /\ L.list[j] # f
          BY <5>1, KeptFrom
        <5> QED BY <4>1, <5>2
      <4>3. j \in DOMAIN L.list /\ j <= Position(L, "call")
        BY <1>4, <3>1, <4>2 DEF Position
      <4>4. last[L.list[j]] = L.memory
        <5> HIDE DEF M
        <5> QED BY <1>2, <2>1, <2>4, <3>9, <4>3 DEF BatchOf
      <4> HIDE DEF M, w, k
      <4> QED BY <2>1, <3>7, <4>1, <4>2, <4>4
    <3> HIDE DEF M, w, k, n
    <3>10. Position(M, "call") \in 0..Len(w)
      BY <1>5, <3>3, <3>4, <3>7
    <3>11. BatchOf(M, "call", due', last)
      BY <1>3, <1>5, <1>6, <2>1, <3>1, <3>6, <3>8, <3>9, <3>10 DEF BatchOf
    <3> QED BY <1>1, <1>6, <2>4, <3>11
  <2> QED BY <1>1, <2>3, <2>4
<1> QED BY <1>2, <1>7, <1>8, ListType

LEMMA DisableBatch ==
  ASSUME BatchInv, Disable
  PROVE  BatchOf(L, pc, due, last)'
<1> DEFINE M == disable(L)
<1>1. ListInv(L) /\ BatchOf(L, pc, due, last)
  BY DEF BatchInv, Base
<1>2. M.firing = L.firing /\ ~M.alive /\ M.stack = << >> /\ M.memory = NoData
  BY <1>1 DEF disable, ListInv, ListOK
<1>3. L' = M /\ last' = last /\ due' = << >> /\ pc' = (IF M.firing /\ ~L.firing THEN "loop" ELSE pc)
  BY <1>2 DEF Disable, Called
<1> HIDE DEF M
<1>4. pc' = pc /\ (L.firing <=> pc # "idle")
  BY <1>1, <1>2, <1>3 DEF BatchOf
<1>5. BatchOf(M, pc, << >>, last)
  BY <1>2, <1>4 DEF BatchOf
<1> QED BY <1>3, <1>4, <1>5

LEMMA EmptyBatch ==
  ASSUME BatchInv, Empty, Unruly = {}
  PROVE  BatchOf(L, pc, due, last)'
<1> DEFINE M == empty(L)
<1>1. ListInv(L) /\ BatchOf(L, pc, due, last)
  BY DEF BatchInv, Base
<1>2. M.firing = L.firing /\ M.list = << >> /\ M.stack = L.stack
  BY <1>1 DEF empty, ListInv, ListOK
<1>3. L' = M /\ last' = last /\ due' = << >> /\ pc' = pc /\ pc = "idle"
  BY <1>1, <1>2 DEF Empty, Called
<1>4. DOMAIN M.list = {}
  BY <1>2
<1> HIDE DEF M
<1>5. BatchOf(M, "idle", << >>, last)
  BY <1>1, <1>2, <1>3, <1>4 DEF BatchOf
<1> QED BY <1>3, <1>5

LEMMA LockBatch ==
  ASSUME BatchInv, Lock
  PROVE  BatchOf(L, pc, due, last)'
<1> DEFINE M == lock(L)
           N == [L EXCEPT !.queueing = FALSE, !.stack = << >>]
<1>1. ListInv(L) /\ BatchOf(L, pc, due, last)
  BY DEF BatchInv, Base
<1>2. ListInv(M) /\ M.firing = L.firing
  BY <1>1, LockInv
<1>3. /\ L' = M /\ last' = last /\ pc' = pc
      /\ due' = IF M.alive THEN due ELSE << >>
  BY <1>1, <1>2 DEF Lock, Called
<1>4. CASE L.memory = NoData
  <2>1. M = disable(N) /\ N \in [options : SUBSET Flags, alive : BOOLEAN, list : Seq(Fns),
           queueing : BOOLEAN, stack : Seq(Data), memory : Data \cup {NoData},
           fired : BOOLEAN, firing : BOOLEAN, data : Data \cup {NoData},
           firingStart : Nat, firingLength : Int, firingIndex : Int]
    <3>1. << >> \in Seq(Data)
      OBVIOUS
    <3> QED BY <1>1, <1>4, <3>1 DEF lock, ListInv, ListOK
  <2>2. ~M.alive /\ M.stack = << >> /\ M.memory = NoData
    BY <2>1 DEF disable
  <2> HIDE DEF M
  <2>3. L.firing <=> pc # "idle"
    BY <1>1 DEF BatchOf
  <2> QED BY <1>2, <1>3, <2>2, <2>3 DEF BatchOf
<1>5. CASE L.memory # NoData
  <2>1. M = N
    BY <1>1, <1>5 DEF lock, ListInv, ListOK
  <2>2. /\ M.alive = L.alive /\ M.list = L.list /\ M.stack = << >> /\ M.memory = L.memory
        /\ M.firingIndex = L.firingIndex /\ M.firingLength = L.firingLength
    BY <1>1, <2>1 DEF ListInv, ListOK
  <2> HIDE DEF M
  <2>3. Position(M, pc) = Position(L, pc)
    BY <2>2 DEF Position
  <2>4. (IF M.alive THEN due ELSE << >>) \in Seq(Fns)
    BY <1>1 DEF BatchOf
  <2>5. BatchOf(M, pc, IF M.alive THEN due ELSE << >>, last)
    BY <1>1, <1>2, <2>2, <2>3, <2>4 DEF BatchOf
  <2> QED BY <1>3, <2>5
<1> QED BY <1>4, <1>5

LEMMA TailRest ==
  ASSUME NEW T, NEW s \in Seq(T), NEW n \in 0..(Len(s) - 1)
  PROVE  /\ Tail(SubSeq(s, n + 1, Len(s))) = SubSeq(s, n + 2, Len(s))
         /\ SubSeq(s, n + 2, Len(s)) \in Seq(T)
<1> DEFINE r == SubSeq(s, n + 1, Len(s))
           q == SubSeq(s, n + 2, Len(s))
<1>1. r \in Seq(T) /\ Len(r) = Len(s) - n /\ \A i \in 1..(Len(s) - n) : r[i] = s[n + i]
  OBVIOUS
<1>2. q \in Seq(T) /\ Len(q) = Len(s) - n - 1 /\ \A i \in 1..(Len(s) - n - 1) : q[i] = s[n + 1 + i]
  OBVIOUS
<1>3. Len(s) - n \in Nat /\ Len(s) - n >= 1
  OBVIOUS
<1> HIDE DEF r, q
<1>4. /\ Tail(r) \in Seq(T) /\ Len(Tail(r)) = Len(s) - n - 1
      /\ \A i \in 1..(Len(s) - n - 1) : Tail(r)[i] = r[i + 1]
  BY <1>1, <1>3
<1>5. Tail(r) = q
  <2>1. \A i \in 1..(Len(s) - n - 1) : Tail(r)[i] = q[i]
    <3>1. ASSUME NEW i \in 1..(Len(s) - n - 1) PROVE Tail(r)[i] = q[i]
      <4>1. i + 1 \in 1..(Len(s) - n) /\ n + (i + 1) = n + 1 + i
        BY <1>3
      <4> QED BY <1>1, <1>2, <1>4, <4>1
    <3> QED BY <3>1
  <2> DEFINE t == Tail(r)
  <2>2. t \in Seq(T) /\ q \in Seq(T) /\ Len(t) = Len(q) /\ Len(q) \in Nat
    BY <1>2, <1>3, <1>4
  <2>3. \A i \in 1..Len(q) : t[i] = q[i]
    BY <1>2, <2>1
  <2> HIDE DEF t
  <2>4. t = q
    BY <2>2, <2>3
  <2> QED BY <2>4 DEF t
<1> QED BY <1>2, <1>5 DEF r, q

LEMMA IterateBatch ==
  ASSUME BatchInv, Iterate
  PROVE  BatchOf(L, pc, due, last)'
<1>1. ListInv(L) /\ BatchOf(L, pc, due, last) /\ pc = "loop" /\ last \in [Fns -> Data \cup {NoData}]
  BY DEF BatchInv, Base, Iterate
<1>2. L.list \in Seq(Fns) /\ Len(L.list) \in Nat /\ L.firingIndex \in Int /\ due \in Seq(Fns)
  BY <1>1, ListType DEF BatchOf
<1>3. Position(L, "loop") = L.firingIndex
  BY <1>2 DEF Position
<1>4. CASE More(L)
  <2> DEFINE n == L.firingIndex
  <2>1. /\ n \in 0..(Len(L.list) - 1) /\ due = SubSeq(L.list, n + 1, Len(L.list))
        /\ L.firingLength = Len(L.list) /\ L.alive
    BY <1>1, <1>2, <1>3, <1>4 DEF More, BatchOf
  <2>2. ~Missing(L) /\ Current(L) \in Fns
    BY <1>2, <2>1 DEF Missing, Current
  <2>3. /\ L' = L /\ pc' = "call" /\ last' = [last EXCEPT ![Current(L)] = L.data] /\ due' = Tail(due)
    BY <1>4, <2>2 DEF Iterate
  <2>4. due' = SubSeq(L.list, n + 2, Len(L.list)) /\ due' \in Seq(Fns)
    <3>1. n \in 0..(Len(L.list) - 1) /\ due' = Tail(SubSeq(L.list, n + 1, Len(L.list)))
      BY <2>1, <2>3
    <3> HIDE DEF n
    <3> QED BY <1>2, <3>1, TailRest
  <2>5. Position(L, "call") = n + 1
    BY DEF Position
  <2>6. ASSUME L.memory # NoData, NEW i \in DOMAIN L.list, i <= n + 1
        PROVE  last'[L.list[i]] = L.memory
    <3>1. L.memory = L.data
      BY <1>1, <2>6 DEF ListInv
    <3>2. L.list[i] \in Fns /\ i \in 1..Len(L.list)
      BY <1>2
    <3>3. i <= n \/ L.list[i] = Current(L)
      BY <2>1, <2>6, <3>2 DEF Current
    <3>4. i <= n => last[L.list[i]] = L.memory
      BY <1>1, <1>3, <2>6 DEF BatchOf
    <3> QED BY <1>1, <2>2, <2>3, <3>1, <3>2, <3>3, <3>4
  <2>7. BatchOf(L, "call", due', last')
    <3>1. n + 1 \in 0..Len(L.list) /\ (n + 1) + 1 = n + 2
      BY <1>2, <2>1
    <3> HIDE DEF n
    <3> QED BY <1>1, <2>1, <2>4, <2>5, <2>6, <3>1 DEF BatchOf
  <2> QED BY <2>3, <2>7
<1>5. CASE ~More(L)
  <2>1. /\ L' = finish(L) /\ pc' = (IF L'.firing THEN "loop" ELSE "idle")
        /\ due' = (IF L'.firing THEN L'.list ELSE due) /\ last' = last
    BY <1>5 DEF Iterate
  <2>2. L.memory # NoData => \A i \in DOMAIN L.list : last[L.list[i]] = L.memory
    <3>1. ASSUME L.memory # NoData, NEW i \in DOMAIN L.list PROVE last[L.list[i]] = L.memory
      <4>1. L.alive
        BY <1>1, <3>1 DEF ListInv
      <4>2. i <= L.firingIndex
        BY <1>1, <1>2, <1>3, <1>5, <4>1 DEF More, BatchOf
      <4> QED BY <1>1, <1>3, <3>1, <4>2 DEF BatchOf
    <3> QED BY <3>1
  <2>3. LET N == finish(L) IN
        BatchOf(N, IF N.firing THEN "loop" ELSE "idle", IF N.firing THEN N.list ELSE due, last)
    BY <1>1, <1>2, <2>2, FinishBatch
  <2> QED BY <2>1, <2>3
<1> QED BY <1>4, <1>5

LEMMA ReturnBatch ==
  ASSUME BatchInv, NEW false \in BOOLEAN, Return(false)
  PROVE  BatchOf(L, pc, due, last)'
<1> DEFINE stopped == false /\ "stopOnFalse" \in L.options
<1>1. ListInv(L) /\ BatchOf(L, pc, due, last) /\ pc = "call"
  BY DEF BatchInv, Base, Return, Busy
<1>2. /\ L' = returned(L, false) /\ last' = last
      /\ pc' = IF stopped /\ ~L'.firing THEN "idle" ELSE "loop"
      /\ due' = IF stopped THEN IF L'.firing THEN L'.list ELSE << >> ELSE due
  BY DEF Return
<1>3. CASE stopped
  <2> DEFINE N == [L EXCEPT !.memory = NoData]
  <2>1. /\ N.options = L.options /\ N.alive = L.alive /\ N.list = L.list /\ N.queueing = L.queueing
        /\ N.stack = L.stack /\ N.fired = L.fired /\ N.firing = L.firing /\ N.data = L.data
        /\ N.firingStart = L.firingStart /\ N.memory = NoData
    BY <1>1 DEF ListInv, ListOK
  <2>2. ListOK(N)
    BY <1>1 DEF ListInv, ListOK
  <2>3. L' = finish(N)
    BY <1>2, <1>3 DEF returned
  <2> HIDE DEF N
  <2>4. ListInv(N)
    BY <1>1, <2>1, <2>2 DEF ListInv, Once
  <2>5. LET P == finish(N) IN
        BatchOf(P, IF P.firing THEN "loop" ELSE "idle", IF P.firing THEN P.list ELSE << >>, last)
    <3>1. << >> \in Seq(Fns)
      OBVIOUS
    <3> QED BY <2>1, <2>4, <3>1, FinishBatch
  <2> HIDE DEF stopped
  <2> QED BY <1>2, <1>3, <2>3, <2>5
<1>4. CASE ~stopped
  <2> DEFINE n == L.firingIndex + 1
             M == [L EXCEPT !.firingIndex = n]
  <2>1. L' = M /\ pc' = "loop" /\ due' = due
    BY <1>2, <1>4 DEF returned
  <2>2. /\ M.alive = L.alive /\ M.list = L.list /\ M.stack = L.stack /\ M.memory = L.memory
        /\ M.firing = L.firing /\ M.firingLength = L.firingLength /\ M.firingIndex = n
    BY <1>1 DEF ListInv, ListOK
  <2>3. n \in Int
    BY <1>1, ListType
  <2>4. Position(L, "call") = n
    BY DEF Position
  <2> HIDE DEF M, n
  <2>5. Position(M, "loop") = n
    BY <2>2, <2>3 DEF Position
  <2>6. BatchOf(M, "loop", due, last)
    BY <1>1, <2>2, <2>4, <2>5 DEF BatchOf
  <2> QED BY <1>2, <2>1, <2>6
<1> QED BY <1>3, <1>4

LEMMA StepBatch == ASSUME Unruly = {} PROVE BatchInv /\ [Next]_vars => BatchInv'
<1> SUFFICES ASSUME BatchInv, [Next]_vars PROVE BatchInv'
  OBVIOUS
<1>1. Base'
  BY StepBase DEF BatchInv
<1>2. BatchOf(L, pc, due, last)'
  <2>1. CASE UNCHANGED vars
    BY <2>1 DEF BatchInv, vars
  <2>2. CASE Throw
    BY <2>2 DEF Throw
  <2> QED
    BY <2>1, <2>2, AddBatch, RemoveBatch, FireBatch, EmptyBatch, DisableBatch, LockBatch,
       IterateBatch, ReturnBatch DEF Next
<1> QED BY <1>1, <1>2 DEF BatchInv

LEMMA InitBatch == ASSUME OptionsAssumption PROVE Init => BatchInv
<1> SUFFICES ASSUME Init PROVE BatchInv
  OBVIOUS
<1>1. PICK options \in OptionSets : L = NewList(options)
  BY DEF Init
<1>2. ListInv(L) /\ ~L.firing /\ L.memory = NoData /\ L.stack = << >>
  BY <1>1, NewListInv DEF OptionsAssumption
<1>3. BatchOf(L, pc, due, last)
  BY <1>2 DEF Init, BatchOf
<1> QED BY <1>3, InitBase DEF BatchInv

\* Whatever functions add, remove, fire, disable and lock while their list
\* fires, the batch under way owes exactly the functions of the list after the
\* one that runs, in order, and no data are left to wait (jquery.js, fire, add
\* and remove of Callbacks).
THEOREM BatchesAreExact ==
  ASSUME OptionsAssumption, Unruly = {}
  PROVE  Spec => [](TypeOK /\ BatchExact /\ NothingWaits)
<1>1. BatchInv => TypeOK /\ BatchExact /\ NothingWaits
  <2> SUFFICES ASSUME BatchInv PROVE TypeOK /\ BatchExact /\ NothingWaits
    OBVIOUS
  <2>1. TypeOK /\ NothingWaits
    BY DEF BatchInv, Base, BatchOf, ListInv, TypeOK, NothingWaits
  <2>2. L.firingIndex \in Int
    BY ListType DEF BatchInv, Base
  <2>3. Position(L, pc) + 1 = L.firingIndex + (IF Busy THEN 2 ELSE 1)
    BY <2>2 DEF Position, Busy
  <2>4. BatchExact
    BY <2>3 DEF BatchInv, BatchOf, BatchExact
  <2> QED BY <2>1, <2>4
<1> QED BY <1>1, InitBatch, StepBatch, PTL DEF Spec

\* Between two batches each function of a list with memory was last called with
\* the value the list remembers, however late it was added.
THEOREM MemoryIsSeen ==
  ASSUME OptionsAssumption, Unruly = {}
  PROVE  Spec => []MemorySeen
<1>1. BatchInv => MemorySeen
  BY DEF BatchInv, BatchOf, MemorySeen, has
<1> QED BY <1>1, InitBatch, StepBatch, PTL DEF Spec

------------------------------------------------------------------------------
(* Requests by script tags. *)

Sent == {r \in Requests : phase[r] = "sent"}

Types ==
  /\ window \in [Names -> Requests \cup {none}]
  /\ oldCallbacks \in Seq(Nat) /\ nonce \in Nat
  /\ name \in [Requests -> Nat \cup {none}]
  /\ overwritten \in [Requests -> Requests \cup {none}]
  /\ container \in [Requests -> Requests \cup {none}]
  /\ phase \in [Requests -> {"new", "sent", "done"}]
  /\ script \subseteq Requests /\ \A r \in script : name[r] \in Names
  /\ delivered \in [Requests -> Requests \cup {none}]

\* The names made up are held by requests under way, or free.
NamesCounted ==
  /\ nonce = 1 + Len(oldCallbacks) + (IF FixedName THEN 0 ELSE Cardinality(Sent))
  /\ \A i \in 1..Len(oldCallbacks) : oldCallbacks[i] \in 1..(nonce - 1)
  /\ \A i, j \in 1..Len(oldCallbacks) : i # j => oldCallbacks[i] # oldCallbacks[j]
  /\ nonce - 1 <= MaxName
  /\ FixedName => oldCallbacks = << >>

\* A request under way has its name, and the window its function.
Installed ==
  /\ \A r \in Sent :
       /\ name[r] \in Names /\ window[name[r]] = r /\ overwritten[r] = none
       /\ IF FixedName THEN name[r] = 0 ELSE name[r] \in 1..(nonce - 1)
       /\ \A i \in 1..Len(oldCallbacks) : name[r] # oldCallbacks[i]
  /\ FixedName => \A q, r \in Sent : q = r
  /\ \A n \in Names : window[n] # none => window[n] \in Sent /\ name[window[n]] = n

\* A script that runs only under its tag leaves nothing in a container.
Contained == ~LateRuns => (script \subseteq Sent /\ container = [r \in Requests |-> none])

\* A script that does not call, and finds what one that ran too late left behind,
\* is the only one that is given the answer of another.
Answered == (MayNotCall /\ LateRuns) \/ OwnAnswer

JInv == Types /\ NamesCounted /\ Installed /\ Contained /\ Answered

LEMMA InitJ == ASSUME NamesAssumption PROVE JsonpInit => JInv
<1> SUFFICES ASSUME JsonpInit PROVE JInv
  OBVIOUS
<1>1. Sent = {}
  BY DEF JsonpInit, Sent
<1>2. Cardinality(Sent) = 0
  BY <1>1, FS_EmptySet
<1>3. Types
  BY DEF JsonpInit, Types
<1>4. NamesCounted
  BY <1>2 DEF JsonpInit, NamesCounted, NamesAssumption
<1>5. Installed
  BY <1>1 DEF JsonpInit, Installed, Names
<1>6. Contained /\ Answered
  BY DEF JsonpInit, Contained, Answered, OwnAnswer
<1> QED BY <1>3, <1>4, <1>5, <1>6 DEF JInv

\* A request is counted while it is under way.
LEMMA SentFinite ==
  ASSUME NamesAssumption
  PROVE  IsFiniteSet(Sent) /\ Cardinality(Sent) \in Nat /\ Cardinality(Sent) <= Cardinality(Requests)
<1>1. Sent \in SUBSET Requests
  BY DEF Sent
<1> QED BY <1>1, FS_Subset, FS_CardinalityType DEF NamesAssumption

LEMMA SentMore ==
  ASSUME NamesAssumption, NEW r \in Requests, r \notin Sent
  PROVE  Cardinality(Sent \cup {r}) = Cardinality(Sent) + 1 /\ (FixedName \/ Cardinality(Sent) < MaxName)
<1>1. Cardinality(Sent \cup {r}) = Cardinality(Sent) + 1
  BY SentFinite, FS_AddElement
<1>2. Sent \cup {r} \in SUBSET Requests
  BY DEF Sent
<1>3. Cardinality(Sent \cup {r}) <= Cardinality(Requests)
  BY <1>2, FS_Subset DEF NamesAssumption
<1>4. Cardinality(Requests) \in Nat
  BY FS_CardinalityType DEF NamesAssumption
<1> QED BY <1>1, <1>3, <1>4, SentFinite DEF NamesAssumption

LEMMA SentLess ==
  ASSUME NamesAssumption, NEW r \in Sent
  PROVE  Cardinality(Sent \ {r}) = Cardinality(Sent) - 1
  BY SentFinite, FS_RemoveElement

LEMMA FrontType ==
  ASSUME NEW T, NEW s \in Seq(T), NEW k \in 0..Len(s)
  PROVE  /\ SubSeq(s, 1, k) \in Seq(T) /\ Len(SubSeq(s, 1, k)) = k
         /\ \A i \in 1..k : SubSeq(s, 1, k)[i] = s[i]
  OBVIOUS

LEMMA SendJ ==
  ASSUME NamesAssumption, JInv, NEW r \in Requests, send(r)
  PROVE  JInv'
<1> DEFINE n == NextName[1]
           m == Len(oldCallbacks)
           old == NextName[2]
<1>0. Types /\ NamesCounted /\ Installed /\ Contained /\ Answered
  BY DEF JInv
<1>1. /\ phase[r] = "new" /\ (Overlaps \/ \A q \in Requests : phase[q] # "sent")
      /\ name' = [name EXCEPT ![r] = n]
      /\ overwritten' = [overwritten EXCEPT ![r] = window[n]]
      /\ window' = [window EXCEPT ![n] = r]
      /\ oldCallbacks' = old /\ nonce' = NextName[3]
      /\ phase' = [phase EXCEPT ![r] = "sent"] /\ script' = script \cup {r}
      /\ container' = container /\ delivered' = delivered
  BY DEF send
<1>2. r \notin Sent /\ Sent' = Sent \cup {r}
  BY <1>0, <1>1 DEF Sent, Types
<1>3. m \in Nat /\ Cardinality(Sent) \in Nat
  BY <1>0, SentFinite DEF Types
<1>4. /\ n \in Names /\ old \in Seq(Nat) /\ nonce' \in Nat /\ window[n] = none
      /\ IF FixedName THEN n = 0 /\ Sent = {} ELSE n \in 1..(nonce' - 1) /\ nonce <= nonce'
      /\ \A q \in Sent : name[q] # n
      /\ Len(old) \in Nat
      /\ \A i \in 1..Len(old) : i \in 1..m /\ old[i] = oldCallbacks[i] /\ old[i] # n
      /\ nonce' - Len(old) = IF FixedName THEN nonce - m ELSE nonce - m + 1
      /\ nonce' >= nonce /\ nonce' - 1 <= MaxName
      /\ FixedName => old = << >>
  <2>1. CASE FixedName
    <3>1. n = 0 /\ old = oldCallbacks /\ NextName[3] = nonce
      BY <2>1 DEF NextName
    <3>2. Sent = {}
      BY <1>1, <2>1 DEF NamesAssumption, Sent
    <3>3. 0 \in Names
      BY DEF NamesAssumption, Names
    <3> HIDE DEF n, m, old
    <3>4. old = << >> /\ Len(old) = 0 /\ m = 0 /\ old \in Seq(Nat)
      BY <1>0, <2>1, <3>1 DEF NamesCounted, m
    <3>5. window[n] = none
      BY <1>0, <3>1, <3>2, <3>3 DEF Installed
    <3>6. nonce' - 1 <= MaxName /\ nonce' = nonce /\ nonce \in Nat
      BY <1>0, <1>1, <3>1 DEF NamesCounted, Types
    <3> QED BY <2>1, <3>1, <3>2, <3>3, <3>4, <3>5, <3>6
  <2>2. CASE ~FixedName /\ oldCallbacks = << >>
    <3>1. n = nonce /\ old = << >> /\ NextName[3] = nonce + 1
      BY <2>2 DEF NextName
    <3>2. m = 0 /\ nonce = 1 + Cardinality(Sent)
      BY <1>0, <1>3, <2>2 DEF NamesCounted
    <3>3. n \in Names
      <4>1. Cardinality(Sent) < MaxName
        BY <1>2, <2>2, SentMore
      <4> QED BY <1>3, <3>1, <3>2, <4>1 DEF Names, NamesAssumption
    <3>4. Len(old) = 0 /\ old \in Seq(Nat)
      BY <3>1
    <3>5. \A q \in Sent : name[q] # n
      BY <1>0, <2>2, <3>1 DEF Installed, Types
    <3>6. window[n] = none
      BY <1>0, <3>3, <3>5 DEF Installed
    <3> HIDE DEF n, m, old
    <3>7. nonce' = nonce + 1 /\ nonce \in Nat /\ nonce <= MaxName /\ nonce >= 1
      BY <1>0, <1>1, <1>3, <3>1, <3>2, <3>3 DEF Types, Names, NamesAssumption
    <3> QED BY <1>3, <2>2, <3>1, <3>2, <3>3, <3>4, <3>5, <3>6, <3>7
  <2>3. CASE ~FixedName /\ oldCallbacks # << >>
    <3>1. n = oldCallbacks[m] /\ old = SubSeq(oldCallbacks, 1, m - 1) /\ NextName[3] = nonce
      BY <2>3 DEF NextName
    <3>2. m >= 1 /\ m \in 1..m
      BY <1>0, <1>3, <2>3 DEF Types
    <3> HIDE DEF n, old
    <3>3. /\ old \in Seq(Nat) /\ Len(old) = m - 1 /\ \A i \in 1..(m - 1) : old[i] = oldCallbacks[i]
      <4>1. oldCallbacks \in Seq(Nat) /\ m - 1 \in 0..Len(oldCallbacks)
        BY <1>0, <1>3, <3>2 DEF Types
      <4> HIDE DEF m
      <4> QED BY <3>1, <4>1, FrontType
    <3>4. n \in 1..(nonce - 1)
      BY <1>0, <3>1, <3>2 DEF NamesCounted
    <3>5. n \in Names
      BY <1>0, <3>4 DEF Names, NamesAssumption, NamesCounted, Types
    <3>6. \A q \in Sent : name[q] # n
      BY <1>0, <3>1, <3>2 DEF Installed
    <3>7. window[n] = none
      BY <1>0, <3>5, <3>6 DEF Installed
    <3>8. \A i \in 1..(m - 1) : i \in 1..m /\ oldCallbacks[i] # n
      BY <1>0, <1>3, <3>1, <3>2 DEF NamesCounted
    <3>9. nonce' = nonce /\ nonce \in Nat /\ nonce - 1 <= MaxName
      BY <1>0, <1>1, <3>1 DEF Types, NamesCounted
    <3>10. \A i \in 1..Len(old) : i \in 1..m /\ old[i] = oldCallbacks[i] /\ old[i] # n
      <4>1. ASSUME NEW i \in 1..Len(old) PROVE i \in 1..m /\ old[i] = oldCallbacks[i] /\ old[i] # n
        <5>1. i \in 1..(m - 1)
          BY <1>3, <3>3
        <5> HIDE DEF m
        <5> QED BY <1>3, <3>3, <3>8, <5>1
      <4> QED BY <4>1
    <3> HIDE DEF m
    <3> QED BY <1>3, <2>3, <3>2, <3>3, <3>4, <3>5, <3>6, <3>7, <3>9, <3>10
  <2> QED BY <2>1, <2>2, <2>3
<1> HIDE DEF n, old
<1>5. Types'
  BY <1>0, <1>1, <1>4 DEF Types, Names
<1>6. NamesCounted'
  <2>1. Cardinality(Sent') = Cardinality(Sent) + 1
    BY <1>2, SentMore
  <2>2. nonce' = 1 + Len(old) + (IF FixedName THEN 0 ELSE Cardinality(Sent'))
    <3>1. CASE FixedName
      <4>1. nonce = 1 + m /\ nonce' - Len(old) = nonce - m
        BY <1>0, <1>4, <3>1 DEF NamesCounted
      <4> HIDE DEF m
      <4> QED BY <1>0, <1>3, <1>4, <3>1, <4>1 DEF Types
    <3>2. CASE ~FixedName
      <4>1. nonce = 1 + m + Cardinality(Sent) /\ nonce' - Len(old) = nonce - m + 1
        BY <1>0, <1>4, <3>2 DEF NamesCounted
      <4>2. nonce \in Nat /\ nonce' \in Nat /\ m \in Nat /\ Len(old) \in Nat
        BY <1>0, <1>3, <1>4 DEF Types
      <4>3. nonce' = 1 + Len(old) + Cardinality(Sent')
        <5> DEFINE c == Cardinality(Sent')
                   b == Cardinality(Sent)
                   l == Len(old)
                   x == nonce'
        <5>1. nonce = 1 + m + b /\ x - l = nonce - m + 1 /\ c = b + 1
          BY <2>1, <4>1
        <5>3. nonce \in Nat /\ m \in Nat /\ b \in Nat /\ l \in Nat /\ x \in Nat
          BY <1>3, <4>2
        <5> HIDE DEF c, b, l, m, x
        <5>4. x = 1 + l + c
          BY <5>1, <5>3
        <5>2. nonce' = 1 + l + c
          BY <5>4 DEF x
        <5> QED BY <5>2 DEF l, c
      <4> QED BY <3>2, <4>3
    <3> QED BY <3>1, <3>2
  <2>3. \A i \in 1..Len(old) : old[i] \in 1..(nonce' - 1)
    <3>1. ASSUME NEW i \in 1..Len(old) PROVE old[i] \in 1..(nonce' - 1)
      <4>1. old[i] = oldCallbacks[i] /\ i \in 1..Len(oldCallbacks)
        BY <1>4
      <4>2. old[i] \in 1..(nonce - 1)
        BY <1>0, <4>1 DEF NamesCounted
      <4> QED BY <1>0, <1>4, <4>2, SMTT(30) DEF Types
    <3> QED BY <3>1
  <2>4. \A i, j \in 1..Len(old) : i # j => old[i] # old[j]
    BY <1>0, <1>4 DEF NamesCounted
  <2>5. nonce' - 1 <= MaxName
    BY <1>4
  <2> QED BY <1>1, <1>4, <2>2, <2>3, <2>4, <2>5 DEF NamesCounted
<1>7. Installed'
  <2>1. ASSUME NEW q \in Sent'
        PROVE  /\ name'[q] \in Names /\ window'[name'[q]] = q /\ overwritten'[q] = none
               /\ IF FixedName THEN name'[q] = 0 ELSE name'[q] \in 1..(nonce' - 1)
               /\ \A i \in 1..Len(old) : name'[q] # old[i]
    <3>1. CASE q = r
      BY <1>0, <1>1, <1>4, <3>1 DEF Types
    <3>2. CASE q \in Sent /\ q # r
      <4>1. /\ name'[q] = name[q] /\ overwritten'[q] = overwritten[q] /\ name[q] # n
            /\ name[q] \in Names /\ window'[name[q]] = window[name[q]]
        BY <1>0, <1>1, <1>4, <3>2 DEF Types, Installed, Sent
      <4>2. ~FixedName
        BY <1>4, <3>2
      <4>3. name[q] \in 1..(nonce' - 1)
        BY <1>0, <1>4, <3>2, <4>2 DEF Installed, Types
      <4>4. \A i \in 1..Len(old) : name[q] # old[i]
        BY <1>0, <1>4, <3>2 DEF Installed
      <4>5. window[name[q]] = q /\ overwritten[q] = none
        BY <1>0, <3>2 DEF Installed
      <4> QED BY <4>1, <4>2, <4>3, <4>4, <4>5
    <3> QED BY <1>2, <3>1, <3>2
  <2>2. FixedName => \A q, s \in Sent' : q = s
    BY <1>2, <1>4
  <2>3. ASSUME NEW x \in Names, window'[x] # none
        PROVE  window'[x] \in Sent' /\ name'[window'[x]] = x
    <3>1. CASE x = n
      BY <1>0, <1>1, <1>2, <1>4, <3>1 DEF Types
    <3>2. CASE x # n
      <4>1. window'[x] = window[x] /\ window[x] \in Sent /\ name[window[x]] = x
        BY <1>0, <1>1, <2>3, <3>2 DEF Types, Installed
      <4>2. window[x] # r
        BY <1>2, <4>1
      <4> QED BY <1>0, <1>1, <1>2, <4>1, <4>2 DEF Types, Sent
    <3> QED BY <3>1, <3>2
  <2> QED BY <1>1, <2>1, <2>2, <2>3 DEF Installed
<1>8. Contained' /\ Answered'
  BY <1>0, <1>1, <1>2 DEF Contained, Answered, OwnAnswer, Sent
<1> QED BY <1>5, <1>6, <1>7, <1>8 DEF JInv

\* A request that ends puts back what the window had: nothing.
LEMMA CleanUpJ ==
  ASSUME NamesAssumption, JInv, NEW r \in Sent, NEW cont \in [Requests -> Requests \cup {none}],
         delivered' \in [Requests -> Requests \cup {none}],
         CleanUp(r, cont), phase' = [phase EXCEPT ![r] = "done"],
         UNCHANGED <<nonce, name, overwritten>>,
         script' = script \ {r} \/ (LateRuns /\ script' = script),
         ~LateRuns => \A q \in Requests \ {r} : cont[q] = none
  PROVE  Types' /\ NamesCounted' /\ Installed' /\ Contained'
<1> DEFINE n == name[r]
           old == IF FixedName THEN oldCallbacks ELSE Append(oldCallbacks, n)
<1>0. Types /\ NamesCounted /\ Installed /\ Contained
  BY DEF JInv
<1>1. /\ r \in Requests /\ n \in Names /\ window[n] = r /\ overwritten[r] = none
      /\ IF FixedName THEN n = 0 ELSE n \in 1..(nonce - 1)
      /\ \A i \in 1..Len(oldCallbacks) : n # oldCallbacks[i]
  BY <1>0 DEF Installed, Sent
<1>2. /\ window' = [window EXCEPT ![n] = none] /\ oldCallbacks' = old
      /\ container' = [cont EXCEPT ![r] = none]
  BY <1>1 DEF CleanUp
<1>3. Sent' = Sent \ {r}
  BY <1>0, <1>1 DEF Sent, Types
<1>4. oldCallbacks \in Seq(Nat) /\ Len(oldCallbacks) \in Nat /\ n \in Nat /\ nonce \in Nat
  <2>1. n \in Nat
    BY <1>1, <1>0 DEF Names, NamesAssumption
  <2> QED BY <1>0, <2>1 DEF Types
<1>5. /\ old \in Seq(Nat)
      /\ Len(old) = Len(oldCallbacks) + (IF FixedName THEN 0 ELSE 1)
      /\ \A i \in 1..Len(oldCallbacks) : old[i] = oldCallbacks[i]
      /\ ~FixedName => old[Len(oldCallbacks) + 1] = n
  <2> HIDE DEF n
  <2> QED BY <1>4
<1> HIDE DEF n, old
<1>6. Types'
  <2>1. container' \in [Requests -> Requests \cup {none}]
    BY <1>2
  <2>2. window' \in [Names -> Requests \cup {none}]
    BY <1>0, <1>2 DEF Types
  <2> QED BY <1>0, <1>2, <1>5, <2>1, <2>2 DEF Types
<1>7. NamesCounted'
  <2>1. Cardinality(Sent') = Cardinality(Sent) - 1 /\ Cardinality(Sent) \in Nat
    BY <1>3, SentLess, SentFinite
  <2>2. nonce = 1 + Len(old) + (IF FixedName THEN 0 ELSE Cardinality(Sent'))
    <3> DEFINE c == Cardinality(Sent')
               b == Cardinality(Sent)
               l == Len(old)
               m == Len(oldCallbacks)
    <3>1. /\ nonce = 1 + m + (IF FixedName THEN 0 ELSE b) /\ c = b - 1 /\ b \in Nat /\ m \in Nat
          /\ l = m + (IF FixedName THEN 0 ELSE 1)
      BY <1>0, <1>4, <1>5, <2>1 DEF NamesCounted
    <3> HIDE DEF c, b, l, m
    <3>2. nonce = 1 + l + (IF FixedName THEN 0 ELSE c)
      <4>1. CASE FixedName
        BY <3>1, <4>1
      <4>2. CASE ~FixedName
        BY <3>1, <4>2
      <4> QED BY <4>1, <4>2
    <3> QED BY <3>2 DEF l, c
  <2>3. ASSUME NEW i \in 1..Len(old)
        PROVE  IF i \in 1..Len(oldCallbacks) THEN old[i] = oldCallbacks[i] ELSE old[i] = n /\ ~FixedName /\ i = Len(oldCallbacks) + 1
    BY <1>4, <1>5
  <2>4. \A i \in 1..Len(old) : old[i] \in 1..(nonce - 1)
    BY <1>0, <1>1, <2>3 DEF NamesCounted
  <2>5. \A i, j \in 1..Len(old) : i # j => old[i] # old[j]
    BY <1>0, <1>1, <2>3 DEF NamesCounted
  <2>6. FixedName => old = << >>
    BY <1>0 DEF NamesCounted, old
  <2> QED BY <1>0, <1>2, <2>2, <2>4, <2>5, <2>6 DEF NamesCounted
<1>8. Installed'
  <2>1. ASSUME NEW q \in Sent'
        PROVE  /\ name[q] \in Names /\ window'[name[q]] = q /\ overwritten[q] = none
               /\ IF FixedName THEN name[q] = 0 ELSE name[q] \in 1..(nonce - 1)
               /\ \A i \in 1..Len(old) : name[q] # old[i]
    <3>1. q \in Sent /\ q # r
      BY <1>3
    <3>2. /\ name[q] \in Names /\ window[name[q]] = q /\ overwritten[q] = none
          /\ IF FixedName THEN name[q] = 0 ELSE name[q] \in 1..(nonce - 1)
          /\ \A i \in 1..Len(oldCallbacks) : name[q] # oldCallbacks[i]
      BY <1>0, <3>1 DEF Installed
    <3>3. name[q] # n
      BY <1>1, <3>1, <3>2
    <3>4. window'[name[q]] = q
      BY <1>0, <1>2, <3>2, <3>3 DEF Types
    <3>5. ASSUME NEW i \in 1..Len(old) PROVE name[q] # old[i]
      <4>1. i \in 1..Len(oldCallbacks) \/ (~FixedName /\ i = Len(oldCallbacks) + 1)
        BY <1>4, <1>5
      <4> QED BY <1>5, <3>2, <3>3, <4>1
    <3> QED BY <3>2, <3>4, <3>5
  <2>2. FixedName => \A q, s \in Sent' : q = s
    BY <1>0, <1>3 DEF Installed
  <2>3. ASSUME NEW x \in Names, window'[x] # none
        PROVE  window'[x] \in Sent' /\ name[window'[x]] = x
    <3>1. x # n
      BY <1>0, <1>1, <1>2, <2>3 DEF Types
    <3>2. window'[x] = window[x] /\ window[x] \in Sent /\ name[window[x]] = x
      BY <1>0, <1>2, <2>3, <3>1 DEF Types, Installed
    <3>3. window[x] # r
      BY <3>1, <3>2 DEF n
    <3> QED BY <1>3, <3>2, <3>3
  <2> QED BY <1>2, <2>1, <2>2, <2>3 DEF Installed
<1>9. Contained'
  <2> SUFFICES ASSUME ~LateRuns PROVE script' \subseteq Sent' /\ container' = [q \in Requests |-> none]
    BY DEF Contained
  <2>1. script' = script \ {r} /\ script \subseteq Sent
    BY <1>0 DEF Contained
  <2>2. container' = [q \in Requests |-> none]
    BY <1>2
  <2> QED BY <1>3, <2>1, <2>2
<1> QED BY <1>6, <1>7, <1>8, <1>9

LEMMA CalledType ==
  ASSUME JInv, NEW r \in Requests, name[r] \in Names
  PROVE  CalledBy(r) \in [Requests -> Requests \cup {none}]
<1>1. window[name[r]] \in Requests \cup {none} /\ container \in [Requests -> Requests \cup {none}]
  BY DEF JInv, Types
<1> QED BY <1>1 DEF CalledBy

LEMMA LoadsJ ==
  ASSUME NamesAssumption, JInv, NEW r \in Requests, NEW calls \in BOOLEAN,
         ScriptLoads(r, calls)
  PROVE  JInv'
<1> DEFINE cont == IF calls THEN CalledBy(r) ELSE container
<1>1. r \in Sent /\ name[r] \in Names /\ window[name[r]] = r
  BY DEF JInv, Installed, Sent, ScriptLoads
<1>2. r # none /\ container \in [Requests -> Requests \cup {none}]
  BY DEF NamesAssumption, RequestsAssumption, none, JInv, Types
<1>3. calls => cont = [container EXCEPT ![r] = r]
  BY <1>1, <1>2 DEF CalledBy
<1>4. cont \in [Requests -> Requests \cup {none}]
  BY <1>2, <1>3
<1>5. ~LateRuns => \A q \in Requests \ {r} : cont[q] = none
  BY <1>2, <1>3 DEF JInv, Contained
<1>6. (MayNotCall /\ LateRuns) \/ cont[r] \in {none, r}
  <2>1. CASE calls
    BY <1>2, <1>3, <2>1
  <2>2. CASE ~calls
    BY <2>2 DEF ScriptLoads, JInv, Contained
  <2> QED BY <2>1, <2>2
<1>7. /\ CleanUp(r, cont) /\ phase' = [phase EXCEPT ![r] = "done"]
      /\ UNCHANGED <<nonce, name, overwritten>> /\ script' = script \ {r}
      /\ delivered' = [delivered EXCEPT ![r] = cont[r]]
  BY DEF ScriptLoads
<1>10. delivered' \in [Requests -> Requests \cup {none}]
  BY <1>4, <1>7 DEF JInv, Types
<1> HIDE DEF cont
<1>8. Types' /\ NamesCounted' /\ Installed' /\ Contained'
  BY <1>1, <1>4, <1>5, <1>7, <1>10, CleanUpJ
<1>9. Answered'
  <2>1. ASSUME ~(MayNotCall /\ LateRuns), NEW q \in Requests PROVE delivered'[q] \in {none, q}
    <3>1. delivered[q] \in {none, q}
      BY <2>1 DEF JInv, Answered, OwnAnswer
    <3>2. delivered \in [Requests -> Requests \cup {none}]
      BY DEF JInv, Types
    <3> QED BY <1>6, <1>7, <2>1, <3>1, <3>2
  <2> QED BY <2>1 DEF Answered, OwnAnswer
<1> QED BY <1>8, <1>9 DEF JInv

LEMMA AbortJ ==
  ASSUME NamesAssumption, JInv, NEW r \in Requests, Abort(r)
  PROVE  JInv'
<1>1. r \in Sent /\ delivered' = delivered
  BY DEF Sent, Abort
<1>2. container \in [Requests -> Requests \cup {none}] /\ delivered \in [Requests -> Requests \cup {none}]
  BY DEF JInv, Types
<1>3. ~LateRuns => \A q \in Requests \ {r} : container[q] = none
  BY DEF JInv, Contained
<1>4. /\ CleanUp(r, container) /\ phase' = [phase EXCEPT ![r] = "done"]
      /\ UNCHANGED <<nonce, name, overwritten>>
      /\ script' = script \ {r} \/ (LateRuns /\ script' = script)
  BY DEF Abort
<1>5. Types' /\ NamesCounted' /\ Installed' /\ Contained'
  BY <1>1, <1>2, <1>3, <1>4, CleanUpJ
<1>6. Answered'
  BY <1>1 DEF JInv, Answered, OwnAnswer
<1> QED BY <1>5, <1>6 DEF JInv

\* A script that runs late finds the name free, or another's function.
LEMMA LateJ ==
  ASSUME NamesAssumption, JInv, NEW r \in Requests, LateScript(r)
  PROVE  JInv'
<1>0. Types /\ NamesCounted /\ Installed /\ Contained /\ Answered
  BY DEF JInv
<1>1. Sent' = Sent /\ r \notin Sent /\ script' = script \ {r} /\ r \in script
  BY DEF Sent, LateScript
<1>2. LateRuns
  BY <1>0, <1>1 DEF Contained
<1>3. CalledBy(r) \in [Requests -> Requests \cup {none}]
  BY <1>0, <1>1, CalledType DEF Types
<1>4. Types'
  BY <1>0, <1>3 DEF LateScript, Types
<1>5. NamesCounted' /\ Installed'
  BY <1>0, <1>1 DEF LateScript, NamesCounted, Installed
<1>6. Contained' /\ Answered'
  BY <1>0, <1>2 DEF LateScript, Contained, Answered, OwnAnswer
<1> QED BY <1>4, <1>5, <1>6 DEF JInv

LEMMA StepJ ==
  ASSUME NamesAssumption
  PROVE  JInv /\ [JsonpNext]_jsonpVars => JInv'
<1> SUFFICES ASSUME JInv, [JsonpNext]_jsonpVars PROVE JInv'
  OBVIOUS
<1>1. CASE UNCHANGED jsonpVars
  BY <1>1 DEF jsonpVars, JInv, Types, NamesCounted, Installed, Contained, Answered, OwnAnswer, Sent
<1> QED BY <1>1, SendJ, LoadsJ, AbortJ, LateJ DEF JsonpNext

\* The names of requests under way and the free ones are all different, and what
\* the window had is put back, even when scripts run late or do not call
\* (jquery.js, jsonp prefilter).
THEOREM NamesKeepApart ==
  ASSUME NamesAssumption PROVE JsonpSpec => [](NamesApart /\ WindowRestored)
<1>1. JInv => NamesApart /\ WindowRestored
  <2> SUFFICES ASSUME JInv PROVE NamesApart /\ WindowRestored
    OBVIOUS
  <2>1. Types /\ NamesCounted /\ Installed
    BY DEF JInv
  <2>2. DOMAIN oldCallbacks = 1..Len(oldCallbacks)
    BY <2>1 DEF Types
  <2>3. \A q, r \in Requests : q # r /\ phase[q] = "sent" /\ phase[r] = "sent" => name[q] # name[r]
    BY <2>1 DEF Installed, Sent
  <2>4. NamesApart
    BY <2>1, <2>2, <2>3, ZenonT(40) DEF NamesApart, NamesCounted, Installed, Sent
  <2>5. WindowRestored
    BY <2>1 DEF WindowRestored, Installed, Sent
  <2> QED BY <2>4, <2>5
<1> QED BY <1>1, InitJ, StepJ, PTL DEF JsonpSpec

\* A request is given its own answer or none, unless scripts may fail to call
\* and may also run after their request was aborted.
THEOREM AnswersAreOwn ==
  ASSUME NamesAssumption, ~(MayNotCall /\ LateRuns)
  PROVE  JsonpSpec => []OwnAnswer
<1>1. JInv => OwnAnswer
  BY DEF JInv, Answered
<1> QED BY <1>1, InitJ, StepJ, PTL DEF JsonpSpec

------------------------------------------------------------------------------
(* Animations, of a page that clears no queue and whose functions act on    *)
(* their own element without stopping it.                                   *)

\* The stack: what is done for the queue of an element (work), above the
\* operation of the interval or of stop that it was called from (caller).
StartOp(id) == [op |-> "start", id |-> id]
CompleteOp(e, acted) == [op |-> "complete", e |-> e, acted |-> acted]
TickOp(i) == [op |-> "tick", i |-> i]
TickedOp(i, id, more) == [op |-> "ticked", i |-> i, id |-> id, more |-> more]
StopOp(e, end) == [op |-> "stop", e |-> e, end |-> end]
StoppingOp(e, end, i, deq) == [op |-> "stopping", e |-> e, end |-> end, i |-> i, dequeue |-> deq]
SpliceOp(i) == [op |-> "splice", i |-> i]

\* The operations of the stack.
Ops ==
  [op : {"dequeue"}, e : Elements] \cup [op : {"start"}, id : Ids]
    \cup [op : {"complete"}, e : Elements, acted : BOOLEAN]
    \cup [op : {"tick"}, i : Nat] \cup [op : {"ticked"}, i : Nat, id : Ids, more : BOOLEAN]
    \cup [op : {"stop"}, e : Elements, end : BOOLEAN]
    \cup [op : {"stopping"}, e : Elements, end : BOOLEAN, i : Nat, dequeue : BOOLEAN]
    \cup [op : {"splice"}, i : Nat]

Made == DOMAIN anim
Timer(id) == anim[id].effect # "delay"
Pending(id) == anim[id].state = "pending"

States == {"queued", "pending", "resolved", "rejected"}
Anims ==
  [elem : Elements, effect : Effects, duration : Nat, left : Nat, state : States, tween : BOOLEAN,
   start : 0..Natural, end : 0..Natural, orig : Int, hides : BOOLEAN]

AnimOK ==
  /\ anim \in Seq(Anims)
  /\ Len(anim) <= MaxAnims
  /\ \A id \in Made : anim[id].left <= anim[id].duration
  /\ \A id \in Made : anim[id].state = "queued" => ~anim[id].tween

AnimTypes ==
  /\ MaxAnims \in Nat /\ AnimOK
  /\ queue \in [Elements -> Seq(Ids \cup {INPROGRESS})]
  /\ delay \in [Elements -> 0..MaxAnims]
  /\ timeouts \subseteq Made
  /\ timers \in Seq(Made)
  /\ timerId \in BOOLEAN
  /\ height \in [Elements -> 0..Natural]
  /\ shown \in [Elements -> BOOLEAN]
  /\ fxshow \in [Elements -> [exists : BOOLEAN, hidden : {"unset", "yes", "no"}, height : {Unset, Natural}]]

\* What waits in a queue is its element's, once, and has not begun.
QueuesOK ==
  \A e \in Elements :
    /\ \A i \in DOMAIN queue[e] :
         IF queue[e][i] = INPROGRESS THEN i = 1
         ELSE queue[e][i] \in Made /\ anim[queue[e][i]].elem = e /\ anim[queue[e][i]].state = "queued"
    /\ \A i, j \in DOMAIN queue[e] : i # j => queue[e][i] # queue[e][j]

Sentinel(e) == queue[e] # << >> /\ Head(queue[e]) = INPROGRESS

\* The work is for element e.
About(work, e) ==
  \/ work.kind \in {"dequeue", "complete"} /\ work.e = e
  \/ work.kind = "start" /\ anim[work.id].elem = e

\* stop of e will take the next from the queue when it is done.
StopsFor(caller, e) ==
  caller.kind \in {"stopping", "splice"} /\ caller.e = e /\ (caller.deq \/ ~caller.end)

TokenOK(work, caller) ==
  \A e \in Elements :
    /\ \A a, b \in UnderWay(e) : a = b
    /\ UnderWay(e) # {} => Sentinel(e) /\ ~About(work, e)
    /\ queue[e] # << >> => UnderWay(e) # {} \/ About(work, e) \/ StopsFor(caller, e)
    /\ queue[e] # << >> => Sentinel(e) \/ (work.kind = "dequeue" /\ work.e = e)
    /\ work.kind = "complete" /\ work.e = e => Sentinel(e)
    /\ work.kind = "start" /\ anim[work.id].elem = e => Sentinel(e)

WorkOK(work) ==
  work.kind = "start" =>
    /\ work.id \in Made /\ anim[work.id].state = "queued"
    /\ \A e \in Elements : \A i \in DOMAIN queue[e] : queue[e][i] # work.id

\* The place in the list of a timer that is over and not taken out yet.
Zombie(caller) ==
  IF caller.kind = "splice" \/ (caller.kind = "ticked" /\ ~caller.more) THEN caller.z ELSE 0

TimersOK(caller) ==
  /\ \A i, j \in DOMAIN timers : timers[i] = timers[j] => i = j
  /\ \A i \in DOMAIN timers :
       Timer(timers[i]) /\ anim[timers[i]].state # "queued" /\ (Pending(timers[i]) <=> i # Zombie(caller))
  /\ \A id \in Made : Timer(id) /\ Pending(id) => \E i \in DOMAIN timers : timers[i] = id
  /\ timers # << >> => timerId
  /\ caller.kind \in {"ticked", "splice"} => caller.z \in DOMAIN timers
  /\ caller.kind = "ticked" => timers[caller.z] = caller.id

DelaysOK(work) ==
  /\ \A id \in timeouts : ~Timer(id) /\ Pending(id)
  /\ \A id \in Made : ~Timer(id) /\ Pending(id) => id \in timeouts /\ delay[anim[id].elem] = id
  /\ \A e \in Elements : delay[e] # 0 =>
       (delay[e] \in UnderWay(e) /\ ~Timer(delay[e])) \/ (work.kind = "dequeue" /\ work.e = e)

StopOK(caller) ==
  caller.kind \in {"stopping", "splice"} =>
    /\ caller.i \in 0..Len(timers)
    /\ caller.deq => delay[caller.e] = 0 /\ \A j \in DOMAIN timers : anim[timers[j]].elem = caller.e => j <= caller.i
    /\ ~caller.deq => \A j \in DOMAIN timers : j <= caller.i => anim[timers[j]].elem # caller.e
    /\ ~caller.deq /\ ~caller.end => UnderWay(caller.e) = {}

HeightsOK ==
  /\ \A e \in Elements : IF fxshow[e].exists THEN fxshow[e].height = Natural ELSE height[e] = Natural
  /\ \A id \in Made : Timer(id) /\ Pending(id) =>
       anim[id].tween /\ anim[id].orig = Natural /\ fxshow[anim[id].elem].exists

------------------------------------------------------------------------------
NoWork == [kind |-> "none"]
DequeueWork(e) == [kind |-> "dequeue", e |-> e]
StartWork(id) == [kind |-> "start", id |-> id]
CompleteWork(e, acted) == [kind |-> "complete", e |-> e, acted |-> acted]
Works ==
  [kind : {"none"}] \cup [kind : {"dequeue"}, e : Elements] \cup [kind : {"start"}, id : Ids]
    \cup [kind : {"complete"}, e : Elements, acted : BOOLEAN]

NoCaller == [kind |-> "none"]
TickCaller(i) == [kind |-> "tick", i |-> i]
TickedCaller(z, id, more) == [kind |-> "ticked", z |-> z, id |-> id, more |-> more]
StopCaller(e, end) == [kind |-> "stop", e |-> e, end |-> end]
StoppingCaller(e, end, i, deq) == [kind |-> "stopping", e |-> e, end |-> end, i |-> i, deq |-> deq]
SpliceCaller(e, end, i) ==
  [kind |-> "splice", z |-> i + 1, e |-> e, end |-> end, i |-> i, deq |-> FALSE]
Callers ==
  [kind : {"none"}] \cup [kind : {"tick"}, i : Nat \ {0}]
    \cup [kind : {"ticked"}, z : Nat, id : Ids, more : BOOLEAN]
    \cup [kind : {"stop"}, e : Elements, end : BOOLEAN]
    \cup [kind : {"stopping"}, e : Elements, end : BOOLEAN, i : Nat, deq : BOOLEAN]
    \cup [kind : {"splice"}, z : Nat, e : Elements, end : BOOLEAN, i : Nat, deq : {FALSE}]

Below(caller) ==
  CASE caller.kind = "none" -> << >>
    [] caller.kind = "tick" -> <<TickOp(caller.i)>>
    [] caller.kind = "ticked" -> <<TickedOp(caller.z, caller.id, caller.more)>>
    [] caller.kind = "stop" -> <<StopOp(caller.e, caller.end)>>
    [] caller.kind = "stopping" -> <<StoppingOp(caller.e, caller.end, caller.i, caller.deq)>>
    [] caller.kind = "splice" ->
         <<SpliceOp(caller.z)>> \o <<StoppingOp(caller.e, caller.end, caller.i, caller.deq)>>

Full(work, rest) ==
  CASE work.kind = "none" -> rest
    [] work.kind = "dequeue" -> <<DequeueOp(work.e)>> \o rest
    [] work.kind = "start" -> <<StartOp(work.id)>> \o rest
    [] work.kind = "complete" -> <<CompleteOp(work.e, work.acted)>> \o (<<DequeueOp(work.e)>> \o rest)

Shaped(work, caller) ==
  /\ work \in Works /\ caller \in Callers
  /\ todo = Full(work, Below(caller))
  /\ caller.kind = "splice" => caller.z = caller.i + 1
  /\ work.kind # "none" => caller.kind \in {"none", "ticked"} \/ (caller.kind = "splice" /\ caller.end)

Good(work, caller) ==
  /\ Shaped(work, caller)
  /\ AnimTypes /\ QueuesOK /\ TokenOK(work, caller) /\ WorkOK(work) /\ TimersOK(caller)
  /\ DelaysOK(work) /\ StopOK(caller) /\ HeightsOK

AnimationsInv == \E work, caller : Good(work, caller)

\* Sequences, as the stack and the lists use them.
LEMMA Push ==
  ASSUME NEW T, NEW s \in Seq(T), NEW a \in T
  PROVE  /\ <<a>> \o s \in Seq(T) /\ <<a>> \o s # << >>
         /\ Head(<<a>> \o s) = a /\ Tail(<<a>> \o s) = s /\ << >> \o s = s /\ s \o << >> = s
<1>1. <<a>> \in Seq(T) /\ Len(<<a>>) = 1 /\ <<a>>[1] = a
  OBVIOUS
<1> DEFINE r == <<a>> \o s
<1>2. /\ r \in Seq(T) /\ Len(r) = Len(s) + 1 /\ r[1] = a
      /\ \A i \in 1..Len(s) : r[i + 1] = s[i]
  BY <1>1
<1> HIDE DEF r
<1>3. r # << >> /\ Head(r) = a
  BY <1>2
<1>4. Tail(r) = s
  <2>1. Tail(r) \in Seq(T) /\ Len(Tail(r)) = Len(s)
    BY <1>2, <1>3
  <2>2. \A i \in 1..Len(s) : Tail(r)[i] = s[i]
    BY <1>2, <1>3
  <2> DEFINE t == Tail(r)
  <2> HIDE DEF t
  <2>3. t = s
    BY <2>1, <2>2 DEF t
  <2> QED BY <2>3 DEF t
<1>5. << >> \o s = s /\ s \o << >> = s
  OBVIOUS
<1> QED BY <1>2, <1>3, <1>4, <1>5 DEF r

LEMMA Single ==
  ASSUME NEW T, NEW a \in T
  PROVE  <<a>> \in Seq(T)
  OBVIOUS

LEMMA PushTwo ==
  ASSUME NEW T, NEW s \in Seq(T), NEW a \in T, NEW b \in T
  PROVE  <<a, b>> \o s = <<a>> \o (<<b>> \o s)
<1> DEFINE u == <<a, b>> \o s
           w == <<b>> \o s
           v == <<a>> \o w
<1>1. <<a, b>> \in Seq(T) /\ Len(<<a, b>>) = 2 /\ <<a, b>>[1] = a /\ <<a, b>>[2] = b
  OBVIOUS
<1>2. <<b>> \in Seq(T) /\ Len(<<b>>) = 1 /\ <<b>>[1] = b /\ <<a>> \in Seq(T) /\ Len(<<a>>) = 1 /\ <<a>>[1] = a
  OBVIOUS
<1>3. u \in Seq(T) /\ Len(u) = Len(s) + 2 /\ u[1] = a /\ u[2] = b /\ \A i \in 1..Len(s) : u[i + 2] = s[i]
  BY <1>1
<1>4. w \in Seq(T) /\ Len(w) = Len(s) + 1 /\ w[1] = b /\ \A i \in 1..Len(s) : w[i + 1] = s[i]
  BY <1>2
<1> HIDE DEF w
<1>5. v \in Seq(T) /\ Len(v) = Len(w) + 1 /\ v[1] = a /\ \A i \in 1..Len(w) : v[i + 1] = w[i]
  BY <1>2, <1>4
<1> HIDE DEF u, v
<1>6. ASSUME NEW i \in 1..Len(u) PROVE u[i] = v[i]
  <2>1. CASE i = 1
    BY <2>1, <1>3, <1>5
  <2>2. CASE i = 2
    BY <2>2, <1>3, <1>4, <1>5
  <2>3. CASE i > 2
    <3>1. i - 2 \in 1..Len(s) /\ i - 1 \in 1..Len(w) /\ (i - 2) + 2 = i /\ (i - 2) + 1 = i - 1 /\ (i - 1) + 1 = i
      BY <2>3, <1>3, <1>4
    <3> QED BY <3>1, <1>3, <1>4, <1>5
  <2> QED BY <2>1, <2>2, <2>3, <1>3
<1>7. u = v
  BY <1>3, <1>4, <1>5, <1>6
<1> QED BY <1>7 DEF u, v, w

LEMMA Associates ==
  ASSUME NEW T, NEW r \in Seq(T), NEW s \in Seq(T), NEW t \in Seq(T)
  PROVE  (r \o s) \o t = r \o (s \o t) /\ r \o s \in Seq(T)
  OBVIOUS

\* The operations are what their sets say, and so are work and callers.
LEMMA OpsHere ==
  /\ \A e \in Elements : DequeueOp(e) \in Ops
  /\ \A id \in Ids : StartOp(id) \in Ops
  /\ \A e \in Elements, acted \in BOOLEAN : CompleteOp(e, acted) \in Ops
  /\ \A i \in Nat : TickOp(i) \in Ops /\ SpliceOp(i) \in Ops
  /\ \A i \in Nat, id \in Ids, more \in BOOLEAN : TickedOp(i, id, more) \in Ops
  /\ \A e \in Elements, end \in BOOLEAN : StopOp(e, end) \in Ops
  /\ \A e \in Elements, end \in BOOLEAN, i \in Nat, deq \in BOOLEAN : StoppingOp(e, end, i, deq) \in Ops
  BY DEF Ops, DequeueOp, StartOp, CompleteOp, TickOp, TickedOp, StopOp, StoppingOp, SpliceOp

LEMMA CallerKinds ==
  ASSUME NEW caller \in Callers
  PROVE  /\ caller.kind \in {"none", "tick", "ticked", "stop", "stopping", "splice"}
         /\ caller.kind = "none" => caller = NoCaller
         /\ caller.kind = "tick" => caller.i \in Nat \ {0} /\ caller = TickCaller(caller.i)
         /\ caller.kind = "ticked" => /\ caller.z \in Nat /\ caller.id \in Ids /\ caller.more \in BOOLEAN
                                      /\ caller = TickedCaller(caller.z, caller.id, caller.more)
         /\ caller.kind = "stop" => /\ caller.e \in Elements /\ caller.end \in BOOLEAN
                                    /\ caller = StopCaller(caller.e, caller.end)
         /\ caller.kind = "stopping" => /\ caller.e \in Elements /\ caller.end \in BOOLEAN /\ caller.i \in Nat /\ caller.deq \in BOOLEAN
                                        /\ caller = StoppingCaller(caller.e, caller.end, caller.i, caller.deq)
         /\ caller.kind = "splice" => /\ caller.e \in Elements /\ caller.end \in BOOLEAN /\ caller.i \in Nat
                                      /\ caller.z \in Nat /\ caller.deq = FALSE
  BY DEF Callers, NoCaller, TickCaller, TickedCaller, StopCaller, StoppingCaller, SpliceCaller

LEMMA WorkKinds ==
  ASSUME NEW work \in Works
  PROVE  /\ work.kind \in {"none", "dequeue", "start", "complete"}
         /\ work.kind = "none" => work = NoWork
         /\ work.kind = "dequeue" => work.e \in Elements /\ work = DequeueWork(work.e)
         /\ work.kind = "start" => work.id \in Ids /\ work = StartWork(work.id)
         /\ work.kind = "complete" => work.e \in Elements /\ work.acted \in BOOLEAN /\ work = CompleteWork(work.e, work.acted)
  BY DEF Works, NoWork, DequeueWork, StartWork, CompleteWork

\* What a caller has left on the stack.
LEMMA BelowKinds ==
  ASSUME NEW caller \in Callers
  PROVE  /\ Below(caller) \in Seq(Ops)
         /\ caller.kind = "none" => Below(caller) = << >>
         /\ caller.kind = "tick" => Below(caller) = <<TickOp(caller.i)>>
         /\ caller.kind = "ticked" => Below(caller) = <<TickedOp(caller.z, caller.id, caller.more)>>
         /\ caller.kind = "stop" => Below(caller) = <<StopOp(caller.e, caller.end)>>
         /\ caller.kind = "stopping" => Below(caller) = <<StoppingOp(caller.e, caller.end, caller.i, caller.deq)>>
         /\ caller.kind = "splice" =>
              Below(caller) = <<SpliceOp(caller.z)>> \o <<StoppingOp(caller.e, caller.end, caller.i, caller.deq)>>
<1>1. CASE caller.kind = "none"
  BY <1>1 DEF Below
<1>2. CASE caller.kind = "tick"
  <2>1. TickOp(caller.i) \in Ops
    BY <1>2, CallerKinds, OpsHere
  <2>2. Below(caller) = <<TickOp(caller.i)>>
    BY <1>2 DEF Below
  <2> QED BY <1>2, <2>1, <2>2, Single
<1>3. CASE caller.kind = "ticked"
  <2>1. TickedOp(caller.z, caller.id, caller.more) \in Ops
    BY <1>3, CallerKinds, OpsHere
  <2>2. Below(caller) = <<TickedOp(caller.z, caller.id, caller.more)>>
    BY <1>3 DEF Below
  <2> QED BY <1>3, <2>1, <2>2, Single
<1>4. CASE caller.kind = "stop"
  <2>1. StopOp(caller.e, caller.end) \in Ops
    BY <1>4, CallerKinds, OpsHere
  <2>2. Below(caller) = <<StopOp(caller.e, caller.end)>>
    BY <1>4 DEF Below
  <2> QED BY <1>4, <2>1, <2>2, Single
<1>5. CASE caller.kind = "stopping"
  <2>1. StoppingOp(caller.e, caller.end, caller.i, caller.deq) \in Ops
    BY <1>5, CallerKinds, OpsHere
  <2>2. Below(caller) = <<StoppingOp(caller.e, caller.end, caller.i, caller.deq)>>
    BY <1>5 DEF Below
  <2> QED BY <1>5, <2>1, <2>2, Single
<1>6. CASE caller.kind = "splice"
  <2>1. SpliceOp(caller.z) \in Ops /\ StoppingOp(caller.e, caller.end, caller.i, caller.deq) \in Ops
    BY <1>6, CallerKinds, OpsHere
  <2>2. Below(caller) = <<SpliceOp(caller.z)>> \o <<StoppingOp(caller.e, caller.end, caller.i, caller.deq)>>
    BY <1>6 DEF Below
  <2>3. <<StoppingOp(caller.e, caller.end, caller.i, caller.deq)>> \in Seq(Ops)
    BY <2>1
  <2>4. Below(caller) \in Seq(Ops)
    BY <2>1, <2>2, <2>3, Push
  <2> QED BY <1>6, <2>2, <2>4
<1> QED BY <1>1, <1>2, <1>3, <1>4, <1>5, <1>6, CallerKinds

\* What lies on top of the stack.
LEMMA Tops ==
  ASSUME NEW work, NEW caller, Shaped(work, caller)
  PROVE  /\ Below(caller) \in Seq(Ops) /\ todo \in Seq(Ops)
         /\ work.kind = "dequeue" =>
              todo # << >> /\ Top = DequeueOp(work.e) /\ Tail(todo) = Below(caller)
         /\ work.kind = "start" =>
              todo # << >> /\ Top = StartOp(work.id) /\ Tail(todo) = Below(caller)
         /\ work.kind = "complete" =>
              todo # << >> /\ Top = CompleteOp(work.e, work.acted) /\ Tail(todo) = <<DequeueOp(work.e)>> \o Below(caller)
         /\ work.kind = "none" =>
              /\ caller.kind = "none" => todo = << >>
              /\ caller.kind = "tick" => todo # << >> /\ Top = TickOp(caller.i) /\ Tail(todo) = << >>
              /\ caller.kind = "ticked" =>
                   todo # << >> /\ Top = TickedOp(caller.z, caller.id, caller.more) /\ Tail(todo) = << >>
              /\ caller.kind = "stop" => todo # << >> /\ Top = StopOp(caller.e, caller.end) /\ Tail(todo) = << >>
              /\ caller.kind = "stopping" =>
                   todo # << >> /\ Top = StoppingOp(caller.e, caller.end, caller.i, caller.deq) /\ Tail(todo) = << >>
              /\ caller.kind = "splice" =>
                   /\ todo # << >> /\ Top = SpliceOp(caller.z)
                   /\ Tail(todo) = <<StoppingOp(caller.e, caller.end, caller.i, caller.deq)>>
<1>1. work \in Works /\ caller \in Callers /\ todo = Full(work, Below(caller))
  BY DEF Shaped
<1>2. Below(caller) \in Seq(Ops)
  BY <1>1, BelowKinds
<1> DEFINE s == Below(caller)
<1>3. CASE work.kind = "dequeue"
  <2>1. DequeueOp(work.e) \in Ops /\ todo = <<DequeueOp(work.e)>> \o s
    BY <1>1, <1>3, WorkKinds, OpsHere DEF Full
  <2> HIDE DEF s
  <2>2. todo \in Seq(Ops) /\ todo # << >> /\ Head(todo) = DequeueOp(work.e) /\ Tail(todo) = s
    BY <1>2, <2>1, Push DEF s
  <2> QED BY <1>2, <1>3, <2>2 DEF Top, s
<1>4. CASE work.kind = "start"
  <2>1. StartOp(work.id) \in Ops /\ todo = <<StartOp(work.id)>> \o s
    BY <1>1, <1>4, WorkKinds, OpsHere DEF Full
  <2> HIDE DEF s
  <2>2. todo \in Seq(Ops) /\ todo # << >> /\ Head(todo) = StartOp(work.id) /\ Tail(todo) = s
    BY <1>2, <2>1, Push DEF s
  <2> QED BY <1>2, <1>4, <2>2 DEF Top, s
<1>5. CASE work.kind = "complete"
  <2> DEFINE c == CompleteOp(work.e, work.acted)
             t == <<DequeueOp(work.e)>> \o s
  <2>1. c \in Ops /\ DequeueOp(work.e) \in Ops /\ todo = <<c>> \o t
    BY <1>1, <1>5, WorkKinds, OpsHere DEF Full
  <2>2. t \in Seq(Ops)
    BY <1>2, <2>1, Push
  <2> HIDE DEF c, t
  <2>3. todo \in Seq(Ops) /\ todo # << >> /\ Head(todo) = c /\ Tail(todo) = t
    BY <2>1, <2>2, Push
  <2> QED BY <1>2, <1>5, <2>3 DEF Top, c, t
<1>6. CASE work.kind = "none"
  <2>1. todo = s
    BY <1>1, <1>6 DEF Full
  <2>2. CASE caller.kind = "splice"
    <3> DEFINE a == SpliceOp(caller.z)
               b == StoppingOp(caller.e, caller.end, caller.i, caller.deq)
    <3>1. a \in Ops /\ b \in Ops /\ todo = <<a>> \o <<b>>
      BY <1>1, <2>1, <2>2, BelowKinds, CallerKinds, OpsHere
    <3> HIDE DEF a, b
    <3>2. <<b>> \in Seq(Ops)
      BY <3>1
    <3>3. todo # << >> /\ Head(todo) = a /\ Tail(todo) = <<b>>
      BY <3>1, <3>2, Push
    <3> QED BY <1>2, <1>6, <2>1, <2>2, <3>3 DEF Top, a, b
  <2>3. ASSUME NEW a, s = <<a>> PROVE todo # << >> /\ Top = a /\ Tail(todo) = << >>
    BY <2>1, <2>3 DEF Top
  <2>4. CASE caller.kind # "splice"
    <3> HIDE DEF s
    <3>1. /\ caller.kind = "none" => s = << >>
          /\ caller.kind = "tick" => s = <<TickOp(caller.i)>>
          /\ caller.kind = "ticked" => s = <<TickedOp(caller.z, caller.id, caller.more)>>
          /\ caller.kind = "stop" => s = <<StopOp(caller.e, caller.end)>>
          /\ caller.kind = "stopping" => s = <<StoppingOp(caller.e, caller.end, caller.i, caller.deq)>>
      BY <1>1, BelowKinds DEF s
    <3>2. s \in Seq(Ops)
      BY <1>2 DEF s
    <3> QED BY <1>6, <2>1, <2>3, <2>4, <3>1, <3>2 DEF s
  <2> QED BY <2>2, <2>4
<1> QED BY <1>1, <1>3, <1>4, <1>5, <1>6, WorkKinds

\* Which operation it is.
LEMMA Kinds ==
  ASSUME NEW work, NEW caller, Shaped(work, caller)
  PROVE  /\ Running("dequeue") => work.kind = "dequeue"
         /\ Running("start") => work.kind = "start"
         /\ Running("complete") => work.kind = "complete"
         /\ Running("tick") => work.kind = "none" /\ caller.kind = "tick"
         /\ Running("ticked") => work.kind = "none" /\ caller.kind = "ticked"
         /\ Running("stop") => work.kind = "none" /\ caller.kind = "stop"
         /\ Running("stopping") => work.kind = "none" /\ caller.kind = "stopping"
         /\ Running("splice") => work.kind = "none" /\ caller.kind = "splice"
         /\ todo = << >> => work.kind = "none" /\ caller.kind = "none"
<1>1. work.kind \in {"none", "dequeue", "start", "complete"}
  BY WorkKinds DEF Shaped
<1>2. caller.kind \in {"none", "tick", "ticked", "stop", "stopping", "splice"}
  BY CallerKinds DEF Shaped
<1>3. CASE work.kind = "dequeue"
  <2>1. todo # << >> /\ Top = DequeueOp(work.e)
    BY <1>3, Tops
  <2>2. Top.op = "dequeue"
    BY <2>1 DEF DequeueOp
  <2> QED BY <1>3, <2>1, <2>2 DEF Running
<1>4. CASE work.kind = "start"
  <2>1. todo # << >> /\ Top = StartOp(work.id)
    BY <1>4, Tops
  <2>2. Top.op = "start"
    BY <2>1 DEF StartOp
  <2> QED BY <1>4, <2>1, <2>2 DEF Running
<1>5. CASE work.kind = "complete"
  <2>1. todo # << >> /\ Top = CompleteOp(work.e, work.acted)
    BY <1>5, Tops
  <2>2. Top.op = "complete"
    BY <2>1 DEF CompleteOp
  <2> QED BY <1>5, <2>1, <2>2 DEF Running
<1>6. CASE work.kind = "none"
  <2>1. IF caller.kind = "none" THEN todo = << >> ELSE todo # << >> /\ Top.op = caller.kind
    <3>1. CASE caller.kind = "none"
      BY <1>6, <3>1, Tops
    <3>2. CASE caller.kind = "tick"
      <4>1. todo # << >> /\ Top = TickOp(caller.i)
        BY <1>6, <3>2, Tops
      <4> QED BY <4>1, <3>2 DEF TickOp
    <3>3. CASE caller.kind = "ticked"
      <4>1. todo # << >> /\ Top = TickedOp(caller.z, caller.id, caller.more)
        BY <1>6, <3>3, Tops
      <4> QED BY <4>1, <3>3 DEF TickedOp
    <3>4. CASE caller.kind = "stop"
      <4>1. todo # << >> /\ Top = StopOp(caller.e, caller.end)
        BY <1>6, <3>4, Tops
      <4> QED BY <4>1, <3>4 DEF StopOp
    <3>5. CASE caller.kind = "stopping"
      <4>1. todo # << >> /\ Top = StoppingOp(caller.e, caller.end, caller.i, caller.deq)
        BY <1>6, <3>5, Tops
      <4> QED BY <4>1, <3>5 DEF StoppingOp
    <3>6. CASE caller.kind = "splice"
      <4>1. todo # << >> /\ Top = SpliceOp(caller.z)
        BY <1>6, <3>6, Tops
      <4> QED BY <4>1, <3>6 DEF SpliceOp
    <3> QED BY <1>2, <3>1, <3>2, <3>3, <3>4, <3>5, <3>6
  <2> QED BY <1>2, <1>6, <2>1 DEF Running
<1> QED BY <1>1, <1>3, <1>4, <1>5, <1>6

\* What the operations of the stack are made of.
LEMMA Forms ==
  /\ \A r : Full(NoWork, r) = r
  /\ \A e, r : Full(DequeueWork(e), r) = <<DequeueOp(e)>> \o r
  /\ \A id, r : Full(StartWork(id), r) = <<StartOp(id)>> \o r
  /\ \A e, acted, r : Full(CompleteWork(e, acted), r) = <<CompleteOp(e, acted)>> \o (<<DequeueOp(e)>> \o r)
  /\ Below(NoCaller) = << >>
  /\ \A i : Below(TickCaller(i)) = <<TickOp(i)>>
  /\ \A z, id, more : Below(TickedCaller(z, id, more)) = <<TickedOp(z, id, more)>>
  /\ \A e, end : Below(StopCaller(e, end)) = <<StopOp(e, end)>>
  /\ \A e, end, i, deq : Below(StoppingCaller(e, end, i, deq)) = <<StoppingOp(e, end, i, deq)>>
  /\ \A e, end, i : Below(SpliceCaller(e, end, i)) = <<SpliceOp(i + 1)>> \o <<StoppingOp(e, end, i, FALSE)>>
<1>1. \A r : Full(NoWork, r) = r
  BY DEF Full, NoWork
<1>2. \A e, r : Full(DequeueWork(e), r) = <<DequeueOp(e)>> \o r
  BY DEF Full, DequeueWork
<1>3. \A id, r : Full(StartWork(id), r) = <<StartOp(id)>> \o r
  BY DEF Full, StartWork
<1>4. \A e, acted, r : Full(CompleteWork(e, acted), r) = <<CompleteOp(e, acted)>> \o (<<DequeueOp(e)>> \o r)
  BY DEF Full, CompleteWork
<1>5. Below(NoCaller) = << >>
  BY DEF Below, NoCaller
<1>6. \A i : Below(TickCaller(i)) = <<TickOp(i)>>
  BY DEF Below, TickCaller
<1>7. \A z, id, more : Below(TickedCaller(z, id, more)) = <<TickedOp(z, id, more)>>
  BY DEF Below, TickedCaller
<1>8. \A e, end : Below(StopCaller(e, end)) = <<StopOp(e, end)>>
  BY DEF Below, StopCaller
<1>9. \A e, end, i, deq : Below(StoppingCaller(e, end, i, deq)) = <<StoppingOp(e, end, i, deq)>>
  BY DEF Below, StoppingCaller
<1>10. \A e, end, i : Below(SpliceCaller(e, end, i)) = <<SpliceOp(i + 1)>> \o <<StoppingOp(e, end, i, FALSE)>>
  BY DEF Below, SpliceCaller
<1> QED BY <1>1, <1>2, <1>3, <1>4, <1>5, <1>6, <1>7, <1>8, <1>9, <1>10

LEMMA Members ==
  /\ NoWork \in Works /\ NoWork.kind = "none"
  /\ \A e \in Elements : DequeueWork(e) \in Works /\ DequeueWork(e).kind = "dequeue" /\ DequeueWork(e).e = e
  /\ \A id \in Ids : StartWork(id) \in Works /\ StartWork(id).kind = "start" /\ StartWork(id).id = id
  /\ \A e \in Elements, acted \in BOOLEAN :
       CompleteWork(e, acted) \in Works /\ CompleteWork(e, acted).kind = "complete" /\ CompleteWork(e, acted).e = e
  /\ NoCaller \in Callers /\ NoCaller.kind = "none"
  /\ \A i \in Nat \ {0} : TickCaller(i) \in Callers /\ TickCaller(i).kind = "tick" /\ TickCaller(i).i = i
  /\ \A z \in Nat, id \in Ids, more \in BOOLEAN :
       LET c == TickedCaller(z, id, more) IN
       c \in Callers /\ c.kind = "ticked" /\ c.z = z /\ c.id = id /\ c.more = more
  /\ \A e \in Elements, end \in BOOLEAN : StopCaller(e, end) \in Callers /\ StopCaller(e, end).kind = "stop"
  /\ \A e \in Elements, end \in BOOLEAN, i \in Nat, deq \in BOOLEAN :
       LET c == StoppingCaller(e, end, i, deq) IN
       c \in Callers /\ c.kind = "stopping" /\ c.e = e /\ c.end = end /\ c.i = i /\ c.deq = deq
  /\ \A e \in Elements, end \in BOOLEAN, i \in Nat :
       LET c == SpliceCaller(e, end, i) IN
       c \in Callers /\ c.kind = "splice" /\ c.z = i + 1 /\ c.e = e /\ c.end = end /\ c.i = i /\ c.deq = FALSE
<1>1. NoWork \in Works /\ NoWork.kind = "none"
  BY DEF Works, NoWork
<1>2. \A e \in Elements : DequeueWork(e) \in Works /\ DequeueWork(e).kind = "dequeue" /\ DequeueWork(e).e = e
  BY DEF Works, DequeueWork
<1>3. \A id \in Ids : StartWork(id) \in Works /\ StartWork(id).kind = "start" /\ StartWork(id).id = id
  BY DEF Works, StartWork
<1>4. \A e \in Elements, acted \in BOOLEAN :
        CompleteWork(e, acted) \in Works /\ CompleteWork(e, acted).kind = "complete" /\ CompleteWork(e, acted).e = e
  BY DEF Works, CompleteWork
<1>5. NoCaller \in Callers /\ NoCaller.kind = "none"
  BY DEF Callers, NoCaller
<1>6. \A i \in Nat \ {0} : TickCaller(i) \in Callers /\ TickCaller(i).kind = "tick" /\ TickCaller(i).i = i
  BY DEF Callers, TickCaller
<1>7. \A z \in Nat, id \in Ids, more \in BOOLEAN :
        LET c == TickedCaller(z, id, more) IN
        c \in Callers /\ c.kind = "ticked" /\ c.z = z /\ c.id = id /\ c.more = more
  BY DEF Callers, TickedCaller
<1>8. \A e \in Elements, end \in BOOLEAN : StopCaller(e, end) \in Callers /\ StopCaller(e, end).kind = "stop"
  BY DEF Callers, StopCaller
<1>9. \A e \in Elements, end \in BOOLEAN, i \in Nat, deq \in BOOLEAN :
        LET c == StoppingCaller(e, end, i, deq) IN
        c \in Callers /\ c.kind = "stopping" /\ c.e = e /\ c.end = end /\ c.i = i /\ c.deq = deq
  <2> TAKE e \in Elements, end \in BOOLEAN, i \in Nat, deq \in BOOLEAN
  <2>1. StoppingCaller(e, end, i, deq)
          \in [kind : {"stopping"}, e : Elements, end : BOOLEAN, i : Nat, deq : BOOLEAN]
    BY DEF StoppingCaller
  <2>2. StoppingCaller(e, end, i, deq) \in Callers
    BY <2>1 DEF Callers
  <2> QED BY <2>2 DEF StoppingCaller
<1>10. \A e \in Elements, end \in BOOLEAN, i \in Nat :
        LET c == SpliceCaller(e, end, i) IN
        c \in Callers /\ c.kind = "splice" /\ c.z = i + 1 /\ c.e = e /\ c.end = end /\ c.i = i /\ c.deq = FALSE
  BY DEF Callers, SpliceCaller
<1> QED BY <1>1, <1>2, <1>3, <1>4, <1>5, <1>6, <1>7, <1>8, <1>9, <1>10

\* The parts of Good that what is on the stack does not matter to, and those
\* it does, when only the stack changes.
Still == UNCHANGED <<queue, delay, timeouts, anim, timers, timerId, height, shown, fxshow>>

LEMMA StillGood ==
  ASSUME NEW w, NEW c, Still, Shaped(w, c)',
         AnimTypes, QueuesOK, TokenOK(w, c), WorkOK(w), TimersOK(c), DelaysOK(w), StopOK(c), HeightsOK
  PROVE  Good(w, c)'
<1>1. AnimTypes' /\ QueuesOK'
  BY DEF Still, AnimTypes, AnimOK, Made, QueuesOK
<1>2. TokenOK(w, c)'
  BY DEF Still, TokenOK, UnderWay, Sentinel, About, StopsFor
<1>3. WorkOK(w)' /\ TimersOK(c)'
  BY DEF Still, WorkOK, TimersOK, Made, Timer, Pending, Zombie
<1>4. DelaysOK(w)' /\ StopOK(c)'
  BY DEF Still, DelaysOK, StopOK, Made, Timer, Pending, UnderWay
<1>5. HeightsOK'
  BY DEF Still, HeightsOK, Made, Timer, Pending
<1> QED BY <1>1, <1>2, <1>3, <1>4, <1>5 DEF Good

\* The page's function has returned; it was called once.
LEMMA CompleteReturnsStep ==
  ASSUME NEW work, NEW caller, Good(work, caller), CompleteReturns,
         NEW w, w = DequeueWork(work.e)
  PROVE  Good(w, caller)'
<1>1. Shaped(work, caller) /\ work.kind = "complete"
  BY Kinds DEF CompleteReturns, Good
<1>2. work \in Works /\ caller \in Callers
  BY <1>1 DEF Shaped
<1>3. work.e \in Elements /\ w \in Works /\ w.kind = "dequeue" /\ w.e = work.e
  BY <1>1, <1>2, WorkKinds, Members
<1>4. todo' = <<DequeueOp(work.e)>> \o Below(caller)
  BY <1>1, Tops DEF CompleteReturns
<1>5. Shaped(w, caller)'
  BY <1>1, <1>2, <1>3, <1>4, Forms DEF Shaped
<1>6. TokenOK(w, caller)
  BY <1>1, <1>3 DEF Good, TokenOK, About
<1>7. WorkOK(w) /\ DelaysOK(w)
  BY <1>1, <1>3 DEF Good, WorkOK, DelaysOK
<1>8. Still
  BY DEF CompleteReturns, Still
<1> QED BY <1>5, <1>6, <1>7, <1>8, StillGood DEF Good

LEMMA MadeIds == ASSUME AnimOK PROVE Made = 1..Len(anim) /\ 0 \notin Made /\ Len(anim) \in Nat
  BY DEF AnimOK, Made

LEMMA ActedOnce ==
  ASSUME NEW e, NEW a, NEW b
  PROVE  [CompleteOp(e, a) EXCEPT !.acted = b] = CompleteOp(e, b)
  BY DEF CompleteOp

\* Who may act, and what that leaves of the stack.
LEMMA ActingIdle ==
  ASSUME NEW work, NEW caller, Shaped(work, caller), todo = << >>
  PROVE  Rest = << >> /\ work = NoWork /\ caller = NoCaller
  BY Kinds, WorkKinds, CallerKinds DEF Rest, Shaped

LEMMA ActingComplete ==
  ASSUME NEW work, NEW caller, Shaped(work, caller), Liberties = {}, NEW e \in Elements, Acts(e), todo # << >>
  PROVE  /\ work.kind = "complete" /\ work.e = e /\ Top.e = e
         /\ Rest = <<CompleteOp(e, TRUE)>> \o (<<DequeueOp(e)>> \o Below(caller))
<1>1. Top.op = "complete" /\ Top.e = e
  BY DEF Acts
<1>2. work.kind = "complete"
  BY <1>1, Kinds DEF Running
<1>3. Top = CompleteOp(work.e, work.acted) /\ Tail(todo) = <<DequeueOp(work.e)>> \o Below(caller)
  BY <1>2, Tops
<1>4. work.e = e
  BY <1>1, <1>3 DEF CompleteOp
<1>5. [Top EXCEPT !.acted = TRUE] = CompleteOp(e, TRUE)
  BY <1>3, <1>4, ActedOnce, Zenon
<1> QED BY <1>1, <1>2, <1>3, <1>4, <1>5 DEF Rest

\* A promise waits for the queue.
LEMMA MakePromiseStep ==
  ASSUME NEW work, NEW caller, Good(work, caller), Liberties = {}, NEW e \in Elements, makePromise(e)
  PROVE  \E w : Good(w, caller)'
<1>1. Shaped(work, caller) /\ work \in Works /\ caller \in Callers /\ Still /\ todo' = Rest
  BY DEF Good, Shaped, makePromise, Still
<1>2. CASE todo = << >>
  <2>1. work = NoWork /\ caller = NoCaller /\ Rest = << >>
    BY <1>1, <1>2, ActingIdle
  <2>2. Shaped(work, caller)'
    BY <1>1, <2>1, Forms DEF Shaped
  <2> QED BY <1>1, <2>2, StillGood DEF Good
<1>3. CASE todo # << >>
  <2> DEFINE w == CompleteWork(e, TRUE)
  <2>1. work.kind = "complete" /\ work.e = e /\ Rest = <<CompleteOp(e, TRUE)>> \o (<<DequeueOp(e)>> \o Below(caller))
    BY <1>1, <1>3, ActingComplete DEF makePromise
  <2>2. w \in Works /\ w.kind = "complete" /\ w.e = e
    BY DEF Works, CompleteWork
  <2>3. todo' = Full(w, Below(caller))
    BY <1>1, <2>1 DEF Full, CompleteWork
  <2> HIDE DEF w
  <2>4. Shaped(w, caller)'
    BY <1>1, <2>1, <2>2, <2>3 DEF Shaped
  <2>5. TokenOK(w, caller)
    BY <2>1, <2>2 DEF Good, TokenOK, About
  <2>6. WorkOK(w) /\ DelaysOK(w)
    BY <2>1, <2>2 DEF Good, WorkOK, DelaysOK
  <2>7. Good(w, caller)'
    BY <1>1, <2>4, <2>5, <2>6, StillGood DEF Good
  <2> QED BY <2>7
<1> QED BY <1>2, <1>3

\* The page stops what runs of an element, between two steps.
LEMMA StopStep ==
  ASSUME NEW work, NEW caller, Good(work, caller), Liberties = {},
         NEW e \in Elements, NEW clear \in BOOLEAN, NEW end \in BOOLEAN, stop(e, clear, end),
         NEW c, c = StopCaller(e, end)
  PROVE  Good(work, c)'
<1>1. Shaped(work, caller) /\ work \in Works /\ ~clear /\ Acts(e)
  BY DEF Good, Shaped, stop
<1>2. Still /\ todo' = << >> \o (<<StopOp(e, end)>> \o Rest) /\ (todo # << >> => Top.e # e)
  BY <1>1 DEF stop, Still, StopOp
<1>3. todo = << >> /\ work = NoWork /\ caller = NoCaller /\ Rest = << >>
  <2>1. todo = << >>
    BY <1>1, <1>2, ActingComplete
  <2> QED BY <1>1, <2>1, ActingIdle
<1>4. StopOp(e, end) \in Ops
  BY OpsHere
<1>5. todo' = <<StopOp(e, end)>>
  BY <1>2, <1>3, <1>4, Single, Push
<1>6. c \in Callers /\ c.kind = "stop" /\ work.kind = "none" /\ caller.kind = "none"
  BY <1>3, Members
<1>7. Shaped(work, c)'
  BY <1>1, <1>3, <1>5, <1>6, Forms DEF Shaped
<1>8. TokenOK(work, c)
  BY <1>6 DEF Good, TokenOK, StopsFor
<1>9. TimersOK(c) /\ StopOK(c)
  BY <1>6 DEF Good, TimersOK, StopOK, Zombie
<1> QED BY <1>2, <1>7, <1>8, <1>9, StillGood DEF Good

\* stop has looked at all timers.
LEMMA StopEndStep ==
  ASSUME NEW work, NEW caller, Good(work, caller), StopEnd
  PROVE  \E w : Good(w, NoCaller)'
<1>1. Shaped(work, caller) /\ work.kind = "none" /\ caller.kind = "stopping" /\ Still
  BY Kinds DEF Good, StopEnd, Still
<1>2. work \in Works /\ caller \in Callers
  BY <1>1 DEF Shaped
<1>3. /\ caller.e \in Elements /\ caller.end \in BOOLEAN /\ caller.deq \in BOOLEAN /\ work = NoWork
      /\ Top = StoppingOp(caller.e, caller.end, caller.i, caller.deq) /\ Tail(todo) = << >>
  <2>1. Top = StoppingOp(caller.e, caller.end, caller.i, caller.deq) /\ Tail(todo) = << >>
    BY <1>1, Tops
  <2>2. caller.e \in Elements /\ caller.end \in BOOLEAN /\ caller.deq \in BOOLEAN
    BY <1>1, <1>2, CallerKinds
  <2>3. work = NoWork
    BY <1>1, <1>2, WorkKinds
  <2> QED BY <2>1, <2>2, <2>3
<1>4. Top.e = caller.e /\ Top.end = caller.end /\ Top.dequeue = caller.deq /\ Top.i = caller.i
  BY <1>3 DEF StoppingOp
<1>5. caller.i = 0 /\ todo' = (IF caller.deq \/ ~caller.end THEN <<DequeueOp(caller.e)>> ELSE << >>) \o << >>
  BY <1>3, <1>4 DEF StopEnd
<1>6. NoCaller \in Callers /\ NoCaller.kind = "none" /\ Below(NoCaller) = << >>
  BY Members, Forms
<1>7. TimersOK(NoCaller) /\ StopOK(NoCaller)
  BY <1>1, <1>6 DEF Good, TimersOK, StopOK, Zombie
<1>8. CASE caller.deq \/ ~caller.end
  <2> DEFINE w == DequeueWork(caller.e)
  <2>1. w \in Works /\ w.kind = "dequeue" /\ w.e = caller.e
    BY <1>3, Members
  <2>2. DequeueOp(caller.e) \in Ops
    BY <1>3, OpsHere
  <2>3. todo' = Full(w, Below(NoCaller))
    <3>1. todo' = <<DequeueOp(caller.e)>>
      BY <1>5, <1>8, <2>2, Single, Push
    <3>2. <<DequeueOp(caller.e)>> = <<DequeueOp(caller.e)>> \o << >>
      BY <2>2, Single, Push
    <3> QED BY <1>6, <3>1, <3>2, Forms, ZenonT(60)
  <2> HIDE DEF w
  <2>4. Shaped(w, NoCaller)'
    BY <1>6, <2>1, <2>3 DEF Shaped
  <2>5. UnderWay(caller.e) = {}
    <3>1. CASE ~caller.deq
      BY <1>1, <1>8, <3>1 DEF Good, StopOK
    <3>2. CASE caller.deq
      <4>1. delay[caller.e] = 0 /\ \A j \in DOMAIN timers : anim[timers[j]].elem # caller.e
        BY <1>1, <1>5, <3>2 DEF Good, StopOK, AnimTypes
      <4>2. ASSUME NEW id \in UnderWay(caller.e) PROVE FALSE
        <5>1. id \in Made /\ anim[id].elem = caller.e /\ Pending(id)
          BY DEF UnderWay, Made, Pending
        <5>2. CASE Timer(id)
          BY <1>1, <4>1, <5>1, <5>2 DEF Good, TimersOK
        <5>3. CASE ~Timer(id)
          <6>1. delay[caller.e] = id
            BY <5>1, <5>3 DEF Good, DelaysOK
          <6> QED BY <4>1, <5>1, <6>1, MadeIds DEF Good, AnimTypes
        <5> QED BY <5>2, <5>3
      <4> QED BY <4>2
    <3> QED BY <3>1, <3>2
  <2>6. TokenOK(w, NoCaller)
    BY <1>1, <1>6, <2>1, <2>5 DEF Good, TokenOK, About, StopsFor
  <2>7. WorkOK(w) /\ DelaysOK(w)
    BY <1>1, <2>1 DEF Good, WorkOK, DelaysOK
  <2>8. Good(w, NoCaller)'
    BY <1>1, <1>7, <2>4, <2>6, <2>7, StillGood DEF Good
  <2> QED BY <2>8
<1>9. CASE ~(caller.deq \/ ~caller.end)
  <2>1. todo' = << >>
    BY <1>5, <1>9
  <2>2. Shaped(work, NoCaller)'
    BY <1>1, <1>2, <1>3, <1>6, <2>1, Forms DEF Shaped
  <2>3. TokenOK(work, NoCaller)
    BY <1>1, <1>6, <1>9 DEF Good, TokenOK, About, StopsFor
  <2>4. Good(work, NoCaller)'
    BY <1>1, <1>7, <2>2, <2>3, StillGood DEF Good
  <2> QED BY <2>4
<1> QED BY <1>8, <1>9

\* One animation changes.
LEMMA RecordSet ==
  ASSUME AnimOK, NEW id \in Made, NEW r \in Anims, r.left <= r.duration, r.state = "queued" => ~r.tween,
         anim' = [anim EXCEPT ![id] = r]
  PROVE  /\ AnimOK' /\ Made' = Made
         /\ \A k \in Made : anim'[k] = IF k = id THEN r ELSE anim[k]
<1>1. anim \in Seq(Anims) /\ DOMAIN anim = Made /\ id \in 1..Len(anim)
  BY MadeIds DEF AnimOK, Made
<1>2. anim' \in Seq(Anims) /\ Len(anim') = Len(anim) /\ DOMAIN anim' = DOMAIN anim
  BY <1>1
<1>3. \A k \in Made : anim'[k] = IF k = id THEN r ELSE anim[k]
  BY <1>1
<1>4. Made' = Made
  BY <1>2 DEF Made
<1>5. AnimOK'
  <2>1. Len(anim') <= MaxAnims
    BY <1>2 DEF AnimOK
  <2>2. \A k \in Made' : anim'[k].left <= anim'[k].duration /\ (anim'[k].state = "queued" => ~anim'[k].tween)
    BY <1>3, <1>4 DEF AnimOK
  <2> QED BY <1>2, <2>1, <2>2 DEF AnimOK
<1> QED BY <1>3, <1>4, <1>5

\* Its state alone.
LEMMA StateSet ==
  ASSUME AnimOK, NEW id \in Made, NEW s \in States, s # "queued",
         anim' = [anim EXCEPT ![id].state = s]
  PROVE  /\ AnimOK' /\ Made' = Made
         /\ \A k \in Made :
              /\ anim'[k].elem = anim[k].elem /\ anim'[k].effect = anim[k].effect
              /\ anim'[k].tween = anim[k].tween /\ anim'[k].orig = anim[k].orig
              /\ anim'[k].state = IF k = id THEN s ELSE anim[k].state
<1> DEFINE a == anim[id]
           r == [a EXCEPT !.state = s]
<1>1. a \in Anims /\ a.left <= a.duration
  BY DEF AnimOK, Made
<1> HIDE DEF a
<1>2. /\ r \in Anims /\ r.left = a.left /\ r.duration = a.duration /\ r.state = s
      /\ r.elem = a.elem /\ r.effect = a.effect /\ r.tween = a.tween /\ r.orig = a.orig
  BY <1>1 DEF Anims
<1>3. anim' = [anim EXCEPT ![id] = r]
  BY DEF a
<1> HIDE DEF r
<1>4. AnimOK' /\ Made' = Made /\ \A k \in Made : anim'[k] = IF k = id THEN r ELSE anim[k]
  <2>1. r.left <= r.duration /\ r.state # "queued"
    BY <1>1, <1>2
  <2> QED BY <1>2, <1>3, <2>1, RecordSet, ZenonT(40)
<1> QED BY <1>2, <1>4 DEF a

\* What is known of any animation.
LEMMA OneAnim ==
  ASSUME AnimOK, NEW id \in Made
  PROVE  anim[id] \in Anims /\ anim[id].elem \in Elements /\ anim[id].state \in States
         /\ anim[id].effect \in Effects
<1>1. anim[id] \in Anims
  BY DEF AnimOK, Made
<1> QED BY <1>1 DEF Anims

\* A delay is over and takes the next from the queue.
LEMMA DelayOverStep ==
  ASSUME NEW work, NEW caller, Good(work, caller), NEW id \in Ids, DelayOver(id),
         NEW e, e = anim[id].elem, NEW w, w = DequeueWork(e)
  PROVE  Good(w, NoCaller)'
<1>1. Shaped(work, caller) /\ work = NoWork /\ caller = NoCaller /\ work.kind = "none" /\ caller.kind = "none"
  BY ActingIdle, Members DEF Good, DelayOver
<1>2. AnimTypes /\ AnimOK /\ id \in Made /\ ~Timer(id) /\ Pending(id) /\ delay[e] = id
  BY DEF DelayOver, Good, AnimTypes, DelaysOK
<1>3. e \in Elements /\ id \in UnderWay(e) /\ e = anim[id].elem
  BY <1>2, OneAnim DEF UnderWay, Made, Pending
<1>4. /\ AnimOK' /\ Made' = Made
      /\ \A k \in Made :
              /\ anim'[k].elem = anim[k].elem /\ anim'[k].effect = anim[k].effect
              /\ anim'[k].tween = anim[k].tween /\ anim'[k].orig = anim[k].orig
              /\ anim'[k].state = IF k = id THEN "resolved" ELSE anim[k].state
  <2>1. "resolved" \in States /\ "resolved" # "queued" /\ anim' = [anim EXCEPT ![id].state = "resolved"]
    BY DEF States, DelayOver
  <2> QED BY <1>2, <2>1, StateSet
<1>5. w \in Works /\ w.kind = "dequeue" /\ w.e = e /\ NoCaller \in Callers /\ NoCaller.kind = "none"
  BY <1>3, Members
<1>6. Shaped(w, NoCaller)'
  <2>1. todo' = <<DequeueOp(e)>>
    BY DEF DelayOver
  <2>2. DequeueOp(e) \in Ops
    BY <1>3, OpsHere
  <2>3. todo' = <<DequeueOp(e)>> \o << >>
    BY <2>1, <2>2, Single, Push
  <2>4. todo' = Full(w, Below(NoCaller))
    BY <2>3, Forms
  <2> QED BY <1>5, <2>4 DEF Shaped
<1>7. UNCHANGED <<queue, delay, timers, timerId, height, shown, fxshow>> /\ timeouts' = timeouts \ {id}
  BY DEF DelayOver
<1>8. AnimTypes'
  BY <1>2, <1>4, <1>7 DEF AnimTypes
<1>9. QueuesOK'
  BY <1>2, <1>4, <1>7 DEF Good, QueuesOK, Pending
<1>10. /\ UnderWay(e)' = {} /\ \A f \in Elements : f # e => UnderWay(f)' = UnderWay(f)
  <2>1. \A k \in UnderWay(e) : k = id
    BY <1>3 DEF Good, TokenOK
  <2>2. \A f \in Elements : UnderWay(f)' = UnderWay(f) \ {id}
    BY <1>4 DEF UnderWay, Made
  <2>3. \A f \in Elements : f # e => id \notin UnderWay(f)
    BY <1>3 DEF UnderWay
  <2>4. UnderWay(e)' = {}
    BY <1>3, <2>1, <2>2
  <2> QED BY <2>2, <2>3, <2>4
<1>11. TokenOK(w, NoCaller)'
  <2> SUFFICES ASSUME NEW f \in Elements
      PROVE /\ \A a, b \in UnderWay(f)' : a = b
            /\ UnderWay(f)' # {} => Sentinel(f)' /\ ~About(w, f)'
            /\ queue'[f] # << >> => UnderWay(f)' # {} \/ About(w, f)' \/ StopsFor(NoCaller, f)
            /\ queue'[f] # << >> => Sentinel(f)' \/ (w.kind = "dequeue" /\ w.e = f)
    BY <1>5 DEF TokenOK
  <2>1. Sentinel(f)' <=> Sentinel(f)
    BY <1>7 DEF Sentinel
  <2>2. About(w, f)' <=> f = e
    BY <1>5 DEF About
  <2>3. /\ \A a, b \in UnderWay(f) : a = b
        /\ UnderWay(f) # {} => Sentinel(f)
        /\ queue[f] # << >> => UnderWay(f) # {}
        /\ queue[f] # << >> => Sentinel(f)
    BY <1>1 DEF Good, TokenOK, About, StopsFor
  <2> QED BY <1>5, <1>7, <1>10, <2>1, <2>2, <2>3
<1>12. WorkOK(w)' /\ StopOK(NoCaller)'
  BY <1>5 DEF WorkOK, StopOK
<1>13. TimersOK(NoCaller)'
  <2>1. \A i \in DOMAIN timers : timers[i] \in Made /\ timers[i] # id
    BY <1>2 DEF Good, TimersOK, AnimTypes
  <2>2. \A k \in Made : (Timer(k)' <=> Timer(k)) /\ (k # id => (Pending(k)' <=> Pending(k))) /\ ~Pending(id)'
    BY <1>2, <1>4 DEF Timer, Pending
  <2>3. TimersOK(NoCaller)
    BY <1>1 DEF Good
  <2> QED BY <1>2, <1>4, <1>5, <1>7, <2>1, <2>2, <2>3 DEF TimersOK, Zombie
<1>14. DelaysOK(w)'
  <2>1. \A k \in Made : (Timer(k)' <=> Timer(k)) /\ (k # id => (Pending(k)' <=> Pending(k))) /\ ~Pending(id)'
    BY <1>2, <1>4 DEF Timer, Pending
  <2>2. \A k \in timeouts' : ~Timer(k)' /\ Pending(k)'
    BY <1>2, <1>7, <2>1 DEF Good, DelaysOK, AnimTypes
  <2>3. \A k \in Made' : ~Timer(k)' /\ Pending(k)' => k \in timeouts' /\ delay'[anim'[k].elem] = k
    BY <1>4, <1>7, <2>1 DEF Good, DelaysOK
  <2>4. \A f \in Elements : delay'[f] # 0 =>
          (delay'[f] \in UnderWay(f)' /\ ~Timer(delay[f])') \/ (w.kind = "dequeue" /\ w.e = f)
    <3> SUFFICES ASSUME NEW f \in Elements, delay'[f] # 0, f # e
        PROVE delay'[f] \in UnderWay(f)' /\ ~Timer(delay[f])'
      BY <1>5
    <3>1. delay[f] \in UnderWay(f) /\ ~Timer(delay[f])
      BY <1>1, <1>7 DEF Good, DelaysOK
    <3>2. delay[f] \in Made
      BY <3>1 DEF UnderWay, Made
    <3> QED BY <1>7, <1>10, <2>1, <3>1, <3>2
  <2> QED BY <2>2, <2>3, <2>4 DEF DelaysOK
<1>15. HeightsOK'
  BY <1>2, <1>4, <1>7 DEF Good, HeightsOK, Timer, Pending
<1> QED BY <1>6, <1>8, <1>9, <1>11, <1>12, <1>13, <1>14, <1>15 DEF Good

\* What the other parts see of the state of one animation.
Changed(id, s, e) ==
  /\ AnimOK' /\ Made' = Made /\ e \in Elements
  /\ \A k \in Made :
       /\ anim'[k].elem = anim[k].elem /\ anim'[k].tween = anim[k].tween /\ anim'[k].orig = anim[k].orig
       /\ Timer(k)' <=> Timer(k)
       /\ Pending(k)' <=> IF k = id THEN s = "pending" ELSE Pending(k)
       /\ anim'[k].state = "queued" <=> k # id /\ anim[k].state = "queued"
  /\ \A f : f # e => UnderWay(f)' = UnderWay(f)
  /\ UnderWay(e)' = IF s = "pending" THEN UnderWay(e) \cup {id} ELSE UnderWay(e) \ {id}

LEMMA StateSeen ==
  ASSUME AnimOK, NEW id \in Made, NEW s \in States, s # "queued", NEW e, e = anim[id].elem,
         anim' = [anim EXCEPT ![id].state = s]
  PROVE  Changed(id, s, e)
<1>1. /\ AnimOK' /\ Made' = Made
      /\ \A k \in Made :
              /\ anim'[k].elem = anim[k].elem /\ anim'[k].effect = anim[k].effect
              /\ anim'[k].tween = anim[k].tween /\ anim'[k].orig = anim[k].orig
              /\ anim'[k].state = IF k = id THEN s ELSE anim[k].state
  BY StateSet
<1>2. e \in Elements
  BY OneAnim
<1>3. \A k \in Made : (Timer(k)' <=> Timer(k)) /\ (Pending(k)' <=> IF k = id THEN s = "pending" ELSE Pending(k))
                      /\ (anim'[k].state = "queued" <=> k # id /\ anim[k].state = "queued")
  BY <1>1 DEF Timer, Pending
<1>4. \A f : f # e => UnderWay(f)' = UnderWay(f)
  BY <1>1 DEF UnderWay, Made
<1>5. UnderWay(e)' = IF s = "pending" THEN UnderWay(e) \cup {id} ELSE UnderWay(e) \ {id}
  BY <1>1 DEF UnderWay, Made
<1> QED BY <1>1, <1>2, <1>3, <1>4, <1>5 DEF Changed

\* A delay begins.
LEMMA StartDelayStep ==
  ASSUME NEW work, NEW caller, Good(work, caller), StartDelay
  PROVE  Good(NoWork, caller)'
<1>1. Shaped(work, caller) /\ work.kind = "start" /\ AnimTypes /\ AnimOK
  BY Kinds DEF Good, StartDelay, AnimTypes
<1>2. work \in Works /\ caller \in Callers /\ work.id \in Made /\ anim[work.id].state = "queued" /\ work.id \in Ids
  BY <1>1, WorkKinds DEF Shaped, Good, WorkOK
<1>3. PICK id : id = work.id
  OBVIOUS
<1>4. PICK e : e = anim[id].elem
  OBVIOUS
<1>5. Top.id = id /\ Tail(todo) = Below(caller)
  <2>1. Top = StartOp(work.id) /\ Tail(todo) = Below(caller)
    BY <1>1, Tops
  <2> QED BY <2>1, <1>3 DEF StartOp
<1>6. /\ ~Timer(id) /\ timeouts' = timeouts \cup {id} /\ delay' = [delay EXCEPT ![e] = id]
      /\ anim' = [anim EXCEPT ![id].state = "pending"] /\ todo' = Below(caller)
      /\ UNCHANGED <<queue, timers, timerId, height, shown, fxshow>>
  BY <1>4, <1>5 DEF StartDelay, Timer
<1>7. /\ AnimOK' /\ Made' = Made /\ e \in Elements
      /\ \A k \in Made :
           /\ anim'[k].elem = anim[k].elem /\ anim'[k].tween = anim[k].tween /\ anim'[k].orig = anim[k].orig
           /\ Timer(k)' <=> Timer(k)
           /\ Pending(k)' <=> IF k = id THEN TRUE ELSE Pending(k)
           /\ anim'[k].state = "queued" <=> k # id /\ anim[k].state = "queued"
      /\ \A f : f # e => UnderWay(f)' = UnderWay(f)
      /\ UnderWay(e)' = UnderWay(e) \cup {id}
  <2>1. PICK s : s = "pending"
    OBVIOUS
  <2>2. s \in States /\ s # "queued" /\ id \in Made /\ anim' = [anim EXCEPT ![id].state = s]
    BY <1>2, <1>3, <1>6, <2>1 DEF States
  <2>3. Changed(id, s, e)
    BY <1>1, <1>4, <2>2, StateSeen
  <2> QED BY <2>1, <2>3 DEF Changed
<1>8. NoWork \in Works /\ NoWork.kind = "none"
  BY Members
<1>9. Shaped(NoWork, caller)'
  BY <1>1, <1>2, <1>6, <1>8, Forms DEF Shaped
<1>10. id \in Made /\ id \in Nat \ {0} /\ ~Pending(id) /\ anim[id].elem = e
  BY <1>2, <1>3, <1>4 DEF Ids, Pending
<1>11. UnderWay(e) = {} /\ Sentinel(e) /\ UnderWay(e)' = {id}
  <2>1. About(work, e)
    BY <1>1, <1>3, <1>4 DEF About
  <2>2. UnderWay(e) = {} /\ Sentinel(e)
    BY <1>1, <1>3, <1>4, <1>7, <2>1 DEF Good, TokenOK
  <2> QED BY <1>7, <2>2
<1>12. AnimTypes'
  <2>1. id \in 0..MaxAnims
    BY <1>1, <1>2, <1>3 DEF Ids, AnimTypes
  <2>2. delay' \in [Elements -> 0..MaxAnims]
    BY <1>1, <1>6, <2>1 DEF AnimTypes
  <2> QED BY <1>1, <1>6, <1>7, <1>10, <2>2 DEF AnimTypes
<1>13. QueuesOK'
  BY <1>1, <1>2, <1>3, <1>6, <1>7 DEF Good, QueuesOK, WorkOK
<1>14. TokenOK(NoWork, caller)'
  <2> SUFFICES ASSUME NEW f \in Elements
      PROVE /\ \A a, b \in UnderWay(f)' : a = b
            /\ UnderWay(f)' # {} => Sentinel(f)'
            /\ queue'[f] # << >> => UnderWay(f)' # {} \/ StopsFor(caller, f)
            /\ queue'[f] # << >> => Sentinel(f)'
    BY <1>8 DEF TokenOK, About, StopsFor
  <2>1. Sentinel(f)' <=> Sentinel(f)
    BY <1>6 DEF Sentinel
  <2>2. f # e => ~About(work, f)
    BY <1>1, <1>3, <1>4 DEF About
  <2>3. /\ \A a, b \in UnderWay(f) : a = b
        /\ UnderWay(f) # {} => Sentinel(f)
        /\ queue[f] # << >> => UnderWay(f) # {} \/ About(work, f) \/ StopsFor(caller, f)
        /\ queue[f] # << >> => Sentinel(f)
    BY <1>1 DEF Good, TokenOK
  <2> QED BY <1>6, <1>7, <1>11, <2>1, <2>2, <2>3
<1>15. WorkOK(NoWork)'
  BY <1>8 DEF WorkOK
<1>16. TimersOK(caller)'
  <2>1. \A i \in DOMAIN timers : timers[i] \in Made /\ timers[i] # id
    BY <1>1, <1>6 DEF Good, TimersOK, AnimTypes
  <2>2. TimersOK(caller)
    BY DEF Good
  <2> QED BY <1>6, <1>7, <1>10, <2>1, <2>2 DEF TimersOK, Zombie
<1>17. DelaysOK(NoWork)'
  <2>1. \A k \in timeouts' : ~Timer(k)' /\ Pending(k)'
    BY <1>1, <1>6, <1>7, <1>10 DEF Good, DelaysOK, AnimTypes
  <2>2. \A k \in Made' : ~Timer(k)' /\ Pending(k)' => k \in timeouts' /\ delay'[anim'[k].elem] = k
    <3> SUFFICES ASSUME NEW k \in Made, ~Timer(k)', Pending(k)' PROVE k \in timeouts' /\ delay'[anim[k].elem] = k
      BY <1>7
    <3>1. CASE k = id
      BY <1>1, <1>6, <1>7, <1>10, <3>1 DEF AnimTypes
    <3>2. CASE k # id
      <4>1. ~Timer(k) /\ Pending(k) /\ anim[k].elem \in Elements
        BY <1>1, <1>7, <3>2, OneAnim
      <4>2. k \in timeouts /\ delay[anim[k].elem] = k /\ anim[k].elem # e
        BY <1>11, <4>1 DEF Good, DelaysOK, UnderWay, Pending, Made
      <4> QED BY <1>1, <1>6, <4>1, <4>2 DEF AnimTypes
    <3> QED BY <3>1, <3>2
  <2>3. \A f \in Elements : delay'[f] # 0 => delay'[f] \in UnderWay(f)' /\ ~Timer(delay[f])'
    <3> SUFFICES ASSUME NEW f \in Elements, delay'[f] # 0 PROVE delay'[f] \in UnderWay(f)' /\ ~Timer(delay[f])'
      OBVIOUS
    <3>1. CASE f = e
      BY <1>1, <1>6, <1>7, <1>10, <1>11, <3>1 DEF AnimTypes
    <3>2. CASE f # e
      <4>1. delay'[f] = delay[f] /\ delay[f] \in UnderWay(f) /\ ~Timer(delay[f])
        BY <1>1, <1>6, <3>2 DEF Good, DelaysOK, AnimTypes
      <4>2. delay[f] \in Made
        BY <4>1 DEF UnderWay, Made
      <4> QED BY <1>7, <3>2, <4>1, <4>2
    <3> QED BY <3>1, <3>2
  <2> QED BY <2>1, <2>2, <2>3 DEF DelaysOK
<1>18. StopOK(caller)'
  <2>1. caller.kind \in {"stopping", "splice"} => caller.kind = "splice" /\ caller.end /\ caller.deq = FALSE
    BY <1>1, <1>2, CallerKinds DEF Shaped
  <2>2. \A j \in DOMAIN timers : timers[j] \in Made
    BY <1>1 DEF AnimTypes
  <2> QED BY <1>6, <1>7, <2>1, <2>2 DEF Good, StopOK
<1>19. HeightsOK'
  BY <1>6, <1>7, <1>10 DEF Good, HeightsOK
<1> QED BY <1>9, <1>12, <1>13, <1>14, <1>15, <1>16, <1>17, <1>18, <1>19 DEF Good

\* A sequence without one of its members.
LEMMA Removed ==
  ASSUME NEW T, NEW s \in Seq(T), NEW i \in 1..Len(s), NEW r, r = RemoveAt(s, i)
  PROVE  /\ r \in Seq(T) /\ Len(r) = Len(s) - 1
         /\ \A j \in 1..Len(r) : r[j] = IF j < i THEN s[j] ELSE s[j + 1]
<1> DEFINE u == SubSeq(s, 1, i - 1)
           v == SubSeq(s, i + 1, Len(s))
<1>1. u \in Seq(T) /\ Len(u) = i - 1 /\ \A j \in 1..(i - 1) : u[j] = s[j]
  OBVIOUS
<1>2. v \in Seq(T) /\ Len(v) = Len(s) - i /\ \A j \in 1..(Len(s) - i) : v[j] = s[i + j]
  OBVIOUS
<1>3. r = u \o v
  BY DEF RemoveAt
<1> HIDE DEF u, v
<1>4. r \in Seq(T) /\ Len(r) = Len(s) - 1
  BY <1>1, <1>2, <1>3
<1>5. ASSUME NEW j \in 1..Len(r) PROVE r[j] = IF j < i THEN s[j] ELSE s[j + 1]
  <2>1. CASE j < i
    BY <1>1, <1>2, <1>3, <1>4, <2>1
  <2>2. CASE ~(j < i)
    <3>1. r[j] = v[j - (i - 1)] /\ j - (i - 1) \in 1..(Len(s) - i)
      BY <1>1, <1>2, <1>3, <1>4, <2>2
    <3>2. i + (j - (i - 1)) = j + 1
      OBVIOUS
    <3> QED BY <1>2, <2>2, <3>1, <3>2
  <2> QED BY <2>1, <2>2
<1> QED BY <1>4, <1>5

\* The list of timers without the one that is over.
LEMMA ZombieRemoved ==
  ASSUME NEW caller, NEW c, NEW z, AnimTypes, TimersOK(caller), z = Zombie(caller), z \in 1..Len(timers),
         timers' = RemoveAt(timers, z), UNCHANGED <<anim, timerId>>,
         c.kind \notin {"ticked", "splice"}
  PROVE  /\ TimersOK(c)' /\ timers' \in Seq(Made') /\ Len(timers') = Len(timers) - 1
         /\ \A j \in 1..Len(timers') : timers'[j] = IF j < z THEN timers[j] ELSE timers[j + 1]
<1>1. timers \in Seq(Made) /\ Made' = Made
  BY DEF AnimTypes, Made
<1>2. /\ timers' \in Seq(Made) /\ Len(timers') = Len(timers) - 1
      /\ \A j \in 1..Len(timers') : timers'[j] = IF j < z THEN timers[j] ELSE timers[j + 1]
  BY <1>1, Removed
<1> DEFINE at(j) == IF j < z THEN j ELSE j + 1
<1>3. \A j \in DOMAIN timers' : at(j) \in DOMAIN timers /\ at(j) # z /\ timers'[j] = timers[at(j)]
  BY <1>1, <1>2
<1>4. \A i, j \in DOMAIN timers' : at(i) = at(j) => i = j
  BY <1>1, <1>2
<1>5. \A k \in DOMAIN timers : k # z => \E j \in DOMAIN timers' : at(j) = k
  <2> SUFFICES ASSUME NEW k \in DOMAIN timers, k # z PROVE \E j \in DOMAIN timers' : at(j) = k
    OBVIOUS
  <2>1. CASE k < z
    BY <1>1, <1>2, <2>1
  <2>2. CASE k > z
    <3>1. k - 1 \in DOMAIN timers' /\ at(k - 1) = k
      BY <1>1, <1>2, <2>2
    <3> QED BY <3>1
  <2> QED BY <1>1, <2>1, <2>2
<1> HIDE DEF at
<1>6. \A k \in Made : (Timer(k)' <=> Timer(k)) /\ (Pending(k)' <=> Pending(k)) /\ anim'[k].state = anim[k].state
  BY DEF Timer, Pending
<1>7. Zombie(c) = 0
  BY DEF Zombie
<1>8. \A i, j \in DOMAIN timers' : timers'[i] = timers'[j] => i = j
  BY <1>3, <1>4 DEF TimersOK
<1>9. \A i \in DOMAIN timers' : timers'[i] \in Made /\ Timer(timers'[i]) /\ Pending(timers'[i]) /\ anim[timers'[i]].state # "queued" /\ i # 0
  BY <1>1, <1>2, <1>3 DEF TimersOK
<1>10. \A id \in Made : Timer(id) /\ Pending(id) => \E i \in DOMAIN timers' : timers'[i] = id
  <2> SUFFICES ASSUME NEW id \in Made, Timer(id), Pending(id) PROVE \E i \in DOMAIN timers' : timers'[i] = id
    OBVIOUS
  <2>1. PICK k \in DOMAIN timers : timers[k] = id
    BY DEF TimersOK
  <2>2. k # z
    BY <2>1 DEF TimersOK
  <2>3. PICK j \in DOMAIN timers' : at(j) = k
    BY <1>5, <2>2
  <2> QED BY <1>3, <2>1, <2>3
<1>11. timers' # << >> => timerId'
  BY <1>1, <1>2 DEF TimersOK
<1>12. \A i \in DOMAIN timers' : Timer(timers[i])' /\ anim'[timers'[i]].state # "queued" /\ (Pending(timers[i])' <=> i # Zombie(c))
  BY <1>6, <1>7, <1>9
<1>13. \A id \in Made' : Timer(id)' /\ Pending(id)' => \E i \in DOMAIN timers' : timers'[i] = id
  BY <1>1, <1>6, <1>10
<1>14. TimersOK(c)'
  <2>1. Zombie(c)' = Zombie(c)
    BY DEF Zombie
  <2> QED BY <1>8, <1>11, <1>12, <1>13, <2>1 DEF TimersOK
<1> QED BY <1>1, <1>2, <1>14

\* All timers have had their step.
LEMMA TickEndStep ==
  ASSUME NEW work, NEW caller, Good(work, caller), TickEnd
  PROVE  Good(NoWork, NoCaller)'
<1>1. Shaped(work, caller) /\ work.kind = "none" /\ caller.kind = "tick"
  BY Kinds DEF Good, TickEnd
<1>2. NoWork.kind = "none" /\ NoCaller.kind = "none" /\ NoWork \in Works /\ NoCaller \in Callers
  BY Members
<1>3. todo' = << >>
  BY <1>1, Tops DEF TickEnd
<1>4. Shaped(NoWork, NoCaller)'
  BY <1>2, <1>3, Forms DEF Shaped
<1>5. UNCHANGED <<queue, delay, timeouts, anim, timers, height, shown, fxshow>> /\ timerId' = (timers # << >>)
  BY DEF TickEnd
<1>6. AnimTypes' /\ QueuesOK'
  BY <1>5 DEF Good, AnimTypes, AnimOK, Made, QueuesOK
<1>7. TokenOK(NoWork, NoCaller)'
  <2>1. TokenOK(NoWork, NoCaller)
    BY <1>1, <1>2 DEF Good, TokenOK, About, StopsFor
  <2> QED BY <1>5, <2>1 DEF TokenOK, UnderWay, Sentinel, About, StopsFor
<1>8. WorkOK(NoWork)' /\ StopOK(NoCaller)'
  BY <1>2 DEF WorkOK, StopOK
<1>9. TimersOK(NoCaller)'
  <2>1. TimersOK(NoCaller)
    BY <1>1, <1>2 DEF Good, TimersOK, Zombie
  <2> QED BY <1>5, <2>1 DEF TimersOK, Made, Timer, Pending, Zombie
<1>10. DelaysOK(NoWork)'
  BY <1>1, <1>2, <1>5 DEF Good, DelaysOK, Made, Timer, Pending, UnderWay
<1>11. HeightsOK'
  BY <1>5 DEF Good, HeightsOK, Made, Timer, Pending
<1> QED BY <1>4, <1>6, <1>7, <1>8, <1>9, <1>10, <1>11 DEF Good

\* Time passes: it is all that changes of an animation.
LEMMA LeftPasses ==
  ASSUME AnimOK, NEW ids, anim' = [id \in DOMAIN anim |->
                IF id \in ids THEN [anim[id] EXCEPT !.left = IF @ = 0 THEN 0 ELSE @ - 1] ELSE anim[id]]
  PROVE  /\ AnimOK' /\ Made' = Made
         /\ \A k \in Made :
              /\ anim'[k].elem = anim[k].elem /\ anim'[k].effect = anim[k].effect
              /\ anim'[k].tween = anim[k].tween /\ anim'[k].orig = anim[k].orig
              /\ anim'[k].state = anim[k].state
<1>1. anim \in Seq(Anims) /\ Made = DOMAIN anim /\ Made = 1..Len(anim) /\ Len(anim) \in Nat
  BY MadeIds DEF AnimOK, Made
<1>2. ASSUME NEW k \in Made
      PROVE  LET a == anim[k] b == anim'[k] IN
             /\ b \in Anims /\ b.left <= b.duration
             /\ b.elem = a.elem /\ b.effect = a.effect /\ b.tween = a.tween /\ b.orig = a.orig /\ b.state = a.state
  <2> DEFINE a == anim[k]
             b == anim'[k]
  <2>1. a \in Anims /\ a.left <= a.duration
    BY DEF AnimOK, Made
  <2>2. b = IF k \in ids THEN [a EXCEPT !.left = IF a.left = 0 THEN 0 ELSE a.left - 1] ELSE a
    BY <1>1
  <2> HIDE DEF a, b
  <2>3. PICK n : n = IF a.left = 0 THEN 0 ELSE a.left - 1
    OBVIOUS
  <2>4. n \in Nat /\ n <= a.duration
    BY <2>1, <2>3 DEF Anims
  <2>5. CASE k \in ids
    <3>1. b = [a EXCEPT !.left = n]
      BY <2>2, <2>3, <2>5
    <3> QED BY <2>1, <2>4, <3>1 DEF Anims, a, b
  <2>6. CASE k \notin ids
    BY <2>1, <2>2, <2>6 DEF a, b
  <2> QED BY <2>5, <2>6
<1>3. DOMAIN anim' = 1..Len(anim) /\ \A k \in 1..Len(anim) : anim'[k] \in Anims
  BY <1>1, <1>2
<1>4. anim' = [k \in 1..Len(anim) |-> anim'[k]]
  BY <1>1
<1>5. anim' \in Seq(Anims) /\ Len(anim') = Len(anim) /\ Made' = Made
  BY <1>1, <1>3, <1>4 DEF Made
<1>6. AnimOK'
  BY <1>2, <1>5 DEF AnimOK, Made
<1> QED BY <1>2, <1>5, <1>6

\* The interval.
LEMMA TickStep ==
  ASSUME NEW work, NEW caller, Good(work, caller), Tick, NEW c, c = TickCaller(1)
  PROVE  Good(NoWork, c)'
<1>1. Shaped(work, caller) /\ work = NoWork /\ caller = NoCaller
  BY ActingIdle DEF Good, Tick
<1>2. NoWork.kind = "none" /\ NoCaller.kind = "none" /\ NoWork \in Works /\ c \in Callers /\ c.kind = "tick"
  BY Members
<1>3. todo' = <<TickOp(1)>>
  BY DEF Tick, TickOp
<1>4. Shaped(NoWork, c)'
  BY <1>2, <1>3, Forms DEF Shaped
<1>5. UNCHANGED <<queue, delay, timeouts, timers, timerId, height, shown, fxshow>>
  BY DEF Tick
<1>6. /\ AnimOK' /\ Made' = Made
      /\ \A k \in Made :
              /\ anim'[k].elem = anim[k].elem /\ anim'[k].effect = anim[k].effect
              /\ anim'[k].tween = anim[k].tween /\ anim'[k].orig = anim[k].orig
              /\ anim'[k].state = anim[k].state
  <2>1. PICK ids : ids = {id \in DOMAIN anim : \E i \in DOMAIN timers : timers[i] = id}
    OBVIOUS
  <2>2. anim' = [id \in DOMAIN anim |->
                IF id \in ids THEN [anim[id] EXCEPT !.left = IF @ = 0 THEN 0 ELSE @ - 1] ELSE anim[id]]
    BY <2>1 DEF Tick
  <2>3. AnimOK
    BY DEF Good, AnimTypes
  <2> QED BY <2>2, <2>3, LeftPasses
<1>7. AnimTypes'
  BY <1>5, <1>6 DEF Good, AnimTypes
<1>8. QueuesOK'
  BY <1>5, <1>6 DEF Good, QueuesOK
<1>9. \A f : UnderWay(f)' = UnderWay(f)
  BY <1>6 DEF UnderWay, Made
<1>10. \A k \in Made : (Timer(k)' <=> Timer(k)) /\ (Pending(k)' <=> Pending(k))
  BY <1>6 DEF Timer, Pending
<1>11. TokenOK(NoWork, c)'
  <2>1. TokenOK(NoWork, c)
    BY <1>1, <1>2 DEF Good, TokenOK, About, StopsFor
  <2> QED BY <1>2, <1>5, <1>9, <2>1 DEF TokenOK, Sentinel, About, StopsFor
<1>12. WorkOK(NoWork)' /\ StopOK(c)'
  BY <1>2 DEF WorkOK, StopOK
<1>13. TimersOK(c)'
  <2>1. TimersOK(NoCaller) /\ \A i \in DOMAIN timers : timers[i] \in Made
    BY <1>1 DEF Good, AnimTypes
  <2> QED BY <1>2, <1>5, <1>6, <1>10, <2>1 DEF TimersOK, Zombie
<1>14. DelaysOK(NoWork)'
  <2>1. DelaysOK(NoWork) /\ \A k \in timeouts : k \in Made
    BY <1>1 DEF Good, AnimTypes
  <2>2. \A f \in Elements : delay[f] # 0 => delay[f] \in Made
    BY <1>2, <2>1 DEF DelaysOK, UnderWay, Made
  <2> QED BY <1>2, <1>5, <1>6, <1>9, <1>10, <2>1, <2>2 DEF DelaysOK
<1>15. HeightsOK'
  BY <1>5, <1>6, <1>10 DEF Good, HeightsOK
<1> QED BY <1>4, <1>7, <1>8, <1>11, <1>12, <1>13, <1>14, <1>15 DEF Good

\* One timer is taken out of the list, that of an animation that is over.
LEMMA OneTimerLess ==
  ASSUME NEW work, NEW caller, NEW c, Good(work, caller), work.kind = "none",
         UNCHANGED <<queue, delay, timeouts, anim, timerId, height, shown, fxshow>>,
         Shaped(work, c)', timers' \in Seq(Made'), TimersOK(c)', StopOK(c)',
         \A f \in Elements : StopsFor(caller, f) => StopsFor(c, f)
  PROVE  Good(work, c)'
<1>1. AnimTypes'
  <2>1. AnimOK' /\ Made' = Made
    BY DEF Good, AnimTypes, AnimOK, Made
  <2> QED BY <2>1 DEF Good, AnimTypes
<1>2. QueuesOK'
  BY DEF Good, QueuesOK, Made
<1>3. \A f : UnderWay(f)' = UnderWay(f) /\ Sentinel(f)' = Sentinel(f)
  BY DEF UnderWay, Sentinel
<1>4. TokenOK(work, c)'
  <2>1. \A f \in Elements : ~About(work, f)' /\ StopsFor(c, f)' = StopsFor(c, f)
    BY DEF About, StopsFor
  <2>2. TokenOK(work, caller)
    BY DEF Good
  <2> QED BY <1>3, <2>1, <2>2 DEF TokenOK, About
<1>5. WorkOK(work)'
  BY DEF WorkOK
<1>6. DelaysOK(work)'
  BY DEF Good, DelaysOK, Made, Timer, Pending, UnderWay
<1>7. HeightsOK'
  BY DEF Good, HeightsOK, Made, Timer, Pending
<1> QED BY <1>1, <1>2, <1>4, <1>5, <1>6, <1>7 DEF Good

\* A timer that is over is taken out of the list, and only that.
LEMMA TickedStep ==
  ASSUME NEW work, NEW caller, Good(work, caller), Ticked
  PROVE  \E c : Good(work, c)'
<1>1. Shaped(work, caller) /\ work.kind = "none" /\ caller.kind = "ticked" /\ AnimTypes /\ TimersOK(caller)
  BY Kinds DEF Good, Ticked
<1>2. work \in Works /\ caller \in Callers /\ work = NoWork
  BY <1>1, WorkKinds DEF Shaped
<1>3. /\ Top = TickedOp(caller.z, caller.id, caller.more) /\ Tail(todo) = << >>
      /\ Top.i = caller.z /\ Top.id = caller.id /\ Top.more = caller.more
  <2>1. Top = TickedOp(caller.z, caller.id, caller.more) /\ Tail(todo) = << >>
    BY <1>1, Tops
  <2> QED BY <2>1 DEF TickedOp
<1>4. caller.z \in 1..Len(timers) /\ timers[caller.z] = caller.id /\ caller.z \in Nat \ {0}
  BY <1>1 DEF TimersOK, AnimTypes
<1>5. /\ timers' = IF ~caller.more THEN RemoveAt(timers, caller.z) ELSE timers
      /\ todo' = <<TickOp(IF ~caller.more THEN caller.z ELSE caller.z + 1)>> \o << >>
  <2>1. caller.z <= Len(timers)
    BY <1>4
  <2>2. (~Top.more /\ Top.i <= Len(timers) /\ timers[Top.i] = Top.id) <=> ~caller.more
    BY <1>3, <1>4, <2>1
  <2>3. CASE ~caller.more
    BY <1>3, <2>2, <2>3 DEF Ticked, TickOp
  <2>4. CASE caller.more
    BY <1>3, <2>2, <2>4 DEF Ticked, TickOp
  <2> QED BY <2>3, <2>4
<1>6. PICK i : i = IF ~caller.more THEN caller.z ELSE caller.z + 1
  OBVIOUS
<1>7. PICK c : c = TickCaller(i)
  OBVIOUS
<1>8. i \in Nat \ {0} /\ c \in Callers /\ c.kind = "tick"
  BY <1>4, <1>6, <1>7, Members
<1>9. Shaped(work, c)'
  <2>1. TickOp(i) \in Ops
    BY <1>8, OpsHere
  <2>2. todo' = <<TickOp(i)>>
    BY <1>5, <1>6, <2>1, Single, Push
  <2>3. work.kind = "none" /\ todo' = Full(work, Below(c))
    BY <1>1, <1>2, <1>7, <2>2, Forms
  <2> QED BY <1>2, <1>8, <2>3 DEF Shaped
<1>10. UNCHANGED <<queue, delay, timeouts, anim, timerId, height, shown, fxshow>>
  BY DEF Ticked
<1>11. timers' \in Seq(Made') /\ TimersOK(c)'
  <2>1. CASE ~caller.more
    <3>1. Zombie(caller) = caller.z /\ timers' = RemoveAt(timers, caller.z) /\ c.kind \notin {"ticked", "splice"}
      BY <1>1, <1>5, <1>8, <2>1 DEF Zombie
    <3> QED BY <1>1, <1>4, <1>10, <3>1, ZombieRemoved
  <2>2. CASE caller.more
    <3>1. Zombie(caller) = 0 /\ timers' = timers /\ Zombie(c) = 0
      BY <1>1, <1>5, <1>8, <2>2 DEF Zombie
    <3>2. TimersOK(c)
      BY <1>1, <1>8, <3>1 DEF TimersOK
    <3>3. TimersOK(c)'
      BY <1>10, <3>1, <3>2 DEF TimersOK, Made, Timer, Pending, Zombie
    <3>4. Made' = Made
      BY <1>10 DEF Made
    <3> QED BY <1>1, <3>1, <3>3, <3>4 DEF AnimTypes
  <2> QED BY <1>1, <1>2, <2>1, <2>2, CallerKinds
<1>12. StopOK(c)' /\ \A f \in Elements : StopsFor(caller, f) => StopsFor(c, f)
  BY <1>1, <1>8 DEF StopOK, StopsFor
<1>13. Good(work, c)'
  BY <1>1, <1>9, <1>10, <1>11, <1>12, OneTimerLess
<1> QED BY <1>13

\* The timer that stop has ended is taken out of the list.
LEMMA StopSpliceStep ==
  ASSUME NEW work, NEW caller, Good(work, caller), StopSplice,
         NEW c, c = StoppingCaller(caller.e, caller.end, caller.i, FALSE)
  PROVE  Good(work, c)'
<1>1. Shaped(work, caller) /\ work.kind = "none" /\ caller.kind = "splice" /\ AnimTypes /\ TimersOK(caller)
  BY Kinds DEF Good, StopSplice
<1>2. work \in Works /\ caller \in Callers /\ work = NoWork /\ caller.z = caller.i + 1
  BY <1>1, WorkKinds DEF Shaped
<1>3. /\ caller.e \in Elements /\ caller.end \in BOOLEAN /\ caller.i \in Nat /\ caller.deq = FALSE
  BY <1>1, <1>2, CallerKinds
<1>4. /\ Top = SpliceOp(caller.z) /\ Top.i = caller.z
      /\ Tail(todo) = <<StoppingOp(caller.e, caller.end, caller.i, FALSE)>>
  <2>1. Top = SpliceOp(caller.z) /\ Tail(todo) = <<StoppingOp(caller.e, caller.end, caller.i, caller.deq)>>
    BY <1>1, Tops
  <2> QED BY <1>3, <2>1 DEF SpliceOp
<1>5. c \in Callers /\ c.kind = "stopping" /\ c.e = caller.e /\ c.end = caller.end /\ c.i = caller.i /\ c.deq = FALSE
  <2>1. c \in [kind : {"stopping"}, e : Elements, end : BOOLEAN, i : Nat, deq : BOOLEAN]
    BY <1>3 DEF StoppingCaller
  <2> QED BY <2>1 DEF Callers, StoppingCaller
<1>6. caller.z \in 1..Len(timers) /\ caller.z <= Len(timers) /\ Len(timers) \in Nat
  BY <1>1 DEF TimersOK, AnimTypes
<1>7. timers' = RemoveAt(timers, caller.z) /\ todo' = <<StoppingOp(caller.e, caller.end, caller.i, FALSE)>>
  BY <1>4, <1>6 DEF StopSplice
<1>8. Shaped(work, c)'
  <2>1. todo' = Full(work, Below(c))
    BY <1>2, <1>7 DEF Full, NoWork, Below, StoppingCaller
  <2> QED BY <1>1, <1>2, <1>5, <2>1 DEF Shaped
<1>9. UNCHANGED <<queue, delay, timeouts, anim, timerId, height, shown, fxshow>>
  BY DEF StopSplice
<1>10. /\ TimersOK(c)' /\ timers' \in Seq(Made') /\ Len(timers') = Len(timers) - 1
       /\ \A j \in 1..Len(timers') : timers'[j] = IF j < caller.z THEN timers[j] ELSE timers[j + 1]
  <2>1. Zombie(caller) = caller.z /\ c.kind \notin {"ticked", "splice"}
    BY <1>1, <1>5 DEF Zombie
  <2> QED BY <1>1, <1>6, <1>7, <1>9, <2>1, ZombieRemoved
<1>11. StopOK(c)'
  <2>1. /\ \A j \in DOMAIN timers : j <= caller.i => anim[timers[j]].elem # caller.e
        /\ ~caller.end => UnderWay(caller.e) = {}
    BY <1>1, <1>3 DEF Good, StopOK
  <2>2. caller.i \in 0..Len(timers')
    BY <1>1, <1>2, <1>3, <1>6, <1>10 DEF AnimTypes
  <2>3. \A j \in DOMAIN timers' : j <= caller.i => anim[timers'[j]].elem # caller.e
    <3> SUFFICES ASSUME NEW j \in DOMAIN timers', j <= caller.i PROVE anim[timers'[j]].elem # caller.e
      OBVIOUS
    <3>1. j \in 1..Len(timers') /\ j < caller.z /\ j \in 1..Len(timers)
      BY <1>2, <1>3, <1>6, <1>10
    <3>2. timers'[j] = timers[j] /\ j \in DOMAIN timers
      BY <1>1, <1>10, <3>1 DEF AnimTypes
    <3> QED BY <2>1, <3>1, <3>2
  <2>4. UnderWay(caller.e)' = UnderWay(caller.e)
    BY <1>9 DEF UnderWay
  <2> QED BY <1>5, <1>9, <2>1, <2>2, <2>3, <2>4 DEF StopOK
<1>12. \A f \in Elements : StopsFor(caller, f) => StopsFor(c, f)
  BY <1>1, <1>3, <1>5 DEF StopsFor
<1> QED BY <1>1, <1>8, <1>9, <1>10, <1>11, <1>12, OneTimerLess

\* stop takes a delay its timeout.
LEMMA StopDelayStep ==
  ASSUME NEW work, NEW caller, Good(work, caller), StopDelay,
         NEW c, c = StoppingCaller(caller.e, caller.end, Len(timers), TRUE)
  PROVE  Good(work, c)'
<1>1. Shaped(work, caller) /\ work.kind = "none" /\ caller.kind = "stop" /\ AnimTypes /\ AnimOK
  BY Kinds DEF Good, StopDelay, AnimTypes
<1>2. work \in Works /\ caller \in Callers /\ work = NoWork /\ caller.e \in Elements /\ caller.end \in BOOLEAN
  BY <1>1, WorkKinds, CallerKinds DEF Shaped
<1>3. PICK e : e = caller.e
  OBVIOUS
<1>4. /\ Top.e = e /\ Top.end = caller.end /\ Tail(todo) = << >>
  <2>1. Top = StopOp(caller.e, caller.end) /\ Tail(todo) = << >>
    BY <1>1, Tops
  <2> QED BY <1>3, <2>1 DEF StopOp
<1>5. Len(timers) \in Nat /\ timers \in Seq(Made) /\ \A j \in DOMAIN timers : j <= Len(timers)
  BY <1>1 DEF AnimTypes
<1>6. c \in Callers /\ c.kind = "stopping" /\ c.e = e /\ c.end = caller.end /\ c.i = Len(timers) /\ c.deq = TRUE
  <2>1. c \in [kind : {"stopping"}, e : Elements, end : BOOLEAN, i : Nat, deq : BOOLEAN]
    BY <1>2, <1>5 DEF StoppingCaller
  <2> QED BY <1>3, <2>1 DEF Callers, StoppingCaller
<1>7. Shaped(work, c)'
  <2>1. todo' = <<StoppingOp(e, caller.end, Len(timers), TRUE)>> \o << >>
    BY <1>4 DEF StopDelay, StoppingOp
  <2>2. StoppingOp(e, caller.end, Len(timers), TRUE) \in Ops
    BY <1>2, <1>3, <1>5 DEF Ops, StoppingOp
  <2>3. todo' = <<StoppingOp(e, caller.end, Len(timers), TRUE)>>
    BY <2>1, <2>2, Single, Push
  <2>4. todo' = Full(work, Below(c))
    BY <1>2, <1>3, <2>3 DEF Full, NoWork, Below, StoppingCaller
  <2> QED BY <1>1, <1>2, <1>6, <2>4 DEF Shaped
<1>8. PICK id : id = delay[e]
  OBVIOUS
<1>9. /\ timeouts' = timeouts \ {id} /\ anim' = (IF id = 0 THEN anim ELSE [anim EXCEPT ![id].state = "rejected"])
      /\ delay' = [delay EXCEPT ![e] = 0] /\ UNCHANGED <<queue, timers, timerId, height, shown, fxshow>>
  BY <1>4, <1>8 DEF StopDelay
<1>10. CASE id = 0
  <2>1. 0 \notin Made
    BY <1>1, MadeIds
  <2>2. timeouts' = timeouts /\ delay' = delay /\ anim' = anim
    BY <1>1, <1>8, <1>9, <1>10, <2>1 DEF AnimTypes
  <2>3. Still
    BY <1>9, <2>2 DEF Still
  <2>4. TokenOK(work, c)
    BY <1>1, <1>6 DEF Good, TokenOK, StopsFor
  <2>5. TimersOK(c)
    BY <1>1, <1>6 DEF Good, TimersOK, Zombie
  <2>6. StopOK(c)
    <3>1. c.i \in 0..Len(timers) /\ delay[c.e] = 0 /\ \A j \in DOMAIN timers : j <= c.i
      <4>1. c.i = Len(timers) /\ c.e = e
        BY <1>6
      <4>2. delay[c.e] = 0
        BY <1>8, <1>10, <4>1
      <4>3. Len(timers) \in 0..Len(timers)
        BY <1>5
      <4> QED BY <1>5, <4>1, <4>2, <4>3, Zenon
    <3> QED BY <1>6, <3>1 DEF StopOK
  <2> QED BY <1>7, <2>3, <2>4, <2>5, <2>6, StillGood DEF Good
<1>11. CASE id # 0
  <2>1. id \in UnderWay(e) /\ ~Timer(id) /\ id \in Made /\ Pending(id) /\ anim[id].elem = e
    BY <1>1, <1>2, <1>3, <1>8, <1>11 DEF Good, DelaysOK, UnderWay, Made, Pending
  <2>2. Changed(id, "rejected", e)
    <3>1. PICK s : s = "rejected"
      OBVIOUS
    <3>2. s \in States /\ s # "queued" /\ anim' = [anim EXCEPT ![id].state = s]
      BY <1>9, <1>11, <3>1 DEF States
    <3>3. Changed(id, s, e)
      BY <1>1, <2>1, <3>2, StateSeen
    <3> QED BY <3>1, <3>3
  <2>3. /\ AnimOK' /\ Made' = Made /\ e \in Elements
        /\ \A k \in Made :
             /\ anim'[k].elem = anim[k].elem /\ anim'[k].tween = anim[k].tween /\ anim'[k].orig = anim[k].orig
             /\ Timer(k)' <=> Timer(k)
             /\ Pending(k)' <=> k # id /\ Pending(k)
             /\ anim'[k].state = "queued" <=> k # id /\ anim[k].state = "queued"
        /\ \A f : f # e => UnderWay(f)' = UnderWay(f)
        /\ UnderWay(e)' = UnderWay(e) \ {id}
    BY <2>2 DEF Changed
  <2>4. AnimTypes'
    BY <1>1, <1>9, <2>3 DEF AnimTypes
  <2>5. QueuesOK'
    BY <1>9, <2>1, <2>3 DEF Good, QueuesOK, Pending
  <2>6. UnderWay(e)' = {}
    BY <2>1, <2>3 DEF Good, TokenOK
  <2>7. TokenOK(work, c)'
    <3> SUFFICES ASSUME NEW f \in Elements
        PROVE /\ \A a, b \in UnderWay(f)' : a = b
              /\ UnderWay(f)' # {} => Sentinel(f)'
              /\ queue'[f] # << >> => UnderWay(f)' # {} \/ StopsFor(c, f)
              /\ queue'[f] # << >> => Sentinel(f)'
      BY <1>1 DEF TokenOK, About, StopsFor
    <3>1. Sentinel(f)' <=> Sentinel(f)
      BY <1>9 DEF Sentinel
    <3>2. /\ \A a, b \in UnderWay(f) : a = b
          /\ UnderWay(f) # {} => Sentinel(f)
          /\ queue[f] # << >> => UnderWay(f) # {}
          /\ queue[f] # << >> => Sentinel(f)
      BY <1>1 DEF Good, TokenOK, About, StopsFor
    <3>3. StopsFor(c, e)
      BY <1>6 DEF StopsFor
    <3> QED BY <1>9, <2>3, <2>6, <3>1, <3>2, <3>3
  <2>8. WorkOK(work)'
    BY <1>1 DEF WorkOK
  <2>9. TimersOK(c)'
    <3>1. \A i \in DOMAIN timers : timers[i] \in Made /\ timers[i] # id
      BY <1>5, <2>1 DEF Good, TimersOK
    <3>2. TimersOK(caller) /\ Zombie(caller) = 0 /\ Zombie(c) = 0
      BY <1>1, <1>6 DEF Good, Zombie
    <3>3. /\ \A i, j \in DOMAIN timers' : timers'[i] = timers'[j] => i = j
          /\ timers' # << >> => timerId'
      BY <1>9, <3>2 DEF TimersOK
    <3>4. \A i \in DOMAIN timers' : Timer(timers[i])' /\ anim'[timers'[i]].state # "queued" /\ (Pending(timers[i])' <=> i # Zombie(c))
      <4> TAKE i \in DOMAIN timers'
      <4>1. i \in DOMAIN timers /\ timers' = timers
        BY <1>9
      <4>2. timers[i] \in Made /\ timers[i] # id
        BY <3>1, <4>1
      <4>3. Timer(timers[i]) /\ anim[timers[i]].state # "queued" /\ (Pending(timers[i]) <=> i # Zombie(c))
        BY <3>2, <4>1 DEF TimersOK
      <4> QED BY <2>3, <4>1, <4>2, <4>3
    <3>5. \A k \in Made' : Timer(k)' /\ Pending(k)' => \E i \in DOMAIN timers' : timers'[i] = k
      BY <1>9, <2>3, <3>2 DEF TimersOK
    <3>6. Zombie(c)' = Zombie(c)
      BY DEF Zombie
    <3> QED BY <1>6, <3>3, <3>4, <3>5, <3>6 DEF TimersOK
  <2>10. DelaysOK(work)'
    <3>1. \A k \in timeouts' : ~Timer(k)' /\ Pending(k)'
      BY <1>1, <1>9, <2>3 DEF Good, DelaysOK, AnimTypes
    <3>2. \A k \in Made' : ~Timer(k)' /\ Pending(k)' => k \in timeouts' /\ delay'[anim'[k].elem] = k
      <4> SUFFICES ASSUME NEW k \in Made, ~Timer(k)', Pending(k)' PROVE k \in timeouts' /\ delay'[anim[k].elem] = k
        BY <2>3
      <4>1. ~Timer(k) /\ Pending(k) /\ k # id /\ anim[k].elem \in Elements
        BY <1>1, <2>3, OneAnim
      <4>2. k \in timeouts /\ delay[anim[k].elem] = k
        BY <4>1 DEF Good, DelaysOK
      <4>3. anim[k].elem # e
        BY <1>8, <4>1, <4>2
      <4> QED BY <1>1, <1>9, <4>1, <4>2, <4>3 DEF AnimTypes
    <3>3. \A f \in Elements : delay'[f] # 0 => delay'[f] \in UnderWay(f)' /\ ~Timer(delay[f])'
      <4> SUFFICES ASSUME NEW f \in Elements, delay'[f] # 0 PROVE delay'[f] \in UnderWay(f)' /\ ~Timer(delay[f])'
        OBVIOUS
      <4>1. f # e /\ delay'[f] = delay[f]
        BY <1>1, <1>9, <2>3 DEF AnimTypes
      <4>2. delay[f] \in UnderWay(f) /\ ~Timer(delay[f])
        BY <1>1, <4>1 DEF Good, DelaysOK
      <4>3. delay[f] \in Made
        BY <4>2 DEF UnderWay, Made
      <4> QED BY <2>3, <4>1, <4>2, <4>3
    <3> QED BY <3>1, <3>2, <3>3 DEF DelaysOK
  <2>11. StopOK(c)'
    <3>1. delay'[e] = 0
      BY <1>1, <1>9, <2>3 DEF AnimTypes
    <3>2. c.i \in 0..Len(timers') /\ delay'[c.e] = 0 /\ \A j \in DOMAIN timers' : j <= c.i
      <4>1. c.i = Len(timers) /\ c.e = e /\ timers' = timers
        BY <1>6, <1>9
      <4>2. delay'[c.e] = 0
        BY <3>1, <4>1
      <4>3. Len(timers) \in 0..Len(timers)
        BY <1>5
      <4> QED BY <1>5, <4>1, <4>2, <4>3, Zenon
    <3> QED BY <1>6, <3>2 DEF StopOK
  <2>12. HeightsOK'
    BY <1>9, <2>1, <2>3 DEF Good, HeightsOK
  <2> QED BY <1>7, <2>4, <2>5, <2>7, <2>8, <2>9, <2>10, <2>11, <2>12 DEF Good
<1> QED BY <1>10, <1>11

Shows == [exists : BOOLEAN, hidden : {"unset", "yes", "no"}, height : {Unset, Natural}]

\* The end of an animation restores the height.
LEMMA AtEndRestores ==
  ASSUME NEW a \in Anims, a.tween, a.orig = Natural, NEW isShown \in BOOLEAN, NEW e, NEW h, NEW data,
         NEW r, r = AtEnd(a, e, h, isShown, data)
  PROVE  r.height = Natural /\ r.shown \in BOOLEAN /\ r.data = NoShow
<1>1. r = [height |-> a.orig,  shown |-> IF a.hides THEN FALSE ELSE isShown, data |-> NoShow]
  BY DEF AtEnd
<1>2. r.height = a.orig /\ r.data = NoShow /\ r.shown = IF a.hides THEN FALSE ELSE isShown
  BY <1>1
<1>3. (IF a.hides THEN FALSE ELSE isShown) \in BOOLEAN
  OBVIOUS
<1> QED BY <1>2, <1>3

LEMMA NoShowIs == NoShow \in Shows /\ NoShow.exists = FALSE /\ Natural \in 0..Natural
  BY DEF NoShow, Shows, Unset, Natural

\* A timer of its element is stopped: neither it nor any before it runs.
LEMMA NotFoundStep ==
  ASSUME NEW work, NEW caller, Good(work, caller), work.kind = "none", caller.kind = "stopping", Still,
         caller.i > 0, ~(anim[timers[caller.i]].elem = caller.e /\ anim[timers[caller.i]].state = "pending"),
         NEW c, c = StoppingCaller(caller.e, caller.end, caller.i - 1, caller.deq), todo' = Below(c)
  PROVE  Good(work, c)'
<1>1. Shaped(work, caller) /\ AnimTypes /\ work \in Works /\ caller \in Callers /\ work = NoWork
  BY WorkKinds DEF Good, Shaped
<1>2. caller.e \in Elements /\ caller.end \in BOOLEAN /\ caller.i \in Nat /\ caller.deq \in BOOLEAN
  BY <1>1, CallerKinds
<1>3. caller.i - 1 \in Nat
  BY <1>2
<1>4. /\ c \in Callers /\ c.kind = "stopping" /\ c.e = caller.e /\ c.end = caller.end /\ c.i = caller.i - 1
      /\ c.deq = caller.deq
  BY <1>2, <1>3, Members
<1>5. Shaped(work, c)'
  BY <1>1, <1>4, Forms DEF Shaped
<1>6. TokenOK(work, c)
  <2>1. \A f \in Elements : StopsFor(c, f) <=> StopsFor(caller, f)
    BY <1>4 DEF StopsFor
  <2> QED BY <2>1 DEF Good, TokenOK
<1>7. TimersOK(c) /\ \A j \in DOMAIN timers : Pending(timers[j])
  <2>1. TimersOK(caller) /\ Zombie(caller) = 0 /\ Zombie(c) = 0
    BY <1>4 DEF Good, Zombie
  <2>2. \A j \in DOMAIN timers : j # 0
    BY <1>1 DEF AnimTypes
  <2>3. TimersOK(c)
    BY <1>4, <2>1 DEF TimersOK
  <2>4. \A j \in DOMAIN timers : Pending(timers[j])
    BY <2>1, <2>2 DEF TimersOK
  <2> QED BY <2>3, <2>4
<1>8. StopOK(c)
  <2>1. c.i \in 0..Len(timers)
    BY <1>1, <1>2, <1>4 DEF Good, StopOK, AnimTypes
  <2>2. c.deq => delay[c.e] = 0 /\ \A j \in DOMAIN timers : anim[timers[j]].elem = c.e => j <= c.i
    <3> SUFFICES ASSUME c.deq, NEW j \in DOMAIN timers, anim[timers[j]].elem = c.e PROVE delay[c.e] = 0 /\ j <= c.i
      BY <1>4 DEF Good, StopOK
    <3>1. j <= caller.i /\ delay[c.e] = 0
      BY <1>4 DEF Good, StopOK
    <3>2. j # caller.i
      BY <1>4, <1>7 DEF Pending
    <3> QED BY <1>1, <1>2, <1>4, <3>1, <3>2 DEF AnimTypes
  <2>3. ~c.deq => \A j \in DOMAIN timers : j <= c.i => anim[timers[j]].elem # c.e
    <3> SUFFICES ASSUME ~c.deq, NEW j \in DOMAIN timers, j <= c.i PROVE anim[timers[j]].elem # c.e
      OBVIOUS
    <3>1. j <= caller.i /\ ~caller.deq
      BY <1>1, <1>2, <1>4 DEF AnimTypes
    <3> QED BY <1>4, <3>1 DEF Good, StopOK
  <2>4. ~c.deq /\ ~c.end => UnderWay(c.e) = {}
    BY <1>4 DEF Good, StopOK
  <2> QED BY <2>1, <2>2, <2>3, <2>4 DEF StopOK
<1> QED BY <1>5, <1>6, <1>7, <1>8, StillGood DEF Good

\* The heights are restored as far as nothing is remembered any more.
HeightsKept(e) ==
  /\ height' \in [Elements -> 0..Natural] /\ shown' \in [Elements -> BOOLEAN] /\ fxshow' \in [Elements -> Shows]
  /\ \A f \in Elements : f # e => height'[f] = height[f] /\ fxshow'[f] = fxshow[f]
  /\ IF fxshow'[e].exists THEN fxshow'[e].height = Natural ELSE height'[e] = Natural

\* What stop does when it has found one.
WorkAfter(w, e, end) == IF end THEN w.kind = "complete" /\ w.e = e ELSE w.kind = "none"

\* stop finds a running timer of its element.
LEMMA FoundParts ==
  ASSUME NEW work, NEW caller, Good(work, caller), work.kind = "none", caller.kind = "stopping",
         caller.i > 0, NEW id, id = timers[caller.i], NEW e, e = caller.e, anim[id].elem = e, Pending(id),
         NEW s \in {"resolved", "rejected"}, anim' = [anim EXCEPT ![id].state = s],
         UNCHANGED <<queue, delay, timeouts, timers, timerId>>,
         NEW c, c = SpliceCaller(e, caller.end, caller.i - 1), NEW w, Shaped(w, c)',
         WorkAfter(w, e, caller.end), HeightsKept(e)
  PROVE  Good(w, c)'
<1>1. Shaped(work, caller) /\ work \in Works /\ caller \in Callers /\ AnimTypes /\ AnimOK
  BY DEF Good, Shaped, AnimTypes
<1>2. caller.e \in Elements /\ caller.end \in BOOLEAN /\ caller.i \in Nat /\ caller.deq \in BOOLEAN
  BY <1>1, CallerKinds
<1>3. caller.i \in 1..Len(timers) /\ timers \in Seq(Made) /\ caller.i \in DOMAIN timers
  BY <1>1, <1>2 DEF Good, StopOK, AnimTypes
<1>4. id \in Made /\ Timer(id) /\ id \in UnderWay(e) /\ e \in Elements
  BY <1>2, <1>3 DEF Good, TimersOK, UnderWay, Made, Pending
<1>5. Changed(id, s, e)
  <2>1. s \in States /\ s # "queued"
    BY DEF States
  <2> QED BY <1>1, <1>4, <2>1, StateSeen
<1>6. /\ AnimOK' /\ Made' = Made
      /\ \A k \in Made :
           /\ anim'[k].elem = anim[k].elem /\ anim'[k].tween = anim[k].tween /\ anim'[k].orig = anim[k].orig
           /\ Timer(k)' <=> Timer(k)
           /\ Pending(k)' <=> k # id /\ Pending(k)
           /\ anim'[k].state = "queued" <=> k # id /\ anim[k].state = "queued"
      /\ \A f : f # e => UnderWay(f)' = UnderWay(f)
      /\ UnderWay(e)' = UnderWay(e) \ {id}
  BY <1>5 DEF Changed
<1>7. UnderWay(e) = {id} /\ UnderWay(e)' = {}
  BY <1>4, <1>6 DEF Good, TokenOK
<1>8. /\ c.kind = "splice" /\ c.z = caller.i /\ c.e = e /\ c.end = caller.end /\ c.i = caller.i - 1 /\ c.deq = FALSE
  <2>1. caller.i - 1 \in Nat /\ (caller.i - 1) + 1 = caller.i
    BY <1>2
  <2> QED BY <2>1 DEF SpliceCaller
<1>9. AnimTypes'
  BY <1>1, <1>6 DEF AnimTypes, Shows, HeightsKept
<1>10. QueuesOK'
  BY <1>6 DEF Good, QueuesOK, Pending
<1>11. TokenOK(w, c)'
  <2> SUFFICES ASSUME NEW f \in Elements
      PROVE /\ \A a, b \in UnderWay(f)' : a = b
            /\ UnderWay(f)' # {} => Sentinel(f)' /\ ~About(w, f)'
            /\ queue'[f] # << >> => UnderWay(f)' # {} \/ About(w, f)' \/ StopsFor(c, f)
            /\ queue'[f] # << >> => Sentinel(f)'
            /\ w.kind = "complete" /\ w.e = f => Sentinel(f)'
    BY DEF TokenOK, StopsFor, WorkAfter
  <2>1. Sentinel(f)' <=> Sentinel(f)
    BY DEF Sentinel
  <2>2. About(w, f)' <=> f = e /\ caller.end
    BY <1>2 DEF About, WorkAfter
  <2>3. /\ \A a, b \in UnderWay(f) : a = b
        /\ UnderWay(f) # {} => Sentinel(f)
        /\ queue[f] # << >> => UnderWay(f) # {} \/ StopsFor(caller, f)
        /\ queue[f] # << >> => Sentinel(f)
    BY DEF Good, TokenOK, About
  <2>4. StopsFor(caller, f) => f = e
    BY DEF StopsFor
  <2>5. ~caller.end => StopsFor(c, e)
    BY <1>8 DEF StopsFor
  <2>6. CASE f = e
    BY <1>7, <2>1, <2>2, <2>3, <2>5, <2>6 DEF WorkAfter
  <2>7. CASE f # e
    BY <1>6, <2>1, <2>2, <2>3, <2>4, <2>7 DEF WorkAfter
  <2> QED BY <2>6, <2>7
<1>12. WorkOK(w)'
  BY DEF WorkOK, WorkAfter
<1>13. TimersOK(c)'
  <2>1. Zombie(c) = caller.i /\ Zombie(caller) = 0
    BY <1>8 DEF Zombie
  <2>2. /\ \A i, j \in DOMAIN timers : timers[i] = timers[j] => i = j
        /\ \A i \in DOMAIN timers : timers[i] \in Made /\ Timer(timers[i]) /\ Pending(timers[i]) /\ anim[timers[i]].state # "queued"
        /\ \A k \in Made : Timer(k) /\ Pending(k) => \E i \in DOMAIN timers : timers[i] = k
        /\ timers # << >> => timerId
    BY <1>3, <2>1 DEF Good, TimersOK
  <2>3. \A i \in DOMAIN timers' : Timer(timers[i])' /\ anim'[timers'[i]].state # "queued" /\ (Pending(timers[i])' <=> i # Zombie(c))
    BY <1>3, <1>6, <2>1, <2>2
  <2>4. \A k \in Made' : Timer(k)' /\ Pending(k)' => \E i \in DOMAIN timers' : timers'[i] = k
    BY <1>6, <2>2
  <2>5. Zombie(c)' = Zombie(c)
    BY DEF Zombie
  <2> QED BY <1>3, <1>8, <2>2, <2>3, <2>4, <2>5 DEF TimersOK
<1>14. DelaysOK(w)'
  <2>1. \A k \in timeouts' : ~Timer(k)' /\ Pending(k)'
    BY <1>1, <1>4, <1>6 DEF Good, DelaysOK, AnimTypes
  <2>2. \A k \in Made' : ~Timer(k)' /\ Pending(k)' => k \in timeouts' /\ delay'[anim'[k].elem] = k
    BY <1>6 DEF Good, DelaysOK
  <2>3. \A f \in Elements : delay'[f] # 0 => delay'[f] \in UnderWay(f)' /\ ~Timer(delay[f])'
    <3> SUFFICES ASSUME NEW f \in Elements, delay[f] # 0 PROVE delay[f] \in UnderWay(f)' /\ ~Timer(delay[f])'
      OBVIOUS
    <3>1. delay[f] \in UnderWay(f) /\ ~Timer(delay[f])
      BY DEF Good, DelaysOK
    <3>2. delay[f] \in Made /\ delay[f] # id
      BY <1>4, <3>1 DEF UnderWay, Made
    <3> QED BY <1>6, <3>1, <3>2
  <2> QED BY <2>1, <2>2, <2>3 DEF DelaysOK
<1>15. StopOK(c)'
  <2>1. c.i \in 0..Len(timers)
    BY <1>1, <1>3, <1>8 DEF AnimTypes
  <2>2. \A j \in DOMAIN timers' : j <= c.i => anim'[timers'[j]].elem # c.e
    <3> SUFFICES ASSUME NEW j \in DOMAIN timers, j <= c.i, anim'[timers[j]].elem = e PROVE FALSE
      BY <1>8
    <3>1. j # caller.i
      BY <1>2, <1>3, <1>8
    <3>2. timers[j] \in Made /\ Pending(timers[j]) /\ anim[timers[j]].elem = e
      <4>1. Zombie(caller) = 0
        BY DEF Zombie
      <4> QED BY <1>3, <1>6, <4>1 DEF Good, TimersOK
    <3>3. timers[j] = id
      BY <1>7, <3>2 DEF UnderWay, Made, Pending
    <3> QED BY <1>3, <3>1, <3>3 DEF Good, TimersOK
  <2> QED BY <1>7, <1>8, <2>1, <2>2 DEF StopOK
<1>16. HeightsOK'
  <2>1. \A k \in Made : Timer(k)' /\ Pending(k)' => k # id /\ Pending(k) /\ Timer(k) /\ anim[k].elem # e
    BY <1>6, <1>7 DEF UnderWay, Made, Pending
  <2>2. \A k \in Made : anim[k].elem \in Elements
    BY <1>1, OneAnim
  <2>3. \A k \in Made : Timer(k)' /\ Pending(k)' => anim'[k].tween /\ anim'[k].orig = Natural /\ fxshow'[anim'[k].elem].exists
    BY <1>6, <2>1, <2>2 DEF Good, HeightsOK, HeightsKept
  <2>4. \A f \in Elements : IF fxshow'[f].exists THEN fxshow'[f].height = Natural ELSE height'[f] = Natural
    BY DEF Good, HeightsOK, HeightsKept
  <2> QED BY <1>6, <2>3, <2>4 DEF HeightsOK
<1> QED BY <1>9, <1>10, <1>11, <1>12, <1>13, <1>14, <1>15, <1>16 DEF Good

LEMMA Pair ==
  ASSUME NEW T, NEW a \in T, NEW b \in T
  PROVE  <<a, b>> = <<a>> \o <<b>> /\ <<a, b>> \in Seq(T)
<1>1. <<b>> \in Seq(T) /\ << >> \in Seq(T) /\ <<a, b>> \in Seq(T)
  OBVIOUS
<1>2. <<a, b>> \o << >> = <<a>> \o (<<b>> \o << >>)
  BY <1>1, PushTwo
<1>3. <<a, b>> \o << >> = <<a, b>> /\ <<b>> \o << >> = <<b>>
  BY <1>1
<1> QED BY <1>1, <1>2, <1>3

\* stop looks at one timer.
LEMMA StoppingStep ==
  ASSUME NEW work, NEW caller, Good(work, caller), Stopping
  PROVE  \E w, c : Good(w, c)'
<1>1. Shaped(work, caller) /\ work.kind = "none" /\ caller.kind = "stopping" /\ AnimTypes /\ AnimOK
  BY Kinds DEF Good, Stopping, AnimTypes
<1>2. work \in Works /\ caller \in Callers /\ work = NoWork
  BY <1>1, WorkKinds DEF Shaped
<1>3. caller.e \in Elements /\ caller.end \in BOOLEAN /\ caller.i \in Nat /\ caller.deq \in BOOLEAN
  BY <1>1, <1>2, CallerKinds
<1>4. /\ Top = StoppingOp(caller.e, caller.end, caller.i, caller.deq) /\ Tail(todo) = << >>
      /\ Top.e = caller.e /\ Top.end = caller.end /\ Top.i = caller.i
  <2>1. Top = StoppingOp(caller.e, caller.end, caller.i, caller.deq) /\ Tail(todo) = << >>
    BY <1>1, Tops
  <2> QED BY <2>1 DEF StoppingOp
<1>5. PICK i, e, id : i = caller.i /\ e = caller.e /\ id = timers[i]
  OBVIOUS
<1>6. i \in Nat /\ i > 0 /\ i <= Len(timers) /\ i \in DOMAIN timers /\ id \in Made /\ i - 1 \in Nat
  <2>1. i > 0 /\ i \in 0..Len(timers)
    BY <1>1, <1>3, <1>4, <1>5 DEF Good, StopOK, Stopping
  <2> QED BY <1>1, <1>3, <1>5, <2>1 DEF AnimTypes
<1>7. UNCHANGED <<queue, delay, timeouts, timers, timerId>>
  BY DEF Stopping
<1>8. StoppingOp(e, caller.end, i - 1, caller.deq) \in Ops /\ StoppingOp(e, caller.end, i - 1, FALSE) \in Ops /\ SpliceOp(i) \in Ops
  BY <1>3, <1>5, <1>6 DEF Ops, StoppingOp, SpliceOp
<1>9. CASE ~(anim[id].elem = e /\ anim[id].state = "pending")
  <2>1. PICK c : c = StoppingCaller(e, caller.end, i - 1, caller.deq)
    OBVIOUS
  <2>2. Still /\ todo' = <<[Top EXCEPT !.i = @ - 1]>> \o << >>
    BY <1>4, <1>5, <1>6, <1>7, <1>9 DEF Stopping, Still
  <2>3. [Top EXCEPT !.i = @ - 1] = StoppingOp(e, caller.end, i - 1, caller.deq)
    BY <1>4, <1>5 DEF StoppingOp
  <2>4. todo' = <<StoppingOp(e, caller.end, i - 1, caller.deq)>>
    BY <1>8, <2>2, <2>3, Single, Push
  <2>5. todo' = Below(c)
    BY <2>1, <2>4, Forms
  <2>6. Good(work, c)'
    BY <1>1, <1>5, <1>6, <1>9, <2>1, <2>2, <2>5, NotFoundStep
  <2> QED BY <2>6
<1>10. CASE anim[id].elem = e /\ anim[id].state = "pending"
  <2>1. Timer(id) /\ Pending(id) /\ anim[id] \in Anims /\ anim[id].tween /\ anim[id].orig = Natural
    BY <1>1, <1>6, <1>10, <1>5, OneAnim DEF Good, TimersOK, HeightsOK, Pending
  <2>2. PICK after : after = IF caller.end THEN AtEnd(anim[id], e, anim[id].end, shown[e], fxshow[e])
                             ELSE [height |-> height[e], shown |-> shown[e], data |-> fxshow[e]]
    OBVIOUS
  <2>3. /\ anim' = [anim EXCEPT ![id].state = IF caller.end THEN "resolved" ELSE "rejected"]
        /\ height' = [height EXCEPT ![e] = after.height]
        /\ shown' = [shown EXCEPT ![e] = after.shown]
        /\ fxshow' = [fxshow EXCEPT ![e] = after.data]
        /\ todo' = (IF caller.end THEN CompleteOps(id) ELSE << >>)
                   \o <<[op |-> "splice", i |-> i], [Top EXCEPT !.i = @ - 1, !.dequeue = FALSE]>> \o << >>
    BY <1>4, <1>5, <1>6, <1>10, <2>2, ZenonT(60) DEF Stopping
  <2>4. PICK c : c = SpliceCaller(e, caller.end, i - 1)
    OBVIOUS
  <2>5. c \in Callers /\ c.kind = "splice" /\ c.end = caller.end /\ c.z = c.i + 1
    <3>1. c \in [kind : {"splice"}, z : Nat, e : Elements, end : BOOLEAN, i : Nat, deq : {FALSE}]
      BY <1>3, <1>5, <1>6, <2>4 DEF SpliceCaller
    <3> QED BY <2>4, <3>1 DEF Callers, SpliceCaller
  <2>6. <<[op |-> "splice", i |-> i], [Top EXCEPT !.i = @ - 1, !.dequeue = FALSE]>> = Below(c)
    <3>1. [Top EXCEPT !.i = @ - 1, !.dequeue = FALSE] = StoppingOp(e, caller.end, i - 1, FALSE)
      <4>1. [Top EXCEPT !.i = @ - 1] = StoppingOp(e, caller.end, i - 1, caller.deq)
        BY <1>4, <1>5 DEF StoppingOp
      <4>2. ASSUME NEW d, NEW b
            PROVE [StoppingOp(e, caller.end, i - 1, d) EXCEPT !.dequeue = b] = StoppingOp(e, caller.end, i - 1, b)
        BY DEF StoppingOp
      <4> QED BY <4>1, <4>2, Zenon
    <3>2. [op |-> "splice", i |-> i] = SpliceOp(i)
      BY DEF SpliceOp
    <3>3. <<StoppingOp(e, caller.end, i - 1, FALSE)>> \in Seq(Ops)
      BY <1>8, Single
    <3>4. <<SpliceOp(i), StoppingOp(e, caller.end, i - 1, FALSE)>>
            = <<SpliceOp(i)>> \o <<StoppingOp(e, caller.end, i - 1, FALSE)>>
      BY <1>8, Pair
    <3>5. Below(c) = <<SpliceOp(i)>> \o <<StoppingOp(e, caller.end, i - 1, FALSE)>>
      BY <1>6, <2>4 DEF Below, SpliceCaller
    <3> QED BY <3>1, <3>2, <3>4, <3>5
  <2>7. Below(c) \in Seq(Ops)
    BY <2>5, BelowKinds
  <2>8. PICK w : w = IF caller.end THEN CompleteWork(e, FALSE) ELSE NoWork
    OBVIOUS
  <2>9. w \in Works /\ WorkAfter(w, e, caller.end)
    BY <1>3, <1>5, <2>8 DEF Works, CompleteWork, NoWork, WorkAfter
  <2>10. todo' = Full(w, Below(c))
    <3>1. todo' = (IF caller.end THEN CompleteOps(id) ELSE << >>) \o Below(c)
      <4>1. Below(c) \o << >> = Below(c)
        BY <2>7, Push
      <4>2. CompleteOps(id) \in Seq(Ops) /\ << >> \in Seq(Ops)
        BY <1>3, <1>5, <1>10 DEF CompleteOps, Ops, DequeueOp
      <4>3. PICK x : x = IF caller.end THEN CompleteOps(id) ELSE << >>
        OBVIOUS
      <4>4. x \in Seq(Ops)
        BY <4>2, <4>3
      <4>5. todo' = (x \o Below(c)) \o << >>
        BY <2>3, <2>6, <4>3
      <4> QED BY <2>7, <4>1, <4>3, <4>4, <4>5, Associates
    <3>2. CASE caller.end
      <4>1. CompleteOps(id) = <<CompleteOp(e, FALSE), DequeueOp(e)>>
        BY <1>10 DEF CompleteOps, CompleteOp
      <4>2. CompleteOp(e, FALSE) \in Ops /\ DequeueOp(e) \in Ops
        BY <1>3, <1>5 DEF Ops, CompleteOp, DequeueOp
      <4>3. todo' = <<CompleteOp(e, FALSE)>> \o (<<DequeueOp(e)>> \o Below(c))
        BY <2>7, <3>1, <3>2, <4>1, <4>2, PushTwo
      <4> QED BY <2>8, <3>2, <4>3 DEF Full, CompleteWork
    <3>3. CASE ~caller.end
      <4>1. todo' = Below(c)
        <5>1. << >> \o Below(c) = Below(c)
          BY <2>7
        <5> QED BY <3>1, <3>3, <5>1
      <4> QED BY <2>8, <3>3, <4>1, Forms
    <3> QED BY <3>2, <3>3
  <2>11. Shaped(w, c)'
    BY <2>5, <2>9, <2>10 DEF Shaped, WorkAfter
  <2>12. HeightsKept(e)
    <3>1. /\ height \in [Elements -> 0..Natural] /\ shown \in [Elements -> BOOLEAN] /\ fxshow \in [Elements -> Shows]
          /\ e \in Elements
      BY <1>1, <1>3, <1>5 DEF AnimTypes, Shows
    <3>2. /\ after.height \in 0..Natural /\ after.shown \in BOOLEAN /\ after.data \in Shows
          /\ IF after.data.exists THEN after.data.height = Natural ELSE after.height = Natural
      <4>1. CASE caller.end
        <5>1. after.height = Natural /\ after.shown \in BOOLEAN /\ after.data = NoShow
          BY <2>1, <2>2, <3>1, <4>1, AtEndRestores
        <5> QED BY <5>1, NoShowIs
      <4>2. CASE ~caller.end
        <5>1. after.height = height[e] /\ after.shown = shown[e] /\ after.data = fxshow[e]
          BY <2>2, <4>2
        <5> QED BY <3>1, <5>1 DEF Good, HeightsOK
      <4> QED BY <4>1, <4>2
    <3> QED BY <2>3, <3>1, <3>2 DEF HeightsKept
  <2>13. PICK s \in {"resolved", "rejected"} : anim' = [anim EXCEPT ![id].state = s]
    BY <2>3
  <2>14. Good(w, c)'
    <3>1. /\ caller.i > 0 /\ id = timers[caller.i] /\ e = caller.e /\ anim[id].elem = e
          /\ c = SpliceCaller(e, caller.end, caller.i - 1)
      BY <1>5, <1>6, <1>10, <2>4
    <3> QED BY <1>1, <1>7, <2>1, <2>9, <2>11, <2>12, <2>13, <3>1, FoundParts
  <2> QED BY <2>14
<1> QED BY <1>9, <1>10

LEMMA TailOf ==
  ASSUME NEW T, NEW s \in Seq(T), s # << >>
  PROVE  /\ Tail(s) \in Seq(T) /\ Len(Tail(s)) = Len(s) - 1 /\ Len(s) \in Nat
         /\ \A i \in 1..Len(Tail(s)) : Tail(s)[i] = s[i + 1]
  OBVIOUS

Queued(e, id) == id \in Made /\ anim[id].elem = e /\ anim[id].state = "queued"

Waiting(e, q) ==
  /\ q \in Seq(Ids \cup {INPROGRESS})
  /\ \A i \in 1..Len(q) : Queued(e, q[i])
  /\ \A i, j \in 1..Len(q) : i # j => q[i] # q[j]

\* What is left of a queue without its sentinel.
LEMMA QueueRest ==
  ASSUME AnimTypes, QueuesOK, NEW e \in Elements,
         NEW q, q = IF Sentinel(e) THEN Tail(queue[e]) ELSE queue[e]
  PROVE  Waiting(e, q)
<1> DEFINE s == queue[e]
<1>1. s \in Seq(Ids \cup {INPROGRESS})
  BY DEF AnimTypes
<1>2. /\ \A i \in 1..Len(s) : IF s[i] = INPROGRESS THEN i = 1 ELSE Queued(e, s[i])
      /\ \A i, j \in 1..Len(s) : i # j => s[i] # s[j]
  BY <1>1 DEF QueuesOK, Queued
<1>3. Sentinel(e) <=> s # << >> /\ s[1] = INPROGRESS
  BY <1>1 DEF Sentinel
<1>4. CASE Sentinel(e)
  <2>1. q = Tail(s) /\ s # << >>
    BY <1>3, <1>4
  <2> HIDE DEF s
  <2>2. /\ q \in Seq(Ids \cup {INPROGRESS}) /\ Len(q) = Len(s) - 1 /\ Len(s) \in Nat
        /\ \A i \in 1..Len(q) : q[i] = s[i + 1]
    <3>1. /\ Tail(s) \in Seq(Ids \cup {INPROGRESS}) /\ Len(Tail(s)) = Len(s) - 1 /\ Len(s) \in Nat
          /\ \A i \in 1..Len(Tail(s)) : Tail(s)[i] = s[i + 1]
      <4>1. s \in Seq(Ids \cup {INPROGRESS}) /\ s # << >>
        BY <1>1, <2>1
      <4> QED BY <4>1, TailOf, Zenon
    <3> QED BY <2>1, <3>1, Zenon
  <2>3. \A i \in 1..Len(q) : i + 1 \in 1..Len(s) /\ i + 1 # 1
    BY <2>2
  <2>4. \A i \in 1..Len(q) : Queued(e, q[i])
    BY <1>2, <2>2, <2>3
  <2>5. ASSUME NEW i \in 1..Len(q), NEW j \in 1..Len(q), i # j PROVE q[i] # q[j]
    <3>1. i + 1 # j + 1
      BY <2>5
    <3> QED BY <1>2, <2>2, <2>3, <3>1
  <2> QED BY <2>2, <2>4, <2>5 DEF Waiting
<1>5. CASE ~Sentinel(e)
  <2>1. q = s
    BY <1>5
  <2> HIDE DEF s
  <2>2. \A i \in 1..Len(s) : s[i] # INPROGRESS
    <3> SUFFICES ASSUME NEW i \in 1..Len(s), s[i] = INPROGRESS PROVE FALSE
      OBVIOUS
    <3>1. i = 1 /\ s # << >>
      BY <1>1, <1>2
    <3> QED BY <1>3, <1>5, <3>1
  <2> QED BY <1>1, <1>2, <2>1, <2>2 DEF Waiting
<1> QED BY <1>4, <1>5

\* The sentinel in front of the rest.
LEMMA SentinelFirst ==
  ASSUME NEW q \in Seq(Ids \cup {INPROGRESS}), q # << >>, NEW r, r = <<INPROGRESS>> \o Tail(q)
  PROVE  /\ r \in Seq(Ids \cup {INPROGRESS}) /\ Len(r) = Len(q) /\ r # << >> /\ Head(r) = INPROGRESS
         /\ \A i \in 1..Len(r) : r[i] = IF i = 1 THEN INPROGRESS ELSE q[i]
<1> DEFINE t == Tail(q)
<1>1. t \in Seq(Ids \cup {INPROGRESS}) /\ Len(t) = Len(q) - 1 /\ \A i \in 1..Len(t) : t[i] = q[i + 1]
  OBVIOUS
<1> HIDE DEF t
<1>2. <<INPROGRESS>> \in Seq(Ids \cup {INPROGRESS}) /\ Len(<<INPROGRESS>>) = 1 /\ <<INPROGRESS>>[1] = INPROGRESS
  OBVIOUS
<1>3. r \in Seq(Ids \cup {INPROGRESS}) /\ Len(r) = Len(t) + 1 /\ r[1] = INPROGRESS /\ \A i \in 1..Len(t) : r[i + 1] = t[i]
  BY <1>1, <1>2 DEF t
<1>4. r # << >> /\ Head(r) = INPROGRESS /\ Len(r) = Len(q)
  BY <1>1, <1>3
<1>5. ASSUME NEW i \in 1..Len(r), i # 1 PROVE r[i] = q[i]
  <2>1. i - 1 \in 1..Len(t) /\ (i - 1) + 1 = i
    BY <1>3, <1>5
  <2> QED BY <1>1, <1>3, <2>1
<1> QED BY <1>3, <1>4, <1>5

Taken(w, e) ==
  /\ \A f \in Elements : f # e => queue'[f] = queue[f]
  /\ \/ queue'[e] = << >> /\ w.kind = "none"
     \/ Sentinel(e)' /\ w.kind = "start" /\ anim[w.id].elem = e

\* The next of a queue begins, or the queue is over.
LEMMA DequeueParts ==
  ASSUME NEW work, NEW caller, Good(work, caller), work.kind = "dequeue", NEW e, e = work.e,
         UNCHANGED <<timeouts, anim, timers, timerId, height, shown, fxshow>>,
         delay' = [delay EXCEPT ![e] = 0],
         NEW w, Shaped(w, caller)', AnimTypes', QueuesOK', WorkOK(w)',
         Taken(w, e)
  PROVE  Good(w, caller)'
<1>1. Shaped(work, caller) /\ AnimTypes /\ AnimOK /\ work \in Works /\ e \in Elements
  BY WorkKinds DEF Good, Shaped, AnimTypes
<1>2. \A f \in Elements : About(work, f) <=> f = e
  BY DEF About
<1>3. UnderWay(e) = {}
  BY <1>1, <1>2 DEF Good, TokenOK
<1>4. \A f : UnderWay(f)' = UnderWay(f)
  BY DEF UnderWay
<1>5. delay'[e] = 0 /\ \A f \in Elements : f # e => delay'[f] = delay[f]
  BY <1>1 DEF AnimTypes
<1>6. TokenOK(w, caller)'
  <2> SUFFICES ASSUME NEW f \in Elements
      PROVE /\ \A a, b \in UnderWay(f)' : a = b
            /\ UnderWay(f)' # {} => Sentinel(f)' /\ ~About(w, f)'
            /\ queue'[f] # << >> => UnderWay(f)' # {} \/ About(w, f)' \/ StopsFor(caller, f)
            /\ queue'[f] # << >> => Sentinel(f)'
            /\ w.kind = "start" /\ anim'[w.id].elem = f => Sentinel(f)'
    BY DEF TokenOK, StopsFor, Taken
  <2>1. /\ \A a, b \in UnderWay(f) : a = b
        /\ UnderWay(f) # {} => Sentinel(f)
        /\ queue[f] # << >> => UnderWay(f) # {} \/ f = e \/ StopsFor(caller, f)
        /\ queue[f] # << >> => Sentinel(f) \/ f = e
    BY <1>2 DEF Good, TokenOK
  <2>2. About(w, f)' => f = e
    BY DEF About, Taken
  <2>3. w.kind = "start" => About(w, e)'
    BY DEF About, Taken
  <2>4. f # e => (Sentinel(f)' <=> Sentinel(f))
    BY DEF Sentinel, Taken
  <2>5. CASE f = e
    BY <1>3, <1>4, <2>3, <2>5 DEF Sentinel, Taken
  <2>6. CASE f # e
    BY <1>4, <2>1, <2>2, <2>4, <2>6 DEF Taken
  <2> QED BY <2>5, <2>6
<1>7. TimersOK(caller)'
  BY DEF Good, TimersOK, Made, Timer, Pending, Zombie
<1>8. DelaysOK(w)'
  <2>1. \A k \in Made : (Timer(k)' <=> Timer(k)) /\ (Pending(k)' <=> Pending(k))
    BY DEF Timer, Pending
  <2>2. \A k \in timeouts' : ~Timer(k)' /\ Pending(k)'
    BY <1>1, <2>1 DEF Good, DelaysOK, AnimTypes
  <2>3. \A k \in Made' : ~Timer(k)' /\ Pending(k)' => k \in timeouts' /\ delay'[anim'[k].elem] = k
    <3> SUFFICES ASSUME NEW k \in Made, ~Timer(k), Pending(k) PROVE k \in timeouts /\ delay'[anim[k].elem] = k
      BY <2>1 DEF Made
    <3>1. k \in timeouts /\ delay[anim[k].elem] = k
      BY DEF Good, DelaysOK
    <3>2. anim[k].elem \in Elements /\ anim[k].elem # e
      BY <1>1, <1>3, OneAnim DEF UnderWay, Made, Pending
    <3> QED BY <1>5, <3>1, <3>2
  <2>4. \A f \in Elements : delay'[f] # 0 => delay'[f] \in UnderWay(f)' /\ ~Timer(delay[f])'
    <3> SUFFICES ASSUME NEW f \in Elements, delay'[f] # 0 PROVE delay'[f] \in UnderWay(f)' /\ ~Timer(delay[f])'
      OBVIOUS
    <3>1. f # e /\ delay'[f] = delay[f]
      BY <1>5
    <3>2. delay[f] \in UnderWay(f) /\ ~Timer(delay[f])
      BY <3>1 DEF Good, DelaysOK
    <3>3. delay[f] \in Made
      BY <3>2 DEF UnderWay, Made
    <3> QED BY <1>4, <2>1, <3>1, <3>2, <3>3
  <2> QED BY <2>2, <2>3, <2>4 DEF DelaysOK
<1>9. StopOK(caller)'
  <2>1. \A f \in Elements : delay[f] = 0 => delay'[f] = 0
    BY <1>5
  <2>2. caller \in Callers
    BY <1>1 DEF Shaped
  <2>3. caller.kind \in {"stopping", "splice"} => caller.e \in Elements
    BY <2>2, CallerKinds
  <2> QED BY <1>4, <2>1, <2>3 DEF Good, StopOK
<1>10. HeightsOK'
  BY DEF Good, HeightsOK, Made, Timer, Pending
<1> QED BY <1>6, <1>7, <1>8, <1>9, <1>10 DEF Good

\* The next of a queue is taken.
LEMMA DequeueStep ==
  ASSUME NEW work, NEW caller, Good(work, caller), dequeue
  PROVE  \E w : Good(w, caller)'
<1>1. Shaped(work, caller) /\ work.kind = "dequeue" /\ AnimTypes /\ AnimOK /\ QueuesOK
  BY Kinds DEF Good, dequeue, AnimTypes
<1>2. work \in Works /\ caller \in Callers /\ work.e \in Elements
  BY <1>1, WorkKinds DEF Shaped
<1>3. PICK e : e = work.e
  OBVIOUS
<1>4. Top.e = e /\ Tail(todo) = Below(caller)
  <2>1. Top = DequeueOp(work.e) /\ Tail(todo) = Below(caller)
    BY <1>1, Tops
  <2> QED BY <1>3, <2>1 DEF DequeueOp
<1>5. PICK q : q = IF Sentinel(e) THEN Tail(queue[e]) ELSE queue[e]
  OBVIOUS
<1>6. /\ q \in Seq(Ids \cup {INPROGRESS})
      /\ \A i \in 1..Len(q) : Queued(e, q[i])
      /\ \A i, j \in 1..Len(q) : i # j => q[i] # q[j]
  <2>1. Waiting(e, q)
    BY <1>1, <1>2, <1>3, <1>5, QueueRest
  <2> QED BY <2>1 DEF Waiting
<1>7. /\ UNCHANGED <<timeouts, anim, timers, timerId, height, shown, fxshow>>
      /\ delay' = [delay EXCEPT ![e] = 0]
      /\ IF q # << >>
         THEN /\ queue' = [queue EXCEPT ![e] = <<INPROGRESS>> \o Tail(q)]
              /\ todo' = <<StartOp(Head(q))>> \o Below(caller)
         ELSE /\ queue' = [queue EXCEPT ![e] = << >>]
              /\ todo' = Below(caller)
  BY <1>4, <1>5 DEF dequeue, StartOp, Sentinel
<1>8. caller.kind \in {"none", "ticked"} \/ (caller.kind = "splice" /\ caller.end)
  BY <1>1 DEF Shaped
<1>9. 0 \notin Made /\ INPROGRESS = 0 /\ Made' = Made
  BY <1>1, <1>7, MadeIds DEF INPROGRESS, Made
<1>10. ASSUME NEW r \in Seq(Ids \cup {INPROGRESS}), queue' = [queue EXCEPT ![e] = r]
       PROVE  AnimTypes' /\ queue'[e] = r /\ (\A f \in Elements : f # e => queue'[f] = queue[f])
  <2>1. queue' \in [Elements -> Seq(Ids \cup {INPROGRESS})] /\ queue'[e] = r /\ \A f \in Elements : f # e => queue'[f] = queue[f]
    BY <1>1, <1>2, <1>3, <1>10 DEF AnimTypes
  <2>2. delay' \in [Elements -> 0..MaxAnims]
    <3>1. 0 \in 0..MaxAnims
      BY <1>1 DEF AnimTypes
    <3> QED BY <1>1, <1>7, <3>1 DEF AnimTypes
  <2>3. AnimOK'
    BY <1>1, <1>7 DEF AnimOK, Made
  <2> QED BY <1>1, <1>7, <1>9, <2>1, <2>2, <2>3 DEF AnimTypes
<1>11. CASE q = << >>
  <2>1. NoWork \in Works /\ NoWork.kind = "none"
    BY Members
  <2>2. Shaped(NoWork, caller)'
    BY <1>1, <1>2, <1>7, <1>11, <2>1, Forms DEF Shaped
  <2>3. AnimTypes' /\ queue'[e] = << >> /\ \A f \in Elements : f # e => queue'[f] = queue[f]
    <3>1. << >> \in Seq(Ids \cup {INPROGRESS}) /\ queue' = [queue EXCEPT ![e] = << >>]
      BY <1>7, <1>11
    <3> QED BY <1>10, <3>1
  <2>4. QueuesOK'
    <3> SUFFICES ASSUME NEW f \in Elements
        PROVE /\ \A i \in DOMAIN queue'[f] :
                  IF queue'[f][i] = INPROGRESS THEN i = 1
                  ELSE queue'[f][i] \in Made' /\ anim'[queue'[f][i]].elem = f /\ anim'[queue'[f][i]].state = "queued"
              /\ \A i, j \in DOMAIN queue'[f] : i # j => queue'[f][i] # queue'[f][j]
      BY DEF QueuesOK
    <3>1. CASE f = e
      BY <2>3, <3>1
    <3>2. CASE f # e
      BY <1>1, <1>7, <1>9, <2>3, <3>2 DEF QueuesOK
    <3> QED BY <3>1, <3>2
  <2>5. WorkOK(NoWork)'
    BY <2>1 DEF WorkOK
  <2>6. Good(NoWork, caller)'
    <3>1. Taken(NoWork, e)
      BY <2>1, <2>3 DEF Taken
    <3> QED BY <1>1, <1>3, <1>7, <2>2, <2>3, <2>4, <2>5, <3>1, DequeueParts
  <2> QED BY <2>6
<1>12. CASE q # << >>
  <2>1. PICK id : id = Head(q)
    OBVIOUS
  <2>2. id = q[1] /\ 1 \in 1..Len(q) /\ Queued(e, id) /\ id \in Ids
    <3>1. id = q[1] /\ 1 \in 1..Len(q) /\ q[1] \in Ids \cup {INPROGRESS}
      BY <1>6, <1>12, <2>1
    <3>2. Queued(e, id)
      BY <1>6, <3>1
    <3> QED BY <1>9, <3>1, <3>2 DEF Queued
  <2>3. PICK w : w = StartWork(id)
    OBVIOUS
  <2>4. w \in Works /\ w.kind = "start" /\ w.id = id
    BY <2>2, <2>3, Members
  <2>5. Shaped(w, caller)'
    <3>1. todo' = Full(w, Below(caller))
      BY <1>7, <1>12, <2>1, <2>3, Forms
    <3> QED BY <1>1, <1>2, <1>8, <2>4, <3>1 DEF Shaped
  <2>6. PICK r : r = <<INPROGRESS>> \o Tail(q)
    OBVIOUS
  <2>7. /\ r \in Seq(Ids \cup {INPROGRESS}) /\ Len(r) = Len(q) /\ r # << >> /\ Head(r) = INPROGRESS
        /\ \A i \in 1..Len(r) : r[i] = IF i = 1 THEN INPROGRESS ELSE q[i]
    BY <1>6, <1>12, <2>6, SentinelFirst
  <2>8. AnimTypes' /\ queue'[e] = r /\ \A f \in Elements : f # e => queue'[f] = queue[f]
    BY <1>7, <1>10, <1>12, <2>6, <2>7
  <2>9. DOMAIN r = 1..Len(q) /\ \A i \in DOMAIN r : i # 1 => r[i] = q[i] /\ Queued(e, r[i]) /\ r[i] # id /\ r[i] # INPROGRESS
    <3>1. DOMAIN r = 1..Len(q)
      BY <2>7
    <3>2. ASSUME NEW i \in DOMAIN r, i # 1 PROVE r[i] = q[i] /\ Queued(e, r[i]) /\ r[i] # id /\ r[i] # INPROGRESS
      <4>1. r[i] = q[i] /\ i \in 1..Len(q)
        BY <2>7, <3>1, <3>2
      <4>2. Queued(e, q[i]) /\ q[i] # q[1]
        BY <1>6, <2>2, <3>2, <4>1
      <4> QED BY <1>9, <2>2, <4>1, <4>2 DEF Queued
    <3> QED BY <3>1, <3>2
  <2>10. QueuesOK'
    <3> SUFFICES ASSUME NEW f \in Elements
        PROVE /\ \A i \in DOMAIN queue'[f] :
                  IF queue'[f][i] = INPROGRESS THEN i = 1
                  ELSE queue'[f][i] \in Made' /\ anim'[queue'[f][i]].elem = f /\ anim'[queue'[f][i]].state = "queued"
              /\ \A i, j \in DOMAIN queue'[f] : i # j => queue'[f][i] # queue'[f][j]
      BY DEF QueuesOK
    <3>1. CASE f = e
      <4>1. queue'[f] = r /\ r[1] = INPROGRESS
        BY <2>2, <2>7, <2>8, <3>1
      <4>2. \A i \in DOMAIN r : IF r[i] = INPROGRESS THEN i = 1
                                ELSE r[i] \in Made' /\ anim'[r[i]].elem = f /\ anim'[r[i]].state = "queued"
        BY <1>7, <1>9, <2>9, <3>1, <4>1 DEF Queued
      <4>3. ASSUME NEW i \in DOMAIN r, NEW j \in DOMAIN r, i # j PROVE r[i] # r[j]
        BY <1>6, <2>9, <4>1, <4>3
      <4> QED BY <4>1, <4>2, <4>3
    <3>2. CASE f # e
      BY <1>1, <1>7, <1>9, <2>8, <3>2 DEF QueuesOK
    <3> QED BY <3>1, <3>2
  <2>11. WorkOK(w)'
    <3>1. ASSUME NEW f \in Elements, NEW i \in DOMAIN queue'[f] PROVE queue'[f][i] # id
      <4>1. id # INPROGRESS /\ anim[id].elem = e
        BY <1>9, <2>2 DEF Queued
      <4>2. CASE f = e
        BY <2>2, <2>7, <2>8, <2>9, <3>1, <4>1, <4>2
      <4>3. CASE f # e
        BY <1>1, <2>8, <3>1, <4>1, <4>3 DEF QueuesOK
      <4> QED BY <4>2, <4>3
    <3> QED BY <1>7, <1>9, <2>2, <2>4, <3>1 DEF WorkOK, Queued
  <2>12. Sentinel(e)' /\ anim[w.id].elem = e
    BY <2>2, <2>4, <2>7, <2>8 DEF Sentinel, Queued
  <2>13. Taken(w, e)
    BY <2>4, <2>8, <2>12 DEF Taken
  <2>14. Good(w, caller)'
    BY <1>1, <1>3, <1>7, <2>5, <2>8, <2>10, <2>11, <2>13, DequeueParts
  <2> QED BY <2>14
<1> QED BY <1>11, <1>12

LEMMA AppendTo ==
  ASSUME NEW T, NEW s \in Seq(T), NEW x \in T, NEW r, r = Append(s, x)
  PROVE  /\ r \in Seq(T) /\ Len(r) = Len(s) + 1 /\ r # << >> /\ DOMAIN r = 1..Len(s) + 1
         /\ \A i \in 1..Len(s) : r[i] = s[i]
         /\ r[Len(s) + 1] = x
         /\ s # << >> => Head(r) = Head(s)
         /\ s = << >> => Head(r) = x
  OBVIOUS

\* An animation is made: what was there stays as it was.
Added(id, a) ==
  /\ AnimOK' /\ Made' = Made \cup {id} /\ id \notin Made /\ id \in Ids /\ anim'[id] = a
  /\ \A k \in Made : anim'[k] = anim[k] /\ (Timer(k)' <=> Timer(k)) /\ (Pending(k)' <=> Pending(k))
  /\ \A f : UnderWay(f)' = UnderWay(f)

LEMMA AnimAdded ==
  ASSUME AnimOK, MaxAnims \in Nat, Len(anim) < MaxAnims, NEW id, id = Len(anim) + 1,
         NEW a \in Anims, a.state = "queued", ~a.tween, a.left <= a.duration,
         anim' = Append(anim, a)
  PROVE  Added(id, a)
<1>1. anim \in Seq(Anims) /\ Made = 1..Len(anim) /\ Len(anim) \in Nat
  BY MadeIds DEF AnimOK
<1>2. /\ anim' \in Seq(Anims) /\ Len(anim') = Len(anim) + 1 /\ DOMAIN anim' = 1..Len(anim) + 1
      /\ \A k \in 1..Len(anim) : anim'[k] = anim[k]
      /\ anim'[id] = a
  BY <1>1, AppendTo
<1>3. Made' = Made \cup {id} /\ id \notin Made /\ id \in Ids
  BY <1>1, <1>2 DEF Made, Ids
<1>4. \A k \in Made : anim'[k] = anim[k]
  BY <1>1, <1>2
<1>5. AnimOK'
  BY <1>1, <1>2, <1>3, <1>4 DEF AnimOK
<1>6. \A k \in Made : (Timer(k)' <=> Timer(k)) /\ (Pending(k)' <=> Pending(k))
  BY <1>4 DEF Timer, Pending
<1>7. ASSUME NEW f PROVE UnderWay(f)' = UnderWay(f)
  <2>1. \A k : k \in UnderWay(f)' <=> k \in Made' /\ anim'[k].elem = f /\ anim'[k].state = "pending"
    BY DEF UnderWay, Made
  <2>2. \A k : k \in UnderWay(f) <=> k \in Made /\ anim[k].elem = f /\ anim[k].state = "pending"
    BY DEF UnderWay, Made
  <2>3. \A k : k \in UnderWay(f)' <=> k \in UnderWay(f)
    BY <1>2, <1>3, <1>4, <2>1, <2>2, ZenonT(40)
  <2>4. UnderWay(f)' \subseteq UnderWay(f) /\ UnderWay(f) \subseteq UnderWay(f)'
    BY <2>3
  <2> QED BY <2>4
<1> QED BY <1>2, <1>3, <1>4, <1>5, <1>6, <1>7 DEF Added

\* Where the stack stands when a queue has grown: as before if something of it
\* runs, else the queue is to be started.
Goes(work, caller, w, e) ==
  \/ /\ work.kind \in {"none", "complete"} /\ w.kind = work.kind /\ (w.kind = "complete" => w.e = work.e)
     /\ Sentinel(e)
  \/ work.kind = "none" /\ caller.kind = "none" /\ w.kind = "dequeue" /\ w.e = e /\ queue[e] = << >>

\* A queue has grown.
LEMMA AnimateParts ==
  ASSUME NEW work, NEW caller, Good(work, caller), NEW e \in Elements, NEW id, NEW a \in Anims,
         Added(id, a), a.elem = e, a.state = "queued", queue' = [queue EXCEPT ![e] = Append(queue[e], id)],
         UNCHANGED <<delay, timeouts, timers, timerId, height, shown, fxshow>>,
         NEW w, Shaped(w, caller)', Goes(work, caller, w, e)
  PROVE  Good(w, caller)'
<1>1. AnimTypes /\ QueuesOK /\ AnimOK
  BY DEF Good, AnimTypes
<1>2. /\ AnimOK' /\ Made' = Made \cup {id} /\ id \notin Made /\ id \in Ids /\ anim'[id] = a
      /\ \A k \in Made : anim'[k] = anim[k] /\ (Timer(k)' <=> Timer(k)) /\ (Pending(k)' <=> Pending(k))
      /\ \A f : UnderWay(f)' = UnderWay(f)
  BY DEF Added
<1>3. PICK r : r = Append(queue[e], id)
  OBVIOUS
<1>4. queue[e] \in Seq(Ids \cup {INPROGRESS}) /\ queue \in [Elements -> Seq(Ids \cup {INPROGRESS})]
  BY <1>1 DEF AnimTypes
<1>5. PICK n : n = Len(queue[e]) + 1
  OBVIOUS
<1>6. /\ r \in Seq(Ids \cup {INPROGRESS}) /\ r # << >> /\ DOMAIN r = 1..n /\ DOMAIN queue[e] = 1..(n - 1) /\ n \in Nat \ {0}
      /\ \A i \in 1..(n - 1) : r[i] = queue[e][i]
      /\ r[n] = id
      /\ queue[e] # << >> => Head(r) = Head(queue[e])
  BY <1>2, <1>3, <1>4, <1>5, AppendTo
<1>7. queue' \in [Elements -> Seq(Ids \cup {INPROGRESS})] /\ queue'[e] = r /\ \A f \in Elements : f # e => queue'[f] = queue[f]
  BY <1>3, <1>4, <1>6
<1>8. AnimTypes'
  <2>1. timers' \in Seq(Made')
    BY <1>1, <1>2 DEF AnimTypes
  <2> QED BY <1>1, <1>2, <1>7, <2>1 DEF AnimTypes
<1>9. 0 \notin Made /\ 0 \notin Made' /\ INPROGRESS = 0
  BY <1>1, <1>2, MadeIds DEF INPROGRESS, Ids
<1>10. QueuesOK'
  <2> SUFFICES ASSUME NEW f \in Elements
      PROVE /\ \A i \in DOMAIN queue'[f] :
                IF queue'[f][i] = INPROGRESS THEN i = 1
                ELSE queue'[f][i] \in Made' /\ anim'[queue'[f][i]].elem = f /\ anim'[queue'[f][i]].state = "queued"
            /\ \A i, j \in DOMAIN queue'[f] : i # j => queue'[f][i] # queue'[f][j]
    BY DEF QueuesOK
  <2>1. /\ \A i \in DOMAIN queue[f] : IF queue[f][i] = INPROGRESS THEN i = 1
                ELSE queue[f][i] \in Made /\ anim[queue[f][i]].elem = f /\ anim[queue[f][i]].state = "queued"
        /\ \A i, j \in DOMAIN queue[f] : i # j => queue[f][i] # queue[f][j]
    BY <1>1 DEF QueuesOK
  <2>2. CASE f # e
    BY <1>2, <1>7, <2>1, <2>2
  <2>3. CASE f = e
    <3>1. \A i \in 1..n : i = n \/ i \in 1..(n - 1)
      BY <1>6
    <3>2. \A i \in 1..(n - 1) : r[i] # id /\ (r[i] # INPROGRESS => r[i] \in Made)
      BY <1>2, <1>6, <1>9, <2>1, <2>3
    <3>3. ASSUME NEW i \in 1..n
          PROVE IF r[i] = INPROGRESS THEN i = 1 ELSE r[i] \in Made' /\ anim'[r[i]].elem = f /\ anim'[r[i]].state = "queued"
      <4>1. CASE i = n
        BY <1>2, <1>6, <1>9, <2>3, <4>1
      <4>2. CASE i \in 1..(n - 1)
        BY <1>2, <1>6, <2>1, <2>3, <4>2
      <4> QED BY <3>1, <4>1, <4>2
    <3>4. ASSUME NEW i \in 1..n, NEW j \in 1..n, i # j PROVE r[i] # r[j]
      <4>1. CASE i = n \/ j = n
        BY <1>6, <3>1, <3>2, <3>4, <4>1
      <4>2. CASE i # n /\ j # n
        BY <1>6, <2>1, <2>3, <3>1, <3>4, <4>2
      <4> QED BY <4>1, <4>2
    <3> QED BY <1>6, <1>7, <2>3, <3>3, <3>4
  <2> QED BY <2>2, <2>3
<1>11. TokenOK(w, caller)'
  <2> SUFFICES ASSUME NEW f \in Elements
      PROVE /\ \A x, y \in UnderWay(f)' : x = y
            /\ UnderWay(f)' # {} => Sentinel(f)' /\ ~About(w, f)'
            /\ queue'[f] # << >> => UnderWay(f)' # {} \/ About(w, f)' \/ StopsFor(caller, f)
            /\ queue'[f] # << >> => Sentinel(f)' \/ (w.kind = "dequeue" /\ w.e = f)
            /\ w.kind = "complete" /\ w.e = f => Sentinel(f)'
    BY DEF TokenOK, StopsFor, Goes
  <2>1. /\ \A x, y \in UnderWay(f) : x = y
        /\ UnderWay(f) # {} => Sentinel(f) /\ ~About(work, f)
        /\ queue[f] # << >> => UnderWay(f) # {} \/ About(work, f) \/ StopsFor(caller, f)
        /\ queue[f] # << >> => Sentinel(f) \/ (work.kind = "dequeue" /\ work.e = f)
        /\ work.kind = "complete" /\ work.e = f => Sentinel(f)
    BY DEF Good, TokenOK
  <2>2. /\ f # e => (Sentinel(f)' <=> Sentinel(f)) /\ queue'[f] = queue[f]
        /\ Sentinel(e) => Sentinel(e)' /\ queue[e] # << >>
    BY <1>6, <1>7 DEF Sentinel
  <2>3. CASE w.kind = "dequeue"
    <3>1. work.kind = "none" /\ caller.kind = "none" /\ w.e = e /\ queue[e] = << >>
      BY <2>3 DEF Goes
    <3>2. (About(w, f)' <=> f = e) /\ ~StopsFor(caller, f) /\ ~About(work, f)
      BY <2>3, <3>1 DEF About, StopsFor
    <3>3. ~Sentinel(e)
      BY <3>1 DEF Sentinel
    <3>4. CASE f = e
      BY <1>2, <2>1, <2>3, <3>1, <3>2, <3>3, <3>4
    <3>5. CASE f # e
      BY <1>2, <2>1, <2>2, <2>3, <3>1, <3>2, <3>5
    <3> QED BY <3>4, <3>5
  <2>4. CASE w.kind # "dequeue"
    <3>1. /\ work.kind \in {"none", "complete"} /\ w.kind = work.kind /\ (w.kind = "complete" => w.e = work.e)
          /\ Sentinel(e)
      BY <2>4 DEF Goes
    <3>2. About(w, f)' <=> About(work, f)
      BY <3>1 DEF About
    <3>3. Sentinel(f) => Sentinel(f)'
      BY <2>2
    <3> QED BY <1>2, <2>1, <2>2, <3>1, <3>2, <3>3
  <2> QED BY <2>3, <2>4
<1>12. WorkOK(w)'
  BY DEF WorkOK, Goes
<1>13. TimersOK(caller)'
  <2>1. TimersOK(caller) /\ \A i \in DOMAIN timers : timers[i] \in Made
    BY <1>1 DEF Good, AnimTypes
  <2>2. ~Pending(id)'
    BY <1>2 DEF Pending
  <2> QED BY <1>2, <2>1, <2>2 DEF TimersOK, Zombie
<1>14. DelaysOK(w)'
  <2>1. work.kind # "dequeue" /\ ~Pending(id)'
    BY <1>2 DEF Goes, Pending
  <2>2. \A k \in timeouts' : ~Timer(k)' /\ Pending(k)'
    BY <1>1, <1>2 DEF Good, DelaysOK, AnimTypes
  <2>3. \A k \in Made' : ~Timer(k)' /\ Pending(k)' => k \in timeouts' /\ delay'[anim'[k].elem] = k
    BY <1>2, <2>1 DEF Good, DelaysOK
  <2>4. \A f \in Elements : delay'[f] # 0 => delay'[f] \in UnderWay(f)' /\ ~Timer(delay[f])'
    <3> SUFFICES ASSUME NEW f \in Elements, delay[f] # 0 PROVE delay[f] \in UnderWay(f)' /\ ~Timer(delay[f])'
      OBVIOUS
    <3>1. delay[f] \in UnderWay(f) /\ ~Timer(delay[f])
      BY <2>1 DEF Good, DelaysOK
    <3>2. delay[f] \in Made
      BY <3>1 DEF UnderWay, Made
    <3> QED BY <1>2, <3>1, <3>2
  <2> QED BY <2>2, <2>3, <2>4 DEF DelaysOK
<1>15. StopOK(caller)'
  <2>1. \A j \in DOMAIN timers : timers[j] \in Made
    BY <1>1 DEF AnimTypes
  <2> QED BY <1>2, <2>1 DEF Good, StopOK
<1>16. HeightsOK'
  <2>1. ~Pending(id)'
    BY <1>2 DEF Pending
  <2> QED BY <1>2, <2>1 DEF Good, HeightsOK
<1> QED BY <1>8, <1>10, <1>11, <1>12, <1>13, <1>14, <1>15, <1>16 DEF Good

\* An animation or a delay is queued.
LEMMA AnimateStep ==
  ASSUME NEW work, NEW caller, Good(work, caller), Liberties = {}, NEW e \in Elements,
         NEW effect \in Effects, NEW d \in Nat, animate(e, effect, d)
  PROVE  \E w : Good(w, caller)'
<1>1. Shaped(work, caller) /\ work \in Works /\ caller \in Callers /\ AnimTypes /\ AnimOK /\ MaxAnims \in Nat /\ Len(anim) < MaxAnims /\ Acts(e)
  BY DEF Good, Shaped, AnimTypes, animate
<1>2. PICK a : a = NewAnim(e, effect, d)
  OBVIOUS
<1>3. a \in Anims /\ a.elem = e /\ a.state = "queued" /\ ~a.tween /\ a.left <= a.duration
  <2>1. 0 \in 0..Natural /\ Unset \in Int /\ "queued" \in States /\ d <= d
    BY DEF Natural, Unset, States
  <2>2. a = [elem |-> e, effect |-> effect, duration |-> d, left |-> d, state |-> "queued",
             tween |-> FALSE, start |-> 0, end |-> 0, orig |-> Unset, hides |-> FALSE]
    BY <1>2 DEF NewAnim
  <2>3. a \in Anims
    BY <2>1, <2>2 DEF Anims
  <2>4. a.elem = e /\ a.state = "queued" /\ a.tween = FALSE /\ a.left = d /\ a.duration = d
    BY <2>2
  <2> QED BY <2>1, <2>3, <2>4
<1>4. PICK id : id = Len(anim) + 1
  OBVIOUS
<1>5. anim' = Append(anim, a) /\ Len(anim') = id
  <2>1. anim' = Append(anim, a) /\ anim \in Seq(Anims)
    BY <1>1, <1>2 DEF animate, AnimOK
  <2> QED BY <1>3, <1>4, <2>1, AppendTo
<1>6. Added(id, a)
  BY <1>1, <1>3, <1>4, <1>5, AnimAdded
<1>7. /\ queue' = [queue EXCEPT ![e] = Append(queue[e], id)]
      /\ UNCHANGED <<delay, timeouts, timers, timerId, height, shown, fxshow>>
      /\ todo' = (IF Head(queue'[e]) # INPROGRESS THEN <<DequeueOp(e)>> ELSE << >>) \o Rest
  BY <1>5 DEF animate
<1>8. /\ queue[e] # << >> => (Head(queue'[e]) = INPROGRESS <=> Sentinel(e))
      /\ queue[e] = << >> => Head(queue'[e]) # INPROGRESS
  <2>1. queue[e] \in Seq(Ids \cup {INPROGRESS}) /\ id \in Ids /\ queue'[e] = Append(queue[e], id)
    BY <1>1, <1>6, <1>7 DEF AnimTypes, Added
  <2>2. /\ queue[e] # << >> => Head(queue'[e]) = Head(queue[e])
        /\ queue[e] = << >> => Head(queue'[e]) = id
    BY <2>1, AppendTo
  <2>3. id # INPROGRESS
    BY <2>1 DEF Ids, INPROGRESS
  <2> QED BY <2>2, <2>3 DEF Sentinel
<1>9. CASE todo = << >>
  <2>1. work = NoWork /\ caller = NoCaller /\ Rest = << >> /\ work.kind = "none" /\ caller.kind = "none"
    BY <1>1, <1>9, ActingIdle, Members
  <2>2. Below(caller) = << >>
    BY <2>1, Forms
  <2>3. queue[e] # << >> => Sentinel(e)
    BY <2>1 DEF Good, TokenOK
  <2>4. CASE Sentinel(e)
    <3>1. todo' = << >>
      BY <1>7, <1>8, <2>1, <2>4 DEF Sentinel
    <3>2. Shaped(work, caller)'
      BY <1>1, <2>1, <2>2, <3>1, Forms DEF Shaped
    <3>3. Goes(work, caller, work, e)
      BY <2>1, <2>4 DEF Goes
    <3>4. Good(work, caller)'
      BY <1>3, <1>6, <1>7, <3>2, <3>3, AnimateParts
    <3> QED BY <3>4
  <2>5. CASE ~Sentinel(e)
    <3>1. PICK w : w = DequeueWork(e)
      OBVIOUS
    <3>2. w \in Works /\ w.kind = "dequeue" /\ w.e = e
      BY <3>1, Members
    <3>3. queue[e] = << >> /\ DequeueOp(e) \in Ops
      BY <2>3, <2>5, OpsHere
    <3>4. todo' = <<DequeueOp(e)>> \o << >>
      BY <1>7, <1>8, <2>1, <3>3
    <3>5. todo' = Full(w, Below(caller))
      BY <2>2, <3>1, <3>4, Forms
    <3>6. Shaped(w, caller)'
      BY <1>1, <2>1, <3>2, <3>5 DEF Shaped
    <3>7. Goes(work, caller, w, e)
      BY <2>1, <3>2, <3>3 DEF Goes
    <3>8. Good(w, caller)'
      BY <1>3, <1>6, <1>7, <3>6, <3>7, AnimateParts
    <3> QED BY <3>8
  <2> QED BY <2>4, <2>5
<1>10. CASE todo # << >>
  <2>1. work.kind = "complete" /\ work.e = e /\ Rest = <<CompleteOp(e, TRUE)>> \o (<<DequeueOp(e)>> \o Below(caller))
    BY <1>1, <1>10, ActingComplete
  <2>2. Sentinel(e)
    BY <2>1 DEF Good, TokenOK
  <2>3. PICK w : w = CompleteWork(e, TRUE)
    OBVIOUS
  <2>4. w \in Works /\ w.kind = "complete" /\ w.e = e
    BY <2>3 DEF Works, CompleteWork
  <2>5. Below(caller) \in Seq(Ops) /\ CompleteOp(e, TRUE) \in Ops /\ DequeueOp(e) \in Ops
    BY <1>1, BelowKinds DEF Ops, CompleteOp, DequeueOp
  <2>6. Rest \in Seq(Ops)
    <3>1. <<DequeueOp(e)>> \o Below(caller) \in Seq(Ops)
      BY <2>5, Push
    <3> QED BY <2>1, <2>5, <3>1, Push
  <2>7. todo' = Rest
    <3>1. todo' = << >> \o Rest
      BY <1>7, <1>8, <2>2 DEF Sentinel
    <3> QED BY <2>6, <3>1
  <2>8. todo' = Full(w, Below(caller))
    BY <2>1, <2>3, <2>7 DEF Full, CompleteWork
  <2>9. Shaped(w, caller)'
    BY <1>1, <2>1, <2>4, <2>8 DEF Shaped
  <2>10. Goes(work, caller, w, e)
    BY <2>1, <2>2, <2>4 DEF Goes
  <2>11. Good(w, caller)'
    BY <1>3, <1>6, <1>7, <2>9, <2>10, AnimateParts
  <2> QED BY <2>11
<1> QED BY <1>9, <1>10

\* What the other parts see of an animation that is another now.
Replaced(id, r, e) ==
  /\ AnimOK' /\ Made' = Made /\ e \in Elements /\ anim'[id] = r
  /\ \A k \in Made :
       /\ anim'[k].elem = anim[k].elem
       /\ k # id => anim'[k] = anim[k]
       /\ Timer(k)' <=> Timer(k)
       /\ Pending(k)' <=> IF k = id THEN r.state = "pending" ELSE Pending(k)
       /\ anim'[k].state = "queued" <=> k # id /\ anim[k].state = "queued"
  /\ \A f : f # e => UnderWay(f)' = UnderWay(f)
  /\ UnderWay(e)' = IF r.state = "pending" THEN UnderWay(e) \cup {id} ELSE UnderWay(e) \ {id}

LEMMA RecordSeen ==
  ASSUME AnimOK, NEW id \in Made, NEW r \in Anims, r.left <= r.duration, r.state # "queued",
         NEW e, e = anim[id].elem, r.elem = e, r.effect = anim[id].effect,
         anim' = [anim EXCEPT ![id] = r]
  PROVE  Replaced(id, r, e)
<1>1. AnimOK' /\ Made' = Made /\ \A k \in Made : anim'[k] = IF k = id THEN r ELSE anim[k]
  BY RecordSet
<1>2. e \in Elements
  BY OneAnim
<1>3. \A k \in Made :
       /\ anim'[k].elem = anim[k].elem
       /\ Timer(k)' <=> Timer(k)
       /\ Pending(k)' <=> IF k = id THEN r.state = "pending" ELSE Pending(k)
       /\ anim'[k].state = "queued" <=> k # id /\ anim[k].state = "queued"
  BY <1>1 DEF Timer, Pending
<1>4. \A f, k : /\ k \in UnderWay(f)' <=> k \in Made /\ anim'[k].elem = f /\ anim'[k].state = "pending"
                /\ k \in UnderWay(f) <=> k \in Made /\ anim[k].elem = f /\ anim[k].state = "pending"
  <2>1. \A f, k : k \in UnderWay(f)' <=> k \in Made' /\ anim'[k].elem = f /\ anim'[k].state = "pending"
    BY DEF UnderWay, Made
  <2>2. \A f, k : k \in UnderWay(f) <=> k \in Made /\ anim[k].elem = f /\ anim[k].state = "pending"
    BY DEF UnderWay, Made
  <2> QED BY <1>1, <2>1, <2>2
<1>5. ASSUME NEW f, f # e PROVE UnderWay(f)' = UnderWay(f)
  <2>1. \A k : k \in UnderWay(f)' <=> k \in UnderWay(f)
    BY <1>1, <1>3, <1>4, <1>5
  <2>2. UnderWay(f)' \subseteq UnderWay(f) /\ UnderWay(f) \subseteq UnderWay(f)'
    BY <2>1
  <2> QED BY <2>2
<1>6. UnderWay(e)' = IF r.state = "pending" THEN UnderWay(e) \cup {id} ELSE UnderWay(e) \ {id}
  <2>1. \A k : k \in UnderWay(e)' <=> IF k = id THEN r.state = "pending" ELSE k \in UnderWay(e)
    BY <1>1, <1>3, <1>4
  <2>2. CASE r.state = "pending"
    <3>1. \A k : k \in UnderWay(e)' <=> k \in UnderWay(e) \cup {id}
      BY <2>1, <2>2
    <3>2. UnderWay(e)' \subseteq UnderWay(e) \cup {id} /\ UnderWay(e) \cup {id} \subseteq UnderWay(e)'
      BY <3>1
    <3> QED BY <2>2, <3>2
  <2>3. CASE r.state # "pending"
    <3>1. \A k : k \in UnderWay(e)' <=> k \in UnderWay(e) \ {id}
      BY <2>1, <2>3
    <3>2. UnderWay(e)' \subseteq UnderWay(e) \ {id} /\ UnderWay(e) \ {id} \subseteq UnderWay(e)'
      BY <3>1
    <3> QED BY <2>3, <3>2
  <2> QED BY <2>2, <2>3
<1> QED BY <1>1, <1>2, <1>3, <1>5, <1>6 DEF Replaced

\* Between its two ends a tween stays between them.
LEMMA Part ==
  ASSUME NEW d \in Nat, d > 0, NEW x \in Nat, x <= 2 * d
  PROVE  x \div d \in 0..2
<1> DEFINE q == x \div d
<1>1. q \in Int /\ d * q <= x /\ x < d * q + d
  OBVIOUS
<1> HIDE DEF q
<1>2. q >= 0
  <2> SUFFICES ASSUME q <= -1 PROVE FALSE
    BY <1>1
  <2>1. d * q <= -d
    BY <1>1
  <2> QED BY <1>1, <2>1
<1>3. q <= 2
  <2> SUFFICES ASSUME q >= 3 PROVE FALSE
    BY <1>1
  <2>1. d * q >= d * 3
    BY <1>1
  <2> QED BY <1>1, <2>1
<1> QED BY <1>1, <1>2, <1>3 DEF q

LEMMA RunBound ==
  ASSUME NEW a \in Anims, a.left <= a.duration, NEW h \in 0..Natural
  PROVE  Run(a, h) \in 0..Natural
<1>1. a.start \in 0..2 /\ a.end \in 0..2 /\ a.left \in Nat /\ a.duration \in Nat /\ Natural = 2 /\ a.tween \in BOOLEAN
  BY DEF Anims, Natural
<1>2. CASE ~a.tween
  BY <1>2 DEF Run
<1>3. CASE a.tween /\ a.left = 0
  BY <1>1, <1>3 DEF Run
<1>4. CASE a.tween /\ a.left # 0
  <2>1. PICK l \in Nat, d \in Nat, s \in 0..2, t \in 0..2 : l = a.left /\ d = a.duration /\ s = a.start /\ t = a.end
    BY <1>1
  <2>2. PICK x : x = s * l + t * (d - l)
    OBVIOUS
  <2>3. l > 0 /\ l <= d
    BY <1>1, <1>4, <2>1
  <2>4. s * l \in Nat /\ s * l <= 2 * l
    <3>1. s = 0 \/ s = 1 \/ s = 2
      OBVIOUS
    <3> QED BY <3>1
  <2>5. t * (d - l) \in Nat /\ t * (d - l) <= 2 * (d - l)
    <3>1. t = 0 \/ t = 1 \/ t = 2
      OBVIOUS
    <3> QED BY <2>3, <3>1
  <2>6. x \in Nat /\ x <= 2 * d
    BY <2>2, <2>3, <2>4, <2>5
  <2>7. x \div d \in 0..2
    BY <2>3, <2>6, Part
  <2> QED BY <1>1, <1>4, <2>1, <2>2, <2>7 DEF Run
<1> QED BY <1>1, <1>2, <1>3, <1>4

\* What the prefilter says of the animation and of what is remembered.
Filtered(p, a) ==
  /\ p.a \in Anims /\ p.a.elem = a.elem /\ p.a.effect = a.effect /\ p.a.duration = a.duration /\ p.a.left = a.left
  /\ p.shown \in BOOLEAN /\ p.data \in Shows
  /\ p.a.tween => p.a.orig = Natural /\ p.data.exists = TRUE /\ p.data.height = Natural

LEMMA PrefilterOK ==
  ASSUME NEW a \in Anims, ~a.tween, NEW h \in 0..Natural, NEW isShown \in BOOLEAN, NEW data \in Shows,
         IF data.exists THEN data.height = Natural ELSE h = Natural,
         NEW p, p = Prefilter(a, h, isShown, data)
  PROVE  Filtered(p, a) /\ (~p.a.tween => p.data = data)
<1>1. CASE a.effect = (IF isShown THEN "show" ELSE "hide")
  <2>1. p = [a |-> a, shown |-> isShown, data |-> data]
    BY <1>1 DEF Prefilter
  <2>2. p.a = a /\ p.shown = isShown /\ p.data = data
    BY <2>1
  <2> QED BY <2>2 DEF Filtered
<1>2. CASE a.effect # (IF isShown THEN "show" ELSE "hide")
  <2>1. PICK hidden \in BOOLEAN : hidden = IF data.exists /\ data.hidden # "unset" THEN data.hidden = "yes" ELSE ~isShown
    BY DEF Shows
  <2>2. PICK kept \in BOOLEAN : kept = (data.exists /\ data.height # Unset)
    BY DEF Shows
  <2>3. PICK start : start = IF hidden /\ ~kept THEN 0 ELSE h
    OBVIOUS
  <2>4. PICK end : end = IF ~hidden THEN 0 ELSE IF kept THEN data.height ELSE h
    OBVIOUS
  <2>5. PICK orig : orig = IF kept /\ data.height # 0 THEN data.height ELSE h
    OBVIOUS
  <2>6. PICK remembered : remembered = [exists |-> TRUE,
                   hidden |-> IF a.effect = "toggle" THEN (IF hidden THEN "no" ELSE "yes")
                              ELSE data.hidden,
                   height |-> IF kept THEN data.height ELSE h]
    OBVIOUS
  <2>7. PICK b : b = [a EXCEPT !.tween = TRUE, !.start = start, !.end = end, !.orig = orig, !.hides = ~hidden]
    OBVIOUS
  <2>8. p = [a |-> b, shown |-> isShown \/ hidden, data |-> remembered]
    BY <1>2, <2>1, <2>2, <2>3, <2>4, <2>5, <2>6, <2>7 DEF Prefilter
  <2>9. p.a = b /\ p.shown = (isShown \/ hidden) /\ p.data = remembered
    BY <2>8
  <2>10. kept = data.exists /\ (kept => data.height = Natural) /\ (~kept => h = Natural) /\ Natural \in 0..Natural /\ Natural # 0 /\ Natural \in Int
    BY <2>2 DEF Shows, Natural, Unset
  <2>11. start \in 0..Natural /\ end \in 0..Natural /\ orig = Natural
    BY <2>3, <2>4, <2>5, <2>10 DEF Natural
  <2>12. remembered \in Shows /\ remembered.exists = TRUE /\ remembered.height = Natural
    <3>1. PICK yes : yes = IF a.effect = "toggle" THEN (IF hidden THEN "no" ELSE "yes") ELSE data.hidden
      OBVIOUS
    <3>2. yes \in {"unset", "yes", "no"}
      BY <3>1 DEF Shows
    <3>3. remembered = [exists |-> TRUE, hidden |-> yes, height |-> Natural]
      BY <2>6, <2>10, <3>1
    <3> QED BY <3>2, <3>3 DEF Shows
  <2>13. b \in Anims /\ b.elem = a.elem /\ b.effect = a.effect /\ b.duration = a.duration /\ b.left = a.left
         /\ b.tween = TRUE /\ b.orig = Natural
    <3>1. PICK hides \in BOOLEAN : hides = ~hidden
      OBVIOUS
    <3>2. b = [a EXCEPT !.tween = TRUE, !.start = start, !.end = end, !.orig = orig, !.hides = hides]
      BY <2>7, <3>1
    <3> QED BY <2>10, <2>11, <3>2 DEF Anims
  <2>14. (isShown \/ hidden) \in BOOLEAN
    OBVIOUS
  <2> QED BY <2>9, <2>12, <2>13, <2>14 DEF Filtered
<1> QED BY <1>1, <1>2

\* The list of timers grows by the animation that has begun, if it is not
\* over at once.
LEMMA TimerStarts ==
  ASSUME NEW caller, AnimTypes, TimersOK(caller), NEW id \in Made, anim[id].state = "queued", Timer(id),
         NEW r, r.state \in {"resolved", "pending"}, NEW e, Replaced(id, r, e),
         timers' = IF r.state = "resolved" THEN timers ELSE Append(timers, id),
         timerId' = (timerId \/ r.state # "resolved")
  PROVE  /\ timers' \in Seq(Made') /\ timerId' \in BOOLEAN /\ TimersOK(caller)'
         /\ DOMAIN timers \subseteq DOMAIN timers' /\ Len(timers) \in Nat /\ Len(timers) <= Len(timers')
         /\ \A i \in DOMAIN timers : timers'[i] = timers[i]
         /\ \A i \in DOMAIN timers' : i \in DOMAIN timers \/ (i > Len(timers) /\ timers'[i] = id)
<1>1. /\ AnimOK' /\ Made' = Made /\ e \in Elements /\ anim'[id] = r
      /\ \A k \in Made :
           /\ anim'[k].elem = anim[k].elem
           /\ k # id => anim'[k] = anim[k]
           /\ Timer(k)' <=> Timer(k)
           /\ Pending(k)' <=> IF k = id THEN r.state = "pending" ELSE Pending(k)
           /\ anim'[k].state = "queued" <=> k # id /\ anim[k].state = "queued"
  BY DEF Replaced
<1>2. /\ timers \in Seq(Made) /\ \A i, j \in DOMAIN timers : timers[i] = timers[j] => i = j
      /\ \A i \in DOMAIN timers :
           timers[i] \in Made /\ timers[i] # id /\ Timer(timers[i]) /\ anim[timers[i]].state # "queued"
      /\ \A i \in DOMAIN timers : Pending(timers[i]) <=> i # Zombie(caller)
      /\ \A k \in Made : Timer(k) /\ Pending(k) => \E i \in DOMAIN timers : timers[i] = k
      /\ timers # << >> => timerId
      /\ caller.kind \in {"ticked", "splice"} => caller.z \in DOMAIN timers
      /\ caller.kind = "ticked" => timers[caller.z] = caller.id
  BY DEF AnimTypes, TimersOK
<1>3. PICK n : n = Len(timers)
  OBVIOUS
<1>4. n \in Nat /\ DOMAIN timers = 1..n /\ (Zombie(caller) = 0 \/ Zombie(caller) \in 1..n)
  BY <1>2, <1>3 DEF Zombie
<1>5. ~Pending(id)
  BY DEF Pending
<1>6. Zombie(caller)' = Zombie(caller)
  BY DEF Zombie
<1>7. CASE r.state = "resolved"
  <2>1. timers' = timers /\ timerId' = timerId
    BY <1>7 DEF AnimTypes
  <2>2. TimersOK(caller)'
    BY <1>1, <1>2, <1>5, <1>6, <1>7, <2>1 DEF TimersOK
  <2> QED BY <1>1, <1>2, <1>3, <1>4, <2>1, <2>2 DEF AnimTypes
<1>8. CASE r.state = "pending"
  <2>1. PICK s : s = Append(timers, id)
    OBVIOUS
  <2>2. timers' = s /\ timerId' = TRUE
    BY <1>8, <2>1
  <2>3. /\ s \in Seq(Made) /\ Len(s) = n + 1 /\ s # << >> /\ DOMAIN s = 1..n + 1
        /\ \A i \in 1..n : s[i] = timers[i]
        /\ s[n + 1] = id
    BY <1>2, <1>3, <2>1, AppendTo
  <2>4. \A i \in 1..n + 1 : i \in 1..n \/ i = n + 1
    BY <1>4
  <2>5. \A i, j \in DOMAIN s : s[i] = s[j] => i = j
    BY <1>2, <1>4, <2>3, <2>4
  <2>6. \A i \in DOMAIN s : Timer(s[i])' /\ anim'[s[i]].state # "queued" /\ (Pending(s[i])' <=> i # Zombie(caller))
    <3> TAKE i \in DOMAIN s
    <3>1. CASE i \in 1..n
      <4>1. s[i] = timers[i] /\ i \in DOMAIN timers
        BY <1>4, <2>3, <3>1
      <4> QED BY <1>1, <1>2, <4>1
    <3>2. CASE i = n + 1
      <4>1. s[i] = id /\ i # Zombie(caller)
        BY <1>4, <2>3, <3>2
      <4>2. Timer(id)' /\ Pending(id)' /\ anim'[id].state # "queued"
        BY <1>1, <1>8
      <4> QED BY <4>1, <4>2
    <3> QED BY <2>3, <2>4, <3>1, <3>2
  <2>7. \A k \in Made' : Timer(k)' /\ Pending(k)' => \E i \in DOMAIN s : s[i] = k
    <3> SUFFICES ASSUME NEW k \in Made, Timer(k)', Pending(k)' PROVE \E i \in DOMAIN s : s[i] = k
      BY <1>1
    <3>1. CASE k = id
      BY <1>4, <2>3, <3>1
    <3>2. CASE k # id
      <4>1. PICK i \in DOMAIN timers : timers[i] = k
        BY <1>1, <1>2, <3>2
      <4> QED BY <1>4, <2>3, <2>4, <4>1
    <3> QED BY <3>1, <3>2
  <2>8. TimersOK(caller)'
    <3>1. caller.kind \in {"ticked", "splice"} => caller.z \in DOMAIN s
      BY <1>2, <1>4, <2>3
    <3>2. caller.kind = "ticked" => s[caller.z] = caller.id
      BY <1>2, <1>4, <2>3
    <3> QED BY <1>6, <2>2, <2>5, <2>6, <2>7, <3>1, <3>2 DEF TimersOK
  <2> QED BY <1>1, <1>2, <1>3, <1>4, <2>2, <2>3, <2>4, <2>8
<1> QED BY <1>7, <1>8

\* An animation begins.
LEMMA StartParts ==
  ASSUME NEW work, NEW caller, Good(work, caller), work.kind = "start", NEW id, id = work.id, Timer(id),
         NEW e, NEW r, r.state \in {"resolved", "pending"}, Replaced(id, r, e), anim[id].elem = e,
         r.state = "pending" => r.tween /\ r.orig = Natural /\ fxshow'[e].exists,
         timers' = IF r.state = "resolved" THEN timers ELSE Append(timers, id),
         timerId' = (timerId \/ r.state # "resolved"),
         UNCHANGED <<queue, delay, timeouts>>,
         NEW w, Shaped(w, caller)', NEW over \in BOOLEAN, over <=> r.state = "resolved",
         WorkAfter(w, e, over), HeightsKept(e)
  PROVE  Good(w, caller)'
<1>1. Shaped(work, caller) /\ work \in Works /\ caller \in Callers /\ AnimTypes /\ AnimOK /\ TimersOK(caller)
  BY DEF Good, Shaped, AnimTypes
<1>2. id \in Made /\ anim[id].state = "queued" /\ \A f \in Elements : \A i \in DOMAIN queue[f] : queue[f][i] # id
  BY DEF Good, WorkOK
<1>3. /\ AnimOK' /\ Made' = Made /\ e \in Elements /\ anim'[id] = r
      /\ \A k \in Made :
           /\ anim'[k].elem = anim[k].elem
           /\ k # id => anim'[k] = anim[k]
           /\ Timer(k)' <=> Timer(k)
           /\ Pending(k)' <=> IF k = id THEN r.state = "pending" ELSE Pending(k)
           /\ anim'[k].state = "queued" <=> k # id /\ anim[k].state = "queued"
      /\ \A f : f # e => UnderWay(f)' = UnderWay(f)
      /\ UnderWay(e)' = IF r.state = "pending" THEN UnderWay(e) \cup {id} ELSE UnderWay(e) \ {id}
  BY DEF Replaced
<1>4. /\ timers' \in Seq(Made') /\ timerId' \in BOOLEAN /\ TimersOK(caller)'
      /\ DOMAIN timers \subseteq DOMAIN timers' /\ Len(timers) \in Nat /\ Len(timers) <= Len(timers')
      /\ \A i \in DOMAIN timers : timers'[i] = timers[i]
      /\ \A i \in DOMAIN timers' : i \in DOMAIN timers \/ (i > Len(timers) /\ timers'[i] = id)
  BY <1>1, <1>2, TimerStarts
<1>5. UnderWay(e) = {} /\ Sentinel(e) /\ UnderWay(e)' = IF over THEN {} ELSE {id}
  <2>1. About(work, e)
    BY DEF About
  <2>2. UnderWay(e) = {} /\ Sentinel(e)
    BY <1>3, <2>1 DEF Good, TokenOK
  <2> QED BY <1>3, <2>2
<1>6. AnimTypes'
  BY <1>1, <1>3, <1>4 DEF AnimTypes, Shows, HeightsKept
<1>7. QueuesOK'
  BY <1>1, <1>2, <1>3 DEF Good, QueuesOK
<1>8. TokenOK(w, caller)'
  <2> SUFFICES ASSUME NEW f \in Elements
      PROVE /\ \A a, b \in UnderWay(f)' : a = b
            /\ UnderWay(f)' # {} => Sentinel(f)' /\ ~About(w, f)'
            /\ queue'[f] # << >> => UnderWay(f)' # {} \/ About(w, f)' \/ StopsFor(caller, f)
            /\ queue'[f] # << >> => Sentinel(f)'
            /\ w.kind = "complete" /\ w.e = f => Sentinel(f)'
    BY DEF TokenOK, StopsFor, WorkAfter
  <2>1. Sentinel(f)' <=> Sentinel(f)
    BY DEF Sentinel
  <2>2. About(w, f)' <=> f = e /\ over
    BY DEF About, WorkAfter
  <2>3. About(work, f) <=> f = e
    BY DEF About
  <2>4. /\ \A a, b \in UnderWay(f) : a = b
        /\ UnderWay(f) # {} => Sentinel(f)
        /\ queue[f] # << >> => UnderWay(f) # {} \/ About(work, f) \/ StopsFor(caller, f)
        /\ queue[f] # << >> => Sentinel(f)
    BY DEF Good, TokenOK
  <2>5. CASE f = e
    BY <1>5, <2>1, <2>2, <2>4, <2>5 DEF WorkAfter
  <2>6. CASE f # e
    BY <1>3, <2>1, <2>2, <2>3, <2>4, <2>6 DEF WorkAfter
  <2> QED BY <2>5, <2>6
<1>9. WorkOK(w)'
  BY DEF WorkOK, WorkAfter
<1>10. DelaysOK(w)'
  <2>1. \A k \in timeouts' : ~Timer(k)' /\ Pending(k)'
    BY <1>1, <1>2, <1>3 DEF Good, DelaysOK, AnimTypes
  <2>2. \A k \in Made' : ~Timer(k)' /\ Pending(k)' => k \in timeouts' /\ delay'[anim'[k].elem] = k
    BY <1>3 DEF Good, DelaysOK
  <2>3. \A f \in Elements : delay'[f] # 0 => delay'[f] \in UnderWay(f)' /\ ~Timer(delay[f])'
    <3> SUFFICES ASSUME NEW f \in Elements, delay[f] # 0 PROVE delay[f] \in UnderWay(f)' /\ ~Timer(delay[f])'
      OBVIOUS
    <3>1. delay[f] \in UnderWay(f) /\ ~Timer(delay[f])
      BY DEF Good, DelaysOK
    <3>2. delay[f] \in Made /\ f # e
      BY <1>5, <3>1 DEF UnderWay, Made
    <3> QED BY <1>3, <3>1, <3>2
  <2> QED BY <2>1, <2>2, <2>3 DEF DelaysOK
<1>11. StopOK(caller)'
  <2>1. caller.kind \in {"stopping", "splice"} => caller.kind = "splice" /\ caller.end /\ caller.deq = FALSE
    BY <1>1, CallerKinds DEF Shaped
  <2>2. ASSUME caller.kind = "splice"
        PROVE caller.i \in 0..Len(timers') /\ \A j \in DOMAIN timers' : j <= caller.i => anim'[timers'[j]].elem # caller.e
    <3>1. /\ caller.i \in 0..Len(timers)
          /\ \A j \in DOMAIN timers : j <= caller.i => anim[timers[j]].elem # caller.e
      BY <2>1, <2>2 DEF Good, StopOK
    <3>2. Len(timers') \in Nat
      BY <1>4
    <3>3. ASSUME NEW j \in DOMAIN timers', j <= caller.i PROVE anim'[timers'[j]].elem # caller.e
      <4>1. j \in DOMAIN timers
        BY <1>4, <3>1, <3>3
      <4>2. timers'[j] = timers[j] /\ timers[j] \in Made
        BY <1>1, <1>4, <4>1 DEF AnimTypes
      <4> QED BY <1>3, <3>1, <3>3, <4>1, <4>2
    <3> QED BY <1>4, <3>1, <3>2, <3>3
  <2> QED BY <2>1, <2>2 DEF StopOK
<1>12. HeightsOK'
  <2>1. \A k \in Made : Timer(k)' /\ Pending(k)' => (k = id /\ r.state = "pending") \/ (k # id /\ Pending(k) /\ Timer(k) /\ anim[k].elem # e)
    BY <1>3, <1>5 DEF UnderWay, Made, Pending
  <2>2. \A k \in Made : anim[k].elem \in Elements
    BY <1>1, OneAnim
  <2>3. \A k \in Made : Timer(k)' /\ Pending(k)' => anim'[k].tween /\ anim'[k].orig = Natural /\ fxshow'[anim'[k].elem].exists
    <3> SUFFICES ASSUME NEW k \in Made, Timer(k)', Pending(k)'
        PROVE anim'[k].tween /\ anim'[k].orig = Natural /\ fxshow'[anim[k].elem].exists
      BY <1>3
    <3>1. CASE k = id
      BY <1>3, <2>1, <3>1
    <3>2. CASE k # id
      <4>1. Pending(k) /\ Timer(k) /\ anim[k].elem # e /\ anim[k].elem \in Elements /\ anim'[k] = anim[k]
        BY <1>3, <2>1, <2>2, <3>2
      <4> QED BY <4>1 DEF Good, HeightsOK, HeightsKept
    <3> QED BY <3>1, <3>2
  <2>4. \A f \in Elements : IF fxshow'[f].exists THEN fxshow'[f].height = Natural ELSE height'[f] = Natural
    BY DEF Good, HeightsOK, HeightsKept
  <2> QED BY <1>3, <2>3, <2>4 DEF HeightsOK
<1> QED BY <1>4, <1>6, <1>7, <1>8, <1>9, <1>10, <1>11, <1>12 DEF Good

\* What an animation that is over puts on the stack.
EndOps(over, id) == IF over THEN CompleteOps(id) ELSE << >>
EndWork(over, e) == IF over THEN CompleteWork(e, FALSE) ELSE NoWork
EndState(over) == IF over THEN "resolved" ELSE "pending"

LEMMA EndOnStack ==
  ASSUME NEW id, NEW e \in Elements, anim[id].elem = e, NEW over \in BOOLEAN, NEW s \in Seq(Ops),
         NEW w, w = EndWork(over, e)
  PROVE  EndOps(over, id) \o s = Full(w, s) /\ w \in Works /\ WorkAfter(w, e, over)
<1>1. w \in Works /\ WorkAfter(w, e, over)
  BY DEF EndWork, Works, CompleteWork, NoWork, WorkAfter
<1>2. CASE over
  <2>1. CompleteOps(id) = <<CompleteOp(e, FALSE), DequeueOp(e)>>
    BY DEF CompleteOps, CompleteOp
  <2>2. CompleteOp(e, FALSE) \in Ops /\ DequeueOp(e) \in Ops
    BY DEF Ops, CompleteOp, DequeueOp
  <2>3. CompleteOps(id) \o s = <<CompleteOp(e, FALSE)>> \o (<<DequeueOp(e)>> \o s)
    <3>1. PICK c, d : c = CompleteOp(e, FALSE) /\ d = DequeueOp(e)
      OBVIOUS
    <3>2. <<c, d>> \o s = <<c>> \o (<<d>> \o s)
      BY <2>2, <3>1, PushTwo, ZenonT(60)
    <3> QED BY <2>1, <3>1, <3>2
  <2>4. Full(w, s) = <<CompleteOp(e, FALSE)>> \o (<<DequeueOp(e)>> \o s)
    BY <1>2 DEF EndWork, Full, CompleteWork
  <2> QED BY <1>1, <1>2, <2>3, <2>4 DEF EndOps
<1>3. CASE ~over
  <2>1. << >> \o s = s
    OBVIOUS
  <2>2. Full(w, s) = s
    BY <1>3, Forms DEF EndWork
  <2> QED BY <1>1, <1>3, <2>1, <2>2 DEF EndOps
<1> QED BY <1>2, <1>3

\* The state that an animation is left in.
LEMMA StateOnly ==
  ASSUME NEW a \in Anims, NEW s \in States, NEW r, r = [a EXCEPT !.state = s]
  PROVE  /\ r \in Anims /\ r.state = s /\ r.elem = a.elem /\ r.effect = a.effect /\ r.left = a.left
         /\ r.duration = a.duration /\ r.tween = a.tween /\ r.orig = a.orig
  BY DEF Anims

\* What is remembered of a height is the element's own.
Own(data, h) == IF data.exists THEN data.height = Natural ELSE h = Natural

\* What is known of an element's height when one of its animations has moved.
After(r) ==
  /\ r.height \in 0..Natural /\ r.shown \in BOOLEAN /\ r.data \in Shows
  /\ IF r.data.exists THEN r.data.height = Natural ELSE r.height = Natural

LEMMA AfterKept ==
  ASSUME AnimTypes, NEW e \in Elements, NEW r, After(r),
         height' = [height EXCEPT ![e] = r.height], shown' = [shown EXCEPT ![e] = r.shown],
         fxshow' = [fxshow EXCEPT ![e] = r.data]
  PROVE  HeightsKept(e)
<1>1. height \in [Elements -> 0..Natural] /\ shown \in [Elements -> BOOLEAN] /\ fxshow \in [Elements -> Shows]
  BY DEF AnimTypes, Shows
<1> QED BY <1>1 DEF After, HeightsKept

LEMMA StartAfter ==
  ASSUME NEW a \in Anims, ~a.tween, a.left <= a.duration, NEW h \in 0..Natural, NEW isShown \in BOOLEAN, NEW data \in Shows,
         Own(data, h), NEW e,
         NEW p, p = Prefilter(a, h, isShown, data), NEW k, k = Run(p.a, h),
         NEW over \in BOOLEAN, over = Finished(p.a),
         NEW r, r = IF over THEN AtEnd(p.a, e, k, p.shown, p.data)
                    ELSE [height |-> k, shown |-> p.shown, data |-> p.data]
  PROVE  Filtered(p, a) /\ After(r) /\ (~over => p.a.tween /\ r.data.exists)
<1>1. Filtered(p, a) /\ (~p.a.tween => p.data = data)
  BY PrefilterOK DEF Own
<1>2. /\ p.a \in Anims /\ p.a.elem = a.elem /\ p.a.effect = a.effect /\ p.a.duration = a.duration /\ p.a.left = a.left
      /\ p.shown \in BOOLEAN /\ p.data \in Shows
      /\ p.a.tween => p.a.orig = Natural /\ p.data.exists = TRUE /\ p.data.height = Natural
  BY <1>1 DEF Filtered
<1>3. k \in 0..Natural
  BY <1>2, RunBound
<1>4. CASE over /\ p.a.tween
  <2>1. r.height = Natural /\ r.shown \in BOOLEAN /\ r.data = NoShow
    BY <1>2, <1>4, AtEndRestores
  <2> QED BY <1>1, <1>4, <2>1, NoShowIs DEF After
<1>5. CASE over /\ ~p.a.tween
  <2>1. k = h
    BY <1>5 DEF Run
  <2>2. PICK b \in BOOLEAN : b = IF p.a.hides THEN FALSE ELSE p.shown
    BY <1>2
  <2>3. r = [height |-> h, shown |-> b, data |-> data]
    BY <1>1, <1>5, <2>1, <2>2 DEF AtEnd
  <2>4. r.height = h /\ r.data = data /\ r.shown \in BOOLEAN
    <3>1. PICK x \in [height : {h}, shown : BOOLEAN, data : {data}] : x = r
      BY <2>3
    <3> QED BY <3>1
  <2> QED BY <1>1, <1>5, <2>4 DEF After, Own
<1>6. CASE ~over
  <2>1. p.a.tween
    BY <1>6 DEF Finished
  <2>2. r.height = k /\ r.shown = p.shown /\ r.data = p.data
    BY <1>6
  <2> QED BY <1>1, <1>2, <1>3, <2>1, <2>2 DEF After
<1> QED BY <1>4, <1>5, <1>6

\* An animation begins, and may be over at once.
LEMMA StartAnimationStep ==
  ASSUME NEW work, NEW caller, Good(work, caller), StartAnimation
  PROVE  \E w : Good(w, caller)'
<1>1. Shaped(work, caller) /\ work.kind = "start" /\ AnimTypes /\ AnimOK /\ work \in Works /\ caller \in Callers
  BY Kinds DEF Good, StartAnimation, AnimTypes, Shaped
<1>2. PICK id : id = work.id
  OBVIOUS
<1>3. PICK e : e = anim[id].elem
  OBVIOUS
<1>4. id \in Made /\ anim[id].state = "queued"
  BY <1>1, <1>2 DEF Good, WorkOK
<1>5. /\ e \in Elements /\ anim[id] \in Anims /\ ~anim[id].tween /\ anim[id].left <= anim[id].duration
  BY <1>1, <1>3, <1>4, OneAnim DEF AnimOK
<1>6. Top.id = id /\ Tail(todo) = Below(caller)
  <2>1. Top = StartOp(work.id) /\ Tail(todo) = Below(caller)
    BY <1>1, Tops
  <2> QED BY <2>1, <1>2 DEF StartOp
<1>7. PICK p : p = Prefilter(anim[id], height[e], shown[e], fxshow[e])
  OBVIOUS
<1>8. PICK h : h = Run(p.a, height[e])
  OBVIOUS
<1>9. PICK over \in BOOLEAN : over = Finished(p.a)
  BY DEF Finished
<1>10. PICK after : after = IF over THEN AtEnd(p.a, e, h, p.shown, p.data)
                            ELSE [height |-> h, shown |-> p.shown, data |-> p.data]
  OBVIOUS
<1>11. PICK s : s = IF over THEN "resolved" ELSE "pending"
  OBVIOUS
<1>12. PICK r : r = [p.a EXCEPT !.state = s]
  OBVIOUS
<1>13. /\ Timer(id) /\ anim' = [anim EXCEPT ![id] = r]
       /\ height' = [height EXCEPT ![e] = after.height]
       /\ shown' = [shown EXCEPT ![e] = after.shown]
       /\ fxshow' = [fxshow EXCEPT ![e] = after.data]
       /\ timers' = IF over THEN timers ELSE Append(timers, id)
       /\ timerId' = (timerId \/ ~over)
       /\ todo' = (IF over THEN CompleteOps(id) ELSE << >>) \o Below(caller)
       /\ UNCHANGED <<queue, delay, timeouts>>
  BY <1>3, <1>6, <1>7, <1>8, <1>9, <1>10, <1>11, <1>12 DEF StartAnimation, Timer
<1>14. Filtered(p, anim[id]) /\ After(after) /\ (~over => p.a.tween /\ after.data.exists)
  <2>1. height[e] \in 0..Natural /\ shown[e] \in BOOLEAN /\ fxshow[e] \in Shows
    BY <1>1, <1>5 DEF AnimTypes, Shows
  <2>2. Own(fxshow[e], height[e])
    BY <1>5 DEF Good, HeightsOK, Own
  <2> QED BY <1>5, <1>7, <1>8, <1>9, <1>10, <2>1, <2>2, StartAfter
<1>15. /\ r \in Anims /\ r.state = s /\ r.elem = e /\ r.effect = anim[id].effect /\ r.left <= r.duration
       /\ r.tween = p.a.tween /\ r.orig = p.a.orig
  <2>1. s \in States
    BY <1>11 DEF States
  <2>2. p.a \in Anims /\ p.a.elem = e /\ p.a.effect = anim[id].effect /\ p.a.left <= p.a.duration
    BY <1>3, <1>5, <1>14 DEF Filtered
  <2> QED BY <1>12, <2>1, <2>2, StateOnly
<1>16. Replaced(id, r, e)
  <2>1. r.state # "queued"
    BY <1>11, <1>15
  <2> QED BY <1>1, <1>3, <1>4, <1>13, <1>15, <2>1, RecordSeen
<1>17. HeightsKept(e)
  BY <1>1, <1>5, <1>13, <1>14, AfterKept
<1>18. r.state \in {"resolved", "pending"} /\ (over <=> r.state = "resolved")
  BY <1>11, <1>15
<1>19. r.state = "pending" => r.tween /\ r.orig = Natural /\ fxshow'[e].exists
  <2> SUFFICES ASSUME ~over PROVE r.tween /\ r.orig = Natural /\ fxshow'[e].exists
    BY <1>18
  <2>1. p.a.tween /\ after.data.exists /\ p.a.orig = Natural
    BY <1>14 DEF Filtered
  <2>2. fxshow'[e] = after.data
    BY <1>1, <1>5, <1>13 DEF AnimTypes
  <2> QED BY <1>15, <2>1, <2>2
<1>20. PICK w : w = EndWork(over, e)
  OBVIOUS
<1>21. Below(caller) \in Seq(Ops)
  BY <1>1, BelowKinds
<1>22. todo' = Full(w, Below(caller)) /\ w \in Works /\ WorkAfter(w, e, over)
  <2>1. todo' = EndOps(over, id) \o Below(caller) /\ anim[id].elem = e
    BY <1>3, <1>13 DEF EndOps
  <2> QED BY <1>5, <1>20, <1>21, <2>1, EndOnStack
<1>23. Shaped(w, caller)'
  BY <1>1, <1>22 DEF Shaped
<1>24. timers' = (IF r.state = "resolved" THEN timers ELSE Append(timers, id)) /\ timerId' = (timerId \/ r.state # "resolved")
  BY <1>13, <1>18
<1>25. Good(w, caller)'
  BY <1>1, <1>2, <1>3, <1>13, <1>16, <1>17, <1>18, <1>19, <1>22, <1>23, <1>24, StartParts
<1> QED BY <1>25, SMTT(30)

\* A timer had its step.
LEMMA TickParts ==
  ASSUME NEW work, NEW caller, Good(work, caller), work.kind = "none", caller.kind = "tick",
         NEW i, i = caller.i, i \in DOMAIN timers, NEW id, id = timers[i], NEW e, anim[id].elem = e,
         NEW over \in BOOLEAN, NEW s, s = EndState(over),
         anim' = [anim EXCEPT ![id].state = s],
         UNCHANGED <<queue, delay, timeouts, timers, timerId>>,
         NEW more \in BOOLEAN, more = ~over, NEW c, c = TickedCaller(i, id, more), NEW w, Shaped(w, c)',
         WorkAfter(w, e, over), HeightsKept(e), ~over => fxshow'[e].exists
  PROVE  Good(w, c)'
<1>1. Shaped(work, caller) /\ work \in Works /\ caller \in Callers /\ AnimTypes /\ AnimOK
  BY DEF Good, Shaped, AnimTypes
<1>2. id \in Made /\ Timer(id) /\ Pending(id) /\ id \in UnderWay(e)
  <2>1. Zombie(caller) = 0 /\ id \in Made /\ i # 0
    BY <1>1 DEF Zombie, AnimTypes
  <2>2. Timer(id) /\ Pending(id)
    BY <2>1 DEF Good, TimersOK
  <2> QED BY <2>1, <2>2 DEF UnderWay, Made, Pending
<1>3. Changed(id, s, e)
  <2>1. s \in States /\ s # "queued"
    BY DEF States, EndState
  <2> QED BY <1>1, <1>2, <2>1, StateSeen
<1>4. /\ AnimOK' /\ Made' = Made /\ e \in Elements
      /\ \A k \in Made :
           /\ anim'[k].elem = anim[k].elem /\ anim'[k].tween = anim[k].tween /\ anim'[k].orig = anim[k].orig
           /\ Timer(k)' <=> Timer(k)
           /\ Pending(k)' <=> (IF k = id THEN ~over ELSE Pending(k))
           /\ anim'[k].state = "queued" <=> k # id /\ anim[k].state = "queued"
      /\ \A f : f # e => UnderWay(f)' = UnderWay(f)
      /\ UnderWay(e)' = IF over THEN UnderWay(e) \ {id} ELSE UnderWay(e) \cup {id}
  BY <1>3 DEF Changed, EndState
<1>5. UnderWay(e) = {id} /\ UnderWay(e)' = IF over THEN {} ELSE {id}
  <2>1. \A a, b \in UnderWay(e) : a = b
    BY <1>4 DEF Good, TokenOK
  <2>2. UnderWay(e) = {id}
    BY <1>2, <2>1
  <2> QED BY <1>4, <2>2
<1>6. c.kind = "ticked" /\ c.z = i /\ c.id = id /\ (c.more <=> ~over)
  BY DEF TickedCaller
<1>7. AnimTypes'
  BY <1>1, <1>4 DEF AnimTypes, Shows, HeightsKept
<1>8. QueuesOK'
  <2>1. anim[id].state # "queued"
    BY <1>2 DEF Pending
  <2> QED BY <1>4, <2>1 DEF Good, QueuesOK
<1>9. TokenOK(w, c)'
  <2> SUFFICES ASSUME NEW f \in Elements
      PROVE /\ \A a, b \in UnderWay(f)' : a = b
            /\ UnderWay(f)' # {} => Sentinel(f)' /\ ~About(w, f)'
            /\ queue'[f] # << >> => UnderWay(f)' # {} \/ About(w, f)'
            /\ queue'[f] # << >> => Sentinel(f)'
            /\ w.kind = "complete" /\ w.e = f => Sentinel(f)'
    BY DEF TokenOK, StopsFor, WorkAfter
  <2>1. Sentinel(f)' <=> Sentinel(f)
    BY DEF Sentinel
  <2>2. About(w, f)' <=> f = e /\ over
    BY DEF About, WorkAfter
  <2>3. /\ \A a, b \in UnderWay(f) : a = b
        /\ UnderWay(f) # {} => Sentinel(f)
        /\ queue[f] # << >> => UnderWay(f) # {}
        /\ queue[f] # << >> => Sentinel(f)
    BY DEF Good, TokenOK, About, StopsFor
  <2>4. CASE f = e
    BY <1>5, <2>1, <2>2, <2>3, <2>4 DEF WorkAfter
  <2>5. CASE f # e
    BY <1>4, <2>1, <2>2, <2>3, <2>5 DEF WorkAfter
  <2> QED BY <2>4, <2>5
<1>10. WorkOK(w)' /\ StopOK(c)'
  BY <1>6 DEF WorkOK, WorkAfter, StopOK
<1>11. TimersOK(c)'
  <2>1. Zombie(c) = (IF over THEN i ELSE 0) /\ Zombie(caller) = 0
    BY <1>6 DEF Zombie
  <2>2. /\ \A j, k \in DOMAIN timers : timers[j] = timers[k] => j = k
        /\ \A j \in DOMAIN timers : j # 0 /\ timers[j] \in Made
        /\ \A j \in DOMAIN timers : Timer(timers[j]) /\ anim[timers[j]].state # "queued"
        /\ \A j \in DOMAIN timers : Pending(timers[j]) <=> j # 0
        /\ \A k \in Made : Timer(k) /\ Pending(k) => \E j \in DOMAIN timers : timers[j] = k
        /\ timers # << >> => timerId
    BY <1>1, <2>1 DEF Good, TimersOK, AnimTypes
  <2>3. \A j \in DOMAIN timers' : Timer(timers[j])' /\ anim'[timers'[j]].state # "queued" /\ (Pending(timers[j])' <=> j # Zombie(c))
    <3> TAKE j \in DOMAIN timers'
    <3>1. timers' = timers /\ j \in DOMAIN timers
      OBVIOUS
    <3>2. j = i <=> timers[j] = id
      BY <2>2, <3>1
    <3> QED BY <1>4, <2>1, <2>2, <3>1, <3>2
  <2>4. \A k \in Made' : Timer(k)' /\ Pending(k)' => \E j \in DOMAIN timers' : timers'[j] = k
    BY <1>2, <1>4, <2>2
  <2>5. Zombie(c)' = Zombie(c)
    BY DEF Zombie
  <2> QED BY <1>6, <2>2, <2>3, <2>4, <2>5 DEF TimersOK
<1>12. DelaysOK(w)'
  <2>1. \A k \in timeouts' : ~Timer(k)' /\ Pending(k)'
    BY <1>1, <1>2, <1>4 DEF Good, DelaysOK, AnimTypes
  <2>2. \A k \in Made' : ~Timer(k)' /\ Pending(k)' => k \in timeouts' /\ delay'[anim'[k].elem] = k
    BY <1>2, <1>4 DEF Good, DelaysOK
  <2>3. \A f \in Elements : delay'[f] # 0 => delay'[f] \in UnderWay(f)' /\ ~Timer(delay[f])'
    <3> SUFFICES ASSUME NEW f \in Elements, delay[f] # 0 PROVE delay[f] \in UnderWay(f)' /\ ~Timer(delay[f])'
      OBVIOUS
    <3>1. delay[f] \in UnderWay(f) /\ ~Timer(delay[f])
      BY DEF Good, DelaysOK
    <3>2. delay[f] \in Made /\ f # e
      BY <1>2, <1>5, <3>1 DEF UnderWay, Made
    <3> QED BY <1>4, <3>1, <3>2
  <2> QED BY <2>1, <2>2, <2>3 DEF DelaysOK
<1>13. HeightsOK'
  <2>1. \A k \in Made : Timer(k)' /\ Pending(k)' => (k = id /\ ~over) \/ (k # id /\ Pending(k) /\ Timer(k) /\ anim[k].elem # e)
    BY <1>4, <1>5 DEF UnderWay, Made, Pending
  <2>2. \A k \in Made : anim[k].elem \in Elements
    BY <1>1, OneAnim
  <2>3. \A k \in Made : Timer(k)' /\ Pending(k)' => anim'[k].tween /\ anim'[k].orig = Natural /\ fxshow'[anim'[k].elem].exists
    <3> SUFFICES ASSUME NEW k \in Made, Timer(k)', Pending(k)'
        PROVE anim[k].tween /\ anim[k].orig = Natural /\ fxshow'[anim[k].elem].exists
      BY <1>4
    <3>1. CASE k = id
      BY <1>2, <1>4, <2>1, <3>1 DEF Good, HeightsOK
    <3>2. CASE k # id
      <4>1. Pending(k) /\ Timer(k) /\ anim[k].elem # e /\ anim[k].elem \in Elements
        BY <1>4, <2>1, <2>2, <3>2
      <4> QED BY <4>1 DEF Good, HeightsOK, HeightsKept
    <3> QED BY <3>1, <3>2
  <2>4. \A f \in Elements : IF fxshow'[f].exists THEN fxshow'[f].height = Natural ELSE height'[f] = Natural
    BY DEF Good, HeightsOK, HeightsKept
  <2> QED BY <1>4, <2>3, <2>4 DEF HeightsOK
<1> QED BY <1>7, <1>8, <1>9, <1>10, <1>11, <1>12, <1>13 DEF Good

LEMMA TickAfter ==
  ASSUME NEW a \in Anims, a.tween, a.orig = Natural, a.left <= a.duration,
         NEW h \in 0..Natural, NEW isShown \in BOOLEAN, NEW data \in Shows, Own(data, h), data.exists, NEW e,
         NEW k, k = Run(a, h), NEW over \in BOOLEAN,
         NEW r, r = IF over THEN AtEnd(a, e, k, isShown, data) ELSE [height |-> k, shown |-> isShown, data |-> data]
  PROVE  After(r) /\ (~over => r.data.exists)
<1>1. k \in 0..Natural
  BY RunBound
<1>2. CASE over
  <2>1. r.height = Natural /\ r.shown \in BOOLEAN /\ r.data = NoShow
    BY <1>2, AtEndRestores
  <2> QED BY <1>2, <2>1, NoShowIs DEF After
<1>3. CASE ~over
  <2>1. r.height = k /\ r.shown = isShown /\ r.data = data
    BY <1>3
  <2> QED BY <1>1, <2>1 DEF After, Own
<1> QED BY <1>2, <1>3

\* A timer has its step.
LEMMA TickTimerStep ==
  ASSUME NEW work, NEW caller, Good(work, caller), TickTimer
  PROVE  \E w, c : Good(w, c)'
<1>1. Shaped(work, caller) /\ work.kind = "none" /\ caller.kind = "tick" /\ AnimTypes /\ AnimOK
  BY Kinds DEF Good, TickTimer, AnimTypes
<1>2. work \in Works /\ caller \in Callers /\ caller.i \in Nat \ {0}
  BY <1>1, CallerKinds DEF Shaped
<1>3. PICK i : i = caller.i
  OBVIOUS
<1>4. Top.i = i /\ Tail(todo) = << >>
  <2>1. Top = TickOp(caller.i) /\ Tail(todo) = << >>
    BY <1>1, Tops
  <2> QED BY <2>1, <1>3 DEF TickOp
<1>5. PICK id : id = timers[i]
  OBVIOUS
<1>6. PICK e : e = anim[id].elem
  OBVIOUS
<1>7. i \in DOMAIN timers /\ id \in Made /\ i \in Nat
  <2>1. i <= Len(timers)
    BY <1>4 DEF TickTimer
  <2> QED BY <1>1, <1>2, <1>3, <1>5, <2>1 DEF AnimTypes
<1>8. /\ Timer(id) /\ Pending(id) /\ e \in Elements /\ anim[id] \in Anims /\ anim[id].left <= anim[id].duration
      /\ anim[id].tween /\ anim[id].orig = Natural /\ fxshow[e].exists
  <2>1. Zombie(caller) = 0
    BY <1>1 DEF Zombie
  <2>2. Timer(id) /\ Pending(id)
    BY <1>2, <1>3, <1>5, <1>7, <2>1 DEF Good, TimersOK
  <2> QED BY <1>1, <1>6, <1>7, <2>2, OneAnim DEF Good, HeightsOK, AnimOK
<1>9. PICK over \in BOOLEAN : over = Finished(anim[id])
  BY DEF Finished
<1>10. PICK h : h = Run(anim[id], height[e])
  OBVIOUS
<1>11. PICK after : after = IF over THEN AtEnd(anim[id], e, h, shown[e], fxshow[e])
                            ELSE [height |-> h, shown |-> shown[e], data |-> fxshow[e]]
  OBVIOUS
<1>12. PICK s : s = EndState(over)
  OBVIOUS
<1>13. PICK more \in BOOLEAN : more = ~over
  OBVIOUS
<1>14. (Finished(anim[id]) /\ anim[id].state = "pending") <=> over
  BY <1>8, <1>9 DEF Pending
<1>15. /\ anim' = [anim EXCEPT ![id].state = IF over THEN "resolved" ELSE @]
       /\ height' = [height EXCEPT ![e] = after.height]
       /\ shown' = [shown EXCEPT ![e] = after.shown]
       /\ fxshow' = [fxshow EXCEPT ![e] = after.data]
       /\ todo' = ((IF over THEN CompleteOps(id) ELSE << >>) \o <<TickedOp(i, id, more)>>) \o << >>
       /\ UNCHANGED <<queue, delay, timeouts, timers, timerId>>
  <2>1. CASE over
    BY <1>4, <1>5, <1>6, <1>9, <1>10, <1>11, <1>13, <1>14, <2>1 DEF TickTimer, TickedOp
  <2>2. CASE ~over
    BY <1>4, <1>5, <1>6, <1>9, <1>10, <1>11, <1>13, <1>14, <2>2 DEF TickTimer, TickedOp
  <2> QED BY <2>1, <2>2
<1>16. anim' = [anim EXCEPT ![id].state = s]
  BY <1>8, <1>12, <1>15 DEF Pending, EndState
<1>17. After(after) /\ (~over => after.data.exists)
  <2>1. height[e] \in 0..Natural /\ shown[e] \in BOOLEAN /\ fxshow[e] \in Shows
    BY <1>1, <1>8 DEF AnimTypes, Shows
  <2>2. Own(fxshow[e], height[e])
    BY <1>8 DEF Good, HeightsOK, Own
  <2> QED BY <1>8, <1>10, <1>11, <2>1, <2>2, TickAfter
<1>18. HeightsKept(e) /\ (~over => fxshow'[e].exists)
  <2>1. fxshow'[e] = after.data
    BY <1>1, <1>8, <1>15 DEF AnimTypes
  <2> QED BY <1>1, <1>8, <1>15, <1>17, <2>1, AfterKept
<1>19. PICK c : c = TickedCaller(i, id, more)
  OBVIOUS
<1>20. PICK w : w = EndWork(over, e)
  OBVIOUS
<1>21. c \in Callers /\ c.kind = "ticked" /\ Below(c) = <<TickedOp(i, id, more)>> /\ Below(c) \in Seq(Ops)
  <2>1. id \in Ids
    BY <1>1, <1>7, MadeIds DEF AnimOK, Ids, AnimTypes
  <2>2. c \in Callers /\ c.kind = "ticked"
    <3>1. c \in [kind : {"ticked"}, z : Nat, id : Ids, more : BOOLEAN]
      BY <1>7, <1>19, <2>1 DEF TickedCaller
    <3> QED BY <3>1 DEF Callers
  <2>3. Below(c) = <<TickedOp(i, id, more)>>
    BY <1>19, Forms
  <2> QED BY <2>2, <2>3, BelowKinds
<1>22. todo' = Full(w, Below(c)) /\ w \in Works /\ WorkAfter(w, e, over)
  <2>1. todo' = EndOps(over, id) \o Below(c)
    <3>1. PICK x : x = EndOps(over, id)
      OBVIOUS
    <3>2. CompleteOps(id) \in Seq(Ops) /\ << >> \in Seq(Ops)
      BY <1>6, <1>8 DEF CompleteOps, Ops, DequeueOp
    <3>3. x \in Seq(Ops)
      BY <3>1, <3>2 DEF EndOps
    <3>4. x \o Below(c) \in Seq(Ops)
      BY <1>21, <3>3
    <3>5. (x \o Below(c)) \o << >> = x \o Below(c)
      BY <3>4, Push
    <3> QED BY <1>15, <1>21, <3>1, <3>5 DEF EndOps
  <2>2. anim[id].elem = e /\ e \in Elements
    BY <1>6, <1>8
  <2>3. PICK b : b = Below(c)
    OBVIOUS
  <2>4. b \in Seq(Ops)
    BY <1>21, <2>3
  <2>5. EndOps(over, id) \o b = Full(w, b) /\ w \in Works /\ WorkAfter(w, e, over)
    BY <1>20, <2>2, <2>4, EndOnStack, ZenonT(60)
  <2> QED BY <2>1, <2>3, <2>5
<1>23. Shaped(w, c)'
  <2>1. c.kind # "splice"
    BY <1>21
  <2> QED BY <1>21, <1>22, <2>1 DEF Shaped
<1>24. anim[id].elem = e /\ id = timers[i] /\ i = caller.i
  BY <1>3, <1>5, <1>6
<1>25. Good(w, c)'
  <2>1. UNCHANGED <<queue, delay, timeouts, timers, timerId>>
    BY <1>15
  <2>2. i \in DOMAIN timers /\ work.kind = "none" /\ caller.kind = "tick" /\ WorkAfter(w, e, over)
    BY <1>1, <1>7, <1>22
  <2> QED BY <1>12, <1>13, <1>16, <1>18, <1>19, <1>23, <1>24, <2>1, <2>2, TickParts, Zenon
<1> QED BY <1>25, SMTT(30)

\* Nothing has been made in the beginning.
LEMMA InitGood ==
  ASSUME DurationsAssumption, AnimationsInit
  PROVE  Good(NoWork, NoCaller)
<1>1. NoWork.kind = "none" /\ NoCaller.kind = "none" /\ NoWork \in Works /\ NoCaller \in Callers
  BY Members
<1>2. anim = << >> /\ Made = {} /\ timers = << >> /\ todo = << >>
  BY DEF AnimationsInit, Made
<1>3. Shaped(NoWork, NoCaller)
  BY <1>1, <1>2, Forms DEF Shaped
<1>4. /\ \A e \in Elements : queue[e] = << >> /\ delay[e] = 0 /\ height[e] = Natural /\ ~fxshow[e].exists
      /\ timeouts = {} /\ timerId = FALSE
  BY DEF AnimationsInit, NoShow
<1>5. AnimTypes
  <2>1. AnimOK /\ MaxAnims \in Nat
    BY <1>2 DEF AnimOK, DurationsAssumption
  <2>2. queue \in [Elements -> Seq(Ids \cup {INPROGRESS})]
    BY DEF AnimationsInit
  <2>3. delay \in [Elements -> 0..MaxAnims] /\ height \in [Elements -> 0..Natural] /\ shown \in [Elements -> BOOLEAN]
    BY <2>1 DEF AnimationsInit, Natural
  <2>4. fxshow \in [Elements -> [exists : BOOLEAN, hidden : {"unset", "yes", "no"}, height : {Unset, Natural}]]
    BY DEF AnimationsInit, NoShow
  <2>5. timeouts \subseteq Made /\ timers \in Seq(Made) /\ timerId \in BOOLEAN
    <3>1. << >> \in Seq(Made)
      OBVIOUS
    <3> QED BY <1>2, <1>4, <3>1
  <2> QED BY <2>1, <2>2, <2>3, <2>4, <2>5 DEF AnimTypes
<1>6. QueuesOK /\ WorkOK(NoWork) /\ StopOK(NoCaller)
  BY <1>1, <1>4 DEF QueuesOK, WorkOK, StopOK
<1>7. \A e : UnderWay(e) = {}
  BY <1>2 DEF UnderWay, Made
<1>8. TokenOK(NoWork, NoCaller)
  BY <1>1, <1>4, <1>7 DEF TokenOK, About, StopsFor
<1>9. TimersOK(NoCaller) /\ DelaysOK(NoWork) /\ HeightsOK
  BY <1>1, <1>2, <1>4 DEF TimersOK, DelaysOK, HeightsOK
<1> QED BY <1>3, <1>5, <1>6, <1>8, <1>9 DEF Good

\* The page acts.
LEMMA PageStep ==
  ASSUME DurationsAssumption, Liberties = {}, NEW work, NEW caller, Good(work, caller), Page
  PROVE  AnimationsInv'
<1>1. PICK e \in Elements :
        \/ \E effect \in Effects, d \in Durations : animate(e, effect, d)
        \/ \E clear, end \in BOOLEAN : stop(e, clear, end)
        \/ clearQueue(e) \/ makePromise(e)
  BY DEF Page
<1>2. ASSUME NEW effect \in Effects, NEW d \in Durations, animate(e, effect, d) PROVE AnimationsInv'
  <2>1. d \in Nat
    BY DEF DurationsAssumption
  <2>2. \E w : Good(w, caller)'
    BY <1>2, <2>1, AnimateStep
  <2> QED BY <2>2 DEF AnimationsInv
<1>3. ASSUME NEW clear \in BOOLEAN, NEW end \in BOOLEAN, stop(e, clear, end) PROVE AnimationsInv'
  <2>1. PICK c : c = StopCaller(e, end)
    OBVIOUS
  <2>2. Good(work, c)'
    BY <1>3, <2>1, StopStep
  <2> QED BY <2>2 DEF AnimationsInv
<1>4. ~clearQueue(e)
  BY DEF clearQueue
<1>5. CASE makePromise(e)
  <2>1. \E w : Good(w, caller)'
    BY <1>5, MakePromiseStep
  <2> QED BY <2>1 DEF AnimationsInv
<1> QED BY <1>1, <1>2, <1>3, <1>4, <1>5

\* What is on the stack goes on.
LEMMA MachineStep ==
  ASSUME NEW work, NEW caller, Good(work, caller), Machine
  PROVE  AnimationsInv'
<1>1. CASE dequeue
  <2>1. \E w : Good(w, caller)'
    BY <1>1, DequeueStep
  <2> QED BY <2>1 DEF AnimationsInv
<1>2. CASE StartDelay
  <2>1. Good(NoWork, caller)'
    BY <1>2, StartDelayStep
  <2> QED BY <2>1 DEF AnimationsInv
<1>3. CASE StartAnimation
  <2>1. \E w : Good(w, caller)'
    BY <1>3, StartAnimationStep
  <2> QED BY <2>1 DEF AnimationsInv
<1>4. CASE TickTimer
  <2>1. \E w, c : Good(w, c)'
    BY <1>4, TickTimerStep
  <2> QED BY <2>1 DEF AnimationsInv
<1>5. CASE Ticked
  <2>1. \E c : Good(work, c)'
    BY <1>5, TickedStep
  <2> QED BY <2>1 DEF AnimationsInv
<1>6. CASE TickEnd
  <2>1. Good(NoWork, NoCaller)'
    BY <1>6, TickEndStep
  <2> QED BY <2>1 DEF AnimationsInv
<1>7. CASE StopDelay
  <2>1. PICK c : c = StoppingCaller(caller.e, caller.end, Len(timers), TRUE)
    OBVIOUS
  <2>2. Good(work, c)'
    BY <1>7, <2>1, StopDelayStep
  <2> QED BY <2>2 DEF AnimationsInv
<1>8. CASE Stopping
  <2>1. \E w, c : Good(w, c)'
    BY <1>8, StoppingStep
  <2> QED BY <2>1 DEF AnimationsInv
<1>9. CASE StopSplice
  <2>1. PICK c : c = StoppingCaller(caller.e, caller.end, caller.i, FALSE)
    OBVIOUS
  <2>2. Good(work, c)'
    BY <1>9, <2>1, StopSpliceStep
  <2> QED BY <2>2 DEF AnimationsInv
<1>10. CASE StopEnd
  <2>1. \E w : Good(w, NoCaller)'
    BY <1>10, StopEndStep
  <2> QED BY <2>1 DEF AnimationsInv
<1> QED BY <1>1, <1>2, <1>3, <1>4, <1>5, <1>6, <1>7, <1>8, <1>9, <1>10 DEF Machine

\* The invariant is inductive.
LEMMA NextGood ==
  ASSUME DurationsAssumption, Liberties = {}, AnimationsInv, [AnimationsNext]_animationsVars
  PROVE  AnimationsInv'
<1>1. PICK work, caller : Good(work, caller)
  BY DEF AnimationsInv
<1>2. CASE Page
  BY <1>1, <1>2, PageStep
<1>3. CASE Machine
  BY <1>1, <1>3, MachineStep
<1>4. CASE CompleteReturns
  <2>1. PICK w : w = DequeueWork(work.e)
    OBVIOUS
  <2>2. Good(w, caller)'
    BY <1>1, <1>4, <2>1, CompleteReturnsStep
  <2> QED BY <2>2 DEF AnimationsInv
<1>5. CASE Tick
  <2>1. PICK c : c = TickCaller(1)
    OBVIOUS
  <2>2. Good(NoWork, c)'
    BY <1>1, <1>5, <2>1, TickStep
  <2> QED BY <2>2 DEF AnimationsInv
<1>6. ASSUME NEW id \in Ids, DelayOver(id) PROVE AnimationsInv'
  <2>1. PICK e, w : e = anim[id].elem /\ w = DequeueWork(e)
    OBVIOUS
  <2>2. Good(w, NoCaller)'
    BY <1>1, <1>6, <2>1, DelayOverStep
  <2> QED BY <2>2 DEF AnimationsInv
<1>7. CASE UNCHANGED animationsVars
  <2>1. Still /\ todo' = todo
    BY <1>7 DEF animationsVars, Still
  <2>2. Shaped(work, caller)'
    BY <1>1, <2>1 DEF Good, Shaped
  <2>3. Good(work, caller)'
    BY <1>1, <2>1, <2>2, StillGood DEF Good
  <2> QED BY <2>3 DEF AnimationsInv
<1> QED BY <1>2, <1>3, <1>4, <1>5, <1>6, <1>7 DEF AnimationsNext

\* All that is said of animations.
AnimationsOK == AnimationsTypeOK /\ OneAtATime /\ QueueMoves /\ TimersMatch /\ NoZombie /\ HeightRestored

\* And says what was to be shown.
LEMMA GoodSays == ASSUME AnimationsInv PROVE AnimationsOK
<1>1. PICK work, caller : Good(work, caller)
  BY DEF AnimationsInv
<1>2. Shaped(work, caller) /\ AnimTypes /\ AnimOK /\ QueuesOK /\ TokenOK(work, caller) /\ TimersOK(caller)
  BY <1>1 DEF Good, AnimTypes
<1>3. Made \subseteq Ids
  BY <1>2, MadeIds DEF AnimOK, Ids, AnimTypes
<1>4. AnimationsTypeOK
  <2>1. \A e \in Elements :
         /\ queue[e] \in Seq(Ids \cup {INPROGRESS})
         /\ \A i \in DOMAIN queue[e] : queue[e][i] = INPROGRESS => i = 1
         /\ height[e] \in 0..Natural
         /\ delay[e] \in 0..MaxAnims
    BY <1>2 DEF AnimTypes, QueuesOK
  <2>2. timeouts \subseteq Ids /\ timers \in Seq(Ids)
    BY <1>2, <1>3 DEF AnimTypes
  <2>3. \A id \in DOMAIN anim : anim[id].left \in 0..anim[id].duration
    <3> TAKE id \in DOMAIN anim
    <3>1. anim[id] \in Anims /\ anim[id].left <= anim[id].duration
      BY <1>2 DEF AnimOK, Made
    <3> QED BY <3>1 DEF Anims
  <2> QED BY <2>1, <2>2, <2>3 DEF AnimationsTypeOK
<1>5. OneAtATime
  BY <1>2 DEF TokenOK, OneAtATime
<1>6. Quiet => work.kind = "none" /\ caller.kind = "none"
  BY <1>2, Kinds DEF Quiet
<1>7. QueueMoves
  BY <1>2, <1>6 DEF QueueMoves, TokenOK, About, StopsFor
<1>8. TimersMatch
  BY <1>2, <1>6 DEF TimersMatch, TimersOK, Timer, Pending, Made
<1>9. NoZombie
  <2> SUFFICES ASSUME Quiet, NEW i \in DOMAIN timers PROVE anim[timers[i]].state = "pending"
    BY DEF NoZombie
  <2>1. Zombie(caller) = 0 /\ i # 0
    BY <1>2, <1>6 DEF Zombie, AnimTypes
  <2> QED BY <1>2, <2>1 DEF TimersOK, Pending
<1>10. HeightRestored
  BY <1>1 DEF Good, HeightsOK, HeightRestored
<1> QED BY <1>4, <1>5, <1>7, <1>8, <1>9, <1>10 DEF AnimationsOK

\* Animations of an element follow each other, whatever starts, delays, stops
\* and toggles them, from outside or in the function of one that ends: one runs
\* at a time and the queue moves on; the interval runs while there are timers,
\* which are those of the animations that run; and an element of which nothing
\* is remembered has its own height (jquery.js, dequeue, Animation, fx.tick and
\* stop).
THEOREM AnimationsFollowEachOther ==
  ASSUME DurationsAssumption, Liberties = {}
  PROVE  AnimationsSpec => []AnimationsOK
<1>1. AnimationsInit => AnimationsInv
  BY InitGood DEF AnimationsInv
<1>2. AnimationsInv /\ [AnimationsNext]_animationsVars => AnimationsInv'
  BY NextGood
<1>3. AnimationsInv => AnimationsOK
  BY GoodSays
<1> QED BY <1>1, <1>2, <1>3, PTL DEF AnimationsSpec
===============================================================================
