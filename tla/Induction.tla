------------------------------- MODULE Induction -------------------------------
(***************************************************************************)
(* Induction for sets that are given, in place of the library's theorems,  *)
(* which take the formula to prove as a parameter: to prove P(n) for all n,*)
(* take the set of the n that satisfy it.  And what follows for recursive  *)
(* functions of the community modules: what FlattenSeq makes of a sequence *)
(* that is one longer, and how a sum over a set changes with one of its    *)
(* terms.                                                                  *)
(***************************************************************************)
EXTENDS SequencesExt, FiniteSetTheorems, TLAPS

(* A set of natural numbers has a least one: of the intervals that end in  *)
(* the set, finite subsets of Nat, one contains no other.                  *)
LEMMA LeastNat ==
  ASSUME NEW S, S \subseteq Nat, S # {}
  PROVE  \E n \in S : \A m \in S : n <= m
<1> DEFINE T == {0 .. n : n \in S}
           R == StrictSubsetOrdering(Nat)
<1>1. T \subseteq FiniteSubsetsOf(Nat)
  <2> SUFFICES ASSUME NEW n \in S PROVE 0 .. n \in FiniteSubsetsOf(Nat)
    OBVIOUS
  <2>1. IsFiniteSet(0 .. n)
    BY FS_Interval
  <2>2. 0 .. n \subseteq Nat
    OBVIOUS
  <2> QED BY <2>1, <2>2 DEF FiniteSubsetsOf
<1>2. T # {}
  OBVIOUS
<1>3. IsWellFoundedOn(R, FiniteSubsetsOf(Nat))
  BY FS_StrictSubsetOrderingWellFounded
<1> HIDE DEF T, R
<1>4. PICK x \in T : \A y \in T : ~(<<y, x>> \in R)
  BY <1>1, <1>2, <1>3, WFMin
<1>5. PICK n \in S : x = 0 .. n
  BY DEF T
<1>6. ASSUME NEW m \in S, m < n PROVE FALSE
  <2>1. 0 .. m \in T
    BY DEF T
  <2>2. 0 .. m \subseteq 0 .. n
    BY <1>6
  <2>3. 0 .. m # 0 .. n
    <3>1. n \in 0 .. n /\ n \notin 0 .. m
      BY <1>6
    <3> QED BY <3>1
  <2> DEFINE p == <<0 .. m, 0 .. n>>
  <2>4. p \in (SUBSET Nat) \X (SUBSET Nat) /\ p[1] = 0 .. m /\ p[2] = 0 .. n
    OBVIOUS
  <2> HIDE DEF p
  <2>5. p \in R
    BY <2>2, <2>3, <2>4 DEF StrictSubsetOrdering, R
  <2> QED BY <2>1, <2>5, <1>4, <1>5 DEF p
<1>7. ASSUME NEW m \in S PROVE n <= m
  <2>1. n \in Nat /\ m \in Nat /\ ~(m < n)
    BY <1>6
  <2> QED BY <2>1
<1> QED BY <1>7

(* The natural numbers are in every set that holds 0 and, with a number,   *)
(* the next one.                                                           *)
LEMMA NatSetInduction ==
  ASSUME NEW S, 0 \in S, \A n \in Nat : n \in S => n + 1 \in S
  PROVE  Nat \subseteq S
<1> SUFFICES ASSUME Nat \ S # {} PROVE FALSE
  OBVIOUS
<1>1. PICK n \in Nat \ S : \A m \in Nat \ S : n <= m
  BY LeastNat
<1>2. n # 0 /\ n - 1 \in Nat \ (Nat \ S)
  BY <1>1
<1> QED BY <1>1, <1>2

-----------------------------------------------------------------------------
(* Iteration: r[n] is what n steps make of e.                              *)
Iterates(e, step, r) == r = [k \in Nat |-> IF k = 0 THEN e ELSE step[r[k - 1]]]
IteratesTo(e, step, r, n) ==
  r = [k \in 0 .. n |-> IF k = 0 THEN e ELSE step[r[k - 1]]]

(* There are n steps.                                                      *)
LEMMA StepsExist ==
  ASSUME NEW e, NEW step
  PROVE  \A n \in Nat : \E r : IteratesTo(e, step, r, n)
<1> DEFINE S == {n \in Nat : \E r : IteratesTo(e, step, r, n)}
<1>1. 0 \in S
  <2> DEFINE r == [k \in 0 .. 0 |-> e]
  <2>1. r = [k \in 0 .. 0 |-> IF k = 0 THEN e ELSE step[r[k - 1]]]
    OBVIOUS
  <2> HIDE DEF r
  <2>2. IteratesTo(e, step, r, 0)
    BY <2>1 DEF IteratesTo
  <2> QED BY <2>2
<1>2. ASSUME NEW n \in Nat, n \in S PROVE n + 1 \in S
  <2>1. PICK r : IteratesTo(e, step, r, n)
    BY <1>2
  <2> DEFINE q == [k \in 0 .. n + 1 |-> IF k = n + 1 THEN step[r[n]] ELSE r[k]]
  <2>2. \A k \in 0 .. n : r[k] = IF k = 0 THEN e ELSE step[r[k - 1]]
    BY <2>1 DEF IteratesTo
  <2>3. \A k \in 0 .. n + 1 : q[k] = IF k = 0 THEN e ELSE step[q[k - 1]]
    <3> SUFFICES ASSUME NEW k \in 0 .. n + 1
                 PROVE  q[k] = IF k = 0 THEN e ELSE step[q[k - 1]]
      OBVIOUS
    <3>1. k # 0 => k - 1 \in 0 .. n + 1 /\ k - 1 # n + 1 /\ q[k - 1] = r[k - 1]
      OBVIOUS
    <3>2. CASE k = n + 1
      <4>1. q[k] = step[r[n]] /\ k - 1 = n /\ k # 0
        BY <3>2
      <4> QED BY <3>1, <4>1
    <3>3. CASE k # n + 1
      <4>1. k \in 0 .. n /\ q[k] = r[k]
        BY <3>3
      <4> QED BY <2>2, <3>1, <4>1
    <3> QED BY <3>2, <3>3
  <2>4. q = [k \in 0 .. n + 1 |-> q[k]]
    OBVIOUS
  <2> HIDE DEF q
  <2>5. IteratesTo(e, step, q, n + 1)
    BY <2>3, <2>4 DEF IteratesTo
  <2> QED BY <2>5
<1> HIDE DEF S
<1>3. Nat \subseteq S
  BY <1>1, <1>2, NatSetInduction
<1> QED BY <1>3 DEF S

(* The first steps are the same whatever comes after them.                 *)
LEMMA StepsAgree ==
  ASSUME NEW e, NEW step, NEW n \in Nat, NEW q, NEW r,
         IteratesTo(e, step, q, n), IteratesTo(e, step, r, n + 1)
  PROVE  \A k \in 0 .. n : q[k] = r[k]
<1> DEFINE S == {k \in Nat : k \in 0 .. n => q[k] = r[k]}
<1>1. /\ \A k \in 0 .. n : q[k] = IF k = 0 THEN e ELSE step[q[k - 1]]
      /\ \A k \in 0 .. n + 1 : r[k] = IF k = 0 THEN e ELSE step[r[k - 1]]
  BY DEF IteratesTo
<1>2. 0 \in S
  BY <1>1
<1>3. ASSUME NEW k \in Nat, k \in S PROVE k + 1 \in S
  <2> SUFFICES ASSUME k + 1 \in 0 .. n PROVE q[k + 1] = r[k + 1]
    OBVIOUS
  <2>1. k + 1 # 0 /\ k + 1 - 1 = k /\ k \in 0 .. n /\ k + 1 \in 0 .. n + 1
    OBVIOUS
  <2>2. q[k] = r[k]
    BY <1>3, <2>1
  <2>3. q[k + 1] = step[q[k]] /\ r[k + 1] = step[r[k]]
    BY <1>1, <2>1
  <2> QED BY <2>2, <2>3
<1> HIDE DEF S
<1>4. Nat \subseteq S
  BY <1>2, <1>3, NatSetInduction
<1> QED BY <1>4 DEF S

(* There is a sequence of steps without an end.                            *)
LEMMA IterationExists ==
  ASSUME NEW e, NEW step
  PROVE  \E r : Iterates(e, step, r)
<1> DEFINE F(n) == CHOOSE r : IteratesTo(e, step, r, n)
           r == [n \in Nat |-> F(n)[n]]
<1>1. \A n \in Nat : IteratesTo(e, step, F(n), n)
  BY StepsExist
<1> HIDE DEF F
<1>2. ASSUME NEW k \in Nat PROVE r[k] = IF k = 0 THEN e ELSE step[r[k - 1]]
  <2>1. \A i \in 0 .. k : F(k)[i] = IF i = 0 THEN e ELSE step[F(k)[i - 1]]
    BY <1>1 DEF IteratesTo
  <2>2. F(k)[k] = IF k = 0 THEN e ELSE step[F(k)[k - 1]]
    BY <2>1
  <2>3. CASE k # 0
    <3>1. k - 1 \in Nat /\ k - 1 + 1 = k /\ k - 1 \in 0 .. k - 1
      BY <2>3
    <3>2. /\ IteratesTo(e, step, F(k - 1), k - 1)
          /\ IteratesTo(e, step, F(k), k - 1 + 1)
      BY <1>1, <3>1
    <3>3. F(k - 1)[k - 1] = F(k)[k - 1]
      BY <3>1, <3>2, StepsAgree
    <3> QED BY <2>2, <2>3, <3>1, <3>3
  <2>4. CASE k = 0
    BY <2>2, <2>4
  <2> QED BY <2>3, <2>4
<1>3. r = [k \in Nat |-> r[k]]
  OBVIOUS
<1> HIDE DEF r
<1>4. Iterates(e, step, r)
  BY <1>2, <1>3 DEF Iterates
<1> QED BY <1>4

(* What the steps stay in.                                                 *)
LEMMA IterationStays ==
  ASSUME NEW S, NEW r, r[0] \in S, \A n \in Nat : r[n] \in S => r[n + 1] \in S
  PROVE  \A n \in Nat : r[n] \in S
<1> DEFINE N == {n \in Nat : r[n] \in S}
<1>1. 0 \in N /\ \A n \in Nat : n \in N => n + 1 \in N
  OBVIOUS
<1> HIDE DEF N
<1>2. Nat \subseteq N
  BY <1>1, NatSetInduction
<1> QED BY <1>2 DEF N

-----------------------------------------------------------------------------
(* FlattenSeq.                                                             *)

(* The recursive function of FlattenSeq.                                   *)
Flattens(s, f, n) == f = [i \in 1 .. n |-> IF i = 1 THEN s[i] ELSE f[i - 1] \o s[i]]

(* One element at a time.                                                  *)
LEMMA FlatAt ==
  ASSUME NEW s, NEW f, NEW n, Flattens(s, f, n)
  PROVE  \A i \in 1 .. n : f[i] = IF i = 1 THEN s[i] ELSE f[i - 1] \o s[i]
BY DEF Flattens

(* There is such a function.                                               *)
LEMMA FlatExists ==
  ASSUME NEW s
  PROVE  \A n \in Nat : \E f : Flattens(s, f, n)
<1> DEFINE S == {n \in Nat : \E f : Flattens(s, f, n)}
<1>1. 0 \in S
  <2> DEFINE f == [i \in 1 .. 0 |-> s]
  <2>1. Flattens(s, f, 0)
    BY DEF Flattens
  <2> QED BY <2>1
<1>2. ASSUME NEW n \in Nat, n \in S PROVE n + 1 \in S
  <2>1. PICK f : Flattens(s, f, n)
    BY <1>2
  <2> DEFINE g == [i \in 1 .. n + 1 |-> IF i \in 1 .. n THEN f[i]
                                       ELSE IF i = 1 THEN s[i] ELSE f[i - 1] \o s[i]]
  <2>2. \A i \in 1 .. n : f[i] = IF i = 1 THEN s[i] ELSE f[i - 1] \o s[i]
    BY <2>1 DEF Flattens
  <2>3. \A i \in 1 .. n + 1 : g[i] = IF i = 1 THEN s[i] ELSE g[i - 1] \o s[i]
    <3> SUFFICES ASSUME NEW i \in 1 .. n + 1
                 PROVE  g[i] = IF i = 1 THEN s[i] ELSE g[i - 1] \o s[i]
      OBVIOUS
    <3>1. i # 1 => i - 1 \in 1 .. n /\ i - 1 \in 1 .. n + 1
      OBVIOUS
    <3>2. i # 1 => g[i - 1] = f[i - 1]
      BY <3>1
    <3>3. CASE i \in 1 .. n
      BY <2>2, <3>2, <3>3
    <3>4. CASE i \notin 1 .. n
      BY <3>2, <3>4
    <3> QED BY <3>3, <3>4
  <2>4. g = [i \in 1 .. n + 1 |-> g[i]]
    OBVIOUS
  <2> HIDE DEF g
  <2>5. Flattens(s, g, n + 1)
    BY <2>3, <2>4 DEF Flattens
  <2> QED BY <2>5
<1> HIDE DEF S
<1>3. Nat \subseteq S
  BY <1>1, <1>2, NatSetInduction
<1> QED BY <1>3 DEF S

(* What it has after n sequences depends on those n only.                  *)
LEMMA FlatAgree ==
  ASSUME NEW s, NEW t, NEW f, NEW g, NEW n \in Nat, NEW m \in Nat, n <= m,
         Flattens(s, f, n), Flattens(t, g, m), \A i \in 1 .. n : s[i] = t[i]
  PROVE  \A i \in 1 .. n : f[i] = g[i]
<1> DEFINE S == {k \in Nat : k \in 1 .. n => f[k] = g[k]}
<1>1. 0 \in S
  OBVIOUS
<1>2. ASSUME NEW k \in Nat, k \in S PROVE k + 1 \in S
  <2> SUFFICES ASSUME k + 1 \in 1 .. n PROVE f[k + 1] = g[k + 1]
    OBVIOUS
  <2>1. /\ f[k + 1] = IF k + 1 = 1 THEN s[k + 1] ELSE f[k + 1 - 1] \o s[k + 1]
        /\ g[k + 1] = IF k + 1 = 1 THEN t[k + 1] ELSE g[k + 1 - 1] \o t[k + 1]
    <3>1. k + 1 \in 1 .. m
      OBVIOUS
    <3> QED BY <3>1, FlatAt
  <2>2. k + 1 # 1 => f[k + 1 - 1] = g[k + 1 - 1]
    BY <1>2
  <2> QED BY <2>1, <2>2
<1> HIDE DEF S
<1>3. Nat \subseteq S
  BY <1>1, <1>2, NatSetInduction
<1> QED BY <1>3 DEF S

(* It has sequences over T after each of them.                             *)
LEMMA FlatType ==
  ASSUME NEW T, NEW s, NEW f, NEW n \in Nat, Flattens(s, f, n), \A i \in 1 .. n : s[i] \in Seq(T)
  PROVE  \A i \in 1 .. n : f[i] \in Seq(T)
<1> DEFINE S == {k \in Nat : k \in 1 .. n => f[k] \in Seq(T)}
<1>1. 0 \in S
  OBVIOUS
<1>2. ASSUME NEW k \in Nat, k \in S PROVE k + 1 \in S
  <2> SUFFICES ASSUME k + 1 \in 1 .. n PROVE f[k + 1] \in Seq(T)
    OBVIOUS
  <2>1. f[k + 1] = IF k + 1 = 1 THEN s[k + 1] ELSE f[k + 1 - 1] \o s[k + 1]
    BY FlatAt
  <2>2. k + 1 # 1 => f[k + 1 - 1] \in Seq(T)
    BY <1>2
  <2>3. s[k + 1] \in Seq(T)
    OBVIOUS
  <2>4. CASE k + 1 = 1
    BY <2>1, <2>3, <2>4
  <2>5. CASE k + 1 # 1
    <3> DEFINE a == f[k + 1 - 1]
               b == s[k + 1]
    <3>1. a \in Seq(T) /\ b \in Seq(T) /\ f[k + 1] = a \o b
      BY <2>1, <2>2, <2>3, <2>5
    <3> HIDE DEF a, b
    <3> QED BY <3>1
  <2> QED BY <2>4, <2>5
<1> HIDE DEF S
<1>3. Nat \subseteq S
  BY <1>1, <1>2, NatSetInduction
<1> QED BY <1>3 DEF S

(* FlattenSeq is what it has after the last one.                           *)
LEMMA FlattenIs ==
  ASSUME NEW s, Len(s) \in Nat
  PROVE  /\ Len(s) = 0 => FlattenSeq(s) = s
         /\ Len(s) # 0 => \E f : Flattens(s, f, Len(s)) /\ FlattenSeq(s) = f[Len(s)]
<1>1. CASE Len(s) = 0
  BY <1>1 DEF FlattenSeq
<1>2. CASE Len(s) # 0
  <2> DEFINE F == CHOOSE f : f = [i \in 1 .. Len(s) |-> IF i = 1 THEN s[i] ELSE f[i - 1] \o s[i]]
  <2>1. FlattenSeq(s) = F[Len(s)]
    BY <1>2 DEF FlattenSeq
  <2>2. \E f : f = [i \in 1 .. Len(s) |-> IF i = 1 THEN s[i] ELSE f[i - 1] \o s[i]]
    BY FlatExists DEF Flattens
  <2>3. F = [i \in 1 .. Len(s) |-> IF i = 1 THEN s[i] ELSE F[i - 1] \o s[i]]
    BY <2>2
  <2> HIDE DEF F
  <2>4. Flattens(s, F, Len(s))
    BY <2>3 DEF Flattens
  <2> QED BY <1>2, <2>1, <2>4
<1> QED BY <1>1, <1>2

(* The last one is appended.                                               *)
LEMMA FlatLast ==
  ASSUME NEW s, NEW f, NEW n \in Nat, n \in 1 .. n, n # 1, Flattens(s, f, n)
  PROVE  f[n] = f[n - 1] \o s[n]
BY FlatAt, ZenonT(60)

(* A sequence with one more sequence t[m] at its end.                      *)
LEMMA FlattenLonger ==
  ASSUME NEW s, NEW t, NEW n \in Nat, NEW m \in Nat, n = m - 1, n # 0, Len(s) = n, Len(t) = m,
         \A i \in 1 .. n : s[i] = t[i]
  PROVE  FlattenSeq(t) = FlattenSeq(s) \o t[m]
<1>0. n \in 1 .. n /\ m \in 1 .. m /\ n <= m /\ m # 1 /\ m # 0
  OBVIOUS
<1>1. PICK f : Flattens(s, f, n) /\ FlattenSeq(s) = f[n]
  BY FlattenIs
<1>2. PICK g : Flattens(t, g, m) /\ FlattenSeq(t) = g[m]
  BY <1>0, FlattenIs
<1>3. g[m] = g[m - 1] \o t[m]
  BY <1>0, <1>2, FlatLast
<1>4. \A i \in 1 .. n : f[i] = g[i]
  BY <1>0, <1>1, <1>2, FlatAgree
<1> QED BY <1>0, <1>1, <1>2, <1>3, <1>4

(* A sequence of one sequence.                                             *)
LEMMA FlattenOne ==
  ASSUME NEW t, Len(t) = 1
  PROVE  FlattenSeq(t) = t[1]
<1>1. \E g : Flattens(t, g, Len(t)) /\ FlattenSeq(t) = g[Len(t)]
  <2>1. Len(t) \in Nat /\ Len(t) # 0
    OBVIOUS
  <2> QED BY <2>1, FlattenIs, Zenon
<1>2. PICK g : Flattens(t, g, 1) /\ FlattenSeq(t) = g[1]
  BY <1>1
<1> QED BY <1>2, FlatAt

(* FlattenSeq, one element more.                                           *)
LEMMA FlattenNext ==
  ASSUME NEW T, NEW s, NEW t, NEW n, NEW m, s \in Seq(Seq(T)), n \in Nat, m \in Nat,
         n = m - 1, Len(s) = n, Len(t) = m, \A i \in 1 .. n : s[i] = t[i], t[m] \in Seq(T)
  PROVE  FlattenSeq(t) = FlattenSeq(s) \o t[m]
<1>1. CASE n = 0
  <2>1. FlattenSeq(s) = s /\ s = <<>>
    BY <1>1, FlattenIs
  <2>2. Len(t) = 1 /\ m = 1
    BY <1>1
  <2>3. FlattenSeq(t) = t[m]
    BY <2>2, FlattenOne
  <2>4. <<>> \o t[m] = t[m]
    OBVIOUS
  <2> QED BY <2>1, <2>3, <2>4
<1>2. CASE n # 0
  BY <1>2, FlattenLonger
<1> QED BY <1>1, <1>2

(* FlattenSeq of sequences over T is a sequence over T.                    *)
LEMMA FlattenType ==
  ASSUME NEW T, NEW s \in Seq(Seq(T))
  PROVE  FlattenSeq(s) \in Seq(T)
<1>1. Len(s) \in Nat /\ \A i \in 1 .. Len(s) : s[i] \in Seq(T)
  OBVIOUS
<1>2. CASE Len(s) = 0
  <2>1. FlattenSeq(s) = s
    BY <1>1, <1>2, FlattenIs
  <2>2. s = <<>>
    BY <1>2
  <2> QED BY <2>1, <2>2
<1>3. CASE Len(s) # 0
  <2>1. PICK f : Flattens(s, f, Len(s)) /\ FlattenSeq(s) = f[Len(s)]
    BY <1>1, <1>3, FlattenIs
  <2>2. \A i \in 1 .. Len(s) : f[i] \in Seq(T)
    BY <1>1, <2>1, FlatType
  <2>3. Len(s) \in 1 .. Len(s)
    BY <1>1, <1>3
  <2> QED BY <2>1, <2>2, <2>3
<1> QED BY <1>2, <1>3

-----------------------------------------------------------------------------
(* Sums over a set.                                                        *)

(* The recursive function of MapThenSumSet.                                *)
Chosen(s) == CHOOSE x \in s : TRUE
Plus(f, iter, s) == IF s = {} THEN 0 ELSE f[Chosen(s)] + iter[s \ {Chosen(s)}]
Sums(f, S, iter) == iter = [s \in SUBSET S |-> Plus(f, iter, s)]

(* It is one of the set.                                                   *)
LEMMA ChosenIs == ASSUME NEW s, s # {} PROVE Chosen(s) \in s
BY DEF Chosen

(* One term at a time.                                                     *)
LEMMA SumAt ==
  ASSUME NEW f, NEW S, NEW iter, Sums(f, S, iter)
  PROVE  \A s \in SUBSET S : iter[s] = Plus(f, iter, s)
BY DEF Sums

(* Induction over the subsets of a finite set.                             *)
LEMMA SubsetInduction ==
  ASSUME NEW S, IsFiniteSet(S), NEW G, {} \in G,
         \A s \in SUBSET S : s # {} /\ (\A x \in s : s \ {x} \in G) => s \in G
  PROVE  SUBSET S \subseteq G
<1> DEFINE N == {n \in Nat : \A s \in SUBSET S : Cardinality(s) = n => s \in G}
<1>1. 0 \in N
  <2>1. ASSUME NEW s \in SUBSET S, Cardinality(s) = 0 PROVE s \in G
    <3>1. IsFiniteSet(s)
      BY FS_Subset
    <3>2. s = {}
      BY <2>1, <3>1, FS_EmptySet
    <3> QED BY <3>2
  <2> QED BY <2>1
<1>2. ASSUME NEW n \in Nat, n \in N PROVE n + 1 \in N
  <2>1. ASSUME NEW s \in SUBSET S, Cardinality(s) = n + 1 PROVE s \in G
    <3>1. IsFiniteSet(s)
      BY FS_Subset
    <3>2. s # {}
      BY <2>1, FS_EmptySet
    <3>3. ASSUME NEW x \in s PROVE s \ {x} \in G
      <4>1. Cardinality(s \ {x}) = n
        <5>1. Cardinality(s \ {x}) = Cardinality(s) - 1
          BY <3>1, FS_RemoveElement
        <5> QED BY <5>1, <2>1
      <4>2. s \ {x} \in SUBSET S
        OBVIOUS
      <4> QED BY <1>2, <4>1, <4>2
    <3> QED BY <3>2, <3>3
  <2>2. n + 1 \in Nat
    OBVIOUS
  <2> QED BY <2>1, <2>2
<1>3. \A n \in Nat : n \in N
  <2>1. N \subseteq Nat
    OBVIOUS
  <2> HIDE DEF N
  <2> QED BY <1>1, <1>2, <2>1, NatSetInduction
<1> SUFFICES ASSUME NEW s \in SUBSET S PROVE s \in G
  OBVIOUS
<1>4. IsFiniteSet(s)
  BY FS_Subset
<1>5. Cardinality(s) \in Nat
  BY <1>4, FS_CardinalityType
<1> QED BY <1>3, <1>5

(* Such a function exists: the subsets of one more element each are added. *)
LEMMA SumExists ==
  ASSUME NEW f, NEW S, IsFiniteSet(S)
  PROVE  \E iter : Sums(f, S, iter)
<1> DEFINE Upto(n, it) == /\ it = [s \in SUBSET S |-> it[s]]
                          /\ \A s \in SUBSET S : Cardinality(s) <= n => it[s] = Plus(f, it, s)
           N == {n \in Nat : \E it : Upto(n, it)}
<1>0. \A s \in SUBSET S : IsFiniteSet(s) /\ Cardinality(s) \in Nat
  BY FS_Subset, FS_CardinalityType
<1>a. ASSUME NEW s \in SUBSET S, s # {}, NEW x, x = Chosen(s)
      PROVE  x \in s /\ s \ {x} \in SUBSET S /\ Cardinality(s \ {x}) = Cardinality(s) - 1
  <2>1. x \in s
    BY <1>a, ChosenIs
  <2> QED BY <1>0, <2>1, FS_RemoveElement
<1>1. 0 \in N
  <2> DEFINE it == [s \in SUBSET S |-> 0]
  <2>1. \A s \in SUBSET S : Cardinality(s) <= 0 => s = {}
    BY <1>0, FS_EmptySet
  <2>2. \A s \in SUBSET S : Cardinality(s) <= 0 => it[s] = Plus(f, it, s)
    BY <2>1 DEF Plus
  <2>3. it = [s \in SUBSET S |-> it[s]]
    OBVIOUS
  <2>4. Upto(0, it)
    BY <2>2, <2>3
  <2> HIDE DEF it
  <2> QED BY <2>4
<1>2. ASSUME NEW n \in Nat, n \in N PROVE n + 1 \in N
  <2>1. PICK it : Upto(n, it)
    BY <1>2
  <2> DEFINE jt == [s \in SUBSET S |-> IF Cardinality(s) = n + 1 THEN Plus(f, it, s) ELSE it[s]]
  <2>2. ASSUME NEW s \in SUBSET S, Cardinality(s) <= n + 1 PROVE jt[s] = Plus(f, jt, s)
    <3>1. CASE s = {}
      <4>1. Cardinality(s) = 0
        BY <3>1, FS_EmptySet
      <4>2. Cardinality(s) # n + 1
        BY <4>1
      <4>3. jt[s] = it[s]
        BY <4>2
      <4>4. it[s] = Plus(f, it, s)
        <5>1. Cardinality(s) <= n
          BY <4>1
        <5> QED BY <2>1, <5>1
      <4> QED BY <3>1, <4>3, <4>4 DEF Plus
    <3>2. CASE s # {}
      <4> DEFINE x == Chosen(s)
      <4>1. x \in s /\ s \ {x} \in SUBSET S /\ Cardinality(s \ {x}) = Cardinality(s) - 1
        BY <1>a, <3>2
      <4>2. Cardinality(s) \in Nat
        BY <1>0
      <4>3. jt[s \ {x}] = it[s \ {x}]
        BY <2>2, <4>1, <4>2
      <4>4. jt[s] = Plus(f, it, s)
        <5>1. CASE Cardinality(s) = n + 1
          BY <5>1
        <5>2. CASE Cardinality(s) <= n
          BY <2>1, <4>2, <5>2
        <5> QED BY <2>2, <4>2, <5>1, <5>2
      <4> HIDE DEF jt
      <4> QED BY <3>2, <4>3, <4>4 DEF Plus
    <3> QED BY <3>1, <3>2
  <2>3. jt = [s \in SUBSET S |-> jt[s]]
    OBVIOUS
  <2>4. Upto(n + 1, jt)
    BY <2>2, <2>3
  <2>5. n + 1 \in Nat
    OBVIOUS
  <2> HIDE DEF jt, Upto
  <2> QED BY <2>4, <2>5
<1>3. Cardinality(S) \in N
  <2>1. \A n \in Nat : n \in N => n + 1 \in N
    BY <1>2
  <2>2. Cardinality(S) \in Nat
    BY FS_CardinalityType
  <2> HIDE DEF N
  <2> QED BY <1>1, <2>1, <2>2, NatSetInduction
<1>4. PICK it : Upto(Cardinality(S), it)
  BY <1>3
<1>5. \A s \in SUBSET S : it[s] = Plus(f, it, s)
  BY <1>4, FS_Subset
<1>6. it = [s \in SUBSET S |-> it[s]]
  BY <1>4
<1> QED BY <1>5, <1>6 DEF Sums

(* A sum of integers, and another one that differs in one term.            *)
LEMMA SumChanged ==
  ASSUME NEW S, IsFiniteSet(S), NEW f, NEW g, NEW a, NEW b, Sums(f, S, a), Sums(g, S, b),
         NEW k, \A i \in S : f[i] \in Int /\ g[i] \in Int,
         \A i \in S \ {k} : f[i] = g[i]
  PROVE  /\ a[S] \in Int
         /\ k \in S => b[S] = a[S] + (g[k] - f[k])
         /\ k \notin S => b[S] = a[S]
<1> DEFINE d == IF k \in S THEN g[k] - f[k] ELSE 0
           G == {s \in SUBSET S : /\ a[s] \in Int
                                  /\ b[s] = a[s] + (IF k \in s THEN d ELSE 0)}
<1>1. {} \in G
  <2>1. a[{}] = 0 /\ b[{}] = 0
    BY SumAt DEF Plus
  <2> QED BY <2>1
<1>2. ASSUME NEW s \in SUBSET S, s # {}, \A x \in s : s \ {x} \in G PROVE s \in G
  <2> DEFINE x == Chosen(s)
  <2>1. x \in s
    BY <1>2, ChosenIs
  <2>2. a[s] = f[x] + a[s \ {x}] /\ b[s] = g[x] + b[s \ {x}]
    BY <1>2, SumAt DEF Plus
  <2>3. /\ a[s \ {x}] \in Int
        /\ b[s \ {x}] = a[s \ {x}] + (IF k \in s \ {x} THEN d ELSE 0)
    BY <1>2, <2>1
  <2>4. f[x] \in Int /\ g[x] \in Int /\ (x # k => f[x] = g[x])
    BY <2>1
  <2> HIDE DEF x
  <2>5. CASE x = k
    BY <2>1, <2>2, <2>3, <2>4, <2>5
  <2>6. CASE x # k
    <3>1. k \in s \ {x} <=> k \in s
      BY <2>6
    <3>2. d \in Int
      OBVIOUS
    <3> HIDE DEF d
    <3> QED BY <2>2, <2>3, <2>4, <2>6, <3>1, <3>2
  <2> QED BY <2>5, <2>6
<1>3. S \in G
  <2>1. \A s \in SUBSET S : s # {} /\ (\A x \in s : s \ {x} \in G) => s \in G
    BY <1>2
  <2> HIDE DEF G
  <2> QED BY <1>1, <2>1, SubsetInduction
<1> QED BY <1>3

(* A sum of nothing but zeros.                                             *)
LEMMA SumZero ==
  ASSUME NEW S, IsFiniteSet(S), NEW f, NEW a, Sums(f, S, a), \A i \in S : f[i] = 0
  PROVE  a[S] = 0
<1> DEFINE G == {s \in SUBSET S : a[s] = 0}
<1>1. {} \in G
  BY SumAt DEF Plus
<1>2. ASSUME NEW s \in SUBSET S, s # {}, \A x \in s : s \ {x} \in G PROVE s \in G
  <2> DEFINE x == Chosen(s)
  <2>1. x \in s
    BY <1>2, ChosenIs
  <2>2. a[s] = f[x] + a[s \ {x}]
    BY <1>2, SumAt DEF Plus
  <2> QED BY <1>2, <2>1, <2>2
<1>3. S \in G
  <2>1. \A s \in SUBSET S : s # {} /\ (\A x \in s : s \ {x} \in G) => s \in G
    BY <1>2
  <2> HIDE DEF G
  <2> QED BY <1>1, <2>1, SubsetInduction
<1> QED BY <1>3

(* The sum of f over S, as MapThenSumSet has it.                           *)
Total(f, S) == CHOOSE n : \E a : Sums(f, S, a) /\ n = a[S]

(* It is the one that any such recursive function ends with.               *)
LEMMA TotalIs ==
  ASSUME NEW S, IsFiniteSet(S), NEW f, \A i \in S : f[i] \in Int,
         NEW a, Sums(f, S, a)
  PROVE  Total(f, S) = a[S]
<1>1. ASSUME NEW b, Sums(f, S, b) PROVE b[S] = a[S]
  <2> DEFINE k == S
  <2>1. k \notin S \/ k \in S
    OBVIOUS
  <2>2. /\ a[S] \in Int
        /\ k \in S => b[S] = a[S] + (f[k] - f[k])
        /\ k \notin S => b[S] = a[S]
    BY <1>1, SumChanged
  <2> HIDE DEF k
  <2>3. CASE k \in S
    <3>1. f[k] \in Int
      BY <2>3
    <3> QED BY <2>2, <2>3, <3>1
  <2> QED BY <2>2, <2>3
<1>2. \E n : \E b : Sums(f, S, b) /\ n = b[S]
  OBVIOUS
<1>3. \E b : Sums(f, S, b) /\ Total(f, S) = b[S]
  BY <1>2 DEF Total
<1> QED BY <1>1, <1>3

(* Changing one term changes the sum by as much.                           *)
LEMMA TotalChanged ==
  ASSUME NEW S, IsFiniteSet(S), NEW f, NEW g, NEW k,
         \A i \in S : f[i] \in Int /\ g[i] \in Int,
         \A i \in S \ {k} : f[i] = g[i]
  PROVE  /\ Total(f, S) \in Int
         /\ k \in S => Total(g, S) = Total(f, S) + (g[k] - f[k])
         /\ k \notin S => Total(g, S) = Total(f, S)
<1>1. PICK a : Sums(f, S, a)
  BY SumExists
<1>2. PICK b : Sums(g, S, b)
  BY SumExists
<1>3. Total(f, S) = a[S] /\ Total(g, S) = b[S]
  BY <1>1, <1>2, TotalIs
<1>4. /\ a[S] \in Int
      /\ k \in S => b[S] = a[S] + (g[k] - f[k])
      /\ k \notin S => b[S] = a[S]
  BY <1>1, <1>2, SumChanged
<1> QED BY <1>3, <1>4

(* The sum of zeros is zero.                                               *)
LEMMA TotalZero ==
  ASSUME NEW S, IsFiniteSet(S), NEW f, \A i \in S : f[i] = 0
  PROVE  Total(f, S) = 0
<1>1. PICK a : Sums(f, S, a)
  BY SumExists
<1>2. Total(f, S) = a[S] /\ a[S] = 0
  BY <1>1, TotalIs, SumZero
<1> QED BY <1>2

(* The sum of natural numbers is one; with a positive sum a term is.       *)
LEMMA TotalPositive ==
  ASSUME NEW S, IsFiniteSet(S), NEW f, \A i \in S : f[i] \in Nat
  PROVE  /\ Total(f, S) \in Nat
         /\ Total(f, S) > 0 => \E i \in S : f[i] > 0
<1>1. PICK a : Sums(f, S, a)
  BY SumExists
<1>2. Total(f, S) = a[S]
  BY <1>1, TotalIs
<1> DEFINE G == {s \in SUBSET S : a[s] \in Nat}
<1>3. {} \in G
  <2>1. {} \in SUBSET S
    OBVIOUS
  <2>2. a[{}] = Plus(f, a, {})
    BY <1>1, <2>1, SumAt
  <2>3. Plus(f, a, {}) = 0
    BY DEF Plus
  <2> QED BY <2>1, <2>2, <2>3
<1>4. ASSUME NEW s \in SUBSET S, s # {}, \A x \in s : s \ {x} \in G PROVE s \in G
  <2> DEFINE x == Chosen(s)
  <2>1. x \in s
    BY <1>4, ChosenIs
  <2>2. a[s] = f[x] + a[s \ {x}]
    BY <1>1, <1>4, SumAt DEF Plus
  <2>3. f[x] \in Nat /\ a[s \ {x}] \in Nat
    BY <1>4, <2>1
  <2> QED BY <2>2, <2>3
<1>5. S \in G
  <2>1. \A s \in SUBSET S : s # {} /\ (\A x \in s : s \ {x} \in G) => s \in G
    BY <1>4
  <2> HIDE DEF G
  <2> QED BY <1>3, <2>1, SubsetInduction
<1>6. Total(f, S) \in Nat
  BY <1>2, <1>5
<1>7. ASSUME \A i \in S : ~(f[i] > 0) PROVE Total(f, S) = 0
  <2>1. \A i \in S : f[i] = 0
    BY <1>7
  <2> QED BY <2>1, TotalZero
<1> QED BY <1>6, <1>7
=============================================================================
