------------------------- MODULE FiniteSumTheorems -------------------------
(***************************************************************************)
(* What SumOf computes, for every finite domain.  Induction over the       *)
(* domain is done with its first-order form: a non-empty family of subsets *)
(* of a finite set has a minimal member (WFMin for the strict-subset       *)
(* ordering).                                                              *)
(***************************************************************************)
EXTENDS FiniteSum, FiniteSetTheorems, TLAPS

\* A non-empty family F of subsets of a finite set has a member with no
\* strict subset in F.
LEMMA MinimalMember ==
  ASSUME NEW S, IsFiniteSet(S), NEW F, F \subseteq SUBSET S, F # {}
  PROVE  \E T \in F : \A U \in F : ~(U \subseteq T /\ U # T)
<1>1. IsWellFoundedOn(StrictSubsetOrdering(S), SUBSET S)
  BY FS_StrictSubsetOrderingWellFounded, FS_FiniteSubsetsOfFinite
<1>2. PICK T \in F : \A U \in F : ~(<<U, T>> \in StrictSubsetOrdering(S))
  BY <1>1, WFMin
<1>3. ASSUME NEW U \in F, U \subseteq T, U # T
      PROVE  FALSE
  <2>1. <<U, T>> \in StrictSubsetOrdering(S)
    BY <1>3 DEF StrictSubsetOrdering
  <2>. QED
    BY <1>2, <2>1
<1>. QED
  BY <1>3

\* Every integer function on a finite set has additive partial sums.
LEMMA AdditiveExists ==
  ASSUME NEW S, IsFiniteSet(S), NEW f \in [S -> Int]
  PROVE  \E g : IsAdditive(g, f, S)
<1>. DEFINE Bad == {T \in SUBSET S : ~\E g : IsAdditive(g, f, T)}
<1>1. SUFFICES ASSUME Bad # {} PROVE FALSE
  <2>1. S \notin Bad => \E g : IsAdditive(g, f, S)
    OBVIOUS
  <2>. QED
    BY <2>1
<1>2. PICK T \in Bad : \A U \in Bad : ~(U \subseteq T /\ U # T)
  <2>1. Bad \subseteq SUBSET S
    OBVIOUS
  <2>. HIDE DEF Bad
  <2>. QED
    BY <1>1, <2>1, MinimalMember
<1>3. CASE T = {}
  <2>1. IsAdditive([U \in SUBSET T |-> 0], f, T)
    BY <1>3 DEF IsAdditive
  <2>. QED
    BY <2>1
<1>4. CASE T # {}
  <2>1. PICK x \in T : TRUE
    BY <1>4
  <2>2. PICK h : IsAdditive(h, f, T \ {x})
    BY <1>2, <2>1
  <2>. DEFINE g == [U \in SUBSET T |-> h[U \ {x}] + (IF x \in U THEN f[x] ELSE 0)]
  <2>3. /\ h \in [SUBSET (T \ {x}) -> Int]
        /\ h[{}] = 0
        /\ \A V \in SUBSET (T \ {x}) : \A y \in V : h[V] = h[V \ {y}] + f[y]
    BY <2>2 DEF IsAdditive
  <2>4. \A U \in SUBSET T : U \ {x} \in SUBSET (T \ {x}) /\ h[U \ {x}] \in Int
    BY <2>3
  <2>5. g \in [SUBSET T -> Int]
    <3>1. f[x] \in Int
      BY <2>1
    <3>2. \A U \in SUBSET T : h[U \ {x}] + (IF x \in U THEN f[x] ELSE 0) \in Int
      BY <2>4, <3>1
    <3>. QED
      BY <3>2
  <2>6. g[{}] = 0
    <3>1. {} \ {x} = {}
      OBVIOUS
    <3>. QED
      BY <2>3, <3>1
  <2>7. ASSUME NEW U \in SUBSET T, NEW y \in U
        PROVE  g[U] = g[U \ {y}] + f[y]
    <3>1. f[x] \in Int /\ f[y] \in Int
      BY <2>1
    <3>2. CASE y = x
      <4>1. (U \ {y}) \ {x} = U \ {x} /\ x \in U /\ x \notin U \ {y}
        BY <3>2
      <4>2. g[U] = h[U \ {x}] + f[x] /\ g[U \ {y}] = h[U \ {x}] + 0
        BY <4>1
      <4>3. h[U \ {x}] \in Int
        BY <2>4
      <4>. HIDE DEF g
      <4>. QED
        BY <3>1, <3>2, <4>2, <4>3
    <3>3. CASE y # x
      <4>1. /\ (U \ {y}) \ {x} = (U \ {x}) \ {y}
            /\ y \in U \ {x}
            /\ x \in U <=> x \in U \ {y}
        BY <3>3
      <4>2. h[U \ {x}] = h[(U \ {y}) \ {x}] + f[y]
        BY <2>3, <2>4, <4>1
      <4>3. /\ g[U] = h[U \ {x}] + (IF x \in U THEN f[x] ELSE 0)
            /\ g[U \ {y}] = h[(U \ {y}) \ {x}] + (IF x \in U THEN f[x] ELSE 0)
        BY <4>1
      <4>4. h[(U \ {y}) \ {x}] \in Int
        BY <2>4
      <4>. QED
        BY <3>1, <4>2, <4>3, <4>4, SMT
    <3>. QED
      BY <3>2, <3>3
  <2>8. IsAdditive(g, f, T)
    BY <2>5, <2>6, <2>7 DEF IsAdditive
  <2>. QED
    BY <2>8
<1>. QED
  BY <1>3, <1>4

\* The recursive partial sums are the additive ones.
LEMMA PartialSumsAdditive ==
  ASSUME NEW S, IsFiniteSet(S), NEW f \in [S -> Int]
  PROVE  IsAdditive(PartialSums(f), f, S)
<1>. DEFINE Eqn(s) == s = [T \in SUBSET DOMAIN f |->
                             IF T = {} THEN 0
                             ELSE f[CHOOSE x \in T : TRUE]
                                  + s[T \ {CHOOSE x \in T : TRUE}]]
            p == PartialSums(f)
<1>1. PICK g : IsAdditive(g, f, S)
  BY AdditiveExists
<1>2. /\ g \in [SUBSET S -> Int]
      /\ g[{}] = 0
      /\ \A T \in SUBSET S : \A x \in T : g[T] = g[T \ {x}] + f[x]
  BY <1>1 DEF IsAdditive
<1>3. Eqn(g)
  <2>1. ASSUME NEW T \in SUBSET S
        PROVE  g[T] = IF T = {} THEN 0
                      ELSE f[CHOOSE x \in T : TRUE]
                           + g[T \ {CHOOSE x \in T : TRUE}]
    <3>1. CASE T = {}
      BY <1>2, <3>1
    <3>2. CASE T # {}
      <4>1. PICK y \in T : y = CHOOSE x \in T : TRUE
        BY <3>2
      <4>2. g[T] = g[T \ {y}] + f[y]
        BY <1>2
      <4>3. T \ {y} \in SUBSET S /\ f[y] \in Int
        OBVIOUS
      <4>4. g[T \ {y}] \in Int
        BY <1>2, <4>3
      <4>. QED
        BY <3>2, <4>1, <4>2, <4>3, <4>4
    <3>. QED
      BY <3>1, <3>2
  <2>. QED
    BY <1>2, <2>1
<1>4. Eqn(p)
  <2>1. p = CHOOSE s : Eqn(s)
    BY DEF PartialSums
  <2>. HIDE DEF p, Eqn
  <2>. QED
    BY <1>3, <2>1
<1>5. p = g
  <2>. DEFINE Diff == {T \in SUBSET S : p[T] # g[T]}
  <2>. HIDE DEF p
  <2>1. p = [T \in SUBSET S |-> p[T]]
    BY <1>4
  <2>2. SUFFICES ASSUME Diff # {} PROVE FALSE
    BY <1>2, <2>1
  <2>3. PICK T \in Diff : \A U \in Diff : ~(U \subseteq T /\ U # T)
    <3>1. Diff \subseteq SUBSET S
      OBVIOUS
    <3>. HIDE DEF Diff
    <3>. QED
      BY <2>2, <3>1, MinimalMember
  <2>4. p[T] = IF T = {} THEN 0
               ELSE f[CHOOSE x \in T : TRUE] + p[T \ {CHOOSE x \in T : TRUE}]
    BY <1>4
  <2>5. T # {}
    BY <1>2, <2>3, <2>4
  <2>6. PICK y \in T : y = CHOOSE x \in T : TRUE
    BY <2>5
  <2>7. p[T \ {y}] = g[T \ {y}]
    BY <2>3, <2>6
  <2>8. g[T] = g[T \ {y}] + f[y] /\ g[T \ {y}] \in Int /\ f[y] \in Int
    BY <1>2, <2>3, <2>6
  <2>. QED
    BY <2>3, <2>4, <2>5, <2>6, <2>7, <2>8
<1>. QED
  BY <1>1, <1>5

\* Additive partial sums agree on a set where the summed functions agree.
LEMMA AdditiveAgree ==
  ASSUME NEW S, IsFiniteSet(S), NEW f \in [S -> Int], NEW e \in [S -> Int],
         NEW g, IsAdditive(g, f, S), NEW h, IsAdditive(h, e, S),
         NEW R \in SUBSET S, \A x \in R : f[x] = e[x]
  PROVE  g[R] = h[R]
<1>. DEFINE Diff == {T \in SUBSET R : g[T] # h[T]}
<1>1. SUFFICES ASSUME Diff # {} PROVE FALSE
  OBVIOUS
<1>2. IsFiniteSet(R)
  BY FS_Subset
<1>3. PICK T \in Diff : \A U \in Diff : ~(U \subseteq T /\ U # T)
  <2>1. Diff \subseteq SUBSET R
    OBVIOUS
  <2>. HIDE DEF Diff
  <2>. QED
    BY <1>1, <1>2, <2>1, MinimalMember
<1>4. T # {}
  BY <1>3 DEF IsAdditive
<1>5. PICK x \in T : TRUE
  BY <1>4
<1>6. g[T \ {x}] = h[T \ {x}]
  BY <1>3, <1>5
<1>7. T \in SUBSET S /\ f[x] = e[x]
  BY <1>5
<1>8. g[T] = g[T \ {x}] + f[x] /\ h[T] = h[T \ {x}] + e[x]
  BY <1>5, <1>7 DEF IsAdditive
<1>. QED
  BY <1>3, <1>6, <1>7, <1>8

\* The sum of integers is an integer.
LEMMA SumInt ==
  ASSUME NEW S, IsFiniteSet(S), NEW f \in [S -> Int]
  PROVE  SumOf(f) \in Int
<1>. DEFINE g == PartialSums(f)
<1>1. SumOf(f) = g[S]
  BY DEF SumOf
<1>2. IsAdditive(g, f, S)
  BY PartialSumsAdditive
<1>. HIDE DEF g
<1>. QED
  BY <1>1, <1>2 DEF IsAdditive

\* The sum of zeros is zero.
LEMMA SumOfZeros ==
  ASSUME NEW S, IsFiniteSet(S)
  PROVE  SumOf([x \in S |-> 0]) = 0
<1>. DEFINE z == [x \in S |-> 0]
<1>1. IsAdditive([T \in SUBSET S |-> 0], z, S)
  BY DEF IsAdditive
<1>2. IsAdditive(PartialSums(z), z, S)
  BY PartialSumsAdditive
<1>3. PartialSums(z)[S] = [T \in SUBSET S |-> 0][S]
  <2>1. z \in [S -> Int] /\ S \in SUBSET S /\ \A x \in S : z[x] = z[x]
    OBVIOUS
  <2>. HIDE DEF z
  <2>. QED
    BY <1>1, <1>2, <2>1, AdditiveAgree
<1>. QED
  BY <1>3 DEF SumOf

\* Changing one term changes the sum by the difference.
LEMMA SumUpdate ==
  ASSUME NEW S, IsFiniteSet(S), NEW f \in [S -> Int],
         NEW k \in S, NEW v \in Int
  PROVE  SumOf([f EXCEPT ![k] = v]) = SumOf(f) - f[k] + v
<1>. DEFINE e == [f EXCEPT ![k] = v]
            g == PartialSums(f)
            h == PartialSums(e)
<1>1. e \in [S -> Int] /\ e[k] = v /\ \A x \in S \ {k} : e[x] = f[x]
  OBVIOUS
<1>2. DOMAIN f = S /\ DOMAIN e = S
  OBVIOUS
<1>. HIDE DEF e
<1>3. IsAdditive(g, f, S) /\ IsAdditive(h, e, S)
  BY <1>1, PartialSumsAdditive
<1>4. SumOf(f) = g[S] /\ SumOf(e) = h[S]
  BY <1>2 DEF SumOf
<1>. HIDE DEF g, h
<1>5. g[S \ {k}] = h[S \ {k}]
  <2>1. S \ {k} \in SUBSET S /\ \A x \in S \ {k} : f[x] = e[x]
    BY <1>1
  <2>. QED
    BY <1>1, <1>3, <2>1, AdditiveAgree
<1>6. g[S] = g[S \ {k}] + f[k] /\ h[S] = h[S \ {k}] + v
  BY <1>1, <1>3 DEF IsAdditive
<1>7. g[S \ {k}] \in Int /\ f[k] \in Int
  BY <1>3 DEF IsAdditive
<1>8. SumOf(e) = SumOf(f) - f[k] + v
  BY <1>4, <1>5, <1>6, <1>7
<1>. QED
  BY <1>8 DEF e

\* No term of a sum of naturals exceeds the sum.
LEMMA SumBoundsTerm ==
  ASSUME NEW S, IsFiniteSet(S), NEW f \in [S -> Nat], NEW k \in S
  PROVE  f[k] <= SumOf(f)
<1>. DEFINE g == PartialSums(f)
            Neg == {T \in SUBSET S : ~(0 <= g[T])}
<1>1. f \in [S -> Int] /\ DOMAIN f = S
  OBVIOUS
<1>2. IsAdditive(g, f, S)
  BY <1>1, PartialSumsAdditive
<1>3. SumOf(f) = g[S]
  BY <1>1 DEF SumOf
<1>. HIDE DEF g
<1>4. Neg = {}
  <2>1. SUFFICES ASSUME Neg # {} PROVE FALSE
    OBVIOUS
  <2>2. PICK T \in Neg : \A U \in Neg : ~(U \subseteq T /\ U # T)
    <3>1. Neg \subseteq SUBSET S
      OBVIOUS
    <3>. HIDE DEF Neg
    <3>. QED
      BY <2>1, <3>1, MinimalMember
  <2>3. T # {}
    <3>1. g[{}] = 0
      BY <1>2 DEF IsAdditive
    <3>2. SUFFICES ASSUME T = {} PROVE FALSE
      OBVIOUS
    <3>3. g[T] = 0
      BY <3>1, <3>2
    <3>4. ~(0 <= g[T])
      BY <2>2
    <3>. QED
      BY <3>3, <3>4
  <2>4. PICK x \in T : TRUE
    BY <2>3
  <2>5. 0 <= g[T \ {x}] /\ g[T \ {x}] \in Int
    BY <1>2, <2>2, <2>4 DEF IsAdditive
  <2>6. g[T] = g[T \ {x}] + f[x] /\ f[x] \in Nat
    BY <1>2, <2>2, <2>4 DEF IsAdditive
  <2>. QED
    BY <2>2, <2>5, <2>6
<1>5. 0 <= g[S \ {k}] /\ g[S \ {k}] \in Int
  BY <1>2, <1>4 DEF IsAdditive
<1>6. g[S] = g[S \ {k}] + f[k]
  BY <1>2 DEF IsAdditive
<1>. QED
  BY <1>3, <1>5, <1>6
=============================================================================
