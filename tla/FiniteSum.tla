----------------------------- MODULE FiniteSum -----------------------------
(***************************************************************************)
(* The sum of an integer-valued function over its finite domain.  It is    *)
(* written as a recursive function on the subsets of the domain, so that   *)
(* TLC can evaluate it and FiniteSumTheorems can prove about it.           *)
(***************************************************************************)
EXTENDS Integers, FiniteSets

\* Partial sums of f: one value for every subset of its domain.
PartialSums(f) ==
  LET sums[T \in SUBSET DOMAIN f] ==
        IF T = {}
        THEN 0
        ELSE LET x == CHOOSE x \in T : TRUE
             IN  f[x] + sums[T \ {x}]
  IN  sums

SumOf(f) == PartialSums(f)[DOMAIN f]

\* The partial sums whichever element is taken out first.
IsAdditive(g, f, S) ==
  /\ g \in [SUBSET S -> Int]
  /\ g[{}] = 0
  /\ \A T \in SUBSET S : \A x \in T : g[T] = g[T \ {x}] + f[x]
=============================================================================
