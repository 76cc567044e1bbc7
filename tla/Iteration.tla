------------------------------ MODULE Iteration ------------------------------
(***************************************************************************)
(* Induction over the natural numbers, for the proofs about loops: walks   *)
(* of a list, the pieces of a format, the words of a line.  The induction  *)
(* is over a set, the numbers of which something holds, and rests on the   *)
(* fact that inclusion of finite sets is well-founded.                     *)
(***************************************************************************)
EXTENDS Integers, FiniteSetTheorems, TLAPS

(* A set of naturals has a least element: the interval up to it is one     *)
(* that no other includes strictly.                                        *)
LEMMA LeastNatural ==
  ASSUME NEW T \in SUBSET Nat, T # {}
  PROVE  \E m \in T : \A k \in T : m <= k
<1> DEFINE Below == {1..n : n \in T}
           Smaller == StrictSubsetOrdering(Nat)
<1>1. Below \subseteq FiniteSubsetsOf(Nat) /\ Below # {}
  <2>1. ASSUME NEW n \in T PROVE 1..n \in FiniteSubsetsOf(Nat)
    <3>1. n \in Int /\ 1..n \in SUBSET Nat
      OBVIOUS
    <3>2. IsFiniteSet(1..n)
      BY <3>1, FS_Interval
    <3>3. QED
      BY <3>1, <3>2 DEF FiniteSubsetsOf
  <2>2. QED
    BY <2>1
<1> HIDE DEF Below, Smaller
<1>2. IsWellFoundedOn(Smaller, FiniteSubsetsOf(Nat))
  BY FS_StrictSubsetOrderingWellFounded DEF Smaller
<1>3. \E U \in Below : \A V \in Below : ~ (<<V, U>> \in Smaller)
  BY <1>1, <1>2, WFMin
<1>4. PICK m \in T : \A k \in T : ~ (<<1..k, 1..m>> \in Smaller)
  BY <1>3 DEF Below
<1>5. ASSUME NEW k \in T PROVE m <= k
  <2> SUFFICES ASSUME k < m PROVE FALSE
    OBVIOUS
  <2>1. 1..k \in SUBSET Nat /\ 1..m \in SUBSET Nat /\ 1..k \subseteq 1..m
    OBVIOUS
  <2>2. m \in 1..m /\ m \notin 1..k
    OBVIOUS
  <2>3. QED
    BY <1>4, <2>1, <2>2 DEF Smaller, StrictSubsetOrdering
<1>6. QED
  BY <1>4, <1>5

(* What holds at first, and after a step whenever it did before, holds     *)
(* after N steps.                                                          *)
LEMMA InductionUpTo ==
  ASSUME NEW T, NEW first \in Nat, first \in T, NEW N \in Nat,
         \A n \in (first + 1)..N : n - 1 \in T => n \in T
  PROVE  first..N \subseteq T
<1>1. SUFFICES ASSUME (first..N) \ T # {} PROVE FALSE
  OBVIOUS
<1>2. PICK m \in (first..N) \ T : \A k \in (first..N) \ T : m <= k
  <2>1. (first..N) \ T \in SUBSET Nat
    OBVIOUS
  <2>2. QED
    BY <1>1, <2>1, LeastNatural
<1>3. m \in (first + 1)..N /\ m - 1 \in first..N
  BY <1>2
<1>4. QED
  BY <1>2, <1>3

(* What a function defined by recursion does: step[n] leads from the value *)
(* at n - 1 to the value at n.                                             *)
Steps(S, first, N) == [(first + 1)..N -> [S -> S]]

Iterates(f, S, x, first, N, step) ==
    /\ f \in [first..N -> S]
    /\ f[first] = x
    /\ \A n \in (first + 1)..N : f[n] = step[n][f[n - 1]]

(* There is one.                                                           *)
LEMMA IterationExists ==
  ASSUME NEW S, NEW x \in S, NEW first \in Nat, NEW N \in Nat, first <= N,
         NEW step \in Steps(S, first, N)
  PROVE  \E f : Iterates(f, S, x, first, N, step)
<1> DEFINE Done == {k \in 0..N : first <= k => \E f : Iterates(f, S, x, first, k, step)}
<1>1. 0 \in Done /\ 0 \in Nat
  <2>1. SUFFICES ASSUME first = 0 PROVE \E f : Iterates(f, S, x, first, 0, step)
    OBVIOUS
  <2>2. PICK f : f = [n \in 0..0 |-> x]
    OBVIOUS
  <2>3. Iterates(f, S, x, 0, 0, step)
    BY <2>2 DEF Iterates
  <2>4. QED
    BY <2>1, <2>3
<1>2. ASSUME NEW k \in 1..N, k - 1 \in Done PROVE k \in Done
  <2>1. CASE k < first
    BY <2>1
  <2>2. CASE k = first
    <3>1. PICK f : f = [n \in k..k |-> x]
      OBVIOUS
    <3>2. Iterates(f, S, x, k, k, step)
      BY <3>1 DEF Iterates
    <3>3. QED
      BY <2>2, <3>2
  <2>3. CASE k > first
    <3>1. PICK g : Iterates(g, S, x, first, k - 1, step)
      BY <1>2, <2>3
    <3>2. PICK f : f = [n \in first..k |-> IF n = k THEN step[k][g[k - 1]] ELSE g[n]]
      OBVIOUS
    <3>3. \A n \in first..(k - 1) : f[n] = g[n] /\ g[n] \in S
      BY <3>1, <3>2 DEF Iterates
    <3>4. f[k] = step[k][g[k - 1]] /\ g[k - 1] \in S /\ k \in (first + 1)..N
      BY <2>3, <3>2, <3>3
    <3>5. f[k] \in S
      BY <3>4 DEF Steps
    <3>6. f \in [first..k -> S]
      <4>1. \A n \in first..k : f[n] \in S
        BY <3>3, <3>5
      <4>2. QED
        BY <3>2, <4>1
    <3>7. f[first] = x
      BY <2>3, <3>1, <3>3 DEF Iterates
    <3>8. ASSUME NEW n \in (first + 1)..k PROVE f[n] = step[n][f[n - 1]]
      <4>1. n - 1 \in first..(k - 1) /\ f[n - 1] = g[n - 1]
        BY <3>3
      <4>2. CASE n = k
        BY <3>4, <4>1, <4>2
      <4>3. CASE n # k
        BY <3>1, <3>3, <4>1, <4>3 DEF Iterates
      <4>4. QED
        BY <4>2, <4>3
    <3>9. Iterates(f, S, x, first, k, step)
      BY <3>6, <3>7, <3>8 DEF Iterates
    <3>10. QED
      BY <3>9
  <2>4. QED
    BY <2>1, <2>2, <2>3
<1> HIDE DEF Done
<1>3. N \in Done
  <2>1. 0..N \subseteq Done
    <3>1. \A k \in (0 + 1)..N : k - 1 \in Done => k \in Done
      BY <1>2
    <3>2. QED
      BY <1>1, <3>1, InductionUpTo
  <2>2. QED
    BY <2>1
<1>4. QED
  BY <1>3 DEF Done

=============================================================================
