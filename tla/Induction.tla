------------------------------ MODULE Induction ------------------------------
(***************************************************************************)
(* Induction and recursion over the first numbers, in a form whose         *)
(* hypotheses name a set instead of a predicate.                           *)
(***************************************************************************)
EXTENDS Naturals, WellFoundedInduction, TLAPS

NatLess == OpToRel(<, Nat)

LEMMA NatLessIs == NatLess = {p \in Nat \X Nat : p[1] < p[2]}
BY Zenon DEF NatLess, OpToRel

LEMMA NatLessIsWellFounded == IsWellFoundedOn(NatLess, Nat)
BY NatLessThanWellFounded, Zenon DEF NatLess

\* Every set of naturals that is not empty has a least element.
LEMMA LeastNatural ==
    ASSUME NEW T, T \subseteq Nat, T # {}
    PROVE  \E least \in T : \A t \in T : least <= t
<1>1. PICK x \in T : \A y \in T : <<y, x>> \notin NatLess
  BY NatLessIsWellFounded, WFMin, Zenon
<1>2. ASSUME NEW y \in T, y < x PROVE FALSE
  <2>1. <<y, x>> \in NatLess
    BY <1>2, NatLessIs
  <2> QED
    BY <1>1, <2>1
<1> QED
  BY <1>2

\* So a set that holds 0, and with a number below N the next one, has all of
\* 0..N in it.
LEMMA InductionUpTo ==
    ASSUME NEW N \in Nat, NEW T,
           0 \in T, \A n \in 1..N : n - 1 \in T => n \in T
    PROVE  \A n \in 0..N : n \in T
<1> DEFINE bad == {n \in 0..N : n \notin T}
<1>1. SUFFICES ASSUME bad # {} PROVE FALSE
  OBVIOUS
<1>2. PICK n \in bad : \A m \in bad : n <= m
  <2>1. bad \subseteq Nat
    OBVIOUS
  <2> HIDE DEF bad
  <2> QED
    BY <1>1, <2>1, LeastNatural
<1>3. n \in 1..N /\ n - 1 \in 0..N /\ n - 1 \notin bad
  BY <1>2
<1> QED
  BY <1>2, <1>3

\* f goes from `base` by one `step` after the other, N times.
Steps(f, N, base, step) ==
    /\ f[0] = base
    /\ \A n \in 1..N : f[n] = step[<<n, f[n - 1]>>]

\* A function may be defined from each value to the next one.
LEMMA RecursionUpTo ==
    ASSUME NEW N \in Nat, NEW S, NEW base \in S, NEW step \in [(1..N) \X S -> S]
    PROVE  \E f \in [0..N -> S] : Steps(f, N, base, step)
<1> DEFINE T == {k \in 0..N : \E f \in [0..N -> S] : Steps(f, k, base, step)}
<1> USE DEF Steps
<1>1. 0 \in T
  <2> DEFINE f == [n \in 0..N |-> base]
  <2>1. f \in [0..N -> S] /\ f[0] = base /\ 1..0 = {}
    OBVIOUS
  <2> HIDE DEF f
  <2> QED
    BY <2>1
<1>2. ASSUME NEW k \in 1..N, k - 1 \in T PROVE k \in T
  <2>1. PICK f \in [0..N -> S] : Steps(f, k - 1, base, step)
    BY <1>2
  <2> DEFINE g == [f EXCEPT ![k] = step[<<k, f[k - 1]>>]]
  <2>2. f[k - 1] \in S /\ step[<<k, f[k - 1]>>] \in S
    OBVIOUS
  <2>3. g \in [0..N -> S]
    BY <2>2
  <2>4. g[0] = base
    BY <2>1
  <2>5. ASSUME NEW n \in 1..k PROVE g[n] = step[<<n, g[n - 1]>>]
    BY <2>1, <2>5
  <2> HIDE DEF g
  <2> QED
    BY <2>3, <2>4, <2>5
<1>3. N \in T
  <2> HIDE DEF T
  <2> QED
    BY <1>1, <1>2, InductionUpTo
<1> QED
  BY <1>3

=============================================================================
