------------------------------ MODULE Induction ------------------------------
(***************************************************************************)
(* Induction over the natural numbers, and the functions that are defined  *)
(* by it, stated with sets and functions where the library has operators   *)
(* for parameters.  Loops of the code that are recursive functions in the  *)
(* specifications are reasoned about with these.                           *)
(***************************************************************************)
EXTENDS Integers, WellFoundedInduction, TLAPS

\* Some numbers have a least one.
LEMMA LeastNumber ==
    ASSUME NEW T, T \subseteq Nat, T # {}
    PROVE  \E n \in T : \A m \in T : n <= m
<1>1. \E n \in T : \A m \in T : ~ (<<m, n>> \in OpToRel(<, Nat))
    BY NatLessThanWellFounded, WFMin, Zenon
<1>2. PICK n \in T : \A m \in T : ~ (<<m, n>> \in OpToRel(<, Nat))
    BY <1>1, Zenon
<1>3. \A m \in T : m \in Nat /\ n \in Nat
    OBVIOUS
<1>4. \A m \in T : ~ (m < n)
    BY <1>2, <1>3, Zenon DEF OpToRel
<1>5. QED
    BY <1>3, <1>4

\* A set that has 0, and with each number the next one, has all of them: what it
\* lacks would have a least element.
LEMMA InductionInSets ==
    ASSUME NEW T, 0 \in T, \A n \in Nat : n \in T => n + 1 \in T
    PROVE  Nat \subseteq T
<1> SUFFICES ASSUME Nat \ T # {} PROVE FALSE
    OBVIOUS
<1>1. Nat \ T \subseteq Nat
    OBVIOUS
<1>2. PICK n \in Nat \ T : \A m \in Nat \ T : n <= m
    BY <1>1, LeastNumber, Zenon
<1>3. n - 1 \in Nat /\ n = (n - 1) + 1 /\ ~ (n <= n - 1)
    OBVIOUS
<1>4. n - 1 \in T
    BY <1>2, <1>3
<1>5. QED
    BY <1>3, <1>4

\* There is a function whose values are made from a first one, each from the one before.
CanIterate(V, v0, m, step) ==
    \E f \in [0..m -> V] : f[0] = v0 /\ \A i \in 1..m : f[i] = step[i][f[i - 1]]

\* If there is a function for each step, then there is one for all of them.
LEMMA RecursionInSets ==
    ASSUME NEW V, NEW v0 \in V, NEW m \in Nat, NEW step \in [1..m -> [V -> V]]
    PROVE  CanIterate(V, v0, m, step)
<1> DEFINE Defined(n, f) == f[0] = v0 /\ \A i \in 1..n : f[i] = step[i][f[i - 1]]
<1> DEFINE T == {n \in Nat : n <= m => \E f \in [0..n -> V] : Defined(n, f)}
<1>1. 0 \in T
  <2>1. [i \in 0..0 |-> v0] \in [0..0 -> V] /\ Defined(0, [i \in 0..0 |-> v0])
    OBVIOUS
  <2>2. QED
    BY <2>1
<1>2. ASSUME NEW n \in Nat, n \in T PROVE n + 1 \in T
  <2> SUFFICES ASSUME n + 1 <= m
               PROVE  \E f \in [0..(n + 1) -> V] : Defined(n + 1, f)
    OBVIOUS
  <2>1. PICK f \in [0..n -> V] : Defined(n, f)
    BY <1>2
  <2> DEFINE g == [i \in 0..(n + 1) |-> IF i = n + 1 THEN step[n + 1][f[n]] ELSE f[i]]
  <2>2. step[n + 1][f[n]] \in V
    OBVIOUS
  <2>3. g \in [0..(n + 1) -> V]
    BY <2>2
  <2>4. g[0] = v0
    BY <2>1
  <2>5. ASSUME NEW i \in 1..(n + 1) PROVE g[i] = step[i][g[i - 1]]
    <3>1. CASE i = n + 1
      BY <3>1
    <3>2. CASE i # n + 1
      <4>1. i \in 1..n /\ i - 1 \in 0..n
        BY <3>2
      <4>2. QED
        BY <2>1, <4>1
    <3>3. QED
      BY <3>1, <3>2
  <2> HIDE DEF g
  <2>6. QED
    BY <2>3, <2>4, <2>5
<1> HIDE DEF T
<1>3. m \in T
    BY <1>1, <1>2, InductionInSets
<1>4. QED
    BY <1>3 DEF T, CanIterate

=============================================================================
