---------------------------- MODULE NaturalSets -----------------------------
(***************************************************************************)
(* Sets of natural numbers: least and greatest members, and induction.     *)
(*                                                                         *)
(* The induction is stated about a set, the numbers for which something    *)
(* holds, so that it can be cited by proofs about any data that are walked *)
(* in order: keys, rows, digits.                                           *)
(***************************************************************************)
EXTENDS Integers, FiniteSetTheorems, WellFoundedInduction, TLAPS

\* A set of natural numbers has a least member.
LEMMA LeastNatural ==
    ASSUME NEW T \in SUBSET Nat, T # {}
    PROVE  \E n \in T : \A m \in T : n <= m
<1> DEFINE R == {r \in Nat \X Nat : r[1] < r[2]}
<1>1. IsWellFoundedOn(R, Nat)
  <2>1. R = OpToRel(<, Nat)
      BY DEF OpToRel
  <2> QED BY <2>1, NatLessThanWellFounded
<1>2. PICK n \in T : \A m \in T : <<m, n>> \notin R
    BY <1>1, WFMin, Zenon
<1>3. ASSUME NEW m \in T
      PROVE  n <= m
  <2>1. <<m, n>> \notin R
      BY <1>2
  <2> QED BY <2>1
<1> QED BY <1>2, <1>3

\* A set of integers with an upper bound has a greatest member, unless it is
\* empty.
LEMMA GreatestInteger ==
    ASSUME NEW T \in SUBSET Int, T # {}, NEW b \in Int, \A n \in T : n <= b
    PROVE  \E n \in T : \A m \in T : m <= n
<1> DEFINE U == {b - n : n \in T}
<1>1. \A n \in T : n \in Int /\ n <= b /\ b - n \in Nat
    OBVIOUS
<1>2. U \in SUBSET Nat /\ U # {}
    BY <1>1
<1>3. PICK u \in U : \A v \in U : u <= v
    BY <1>2, LeastNatural
<1>4. PICK n \in T : u = b - n
    OBVIOUS
<1>5. ASSUME NEW m \in T
      PROVE  m <= n
  <2>1. b - n <= b - m
      BY <1>3, <1>4
  <2> QED BY <1>1, <2>1
<1> QED BY <1>5

\* Induction: a set that holds 0, and n + 1 with every n, holds all numbers.
LEMMA SetInduction ==
    ASSUME NEW S, 0 \in S, \A n \in Nat : n \in S => n + 1 \in S
    PROVE  Nat \subseteq S
<1> SUFFICES ASSUME Nat \ S # {}
             PROVE  FALSE
    OBVIOUS
<1>1. PICK n \in Nat \ S : \A m \in Nat \ S : n <= m
    BY LeastNatural
<1>2. n - 1 \in Nat /\ n - 1 \in S
    BY <1>1
<1> QED BY <1>1, <1>2

\* Integers between two bounds are finitely many.
LEMMA BoundedIsFinite ==
    ASSUME NEW a \in Int, NEW b \in Int, NEW T \in SUBSET (a .. b)
    PROVE  IsFiniteSet(T) /\ Cardinality(T) \in Nat
BY FS_Interval, FS_Subset, FS_CardinalityType

\* f begins with a, and its value at i follows from i and its value at i - 1.
Recurs(f, A, a, step, n) ==
    /\ f \in [0 .. n -> A]
    /\ f[0] = a
    /\ \A i \in 1 .. n : f[i] = step[<<i, f[i - 1]>>]

\* Recursion: there is such a function.
LEMMA Recursion ==
    ASSUME NEW A, NEW a \in A, NEW step \in [Nat \X A -> A], NEW n \in Nat
    PROVE  \E f : Recurs(f, A, a, step, n)
<1> DEFINE S == {m \in Nat : \E f : Recurs(f, A, a, step, m)}
<1>1. 0 \in S
  <2> DEFINE f == [i \in 0 .. 0 |-> a]
  <2>1. Recurs(f, A, a, step, 0)
      BY DEF Recurs
  <2> QED BY <2>1
<1>2. ASSUME NEW m \in Nat, m \in S
      PROVE  m + 1 \in S
  <2>1. PICK f : Recurs(f, A, a, step, m)
      BY <1>2
  <2> DEFINE g == [i \in 0 .. m + 1 |-> IF i = m + 1 THEN step[<<m + 1, f[m]>>] ELSE f[i]]
  <2>2. g \in [0 .. m + 1 -> A]
      BY <2>1 DEF Recurs
  <2>3. ASSUME NEW i \in 1 .. m + 1
        PROVE  g[i] = step[<<i, g[i - 1]>>]
    <3>1. CASE i = m + 1
      <4>1. g[i - 1] = f[m] /\ g[i] = step[<<m + 1, f[m]>>]
          BY <3>1
      <4> QED BY <3>1, <4>1
    <3>2. CASE i # m + 1
      <4>1. i \in 1 .. m
          BY <3>2
      <4>2. g[i] = f[i] /\ g[i - 1] = f[i - 1]
          BY <4>1
      <4> QED BY <2>1, <4>1, <4>2 DEF Recurs
    <3> QED BY <3>1, <3>2
  <2>4. g[0] = a
      BY <2>1 DEF Recurs
  <2> HIDE DEF g
  <2>5. Recurs(g, A, a, step, m + 1)
      BY <2>2, <2>3, <2>4 DEF Recurs
  <2> QED BY <2>5
<1>3. n \in S
  <2> HIDE DEF S
  <2> QED BY <1>1, <1>2, SetInduction
<1> QED BY <1>3

============================================================================
