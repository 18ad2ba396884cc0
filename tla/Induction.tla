----------------------------- MODULE Induction ------------------------------
(***************************************************************************)
(* Induction over the natural numbers for sets, and recursive functions    *)
(* given by a function of the place and the value before.                  *)
(***************************************************************************)
EXTENDS FiniteSetTheorems, TLAPS

\* A set with 0 that has the successor of each of its numbers has them all.  Were n
\* not in it, taking 1 away would map the numbers up to n that are not into each
\* other, but n itself would be hit by none.
LEMMA SetInduction ==
  ASSUME NEW S, 0 \in S, \A m \in Nat : m \in S => m + 1 \in S
  PROVE  \A n \in Nat : n \in S
<1>1. SUFFICES ASSUME NEW n \in Nat, n \notin S PROVE FALSE
  OBVIOUS
<1> DEFINE T == {k \in 0 .. n : k \notin S}
           f == [k \in T |-> k - 1]
<1>2. IsFiniteSet(T)
  <2>1. IsFiniteSet(0 .. n) /\ T \in SUBSET (0 .. n)
    BY FS_Interval
  <2>2. QED
    BY <2>1, FS_Subset
<1>3. f \in [T -> T]
  <2>1. SUFFICES ASSUME NEW k \in T PROVE k - 1 \in T
    OBVIOUS
  <2>2. k \in Nat /\ k <= n /\ k # 0
    OBVIOUS
  <2>3. k - 1 \in Nat /\ (k - 1) + 1 = k
    BY <2>2
  <2>4. QED
    BY <2>1, <2>2, <2>3
<1>4. f \in Injection(T, T)
  <2>1. ASSUME NEW k \in T, NEW l \in T, f[k] = f[l] PROVE k = l
    <3>1. k \in Int /\ l \in Int
      OBVIOUS
    <3>2. QED
      BY <3>1, <2>1
  <2> HIDE DEF f, T
  <2>2. QED
    BY <1>3, <2>1 DEF Injection, IsInjective
<1>5. f \in Surjection(T, T)
  BY <1>2, <1>4, FS_Injection
<1>6. n \in T
  BY <1>1
<1>7. PICK k \in T : f[k] = n
  <2> HIDE DEF f, T
  <2> QED BY <1>5, <1>6 DEF Surjection
<1>8. QED
  BY <1>7

\* f has the value first for 0, and for each other number up to last what step makes
\* of the value before.
Recursive(f, T, first, step, last) ==
  /\ f \in [0 .. last -> T] /\ f[0] = first
  /\ \A n \in 1 .. last : f[n] = step[<<n, f[n - 1]>>]

\* There is such a function.
LEMMA FiniteRecursion ==
  ASSUME NEW T, NEW first \in T, NEW step \in [Nat \X T -> T], NEW last \in Nat
  PROVE  \E f : Recursive(f, T, first, step, last)
<1> DEFINE Is(f, m) == /\ f \in [0 .. m -> T] /\ f[0] = first
                       /\ \A n \in 1 .. m : f[n] = step[<<n, f[n - 1]>>]
           S == {m \in Nat : \E f : Is(f, m)}
<1>1. 0 \in S
  <2>1. Is([n \in 0 .. 0 |-> first], 0)
    OBVIOUS
  <2>2. QED
    BY <2>1
<1>2. ASSUME NEW m \in Nat, m \in S PROVE m + 1 \in S
  <2>1. PICK f : Is(f, m)
    BY <1>2
  <2> DEFINE v == step[<<m + 1, f[m]>>]
             h == [n \in 0 .. m + 1 |-> IF n = m + 1 THEN v ELSE f[n]]
  <2>2. v \in T
    BY <2>1
  <2>3. h \in [0 .. m + 1 -> T]
    <3> HIDE DEF v
    <3>1. ASSUME NEW n \in 0 .. m + 1, n # m + 1 PROVE f[n] \in T
      BY <3>1, <2>1
    <3>2. QED
      BY <3>1, <2>2
  <2>4. h[0] = first
    BY <2>1
  <2>5. ASSUME NEW n \in 1 .. m + 1 PROVE h[n] = step[<<n, h[n - 1]>>]
    <3>1. CASE n = m + 1
      <4>1. h[n] = v /\ h[n - 1] = f[m]
        BY <3>1
      <4>2. QED
        BY <4>1, <3>1
    <3>2. CASE n # m + 1
      <4>1. n \in 1 .. m /\ n - 1 \in 0 .. m /\ n - 1 # m + 1 /\ n - 1 \in 0 .. m + 1
        BY <3>2
      <4>2. h[n] = f[n] /\ h[n - 1] = f[n - 1]
        BY <4>1, <3>2
      <4>3. QED
        BY <4>1, <4>2, <2>1
    <3>3. QED
      BY <3>1, <3>2
  <2>6. Is(h, m + 1)
    <3> HIDE DEF h
    <3>1. QED
      BY <2>3, <2>4, <2>5
  <2>7. QED
    <3> HIDE DEF Is
    <3>1. QED
      BY <2>6
<1>3. last \in S
  <2> HIDE DEF S
  <2>1. QED
    BY <1>1, <1>2, SetInduction
<1>4. PICK f : Is(f, last)
  BY <1>3
<1>5. QED
  BY <1>4 DEF Recursive
=============================================================================
