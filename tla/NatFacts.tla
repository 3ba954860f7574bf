------------------------------ MODULE NatFacts -------------------------------
(***************************************************************************)
(* Facts about the natural numbers: induction, in a form that takes a set   *)
(* and no operator, and \div and %, for the modules that count in words and *)
(* pages.                                                                   *)
(***************************************************************************)
EXTENDS Integers, WellFoundedInduction, TLAPS

\* Quotient and remainder are the only ones.
LEMMA ModUnique ==
  ASSUME NEW n \in Int, NEW p \in Nat \ {0}, NEW q \in Int, NEW r \in 0 .. p - 1,
         n = p * q + r
  PROVE  n % p = r /\ n \div p = q
OBVIOUS

\* Every number has them.
LEMMA DivMod ==
  ASSUME NEW n \in Int, NEW p \in Nat \ {0}
  PROVE  \E q \in Int, r \in 0 .. p - 1 : n = p * q + r /\ n % p = r /\ n \div p = q
<1>1. n \div p \in Int /\ n % p \in 0 .. p - 1
  OBVIOUS
<1>2. n = p * (n \div p) + (n % p)
  OBVIOUS
<1> QED BY <1>1, <1>2, Zenon

\* A number below the modulus is its own remainder.
LEMMA ModSmall ==
  ASSUME NEW p \in Nat \ {0}, NEW r \in 0 .. p - 1
  PROVE  r % p = r
OBVIOUS

\* Counting on by one.
LEMMA ModStep ==
  ASSUME NEW n \in Int, NEW p \in Nat \ {0}
  PROVE  (n + 1) % p = IF n % p = p - 1 THEN 0 ELSE (n % p) + 1
<1>1. PICK q \in Int, r \in 0 .. p - 1 : n = p * q + r /\ n % p = r
  BY DivMod
<1>2. CASE r = p - 1
  <2>1. n + 1 = p * (q + 1) + 0
    BY <1>1, <1>2
  <2>2. (n + 1) % p = 0
    BY <2>1, ModUnique, q + 1 \in Int, 0 \in 0 .. p - 1, n + 1 \in Int
  <2> QED BY <1>1, <1>2, <2>2
<1>3. CASE r # p - 1
  <2>1. n + 1 = p * q + (r + 1) /\ r + 1 \in 0 .. p - 1
    BY <1>1, <1>3
  <2>2. (n + 1) % p = r + 1
    BY <2>1, ModUnique, n + 1 \in Int
  <2> QED BY <1>1, <1>3, <2>2
<1> QED BY <1>2, <1>3

\* Once round.
LEMMA ModAdd ==
  ASSUME NEW n \in Int, NEW p \in Nat \ {0}
  PROVE  (n + p) % p = n % p
<1>1. PICK q \in Int, r \in 0 .. p - 1 : n = p * q + r /\ n % p = r
  BY DivMod
<1>2. n + p = p * (q + 1) + r
  BY <1>1
<1> QED BY <1>1, <1>2, ModUnique, q + 1 \in Int, n + p \in Int

\* Any number of times round.
LEMMA ModShift ==
  ASSUME NEW n \in Int, NEW p \in Nat \ {0}, NEW k \in Int
  PROVE  (n + p * k) % p = n % p
<1>1. PICK q \in Int, r \in 0 .. p - 1 : n = p * q + r /\ n % p = r
  BY DivMod
<1>2. n + p * k = p * (q + k) + r
  BY <1>1
<1>3. n + p * k \in Int /\ q + k \in Int
  <2>1. p * k \in Int
    OBVIOUS
  <2> QED BY <2>1
<1> QED BY <1>1, <1>2, <1>3, ModUnique

\* Less than once round, no two are the same.
LEMMA ModApart ==
  ASSUME NEW s \in Int, NEW i \in Int, NEW j \in Int, NEW p \in Nat \ {0}, i < j, j - i < p
  PROVE  (s + i) % p # (s + j) % p
<1> SUFFICES ASSUME (s + i) % p = (s + j) % p
             PROVE  FALSE
  OBVIOUS
<1>0. s + i \in Int /\ s + j \in Int
  OBVIOUS
<1>1. PICK q1 \in Int, r1 \in 0 .. p - 1 : s + i = p * q1 + r1 /\ (s + i) % p = r1
  BY <1>0, DivMod
<1>2. PICK q2 \in Int, r2 \in 0 .. p - 1 : s + j = p * q2 + r2 /\ (s + j) % p = r2
  BY <1>0, DivMod
<1>3. j - i = p * (q2 - q1)
  BY <1>1, <1>2
<1>4. \A d \in Int : p * d < p => p * d <= 0
  <2> SUFFICES ASSUME NEW d \in Int, p * d < p
               PROVE  p * d <= 0
    OBVIOUS
  <2>1. CASE d <= 0
    BY <2>1
  <2>2. CASE d >= 1
    <3>1. p * d >= p * 1
      BY <2>2
    <3> QED BY <3>1
  <2> QED BY <2>1, <2>2
<1>5. q2 - q1 \in Int
  OBVIOUS
<1> QED BY <1>3, <1>4, <1>5

-----------------------------------------------------------------------------
(* Induction.                                                               *)

LEMMA SmallestNat ==
  ASSUME NEW T \in SUBSET Nat, T # {}
  PROVE  \E n \in T : \A m \in T : n <= m
<1> DEFINE R == {ss \in Nat \X Nat : ss[1] < ss[2]}
<1>1. IsWellFoundedOn(R, Nat)
  BY NatLessThanWellFounded, Zenon DEF OpToRel
<1>2. PICK n \in T : \A m \in T : <<m, n>> \notin R
  <2> HIDE DEF R
  <2> QED BY <1>1, WFMin
<1>3. \A m \in T : ~(m < n)
  BY <1>2
<1> QED BY <1>3

\* What holds of 0 and passes from each number to the next holds up to n: S is
\* the set of the numbers of which it holds.
LEMMA Induction ==
  ASSUME NEW n \in Nat, NEW S, 0 \in S, \A k \in 0 .. n - 1 : k \in S => k + 1 \in S
  PROVE  0 .. n \subseteq S
<1> SUFFICES ASSUME (0 .. n) \ S # {}
             PROVE  FALSE
  OBVIOUS
<1>1. PICK k \in (0 .. n) \ S : \A m \in (0 .. n) \ S : k <= m
  <2>1. (0 .. n) \ S \in SUBSET Nat
    OBVIOUS
  <2> QED BY <2>1, SmallestNat
<1>2. k - 1 \in 0 .. n - 1 /\ k - 1 \notin (0 .. n) \ S
  BY <1>1
<1> QED BY <1>1, <1>2
===============================================================================
