------------------------------ MODULE NatFacts ------------------------------
(***************************************************************************)
(* Facts about sets of natural numbers the proofs rest on.  Induction is   *)
(* stated of a set: the numbers for which something holds.                 *)
(***************************************************************************)
EXTENDS Integers, WellFoundedInduction, TLAPS

\* A nonempty set of naturals has a least element.
LEMMA Least ==
  ASSUME NEW S \in SUBSET Nat, S # {}
  PROVE  \E x \in S : \A y \in S : x <= y
<1> DEFINE R == OpToRel(<, Nat)
<1>1. \E x \in S : \A y \in S : ~ (<<y, x>> \in R)
  <2>1. IsWellFoundedOn(R, Nat)
    BY NatLessThanWellFounded
  <2> HIDE DEF R
  <2> QED
    BY <2>1, WFMin, Zenon
<1>2. \A x, y \in S : <<y, x>> \in R <=> y < x
  BY DEF OpToRel
<1> HIDE DEF R
<1>3. PICK x \in S : \A y \in S : ~ (<<y, x>> \in R)
  BY <1>1
<1>4. \A y \in S : ~ (y < x)
  BY <1>2, <1>3
<1>5. \A y \in S : x <= y
  BY <1>4
<1> QED
  BY <1>5

\* A nonempty set of naturals with a bound has a greatest element.
LEMMA Greatest ==
  ASSUME NEW S \in SUBSET Nat, S # {}, NEW n \in Nat, \A x \in S : x <= n
  PROVE  \E x \in S : \A y \in S : y <= x
<1> DEFINE T == {n - x : x \in S}
<1>1. T \in SUBSET Nat
  <2>1. \A x \in S : n - x \in Nat
    OBVIOUS
  <2> QED
    BY <2>1
<1>2. T # {}
  OBVIOUS
<1>3. PICK t \in T : \A u \in T : t <= u
  BY <1>1, <1>2, Least
<1>4. PICK x \in S : t = n - x
  OBVIOUS
<1>5. ASSUME NEW y \in S PROVE y <= x
  <2>1. n - y \in T
    OBVIOUS
  <2>2. n - x <= n - y
    BY <1>3, <1>4, <2>1
  <2>3. x \in Int /\ y \in Int /\ n \in Int
    OBVIOUS
  <2> QED
    BY <2>2, <2>3
<1> QED
  BY <1>5

\* A set that has 0, and with each number the next, has them all.
LEMMA Induction ==
  ASSUME NEW S, 0 \in S, \A n \in Nat : n \in S => n + 1 \in S
  PROVE  \A n \in Nat : n \in S
<1> SUFFICES ASSUME NEW m \in Nat, m \notin S PROVE FALSE
  OBVIOUS
<1> DEFINE T == {n \in Nat : n \notin S}
<1>1. PICK t \in T : \A u \in T : t <= u
  BY Least
<1>2. t - 1 \in Nat /\ t - 1 \notin T
  BY <1>1
<1> QED
  BY <1>2

-----------------------------------------------------------------------------
(* Quotients and remainders by a divisor that is not known. *)

\* Quotient and remainder, by their defining equation.
LEMMA DivMod ==
  ASSUME NEW a \in Nat, NEW d \in Nat \ {0}
  PROVE  /\ a \div d \in Nat /\ a % d \in 0..(d - 1)
         /\ a = d * (a \div d) + (a % d)
<1>1. a = d * (a \div d) + (a % d)
  BY Z3
<1>2. a % d \in 0..(d - 1)
  OBVIOUS
<1>3. a \div d \in Nat
  OBVIOUS
<1> QED
  BY <1>1, <1>2, <1>3

\* The equation determines them.
LEMMA DivModUnique ==
  ASSUME NEW d \in Nat \ {0}, NEW q \in Nat, NEW r \in 0..(d - 1),
         NEW p \in Nat, NEW s \in 0..(d - 1), d * q + r = d * p + s
  PROVE  q = p /\ r = s
<1>1. CASE q >= p + 1
  <2>1. d * q >= d * (p + 1)
    BY <1>1
  <2>2. d * q >= d * p + d
    BY <2>1
  <2> QED
    BY <2>2
<1>2. CASE p >= q + 1
  <2>1. d * p >= d * (q + 1)
    BY <1>2
  <2>2. d * p >= d * q + d
    BY <2>1
  <2> QED
    BY <2>2
<1> QED
  BY <1>1, <1>2

\* Whole multiples do not change a remainder.
LEMMA ModPlus ==
  ASSUME NEW d \in Nat \ {0}, NEW a \in Nat, NEW q \in Nat
  PROVE  (a + d * q) % d = a % d /\ (a + d * q) \div d = a \div d + q
<1> DEFINE n == a + d * q
<1>1. n \in Nat
  OBVIOUS
<1>2. a = d * (a \div d) + (a % d) /\ a \div d \in Nat /\ a % d \in 0..(d - 1)
  BY DivMod
<1>3. a \div d + q \in Nat /\ n = d * (a \div d + q) + (a % d)
  BY <1>2
<1> HIDE DEF n
<1>4. n = d * (n \div d) + (n % d) /\ n \div d \in Nat /\ n % d \in 0..(d - 1)
  BY <1>1, DivMod
<1>5. n \div d = a \div d + q /\ n % d = a % d
  <2> DEFINE b == a \div d + q
             r == a % d
             c == n \div d
             s == n % d
  <2>1. /\ b \in Nat /\ c \in Nat /\ r \in 0..(d - 1) /\ s \in 0..(d - 1)
        /\ d * b + r = d * c + s
    BY <1>2, <1>3, <1>4
  <2> HIDE DEF b, r, c, s
  <2>2. b = c /\ r = s
    BY <2>1, DivModUnique
  <2> QED
    BY <2>2 DEF b, r, c, s
<1> QED
  BY <1>5 DEF n
=============================================================================
