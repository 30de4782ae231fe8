----------------------------- MODULE NatLemmas -----------------------------
(***************************************************************************)
(* Induction over the natural numbers, and the least and the largest       *)
(* element of a set of numbers, for sets in place of predicates: facts     *)
(* about sets can be cited from a proof, facts about operators cannot.     *)
(* They follow from the well-foundedness of inclusion among finite sets.   *)
(***************************************************************************)
EXTENDS Integers, FiniteSets, FiniteSetsExt, FiniteSetTheorems, TLAPS

\* The segments 1..n of the members of a set have a least one.
LEMMA LeastNumber ==
    ASSUME NEW T, T \subseteq Nat, T # {}
    PROVE  \E x \in T : \A y \in T : x <= y
<1> DEFINE Segments == {1 .. n : n \in T}
           R == StrictSubsetOrdering(Nat)
           F == FiniteSubsetsOf(Nat)
<1>1. Segments \subseteq F /\ Segments # {}
  <2>1. \A n \in T : 1 .. n \in SUBSET Nat /\ IsFiniteSet(1 .. n)
    BY FS_Interval
  <2>2. QED
    BY <2>1 DEF FiniteSubsetsOf
<1>2. IsWellFoundedOn(R, F)
  BY FS_StrictSubsetOrderingWellFounded
<1> HIDE DEF R, F, Segments
<1>3. PICK s \in Segments : \A t \in Segments : <<t, s>> \notin R
  BY <1>1, <1>2, WFMin
<1>4. PICK x \in T : s = 1 .. x
  BY DEF Segments
<1>5. \A y \in T : x <= y
  <2> SUFFICES ASSUME NEW y \in T, y < x PROVE FALSE
    OBVIOUS
  <2>1. x \in Nat /\ y \in Nat /\ 1 .. y \in Segments
    BY DEF Segments
  <2>2. (1 .. y) \subseteq (1 .. x) /\ x \in 1 .. x /\ x \notin 1 .. y
    BY <2>1
  <2>3. <<1 .. y, 1 .. x>> \in R
    BY <2>1, <2>2 DEF R, StrictSubsetOrdering
  <2>4. QED
    BY <1>3, <1>4, <2>1, <2>3
<1>6. QED
  BY <1>5

\* A set with 0 and the successor of each of its numbers up to a bound has all
\* numbers up to there.
LEMMA CountUp ==
    ASSUME NEW S, NEW n \in Nat, 0 \in S, \A k \in 0 .. n - 1 : k \in S => k + 1 \in S
    PROVE  0 .. n \subseteq S
<1> DEFINE T == (0 .. n) \ S
<1> SUFFICES ASSUME T # {} PROVE FALSE
  OBVIOUS
<1>1. T \subseteq Nat
  OBVIOUS
<1>2. PICK x \in T : \A y \in T : x <= y
  BY <1>1, LeastNumber
<1>3. x \in 0 .. n /\ x \notin S /\ x # 0
  OBVIOUS
<1>4. x - 1 \in 0 .. n - 1 /\ x - 1 \in 0 .. n /\ x = (x - 1) + 1
  BY <1>3
<1>5. x - 1 \in S
  BY <1>2, <1>4
<1>6. QED
  BY <1>3, <1>4, <1>5

LEMMA MinIs ==
    ASSUME NEW S, S \subseteq Nat, S # {}
    PROVE  Min(S) \in S /\ \A x \in S : Min(S) <= x
BY LeastNumber DEF Min

LEMMA MaxIs ==
    ASSUME NEW S, NEW n \in Nat, S \subseteq 0 .. n, S # {}
    PROVE  Max(S) \in S /\ \A x \in S : x <= Max(S)
<1> DEFINE T == {n - x : x \in S}
<1>1. T \subseteq Nat /\ T # {}
  <2>1. ASSUME NEW x \in S PROVE n - x \in Nat
    BY x \in 0 .. n
  <2>2. QED
    BY <2>1
<1>2. PICK y \in T : \A z \in T : y <= z
  BY <1>1, LeastNumber
<1>3. PICK x \in S : y = n - x
  OBVIOUS
<1>4. ASSUME NEW z \in S PROVE z <= x
  <2>1. n - z \in T /\ z \in 0 .. n /\ x \in 0 .. n
    OBVIOUS
  <2>2. n - x <= n - z
    BY <1>2, <1>3, <2>1
  <2>3. QED
    BY ONLY n \in Nat, <2>1, <2>2
<1>5. QED
  BY <1>4 DEF Max
=============================================================================
