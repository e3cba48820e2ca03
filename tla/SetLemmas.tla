----------------------------- MODULE SetLemmas -----------------------------
(***************************************************************************)
(* Facts about sets of numbers that the proofs of PageAllocProofs,         *)
(* ProcessProofs, ProcMemProofs, IpcProofs and UserAccessProofs share: the *)
(* scans of the kernel's tables take the first entry that fits, written as *)
(* Min.                                                                    *)
(***************************************************************************)
EXTENDS Integers, FiniteSets, FiniteSetsExt, FiniteSetTheorems, TLAPS

\* A non-empty set of natural numbers has a least element, and Min returns it:
\* a scan that can find an entry finds one that fits.
LEMMA MinIsElement ==
    ASSUME NEW S \in SUBSET Nat, S # {}
    PROVE  Min(S) \in S /\ \A y \in S : Min(S) <= y
<1> DEFINE T == {0..x : x \in S}
           R == StrictSubsetOrdering(Nat)
<1>1. T \subseteq FiniteSubsetsOf(Nat)
  <2>1. \A x \in S : IsFiniteSet(0..x)
    BY FS_Interval
  <2>2. \A x \in S : (0..x) \in SUBSET Nat
    OBVIOUS
  <2> QED
    BY <2>1, <2>2 DEF FiniteSubsetsOf
<1>2. T # {}
  OBVIOUS
<1>3. IsWellFoundedOn(R, FiniteSubsetsOf(Nat))
  BY FS_StrictSubsetOrderingWellFounded
<1>4. \E u \in T : \A v \in T : ~(<<v, u>> \in R)
  <2> HIDE DEF T, R
  <2> QED
    BY <1>1, <1>2, <1>3, WFMin
<1>5. PICK x \in S : \A y \in S : ~(<<0..y, 0..x>> \in R)
  BY <1>4
<1>6. ASSUME NEW y \in S, y < x
      PROVE  FALSE
  <2>1. (0..y) \subseteq (0..x) /\ (0..y) # (0..x)
    BY <1>6
  <2>2. (0..y) \in SUBSET Nat /\ (0..x) \in SUBSET Nat
    OBVIOUS
  <2>3. <<0..y, 0..x>> \in R
    BY <2>1, <2>2 DEF StrictSubsetOrdering
  <2> QED
    BY <2>3, <1>5
<1>7. \A y \in S : x <= y
  BY <1>6
<1> QED
  BY <1>7 DEF Min

\* A set of natural numbers with a bound has a greatest element, and Max returns it.
LEMMA MaxIsElement ==
    ASSUME NEW b \in Nat, NEW S \in SUBSET (0 .. b), S # {}
    PROVE  Max(S) \in S /\ \A y \in S : Max(S) >= y
<1> DEFINE T == {b - x : x \in S}
<1>1. T \in SUBSET Nat /\ T # {}
  <2>1. \A x \in S : b - x \in Nat
    OBVIOUS
  <2>2. T # {}
    <3>1. PICK x \in S : TRUE
      OBVIOUS
    <3>2. b - x \in T
      BY <3>1
    <3> QED
      BY <3>2
  <2> QED
    BY <2>1, <2>2

<1>2. Min(T) \in T /\ \A t \in T : Min(T) <= t
  BY <1>1, MinIsElement
<1>3. PICK x \in S : Min(T) = b - x
  BY <1>2
<1>4. \A y \in S : b - x <= b - y
  BY <1>2, <1>3
<1>5. x \in S /\ \A y \in S : x >= y
  BY <1>4
<1> QED
  BY <1>5 DEF Max
=============================================================================
