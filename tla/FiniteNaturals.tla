--------------------------- MODULE FiniteNaturals ---------------------------
(***************************************************************************)
(* Facts about finite sets of naturals the proofs of the other modules     *)
(* need.  Induction is done by a least counterexample, from the library's  *)
(* well-foundedness of < on Nat.                                           *)
(***************************************************************************)
EXTENDS Integers, FiniteSets, FiniteSetsExt, FiniteSetTheorems, FunctionTheorems,
        WellFoundedInduction, TLAPS

\* A non-empty set of naturals has a least element.
LEMMA NatMinimum ==
  ASSUME NEW S \in SUBSET Nat, S # {}
  PROVE \E n \in S : \A m \in S : n <= m
<1> DEFINE R == {ss \in Nat \X Nat : ss[1] < ss[2]}
<1>1. IsWellFoundedOn(R, Nat)
  BY NatLessThanWellFounded DEF OpToRel
<1>2. PICK n \in S : \A m \in S : <<m, n>> \notin R
  <2> HIDE DEF R
  <2> QED BY <1>1, WFMin
<1>3. \A m \in S : ~(m < n)
  BY <1>2
<1> QED BY <1>3

\* Min of FiniteSetsExt is that element; extendProbeGap keeps the least dropped
\* sequence as the first of the gap.
LEMMA MinProperty ==
  ASSUME NEW S \in SUBSET Nat, S # {}
  PROVE Min(S) \in S /\ \A m \in S : Min(S) <= m
BY NatMinimum DEF Min

\* A finite set of naturals is bounded: otherwise one of least cardinality is not,
\* and removing an element of it gives a smaller one.
LEMMA FiniteBounded ==
  ASSUME NEW S \in SUBSET Nat, IsFiniteSet(S)
  PROVE \E b \in Nat : \A s \in S : s <= b
<1> DEFINE Unbounded(Q) == ~ \E b \in Nat : \A s \in Q : s <= b
           T == {n \in Nat : \E Q \in SUBSET Nat :
                    IsFiniteSet(Q) /\ Cardinality(Q) = n /\ Unbounded(Q)}
<1>1. SUFFICES ASSUME T # {} PROVE FALSE
  BY FS_CardinalityType
<1>2. PICK n \in T : \A m \in T : n <= m
  <2> T \in SUBSET Nat OBVIOUS
  <2> HIDE DEF T
  <2> QED BY <1>1, NatMinimum
<1>3. PICK Q \in SUBSET Nat : IsFiniteSet(Q) /\ Cardinality(Q) = n /\ Unbounded(Q)
  BY <1>2
<1>4. PICK x \in Q : TRUE
  BY <1>3
<1>5. IsFiniteSet(Q \ {x}) /\ Cardinality(Q \ {x}) = n - 1 /\ n \in Nat
  BY <1>2, <1>3, <1>4, FS_RemoveElement
<1>6. n - 1 \in Nat
  BY <1>5, FS_CardinalityType
<1>7. n - 1 \notin T
  BY <1>2, <1>5
<1>8. PICK b \in Nat : \A s \in Q \ {x} : s <= b
  BY <1>5, <1>6, <1>7
<1>9. PICK c \in Nat : c >= b /\ c >= x
  BY <1>4, <1>8
<1>10. \A s \in Q : s <= c
  BY <1>8, <1>9
<1> QED BY <1>3, <1>9, <1>10

\* Max of FiniteSetsExt is the greatest element of a finite non-empty set; it is the
\* last sequence of a gap.
LEMMA MaxProperty ==
  ASSUME NEW S \in SUBSET Nat, S # {}, IsFiniteSet(S)
  PROVE Max(S) \in S /\ \A m \in S : Max(S) >= m
<1>1. PICK b \in Nat : \A s \in S : s <= b
  BY FiniteBounded
<1> DEFINE T == {b - s : s \in S}
<1>2. T \in SUBSET Nat /\ T # {}
  <2>1. \A s \in S : b - s \in Nat
    BY <1>1
  <2>2. PICK s \in S : TRUE
    OBVIOUS
  <2>3. b - s \in T
    BY <2>2
  <2> QED BY <2>1, <2>3
<1>3. PICK n \in T : \A m \in T : n <= m
  <2> HIDE DEF T
  <2> QED BY <1>2, NatMinimum
<1>4. PICK x \in S : n = b - x
  BY <1>3
<1>5. \A m \in S : x >= m
  BY <1>3, <1>4
<1> QED BY <1>4, <1>5 DEF Max
\* The values of a Nat-valued function on a finite set form a finite set.
LEMMA FiniteImage ==
  ASSUME NEW S, IsFiniteSet(S), NEW f \in [S -> Nat]
  PROVE  IsFiniteSet({f[x] : x \in S})
<1> DEFINE T == {f[x] : x \in S}
<1>1. f \in Surjection(S, T)
  BY DEF Surjection
<1> QED BY <1>1, FS_Surjection
=============================================================================
