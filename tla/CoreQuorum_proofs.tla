-------------------------- MODULE CoreQuorum_proofs --------------------------
(***************************************************************************)
(* Facts about majorities of the quorum that the proofs of the protocols   *)
(* rest on.                                                                *)
(***************************************************************************)
EXTENDS CoreQuorum, FiniteSetTheorems, TLAPS

\* The signers of two aggregated proofs have an honest validator in common:
\* GetQuorumMajority is more than two thirds of the quorum, and less than a
\* third of it is faulty.
LEMMA MajoritiesIntersect ==
    ASSUME NEW S \in SUBSET Honest, NEW T \in SUBSET Honest,
           IsMajority(S), IsMajority(T)
    PROVE  S \cap T # {}
<1> DEFINE A == S \cup Faulty
           B == T \cup Faulty
           n == Cardinality(Quorum)
           f == Cardinality(Faulty)
<1>1. /\ IsFiniteSet(Quorum) /\ IsFiniteSet(A) /\ IsFiniteSet(B)
      /\ IsFiniteSet(Faulty)
      /\ A \subseteq Quorum /\ B \subseteq Quorum
  <2>1. IsFiniteSet(Quorum)
    BY QuorumAssumption, FS_Union DEF Quorum
  <2>2. A \subseteq Quorum /\ B \subseteq Quorum
    BY DEF Quorum
  <2> QED
    BY <2>1, <2>2, FS_Subset, QuorumAssumption
<1>2. n \in Nat /\ f \in Nat /\ 3 * f < n
  BY <1>1, FS_CardinalityType, QuorumAssumption DEF Quorum
<1>3. GetQuorumMajority \in Nat /\ 3 * GetQuorumMajority > 2 * n
  <2> HIDE DEF n, f
  <2>1. (2 * n) \div 3 \in Nat /\ 3 * ((2 * n) \div 3) + 2 >= 2 * n
    BY <1>2
  <2> QED
    BY <1>2, <2>1 DEF GetQuorumMajority, n
<1>4. /\ Cardinality(A) \in Nat /\ Cardinality(A) >= GetQuorumMajority
      /\ Cardinality(B) \in Nat /\ Cardinality(B) >= GetQuorumMajority
  BY <1>1, FS_CardinalityType DEF IsMajority
<1>5. /\ Cardinality(A \cup B) = Cardinality(A) + Cardinality(B)
                                   - Cardinality(A \cap B)
      /\ Cardinality(A \cap B) \in Nat
  BY <1>1, FS_Union, FS_Intersection, FS_CardinalityType
<1>6. Cardinality(A \cup B) \in Nat /\ Cardinality(A \cup B) <= n
  <2>1. A \cup B \subseteq Quorum
    BY <1>1
  <2> QED
    BY <2>1, <1>1, FS_Subset, FS_CardinalityType
<1>7. SUFFICES ASSUME S \cap T = {} PROVE FALSE
  OBVIOUS
<1>8. A \cap B = Faulty
  BY <1>7, QuorumAssumption
<1>9. Cardinality(A \cap B) = f
  BY <1>8
<1> HIDE DEF A, B, n, f
<1> QED
  BY <1>2, <1>3, <1>4, <1>5, <1>6, <1>9

\* Every aggregated proof has an honest signer.
LEMMA MajorityHasHonest ==
    ASSUME NEW S \in SUBSET Honest, IsMajority(S)
    PROVE  S # {}
BY MajoritiesIntersect

\* Whoever has a majority keeps it when more validators sign.
LEMMA MajorityGrows ==
    ASSUME NEW S, NEW T \in SUBSET Honest, S \subseteq T, IsMajority(S)
    PROVE  IsMajority(T)
<1> DEFINE A == S \cup Faulty
           B == T \cup Faulty
<1>1. A \subseteq B /\ B \subseteq Quorum
  BY DEF Quorum
<1>2. IsFiniteSet(Quorum)
  BY QuorumAssumption, FS_Union DEF Quorum
<1>3. IsFiniteSet(A) /\ IsFiniteSet(B)
  BY <1>1, <1>2, FS_Subset
<1>4. Cardinality(A) <= Cardinality(B)
  BY <1>1, <1>3, FS_Subset
<1>5. Cardinality(A) \in Nat /\ Cardinality(B) \in Nat
  BY <1>3, FS_CardinalityType
<1>6. GetQuorumMajority \in Int /\ Cardinality(A) >= GetQuorumMajority
  <2>1. Cardinality(Quorum) \in Nat
    BY <1>2, FS_CardinalityType
  <2> QED
    BY <2>1 DEF IsMajority, GetQuorumMajority
<1>7. Cardinality(B) >= GetQuorumMajority
  <2> HIDE DEF A, B
  <2> QED
    BY <1>4, <1>5, <1>6
<1> QED
  BY <1>7 DEF IsMajority
=============================================================================
