------------------------ MODULE EpochHandover_proofs ------------------------
(***************************************************************************)
(* EpochHandover for every quorum, every set of anchors and any number of  *)
(* epochs: executors never run ahead of the handover.                      *)
(***************************************************************************)
EXTENDS EpochHandover, CoreQuorum_proofs

\* What there has to be before there can be a proof.
Founded(x) ==
    /\ x.kind = "aerp" => IsMajority(RotationSigners(x.epoch))
    /\ x.kind = "ack" => x.epoch > 0 /\ HaveAcked(x.epoch - 1)
    /\ x.kind = "ahp" => /\ x.epoch > 0
                         /\ IsMajority({v \in Honest : Ack(x.epoch) \in stored[v]})

\* Wherever a proof is, it is founded.
ProofsAreFounded ==
    /\ \A x \in pod : Founded(x)
    /\ \A n \in Honest : \A x \in stored[n] \cup charge[n] : Founded(x)
    /\ \A e \in pushed : Founded(Ack(e))

\* A handover is about the epoch at the cursor, and its steps are done in order.
HandoverIsFounded(n, h) ==
    /\ h.epoch = cursor[n]
    /\ h.epoch < MaxEpoch
    /\ IsMajority(RotationSigners(h.epoch))
    /\ h.acked => HaveAcked(h.epoch)
    /\ h.step \in {"acked", "sent"} => h.acked
    /\ h.step \in {"stored", "acked", "sent"} => Aerp(h.epoch) \in stored[n]

HandoversAreFounded ==
    \A n \in Honest : \A h \in handover[n] : HandoverIsFounded(n, h)

\* An executor has kept the proofs that it has gone on with.
ExecutorsHaveProofs ==
    \A n \in Honest : \A e \in Epoch : e < executed[n] =>
        /\ Aerp(e) \in stored[n]
        /\ \E later \in Epoch : later > e /\ Ahp(later) \in stored[n]

HandoverInv ==
    /\ TypeOK
    /\ ProofsAreFounded
    /\ HandoversAreFounded
    /\ CursorPassesNothing
    /\ ExecutorsHaveProofs
-----------------------------------------------------------------------------
(* Proofs stay founded *)

\* A majority of the anchors is one when more of them have answered.
LEMMA AnchorsMajorityGrows ==
    ASSUME NEW S, NEW T \in SUBSET HonestAnchor, S \subseteq T,
           IsAnchorsMajority(S)
    PROVE  IsAnchorsMajority(T)
<1> DEFINE A == S \cup FaultyAnchor
           B == T \cup FaultyAnchor
           All == HonestAnchor \cup FaultyAnchor
<1>1. A \subseteq B /\ B \subseteq All
  OBVIOUS
<1>2. IsFiniteSet(All)
  BY HandoverAssumption, FS_Union
<1>3. IsFiniteSet(A) /\ IsFiniteSet(B)
  BY <1>1, <1>2, FS_Subset
<1>4. Cardinality(A) <= Cardinality(B)
  BY <1>1, <1>3, FS_Subset
<1>5. Cardinality(A) \in Nat /\ Cardinality(B) \in Nat /\ Cardinality(All) \in Nat
  BY <1>2, <1>3, FS_CardinalityType
<1>6. AnchorsMajority \in Int /\ Cardinality(A) >= AnchorsMajority
  BY <1>5 DEF IsAnchorsMajority, AnchorsMajority
<1>7. Cardinality(B) >= AnchorsMajority
  <2> HIDE DEF A, B
  <2> QED
    BY <1>4, <1>5, <1>6
<1> QED
  BY <1>7 DEF IsAnchorsMajority

\* All of the anchors, and all of the members, are a majority.
LEMMA AllAreMajorities ==
    IsMajority(Honest) /\ IsAnchorsMajority(HonestAnchor)
<1>1. Cardinality(Honest \cup Faulty) \in Nat
  BY QuorumAssumption, FS_Union, FS_CardinalityType
<1>2. Cardinality(HonestAnchor \cup FaultyAnchor) \in Nat
  BY HandoverAssumption, FS_Union, FS_CardinalityType
<1>3. IsMajority(Honest)
  BY <1>1 DEF IsMajority, GetQuorumMajority, Quorum
<1>4. IsAnchorsMajority(HonestAnchor)
  BY <1>2 DEF IsAnchorsMajority, AnchorsMajority
<1> QED
  BY <1>3, <1>4

\* No step takes back what signatures and acknowledgements rest on.
Grows ==
    /\ \A v \in Honest : rotated[v] <= rotated'[v]
    /\ \A v \in Honest : sequenced[v] <= sequenced'[v]
    /\ \A v \in Honest : stored[v] \subseteq stored'[v]
    /\ \A a \in HonestAnchor : anchored[a] \subseteq anchored'[a]

LEMMA SignersRemain ==
    ASSUME TypeOK, TypeOK', Grows, NEW e \in Epoch,
           IsMajority(RotationSigners(e))
    PROVE  IsMajority(RotationSigners(e))'
<1> DEFINE S == RotationSigners(e)
           T == {v \in Honest : sequenced'[v] > e /\ rotated'[v] > e}
<1>1. S \subseteq T
  BY DEF RotationSigners, Grows, TypeOK, Epoch
<1>2. T \in SUBSET Honest
  OBVIOUS
<1>3. IsMajority(T)
  <2> HIDE DEF S, T
  <2> QED
    BY <1>1, <1>2, MajorityGrows DEF S
<1> QED
  BY <1>3 DEF RotationSigners, IsMajority

LEMMA AcksRemain ==
    ASSUME Grows, NEW e, HaveAcked(e)
    PROVE  HaveAcked(e)'
<1> DEFINE S == {a \in HonestAnchor : e \in anchored[a]}
           T == {a \in HonestAnchor : e \in anchored'[a]}
<1>1. S \subseteq T /\ T \in SUBSET HonestAnchor
  BY DEF Grows
<1>2. IsAnchorsMajority(T)
  <2>1. IsAnchorsMajority(S)
    BY DEF HaveAcked
  <2> HIDE DEF S, T
  <2> QED
    BY <1>1, <2>1, AnchorsMajorityGrows
<1> QED
  BY <1>2 DEF HaveAcked, IsAnchorsMajority, AnchorsMajority

LEMMA FoundedRemains ==
    ASSUME TypeOK, TypeOK', Grows, NEW x \in Proof, Founded(x)
    PROVE  Founded(x)'
<1>1. x.epoch \in Epoch
  BY DEF Proof
<1>2. CASE x.kind = "aerp"
  BY <1>1, <1>2, SignersRemain DEF Founded
<1>3. CASE x.kind = "ack"
  BY <1>3, AcksRemain DEF Founded
<1>4. CASE x.kind = "ahp"
  <2> DEFINE S == {v \in Honest : Ack(x.epoch) \in stored[v]}
             T == {v \in Honest : Ack(x.epoch) \in stored'[v]}
  <2>1. S \subseteq T /\ T \in SUBSET Honest
    BY DEF Grows
  <2>2. IsMajority(S) /\ x.epoch > 0
    BY <1>4 DEF Founded
  <2>3. IsMajority(T)
    <3> HIDE DEF S, T
    <3> QED
      BY <2>1, <2>2, MajorityGrows
  <2> QED
    BY <1>4, <2>2, <2>3 DEF Founded, IsMajority
<1> QED
  BY <1>2, <1>3, <1>4 DEF Founded, Proof

\* A step that adds founded proofs only keeps all of them founded.
SoundProofs == {x \in Proof : Founded(x)}

LEMMA FoundedProofsAdded ==
    ASSUME HandoverInv, TypeOK', Grows,
           \A n \in Honest : stored'[n] \subseteq stored[n] \cup SoundProofs,
           \A n \in Honest : charge'[n] \subseteq charge[n] \cup SoundProofs,
           pod' \subseteq pod \cup SoundProofs,
           \A e \in pushed' \ pushed : Ack(e) \in SoundProofs
    PROVE  ProofsAreFounded'
<1>1. \A x \in Proof : Founded(x) => Founded(x)'
  BY FoundedRemains DEF HandoverInv
<1>2. /\ pod \subseteq Proof
      /\ pushed \subseteq Epoch
      /\ \A n \in Honest : stored[n] \subseteq Proof /\ charge[n] \subseteq Proof
  BY DEF HandoverInv, TypeOK, Pod!DeliveryTypeOK
<1>3. \A x \in pod' : Founded(x)'
  BY <1>1, <1>2 DEF HandoverInv, ProofsAreFounded, SoundProofs
<1>4. \A n \in Honest : \A x \in stored'[n] \cup charge'[n] : Founded(x)'
  BY <1>1, <1>2 DEF HandoverInv, ProofsAreFounded, SoundProofs
<1>5. \A e \in pushed' : Founded(Ack(e))'
  <2> SUFFICES ASSUME NEW e \in pushed' PROVE Founded(Ack(e))'
    OBVIOUS
  <2>1. CASE e \in pushed
    <3>1. Ack(e) \in Proof /\ Founded(Ack(e))
      BY <2>1, <1>2 DEF HandoverInv, ProofsAreFounded, Ack, Proof
    <3> QED
      BY <3>1, <1>1
  <2>2. CASE e \notin pushed
    BY <2>2, <1>1 DEF SoundProofs
  <2> QED
    BY <2>1, <2>2
<1> QED
  BY <1>3, <1>4, <1>5 DEF ProofsAreFounded

\* The proofs that a handover is about.
LEMMA HandoverProofs ==
    ASSUME HandoverInv, NEW n \in Honest, NEW h \in handover[n]
    PROVE  /\ Aerp(h.epoch) \in SoundProofs
           /\ h.acked \/ h.step \in {"acked", "sent"} =>
                  Ack(h.epoch + 1) \in SoundProofs
<1>1. HandoverIsFounded(n, h)
  BY DEF HandoverInv, HandoversAreFounded
<1>2. h \in [epoch : Epoch, step : Steps, acked : BOOLEAN]
  BY DEF HandoverInv, TypeOK
<1>3. h.epoch \in Epoch /\ h.epoch + 1 \in Epoch /\ (h.epoch + 1) - 1 = h.epoch
      /\ h.epoch + 1 > 0
  BY <1>1, <1>2, HandoverAssumption DEF HandoverIsFounded, Epoch
<1>4. Aerp(h.epoch) \in SoundProofs
  BY <1>1, <1>3 DEF HandoverIsFounded, SoundProofs, Founded, Aerp, Proof
<1>5. ASSUME h.acked \/ h.step \in {"acked", "sent"}
      PROVE  Ack(h.epoch + 1) \in SoundProofs
  BY <1>1, <1>3, <1>5 DEF HandoverIsFounded, SoundProofs, Founded, Ack, Proof
<1> QED
  BY <1>4, <1>5

\* What is available somewhere is founded, and a proof.
LEMMA AvailableIsFounded ==
    ASSUME HandoverInv, NEW x, IsAvailable(x)
    PROVE  x \in SoundProofs
BY DEF SoundProofs, HandoverInv, ProofsAreFounded, IsAvailable, TypeOK, Pod!DeliveryTypeOK
-----------------------------------------------------------------------------
(* The invariant *)

LEMMA InvInit == Init => HandoverInv
<1> SUFFICES ASSUME Init PROVE HandoverInv
  OBVIOUS
<1> USE DEF Init, Epoch
<1>1. TypeOK
  <2>1. FirstProofs \in SUBSET Proof
    BY HandoverAssumption DEF FirstProofs, Proof, Aerp, Ack, Ahp
  <2>2. 0 .. FirstEpoch - 1 \in SUBSET Epoch
    BY HandoverAssumption
  <2>3. 0 \in Epoch /\ FirstEpoch \in Epoch
    BY HandoverAssumption
  <2> HIDE DEF Epoch
  <2>4. handover \in [Honest -> SUBSET
            [epoch : Epoch, step : Steps, acked : BOOLEAN]]
    OBVIOUS
  <2>5. stored \in [Honest -> SUBSET Proof] /\ Pod!DeliveryTypeOK
    BY <2>1 DEF Pod!DeliveryTypeOK, Pod!DeliveryInit
  <2>6. anchored \in [HonestAnchor -> SUBSET Epoch]
    BY <2>2
  <2> QED
    BY <2>3, <2>4, <2>5, <2>6 DEF TypeOK
<1>2. \A e \in Epoch : e < FirstEpoch => IsMajority(RotationSigners(e))
  <2> SUFFICES ASSUME NEW e \in Epoch, e < FirstEpoch
               PROVE  IsMajority(RotationSigners(e))
    OBVIOUS
  <2>1. RotationSigners(e) = Honest
    BY DEF RotationSigners
  <2> QED
    BY <2>1, AllAreMajorities
<1>3. \A e \in Epoch : e < FirstEpoch => HaveAcked(e)
  <2> SUFFICES ASSUME NEW e \in Epoch, e < FirstEpoch PROVE HaveAcked(e)
    OBVIOUS
  <2>1. {a \in HonestAnchor : e \in anchored[a]} = HonestAnchor
    BY HandoverAssumption
  <2> QED
    BY <2>1, AllAreMajorities DEF HaveAcked
<1>4. \A e \in Epoch : e > 0 /\ e <= FirstEpoch =>
         IsMajority({v \in Honest : Ack(e) \in stored[v]})
  <2> SUFFICES ASSUME NEW e \in Epoch, e > 0, e <= FirstEpoch
               PROVE  IsMajority({v \in Honest : Ack(e) \in stored[v]})
    OBVIOUS
  <2>1. e \in 1 .. FirstEpoch
    BY HandoverAssumption
  <2>2. {v \in Honest : Ack(e) \in stored[v]} = Honest
    BY <2>1 DEF FirstProofs
  <2> QED
    BY <2>2, AllAreMajorities
<1>5. \A x \in FirstProofs : Founded(x)
  <2>1. \A e \in 0 .. FirstEpoch - 1 : Founded(Aerp(e))
    BY <1>2, HandoverAssumption DEF Founded, Aerp
  <2>2. \A e \in 1 .. FirstEpoch : Founded(Ack(e))
    BY <1>3, HandoverAssumption DEF Founded, Ack
  <2>3. \A e \in 1 .. FirstEpoch : Founded(Ahp(e))
    BY <1>4, HandoverAssumption DEF Founded, Ahp
  <2> QED
    BY <2>1, <2>2, <2>3 DEF FirstProofs
<1>6. ProofsAreFounded
  BY <1>5 DEF ProofsAreFounded, Pod!DeliveryInit
<1>7. HandoversAreFounded /\ CursorPassesNothing
  BY DEF HandoversAreFounded, CursorPassesNothing
<1>8. ExecutorsHaveProofs
  <2> SUFFICES ASSUME NEW n \in Honest, NEW e \in Epoch, e < executed[n]
               PROVE  /\ Aerp(e) \in stored[n]
                      /\ \E later \in Epoch : later > e /\ Ahp(later) \in stored[n]
    BY DEF ExecutorsHaveProofs
  <2>1. e \in 0 .. FirstEpoch - 1 /\ FirstEpoch \in 1 .. FirstEpoch
    BY HandoverAssumption
  <2>2. Aerp(e) \in stored[n] /\ Ahp(FirstEpoch) \in stored[n]
    BY <2>1 DEF FirstProofs
  <2> QED
    BY <2>1, <2>2, HandoverAssumption
<1> QED
  BY <1>1, <1>6, <1>7, <1>8 DEF HandoverInv

LEMMA SetHandoverType ==
    ASSUME TypeOK, NEW n \in Honest, NEW e \in Epoch, NEW step \in Steps,
           NEW acked \in BOOLEAN, SetHandover(n, e, step, acked)
    PROVE  handover' \in [Honest -> SUBSET
               [epoch : Epoch, step : Steps, acked : BOOLEAN]]
<1> DEFINE h == [epoch |-> e, step |-> step, acked |-> acked]
           H == [epoch : Epoch, step : Steps, acked : BOOLEAN]
<1>1. h \in H
  OBVIOUS
<1>2. handover \in [Honest -> SUBSET H] /\ handover' = [handover EXCEPT ![n] = {h}]
  BY DEF TypeOK, SetHandover
<1> HIDE DEF h, H
<1>3. handover' \in [Honest -> SUBSET H]
  BY <1>1, <1>2
<1> QED
  BY <1>3 DEF H

\* What is known of the handover that a node is working on.
LEMMA HandoverType ==
    ASSUME HandoverInv, NEW n \in Honest, NEW h \in handover[n]
    PROVE  /\ h.epoch \in Epoch /\ h.epoch + 1 \in Epoch
           /\ h.acked \in BOOLEAN
           /\ Aerp(h.epoch) \in Proof /\ Ack(h.epoch + 1) \in Proof
<1>1. h \in [epoch : Epoch, step : Steps, acked : BOOLEAN]
  BY DEF HandoverInv, TypeOK
<1>2. h.epoch \in Epoch /\ h.acked \in BOOLEAN /\ h.epoch < MaxEpoch
  BY <1>1 DEF HandoverInv, HandoversAreFounded, HandoverIsFounded
<1>3. h.epoch + 1 \in Epoch
  BY <1>2, HandoverAssumption DEF Epoch
<1> QED
  BY <1>2, <1>3 DEF Proof, Aerp, Ack

LEMMA HandoverStepTypes ==
    ASSUME HandoverInv, NEW n \in Honest, NEW h \in handover[n],
           NEW step \in Steps, SetHandover(n, h.epoch, step, h.acked),
           NEW x \in Proof,
           \/ Store(n, {x}) /\ UNCHANGED <<pod, charge>>
           \/ Pod!Take(n, x) /\ UNCHANGED stored,
           UNCHANGED <<rotated, sequenced, executed, cursor, anchored, pushed,
                       mishap>>
    PROVE  TypeOK' /\ Grows
<1>1. TypeOK
  BY DEF HandoverInv
<1>2. handover' \in [Honest -> SUBSET
          [epoch : Epoch, step : Steps, acked : BOOLEAN]]
  BY <1>1, HandoverType, SetHandoverType
<1>3. /\ stored' \in [Honest -> SUBSET Proof]
      /\ pod' \subseteq Proof
      /\ charge' \in [Honest -> SUBSET Proof]
      /\ \A v \in Honest : stored[v] \subseteq stored'[v]
  BY <1>1 DEF TypeOK, Pod!DeliveryTypeOK, Store, Pod!Take
<1>4. TypeOK'
  BY <1>1, <1>2, <1>3 DEF TypeOK, Pod!DeliveryTypeOK
<1>5. Grows
  BY <1>1, <1>3 DEF TypeOK, Grows, Epoch
<1> QED
  BY <1>4, <1>5

\* What a node stores is added to what it has.
LEMMA StoringAdds ==
    ASSUME TypeOK, NEW n \in Honest, NEW e \in Epoch, Store(n, {Ack(e)}),
           UNCHANGED <<rotated, sequenced, executed, cursor, handover, anchored,
                       pushed, mishap, pod, charge>>
    PROVE  TypeOK' /\ Grows
<1>1. Ack(e) \in Proof
  BY DEF Ack, Proof
<1>2. stored \in [Honest -> SUBSET Proof]
  BY DEF TypeOK
<1>3. /\ stored' \in [Honest -> SUBSET Proof]
      /\ \A v \in Honest : stored[v] \subseteq stored'[v]
  BY <1>1, <1>2 DEF Store
<1>4. TypeOK'
  BY <1>3 DEF TypeOK, Pod!DeliveryTypeOK
<1>5. Grows
  BY <1>3 DEF TypeOK, Grows, Epoch
<1> QED
  BY <1>4, <1>5

LEMMA TypesAndGrowth ==
    ASSUME HandoverInv, NEW n \in Honest, NodeStep(n)
    PROVE  TypeOK' /\ Grows
<1> USE HandoverAssumption DEF HandoverInv, TypeOK, Grows, Epoch,
        Pod!DeliveryTypeOK
<1>1. CASE RotateEpoch(n)
  BY <1>1 DEF RotateEpoch
<1>2. CASE CompleteEpoch(n)
  BY <1>2 DEF CompleteEpoch
<1>4. CASE FetchRotationProof(n)
  BY <1>4 DEF FetchRotationProof, Store, Proof, Aerp, Ack, Ahp, IsAvailable
<1>5. CASE EnterEpoch(n)
  BY <1>5 DEF EnterEpoch, Store, Proof, Aerp, Ack, Ahp, IsAvailable
<1>6. CASE AdvanceCursor(n)
  BY <1>6 DEF AdvanceCursor
<1>7. CASE CollectRotationProof(n)
  <2>1. PICK have \in SUBSET HonestAnchor, answered \in SUBSET HonestAnchor :
           /\ answered \subseteq have
           /\ anchored' = [a \in HonestAnchor |->
                              IF a \in have THEN anchored[a] \cup {cursor[n]}
                                            ELSE anchored[a]]
           /\ SetHandover(n, cursor[n], "delivered", IsAnchorsMajority(answered))
           /\ mishap' = (mishap \/ ~IsAnchorsMajority(answered))
    BY <1>7 DEF CollectRotationProof, DeliverToAnchors
  <2>2. cursor[n] \in Epoch /\ "delivered" \in Steps
    BY DEF Steps
  <2>3. IsAnchorsMajority(answered) \in BOOLEAN
    BY DEF IsAnchorsMajority
  <2>4. handover' \in [Honest -> SUBSET
            [epoch : Epoch, step : Steps, acked : BOOLEAN]]
    <3> HIDE DEF TypeOK, Epoch
    <3> QED
      BY <2>1, <2>2, <2>3, SetHandoverType
  <2>5. /\ anchored' \in [HonestAnchor -> SUBSET Epoch]
        /\ \A a \in HonestAnchor : anchored[a] \subseteq anchored'[a]
    <3> HIDE DEF Epoch
    <3> QED
      BY <2>1, <2>2
  <2>6. UNCHANGED <<rotated, sequenced, executed, stored, cursor, pushed,
                    pod, charge>>
    BY <1>7 DEF CollectRotationProof
  <2>7. mishap' \in BOOLEAN
    BY <2>1
  <2> HIDE DEF Epoch
  <2>8. TypeOK'
    BY <2>4, <2>5, <2>6, <2>7
  <2>9. Grows
    <3> USE DEF Epoch
    <3> QED
      BY <2>5, <2>6
  <2> QED
    BY <2>8, <2>9
<1>8. CASE PublishRotationProof(n)
  BY <1>8, HandoverType, HandoverStepTypes DEF PublishRotationProof, Steps
<1>9. CASE StoreRotationProof(n)
  BY <1>9, HandoverType, HandoverStepTypes DEF StoreRotationProof, Steps
<1>10. CASE StoreAck(n)
  BY <1>10, HandoverType, HandoverStepTypes DEF StoreAck, Steps
<1>11. CASE PublishAck(n)
  BY <1>11, HandoverType, HandoverStepTypes DEF PublishAck, Steps
<1>12. CASE EndHandover(n)
  <2>1. PICK h \in handover[n] :
           /\ pushed' = pushed \cup {h.epoch + 1} \/ pushed' = pushed
           /\ cursor' = [cursor EXCEPT ![n] = h.epoch + 1]
    BY <1>12 DEF EndHandover
  <2>2. handover' = [handover EXCEPT ![n] = {}]
    BY <1>12 DEF EndHandover
  <2>3. h.epoch + 1 \in Epoch
    <3> HIDE DEF HandoverInv, Epoch
    <3> QED
      BY HandoverType
  <2>4. UNCHANGED <<rotated, sequenced, executed, stored, anchored, mishap, pod, charge>>
    BY <1>12 DEF EndHandover
  <2>5. TypeOK'
    <3> HIDE DEF Epoch
    <3>1. pushed' \subseteq Epoch /\ cursor' \in [Honest -> Epoch]
      BY <2>1, <2>3
    <3>2. handover' \in [Honest -> SUBSET
              [epoch : Epoch, step : Steps, acked : BOOLEAN]]
      BY <2>2
    <3> QED
      BY <2>4, <3>1, <3>2
  <2>6. Grows
    BY <2>4
  <2> QED
    BY <2>5, <2>6
<1>13. CASE \E e \in Epoch : AcceptAck(n, e)
  <2> HIDE DEF HandoverInv, TypeOK, Grows, Epoch, Pod!DeliveryTypeOK
  <2> TypeOK
    BY DEF HandoverInv
  <2> QED
    BY <1>13, StoringAdds DEF AcceptAck
<1>14. CASE \E e \in Epoch : PullAckFromPoD(n, e)
  <2> HIDE DEF HandoverInv, TypeOK, Grows, Epoch, Pod!DeliveryTypeOK
  <2> TypeOK
    BY DEF HandoverInv
  <2> QED
    BY <1>14, StoringAdds DEF PullAckFromPoD
<1>15. CASE \E e \in Epoch : PullAckFromMember(n, e)
  <2> HIDE DEF HandoverInv, TypeOK, Grows, Epoch, Pod!DeliveryTypeOK
  <2> TypeOK
    BY DEF HandoverInv
  <2> QED
    BY <1>15, StoringAdds DEF PullAckFromMember
<1>16. CASE \E e \in Epoch : CommitHeightProofs(n, e)
  BY <1>16 DEF CommitHeightProofs, Store, Proof, Ack, Ahp, Pod!Take
<1>17. CASE DeliverToPoD(n)
  BY <1>17 DEF DeliverToPoD, nodeVars
<1>18. CASE Restart(n)
  BY <1>18 DEF Restart, Pod!Forget
<1> HIDE DEF HandoverInv, TypeOK, Grows, Epoch, Pod!DeliveryTypeOK
<1> QED
  BY <1>1, <1>2, <1>4, <1>5, <1>6, <1>7, <1>8, <1>9, <1>10, <1>11, <1>12,
     <1>13, <1>14, <1>15, <1>16, <1>17, <1>18
     DEF NodeStep, FinalizerStep, MemberStep

LEMMA ProofsStayFounded ==
    ASSUME HandoverInv, NEW n \in Honest, NodeStep(n)
    PROVE  ProofsAreFounded'
<1>1. TypeOK' /\ Grows
  BY TypesAndGrowth
<1>2. /\ stored \in [Honest -> SUBSET Proof]
      /\ charge \in [Honest -> SUBSET Proof]
  BY DEF HandoverInv, TypeOK, Pod!DeliveryTypeOK
<1>3. \A x : IsAvailable(x) => x \in SoundProofs
  BY AvailableIsFounded
<1>4. \A m \in Honest : charge[m] \subseteq SoundProofs
  BY <1>2 DEF HandoverInv, ProofsAreFounded, SoundProofs
<1> SUFFICES
        /\ \A m \in Honest : stored'[m] \subseteq stored[m] \cup SoundProofs
        /\ \A m \in Honest : charge'[m] \subseteq charge[m] \cup SoundProofs
        /\ pod' \subseteq pod \cup SoundProofs
        /\ \A e \in pushed' \ pushed : Ack(e) \in SoundProofs
  BY <1>1, FoundedProofsAdded
<1>5. CASE RotateEpoch(n) \/ CompleteEpoch(n) \/ AdvanceCursor(n)
  BY <1>5 DEF RotateEpoch, CompleteEpoch, AdvanceCursor
<1>6. CASE FetchRotationProof(n) \/ EnterEpoch(n)
  BY <1>6, <1>2, <1>3 DEF FetchRotationProof, EnterEpoch, Store
<1>7. CASE CollectRotationProof(n)
  BY <1>7 DEF CollectRotationProof
<1>8. CASE PublishRotationProof(n)
  BY <1>8, <1>2, HandoverProofs DEF PublishRotationProof, Pod!Take
<1>9. CASE StoreRotationProof(n)
  BY <1>9, <1>2, HandoverProofs DEF StoreRotationProof, Store
<1>10. CASE StoreAck(n)
  BY <1>10, <1>2, HandoverProofs DEF StoreAck, Store
<1>11. CASE PublishAck(n)
  BY <1>11, <1>2, HandoverProofs DEF PublishAck, Pod!Take
<1>12. CASE EndHandover(n)
  BY <1>12, HandoverProofs DEF EndHandover
<1>13. CASE \E e \in Epoch : AcceptAck(n, e)
  <2>1. \A e \in pushed : Ack(e) \in SoundProofs
    BY DEF HandoverInv, ProofsAreFounded, TypeOK, SoundProofs, Ack, Proof
  <2> QED
    BY <1>13, <1>2, <2>1 DEF AcceptAck, Store
<1>14. CASE \E e \in Epoch : PullAckFromPoD(n, e) \/ PullAckFromMember(n, e)
  BY <1>14, <1>2, <1>3 DEF PullAckFromPoD, PullAckFromMember, Store, IsAvailable
<1>15. CASE \E e \in Epoch : CommitHeightProofs(n, e)
  <2>1. PICK e \in Epoch : CommitHeightProofs(n, e)
    BY <1>15
  <2>2. Ahp(e) \in SoundProofs
    <3>1. CASE IsMajority(HeightSigners(e))
      <4> DEFINE S == {v \in Honest : Ack(e) \in stored[v]}
      <4>1. HeightSigners(e) \subseteq S /\ S \in SUBSET Honest
        BY <2>1 DEF CommitHeightProofs, HeightSigners, HasAck, Epoch
      <4>2. IsMajority(S)
        <5> HIDE DEF S
        <5> QED
          BY <3>1, <4>1, MajorityGrows
      <4> QED
        BY <2>1, <4>2 DEF CommitHeightProofs, SoundProofs, Founded, Ahp, Proof
    <3> QED
      BY <2>1, <3>1, <1>3 DEF CommitHeightProofs
  <2> QED
    BY <2>1, <2>2, <1>2 DEF CommitHeightProofs, Store, Pod!Take
<1>16. CASE DeliverToPoD(n)
  BY <1>16, <1>2, <1>4 DEF DeliverToPoD, nodeVars
<1>17. CASE Restart(n)
  BY <1>17, <1>2 DEF Restart, Pod!Forget
<1> QED
  BY <1>5, <1>6, <1>7, <1>8, <1>9, <1>10, <1>11, <1>12, <1>13, <1>14, <1>15,
     <1>16, <1>17 DEF NodeStep, FinalizerStep, MemberStep

\* A handover that is not touched stays founded.
LEMMA HandoverRemains ==
    ASSUME HandoverInv, TypeOK', Grows, NEW n \in Honest, NEW h \in handover[n],
           cursor'[n] = cursor[n]
    PROVE  HandoverIsFounded(n, h)'
<1>1. HandoverIsFounded(n, h) /\ TypeOK
  BY DEF HandoverInv, HandoversAreFounded
<1>2. h.epoch \in Epoch
  BY HandoverType
<1>3. IsMajority(RotationSigners(h.epoch))'
  BY <1>1, <1>2, SignersRemain DEF HandoverIsFounded
<1>4. h.acked => HaveAcked(h.epoch)'
  BY <1>1, AcksRemain DEF HandoverIsFounded
<1>5. h.step \in {"stored", "acked", "sent"} => Aerp(h.epoch) \in stored'[n]
  BY <1>1 DEF HandoverIsFounded, Grows
<1> QED
  BY <1>1, <1>3, <1>4, <1>5 DEF HandoverIsFounded

\* The next step of a handover.
LEMMA HandoverGoesOn ==
    ASSUME HandoverInv, TypeOK', Grows, NEW n \in Honest, NEW h \in handover[n],
           NEW step \in Steps, SetHandover(n, h.epoch, step, h.acked),
           UNCHANGED cursor,
           step \in {"acked", "sent"} => h.acked,
           step \in {"stored", "acked", "sent"} => Aerp(h.epoch) \in stored'[n]
    PROVE  HandoversAreFounded'
<1> DEFINE g == [epoch |-> h.epoch, step |-> step, acked |-> h.acked]
<1>1. HandoverIsFounded(n, h)'
  BY HandoverRemains
<1>2. HandoverIsFounded(n, g)'
  BY <1>1 DEF HandoverIsFounded
<1>3. \A m \in Honest : \A f \in handover'[m] : f \in handover[m] \/ (m = n /\ f = g)
  <2> DEFINE H == [epoch : Epoch, step : Steps, acked : BOOLEAN]
  <2>1. handover \in [Honest -> SUBSET H] /\ handover' = [handover EXCEPT ![n] = {g}]
    BY DEF SetHandover, HandoverInv, TypeOK
  <2> HIDE DEF g, H
  <2> QED
    BY <2>1
<1> HIDE DEF g
<1> QED
  BY <1>2, <1>3, HandoverRemains DEF HandoversAreFounded

LEMMA HandoversStayFounded ==
    ASSUME HandoverInv, NEW n \in Honest, NodeStep(n)
    PROVE  HandoversAreFounded'
<1>1. TypeOK' /\ Grows
  BY TypesAndGrowth
<1>2. /\ handover \in [Honest -> SUBSET
              [epoch : Epoch, step : Steps, acked : BOOLEAN]]
      /\ cursor \in [Honest -> Epoch]
      /\ stored \in [Honest -> SUBSET Proof]
  BY DEF HandoverInv, TypeOK
<1>3. \A h \in handover[n] : HandoverIsFounded(n, h)
  BY DEF HandoverInv, HandoversAreFounded
<1>4. ASSUME \A m \in Honest : \A h \in handover'[m] :
                 h \in handover[m] /\ cursor'[m] = cursor[m]
      PROVE  HandoversAreFounded'
  BY <1>1, <1>4, HandoverRemains DEF HandoversAreFounded
<1>5. CASE RotateEpoch(n) \/ CompleteEpoch(n)
           \/ FetchRotationProof(n) \/ EnterEpoch(n)
  BY <1>4, <1>5 DEF RotateEpoch, CompleteEpoch, FetchRotationProof,
     EnterEpoch
<1>6. CASE AdvanceCursor(n)
  BY <1>2, <1>4, <1>6 DEF AdvanceCursor
<1>7. CASE CollectRotationProof(n)
  <2>1. PICK e \in Epoch : e = cursor[n]
    BY <1>2
  <2>2. PICK have \in SUBSET HonestAnchor, answered \in SUBSET HonestAnchor :
           /\ answered \subseteq have
           /\ anchored' = [a \in HonestAnchor |->
                              IF a \in have THEN anchored[a] \cup {e}
                                            ELSE anchored[a]]
           /\ SetHandover(n, e, "delivered", IsAnchorsMajority(answered))
    BY <1>7, <2>1 DEF CollectRotationProof, DeliverToAnchors
  <2> DEFINE g == [epoch |-> e, step |-> "delivered",
                   acked |-> IsAnchorsMajority(answered)]
             H == [epoch : Epoch, step : Steps, acked : BOOLEAN]
  <2>3. e < MaxEpoch /\ cursor' = cursor /\ IsMajority(RotationSigners(e))
    <3>1. rotated[n] \in Epoch /\ rotated[n] > e
      BY <1>7, <2>1 DEF CollectRotationProof, HandoverInv, TypeOK
    <3> QED
      BY <1>7, <2>1, <3>1, HandoverAssumption DEF CollectRotationProof, Epoch
  <2>4. IsMajority(RotationSigners(e))'
    BY <1>1, <2>3, SignersRemain DEF HandoverInv
  <2>5. IsAnchorsMajority(answered) => HaveAcked(e)'
    <3> DEFINE T == {a \in HonestAnchor : e \in anchored'[a]}
    <3>1. answered \subseteq T /\ T \in SUBSET HonestAnchor
      BY <2>2
    <3>2. IsAnchorsMajority(answered) => IsAnchorsMajority(T)
      <4> HIDE DEF T
      <4> QED
        BY <3>1, AnchorsMajorityGrows
    <3> QED
      BY <3>2 DEF HaveAcked, IsAnchorsMajority, AnchorsMajority
  <2>6. HandoverIsFounded(n, g)'
    BY <2>1, <2>3, <2>4, <2>5 DEF HandoverIsFounded
  <2>7. \A m \in Honest : \A h \in handover'[m] : (m = n /\ h = g) \/ h \in handover[m]
    <3>1. handover \in [Honest -> SUBSET H] /\ handover' = [handover EXCEPT ![n] = {g}]
      BY <1>2, <2>2 DEF SetHandover
    <3> HIDE DEF g, H
    <3> QED
      BY <3>1
  <2> HIDE DEF g, H
  <2> QED
    BY <2>3, <2>6, <2>7, <1>1, HandoverRemains DEF HandoversAreFounded
<1>8. CASE PublishRotationProof(n)
  BY <1>8, <1>1, HandoverGoesOn DEF PublishRotationProof, Steps
<1>9. CASE StoreRotationProof(n)
  BY <1>9, <1>1, <1>2, HandoverGoesOn DEF StoreRotationProof, Store, Steps
<1>10. CASE StoreAck(n)
  BY <1>10, <1>1, <1>2, <1>3, HandoverGoesOn
     DEF StoreAck, Store, Steps, HandoverIsFounded
<1>11. CASE PublishAck(n)
  BY <1>11, <1>1, <1>3, HandoverGoesOn DEF PublishAck, Steps, HandoverIsFounded
<1>12. CASE EndHandover(n)
  BY <1>2, <1>4, <1>12 DEF EndHandover
<1>13. CASE MemberStep(n)
  BY <1>4, <1>13 DEF MemberStep, AcceptAck, PullAckFromPoD, PullAckFromMember,
     CommitHeightProofs
<1>14. CASE DeliverToPoD(n)
  BY <1>4, <1>14 DEF DeliverToPoD, nodeVars
<1>15. CASE Restart(n)
  BY <1>2, <1>4, <1>15 DEF Restart
<1> QED
  BY <1>5, <1>6, <1>7, <1>8, <1>9, <1>10, <1>11, <1>12, <1>13, <1>14, <1>15
     DEF NodeStep, FinalizerStep

LEMMA CursorStaysBehind ==
    ASSUME HandoverInv, NEW n \in Honest, NodeStep(n)
    PROVE  CursorPassesNothing'
<1>1. TypeOK' /\ Grows
  BY TypesAndGrowth
<1>2. /\ cursor \in [Honest -> Epoch]
      /\ \A m \in Honest : stored[m] \subseteq stored'[m]
      /\ \A m \in Honest : \A e \in Epoch : e < cursor[m] => Aerp(e) \in stored[m]
  BY <1>1 DEF HandoverInv, TypeOK, Grows, CursorPassesNothing
<1>3. ASSUME Aerp(cursor[n]) \in stored[n],
             cursor' = [cursor EXCEPT ![n] = cursor[n] + 1]
      PROVE  CursorPassesNothing'
  BY <1>2, <1>3 DEF CursorPassesNothing, Epoch
<1>4. CASE AdvanceCursor(n)
  BY <1>3, <1>4 DEF AdvanceCursor, CursorMayAdvance
<1>5. CASE EndHandover(n)
  <2>1. PICK h \in handover[n] :
           /\ h.step \in {"stored", "sent"}
           /\ cursor' = [cursor EXCEPT ![n] = h.epoch + 1]
    BY <1>5 DEF EndHandover
  <2>2. h.epoch = cursor[n] /\ Aerp(h.epoch) \in stored[n]
    BY <2>1 DEF HandoverInv, HandoversAreFounded, HandoverIsFounded
  <2> QED
    BY <1>3, <2>1, <2>2
<1>6. CASE Restart(n)
  BY <1>2, <1>6 DEF Restart, CursorPassesNothing, Epoch
<1>7. CASE UNCHANGED cursor
  BY <1>2, <1>7 DEF CursorPassesNothing
<1>8. AdvanceCursor(n) \/ EndHandover(n) \/ Restart(n) \/ UNCHANGED cursor
  BY DEF NodeStep, FinalizerStep, MemberStep, RotateEpoch, CompleteEpoch,
     FetchRotationProof, EnterEpoch, CollectRotationProof,
     PublishRotationProof, StoreRotationProof, StoreAck, PublishAck, AcceptAck,
     PullAckFromPoD, PullAckFromMember, CommitHeightProofs, DeliverToPoD, nodeVars
<1> QED
  BY <1>4, <1>5, <1>6, <1>7, <1>8

LEMMA ExecutorsKeepProofs ==
    ASSUME HandoverInv, NEW n \in Honest, NodeStep(n)
    PROVE  ExecutorsHaveProofs'
<1>1. TypeOK' /\ Grows
  BY TypesAndGrowth
<1>2. /\ executed \in [Honest -> Epoch]
      /\ stored \in [Honest -> SUBSET Proof]
      /\ \A m \in Honest : stored[m] \subseteq stored'[m]
      /\ \A m \in Honest : \A e \in Epoch : e < executed[m] =>
            /\ Aerp(e) \in stored[m]
            /\ \E later \in Epoch : later > e /\ Ahp(later) \in stored[m]
  BY <1>1 DEF HandoverInv, TypeOK, Grows, ExecutorsHaveProofs
<1>3. CASE UNCHANGED executed
  <2> SUFFICES ASSUME NEW m \in Honest, NEW e \in Epoch, e < executed[m]
               PROVE  /\ Aerp(e) \in stored'[m]
                      /\ \E later \in Epoch : later > e /\ Ahp(later) \in stored'[m]
    BY <1>3 DEF ExecutorsHaveProofs
  <2> QED
    BY <1>2
<1>4. CASE EnterEpoch(n)
  <2> DEFINE d == executed[n]
  <2>1. PICK later \in d + 1 .. MaxEpoch : Store(n, {Aerp(d), Ahp(later)})
    BY <1>4 DEF EnterEpoch
  <2>2. d \in Epoch /\ later \in Epoch /\ later > d
    BY <1>2, <2>1, HandoverAssumption DEF Epoch
  <2>3. Aerp(d) \in stored'[n] /\ Ahp(later) \in stored'[n]
    BY <1>2, <2>1 DEF Store
  <2>4. executed' = [executed EXCEPT ![n] = d + 1]
    BY <1>4 DEF EnterEpoch
  <2> HIDE DEF d
  <2> SUFFICES ASSUME NEW m \in Honest, NEW e \in Epoch, e < executed'[m]
               PROVE  /\ Aerp(e) \in stored'[m]
                      /\ \E l \in Epoch : l > e /\ Ahp(l) \in stored'[m]
    BY DEF ExecutorsHaveProofs
  <2>5. CASE m = n /\ e = d
    BY <2>2, <2>3, <2>5
  <2>6. CASE ~(m = n /\ e = d)
    <3>1. e < executed[m]
      BY <1>2, <2>2, <2>4, <2>6 DEF Epoch, d
    <3> QED
      BY <1>2, <3>1
  <2> QED
    BY <2>5, <2>6
<1>5. EnterEpoch(n) \/ UNCHANGED executed
  BY DEF NodeStep, FinalizerStep, MemberStep, RotateEpoch, CompleteEpoch,
     FetchRotationProof, AdvanceCursor, CollectRotationProof,
     PublishRotationProof, StoreRotationProof, StoreAck, PublishAck, EndHandover,
     AcceptAck, PullAckFromPoD, PullAckFromMember, CommitHeightProofs,
     DeliverToPoD, Restart, nodeVars
<1> QED
  BY <1>3, <1>4, <1>5

LEMMA InvNext == HandoverInv /\ [Next]_vars => HandoverInv'
<1> SUFFICES ASSUME HandoverInv, [Next]_vars PROVE HandoverInv'
  OBVIOUS
<1>1. CASE Next
  <2>1. PICK n \in Honest : NodeStep(n)
    BY <1>1 DEF Next
  <2> QED
    BY <2>1, TypesAndGrowth, ProofsStayFounded, HandoversStayFounded,
       CursorStaysBehind, ExecutorsKeepProofs DEF HandoverInv
<1>2. CASE UNCHANGED vars
  <2> USE <1>2 DEF vars, nodeVars, HandoverInv
  <2>1. TypeOK'
    BY DEF TypeOK, Pod!DeliveryTypeOK
  <2>2. Grows
    BY DEF Grows, TypeOK, Epoch
  <2>3. ProofsAreFounded'
    <3>1. UNCHANGED <<stored, charge, pod, pushed>>
      OBVIOUS
    <3> QED
      BY <2>1, <2>2, <3>1, FoundedProofsAdded
  <2>4. HandoversAreFounded'
    BY <2>1, <2>2, HandoverRemains DEF HandoversAreFounded
  <2>5. CursorPassesNothing' /\ ExecutorsHaveProofs'
    BY DEF CursorPassesNothing, ExecutorsHaveProofs
  <2> QED
    BY <2>1, <2>3, <2>4, <2>5
<1> QED
  BY <1>1, <1>2

\* The invariant that the theorems below rest on holds in every state.
THEOREM HandoverInvariant == Spec => []HandoverInv
BY InvInit, InvNext, PTL DEF Spec
-----------------------------------------------------------------------------
(* The theorems *)

\* Every variable of the handover keeps its type: TypeOK of EpochHandover.
THEOREM TypeCorrect == Spec => []TypeOK
<1>1. HandoverInv => TypeOK
  BY DEF HandoverInv
<1> QED
  BY <1>1, HandoverInvariant, PTL

\* lastRotationEpoch never passes over a rotation proof that is not stored.
THEOREM CursorCorrect == Spec => []CursorPassesNothing
<1>1. HandoverInv => CursorPassesNothing
  BY DEF HandoverInv
<1> QED
  BY <1>1, HandoverInvariant, PTL

\* The proofs of heights are put together after the ack is widely known.
THEOREM HeightsCorrect == Spec => []HeightsFollowAcks
<1>1. ASSUME HandoverInv PROVE HeightsFollowAcks
  <2> SUFFICES ASSUME NEW e \in Epoch, IsAvailable(Ahp(e))
               PROVE  IsMajority({v \in Honest : Ack(e) \in stored[v]})
    BY DEF HeightsFollowAcks
  <2>1. Founded(Ahp(e))
    BY <1>1, AvailableIsFounded DEF SoundProofs
  <2> QED
    BY <2>1 DEF Founded, Ahp
<1> QED
  BY <1>1, HandoverInvariant, PTL

\* No executor is ahead of the majority of the members that have placed the
\* epoch's blocks, or of the anchors that have been told of its end.
THEOREM ExecutionCorrect == Spec => []ExecutionFollowsHandover
<1>1. ASSUME HandoverInv PROVE ExecutionFollowsHandover
  <2> SUFFICES ASSUME NEW n \in Honest, NEW e \in Epoch, e < executed[n]
               PROVE  /\ IsMajority(RotationSigners(e))
                      /\ \E later \in Epoch : later >= e /\ HaveAcked(later)
    BY DEF ExecutionFollowsHandover
  <2>1. PICK later \in Epoch : /\ later > e
                                /\ Aerp(e) \in stored[n]
                                /\ Ahp(later) \in stored[n]
    BY <1>1 DEF HandoverInv, ExecutorsHaveProofs
  <2>2. Founded(Aerp(e)) /\ Founded(Ahp(later))
    BY <1>1, <2>1 DEF HandoverInv, ProofsAreFounded
  <2>3. IsMajority(RotationSigners(e))
    BY <2>2 DEF Founded, Aerp
  <2>4. PICK v \in Honest : Ack(later) \in stored[v]
    <3> DEFINE S == {v \in Honest : Ack(later) \in stored[v]}
    <3>1. IsMajority(S) /\ S \in SUBSET Honest
      BY <2>2 DEF Founded, Ahp
    <3>2. S # {}
      <4> HIDE DEF S
      <4> QED
        BY <3>1, MajorityHasHonest
    <3> QED
      BY <3>2
  <2>5. Founded(Ack(later))
    BY <1>1, <2>4 DEF HandoverInv, ProofsAreFounded
  <2>6. HaveAcked(later - 1)
    BY <2>5 DEF Founded, Ack
  <2>7. later - 1 \in Epoch /\ later - 1 >= e
    BY <2>1, HandoverAssumption DEF Epoch
  <2> QED
    BY <2>3, <2>6, <2>7
<1> QED
  BY <1>1, HandoverInvariant, PTL
=============================================================================
