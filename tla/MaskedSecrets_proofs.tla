-------------------------- MODULE MaskedSecrets_proofs --------------------------
(* Proof that forgetting what was sent costs at most two passes that write. *)
EXTENDS MaskedSecrets, TLAPS, FiniteSetTheorems

USE DEF boundVars

LEMMA DigestType ==
  ASSUME NEW fs \in SUBSET Fields, NEW s \in Assignments
  PROVE  DigestOf(fs, s) \in Digests
<1> SUFFICES ASSUME NEW x \in Values
             PROVE  Cardinality({f \in fs : s[f] = x}) \in 0..Cardinality(Fields)
  BY DEF DigestOf, Digests
<1> DEFINE hits == {f \in fs : s[f] = x}
<1>1. IsFiniteSet(Fields) /\ hits \in SUBSET Fields
  BY SecretsAssumption
<1> HIDE DEF hits
<1>2. IsFiniteSet(hits) /\ Cardinality(hits) <= Cardinality(Fields)
  BY <1>1, FS_Subset
<1>3. Cardinality(hits) \in Nat /\ Cardinality(Fields) \in Nat
  BY <1>1, <1>2, FS_CardinalityType
<1> QED
  BY <1>2, <1>3 DEF hits

LEMMA EmptyType == Empty \in Digests
<1>1. Cardinality(Fields) \in Nat
  BY SecretsAssumption, FS_CardinalityType
<1> QED
  BY <1>1 DEF Empty, Digests

LEMMA SentType ==
  ASSUME TypeOK
  PROVE  Sent \in Cell /\ Sent # Absent /\ Sent.same
<1>1. want \in Assignments
  BY DEF TypeOK
<1>2. Sent \in Cell /\ Sent.same
  BY <1>1 DEF Sent, Cell
<1>3. Absent \notin Cell
  BY SecretsAssumption
<1> QED
  BY <1>2, <1>3

LEMMA InitIInv == Init => IInv
<1> SUFFICES ASSUME Init PROVE IInv
  OBVIOUS
<1>1. TypeOK
  BY EmptyType, SecretsAssumption DEF Init, TypeOK
<1>2. Established
  BY DEF Init, Established
<1> QED
  BY <1>1, <1>2 DEF IInv

(* The end of a pass, and the bounds on faults.                            *)
LEMMA EndType ==
  ASSUME TypeOK
  PROVE  /\ \A ok \in BOOLEAN : PassEnds(ok) => pc' = "idle" /\ calm' \in 0..2
         /\ faults < MaxFaults => faults + 1 \in 0..MaxFaults
         /\ hands < MaxHands => hands + 1 \in 0..MaxHands
         /\ rotations < MaxRotations => rotations + 1 \in 0..MaxRotations
BY SecretsAssumption DEF TypeOK, PassEnds

(* Each step keeps the types.                                              *)
LEMMA TypeStep == TypeOK /\ [Next]_vars => TypeOK'
<1> SUFFICES ASSUME TypeOK, [Next]_vars PROVE TypeOK'
  OBVIOUS
<1>1. CASE Resolve
  BY <1>1 DEF Resolve, TypeOK
<1>2. CASE ListMissing
  BY <1>2 DEF ListMissing, TypeOK
<1>3. CASE Compare
  <2>1. PICK fs \in Walked :
          /\ digest' = DigestOf(fs, want)
          /\ IF ~app.same \/ SecretsChangedSince(DigestOf(fs, want))
             THEN pc' = "put" /\ UNCHANGED calm
             ELSE PassEnds(TRUE)
    BY <1>3 DEF Compare
  <2>2. digest' \in Digests
    BY <2>1, DigestType DEF Walked, TypeOK
  <2>3. pc' \in {"idle", "list", "put", "post"} /\ calm' \in 0..2
    BY <2>1, EndType DEF TypeOK
  <2> QED
    BY <1>3, <2>2, <2>3 DEF Compare, TypeOK
<1>4. CASE Put
  BY <1>4, SentType, EndType DEF Put, RecordSecrets, TypeOK
<1>5. CASE PutAnswerLost
  BY <1>5, SentType, EndType DEF PutAnswerLost, TypeOK
<1>6. CASE Post
  BY <1>6, SentType, EndType DEF Post, TypeOK
<1>7. CASE PostAnswerLost
  BY <1>7, SentType, EndType DEF PostAnswerLost, TypeOK
<1>8. CASE RequestFails
  BY <1>8, EndType DEF RequestFails, TypeOK
<1>9. ASSUME NEW s \in Assignments, Rotate(s) PROVE TypeOK'
  BY <1>9, EndType DEF Rotate, TypeOK
<1>10. CASE Drift
  <2>1. app \in Cell
    BY <1>10 DEF Drift, TypeOK
  <2>2. app' \in Cell
    BY <1>10, <2>1 DEF Drift, Cell
  <2> QED
    BY <1>10, <2>2, EndType DEF Drift, TypeOK
<1>11. CASE HandDelete
  BY <1>11, EndType DEF HandDelete, TypeOK
<1>12. CASE Restart
  BY <1>12, EndType DEF Restart, TypeOK
<1>13. CASE UNCHANGED vars
  BY <1>13 DEF vars, TypeOK
<1> QED
  BY <1>1, <1>2, <1>3, <1>4, <1>5, <1>6, <1>7, <1>8, <1>9, <1>10, <1>11, <1>12, <1>13
     DEF Next, PassStep

(* Each step keeps what successful passes have established.                *)
LEMMA EstablishedStep == IInv /\ [Next]_vars => Established'
<1> SUFFICES ASSUME TypeOK, Established, [Next]_vars PROVE Established'
  BY DEF IInv
<1>1. calm \in 0..2
  BY DEF TypeOK
<1>2. CASE calm' = 0
  BY <1>2 DEF Established
<1>3. CASE Resolve
  BY <1>1, <1>3 DEF Resolve, Established, SecretsChangedSince, DigestOf, Empty
<1>4. CASE ListMissing
  BY <1>1, <1>2, <1>4 DEF ListMissing, Established
<1>5. CASE Compare
  <2>1. /\ pc = "list" /\ app # Absent /\ UNCHANGED <<secret, app, store, want>>
    BY <1>5 DEF Compare
  <2>2. PICK fs \in Walked :
          /\ digest' = DigestOf(fs, want)
          /\ IF ~app.same \/ SecretsChangedSince(DigestOf(fs, want))
             THEN pc' = "put" /\ UNCHANGED calm
             ELSE PassEnds(TRUE)
    BY <1>5 DEF Compare
  <2>3. app.same => fs = Fields
    BY <2>2 DEF Walked
  <2>4. calm > 0 => app.same /\ want = secret /\ fs = Fields
    BY <2>1, <2>3 DEF Established
  <2>5. SecretsChangedSince(DigestOf(Fields, secret))' = SecretsChangedSince(DigestOf(Fields, secret))
    BY <2>1 DEF SecretsChangedSince, DigestOf, Empty
  <2>6. DigestOf(Fields, secret)' = DigestOf(Fields, secret)
    BY <2>1 DEF DigestOf
  <2>7. CASE ~app.same \/ SecretsChangedSince(DigestOf(fs, want))
    <3>1. pc' = "put" /\ calm' = calm
      BY <2>2, <2>7
    <3>2. calm # 2
      BY <2>4, <2>7 DEF Established
    <3> QED
      BY <2>1, <2>2, <2>4, <2>6, <3>1, <3>2 DEF Established
  <2>8. CASE app.same /\ ~SecretsChangedSince(DigestOf(fs, want))
    <3>1. pc' = "idle" /\ calm' = (IF calm = 2 THEN 2 ELSE calm + 1)
      BY <2>2, <2>8 DEF PassEnds
    <3>2. calm' = 2 => ~SecretsChangedSince(DigestOf(Fields, secret))
      BY <1>1, <2>4, <2>8, <3>1
    <3> QED
      BY <2>1, <2>5, <2>8, <3>1, <3>2 DEF Established
  <2> QED
    BY <2>7, <2>8
<1>6. CASE Put
  <2>1. /\ pc = "put" /\ pc' = "idle" /\ calm' = (IF calm = 2 THEN 2 ELSE calm + 1)
        /\ app' = Sent /\ RecordSecrets /\ secret' = secret
    BY <1>6 DEF Put, PassEnds
  <2>2. calm > 0 => digest = DigestOf(Fields, secret)
    BY <2>1 DEF Established
  <2>3. calm' = 2 => ~SecretsChangedSince(DigestOf(Fields, secret))'
    <3>0. SUFFICES ASSUME calm' = 2 PROVE ~SecretsChangedSince(DigestOf(Fields, secret))'
      OBVIOUS
    <3>1. digest = DigestOf(Fields, secret)
      BY <1>1, <2>1, <2>2, <3>0
    <3>2. DigestOf(Fields, secret)' = digest
      BY <2>1, <3>1 DEF DigestOf
    <3>3. digest = Empty \/ store' = digest
      BY <2>1 DEF RecordSecrets
    <3>4. Empty' = Empty
      BY DEF Empty
    <3> QED
      BY <3>2, <3>3, <3>4 DEF SecretsChangedSince
  <2> QED
    BY <2>1, <2>3, SentType DEF Established
<1>7. CASE Post
  <2>1. calm = 0 /\ pc' = "idle" /\ calm' = 1 /\ app' = Sent
    BY <1>1, <1>7 DEF Post, PassEnds, Established
  <2> QED
    BY <2>1, SentType DEF Established
<1>8. CASE PutAnswerLost \/ PostAnswerLost \/ RequestFails \/ Drift \/ HandDelete \/ Restart
           \/ \E s \in Assignments : Rotate(s)
  BY <1>2, <1>8 DEF PutAnswerLost, PostAnswerLost, RequestFails, PassEnds, Drift,
                    HandDelete, Restart, Rotate
<1>9. CASE UNCHANGED vars
  BY <1>9 DEF vars, Established, SecretsChangedSince, DigestOf, Empty
<1> QED
  BY <1>3, <1>4, <1>5, <1>6, <1>7, <1>8, <1>9 DEF Next, PassStep

(* What successful passes establish lasts until something else happens.    *)
THEOREM Invariance == SafeSpec => []IInv
<1>1. IInv /\ [Next]_vars => IInv'
  BY TypeStep, EstablishedStep DEF IInv
<1> QED
  BY <1>1, InitIInv, PTL DEF SafeSpec

(* Whatever rotations, lost answers, restarts and hands do, every variable *)
(* keeps its type.                                                         *)
THEOREM TypeCorrect == SafeSpec => []TypeOK
<1>1. IInv => TypeOK
  BY DEF IInv
<1> QED
  BY <1>1, Invariance, PTL

(* After two successful passes in peace no pass writes any more, whatever  *)
(* was forgotten before and whichever rotations users perform.             *)
THEOREM TwoPassesAreEnough == SafeSpec => TwoPassesSuffice
<1>1. IInv /\ [Next]_vars => [Put \/ Post => calm < 2]_vars
  <2> SUFFICES ASSUME IInv, Put \/ Post PROVE calm < 2
    OBVIOUS
  <2>1. pc \in {"put", "post"} /\ calm \in 0..2
    BY DEF IInv, TypeOK, Put, Post
  <2> QED
    BY <2>1 DEF IInv, Established
<1> QED
  BY <1>1, Invariance, PTL DEF SafeSpec, TwoPassesSuffice

-----------------------------------------------------------------------------
(* What a pass that writes nothing can rely on.                            *)

LEMMA RememberedStep ==
  ASSUME NEW before, GoesForth(before), TypeOK, Remembered(before), [Next]_vars
  PROVE  Remembered(before)'
<1>0. /\ want \in Assignments /\ secret \in Assignments /\ (app # Absent => app.held \in Assignments)
      /\ pc \in {"idle", "list", "put", "post"}
  BY DEF TypeOK, Cell
<1>1. /\ \A s \in Assignments : <<s, s>> \in before
      /\ \A s, t, u \in Assignments : <<s, t>> \in before /\ <<t, u>> \in before => <<s, u>> \in before
      /\ Rotations \subseteq before
  BY DEF GoesForth
<1>2. ASSUME want' = want, secret' = secret, store' = store, app' = app,
             pc' = "put" => pc = "put" /\ digest' = digest
      PROVE  Remembered(before)'
  BY <1>2 DEF Remembered, DigestOf
<1>3. ASSUME app' = Sent, want' = want, secret' = secret, store' = store, pc' = "idle"
      PROVE  Remembered(before)'
  BY <1>0, <1>1, <1>3 DEF Remembered, DigestOf, Sent
<1>4. CASE Resolve
  BY <1>0, <1>1, <1>4 DEF Resolve, Remembered, DigestOf
<1>5. CASE Compare
  <2>1. PICK fs \in Walked : digest' = DigestOf(fs, want)
    BY <1>5 DEF Compare
  <2>2. fs \in SUBSET Fields
    BY DEF Walked
  <2> QED
    BY <1>5, <2>1, <2>2 DEF Compare, Remembered, DigestOf
<1>6. CASE Put
  <2>1. app' = Sent /\ want' = want /\ secret' = secret /\ pc = "put" /\ pc' = "idle"
    BY <1>6 DEF Put, PassEnds
  <2>2. CASE digest = Empty
    BY <1>3, <1>6, <2>1, <2>2 DEF Put, RecordSecrets
  <2>3. CASE digest # Empty
    <3>1. store' = digest
      BY <1>6, <2>3 DEF Put, RecordSecrets
    <3>2. PICK fs \in SUBSET Fields : digest = DigestOf(fs, want)
      BY <2>1 DEF Remembered
    <3> QED
      BY <1>0, <1>1, <2>1, <3>1, <3>2 DEF Remembered, DigestOf, Sent
  <2> QED
    BY <2>2, <2>3
<1>7. CASE PutAnswerLost \/ Post \/ PostAnswerLost
  BY <1>3, <1>7 DEF PutAnswerLost, Post, PostAnswerLost, PassEnds
<1>8. CASE ListMissing \/ RequestFails \/ UNCHANGED vars
  BY <1>2, <1>8 DEF ListMissing, RequestFails, PassEnds, vars
<1>9. ASSUME NEW s \in Assignments, Rotate(s) PROVE Remembered(before)'
  <2>1. <<want, s>> \in before
    BY <1>0, <1>1, <1>9 DEF Rotate, Remembered
  <2> QED
    BY <1>9, <2>1 DEF Rotate, Remembered, DigestOf
<1>10. CASE Drift
  <2>1. app # Absent /\ app'.held = app.held
    BY <1>10 DEF Drift, TypeOK, Cell
  <2>2. UNCHANGED <<secret, store, pc, want, digest>>
    BY <1>10 DEF Drift
  <2> QED
    BY <2>1, <2>2 DEF Remembered, DigestOf
<1>11. CASE HandDelete
  BY <1>11 DEF HandDelete, Remembered, DigestOf
<1>12. CASE Restart
  BY <1>12 DEF Restart, Remembered
<1> QED
  BY <1>4, <1>5, <1>6, <1>7, <1>8, <1>9, <1>10, <1>11, <1>12 DEF Next, PassStep

(* Where nothing is to be sent there is no secret to be wrong about.       *)
LEMMA NothingToSend ==
  ASSUME NEW s \in Assignments, NEW t \in Assignments, DigestOf(Fields, s) = Empty
  PROVE  s = t
<1>1. ASSUME NEW f \in Fields PROVE FALSE
  <2> DEFINE hits == {g \in Fields : s[g] = s[f]}
  <2>1. s[f] \in Values /\ f \in hits
    BY DEF Assignments
  <2>2. Cardinality(hits) = 0
    BY <2>1 DEF DigestOf, Empty
  <2>3. IsFiniteSet(hits)
    BY SecretsAssumption, FS_Subset
  <2> QED
    BY <2>1, <2>2, <2>3, FS_EmptySet
<1> QED
  BY <1>1 DEF Assignments

(* A pass that writes nothing leaves what is declared, with the secrets it *)
(* resolved, whatever was lost or forgotten: as long as no digest that was *)
(* sent comes back.                                                        *)
THEOREM QuietPasses ==
  ASSUME NEW before, GoesForth(before)
  PROVE  SafeSpec => QuietPassIsHonest
<1>1. Init => Remembered(before)
  BY DEF Init, Remembered, GoesForth
<1>2. IInv /\ Remembered(before) /\ [Next]_vars => Remembered(before)'
  BY RememberedStep DEF IInv
<1>3. ASSUME IInv, Remembered(before), Compare, pc' = "idle"
      PROVE  app.same /\ app.held = want
  <2>0. want \in Assignments /\ app.held \in Assignments
    BY <1>3 DEF IInv, TypeOK, Compare, Cell
  <2>1. PICK fs \in Walked :
          IF ~app.same \/ SecretsChangedSince(DigestOf(fs, want))
          THEN pc' = "put" /\ UNCHANGED calm
          ELSE PassEnds(TRUE)
    BY <1>3 DEF Compare
  <2>2. app.same /\ ~SecretsChangedSince(DigestOf(fs, want))
    BY <1>3, <2>1
  <2>3. fs = Fields
    BY <2>2 DEF Walked
  <2>4. CASE DigestOf(Fields, want) = Empty
    BY <2>0, <2>2, <2>4, NothingToSend
  <2>5. CASE DigestOf(Fields, want) = store
    <3>1. store # Unseen
      BY <2>0, <2>5, DigestType, SecretsAssumption
    <3>2. PICK gs \in SUBSET Fields, s \in Assignments :
            /\ store = DigestOf(gs, s) /\ <<s, want>> \in before
            /\ <<s, app.held>> \in before /\ <<app.held, want>> \in before
      BY <1>3, <3>1 DEF Remembered, Compare
    <3>3. s = want
      BY <2>0, <2>5, <3>2 DEF GoesForth
    <3> QED
      BY <2>0, <2>2, <3>2, <3>3 DEF GoesForth
  <2> QED
    BY <2>2, <2>3, <2>4, <2>5 DEF SecretsChangedSince
<1>4. IInv /\ Remembered(before) /\ [Next]_vars
        => [Compare /\ pc' = "idle" => app.same /\ app.held = want]_vars
  BY <1>3
<1> QED
  BY <1>1, <1>2, <1>4, Invariance, PTL DEF SafeSpec, QuietPassIsHonest

=============================================================================
