------------------------- MODULE ConfigController_types -------------------------
(* Every step of ConfigController keeps the types of its variables.        *)
EXTENDS ConfigControllerProps, TLAPS, SequenceTheorems

LEMMA ReverseType ==
  ASSUME NEW S, NEW s \in Seq(S)
  PROVE  Reverse(s) \in Seq(S)
BY DEF Reverse

LEMMA InitType == Init => TypeOK
<1> SUFFICES ASSUME Init PROVE TypeOK
  OBVIOUS
<1>1. NoNames \in Ledger
  BY DEF NoNames, Ledger
<1>2. obj \in ObjType
  BY <1>1, ControllerAssumption DEF Init, ObjType
<1>3. app \in [Kinds -> [Names -> Cell \cup {Absent}]]
  BY DEF Init, EngineInit, Cell
<1>4. cr \in [spec : SpecType, managed : Ledger]
  BY <1>1, <1>2 DEF Init, ObjType
<1>5. <<>> \in Seq(Kinds)
  OBVIOUS
<1>6. obj \in ObjType /\ cache \in ObjType
  BY <1>2 DEF Init
<1>7. faults \in 0..MaxFaults /\ edits \in 0..MaxEdits /\ hands \in 0..MaxHands
  BY KindsAssumption, ControllerAssumption DEF Init, EngineInit
<1>8. managed \in Ledger /\ created \in Ledger
  BY <1>1 DEF Init, EngineInit
<1> QED
  BY <1>3, <1>4, <1>5, <1>6, <1>7, <1>8 DEF Init, EngineInit, TypeOK

LEMMA Current ==
  ASSUME TypeOK, plan # <<>>
  PROVE  cur \in Kinds /\ Tail(plan) \in Seq(Kinds)
BY HeadTailProperties DEF TypeOK, cur

(* Writing one resource of the application, or one entry of a ledger.      *)
LEMMA PutType ==
  ASSUME TypeOK, NEW k \in Kinds, NEW n \in Names, NEW c \in Cell \cup {Absent}
  PROVE  [app EXCEPT ![k][n] = c] \in [Kinds -> [Names -> Cell \cup {Absent}]]
BY DEF TypeOK

LEMMA LedgerType ==
  ASSUME NEW l \in Ledger, NEW k \in Kinds, NEW n \in Names
  PROVE  /\ [l EXCEPT ![k] = @ \cup {n}] \in Ledger
         /\ [l EXCEPT ![k] = @ \ {n}] \in Ledger
BY DEF Ledger

LEMMA DesiredType ==
  ASSUME TypeOK, NEW k \in Kinds
  PROVE  /\ Declared(cr.spec, k) \subseteq Names
         /\ \A n \in Declared(cr.spec, k) : cr.spec.desired[k][n] \in Vals
         /\ cr.managed[k] \subseteq Names
BY DEF TypeOK, SpecType, Declared, Ledger

LEMMA EngineType ==
  ASSUME TypeOK, PassShape, EngineStep, UNCHANGED ctrlVars
  PROVE  TypeOK'
<1> USE DEF appVars, applyVars, pruneVars, ctrlVars
<1>1. UNCHANGED <<obj, cache, cacheFresh, fresh, expired, edits, hands, touched, dropped, gaveUp>>
  OBVIOUS
<1>2. CASE SkipKind
  BY <1>1, <1>2, Current DEF SkipKind, NextKind, TypeOK
<1>3. CASE EnterKind
  BY <1>1, <1>3, Current, DesiredType DEF EnterKind, TypeOK
<1>4. ASSUME NEW n \in todo, ListFails(n) \/ Settled(n) \/ Unsettled(n)
      PROVE  TypeOK'
  BY <1>1, <1>4 DEF ListFails, Settled, Unsettled, ItemDone, TypeOK
<1>5. CASE Put \/ PutAnswerLost
  <2>1. cur \in Kinds /\ item \in Names /\ app[cur][item] \in Cell
        /\ cr.spec.desired[cur][item] \in Vals
    BY <1>5, Current, DesiredType DEF Put, PutAnswerLost, PassShape, TypeOK
  <2>2. Updated(item) \in [Kinds -> [Names -> Cell \cup {Absent}]]
    BY <2>1 DEF Updated, TypeOK, Cell
  <2>3. CASE Put
    BY <1>1, <2>3, <2>2 DEF Put, ItemDone, TypeOK
  <2>4. CASE PutAnswerLost
    BY <1>1, <2>4, <2>2, KindsAssumption DEF PutAnswerLost, ItemDone, TypeOK
  <2> QED
    BY <1>5, <2>3, <2>4
<1>6. CASE PutFails
  BY <1>1, <1>6 DEF PutFails, ItemDone, TypeOK
<1>7. CASE Post \/ PostAnswerLost
  <2>1. cur \in Kinds /\ item \in Names /\ cr.spec.desired[cur][item] \in Vals
    BY <1>7, Current, DesiredType DEF Post, PostAnswerLost, PassShape, TypeOK
  <2>2. Created(item) \in [Kinds -> [Names -> Cell \cup {Absent}]]
    BY <2>1, PutType DEF Created, Cell
  <2>3. <<cur, item>> \in Kinds \X Names
    BY <2>1
  <2>4. managed \in Ledger /\ created \in Ledger
    BY DEF TypeOK
  <2>5. CASE Post
    BY <1>1, <2>5, <2>1, <2>2, <2>4, LedgerType DEF Post, ItemDone, TypeOK
  <2>6. CASE PostAnswerLost
    BY <1>1, <2>6, <2>2, <2>3, KindsAssumption DEF PostAnswerLost, ItemDone, TypeOK
  <2> QED
    BY <1>7, <2>5, <2>6
<1>8. CASE PostFails
  BY <1>1, <1>8 DEF PostFails, ItemDone, TypeOK
<1>9. CASE SkipPrune \/ DeletesDone
  <2>1. plan # <<>>
    BY <1>9 DEF SkipPrune, DeletesDone, PassShape
  <2> QED
    BY <1>1, <1>9, <2>1, Current DEF SkipPrune, DeletesDone, NextKind, TypeOK
<1>10. PruneDue => plan # <<>>
  BY DEF PruneDue, PassShape
<1>11. CASE PruneRefused
  BY <1>1, <1>10, <1>11, Current DEF PruneRefused, PruneError, NextKind, TypeOK
<1>12. CASE ListCandidates
  BY <1>1, <1>10, <1>12 DEF ListCandidates, Candidates, Existing, TypeOK
<1>13. ASSUME NEW n \in cand, Delete(n) \/ DeleteAnswerLost(n)
       PROVE  TypeOK'
  <2>1. plan # <<>> /\ cur \in Kinds /\ n \in Names /\ <<cur, n>> \in Kinds \X Names
    BY <1>13, Current DEF Delete, DeleteAnswerLost, PassShape, TypeOK
  <2>2. app' \in [Kinds -> [Names -> Cell \cup {Absent}]]
    <3>1. [app EXCEPT ![cur][n] = Absent] \in [Kinds -> [Names -> Cell \cup {Absent}]]
      BY <2>1, PutType
    <3> QED
      BY <1>13, <3>1 DEF Delete, DeleteAnswerLost
  <2>3. removed' \subseteq Kinds \X Names
    BY <1>13, <2>1 DEF Delete, DeleteAnswerLost, TypeOK
  <2>4. managed \in Ledger
    BY DEF TypeOK
  <2>5. CASE Delete(n)
    BY <1>1, <2>5, <2>1, <2>2, <2>3, <2>4, LedgerType DEF Delete, TypeOK
  <2>6. CASE DeleteAnswerLost(n)
    <3>1. faults' \in 0..MaxFaults
      BY <2>6, KindsAssumption DEF DeleteAnswerLost, TypeOK
    <3>2. /\ pc' \in {"kind", "release"} /\ plan' \in Seq(Kinds) /\ errs' \in BOOLEAN
          /\ cand' = {} /\ stale' = {}
      BY <2>6, <2>1, Current DEF DeleteAnswerLost, PruneError, NextKind, TypeOK
    <3> QED
      BY <1>1, <2>6, <2>2, <2>3, <3>1, <3>2 DEF DeleteAnswerLost, TypeOK
  <2> QED
    BY <1>13, <2>5, <2>6
<1>14. ASSUME NEW n \in cand, DeleteFails(n)
       PROVE  TypeOK'
  <2>1. plan # <<>>
    BY <1>14 DEF DeleteFails, PassShape
  <2> QED
    BY <1>1, <1>14, <2>1, Current DEF DeleteFails, PruneError, NextKind, TypeOK
<1> QED
  BY <1>2, <1>3, <1>4, <1>5, <1>6, <1>7, <1>8, <1>9, <1>11, <1>12, <1>13, <1>14
     DEF EngineStep

LEMMA PassEndsType ==
  ASSUME TypeOK, PassEnds
  PROVE  /\ pc' = "idle" /\ mode' = "sync" /\ plan' \in Seq(Kinds)
         /\ todo' = {} /\ item' = NoItem /\ stale' = {} /\ failed' = FALSE
         /\ cand' = {} /\ managed' \in Ledger /\ errs' = FALSE /\ removed' = {}
         /\ cr' \in [spec : SpecType, managed : Ledger]
         /\ fresh' = FALSE /\ touched' = FALSE
BY DEF PassEnds, TypeOK, NoNames, Ledger

(* The steps of Reconcile around the engine.                               *)
LEMMA ControllerType ==
  ASSUME TypeOK, PassShape, ControllerStep
  PROVE  TypeOK'
<1> USE DEF appVars, applyVars, pruneVars, ctrlVars, boundVars, historyVars
<1>1. SyncOrder \in Seq(Kinds) /\ DefOrder \in Seq(Kinds) /\ <<>> \in Seq(Kinds)
      /\ Reverse(DefOrder) \in Seq(Kinds)
  BY ControllerAssumption, ReverseType
<1>2. ASSUME ReadCache
      PROVE  /\ cr' \in [spec : SpecType, managed : Ledger]
             /\ managed' \in Ledger
             /\ fresh' \in BOOLEAN
  BY <1>2 DEF ReadCache, TypeOK, ObjType
<1>3. CASE StartSync
  BY <1>1, <1>2, <1>3 DEF StartSync, ReadCache, Proceed, ToSync, ToStatus, TypeOK
<1>4. CASE StartDeletion
  BY <1>1, <1>2, <1>4 DEF StartDeletion, ReadCache, ToRelease, TypeOK
<1>5. CASE EnsureFinalizer
  <2>1. obj' \in ObjType
    BY <1>5 DEF EnsureFinalizer, TypeOK, ObjType
  <2> QED
    BY <1>1, <1>5, <2>1 DEF EnsureFinalizer, Proceed, ToSync, ToStatus, TypeOK
<1>6. CASE FinalizerRefused
  BY <1>6, PassEndsType DEF FinalizerRefused, TypeOK
<1>7. CASE Connect
  BY <1>1, <1>7 DEF Connect, ToStatus, TypeOK
<1>8. CASE EngineStep /\ UNCHANGED ctrlVars
  BY <1>8, EngineType
<1>9. CASE StageUnresolved
  <2>1. faults' \in 0..MaxFaults
    BY <1>9, KindsAssumption DEF StageUnresolved, TypeOK
  <2> QED
    BY <1>1, <1>9, <2>1, Current DEF StageUnresolved, ToStatus, NextKind, TypeOK
<1>10. CASE PlanDone
  BY <1>10 DEF PlanDone, TypeOK
<1>11. CASE WriteStatus
  <2>1. obj' \in ObjType
    BY <1>11 DEF WriteStatus, TypeOK, ObjType
  <2>2. cacheFresh' \in BOOLEAN
    BY <1>11 DEF WriteStatus, TypeOK
  <2>3. PassEnds
    BY <1>11 DEF WriteStatus
  <2> QED
    BY <1>11, <2>1, <2>2, <2>3, PassEndsType DEF WriteStatus, TypeOK
<1>12. CASE StatusRefused
  <2>1. faults' \in 0..MaxFaults
    BY <1>12, KindsAssumption DEF StatusRefused, TypeOK
  <2>2. dropped' \subseteq Kinds \X Names
    BY <1>12 DEF StatusRefused, Unrecorded, TypeOK
  <2> QED
    BY <1>12, <2>1, <2>2, PassEndsType DEF StatusRefused, TypeOK
<1>13. CASE Retry
  BY <1>13, PassEndsType DEF Retry, TypeOK
<1>14. CASE Release
  <2>1. obj' \in ObjType
    BY <1>14 DEF Release, TypeOK, ObjType
  <2>2. gaveUp' \in BOOLEAN
    BY <1>14 DEF Release, TypeOK
  <2> QED
    BY <1>14, <2>1, <2>2, PassEndsType DEF Release, TypeOK
<1>15. CASE ReleaseRefused
  BY <1>15, PassEndsType DEF ReleaseRefused, TypeOK
<1> QED
  BY <1>3, <1>4, <1>5, <1>6, <1>7, <1>8, <1>9, <1>10, <1>11, <1>12, <1>13, <1>14, <1>15
     DEF ControllerStep

(* The steps of the cluster, the users and time.                           *)
LEMMA WorldType ==
  ASSUME TypeOK,
         \/ CacheSync \/ Expire \/ DeleteObject \/ ByHand \/ Weather \/ Crash
         \/ \E s \in Specs : EditSpec(s)
  PROVE  TypeOK'
<1> USE DEF engineVars, objVars, boundVars, historyVars, appVars, applyVars, pruneVars, ctrlVars
<1>1. CASE CacheSync
  BY <1>1 DEF CacheSync, TypeOK
<1>2. CASE Expire
  BY <1>2 DEF Expire, TypeOK
<1>3. CASE DeleteObject
  <2>1. obj' \in ObjType
    BY <1>3 DEF DeleteObject, TypeOK, ObjType
  <2>2. edits' \in 0..MaxEdits
    BY <1>3, ControllerAssumption DEF DeleteObject, TypeOK
  <2> QED
    BY <1>3, <2>1, <2>2 DEF DeleteObject, Superseded, TypeOK
<1>4. ASSUME NEW s \in Specs, EditSpec(s)
      PROVE  TypeOK'
  <2>1. obj' \in ObjType
    BY <1>4, ControllerAssumption DEF EditSpec, TypeOK, ObjType
  <2>2. edits' \in 0..MaxEdits
    BY <1>4, ControllerAssumption DEF EditSpec, TypeOK
  <2>3. cacheFresh' \in BOOLEAN /\ fresh' \in BOOLEAN
    BY <1>4 DEF EditSpec, Superseded
  <2> QED
    BY <1>4, <2>1, <2>2, <2>3 DEF EditSpec, TypeOK
<1>5. CASE ByHand
  <2>1. hands' \in 0..MaxHands
    BY <1>5, ControllerAssumption DEF ByHand, TypeOK
  <2>2. PICK k \in Kinds, n \in Names :
          (\E x \in Vals : HandWrite(k, n, x)) \/ HandDelete(k, n)
    BY <1>5 DEF ByHand
  <2>3. ASSUME NEW x \in Vals, HandWrite(k, n, x)
        PROVE  TypeOK'
    <3>1. app' \in [Kinds -> [Names -> Cell \cup {Absent}]]
      BY <2>3 DEF HandWrite, TypeOK, Cell
    <3> QED
      BY <1>5, <2>1, <2>3, <3>1 DEF ByHand, HandWrite, TypeOK
  <2>4. CASE HandDelete(k, n)
    <3>1. app' \in [Kinds -> [Names -> Cell \cup {Absent}]]
      BY <2>4 DEF HandDelete, TypeOK
    <3>2. stale' \subseteq Names
      BY <2>4 DEF HandDelete, TypeOK
    <3> QED
      BY <1>5, <2>1, <2>4, <3>1, <3>2 DEF ByHand, HandDelete, TypeOK
  <2> QED
    BY <2>2, <2>3, <2>4
<1>6. CASE Weather
  <2>1. faults' \in 0..MaxFaults
    BY <1>6, KindsAssumption DEF Weather, Outage, Restored, TypeOK
  <2>2. up' \in BOOLEAN
    BY <1>6 DEF Weather, Outage, Restored
  <2> QED
    BY <1>6, <2>1, <2>2 DEF Weather, Outage, Restored, TypeOK
<1>7. CASE Crash
  <2>1. faults' \in 0..MaxFaults /\ dropped' \subseteq Kinds \X Names
    BY <1>7, KindsAssumption DEF Crash, Unrecorded, TypeOK
  <2> QED
    BY <1>7, <2>1, PassEndsType DEF Crash, TypeOK
<1> QED
  BY <1>1, <1>2, <1>3, <1>4, <1>5, <1>6, <1>7
=============================================================================
