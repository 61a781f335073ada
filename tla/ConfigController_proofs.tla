------------------------- MODULE ConfigController_proofs -------------------------
(* Proofs that the controller keeps its promises for every instance.       *)
EXTENDS ConfigController_types

(* The definitions that only group variables.                              *)
USE DEF appVars, applyVars, pruneVars, ctrlVars, objVars, boundVars, historyVars,
        engineVars

LEMMA TypeStep == IInv /\ [Next]_vars => TypeOK'
<1> SUFFICES ASSUME IInv, [Next]_vars PROVE TypeOK'
  OBVIOUS
<1>1. CASE ControllerStep
  BY <1>1, ControllerType DEF IInv
<1>2. CASE \/ CacheSync \/ Expire \/ DeleteObject \/ ByHand \/ Weather \/ Crash
           \/ \E s \in Specs : EditSpec(s)
  BY <1>2, WorldType DEF IInv
<1>3. CASE UNCHANGED vars
  BY <1>3 DEF IInv, TypeOK, vars
<1> QED
  BY <1>1, <1>2, <1>3 DEF Next

-----------------------------------------------------------------------------
(* Every copy of the ledger was earned.                                    *)

LEMMA EngineEarns ==
  ASSUME IInv, EngineStep
  PROVE  \A k \in Kinds : created[k] \subseteq created'[k] /\ managed'[k] \subseteq created'[k]
<1>1. managed \in Ledger /\ created \in Ledger
      /\ \A k \in Kinds : managed[k] \subseteq created[k]
  BY DEF IInv, TypeOK, EveryCopyWasEarned
<1>2. CASE Post
  BY <1>1, <1>2 DEF Post, Ledger
<1>3. ASSUME NEW n \in cand, Delete(n)
      PROVE  \A k \in Kinds : created[k] \subseteq created'[k] /\ managed'[k] \subseteq created'[k]
  BY <1>1, <1>3 DEF Delete, Ledger
<1>4. CASE UNCHANGED <<managed, created>>
  BY <1>1, <1>4
<1> QED
  BY <1>2, <1>3, <1>4
     DEF EngineStep, SkipKind, EnterKind, ListFails, Settled, Unsettled, Put,
         PutAnswerLost, PutFails, PostAnswerLost, PostFails, SkipPrune, PruneRefused,
         ListCandidates, DeletesDone, DeleteAnswerLost, DeleteFails

LEMMA EarnedStep == IInv /\ [Next]_vars => EveryCopyWasEarned'
<1> SUFFICES ASSUME IInv, [Next]_vars PROVE EveryCopyWasEarned'
  OBVIOUS
<1>1. obj \in ObjType /\ cache \in ObjType /\ cr \in [spec : SpecType, managed : Ledger]
      /\ EveryCopyWasEarned
  BY DEF IInv, TypeOK
<1>2. CASE StartSync \/ StartDeletion
  <2>1. /\ UNCHANGED <<obj, cache, created>> /\ managed' = cache.managed
        /\ cr' = [spec |-> cache.spec, managed |-> cache.managed]
    BY <1>2 DEF StartSync, StartDeletion, ReadCache
  <2>2. cr'.managed = cache.managed
    BY <2>1
  <2> QED
    BY <1>1, <2>1, <2>2 DEF EveryCopyWasEarned
<1>3. CASE EngineStep /\ UNCHANGED ctrlVars
  <2>1. UNCHANGED <<obj, cache, cr>>
    BY <1>3 DEF EngineStep, SkipKind, EnterKind, ListFails, Settled, Unsettled, Put,
         PutAnswerLost, PutFails, Post, PostAnswerLost, PostFails, SkipPrune, PruneRefused,
         ListCandidates, DeletesDone, Delete, DeleteAnswerLost, DeleteFails
  <2> QED
    BY <1>1, <1>3, <2>1, EngineEarns DEF EveryCopyWasEarned
<1>4. CASE EnsureFinalizer
  BY <1>1, <1>4 DEF EnsureFinalizer, EveryCopyWasEarned, ObjType
<1>5. ASSUME PassEnds, UNCHANGED <<created, cache>>,
             \A k \in Kinds : obj'.managed[k] \subseteq created[k]
      PROVE  EveryCopyWasEarned'
  BY <1>1, <1>5 DEF PassEnds, EveryCopyWasEarned, NoNames
<1>6. CASE FinalizerRefused \/ StatusRefused \/ Retry \/ ReleaseRefused
  BY <1>1, <1>5, <1>6 DEF FinalizerRefused, StatusRefused, Retry, ReleaseRefused,
                          EveryCopyWasEarned
<1>7. CASE WriteStatus
  BY <1>1, <1>5, <1>7 DEF WriteStatus, EveryCopyWasEarned, ObjType
<1>8. CASE Release
  BY <1>1, <1>5, <1>8 DEF Release, EveryCopyWasEarned, ObjType
<1>9. CASE Crash
  BY <1>1, <1>9 DEF Crash, PassEnds, EveryCopyWasEarned, NoNames
<1>10. CASE CacheSync
  BY <1>1, <1>10 DEF CacheSync, EveryCopyWasEarned
<1>11. CASE DeleteObject
  BY <1>1, <1>11 DEF DeleteObject, EveryCopyWasEarned, ObjType
<1>12. ASSUME NEW s \in Specs, EditSpec(s)
       PROVE  EveryCopyWasEarned'
  BY <1>1, <1>12 DEF EditSpec, EveryCopyWasEarned, ObjType
<1>13. CASE UNCHANGED <<obj, cache, cr, managed, created>>
  BY <1>1, <1>13 DEF EveryCopyWasEarned
<1>14. CASE Connect \/ StageUnresolved \/ PlanDone
  BY <1>13, <1>14 DEF Connect, StageUnresolved, PlanDone
<1>15. CASE Expire \/ ByHand \/ Weather
  BY <1>13, <1>15 DEF Expire, ByHand, HandWrite, HandDelete, Weather, Outage, Restored
<1>16. CASE UNCHANGED vars
  BY <1>13, <1>16 DEF vars
<1> QED
  BY <1>2, <1>3, <1>4, <1>6, <1>7, <1>8, <1>9, <1>10, <1>11, <1>12, <1>14, <1>15, <1>16
     DEF Next, ControllerStep

-----------------------------------------------------------------------------
(* The informer's copy, and the deletion timestamp, which is never removed. *)

LEMMA CopyStep ==
  IInv /\ [Next]_vars => (cacheFresh => cache = obj)' /\ (cache.deleting => obj.deleting)'
<1> SUFFICES ASSUME IInv, [Next]_vars
             PROVE  /\ cacheFresh' => cache' = obj'
                    /\ cache'.deleting => obj'.deleting
  OBVIOUS
<1>1. obj \in ObjType /\ (cacheFresh => cache = obj) /\ (cache.deleting => obj.deleting)
  BY DEF IInv, TypeOK
<1>2. CASE UNCHANGED <<obj, cache, cacheFresh>>
  BY <1>1, <1>2
<1>3. CASE cache' = obj' /\ obj' = obj
  BY <1>3
<1>4. CASE /\ cacheFresh' \in (IF errs /\ obj' = obj THEN {cacheFresh, FALSE} ELSE {FALSE})
           /\ obj'.deleting = obj.deleting /\ cache' = cache
  BY <1>1, <1>4
<1>5. CASE EnsureFinalizer
  BY <1>1, <1>5 DEF EnsureFinalizer, ObjType
<1>6. CASE WriteStatus
  BY <1>1, <1>4, <1>6 DEF WriteStatus, ObjType
<1>7. CASE Release
  BY <1>1, <1>7 DEF Release, ObjType
<1>8. CASE DeleteObject
  BY <1>1, <1>8 DEF DeleteObject, Superseded, ObjType
<1>9. ASSUME NEW s \in Specs, EditSpec(s)
      PROVE  (cacheFresh' => cache' = obj') /\ (cache'.deleting => obj'.deleting)
  BY <1>1, <1>9 DEF EditSpec, Superseded, ObjType
<1>10. CASE CacheSync \/ Crash
  BY <1>3, <1>10 DEF CacheSync, Crash
<1>11. CASE \/ StartSync \/ StartDeletion \/ FinalizerRefused \/ Connect
            \/ EngineStep /\ UNCHANGED ctrlVars
            \/ StageUnresolved \/ PlanDone \/ StatusRefused \/ Retry \/ ReleaseRefused
            \/ Expire \/ ByHand \/ Weather
  BY <1>2, <1>11 DEF StartSync, StartDeletion, ReadCache, FinalizerRefused, Connect,
       StageUnresolved, PlanDone, StatusRefused, Retry, ReleaseRefused, Expire, ByHand,
       Weather
<1>12. CASE UNCHANGED vars
  BY <1>2, <1>12 DEF vars
<1> QED
  BY <1>5, <1>6, <1>7, <1>8, <1>9, <1>10, <1>11, <1>12 DEF Next, ControllerStep

-----------------------------------------------------------------------------
(* Where the pass is determines what it holds.                             *)

LEMMA EngineShape ==
  ASSUME IInv, EngineStep, UNCHANGED ctrlVars
  PROVE  PassShape'
<1>1. PassShape /\ mode \in {"sync", "cleanup"} /\ TypeOK
  BY DEF IInv, TypeOK
<1>2. UNCHANGED <<cr, mode, obj>>
  BY DEF EngineStep, SkipKind, EnterKind, ListFails, Settled, Unsettled, Put,
         PutAnswerLost, PutFails, Post, PostAnswerLost, PostFails, SkipPrune, PruneRefused,
         ListCandidates, DeletesDone, Delete, DeleteAnswerLost, DeleteFails
<1>3. ASSUME pc' \in {"kind", "release"}, pc' = "release" => mode = "cleanup",
             mode = "cleanup" => pc \in {"kind", "delete"}
      PROVE  PassShape'
  BY <1>1, <1>2, <1>3 DEF PassShape
<1>4. CASE SkipKind
  BY <1>3, <1>4 DEF SkipKind, NextKind
<1>5. CASE EnterKind
  BY <1>1, <1>2, <1>5 DEF EnterKind, PassShape, Declared, cur
<1>6. ASSUME NEW n \in todo, ListFails(n) \/ Settled(n)
      PROVE  PassShape'
  BY <1>1, <1>2, <1>6 DEF ListFails, Settled, ItemDone, PassShape, Declared, cur
<1>7. ASSUME NEW n \in todo, Unsettled(n)
      PROVE  PassShape'
  BY <1>1, <1>2, <1>7 DEF Unsettled, NeedsWrite, PassShape, Declared, cur
<1>8. CASE Put \/ PutAnswerLost \/ PutFails \/ Post \/ PostAnswerLost \/ PostFails
  <2>1. pc \in {"put", "post"} /\ pc' = "apply" /\ todo' = todo \ {item} /\ plan' = plan
    BY <1>8 DEF Put, PutAnswerLost, PutFails, Post, PostAnswerLost, PostFails, ItemDone
  <2> QED
    BY <1>1, <1>2, <2>1 DEF PassShape, Declared, cur
<1>9. CASE SkipPrune
  BY <1>1, <1>3, <1>9 DEF SkipPrune, NextKind
<1>10. CASE PruneRefused
  BY <1>1, <1>3, <1>10 DEF PruneRefused, PruneDue, PruneError, NextKind
<1>11. CASE ListCandidates
  <2>1. Candidates \subseteq cr.managed[cur] \ Wanted
    BY DEF Candidates
  <2>2. /\ cur \in Prunable /\ plan # <<>>
        /\ mode = "sync" => /\ cr.spec.prune /\ ~cr.spec.observe /\ ~failed
                            /\ Declared(cr.spec, cur) # {}
        /\ mode = "cleanup" => cr.spec.delete /\ ~cr.spec.observe /\ obj.deleting
    BY <1>1, <1>11 DEF ListCandidates, PruneDue, PassShape
  <2> QED
    BY <1>1, <1>2, <1>11, <2>1, <2>2 DEF ListCandidates, Wanted, PassShape, Declared, cur
<1>12. ASSUME NEW n \in cand, Delete(n)
       PROVE  PassShape'
  BY <1>1, <1>2, <1>12 DEF Delete, PassShape, Declared, cur
<1>13. ASSUME NEW n \in cand, DeleteAnswerLost(n) \/ DeleteFails(n)
       PROVE  PassShape'
  BY <1>1, <1>3, <1>13 DEF DeleteAnswerLost, DeleteFails, PruneError, NextKind
<1>14. CASE DeletesDone
  BY <1>1, <1>3, <1>14 DEF DeletesDone, NextKind
<1> QED
  BY <1>4, <1>5, <1>6, <1>7, <1>8, <1>9, <1>10, <1>11, <1>12, <1>13, <1>14 DEF EngineStep

LEMMA ShapeStep == IInv /\ [Next]_vars => PassShape'
<1> SUFFICES ASSUME IInv, [Next]_vars PROVE PassShape'
  OBVIOUS
<1>1. PassShape /\ mode \in {"sync", "cleanup"} /\ TypeOK /\ obj \in ObjType
      /\ (cache.deleting => obj.deleting)
  BY DEF IInv, TypeOK
<1>2. ASSUME pc' \in {"idle", "finalizer", "connect", "kind", "status"}, mode' = "sync"
      PROVE  PassShape'
  BY <1>2 DEF PassShape
<1>3. ASSUME pc' = "release", mode' = "cleanup"
      PROVE  PassShape'
  BY <1>3 DEF PassShape
<1>4. CASE StartSync
  BY <1>1, <1>2, <1>4 DEF StartSync, ReadCache, Proceed, ToSync, ToStatus, PassShape
<1>5. CASE StartDeletion
  <2>1. CASE ToRelease(FALSE) \/ ToRelease(TRUE)
    BY <1>3, <2>1 DEF ToRelease
  <2>2. CASE /\ cache.spec.delete /\ ~cache.spec.observe
             /\ pc' = "kind" /\ mode' = "cleanup"
    <3>1. cr'.spec = cache.spec /\ obj' = obj /\ obj.deleting
      BY <1>1, <1>5 DEF StartDeletion, ReadCache
    <3> QED
      BY <2>2, <3>1 DEF PassShape
  <2> QED
    BY <1>5, <2>1, <2>2 DEF StartDeletion
<1>6. CASE EnsureFinalizer
  BY <1>2, <1>6 DEF EnsureFinalizer, Proceed, ToSync, ToStatus
<1>7. CASE FinalizerRefused \/ WriteStatus \/ StatusRefused \/ Retry \/ Release
           \/ ReleaseRefused \/ Crash
  BY <1>2, <1>7 DEF FinalizerRefused, WriteStatus, StatusRefused, Retry, Release,
                    ReleaseRefused, Crash, PassEnds
<1>8. CASE Connect
  BY <1>1, <1>2, <1>8 DEF Connect, ToStatus, PassShape
<1>9. CASE EngineStep /\ UNCHANGED ctrlVars
  BY <1>9, EngineShape
<1>10. CASE StageUnresolved
  BY <1>2, <1>10 DEF StageUnresolved, ToStatus, NextKind
<1>11. CASE PlanDone
  BY <1>1, <1>2, <1>3, <1>11 DEF PlanDone
<1>12. ASSUME UNCHANGED <<cr, mode, pc, plan, todo, item, failed, cand>>,
              obj.deleting => obj'.deleting,
              pc = "put" /\ item \notin stale' => app'[cur][item] # Absent
       PROVE  PassShape'
  BY <1>1, <1>12 DEF PassShape, Declared, cur
<1>13. ASSUME UNCHANGED <<cr, mode, pc, plan, todo, item, failed, cand, app, stale>>,
              obj.deleting => obj'.deleting
       PROVE  PassShape'
  BY <1>1, <1>12, <1>13 DEF PassShape
<1>14. CASE CacheSync \/ Expire \/ Weather
  BY <1>13, <1>14 DEF CacheSync, Expire, Weather, Outage, Restored
<1>15. CASE DeleteObject
  BY <1>1, <1>13, <1>15 DEF DeleteObject, ObjType
<1>16. ASSUME NEW s \in Specs, EditSpec(s)
       PROVE  PassShape'
  BY <1>1, <1>13, <1>16 DEF EditSpec, ObjType
<1>17. CASE ByHand
  <2>1. PICK k \in Kinds, n \in Names :
          (\E x \in Vals : HandWrite(k, n, x)) \/ HandDelete(k, n)
    BY <1>17 DEF ByHand
  <2>0. app \in [Kinds -> [Names -> Cell \cup {Absent}]]
    BY <1>1 DEF TypeOK
  <2>2. pc = "put" => cur \in Kinds /\ item \in Names
    BY <1>1, Current DEF PassShape, TypeOK
  <2>3. pc = "put" /\ item \notin stale => app[cur][item] # Absent
    BY <1>1 DEF PassShape
  <2>4. ASSUME NEW x \in Vals, HandWrite(k, n, x)
        PROVE  PassShape'
    <3>1. app[k][n] # Absent => [app[k][n] EXCEPT !.val = x] \in Cell
      BY <1>1 DEF TypeOK, Cell
    <3>2. [by |-> "hand", val |-> x] \in Cell
      BY DEF Cell
    <3>3. app'[k][n] # Absent
      BY <1>1, <2>4, <3>1, <3>2, KindsAssumption DEF HandWrite, TypeOK
    <3>4. \A l \in Kinds, m \in Names : app'[l][m] = app[l][m] \/ (l = k /\ m = n)
      <4> DEFINE c == IF app[k][n] = Absent THEN [by |-> "hand", val |-> x]
                      ELSE [app[k][n] EXCEPT !.val = x]
      <4>1. app' = [app EXCEPT ![k][n] = c]
        BY <2>4 DEF HandWrite
      <4> HIDE DEF c
      <4> QED
        BY <2>0, <4>1
    <3>5. pc = "put" /\ item \notin stale => app'[cur][item] # Absent
      BY <2>2, <2>3, <3>3, <3>4
    <3> QED
      BY <1>12, <1>17, <2>4, <3>5 DEF HandWrite, ByHand
  <2>5. CASE HandDelete(k, n)
    <3>1. \A l \in Kinds, m \in Names : app'[l][m] = app[l][m] \/ (l = k /\ m = n)
      <4>1. app' = [app EXCEPT ![k][n] = Absent]
        BY <2>5 DEF HandDelete
      <4> QED
        BY <2>0, <4>1
    <3>2. pc = "put" /\ item \notin stale' => app'[cur][item] # Absent
      BY <2>2, <2>3, <2>5, <3>1 DEF HandDelete
    <3> QED
      BY <1>12, <1>17, <2>5, <3>2 DEF HandDelete, ByHand
  <2> QED
    BY <2>1, <2>4, <2>5
<1>18. CASE UNCHANGED vars
  BY <1>13, <1>18 DEF vars
<1> QED
  BY <1>4, <1>5, <1>6, <1>7, <1>8, <1>9, <1>10, <1>11, <1>14, <1>15, <1>16, <1>17, <1>18
     DEF Next, ControllerStep

-----------------------------------------------------------------------------
(* What a step of the engine does to the resources the operator made.      *)

LEMMA EngineFrame ==
  ASSUME EngineStep
  PROVE  UNCHANGED <<cr, mode>> /\ lost \subseteq lost'
BY DEF EngineStep, SkipKind, EnterKind, ListFails, Settled, Unsettled, Put,
       PutAnswerLost, PutFails, Post, PostAnswerLost, PostFails, SkipPrune, PruneRefused,
       ListCandidates, DeletesDone, Delete, DeleteAnswerLost, DeleteFails

(* A made resource was there before and keeps its record, or is new and    *)
(* declared, and recorded unless its acknowledgement was lost.             *)
LEMMA EngineMakes ==
  ASSUME IInv, EngineStep, NEW k \in Kinds, NEW n \in Names, OperatorMade(k, n)'
  PROVE  /\ n \in managed[k] => n \in managed'[k]
         /\ \/ OperatorMade(k, n)
            \/ /\ mode = "sync" /\ n \in Declared(cr.spec, k)
               /\ \/ n \in managed'[k] /\ pc' = "apply"
                  \/ <<k, n>> \in lost'
<1>1. TypeOK /\ PassShape
  BY DEF IInv
<1>2. app \in [Kinds -> [Names -> Cell \cup {Absent}]] /\ managed \in Ledger
  BY <1>1 DEF TypeOK
<1>3. CASE UNCHANGED <<app, managed>>
  BY <1>3 DEF OperatorMade
<1>4. CASE Put \/ PutAnswerLost
  <2>1. app' = Updated(item) /\ managed' = managed /\ cur \in Kinds /\ item \in Names
        /\ app[cur][item] # Absent
    BY <1>1, <1>4, Current DEF Put, PutAnswerLost, ItemDone, PassShape, TypeOK
  <2>2. app[cur][item] \in Cell
    BY <1>2, <2>1
  <2>3. Updated(item)[cur][item].by = app[cur][item].by
    BY <1>2, <2>1, <2>2 DEF Updated, Cell
  <2>4. \/ k = cur /\ n = item
        \/ app'[k][n] = app[k][n]
    BY <1>2, <2>1 DEF Updated
  <2> QED
    BY <2>1, <2>3, <2>4 DEF OperatorMade
<1>5. CASE Post \/ PostAnswerLost
  <2>1. app' = Created(item) /\ cur \in Kinds /\ item \in Names /\ pc' = "apply"
        /\ mode = "sync" /\ item \in Declared(cr.spec, cur)
    BY <1>1, <1>5, Current DEF Post, PostAnswerLost, ItemDone, PassShape, TypeOK
  <2>2. \/ k = cur /\ n = item
        \/ app'[k][n] = app[k][n]
    BY <1>2, <2>1 DEF Created
  <2>3. n \in managed[k] => n \in managed'[k]
    BY <1>2, <1>5 DEF Post, PostAnswerLost, Ledger
  <2>4. item \in managed'[cur] \/ <<cur, item>> \in lost'
    BY <1>2, <1>5, <2>1 DEF Post, PostAnswerLost, Ledger
  <2> QED
    BY <2>1, <2>2, <2>3, <2>4 DEF OperatorMade
<1>6. ASSUME NEW m \in cand, Delete(m) \/ DeleteAnswerLost(m)
      PROVE  OperatorMade(k, n) /\ (n \in managed[k] => n \in managed'[k])
  <2>1. app' = [app EXCEPT ![cur][m] = Absent] /\ cur \in Kinds /\ m \in Names
    BY <1>1, <1>6, Current DEF Delete, DeleteAnswerLost, PassShape, TypeOK
  <2>2. ~(k = cur /\ n = m) /\ app'[k][n] = app[k][n]
    BY <1>2, <2>1 DEF OperatorMade
  <2>3. managed' = managed \/ managed' = [managed EXCEPT ![cur] = @ \ {m}]
    BY <1>6 DEF Delete, DeleteAnswerLost
  <2>4. n \in managed[k] => n \in managed'[k]
    BY <1>2, <2>1, <2>2, <2>3 DEF Ledger
  <2> QED
    BY <2>2, <2>4 DEF OperatorMade
<1> QED
  BY <1>3, <1>4, <1>5, <1>6
     DEF EngineStep, SkipKind, EnterKind, ListFails, Settled, Unsettled, PutFails,
         PostFails, SkipPrune, PruneRefused, ListCandidates, DeletesDone, DeleteFails

(* What a sync forgets, it does not want.                                  *)
LEMMA EngineForgets ==
  ASSUME IInv, EngineStep, mode = "sync", NEW k \in Kinds,
         NEW n \in managed[k] \ managed'[k]
  PROVE  n \notin Declared(cr.spec, k)
<1>1. TypeOK /\ PassShape
  BY DEF IInv
<1>2. managed \in Ledger
  BY <1>1 DEF TypeOK
<1>3. CASE Post
  BY <1>2, <1>3 DEF Post, Ledger
<1>4. ASSUME NEW m \in cand, Delete(m)
      PROVE  n \notin Declared(cr.spec, k)
  <2>1. cur \in Kinds /\ pc = "delete" /\ managed' = [managed EXCEPT ![cur] = @ \ {m}]
    BY <1>1, <1>4, Current DEF Delete, PassShape
  <2>2. k = cur /\ n = m
    BY <1>2, <2>1 DEF Ledger
  <2>3. cand \cap Declared(cr.spec, cur) = {}
    BY <1>1, <2>1 DEF PassShape
  <2> QED
    BY <2>2, <2>3
<1>5. CASE UNCHANGED managed
  BY <1>5
<1> QED
  BY <1>3, <1>4, <1>5
     DEF EngineStep, SkipKind, EnterKind, ListFails, Settled, Unsettled, Put,
         PutAnswerLost, PutFails, PostAnswerLost, PostFails, SkipPrune, PruneRefused,
         ListCandidates, DeletesDone, DeleteAnswerLost, DeleteFails

(* Users never make a resource look like the operator's.                   *)
LEMMA HandsMakeNothing ==
  ASSUME TypeOK, NEW k \in Kinds, NEW n \in Names,
         ByHand, OperatorMade(k, n)'
  PROVE  OperatorMade(k, n)
<1>1. app \in [Kinds -> [Names -> Cell \cup {Absent}]]
  BY DEF TypeOK
<1>2. PICK l \in Kinds, m \in Names :
        (\E x \in Vals : HandWrite(l, m, x)) \/ HandDelete(l, m)
  BY DEF ByHand
<1>3. ASSUME NEW x \in Vals, HandWrite(l, m, x)
      PROVE  OperatorMade(k, n)
  <2> DEFINE c == IF app[l][m] = Absent THEN [by |-> "hand", val |-> x]
                  ELSE [app[l][m] EXCEPT !.val = x]
  <2>1. app' = [app EXCEPT ![l][m] = c]
    BY <1>3 DEF HandWrite
  <2>2. app[l][m] # Absent => app[l][m] \in Cell
    BY <1>1
  <2>3. c.by = "operator" => app[l][m] # Absent /\ app[l][m].by = "operator"
    BY <2>2 DEF Cell
  <2> HIDE DEF c
  <2>4. (k = l /\ n = m /\ app'[k][n] = c) \/ app'[k][n] = app[k][n]
    BY <1>1, <2>1
  <2> QED
    BY <2>3, <2>4 DEF OperatorMade
<1>4. CASE HandDelete(l, m)
  <2>1. app' = [app EXCEPT ![l][m] = Absent]
    BY <1>4 DEF HandDelete
  <2>2. app'[k][n] = Absent \/ app'[k][n] = app[k][n]
    BY <1>1, <2>1
  <2> QED
    BY <2>2 DEF OperatorMade
<1> QED
  BY <1>2, <1>3, <1>4

-----------------------------------------------------------------------------
(* A pass on the latest version has dropped only dead, undeclared names.   *)

LEMMA DroppedStep == IInv /\ [Next]_vars => DroppedAreDead'
<1> SUFFICES ASSUME IInv, [Next]_vars, fresh',
                    NEW k \in Kinds, NEW n \in obj'.managed[k] \ managed'[k]
             PROVE  ~OperatorMade(k, n)' /\ (mode' = "sync" => n \notin Declared(cr'.spec, k))
  BY DEF DroppedAreDead, OperatorMade, Declared
<1> DEFINE Dead == ~OperatorMade(k, n)' /\ (mode' = "sync" => n \notin Declared(cr'.spec, k))
<1>1. /\ TypeOK /\ PassShape /\ obj \in ObjType
      /\ (cacheFresh => cache = obj) /\ DroppedAreDead
  BY DEF IInv, TypeOK
<1>2. n \in Names
  <2>1. TypeOK'
    BY TypeStep
  <2> QED
    BY <2>1 DEF TypeOK, ObjType, Ledger
<1>3. ASSUME ReadCache
      PROVE  Dead
  BY <1>1, <1>3 DEF ReadCache
<1>4. CASE EngineStep /\ UNCHANGED ctrlVars
  <2>1. UNCHANGED <<obj, fresh, cr, mode>>
    BY <1>4, EngineFrame
  <2>2. CASE n \in managed[k]
    <3>1. ~OperatorMade(k, n)'
      BY <1>2, <1>4, <2>2, EngineMakes
    <3>2. mode = "sync" => n \notin Declared(cr.spec, k)
      BY <1>2, <1>4, <2>2, EngineForgets
    <3> QED
      BY <2>1, <3>1, <3>2
  <2>3. CASE n \notin managed[k]
    <3>1. ~OperatorMade(k, n) /\ (mode = "sync" => n \notin Declared(cr.spec, k))
      BY <1>1, <2>1, <2>3 DEF DroppedAreDead
    <3>2. ~OperatorMade(k, n)'
      BY <1>2, <1>4, <3>1, EngineMakes
    <3> QED
      BY <2>1, <3>1, <3>2
  <2> QED
    BY <2>2, <2>3
<1>5. ASSUME fresh, obj'.managed = obj.managed, UNCHANGED <<managed, cr>>,
             mode' = mode \/ mode = "sync",
             OperatorMade(k, n)' => OperatorMade(k, n)
      PROVE  Dead
  BY <1>1, <1>5 DEF DroppedAreDead
<1>6. CASE EnsureFinalizer
  <2>1. obj'.managed = obj.managed /\ mode = "sync"
    BY <1>1, <1>6 DEF EnsureFinalizer, ObjType, PassShape
  <2> QED
    BY <1>5, <1>6, <2>1 DEF EnsureFinalizer, OperatorMade
<1>7. CASE Connect \/ StageUnresolved \/ PlanDone
  BY <1>1, <1>5, <1>7
     DEF Connect, StageUnresolved, PlanDone, ToStatus, PassShape, OperatorMade
<1>8. CASE ByHand
  <2>1. UNCHANGED <<obj, fresh, managed, cr, mode>>
    BY <1>8 DEF ByHand, HandWrite, HandDelete
  <2> QED
    BY <1>1, <1>2, <1>5, <1>8, <2>1, HandsMakeNothing
<1>9. CASE CacheSync \/ Expire \/ Weather \/ UNCHANGED vars
  BY <1>5, <1>9 DEF CacheSync, Expire, Weather, Outage, Restored, OperatorMade, vars
<1>10. ~PassEnds /\ ~Superseded
  BY DEF PassEnds, Superseded
<1> QED
  BY <1>3, <1>4, <1>6, <1>7, <1>8, <1>9, <1>10
     DEF Next, ControllerStep, StartSync, StartDeletion, FinalizerRefused, WriteStatus,
         StatusRefused, Retry, Release, ReleaseRefused, DeleteObject, EditSpec, Crash

-----------------------------------------------------------------------------
(* A live resource of the operator is recorded, written off, or in flight. *)

LEMMA TrackedStep == IInv /\ [Next]_vars => CreationsAreTracked'
<1> SUFFICES ASSUME IInv, [Next]_vars, NEW k \in Kinds, NEW n \in Names,
                    OperatorMade(k, n)'
             PROVE  \/ n \in obj'.managed[k] \/ <<k, n>> \in dropped' \/ <<k, n>> \in lost'
                    \/ /\ n \in managed'[k] /\ mode' = "sync"
                       /\ pc' \in {"kind", "apply", "put", "post", "delete", "status"}
  BY DEF CreationsAreTracked
<1> DEFINE Working == {"kind", "apply", "put", "post", "delete", "status"}
           Tracked == \/ n \in obj'.managed[k] \/ <<k, n>> \in dropped' \/ <<k, n>> \in lost'
                      \/ n \in managed'[k] /\ mode' = "sync" /\ pc' \in Working
<1>1. /\ TypeOK /\ PassShape /\ obj \in ObjType /\ mode \in {"sync", "cleanup"}
      /\ DroppedAreDead /\ CreationsAreTracked
  BY DEF IInv, TypeOK
<1>2. CASE EngineStep /\ UNCHANGED ctrlVars
  <2>1. UNCHANGED <<obj, dropped, cr, mode>> /\ lost \subseteq lost'
    BY <1>2, EngineFrame
  <2>2. pc \in Working /\ (mode = "sync" => pc' \in Working)
    BY <1>1, <1>2
       DEF EngineStep, SkipKind, EnterKind, ListFails, Settled, Unsettled, Put,
           PutAnswerLost, PutFails, Post, PostAnswerLost, PostFails, SkipPrune,
           PruneRefused, ListCandidates, DeletesDone, Delete, DeleteAnswerLost,
           DeleteFails, ItemDone, PruneError, PruneDue, NextKind
  <2>3. n \in managed[k] => n \in managed'[k]
    BY <1>2, EngineMakes
  <2>4. CASE OperatorMade(k, n)
    BY <1>1, <2>1, <2>2, <2>3, <2>4 DEF CreationsAreTracked
  <2>5. CASE \/ mode = "sync" /\ n \in managed'[k] /\ pc' = "apply"
           \/ <<k, n>> \in lost'
    BY <2>1, <2>5
  <2> QED
    BY <1>2, <2>4, <2>5, EngineMakes
<1>3. ASSUME UNCHANGED <<dropped, lost>>, OperatorMade(k, n), obj'.managed = obj.managed,
             \/ ~(mode = "sync" /\ pc \in Working)
             \/ UNCHANGED managed /\ mode' = "sync" /\ pc' \in Working
      PROVE  Tracked
  BY <1>1, <1>3 DEF CreationsAreTracked
<1>4. app' = app => OperatorMade(k, n)
  BY DEF OperatorMade
<1>5. CASE StartSync \/ StartDeletion
  BY <1>1, <1>3, <1>4, <1>5 DEF StartSync, StartDeletion, ReadCache
<1>6. CASE EnsureFinalizer \/ FinalizerRefused \/ Connect
  <2>1. obj'.managed = obj.managed
    BY <1>1, <1>6 DEF EnsureFinalizer, FinalizerRefused, Connect, ObjType
  <2> QED
    BY <1>3, <1>4, <1>6, <2>1 DEF EnsureFinalizer, FinalizerRefused, Connect
<1>7. CASE StageUnresolved
  BY <1>3, <1>4, <1>7 DEF StageUnresolved, ToStatus, NextKind
<1>8. CASE PlanDone
  BY <1>1, <1>3, <1>4, <1>8 DEF PlanDone
<1>9. CASE WriteStatus
  <2>1. obj'.managed = managed /\ fresh /\ app' = app /\ UNCHANGED <<dropped, lost>>
    BY <1>1, <1>9 DEF WriteStatus, ObjType
  <2>2. n \in obj.managed[k] => n \in managed[k]
    BY <1>1, <1>4, <2>1 DEF DroppedAreDead
  <2> QED
    BY <1>1, <1>4, <2>1, <2>2 DEF CreationsAreTracked
<1>10. CASE StatusRefused \/ Crash
  <2>1. obj' = obj /\ app' = app /\ dropped' = dropped \cup Unrecorded /\ UNCHANGED lost
    BY <1>10 DEF StatusRefused, Crash
  <2>2. n \in managed[k] => n \in obj.managed[k] \/ <<k, n>> \in Unrecorded
    BY DEF Unrecorded
  <2> QED
    BY <1>1, <1>4, <2>1, <2>2 DEF CreationsAreTracked
<1>11. CASE Retry \/ Release \/ ReleaseRefused
  <2>1. obj'.managed = obj.managed
    BY <1>1, <1>11 DEF Retry, Release, ReleaseRefused, ObjType
  <2> QED
    BY <1>3, <1>4, <1>11, <2>1 DEF Retry, Release, ReleaseRefused
<1>12. ASSUME UNCHANGED <<dropped, lost, managed, mode, pc>>, OperatorMade(k, n),
              obj'.managed = obj.managed
       PROVE  Tracked
  BY <1>1, <1>12 DEF CreationsAreTracked
<1>13. CASE ByHand
  BY <1>1, <1>12, <1>13, HandsMakeNothing DEF ByHand, HandWrite, HandDelete
<1>14. CASE CacheSync \/ Expire \/ Weather \/ UNCHANGED vars
  BY <1>4, <1>12, <1>14 DEF CacheSync, Expire, Weather, Outage, Restored, vars
<1>15. CASE DeleteObject
  <2>1. obj'.managed = obj.managed
    BY <1>1, <1>15 DEF DeleteObject, ObjType
  <2> QED
    BY <1>4, <1>12, <1>15, <2>1 DEF DeleteObject
<1>16. ASSUME NEW s \in Specs, EditSpec(s)
       PROVE  Tracked
  <2>1. obj'.managed = obj.managed
    BY <1>1, <1>16 DEF EditSpec, ObjType
  <2> QED
    BY <1>4, <1>12, <1>16, <2>1 DEF EditSpec
<1> QED
  BY <1>2, <1>5, <1>6, <1>7, <1>8, <1>9, <1>10, <1>11, <1>13, <1>14, <1>15, <1>16
     DEF Next, ControllerStep

-----------------------------------------------------------------------------
(* The results.                                                            *)

LEMMA InitEstablishes == Init => IInv
<1> SUFFICES ASSUME Init PROVE IInv
  OBVIOUS
<1>1. TypeOK
  BY InitType
<1>2. PassShape
  BY DEF Init, EngineInit, PassShape
<1>3. obj.managed = NoNames /\ cache = obj /\ managed = NoNames
      /\ cr.managed = NoNames /\ ~fresh
  BY DEF Init, EngineInit
<1>4. EveryCopyWasEarned
  BY <1>3 DEF EveryCopyWasEarned, NoNames
<1>5. \A k \in Kinds, n \in Names : ~OperatorMade(k, n)
  BY KindsAssumption DEF Init, EngineInit, OperatorMade
<1> QED
  BY <1>1, <1>2, <1>3, <1>4, <1>5 DEF IInv, DroppedAreDead, CreationsAreTracked

(* The strengthened invariant holds in every reachable state: the one the  *)
(* results below are read off from.                                        *)
THEOREM Inductive == SafeSpec => []IInv
<1>1. IInv /\ [Next]_vars => IInv'
  BY TypeStep, ShapeStep, EarnedStep, CopyStep, DroppedStep, TrackedStep DEF IInv
<1> QED
  BY <1>1, InitEstablishes, PTL DEF SafeSpec

(* No interleaving of passes, users, edits, crashes and lost answers takes *)
(* a variable out of its type.                                             *)
THEOREM TypeCorrect == SafeSpec => []TypeOK
<1>1. IInv => TypeOK
  BY DEF IInv
<1> QED
  BY <1>1, Inductive, PTL

(* status.managedResources names only resources whose creation was         *)
(* acknowledged to the operator: adopting an existing one confers nothing. *)
THEOREM LedgerIsEarned == SafeSpec => []LedgerWasEarned
<1>1. IInv => LedgerWasEarned
  BY DEF IInv, EveryCopyWasEarned, LedgerWasEarned
<1> QED
  BY <1>1, Inductive, PTL

(* Whatever the operator leaves behind unrecorded was lost to a refused    *)
(* status write, a crash or a lost answer: there is no fourth way.         *)
THEOREM OrphansExplained == SafeSpec => []OrphansAreExplained
<1>1. IInv => OrphansAreExplained
  BY DEF IInv, CreationsAreTracked, OrphansAreExplained
<1> QED
  BY <1>1, Inductive, PTL

(* Only an engine step of the operator changes the application.            *)
LEMMA OperatorActsInEngine ==
  ASSUME IInv, [Next]_vars, ByOperator
  PROVE  EngineStep /\ UNCHANGED ctrlVars
<1>1. hands \in Nat
  BY ControllerAssumption DEF IInv, TypeOK
<1>2. ~ByHand
  BY <1>1 DEF ByHand, ByOperator
<1>3. app' # app
  BY DEF ByOperator
<1> QED
  BY <1>2, <1>3
     DEF Next, ControllerStep, StartSync, StartDeletion, ReadCache, EnsureFinalizer,
         FinalizerRefused, Connect, StageUnresolved, PlanDone, WriteStatus, StatusRefused,
         Retry, Release, ReleaseRefused, CacheSync, EditSpec, DeleteObject, Expire,
         Weather, Outage, Restored, Crash, vars

(* A pass under driftPolicy observe sends no request that changes the      *)
(* application, cleanup of a deleted resource included.                    *)
THEOREM ObserveChangesNothing == SafeSpec => ObserveIsReadOnly
<1>1. IInv /\ [Next]_vars => [ByOperator => ~cr.spec.observe]_vars
  <2> SUFFICES ASSUME IInv, [Next]_vars, ByOperator PROVE ~cr.spec.observe
    OBVIOUS
  <2>1. EngineStep /\ app' # app
    BY OperatorActsInEngine DEF ByOperator
  <2>2. pc \in {"put", "post", "delete"}
    BY <2>1 DEF EngineStep, SkipKind, EnterKind, ListFails, Settled, Unsettled, Put,
         PutAnswerLost, PutFails, Post, PostAnswerLost, PostFails, SkipPrune, PruneRefused,
         ListCandidates, DeletesDone, Delete, DeleteAnswerLost, DeleteFails
  <2> QED
    BY <2>2 DEF IInv, PassShape
<1> QED
  BY <1>1, Inductive, PTL DEF SafeSpec, ObserveIsReadOnly

(* Only a deletion of a candidate of the current kind removes a resource.  *)
LEMMA ErasesCandidates ==
  ASSUME IInv, [Next]_vars, NEW k \in Kinds, NEW n \in Names, Erased(k, n)
  PROVE  pc = "delete" /\ k = cur /\ n \in cand
<1>1. TypeOK /\ PassShape
  BY DEF IInv
<1>2. app \in [Kinds -> [Names -> Cell \cup {Absent}]]
  BY <1>1 DEF TypeOK
<1>3. EngineStep /\ app'[k][n] # app[k][n] /\ app'[k][n] = Absent
  BY OperatorActsInEngine DEF Erased
<1>4. ~(Put \/ PutAnswerLost \/ Post \/ PostAnswerLost)
  <2>1. CASE Put \/ PutAnswerLost
    <3>1. app' = Updated(item) /\ cur \in Kinds /\ item \in Names
          /\ app[cur][item] # Absent /\ cr.spec.desired[cur][item] \in Vals
      BY <1>1, <2>1, Current, DesiredType
         DEF Put, PutAnswerLost, ItemDone, PassShape, TypeOK
    <3>2. Updated(item)[cur][item] \in Cell
      BY <1>2, <3>1 DEF Updated, Cell
    <3> QED
      BY <1>2, <1>3, <3>1, <3>2, KindsAssumption DEF Updated
  <2>2. CASE Post \/ PostAnswerLost
    <3>1. app' = Created(item) /\ cur \in Kinds /\ item \in Names
          /\ cr.spec.desired[cur][item] \in Vals
      BY <1>1, <2>2, Current, DesiredType
         DEF Post, PostAnswerLost, ItemDone, PassShape, TypeOK
    <3>2. Created(item)[cur][item] \in Cell
      BY <1>2, <3>1 DEF Created, Cell
    <3> QED
      BY <1>2, <1>3, <3>1, <3>2, KindsAssumption DEF Created
  <2> QED
    BY <2>1, <2>2
<1>5. PICK m \in cand : Delete(m) \/ DeleteAnswerLost(m)
  BY <1>3, <1>4 DEF EngineStep, SkipKind, EnterKind, ListFails, Settled, Unsettled,
     PutFails, PostFails, SkipPrune, PruneRefused, ListCandidates, DeletesDone, DeleteFails
<1>6. pc = "delete" /\ app' = [app EXCEPT ![cur][m] = Absent] /\ cur \in Kinds
      /\ m \in Names
  BY <1>1, <1>5, Current DEF Delete, DeleteAnswerLost, PassShape, TypeOK
<1>7. k = cur /\ n = m
  BY <1>2, <1>3, <1>6
<1> QED
  BY <1>5, <1>6, <1>7

(* A request that deletes hits a prunable resource the operator created,   *)
(* undesired in a sync that applied its kind whole, or marked for deletion *)
(* with its custom resource.                                               *)
THEOREM DeletesJustified == SafeSpec => DeletesAreJustified
<1> DEFINE Justified == \A k \in Kinds, n \in Names :
       Erased(k, n) =>
         /\ n \in created[k] /\ k \in Prunable
         /\ \/ /\ mode = "sync" /\ cr.spec.prune /\ ~failed
               /\ n \notin Declared(cr.spec, k) /\ Declared(cr.spec, k) # {}
            \/ mode = "cleanup" /\ cr.spec.delete /\ obj.deleting
<1>1. IInv /\ [Next]_vars => [Justified]_vars
  <2> SUFFICES ASSUME IInv, [Next]_vars, NEW k \in Kinds, NEW n \in Names, Erased(k, n)
               PROVE  /\ n \in created[k] /\ k \in Prunable
                      /\ \/ /\ mode = "sync" /\ cr.spec.prune /\ ~failed
                            /\ n \notin Declared(cr.spec, k) /\ Declared(cr.spec, k) # {}
                         \/ mode = "cleanup" /\ cr.spec.delete /\ obj.deleting
    OBVIOUS
  <2>1. PassShape /\ EveryCopyWasEarned /\ mode \in {"sync", "cleanup"}
    BY DEF IInv, TypeOK
  <2>2. pc = "delete" /\ k = cur /\ n \in cand
    BY ErasesCandidates
  <2> QED
    BY <2>1, <2>2 DEF PassShape, EveryCopyWasEarned
<1> QED
  BY <1>1, Inductive, PTL DEF SafeSpec, DeletesAreJustified

(* No write of the status, by a pass however stale, drops the name of a    *)
(* resource that is still there and that the operator made.                *)
THEOREM LedgerKeeps == SafeSpec => LedgerKeepsLiveResources
<1> DEFINE Kept == \A k \in Kinds : \A n \in obj.managed[k] \ obj'.managed[k] :
                     ~OperatorMade(k, n)
<1>1. IInv /\ [Next]_vars => [Kept]_vars
  <2> SUFFICES ASSUME IInv, [Next]_vars, NEW k \in Kinds,
                      NEW n \in obj.managed[k] \ obj'.managed[k]
               PROVE  ~OperatorMade(k, n)
    OBVIOUS
  <2>1. obj \in ObjType /\ DroppedAreDead
    BY DEF IInv, TypeOK
  <2>2. CASE WriteStatus
    BY <2>1, <2>2 DEF WriteStatus, ObjType, DroppedAreDead
  <2>3. ~WriteStatus => obj'.managed = obj.managed
    BY <2>1 DEF Next, ControllerStep, StartSync, StartDeletion, ReadCache, EnsureFinalizer,
         FinalizerRefused, Connect, StageUnresolved, PlanDone, StatusRefused,
         Retry, Release, ReleaseRefused, CacheSync, EditSpec, DeleteObject, Expire,
         ByHand, Weather, Crash, vars, ObjType
  <2> QED
    BY <2>2, <2>3
<1> QED
  BY <1>1, Inductive, PTL DEF SafeSpec, LedgerKeepsLiveResources

-----------------------------------------------------------------------------
(* The refinement: what a step of the controller is to the contract.       *)

LEMMA EngineRefines ==
  ASSUME IInv, EngineStep, UNCHANGED ctrlVars
  PROVE  Contract!Next \/ UNCHANGED <<app, created, obj.managed, hands>>
<1>1. TypeOK /\ PassShape /\ EveryCopyWasEarned /\ UNCHANGED <<obj, hands>>
  BY DEF IInv
<1>2. CASE Put \/ PutAnswerLost
  <2>1. /\ app' = Updated(item) /\ cur \in Kinds /\ item \in Names
        /\ cur \notin CreateOnly /\ app[cur][item] # Absent
        /\ cr.spec.desired[cur][item] \in Vals /\ created' = created
    BY <1>1, <1>2, Current, DesiredType
       DEF Put, PutAnswerLost, ItemDone, PassShape, TypeOK
  <2>2. Contract!Correct(cur, item, cr.spec.desired[cur][item])
    BY <1>1, <2>1 DEF Updated, Contract!Correct, Contract!Put
  <2> QED
    BY <2>1, <2>2 DEF Contract!Next
<1>3. CASE Post \/ PostAnswerLost
  <2>1. /\ app' = Created(item) /\ cur \in Kinds /\ item \in Names
        /\ app[cur][item] = Absent /\ cr.spec.desired[cur][item] \in Vals
        /\ \/ created' = created
           \/ created' = [created EXCEPT ![cur] = @ \cup {item}]
    BY <1>1, <1>3, Current, DesiredType
       DEF Post, PostAnswerLost, ItemDone, PassShape, TypeOK
  <2>2. Contract!Create(cur, item, cr.spec.desired[cur][item])
    BY <1>1, <2>1 DEF Created, Contract!Create, Contract!Put
  <2> QED
    BY <2>1, <2>2 DEF Contract!Next
<1>4. ASSUME NEW n \in cand, Delete(n) \/ DeleteAnswerLost(n)
      PROVE  Contract!Next
  <2>1. /\ app' = [app EXCEPT ![cur][n] = Absent] /\ cur \in Kinds /\ n \in Names
        /\ cur \in Prunable /\ n \in cr.managed[cur] /\ created' = created
    BY <1>1, <1>4, Current DEF Delete, DeleteAnswerLost, PassShape, TypeOK
  <2>2. Contract!Remove(cur, n)
    BY <1>1, <2>1 DEF EveryCopyWasEarned, Contract!Remove, Contract!Put
  <2> QED
    BY <2>1, <2>2 DEF Contract!Next
<1> QED
  BY <1>1, <1>2, <1>3, <1>4
     DEF EngineStep, SkipKind, EnterKind, ListFails, Settled, Unsettled, PutFails,
         PostFails, SkipPrune, PruneRefused, ListCandidates, DeletesDone, DeleteFails

LEMMA HandsRefine ==
  ASSUME ByHand
  PROVE  Contract!Next
<1>1. UNCHANGED <<created, obj.managed>> /\ hands' = hands + 1
  BY DEF ByHand, HandWrite, HandDelete
<1>2. PICK k \in Kinds, n \in Names :
        (\E x \in Vals : HandWrite(k, n, x)) \/ HandDelete(k, n)
  BY DEF ByHand
<1>3. ASSUME NEW x \in Vals, HandWrite(k, n, x)
      PROVE  Contract!ByHand(k, n)
  BY <1>1, <1>3 DEF HandWrite, Contract!ByHand, Contract!Put
<1>4. CASE HandDelete(k, n)
  <2>1. Contract!Put(k, n, Absent)
    BY <1>4 DEF HandDelete, Contract!Put
  <2>2. Contract!ByHand(k, n)
    BY <1>1, <2>1 DEF Contract!ByHand
  <2> QED
    BY <2>2 DEF Contract!Next
<1> QED
  BY <1>2, <1>3, <1>4 DEF Contract!Next

(* The controller implements the ownership contract: seen through the      *)
(* application and the recorded ledger it only creates, corrects, removes  *)
(* what it earned, and records what it earned without dropping the living. *)
THEOREM KeepsItsContract == SafeSpec => KeepsContract
<1>1. Init => Contract!Init
  BY DEF Init, EngineInit, NoNames, Contract!Init
<1>2. IInv /\ [Next]_vars => [Contract!Next]_(Contract!vars)
  <2> SUFFICES ASSUME IInv, [Next]_vars
               PROVE  Contract!Next \/ UNCHANGED <<app, created, obj.managed, hands>>
    BY DEF Contract!vars
  <2>1. TypeOK /\ EveryCopyWasEarned /\ DroppedAreDead /\ obj \in ObjType
        /\ managed \in Ledger
    BY DEF IInv, TypeOK
  <2>2. CASE EngineStep /\ UNCHANGED ctrlVars
    BY <2>2, EngineRefines
  <2>3. CASE ByHand
    BY <2>3, HandsRefine
  <2>4. CASE WriteStatus
    <3>1. obj'.managed = managed /\ fresh /\ UNCHANGED <<app, created, hands>>
      BY <2>1, <2>4 DEF WriteStatus, ObjType
    <3>2. Contract!Record(managed)
      BY <2>1, <3>1 DEF Contract!Record, Contract!Alive, EveryCopyWasEarned,
                        DroppedAreDead, OperatorMade
    <3> QED
      BY <2>1, <3>2 DEF Contract!Next, Ledger
  <2>5. CASE ~(EngineStep /\ UNCHANGED ctrlVars) /\ ~ByHand /\ ~WriteStatus
    BY <2>1, <2>5
       DEF Next, ControllerStep, StartSync, StartDeletion, ReadCache, EnsureFinalizer,
         FinalizerRefused, Connect, StageUnresolved, PlanDone, StatusRefused,
         Retry, Release, ReleaseRefused, CacheSync, EditSpec, DeleteObject, Expire,
         Weather, Outage, Restored, Crash, vars, ObjType
  <2> QED
    BY <2>2, <2>3, <2>4, <2>5
<1> QED
  BY <1>1, <1>2, Inductive, PTL DEF SafeSpec, KeepsContract, Contract!Spec
=============================================================================
