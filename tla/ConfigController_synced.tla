------------------------ MODULE ConfigController_synced ------------------------
(* Proof that Synced=True is an honest report.                             *)
EXTENDS ConfigController_limits

(* The definitions that only group variables.                              *)
USE DEF appVars, applyVars, pruneVars, ctrlVars, objVars, boundVars, historyVars,
        engineVars

LEMMA ResultStep == IInv /\ ResultIsExplained /\ [Next]_vars => ResultIsExplained'
<1> SUFFICES ASSUME IInv, ResultIsExplained, [Next]_vars PROVE ResultIsExplained'
  OBVIOUS
<1>1. TypeOK /\ PassShape /\ managed \in Ledger
  BY DEF IInv, TypeOK
<1>2. CASE UNCHANGED <<cr, managed>>
  BY <1>2 DEF ResultIsExplained
<1>3. ASSUME managed' = NoNames
      PROVE  ResultIsExplained'
  BY <1>3 DEF ResultIsExplained, NoNames
<1>4. CASE StartSync \/ StartDeletion
  <2>1. /\ managed' = cache.managed
        /\ cr' = [spec |-> cache.spec, managed |-> cache.managed]
    BY <1>4 DEF StartSync, StartDeletion, ReadCache
  <2>2. managed' = cr'.managed
    BY <2>1
  <2> QED
    BY <2>2 DEF ResultIsExplained
<1>5. CASE EngineStep
  <2>1. cr' = cr
    BY <1>5, EngineFrame
  <2>2. CASE Post
    <3>1. item \in Declared(cr.spec, cur) /\ managed' = [managed EXCEPT ![cur] = @ \cup {item}]
      BY <1>1, <2>2 DEF Post, PassShape
    <3> QED
      BY <1>1, <2>1, <3>1 DEF ResultIsExplained, Ledger
  <2>3. CASE \E n \in cand : Delete(n)
    BY <1>1, <2>1, <2>3 DEF Delete, ResultIsExplained, Ledger
  <2>4. CASE managed' = managed
    BY <1>2, <2>1, <2>4
  <2> QED
    BY <1>5, <2>2, <2>3, <2>4
       DEF EngineStep, SkipKind, EnterKind, ListFails, Settled, Unsettled, Put,
           PutAnswerLost, PutFails, PostAnswerLost, PostFails, SkipPrune, PruneRefused,
           ListCandidates, DeletesDone, DeleteAnswerLost, DeleteFails
<1>6. CASE FinalizerRefused \/ WriteStatus \/ StatusRefused \/ Retry \/ Release
           \/ ReleaseRefused \/ Crash
  BY <1>3, <1>6 DEF FinalizerRefused, WriteStatus, StatusRefused, Retry, Release,
                    ReleaseRefused, Crash, PassEnds
<1>7. CASE EnsureFinalizer \/ Connect \/ StageUnresolved \/ PlanDone
  BY <1>2, <1>7 DEF EnsureFinalizer, Connect, StageUnresolved, PlanDone
<1>8. CASE \/ CacheSync \/ Expire \/ DeleteObject \/ ByHand \/ Weather
           \/ \E s \in Specs : EditSpec(s)
  BY <1>2, <1>8 DEF CacheSync, Expire, DeleteObject, ByHand, HandWrite, HandDelete,
                    Weather, Outage, Restored, EditSpec
<1>9. CASE UNCHANGED vars
  BY <1>2, <1>9 DEF vars
<1> QED
  BY <1>4, <1>5, <1>6, <1>7, <1>8, <1>9 DEF Next, ControllerStep

(* A sync that starts has all its kinds ahead.                             *)
LEMMA ConnectStep ==
  IInv /\ SyncProgress /\ [Next]_vars => (pc = "connect" => plan = SyncOrder)'
<1> SUFFICES ASSUME IInv, SyncProgress, [Next]_vars, pc' = "connect"
             PROVE  plan' = SyncOrder
  OBVIOUS
<1>1. CASE StartSync \/ EnsureFinalizer
  BY <1>1 DEF StartSync, EnsureFinalizer, Proceed, ToSync, ToStatus
<1>2. CASE UNCHANGED <<pc, plan>>
  BY <1>2 DEF SyncProgress
<1>3. ~EngineStep
  BY DEF EngineStep, SkipKind, EnterKind, ListFails, Settled, Unsettled, Put,
       PutAnswerLost, PutFails, Post, PostAnswerLost, PostFails, SkipPrune, PruneRefused,
       ListCandidates, DeletesDone, Delete, DeleteAnswerLost, DeleteFails, PruneError,
       NextKind, ItemDone
<1>4. ~(StartDeletion \/ FinalizerRefused \/ StageUnresolved \/ PlanDone \/ WriteStatus
        \/ StatusRefused \/ Retry \/ Release \/ ReleaseRefused \/ Crash)
  BY DEF StartDeletion, ToRelease, FinalizerRefused, StageUnresolved, ToStatus, NextKind,
       PlanDone, WriteStatus, StatusRefused, Retry, Release, ReleaseRefused, Crash, PassEnds
<1>5. ~Connect
  BY DEF Connect, ToStatus
<1>6. CASE \/ CacheSync \/ Expire \/ DeleteObject \/ ByHand \/ Weather
           \/ \E s \in Specs : EditSpec(s)
  BY <1>2, <1>6 DEF CacheSync, Expire, DeleteObject, ByHand, HandWrite, HandDelete,
                    Weather, Outage, Restored, EditSpec
<1>7. CASE UNCHANGED vars
  BY <1>2, <1>7 DEF vars
<1> QED
  BY <1>1, <1>3, <1>4, <1>5, <1>6, <1>7 DEF Next, ControllerStep

(* The steps after which a sync is still undisturbed.                      *)
LEMMA UndisturbedSteps ==
  ASSUME IInv, [Next]_vars, Undisturbed'
  PROVE  \/ Connect /\ UNCHANGED plan
         \/ PlanDone /\ Undisturbed
         \/ EngineStep /\ UNCHANGED ctrlVars /\ Undisturbed
         \/ UNCHANGED <<app, mode, pc, plan, todo, cand, cr, errs, touched, failed>>
<1>1. PassShape /\ mode \in {"sync", "cleanup"} /\ errs \in BOOLEAN
  BY DEF IInv, TypeOK
<1>2. ~StartSync /\ ~StartDeletion /\ ~EnsureFinalizer /\ ~StageUnresolved
  BY <1>1 DEF StartSync, StartDeletion, EnsureFinalizer, StageUnresolved, Proceed, ToSync,
       ToStatus, ToRelease, NextKind, Undisturbed
<1>3. ~(FinalizerRefused \/ WriteStatus \/ StatusRefused \/ Retry \/ Release
        \/ ReleaseRefused \/ Crash)
  BY DEF FinalizerRefused, WriteStatus, StatusRefused, Retry, Release, ReleaseRefused,
         Crash, PassEnds, Undisturbed
<1>4. CASE Connect
  BY <1>4 DEF Connect, ToStatus, Undisturbed
<1>5. CASE PlanDone
  BY <1>1, <1>5 DEF PlanDone, Undisturbed
<1>6. CASE EngineStep /\ UNCHANGED ctrlVars
  <2>1. UNCHANGED <<cr, mode, touched>>
    BY <1>6, EngineFrame
  <2>2. pc \in {"kind", "apply", "put", "post", "delete"} /\ (errs => errs')
    BY <1>1, <1>6, <2>1
       DEF EngineStep, SkipKind, EnterKind, ListFails, Settled, Unsettled, Put,
         PutAnswerLost, PutFails, Post, PostAnswerLost, PostFails, SkipPrune, PruneRefused,
         ListCandidates, DeletesDone, Delete, DeleteAnswerLost, DeleteFails, PruneError,
         PruneDue, NextKind, ItemDone, Undisturbed
  <2> QED
    BY <1>6, <2>1, <2>2 DEF Undisturbed
<1>7. ~ByHand
  BY DEF ByHand, HandWrite, HandDelete, Undisturbed
<1>8. CASE \/ CacheSync \/ Expire \/ DeleteObject \/ Weather
           \/ \E s \in Specs : EditSpec(s)
  BY <1>8 DEF CacheSync, Expire, DeleteObject, Weather, Outage, Restored, EditSpec
<1>9. CASE UNCHANGED vars
  BY <1>9 DEF vars
<1> QED
  BY <1>2, <1>3, <1>4, <1>5, <1>6, <1>7, <1>8, <1>9 DEF Next, ControllerStep

-----------------------------------------------------------------------------
(* What a step of an undisturbed sync does to what is already in order.    *)

(* Only the kind at work leaves the plan.                                  *)
LEMMA TailLeavesOut ==
  ASSUME TypeOK, plan # <<>>, NEW k, k \notin Range(Tail(plan))
  PROVE  k = cur \/ k \notin Range(plan)
<1> SUFFICES ASSUME NEW i \in DOMAIN plan, plan[i] = k PROVE k = cur
  BY DEF Range
<1>1. /\ cur = plan[1] /\ Len(plan) \in Nat /\ DOMAIN plan = 1..Len(plan)
      /\ Len(Tail(plan)) = Len(plan) - 1 /\ Tail(plan) \in Seq(Kinds)
  BY Ahead, Current
<1>2. ASSUME i # 1 PROVE FALSE
  <2>1. i - 1 \in DOMAIN Tail(plan) /\ i - 1 + 1 = i
    BY <1>1, <1>2
  <2>2. Tail(plan)[i - 1] = plan[i - 1 + 1]
    BY <2>1, Ahead
  <2> QED
    BY <2>1, <2>2 DEF Range
<1> QED
  BY <1>1, <1>2

(* The kind at work is done: the sync goes on.                             *)
LEMMA SyncMovesOn ==
  ASSUME TypeOK, plan # <<>>, AppliedInOrder, PrunedInOrder,
         UNCHANGED <<app, cr>>, pc' = "kind", plan' = Tail(plan),
         \A n \in Declared(cr.spec, cur) : Settles(cur, n),
         cr.spec.prune /\ cur \in Prunable /\ Declared(cr.spec, cur) # {} => Leftovers(cur) = {}
  PROVE  (Underway /\ AppliedInOrder /\ PrunedInOrder)'
<1>1. \A k : k \notin Range(plan') => k = cur \/ k \notin Range(plan)
  BY TailLeavesOut
<1>2. AppliedInOrder'
  <2> SUFFICES ASSUME NEW k \in Kinds, NEW n \in Declared(cr.spec, k), k \notin Range(plan')
               PROVE  Settles(k, n)
    BY DEF AppliedInOrder, InWork, Settles, Declared
  <2> QED
    BY <1>1 DEF AppliedInOrder
<1>3. PrunedInOrder'
  <2> SUFFICES ASSUME NEW k \in Prunable, cr.spec.prune, Declared(cr.spec, k) # {},
                      k \notin Range(plan')
               PROVE  Leftovers(k) = {}
    BY DEF PrunedInOrder, Leftovers, Existing, Declared
  <2> QED
    BY <1>1 DEF PrunedInOrder
<1> QED
  BY <1>2, <1>3 DEF Underway

(* An item is settled, by a write or because nothing was to be written.    *)
LEMMA ItemSettled ==
  ASSUME IInv, Undisturbed, Underway, AppliedInOrder, PrunedInOrder,
         pc \in {"apply", "put", "post"}, NEW n \in todo,
         UNCHANGED <<cr, plan>>, ItemDone(n, FALSE),
         \A k \in Kinds : \A m \in Declared(cr.spec, k) :
           Settles(k, m) \/ (k = cur /\ m = n) =>
             /\ app'[k][m] # Absent
             /\ k \notin CreateOnly => app'[k][m].val = cr.spec.desired[k][m],
         \A k \in Kinds, m \in Names :
           app[k][m] = Absent /\ m \notin Declared(cr.spec, k) => app'[k][m] = Absent
  PROVE  (Underway /\ AppliedInOrder /\ PrunedInOrder)'
<1>1. TypeOK /\ PassShape
  BY DEF IInv
<1>2. /\ pc' = "apply" /\ todo' = todo \ {n} /\ failed' = failed
      /\ plan' = plan /\ cr' = cr
  BY <1>1 DEF ItemDone, TypeOK
<1>3. Underway'
  BY <1>2 DEF Underway
<1>4. AppliedInOrder'
  <2> SUFFICES ASSUME NEW k \in Kinds, NEW m \in Declared(cr.spec, k),
                      k \notin Range(plan) \/ (k = cur /\ m \notin todo \ {n})
               PROVE  /\ app'[k][m] # Absent
                      /\ k \notin CreateOnly => app'[k][m].val = cr.spec.desired[k][m]
    BY <1>2 DEF AppliedInOrder, InWork, Settles, Declared, cur
  <2>1. Settles(k, m) \/ (k = cur /\ m = n)
    BY DEF AppliedInOrder, InWork
  <2> QED
    BY <2>1
<1>5. PrunedInOrder'
  <2> SUFFICES ASSUME NEW k \in Prunable, cr.spec.prune, Declared(cr.spec, k) # {},
                      k \notin Range(plan)
               PROVE  {m \in Names : app'[k][m] # Absent} \cap cr.managed[k]
                        \subseteq Declared(cr.spec, k)
    BY <1>2 DEF PrunedInOrder, Leftovers, Existing, Declared
  <2>1. Leftovers(k) = {} /\ k \in Kinds
    BY KindsAssumption DEF PrunedInOrder
  <2>2. \A m \in cr.managed[k] : m \in Names /\ app[k][m] # Absent => m \in Declared(cr.spec, k)
    BY <2>1 DEF Leftovers, Existing
  <2> QED
    BY <2>1, <2>2
<1> QED
  BY <1>3, <1>4, <1>5

LEMMA WritesSettle ==
  ASSUME IInv, Undisturbed, Underway, AppliedInOrder, PrunedInOrder, Put \/ Post
  PROVE  (Underway /\ AppliedInOrder /\ PrunedInOrder)'
<1>1. TypeOK /\ PassShape /\ app \in [Kinds -> [Names -> Cell \cup {Absent}]]
  BY DEF IInv, TypeOK
<1>2. /\ pc \in {"put", "post"} /\ item \in todo /\ todo \subseteq Declared(cr.spec, cur)
      /\ cur \in Kinds /\ item \in Names /\ cr.spec.desired[cur][item] \in Vals
  BY <1>1, Current, DesiredType DEF Put, Post, PassShape, TypeOK
<1>3. UNCHANGED <<cr, plan>> /\ ItemDone(item, FALSE)
  BY DEF Put, Post
<1>4. /\ app'[cur][item] # Absent
      /\ app'[cur][item].val = cr.spec.desired[cur][item]
  <2>1. CASE Put
    <3>1. app' = Updated(item) /\ app[cur][item] \in Cell
      BY <1>1, <1>2, <2>1 DEF Put, PassShape
    <3>2. Updated(item)[cur][item] \in Cell
          /\ Updated(item)[cur][item].val = cr.spec.desired[cur][item]
      BY <1>1, <1>2, <3>1 DEF Updated, Cell
    <3> QED
      BY <3>1, <3>2, KindsAssumption
  <2>2. CASE Post
    <3>1. app' = Created(item)
      BY <2>2 DEF Post
    <3>2. Created(item)[cur][item] \in Cell
          /\ Created(item)[cur][item].val = cr.spec.desired[cur][item]
      BY <1>1, <1>2 DEF Created, Cell
    <3> QED
      BY <3>1, <3>2, KindsAssumption
  <2> QED
    BY <2>1, <2>2
<1>5. \A k \in Kinds, m \in Names : ~(k = cur /\ m = item) => app'[k][m] = app[k][m]
  <2>1. CASE Put
    BY <1>1, <1>2, <2>1 DEF Put, Updated
  <2>2. CASE Post
    BY <1>1, <1>2, <2>2 DEF Post, Created
  <2> QED
    BY <2>1, <2>2
<1>6. \A k \in Kinds : \A m \in Declared(cr.spec, k) :
        Settles(k, m) \/ (k = cur /\ m = item) =>
          /\ app'[k][m] # Absent
          /\ k \notin CreateOnly => app'[k][m].val = cr.spec.desired[k][m]
  BY <1>4, <1>5 DEF Settles, Declared
<1>7. \A k \in Kinds, m \in Names :
        app[k][m] = Absent /\ m \notin Declared(cr.spec, k) => app'[k][m] = Absent
  BY <1>2, <1>5
<1> QED
  BY <1>2, <1>3, <1>6, <1>7, ItemSettled

LEMMA SyncEngine ==
  ASSUME IInv, SyncProgress, EngineStep, UNCHANGED ctrlVars, Undisturbed, Undisturbed'
  PROVE  (Underway /\ AppliedInOrder /\ PrunedInOrder)'
<1>1. TypeOK /\ PassShape /\ Underway /\ AppliedInOrder /\ PrunedInOrder
  BY DEF IInv, SyncProgress
<1>2. /\ mode = "sync" /\ ~errs' /\ ~cr.spec.observe /\ UNCHANGED cr
      /\ app \in [Kinds -> [Names -> Cell \cup {Absent}]]
  BY <1>1, EngineFrame DEF Undisturbed, TypeOK
<1>3. CASE SkipKind
  <2>1. /\ plan # <<>> /\ UNCHANGED <<app, cr>> /\ pc' = "kind" /\ plan' = Tail(plan)
        /\ Declared(cr.spec, cur) = {}
    BY <1>3 DEF SkipKind, NextKind
  <2> QED
    BY <1>1, <2>1, SyncMovesOn
<1>4. CASE EnterKind
  <2>1. /\ UNCHANGED <<app, cr, plan>> /\ pc' = "apply" /\ ~failed'
        /\ todo' = Declared(cr.spec, cur)
    BY <1>4 DEF EnterKind
  <2>2. AppliedInOrder'
    BY <1>1, <2>1 DEF AppliedInOrder, InWork, Settles, Declared, cur
  <2>3. PrunedInOrder'
    BY <1>1, <2>1 DEF PrunedInOrder, Leftovers, Existing, Declared, cur
  <2> QED
    BY <2>1, <2>2, <2>3 DEF Underway
<1>5. ASSUME NEW n \in todo, Settled(n)
      PROVE  (Underway /\ AppliedInOrder /\ PrunedInOrder)'
  <2>1. /\ UNCHANGED <<app, cr, plan>> /\ pc = "apply" /\ ItemDone(n, FALSE)
        /\ app[cur][n] # Absent
        /\ cur \notin CreateOnly => app[cur][n].val = cr.spec.desired[cur][n]
    BY <1>2, <1>5 DEF Settled, NeedsWrite, Drifted
  <2>2. \A k \in Kinds : \A m \in Declared(cr.spec, k) :
          Settles(k, m) \/ (k = cur /\ m = n) =>
            /\ app'[k][m] # Absent
            /\ k \notin CreateOnly => app'[k][m].val = cr.spec.desired[k][m]
    BY <2>1 DEF Settles
  <2>3. \A k \in Kinds, m \in Names :
          app[k][m] = Absent /\ m \notin Declared(cr.spec, k) => app'[k][m] = Absent
    BY <2>1
  <2> QED
    BY <1>1, <2>1, <2>2, <2>3, ItemSettled
<1>6. ASSUME NEW n \in todo, Unsettled(n)
      PROVE  (Underway /\ AppliedInOrder /\ PrunedInOrder)'
  <2>1. /\ UNCHANGED <<app, cr, plan, todo, failed>>
        /\ pc = "apply" /\ pc' \in {"put", "post"}
    BY <1>6 DEF Unsettled
  <2>2. AppliedInOrder'
    BY <1>1, <2>1 DEF AppliedInOrder, InWork, Settles, Declared, cur
  <2>3. PrunedInOrder'
    BY <1>1, <2>1 DEF PrunedInOrder, Leftovers, Existing, Declared, cur
  <2> QED
    BY <1>1, <2>1, <2>2, <2>3 DEF Underway
<1>7. CASE Put \/ Post
  BY <1>1, <1>7, WritesSettle
<1>8. ASSUME pc \in {"apply", "delete"}, todo = {}
      PROVE  /\ plan # <<>> /\ cur \in Kinds
             /\ \A n \in Declared(cr.spec, cur) : Settles(cur, n)
  BY <1>1, <1>8, Current DEF PassShape, AppliedInOrder, InWork
<1>9. CASE SkipPrune
  <2>1. /\ pc = "apply" /\ todo = {} /\ ~PruneDue /\ UNCHANGED <<app, cr>>
        /\ pc' = "kind" /\ plan' = Tail(plan)
    BY <1>2, <1>9 DEF SkipPrune, NextKind
  <2>2. ~failed
    BY <1>1, <2>1 DEF Underway
  <2>3. cr.spec.prune /\ cur \in Prunable => cr.managed[cur] = {}
    BY <1>2, <2>1, <2>2 DEF PruneDue
  <2>4. cr.spec.prune /\ cur \in Prunable => Leftovers(cur) = {}
    BY <2>3 DEF Leftovers
  <2> QED
    BY <1>1, <1>8, <2>1, <2>4, SyncMovesOn
<1>10. CASE DeletesDone
  <2>1. /\ pc = "delete" /\ cand = {} /\ UNCHANGED <<app, cr>>
        /\ pc' = "kind" /\ plan' = Tail(plan)
    BY <1>10 DEF DeletesDone, NextKind
  <2>2. todo = {}
    BY <1>1, <2>1 DEF Underway
  <2>3. cr.spec.prune /\ cur \in Prunable /\ Declared(cr.spec, cur) # {} => Leftovers(cur) = {}
    BY <1>1, <2>1 DEF PrunedInOrder
  <2> QED
    BY <1>1, <1>8, <2>1, <2>2, <2>3, SyncMovesOn
<1>11. CASE ListCandidates
  <2>1. /\ pc = "apply" /\ todo = {} /\ UNCHANGED <<app, cr, plan, todo, failed>>
        /\ pc' = "delete" /\ cand' = Leftovers(cur)
    BY <1>2, <1>11 DEF ListCandidates, PruneDue, Candidates, Wanted, Leftovers
  <2>2. AppliedInOrder'
    BY <1>1, <2>1 DEF AppliedInOrder, InWork, Settles, Declared, cur
  <2>3. PrunedInOrder'
    BY <1>1, <2>1 DEF PrunedInOrder, Leftovers, Existing, Declared, cur
  <2> QED
    BY <1>1, <2>1, <2>2, <2>3 DEF Underway
<1>12. ASSUME NEW m \in cand, Delete(m)
       PROVE  (Underway /\ AppliedInOrder /\ PrunedInOrder)'
  <2>1. /\ UNCHANGED <<cr, pc, plan, todo, failed>> /\ pc = "delete"
        /\ cand' = cand \ {m} /\ app' = [app EXCEPT ![cur][m] = Absent]
    BY <1>12 DEF Delete
  <2>2. /\ m \in Names /\ cur \in Kinds /\ m \notin Declared(cr.spec, cur)
    BY <1>1, <1>2, <2>1, Current DEF PassShape, TypeOK
  <2>3. /\ app'[cur][m] = Absent
        /\ \A k \in Kinds, n \in Names : ~(k = cur /\ n = m) => app'[k][n] = app[k][n]
    BY <1>2, <2>1, <2>2
  <2>4. AppliedInOrder'
    <3> SUFFICES ASSUME NEW k \in Kinds, NEW n \in Declared(cr.spec, k),
                        k \notin Range(plan) \/ (k = cur /\ n \notin todo)
                 PROVE  /\ app'[k][n] # Absent
                        /\ k \notin CreateOnly => app'[k][n].val = cr.spec.desired[k][n]
      BY <2>1 DEF AppliedInOrder, InWork, Settles, Declared, cur
    <3>1. Settles(k, n) /\ n \in Names
      BY <1>1, <2>1 DEF AppliedInOrder, InWork, Declared
    <3> QED
      BY <2>2, <2>3, <3>1 DEF Settles
  <2>5. PrunedInOrder'
    <3> SUFFICES ASSUME NEW k \in Prunable, cr.spec.prune, Declared(cr.spec, k) # {}
                 PROVE  /\ k \notin Range(plan) =>
                             \A n \in Names : app'[k][n] # Absent /\ n \in cr.managed[k] =>
                               n \in Declared(cr.spec, k)
                        /\ k = cur =>
                             \A n \in Names : app'[k][n] # Absent /\ n \in cr.managed[k] =>
                               n \in Declared(cr.spec, k) \/ n \in cand \ {m}
      BY <2>1 DEF PrunedInOrder, Leftovers, Existing, Declared, cur
    <3>1. k \in Kinds
      BY KindsAssumption
    <3>2. k \notin Range(plan) => Leftovers(k) = {}
      BY <1>1 DEF PrunedInOrder
    <3>3. k = cur => Leftovers(k) \subseteq cand
      BY <1>1, <2>1 DEF PrunedInOrder
    <3> QED
      BY <2>3, <3>1, <3>2, <3>3 DEF Leftovers, Existing
  <2> QED
    BY <1>1, <2>1, <2>4, <2>5 DEF Underway
<1>13. ~\/ \E n \in todo : ListFails(n)
        \/ PutAnswerLost \/ PutFails \/ PostAnswerLost \/ PostFails \/ PruneRefused
        \/ \E n \in cand : DeleteAnswerLost(n) \/ DeleteFails(n)
  BY <1>2 DEF ListFails, PutAnswerLost, PutFails, PostAnswerLost, PostFails, PruneRefused,
              DeleteAnswerLost, DeleteFails, PruneError, NextKind, ItemDone
<1> QED
  BY <1>3, <1>4, <1>5, <1>6, <1>7, <1>9, <1>10, <1>11, <1>12, <1>13 DEF EngineStep

LEMMA ProgressStep == IInv /\ SyncProgress /\ [Next]_vars => SyncProgress'
<1> SUFFICES ASSUME IInv, SyncProgress, [Next]_vars, Undisturbed'
             PROVE  (Underway /\ AppliedInOrder /\ PrunedInOrder)'
  BY ConnectStep DEF SyncProgress
<1>1. CASE Connect /\ UNCHANGED plan
  <2>1. UNCHANGED <<plan, cr>> /\ pc' = "kind" /\ plan = SyncOrder
    BY <1>1 DEF Connect, ToStatus, Undisturbed, SyncProgress
  <2>2. \A k \in Kinds : k \in Range(plan)
    BY <2>1, ControllerAssumption
  <2> QED
    BY <2>1, <2>2, KindsAssumption DEF Underway, AppliedInOrder, PrunedInOrder, InWork
<1>2. CASE PlanDone /\ Undisturbed
  <2>1. /\ UNCHANGED <<app, cr, plan, todo>> /\ plan = <<>> /\ pc' = "status"
    BY <1>2 DEF PlanDone, Undisturbed
  <2>2. AppliedInOrder /\ PrunedInOrder
    BY <1>2 DEF SyncProgress
  <2>3. AppliedInOrder'
    BY <2>1, <2>2 DEF AppliedInOrder, InWork, Settles, Declared
  <2>4. PrunedInOrder'
    BY <2>1, <2>2 DEF PrunedInOrder, Leftovers, Existing, Declared
  <2> QED
    BY <2>1, <2>3, <2>4 DEF Underway
<1>3. CASE EngineStep /\ UNCHANGED ctrlVars /\ Undisturbed
  BY <1>3, SyncEngine
<1>4. CASE UNCHANGED <<app, mode, pc, plan, todo, cand, cr, errs, touched, failed>>
  <2>1. Undisturbed
    BY <1>4 DEF Undisturbed
  <2>2. AppliedInOrder'
    BY <1>4, <2>1 DEF SyncProgress, AppliedInOrder, InWork, Settles, Declared, cur
  <2>3. PrunedInOrder'
    BY <1>4, <2>1 DEF SyncProgress, PrunedInOrder, Leftovers, Existing, Declared, cur
  <2> QED
    BY <1>4, <2>1, <2>2, <2>3 DEF SyncProgress, Underway
<1> QED
  BY <1>1, <1>2, <1>3, <1>4, UndisturbedSteps

-----------------------------------------------------------------------------
(* The results.                                                            *)

(* An undisturbed sync without errors has put in order all it has behind   *)
(* it, in every reachable state.                                           *)
THEOREM SyncInductive == SafeSpec => []SyncInv
<1>1. Init => SyncInv
  <2> SUFFICES ASSUME Init PROVE SyncInv
    OBVIOUS
  <2>1. pc = "idle" /\ managed = NoNames
    BY DEF Init, EngineInit
  <2> QED
    BY <2>1 DEF SyncInv, ResultIsExplained, SyncProgress, Undisturbed, NoNames
<1>2. IInv /\ SyncInv /\ [Next]_vars => SyncInv'
  BY ResultStep, ProgressStep DEF SyncInv
<1> QED
  BY <1>1, <1>2, Inductive, PTL DEF SafeSpec

(* What a pass removed, creates, has behind it and has ahead of it fit     *)
(* together in every reachable state.                                      *)
THEOREM PassesInOrder == SafeSpec => []PassInv
<1>1. SweepInv /\ SyncInv => PassInv
  BY DEF PassInv
<1> QED
  BY <1>1, SweepInductive, SyncInductive, PTL

(* Synced=True is reported only when the application is as declared and    *)
(* nothing to prune is left, unless somebody changed it during the pass.   *)
THEOREM SyncsHonestly == SafeSpec => SyncedIsHonest
<1> DEFINE Honest ==
       pc = "status" /\ pc' = "idle" /\ obj' # obj /\ obj'.synced /\ ~touched /\ ~cr.spec.observe =>
         \A k \in Kinds :
           /\ \A n \in Declared(cr.spec, k) :
                /\ app[k][n] # Absent
                /\ k \notin CreateOnly => app[k][n].val = cr.spec.desired[k][n]
           /\ cr.spec.prune /\ k \in Prunable /\ Declared(cr.spec, k) # {} =>
                Existing(k) \cap obj'.managed[k] \subseteq Declared(cr.spec, k)
<1>1. IInv /\ SyncInv /\ [Next]_vars => [Honest]_vars
  <2> SUFFICES ASSUME IInv, SyncInv, [Next]_vars, pc = "status", pc' = "idle", obj' # obj,
                      obj'.synced, ~touched, ~cr.spec.observe, NEW k \in Kinds
               PROVE  /\ \A n \in Declared(cr.spec, k) :
                           /\ app[k][n] # Absent
                           /\ k \notin CreateOnly => app[k][n].val = cr.spec.desired[k][n]
                      /\ cr.spec.prune /\ k \in Prunable /\ Declared(cr.spec, k) # {} =>
                           Existing(k) \cap obj'.managed[k] \subseteq Declared(cr.spec, k)
    OBVIOUS
  <2>1. obj \in ObjType /\ mode = "sync"
    BY DEF IInv, TypeOK, PassShape
  <2>2. WriteStatus
    BY DEF Next, ControllerStep, StartSync, StartDeletion, ReadCache, EnsureFinalizer,
         FinalizerRefused, Connect, StageUnresolved, PlanDone, StatusRefused, Retry,
         Release, ReleaseRefused, CacheSync, EditSpec, DeleteObject, Expire, ByHand,
         HandWrite, HandDelete, Weather, Outage, Restored, Crash, vars
  <2>3. obj' = [obj EXCEPT !.managed = managed, !.synced = ~errs]
    BY <2>2 DEF WriteStatus
  <2>4. obj'.managed = managed /\ ~errs
    BY <2>1, <2>3 DEF ObjType
  <2>5. Underway /\ AppliedInOrder /\ PrunedInOrder
    BY <2>1, <2>4 DEF SyncInv, SyncProgress, Undisturbed
  <2>6. k \notin Range(plan)
    BY <2>5 DEF Underway, Range
  <2>7. managed[k] \subseteq cr.managed[k] \cup Declared(cr.spec, k)
    BY DEF SyncInv, ResultIsExplained
  <2>8. cr.spec.prune /\ k \in Prunable /\ Declared(cr.spec, k) # {} => Leftovers(k) = {}
    BY <2>5, <2>6 DEF PrunedInOrder
  <2>9. \A n \in Declared(cr.spec, k) : Settles(k, n)
    BY <2>5, <2>6 DEF AppliedInOrder
  <2> QED
    BY <2>4, <2>7, <2>8, <2>9 DEF Settles, Leftovers
<1> QED
  BY <1>1, Inductive, SyncInductive, PTL DEF SafeSpec, SyncedIsHonest
=============================================================================
