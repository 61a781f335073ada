------------------------ MODULE ConfigController_limits ------------------------
(* Proofs about what a pass may remove, in which order, and when a custom  *)
(* resource may go: SweepInv and what follows from it.                     *)
EXTENDS ConfigController_proofs, FiniteSetTheorems

(* The definitions that only group variables.                              *)
USE DEF appVars, applyVars, pruneVars, ctrlVars, objVars, boundVars, historyVars,
        engineVars

(* The kinds ahead of a pass that moves on to the next one.                *)
LEMMA Ahead ==
  ASSUME TypeOK, plan # <<>>
  PROVE  /\ cur = plan[1] /\ 1 \in DOMAIN plan
         /\ Len(plan) \in Nat /\ DOMAIN plan = 1..Len(plan)
         /\ Len(Tail(plan)) = Len(plan) - 1
         /\ \A i \in DOMAIN Tail(plan) : /\ i \in Nat /\ i # 0
                                         /\ i + 1 \in DOMAIN plan
                                         /\ Tail(plan)[i] = plan[i + 1]
<1>1. plan \in Seq(Kinds)
  BY DEF TypeOK
<1>2. Tail(plan) \in Seq(Kinds) /\ Len(Tail(plan)) = Len(plan) - 1
      /\ \A i \in 1..Len(Tail(plan)) : Tail(plan)[i] = plan[i + 1]
  BY <1>1, HeadTailProperties
<1>3. Len(plan) \in Nat /\ Len(plan) # 0 /\ DOMAIN plan = 1..Len(plan)
      /\ DOMAIN Tail(plan) = 1..Len(Tail(plan))
  BY <1>1, <1>2
<1> QED
  BY <1>1, <1>2, <1>3 DEF cur

LEMMA TailOnce ==
  ASSUME TypeOK, plan # <<>>, IsInjective(plan)
  PROVE  IsInjective(Tail(plan))
<1> SUFFICES ASSUME NEW i \in DOMAIN Tail(plan), NEW j \in DOMAIN Tail(plan),
                    Tail(plan)[i] = Tail(plan)[j]
             PROVE  i = j
  BY DEF IsInjective
<1>1. i \in Nat /\ j \in Nat /\ i + 1 \in DOMAIN plan /\ j + 1 \in DOMAIN plan
      /\ plan[i + 1] = plan[j + 1]
  BY Ahead
<1>2. i + 1 = j + 1
  BY <1>1 DEF IsInjective
<1> QED
  BY <1>1, <1>2

LEMMA ReverseOnce == IsInjective(Reverse(DefOrder))
<1>1. DefOrder \in Seq(Kinds) /\ IsInjective(DefOrder)
  BY ControllerAssumption
<1>2. Len(DefOrder) \in Nat /\ DOMAIN DefOrder = 1..Len(DefOrder)
  BY <1>1
<1>3. DOMAIN Reverse(DefOrder) = 1..Len(DefOrder)
      /\ \A i \in 1..Len(DefOrder) : Reverse(DefOrder)[i] = DefOrder[Len(DefOrder) - i + 1]
  BY <1>2 DEF Reverse
<1> SUFFICES ASSUME NEW i \in 1..Len(DefOrder), NEW j \in 1..Len(DefOrder),
                    DefOrder[Len(DefOrder) - i + 1] = DefOrder[Len(DefOrder) - j + 1]
             PROVE  i = j
  BY <1>3 DEF IsInjective
<1>4. Len(DefOrder) - i + 1 \in DOMAIN DefOrder /\ Len(DefOrder) - j + 1 \in DOMAIN DefOrder
  BY <1>2
<1>5. Len(DefOrder) - i + 1 = Len(DefOrder) - j + 1
  BY <1>1, <1>4 DEF IsInjective
<1> QED
  BY <1>2, <1>5

LEMMA NothingOnce == IsInjective(<<>>)
BY DEF IsInjective

-----------------------------------------------------------------------------
(* The budget of deletions.                                                *)

(* A part of a set within the threshold is within the threshold.           *)
LEMMA PartIsBounded ==
  ASSUME NEW S \in SUBSET Names, Cardinality(S) <= MaxPrune, NEW T \in SUBSET S
  PROVE  Cardinality(T) <= MaxPrune
<1>1. IsFiniteSet(Names) /\ MaxPrune \in Nat
  BY KindsAssumption
<1>2. IsFiniteSet(S)
  BY <1>1, FS_Subset
<1>3. IsFiniteSet(T) /\ Cardinality(T) <= Cardinality(S)
  BY <1>2, FS_Subset
<1>4. Cardinality(S) \in Nat /\ Cardinality(T) \in Nat
  BY <1>2, <1>3, FS_CardinalityType
<1> QED
  BY <1>1, <1>3, <1>4

(* A pass that has deleted nothing is within its budget.                   *)
LEMMA FreshBudget ==
  ASSUME removed' = {}, IsInjective(plan)', pc' # "delete"
  PROVE  PruneBudget'
<1>1. \A k : Removed(k)' = {}
  BY DEF Removed
<1>2. Cardinality({}) = 0 /\ MaxPrune \in Nat
  BY FS_EmptySet, KindsAssumption
<1>3. PruneIsBounded'
  <2>1. \A k \in Kinds : {n \in Names : <<k, n>> \in removed'} = {}
    OBVIOUS
  <2> QED
    BY <1>2, <2>1 DEF PruneIsBounded
<1> QED
  BY <1>1, <1>3 DEF PruneBudget

(* The pass goes on to the next kind, having deleted nothing by this step. *)
LEMMA BudgetMovesOn ==
  ASSUME TypeOK, PruneBudget, plan # <<>>, UNCHANGED removed,
         pc \in {"kind", "apply", "put", "post", "delete"},
         pc' = "kind", plan' = Tail(plan)
  PROVE  PruneBudget'
<1>1. IsInjective(plan)'
  BY TailOnce DEF PruneBudget
<1>2. \A i \in DOMAIN plan' : {n \in Names : <<plan'[i], n>> \in removed'} = {}
  <2> SUFFICES ASSUME NEW i \in DOMAIN plan'
               PROVE  {n \in Names : <<plan'[i], n>> \in removed'} = {}
    OBVIOUS
  <2>1. i + 1 \in DOMAIN plan /\ i + 1 # 1 /\ plan'[i] = plan[i + 1]
    BY Ahead
  <2>2. Removed(plan[i + 1]) = {}
    BY <2>1 DEF PruneBudget
  <2> QED
    BY <2>1, <2>2 DEF Removed
<1>3. (\A i \in DOMAIN plan : Removed(plan[i]) = {})'
  BY <1>2 DEF Removed
<1>4. PruneIsBounded'
  BY DEF PruneBudget, PruneIsBounded
<1> QED
  BY <1>1, <1>3, <1>4 DEF PruneBudget

(* The steps that leave the deletions alone.                               *)
LEMMA BudgetUntouched ==
  ASSUME PruneBudget, UNCHANGED <<plan, removed>>,
         \/ UNCHANGED <<pc, cand>>
         \/ pc' \in {"status", "release"}
         \/ /\ pc \in {"kind", "apply", "put", "post"}
            /\ pc' \in {"kind", "apply", "put", "post"}
  PROVE  PruneBudget'
<1>1. \A k : Removed(k)' = Removed(k)
  BY DEF Removed
<1>2. IsInjective(plan)' /\ PruneIsBounded'
  BY DEF PruneBudget, PruneIsBounded
<1>3. cur' = cur
  BY DEF cur
<1> QED
  BY <1>1, <1>2, <1>3 DEF PruneBudget

LEMMA BudgetListed ==
  ASSUME IInv, PruneBudget, ListCandidates
  PROVE  PruneBudget'
<1>1. TypeOK /\ PassShape
  BY DEF IInv
<1>2. plan # <<>> /\ pc \in {"kind", "apply"}
  BY <1>1 DEF ListCandidates, PruneDue, PassShape
<1>3. /\ UNCHANGED <<plan, removed>> /\ pc' = "delete"
      /\ cand' = Candidates /\ Cardinality(Candidates) <= MaxPrune
  BY DEF ListCandidates
<1>4. \A k : Removed(k)' = Removed(k)
  BY <1>3 DEF Removed
<1>5. \A i \in DOMAIN plan : Removed(plan[i]) = {}
  BY <1>2 DEF PruneBudget
<1>6. Removed(cur) = {} /\ cur' = cur
  BY <1>1, <1>2, <1>3, <1>5, Ahead DEF cur
<1>7. Cardinality(Removed(cur) \cup cand)' <= MaxPrune
  <2>1. Removed(cur)' = Removed(cur)
    BY <1>3 DEF Removed, cur
  <2>2. (Removed(cur) \cup cand)' = Candidates
    BY <1>3, <1>6, <2>1
  <2> QED
    BY <1>3, <2>2
<1>8. IsInjective(plan)' /\ PruneIsBounded'
  BY <1>3 DEF PruneBudget, PruneIsBounded
<1> QED
  BY <1>3, <1>4, <1>5, <1>7, <1>8 DEF PruneBudget

(* A deletion, acknowledged or not, was one of the candidates.             *)
LEMMA BudgetSpent ==
  ASSUME IInv, PruneBudget, NEW n \in cand, Delete(n) \/ DeleteAnswerLost(n)
  PROVE  PruneBudget'
<1>1. TypeOK /\ PassShape
  BY DEF IInv
<1>2. /\ plan # <<>> /\ pc = "delete" /\ removed' = removed \cup {<<cur, n>>}
      /\ n \in Names /\ cur \in Kinds /\ cand \subseteq Names
  BY <1>1, Current DEF Delete, DeleteAnswerLost, PassShape, TypeOK
<1>5. Cardinality(Removed(cur) \cup cand) <= MaxPrune
  BY <1>2 DEF PruneBudget
<1>6. Removed(cur) \cup cand \in SUBSET Names
  BY <1>2 DEF Removed
<1>7. PruneIsBounded'
  <2> SUFFICES ASSUME NEW k \in Kinds
               PROVE  Cardinality({m \in Names : <<k, m>> \in removed'}) <= MaxPrune
    BY DEF PruneIsBounded
  <2>1. CASE k = cur
    <3>1. {m \in Names : <<k, m>> \in removed'} \in SUBSET (Removed(cur) \cup cand)
      BY <1>2, <2>1 DEF Removed
    <3> QED
      BY <1>5, <1>6, <3>1, PartIsBounded
  <2>2. CASE k # cur
    <3>1. {m \in Names : <<k, m>> \in removed'} = {m \in Names : <<k, m>> \in removed}
      BY <1>2, <2>2
    <3> QED
      BY <3>1 DEF PruneBudget, PruneIsBounded
  <2> QED
    BY <2>1, <2>2
<1>8. \A i \in DOMAIN plan : i # 1 =>
        {m \in Names : <<plan[i], m>> \in removed'} = {}
  <2> SUFFICES ASSUME NEW i \in DOMAIN plan, i # 1
               PROVE  {m \in Names : <<plan[i], m>> \in removed'} = {}
    OBVIOUS
  <2>1. cur = plan[1] /\ 1 \in DOMAIN plan
    BY <1>1, <1>2, Ahead
  <2>2. plan[i] # cur
    BY <2>1 DEF PruneBudget, IsInjective
  <2>3. Removed(plan[i]) = {}
    BY <1>2 DEF PruneBudget
  <2>4. {m \in Names : <<plan[i], m>> \in removed'} = {m \in Names : <<plan[i], m>> \in removed}
    BY <1>2, <2>2
  <2> QED
    BY <2>3, <2>4 DEF Removed
<1>9. CASE Delete(n)
  <2>1. UNCHANGED <<plan, pc>> /\ cand' = cand \ {n}
    BY <1>9 DEF Delete
  <2>2. (\A i \in DOMAIN plan : i # 1 => Removed(plan[i]) = {})'
    BY <1>8, <2>1 DEF Removed
  <2> DEFINE left == {m \in Names : <<cur, m>> \in removed'} \cup cand'
  <2>3. left \in SUBSET (Removed(cur) \cup cand)
    BY <1>2, <2>1 DEF Removed
  <2>4. Cardinality(left) <= MaxPrune
    BY <1>5, <1>6, <2>3, PartIsBounded
  <2>6. (Removed(cur) \cup cand)' = left
    BY <2>1 DEF Removed, cur
  <2>5. IsInjective(plan)'
    BY <2>1 DEF PruneBudget
  <2> QED
    BY <1>2, <1>7, <2>1, <2>2, <2>4, <2>5, <2>6 DEF PruneBudget
<1>10. CASE DeleteAnswerLost(n)
  <2>1. \/ pc' = "kind" /\ plan' = Tail(plan)
        \/ pc' = "release" /\ plan' = plan
    BY <1>10 DEF DeleteAnswerLost, PruneError, NextKind
  <2>2. IsInjective(plan)'
    BY <1>1, <1>2, <2>1, TailOnce DEF PruneBudget
  <2>3. (pc = "kind" => \A i \in DOMAIN plan : Removed(plan[i]) = {})'
    <3> SUFFICES ASSUME pc' = "kind", NEW i \in DOMAIN plan'
                 PROVE  {m \in Names : <<plan'[i], m>> \in removed'} = {}
      BY DEF Removed
    <3>1. i + 1 \in DOMAIN plan /\ i + 1 # 1 /\ plan'[i] = plan[i + 1]
      BY <1>1, <1>2, <2>1, Ahead
    <3> QED
      BY <1>8, <3>1
  <2> QED
    BY <1>7, <2>1, <2>2, <2>3 DEF PruneBudget
<1> QED
  BY <1>9, <1>10

LEMMA BudgetEngine ==
  ASSUME IInv, PruneBudget, EngineStep
  PROVE  PruneBudget'
<1>1. TypeOK /\ PassShape
  BY DEF IInv
<1>2. CASE \/ EnterKind
           \/ \E n \in todo : ListFails(n) \/ Settled(n) \/ Unsettled(n)
           \/ Put \/ PutAnswerLost \/ PutFails \/ Post \/ PostAnswerLost \/ PostFails
  <2>1. /\ UNCHANGED <<plan, removed>>
        /\ pc \in {"kind", "apply", "put", "post"} /\ pc' \in {"apply", "put", "post"}
    BY <1>2 DEF EnterKind, ListFails, Settled, Unsettled, Put, PutAnswerLost, PutFails,
                Post, PostAnswerLost, PostFails, ItemDone
  <2> QED
    BY <2>1, BudgetUntouched
<1>3. CASE SkipKind \/ SkipPrune \/ DeletesDone
  <2>1. plan # <<>> /\ UNCHANGED removed /\ pc \in {"kind", "apply", "delete"}
        /\ pc' = "kind" /\ plan' = Tail(plan)
    BY <1>1, <1>3 DEF SkipKind, SkipPrune, DeletesDone, NextKind, PassShape
  <2> QED
    BY <1>1, <2>1, BudgetMovesOn
<1>4. CASE PruneRefused \/ \E n \in cand : DeleteFails(n)
  <2>1. plan # <<>> /\ UNCHANGED removed /\ pc \in {"kind", "apply", "delete"} /\ PruneError
    BY <1>1, <1>4 DEF PruneRefused, DeleteFails, PruneDue, PassShape
  <2>2. CASE pc' = "kind" /\ plan' = Tail(plan)
    BY <1>1, <2>1, <2>2, BudgetMovesOn
  <2>3. CASE pc' = "release" /\ plan' = plan
    BY <2>1, <2>3, BudgetUntouched
  <2> QED
    BY <2>1, <2>2, <2>3 DEF PruneError, NextKind
<1>5. CASE ListCandidates
  BY <1>5, BudgetListed
<1>6. CASE \E n \in cand : Delete(n) \/ DeleteAnswerLost(n)
  BY <1>6, BudgetSpent
<1> QED
  BY <1>2, <1>3, <1>4, <1>5, <1>6 DEF EngineStep

LEMMA BudgetStep == IInv /\ PruneBudget /\ [Next]_vars => PruneBudget'
<1> SUFFICES ASSUME IInv, PruneBudget, [Next]_vars PROVE PruneBudget'
  OBVIOUS
<1>1. TypeOK /\ PassShape
  BY DEF IInv
<1>2. CASE EngineStep
  BY <1>2, BudgetEngine
<1>3. /\ IsInjective(<<>>) /\ IsInjective(SyncOrder) /\ IsInjective(Reverse(DefOrder))
      /\ IsInjective(plan)
  BY ControllerAssumption, NothingOnce, ReverseOnce DEF PruneBudget
<1>4. CASE StartSync \/ StartDeletion \/ EnsureFinalizer \/ Connect
  <2>1. removed' = {}
    BY <1>4 DEF StartSync, StartDeletion, ReadCache, EnsureFinalizer, Connect, PruneBudget
  <2>2. plan' \in {<<>>, SyncOrder, Reverse(DefOrder), plan} /\ pc' # "delete"
    BY <1>4 DEF StartSync, StartDeletion, EnsureFinalizer, Connect, Proceed, ToSync,
                ToStatus, ToRelease
  <2>3. IsInjective(plan)'
    BY <1>3, <2>2
  <2> QED
    BY <2>1, <2>2, <2>3, FreshBudget
<1>5. ASSUME PassEnds
      PROVE  PruneBudget'
  <2>1. removed' = {} /\ plan' = <<>> /\ pc' = "idle"
    BY <1>5 DEF PassEnds
  <2>2. IsInjective(plan)'
    BY <1>3, <2>1
  <2> QED
    BY <2>1, <2>2, FreshBudget
<1>6. CASE FinalizerRefused \/ WriteStatus \/ StatusRefused \/ Retry \/ Release
           \/ ReleaseRefused \/ Crash
  BY <1>5, <1>6 DEF FinalizerRefused, WriteStatus, StatusRefused, Retry, Release,
                    ReleaseRefused, Crash
<1>7. CASE StageUnresolved
  <2>1. UNCHANGED removed /\ plan # <<>> /\ pc = "kind"
    BY <1>7 DEF StageUnresolved
  <2>2. CASE ToStatus
    <3>1. IsInjective(plan)' /\ PruneIsBounded'
      BY <1>3, <2>1, <2>2 DEF ToStatus, PruneBudget, PruneIsBounded
    <3> QED
      BY <2>2, <3>1 DEF ToStatus, PruneBudget
  <2>3. CASE NextKind(TRUE)
    BY <1>1, <2>1, <2>3, BudgetMovesOn DEF NextKind
  <2> QED
    BY <1>7, <2>2, <2>3 DEF StageUnresolved
<1>8. CASE PlanDone
  BY <1>8, BudgetUntouched DEF PlanDone
<1>9. CASE \/ CacheSync \/ Expire \/ DeleteObject \/ ByHand \/ Weather
           \/ \E s \in Specs : EditSpec(s)
  <2>1. UNCHANGED <<plan, removed, pc, cand>>
    BY <1>9 DEF CacheSync, Expire, DeleteObject, ByHand, HandWrite, HandDelete, Weather,
                Outage, Restored, EditSpec
  <2> QED
    BY <2>1, BudgetUntouched
<1>10. CASE UNCHANGED vars
  <2>1. UNCHANGED <<plan, removed, pc, cand>>
    BY <1>10 DEF vars
  <2> QED
    BY <2>1, BudgetUntouched
<1> QED
  BY <1>2, <1>4, <1>6, <1>7, <1>8, <1>9, <1>10 DEF Next, ControllerStep

LEMMA BudgetAtFirst == Init => PruneBudget
<1> SUFFICES ASSUME Init PROVE PruneBudget
  OBVIOUS
<1>1. removed = {} /\ plan = <<>> /\ pc = "idle"
  BY DEF Init, EngineInit
<1>2. Cardinality({}) = 0 /\ MaxPrune \in Nat
  BY FS_EmptySet, KindsAssumption
<1>3. PruneIsBounded
  <2> SUFFICES ASSUME NEW k \in Kinds
               PROVE  Cardinality({n \in Names : <<k, n>> \in removed}) <= MaxPrune
    BY DEF PruneIsBounded
  <2> DEFINE gone == {n \in Names : <<k, n>> \in removed}
  <2>1. gone = {}
    BY <1>1
  <2> HIDE DEF gone
  <2>2. Cardinality(gone) <= MaxPrune
    BY <1>2, <2>1
  <2> QED
    BY <2>2 DEF gone
<1> QED
  BY <1>1, <1>3, NothingOnce DEF PruneBudget

-----------------------------------------------------------------------------
(* The order and the completeness of a cleanup.                            *)

(* No step but an engine step of a sync makes a resource the operator's.   *)
LEMMA CleanupMakesNothing ==
  ASSUME IInv, [Next]_vars, mode = "cleanup", NEW k \in Kinds, NEW n \in Names,
         OperatorMade(k, n)'
  PROVE  OperatorMade(k, n)
<1>1. TypeOK /\ PassShape
  BY DEF IInv
<1>2. CASE EngineStep
  BY <1>2, EngineMakes
<1>3. CASE ByHand
  BY <1>1, <1>3, HandsMakeNothing
<1>4. CASE UNCHANGED app
  BY <1>4 DEF OperatorMade
<1> QED
  BY <1>2, <1>3, <1>4
     DEF Next, ControllerStep, StartSync, StartDeletion, ReadCache, EnsureFinalizer,
         FinalizerRefused, Connect, StageUnresolved, PlanDone, WriteStatus, StatusRefused,
         Retry, Release, ReleaseRefused, CacheSync, EditSpec, DeleteObject, Expire,
         Weather, Outage, Restored, Crash, vars

LEMMA CopyIsCurrentStep ==
  IInv /\ CopyIsCurrent /\ [Next]_vars => CopyIsCurrent'
<1> SUFFICES ASSUME IInv, CopyIsCurrent, [Next]_vars PROVE CopyIsCurrent'
  OBVIOUS
<1>1. obj \in ObjType /\ (cacheFresh => cache = obj) /\ CopyIsCurrent
  BY DEF IInv, TypeOK
<1>2. CASE ~fresh'
  BY <1>2 DEF CopyIsCurrent
<1>3. CASE UNCHANGED <<cr, obj, fresh>>
  BY <1>1, <1>3 DEF CopyIsCurrent
<1>4. CASE StartSync \/ StartDeletion
  <2>1. /\ cr' = [spec |-> cache.spec, managed |-> cache.managed]
        /\ fresh' = cacheFresh /\ obj' = obj
    BY <1>4 DEF StartSync, StartDeletion, ReadCache
  <2> QED
    BY <1>1, <2>1 DEF CopyIsCurrent
<1>5. CASE EnsureFinalizer
  <2>1. /\ UNCHANGED <<cr, fresh>>
        /\ obj'.spec = obj.spec /\ obj'.managed = obj.managed
    BY <1>1, <1>5 DEF EnsureFinalizer, ObjType
  <2> QED
    BY <1>1, <2>1 DEF CopyIsCurrent
<1>6. CASE EngineStep /\ UNCHANGED ctrlVars
  BY <1>3, <1>6, EngineFrame
<1>7. CASE FinalizerRefused \/ WriteStatus \/ StatusRefused \/ Retry \/ Release
           \/ ReleaseRefused \/ Crash \/ DeleteObject \/ \E s \in Specs : EditSpec(s)
  BY <1>2, <1>7 DEF FinalizerRefused, WriteStatus, StatusRefused, Retry, Release,
       ReleaseRefused, Crash, PassEnds, DeleteObject, EditSpec, Superseded
<1>8. CASE Connect \/ StageUnresolved \/ PlanDone \/ CacheSync \/ Expire \/ ByHand \/ Weather
  BY <1>3, <1>8 DEF Connect, StageUnresolved, PlanDone, CacheSync, Expire, ByHand,
       HandWrite, HandDelete, Weather, Outage, Restored
<1>9. CASE UNCHANGED vars
  BY <1>3, <1>9 DEF vars
<1> QED
  BY <1>4, <1>5, <1>6, <1>7, <1>8, <1>9 DEF Next, ControllerStep

(* What every step does to the course of a cleanup.                        *)
LEMMA CleanupSteps ==
  ASSUME IInv, [Next]_vars
  PROVE  \/ mode' = "sync" /\ pc' # "release"
         \/ StartDeletion
         \/ PlanDone /\ mode = "cleanup"
         \/ EngineStep /\ mode = "cleanup"
         \/ UNCHANGED <<mode, pc, plan, cand, cr, errs>>
<1>1. PassShape /\ mode \in {"sync", "cleanup"}
  BY DEF IInv, TypeOK
<1>2. CASE StartSync \/ EnsureFinalizer \/ Connect
  BY <1>1, <1>2 DEF StartSync, ReadCache, EnsureFinalizer, Connect, Proceed, ToSync,
                    ToStatus, PassShape
<1>3. CASE StageUnresolved
  BY <1>3 DEF StageUnresolved, ToStatus, NextKind
<1>4. CASE FinalizerRefused \/ WriteStatus \/ StatusRefused \/ Retry \/ Release
           \/ ReleaseRefused \/ Crash
  BY <1>4 DEF FinalizerRefused, WriteStatus, StatusRefused, Retry, Release,
              ReleaseRefused, Crash, PassEnds
<1>5. CASE PlanDone /\ mode = "sync"
  BY <1>5 DEF PlanDone
<1>6. CASE EngineStep /\ mode = "sync"
  BY <1>6 DEF EngineStep, SkipKind, EnterKind, ListFails, Settled, Unsettled, Put,
       PutAnswerLost, PutFails, Post, PostAnswerLost, PostFails, SkipPrune, PruneRefused,
       ListCandidates, DeletesDone, Delete, DeleteAnswerLost, DeleteFails, PruneError,
       NextKind, ItemDone
<1>7. CASE \/ CacheSync \/ Expire \/ DeleteObject \/ ByHand \/ Weather
           \/ \E s \in Specs : EditSpec(s)
  BY <1>7 DEF CacheSync, Expire, DeleteObject, ByHand, HandWrite, HandDelete, Weather,
              Outage, Restored, EditSpec
<1>8. CASE UNCHANGED vars
  BY <1>8 DEF vars
<1> QED
  BY <1>1, <1>2, <1>3, <1>4, <1>5, <1>6, <1>7, <1>8 DEF Next, ControllerStep

(* The steps of the engine in a cleanup.                                   *)
LEMMA CleanupEngine ==
  ASSUME IInv, EngineStep, mode = "cleanup"
  PROVE  /\ plan # <<>> /\ pc \in {"kind", "delete"} /\ UNCHANGED <<mode, cr>>
         /\ \/ SkipPrune /\ pc = "kind" /\ pc' = "kind" /\ plan' = Tail(plan)
            \/ DeletesDone /\ pc' = "kind" /\ plan' = Tail(plan)
            \/ ListCandidates /\ pc = "kind" /\ pc' = "delete" /\ plan' = plan
            \/ pc' = "release" /\ errs' = TRUE
            \/ \E m \in cand : Delete(m) /\ pc = "delete" /\ UNCHANGED <<pc, plan>>
<1>1. PassShape
  BY DEF IInv
<1>2. pc \notin {"apply", "put", "post"}
  BY <1>1 DEF PassShape
<1>3. \/ SkipPrune \/ DeletesDone \/ ListCandidates \/ PruneRefused
      \/ \E m \in cand : Delete(m) \/ DeleteAnswerLost(m) \/ DeleteFails(m)
  BY <1>2 DEF EngineStep, SkipKind, EnterKind, ListFails, Settled, Unsettled, Put,
       PutAnswerLost, PutFails, Post, PostAnswerLost, PostFails
<1>4. UNCHANGED <<mode, cr>>
  BY EngineFrame
<1>5. CASE SkipPrune \/ DeletesDone \/ ListCandidates
  BY <1>1, <1>4, <1>5 DEF SkipPrune, DeletesDone, ListCandidates, PruneDue, NextKind, PassShape
<1>6. CASE PruneRefused
  BY <1>1, <1>4, <1>6 DEF PruneRefused, PruneDue, PruneError
<1>7. ASSUME NEW m \in cand, Delete(m) \/ DeleteAnswerLost(m) \/ DeleteFails(m)
      PROVE  /\ plan # <<>> /\ pc = "delete"
             /\ \/ pc' = "release" /\ errs' = TRUE
                \/ Delete(m) /\ UNCHANGED <<pc, plan>>
  BY <1>1, <1>7 DEF Delete, DeleteAnswerLost, DeleteFails, PruneError, PassShape
<1> QED
  BY <1>3, <1>4, <1>5, <1>6, <1>7

LEMMA ReversedOrder ==
  /\ Len(DefOrder) \in Nat /\ DOMAIN DefOrder = 1..Len(DefOrder)
  /\ Len(Reverse(DefOrder)) = Len(DefOrder)
  /\ DOMAIN Reverse(DefOrder) = 1..Len(DefOrder)
  /\ \A i \in 1..Len(DefOrder) : Reverse(DefOrder)[i] = DefOrder[Len(DefOrder) + 1 - i]
<1>1. DefOrder \in Seq(Kinds)
  BY ControllerAssumption
<1>2. Len(DefOrder) \in Nat /\ DOMAIN DefOrder = 1..Len(DefOrder)
  BY <1>1
<1>3. Reverse(DefOrder) =
        [i \in 1..Len(DefOrder) |-> DefOrder[Len(DefOrder) - i + 1]]
  BY DEF Reverse
<1>4. Reverse(DefOrder) \in Seq(Kinds)
  BY <1>1, ReverseType
<1>5. DOMAIN Reverse(DefOrder) = 1..Len(DefOrder)
      /\ \A i \in 1..Len(DefOrder) : Reverse(DefOrder)[i] = DefOrder[Len(DefOrder) - i + 1]
  BY <1>3
<1>6. Len(Reverse(DefOrder)) = Len(DefOrder)
  BY <1>2, <1>4, <1>5
<1>7. \A i \in 1..Len(DefOrder) : Len(DefOrder) - i + 1 = Len(DefOrder) + 1 - i
  BY <1>2
<1> QED
  BY <1>2, <1>5, <1>6, <1>7

LEMMA WorksBackwardsStep ==
  IInv /\ WorksBackwards /\ [Next]_vars => WorksBackwards'
<1> SUFFICES ASSUME IInv, WorksBackwards, [Next]_vars PROVE WorksBackwards'
  OBVIOUS
<1>1. TypeOK /\ mode \in {"sync", "cleanup"}
  BY DEF IInv, TypeOK
<1>2. CASE mode' = "sync" /\ pc' # "release"
  BY <1>2 DEF WorksBackwards
<1>3. CASE mode' = "cleanup" /\ pc' = "release"
  BY <1>3 DEF WorksBackwards
<1>4. CASE UNCHANGED <<mode, pc, plan>>
  BY <1>4 DEF WorksBackwards
<1>5. CASE StartDeletion
  <2>1. \/ mode' = "cleanup" /\ pc' = "release"
        \/ mode' = "cleanup" /\ pc' = "kind" /\ plan' = Reverse(DefOrder)
    BY <1>5 DEF StartDeletion, ToRelease
  <2>2. CASE mode' = "cleanup" /\ pc' = "kind" /\ plan' = Reverse(DefOrder)
    <3>1. \A i \in 1..Len(DefOrder) : Len(DefOrder) + 1 - i \in 1..Len(DefOrder)
      BY ReversedOrder
    <3> QED
      BY <2>2, <3>1, ReversedOrder DEF WorksBackwards
  <2> QED
    BY <1>3, <2>1, <2>2
<1>6. ASSUME mode = "cleanup", mode' = "cleanup", pc \in {"kind", "delete"}, pc' = "kind",
             plan # <<>>, plan' = Tail(plan)
      PROVE  WorksBackwards'
  <2> SUFFICES ASSUME NEW i \in DOMAIN plan'
               PROVE  /\ Len(plan') + 1 - i \in DOMAIN DefOrder
                      /\ plan'[i] = DefOrder[Len(plan') + 1 - i]
    BY <1>6 DEF WorksBackwards
  <2>1. /\ i \in Nat /\ i + 1 \in DOMAIN plan /\ plan'[i] = plan[i + 1]
        /\ Len(plan) \in Nat /\ Len(plan') = Len(plan) - 1
    BY <1>1, <1>6, Ahead
  <2>2. Len(plan') + 1 - i = Len(plan) + 1 - (i + 1)
    BY <2>1
  <2>3. /\ Len(plan) + 1 - (i + 1) \in DOMAIN DefOrder
        /\ plan[i + 1] = DefOrder[Len(plan) + 1 - (i + 1)]
    BY <1>6, <2>1 DEF WorksBackwards
  <2> QED
    BY <2>1, <2>2, <2>3
<1>7. CASE EngineStep /\ mode = "cleanup"
  <2>1. plan # <<>> /\ pc \in {"kind", "delete"} /\ mode' = "cleanup"
        /\ \/ pc' = "kind" /\ plan' = Tail(plan)
           \/ pc' = "release"
           \/ pc' = "delete" /\ plan' = plan
    BY <1>7, CleanupEngine
  <2>2. CASE pc' = "delete" /\ plan' = plan
    BY <2>1, <2>2, <1>7 DEF WorksBackwards
  <2> QED
    BY <1>3, <1>6, <1>7, <2>1, <2>2
<1>8. CASE PlanDone /\ mode = "cleanup"
  BY <1>3, <1>8 DEF PlanDone
<1> QED
  BY <1>2, <1>4, <1>5, <1>7, <1>8, CleanupSteps

LEMMA NothingSkippedStep ==
  IInv /\ NothingSkipped /\ [Next]_vars => NothingSkipped'
<1> SUFFICES ASSUME IInv, NothingSkipped, [Next]_vars,
                    mode' = "cleanup", cr'.spec.delete, pc' = "release" => ~errs',
                    NEW k \in Prunable, NEW n \in cr'.managed[k], OperatorMade(k, n)'
             PROVE  pc' # "release" /\ StillAhead(k, n)'
  BY DEF NothingSkipped
<1>1. TypeOK /\ PassShape
  BY DEF IInv
<1>2. k \in Kinds /\ app \in [Kinds -> [Names -> Cell \cup {Absent}]]
  BY <1>1, KindsAssumption DEF TypeOK
<1>3. CASE StartDeletion
  <2>1. n \in Names
    BY <1>1, <1>2, <1>3 DEF StartDeletion, ReadCache, TypeOK, ObjType, Ledger
  <2>2. cr' = [spec |-> cache.spec, managed |-> cache.managed]
    BY <1>3 DEF StartDeletion, ReadCache
  <2>3. pc' = "kind" /\ plan' = Reverse(DefOrder)
    BY <1>3, <2>2 DEF StartDeletion, ToRelease
  <2>4. PICK j \in 1..Len(DefOrder) : DefOrder[j] = k
    BY ControllerAssumption, ReversedOrder DEF Range
  <2>5. /\ Len(DefOrder) + 1 - j \in 1..Len(DefOrder)
        /\ Len(DefOrder) + 1 - (Len(DefOrder) + 1 - j) = j
    BY ReversedOrder
  <2>6. Len(DefOrder) + 1 - j \in DOMAIN plan' /\ plan'[Len(DefOrder) + 1 - j] = k
    BY <2>3, <2>4, <2>5, ReversedOrder
  <2> QED
    BY <2>3, <2>6 DEF StillAhead
<1>4. ASSUME mode = "cleanup", cr' = cr, pc = "release" => ~errs
      PROVE  pc # "release" /\ OperatorMade(k, n) /\ StillAhead(k, n)
  <2>1. n \in Names /\ n \in cr.managed[k] /\ cr.spec.delete
    BY <1>1, <1>2, <1>4, DesiredType
  <2>2. OperatorMade(k, n)
    BY <1>2, <1>4, <2>1, CleanupMakesNothing
  <2> QED
    BY <1>4, <2>1, <2>2 DEF NothingSkipped
<1>5. CASE UNCHANGED <<mode, pc, plan, cand, cr, errs>>
  BY <1>4, <1>5 DEF StillAhead
<1>6. CASE PlanDone /\ mode = "cleanup"
  <2>1. pc = "kind" /\ plan = <<>> /\ cr' = cr
    BY <1>6 DEF PlanDone
  <2> QED
    BY <1>4, <1>6, <2>1 DEF StillAhead
<1>7. CASE EngineStep /\ mode = "cleanup"
  <2>1. plan # <<>> /\ pc \in {"kind", "delete"} /\ cr' = cr
    BY <1>7, CleanupEngine
  <2>2. PICK i \in DOMAIN plan : plan[i] = k /\ (pc = "delete" /\ i = 1 => n \in cand)
    BY <1>4, <1>7, <2>1 DEF StillAhead
  <2>3. n \in Names /\ n \in cr.managed[k] /\ OperatorMade(k, n) /\ cur = plan[1]
    BY <1>1, <1>2, <1>4, <1>7, <2>1, Ahead, DesiredType
  <2>4. ASSUME i # 1, pc' = "kind", plan' = Tail(plan)
        PROVE  pc' # "release" /\ StillAhead(k, n)'
    <3>1. Len(plan) \in Nat /\ DOMAIN plan = 1..Len(plan) /\ Len(Tail(plan)) = Len(plan) - 1
          /\ Tail(plan) \in Seq(Kinds)
      BY <1>1, <2>1, Ahead, Current
    <3>2. i - 1 \in DOMAIN Tail(plan)
      BY <2>4, <3>1
    <3>3. Tail(plan)[i - 1] = plan[i - 1 + 1]
      BY <1>1, <2>1, <3>2, Ahead
    <3>4. i - 1 + 1 = i
      BY <3>1
    <3> QED
      BY <2>2, <2>4, <3>2, <3>3, <3>4 DEF StillAhead
  <2>5. CASE SkipPrune /\ pc = "kind" /\ pc' = "kind" /\ plan' = Tail(plan)
    <3>1. ~PruneDue
      BY <2>5 DEF SkipPrune
    <3>2. i # 1
      BY <1>7, <2>1, <2>2, <2>3, <2>5, <3>1 DEF PruneDue
    <3> QED
      BY <2>4, <2>5, <3>2
  <2>6. CASE DeletesDone /\ pc' = "kind" /\ plan' = Tail(plan)
    <3>1. i # 1
      BY <2>2, <2>6 DEF DeletesDone
    <3> QED
      BY <2>4, <2>6, <3>1
  <2>7. CASE ListCandidates /\ pc = "kind" /\ pc' = "delete" /\ plan' = plan
    <3>1. cand' = (Existing(cur) \cap cr.managed[cur]) \ {}
      BY <1>7, <2>7 DEF ListCandidates, Candidates, Wanted
    <3>2. i = 1 => n \in cand'
      BY <2>2, <2>3, <3>1 DEF Existing, OperatorMade
    <3> QED
      BY <2>2, <2>7, <3>2 DEF StillAhead
  <2>8. ASSUME NEW m \in cand, Delete(m), pc = "delete", UNCHANGED <<pc, plan>>
        PROVE  pc' # "release" /\ StillAhead(k, n)'
    <3>1. cand' = cand \ {m} /\ app' = [app EXCEPT ![cur][m] = Absent]
      BY <2>8 DEF Delete
    <3>2. i = 1 => n # m
      BY <1>2, <2>2, <2>3, <3>1 DEF OperatorMade
    <3> QED
      BY <2>2, <2>8, <3>1, <3>2 DEF StillAhead
  <2> QED
    BY <1>7, <2>5, <2>6, <2>7, <2>8, CleanupEngine
<1> QED
  BY <1>3, <1>5, <1>6, <1>7, CleanupSteps

-----------------------------------------------------------------------------
(* The results.                                                            *)

(* What a pass may remove and has left to do is in step with what it       *)
(* already removed, in every reachable state: the limits follow from it.   *)
THEOREM SweepInductive == SafeSpec => []SweepInv
<1>1. Init => SweepInv
  <2> SUFFICES ASSUME Init PROVE SweepInv
    OBVIOUS
  <2>1. ~fresh /\ mode = "sync" /\ pc = "idle"
    BY DEF Init, EngineInit
  <2> QED
    BY <2>1, BudgetAtFirst
       DEF SweepInv, CopyIsCurrent, WorksBackwards, NothingSkipped
<1>2. IInv /\ SweepInv /\ [Next]_vars => SweepInv'
  BY BudgetStep, CopyIsCurrentStep, WorksBackwardsStep, NothingSkippedStep DEF SweepInv
<1> QED
  BY <1>1, <1>2, Inductive, PTL DEF SafeSpec

(* No pass deletes more resources of one kind than the safety threshold,   *)
(* however the candidates change while it deletes them.                    *)
THEOREM PrunesAreBounded == SafeSpec => []PruneIsBounded
<1>1. SweepInv => PruneIsBounded
  BY DEF SweepInv, PruneBudget
<1> QED
  BY <1>1, SweepInductive, PTL

(* The finalizer of a resource with deletionPolicy delete is released only *)
(* after everything the ledger names was removed, or after the deadline.   *)
THEOREM ReleasesLast == SafeSpec => NoReleaseBeforeCleanup
<1> DEFINE Earned ==
       obj.exists /\ ~obj'.exists /\ obj.deleting /\ obj.spec.delete =>
         \/ gaveUp' /\ expired
         \/ \A k \in Prunable : \A n \in obj.managed[k] : ~OperatorMade(k, n)
<1>1. IInv /\ SweepInv /\ [Next]_vars => [Earned]_vars
  <2> SUFFICES ASSUME IInv, SweepInv, [Next]_vars,
                      obj.exists, ~obj'.exists, obj.deleting, obj.spec.delete
               PROVE  \/ gaveUp' /\ expired
                      \/ \A k \in Prunable : \A n \in obj.managed[k] : ~OperatorMade(k, n)
    OBVIOUS
  <2>1. obj \in ObjType
    BY DEF IInv, TypeOK
  <2>2. Release
    BY <2>1 DEF Next, ControllerStep, StartSync, StartDeletion, ReadCache, EnsureFinalizer,
         FinalizerRefused, Connect, StageUnresolved, PlanDone, WriteStatus, StatusRefused,
         Retry, ReleaseRefused, CacheSync, EditSpec, DeleteObject, Expire, ByHand,
         Weather, Crash, vars, ObjType
  <2>3. pc = "release" /\ fresh /\ MayRelease /\ gaveUp' = (gaveUp \/ errs)
    BY <2>2 DEF Release
  <2>4. mode = "cleanup" /\ cr.spec = obj.spec /\ cr.managed = obj.managed
    BY <2>3 DEF SweepInv, CopyIsCurrent, WorksBackwards
  <2>5. CASE errs
    BY <2>3, <2>5 DEF MayRelease
  <2>6. CASE ~errs
    BY <2>3, <2>4, <2>6 DEF SweepInv, NothingSkipped
  <2> QED
    BY <2>5, <2>6
<1> QED
  BY <1>1, Inductive, SweepInductive, PTL DEF SafeSpec, NoReleaseBeforeCleanup

(* A cleanup removes dependents before what they depend on.                *)
THEOREM CleansInReverse == SafeSpec => CleanupIsReversed
<1> DEFINE Reversed ==
       mode = "cleanup" =>
         \A k \in Kinds, n \in Names : Erased(k, n) =>
           \A l \in Prunable : Position(l) > Position(k) =>
             \A m \in cr.managed[l] : ~OperatorMade(l, m)
<1>1. ASSUME NEW i \in DOMAIN DefOrder
      PROVE  Position(DefOrder[i]) = i
  <2>1. DefOrder \in Seq(Kinds) /\ IsInjective(DefOrder) /\ DOMAIN DefOrder = 1..Len(DefOrder)
    BY ControllerAssumption
  <2>2. \A j \in 1..Len(DefOrder) : DefOrder[j] = DefOrder[i] <=> j = i
    BY <2>1 DEF IsInjective
  <2> QED
    BY <2>1, <2>2 DEF Position
<1>2. IInv /\ SweepInv /\ [Next]_vars => [Reversed]_vars
  <2> SUFFICES ASSUME IInv, SweepInv, [Next]_vars, mode = "cleanup",
                      NEW k \in Kinds, NEW n \in Names, Erased(k, n),
                      NEW l \in Prunable, Position(l) > Position(k),
                      NEW m \in cr.managed[l], OperatorMade(l, m)
               PROVE  FALSE
    OBVIOUS
  <2>1. pc = "delete" /\ k = cur
    BY ErasesCandidates
  <2>2. TypeOK /\ plan # <<>> /\ cr.spec.delete
    BY <2>1 DEF IInv, PassShape
  <2>3. PICK i \in DOMAIN plan : plan[i] = l
    BY <2>1, <2>2 DEF SweepInv, NothingSkipped, StillAhead
  <2>4. cur = plan[1] /\ 1 \in DOMAIN plan /\ Len(plan) \in Nat /\ DOMAIN plan = 1..Len(plan)
    BY <2>2, Ahead
  <2>5. /\ Len(plan) + 1 - 1 \in DOMAIN DefOrder /\ k = DefOrder[Len(plan) + 1 - 1]
        /\ Len(plan) + 1 - i \in DOMAIN DefOrder /\ l = DefOrder[Len(plan) + 1 - i]
    BY <2>1, <2>3, <2>4 DEF SweepInv, WorksBackwards
  <2>6. Position(k) = Len(plan) + 1 - 1 /\ Position(l) = Len(plan) + 1 - i
    BY <1>1, <2>5
  <2> QED
    BY <2>3, <2>4, <2>6
<1> QED
  BY <1>2, Inductive, SweepInductive, PTL DEF SafeSpec, CleanupIsReversed
=============================================================================
