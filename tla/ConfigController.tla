---------------------------- MODULE ConfigController ----------------------------
(***************************************************************************)
(* The controller of one custom resource of the Servarr family             *)
(* (SonarrConfig and its siblings): Reconcile reads the resource from the  *)
(* informer cache, handles its finalizer and its deletion                  *)
(* (internal/controller/common/finalizer.go), runs the sync engine of      *)
(* ReconcileEngine and writes the outcome and the ownership ledger         *)
(* status.managedResources back (internal/controller/common/helpers.go).   *)
(*                                                                         *)
(* The API server accepts a write only from a writer that read the latest  *)
(* resourceVersion.  Versions are not counted: fresh says whether the copy *)
(* the pass holds is the latest version, cacheFresh whether the cached one *)
(* is.                                                                     *)
(***************************************************************************)
EXTENDS ReconcileEngine, SequencesExt

CONSTANTS
  Specs,          \* the specs users write
  DefOrder,       \* def.Resources: the kinds in declaration order
  SyncOrder,      \* the kinds in the order pvr.Reconcile stages them
  FirstBase,      \* the first kind of the base stage
  LateKinds,      \* the kinds resolved and applied in a stage of their own
  MaxEdits,       \* bound on edits of the custom resource
  MaxHands        \* bound on changes made by hand in the application

ASSUME ControllerAssumption ==
  /\ Specs \subseteq SpecType
  /\ DefOrder \in Seq(Kinds) /\ IsInjective(DefOrder)
  /\ SyncOrder \in Seq(Kinds) /\ IsInjective(SyncOrder)
  /\ Kinds \subseteq Range(SyncOrder)
  /\ Prunable \subseteq Range(DefOrder)
  /\ FirstBase \in Kinds
  /\ LateKinds \subseteq Kinds
  /\ MaxEdits \in Nat
  /\ MaxHands \in Nat

VARIABLES
  obj,         \* the custom resource in the API server
  cache,       \* the informer's copy of it
  cacheFresh,  \* the copy is the latest version
  fresh,       \* the version the pass works on is the latest
  expired,     \* DeletionGiveUpAfter has passed since deletion was requested
  edits, hands,
  touched,     \* history: the application was changed by hand during this pass
  dropped,     \* history: recorded creations whose status write never happened
  gaveUp       \* history: the finalizer was released although cleanup failed

objVars == <<obj, cache, cacheFresh, fresh>>
boundVars == <<edits, hands>>
historyVars == <<touched, dropped, gaveUp>>
ctrlVars == <<obj, cache, cacheFresh, fresh, expired, edits, hands, touched,
              dropped, gaveUp>>
vars == <<engineVars, ctrlVars>>

ObjType == [exists : BOOLEAN, spec : SpecType, managed : Ledger, synced : BOOLEAN,
            finalizer : BOOLEAN, deleting : BOOLEAN]

Init ==
  /\ EngineInit
  /\ obj \in [exists : {TRUE}, spec : Specs, managed : {NoNames}, synced : {FALSE},
              finalizer : {FALSE}, deleting : {FALSE}]
  /\ cr = [spec |-> obj.spec, managed |-> NoNames]
  /\ cache = obj /\ cacheFresh = TRUE /\ fresh = FALSE
  /\ expired = FALSE /\ edits = 0 /\ hands = 0
  /\ touched = FALSE /\ dropped = {} /\ gaveUp = FALSE

(* A write to the custom resource other than by the pass at work.          *)
Superseded == cacheFresh' = FALSE /\ fresh' = FALSE

PassEnds ==
  /\ pc' = "idle" /\ mode' = "sync" /\ plan' = <<>>
  /\ todo' = {} /\ item' = NoItem /\ stale' = {} /\ failed' = FALSE
  /\ cand' = {} /\ managed' = NoNames /\ errs' = FALSE /\ removed' = {}
  /\ cr' = [cr EXCEPT !.managed = NoNames]
  /\ fresh' = FALSE /\ touched' = FALSE

(* Creations of this pass that the API server has not recorded.            *)
Unrecorded == {kn \in Kinds \X Names : kn[2] \in managed[kn[1]] \ obj.managed[kn[1]]}

-----------------------------------------------------------------------------
(* Reconcile, up to the first request to the application.                  *)

ToSync == pc' = "connect" /\ mode' = "sync" /\ plan' = SyncOrder /\ errs' = FALSE
ToStatus == pc' = "status" /\ mode' = "sync" /\ plan' = <<>> /\ errs' = TRUE
ToRelease(err) == pc' = "release" /\ mode' = "cleanup" /\ plan' = <<>> /\ errs' = err

(* deletionPolicy delete under driftPolicy observe is rejected (finalizer.go:110). *)
Conflicting(spec) == spec.delete /\ spec.observe
Proceed(spec) == IF Conflicting(spec) THEN ToStatus ELSE ToSync

(* Seeded fault: the pass starts from an empty ledger instead of a clone,  *)
(* so names of omitted sections are dropped.                               *)
FaultyReadCache ==
  /\ pc = "idle" /\ cache.exists
  /\ cr' = [spec |-> cache.spec, managed |-> cache.managed]
  /\ managed' = NoNames
  /\ fresh' = cacheFresh
  /\ UNCHANGED <<appVars, applyVars, stale, pruneVars, created, lost, faults,
                 obj, cache, cacheFresh, expired, boundVars, historyVars>>

ReadCache ==
  /\ pc = "idle" /\ cache.exists
  /\ cr' = [spec |-> cache.spec, managed |-> cache.managed]
  /\ managed' = cache.managed
  /\ fresh' = cacheFresh
  /\ UNCHANGED <<appVars, applyVars, stale, pruneVars, created, lost, faults,
                 obj, cache, cacheFresh, expired, boundVars, historyVars>>

StartSync ==
  /\ ReadCache
  /\ ~cache.deleting
  /\ IF cache.finalizer THEN Proceed(cache.spec)
     ELSE pc' = "finalizer" /\ UNCHANGED <<mode, plan, errs>>

(* Seeded faults: cleanup under observe; cleanup in declaration order.     *)
FaultyStartDeletion ==
  /\ ReadCache
  /\ cache.deleting /\ cache.finalizer
  /\ \/ ~cache.spec.delete /\ ToRelease(FALSE)
     \/ /\ cache.spec.delete
        /\ pc' = "kind" /\ mode' = "cleanup" /\ plan' = Reverse(DefOrder)
        /\ errs' = FALSE

MisorderedStartDeletion ==
  /\ ReadCache
  /\ cache.deleting /\ cache.finalizer
  /\ \/ ~cache.spec.delete /\ ToRelease(FALSE)
     \/ Conflicting(cache.spec) /\ ToRelease(TRUE)
     \/ /\ cache.spec.delete /\ ~cache.spec.observe
        /\ pc' = "kind" /\ mode' = "cleanup" /\ plan' = DefOrder
        /\ errs' = FALSE

(* HandleDeletion, up to remove(ctx).                                      *)
StartDeletion ==
  /\ ReadCache
  /\ cache.deleting /\ cache.finalizer
  /\ \/ ~cache.spec.delete /\ ToRelease(FALSE)
     \/ Conflicting(cache.spec) /\ ToRelease(TRUE)
     \/ /\ cache.spec.delete /\ ~cache.spec.observe
        /\ pc' = "kind" /\ mode' = "cleanup" /\ plan' = Reverse(DefOrder)
        /\ errs' = FALSE

EnsureFinalizer ==
  /\ pc = "finalizer" /\ fresh /\ obj.exists
  /\ obj' = [obj EXCEPT !.finalizer = TRUE]
  /\ cacheFresh' = FALSE
  /\ Proceed(cr.spec)
  /\ UNCHANGED <<appVars, cr, applyVars, stale, pruneVars, managed, created, lost,
                 faults, cache, fresh, expired, boundVars, historyVars>>

(* The pass ends and is requeued; neither status nor gauge is written.     *)
FinalizerRefused ==
  /\ pc = "finalizer" /\ ~(fresh /\ obj.exists)
  /\ PassEnds
  /\ UNCHANGED <<appVars, created, lost, faults, obj, cache, cacheFresh, expired,
                 boundVars, dropped, gaveUp>>

(* Secrets, TLS, client and Ping.                                          *)
Connect ==
  /\ pc = "connect"
  /\ \/ up /\ pc' = "kind" /\ UNCHANGED <<mode, plan, errs>>
     \/ ~up /\ ToStatus
  /\ UNCHANGED <<appVars, cr, applyVars, stale, pruneVars, managed, created, lost,
                 faults, ctrlVars>>

-----------------------------------------------------------------------------
(* pvr.Reconcile around the engine. The kinds have no option fields here:  *)
(* what ValidateOptionFields reports of them is in IntegrationPass.        *)

(* A stage whose references do not resolve is left out; the base stage     *)
(* takes the later ones with it.                                           *)
StageUnresolved ==
  /\ pc = "kind" /\ mode = "sync" /\ plan # <<>>
  /\ faults < MaxFaults /\ faults' = faults + 1
  /\ \/ cur = FirstBase /\ ToStatus
     \/ cur \in LateKinds /\ Declared(cr.spec, cur) # {} /\ NextKind(TRUE)
        /\ UNCHANGED mode
  /\ UNCHANGED <<appVars, cr, applyVars, stale, pruneVars, managed, created, lost,
                 ctrlVars>>

PlanDone ==
  /\ pc = "kind" /\ plan = <<>>
  /\ pc' = IF mode = "sync" THEN "status" ELSE "release"
  /\ UNCHANGED <<appVars, cr, mode, plan, applyVars, stale, pruneVars, managed, errs,
                 created, lost, faults, ctrlVars>>

(* Seeded fault: UpdateStatusManaged is not called before UpdateStatus.    *)
FaultyWriteStatus ==
  /\ pc = "status" /\ fresh /\ obj.exists
  /\ obj' = [obj EXCEPT !.synced = ~errs]
  /\ cacheFresh' \in IF errs /\ obj' = obj THEN {cacheFresh, FALSE} ELSE {FALSE}
  /\ PassEnds
  /\ UNCHANGED <<appVars, created, lost, faults, cache, expired, boundVars,
                 dropped, gaveUp>>

(* Seeded fault: the status is written over a newer version.               *)
BlindWriteStatus ==
  /\ pc = "status" /\ obj.exists
  /\ obj' = [obj EXCEPT !.managed = managed, !.synced = ~errs]
  /\ cacheFresh' = FALSE
  /\ PassEnds
  /\ UNCHANGED <<appVars, created, lost, faults, cache, expired, boundVars,
                 dropped, gaveUp>>

(* UpdateStatusManaged and UpdateStatus. A successful pass renews          *)
(* lastSyncTime, so it always makes a new version.                         *)
WriteStatus ==
  /\ pc = "status" /\ fresh /\ obj.exists
  /\ obj' = [obj EXCEPT !.managed = managed, !.synced = ~errs]
  /\ cacheFresh' \in IF errs /\ obj' = obj THEN {cacheFresh, FALSE} ELSE {FALSE}
  /\ PassEnds
  /\ UNCHANGED <<appVars, created, lost, faults, cache, expired, boundVars,
                 dropped, gaveUp>>

(* The refused update is logged and not retried (helpers.go:113).          *)
StatusRefused ==
  /\ pc = "status"
  /\ \/ ~(fresh /\ obj.exists) /\ UNCHANGED faults
     \/ faults < MaxFaults /\ faults' = faults + 1
  /\ dropped' = dropped \cup Unrecorded
  /\ PassEnds
  /\ UNCHANGED <<appVars, created, lost, obj, cache, cacheFresh, expired, boundVars,
                 gaveUp>>

(* HandleDeletion after remove(ctx): retry, or release the finalizer.      *)

(* Seeded faults: there is no deadline; it has always passed.              *)
NeverMayRelease == ~errs
AlwaysMayRelease == TRUE
MayRelease == ~errs \/ expired

Retry ==
  /\ pc = "release" /\ ~MayRelease
  /\ PassEnds
  /\ UNCHANGED <<appVars, created, lost, faults, obj, cache, cacheFresh, expired,
                 boundVars, dropped, gaveUp>>

Release ==
  /\ pc = "release" /\ MayRelease
  /\ fresh /\ obj.exists
  /\ obj' = [obj EXCEPT !.exists = FALSE, !.finalizer = FALSE]
  /\ cacheFresh' = FALSE
  /\ gaveUp' = (gaveUp \/ errs)
  /\ PassEnds
  /\ UNCHANGED <<appVars, created, lost, faults, cache, expired, boundVars, dropped>>

ReleaseRefused ==
  /\ pc = "release" /\ MayRelease
  /\ ~(fresh /\ obj.exists)
  /\ PassEnds
  /\ UNCHANGED <<appVars, created, lost, faults, obj, cache, cacheFresh, expired,
                 boundVars, dropped, gaveUp>>

ControllerStep ==
  \/ StartSync \/ StartDeletion \/ EnsureFinalizer \/ FinalizerRefused \/ Connect
  \/ EngineStep /\ UNCHANGED ctrlVars
  \/ StageUnresolved \/ PlanDone
  \/ WriteStatus \/ StatusRefused \/ Retry \/ Release \/ ReleaseRefused

-----------------------------------------------------------------------------
(* The cluster, the users and time.                                        *)

CacheSync ==
  /\ ~cacheFresh
  /\ cache' = obj /\ cacheFresh' = TRUE
  /\ UNCHANGED <<engineVars, obj, fresh, expired, boundVars, historyVars>>

EditSpec(s) ==
  /\ obj.exists /\ s # obj.spec /\ edits < MaxEdits
  /\ obj' = [obj EXCEPT !.spec = s]
  /\ edits' = edits + 1
  /\ Superseded
  /\ UNCHANGED <<engineVars, cache, expired, hands, historyVars>>

DeleteObject ==
  /\ obj.exists /\ ~obj.deleting /\ edits < MaxEdits
  /\ obj' = IF obj.finalizer THEN [obj EXCEPT !.deleting = TRUE]
            ELSE [obj EXCEPT !.exists = FALSE]
  /\ edits' = edits + 1
  /\ Superseded
  /\ UNCHANGED <<engineVars, cache, expired, hands, historyVars>>

Expire ==
  /\ obj.exists /\ obj.deleting /\ ~expired
  /\ expired' = TRUE
  /\ UNCHANGED <<engineVars, objVars, boundVars, historyVars>>

ByHand ==
  /\ hands < MaxHands /\ hands' = hands + 1
  /\ touched' = (pc # "idle")
  /\ \E k \in Kinds, n \in Names :
       \/ \E v \in Vals : HandWrite(k, n, v)
       \/ HandDelete(k, n)
  /\ UNCHANGED <<objVars, expired, edits, dropped, gaveUp>>

Weather == (Outage \/ Restored) /\ UNCHANGED ctrlVars

(* The process dies during a pass; the next one lists the resource anew.   *)
Crash ==
  /\ pc # "idle" /\ faults < MaxFaults /\ faults' = faults + 1
  /\ dropped' = dropped \cup Unrecorded
  /\ PassEnds
  /\ cache' = obj /\ cacheFresh' = TRUE
  /\ UNCHANGED <<appVars, created, lost, obj, expired, boundVars, gaveUp>>

Next ==
  \/ ControllerStep \/ CacheSync \/ Expire
  \/ \E s \in Specs : EditSpec(s)
  \/ DeleteObject \/ ByHand \/ Weather \/ Crash

(* Every ending of a pass requeues it and watch events are delivered, so the *)
(* controller and the cache never stop; users and faults owe nothing.      *)
Fairness == WF_vars(ControllerStep) /\ WF_vars(CacheSync) /\ WF_vars(Expire)

SafeSpec == Init /\ [][Next]_vars
FairSpec == SafeSpec /\ Fairness
=============================================================================
