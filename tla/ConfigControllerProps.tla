-------------------------- MODULE ConfigControllerProps --------------------------
(* What the controller of ConfigController promises.                       *)
EXTENDS ConfigController

(* Every variable keeps its type.                                          *)
TypeOK ==
  /\ app \in [Kinds -> [Names -> Cell \cup {Absent}]]
  /\ up \in BOOLEAN
  /\ cr \in [spec : SpecType, managed : Ledger]
  /\ mode \in {"sync", "cleanup"}
  /\ pc \in {"idle", "finalizer", "connect", "kind", "apply", "put", "post",
             "delete", "status", "release"}
  /\ plan \in Seq(Kinds)
  /\ todo \subseteq Names /\ stale \subseteq Names /\ cand \subseteq Names
  /\ item \in Names \cup {NoItem}
  /\ failed \in BOOLEAN /\ errs \in BOOLEAN
  /\ managed \in Ledger /\ created \in Ledger
  /\ removed \subseteq Kinds \X Names /\ lost \subseteq Kinds \X Names
  /\ faults \in 0..MaxFaults
  /\ obj \in ObjType /\ cache \in ObjType
  /\ cacheFresh \in BOOLEAN /\ fresh \in BOOLEAN /\ expired \in BOOLEAN
  /\ edits \in 0..MaxEdits /\ hands \in 0..MaxHands
  /\ touched \in BOOLEAN /\ gaveUp \in BOOLEAN
  /\ dropped \subseteq Kinds \X Names

-----------------------------------------------------------------------------
(* A step of the operator on the application, and the removal of a cell.   *)
ByOperator == app' # app /\ hands' = hands
Erased(k, n) == ByOperator /\ app'[k][n] # app[k][n] /\ app'[k][n] = Absent

(* The ledger never names a resource whose creation by the operator was    *)
(* not acknowledged: adoption of an existing resource confers no ownership *)
(* (README "only deletes resources it created itself").                    *)
LedgerWasEarned ==
  \A k \in Kinds :
    /\ obj.managed[k] \subseteq created[k]
    /\ cache.managed[k] \subseteq created[k]
    /\ managed[k] \subseteq created[k]

(* A deletion hits only a name the operator created, of a prunable kind;   *)
(* in a sync it is one the pass does not want, and the kind applied whole; *)
(* in a cleanup the resource is gone or going and asks for it.             *)
DeletesAreJustified ==
  [][\A k \in Kinds, n \in Names :
       Erased(k, n) =>
         /\ n \in created[k] /\ k \in Prunable
         /\ \/ /\ mode = "sync" /\ cr.spec.prune /\ ~failed
               /\ n \notin Declared(cr.spec, k) /\ Declared(cr.spec, k) # {}
            \/ mode = "cleanup" /\ cr.spec.delete /\ obj.deleting]_vars

(* Under driftPolicy observe no request of a pass changes the application, *)
(* deletion of the custom resource included.                               *)
ObserveIsReadOnly == [][ByOperator => ~cr.spec.observe]_vars

(* In one pass no more than DefaultMaxPruneCount resources of a kind are   *)
(* deleted, lost answers and candidates deleted by hand included.          *)
PruneIsBounded ==
  \A k \in Kinds : Cardinality({n \in Names : <<k, n>> \in removed}) <= MaxPrune

(* The status forgets a name only when no resource the operator made is    *)
(* left under it: stale passes, refused writes and retries never abandon   *)
(* one (reconcile.go:71 "Retain ownership until a remote deletion succeeds"). *)
LedgerKeepsLiveResources ==
  [][\A k \in Kinds : \A n \in obj.managed[k] \ obj'.managed[k] :
       ~OperatorMade(k, n)]_vars

(* A resource the operator made is in the ledger, on its way there, or was *)
(* lost to one of three causes: its creation was reported as an error, the *)
(* status write of its pass was refused, or the process died before it.    *)
OrphansAreExplained ==
  \A k \in Kinds, n \in Names :
    OperatorMade(k, n) =>
      \/ n \in obj.managed[k] \/ n \in managed[k]
      \/ <<k, n>> \in dropped \/ <<k, n>> \in lost

(* Synced=True is written only when, unless somebody changed the           *)
(* application by hand during the pass, every declared resource is there   *)
(* with its declared value and nothing prunable is left over.              *)
SyncedIsHonest ==
  [][pc = "status" /\ pc' = "idle" /\ obj' # obj /\ obj'.synced
       /\ ~touched /\ ~cr.spec.observe =>
       \A k \in Kinds :
         /\ \A n \in Declared(cr.spec, k) :
              /\ app[k][n] # Absent
              /\ k \notin CreateOnly => app[k][n].val = cr.spec.desired[k][n]
         /\ cr.spec.prune /\ k \in Prunable /\ Declared(cr.spec, k) # {} =>
              Existing(k) \cap obj'.managed[k] \subseteq Declared(cr.spec, k)]_vars

(* A custom resource with deletionPolicy delete disappears with everything *)
(* its ledger names removed, unless the deadline passed first.             *)
NoReleaseBeforeCleanup ==
  [][obj.exists /\ ~obj'.exists /\ obj.deleting /\ obj.spec.delete =>
       \/ gaveUp' /\ expired
       \/ \A k \in Prunable : \A n \in obj.managed[k] : ~OperatorMade(k, n)]_vars

(* Dependents first: while a cleanup deletes a resource, nothing it is to  *)
(* delete is left in the kinds declared after it (a quality profile goes   *)
(* before the custom formats it refers to).                                *)
Position(k) == CHOOSE i \in 1..Len(DefOrder) : DefOrder[i] = k
CleanupIsReversed ==
  [][mode = "cleanup" =>
       \A k \in Kinds, n \in Names : Erased(k, n) =>
         \A l \in Prunable : Position(l) > Position(k) =>
           \A m \in cr.managed[l] : ~OperatorMade(l, m)]_vars

(* The controller, seen through the application and status.managedResources, *)
(* keeps the contract with the users of the application.                   *)
Contract == INSTANCE OwnershipContract WITH earned <- created, ledger <- obj.managed
KeepsContract == Contract!Spec

-----------------------------------------------------------------------------
(* The inductive invariant behind them.                                    *)

(* Where the pass is determines what it holds: the guards it has passed    *)
(* are still true of its own copy of the resource.                         *)
PassShape ==
  /\ pc \in {"apply", "put", "post", "delete"} => plan # <<>>
  /\ pc \in {"idle", "finalizer", "connect", "apply", "put", "post", "status"} => mode = "sync"
  /\ pc \in {"apply", "put", "post"} =>
       todo \subseteq Declared(cr.spec, cur) /\ Declared(cr.spec, cur) # {}
  /\ pc \in {"put", "post"} => item \in todo /\ ~cr.spec.observe
  /\ pc = "put" /\ item \notin stale => app[cur][item] # Absent
  /\ pc = "put" => cur \notin CreateOnly
  /\ pc = "delete" =>
       /\ cur \in Prunable /\ cand \subseteq cr.managed[cur] /\ ~cr.spec.observe
       /\ mode = "sync" => /\ cr.spec.prune /\ ~failed
                          /\ Declared(cr.spec, cur) # {}
                          /\ cand \cap Declared(cr.spec, cur) = {}
  /\ mode = "cleanup" /\ pc \in {"kind", "delete"} =>
       cr.spec.delete /\ ~cr.spec.observe /\ obj.deleting

(* Every copy of the ledger was earned.                                    *)
EveryCopyWasEarned ==
  \A k \in Kinds :
    /\ obj.managed[k] \subseteq created[k]
    /\ cache.managed[k] \subseteq created[k]
    /\ cr.managed[k] \subseteq created[k]
    /\ managed[k] \subseteq created[k]

(* A pass on the latest version has dropped only dead, undeclared names.   *)
DroppedAreDead ==
  fresh => \A k \in Kinds : \A n \in obj.managed[k] \ managed[k] :
             /\ ~OperatorMade(k, n)
             /\ mode = "sync" => n \notin Declared(cr.spec, k)

(* A live resource of the operator is in the status, was written off, or   *)
(* is in the result of a sync that still has its status to write.          *)
CreationsAreTracked ==
  \A k \in Kinds, n \in Names :
    OperatorMade(k, n) =>
      \/ n \in obj.managed[k] \/ <<k, n>> \in dropped \/ <<k, n>> \in lost
      \/ /\ n \in managed[k] /\ mode = "sync"
         /\ pc \in {"kind", "apply", "put", "post", "delete", "status"}

IInv ==
  /\ TypeOK
  /\ PassShape
  /\ EveryCopyWasEarned
  /\ cacheFresh => cache = obj
  /\ cache.deleting => obj.deleting
  /\ DroppedAreDead
  /\ CreationsAreTracked

-----------------------------------------------------------------------------
(* The inductive invariant behind the limits of a pass: PruneIsBounded,    *)
(* NoReleaseBeforeCleanup and CleanupIsReversed.                           *)

Removed(k) == {n \in Names : <<k, n>> \in removed}

(* A pass visits a kind once and has deleted nothing of the kinds ahead;   *)
(* what it deleted and may still delete of the current one is in bounds.   *)
PruneBudget ==
  /\ IsInjective(plan)
  /\ pc \in {"idle", "finalizer", "connect"} => removed = {}
  /\ pc \in {"kind", "apply", "put", "post", "delete"} =>
       \A i \in DOMAIN plan : (i = 1 => pc # "delete") => Removed(plan[i]) = {}
  /\ pc = "delete" => Cardinality(Removed(cur) \cup cand) <= MaxPrune
  /\ PruneIsBounded

(* A pass on the latest version works on what that version says.           *)
CopyIsCurrent == fresh => cr.spec = obj.spec /\ cr.managed = obj.managed

(* A cleanup works DefOrder off from its end.                              *)
WorksBackwards ==
  /\ pc = "release" => mode = "cleanup"
  /\ mode = "cleanup" /\ pc # "release" =>
       \A i \in DOMAIN plan : /\ Len(plan) + 1 - i \in DOMAIN DefOrder
                             /\ plan[i] = DefOrder[Len(plan) + 1 - i]

(* Until it fails, what the operator made of its ledger is ahead of it.    *)
StillAhead(k, n) ==
  \E i \in DOMAIN plan : plan[i] = k /\ (pc = "delete" /\ i = 1 => n \in cand)
NothingSkipped ==
  mode = "cleanup" /\ cr.spec.delete /\ (pc = "release" => ~errs) =>
    \A k \in Prunable : \A n \in cr.managed[k] :
      OperatorMade(k, n) => pc # "release" /\ StillAhead(k, n)

SweepInv == PruneBudget /\ CopyIsCurrent /\ WorksBackwards /\ NothingSkipped

(* The inductive invariant behind SyncedIsHonest.                          *)
Settles(k, n) ==
  /\ app[k][n] # Absent
  /\ k \notin CreateOnly => app[k][n].val = cr.spec.desired[k][n]
InWork(k) == pc \in {"apply", "put", "post", "delete"} /\ k = cur
Leftovers(k) == (Existing(k) \cap cr.managed[k]) \ Declared(cr.spec, k)

(* The result names what the ledger named and what the pass created.       *)
ResultIsExplained ==
  \A k \in Kinds : managed[k] \subseteq cr.managed[k] \cup Declared(cr.spec, k)

(* As long as no error is recorded and nobody interferes, what a sync has  *)
(* behind it is in order: of the kind at work, the items no longer to do.  *)
Undisturbed ==
  /\ mode = "sync" /\ pc \in {"kind", "apply", "put", "post", "delete", "status"}
  /\ ~errs /\ ~touched /\ ~cr.spec.observe
Underway ==
  /\ pc \in {"apply", "put", "post", "delete"} => ~failed
  /\ pc = "delete" => todo = {}
  /\ pc = "status" => plan = <<>>
AppliedInOrder ==
  \A k \in Kinds : \A n \in Declared(cr.spec, k) :
    k \notin Range(plan) \/ (InWork(k) /\ n \notin todo) => Settles(k, n)
PrunedInOrder ==
  \A k \in Prunable : cr.spec.prune /\ Declared(cr.spec, k) # {} =>
    /\ k \notin Range(plan) => Leftovers(k) = {}
    /\ pc = "delete" /\ k = cur => Leftovers(k) \subseteq cand
SyncProgress ==
  /\ pc = "connect" => plan = SyncOrder
  /\ Undisturbed => Underway /\ AppliedInOrder /\ PrunedInOrder

SyncInv == ResultIsExplained /\ SyncProgress

(* Both, in every reachable state.                                         *)
PassInv == SweepInv /\ SyncInv

-----------------------------------------------------------------------------
(* What is left to do for the latest spec.                                 *)
Undone(k) ==
  \/ \E n \in Declared(obj.spec, k) :
       \/ app[k][n] = Absent
       \/ k \notin CreateOnly /\ app[k][n].val # obj.spec.desired[k][n]
  \/ LET left == (Existing(k) \cap obj.managed[k]) \ Declared(obj.spec, k) IN
     /\ obj.spec.prune /\ k \in Prunable /\ Declared(obj.spec, k) # {}
     /\ left # {} /\ Cardinality(left) <= MaxPrune

Enforced == obj.exists /\ ~obj.deleting /\ ~obj.spec.observe

(* Once users stop and the application stays up, every declared resource   *)
(* gets and keeps its declared value and what is owned and undeclared goes.*)
Converges == <>[]up => <>[](Enforced => \A k \in Kinds : ~Undone(k))

(* A deleted custom resource goes away, whatever the application does.     *)
DeletionCompletes == (obj.exists /\ obj.deleting) ~> ~obj.exists
-----------------------------------------------------------------------------
(* What the documentation says and the code does not do.                   *)

(* "Never lose the ability to retry cleanup" (reconcile.go:71): a resource *)
(* whose creation was acknowledged stays in the ledger, or on its way      *)
(* there, for as long as it lives.                                         *)
OwnershipIsNeverLost ==
  \A k \in Kinds : \A n \in created[k] :
    OperatorMade(k, n) => n \in obj.managed[k] \/ n \in managed[k]
=============================================================================
