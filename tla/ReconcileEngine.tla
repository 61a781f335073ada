---------------------------- MODULE ReconcileEngine ----------------------------
(***************************************************************************)
(* One pass of the sync engine (internal/engine/reconcile.go) against one  *)
(* media application: ReconcileApp applies the declared resources of every *)
(* kind and prunes the ones it owns and no longer finds declared;          *)
(* DeleteManagedResources removes the owned ones when the custom resource  *)
(* is deleted. Every request to the application is a step of its own, so   *)
(* users of the application may act between any two of them, a request may *)
(* fail, and its answer may be lost after it took effect.                  *)
(*                                                                         *)
(* A resource is its identity (the match field) and the value of the       *)
(* fields the spec declares.  The items of one kind are applied in an      *)
(* arbitrary order, the list order of the spec being the user's choice.    *)
(***************************************************************************)
EXTENDS Integers, Sequences, FiniteSets

CONSTANTS
  Kinds,        \* the resource endpoints of the AppDefinition
  Prunable,     \* the kinds with Prunable: true
  CreateOnly,   \* the kinds with Policy: CreateOnly
  Names,        \* identities of resources
  Vals,         \* values of the fields a spec declares
  Absent,       \* no such resource (in the application, in the spec)
  MaxPrune,     \* DefaultMaxPruneCount
  MaxFaults     \* bound on lost answers, outages, crashes and refused writes

Cell == [by : {"operator", "hand"}, val : Vals]

ASSUME KindsAssumption ==
  /\ Prunable \subseteq Kinds
  /\ CreateOnly \subseteq Kinds
  /\ IsFiniteSet(Names)
  /\ MaxPrune \in Nat
  /\ MaxFaults \in Nat
  /\ Absent \notin Cell
  /\ Absent \notin Vals

(* The part of a spec a pass acts on; delete stands for deletionPolicy "delete". *)
SpecType == [desired : [Kinds -> [Names -> Vals \cup {Absent}]],
             prune : BOOLEAN, observe : BOOLEAN, delete : BOOLEAN]

(* status.managedResources: the names recorded as created, by kind *)
Ledger == [Kinds -> SUBSET Names]

VARIABLES
  app,      \* the application's resources: [Kinds -> [Names -> Cell or Absent]]
  up,       \* the application answers, and accepts the credentials
  cr,       \* the arguments of the pass: its copy of the spec and of the ledger
  mode,     \* "sync" (ReconcileApp) or "cleanup" (DeleteManagedResources)
  pc,       \* the next step of the pass; "idle" between passes
  plan,     \* the kinds still to process, the current one first
  todo,     \* declared items of the current kind not yet applied
  item,     \* the item between its list request and its write request
  stale,    \* listed resources whose id no longer exists in the application
  failed,   \* an apply of the current kind failed
  cand,     \* prune candidates not yet deleted
  managed,  \* result.Managed
  errs,     \* result.Errors is not empty
  created,  \* history: resources whose creation the application acknowledged
  removed,  \* history: resources the current pass deleted
  lost,     \* history: creations applied by the application, reported as errors
  faults    \* faults so far

appVars == <<app, up>>
applyVars == <<todo, item, failed>>
pruneVars == <<cand, removed>>
engineVars == <<app, up, cr, mode, pc, plan, todo, item, stale, failed, cand,
                managed, errs, created, removed, lost, faults>>

NoItem == "none"
cur == Head(plan)
NoNames == [k \in Kinds |-> {}]

(* A seeded fault (FaultyX stands for X in a mutation run): every name of a *)
(* kind counts as declared, whether the spec mentions it or not.           *)
FaultyDeclared(spec, k) == Names
Declared(spec, k) == {n \in Names : spec.desired[k][n] # Absent}
Existing(k) == {n \in Names : app[k][n] # Absent}
OperatorMade(k, n) == app[k][n] # Absent /\ app[k][n].by = "operator"

EngineInit ==
  /\ app \in [Kinds -> [Names -> [by : {"hand"}, val : Vals] \cup {Absent}]]
  /\ up = TRUE
  /\ mode = "sync" /\ pc = "idle" /\ plan = <<>>
  /\ todo = {} /\ item = NoItem /\ stale = {} /\ failed = FALSE
  /\ cand = {} /\ managed = NoNames /\ errs = FALSE
  /\ created = NoNames /\ removed = {} /\ lost = {} /\ faults = 0

-----------------------------------------------------------------------------
(* ReconcileApp: the loop over def.Resources.                              *)

NextKind(err) ==
  /\ pc' = "kind"
  /\ plan' = Tail(plan)
  /\ errs' = (errs \/ err)

(* A kind with no declared item is skipped: an omitted section wipes nothing. *)
SkipKind ==
  /\ pc = "kind" /\ mode = "sync" /\ plan # <<>>
  /\ Declared(cr.spec, cur) = {}
  /\ NextKind(FALSE)
  /\ UNCHANGED <<appVars, cr, mode, applyVars, stale, pruneVars, managed,
                 created, lost, faults>>

EnterKind ==
  /\ pc = "kind" /\ mode = "sync" /\ plan # <<>>
  /\ Declared(cr.spec, cur) # {}
  /\ pc' = "apply"
  /\ todo' = Declared(cr.spec, cur)
  /\ failed' = FALSE
  /\ UNCHANGED <<appVars, cr, mode, plan, item, stale, pruneVars, managed, errs,
                 created, lost, faults>>

(* reconcileResourceTracked: list, match by identity, then write at most once. *)

(* Seeded fault: the error is logged but not added to result.Errors.       *)
FaultyItemDone(n, err) ==
  /\ pc' = "apply"
  /\ todo' = todo \ {n}
  /\ item' = NoItem
  /\ stale' = {}
  /\ failed' = (failed \/ err)
  /\ UNCHANGED errs

ItemDone(n, err) ==
  /\ pc' = "apply"
  /\ todo' = todo \ {n}
  /\ item' = NoItem
  /\ stale' = {}
  /\ failed' = (failed \/ err)
  /\ errs' = (errs \/ err)

Drifted(n) == app[cur][n] # Absent /\ app[cur][n].val # cr.spec.desired[cur][n]

(* Seeded fault: every kind is treated as create-only.                     *)
FaultyNeedsWrite(n) == ~cr.spec.observe /\ app[cur][n] = Absent

NeedsWrite(n) ==
  /\ ~cr.spec.observe
  /\ \/ app[cur][n] = Absent
     \/ cur \notin CreateOnly /\ Drifted(n)

ListFails(n) ==
  /\ pc = "apply" /\ n \in todo /\ ~up
  /\ ItemDone(n, TRUE)
  /\ UNCHANGED <<appVars, cr, mode, plan, pruneVars, managed, created, lost, faults>>

(* Seeded fault: adopting a resource records it, as earlier releases did.  *)
FaultySettled(n) ==
  /\ pc = "apply" /\ n \in todo /\ up
  /\ ~NeedsWrite(n)
  /\ ItemDone(n, FALSE)
  /\ managed' = [managed EXCEPT ![cur] = @ \cup {n}]
  /\ UNCHANGED <<appVars, cr, mode, plan, pruneVars, created, lost, faults>>

Settled(n) ==
  /\ pc = "apply" /\ n \in todo /\ up
  /\ ~NeedsWrite(n)
  /\ ItemDone(n, FALSE)
  /\ UNCHANGED <<appVars, cr, mode, plan, pruneVars, managed, created, lost, faults>>

Unsettled(n) ==
  /\ pc = "apply" /\ n \in todo /\ up
  /\ NeedsWrite(n)
  /\ pc' = IF app[cur][n] = Absent THEN "post" ELSE "put"
  /\ item' = n
  /\ UNCHANGED <<appVars, cr, mode, plan, todo, stale, failed, pruneVars, managed,
                 errs, created, lost, faults>>

Updated(n) == [app EXCEPT ![cur][n].val = cr.spec.desired[cur][n]]

Put ==
  /\ pc = "put" /\ up /\ item \notin stale
  /\ app' = Updated(item)
  /\ ItemDone(item, FALSE)
  /\ UNCHANGED <<up, cr, mode, plan, pruneVars, managed, created, lost, faults>>

PutAnswerLost ==
  /\ pc = "put" /\ up /\ item \notin stale
  /\ faults < MaxFaults /\ faults' = faults + 1
  /\ app' = Updated(item)
  /\ ItemDone(item, TRUE)
  /\ UNCHANGED <<up, cr, mode, plan, pruneVars, managed, created, lost>>

PutFails ==
  /\ pc = "put" /\ (~up \/ item \in stale)
  /\ ItemDone(item, TRUE)
  /\ UNCHANGED <<appVars, cr, mode, plan, pruneVars, managed, created, lost, faults>>

(* Only an acknowledged creation is recorded (lines 108-112).              *)
Created(n) == [app EXCEPT ![cur][n] =
                 [by |-> "operator", val |-> cr.spec.desired[cur][n]]]

Post ==
  /\ pc = "post" /\ up /\ app[cur][item] = Absent
  /\ app' = Created(item)
  /\ ItemDone(item, FALSE)
  /\ managed' = [managed EXCEPT ![cur] = @ \cup {item}]
  /\ created' = [created EXCEPT ![cur] = @ \cup {item}]
  /\ UNCHANGED <<up, cr, mode, plan, pruneVars, lost, faults>>

PostAnswerLost ==
  /\ pc = "post" /\ up /\ app[cur][item] = Absent
  /\ faults < MaxFaults /\ faults' = faults + 1
  /\ app' = Created(item)
  /\ ItemDone(item, TRUE)
  /\ lost' = lost \cup {<<cur, item>>}
  /\ UNCHANGED <<up, cr, mode, plan, pruneVars, managed, created>>

(* The application refuses a second resource with the same identity.       *)
PostFails ==
  /\ pc = "post" /\ (~up \/ app[cur][item] # Absent)
  /\ ItemDone(item, TRUE)
  /\ UNCHANGED <<appVars, cr, mode, plan, pruneVars, managed, created, lost, faults>>

-----------------------------------------------------------------------------
(* pruneResources, from ReconcileApp (after the applies of a kind) and     *)
(* from DeleteManagedResources (kinds in reverse order, nothing desired).  *)

PruneDue ==
  IF mode = "sync"
  THEN /\ pc = "apply" /\ todo = {}
       /\ cr.spec.prune /\ ~cr.spec.observe /\ cur \in Prunable /\ ~failed
       /\ cr.managed[cur] # {}
  ELSE /\ pc = "kind" /\ plan # <<>>
       /\ cur \in Prunable /\ cr.managed[cur] # {}

Wanted == IF mode = "sync" THEN Declared(cr.spec, cur) ELSE {}

(* Seeded fault: whatever is not declared is a candidate, owned or not.    *)
FaultyCandidates == Existing(cur) \ Wanted

Candidates == (Existing(cur) \cap cr.managed[cur]) \ Wanted

SkipPrune ==
  /\ ~PruneDue
  /\ \/ mode = "sync" /\ pc = "apply" /\ todo = {}
     \/ mode = "cleanup" /\ pc = "kind" /\ plan # <<>>
  /\ NextKind(FALSE)
  /\ UNCHANGED <<appVars, cr, mode, applyVars, stale, pruneVars, managed,
                 created, lost, faults>>

(* An error ends the kind in a sync and the whole cleanup (lines 341-343). *)
PruneError ==
  /\ cand' = {} /\ stale' = {}
  /\ \/ mode = "sync" /\ NextKind(TRUE)
     \/ mode = "cleanup" /\ pc' = "release" /\ errs' = TRUE /\ UNCHANGED plan

PruneRefused ==
  /\ PruneDue
  /\ ~up \/ Cardinality(Candidates) > MaxPrune
  /\ PruneError
  /\ UNCHANGED <<appVars, cr, mode, applyVars, removed, managed, created, lost, faults>>

(* Seeded fault: the safety threshold is off by one.                       *)
FaultyListCandidates ==
  /\ PruneDue /\ up
  /\ Cardinality(Candidates) <= MaxPrune + 1
  /\ cand' = Candidates
  /\ pc' = "delete"
  /\ UNCHANGED <<appVars, cr, mode, plan, applyVars, stale, removed, managed, errs,
                 created, lost, faults>>

ListCandidates ==
  /\ PruneDue /\ up
  /\ Cardinality(Candidates) <= MaxPrune
  /\ cand' = Candidates
  /\ pc' = "delete"
  /\ UNCHANGED <<appVars, cr, mode, plan, applyVars, stale, removed, managed, errs,
                 created, lost, faults>>

Delete(n) ==
  /\ pc = "delete" /\ n \in cand /\ up /\ n \notin stale
  /\ app' = [app EXCEPT ![cur][n] = Absent]
  /\ cand' = cand \ {n}
  /\ removed' = removed \cup {<<cur, n>>}
  /\ managed' = [managed EXCEPT ![cur] = @ \ {n}]
  /\ UNCHANGED <<up, cr, mode, pc, plan, applyVars, stale, errs, created, lost, faults>>

DeleteAnswerLost(n) ==
  /\ pc = "delete" /\ n \in cand /\ up /\ n \notin stale
  /\ faults < MaxFaults /\ faults' = faults + 1
  /\ app' = [app EXCEPT ![cur][n] = Absent]
  /\ removed' = removed \cup {<<cur, n>>}
  /\ PruneError
  /\ UNCHANGED <<up, cr, mode, applyVars, managed, created, lost>>

DeleteFails(n) ==
  /\ pc = "delete" /\ n \in cand /\ (~up \/ n \in stale)
  /\ PruneError
  /\ UNCHANGED <<appVars, cr, mode, applyVars, removed, managed, created, lost, faults>>

DeletesDone ==
  /\ pc = "delete" /\ cand = {}
  /\ NextKind(FALSE)
  /\ UNCHANGED <<appVars, cr, mode, applyVars, stale, pruneVars, managed,
                 created, lost, faults>>

EngineStep ==
  \/ SkipKind \/ EnterKind
  \/ \E n \in todo : ListFails(n) \/ Settled(n) \/ Unsettled(n)
  \/ Put \/ PutAnswerLost \/ PutFails \/ Post \/ PostAnswerLost \/ PostFails
  \/ SkipPrune \/ PruneRefused \/ ListCandidates \/ DeletesDone
  \/ \E n \in cand : Delete(n) \/ DeleteAnswerLost(n) \/ DeleteFails(n)

-----------------------------------------------------------------------------
(* The application outside the operator: its users and its outages.        *)

HandWrite(k, n, v) ==
  /\ app' = [app EXCEPT ![k][n] =
               IF @ = Absent THEN [by |-> "hand", val |-> v] ELSE [@ EXCEPT !.val = v]]
  /\ app' # app
  /\ UNCHANGED <<up, cr, mode, pc, plan, applyVars, stale, pruneVars, managed, errs,
                 created, lost, faults>>

(* The resource is deleted with its id: a later one of the same name has another. *)
HandDelete(k, n) ==
  /\ app[k][n] # Absent
  /\ app' = [app EXCEPT ![k][n] = Absent]
  /\ stale' = IF \/ pc = "put" /\ cur = k /\ item = n
                 \/ pc = "delete" /\ cur = k /\ n \in cand
              THEN stale \cup {n} ELSE stale
  /\ UNCHANGED <<up, cr, mode, pc, plan, applyVars, pruneVars, managed, errs,
                 created, lost, faults>>

Outage ==
  /\ up /\ faults < MaxFaults
  /\ up' = FALSE /\ faults' = faults + 1
  /\ UNCHANGED <<app, cr, mode, pc, plan, applyVars, stale, pruneVars, managed, errs,
                 created, lost>>

Restored ==
  /\ ~up /\ up' = TRUE
  /\ UNCHANGED <<app, cr, mode, pc, plan, applyVars, stale, pruneVars, managed, errs,
                 created, lost, faults>>
=============================================================================
