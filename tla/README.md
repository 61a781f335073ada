# media-operator in TLA+

Specifications, model-checking runs and machine-checked proofs for
media-operator, a family of Kubernetes operators that keep the configuration of
media applications (Sonarr, Radarr, Lidarr, Readarr, Prowlarr, FlareSolverr,
Seerr, Jellyfin, Plex, qBittorrent, SABnzbd, Bazarr, Autobrr, Maintainerr,
Tdarr) equal to custom resources. `PROJECT.json` lists components, runs,
mutants, findings, hazards and theorems; its `map` ties each definition to the
lines it models. Paths below are relative to the root of the repository, and
`internal/` is left out where the file is clear.

## The system

Each integration has a custom resource, a controller and a client. A controller
is called with the name of a resource; it reads it from the informer cache,
takes care of the finalizer and of deletion, resolves Secrets, talks HTTP to
the application, writes the status and asks to be called again. Nothing is kept
in the process except the digests of masked secrets; everything else a pass
must remember is in `status`. Nine operator binaries run the fifteen
controllers, each binary under a leader election of its own.

| Component | State | Operations | Hard behaviour | What makes it correct | Modelled in |
|---|---|---|---|---|---|
| Sync engine (`engine/reconcile.go`) | the application's resources, and the ledger handed in and out | `ReconcileApp`, `pruneResources`, `DeleteManagedResources`, `reconcileSetting`, `ObserveDifference` | users change the application between the list and the write; some requests fail; an answer is lost after the request took effect | only owned and undeclared resources are deleted; ownership is earned by creation and kept until deletion; deletions per pass are bounded; convergence | `ReconcileEngine`, `FieldSync` |
| Comparison (`reconciler/diff.go`, `masked.go`) | digests of the masked secrets last sent, in the process | `MergeDesired`, `SecretsChangedSince`, `RecordSecrets` | a masked field cannot be read back; restarts empty the store; drift cuts the comparison short; lists of named objects are merged, unless one is empty | rotated secrets arrive; unchanged ones are rewritten a bounded number of times; undeclared fields and list entries survive | `MaskedSecrets`, `FieldSync` |
| Controller lifecycle (`controller/common`) | finalizer, deletion timestamp, conditions, `status.managedResources`, gauge | `HandleLifecycle`, `HandleDeletion`, `CleanupApp`, `UpdateStatus*` | outdated cache; a conflicting write that is not retried; the process dies between an effect and its record; the deadline | no release before cleanup or deadline; no live resource dropped from the ledger; observe changes nothing; a stopped resource shows it | `ConfigController`, `IntegrationPass` |
| Sonarr, Radarr, Lidarr, Readarr | ledger | option field validation; stages: tags, base, quality profiles, import lists | a stage depends on IDs of an earlier one; a stage that does not resolve is left out; unknown option fields are applied and reported | later stages see the ledger of earlier ones; success is not claimed for a skipped stage or an unknown field | `ConfigController`, `Integrations` |
| Prowlarr | ledger | prerequisite stage, reference resolution, rest | resolution fails after the first stage changed things | success is not claimed | `Integrations` |
| FlareSolverr | ledger of sessions | list, create, destroy | a failure between creations and pruning | only sessions of its own are destroyed, under the threshold; one on record stays there until it is gone | `Integrations` |
| Seerr | the application's setup state | log in, initialize, connections, settings | initialization is repeated as a whole | it completes only over what is declared; connections exist once | `Integrations` |
| Jellyfin | setup wizard, libraries | wizard, log in, settings, libraries | wizard interrupted between steps | wizard completes; observe runs none; libraries are created once | `Integrations` |
| Tdarr | libraries, variables, flows, worker limits | insert, update, remove; relative steps | steps from one read; any of several nodes | limits converge; undeclared variables go | `Integrations` |
| Plex, qBittorrent, SABnzbd, Bazarr, Autobrr, Maintainerr | settings and lists | write everything, or upsert | several writes, one fails; a Secret of one section is missing | the failure reaches the condition; convergence | `Integrations` |
| API types and payload builders (`api/`, `client/`) | none | decoding, payload builders | "not written" and "zero" become the same | what is declared arrives, what is not stays | `ServarrFields`, `AppFields`, `FieldSync` |
| Watches (`SetupWithManager`) | the workqueue of controller-runtime | watches of resources and Secrets, requeue | a Secret referred to but not watched | every change is acted on, at the latest at the requeue | `IntegrationPass` |
| Operator binaries (`cmd/`) | flags, leases | start, leader election, stop | pods with old and new flags overlap; nine leases | one reconciler per resource; every kind served | `Operators` |
| Named references, HTTP client, TLS, metrics | session cookies; gauge and counters | lookups, requests | answers lost | an error is reported as an error | as steps of a pass |
| Charts, CRDs, samples | none | none | none of their own | | not modelled |

Components interact through three shared stores: the custom resource in the API
server (spec written by users, status and finalizer by the controller, with
optimistic concurrency), the application (written by its users as well) and the
Secrets. Calls inside a pass are sequential, and controller-runtime runs one
pass per resource at a time; that no second process runs another is what
`Operators` shows. All other concurrency is with the users, the cache, the
network and the death of the process.

## Modules

| Module | Models |
|---|---|
| `ReconcileEngine` | One pass of the engine against one application, a request a step; the application, its users and its outages. |
| `ConfigController` | EXTENDS it with the custom resource, the informer cache, finalizer, deletion, stages, status write, crashes. |
| `ConfigControllerProps` | Properties of both, and the inductive invariants `IInv` and `PassInv`. |
| `OwnershipContract` | What users of an application are promised, without passes or caches; `ConfigController` implements it. |
| `MaskedSecrets` | The digest store for one resource with masked fields, its properties. |
| `IntegrationPass` | What the steps of a pass do, for any table of steps of a given shape, and everything that can happen between two of them. |
| `Integrations` | EXTENDS it with the table: what each of the fifteen controllers does in a pass, as a sequence of steps; the Secrets it resolves and watches. |
| `IntegrationProps` | Properties of the passes, and the parts of the inductive invariants. |
| `Fields` | What becomes of one optional field on its way into a request. |
| `ServarrFields`, `AppFields` | The fields of every struct and payload builder, by kind and rule. |
| `FieldSync` | One field between the custom resource and the application; its properties. |
| `Operators` | The nine binaries, their flags, pods and leases; its properties. |
| `ConfigController_types`, `_proofs`, `_limits`, `_synced` | Proofs about `ConfigController`: types; ownership; prune threshold and cleanup; Synced=True. |
| `IntegrationPass_proofs`, `MaskedSecrets_proofs`, `FieldSync_proofs`, `Operators_proofs` | Proofs about these modules. |
| `MC*` | Instances for TLC. |

Two modules look at a pass, each with the detail its properties need.
`ConfigController` has resources, names, the ledger, prune and the cache, for the
engine that five controllers share. `IntegrationPass` has the sections, Secrets,
requeues, setup and conditions of all fifteen, with a section as a single cell.
A cell stands for the keys that only its section writes: the one key that two
sections send, SABnzbd's `script_dir`, is in `FieldSync`.
`FieldSync` looks inside a section.

### ReconcileEngine and ConfigController

A resource of the application is a `Cell`: who made it, and the value of the
declared fields. `app` maps kinds (the endpoints of an `AppDefinition`) and
identities (the match field) to cells. The pass is `pc` with the locals of the
Go functions: `cr` is the copy of spec and ledger it read, `plan` the kinds left
of the loop over `def.Resources`, `todo` the items left of a kind, `item` the
item between its list and its write request, `cand` the prune candidates left,
`managed` is `result.Managed`, `errs` says whether `result.Errors` is empty.
`StartSync`, `EnsureFinalizer`, `Connect`, `SkipKind`/`EnterKind`,
`Settled`/`Unsettled`, `Put`, `Post`, `ListCandidates`, `Delete`, `WriteStatus`
follow the order of `SonarrConfigReconciler.Reconcile`, `ReconcileApp` and
`pruneResources`; `StartDeletion`, the same prune steps in mode `"cleanup"`,
`Retry` and `Release` follow `HandleDeletion` and `DeleteManagedResources`.

Abstractions, and why they are sound for the properties:

- The items of a kind are applied in any order; the order of a list in a spec
  is the user's choice and no code depends on it.
- One kind has resources with distinct identities, and the application refuses a
  second one (`PostFails`). A resource deleted and recreated by hand has a new
  id, so a write to the old id fails (`stale`).
- `up` stands for "the application answers, its credentials are valid and the
  Secrets resolve": every one of these failures ends a pass in the same status
  write (`ToStatus`). An invalid URL, which ends it without a requeue, and the
  problems `ValidateOptionFields` adds to the errors of a pass are in
  `IntegrationPass`; the kinds here have no option fields.
- `resourceVersion` is not counted: `fresh` and `cacheFresh` say whether the
  copies of the pass and of the cache are the latest version. That is all a
  conflict depends on.

### MaskedSecrets

One resource whose masked `Fields` are declared from Secrets. `app` is whether
the visible fields are as declared, and the values held behind the masks;
`store` is the entry of `secretDigest`. The digest counts values rather than
hashing them: like `digestOf`, it forgets which field has which. `Walked` is the
set of masked fields `differs` has seen when it returns: all of them when
nothing visible differs, otherwise any of them, since it returns at the first
difference and Go visits map keys in any order. A secret changed by hand behind
its mask is not modelled: nobody can see it.

### Integrations and IntegrationPass

`Integrations` writes each `Reconcile` as a sequence of steps. A step names what
it does, the section of the spec it serves and the cell of the application it
works on. For instance

    CreateOnly(sec) == Do("read", sec) \o Do("create", sec)
    PlexPass == Preamble \o Write("preferences") \o CreateOnly("libraries")

is `PlexConfigReconciler.Reconcile`: API key, CA Secret, client, ping,
preferences, libraries that are created unless listed. `IntegrationPass` knows
the table as the constant `Table`, which the runs set to the fifteen
(`Fifteen`); what it relies on is `TableAssumption`, evaluated in each of them.
A plan is the set of the positions that are left in the program. `StartSync` starts
a pass with the positions of the declared sections (after
`HandleLifecycle` and `RejectUnsupportedObserve`), and the pass takes the
first one each time:

- `ResolveSecret`, `BuildClient`, `NoSession`, `Gate`, `Skip`, `Compare` send no
  request: a missing Secret ends the pass or only its section, a rejected URL ends it,
  a comparison may find nothing to write or, under observe, report a difference;
- `Request` sends one: `Effect` is what it does to the application, `Learnt` what
  the controller knows afterwards; `UpdatesNothing` is the 404 of what somebody has
  removed since it was listed;
- the `schema` step of the Servarr family asks which option fields there are. A
  resource that declares `"unknownFields"` beside a section with option fields gets
  an error here and goes on; a schema that cannot be read is no error;
- `UpdateStatus` and `FinishDeletion` end the pass: condition, gauge, ledger,
  finalizer and requeue.

Between any two steps the environment acts: `Edit`, `DeleteObject`, `Rotate`,
`RemoveSecret`, `RestoreSecret`, `HandChange`, `Rebuild` (a new, empty
application), `RequestFails`, `AnswerLost`, `StatusRefused`, `FinalizerRefused`,
`Crash`, `DeadlinePasses`. A value in the application is the revision of the spec it
came from and the version of the Secret it was sent with. A cell holds a
sequence, so that a second creation can be seen. A list section is one cell: the
controllers treat the items of a list alike and remember the first error;
FlareSolverr's two sessions are cells of their own, because they are owned and
pruned one by one. A resource that is deleted keeps its last series of the gauge:
no controller removes it, and `StoppedIsReported` speaks of resources that exist.

Worker limits of Tdarr are numbers of two nodes; the pass picks either node
(Go iterates over a map in any order, whatever "Use the first node" in
`tdarrconfig_controller.go` says) and moves the limit by one per request towards
the value declared, counting from the number it read.

`Integrations` keeps two sets of Secrets apart: those a pass resolves, and those
whose events start a pass (`watched`). Requeues: none after a rejected URL,
otherwise always (30 s after a missing Secret, 60 s after an unreachable
application, else the interval); their length is not modelled.

### Fields, ServarrFields, AppFields and FieldSync

An optional field has a *kind*, which says what the decoded struct still knows
(a nil pointer is not a zero, an empty string is not told from none), and a
*rule*, which says when the code that builds the request sends it.
`ServarrFields` and `AppFields` give both for each struct of `api/` and each
payload builder; a settings struct without builder is marshalled with
`omitempty` (`Marshalled`). `MCFieldSync` adds how the payload is written: read
and overlaid (`overlay`, `items`), sent as it is (`partial`, `upsert`), or
created once (`create`). `FieldSync` then follows one field, with users changing
the declaration and the application between the read and the write of a pass.

Values are sets of entries, most of them with one. A list of named objects
(`fields`, `specifications`, `formatItems`) has the kind `entries`, and `Merged` is
what `mergeValue` makes of it: the declared entries and those the application has
besides; only where one of the two lists is empty does the declared one replace the
other. What is inside an entry is a field of its own (`ConfigField`,
`CustomFormatSpecification`). So an entry taken out of the custom resource stays in
the application, and so does one added by hand.

The application may show a field of a resource as asterisks (`masks`). Such a field is
never drift (`Changed`), whatever somebody puts behind the mask; the pass knows only
whether it has sent this secret before (`snap.unsent`, either way, since the digests
are in `MaskedSecrets`). `README.md:103-104` says that masked credentials cannot be
verified, and `DeclaredPrevails` leaves them out; that rotations arrive is shown by
`RotationsArrive`. `rival` is what SABnzbd's general section sends, later in
the same pass, for the key of `folders.scriptDir`: it prevails, and a failure
between the two requests may leave either.

The tables show on paper what a test of one payload would not: an empty string
of `recycleBin` never disables the recycle bin, although the comment on the
field in `sonarrconfig_types.go` says "Empty disables"; lists that are
always sent (`tags`, `fields`) empty what is there when they are not declared; a
disabled set of Bazarr providers leaves the enabled ones on; `hostname`, `port`
and `useSsl` of Seerr's `plexAuth` are never sent; `RunSetupWizard` ignores the
server name. `Arrives` names the declarations that cannot arrive,
`Enforced` the fields that are sent without being declared.

### Operators

A pod starts with the flags of the day (`Launch`), sets up its controllers and
waits for the lease of its binary in its namespace (`Start`, `Acquire`), works,
and is terminated or killed; `Lapse` takes the lease from a pod that no longer
renews it. `resolveEnabledControllers` computes what the flags enable. The lease
is controller-runtime's and assumed to be right: who cannot renew exits before
it lapses. The nine binaries differ in their lease and their controllers, and
the module holds these as the source has them.

## Runs

| Run | Shows | Bounds |
|---|---|---|
| `prune` | type invariant, ledger and deletion properties, refinement of `OwnershipContract` | one prunable kind, two names, two values, threshold 1; 2 edits, 1 change by hand, 1 fault |
| `delete` | `IInv`, `PassInv`, observe changes nothing, no release before cleanup, dependents first; the resource disappears | two kinds, one name, one value; 2 edits, 1 change by hand, 1 fault |
| `folders` | Synced=True is honest; the declared state is reached and kept, and what an edit leaves undeclared is pruned | a create-only kind and a prunable one of a late stage, two names, two values; 1 edit, 1 change by hand, 1 fault; at the start nothing has the second name |
| `secrets` | its invariant; a quiet pass is honest; two passes suffice; rotations to new values arrive | two masked fields, three values; 2 rotations, 2 changes by hand, 2 faults |
| `integrations` | safety of the passes of all fifteen controllers | one declared section, three for Seerr, two for FlareSolverr; two events, one for the Servarr family, Prowlarr, Seerr and Autobrr; threshold 1 |
| `integrations_live` | each controller converges, or goes on reporting an unknown option field; deletion is never blocked | one section; one event, two for FlareSolverr, Jellyfin and Plex |
| `operators` | mutual exclusion and service | four pods, two binaries, two namespaces, three sets of flags; 2 stops |
| `fields` | undeclared fields survive, declared ones prevail, observe foretells | all payloads, lists of two named entries; 2 edits, 2 changes by hand, 1 failure |
| `orphan`, `reverted`, `valuefrom`, `unwatched` | findings, below | the smallest that show them |

Why these bounds. The hazards are races of one pass with one other actor:
one change by hand or one fault can fall between any two requests, and an edit
in the middle of a pass is what makes a status write conflict. The second edit
allows a declaration to be withdrawn and a policy to change after it. Two names
are needed so that one is kept while the other is pruned, and threshold 1 puts
the refusal in reach: a cleanup of both names exceeds it. Two kinds are needed for
the order of stages and of cleanup, where one name is enough as names of a kind are
treated alike. In `folders` the edit moves the declaration of a profile from one name to
the other, so that the first is owned and undeclared, and the late stage may fail to
resolve. Three values of a secret allow two rotations of each field.
`MaxFaults` bounds lost answers, outages, refused writes, unresolved stages and
crashes together.

In the runs of `IntegrationPass` a section is independent of the others except
through the end of the pass, so one declared section shows what can happen to
it; an edit adds it or takes it away, and `"unknownFields"` does not count as one. Seerr's setup joins sections: a login
and two connections are needed to interrupt it half-way. `MaxEvents` counts all
events together, from a freshly installed application: each of them can fall at
any step of the first pass or of a later one. FlareSolverr needs two, since pruning
takes an edit before the fault, and two sessions, since threshold 1 is then in
reach; the passes with most sections get one. A deletion that asks for a cleanup
takes an edit before the deletion: in `integrations_live` two events are given to
FlareSolverr, which can clean up, and to Jellyfin and Plex, which cannot; the
other controllers share `HandleDeletion` with them.

In `operators` two pods of one binary overlap in an update, one of another binary
shares their namespace, and one is at home elsewhere; the third set of flags
switches leader election off. In `fields` the payloads are all there are, and
TLC merges the fields of equal kind, rule and mode (and sections in conflict); two changes by hand allow
one before the read and one after it.

`CHECK_DEADLOCK FALSE` in the runs of `MCConfigController` and `MCIntegrations`:
once the custom resource is gone nothing is left to do.

Fairness. Users, faults and the recovery of the application owe nothing.

- `ConfigController`: weak fairness of a step of the pass (every return of
  `Reconcile` either requeues after an interval or leaves a deleted resource
  alone; controller-runtime calls it), of the delivery of the latest version to the
  cache, and of the passing of the ten minutes. `Converges` assumes that the
  application stays up in the end, `DeletionCompletes` does not.
- `MaskedSecrets`: weak fairness of a step of the pass.
- `IntegrationPass`: weak fairness of a step of the controller, of the passing of
  the deadline, and of the return of a Secret that was removed. That a pass starts
  again at all is not assumed but modelled: only a queued event or a requeue
  (`due`) starts one.
- `FieldSync`: weak fairness of the read and of the end of a pass.
- `Operators`: weak fairness of each pod's own progress and of the lapse of a lease
  that nobody renews; stops are bounded.

### Findings

- `orphan`: a refused status write is logged and forgotten
  (`controller/common/helpers.go:113`), so an edit between a creation and the
  status write of its pass loses the record of ownership: later passes adopt
  the resource and never prune it. `OrphansAreExplained` states, and the proof
  shows, that this, a crash at the same place and a lost answer are the only
  ways.
- `reverted`: a pass that corrects drift records a partial digest or none, so the
  older digest can match again after a rotation is taken back; the application
  keeps the withdrawn value. `secrets` shows that
  rotations arrive as long as no value comes back.
- `valuefrom`: `README.md` promises `valueFrom` for any `fields` entry. Nobody resolves
  it for Prowlarr's download clients and notifications, for the `fields` of
  Servarr download clients and for custom format specifications; the pass sends
  an empty value and reports success. `UseValueFrom` is FALSE in the other runs: they
  show what holds when users avoid it there.
- `unwatched`: `README.md` promises a pass when a Secret changes. The watches leave
  out the Secrets of CA certificates everywhere, Seerr's API key, Bazarr's
  providers, SABnzbd's servers and Prowlarr's indexers. `Converges` shows that the
  requeue makes up for it.

Smaller divergences, seen while modelling and not kept as runs: prune matches
what it owns by name only, so a resource deleted and recreated by hand under an
owned name is pruned (`README.md:72` against `engine/reconcile.go:165`); the API
documentation of `prune` speaks of all undeclared resources where the code prunes
those it created (`common_types.go:18-19`); a creation records no
digest, so a second pass writes a resource with masked fields once more
(`docs/rebuilding.md:66-67`); `digestOf` sorts, so two secrets of a resource that
exchange values have the same digest and are not sent.

## Proofs

`ConfigController`, under `KindsAssumption` and `ControllerAssumption`: finitely many
names, natural bounds, `Absent` distinct from values and cells, specs of the
right shape, declaration and staging orders that name each kind once, every
kind in a stage, every prunable kind declared. The theorems hold for any number of kinds, names, values and edits.

The safety invariants are not inductive: that the status names only earned
resources depends on the copies in the cache, in the pass and in its result.
`IInv` (in `ConfigControllerProps`) adds:

- `PassShape`: the guards passed so far still hold of the pass's own copy, for
  instance that candidates are owned, undeclared and of a prunable kind;
- `EveryCopyWasEarned`: the ledger in the status, in the cache, in the copy and in
  the result of the pass;
- a fresh cache equals the resource, and a cached deletion is a real one;
- `DroppedAreDead`: a pass on the latest version has removed from the ledger only
  names of which the operator has no resource left;
- `CreationsAreTracked`: a live resource of the operator is in the status, in the
  result of a pass that will still write it, or accounted for as lost.

`Inductive` is proved by one lemma per action and conjunct that it can disturb;
types are kept by the lemmas of `ConfigController_types`. From it follow
`TypeCorrect`, `LedgerIsEarned` and `OrphansExplained`, the action properties
`ObserveChangesNothing`, `DeletesJustified` and `LedgerKeeps`, and the refinement
`KeepsItsContract`, whose step maps each action to an action of the contract or
to a stutter.

What a pass promises about itself needs more than ownership: that the next step
is in step with all earlier ones. `PassInv` adds to `IInv`:

- `PruneBudget`: nothing of the kinds ahead has been deleted, and what was deleted
  of the current kind together with the candidates left is within the threshold;
  each kind is visited once, so later kinds do not use up the budget again;
- `CopyIsCurrent`, `WorksBackwards` and `NothingSkipped`: on the latest version the
  pass works on that version's ledger; a cleanup has the kinds up to some position
  of `DefOrder` ahead of it, and among them every live resource it is to delete;
- `ResultIsExplained` and `SyncProgress`: until an error is recorded or somebody
  interferes, every item a sync has behind it is as declared, and nothing to prune
  is left of the kinds behind it. The induction is over the writes: a `PUT` or
  `POST` settles its item and no later step of the pass unsettles it.

From it follow `PrunesAreBounded`, `ReleasesLast`, `CleansInReverse`
(`ConfigController_limits`) and `SyncsHonestly` (`ConfigController_synced`). With
them every safety property of `ConfigController` that a run checks is proved.

`MaskedSecrets`, under `SecretsAssumption` (any fields, values and rotations).
`Established` counts: after one successful pass in peace the resource is as declared,
so the next comparison walks over all masked fields; after two, the store has
the digest of all of them. `TwoPassesAreEnough` follows. `QuietPasses` depends on
what users do (see the findings): its hypothesis `GoesForth` is that rotations
follow some order of the assignments in which no digest, be it of a part of the
fields, is later that of all of them again. `Remembered` is then inductive: what is
stored is the digest of values that were sent, and nothing older has been sent
since, so an equal digest means equal values. `MCMaskedSecrets` has TLC evaluate that
the order of the values is such an order where each rotation takes new values
(`FreshRotationsGoForth`); `reverted` shows what happens without.

`Operators`, under `OperatorsAssumption` (any pods, namespaces, placement and
flags). `LeadersHold`, that who works as a leader holds the lease of its binary in its
namespace, is inductive because a lease lapses only when its holder has stopped
and is taken only when free. `MutualExclusion` needs two more facts:
`Exclusion`, that two leaders of one binary and namespace are the same pod, and
`ControllersAreDisjoint`, that no kind of resource is in two of the nine binaries.

`FieldSync`, under `RoutesAssumption`, `NilAssumption` and `BoundsAssumption`: any set
of payloads with the known kinds, rules and modes, so the theorems outlive the
tables. `Unovertaken`, that a snapshot no change by hand has overtaken is what
the application holds, is inductive; `Survival` and `Foretold` follow from it by
cases on the rule and the mode. `PassEffect` says once what a pass leaves in the
application; that a merge loses no entry is `Survival`'s second half.

`IntegrationPass`, under `PassAssumption` (any of the integrations in the table, any
bounds) and `TableAssumption`. The theorems speak of programs of any length with any
sections and cells, so they outlive the table; what they need of it is the order in
which the `Reconcile` functions do things, one operator for each convention:

- `SharedSteps`: what all sections rest on (Secrets, client, ping, session) ends
  the pass when it fails, so that an error of a section is one of that section only;
- `SecretsFirst` and `ReadFirst`: a Secret is resolved before what is sent with it,
  and what is compared or updated is read before;
- `SetupFirst`: the setup follows the look at the application, precedes the rest and
  ends with a gate (`initErrors` in Seerr's `Reconcile`);
- `WrittenOnce` and `Divided`: nothing that has been written is written by a later
  step, but by requests in two parts;
- `Bounded`: sessions are closed after they have been counted.

A step that breaks one of these conventions in a controller makes TLC report the
assumption as false.

No safety property of the passes is inductive, and even types need more: a
relative step leaves a worker limit a number only if it starts from one that was
read (`Limits`), which needs the order of the plan (`InOrder`). The parts, in
`IntegrationProps`:

- `Typed`: `TypeOK`, `Counted` (revisions and versions are bounded by events),
  `InOrder` (of what is left, nothing of the same section has been skipped), `Limits`;
- `StoppedReported`: `WorksOnLatest` (a pass works on the resource as it is or an
  event waits) and `Judged` (no plan gets past a URL that is rejected);
- `RejectedTouchNothing`: `Admitted` (a plan is only made of an accepted spec, and its
  setup steps wait for the look at the application);
- `OthersSurvive`: `Ledgers` (every ledger names sessions that were made; what was
  counted against the threshold holds until it is closed);
- `SessionsRecorded`: `OnRecord` (only a pass that syncs adds to the ledger, and what
  it strikes off is gone and not opened again by a later step);
- `DuplicatesExplained`: `SeenAbsent` (what was seen to be absent is still so
  unless a hand came in between) and `AddedNow` (before the setup has ended, what
  it adds is there by this pass alone);
- `SetupCompletes`: `Whole` (without errors, nothing declared is missing from the
  rest of the plan) and `SetupWritten` (what the setup has behind it is in the
  application);
- `SyncedEarned`: `SeenIsFresh`, `SecretsGot` and `Landed`: what was read still holds,
  Secrets that were resolved are in hand, and what a clean pass has behind it has landed and
  lasts. The step that leaves the plan has landed by its request or was in
  place; all earlier ones are left alone, as nothing is written twice.

Each part has one lemma that a step keeps it, by the kinds of steps: a step at
work (`WorkMoves` says how the plan shrinks and what the pass learns), a start, an
end, and what leaves the pass undisturbed. `SyncedEarnedWhereResolved` needs no
assumption about users: it excludes the sections that name a Secret nobody
resolves, and so shows that the finding `valuefrom` is the only exception;
`SyncedEarned` is the property of the run, where users avoid `valueFrom`
there.

The proof of `SetupIsComplete` corrected the model: a third copy of a connection found
no place in a cell of two (`OneMore`), which the bounds of TLC's runs did not reach.

With these every invariant and every action property that a passing run checks is
proved. Only model-checked: liveness (`Converges`, `DeletionCompletes`, `RotationsArrive`,
`DeletionIsNeverBlocked`, `EveryKindIsServed`, `DeclaredPrevails`), which needs
fairness and ENABLED; and that the fifteen programs have the assumed shape, which TLC
evaluates at the start of each of their runs.

## Not modelled

- Which ID a name is resolved to (`engine/references.go`, `client/*/references.go`):
  lookups are steps that may fail. What an application does with an ID that has
  gone stale is its own.
- `BuildQualityItems`' grouping, `FindCutoffID`, `ValidateFieldNames`: pure functions
  on nested data, covered by table-driven tests in the repository. Which option
  fields an implementation has is up to the application.
- The order of SABnzbd's servers, which the application identifies by position.
- Authentication headers, address filtering, TLS and counters: no state that a
  later step depends on.
- A controller disabled by a flag: its resources are left as they are, finalizers
  included.
- Generated code (deep copies, CRDs), charts, samples, `hack/`.
