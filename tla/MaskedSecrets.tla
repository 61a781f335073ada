----------------------------- MODULE MaskedSecrets -----------------------------
(***************************************************************************)
(* How the sync engine keeps the secret fields of one resource up to date  *)
(* when the application answers every read of them with a mask             *)
(* (internal/reconciler/masked.go, diff.go, internal/engine/reconcile.go). *)
(* A masked field cannot be compared, so the process remembers a digest of *)
(* the values it sent and rewrites the resource when the digest of the     *)
(* values it is about to send is another one.                              *)
(*                                                                         *)
(* The digest covers the values that the comparison walked over.  The walk *)
(* stops at the first visible difference, and Go visits the keys of a map  *)
(* in any order, so when there is a difference any part of the masked      *)
(* fields may have been seen.                                              *)
(*                                                                         *)
(* The resource is one that is updated (CreateOrUpdate) by a pass that     *)
(* enforces; ReconcileEngine has the other policies and observation.       *)
(***************************************************************************)
EXTENDS Integers, FiniteSets

CONSTANTS
  Fields,        \* the masked fields of the resource
  Values,        \* values of secrets
  Rotations,     \* the rotations that users perform: pairs of assignments
  Absent,        \* the application has no such resource
  Unseen,        \* the process has recorded no digest for the resource
  MaxRotations,  \* bound on rotations of the Secret
  MaxHands,      \* bound on changes made by hand in the application
  MaxFaults      \* bound on lost answers, outages and crashes

Assignments == [Fields -> Values]
Digests == [Values -> 0..Cardinality(Fields)]
Cell == [same : BOOLEAN, held : Assignments]

ASSUME SecretsAssumption ==
  /\ IsFiniteSet(Fields)
  /\ Rotations \subseteq Assignments \X Assignments
  /\ Absent \notin Cell
  /\ Unseen \notin Digests
  /\ MaxRotations \in Nat /\ MaxHands \in Nat /\ MaxFaults \in Nat

VARIABLES
  secret,     \* the values in the Kubernetes Secrets
  app,        \* the resource: whether its visible fields are as declared, its secrets
  store,      \* secretDigest.hashes for the key of the resource
  pc,         \* the next step of the pass; "idle" between passes
  want,       \* the values the pass resolved
  digest,     \* out.SecretDigest
  rotations, hands, faults,
  calm        \* history: successful passes since anything but a pass changed something

boundVars == <<rotations, hands, faults>>
vars == <<secret, app, store, pc, want, digest, rotations, hands, faults, calm>>

(* Seeded fault: every masked field counts, and counts again when walked over. *)
GreedyDigestOf(fs, s) == [x \in Values |-> Cardinality(fs) + Cardinality({f \in Fields : s[f] = x})]
(* digestOf sorts the values: it tells which there are, not where they are. *)
DigestOf(fs, s) == [x \in Values |-> Cardinality({f \in fs : s[f] = x})]
Empty == [x \in Values |-> 0]

Init ==
  /\ secret \in Assignments
  /\ app \in Cell \cup {Absent}
  /\ store = Unseen
  /\ pc = "idle" /\ want = secret /\ digest = Empty
  /\ rotations = 0 /\ hands = 0 /\ faults = 0
  /\ calm = 0

-----------------------------------------------------------------------------
(* One pass over the resource: reconcileResourceTracked.                   *)

PassEnds(ok) ==
  /\ pc' = "idle"
  /\ calm' = IF ~ok THEN 0 ELSE IF calm = 2 THEN 2 ELSE calm + 1

(* Reconcile resolves the Secrets first, then lists.                       *)
Resolve ==
  /\ pc = "idle"
  /\ want' = secret
  /\ pc' = "list"
  /\ UNCHANGED <<secret, app, store, digest, boundVars, calm>>

ListMissing ==
  /\ pc = "list" /\ app = Absent
  /\ pc' = "post"
  /\ UNCHANGED <<secret, app, store, want, digest, boundVars, calm>>

(* Seeded fault: only a visible difference is a reason to write.           *)
FaultySecretsChangedSince(d) == FALSE
SecretsChangedSince(d) == d # Empty /\ d # store

(* MergeDesired: the masked fields that differs walked over.               *)
Walked == IF app.same THEN {Fields} ELSE SUBSET Fields

Compare ==
  /\ pc = "list" /\ app # Absent
  /\ \E fs \in Walked :
       LET d == DigestOf(fs, want) IN
       /\ digest' = d
       /\ IF ~app.same \/ SecretsChangedSince(d)
          THEN pc' = "put" /\ UNCHANGED calm
          ELSE PassEnds(TRUE)
  /\ UNCHANGED <<secret, app, store, want, boundVars>>

Sent == [same |-> TRUE, held |-> want]

(* Seeded fault: what was sent is forgotten.                               *)
FaultyRecordSecrets == UNCHANGED store
RecordSecrets == store' = IF digest = Empty THEN store ELSE digest

Put ==
  /\ pc = "put" /\ app # Absent
  /\ app' = Sent
  /\ RecordSecrets
  /\ PassEnds(TRUE)
  /\ UNCHANGED <<secret, want, digest, boundVars>>

(* The write took effect, its answer was lost: nothing is recorded.        *)
PutAnswerLost ==
  /\ pc = "put" /\ app # Absent
  /\ faults < MaxFaults /\ faults' = faults + 1
  /\ app' = Sent
  /\ PassEnds(FALSE)
  /\ UNCHANGED <<secret, store, want, digest, rotations, hands>>

(* The record of a creation would be made by PUT only: PostJSON records none. *)
Post ==
  /\ pc = "post"
  /\ app' = Sent
  /\ PassEnds(TRUE)
  /\ UNCHANGED <<secret, store, want, digest, boundVars>>

PostAnswerLost ==
  /\ pc = "post"
  /\ faults < MaxFaults /\ faults' = faults + 1
  /\ app' = Sent
  /\ PassEnds(FALSE)
  /\ UNCHANGED <<secret, store, want, digest, rotations, hands>>

(* Seeded fault: the digest is recorded before the answer to PUT is known. *)
FaultyRequestFails ==
  /\ pc = "put"
  /\ \/ faults < MaxFaults /\ faults' = faults + 1
     \/ app = Absent /\ UNCHANGED faults
  /\ store' = digest
  /\ PassEnds(FALSE)
  /\ UNCHANGED <<secret, app, want, digest, rotations, hands>>

(* An outage, or a resource deleted by hand since it was listed.           *)
RequestFails ==
  /\ pc \in {"list", "put", "post"}
  /\ \/ faults < MaxFaults /\ faults' = faults + 1
     \/ pc = "put" /\ app = Absent /\ UNCHANGED faults
  /\ PassEnds(FALSE)
  /\ UNCHANGED <<secret, app, store, want, digest, rotations, hands>>

PassStep ==
  Resolve \/ ListMissing \/ Compare \/ Put \/ PutAnswerLost \/ Post
    \/ PostAnswerLost \/ RequestFails

-----------------------------------------------------------------------------
(* The users of the cluster and of the application, and the process.       *)

Rotate(s) ==
  /\ <<secret, s>> \in Rotations
  /\ rotations < MaxRotations /\ rotations' = rotations + 1
  /\ secret' = s /\ calm' = 0
  /\ UNCHANGED <<app, store, pc, want, digest, hands, faults>>

(* Of the visible fields only: a secret that somebody changes in the       *)
(* application itself cannot be told from the mask (README.md:103-104).    *)
Drift ==
  /\ app # Absent /\ app.same
  /\ hands < MaxHands /\ hands' = hands + 1
  /\ app' = [app EXCEPT !.same = FALSE] /\ calm' = 0
  /\ UNCHANGED <<secret, store, pc, want, digest, rotations, faults>>

HandDelete ==
  /\ app # Absent
  /\ hands < MaxHands /\ hands' = hands + 1
  /\ app' = Absent /\ calm' = 0
  /\ UNCHANGED <<secret, store, pc, want, digest, rotations, faults>>

(* The store is process-scoped (masked.go:31).                             *)
Restart ==
  /\ faults < MaxFaults /\ faults' = faults + 1
  /\ store' = Unseen /\ pc' = "idle" /\ calm' = 0
  /\ UNCHANGED <<secret, app, want, digest, rotations, hands>>

Next ==
  \/ PassStep
  \/ \E s \in Assignments : Rotate(s)
  \/ Drift \/ HandDelete \/ Restart

(* Every pass is requeued; users and faults owe nothing.                   *)
SafeSpec == Init /\ [][Next]_vars
FairSpec == SafeSpec /\ WF_vars(PassStep)

-----------------------------------------------------------------------------
(* Type invariant.                                                         *)
TypeOK ==
  /\ secret \in Assignments /\ want \in Assignments
  /\ app \in Cell \cup {Absent}
  /\ store \in Digests \cup {Unseen} /\ digest \in Digests
  /\ pc \in {"idle", "list", "put", "post"}
  /\ rotations \in 0..MaxRotations
  /\ hands \in 0..MaxHands
  /\ faults \in 0..MaxFaults
  /\ calm \in 0..2

(* A pass that finds the resource and writes nothing has reason to: the    *)
(* application holds the very secrets the pass resolved, whatever answers  *)
(* were lost, however the process was restarted and whoever changed the    *)
(* resource before (masked.go:27-29: remembering what was last sent is the *)
(* only way to notice a rotated secret).                                   *)
QuietPassIsHonest ==
  [][Compare /\ pc' = "idle" => app.same /\ app.held = want]_vars

(* When nothing but passes has changed anything since, at most two         *)
(* successful passes write: the cost of forgetting is bounded (masked.go:31-33). *)
TwoPassesSuffice == [][Put \/ Post => calm < 2]_vars

(* A rotated secret reaches the application: in the end the resource is as *)
(* declared and holds the values of the Secret (masked_drift_test.go:74:   *)
(* a rotated secret has to be pushed).                                     *)
RotationsArrive == <>[](app # Absent /\ app.same /\ app.held = secret)

-----------------------------------------------------------------------------
(* The inductive invariant behind TypeOK and TwoPassesSuffice: what        *)
(* successful passes have established since anything else happened.        *)
Established ==
  /\ calm > 0 =>
       /\ app # Absent /\ app.same
       /\ pc # "post"
       /\ pc # "idle" => want = secret
       /\ pc = "put" => digest = DigestOf(Fields, secret)
  /\ calm = 2 => pc # "put" /\ ~SecretsChangedSince(DigestOf(Fields, secret))

IInv == TypeOK /\ Established

(* What users have to do for a quiet pass to be honest: rotate the Secrets *)
(* in an order in which no digest, be it of a part of the fields, is that  *)
(* of all fields again.                                                    *)
GoesForth(before) ==
  /\ before \subseteq Assignments \X Assignments /\ Rotations \subseteq before
  /\ \A s \in Assignments : <<s, s>> \in before
  /\ \A s, t, u \in Assignments : <<s, t>> \in before /\ <<t, u>> \in before => <<s, u>> \in before
  /\ \A s, t \in Assignments : <<s, t>> \in before /\ <<t, s>> \in before => s = t
  /\ \A s, t \in Assignments : <<s, t>> \in before =>
       \A fs \in SUBSET Fields : DigestOf(fs, s) = DigestOf(Fields, t) => s = t

(* The inductive invariant behind QuietPassIsHonest: what is remembered was *)
(* sent, and nothing older has been sent since.                             *)
Remembered(before) ==
  /\ <<want, secret>> \in before
  /\ pc = "put" => \E fs \in SUBSET Fields : digest = DigestOf(fs, want)
  /\ store # Unseen =>
       \E fs \in SUBSET Fields, s \in Assignments :
         /\ store = DigestOf(fs, s) /\ <<s, want>> \in before
         /\ app # Absent => <<s, app.held>> \in before /\ <<app.held, want>> \in before
=============================================================================
